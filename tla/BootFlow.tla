----------------------------- MODULE BootFlow ------------------------------
(***************************************************************************)
(* BootUltra::boot_early (boot_ultra.rs) and what it starts: the forks     *)
(* that load the MMC driver and preload the radio, /persist, CatPlay, the  *)
(* radio bring-up (boot_radio.rs, hostapd_boot.rs), the USB recovery       *)
(* gadget (recovery_gadget.rs) and the watchdog that looks at hostapd ten  *)
(* seconds later.                                                          *)
(*                                                                         *)
(* Every process is an actor of its own.  A command the code runs is one   *)
(* action with the outcomes the code tells apart; modprobe is the one that *)
(* takes two steps, because the early child and the main flow load the     *)
(* same driver.  Loading in dependency order is ModulesInfo, waiting for   *)
(* the card is Radio; here a wait ends with the card or with a timeout.    *)
(* A command whose result the code ignores is taken to do its work, except *)
(* where a property depends on its failure.                                *)
(*                                                                         *)
(* p2p_allow is FALSE for every platform (boot_platform.rs), so the Wi-Fi  *)
(* Direct branch is never taken and is left out.                           *)
(***************************************************************************)
EXTENDS Integers

CONSTANTS
    Platforms,        \* subset of {"Imx", "Ingenic", "V821"}
    Targets,          \* subset of {"CatPlay", "Recovery"}: c2a_boot= on the command line
    HostapdAttempts   \* 5

ASSUME PlatformsAssumption == Platforms \subseteq {"Imx", "Ingenic", "V821"}
ASSUME TargetsAssumption == Targets \subseteq {"CatPlay", "Recovery"}
ASSUME AttemptsAssumption == HostapdAttempts \in Nat \ {0}

VARIABLES
    platform, target, chip,   \* the device that boots
    main, early, mmc, wd,     \* program counters: boot flow, radio preload, MMC loader, watchdog
    visible,                  \* the card can be detected
    driver, loader,           \* kernel state of the Wi-Fi driver and who initialises it
    wlan,                     \* /sys/class/net/wlan0 exists
    persist,                  \* "no", "mounted" or "failed"
    patched,                  \* patch_bluez_config has run
    dbus,                     \* "off", "starting" or "up": the system bus socket exists
    bluez,                    \* "off", "started", or "blind": started after the bus timed out
    dhcp,                     \* udhcpd has been configured and run for wlan0
    hostapd, attempt,         \* "off", "up" or "crashed"; attempts made
    catplay,                  \* "off", "launching", "shell", "running" or "dead"
    binary,                   \* /usr/bin/catplay_c2a is in place
    g_iphone,                 \* the CarPlay gadget module is loaded
    gadget,                   \* "off" or "up": the NCM recovery gadget
    rec, starts,              \* RecoveryGadget::start: where each caller is, calls so far
    radio_started, recovery_gadget_started

device == <<platform, target, chip>>
radioVars == <<visible, driver, loader, wlan>>
btVars == <<patched, dbus, bluez>>
apVars == <<dhcp, hostapd, attempt>>
usbVars == <<catplay, binary, g_iphone, gadget, rec, starts>>
flags == <<radio_started, recovery_gadget_started>>

vars == <<device, main, early, mmc, wd, radioVars, persist, btVars, apVars, usbVars, flags>>

Starters == {"main", "watchdog"}

\* One card of each kind the code tells apart: preloaded by the early child,
\* loaded by boot_radio only (the RTL cards too), recognised but not supported,
\* not recognised, and no card on the bus.
Cards == {"AIC8800D80", "BCM4358", "BCM4335", "Unknown", "Absent"}

Supported == {"BCM4358", "AIC8800D80"}

-----------------------------------------------------------------------------
(* Forks: a failed fork panics and ends the boot flow *)

\* Ingenic and V821 load the MMC driver in a child.
ForkMmc ==
    /\ main = "platform"
    /\ main' = "helpers"
    /\ mmc' = IF platform = "Imx" THEN "none" ELSE "loading"
    /\ UNCHANGED <<device, early, wd, radioVars, persist, btVars, apVars, usbVars, flags>>

\* fix_lo_iface, sysctls, the telnet and readahead children, and the child
\* that runs patch_bluez_config and boot_radio_early.
ForkHelpers ==
    /\ main = "helpers"
    /\ main' = "branch"
    /\ early' = "patch"
    /\ UNCHANGED <<device, mmc, wd, radioVars, persist, btVars, apVars, usbVars, flags>>

ForkPanics ==
    /\ \/ main = "platform" /\ platform # "Imx"
       \/ main = "helpers"
       \/ main = "watch" /\ radio_started /\ ~recovery_gadget_started
    /\ main' = "dead"
    /\ UNCHANGED <<device, early, mmc, wd, radioVars, persist, btVars, apVars, usbVars, flags>>

\* The MMC child exits; from then on, or from the start on Imx, cards enumerate.
MmcLoaded ==
    /\ mmc = "loading"
    /\ mmc' = "none"
    /\ UNCHANGED <<device, main, early, wd, radioVars, persist, btVars, apVars, usbVars, flags>>

CardAppears ==
    /\ ~visible /\ chip # "Absent" /\ mmc = "none"
    /\ platform # "Imx" => main # "platform"
    /\ visible' = TRUE
    /\ UNCHANGED <<device, main, early, mmc, wd, driver, loader, wlan, persist, btVars, apVars, usbVars, flags>>

-----------------------------------------------------------------------------
(* The kernel's side of modprobe for the Wi-Fi driver *)

\* A process that asks for the driver initialises it, waits for the one that
\* does, or finds it live (EEXIST, which finit_module takes for success).
Initialise(p) ==
    /\ driver = "absent"
    /\ driver' = "coming" /\ loader' = p

LoadEnds(p, ok) ==
    /\ driver = "coming" /\ loader = p
    /\ driver' = IF ok THEN "live" ELSE "absent"
    /\ loader' = "nobody"

WlanAppears ==
    /\ driver = "live" /\ ~wlan
    /\ wlan' = TRUE
    /\ UNCHANGED <<device, main, early, mmc, wd, visible, driver, loader, persist, btVars, apVars, usbVars, flags>>

-----------------------------------------------------------------------------
(* The early radio child *)

\* Mutant: the bus is started before the configuration is replaced.
EarlyPatch_BusFirst ==
    /\ early = "patch"
    /\ early' = "dbus"
    /\ dbus' = "starting"
    /\ UNCHANGED <<device, main, mmc, wd, radioVars, persist, patched, bluez, apVars, usbVars, flags>>

EarlyPatch ==
    /\ early = "patch"
    /\ early' = "dbus"
    /\ patched' = TRUE
    /\ UNCHANGED <<device, main, mmc, wd, radioVars, persist, dbus, bluez, apVars, usbVars, flags>>

EarlyDbus ==
    /\ early = "dbus"
    /\ early' = "detect"
    /\ dbus' = IF dbus = "off" THEN "starting" ELSE dbus
    /\ UNCHANGED <<device, main, mmc, wd, radioVars, persist, patched, bluez, apVars, usbVars, flags>>

\* detect_or_timeout: only AIC8800D80 is preloaded.
EarlyDetect ==
    /\ early = "detect"
    /\ early' = IF visible /\ chip = "AIC8800D80" THEN "probe" ELSE "done"
    /\ UNCHANGED <<device, main, mmc, wd, radioVars, persist, btVars, apVars, usbVars, flags>>

EarlyProbe ==
    /\ early = "probe"
    /\ \/ Initialise("early") /\ early' = "loading"
       \/ driver = "live" /\ early' = "done" /\ UNCHANGED <<driver, loader>>
    /\ UNCHANGED <<device, main, mmc, wd, visible, wlan, persist, btVars, apVars, usbVars, flags>>

\* modprobe returns; its result is ignored.
EarlyLoaded ==
    /\ early = "loading"
    /\ \E ok \in BOOLEAN : LoadEnds("early", ok)
    /\ early' = "done"
    /\ UNCHANGED <<device, main, mmc, wd, visible, wlan, persist, btVars, apVars, usbVars, flags>>

\* The background "dbus-1 start" creates the socket.
DbusUp ==
    /\ dbus = "starting"
    /\ dbus' = "up"
    /\ UNCHANGED <<device, main, early, mmc, wd, radioVars, persist, patched, bluez, apVars, usbVars, flags>>

-----------------------------------------------------------------------------
(* The main flow up to the radio *)

\* g_iphone, or the recovery gadget; the result of the modprobe is ignored.
Branch ==
    /\ main = "branch"
    /\ \/ /\ target = "CatPlay"
          /\ main' = "persist"
          /\ g_iphone' \in BOOLEAN
          /\ UNCHANGED <<rec, starts>>
       \/ /\ target = "Recovery"
          /\ main' = "early_gadget"
          /\ rec' = [rec EXCEPT !["main"] = "stop"]
          /\ starts' = starts + 1
          /\ UNCHANGED g_iphone
    /\ UNCHANGED <<device, early, mmc, wd, radioVars, persist, btVars, apVars, catplay, binary, gadget, flags>>

\* start_best_effort has returned: the flag is set whether it worked or not.
EarlyGadgetReturns ==
    /\ main = "early_gadget" /\ rec["main"] = "ended"
    /\ main' = "persist"
    /\ recovery_gadget_started' = TRUE
    /\ UNCHANGED <<device, early, mmc, wd, radioVars, persist, btVars, apVars, usbVars, radio_started>>

\* mount_persist unless in recovery, then the overlay directories and link.
MountPersist ==
    /\ main = "persist"
    /\ persist' \in IF target = "Recovery" THEN {persist} ELSE {"mounted", "failed"}
    /\ main' = "catplay"
    /\ UNCHANGED <<device, early, mmc, wd, radioVars, btVars, apVars, usbVars, flags>>

\* CatPlay::start: the configuration, then the init script in the background.
StartCatPlay ==
    /\ main = "catplay"
    /\ catplay' \in IF target = "CatPlay" THEN {"off", "launching"} ELSE {"off"}
    /\ main' = "detect"
    /\ UNCHANGED <<device, early, mmc, wd, radioVars, persist, btVars, apVars, binary, g_iphone, gadget, rec, starts, flags>>

\* start-stop-daemon writes the pid file and forks the shell.
CatPlayShell ==
    /\ catplay = "launching"
    /\ catplay' = "shell"
    /\ UNCHANGED <<device, main, early, mmc, wd, radioVars, persist, btVars, apVars, binary, g_iphone, gadget, rec, starts, flags>>

CatPlayExec ==
    /\ catplay = "shell"
    /\ catplay' = IF binary THEN "running" ELSE "dead"
    /\ UNCHANGED <<device, main, early, mmc, wd, radioVars, persist, btVars, apVars, binary, g_iphone, gadget, rec, starts, flags>>

-----------------------------------------------------------------------------
(* boot_radio and hostapd *)

\* An error return of boot_radio or Hostapd::start.
RadioFails ==
    /\ main' = "outcome"
    /\ radio_started' = FALSE

\* detect, or detect_or_timeout when Offline; Offline and Unknown are errors.
RadioDetect ==
    /\ main = "detect"
    /\ \/ visible /\ chip # "Unknown" /\ main' = "bluez" /\ UNCHANGED radio_started
       \/ (~visible \/ chip = "Unknown") /\ RadioFails
    /\ UNCHANGED <<device, early, mmc, wd, radioVars, persist, btVars, apVars, usbVars, recovery_gadget_started>>

\* fork_bluez: wait up to two seconds for the bus, then start BlueZ anyway.
ForkBluez ==
    /\ main = "bluez"
    /\ bluez' = IF dbus = "up" THEN "started" ELSE "blind"
    /\ main' = "probe"
    /\ UNCHANGED <<device, early, mmc, wd, radioVars, persist, patched, dbus, apVars, usbVars, flags>>

\* Mutant: a driver that the other process still initialises counts as loaded.
RadioProbe_Busy ==
    /\ main = "probe"
    /\ \/ /\ chip \notin Supported
          /\ RadioFails /\ UNCHANGED <<driver, loader>>
       \/ /\ chip \in Supported /\ Initialise("main")
          /\ main' = "loading" /\ UNCHANGED radio_started
       \/ /\ chip \in Supported /\ driver # "absent"
          /\ main' = "wlan" /\ UNCHANGED <<driver, loader, radio_started>>
    /\ UNCHANGED <<device, early, mmc, wd, visible, wlan, persist, btVars, apVars, usbVars, recovery_gadget_started>>

RadioProbe ==
    /\ main = "probe"
    /\ \/ /\ chip \notin Supported
          /\ RadioFails /\ UNCHANGED <<driver, loader>>
       \/ /\ chip \in Supported /\ Initialise("main")
          /\ main' = "loading" /\ UNCHANGED radio_started
       \/ /\ chip \in Supported /\ driver = "live"
          /\ main' = "wlan" /\ UNCHANGED <<driver, loader, radio_started>>
    /\ UNCHANGED <<device, early, mmc, wd, visible, wlan, persist, btVars, apVars, usbVars, recovery_gadget_started>>

RadioLoaded ==
    /\ main = "loading"
    /\ \/ LoadEnds("main", TRUE) /\ main' = "wlan" /\ UNCHANGED radio_started
       \/ LoadEnds("main", FALSE) /\ RadioFails
    /\ UNCHANGED <<device, early, mmc, wd, visible, wlan, persist, btVars, apVars, usbVars, recovery_gadget_started>>

\* Mutant: the result of wait_file is ignored.
WaitWlan_Ignored ==
    /\ main = "wlan"
    /\ main' = "hci" /\ UNCHANGED radio_started
    /\ UNCHANGED <<device, early, mmc, wd, radioVars, persist, btVars, apVars, usbVars, recovery_gadget_started>>

\* wait_file(wlan0, 10): it is there, or the wait times out.
WaitWlan ==
    /\ main = "wlan"
    /\ \/ wlan /\ main' = "hci" /\ UNCHANGED radio_started
       \/ ~wlan /\ RadioFails
    /\ UNCHANGED <<device, early, mmc, wd, radioVars, persist, btVars, apVars, usbVars, recovery_gadget_started>>

\* modprobe hci_uart, setup_wlan (results ignored) and udhcpd.
FinishRadio ==
    /\ main = "hci"
    /\ \/ main' = "hostapd" /\ dhcp' = TRUE /\ UNCHANGED radio_started
       \/ RadioFails /\ UNCHANGED dhcp
    /\ UNCHANGED <<device, early, mmc, wd, radioVars, persist, btVars, hostapd, attempt, usbVars, recovery_gadget_started>>

\* Mutant: one attempt too many.
StartHostapd_OneMore ==
    /\ main = "hostapd"
    /\ \/ attempt = 0 /\ RadioFails /\ UNCHANGED <<attempt, hostapd>>
       \/ /\ attempt' = attempt + 1
          /\ hostapd' = "up" /\ main' = "outcome" /\ UNCHANGED radio_started
       \/ /\ attempt' = attempt + 1
          /\ IF attempt = HostapdAttempts THEN RadioFails ELSE UNCHANGED <<main, radio_started>>
          /\ UNCHANGED hostapd
    /\ UNCHANGED <<device, early, mmc, wd, radioVars, persist, btVars, dhcp, usbVars, recovery_gadget_started>>

\* Mutant: after the last attempt it starts over.
StartHostapd_Forever ==
    /\ main = "hostapd"
    /\ \/ attempt = 0 /\ RadioFails /\ UNCHANGED <<attempt, hostapd>>
       \/ /\ attempt' = (attempt + 1) % HostapdAttempts
          /\ hostapd' = "up" /\ main' = "outcome" /\ UNCHANGED radio_started
       \/ /\ attempt' = (attempt + 1) % HostapdAttempts
          /\ UNCHANGED <<main, radio_started, hostapd>>
    /\ UNCHANGED <<device, early, mmc, wd, radioVars, persist, btVars, dhcp, usbVars, recovery_gadget_started>>

\* Hostapd::start: the configuration cannot be written, or the init script is
\* run until it returns zero, at most HostapdAttempts times.
StartHostapd ==
    /\ main = "hostapd"
    /\ \/ attempt = 0 /\ RadioFails /\ UNCHANGED <<attempt, hostapd>>
       \/ /\ attempt' = attempt + 1
          /\ hostapd' = "up" /\ main' = "outcome" /\ UNCHANGED radio_started
       \/ /\ attempt' = attempt + 1
          /\ IF attempt' = HostapdAttempts THEN RadioFails ELSE UNCHANGED <<main, radio_started>>
          /\ UNCHANGED hostapd
    /\ UNCHANGED <<device, early, mmc, wd, radioVars, persist, btVars, dhcp, usbVars, recovery_gadget_started>>

HostapdCrashes ==
    /\ hostapd = "up"
    /\ hostapd' = "crashed"
    /\ UNCHANGED <<device, main, early, mmc, wd, radioVars, persist, btVars, dhcp, attempt, usbVars, flags>>

-----------------------------------------------------------------------------
(* The outcome, the watchdog and the recovery gadget *)

\* Mutant: a gadget that is already there is started again.
Outcome_Always ==
    /\ main = "outcome"
    /\ IF ~radio_started
       THEN /\ main' = "late_gadget"
            /\ rec' = [rec EXCEPT !["main"] = "stop"]
            /\ starts' = starts + 1
       ELSE main' = "watch" /\ UNCHANGED <<rec, starts>>
    /\ UNCHANGED <<device, early, mmc, wd, radioVars, persist, btVars, apVars, catplay, binary, g_iphone, gadget, flags>>

\* Mutant: no recovery gadget when the radio fails.
Outcome_Never ==
    /\ main = "outcome"
    /\ main' = "watch"
    /\ UNCHANGED <<device, early, mmc, wd, radioVars, persist, btVars, apVars, usbVars, flags>>

Outcome ==
    /\ main = "outcome"
    /\ IF ~radio_started /\ ~recovery_gadget_started
       THEN /\ main' = "late_gadget"
            /\ rec' = [rec EXCEPT !["main"] = "stop"]
            /\ starts' = starts + 1
       ELSE main' = "watch" /\ UNCHANGED <<rec, starts>>
    /\ UNCHANGED <<device, early, mmc, wd, radioVars, persist, btVars, apVars, catplay, binary, g_iphone, gadget, flags>>

LateGadgetReturns ==
    /\ main = "late_gadget" /\ rec["main"] = "ended"
    /\ main' = "watch"
    /\ UNCHANGED <<device, early, mmc, wd, radioVars, persist, btVars, apVars, usbVars, flags>>

\* Fork the watchdog when the radio came up and no gadget runs.
ForkWatchdog ==
    /\ main = "watch"
    /\ main' = "done"
    /\ wd' = IF radio_started /\ ~recovery_gadget_started THEN "sleep" ELSE wd
    /\ UNCHANGED <<device, early, mmc, radioVars, persist, btVars, apVars, usbVars, flags>>

\* Mutant: the watchdog takes a crashed hostapd for a stable one.
WatchdogLooks_Blind ==
    /\ wd = "sleep"
    /\ wd' = "done"
    /\ UNCHANGED <<device, main, early, mmc, radioVars, persist, btVars, apVars, usbVars, flags>>

\* Ten seconds later: ps | grep hostapd.  An error, also one of run_shell
\* itself, is taken for a crash.
WatchdogLooks ==
    /\ wd = "sleep"
    /\ \/ hostapd = "up" /\ wd' = "done" /\ UNCHANGED <<rec, starts>>
       \/ /\ wd' = "gadget"
          /\ rec' = [rec EXCEPT !["watchdog"] = "stop"]
          /\ starts' = starts + 1
    /\ UNCHANGED <<device, main, early, mmc, radioVars, persist, btVars, apVars, catplay, binary, g_iphone, gadget, flags>>

WatchdogReturns ==
    /\ wd = "gadget" /\ rec["watchdog"] = "ended"
    /\ wd' = "done"
    /\ UNCHANGED <<device, main, early, mmc, radioVars, persist, btVars, apVars, usbVars, flags>>

\* prepare_cleanup, command by command.  "catplay stop" ends the process of
\* the pid file: the shell, and CatPlay too when the shell has exec'd it.
GadgetStop(p) ==
    /\ rec[p] = "stop"
    /\ catplay' \in CASE catplay = "shell" -> {"dead"}
                      [] catplay = "running" -> {"dead", "running"}
                      [] OTHER -> {catplay}
    /\ rec' = [rec EXCEPT ![p] = "kill"]
    /\ UNCHANGED <<device, main, early, mmc, wd, radioVars, persist, btVars, apVars, binary, g_iphone, gadget, starts, flags>>

GadgetKill(p) ==
    /\ rec[p] = "kill"
    /\ catplay' = IF catplay = "running" THEN "dead" ELSE catplay
    /\ rec' = [rec EXCEPT ![p] = "move"]
    /\ UNCHANGED <<device, main, early, mmc, wd, radioVars, persist, btVars, apVars, binary, g_iphone, gadget, starts, flags>>

GadgetMove(p) ==
    /\ rec[p] = "move"
    /\ binary' = FALSE
    /\ rec' = [rec EXCEPT ![p] = "rmmod"]
    /\ UNCHANGED <<device, main, early, mmc, wd, radioVars, persist, btVars, apVars, catplay, g_iphone, gadget, starts, flags>>

\* Ten tries: they are in vain only while CatPlay holds the device.
GadgetUnload(p) ==
    /\ rec[p] = "rmmod"
    /\ g_iphone' \in IF g_iphone /\ catplay = "running" THEN BOOLEAN ELSE {FALSE}
    /\ rec' = [rec EXCEPT ![p] = "create"]
    /\ UNCHANGED <<device, main, early, mmc, wd, radioVars, persist, btVars, apVars, catplay, binary, gadget, starts, flags>>

\* create_ncm_gadget, configure_network and udhcpd; the UDC is busy while
\* g_iphone is bound to it, and any other command may fail.
GadgetCreate(p) ==
    /\ rec[p] = "create"
    /\ gadget' \in IF g_iphone THEN {gadget} ELSE {gadget, "up"}
    /\ rec' = [rec EXCEPT ![p] = "ended"]
    /\ UNCHANGED <<device, main, early, mmc, wd, radioVars, persist, btVars, apVars, catplay, binary, g_iphone, starts, flags>>

-----------------------------------------------------------------------------
Init ==
    /\ platform \in Platforms /\ target \in Targets /\ chip \in Cards
    /\ main = "platform" /\ early = "off" /\ mmc = "none" /\ wd = "off"
    /\ visible = FALSE /\ driver = "absent" /\ loader = "nobody" /\ wlan = FALSE
    /\ persist = "no"
    /\ patched = FALSE /\ dbus = "off" /\ bluez = "off"
    /\ dhcp = FALSE /\ hostapd = "off" /\ attempt = 0
    /\ catplay = "off" /\ binary = TRUE /\ g_iphone = FALSE /\ gadget = "off"
    /\ rec = [p \in Starters |-> "idle"] /\ starts = 0
    /\ radio_started = TRUE /\ recovery_gadget_started = FALSE

Main ==
    \/ ForkMmc \/ ForkHelpers
    \/ Branch \/ EarlyGadgetReturns \/ MountPersist \/ StartCatPlay
    \/ RadioDetect \/ ForkBluez \/ RadioProbe \/ RadioLoaded \/ WaitWlan \/ FinishRadio
    \/ StartHostapd \/ Outcome \/ LateGadgetReturns \/ ForkWatchdog

Early == EarlyPatch \/ EarlyDbus \/ EarlyDetect \/ EarlyProbe \/ EarlyLoaded

Watchdog == WatchdogLooks \/ WatchdogReturns

Gadget(p) == GadgetStop(p) \/ GadgetKill(p) \/ GadgetMove(p) \/ GadgetUnload(p) \/ GadgetCreate(p)

Background == CatPlayShell \/ CatPlayExec \/ DbusUp

Next ==
    \/ Main \/ Early \/ Watchdog \/ MmcLoaded \/ Background
    \/ \E p \in Starters : Gadget(p)
    \/ ForkPanics \/ CardAppears \/ WlanAppears \/ HostapdCrashes

Spec == Init /\ [][Next]_vars

\* Every process is scheduled and every command it runs returns; cards,
\* interfaces and crashes happen or not.
FairSpec ==
    /\ Spec
    /\ WF_vars(Main) /\ WF_vars(Early) /\ WF_vars(Watchdog)
    /\ \A p \in Starters : WF_vars(Gadget(p))

-----------------------------------------------------------------------------
(* Every variable keeps its type; in particular boot_radio and hostapd are *)
(* not retried beyond their limits.                                        *)
TypeOK ==
    /\ platform \in Platforms /\ target \in Targets /\ chip \in Cards
    /\ main \in {"platform", "helpers", "branch", "early_gadget", "persist", "catplay", "detect",
                 "bluez", "probe", "loading", "wlan", "hci", "hostapd", "outcome", "late_gadget",
                 "watch", "done", "dead"}
    /\ early \in {"off", "patch", "dbus", "detect", "probe", "loading", "done"}
    /\ mmc \in {"none", "loading"} /\ wd \in {"off", "sleep", "gadget", "done"}
    /\ visible \in BOOLEAN /\ wlan \in BOOLEAN
    /\ driver \in {"absent", "coming", "live"} /\ loader \in {"nobody", "early", "main"}
    /\ persist \in {"no", "mounted", "failed"}
    /\ patched \in BOOLEAN
    /\ dbus \in {"off", "starting", "up"} /\ bluez \in {"off", "started", "blind"}
    /\ dhcp \in BOOLEAN /\ hostapd \in {"off", "up", "crashed"} /\ attempt \in 0 .. HostapdAttempts
    /\ catplay \in {"off", "launching", "shell", "running", "dead"}
    /\ binary \in BOOLEAN /\ g_iphone \in BOOLEAN /\ gadget \in {"off", "up"}
    /\ rec \in [Starters -> {"idle", "stop", "kill", "move", "rmmod", "create", "ended"}]
    /\ starts \in 0 .. 2
    /\ radio_started \in BOOLEAN /\ recovery_gadget_started \in BOOLEAN

(* The recovery gadget is set up at most once: the recovery branch, the    *)
(* failed radio and the watchdog exclude each other.  A second setup would *)
(* tear down the gadget an operator is connected through.                  *)
GadgetOnce == starts <= 1

(* BlueZ is not started on the stock configuration unless the bus was      *)
(* late: the child runs patch_bluez_config before it starts the bus, and   *)
(* the main flow starts BlueZ after it has seen the bus, so the two        *)
(* processes agree although nothing else orders them.                      *)
BluezReadsPatched == bluez = "started" => patched

(* An access point is announced only on an interface that exists, with its *)
(* driver initialised and udhcpd run, whichever of the two processes       *)
(* loaded the driver.                                                      *)
ApComplete == hostapd = "up" => driver = "live" /\ wlan /\ dhcp

(* Two processes never initialise the driver at the same time, and none    *)
(* goes on as if the other's initialisation had already succeeded.         *)
LoadersAgree ==
    /\ ~(early = "loading" /\ main = "loading")
    /\ main \in {"wlan", "hci", "hostapd"} => driver = "live"

(* When the boot flow is over there is a way into the device: the radio    *)
(* came up, or the recovery gadget has been started.                       *)
WayIn ==
    main = "done" => \/ starts = 1
                     \/ hostapd # "off" /\ radio_started

(* The boot flow ends, whatever fails, unless a fork panics.               *)
BootEnds == <>(main \in {"done", "dead"})

(* A hostapd that dies before the watchdog looks is replaced by the        *)
(* recovery gadget.                                                        *)
CrashCaught == (hostapd = "crashed" /\ wd = "sleep") ~> rec["watchdog"] = "ended"

(* fork_bluez: "BlueZ depends on /persist so it's expected to be mounted   *)
(* at this stage".                                                         *)
BluezHasPersist == bluez # "off" => persist = "mounted"

(* prepare_cleanup: "Stop service first, then hard-kill leftovers." After  *)
(* it no CatPlay runs beside the recovery gadget.                          *)
NoLeftover == \A p \in Starters : rec[p] \in {"create", "ended"} => catplay # "running"
=============================================================================
