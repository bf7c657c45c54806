--------------------------- MODULE BootFlowProofs ---------------------------
(***************************************************************************)
(* The boot flow's safety properties for every set of platforms and boot   *)
(* targets and every number of hostapd attempts.                           *)
(***************************************************************************)
EXTENDS BootFlow, TLAPS

\* The main flow before the branch on the boot target, before the radio is
\* settled, and after.
Starting == {"platform", "helpers", "branch"}
BringUp == {"persist", "catplay", "detect", "bluez", "probe", "loading", "wlan", "hci", "hostapd"}
Settled == {"outcome", "watch", "done"}

\* Who initialises the driver, and what follows from it being live.
DriverInv ==
    /\ driver = "coming" => loader # "nobody"
    /\ early = "loading" => driver = "coming" /\ loader = "early"
    /\ main = "loading" => driver = "coming" /\ loader = "main"
    /\ wlan => driver = "live"

\* How far the access point is, by the place of the main flow.
ApInv ==
    /\ main \in {"hci", "hostapd"} => wlan
    /\ main = "hostapd" => dhcp
    /\ hostapd # "off" => wlan /\ dhcp
    /\ main \in Starting \union BringUp \union {"early_gadget"} => attempt < HostapdAttempts

\* The order in which the early child works.
BusInv ==
    /\ early \notin {"off", "patch"} => patched
    /\ dbus # "off" => patched

\* Which callers have started the recovery gadget.
CountInv ==
    /\ starts <= 1
    /\ main \in Starting => starts = 0 /\ ~recovery_gadget_started
    /\ main \in {"early_gadget", "late_gadget"} => starts = 1
    /\ main = "late_gadget" => ~radio_started
    /\ main \in BringUp \union {"outcome"} /\ ~recovery_gadget_started => starts = 0
    /\ main \in {"watch", "done"} /\ ~radio_started => starts = 1
    /\ main = "watch" /\ radio_started /\ ~recovery_gadget_started => starts = 0
    /\ recovery_gadget_started => starts = 1
    /\ wd # "off" => main = "done"
    /\ wd = "sleep" => starts = 0
    /\ main \in Starting \union BringUp \union {"early_gadget"} => radio_started
    /\ main \in Settled /\ radio_started => hostapd # "off"

IInv ==
    /\ TypeOK
    /\ DriverInv
    /\ ApInv
    /\ BusInv
    /\ CountInv
    /\ BluezReadsPatched
    /\ LoadersAgree

USE DEF Starting, BringUp, Settled

LEMMA InitInv == Init => IInv
<1> SUFFICES ASSUME Init PROVE IInv
  OBVIOUS
<1>1. TypeOK
  <2>1. /\ visible \in BOOLEAN /\ wlan \in BOOLEAN /\ patched \in BOOLEAN /\ dhcp \in BOOLEAN
        /\ binary \in BOOLEAN /\ g_iphone \in BOOLEAN
        /\ radio_started \in BOOLEAN /\ recovery_gadget_started \in BOOLEAN
    BY DEF Init
  <2>2. attempt \in 0 .. HostapdAttempts /\ starts \in 0 .. 2
    BY AttemptsAssumption DEF Init
  <2>3. QED BY <2>1, <2>2 DEF Init, TypeOK
<1>2. DriverInv /\ ApInv /\ BusInv /\ CountInv /\ BluezReadsPatched /\ LoadersAgree
  BY AttemptsAssumption DEF Init, DriverInv, ApInv, BusInv, CountInv, BluezReadsPatched, LoadersAgree
<1>3. QED BY <1>1, <1>2 DEF IInv

(* The main flow up to the radio. *)
LEMMA MainStart ==
    ASSUME IInv, ForkMmc \/ ForkHelpers \/ ForkPanics \/ Branch \/ EarlyGadgetReturns \/ MountPersist \/ StartCatPlay
    PROVE  IInv'
<1> USE AttemptsAssumption DEF IInv, TypeOK, DriverInv, ApInv, BusInv, CountInv, BluezReadsPatched, LoadersAgree
<1>1. CASE ForkMmc
  BY <1>1 DEF ForkMmc, device, radioVars, btVars, apVars, usbVars, flags
<1>2. CASE ForkHelpers
  BY <1>2 DEF ForkHelpers, device, radioVars, btVars, apVars, usbVars, flags
<1>3. CASE ForkPanics
  BY <1>3 DEF ForkPanics, device, radioVars, btVars, apVars, usbVars, flags
<1>4. CASE Branch
  BY <1>4 DEF Branch, device, radioVars, btVars, apVars, flags
<1>5. CASE EarlyGadgetReturns
  BY <1>5 DEF EarlyGadgetReturns, device, radioVars, btVars, apVars, usbVars
<1>6. CASE MountPersist
  BY <1>6 DEF MountPersist, device, radioVars, btVars, apVars, usbVars, flags
<1>7. CASE StartCatPlay
  BY <1>7 DEF StartCatPlay, device, radioVars, btVars, apVars, flags
<1>8. QED BY <1>1, <1>2, <1>3, <1>4, <1>5, <1>6, <1>7

(* The main flow brings the radio up. *)
LEMMA MainRadio ==
    ASSUME IInv, RadioDetect \/ ForkBluez \/ RadioProbe \/ RadioLoaded \/ WaitWlan \/ FinishRadio \/ StartHostapd
    PROVE  IInv'
<1> USE AttemptsAssumption DEF IInv, TypeOK, DriverInv, ApInv, BusInv, CountInv, BluezReadsPatched, LoadersAgree
<1>1. CASE RadioDetect
  <2>1. TypeOK'
    <3>1. main' \in {"bluez", "outcome"} /\ radio_started' \in BOOLEAN
      BY <1>1 DEF RadioDetect, RadioFails, device, radioVars, btVars, apVars, usbVars
    <3>2. UNCHANGED <<platform, target, chip, early, mmc, wd, visible, driver, loader, wlan, persist, patched, dbus,
                     bluez, dhcp, hostapd, attempt, catplay, binary, g_iphone, gadget, rec, starts, recovery_gadget_started>>
      BY <1>1 DEF RadioDetect, RadioFails, device, radioVars, btVars, apVars, usbVars
    <3>3. QED BY <3>1, <3>2
  <2>2. DriverInv' /\ ApInv' /\ BusInv' /\ BluezReadsPatched' /\ LoadersAgree'
    BY <1>1 DEF RadioDetect, RadioFails, device, radioVars, btVars, apVars, usbVars
  <2>3. CountInv'
    BY <1>1 DEF RadioDetect, RadioFails, device, radioVars, btVars, apVars, usbVars
  <2>4. QED BY <2>1, <2>2, <2>3
<1>2. CASE ForkBluez
  BY <1>2 DEF ForkBluez, device, radioVars, apVars, usbVars, flags
<1>3. CASE RadioProbe
  <2>1. TypeOK'
    <3>1. main' \in {"outcome", "loading", "wlan"} /\ radio_started' \in BOOLEAN
      BY <1>3 DEF RadioProbe, RadioFails, Initialise, Supported, device, btVars, apVars, usbVars
    <3>2. driver' \in {"absent", "coming", "live"} /\ loader' \in {"nobody", "early", "main"}
      BY <1>3 DEF RadioProbe, RadioFails, Initialise, Supported, device, btVars, apVars, usbVars
    <3>3. UNCHANGED <<platform, target, chip, early, mmc, wd, visible, wlan, persist, patched, dbus, bluez, dhcp,
                     hostapd, attempt, catplay, binary, g_iphone, gadget, rec, starts, recovery_gadget_started>>
      BY <1>3 DEF RadioProbe, RadioFails, Initialise, Supported, device, btVars, apVars, usbVars
    <3>4. QED BY <3>1, <3>2, <3>3
  <2>2. DriverInv' /\ ApInv' /\ BusInv' /\ BluezReadsPatched' /\ LoadersAgree'
    BY <1>3 DEF RadioProbe, RadioFails, Initialise, Supported, device, btVars, apVars, usbVars
  <2>3. CountInv'
    BY <1>3 DEF RadioProbe, RadioFails, Initialise, Supported, device, btVars, apVars, usbVars
  <2>4. QED BY <2>1, <2>2, <2>3
<1>4. CASE RadioLoaded
  <2>1. TypeOK'
    <3>1. main' \in {"outcome", "wlan"} /\ radio_started' \in BOOLEAN
      BY <1>4 DEF RadioLoaded, RadioFails, LoadEnds, device, btVars, apVars, usbVars
    <3>2. driver' \in {"absent", "coming", "live"} /\ loader' \in {"nobody", "early", "main"}
      BY <1>4 DEF RadioLoaded, RadioFails, LoadEnds, device, btVars, apVars, usbVars
    <3>3. UNCHANGED <<platform, target, chip, early, mmc, wd, visible, wlan, persist, patched, dbus, bluez, dhcp,
                     hostapd, attempt, catplay, binary, g_iphone, gadget, rec, starts, recovery_gadget_started>>
      BY <1>4 DEF RadioLoaded, RadioFails, LoadEnds, device, btVars, apVars, usbVars
    <3>4. QED BY <3>1, <3>2, <3>3
  <2>2. DriverInv' /\ ApInv' /\ BusInv' /\ BluezReadsPatched' /\ LoadersAgree'
    BY <1>4 DEF RadioLoaded, RadioFails, LoadEnds, device, btVars, apVars, usbVars
  <2>3. CountInv'
    BY <1>4 DEF RadioLoaded, RadioFails, LoadEnds, device, btVars, apVars, usbVars
  <2>4. QED BY <2>1, <2>2, <2>3
<1>5. CASE WaitWlan
  <2>1. TypeOK'
    <3>1. main' \in {"outcome", "hci"} /\ radio_started' \in BOOLEAN
      BY <1>5 DEF WaitWlan, RadioFails, device, radioVars, btVars, apVars, usbVars
    <3>2. UNCHANGED <<platform, target, chip, early, mmc, wd, visible, driver, loader, wlan, persist, patched, dbus,
                     bluez, dhcp, hostapd, attempt, catplay, binary, g_iphone, gadget, rec, starts, recovery_gadget_started>>
      BY <1>5 DEF WaitWlan, RadioFails, device, radioVars, btVars, apVars, usbVars
    <3>3. QED BY <3>1, <3>2
  <2>2. DriverInv' /\ ApInv' /\ BusInv' /\ BluezReadsPatched' /\ LoadersAgree'
    BY <1>5 DEF WaitWlan, RadioFails, device, radioVars, btVars, apVars, usbVars
  <2>3. CountInv'
    BY <1>5 DEF WaitWlan, RadioFails, device, radioVars, btVars, apVars, usbVars
  <2>4. QED BY <2>1, <2>2, <2>3
<1>6. CASE FinishRadio
  <2>1. TypeOK'
    <3>1. main' \in {"outcome", "hostapd"} /\ radio_started' \in BOOLEAN
      BY <1>6 DEF FinishRadio, RadioFails, device, radioVars, btVars, usbVars
    <3>2. dhcp' \in BOOLEAN
      BY <1>6 DEF FinishRadio, RadioFails, device, radioVars, btVars, usbVars
    <3>3. UNCHANGED <<platform, target, chip, early, mmc, wd, visible, driver, loader, wlan, persist, patched, dbus,
                     bluez, hostapd, attempt, catplay, binary, g_iphone, gadget, rec, starts, recovery_gadget_started>>
      BY <1>6 DEF FinishRadio, RadioFails, device, radioVars, btVars, usbVars
    <3>4. QED BY <3>1, <3>2, <3>3
  <2>2. DriverInv' /\ ApInv' /\ BusInv' /\ BluezReadsPatched' /\ LoadersAgree'
    BY <1>6 DEF FinishRadio, RadioFails, device, radioVars, btVars, usbVars
  <2>3. CountInv'
    BY <1>6 DEF FinishRadio, RadioFails, device, radioVars, btVars, usbVars
  <2>4. QED BY <2>1, <2>2, <2>3
<1>7. CASE StartHostapd
  <2> DEFINE Ended == main' = "outcome" /\ attempt' \in {attempt, attempt + 1}
             Again == main' = "hostapd" /\ attempt' = attempt + 1 /\ attempt' # HostapdAttempts
  <2>1. Ended \/ Again
    BY <1>7 DEF StartHostapd, RadioFails
  <2>2. main = "hostapd" /\ attempt \in 0 .. HostapdAttempts /\ attempt < HostapdAttempts
    BY <1>7 DEF StartHostapd
  <2>3. attempt' \in 0 .. HostapdAttempts /\ (main' # "outcome" => attempt' < HostapdAttempts)
    BY ONLY <2>1, <2>2, AttemptsAssumption
  <2>4. hostapd' \in {"off", "up", "crashed"} /\ main' \in {"outcome", "hostapd"} /\ radio_started' \in BOOLEAN
    BY <1>7 DEF StartHostapd, RadioFails
  <2>5. UNCHANGED <<platform, target, chip, early, mmc, wd, visible, driver, loader, wlan, persist, patched, dbus,
                    bluez, dhcp, catplay, binary, g_iphone, gadget, rec, starts, recovery_gadget_started>>
    BY <1>7 DEF StartHostapd, RadioFails, device, radioVars, btVars, usbVars
  <2>6. TypeOK'
    BY <2>3, <2>4, <2>5
  <2>7. DriverInv' /\ ApInv' /\ BusInv' /\ BluezReadsPatched' /\ LoadersAgree'
    BY <2>2, <2>3, <2>4, <2>5
  <2>8. CountInv'
    BY <1>7 DEF StartHostapd, RadioFails, device, radioVars, btVars, usbVars
  <2>9. QED BY <2>6, <2>7, <2>8
<1>8. QED BY <1>1, <1>2, <1>3, <1>4, <1>5, <1>6, <1>7

(* The main flow after the radio, and the watchdog. *)
LEMMA MainEnd ==
    ASSUME IInv, Outcome \/ LateGadgetReturns \/ ForkWatchdog \/ WatchdogLooks \/ WatchdogReturns
    PROVE  IInv'
<1> USE AttemptsAssumption DEF IInv, TypeOK, DriverInv, ApInv, BusInv, CountInv, BluezReadsPatched, LoadersAgree
<1>1. CASE Outcome
  BY <1>1 DEF Outcome, device, radioVars, btVars, apVars, flags
<1>2. CASE LateGadgetReturns
  BY <1>2 DEF LateGadgetReturns, device, radioVars, btVars, apVars, usbVars, flags
<1>3. CASE ForkWatchdog
  BY <1>3 DEF ForkWatchdog, device, radioVars, btVars, apVars, usbVars, flags
<1>4. CASE WatchdogLooks
  BY <1>4 DEF WatchdogLooks, device, radioVars, btVars, apVars, flags
<1>5. CASE WatchdogReturns
  BY <1>5 DEF WatchdogReturns, device, radioVars, btVars, apVars, usbVars, flags
<1>6. QED BY <1>1, <1>2, <1>3, <1>4, <1>5

(* The early child. *)
LEMMA EarlyStep ==
    ASSUME IInv, EarlyPatch \/ EarlyDbus \/ EarlyDetect \/ EarlyProbe \/ EarlyLoaded
    PROVE  IInv'
<1> USE AttemptsAssumption DEF IInv, TypeOK, DriverInv, ApInv, BusInv, CountInv, BluezReadsPatched, LoadersAgree
<1>1. CASE EarlyPatch
  BY <1>1 DEF EarlyPatch, device, radioVars, apVars, usbVars, flags
<1>2. CASE EarlyDbus
  BY <1>2 DEF EarlyDbus, device, radioVars, apVars, usbVars, flags
<1>3. CASE EarlyDetect
  BY <1>3 DEF EarlyDetect, device, radioVars, btVars, apVars, usbVars, flags
<1>4. CASE EarlyProbe
  BY <1>4 DEF EarlyProbe, Initialise, device, btVars, apVars, usbVars, flags
<1>5. CASE EarlyLoaded
  BY <1>5 DEF EarlyLoaded, LoadEnds, device, btVars, apVars, usbVars, flags
<1>6. QED BY <1>1, <1>2, <1>3, <1>4, <1>5

(* The MMC child, the commands in the background, the hardware and hostapd. *)
LEMMA OtherStep ==
    ASSUME IInv, MmcLoaded \/ CatPlayShell \/ CatPlayExec \/ DbusUp \/ CardAppears \/ WlanAppears \/ HostapdCrashes
    PROVE  IInv'
<1> USE AttemptsAssumption DEF IInv, TypeOK, DriverInv, ApInv, BusInv, CountInv, BluezReadsPatched, LoadersAgree
<1>1. CASE MmcLoaded
  BY <1>1 DEF MmcLoaded, device, radioVars, btVars, apVars, usbVars, flags
<1>2. CASE CatPlayShell
  BY <1>2 DEF CatPlayShell, device, radioVars, btVars, apVars, flags
<1>3. CASE CatPlayExec
  BY <1>3 DEF CatPlayExec, device, radioVars, btVars, apVars, flags
<1>4. CASE DbusUp
  BY <1>4 DEF DbusUp, device, radioVars, apVars, usbVars, flags
<1>5. CASE CardAppears
  BY <1>5 DEF CardAppears, device, btVars, apVars, usbVars, flags
<1>6. CASE WlanAppears
  BY <1>6 DEF WlanAppears, device, btVars, apVars, usbVars, flags
<1>7. CASE HostapdCrashes
  BY <1>7 DEF HostapdCrashes, device, radioVars, btVars, usbVars, flags
<1>8. QED BY <1>1, <1>2, <1>3, <1>4, <1>5, <1>6, <1>7

(* The recovery gadget, whoever called it. *)
LEMMA GadgetStep ==
    ASSUME IInv, NEW p \in Starters, Gadget(p)
    PROVE  IInv'
<1> USE DEF IInv, TypeOK, DriverInv, ApInv, BusInv, CountInv, BluezReadsPatched, LoadersAgree
<1>1. CASE GadgetStop(p)
  BY <1>1 DEF GadgetStop, device, radioVars, btVars, apVars, flags
<1>2. CASE GadgetKill(p)
  BY <1>2 DEF GadgetKill, device, radioVars, btVars, apVars, flags
<1>3. CASE GadgetMove(p)
  <2> USE <1>3 DEF GadgetMove, device, radioVars, btVars, apVars, flags
  <2>1. TypeOK'
    <3>1. binary' \in BOOLEAN
      OBVIOUS
    <3>2. QED BY <3>1
  <2>2. DriverInv'
    OBVIOUS
  <2>3. ApInv'
    OBVIOUS
  <2>4. BusInv'
    OBVIOUS
  <2>5. CountInv'
    OBVIOUS
  <2>6. BluezReadsPatched'
    OBVIOUS
  <2>7. LoadersAgree'
    OBVIOUS
  <2>8. QED BY <2>1, <2>2, <2>3, <2>4, <2>5, <2>6, <2>7
<1>4. CASE GadgetUnload(p)
  <2> USE <1>4 DEF GadgetUnload, device, radioVars, btVars, apVars, flags
  <2>1. TypeOK'
    <3>1. g_iphone' \in BOOLEAN
      OBVIOUS
    <3>2. QED BY <3>1
  <2>2. DriverInv'
    OBVIOUS
  <2>3. ApInv'
    OBVIOUS
  <2>4. BusInv'
    OBVIOUS
  <2>5. CountInv'
    OBVIOUS
  <2>6. BluezReadsPatched'
    OBVIOUS
  <2>7. LoadersAgree'
    OBVIOUS
  <2>8. QED BY <2>1, <2>2, <2>3, <2>4, <2>5, <2>6, <2>7
<1>5. CASE GadgetCreate(p)
  BY <1>5 DEF GadgetCreate, device, radioVars, btVars, apVars, flags
<1>6. QED BY <1>1, <1>2, <1>3, <1>4, <1>5 DEF Gadget

LEMMA NextInv == IInv /\ [Next]_vars => IInv'
<1> SUFFICES ASSUME IInv, [Next]_vars PROVE IInv'
  OBVIOUS
<1>1. CASE UNCHANGED vars
  BY <1>1 DEF vars, device, radioVars, btVars, apVars, usbVars, flags,
     IInv, TypeOK, DriverInv, ApInv, BusInv, CountInv, BluezReadsPatched, LoadersAgree
<1>2. CASE Next
  BY <1>2, MainStart, MainRadio, MainEnd, EarlyStep, OtherStep, GadgetStep
     DEF Next, Main, Early, Watchdog, Background
<1>3. QED BY <1>1, <1>2

THEOREM Inductive == Spec => []IInv
BY InitInv, NextInv, PTL DEF Spec

(* Every variable keeps its type, so boot_radio and Hostapd::start stay    *)
(* within their limits.                                                    *)
THEOREM TypeCorrect == Spec => []TypeOK
<1>1. IInv => TypeOK
  BY DEF IInv
<1>2. QED BY <1>1, Inductive, PTL

(* RecoveryGadget::start runs at most once in a boot.                      *)
THEOREM GadgetStartedOnce == Spec => []GadgetOnce
<1>1. IInv => GadgetOnce
  BY DEF IInv, CountInv, GadgetOnce
<1>2. QED BY <1>1, Inductive, PTL

(* fork_bluez starts BlueZ behind a bus it has seen only after             *)
(* patch_bluez_config.                                                     *)
THEOREM BluezConfigured == Spec => []BluezReadsPatched
<1>1. IInv => BluezReadsPatched
  BY DEF IInv
<1>2. QED BY <1>1, Inductive, PTL

(* The early child and boot_radio agree on the driver.                     *)
THEOREM OneLoader == Spec => []LoadersAgree
<1>1. IInv => LoadersAgree
  BY DEF IInv
<1>2. QED BY <1>1, Inductive, PTL

(* Hostapd::start succeeds only on a complete interface.                   *)
THEOREM AccessPointComplete == Spec => []ApComplete
<1>1. IInv => ApComplete
  BY DEF IInv, DriverInv, ApInv, ApComplete
<1>2. QED BY <1>1, Inductive, PTL

(* boot_early ends with a radio or with a started recovery gadget.         *)
THEOREM AlwaysAWayIn == Spec => []WayIn
<1>1. IInv => WayIn
  BY DEF IInv, CountInv, WayIn
<1>2. QED BY <1>1, Inductive, PTL
=============================================================================
