------------------------------ MODULE BootTail ------------------------------
(***************************************************************************)
(* carlinkit_otalib as PID 1 (main.rs, boot/boot_tail.rs and run_shell of  *)
(* system_util.rs): it mounts the overlay, forks the boot flow, then reaps *)
(* children and obeys the shutdown signals of busybox halt, poweroff and   *)
(* reboot.                                                                 *)
(*                                                                         *)
(* The handler only stores the signal; it is installed without SA_RESTART, *)
(* so a signal also ends the system call PID 1 is blocked in.  PID 1, its  *)
(* children, the shell it runs at shutdown and the senders of signals      *)
(* interleave freely.  "Blocked" states are separate from the states just  *)
(* before the call: a signal in between only stores.                       *)
(***************************************************************************)
EXTENDS Integers, FiniteSets

CONSTANTS
  Children,     \* processes PID 1 is or becomes the parent of
  MaxSignals    \* bound on the signals sent in a behaviour

ASSUME BootTailAssumption == MaxSignals \in Nat

VARIABLES
  pc,       \* where PID 1 is
  signal,   \* BOOT_TAIL_SIGNAL
  command,  \* the reboot command of boot_tail_shutdown
  child,    \* each child: "none", "alive" or "zombie"
  shell,    \* the child of run_shell: what it does next, or how it ended
  mounted,  \* are file systems still mounted read-write?
  sent,     \* history: signals sent
  caught,   \* history: the last signal the handler stored
  cut       \* history: why PID 1 did not wait for the shell's end

vars == <<pc, signal, command, child, shell, mounted, sent, caught, cut>>

Signals == {"SIGUSR1", "SIGUSR2", "SIGTERM"}
NoSignal == "none"

\* Mutant: the signal number itself is passed to reboot.
CommandOf_Raw(s) == s

CommandOf(s) == CASE s = "SIGUSR1" -> "HALT"
                  [] s = "SIGUSR2" -> "POWER_OFF"
                  [] s = "SIGTERM" -> "RESTART"

Alive   == {c \in Children : child[c] = "alive"}
Zombies == {c \in Children : child[c] = "zombie"}

Goto(from, to) == pc = from /\ pc' = to

-----------------------------------------------------------------------------
(* Start of PID 1 *)

\* boot_head: run c2a-overlay-init and wait for it.
boot_head ==
  /\ Goto("head", "fork")
  /\ UNCHANGED <<signal, command, child, shell, mounted, sent, caught, cut>>

\* Fork the boot flow, or run it in PID 1 when fork fails.
ForkBootFlow ==
  /\ pc = "fork"
  /\ \/ /\ \E c \in Children : child' = [child EXCEPT ![c] = "alive"]
        /\ pc' = "install"
     \/ /\ pc' = "inline"
        /\ UNCHANGED child
  /\ UNCHANGED <<signal, command, shell, mounted, sent, caught, cut>>

\* The boot flow in PID 1 ends, or panics on a fork that fails; the kernel
\* panics when PID 1 exits.
InlineBootFlow ==
  /\ Goto("inline", "install") \/ Goto("inline", "panic")
  /\ UNCHANGED <<signal, command, child, shell, mounted, sent, caught, cut>>

InstallHandlers ==
  /\ Goto("install", "swap")
  /\ UNCHANGED <<signal, command, child, shell, mounted, sent, caught, cut>>

-----------------------------------------------------------------------------
(* The loop of boot_tail *)

\* Mutant: the value is tested after it has been reset.
SwapSignal_TestAfter ==
  /\ pc = "swap"
  /\ signal' = NoSignal
  /\ pc' = "call"
  /\ UNCHANGED <<command, child, shell, mounted, sent, caught, cut>>

\* BOOT_TAIL_SIGNAL.swap(0) and the branch on it.
SwapSignal ==
  /\ pc = "swap"
  /\ signal' = NoSignal
  /\ IF signal # NoSignal THEN /\ pc' = "shutdown"
                               /\ command' = CommandOf(signal)
                          ELSE /\ pc' = "call"
                               /\ UNCHANGED command
  /\ UNCHANGED <<child, shell, mounted, sent, caught, cut>>

\* Mutant: the exited child is looked at but left as a zombie.
EnterWaitpid_NoReap ==
  /\ pc = "call"
  /\ pc' = IF Zombies # {} THEN "swap" ELSE IF Alive = {} THEN "sleep" ELSE "waiting"
  /\ UNCHANGED <<signal, command, child, shell, mounted, sent, caught, cut>>

\* waitpid(-1) is entered: it returns a zombie, fails with ECHILD or blocks.
EnterWaitpid ==
  /\ pc = "call"
  /\ \/ /\ \E c \in Zombies : child' = [child EXCEPT ![c] = "none"]
        /\ pc' = "swap"
     \/ /\ Zombies = {}
        /\ pc' = IF Alive = {} THEN "sleep" ELSE "waiting"
        /\ UNCHANGED child
  /\ UNCHANGED <<signal, command, shell, mounted, sent, caught, cut>>

WaitpidReturns ==
  /\ pc = "waiting"
  /\ \E c \in Zombies : child' = [child EXCEPT ![c] = "none"]
  /\ pc' = "swap"
  /\ UNCHANGED <<signal, command, shell, mounted, sent, caught, cut>>

\* One second of poll is over.
SleepEnds ==
  /\ Goto("sleep", "swap")
  /\ UNCHANGED <<signal, command, child, shell, mounted, sent, caught, cut>>

-----------------------------------------------------------------------------
(* boot_tail_shutdown *)

\* Mutant: when the shell cannot be forked the shutdown is abandoned.
ForkShell_Return ==
  /\ pc = "shutdown"
  /\ \/ pc' = "shellcall" /\ shell' = "exec" /\ UNCHANGED cut
     \/ pc' = "swap" /\ UNCHANGED <<shell, cut>>
  /\ UNCHANGED <<signal, command, child, mounted, sent, caught>>

\* run_shell forks the child that becomes the shell, or gives up.
ForkShell ==
  /\ pc = "shutdown"
  /\ \/ pc' = "shellcall" /\ shell' = "exec" /\ UNCHANGED cut
     \/ pc' = "sync" /\ cut' = "fork" /\ UNCHANGED shell
  /\ UNCHANGED <<signal, command, child, mounted, sent, caught>>

\* Mutant: the shell is not waited for.
WaitShell_Background ==
  /\ Goto("shellcall", "sync")
  /\ UNCHANGED <<signal, command, child, shell, mounted, sent, caught, cut>>

ShellEnded == shell \in {"done", "failed"}

\* waitpid(pid) of run_shell: entered, then blocked until the child ends.
\* boot_tail_shutdown ignores how it ended.
WaitShell ==
  /\ \/ pc = "shellcall" /\ pc' = IF ShellEnded THEN "sync" ELSE "shellwait"
     \/ pc = "shellwait" /\ ShellEnded /\ pc' = "sync"
  /\ UNCHANGED <<signal, command, child, shell, mounted, sent, caught, cut>>

\* sync() and the reboot system call.
Reboot ==
  /\ Goto("sync", "off")
  /\ UNCHANGED <<signal, command, child, shell, mounted, sent, caught, cut>>

-----------------------------------------------------------------------------
(* The other processes *)

Running == pc \notin {"off", "panic"}

\* The child of run_shell: execve turns it into the shell, or _exit(127).
ShellExec ==
  /\ Running /\ shell = "exec"
  /\ shell' \in {"rcK", "failed"}
  /\ UNCHANGED <<pc, signal, command, child, mounted, sent, caught, cut>>

\* The shell: rcK stops the services, swapoff, umount.  A ";" goes on
\* whatever the command before it returned.
ShellStep ==
  /\ Running
  /\ \/ shell = "rcK" /\ shell' = "swapoff" /\ UNCHANGED mounted
     \/ shell = "swapoff" /\ shell' = "umount" /\ UNCHANGED mounted
     \/ shell = "umount" /\ shell' = "done" /\ mounted' = FALSE
  /\ UNCHANGED <<pc, signal, command, child, sent, caught, cut>>

\* The shell is killed, or umount leaves a file system that is busy.
ShellFails ==
  /\ Running /\ shell \in {"rcK", "swapoff", "umount"}
  /\ shell' = "failed"
  /\ UNCHANGED <<pc, signal, command, child, mounted, sent, caught, cut>>

\* A child starts (a daemon is re-parented to PID 1) or exits.
ChildStarts(c) ==
  /\ Running /\ child[c] = "none" /\ Alive # {}
  /\ child' = [child EXCEPT ![c] = "alive"]
  /\ UNCHANGED <<pc, signal, command, shell, mounted, sent, caught, cut>>

ChildExits(c) ==
  /\ Running /\ child[c] = "alive"
  /\ child' = [child EXCEPT ![c] = "zombie"]
  /\ UNCHANGED <<pc, signal, command, shell, mounted, sent, caught, cut>>

Installed == pc \notin {"head", "fork", "inline", "install"}

\* Mutant: the handler keeps the first of several pending signals.
Signal_KeepFirst(s) ==
  /\ Running /\ sent < MaxSignals
  /\ sent' = sent + 1
  /\ IF Installed
     THEN /\ signal' = IF signal = NoSignal THEN s ELSE signal
          /\ caught' = s
          /\ pc' = CASE pc = "waiting"   -> "swap"
                     [] pc = "sleep"     -> "swap"
                     [] pc = "shellwait" -> "sync"
                     [] OTHER -> pc
          /\ cut' = IF pc = "shellwait" THEN "signal" ELSE cut
     ELSE UNCHANGED <<signal, caught, pc, cut>>
  /\ UNCHANGED <<command, child, shell, mounted>>

\* kill(1, s).  Before the handlers are installed the kernel ignores it;
\* afterwards the handler stores it and a blocking call fails with EINTR.
Signal(s) ==
  /\ Running /\ sent < MaxSignals
  /\ sent' = sent + 1
  /\ IF Installed
     THEN /\ signal' = s
          /\ caught' = s
          /\ pc' = CASE pc = "waiting"   -> "swap"
                     [] pc = "sleep"     -> "swap"
                     [] pc = "shellwait" -> "sync"
                     [] OTHER -> pc
          /\ cut' = IF pc = "shellwait" THEN "signal" ELSE cut
     ELSE UNCHANGED <<signal, caught, pc, cut>>
  /\ UNCHANGED <<command, child, shell, mounted>>

-----------------------------------------------------------------------------
Init ==
  /\ pc = "head"
  /\ signal = NoSignal
  /\ command = "none"
  /\ child = [c \in Children |-> "none"]
  /\ shell = "none"
  /\ mounted = TRUE
  /\ sent = 0
  /\ caught = NoSignal
  /\ cut = "none"

\* PID 1's own steps, and those of the shell it runs.
PID1 == \/ boot_head \/ ForkBootFlow \/ InlineBootFlow \/ InstallHandlers
        \/ SwapSignal \/ EnterWaitpid \/ WaitpidReturns \/ SleepEnds
        \/ ForkShell \/ WaitShell \/ Reboot

Next == \/ PID1
        \/ ShellExec \/ ShellStep \/ ShellFails
        \/ \E c \in Children : ChildStarts(c) \/ ChildExits(c)
        \/ \E s \in Signals : Signal(s)

Spec == Init /\ [][Next]_vars

\* PID 1 and the shutdown scripts are scheduled and end.  Daemons need not
\* exit and nobody has to send a signal.
FairSpec == Spec /\ WF_vars(PID1) /\ WF_vars(ShellExec \/ ShellStep)

-----------------------------------------------------------------------------
(* Properties *)

\* PID 1 is at a known place, and signals are one of the three it handles.
TypeOK ==
  /\ pc \in {"head", "fork", "inline", "install", "swap", "call", "waiting", "sleep",
             "shutdown", "shellcall", "shellwait", "sync", "off", "panic"}
  /\ signal \in Signals \cup {NoSignal} /\ caught \in Signals \cup {NoSignal}
  /\ command \in {"none", "HALT", "POWER_OFF", "RESTART"}
  /\ child \in [Children -> {"none", "alive", "zombie"}]
  /\ shell \in {"none", "exec", "rcK", "swapoff", "umount", "done", "failed"}
  /\ mounted \in BOOLEAN
  /\ sent \in 0 .. MaxSignals
  /\ cut \in {"none", "fork", "signal"}

ShuttingDown == pc \in {"shutdown", "shellcall", "shellwait", "sync", "off"}

\* The machine only goes down on request, and what it does is what a signal
\* asked for: of several signals that are pending together the last one wins,
\* and one that comes during the shutdown does not change it.
CommandIsLastRequest ==
  /\ ShuttingDown <=> command # "none"
  /\ ShuttingDown /\ signal = NoSignal => command = CommandOf(caught)
  /\ ~ ShuttingDown /\ signal # NoSignal => signal = caught

\* PID 1 makes the reboot system call only after rcK, swapoff and umount
\* have run to their end and left no file system mounted, unless run_shell
\* could not fork, its child failed (boot_tail_shutdown ignores the result),
\* or a further signal, stored since the shutdown began, cut the wait.
CleanUnlessCut ==
  pc = "off" => \/ shell = "done" /\ ~ mounted
                \/ shell = "failed"
                \/ cut = "fork" /\ shell = "none"
                \/ cut = "signal" /\ signal # NoSignal

\* Every exited child is reaped, or PID 1 is on its way down.
ZombiesReaped ==
  \A c \in Children :
    child[c] = "zombie" ~> (child[c] # "zombie" \/ ShuttingDown \/ pc = "panic")

Stranded == pc = "waiting" /\ Zombies = {} /\ signal # NoSignal

\* A stored signal is never forgotten: it brings the machine down, unless
\* PID 1 blocked in waitpid after it was stored and no child exits.
SignalActs == signal # NoSignal ~> (pc = "off" \/ Stranded)

\* Once the shutdown has begun it ends in the reboot system call.
ShutdownEnds == ShuttingDown ~> pc = "off"

\* What busybox init does with a shutdown signal: the machine goes down.
ShutdownHonoured == signal # NoSignal ~> pc = "off"
=============================================================================
