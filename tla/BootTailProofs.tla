--------------------------- MODULE BootTailProofs ---------------------------
(***************************************************************************)
(* Proofs about module BootTail, for any children and number of signals.   *)
(***************************************************************************)
EXTENDS BootTail, TLAPS

\* The shell runs only during the shutdown, PID 1 passes it only when it has
\* ended or the wait was cut, umount is the last step of a shell that is done,
\* and a wait is cut only by a fork that failed or a signal that is stored.
ShellInv ==
  /\ ~ ShuttingDown \/ pc = "shutdown" => shell = "none" /\ cut = "none"
  /\ shell = "done" => ~ mounted
  /\ pc \in {"sync", "off"} => ShellEnded \/ cut # "none"
  /\ cut = "fork" => shell = "none"
  /\ cut = "signal" => signal # NoSignal

IInv == TypeOK /\ CommandIsLastRequest /\ ShellInv

LEMMA InitInv == Init => IInv
  BY BootTailAssumption
  DEF Init, IInv, TypeOK, CommandIsLastRequest, ShellInv, ShellEnded, ShuttingDown, NoSignal

LEMMA CommandType == \A s \in Signals : CommandOf(s) \in {"HALT", "POWER_OFF", "RESTART"}
  BY DEF Signals, CommandOf

LEMMA StartStep ==
  IInv /\ (boot_head \/ ForkBootFlow \/ InlineBootFlow \/ InstallHandlers) => IInv'
  <1> USE DEF IInv, TypeOK, CommandIsLastRequest, ShellInv, ShellEnded, ShuttingDown, Goto
  <1>1. IInv /\ boot_head => IInv' BY DEF boot_head
  <1>2. IInv /\ ForkBootFlow => IInv' BY DEF ForkBootFlow
  <1>3. IInv /\ InlineBootFlow => IInv' BY DEF InlineBootFlow
  <1>4. IInv /\ InstallHandlers => IInv' BY DEF InstallHandlers
  <1> QED BY <1>1, <1>2, <1>3, <1>4

LEMMA LoopStep ==
  IInv /\ (SwapSignal \/ EnterWaitpid \/ WaitpidReturns \/ SleepEnds) => IInv'
  <1> USE DEF IInv, TypeOK, CommandIsLastRequest, ShellInv, ShellEnded, ShuttingDown, Goto
  <1>1. ASSUME IInv, SwapSignal PROVE IInv'
    <2>1. CASE signal = NoSignal BY <1>1, <2>1 DEF SwapSignal
    <2>2. CASE signal # NoSignal
      <3>1. signal \in Signals /\ signal = caught /\ command' = CommandOf(caught)
        BY <1>1, <2>2 DEF SwapSignal
      <3> QED BY <1>1, <2>2, <3>1, CommandType DEF SwapSignal
    <2> QED BY <2>1, <2>2
  <1>2. IInv /\ EnterWaitpid => IInv' BY DEF EnterWaitpid, Zombies, Alive
  <1>3. IInv /\ WaitpidReturns => IInv' BY DEF WaitpidReturns, Zombies
  <1>4. IInv /\ SleepEnds => IInv' BY DEF SleepEnds
  <1> QED BY <1>1, <1>2, <1>3, <1>4

LEMMA ShutdownStep ==
  IInv /\ (ForkShell \/ WaitShell \/ Reboot) => IInv'
  <1> USE DEF IInv, TypeOK, CommandIsLastRequest, ShellInv, ShellEnded, ShuttingDown, Goto
  <1>1. IInv /\ ForkShell => IInv' BY DEF ForkShell
  <1>2. IInv /\ WaitShell => IInv' BY DEF WaitShell
  <1>3. IInv /\ Reboot => IInv' BY DEF Reboot
  <1> QED BY <1>1, <1>2, <1>3

LEMMA ShellSteps ==
  IInv /\ (ShellExec \/ ShellStep \/ ShellFails) => IInv'
  <1> USE DEF IInv, TypeOK, CommandIsLastRequest, ShellInv, ShellEnded, ShuttingDown, Running
  <1>1. IInv /\ ShellExec => IInv' BY DEF ShellExec
  <1>2. IInv /\ ShellStep => IInv' BY DEF ShellStep
  <1>3. IInv /\ ShellFails => IInv' BY DEF ShellFails
  <1> QED BY <1>1, <1>2, <1>3

LEMMA SignalStep ==
  ASSUME IInv, NEW s \in Signals, Signal(s)
  PROVE  IInv'
  <1> USE DEF IInv, TypeOK, CommandIsLastRequest, ShellInv, ShellEnded, ShuttingDown
  <1>1. s # NoSignal BY DEF Signals, NoSignal
  <1>2. CASE Installed BY <1>1, <1>2, BootTailAssumption DEF Signal, Installed, Running
  <1>3. CASE ~ Installed BY <1>3, BootTailAssumption DEF Signal, Installed, Running
  <1> QED BY <1>2, <1>3

LEMMA ChildStep ==
  ASSUME IInv, NEW c \in Children, ChildStarts(c) \/ ChildExits(c)
  PROVE  IInv'
  BY DEF IInv, TypeOK, CommandIsLastRequest, ShellInv, ShellEnded, ShuttingDown, ChildStarts, ChildExits

LEMMA Inductive == Spec => []IInv
  <1>1. IInv /\ [Next]_vars => IInv'
    <2> SUFFICES ASSUME IInv, [Next]_vars PROVE IInv' OBVIOUS
    <2>1. CASE UNCHANGED vars
      BY <2>1 DEF vars, IInv, TypeOK, CommandIsLastRequest, ShellInv, ShellEnded, ShuttingDown
    <2> QED BY <2>1, StartStep, LoopStep, ShutdownStep, ShellSteps, SignalStep, ChildStep
            DEF Next, PID1
  <1> QED BY <1>1, InitInv, PTL DEF Spec

\* The loop of boot_tail and its handler stay in their states.
THEOREM TypeCorrect == Spec => []TypeOK
  BY Inductive, PTL DEF IInv

\* The reboot system call is made only after a signal asked for it, with the
\* command of the last signal stored before the swap.
THEOREM RightCommand == Spec => []CommandIsLastRequest
  BY Inductive, PTL DEF IInv

\* PID 1 waits for the shutdown shell: the machine goes down with file systems
\* mounted only when the shell was never forked, failed itself, or a further
\* request cut the wait, however children, shell and signals interleave.
THEOREM CleanShutdown == Spec => []CleanUnlessCut
  <1>1. IInv => CleanUnlessCut
    BY DEF IInv, TypeOK, ShellInv, ShellEnded, ShuttingDown, CleanUnlessCut
  <1> QED BY <1>1, Inductive, PTL
=============================================================================
