---------------------------- MODULE RadioProofs ----------------------------
(***************************************************************************)
(* For every buffer size and any number of other uevents and signals: the  *)
(* wait for the radio loses no wakeup and is not cut short.                *)
(***************************************************************************)
EXTENDS Radio, TLAPS

(* The uevent follows the attribute, and the socket is bound from before   *)
(* the second look until the answer: whatever is broadcast after that look *)
(* is queued.                                                              *)
OrderInv ==
    /\ announced => visible
    /\ pc \in {"redetect", "head", "poll", "recv"} => bound
    /\ result # None <=> pc = "done"
    /\ visible => chip # Absent

IInv == TypeOK /\ OrderInv /\ NoLostWakeup /\ OfflineJustified

LEMMA InitInv == Init => IInv
<1> SUFFICES ASSUME Init PROVE IInv
  OBVIOUS
<1>1. Offline # None
  BY DEF Offline, None
<1>2. TypeOK
  <2>1. /\ visible \in BOOLEAN /\ announced \in BOOLEAN /\ bound \in BOOLEAN
        /\ overrun \in BOOLEAN /\ expired \in BOOLEAN /\ failed \in BOOLEAN
    BY DEF Init
  <2>2. /\ chip \in Chips \cup {Absent}
        /\ noise \in 0 .. MaxNoise /\ intr \in 0 .. MaxIntr /\ queue \in 0 .. QueueCap
        /\ pc \in {"detect", "bind", "redetect", "done"} \cup Waits
        /\ result \in Chips \cup {None, Offline}
    BY BoundsAssumption DEF Init
  <2>3. QED BY <2>1, <2>2 DEF TypeOK
<1>3. OrderInv /\ NoLostWakeup /\ OfflineJustified
  BY <1>1 DEF Init, OrderInv, NoLostWakeup, OfflineJustified
<1>4. QED BY <1>2, <1>3 DEF IInv

(* The kernel and the clock. *)
LEMMA KernelStep ==
    ASSUME IInv, Enumerate \/ Announce \/ OtherUevent \/ Deadline
    PROVE  IInv'
<1> USE BoundsAssumption DEF IInv, kernel, socket
<1>1. CASE Enumerate
  BY <1>1 DEF Enumerate, TypeOK, OrderInv, NoLostWakeup, OfflineJustified
<1>2. CASE Announce
  BY <1>2 DEF Announce, Broadcast, TypeOK, OrderInv, NoLostWakeup, OfflineJustified
<1>3. CASE OtherUevent
  BY <1>3 DEF OtherUevent, Broadcast, TypeOK, OrderInv, NoLostWakeup, OfflineJustified
<1>4. CASE Deadline
  BY <1>4 DEF Deadline, TypeOK, OrderInv, NoLostWakeup, OfflineJustified
<1>5. QED BY <1>1, <1>2, <1>3, <1>4

(* What a look at sysfs returns. *)
LEMMA DetectFacts ==
    ASSUME IInv
    PROVE  /\ visible => Detect \in Chips /\ Detect # Offline /\ Detect # None
           /\ ~visible => Detect = Offline
BY ChipsAssumption DEF IInv, TypeOK, OrderInv, Detect, Offline, None, Absent

(* The caller. *)
LEMMA CallerStep ==
    ASSUME IInv, Caller \/ Failure
    PROVE  IInv'
<1> USE BoundsAssumption DEF IInv, kernel, socket, Answer, GoTo
<1>0. Offline # None
  BY DEF Offline, None
<1>d. /\ visible => Detect \in Chips /\ Detect # Offline /\ Detect # None
      /\ ~visible => Detect = Offline
  BY DetectFacts
<1> USE <1>0, <1>d
<1>1. CASE FirstLook
  <2>1. TypeOK'
    <3>1. /\ visible' \in BOOLEAN /\ announced' \in BOOLEAN /\ bound' \in BOOLEAN
          /\ overrun' \in BOOLEAN /\ expired' \in BOOLEAN /\ failed' \in BOOLEAN
      BY <1>1 DEF FirstLook, TypeOK
    <3>2. /\ chip' \in Chips \cup {Absent}
          /\ noise' \in 0 .. MaxNoise /\ intr' \in 0 .. MaxIntr /\ queue' \in 0 .. QueueCap
          /\ pc' \in {"detect", "bind", "redetect", "done"} \cup Waits
          /\ result' \in Chips \cup {None, Offline}
      BY <1>1 DEF FirstLook, TypeOK, Waits
    <3>3. QED BY <3>1, <3>2 DEF TypeOK
  <2>2. OrderInv'
    BY <1>1 DEF FirstLook, TypeOK, OrderInv
  <2>3. NoLostWakeup' /\ OfflineJustified'
    BY <1>1 DEF FirstLook, TypeOK, OrderInv, NoLostWakeup, OfflineJustified, Readable
  <2>4. QED BY <2>1, <2>2, <2>3
<1>2. CASE Bind
  <2>1. TypeOK'
    <3>1. /\ visible' \in BOOLEAN /\ announced' \in BOOLEAN /\ bound' \in BOOLEAN
          /\ overrun' \in BOOLEAN /\ expired' \in BOOLEAN /\ failed' \in BOOLEAN
      BY <1>2 DEF Bind, TypeOK
    <3>2. /\ chip' \in Chips \cup {Absent}
          /\ noise' \in 0 .. MaxNoise /\ intr' \in 0 .. MaxIntr /\ queue' \in 0 .. QueueCap
          /\ pc' \in {"detect", "bind", "redetect", "done"} \cup Waits
          /\ result' \in Chips \cup {None, Offline}
      BY <1>2 DEF Bind, TypeOK, Waits
    <3>3. QED BY <3>1, <3>2 DEF TypeOK
  <2>2. OrderInv'
    BY <1>2 DEF Bind, TypeOK, OrderInv
  <2>3. NoLostWakeup' /\ OfflineJustified'
    BY <1>2 DEF Bind, TypeOK, OrderInv, NoLostWakeup, OfflineJustified, Readable
  <2>4. QED BY <2>1, <2>2, <2>3
<1>3. CASE SecondLook
  <2>1. TypeOK'
    <3>1. /\ visible' \in BOOLEAN /\ announced' \in BOOLEAN /\ bound' \in BOOLEAN
          /\ overrun' \in BOOLEAN /\ expired' \in BOOLEAN /\ failed' \in BOOLEAN
      BY <1>3 DEF SecondLook, TypeOK
    <3>2. /\ chip' \in Chips \cup {Absent}
          /\ noise' \in 0 .. MaxNoise /\ intr' \in 0 .. MaxIntr /\ queue' \in 0 .. QueueCap
          /\ pc' \in {"detect", "bind", "redetect", "done"} \cup Waits
          /\ result' \in Chips \cup {None, Offline}
      BY <1>3 DEF SecondLook, TypeOK, Waits
    <3>3. QED BY <3>1, <3>2 DEF TypeOK
  <2>2. OrderInv'
    BY <1>3 DEF SecondLook, TypeOK, OrderInv
  <2>3. NoLostWakeup' /\ OfflineJustified'
    <3>1. result = None
      BY <1>3 DEF SecondLook, OrderInv
    <3>2. CASE visible
      BY <1>3, <3>1, <3>2 DEF SecondLook, NoLostWakeup, OfflineJustified
    <3>3. CASE ~visible
      BY <1>3, <3>1, <3>3 DEF SecondLook, OrderInv, NoLostWakeup, OfflineJustified
    <3>4. QED BY <3>2, <3>3
  <2>4. QED BY <2>1, <2>2, <2>3
<1>4. CASE Head
  <2>1. TypeOK'
    <3>1. /\ visible' \in BOOLEAN /\ announced' \in BOOLEAN /\ bound' \in BOOLEAN
          /\ overrun' \in BOOLEAN /\ expired' \in BOOLEAN /\ failed' \in BOOLEAN
      BY <1>4 DEF Head, TypeOK
    <3>2. /\ chip' \in Chips \cup {Absent}
          /\ noise' \in 0 .. MaxNoise /\ intr' \in 0 .. MaxIntr /\ queue' \in 0 .. QueueCap
          /\ pc' \in {"detect", "bind", "redetect", "done"} \cup Waits
          /\ result' \in Chips \cup {None, Offline}
      BY <1>4 DEF Head, TypeOK, Waits
    <3>3. QED BY <3>1, <3>2 DEF TypeOK
  <2>2. OrderInv'
    BY <1>4 DEF Head, TypeOK, OrderInv
  <2>3. NoLostWakeup' /\ OfflineJustified'
    BY <1>4 DEF Head, TypeOK, OrderInv, NoLostWakeup, OfflineJustified, Readable
  <2>4. QED BY <2>1, <2>2, <2>3
<1>5. CASE PollReady
  <2>1. TypeOK'
    <3>1. /\ visible' \in BOOLEAN /\ announced' \in BOOLEAN /\ bound' \in BOOLEAN
          /\ overrun' \in BOOLEAN /\ expired' \in BOOLEAN /\ failed' \in BOOLEAN
      BY <1>5 DEF PollReady, TypeOK
    <3>2. /\ chip' \in Chips \cup {Absent}
          /\ noise' \in 0 .. MaxNoise /\ intr' \in 0 .. MaxIntr /\ queue' \in 0 .. QueueCap
          /\ pc' \in {"detect", "bind", "redetect", "done"} \cup Waits
          /\ result' \in Chips \cup {None, Offline}
      BY <1>5 DEF PollReady, TypeOK, Waits
    <3>3. QED BY <3>1, <3>2 DEF TypeOK
  <2>2. OrderInv'
    BY <1>5 DEF PollReady, TypeOK, OrderInv
  <2>3. NoLostWakeup' /\ OfflineJustified'
    BY <1>5 DEF PollReady, TypeOK, OrderInv, NoLostWakeup, OfflineJustified, Readable
  <2>4. QED BY <2>1, <2>2, <2>3
<1>6. CASE PollTimeout
  <2>1. TypeOK'
    <3>1. /\ visible' \in BOOLEAN /\ announced' \in BOOLEAN /\ bound' \in BOOLEAN
          /\ overrun' \in BOOLEAN /\ expired' \in BOOLEAN /\ failed' \in BOOLEAN
      BY <1>6 DEF PollTimeout, TypeOK
    <3>2. /\ chip' \in Chips \cup {Absent}
          /\ noise' \in 0 .. MaxNoise /\ intr' \in 0 .. MaxIntr /\ queue' \in 0 .. QueueCap
          /\ pc' \in {"detect", "bind", "redetect", "done"} \cup Waits
          /\ result' \in Chips \cup {None, Offline}
      BY <1>6 DEF PollTimeout, TypeOK, Waits
    <3>3. QED BY <3>1, <3>2 DEF TypeOK
  <2>2. OrderInv'
    BY <1>6 DEF PollTimeout, TypeOK, OrderInv
  <2>3. NoLostWakeup' /\ OfflineJustified'
    BY <1>6 DEF PollTimeout, TypeOK, OrderInv, NoLostWakeup, OfflineJustified, Readable
  <2>4. QED BY <2>1, <2>2, <2>3
<1>7. CASE RecvMessage
  <2>1. TypeOK'
    <3>1. /\ visible' \in BOOLEAN /\ announced' \in BOOLEAN /\ bound' \in BOOLEAN
          /\ overrun' \in BOOLEAN /\ expired' \in BOOLEAN /\ failed' \in BOOLEAN
      BY <1>7 DEF RecvMessage, TypeOK
    <3>2. /\ chip' \in Chips \cup {Absent}
          /\ noise' \in 0 .. MaxNoise /\ intr' \in 0 .. MaxIntr /\ queue' \in 0 .. QueueCap
          /\ pc' \in {"detect", "bind", "redetect", "done"} \cup Waits
          /\ result' \in Chips \cup {None, Offline}
      BY <1>7 DEF RecvMessage, TypeOK, Waits
    <3>3. QED BY <3>1, <3>2 DEF TypeOK
  <2>2. OrderInv'
    BY <1>7 DEF RecvMessage, TypeOK, OrderInv
  <2>3. NoLostWakeup' /\ OfflineJustified'
    BY <1>7 DEF RecvMessage, TypeOK, OrderInv, NoLostWakeup, OfflineJustified, Readable
  <2>4. QED BY <2>1, <2>2, <2>3
<1>8. CASE RecvError
  <2>1. TypeOK'
    <3>1. /\ visible' \in BOOLEAN /\ announced' \in BOOLEAN /\ bound' \in BOOLEAN
          /\ overrun' \in BOOLEAN /\ expired' \in BOOLEAN /\ failed' \in BOOLEAN
      BY <1>8 DEF RecvError, TypeOK
    <3>2. /\ chip' \in Chips \cup {Absent}
          /\ noise' \in 0 .. MaxNoise /\ intr' \in 0 .. MaxIntr /\ queue' \in 0 .. QueueCap
          /\ pc' \in {"detect", "bind", "redetect", "done"} \cup Waits
          /\ result' \in Chips \cup {None, Offline}
      BY <1>8 DEF RecvError, TypeOK, Waits
    <3>3. QED BY <3>1, <3>2 DEF TypeOK
  <2>2. OrderInv'
    BY <1>8 DEF RecvError, TypeOK, OrderInv
  <2>3. NoLostWakeup' /\ OfflineJustified'
    BY <1>8 DEF RecvError, TypeOK, OrderInv, NoLostWakeup, OfflineJustified, Readable
  <2>4. QED BY <2>1, <2>2, <2>3
<1>9. CASE Fallback
  <2>1. TypeOK'
    <3>1. /\ visible' \in BOOLEAN /\ announced' \in BOOLEAN /\ bound' \in BOOLEAN
          /\ overrun' \in BOOLEAN /\ expired' \in BOOLEAN /\ failed' \in BOOLEAN
      BY <1>9 DEF Fallback, TypeOK
    <3>2. /\ chip' \in Chips \cup {Absent}
          /\ noise' \in 0 .. MaxNoise /\ intr' \in 0 .. MaxIntr /\ queue' \in 0 .. QueueCap
          /\ pc' \in {"detect", "bind", "redetect", "done"} \cup Waits
          /\ result' \in Chips \cup {None, Offline}
      BY <1>9 DEF Fallback, TypeOK, Waits
    <3>3. QED BY <3>1, <3>2 DEF TypeOK
  <2>2. OrderInv'
    BY <1>9 DEF Fallback, TypeOK, OrderInv
  <2>3. NoLostWakeup' /\ OfflineJustified'
    BY <1>9 DEF Fallback, TypeOK, OrderInv, NoLostWakeup, OfflineJustified, Readable
  <2>4. QED BY <2>1, <2>2, <2>3
<1>10. CASE FallbackSleeps
  <2>1. TypeOK'
    <3>1. /\ visible' \in BOOLEAN /\ announced' \in BOOLEAN /\ bound' \in BOOLEAN
          /\ overrun' \in BOOLEAN /\ expired' \in BOOLEAN /\ failed' \in BOOLEAN
      BY <1>10 DEF FallbackSleeps, TypeOK
    <3>2. /\ chip' \in Chips \cup {Absent}
          /\ noise' \in 0 .. MaxNoise /\ intr' \in 0 .. MaxIntr /\ queue' \in 0 .. QueueCap
          /\ pc' \in {"detect", "bind", "redetect", "done"} \cup Waits
          /\ result' \in Chips \cup {None, Offline}
      BY <1>10 DEF FallbackSleeps, TypeOK, Waits
    <3>3. QED BY <3>1, <3>2 DEF TypeOK
  <2>2. OrderInv'
    BY <1>10 DEF FallbackSleeps, TypeOK, OrderInv
  <2>3. NoLostWakeup' /\ OfflineJustified'
    BY <1>10 DEF FallbackSleeps, TypeOK, OrderInv, NoLostWakeup, OfflineJustified, Readable
  <2>4. QED BY <2>1, <2>2, <2>3
<1>11. CASE BindFails
  <2>1. TypeOK'
    <3>1. /\ visible' \in BOOLEAN /\ announced' \in BOOLEAN /\ bound' \in BOOLEAN
          /\ overrun' \in BOOLEAN /\ expired' \in BOOLEAN /\ failed' \in BOOLEAN
      BY <1>11 DEF BindFails, TypeOK
    <3>2. /\ chip' \in Chips \cup {Absent}
          /\ noise' \in 0 .. MaxNoise /\ intr' \in 0 .. MaxIntr /\ queue' \in 0 .. QueueCap
          /\ pc' \in {"detect", "bind", "redetect", "done"} \cup Waits
          /\ result' \in Chips \cup {None, Offline}
      BY <1>11 DEF BindFails, TypeOK, Waits
    <3>3. QED BY <3>1, <3>2 DEF TypeOK
  <2>2. OrderInv'
    BY <1>11 DEF BindFails, TypeOK, OrderInv
  <2>3. NoLostWakeup' /\ OfflineJustified'
    BY <1>11 DEF BindFails, TypeOK, OrderInv, NoLostWakeup, OfflineJustified, Readable
  <2>4. QED BY <2>1, <2>2, <2>3
<1>12. CASE PollInterrupted
  <2>1. TypeOK'
    <3>1. /\ visible' \in BOOLEAN /\ announced' \in BOOLEAN /\ bound' \in BOOLEAN
          /\ overrun' \in BOOLEAN /\ expired' \in BOOLEAN /\ failed' \in BOOLEAN
      BY <1>12 DEF PollInterrupted, TypeOK
    <3>2. /\ chip' \in Chips \cup {Absent}
          /\ noise' \in 0 .. MaxNoise /\ intr' \in 0 .. MaxIntr /\ queue' \in 0 .. QueueCap
          /\ pc' \in {"detect", "bind", "redetect", "done"} \cup Waits
          /\ result' \in Chips \cup {None, Offline}
      BY <1>12 DEF PollInterrupted, TypeOK, Waits
    <3>3. QED BY <3>1, <3>2 DEF TypeOK
  <2>2. OrderInv'
    BY <1>12 DEF PollInterrupted, TypeOK, OrderInv
  <2>3. NoLostWakeup' /\ OfflineJustified'
    BY <1>12 DEF PollInterrupted, TypeOK, OrderInv, NoLostWakeup, OfflineJustified, Readable
  <2>4. QED BY <2>1, <2>2, <2>3
<1>13. CASE PollFails
  <2>1. TypeOK'
    <3>1. /\ visible' \in BOOLEAN /\ announced' \in BOOLEAN /\ bound' \in BOOLEAN
          /\ overrun' \in BOOLEAN /\ expired' \in BOOLEAN /\ failed' \in BOOLEAN
      BY <1>13 DEF PollFails, TypeOK
    <3>2. /\ chip' \in Chips \cup {Absent}
          /\ noise' \in 0 .. MaxNoise /\ intr' \in 0 .. MaxIntr /\ queue' \in 0 .. QueueCap
          /\ pc' \in {"detect", "bind", "redetect", "done"} \cup Waits
          /\ result' \in Chips \cup {None, Offline}
      BY <1>13 DEF PollFails, TypeOK, Waits
    <3>3. QED BY <3>1, <3>2 DEF TypeOK
  <2>2. OrderInv'
    BY <1>13 DEF PollFails, TypeOK, OrderInv
  <2>3. NoLostWakeup' /\ OfflineJustified'
    BY <1>13 DEF PollFails, TypeOK, OrderInv, NoLostWakeup, OfflineJustified, Readable
  <2>4. QED BY <2>1, <2>2, <2>3
<1>14. QED
  BY <1>1, <1>2, <1>3, <1>4, <1>5, <1>6, <1>7, <1>8, <1>9, <1>10, <1>11, <1>12, <1>13
     DEF Caller, Failure

LEMMA Inductive == IInv /\ [Next]_vars => IInv'
<1> SUFFICES ASSUME IInv, [Next]_vars PROVE IInv'
  OBVIOUS
<1>1. CASE UNCHANGED vars
  BY <1>1 DEF vars, IInv, TypeOK, OrderInv, NoLostWakeup, OfflineJustified
<1>2. CASE Caller \/ Failure
  BY <1>2, CallerStep
<1>3. CASE Enumerate \/ Announce \/ OtherUevent \/ Deadline
  BY <1>3, KernelStep
<1>4. QED BY <1>1, <1>2, <1>3 DEF Next

LEMMA Invariance == Spec => []IInv
BY InitInv, Inductive, PTL DEF Spec

(* While the caller waits on its socket, an announced card has left a      *)
(* message in it.                                                          *)
THEOREM WakeupsKept == Spec => []NoLostWakeup
<1>1. IInv => NoLostWakeup
  BY DEF IInv
<1>2. QED BY Invariance, <1>1, PTL

(* Offline is answered only after the deadline or a failed poll().         *)
THEOREM FullTimeout == Spec => []OfflineJustified
<1>1. IInv => OfflineJustified
  BY DEF IInv
<1>2. QED BY Invariance, <1>1, PTL
=============================================================================
