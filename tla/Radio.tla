------------------------------- MODULE Radio -------------------------------
(***************************************************************************)
(* Radio::detect_or_timeout (radio.rs): how the boot flow waits for the    *)
(* Wi-Fi/BT chip on the SDIO bus.  The kernel enumerates the card          *)
(* concurrently: first the sysfs attribute becomes readable, then the      *)
(* uevent is broadcast to the netlink sockets that are bound at that       *)
(* moment.  The code looks at sysfs, binds a socket, looks again, and only *)
(* then sleeps in poll(); without a socket it polls sysfs every 20 ms.     *)
(*                                                                         *)
(* A read of sysfs is Detect, the whole of id_radio.  Time is abstract:    *)
(* the deadline of the current wait may pass at any moment of it.          *)
(***************************************************************************)
EXTENDS Integers

CONSTANTS
    Chips,       \* what id_radio may return for a card: the radios and Unknown
    QueueCap,    \* messages the socket's receive buffer holds
    MaxNoise,    \* bound: uevents of other devices
    MaxIntr      \* bound: signals that interrupt a system call

Offline == "Offline"
None == "None"
Absent == "Absent"

ASSUME ChipsAssumption == Chips \cap {Offline, None, Absent} = {}
ASSUME BoundsAssumption == QueueCap \in Nat \ {0} /\ MaxNoise \in Nat /\ MaxIntr \in Nat

VARIABLES
    chip,        \* the card on the bus, or Absent
    visible,     \* its sysfs attribute can be read
    announced,   \* its uevent has been broadcast
    noise,       \* uevents of other devices so far
    intr,        \* interrupted calls so far
    bound,       \* the netlink socket is bound
    queue,       \* messages waiting in it
    overrun,     \* a message was dropped and recv has not reported it yet
    expired,     \* monotonic clock >= deadline_ms of the current wait
    failed,      \* poll() returned an error other than EINTR
    pc, result

vars == <<chip, visible, announced, noise, intr, bound, queue, overrun,
          expired, failed, pc, result>>

kernel == <<chip, visible, announced, noise>>
socket == <<bound, queue, overrun>>

Waits == {"head", "poll", "recv", "fallback", "sleep"}

-----------------------------------------------------------------------------
(* The kernel: cards and uevents *)

Enumerate ==
    /\ chip # Absent /\ ~visible
    /\ visible' = TRUE
    /\ UNCHANGED <<chip, announced, noise, intr, bound, queue, overrun, expired, failed, pc, result>>

\* One broadcast; a full receive buffer drops it and flags ENOBUFS.
Broadcast ==
    /\ queue' = IF bound /\ queue < QueueCap THEN queue + 1 ELSE queue
    /\ overrun' = (overrun \/ (bound /\ queue = QueueCap))

Announce ==
    /\ visible /\ ~announced
    /\ announced' = TRUE
    /\ Broadcast
    /\ UNCHANGED <<chip, visible, noise, intr, bound, expired, failed, pc, result>>

OtherUevent ==
    /\ noise < MaxNoise
    /\ noise' = noise + 1
    /\ Broadcast
    /\ UNCHANGED <<chip, visible, announced, intr, bound, expired, failed, pc, result>>

\* The clock reaches the deadline of the wait in progress.
Deadline ==
    /\ pc \in Waits /\ ~expired
    /\ expired' = TRUE
    /\ UNCHANGED <<kernel, intr, socket, failed, pc, result>>

-----------------------------------------------------------------------------
(* The caller *)

\* id_radio: the attribute is read, or there is none.
Detect == IF visible THEN chip ELSE Offline

\* Return r; wait_for_radio_uevent closes its socket on every path.
Answer(r) ==
    /\ pc' = "done"
    /\ result' = r
    /\ bound' = FALSE /\ queue' = 0 /\ overrun' = FALSE

GoTo(label) ==
    /\ pc' = label
    /\ UNCHANGED <<bound, queue, overrun, result>>

\* detect_or_timeout: the first look.
FirstLook ==
    /\ pc = "detect"
    /\ IF Detect # Offline THEN Answer(Detect) ELSE GoTo("bind")
    /\ UNCHANGED <<kernel, intr, expired, failed>>

\* socket() and bind(): from here on broadcasts are queued.
Bind ==
    /\ pc = "bind"
    /\ bound' = TRUE
    /\ pc' = "redetect"
    /\ UNCHANGED <<kernel, intr, queue, overrun, expired, failed, result>>

\* socket() or bind() fails: poll_for_radio with its own deadline.
BindFails ==
    /\ pc = "bind"
    /\ GoTo("fallback")
    /\ expired' = FALSE
    /\ UNCHANGED <<kernel, intr, failed>>

\* Mutant: the wait starts without a second look.
SecondLook_Skip ==
    /\ pc = "redetect"
    /\ GoTo("head")
    /\ expired' = FALSE
    /\ UNCHANGED <<kernel, intr, failed>>

\* A card that appeared before the socket was bound is seen here.
SecondLook ==
    /\ pc = "redetect"
    /\ IF Detect # Offline THEN Answer(Detect) ELSE GoTo("head")
    /\ expired' = FALSE
    /\ UNCHANGED <<kernel, intr, failed>>

\* wait_for_radio_fd, head of the loop.
Head ==
    /\ pc = "head"
    /\ IF expired THEN Answer(Offline) ELSE GoTo("poll")
    /\ UNCHANGED <<kernel, intr, expired, failed>>

Readable == queue > 0 \/ overrun

PollReady ==
    /\ pc = "poll" /\ Readable
    /\ GoTo("recv")
    /\ UNCHANGED <<kernel, intr, expired, failed>>

\* Mutant: poll() without a timeout goes back to sleep at the deadline.
PollTimeout_Again ==
    /\ pc = "poll" /\ ~Readable /\ expired
    /\ GoTo("poll")
    /\ UNCHANGED <<kernel, intr, expired, failed>>

PollTimeout ==
    /\ pc = "poll" /\ ~Readable /\ expired
    /\ Answer(Offline)
    /\ UNCHANGED <<kernel, intr, expired, failed>>

\* Mutant: any negative return ends the wait.
PollInterrupted_GivesUp ==
    /\ pc = "poll" /\ intr < MaxIntr
    /\ intr' = intr + 1
    /\ Answer(Offline)
    /\ UNCHANGED <<kernel, expired, failed>>

PollInterrupted ==
    /\ pc = "poll" /\ intr < MaxIntr
    /\ intr' = intr + 1
    /\ GoTo("head")
    /\ UNCHANGED <<kernel, expired, failed>>

PollFails ==
    /\ pc = "poll"
    /\ failed' = TRUE
    /\ Answer(Offline)
    /\ UNCHANGED <<kernel, intr, expired>>

\* Mutant: messages are drained without looking at sysfs.
RecvMessage_NoLook ==
    /\ pc = "recv" /\ queue > 0 /\ ~overrun
    /\ queue' = queue - 1
    /\ UNCHANGED <<bound, overrun, pc, result>>
    /\ UNCHANGED <<kernel, intr, expired, failed>>

\* A message, whatever it says, is a reason to look at sysfs again.
RecvMessage ==
    /\ pc = "recv" /\ queue > 0 /\ ~overrun
    /\ IF Detect # Offline THEN Answer(Detect)
       ELSE /\ queue' = queue - 1
            /\ UNCHANGED <<bound, overrun, pc, result>>
    /\ UNCHANGED <<kernel, intr, expired, failed>>

\* ENOBUFS or EAGAIN: back to the head of the outer loop.
RecvError ==
    /\ pc = "recv" /\ (overrun \/ queue = 0)
    /\ overrun' = FALSE
    /\ pc' = "head"
    /\ UNCHANGED <<kernel, intr, bound, queue, expired, failed, result>>

\* poll_for_radio
Fallback ==
    /\ pc = "fallback"
    /\ IF expired THEN Answer(Offline)
       ELSE IF Detect # Offline THEN Answer(Detect) ELSE GoTo("sleep")
    /\ UNCHANGED <<kernel, intr, expired, failed>>

FallbackSleeps ==
    /\ pc = "sleep"
    /\ GoTo("fallback")
    /\ UNCHANGED <<kernel, intr, expired, failed>>

-----------------------------------------------------------------------------
Init ==
    /\ chip \in Chips \cup {Absent}
    /\ visible = FALSE /\ announced = FALSE
    /\ noise = 0 /\ intr = 0
    /\ bound = FALSE /\ queue = 0 /\ overrun = FALSE
    /\ expired = FALSE /\ failed = FALSE
    /\ pc = "detect" /\ result = None

\* What the caller does by itself, and the calls of it that may fail.
Caller ==
    \/ FirstLook \/ Bind \/ SecondLook
    \/ Head \/ PollReady \/ PollTimeout
    \/ RecvMessage \/ RecvError
    \/ Fallback \/ FallbackSleeps

Failure == BindFails \/ PollInterrupted \/ PollFails

Next == Enumerate \/ Announce \/ OtherUevent \/ Deadline \/ Caller \/ Failure

Spec == Init /\ [][Next]_vars

\* The scheduler runs the caller whenever it can go on, and the kernel sends
\* the uevent of a card it has registered.  Nothing is assumed of the clock,
\* and no call has to fail.
FairSpec == Spec /\ WF_vars(Caller) /\ WF_vars(Announce)

-----------------------------------------------------------------------------
(* The socket's buffer and the counters stay within their bounds. *)
TypeOK ==
    /\ chip \in Chips \cup {Absent}
    /\ visible \in BOOLEAN /\ announced \in BOOLEAN
    /\ noise \in 0 .. MaxNoise /\ intr \in 0 .. MaxIntr
    /\ bound \in BOOLEAN /\ queue \in 0 .. QueueCap /\ overrun \in BOOLEAN
    /\ expired \in BOOLEAN /\ failed \in BOOLEAN
    /\ pc \in {"detect", "bind", "redetect", "done"} \cup Waits
    /\ result \in Chips \cup {None, Offline}

(* No wakeup is lost between the look at sysfs and the sleep: while the    *)
(* caller waits on the socket, a card that has been announced has left a   *)
(* message in it, even when the buffer overflowed, so poll() returns.      *)
NoLostWakeup ==
    pc \in {"head", "poll", "recv"} /\ announced => queue > 0

(* Offline is answered only after the whole timeout, or when poll() broke: *)
(* neither uevents of other devices nor signals shorten the wait.          *)
OfflineJustified ==
    result = Offline => expired \/ failed

(* A card that becomes readable is noticed without the help of the clock:  *)
(* the call returns although no deadline need ever pass.                   *)
CardNoticed == visible ~> pc = "done"

(* Once the deadline has passed the call returns.                          *)
DeadlineKept == expired ~> pc = "done"
=============================================================================
