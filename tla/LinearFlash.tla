---------------------------- MODULE LinearFlash ----------------------------
(***************************************************************************)
(* What the flash layer promises, whatever the partitions are: 16 MB of    *)
(* sectors at linear addresses, and at most one command at a time.         *)
(*                                                                         *)
(*  - A write may erase and program sectors of its range only, in any      *)
(*    order, while it runs; it can fail at any moment; it can only report  *)
(*    success once every sector of its range holds what was wanted.        *)
(*  - A successful backup is a copy of the flash.  Once taken it does not  *)
(*    change, whatever is flashed later, until power is lost.              *)
(***************************************************************************)
EXTENDS Integers

CONSTANTS Addr, Cell, ERASED

VARIABLES
  mem,     \* the sectors
  busy,    \* is a command running?
  res,     \* how the last command ended: "none" while it runs
  want,    \* what the running write wants, by address; empty for a backup
  saved,   \* is there a complete backup?
  backup   \* the complete backup, when saved

lvars == <<mem, busy, res, want, saved, backup>>

\* Nothing is to be written.
Nothing == [a \in {} |-> ERASED]

LInit ==
  /\ mem \in [Addr -> Cell]
  /\ busy = FALSE
  /\ res = "none"
  /\ want = Nothing
  /\ saved = FALSE
  /\ backup = [a \in Addr |-> ERASED]

Begin ==
  /\ ~ busy /\ busy'
  /\ res' = "none"
  /\ DOMAIN want' \subseteq Addr
  /\ \A a \in DOMAIN want' : want'[a] \in Cell
  /\ UNCHANGED <<mem, saved, backup>>

Damage ==
  /\ busy
  /\ \E a \in DOMAIN want : mem' = [mem EXCEPT ![a] = ERASED]
  /\ UNCHANGED <<busy, res, want, saved, backup>>

Land ==
  /\ busy
  /\ \E a \in DOMAIN want : mem' = [mem EXCEPT ![a] = want[a]]
  /\ UNCHANGED <<busy, res, want, saved, backup>>

WriteDone ==
  /\ busy /\ ~ busy'
  /\ res' = "ok"
  /\ \A a \in DOMAIN want : mem[a] = want[a]
  /\ want' = Nothing
  /\ UNCHANGED <<mem, saved, backup>>

BackupDone ==
  /\ busy /\ ~ busy'
  /\ res' = "ok"
  /\ want = Nothing /\ want' = Nothing
  /\ ~ saved /\ saved'
  /\ backup' = mem
  /\ UNCHANGED mem

Fail ==
  /\ busy /\ ~ busy'
  /\ res' = "failed"
  /\ want' = Nothing
  /\ UNCHANGED <<mem, saved, backup>>

\* A command that is refused before it does anything.
Refused ==
  /\ ~ busy
  /\ res' = "failed"
  /\ UNCHANGED <<mem, busy, want, saved, backup>>

Lose ==
  /\ ~ busy'
  /\ res' = IF busy THEN "failed" ELSE res
  /\ want' = Nothing
  /\ ~ saved'
  /\ backup' = [a \in Addr |-> ERASED]
  /\ UNCHANGED mem

LNext == Begin \/ Damage \/ Land \/ WriteDone \/ BackupDone \/ Fail
         \/ Refused \/ Lose

LSpec == LInit /\ [][LNext]_lvars
=============================================================================
