------------------------------- MODULE FileText -------------------------------
(***************************************************************************)
(* The contents of a file as a sequence of cells, and what ftruncate and   *)
(* write do to it (OTA/nostd/small_fd.rs).                                 *)
(***************************************************************************)
EXTENDS Integers, SequencesExt

CONSTANT NUL   \* the cell a hole reads as

IsText(text) == text \in Seq(ToSet(text))

\* truncate(len): the text is cut, or extended by a hole that reads as zeros.
Resize(text, len) == [i \in 1 .. len |-> IF i <= Len(text) THEN text[i] ELSE NUL]

\* Cells off + 1 to off + n are those of body; beyond the end the file grows.
Overwrite(text, body, off, n) ==
  [i \in 1 .. Max({Len(text), off + n}) |->
     IF i \in off + 1 .. off + n THEN body[i]
     ELSE IF i <= Len(text) THEN text[i] ELSE NUL]
=============================================================================
