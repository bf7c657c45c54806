------------------------------ MODULE MCRadio ------------------------------
(***************************************************************************)
(* One known and one unknown card, a socket that holds two messages, up to *)
(* three uevents of other devices and two interrupted calls.               *)
(***************************************************************************)
EXTENDS Radio

MCChips == {"AIC8800D80", "Unknown"}
=============================================================================
