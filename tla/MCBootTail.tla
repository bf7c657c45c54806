----------------------------- MODULE MCBootTail -----------------------------
(* Two children and three signals: one that is lost between the swap and    *)
(* waitpid or that starts the shutdown, one that follows, one more.         *)
EXTENDS BootTail
=============================================================================
