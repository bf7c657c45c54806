------------------------------ MODULE MCFlash ------------------------------
(***************************************************************************)
(* A flash of six sectors and blocks of two.  The NOR layout cuts it 1+3+1 *)
(* +1, so that a partition holds a whole and a partial block; the three    *)
(* images share some sectors and blocks and differ in others.              *)
(***************************************************************************)
EXTENDS Flash

MC_Img1 == [a \in Addr |-> IF a \in {0, 2, 5} THEN "b" ELSE "a"]
MC_Img2 == [a \in Addr |-> IF a \in {2, 4} THEN "b" ELSE "a"]
MC_Images == {MC_Img1, MC_Img2}
MC_Cell == {"a", "b", "zero", "erased", "signed"}

MC_Dev(a, b, c, d, u) ==
  [stat |-> [p \in Parts |-> CASE p = 0 -> a [] p = 1 -> b [] p = 2 -> c [] p = 3 -> d],
   ultra |-> u]

MC_Modern  == MC_Dev(6, 1, 2, OFFLINE, FALSE)   \* mtdblock1.. lie inside mtdblock0
MC_Nor     == MC_Dev(1, 3, 1, 1, TRUE)
MC_Legacy4 == MC_Dev(1, 2, 2, 1, FALSE)
MC_Nand    == MC_Dev(2, 4, 4, 6, TRUE)
MC_Other   == MC_Dev(2, 2, OFFLINE, OFFLINE, FALSE)
MC_Legacy3 == MC_Dev(1, 3, 2, OFFLINE, FALSE)

MC_Devices == {MC_Modern, MC_Nor, MC_Legacy4, MC_Nand, MC_Other, MC_Legacy3}
=============================================================================
