--------------------------- MODULE MCModulesInfo ---------------------------
(***************************************************************************)
(* Every modules.dep table over three modules whose lines list at most two *)
(* different dependencies (the module itself included), or have no line at *)
(* all, with every set of built-in modules.                                *)
(***************************************************************************)
EXTENDS ModulesInfo

CONSTANTS m1, m2, m3

MCModules == {m1, m2, m3}

\* depmod lists a dependency once
DepLines == {<< >>} \cup {<<d>> : d \in MCModules}
            \cup {s \in MCModules \X MCModules : s[1] # s[2]}

MCInfos ==
    [deps : UNION {[D -> DepLines] : D \in SUBSET MCModules},
     builtin : SUBSET MCModules]

\* One name suffices: the tables are closed under renaming.
MCRoots == {m1}
=============================================================================
