---------------------------- MODULE ModulesInfo ----------------------------
(***************************************************************************)
(* How one modprobe call decides what to load: the part of                 *)
(* ModprobeUtil::for_each_dependency_module (modprobe_util.rs) that runs   *)
(* before the first module is handed to the kernel, and the two graph      *)
(* searches it makes over the table read from modules.dep and              *)
(* modules.builtin:                                                        *)
(*                                                                         *)
(*   validate_dependency_paths  a depth-first walk with two fixed-capacity *)
(*                              vectors, which refuses a dependency that   *)
(*                              has no file;                               *)
(*   resolve_load_order         an iterative depth-first search with       *)
(*                              UNVISITED / VISITING / DONE marks and an   *)
(*                              explicit stack of (module, next index),    *)
(*                              which returns the load order or "cycle".   *)
(*                                                                         *)
(* One action is one iteration of a loop.  The call is local to its        *)
(* process, so nothing runs between its steps.                             *)
(*                                                                         *)
(* A table is a record of deps, a function from the modules that have a    *)
(* modules.dep line to their dependency sequences, and builtin, a set.     *)
(* feed_modules_dep_line fills paths and deps together, so a module has a  *)
(* path exactly when it is in DOMAIN deps.                                 *)
(***************************************************************************)
EXTENDS Integers, Sequences, FiniteSets

CONSTANTS
    Modules,      \* short names that occur in modules.dep or modules.builtin
    Infos,        \* the tables the two files may hold
    Roots,        \* the modules a caller may ask for
    VecCap        \* 512: the capacity of stack and of visited in validate

ASSUME InfosAssumption ==
    \A t \in Infos : /\ DOMAIN t.deps \subseteq Modules
                      /\ \A m \in DOMAIN t.deps : t.deps[m] \in Seq(Modules)
                      /\ t.builtin \subseteq Modules
ASSUME RootsAssumption == Roots \subseteq Modules
ASSUME CapAssumption == VecCap \in Nat \ {0}

VARIABLES
    info,        \* ModulesInfo, built by load_modules_info
    root,        \* normalized name of the requested module
    pc,          \* "check", "validate", "resolve" or "done"
    vstack,      \* validate: stack, the top last
    visited,     \* validate: visited, as a set
    owner,       \* validate: the module whose deps are being looked at
    vidx,        \* validate: position in owner's deps, 0 outside that loop
    marks,       \* resolve: marks; an absent key reads as UNVISITED
    stack,       \* resolve: sequence of [mod, idx], the top last
    out_order,   \* resolve: the modules in load order
    result       \* what the call has decided

vars == <<info, root, pc, vstack, visited, owner, vidx, marks, stack, out_order, result>>

Marks == {"UNVISITED", "VISITING", "DONE"}
Results == {"none", "builtin", "order", "ModuleNotFound", "DependencyNotFound",
            "PushStrFailed", "cycle"}

\* An element of resolve's stack: a module and the position of its next dep.
Entries == [mod : Modules, idx : Nat \ {0}]

is_builtin(m) == m \in info.builtin
has_path(m) == m \in DOMAIN info.deps

\* A module without a deps entry is treated as a leaf.
deps_of(m) == IF m \in DOMAIN info.deps THEN info.deps[m] ELSE << >>

Elems(s) == {s[i] : i \in 1 .. Len(s)}
Butlast(s) == SubSeq(s, 1, Len(s) - 1)

Return(r) ==
    /\ pc' = "done"
    /\ result' = r

-----------------------------------------------------------------------------
(* for_each_dependency_module, up to the two searches *)

Check ==
    /\ pc = "check"
    /\ CASE is_builtin(root) -> Return("builtin") /\ UNCHANGED vstack
         [] ~is_builtin(root) /\ ~has_path(root) ->
                Return("ModuleNotFound") /\ UNCHANGED vstack
         [] OTHER -> /\ pc' = "validate"
                     /\ vstack' = <<root>>
                     /\ UNCHANGED result
    /\ UNCHANGED <<info, root, visited, owner, vidx, marks, stack, out_order>>

-----------------------------------------------------------------------------
(* validate_dependency_paths *)

Owner == vstack[Len(vstack)]
Dep == deps_of(owner)[vidx]

\* At the head of the while loop, not inside the loop over the owner's deps.
Popping == pc = "validate" /\ vidx = 0

SkipOwner ==
    /\ Popping /\ vstack # << >>
    /\ Owner \in visited
    /\ vstack' = Butlast(vstack)
    /\ UNCHANGED <<info, root, pc, visited, owner, vidx, marks, stack, out_order, result>>

\* Pop an owner seen for the first time and enter the loop over its deps.
VisitOwner ==
    /\ Popping /\ vstack # << >>
    /\ Owner \notin visited
    /\ vstack' = Butlast(vstack)
    /\ IF Cardinality(visited) = VecCap
       THEN Return("PushStrFailed") /\ UNCHANGED <<visited, owner, vidx>>
       ELSE /\ visited' = visited \cup {Owner}
            /\ IF is_builtin(Owner) THEN UNCHANGED <<pc, result, owner, vidx>>
               ELSE IF ~has_path(Owner)
               THEN Return("ModuleNotFound") /\ UNCHANGED <<owner, vidx>>
               ELSE owner' = Owner /\ vidx' = 1 /\ UNCHANGED <<pc, result>>
    /\ UNCHANGED <<info, root, marks, stack, out_order>>

\* Mutant: the capacity of the stack is not checked.
CheckDep_NoCap ==
    /\ pc = "validate" /\ vidx \in 1 .. Len(deps_of(owner))
    /\ IF ~is_builtin(Dep) /\ ~has_path(Dep)
       THEN Return("DependencyNotFound") /\ UNCHANGED <<vstack, vidx>>
       ELSE /\ vstack' = IF is_builtin(Dep) THEN vstack ELSE Append(vstack, Dep)
            /\ vidx' = vidx + 1
            /\ UNCHANGED <<pc, result>>
    /\ UNCHANGED <<info, root, visited, owner, marks, stack, out_order>>

\* Mutant: only the root's own dependencies are validated.
CheckDep_DirectOnly ==
    /\ pc = "validate" /\ vidx \in 1 .. Len(deps_of(owner))
    /\ IF ~is_builtin(Dep) /\ ~has_path(Dep)
       THEN Return("DependencyNotFound") /\ UNCHANGED vidx
       ELSE vidx' = vidx + 1 /\ UNCHANGED <<pc, result>>
    /\ UNCHANGED <<info, root, vstack, visited, owner, marks, stack, out_order>>

\* One dependency of the owner: skipped, refused or pushed.
CheckDep ==
    /\ pc = "validate" /\ vidx \in 1 .. Len(deps_of(owner))
    /\ \/ /\ is_builtin(Dep)
          /\ vidx' = vidx + 1
          /\ UNCHANGED <<pc, result, vstack>>
       \/ /\ ~is_builtin(Dep) /\ ~has_path(Dep)
          /\ Return("DependencyNotFound")
          /\ UNCHANGED <<vstack, vidx>>
       \/ /\ ~is_builtin(Dep) /\ has_path(Dep) /\ Len(vstack) = VecCap
          /\ Return("PushStrFailed")
          /\ UNCHANGED <<vstack, vidx>>
       \/ /\ ~is_builtin(Dep) /\ has_path(Dep) /\ Len(vstack) < VecCap
          /\ vstack' = Append(vstack, Dep)
          /\ vidx' = vidx + 1
          /\ UNCHANGED <<pc, result>>
    /\ UNCHANGED <<info, root, visited, owner, marks, stack, out_order>>

EndDeps ==
    /\ pc = "validate" /\ vidx > Len(deps_of(owner)) /\ vidx # 0
    /\ vidx' = 0
    /\ UNCHANGED <<info, root, pc, vstack, visited, owner, marks, stack, out_order, result>>

\* The walk is over: resolve_load_order starts with the root on its stack.
StartResolve ==
    /\ Popping /\ vstack = << >>
    /\ pc' = "resolve"
    /\ stack' = <<[mod |-> root, idx |-> 1]>>
    /\ UNCHANGED <<info, root, vstack, visited, owner, vidx, marks, out_order, result>>

-----------------------------------------------------------------------------
(* resolve_load_order *)

Top == stack[Len(stack)]
Cur == Top.mod

\* marks after "mark visiting if unvisited"
Visiting == IF marks[Cur] = "UNVISITED" THEN [marks EXCEPT ![Cur] = "VISITING"] ELSE marks

PopBuiltin ==
    /\ pc = "resolve" /\ stack # << >>
    /\ is_builtin(Cur)
    /\ marks' = [marks EXCEPT ![Cur] = "DONE"]
    /\ stack' = Butlast(stack)
    /\ UNCHANGED <<info, root, pc, vstack, visited, owner, vidx, out_order, result>>

\* Mutant: the last dependency is not looked at.
Emit_OffByOne ==
    /\ pc = "resolve" /\ stack # << >>
    /\ ~is_builtin(Cur) /\ Top.idx >= Len(deps_of(Cur))
    /\ marks' = [marks EXCEPT ![Cur] = "DONE"]
    /\ out_order' = IF Cur \in Elems(out_order) THEN out_order ELSE Append(out_order, Cur)
    /\ stack' = Butlast(stack)
    /\ UNCHANGED <<info, root, pc, vstack, visited, owner, vidx, result>>

\* Mutant: the dependencies are returned without the module itself.
Emit_WithoutRoot ==
    /\ pc = "resolve" /\ stack # << >>
    /\ ~is_builtin(Cur) /\ Top.idx > Len(deps_of(Cur))
    /\ marks' = [marks EXCEPT ![Cur] = "DONE"]
    /\ out_order' = IF Cur \in Elems(out_order) \/ Len(stack) = 1
                    THEN out_order ELSE Append(out_order, Cur)
    /\ stack' = Butlast(stack)
    /\ UNCHANGED <<info, root, pc, vstack, visited, owner, vidx, result>>

\* Mutant: the module stays VISITING when it leaves the stack.
Emit_KeepMark ==
    /\ pc = "resolve" /\ stack # << >>
    /\ ~is_builtin(Cur) /\ Top.idx > Len(deps_of(Cur))
    /\ marks' = Visiting
    /\ out_order' = IF Cur \in Elems(out_order) THEN out_order ELSE Append(out_order, Cur)
    /\ stack' = Butlast(stack)
    /\ UNCHANGED <<info, root, pc, vstack, visited, owner, vidx, result>>

\* All dependencies processed, or none: append to the order unless it is there.
Emit ==
    /\ pc = "resolve" /\ stack # << >>
    /\ ~is_builtin(Cur) /\ Top.idx > Len(deps_of(Cur))
    /\ marks' = [marks EXCEPT ![Cur] = "DONE"]
    /\ out_order' = IF Cur \in Elems(out_order) THEN out_order ELSE Append(out_order, Cur)
    /\ stack' = Butlast(stack)
    /\ UNCHANGED <<info, root, pc, vstack, visited, owner, vidx, result>>

\* Mutant: a dependency that is DONE is looked at again and again.
Examine_StuckOnDone ==
    /\ pc = "resolve" /\ stack # << >>
    /\ ~is_builtin(Cur) /\ Top.idx <= Len(deps_of(Cur))
    /\ LET dep == deps_of(Cur)[Top.idx]
       IN  IF Visiting[dep] = "UNVISITED"
           THEN /\ marks' = Visiting
                /\ stack' = Append(stack, [mod |-> dep, idx |-> 1])
                /\ UNCHANGED <<pc, result>>
           ELSE /\ Visiting[dep] = "VISITING"
                /\ marks' = Visiting
                /\ UNCHANGED stack
                /\ Return("cycle")
    /\ UNCHANGED <<info, root, vstack, visited, owner, vidx, out_order>>

\* Look at the dependency at idx: push it, skip it, or report a cycle.
Examine ==
    /\ pc = "resolve" /\ stack # << >>
    /\ ~is_builtin(Cur) /\ Top.idx <= Len(deps_of(Cur))
    /\ LET dep == deps_of(Cur)[Top.idx]
           advanced == Append(Butlast(stack), [mod |-> Cur, idx |-> Top.idx + 1])
       IN  CASE Visiting[dep] = "UNVISITED" ->
                    /\ marks' = Visiting
                    /\ stack' = Append(advanced, [mod |-> dep, idx |-> 1])
                    /\ UNCHANGED <<pc, result>>
             [] Visiting[dep] = "VISITING" ->
                    /\ marks' = Visiting
                    /\ stack' = advanced
                    /\ Return("cycle")
             [] Visiting[dep] = "DONE" ->
                    /\ marks' = Visiting
                    /\ stack' = advanced
                    /\ UNCHANGED <<pc, result>>
    /\ UNCHANGED <<info, root, vstack, visited, owner, vidx, out_order>>

ReturnOrder ==
    /\ pc = "resolve" /\ stack = << >>
    /\ Return("order")
    /\ UNCHANGED <<info, root, vstack, visited, owner, vidx, marks, stack, out_order>>

-----------------------------------------------------------------------------
Init ==
    /\ info \in Infos
    /\ root \in Roots
    /\ pc = "check"
    /\ vstack = << >>
    /\ visited = {}
    /\ owner = root
    /\ vidx = 0
    /\ marks = [m \in Modules |-> "UNVISITED"]
    /\ stack = << >>
    /\ out_order = << >>
    /\ result = "none"

Next ==
    \/ Check
    \/ SkipOwner \/ VisitOwner \/ CheckDep \/ EndDeps \/ StartResolve
    \/ PopBuiltin \/ Emit \/ Examine \/ ReturnOrder

Spec == Init /\ [][Next]_vars
FairSpec == Spec /\ WF_vars(Next)

-----------------------------------------------------------------------------
(* What the call should decide *)

\* S holds every module file that loading a member of S requires.
Closed(S) == \A m \in S : \A d \in Elems(deps_of(m)) : is_builtin(d) \/ d \in S

\* The root and all it needs, directly or not: the least closed set.
Needed == {m \in Modules : \A S \in SUBSET Modules : root \in S /\ Closed(S) => m \in S}

NoDuplicates(s) == \A i, j \in 1 .. Len(s) : s[i] = s[j] => i = j

(* Every value the search keeps has its type, and validate's vectors stay  *)
(* within their fixed capacities.                                          *)
TypeOK ==
    /\ info \in Infos
    /\ root \in Roots
    /\ pc \in {"check", "validate", "resolve", "done"}
    /\ vstack \in Seq(Modules) /\ Len(vstack) <= VecCap
    /\ visited \in SUBSET Modules /\ Cardinality(visited) <= VecCap
    /\ owner \in Modules /\ vidx \in Nat
    /\ marks \in [Modules -> Marks]
    /\ stack \in Seq(Entries)
    /\ out_order \in Seq(Modules)
    /\ result \in Results

(* At every moment of resolve_load_order, each module of the order comes   *)
(* after all its dependencies that are not built in: the kernel, fed in    *)
(* this order, never meets a module whose symbols are not there yet.       *)
DepsFirst ==
    \A i \in 1 .. Len(out_order) : \A d \in Elems(deps_of(out_order[i])) :
        is_builtin(d) \/ \E j \in 1 .. i - 1 : out_order[j] = d

(* The returned order names the requested module and all it needs, nothing *)
(* else, and each of them once.                                            *)
OrderExact ==
    result = "order" => /\ Elems(out_order) = Needed
                        /\ NoDuplicates(out_order)

(* "dependency cycle detected" is returned only for a real cycle of        *)
(* needed modules: a diamond, or a module reached twice, is not taken for  *)
(* one.                                                                    *)
CycleIsReal ==
    result = "cycle" =>
        \E S \in SUBSET Needed :
            /\ S # {}
            /\ \A m \in S : ~is_builtin(m) /\ Elems(deps_of(m)) \cap S # {}

(* validate_dependency_paths does its job for the other search: when it    *)
(* has accepted, every module resolve_load_order emits has a path, so the  *)
(* lookup in the loading loop cannot fail after some modules were loaded.  *)
(* (A path whose file is missing still fails, when finit_module opens it.) *)
ValidatedPaths ==
    /\ \A m \in Elems(out_order) : has_path(m) /\ ~is_builtin(m)
    /\ result = "DependencyNotFound" => \E m \in Needed : ~has_path(m)

(* The call returns: neither search loops, cycles in the table included.   *)
CallReturns == <>(pc = "done")
=============================================================================
