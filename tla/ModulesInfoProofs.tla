------------------------- MODULE ModulesInfoProofs -------------------------
(***************************************************************************)
(* For every table, every root and every vector capacity: the load order   *)
(* puts dependencies first, is exactly what the root needs, "cycle" means  *)
(* a cycle, and a validated order has a file for every module.             *)
(***************************************************************************)
EXTENDS ModulesInfo, FiniteSetTheorems, SequenceTheorems, TLAPS

(* What the walk of validate_dependency_paths has established: visited     *)
(* modules have files, and what they need is visited, still on the stack,  *)
(* or still ahead in the loop over the current owner's dependencies.       *)
WalkInv ==
    /\ IsFiniteSet(visited)
    /\ pc \in {"validate", "resolve"} => ~is_builtin(root)
    /\ pc = "check" => vstack = << >> /\ visited = {} /\ vidx = 0
    /\ pc = "validate" =>
         /\ root \in visited \/ root \in Elems(vstack)
         /\ vidx # 0 => owner \in visited /\ owner \in Needed
         /\ vidx <= Len(deps_of(owner)) + 1
         /\ \A m \in Elems(vstack) : m \in Needed /\ ~is_builtin(m)
         /\ \A m \in visited : ~is_builtin(m) => has_path(m)
         /\ \A m \in visited : \A k \in 1 .. Len(deps_of(m)) :
              \/ is_builtin(m)
              \/ is_builtin(deps_of(m)[k])
              \/ deps_of(m)[k] \in visited
              \/ deps_of(m)[k] \in Elems(vstack)
              \/ m = owner /\ vidx # 0 /\ k >= vidx
    /\ pc = "resolve" \/ result \in {"order", "cycle"} =>
         \A m \in Needed : has_path(m)
    /\ result = "DependencyNotFound" => \E m \in Needed : ~has_path(m)

(* Marks and order agree. *)
MarkInv ==
    /\ pc \in {"check", "validate"} =>
         /\ stack = << >> /\ out_order = << >>
         /\ \A m \in Modules : marks[m] = "UNVISITED"
    /\ \A m \in Modules : marks[m] = "DONE" => is_builtin(m) \/ m \in Elems(out_order)
    /\ \A m \in Elems(out_order) : marks[m] = "DONE" /\ ~is_builtin(m) /\ m \in Needed

(* The stack of resolve_load_order is a path from the root; every module   *)
(* on it but the top is VISITING, only modules on it are, and the          *)
(* dependencies before an entry's index are DONE, except the one on which  *)
(* the next entry works.                                                   *)
StackInv ==
    pc = "resolve" =>
      /\ stack # << >> => stack[1].mod = root
      /\ stack = << >> => marks[root] = "DONE"
      /\ \A p, q \in 1 .. Len(stack) : stack[p].mod = stack[q].mod => p = q
      /\ \A m \in Modules : marks[m] = "VISITING" =>
            \E p \in 1 .. Len(stack) : stack[p].mod = m
      /\ \A p \in 1 .. Len(stack) :
            /\ marks[stack[p].mod] # "DONE"
            /\ is_builtin(stack[p].mod) \/ stack[p].mod \in Needed
            /\ stack[p].idx <= Len(deps_of(stack[p].mod)) + 1
            /\ p < Len(stack) =>
                 /\ marks[stack[p].mod] = "VISITING"
                 /\ ~is_builtin(stack[p].mod)
                 /\ stack[p].idx > 1
                 /\ deps_of(stack[p].mod)[stack[p].idx - 1] = stack[p + 1].mod
            /\ \A k \in 1 .. stack[p].idx - 1 :
                 \/ marks[deps_of(stack[p].mod)[k]] = "DONE"
                 \/ p < Len(stack) /\ k = stack[p].idx - 1

ResultInv ==
    /\ result # "none" <=> pc = "done"
    /\ result = "order" => marks[root] = "DONE" /\ ~is_builtin(root)
    /\ pc = "done" /\ result \notin {"order", "cycle"} => out_order = << >>

IInv ==
    /\ TypeOK
    /\ WalkInv
    /\ MarkInv
    /\ StackInv
    /\ ResultInv
    /\ DepsFirst
    /\ NoDuplicates(out_order)
    /\ CycleIsReal

-----------------------------------------------------------------------------
(* The table and the set of needed modules *)

(* A row of the table is a sequence of modules. *)
LEMMA DepsType ==
    ASSUME info \in Infos, NEW m \in Modules
    PROVE  /\ deps_of(m) \in Seq(Modules)
           /\ Elems(deps_of(m)) \subseteq Modules
           /\ \A k \in 1 .. Len(deps_of(m)) : deps_of(m)[k] \in Elems(deps_of(m))
<1>1. deps_of(m) \in Seq(Modules)
  BY InfosAssumption DEF deps_of
<1>2. QED BY <1>1 DEF Elems

(* The root is needed, and so is each dependency of a needed module that   *)
(* is not built in.                                                        *)
LEMMA NeededStep ==
    ASSUME info \in Infos, root \in Modules
    PROVE  /\ root \in Needed
           /\ Needed \subseteq Modules
           /\ \A m \in Needed : \A k \in 1 .. Len(deps_of(m)) :
                 is_builtin(deps_of(m)[k]) \/ deps_of(m)[k] \in Needed
<1>1. root \in Needed /\ Needed \subseteq Modules
  BY DEF Needed
<1>2. ASSUME NEW m \in Needed, NEW k \in 1 .. Len(deps_of(m)), ~is_builtin(deps_of(m)[k])
      PROVE  deps_of(m)[k] \in Needed
  <2>1. m \in Modules
    BY DEF Needed
  <2>2. deps_of(m)[k] \in Elems(deps_of(m)) /\ deps_of(m)[k] \in Modules
    BY <2>1, DepsType
  <2>3. ASSUME NEW S \in SUBSET Modules, root \in S, Closed(S)
        PROVE  deps_of(m)[k] \in S
    <3>1. m \in S
      BY <2>3 DEF Needed
    <3>2. QED BY <3>1, <2>3, <2>2, <1>2 DEF Closed
  <2>4. QED BY <2>2, <2>3 DEF Needed
<1>3. QED BY <1>1, <1>2

(* Needed is the least such set. *)
LEMMA NeededLeast ==
    ASSUME info \in Infos, NEW S \in SUBSET Modules, root \in S,
           \A m \in S : \A k \in 1 .. Len(deps_of(m)) :
               is_builtin(deps_of(m)[k]) \/ deps_of(m)[k] \in S
    PROVE  Needed \subseteq S
<1>1. Closed(S)
  BY DEF Closed, Elems
<1>2. QED BY <1>1 DEF Needed

(* Nothing changes the table or the root. *)
LEMMA TableStep ==
    ASSUME [Next]_vars
    PROVE  /\ info' = info /\ root' = root
           /\ Needed' = Needed
<1>1. info' = info /\ root' = root
  BY DEF Next, vars, Check, SkipOwner, VisitOwner, CheckDep, EndDeps, StartResolve,
         PopBuiltin, Emit, Examine, ReturnOrder
<1>2. QED BY <1>1 DEF Needed, Closed, deps_of, is_builtin

(* Dropping the last element of a sequence. *)
LEMMA ButlastFacts ==
    ASSUME NEW T, NEW s \in Seq(T), s # << >>
    PROVE  /\ Butlast(s) \in Seq(T)
           /\ Len(s) \in Nat \ {0}
           /\ Len(Butlast(s)) = Len(s) - 1
           /\ \A i \in 1 .. Len(s) - 1 : Butlast(s)[i] = s[i]
           /\ s[Len(s)] \in T
<1>1. Len(s) \in Nat \ {0}
  BY EmptySeq
<1>2. 1 \in Int /\ Len(s) - 1 \in Int /\ Len(s) - 1 \in 0 .. Len(s)
  BY <1>1
<1>3. /\ Butlast(s) \in Seq(T)
      /\ Len(Butlast(s)) = Len(s) - 1
      /\ \A i \in 1 .. Len(s) - 1 : Butlast(s)[i] = s[i]
  BY <1>1, <1>2 DEF Butlast
<1>4. QED BY <1>1, <1>3

(* The elements that are left when the last one is dropped. *)
LEMMA ElemsButlast ==
    ASSUME NEW T, NEW s \in Seq(T), s # << >>
    PROVE  /\ Elems(s) = Elems(Butlast(s)) \cup {s[Len(s)]}
           /\ Elems(s) \subseteq T
<1>1. /\ Len(s) \in Nat \ {0}
      /\ Len(Butlast(s)) = Len(s) - 1
      /\ \A i \in 1 .. Len(s) - 1 : Butlast(s)[i] = s[i]
  BY ButlastFacts
<1>2. \A i \in 1 .. Len(s) : s[i] \in Elems(s) /\ s[i] \in T
  BY DEF Elems
<1>3. \A i \in 1 .. Len(s) - 1 : s[i] \in Elems(Butlast(s))
  BY <1>1 DEF Elems
<1>4. \A e \in Elems(s) : \E i \in 1 .. Len(s) : e = s[i]
  BY DEF Elems
<1>5. \A e \in Elems(Butlast(s)) : \E i \in 1 .. Len(s) - 1 : e = s[i]
  BY <1>1 DEF Elems
<1>6. Elems(s) \subseteq Elems(Butlast(s)) \cup {s[Len(s)]}
  BY <1>1, <1>3, <1>4
<1>7. Elems(Butlast(s)) \cup {s[Len(s)]} \subseteq Elems(s)
  BY <1>1, <1>2, <1>5
<1>8. QED BY <1>2, <1>4, <1>6, <1>7

(* Appending an element to a sequence. *)
LEMMA AppendFacts ==
    ASSUME NEW T, NEW s \in Seq(T), NEW e \in T
    PROVE  /\ Append(s, e) \in Seq(T)
           /\ Len(s) \in Nat
           /\ Len(Append(s, e)) = Len(s) + 1
           /\ \A i \in 1 .. Len(s) : Append(s, e)[i] = s[i]
           /\ Append(s, e)[Len(s) + 1] = e
OBVIOUS

-----------------------------------------------------------------------------
(* Initially *)

LEMMA InitInv == Init => IInv
<1> SUFFICES ASSUME Init PROVE IInv
  OBVIOUS
<1> USE RootsAssumption, CapAssumption
<1>1. IsFiniteSet(visited) /\ Cardinality(visited) = 0
  BY FS_EmptySet DEF Init
<1>2. TypeOK
  BY <1>1 DEF Init, TypeOK, Marks, Results
<1>3. WalkInv
  BY <1>1 DEF Init, WalkInv, Elems
<1>4. MarkInv /\ StackInv
  BY DEF Init, MarkInv, StackInv, Elems
<1>5. ResultInv /\ DepsFirst /\ NoDuplicates(out_order) /\ CycleIsReal
  BY DEF Init, ResultInv, DepsFirst, NoDuplicates, CycleIsReal
<1>6. QED BY <1>2, <1>3, <1>4, <1>5 DEF IInv

-----------------------------------------------------------------------------
(* Types *)

LEMMA TypeStep ==
    ASSUME TypeOK, IsFiniteSet(visited), WalkInv, [Next]_vars
    PROVE  TypeOK' /\ IsFiniteSet(visited')
<1> USE RootsAssumption, CapAssumption DEF TypeOK
<1> USE DEF Return, Marks, Results
<1>a. root \in Modules
  OBVIOUS
<1>1. CASE Check
  <2>1. <<root>> \in Seq(Modules) /\ Len(<<root>>) <= VecCap
    BY <1>a
  <2>2. CASE is_builtin(root) \/ ~has_path(root)
    BY <1>1, <2>2 DEF Check
  <2>3. CASE ~is_builtin(root) /\ has_path(root)
    BY <1>1, <2>1, <2>3 DEF Check
  <2>4. QED BY <2>2, <2>3
<1>2. CASE SkipOwner
  <2>1. Butlast(vstack) \in Seq(Modules) /\ Len(Butlast(vstack)) <= VecCap
    BY <1>2, ButlastFacts DEF SkipOwner
  <2>2. QED BY <1>2, <2>1 DEF SkipOwner
<1>3. CASE VisitOwner
  <2>1. /\ Butlast(vstack) \in Seq(Modules) /\ Len(Butlast(vstack)) <= VecCap
        /\ Owner \in Modules
    BY <1>3, ButlastFacts DEF VisitOwner, Owner
  <2>2. /\ IsFiniteSet(visited \cup {Owner})
        /\ Owner \notin visited => Cardinality(visited \cup {Owner}) = Cardinality(visited) + 1
        /\ Cardinality(visited) \in Nat
    BY FS_AddElement, FS_CardinalityType
  <2>3. CASE Cardinality(visited) = VecCap
    BY <1>3, <2>1, <2>3 DEF VisitOwner
  <2>4. CASE Cardinality(visited) # VecCap
    <3>1. visited' = visited \cup {Owner} /\ Owner \notin visited
      BY <1>3, <2>4 DEF VisitOwner
    <3>2. Cardinality(visited') <= VecCap
      BY <3>1, <2>2, <2>4
    <3>3. owner' \in Modules /\ vidx' \in Nat /\ pc' \in {"validate", "done"} /\ result' \in Results
      BY <1>3, <2>1, <2>4 DEF VisitOwner, Popping
    <3>4. QED BY <1>3, <2>1, <2>2, <3>1, <3>2, <3>3 DEF VisitOwner
  <2>5. QED BY <2>3, <2>4
<1>4. CASE CheckDep
  <2>1. Dep \in Modules
    BY <1>4, DepsType DEF CheckDep, Dep
  <2>2. Append(vstack, Dep) \in Seq(Modules) /\ Len(Append(vstack, Dep)) = Len(vstack) + 1
    BY <2>1, AppendFacts
  <2>3. vstack' \in Seq(Modules) /\ Len(vstack') <= VecCap
    <3>1. vstack' = vstack \/ (Len(vstack) < VecCap /\ vstack' = Append(vstack, Dep))
      BY <1>4 DEF CheckDep
    <3>2. Len(vstack) \in Nat
      OBVIOUS
    <3>3. CASE vstack' = vstack
      BY <3>3
    <3>4. CASE Len(vstack) < VecCap /\ vstack' = Append(vstack, Dep)
      <4>1. Len(vstack') = Len(vstack) + 1 /\ vstack' \in Seq(Modules)
        BY <2>2, <3>4 DEF TypeOK
      <4>2. QED BY <4>1, <3>2, <3>4
    <3>5. QED BY <3>1, <3>3, <3>4
  <2>4. vidx' \in Nat /\ pc' \in {"validate", "done"} /\ result' \in Results
    BY <1>4 DEF CheckDep
  <2>5. QED BY <1>4, <2>3, <2>4 DEF CheckDep
<1>5. CASE EndDeps
  BY <1>5 DEF EndDeps
<1>6. CASE StartResolve
  <2>1. <<[mod |-> root, idx |-> 1]>> \in Seq(Entries)
    BY <1>a DEF Entries
  <2>2. QED BY <1>6, <2>1 DEF StartResolve
<1>7. CASE PopBuiltin
  <2>1. /\ Butlast(stack) \in Seq(Entries)
        /\ Top \in Entries
    BY <1>7, ButlastFacts DEF PopBuiltin, Top
  <2>2. marks' \in [Modules -> Marks]
    BY <1>7, <2>1 DEF PopBuiltin, Cur, Entries
  <2>3. QED BY <1>7, <2>1, <2>2 DEF PopBuiltin
<1>8. CASE Emit
  <2>1. /\ Butlast(stack) \in Seq(Entries)
        /\ Top \in Entries
    BY <1>8, ButlastFacts DEF Emit, Top
  <2>2. Cur \in Modules
    BY <2>1 DEF Cur, Entries
  <2>3. marks' \in [Modules -> Marks] /\ out_order' \in Seq(Modules)
    BY <1>8, <2>2, AppendFacts DEF Emit
  <2>4. QED BY <1>8, <2>1, <2>3 DEF Emit
<1>9. CASE Examine
  <2> DEFINE dep == deps_of(Cur)[Top.idx]
             advanced == Append(Butlast(stack), [mod |-> Cur, idx |-> Top.idx + 1])
  <2>1. Butlast(stack) \in Seq(Entries) /\ Top \in Entries
    BY <1>9, ButlastFacts DEF Examine, Top
  <2>2. Cur \in Modules /\ Top.idx \in Nat \ {0}
    BY <2>1 DEF Cur, Entries
  <2>3. dep \in Modules
    BY <1>9, <2>2, DepsType DEF Examine
  <2>4. /\ [mod |-> Cur, idx |-> Top.idx + 1] \in Entries
        /\ [mod |-> dep, idx |-> 1] \in Entries
    BY <2>2, <2>3 DEF Entries
  <2>5. advanced \in Seq(Entries)
    BY <2>1, <2>4, AppendFacts
  <2>6. Append(advanced, [mod |-> dep, idx |-> 1]) \in Seq(Entries)
    BY <2>5, <2>4, AppendFacts
  <2>7. Visiting \in [Modules -> Marks]
    BY <2>2 DEF Visiting
  <2>8. stack' \in Seq(Entries) /\ marks' = Visiting
    BY <1>9, <2>5, <2>6, <2>7, <2>3 DEF Examine
  <2>9. pc' \in {"resolve", "done"} /\ result' \in Results
    BY <1>9, <2>7, <2>3 DEF Examine
  <2>10. QED BY <1>9, <2>7, <2>8, <2>9 DEF Examine
<1>10. CASE ReturnOrder
  BY <1>10 DEF ReturnOrder
<1>11. CASE UNCHANGED vars
  BY <1>11 DEF vars
<1>12. QED BY <1>1, <1>2, <1>3, <1>4, <1>5, <1>6, <1>7, <1>8, <1>9, <1>10, <1>11 DEF Next

-----------------------------------------------------------------------------
(* The steps before resolve_load_order leave its data alone *)

LEMMA EarlyStep ==
    ASSUME IInv, TypeOK', Needed' = Needed, info' = info, root' = root,
           pc \in {"check", "validate"}, pc' \in {"check", "validate", "done"},
           UNCHANGED <<marks, stack, out_order>>,
           \/ pc' # "done" /\ UNCHANGED result
           \/ pc' = "done" /\ result' \notin {"none", "order", "cycle"}
    PROVE  /\ MarkInv' /\ StackInv' /\ ResultInv'
           /\ DepsFirst' /\ NoDuplicates(out_order)' /\ CycleIsReal'
<1> USE DEF IInv
<1>1. out_order' = << >> /\ stack' = << >>
  BY DEF MarkInv
<1>2. result = "none"
  BY DEF ResultInv
<1>3. MarkInv'
  BY <1>1 DEF MarkInv, Elems, is_builtin
<1>4. StackInv' /\ ResultInv'
  BY <1>1, <1>2 DEF StackInv, ResultInv
<1>5. DepsFirst' /\ NoDuplicates(out_order)' /\ CycleIsReal'
  BY <1>1, <1>2 DEF DepsFirst, NoDuplicates, CycleIsReal
<1>6. QED BY <1>3, <1>4, <1>5

LEMMA CheckStep ==
    ASSUME IInv, TypeOK', Needed' = Needed, Check, IsFiniteSet(visited')
    PROVE  IInv'
<1> USE DEF IInv, Check, Return
<1>1. info' = info /\ root' = root /\ result = "none" /\ root \in Modules /\ info \in Infos
  BY RootsAssumption DEF ResultInv, TypeOK
<1>2. \/ pc' = "done" /\ result' \in {"builtin", "ModuleNotFound"}
      \/ /\ pc' = "validate" /\ ~is_builtin(root) /\ has_path(root)
         /\ vstack' = <<root>> /\ UNCHANGED result
  OBVIOUS
<1>3. MarkInv' /\ StackInv' /\ ResultInv' /\ DepsFirst' /\ NoDuplicates(out_order)' /\ CycleIsReal'
  BY <1>1, <1>2, EarlyStep DEF MarkInv
<1>4. WalkInv'
  <2>1. CASE pc' = "done"
    BY <1>1, <1>2, <2>1 DEF WalkInv
  <2>2. CASE pc' = "validate"
    <3>1. visited' = {} /\ vidx' = 0 /\ vstack' = <<root>> /\ result' = "none" /\ ~is_builtin(root)
      BY <1>1, <1>2, <2>2 DEF WalkInv
    <3>2. Elems(vstack') = {root}
      BY <3>1 DEF Elems
    <3>3. root \in Needed
      BY <1>1, NeededStep
    <3>4. Len(deps_of(owner))' \in Nat
      BY <1>1, DepsType DEF TypeOK, deps_of
    <3>5. QED BY <1>1, <2>2, <3>1, <3>2, <3>3, <3>4 DEF WalkInv, is_builtin, Elems
  <2>3. QED BY <1>2, <2>1, <2>2
<1>5. QED BY <1>3, <1>4

-----------------------------------------------------------------------------
(* The walk of validate_dependency_paths *)

LEMMA SkipOwnerStep ==
    ASSUME IInv, TypeOK', Needed' = Needed, SkipOwner, IsFiniteSet(visited')
    PROVE  IInv'
<1> USE DEF IInv, SkipOwner, Popping
<1>1. info' = info /\ root' = root /\ result = "none" /\ pc' = "validate"
  BY DEF ResultInv
<1>2. MarkInv' /\ StackInv' /\ ResultInv' /\ DepsFirst' /\ NoDuplicates(out_order)' /\ CycleIsReal'
  BY <1>1, EarlyStep
<1>3. Elems(vstack) = Elems(vstack') \cup {Owner} /\ Owner \in visited
  BY ElemsButlast DEF TypeOK, Owner
<1>4. Elems(vstack') \subseteq Elems(vstack)
  BY <1>3
<1>5. WalkInv'
  BY <1>1, <1>3, <1>4 DEF WalkInv, is_builtin, has_path, deps_of
<1>6. QED BY <1>2, <1>5

LEMMA VisitOwnerStep ==
    ASSUME IInv, TypeOK', Needed' = Needed, VisitOwner, IsFiniteSet(visited')
    PROVE  IInv'
<1> USE DEF IInv, Popping
<1>1. /\ info' = info /\ root' = root /\ result = "none" /\ vstack' = Butlast(vstack)
      /\ vidx = 0 /\ pc = "validate"
  BY DEF ResultInv, VisitOwner
<1>2. \/ pc' = "done" /\ result' \in {"PushStrFailed", "ModuleNotFound"}
      \/ /\ pc' = "validate" /\ UNCHANGED result /\ visited' = visited \cup {Owner}
         /\ \/ is_builtin(Owner) /\ UNCHANGED <<owner, vidx>>
            \/ ~is_builtin(Owner) /\ has_path(Owner) /\ owner' = Owner /\ vidx' = 1
  BY <1>1 DEF VisitOwner, Return
<1>3. MarkInv' /\ StackInv' /\ ResultInv' /\ DepsFirst' /\ NoDuplicates(out_order)' /\ CycleIsReal'
  BY <1>1, <1>2, EarlyStep DEF VisitOwner
<1>4. Elems(vstack) = Elems(vstack') \cup {Owner}
  BY <1>1, ElemsButlast DEF TypeOK, Owner, VisitOwner
<1>5. CASE pc' = "done"
  BY <1>1, <1>2, <1>3, <1>5 DEF WalkInv
<1>6. CASE pc' = "validate"
  <2>1. /\ visited' = visited \cup {Owner} /\ result' = "none"
        /\ ~is_builtin(Owner) /\ Owner \in Needed
        /\ has_path(Owner) /\ owner' = Owner /\ vidx' = 1
    BY <1>1, <1>2, <1>4, <1>6 DEF WalkInv
  <2>2. Owner \in Modules
    BY <2>1 DEF TypeOK
  <2>3. Len(deps_of(Owner)) \in Nat
    BY <2>2, DepsType DEF TypeOK
  <2>4. WalkInv'
    BY <1>1, <1>4, <1>6, <2>1, <2>3 DEF WalkInv, is_builtin, has_path, deps_of
  <2>5. QED BY <1>3, <2>4
<1>7. QED BY <1>2, <1>5, <1>6

LEMMA CheckDepStep ==
    ASSUME IInv, TypeOK', Needed' = Needed, CheckDep, IsFiniteSet(visited')
    PROVE  IInv'
<1> USE DEF IInv
<1>1. /\ info' = info /\ root' = root /\ result = "none" /\ pc = "validate"
      /\ visited' = visited /\ owner' = owner /\ vidx \in 1 .. Len(deps_of(owner))
      /\ UNCHANGED <<marks, stack, out_order>>
  BY DEF ResultInv, CheckDep
<1>2. \/ pc' = "done" /\ result' = "PushStrFailed"
      \/ pc' = "done" /\ result' = "DependencyNotFound" /\ ~is_builtin(Dep) /\ ~has_path(Dep)
      \/ /\ pc' = "validate" /\ UNCHANGED result /\ vidx' = vidx + 1
         /\ \/ is_builtin(Dep) /\ vstack' = vstack
            \/ ~is_builtin(Dep) /\ vstack' = Append(vstack, Dep)
  BY <1>1 DEF CheckDep, Return
<1>3. MarkInv' /\ StackInv' /\ ResultInv' /\ DepsFirst' /\ NoDuplicates(out_order)' /\ CycleIsReal'
  BY <1>1, <1>2, EarlyStep
<1>4. owner \in Needed /\ owner \in visited /\ (is_builtin(Dep) \/ Dep \in Needed) /\ vidx # 0
  <2>1. owner \in Needed /\ owner \in visited /\ vidx # 0
    BY <1>1 DEF WalkInv
  <2>2. QED BY <1>1, <2>1, NeededStep, RootsAssumption DEF TypeOK, Dep
<1>5. Dep \in Modules /\ Len(deps_of(owner)) \in Nat
  BY <1>1, DepsType DEF Dep, TypeOK
<1>6. CASE pc' = "done"
  <2>1. WalkInv'
    BY <1>1, <1>2, <1>4, <1>6 DEF WalkInv, is_builtin, has_path
  <2>2. QED BY <1>3, <2>1
<1>7. CASE pc' = "validate"
  <2>1. /\ result' = "none" /\ vidx' = vidx + 1
        /\ \/ is_builtin(Dep) /\ vstack' = vstack
           \/ ~is_builtin(Dep) /\ vstack' = Append(vstack, Dep)
    BY <1>1, <1>2, <1>7
  <2>2. /\ Elems(vstack) \subseteq Elems(vstack')
        /\ \A m \in Elems(vstack') : m \in Elems(vstack) \/ m = Dep
        /\ is_builtin(Dep) \/ Dep \in Elems(vstack')
        /\ ~is_builtin(Dep) \/ Elems(vstack') = Elems(vstack)
    <3>1. CASE is_builtin(Dep)
      BY <2>1, <3>1
    <3>2. CASE ~is_builtin(Dep)
      <4>1. vstack' = Append(vstack, Dep)
        BY <2>1, <3>2
      <4>2. /\ Len(vstack) \in Nat
            /\ Len(vstack') = Len(vstack) + 1
            /\ \A i \in 1 .. Len(vstack) : vstack'[i] = vstack[i]
            /\ vstack'[Len(vstack) + 1] = Dep
        BY <4>1, <1>5, AppendFacts DEF TypeOK
      <4>3. QED BY <4>2, <3>2 DEF Elems
    <3>3. QED BY <3>1, <3>2
  <2>3. \A m \in visited : \A k \in 1 .. Len(deps_of(m)) :
              \/ is_builtin(m)
              \/ is_builtin(deps_of(m)[k])
              \/ deps_of(m)[k] \in visited
              \/ deps_of(m)[k] \in Elems(vstack')
              \/ (m = owner /\ k >= vidx + 1)
    <3>1. ASSUME NEW m \in visited, NEW k \in 1 .. Len(deps_of(m))
          PROVE     is_builtin(m) \/ is_builtin(deps_of(m)[k]) \/ deps_of(m)[k] \in visited
                 \/ deps_of(m)[k] \in Elems(vstack') \/ (m = owner /\ k >= vidx + 1)
      <4>1. CASE m = owner /\ k = vidx
        BY <4>1, <2>2 DEF Dep
      <4>2. CASE ~(m = owner /\ k = vidx)
        <5>1. k \in Nat /\ vidx \in Nat
          BY DEF TypeOK
        <5>2. \/ is_builtin(m) \/ is_builtin(deps_of(m)[k]) \/ deps_of(m)[k] \in visited
              \/ deps_of(m)[k] \in Elems(vstack) \/ (m = owner /\ k >= vidx)
          BY <1>1 DEF WalkInv
        <5>3. QED BY <4>2, <5>1, <5>2, <2>2
      <4>3. QED BY <4>1, <4>2
    <3>2. QED BY <3>1
  <2>4. \A m \in Elems(vstack') : m \in Needed /\ ~is_builtin(m)
    BY <1>1, <1>4, <2>2 DEF WalkInv
  <2>5. WalkInv'
    BY <1>1, <1>4, <1>5, <1>7, <2>1, <2>2, <2>3, <2>4 DEF WalkInv, is_builtin, has_path, deps_of
  <2>6. QED BY <1>3, <2>5
<1>8. QED BY <1>2, <1>6, <1>7

LEMMA EndDepsStep ==
    ASSUME IInv, TypeOK', Needed' = Needed, EndDeps, IsFiniteSet(visited')
    PROVE  IInv'
<1> USE DEF IInv, EndDeps
<1>1. info' = info /\ root' = root /\ result = "none" /\ pc' = "validate"
  BY DEF ResultInv
<1>2. MarkInv' /\ StackInv' /\ ResultInv' /\ DepsFirst' /\ NoDuplicates(out_order)' /\ CycleIsReal'
  BY <1>1, EarlyStep
<1>3. Len(deps_of(owner)) \in Nat
  BY DepsType DEF TypeOK
<1>4. \A m \in visited : \A k \in 1 .. Len(deps_of(m)) :
              \/ is_builtin(m)
              \/ is_builtin(deps_of(m)[k])
              \/ deps_of(m)[k] \in visited
              \/ deps_of(m)[k] \in Elems(vstack)
  BY <1>3 DEF WalkInv, TypeOK
<1>5. WalkInv'
  BY <1>1, <1>3, <1>4 DEF WalkInv, is_builtin, has_path, deps_of
<1>6. QED BY <1>2, <1>5

-----------------------------------------------------------------------------
(* resolve_load_order *)

(* When the walk ends, the visited modules that are not built in contain   *)
(* the root and are closed, so they contain all that is needed.            *)
LEMMA StartResolveStep ==
    ASSUME IInv, TypeOK', Needed' = Needed, StartResolve, IsFiniteSet(visited')
    PROVE  IInv'
<1> USE DEF IInv, Popping
<1> DEFINE S == {m \in visited : ~is_builtin(m)}
<1>1. /\ info' = info /\ root' = root /\ result' = "none" /\ pc = "validate" /\ pc' = "resolve"
      /\ vidx = 0 /\ Elems(vstack) = {}
      /\ UNCHANGED <<marks, out_order>> /\ stack' = <<[mod |-> root, idx |-> 1]>>
  BY DEF ResultInv, StartResolve, Elems
<1>2. root \in S /\ S \in SUBSET Modules
  BY <1>1 DEF WalkInv, TypeOK
<1>3. \A m \in S : \A k \in 1 .. Len(deps_of(m)) :
        is_builtin(deps_of(m)[k]) \/ deps_of(m)[k] \in S
  BY <1>1 DEF WalkInv
<1>4. Needed \subseteq S
  BY <1>2, <1>3, NeededLeast DEF TypeOK
<1>5. \A m \in Needed : has_path(m)
  BY <1>1, <1>4 DEF WalkInv
<1>6. WalkInv'
  BY <1>1, <1>2, <1>5 DEF WalkInv, is_builtin, has_path
<1>7. out_order = << >> /\ \A m \in Modules : marks[m] = "UNVISITED"
  BY <1>1 DEF MarkInv
<1>8. MarkInv' /\ ResultInv' /\ DepsFirst' /\ NoDuplicates(out_order)' /\ CycleIsReal'
  BY <1>1, <1>7 DEF MarkInv, ResultInv, DepsFirst, NoDuplicates, CycleIsReal, Elems
<1>9. StackInv'
  <2>1. root \in Modules /\ root \in Needed /\ info \in Infos
    BY NeededStep, RootsAssumption DEF TypeOK
  <2>2. Len(deps_of(root)) \in Nat
    BY <2>1, DepsType
  <2>3. Len(stack') = 1 /\ stack'[1].mod = root /\ stack'[1].idx = 1 /\ stack' # << >>
    BY <1>1
  <2>4. QED BY <1>1, <1>7, <2>1, <2>2, <2>3 DEF StackInv, is_builtin, deps_of
<1>10. QED BY <1>6, <1>8, <1>9

(* The table of paths is not touched again. *)
LEMMA LateWalk ==
    ASSUME IInv, Needed' = Needed, info' = info, root' = root, pc = "resolve",
           pc' \in {"resolve", "done"}, IsFiniteSet(visited'),
           result' \in {"none", "order", "cycle"}
    PROVE  WalkInv'
BY DEF IInv, WalkInv, is_builtin, has_path

(* Facts about the top of the stack. *)
LEMMA TopFacts ==
    ASSUME IInv, pc = "resolve", stack # << >>
    PROVE  /\ Len(stack) \in Nat \ {0}
           /\ Top = stack[Len(stack)] /\ Cur = stack[Len(stack)].mod
           /\ Top.idx \in Nat \ {0} /\ Cur \in Modules
           /\ \A p \in 1 .. Len(stack) : stack[p].mod \in Modules /\ stack[p].idx \in Nat \ {0}
           /\ marks[Cur] # "DONE"
           /\ is_builtin(Cur) \/ Cur \in Needed
           /\ \A k \in 1 .. Top.idx - 1 : marks[deps_of(Cur)[k]] = "DONE"
           /\ deps_of(Cur) \in Seq(Modules) /\ Len(deps_of(Cur)) \in Nat
           /\ result = "none"
<1> USE DEF IInv
<1>1. Len(stack) \in Nat \ {0} /\ stack \in [1 .. Len(stack) -> Entries]
  BY EmptySeq, LenProperties DEF TypeOK
<1>2. \A p \in 1 .. Len(stack) : stack[p].mod \in Modules /\ stack[p].idx \in Nat \ {0}
  BY <1>1 DEF Entries
<1>3. /\ Top = stack[Len(stack)] /\ Cur = stack[Len(stack)].mod
      /\ Top.idx \in Nat \ {0} /\ Cur \in Modules
  BY <1>1, <1>2 DEF Top, Cur
<1>4. /\ marks[Cur] # "DONE"
      /\ is_builtin(Cur) \/ Cur \in Needed
      /\ \A k \in 1 .. Top.idx - 1 : marks[deps_of(Cur)[k]] = "DONE"
  BY <1>1, <1>3 DEF StackInv
<1>5. deps_of(Cur) \in Seq(Modules) /\ Len(deps_of(Cur)) \in Nat
  BY <1>3, DepsType DEF TypeOK
<1>6. QED BY <1>1, <1>2, <1>3, <1>4, <1>5 DEF ResultInv

(* Popping a finished module keeps the shape of the stack. *)
LEMMA PopStep ==
    ASSUME IInv, TypeOK', Needed' = Needed, info' = info, root' = root,
           pc = "resolve", pc' = "resolve", stack # << >>,
           marks' = [marks EXCEPT ![Cur] = "DONE"], stack' = Butlast(stack)
    PROVE  StackInv'
<1> DEFINE n == Len(stack)
<1>1. /\ n \in Nat \ {0} /\ Cur = stack[n].mod /\ Cur \in Modules
      /\ \A p \in 1 .. n : stack[p].mod \in Modules /\ stack[p].idx \in Nat \ {0}
  BY TopFacts
<1>2. Len(stack') = n - 1 /\ \A p \in 1 .. n - 1 : stack'[p] = stack[p]
  BY ButlastFacts DEF IInv, TypeOK
<1>3. /\ marks'[Cur] = "DONE"
      /\ \A m \in Modules : m # Cur => marks'[m] = marks[m]
  BY <1>1 DEF IInv, TypeOK
<1>4. StackInv
  BY DEF IInv
<1> HIDE DEF n
<1>5. \A p \in 1 .. n - 1 : stack[p].mod # Cur
  BY <1>1, <1>4 DEF StackInv, n
<1>6. stack' # << >> => stack'[1].mod = root
  <2>1. SUFFICES ASSUME stack' # << >> PROVE stack'[1].mod = root
    OBVIOUS
  <2>2. Len(stack') \in Nat \ {0}
    BY <2>1, EmptySeq DEF TypeOK
  <2>3. 1 \in 1 .. n - 1 /\ stack[1].mod = root
    BY <1>1, <1>2, <1>4, <2>2 DEF StackInv
  <2>4. QED BY <2>3, <1>2
<1>7. stack' = << >> => marks'[root] = "DONE"
  <2>1. SUFFICES ASSUME stack' = << >> PROVE marks'[root] = "DONE"
    OBVIOUS
  <2>2. n = 1
    BY <1>1, <1>2, <2>1
  <2>3. Cur = root
    BY <1>1, <1>4, <2>2 DEF StackInv
  <2>4. QED BY <2>3, <1>3
<1>8. ASSUME NEW p \in 1 .. Len(stack'), NEW q \in 1 .. Len(stack'),
             stack'[p].mod = stack'[q].mod
      PROVE  p = q
  <2>1. p \in 1 .. n /\ q \in 1 .. n /\ stack'[p] = stack[p] /\ stack'[q] = stack[q]
    BY <1>1, <1>2
  <2>2. QED BY <2>1, <1>8, <1>4 DEF StackInv, n
<1>9. ASSUME NEW m \in Modules, marks'[m] = "VISITING"
      PROVE  \E p \in 1 .. Len(stack') : stack'[p].mod = m
  <2>1. m # Cur /\ marks[m] = "VISITING"
    BY <1>3, <1>9
  <2>2. PICK p \in 1 .. n : stack[p].mod = m
    BY <2>1, <1>4 DEF StackInv, n
  <2>3. p \in 1 .. n - 1
    BY <2>1, <2>2, <1>1
  <2>4. QED BY <2>2, <2>3, <1>2
<1>10. ASSUME NEW p \in 1 .. Len(stack')
       PROVE  /\ marks'[stack'[p].mod] # "DONE"
              /\ is_builtin(stack'[p].mod) \/ stack'[p].mod \in Needed
              /\ stack'[p].idx <= Len(deps_of(stack'[p].mod)) + 1
              /\ p < Len(stack') =>
                   /\ marks'[stack'[p].mod] = "VISITING"
                   /\ ~is_builtin(stack'[p].mod)
                   /\ stack'[p].idx > 1
                   /\ deps_of(stack'[p].mod)[stack'[p].idx - 1] = stack'[p + 1].mod
              /\ \A k \in 1 .. stack'[p].idx - 1 :
                   \/ marks'[deps_of(stack'[p].mod)[k]] = "DONE"
                   \/ p < Len(stack') /\ k = stack'[p].idx - 1
  <2>1. p \in 1 .. n - 1 /\ p \in 1 .. n /\ p < n /\ stack'[p] = stack[p] /\ stack[p].mod # Cur
    BY <1>1, <1>2, <1>5
  <2>2. marks'[stack[p].mod] = marks[stack[p].mod] /\ marks[stack[p].mod] = "VISITING"
    BY <1>1, <1>3, <1>4, <2>1 DEF StackInv, n
  <2>3. /\ ~is_builtin(stack[p].mod) /\ stack[p].mod \in Needed
        /\ stack[p].idx <= Len(deps_of(stack[p].mod)) + 1
        /\ stack[p].idx > 1
        /\ deps_of(stack[p].mod)[stack[p].idx - 1] = stack[p + 1].mod
    BY <1>4, <2>1 DEF StackInv, n
  <2>4. p < n - 1 => stack'[p + 1] = stack[p + 1]
    BY <1>1, <1>2, <2>1
  <2>5. ASSUME NEW k \in 1 .. stack[p].idx - 1
        PROVE  \/ marks'[deps_of(stack[p].mod)[k]] = "DONE"
               \/ p < n - 1 /\ k = stack[p].idx - 1
    <3>1. \/ marks[deps_of(stack[p].mod)[k]] = "DONE"
          \/ k = stack[p].idx - 1
      BY <1>4, <2>1 DEF StackInv, n
    <3>2. deps_of(stack[p].mod)[k] \in Modules
      <4>1. stack[p].mod \in Modules /\ stack[p].idx \in Nat \ {0}
        BY <1>1, <2>1
      <4>2. /\ deps_of(stack[p].mod) \in Seq(Modules)
            /\ Len(deps_of(stack[p].mod)) \in Nat
        BY <4>1, DepsType DEF IInv, TypeOK
      <4>3. k \in 1 .. Len(deps_of(stack[p].mod))
        BY <4>1, <4>2, <2>3
      <4>4. QED BY <4>2, <4>3
    <3>3. CASE marks[deps_of(stack[p].mod)[k]] = "DONE"
      BY <3>2, <3>3, <1>3
    <3>4. CASE k = stack[p].idx - 1
      <4>1. CASE p < n - 1
        BY <3>4, <4>1
      <4>2. CASE p = n - 1
        BY <3>4, <4>2, <2>3, <1>1, <1>3
      <4>3. QED BY <2>1, <1>1, <4>1, <4>2
    <3>5. QED BY <3>1, <3>3, <3>4
  <2>6. QED BY <1>1, <1>2, <2>1, <2>2, <2>3, <2>4, <2>5
<1>11. QED
  BY <1>6, <1>7, <1>8, <1>9, <1>10 DEF StackInv, is_builtin, deps_of

LEMMA PopBuiltinStep ==
    ASSUME IInv, TypeOK', Needed' = Needed, PopBuiltin, IsFiniteSet(visited')
    PROVE  IInv'
<1>1. /\ info' = info /\ root' = root /\ result' = result /\ pc = "resolve" /\ pc' = "resolve"
      /\ stack # << >> /\ out_order' = out_order /\ is_builtin(Cur)
      /\ marks' = [marks EXCEPT ![Cur] = "DONE"] /\ stack' = Butlast(stack)
  BY DEF PopBuiltin
<1>2. result = "none" /\ Cur \in Modules
  BY <1>1, TopFacts
<1>3. WalkInv' /\ StackInv'
  BY <1>1, <1>2, LateWalk, PopStep
<1>4. MarkInv'
  <2>1. \A m \in Modules : marks'[m] = IF m = Cur THEN "DONE" ELSE marks[m]
    BY <1>1, <1>2 DEF IInv, TypeOK
  <2>2. Elems(out_order) \subseteq Modules
    BY DEF IInv, TypeOK, Elems
  <2>3. QED BY <1>1, <2>1, <2>2 DEF IInv, MarkInv, is_builtin
<1>5. ResultInv' /\ DepsFirst' /\ NoDuplicates(out_order)' /\ CycleIsReal'
  BY <1>1, <1>2 DEF IInv, ResultInv, DepsFirst, NoDuplicates, CycleIsReal, deps_of, is_builtin
<1>6. QED BY <1>3, <1>4, <1>5 DEF IInv

(* All dependencies before the index are DONE, so those that are not built *)
(* in are already in the order when the module is appended.                *)
LEMMA EmitStep ==
    ASSUME IInv, TypeOK', Needed' = Needed, Emit, IsFiniteSet(visited')
    PROVE  IInv'
<1>1. /\ info' = info /\ root' = root /\ result' = result /\ pc = "resolve" /\ pc' = "resolve"
      /\ stack # << >> /\ ~is_builtin(Cur) /\ Top.idx > Len(deps_of(Cur))
      /\ marks' = [marks EXCEPT ![Cur] = "DONE"] /\ stack' = Butlast(stack)
      /\ out_order' = IF Cur \in Elems(out_order) THEN out_order ELSE Append(out_order, Cur)
  BY DEF Emit
<1>2. /\ result = "none" /\ Cur \in Modules /\ marks[Cur] # "DONE" /\ Cur \in Needed
      /\ \A k \in 1 .. Top.idx - 1 : marks[deps_of(Cur)[k]] = "DONE"
      /\ deps_of(Cur) \in Seq(Modules) /\ Len(deps_of(Cur)) \in Nat /\ Top.idx \in Nat
  BY <1>1, TopFacts
<1>3. WalkInv' /\ StackInv'
  BY <1>1, <1>2, LateWalk, PopStep
<1>4. Cur \notin Elems(out_order) /\ out_order' = Append(out_order, Cur)
  BY <1>1, <1>2 DEF IInv, MarkInv
<1> DEFINE n == Len(out_order)
<1>5. /\ n \in Nat /\ Len(out_order') = n + 1
      /\ \A i \in 1 .. n : out_order'[i] = out_order[i] /\ out_order[i] \in Elems(out_order)
      /\ out_order'[n + 1] = Cur
      /\ \A m \in Elems(out_order) : \E i \in 1 .. n : out_order[i] = m
  BY <1>2, <1>4, AppendFacts DEF IInv, TypeOK, Elems
<1> HIDE DEF n
<1>6. Elems(out_order') = Elems(out_order) \cup {Cur}
  BY <1>5 DEF Elems, n
<1>7. \A m \in Modules : marks'[m] = IF m = Cur THEN "DONE" ELSE marks[m]
  BY <1>1, <1>2 DEF IInv, TypeOK
<1>8. MarkInv'
  <2>1. Elems(out_order) \subseteq Modules
    BY DEF IInv, TypeOK, Elems
  <2>2. QED BY <1>1, <1>2, <1>6, <1>7, <2>1 DEF IInv, MarkInv, is_builtin
<1>9. DepsFirst'
  <2>1. ASSUME NEW i \in 1 .. Len(out_order'), NEW d \in Elems(deps_of(out_order'[i])),
               ~is_builtin(d)
        PROVE  \E j \in 1 .. i - 1 : out_order'[j] = d
    <3>1. CASE i = n + 1
      <4>1. out_order'[i] = Cur
        BY <3>1, <1>5
      <4>2. PICK k \in 1 .. Len(deps_of(Cur)) : d = deps_of(Cur)[k]
        BY <4>1, <2>1 DEF Elems
      <4>3. marks[d] = "DONE" /\ d \in Modules
        BY <4>2, <1>1, <1>2
      <4>4. d \in Elems(out_order)
        BY <4>3, <2>1 DEF IInv, MarkInv
      <4>5. PICK j \in 1 .. n : out_order[j] = d
        BY <4>4, <1>5
      <4>6. j \in 1 .. i - 1 /\ out_order'[j] = d
        BY <4>5, <3>1, <1>5
      <4>7. QED BY <4>6
    <3>2. CASE i \in 1 .. n
      <4>1. out_order'[i] = out_order[i]
        BY <3>2, <1>5
      <4>2. PICK j \in 1 .. i - 1 : out_order[j] = d
        BY <4>1, <3>2, <2>1 DEF IInv, DepsFirst, n
      <4>3. out_order'[j] = d
        BY <4>2, <3>2, <1>5
      <4>4. QED BY <4>3
    <3>3. QED BY <3>1, <3>2, <1>5
  <2>2. QED BY <2>1, <1>1 DEF DepsFirst, deps_of, is_builtin
<1>10. NoDuplicates(out_order)'
  <2>1. ASSUME NEW i \in 1 .. Len(out_order'), NEW j \in 1 .. Len(out_order'),
               out_order'[i] = out_order'[j]
        PROVE  i = j
    <3>1. CASE i \in 1 .. n /\ j \in 1 .. n
      <4>1. out_order[i] = out_order[j]
        BY <2>1, <3>1, <1>5
      <4>2. QED BY <4>1, <3>1 DEF IInv, NoDuplicates, n
    <3>2. CASE i = n + 1 \/ j = n + 1
      BY <2>1, <3>2, <1>4, <1>5
    <3>3. QED BY <3>1, <3>2, <1>5
  <2>2. QED BY <2>1 DEF NoDuplicates
<1>11. ResultInv' /\ CycleIsReal'
  BY <1>1, <1>2 DEF IInv, ResultInv, CycleIsReal
<1>12. QED BY <1>3, <1>8, <1>9, <1>10, <1>11 DEF IInv

LEMMA ReturnOrderStep ==
    ASSUME IInv, TypeOK', Needed' = Needed, ReturnOrder, IsFiniteSet(visited')
    PROVE  IInv'
<1> USE DEF IInv
<1>1. /\ info' = info /\ root' = root /\ result' = "order" /\ pc = "resolve" /\ pc' = "done"
      /\ stack = << >> /\ UNCHANGED <<out_order, marks, stack>>
  BY DEF ReturnOrder, Return
<1>2. marks[root] = "DONE" /\ ~is_builtin(root)
  BY <1>1 DEF StackInv, WalkInv
<1>3. WalkInv'
  BY <1>1, LateWalk
<1>4. MarkInv' /\ StackInv' /\ ResultInv'
  BY <1>1, <1>2 DEF MarkInv, StackInv, ResultInv, is_builtin
<1>5. DepsFirst' /\ NoDuplicates(out_order)' /\ CycleIsReal'
  BY <1>1 DEF DepsFirst, NoDuplicates, CycleIsReal, deps_of, is_builtin
<1>6. QED BY <1>3, <1>4, <1>5

(* One dependency is looked at: it is pushed, skipped because it is DONE,  *)
(* or found on the stack.                                                  *)
LEMMA ExamineStep ==
    ASSUME IInv, TypeOK', Needed' = Needed, Examine, IsFiniteSet(visited')
    PROVE  IInv'
<1> DEFINE n == Len(stack)
           dep == deps_of(Cur)[Top.idx]
           advanced == Append(Butlast(stack), [mod |-> Cur, idx |-> Top.idx + 1])
<1>1. /\ info' = info /\ root' = root /\ pc = "resolve" /\ stack # << >>
      /\ ~is_builtin(Cur) /\ Top.idx <= Len(deps_of(Cur))
      /\ out_order' = out_order
  BY DEF Examine
<1>2. /\ n \in Nat \ {0} /\ Top = stack[n] /\ Cur = stack[n].mod
      /\ Top.idx \in Nat \ {0} /\ Cur \in Modules
      /\ \A p \in 1 .. n : stack[p].mod \in Modules /\ stack[p].idx \in Nat \ {0}
      /\ marks[Cur] # "DONE" /\ Cur \in Needed
      /\ \A k \in 1 .. Top.idx - 1 : marks[deps_of(Cur)[k]] = "DONE"
      /\ deps_of(Cur) \in Seq(Modules) /\ Len(deps_of(Cur)) \in Nat
      /\ result = "none"
  BY <1>1, TopFacts
<1>3. dep \in Modules /\ (is_builtin(dep) \/ dep \in Needed)
  BY <1>1, <1>2, NeededStep, RootsAssumption DEF IInv, TypeOK
<1>4. /\ Visiting \in [Modules -> Marks]
      /\ Visiting[Cur] = "VISITING"
      /\ \A m \in Modules : m # Cur => Visiting[m] = marks[m]
  BY <1>2 DEF Visiting, IInv, TypeOK, Marks
<1>5. \/ /\ Visiting[dep] = "UNVISITED" /\ pc' = "resolve" /\ result' = "none" /\ marks' = Visiting
         /\ stack' = Append(advanced, [mod |-> dep, idx |-> 1])
      \/ /\ Visiting[dep] = "VISITING" /\ pc' = "done" /\ result' = "cycle" /\ marks' = Visiting
      \/ /\ Visiting[dep] = "DONE" /\ pc' = "resolve" /\ result' = "none" /\ marks' = Visiting
         /\ stack' = advanced
  BY <1>1, <1>2, <1>3, <1>4 DEF Examine, Return, Marks
<1>6. /\ advanced \in Seq(Entries) /\ Len(advanced) = n
      /\ \A p \in 1 .. n - 1 : advanced[p] = stack[p]
      /\ advanced[n].mod = Cur /\ advanced[n].idx = Top.idx + 1
  <2>1. /\ Butlast(stack) \in Seq(Entries) /\ Len(Butlast(stack)) = n - 1
        /\ \A p \in 1 .. n - 1 : Butlast(stack)[p] = stack[p]
    BY <1>1, ButlastFacts DEF IInv, TypeOK
  <2> DEFINE e == [mod |-> Cur, idx |-> Top.idx + 1]
  <2>2. e \in Entries /\ e.mod = Cur /\ e.idx = Top.idx + 1
    BY <1>2 DEF Entries
  <2> HIDE DEF e
  <2>3. /\ Append(Butlast(stack), e) \in Seq(Entries)
        /\ Len(Append(Butlast(stack), e)) = Len(Butlast(stack)) + 1
        /\ \A p \in 1 .. Len(Butlast(stack)) : Append(Butlast(stack), e)[p] = Butlast(stack)[p]
        /\ Append(Butlast(stack), e)[Len(Butlast(stack)) + 1] = e
    BY <2>1, <2>2, AppendFacts
  <2>4. QED BY <1>2, <2>1, <2>2, <2>3 DEF e
<1>7. WalkInv'
  BY <1>1, <1>5, LateWalk
<1>8. MarkInv'
  <2>1. Elems(out_order) \subseteq Modules
    BY DEF IInv, TypeOK, Elems
  <2>2. \A m \in Modules : marks'[m] = "DONE" <=> marks[m] = "DONE"
    BY <1>2, <1>4, <1>5
  <2>3. pc' \notin {"check", "validate"}
    BY <1>5
  <2>4. QED BY <1>1, <2>1, <2>2, <2>3 DEF IInv, MarkInv, is_builtin
<1>9. DepsFirst' /\ NoDuplicates(out_order)'
  BY <1>1 DEF IInv, DepsFirst, NoDuplicates, deps_of, is_builtin
<1>10. ResultInv'
  BY <1>5 DEF ResultInv
<1>11. StackInv
  BY DEF IInv
<1>12. /\ \A p \in 1 .. n - 1 : stack[p].mod # Cur /\ Visiting[stack[p].mod] = "VISITING"
       /\ \A m \in Modules : Visiting[m] = "VISITING" => \E p \in 1 .. n : stack[p].mod = m
  <2> HIDE DEF n
  <2>1. ASSUME NEW p \in 1 .. n - 1
        PROVE  stack[p].mod # Cur /\ Visiting[stack[p].mod] = "VISITING"
    <3>1. p \in 1 .. n /\ n \in 1 .. n /\ p # n /\ p < n
      BY <1>2
    <3>2. stack[p].mod # stack[n].mod /\ marks[stack[p].mod] = "VISITING"
      BY <1>1, <1>11, <3>1 DEF StackInv, n
    <3>3. QED BY <1>2, <1>4, <3>1, <3>2
  <2>2. ASSUME NEW m \in Modules, Visiting[m] = "VISITING"
        PROVE  \E p \in 1 .. n : stack[p].mod = m
    <3>1. CASE m = Cur
      BY <3>1, <1>2
    <3>2. CASE m # Cur
      BY <1>1, <1>4, <1>11, <2>2, <3>2 DEF StackInv, n
    <3>3. QED BY <3>1, <3>2
  <2>3. QED BY <2>1, <2>2
<1> HIDE DEF n, dep, advanced
<1>13. CASE Visiting[dep] = "VISITING"
  <2> DEFINE S == {stack[p].mod : p \in 1 .. n}
  <2>1. result' = "cycle" /\ pc' = "done"
    BY <1>5, <1>13
  <2>2. PICK q \in 1 .. n : stack[q].mod = dep
    BY <1>3, <1>12, <1>13
  <2>3. dep \in S /\ Cur \in S
    BY <1>2, <2>2
  <2>4. ASSUME NEW p \in 1 .. n
        PROVE  /\ ~is_builtin(stack[p].mod) /\ stack[p].mod \in Needed
               /\ Elems(deps_of(stack[p].mod)) \cap S # {}
    <3>1. CASE p = n
      <4>1. dep \in Elems(deps_of(Cur))
        <5>1. info \in Infos BY DEF IInv, TypeOK
        <5>2. \A k \in 1 .. Len(deps_of(Cur)) : deps_of(Cur)[k] \in Elems(deps_of(Cur))
          BY <1>2, <5>1, DepsType
        <5>3. Top.idx \in 1 .. Len(deps_of(Cur)) BY <1>1, <1>2
        <5> QED BY <5>2, <5>3 DEF dep
      <4>2. QED BY <3>1, <4>1, <2>3, <1>1, <1>2
    <3>2. CASE p \in 1 .. n - 1
      <4>1. /\ ~is_builtin(stack[p].mod) /\ stack[p].mod \in Needed
            /\ stack[p].idx > 1 /\ stack[p].idx <= Len(deps_of(stack[p].mod)) + 1
            /\ deps_of(stack[p].mod)[stack[p].idx - 1] = stack[p + 1].mod
        BY <1>1, <1>2, <1>11, <3>2 DEF StackInv, n
      <4>2. stack[p].mod \in Modules /\ stack[p].idx \in Nat
        BY <1>2
      <4>3. Len(deps_of(stack[p].mod)) \in Nat
        BY <4>2, DepsType DEF IInv, TypeOK
      <4>4. stack[p].idx - 1 \in 1 .. Len(deps_of(stack[p].mod))
        BY <4>1, <4>2, <4>3
      <4>5. stack[p + 1].mod \in Elems(deps_of(stack[p].mod))
        BY <4>1, <4>2, <4>4, DepsType DEF IInv, TypeOK
      <4>6. stack[p + 1].mod \in S
        BY <3>2, <1>2
      <4>7. QED BY <4>1, <4>5, <4>6
    <3>3. QED BY <1>2, <3>1, <3>2
  <2>5. CycleIsReal'
    <3>1. S \in SUBSET Needed /\ S # {}
      BY <2>3, <2>4
    <3>2. \A m \in S : ~is_builtin(m) /\ Elems(deps_of(m)) \cap S # {}
      BY <2>4
    <3> HIDE DEF S
    <3>3. QED BY <3>1, <3>2, <1>1 DEF CycleIsReal, is_builtin, deps_of
  <2>6. StackInv'
    BY <2>1 DEF StackInv
  <2>7. QED BY <1>7, <1>8, <1>9, <1>10, <2>5, <2>6 DEF IInv
<1>14. CASE Visiting[dep] = "DONE"
  <2>1. pc' = "resolve" /\ result' = "none" /\ marks' = Visiting /\ stack' = advanced
    BY <1>5, <1>14
  <2>2. StackInv'
    <3>1. /\ Len(stack') = n /\ \A p \in 1 .. n : stack'[p].mod = stack[p].mod
          /\ \A p \in 1 .. n - 1 : stack'[p] = stack[p]
          /\ stack'[n].idx = Top.idx + 1 /\ stack' # << >>
      <4>1. Len(stack') = n /\ stack' # << >>
        BY <1>2, <1>6, <2>1, EmptySeq
      <4>2. ASSUME NEW p \in 1 .. n PROVE stack'[p].mod = stack[p].mod
        <5>1. p = n \/ p \in 1 .. n - 1
          BY <1>2
        <5>2. QED BY <1>2, <1>6, <2>1, <5>1
      <4>3. QED BY <1>6, <2>1, <4>1, <4>2
    <3>2. stack'[1].mod = root
      BY <1>1, <1>2, <1>11, <3>1 DEF StackInv
    <3>3. \A p, q \in 1 .. n : stack'[p].mod = stack'[q].mod => p = q
      BY <1>1, <1>11, <3>1 DEF StackInv, n
    <3>4. \A m \in Modules : marks'[m] = "VISITING" => \E p \in 1 .. n : stack'[p].mod = m
      BY <1>12, <2>1, <3>1
    <3>5. ASSUME NEW p \in 1 .. n
          PROVE  /\ marks'[stack'[p].mod] # "DONE"
                 /\ is_builtin(stack'[p].mod) \/ stack'[p].mod \in Needed
                 /\ stack'[p].idx <= Len(deps_of(stack'[p].mod)) + 1
                 /\ p < n =>
                      /\ marks'[stack'[p].mod] = "VISITING"
                      /\ ~is_builtin(stack'[p].mod)
                      /\ stack'[p].idx > 1
                      /\ deps_of(stack'[p].mod)[stack'[p].idx - 1] = stack'[p + 1].mod
                 /\ \A k \in 1 .. stack'[p].idx - 1 :
                      \/ marks'[deps_of(stack'[p].mod)[k]] = "DONE"
                      \/ p < n /\ k = stack'[p].idx - 1
      <4>1. CASE p = n
        <5>1. \A k \in 1 .. Top.idx : marks'[deps_of(Cur)[k]] = "DONE"
          <6>1. ASSUME NEW k \in 1 .. Top.idx
                PROVE  marks'[deps_of(Cur)[k]] = "DONE"
            <7>1. CASE k = Top.idx
              BY <7>1, <1>14, <2>1 DEF dep
            <7>2. CASE k \in 1 .. Top.idx - 1
              <8>1. deps_of(Cur)[k] \in Modules /\ marks[deps_of(Cur)[k]] = "DONE"
                BY <1>1, <1>2, <7>2
              <8>2. QED BY <8>1, <1>2, <1>4, <2>1
            <7>3. QED BY <1>2, <7>1, <7>2
          <6>2. QED BY <6>1
        <5>2. QED BY <4>1, <5>1, <1>1, <1>2, <1>4, <2>1, <3>1
      <4>2. CASE p \in 1 .. n - 1
        <5>1. /\ stack'[p] = stack[p] /\ p < n /\ p + 1 \in 1 .. n
              /\ marks'[stack[p].mod] = "VISITING"
          BY <1>2, <1>12, <2>1, <3>1, <4>2
        <5>2. /\ stack[p].idx <= Len(deps_of(stack[p].mod)) + 1
              /\ ~is_builtin(stack[p].mod) /\ stack[p].mod \in Needed
              /\ stack[p].idx > 1
              /\ deps_of(stack[p].mod)[stack[p].idx - 1] = stack[p + 1].mod
          BY <1>1, <1>11, <5>1 DEF StackInv, n
        <5>3. ASSUME NEW k \in 1 .. stack[p].idx - 1
              PROVE  marks'[deps_of(stack[p].mod)[k]] = "DONE" \/ k = stack[p].idx - 1
          <6>1. marks[deps_of(stack[p].mod)[k]] = "DONE" \/ k = stack[p].idx - 1
            BY <1>1, <1>11, <5>1 DEF StackInv, n
          <6>2. deps_of(stack[p].mod)[k] \in Modules
            <7>1. stack[p].mod \in Modules /\ stack[p].idx \in Nat
              BY <1>2
            <7>2. /\ deps_of(stack[p].mod) \in Seq(Modules)
                  /\ Len(deps_of(stack[p].mod)) \in Nat
              BY <7>1, DepsType DEF IInv, TypeOK
            <7>3. QED BY <5>2, <7>1, <7>2
          <6>3. QED BY <6>1, <6>2, <1>2, <1>4, <2>1
        <5>4. QED BY <5>1, <5>2, <5>3, <3>1
      <4>3. QED BY <1>2, <4>1, <4>2
    <3>6. QED BY <1>1, <3>1, <3>2, <3>3, <3>4, <3>5 DEF StackInv, is_builtin, deps_of
  <2>3. CycleIsReal'
    BY <2>1 DEF CycleIsReal
  <2>4. QED BY <1>7, <1>8, <1>9, <1>10, <2>2, <2>3 DEF IInv
<1>15. CASE Visiting[dep] = "UNVISITED"
  <2>1. /\ pc' = "resolve" /\ result' = "none" /\ marks' = Visiting
        /\ stack' = Append(advanced, [mod |-> dep, idx |-> 1])
    BY <1>5, <1>15
  <2>2. StackInv'
    <3>1. /\ Len(stack') = n + 1 /\ \A p \in 1 .. n : stack'[p].mod = stack[p].mod
          /\ \A p \in 1 .. n - 1 : stack'[p] = stack[p]
          /\ stack'[n].idx = Top.idx + 1 /\ stack' # << >>
          /\ stack'[n + 1].mod = dep /\ stack'[n + 1].idx = 1
      <4> DEFINE e == [mod |-> dep, idx |-> 1]
      <4>1. e \in Entries /\ e.mod = dep /\ e.idx = 1
        BY <1>3 DEF Entries
      <4> HIDE DEF e
      <4>2. /\ Len(Append(advanced, e)) = Len(advanced) + 1
            /\ \A p \in 1 .. Len(advanced) : Append(advanced, e)[p] = advanced[p]
            /\ Append(advanced, e)[Len(advanced) + 1] = e
        BY <1>6, <4>1, AppendFacts
      <4>3. stack' = Append(advanced, e)
        BY <2>1 DEF e
      <4>4. /\ Len(stack') = n + 1 /\ stack'[n + 1] = e
            /\ \A p \in 1 .. n : stack'[p] = advanced[p]
        BY <1>6, <4>2, <4>3
      <4>5. stack' # << >>
        BY <1>2, <4>4, EmptySeq
      <4>6. ASSUME NEW p \in 1 .. n PROVE stack'[p].mod = stack[p].mod
        <5>1. p = n \/ p \in 1 .. n - 1
          BY <1>2
        <5>2. QED BY <1>2, <1>6, <4>4, <5>1
      <4>7. n \in 1 .. n /\ \A p \in 1 .. n - 1 : p \in 1 .. n
        BY <1>2
      <4>8. QED BY <1>6, <4>1, <4>4, <4>5, <4>6, <4>7
    <3>2. stack'[1].mod = root
      BY <1>1, <1>2, <1>11, <3>1 DEF StackInv
    <3>3. \A p \in 1 .. n : stack[p].mod # dep
      BY <1>2, <1>4, <1>12, <1>15
    <3>4. ASSUME NEW p \in 1 .. n + 1, NEW q \in 1 .. n + 1, stack'[p].mod = stack'[q].mod
          PROVE  p = q
      <4>1. CASE p \in 1 .. n /\ q \in 1 .. n
        BY <1>1, <1>11, <3>1, <3>4, <4>1 DEF StackInv, n
      <4>2. CASE p = n + 1 \/ q = n + 1
        BY <1>2, <3>1, <3>3, <3>4, <4>2
      <4>3. QED BY <1>2, <4>1, <4>2
    <3>5. ASSUME NEW m \in Modules, marks'[m] = "VISITING"
          PROVE  \E p \in 1 .. n + 1 : stack'[p].mod = m
      <4>1. PICK p \in 1 .. n : stack[p].mod = m
        BY <3>5, <1>12, <2>1
      <4>2. p \in 1 .. n + 1 /\ stack'[p].mod = m
        BY <1>2, <3>1, <4>1
      <4>3. QED BY <4>2
    <3>6. ASSUME NEW p \in 1 .. n + 1
          PROVE  /\ marks'[stack'[p].mod] # "DONE"
                 /\ is_builtin(stack'[p].mod) \/ stack'[p].mod \in Needed
                 /\ stack'[p].idx <= Len(deps_of(stack'[p].mod)) + 1
                 /\ p < n + 1 =>
                      /\ marks'[stack'[p].mod] = "VISITING"
                      /\ ~is_builtin(stack'[p].mod)
                      /\ stack'[p].idx > 1
                      /\ deps_of(stack'[p].mod)[stack'[p].idx - 1] = stack'[p + 1].mod
                 /\ \A k \in 1 .. stack'[p].idx - 1 :
                      \/ marks'[deps_of(stack'[p].mod)[k]] = "DONE"
                      \/ p < n + 1 /\ k = stack'[p].idx - 1
      <4>1. CASE p = n + 1
        <5>1. Len(deps_of(dep)) \in Nat
          BY <1>3, DepsType DEF IInv, TypeOK
        <5>2. QED BY <4>1, <5>1, <1>2, <1>3, <1>15, <2>1, <3>1
      <4>2. CASE p = n
        <5>1. ASSUME NEW k \in 1 .. Top.idx
              PROVE  marks'[deps_of(Cur)[k]] = "DONE" \/ k = Top.idx
          <6>1. CASE k \in 1 .. Top.idx - 1
            <7>1. deps_of(Cur)[k] \in Modules /\ marks[deps_of(Cur)[k]] = "DONE"
              BY <1>1, <1>2, <6>1
            <7>2. QED BY <7>1, <1>2, <1>4, <2>1
          <6>2. QED BY <1>2, <6>1
        <5>2. stack'[p].mod = Cur /\ stack'[p].idx = Top.idx + 1 /\ stack'[p + 1].mod = dep /\ p < n + 1
          BY <4>2, <1>2, <3>1
        <5>3. /\ marks'[Cur] = "VISITING" /\ Top.idx + 1 > 1 /\ Top.idx + 1 - 1 = Top.idx
              /\ Top.idx + 1 <= Len(deps_of(Cur)) + 1
          BY <1>1, <1>2, <1>4, <2>1
        <5>4. QED BY <5>1, <5>2, <5>3, <1>1, <1>2 DEF dep
      <4>3. CASE p \in 1 .. n - 1
        <5>1. /\ stack'[p] = stack[p] /\ p < n /\ p + 1 \in 1 .. n /\ p \in 1 .. n
              /\ marks'[stack[p].mod] = "VISITING" /\ p < n + 1
          BY <1>2, <1>12, <2>1, <3>1, <4>3
        <5>2. /\ stack[p].idx <= Len(deps_of(stack[p].mod)) + 1
              /\ ~is_builtin(stack[p].mod) /\ stack[p].mod \in Needed
              /\ stack[p].idx > 1
              /\ deps_of(stack[p].mod)[stack[p].idx - 1] = stack[p + 1].mod
          BY <1>1, <1>11, <5>1 DEF StackInv, n
        <5>3. ASSUME NEW k \in 1 .. stack[p].idx - 1
              PROVE  marks'[deps_of(stack[p].mod)[k]] = "DONE" \/ k = stack[p].idx - 1
          <6>1. marks[deps_of(stack[p].mod)[k]] = "DONE" \/ k = stack[p].idx - 1
            BY <1>1, <1>11, <5>1 DEF StackInv, n
          <6>2. deps_of(stack[p].mod)[k] \in Modules
            <7>1. stack[p].mod \in Modules /\ stack[p].idx \in Nat
              BY <1>2, <5>1
            <7>2. /\ deps_of(stack[p].mod) \in Seq(Modules)
                  /\ Len(deps_of(stack[p].mod)) \in Nat
              BY <7>1, DepsType DEF IInv, TypeOK
            <7>3. QED BY <5>2, <7>1, <7>2
          <6>3. QED BY <6>1, <6>2, <1>2, <1>4, <2>1
        <5>4. QED BY <5>1, <5>2, <5>3, <3>1
      <4>4. QED BY <1>2, <4>1, <4>2, <4>3
    <3>7. QED BY <1>1, <3>1, <3>2, <3>4, <3>5, <3>6 DEF StackInv, is_builtin, deps_of
  <2>3. CycleIsReal'
    BY <2>1 DEF CycleIsReal
  <2>4. QED BY <1>7, <1>8, <1>9, <1>10, <2>2, <2>3 DEF IInv
<1>16. QED BY <1>5, <1>13, <1>14, <1>15

-----------------------------------------------------------------------------
(* The invariant and what follows from it *)

LEMMA Inductive == IInv /\ [Next]_vars => IInv'
<1> SUFFICES ASSUME IInv, [Next]_vars PROVE IInv'
  OBVIOUS
<1>1. TypeOK' /\ IsFiniteSet(visited')
  BY TypeStep DEF IInv, WalkInv
<1>2. info' = info /\ root' = root /\ Needed' = Needed
  BY TableStep
<1>3. CASE Check
  BY <1>1, <1>2, <1>3, CheckStep
<1>4. CASE SkipOwner
  BY <1>1, <1>2, <1>4, SkipOwnerStep
<1>5. CASE VisitOwner
  BY <1>1, <1>2, <1>5, VisitOwnerStep
<1>6. CASE CheckDep
  BY <1>1, <1>2, <1>6, CheckDepStep
<1>7. CASE EndDeps
  BY <1>1, <1>2, <1>7, EndDepsStep
<1>8. CASE StartResolve
  BY <1>1, <1>2, <1>8, StartResolveStep
<1>9. CASE PopBuiltin
  BY <1>1, <1>2, <1>9, PopBuiltinStep
<1>10. CASE Emit
  BY <1>1, <1>2, <1>10, EmitStep
<1>11. CASE Examine
  BY <1>1, <1>2, <1>11, ExamineStep
<1>12. CASE ReturnOrder
  BY <1>1, <1>2, <1>12, ReturnOrderStep
<1>13. CASE UNCHANGED vars
  BY <1>1, <1>2, <1>13 DEF vars, IInv, WalkInv, MarkInv, StackInv, ResultInv, DepsFirst,
     NoDuplicates, CycleIsReal, is_builtin, has_path, deps_of
<1>14. QED
  BY <1>3, <1>4, <1>5, <1>6, <1>7, <1>8, <1>9, <1>10, <1>11, <1>12, <1>13 DEF Next

LEMMA Invariance == Spec => []IInv
BY InitInv, Inductive, PTL DEF Spec

(* The searches keep their types, and validate's vectors stay within their *)
(* capacity whatever table they are given.                                 *)
THEOREM TypeCorrect == Spec => []TypeOK
<1>1. IInv => TypeOK
  BY DEF IInv
<1>2. QED BY Invariance, <1>1, PTL

(* resolve_load_order never emits a module before what it depends on.      *)
THEOREM DependenciesFirst == Spec => []DepsFirst
<1>1. IInv => DepsFirst
  BY DEF IInv
<1>2. QED BY Invariance, <1>1, PTL

(* The returned order is the requested module and all it needs, each once. *)
THEOREM OrderIsExact == Spec => []OrderExact
<1>1. IInv => OrderExact
  <2> SUFFICES ASSUME IInv, result = "order"
               PROVE  Elems(out_order) = Needed /\ NoDuplicates(out_order)
    BY DEF OrderExact
  <2>1. root \in Elems(out_order) /\ Elems(out_order) \in SUBSET Modules /\ root \in Modules
    BY RootsAssumption DEF IInv, ResultInv, MarkInv, TypeOK, Elems
  <2>2. \A m \in Elems(out_order) : \A k \in 1 .. Len(deps_of(m)) :
          is_builtin(deps_of(m)[k]) \/ deps_of(m)[k] \in Elems(out_order)
    <3>1. ASSUME NEW m \in Elems(out_order), NEW k \in 1 .. Len(deps_of(m)),
                 ~is_builtin(deps_of(m)[k])
          PROVE  deps_of(m)[k] \in Elems(out_order)
      <4>1. PICK i \in 1 .. Len(out_order) : m = out_order[i]
        BY DEF Elems
      <4>2. deps_of(m)[k] \in Elems(deps_of(m))
        BY DEF Elems
      <4>3. PICK j \in 1 .. i - 1 : out_order[j] = deps_of(m)[k]
        BY <3>1, <4>1, <4>2 DEF IInv, DepsFirst
      <4>4. j \in 1 .. Len(out_order)
        BY <4>1, <4>3 DEF IInv, TypeOK
      <4>5. QED BY <4>3, <4>4 DEF Elems
    <3>2. QED BY <3>1
  <2>3. Needed \subseteq Elems(out_order)
    BY <2>1, <2>2, NeededLeast DEF IInv, TypeOK
  <2>4. Elems(out_order) \subseteq Needed
    BY DEF IInv, MarkInv
  <2>5. QED BY <2>3, <2>4 DEF IInv
<1>2. QED BY Invariance, <1>1, PTL

(* A cycle is reported only when the needed modules have one. *)
THEOREM CycleReportIsReal == Spec => []CycleIsReal
<1>1. IInv => CycleIsReal
  BY DEF IInv
<1>2. QED BY Invariance, <1>1, PTL

(* A validated order has a file for each of its modules. *)
THEOREM OrderHasPaths == Spec => []ValidatedPaths
<1>1. IInv => ValidatedPaths
  <2> SUFFICES ASSUME IInv PROVE ValidatedPaths
    OBVIOUS
  <2>1. ASSUME NEW m \in Elems(out_order) PROVE has_path(m) /\ ~is_builtin(m)
    <3>1. m \in Needed /\ ~is_builtin(m)
      BY DEF IInv, MarkInv
    <3>2. pc \notin {"check", "validate"}
      BY DEF IInv, MarkInv, Elems
    <3>3. pc = "resolve" \/ result \in {"order", "cycle"}
      BY <3>2 DEF IInv, ResultInv, TypeOK, Elems
    <3>4. QED BY <3>1, <3>3 DEF IInv, WalkInv
  <2>2. QED BY <2>1 DEF ValidatedPaths, IInv, WalkInv
<1>2. QED BY Invariance, <1>1, PTL
=============================================================================
