---------------------------- MODULE OtaToolProofs ----------------------------
(***************************************************************************)
(* Proofs about module OtaTool, for all contents, all images of other      *)
(* tools, every size of the header and every number of sections.           *)
(***************************************************************************)
EXTENDS OtaTool, FiniteSetTheorems, WellFoundedInduction, TLAPS

-----------------------------------------------------------------------------
(* Sets of numbers, sequences and texts *)

\* A set of natural numbers that is not empty has a least element.
LEMMA Least ==
  ASSUME NEW T \in SUBSET Nat, T # {} PROVE \E x \in T : \A y \in T : x <= y
  <1>1. \E x \in T : \A y \in T : ~ (<<y, x>> \in OpToRel(<, Nat))
    BY NatLessThanWellFounded, WFMin
  <1>2. PICK x \in T : \A y \in T : ~ (y < x) BY <1>1 DEF OpToRel
  <1> QED BY <1>2

LEMMA Greatest ==
  ASSUME NEW n \in Nat, NEW T \in SUBSET (1 .. n), T # {} PROVE \E x \in T : \A y \in T : x >= y
  <1> DEFINE U == {n - x : x \in T}
  <1>1. U \in SUBSET Nat /\ U # {}
    <2>1. \A x \in T : n - x \in Nat OBVIOUS
    <2>2. PICK e \in T : TRUE OBVIOUS
    <2>3. n - e \in U BY Zenon
    <2> QED BY <2>1, <2>3
  <1> HIDE DEF U
  <1>2. PICK u \in U : \A y \in U : u <= y BY <1>1, Least
  <1>3. PICK x \in T : u = n - x BY <1>2 DEF U
  <1>4. \A y \in T : n - x <= n - y BY <1>2, <1>3 DEF U
  <1>5. \A y \in T : x >= y BY <1>4
  <1> QED BY <1>5

LEMMA MinIs ==
  ASSUME NEW I, NEW e \in I, I \subseteq Int, \A i \in I : e <= i PROVE Min(I) = e
  <1>1. \A x \in I : (\A y \in I : x <= y) => x = e
    <2> SUFFICES ASSUME NEW x \in I, \A y \in I : x <= y PROVE x = e OBVIOUS
    <2>1. x \in Int /\ e \in Int /\ x <= e /\ e <= x OBVIOUS
    <2> QED BY <2>1
  <1> DEFINE m == CHOOSE x \in I : \A y \in I : x <= y
  <1>2. m \in I /\ \A y \in I : m <= y BY Zenon
  <1>3. m = e BY <1>1, <1>2, Zenon
  <1> QED BY <1>3, Zenon DEF Min

LEMMA MaxIs ==
  ASSUME NEW I, NEW e \in I, I \subseteq Int, \A i \in I : e >= i PROVE Max(I) = e
  <1>1. \A x \in I : (\A y \in I : x >= y) => x = e
    <2> SUFFICES ASSUME NEW x \in I, \A y \in I : x >= y PROVE x = e OBVIOUS
    <2>1. x \in Int /\ e \in Int /\ x >= e /\ e >= x OBVIOUS
    <2> QED BY <2>1
  <1> DEFINE m == CHOOSE x \in I : \A y \in I : x >= y
  <1>2. m \in I /\ \A y \in I : m >= y BY Zenon
  <1>3. m = e BY <1>1, <1>2, Zenon
  <1> QED BY <1>3, Zenon DEF Max

LEMMA MinTwo ==
  ASSUME NEW a \in Int, NEW b \in Int
  PROVE  Min({a, b}) \in {a, b} /\ Min({a, b}) <= a /\ Min({a, b}) <= b
  <1> DEFINE I == {a, b}
  <1>1. I \subseteq Int OBVIOUS
  <1>2. CASE a <= b
    <2>1. a \in I /\ \A i \in I : a <= i BY <1>2
    <2> HIDE DEF I
    <2>2. Min(I) = a BY <1>1, <2>1, MinIs
    <2> QED BY <1>2, <2>2 DEF I
  <1>3. CASE ~ (a <= b)
    <2>1. b \in I /\ \A i \in I : b <= i BY <1>3
    <2> HIDE DEF I
    <2>2. Min(I) = b BY <1>1, <2>1, MinIs
    <2> QED BY <1>3, <2>2 DEF I
  <1> QED BY <1>2, <1>3

\* The recursion of FlattenSeq has a solution.
LEMMA FlattenExists ==
  ASSUME NEW L, NEW n \in Nat
  PROVE  \E g : g = [i \in 1 .. n |-> IF i = 1 THEN L[i] ELSE g[i - 1] \o L[i]]
  <1> DEFINE Some(u) == \E g : g = [i \in 1 .. u |-> IF i = 1 THEN L[i] ELSE g[i - 1] \o L[i]]
             T == {u \in Nat : ~ Some(u)}
  <1>1. ASSUME T # {} PROVE FALSE
    <2>1. PICK u \in T : \A y \in T : u <= y BY <1>1, Least
    <2>2. u # 0
      <3>1. [i \in 1 .. 0 |-> L[i]] = [i \in 1 .. 0 |-> IF i = 1 THEN L[i] ELSE [j \in 1 .. 0 |-> L[j]][i - 1] \o L[i]]
        OBVIOUS
      <3>2. Some(0) BY <3>1
      <3> QED BY <2>1, <3>2
    <2>3. u - 1 \in Nat /\ Some(u - 1)
      <3> HIDE DEF Some
      <3>1. u \in Nat /\ u - 1 \in Nat BY <2>1, <2>2
      <3>2. u - 1 \notin T
        <4> HIDE DEF T
        <4> QED BY <2>1, <3>1
      <3> QED BY <3>1, <3>2
    <2>4. PICK g : g = [i \in 1 .. u - 1 |-> IF i = 1 THEN L[i] ELSE g[i - 1] \o L[i]] BY <2>3
    <2> DEFINE h == [i \in 1 .. u |-> IF i = u THEN IF i = 1 THEN L[i] ELSE g[i - 1] \o L[i] ELSE g[i]]
    <2>5. ASSUME NEW i \in 1 .. u
          PROVE  h[i] = IF i = 1 THEN L[i] ELSE h[i - 1] \o L[i]
      <3>1. i # 1 => i - 1 \in 1 .. u - 1 /\ i - 1 # u /\ i - 1 \in 1 .. u BY <2>1
      <3>2. i # 1 => h[i - 1] = g[i - 1] BY <3>1
      <3>3. i # u => i \in 1 .. u - 1 BY <2>1
      <3>4. i # u => g[i] = IF i = 1 THEN L[i] ELSE g[i - 1] \o L[i] BY <2>4, <3>3
      <3>5. h[i] = IF i = u THEN IF i = 1 THEN L[i] ELSE g[i - 1] \o L[i] ELSE g[i] OBVIOUS
      <3> HIDE DEF h
      <3> QED BY <3>2, <3>4, <3>5
    <2>6. h = [i \in 1 .. u |-> h[i]] OBVIOUS
    <2> HIDE DEF h
    <2>7. h = [i \in 1 .. u |-> IF i = 1 THEN L[i] ELSE h[i - 1] \o L[i]] BY <2>5, <2>6
    <2> QED BY <2>1, <2>7
  <1> QED BY <1>1

LEMMA FlattenIs ==
  ASSUME NEW S, NEW L \in Seq(Seq(S)), Len(L) # 0
  PROVE  \E F : /\ FlattenSeq(L) = F[Len(L)]
                /\ \A i \in 1 .. Len(L) : F[i] = IF i = 1 THEN L[i] ELSE F[i - 1] \o L[i]
  <1> DEFINE F == CHOOSE g : g = [i \in 1 .. Len(L) |-> IF i = 1 THEN L[i] ELSE g[i - 1] \o L[i]]
  <1>1. FlattenSeq(L) = F[Len(L)] BY Zenon DEF FlattenSeq
  <1>2. F = [i \in 1 .. Len(L) |-> IF i = 1 THEN L[i] ELSE F[i - 1] \o L[i]]
    <2>1. Len(L) \in Nat OBVIOUS
    <2>2. \E g : g = [i \in 1 .. Len(L) |-> IF i = 1 THEN L[i] ELSE g[i - 1] \o L[i]]
      BY <2>1, FlattenExists
    <2> QED BY <2>2, Zenon
  <1> HIDE DEF F
  <1> QED BY <1>1, <1>2

LEMMA CatAt ==
  ASSUME NEW S, NEW s \in Seq(S), NEW t \in Seq(S)
  PROVE  /\ s \o t \in Seq(S) /\ Len(s \o t) = Len(s) + Len(t)
         /\ \A i \in 1 .. Len(s) : (s \o t)[i] = s[i]
         /\ \A j \in 1 .. Len(t) : (s \o t)[Len(s) + j] = t[j]
  OBVIOUS

LEMMA NoCells == ASSUME NEW S, NEW s \in Seq(S), Len(s) = 0 PROVE s = <<>>
  OBVIOUS

LEMMA InPiece ==
  ASSUME NEW p \in Nat, NEW l \in Nat, NEW j \in 1 .. l, NEW q \in Nat, p + l <= q
  PROVE  p + j \in 1 .. q
  OBVIOUS

\* Places in a text that is put together from n pieces: P[i] cells belong to the first i.
LEMMA PlacesOrdered ==
  ASSUME NEW n \in Nat, NEW P \in [0 .. n -> Nat], \A i \in 1 .. n : P[i - 1] <= P[i]
  PROVE  /\ \A b \in 0 .. n : \A a \in 0 .. b : P[a] <= P[b]
         /\ \A q \in P[0] + 1 .. P[n] : \E i \in 1 .. n : P[i - 1] < q /\ q <= P[i]
  <1>1. ASSUME NEW b \in 0 .. n, NEW a \in 0 .. b PROVE P[a] <= P[b]
    <2> DEFINE T == {u \in Nat : u \in a .. n /\ P[u] < P[a]}
    <2>0. P[a] \in Nat /\ a \in Nat /\ b \in a .. n /\ b \in Nat /\ P[b] \in Nat
      BY <1>1
    <2>1. ASSUME T # {} PROVE FALSE
      <3>1. PICK u \in T : \A y \in T : u <= y BY <2>1, Least
      <3>2. u \in a .. n /\ P[u] < P[a] /\ u \in Nat BY <3>1
      <3>3. u # a BY <2>0, <3>2
      <3>4. u - 1 \in a .. n /\ u \in 1 .. n /\ u - 1 \in Nat /\ u - 1 \in 0 .. n
        <4> HIDE DEF T
        <4> QED BY <2>0, <3>2, <3>3
      <3>5. u - 1 \notin T
        <4> HIDE DEF T
        <4> QED BY <3>1, <3>2, <3>4
      <3>6. P[u - 1] \in Nat /\ P[u] \in Nat /\ P[u - 1] <= P[u] BY <3>4
      <3> QED BY <2>0, <3>2, <3>4, <3>5, <3>6
    <2>2. ~ (b \in Nat /\ b \in a .. n /\ P[b] < P[a]) BY <2>1
    <2> QED BY <2>0, <2>2
  <1>2. ASSUME NEW q \in P[0] + 1 .. P[n] PROVE \E i \in 1 .. n : P[i - 1] < q /\ q <= P[i]
    <2> DEFINE T == {u \in Nat : u \in 0 .. n /\ q <= P[u]}
    <2>0. P[n] \in Nat /\ P[0] \in Nat /\ q \in Nat /\ q > P[0] OBVIOUS
    <2>1. n \in T BY <2>0
    <2>2. PICK u \in T : \A y \in T : u <= y BY <2>1, Least
    <2>3. u # 0 /\ u \in 1 .. n /\ u - 1 \in Nat /\ u - 1 \in 0 .. n /\ q <= P[u]
      BY <2>0, <2>2
    <2>4. u - 1 \notin T
      <3> HIDE DEF T
      <3> QED BY <2>2, <2>3
    <2>5. P[u - 1] < q
      <3>1. P[u - 1] \in Nat BY <2>3
      <3> QED BY <2>0, <2>3, <2>4, <3>1
    <2> QED BY <2>3, <2>5
  <1> QED BY <1>1, <1>2

\* The text is the n pieces of L, and piece i ends at P[i].
Pieces(text, L, n, P) ==
  /\ P \in [0 .. n -> Nat] /\ P[0] = 0 /\ Len(text) = P[n]
  /\ \A i \in 1 .. n : P[i] = P[i - 1] + Len(L[i])
  /\ \A a \in 1 .. n : \A j \in 1 .. Len(L[a]) : text[P[a - 1] + j] = L[a][j]

LEMMA Flat ==
  ASSUME NEW S, NEW L \in Seq(Seq(S)), NEW n \in Nat, n = Len(L)
  PROVE  FlattenSeq(L) \in Seq(S) /\ \E P : Pieces(FlattenSeq(L), L, n, P)
  <1>0. \A i \in 1 .. n : L[i] \in Seq(S) /\ Len(L[i]) \in Nat OBVIOUS
  <1>1. CASE n = 0
    <2>0. L = <<>> BY <1>1, NoCells
    <2>1. L = <<>> /\ FlattenSeq(L) = <<>> BY <1>1, <2>0, Zenon DEF FlattenSeq
    <2> DEFINE P == [i \in 0 .. n |-> 0]
    <2>2. P \in [0 .. n -> Nat] /\ P[0] = 0 /\ P[n] = 0 BY <1>1
    <2> HIDE DEF P
    <2>3. Pieces(FlattenSeq(L), L, n, P) BY <1>1, <2>1, <2>2 DEF Pieces
    <2>4. <<>> \in Seq(S) OBVIOUS
    <2> QED BY <2>1, <2>3, <2>4, Zenon
  <1>2. CASE n # 0
    <2>1. PICK F : /\ FlattenSeq(L) = F[n]
                   /\ \A i \in 1 .. n : F[i] = IF i = 1 THEN L[i] ELSE F[i - 1] \o L[i]
      BY <1>2, FlattenIs
    <2>2. F[1] = L[1] /\ \A i \in 1 .. n : i # 1 => i - 1 \in 1 .. n /\ F[i] = F[i - 1] \o L[i]
      <3>1. 1 \in 1 .. n /\ \A i \in 1 .. n : i # 1 => i - 1 \in 1 .. n BY <1>2
      <3> QED BY <2>1, <3>1, Zenon
    <2> DEFINE Bad == {i \in Nat : i \in 1 .. n /\ F[i] \notin Seq(S)}
    <2>3. \A i \in 1 .. n : F[i] \in Seq(S)
      <3>1. ASSUME Bad # {} PROVE FALSE
        <4>1. PICK u \in Bad : \A y \in Bad : u <= y BY <3>1, Least
        <4>2. u \in 1 .. n /\ F[u] \notin Seq(S) BY <4>1
        <4>3. u # 1 BY <1>0, <2>2, <4>2
        <4>4. u - 1 \in 1 .. n /\ u - 1 \in Nat BY <4>2, <4>3
        <4>5. u - 1 \notin Bad
          <5> HIDE DEF Bad
          <5> QED BY <4>1, <4>2, <4>4
        <4>6. F[u - 1] \in Seq(S) BY <4>4, <4>5
        <4>7. F[u] = F[u - 1] \o L[u] /\ L[u] \in Seq(S) BY <1>0, <2>2, <4>2, <4>3, Zenon
        <4>8. F[u] \in Seq(S) BY <4>6, <4>7, CatAt
        <4> QED BY <4>2, <4>8
      <3> SUFFICES ASSUME NEW i \in 1 .. n PROVE F[i] \in Seq(S) OBVIOUS
      <3>2. i \notin Bad BY <3>1
      <3> QED BY <3>2
    <2> DEFINE P == [i \in 0 .. n |-> IF i = 0 THEN 0 ELSE Len(F[i])]
    <2>4. P[0] = 0 /\ \A i \in 1 .. n : P[i] = Len(F[i]) OBVIOUS
    <2>5. P \in [0 .. n -> Nat]
      <3>1. \A i \in 1 .. n : Len(F[i]) \in Nat BY <2>3
      <3> QED BY <3>1
    <2> HIDE DEF P
    <2>6. ASSUME NEW i \in 1 .. n PROVE P[i] = P[i - 1] + Len(L[i])
      <3>1. CASE i = 1 BY <1>0, <2>2, <2>4, <3>1
      <3>2. CASE i # 1
        <4>1. F[i] = F[i - 1] \o L[i] /\ i - 1 \in 1 .. n BY <2>2, <3>2
        <4>2. Len(F[i]) = Len(F[i - 1]) + Len(L[i]) BY <1>0, <2>3, <4>1, CatAt
        <4> QED BY <2>4, <4>1, <4>2
      <3> QED BY <3>1, <3>2
    <2>7. \A i \in 1 .. n : P[i - 1] \in Nat /\ P[i - 1] <= P[i]
      <3>0. \A i \in 1 .. n : i - 1 \in 0 .. n OBVIOUS
      <3>1. \A i \in 1 .. n : P[i - 1] \in Nat BY <2>5, <3>0
      <3> QED BY <1>0, <2>6, <3>1
    <2>8. \A b \in 0 .. n : \A a \in 0 .. b : P[a] <= P[b] BY <2>4, <2>5, <2>7, PlacesOrdered
    <2> DEFINE Holds(i) == \A a \in 1 .. i : \A j \in 1 .. Len(L[a]) : F[i][P[a - 1] + j] = L[a][j]
               Off == {i \in Nat : i \in 1 .. n /\ ~ Holds(i)}
    <2>9. \A i \in 1 .. n : Holds(i)
      <3>1. ASSUME Off # {} PROVE FALSE
        <4>1. PICK u \in Off : \A y \in Off : u <= y BY <3>1, Least
        <4>2. u \in 1 .. n /\ ~ Holds(u)
          <5> HIDE DEF Holds
          <5> QED BY <4>1
        <4>3. u # 1
          <5>1. Holds(1) BY <1>0, <2>2, <2>4
          <5> HIDE DEF Holds
          <5> QED BY <4>2, <5>1
        <4>4. u - 1 \in 1 .. n /\ u - 1 \in Nat BY <4>2, <4>3
        <4>5. u - 1 \notin Off
          <5> HIDE DEF Off
          <5> QED BY <4>1, <4>2, <4>4
        <4>6. Holds(u - 1)
          <5> HIDE DEF Holds
          <5> QED BY <4>4, <4>5
        <4>7. F[u] = F[u - 1] \o L[u] /\ F[u - 1] \in Seq(S) /\ L[u] \in Seq(S)
          BY <1>0, <2>2, <2>3, <4>2, <4>3, <4>4
        <4>8. /\ \A i \in 1 .. Len(F[u - 1]) : (F[u - 1] \o L[u])[i] = F[u - 1][i]
              /\ \A j \in 1 .. Len(L[u]) : (F[u - 1] \o L[u])[Len(F[u - 1]) + j] = L[u][j]
          <5>1. \E s, t : s = F[u - 1] /\ t = L[u] OBVIOUS
          <5>2. PICK s, t : s = F[u - 1] /\ t = L[u] BY <5>1
          <5>3. s \in Seq(S) /\ t \in Seq(S) BY <4>7, <5>2
          <5>4. /\ \A i \in 1 .. Len(s) : (s \o t)[i] = s[i]
                /\ \A j \in 1 .. Len(t) : (s \o t)[Len(s) + j] = t[j]
            BY <5>3, CatAt
          <5> QED BY <5>2, <5>4, Zenon
        <4>9. ASSUME NEW a \in 1 .. u, NEW j \in 1 .. Len(L[a]) PROVE F[u][P[a - 1] + j] = L[a][j]
          <5>1. CASE a = u
            <6>1. P[a - 1] = Len(F[u - 1]) BY <2>4, <4>4, <5>1
            <6>2. j \in 1 .. Len(L[u]) /\ Len(L[u]) \in Nat BY <1>0, <4>2, <5>1
            <6>3. (F[u - 1] \o L[u])[Len(F[u - 1]) + j] = L[u][j] BY <4>8, <6>2, Zenon
            <6> QED BY <4>7, <5>1, <6>1, <6>3
          <5>2. CASE a # u
            <6>1. a \in 1 .. u - 1 /\ a \in 1 .. n BY <4>2, <5>2
            <6>2. F[u - 1][P[a - 1] + j] = L[a][j] BY <4>6, <6>1
            <6>3. P[a] = P[a - 1] + Len(L[a]) /\ P[a - 1] \in Nat /\ Len(L[a]) \in Nat
              BY <1>0, <2>6, <2>7, <6>1
            <6>4. P[a] <= P[u - 1]
              <7>1. u - 1 \in 0 .. n /\ a \in 0 .. u - 1 BY <4>4, <6>1
              <7> QED BY <2>8, <7>1
            <6>5. P[u - 1] = Len(F[u - 1]) BY <2>4, <4>4
            <6>6. Len(F[u - 1]) \in Nat BY <4>7
            <6>7. P[a - 1] + Len(L[a]) <= Len(F[u - 1]) BY <6>3, <6>4, <6>5, Zenon
            <6>8. P[a - 1] + j \in 1 .. Len(F[u - 1]) BY <6>3, <6>6, <6>7, InPiece, Zenon
            <6>9. (F[u - 1] \o L[u])[P[a - 1] + j] = F[u - 1][P[a - 1] + j] BY <4>8, <6>8, Zenon
            <6> QED BY <4>7, <6>2, <6>9
          <5> QED BY <5>1, <5>2
        <4>11. Holds(u) BY <4>9
        <4> HIDE DEF Holds
        <4> QED BY <4>2, <4>11
      <3> HIDE DEF Holds
      <3> QED BY <3>1
    <2>10. Holds(n)
      <3> HIDE DEF Holds
      <3> QED BY <1>2, <2>9
    <2>11. F[n] \in Seq(S) /\ P[n] = Len(F[n]) BY <1>2, <2>3, <2>4
    <2>12. FlattenSeq(L) \in Seq(S) /\ Len(FlattenSeq(L)) = P[n] BY <2>1, <2>11
    <2>13. \A a \in 1 .. n : \A j \in 1 .. Len(L[a]) : FlattenSeq(L)[P[a - 1] + j] = L[a][j]
      BY <2>1, <2>10, Zenon
    <2> HIDE DEF Holds
    <2>14. Pieces(FlattenSeq(L), L, n, P) BY <2>4, <2>5, <2>6, <2>12, <2>13, Zenon DEF Pieces
    <2> QED BY <2>12, <2>14
  <1> QED BY <1>1, <1>2

LEMMA Widen ==
  ASSUME NEW A, NEW B, NEW s \in Seq(A), \A i \in 1 .. Len(s) : s[i] \in B PROVE s \in Seq(B)
  OBVIOUS

LEMMA SubSeqIs ==
  ASSUME NEW S, NEW s \in Seq(S), NEW a \in 1 .. Len(s) + 1, NEW b \in a - 1 .. Len(s)
  PROVE  /\ SubSeq(s, a, b) \in Seq(S) /\ Len(SubSeq(s, a, b)) = b - a + 1
         /\ \A j \in 1 .. b - a + 1 : SubSeq(s, a, b)[j] = s[a + j - 1]
  OBVIOUS

LEMMA SameSeq ==
  ASSUME NEW A, NEW s \in Seq(A), NEW B, NEW t \in Seq(B), Len(s) = Len(t),
         \A i \in 1 .. Len(s) : s[i] = t[i]
  PROVE  s = t
  OBVIOUS

LEMMA SeqText == ASSUME NEW S, NEW v \in Seq(S) PROVE IsText(v)
  <1>1. \A i \in 1 .. Len(v) : v[i] \in ToSet(v)
    <2>1. DOMAIN v = 1 .. Len(v) OBVIOUS
    <2> QED BY <2>1 DEF ToSet
  <1> QED BY <1>1, Widen DEF IsText

\* The cells of a text.
LEMMA TextCells ==
  ASSUME NEW v, IsText(v), NEW i \in 1 .. Len(v) PROVE v[i] \in ToSet(v)
  BY DEF IsText

LEMMA FunText ==
  ASSUME NEW u \in Nat, NEW f, f = [i \in 1 .. u |-> f[i]] PROVE IsText(f) /\ Len(f) = u
  <1>1. DOMAIN f = 1 .. u OBVIOUS
  <1>2. \A i \in 1 .. u : f[i] \in ToSet(f) BY <1>1 DEF ToSet
  <1> QED BY <1>2 DEF IsText

LEMMA TextLen == ASSUME NEW v, IsText(v) PROVE Len(v) \in Nat /\ DOMAIN v = 1 .. Len(v)
  BY DEF IsText

LEMMA ResizeIs ==
  ASSUME NEW text, NEW len \in Nat PROVE IsText(Resize(text, len)) /\ Len(Resize(text, len)) = len
  <1> DEFINE f == [i \in 1 .. len |-> IF i <= Len(text) THEN text[i] ELSE NUL]
  <1>1. f = [i \in 1 .. len |-> f[i]] OBVIOUS
  <1> HIDE DEF f
  <1>2. IsText(f) /\ Len(f) = len BY <1>1, FunText
  <1> QED BY <1>2 DEF f, Resize

LEMMA OverwriteIs ==
  ASSUME NEW text, IsText(text), NEW body, NEW off \in Nat, NEW n \in Nat
  PROVE  /\ IsText(Overwrite(text, body, off, n))
         /\ off + n <= Len(text) =>
              /\ Len(Overwrite(text, body, off, n)) = Len(text)
              /\ \A i \in 1 .. Len(text) :
                   Overwrite(text, body, off, n)[i] = IF i \in off + 1 .. off + n THEN body[i] ELSE text[i]
  <1>0. PICK l \in Nat : l = Len(text) BY TextLen
  <1> DEFINE I == {l, off + n}
             u == Max(I)
  <1>1. u \in Nat /\ (off + n <= l => u = l)
    <2>1. I \subseteq Int OBVIOUS
    <2>2. CASE off + n <= l
      <3>1. l \in I /\ \A i \in I : l >= i BY <2>2
      <3> HIDE DEF I
      <3>2. Max(I) = l BY <2>1, <3>1, MaxIs
      <3> QED BY <3>2
    <2>3. CASE ~ (off + n <= l)
      <3>1. off + n \in I /\ off + n \in Nat /\ \A i \in I : off + n >= i BY <2>3
      <3> HIDE DEF I
      <3>2. Max(I) = off + n BY <2>1, <3>1, MaxIs
      <3> QED BY <2>3, <3>1, <3>2
    <2> QED BY <2>2, <2>3
  <1> HIDE DEF u
  <1> DEFINE f == [i \in 1 .. u |-> IF i \in off + 1 .. off + n THEN body[i]
                                    ELSE IF i <= Len(text) THEN text[i] ELSE NUL]
  <1>2. Overwrite(text, body, off, n) = f BY <1>0 DEF Overwrite, u
  <1>3. f = [i \in 1 .. u |-> f[i]] OBVIOUS
  <1>4. \A i \in 1 .. u : i <= l => f[i] = IF i \in off + 1 .. off + n THEN body[i] ELSE text[i]
    BY <1>0
  <1> HIDE DEF f
  <1>5. IsText(f) /\ Len(f) = u BY <1>1, <1>3, FunText
  <1>6. ASSUME off + n <= l
        PROVE  /\ Len(f) = l
               /\ \A i \in 1 .. l : f[i] = IF i \in off + 1 .. off + n THEN body[i] ELSE text[i]
    <2>1. \A i \in 1 .. l : i \in 1 .. u /\ i <= l BY <1>1, <1>6
    <2> QED BY <1>1, <1>4, <1>5, <1>6, <2>1
  <1> QED BY <1>0, <1>2, <1>5, <1>6

-----------------------------------------------------------------------------
(* Lines and parts of a header *)

\* Line e is the last one with this key, and it counts.
LastWith(part, key, e) ==
  /\ e \in 1 .. Len(part) /\ part[e].k = key
  /\ \A i \in e + 1 .. Len(part) : part[i].k # key

LEMMA FieldLast ==
  ASSUME NEW S, NEW part \in Seq(S), NEW key, NEW default, NEW e, LastWith(part, key, e)
  PROVE  Field(part, key, default) = part[e].v
  <1> DEFINE I == {i \in 1 .. Len(part) : part[i].k = key}
  <1>0. Len(part) \in Nat /\ e \in 1 .. Len(part) /\ part[e].k = key
        /\ \A i \in e + 1 .. Len(part) : part[i].k # key
    BY DEF LastWith
  <1>1. e \in I /\ I \subseteq Int /\ I # {} BY <1>0
  <1>2. \A i \in I : e >= i
    <2> SUFFICES ASSUME NEW i \in I PROVE e >= i OBVIOUS
    <2>1. i \notin e + 1 .. Len(part) BY <1>0
    <2> QED BY <1>0, <2>1
  <1>3. Max(I) = e
    <2> HIDE DEF I
    <2> QED BY <1>1, <1>2, MaxIs
  <1>4. SelectLastInSeq(part, LAMBDA l : l.k = key) = e BY <1>1, <1>3, Zenon DEF SelectLastInSeq
  <1>5. e # 0 BY <1>0
  <1> QED BY <1>4, <1>5, Zenon DEF Field

LEMMA FieldNone ==
  ASSUME NEW part, NEW key, NEW default, \A i \in 1 .. Len(part) : part[i].k # key
  PROVE  Field(part, key, default) = default
  <1> DEFINE I == {i \in 1 .. Len(part) : part[i].k = key}
  <1>1. I = {} OBVIOUS
  <1>2. SelectLastInSeq(part, LAMBDA l : l.k = key) = 0 BY <1>1, Zenon DEF SelectLastInSeq
  <1> QED BY <1>2, Zenon DEF Field

\* A part ends before the first blank line, or with the text.
LEMMA PartAtIs ==
  ASSUME NEW S, NEW text \in Seq(S), NEW a \in 1 .. Len(text) + 1, NEW e \in a .. Len(text) + 1,
         \A i \in a .. e - 1 : text[i].k # "blank", e <= Len(text) => text[e].k = "blank"
  PROVE  PartAt(text, a) = SubSeq(text, a, e - 1)
  <1> DEFINE ends == {i \in a .. Len(text) : text[i].k = "blank"} \cup {Len(text) + 1}
  <1>0. Len(text) \in Nat OBVIOUS
  <1>1. e \in ends BY <1>0
  <1>2. ends \subseteq Int BY <1>0
  <1>3. \A i \in ends : e <= i
    <2> SUFFICES ASSUME NEW i \in ends PROVE e <= i OBVIOUS
    <2>1. CASE i = Len(text) + 1 BY <1>0, <2>1
    <2>2. CASE i \in a .. Len(text) /\ text[i].k = "blank"
      <3>1. i \notin a .. e - 1 BY <2>2
      <3> QED BY <1>0, <2>2, <3>1
    <2> QED BY <2>1, <2>2
  <1>4. Min(ends) = e
    <2> HIDE DEF ends
    <2> QED BY <1>1, <1>2, <1>3, MinIs
  <1> QED BY <1>4 DEF PartAt

\* The number of elements up to one of them tells it from the others.
LEMMA NthIs ==
  ASSUME NEW at \in SUBSET Nat, IsFiniteSet(at), NEW a \in at, NEW i,
         Cardinality({b \in at : b <= a}) = i
  PROVE  Nth(at, i) = a
  <1> DEFINE Upto(c) == {b \in at : b <= c}
  <1>1. ASSUME NEW c \in at, NEW d \in at, c < d PROVE Cardinality(Upto(c)) # Cardinality(Upto(d))
    <2>1. Upto(d) \subseteq at BY <1>1
    <2>2. IsFiniteSet(Upto(d)) BY <2>1, FS_Subset
    <2>3. Upto(c) \subseteq Upto(d) /\ d \in Upto(d) /\ d \notin Upto(c)
      <3>1. \A b \in at : b \in Nat OBVIOUS
      <3>2. \A b \in at : b <= c => b <= d BY <1>1, <3>1
      <3>3. d <= d /\ ~ (d <= c) BY <1>1, <3>1
      <3> QED BY <1>1, <3>2, <3>3
    <2> HIDE DEF Upto
    <2>4. Upto(c) # Upto(d) BY <2>3
    <2> QED BY <2>2, <2>3, <2>4, FS_Subset, FS_CardinalityType
  <1>2. ASSUME NEW c \in at, Cardinality(Upto(c)) = i PROVE c = a
    <2>1. c \in Nat /\ a \in Nat OBVIOUS
    <2>2. Cardinality(Upto(a)) = i OBVIOUS
    <2> HIDE DEF Upto
    <2>3. ~ (c < a) /\ ~ (a < c) BY <1>1, <1>2, <2>2
    <2> QED BY <2>1, <2>3
  <1>3. \E c \in at : Cardinality({b \in at : b <= c}) = i OBVIOUS
  <1>4. Nth(at, i) \in at /\ Cardinality({b \in at : b <= Nth(at, i)}) = i
    BY <1>3, Zenon DEF Nth
  <1> QED BY <1>2, <1>4

LEMMA StartsFinite ==
  ASSUME NEW S, NEW text \in Seq(S)
  PROVE  /\ PartStarts(text) \in SUBSET (1 .. Len(text) + 1)
         /\ SectionStarts(text) \in SUBSET Nat /\ IsFiniteSet(SectionStarts(text))
         /\ Cardinality(SectionStarts(text)) \in Nat
  <1>0. Len(text) \in Nat /\ DOMAIN text = 1 .. Len(text) OBVIOUS
  <1>1. PartStarts(text) \subseteq 1 .. Len(text) + 1 BY <1>0 DEF PartStarts
  <1>2. SectionStarts(text) \subseteq PartStarts(text) BY DEF SectionStarts
  <1>3. IsFiniteSet(1 .. Len(text) + 1) BY <1>0, FS_Interval
  <1>4. SectionStarts(text) \subseteq 1 .. Len(text) + 1 BY <1>1, <1>2
  <1>5. IsFiniteSet(SectionStarts(text)) BY <1>3, <1>4, FS_Subset
  <1>6. 1 .. Len(text) + 1 \subseteq Nat BY <1>0
  <1> QED BY <1>1, <1>4, <1>5, <1>6, FS_CardinalityType

\* The part of a section that i - 1 others come before.
LEMMA PartsAt ==
  ASSUME NEW S, NEW text \in Seq(S), NEW a \in SectionStarts(text), NEW i,
         Cardinality({b \in SectionStarts(text) : b <= a}) = i
  PROVE  i \in 1 .. Len(Parts(text)) /\ Parts(text)[i] = PartAt(text, a)
  <1> DEFINE at == SectionStarts(text)
             up == {b \in at : b <= a}
  <1>1. at \in SUBSET Nat /\ IsFiniteSet(at) /\ Cardinality(at) \in Nat BY StartsFinite
  <1>2. Nth(at, i) = a BY <1>1, NthIs
  <1>3. up \subseteq at /\ a \in up BY <1>1
  <1>4. IsFiniteSet(up) /\ Cardinality(up) <= Cardinality(at) BY <1>1, <1>3, FS_Subset
  <1>5. Cardinality(up) \in Nat /\ Cardinality(up) # 0
    <2> HIDE DEF up
    <2> QED BY <1>3, <1>4, FS_CardinalityType, FS_EmptySet
  <1>6. i \in 1 .. Cardinality(at) BY <1>1, <1>4, <1>5
  <1>7. Len(Parts(text)) = Cardinality(at) BY <1>1 DEF Parts
  <1>8. Parts(text)[i] = PartAt(text, Nth(at, i)) BY <1>6 DEF Parts
  <1> QED BY <1>2, <1>6, <1>7, <1>8

-----------------------------------------------------------------------------
(* The data of the sections *)

\* The data of the first i sections is P[i] cells long.
Laid(s, P) ==
  /\ P \in [0 .. Len(s) -> Nat] /\ P[0] = 0 /\ Len(Concat(s)) = P[Len(s)]
  /\ \A i \in 1 .. Len(s) :
       /\ P[i] = P[i - 1] + Len(s[i].data)
       /\ \A j \in 1 .. Len(s[i].data) : Concat(s)[P[i - 1] + j] = s[i].data[j]

LEMMA SectionsAre ==
  ASSUME NEW s, IsSections(s)
  PROVE  /\ Len(s) \in Nat /\ DOMAIN s = 1 .. Len(s)
         /\ \A i \in 1 .. Len(s) : /\ s[i] = [name |-> s[i].name, data |-> s[i].data]
                                   /\ IsText(s[i].data) /\ Len(s[i].data) \in Nat
  <1>1. IsText(s) /\ Len(s) \in Nat /\ DOMAIN s = 1 .. Len(s) BY TextLen DEF IsSections
  <1> QED BY <1>1, TextLen DEF IsSections

LEMMA ConcatLaid ==
  ASSUME NEW s, IsSections(s)
  PROVE  IsText(Concat(s)) /\ \E P : Laid(s, P)
  <1>0. /\ Len(s) \in Nat /\ DOMAIN s = 1 .. Len(s)
        /\ \A i \in 1 .. Len(s) : IsText(s[i].data)
    BY SectionsAre
  <1> DEFINE L == [i \in DOMAIN s |-> s[i].data]
             S == UNION {ToSet(s[i].data) : i \in 1 .. Len(s)}
  <1>1. ASSUME NEW i \in 1 .. Len(s) PROVE s[i].data \in Seq(S)
    <2>1. ToSet(s[i].data) \subseteq S OBVIOUS
    <2>2. s[i].data \in Seq(ToSet(s[i].data)) BY <1>0 DEF IsText
    <2> HIDE DEF S
    <2> QED BY <2>1, <2>2, Widen
  <1>2. L \in Seq(Seq(S)) /\ Len(L) = Len(s) /\ \A i \in 1 .. Len(s) : L[i] = s[i].data
    <2> HIDE DEF S
    <2> QED BY <1>0, <1>1
  <1> HIDE DEF S, L
  <1>3. FlattenSeq(L) \in Seq(S) /\ \E P : Pieces(FlattenSeq(L), L, Len(s), P)
    BY <1>0, <1>2, Flat
  <1>4. Concat(s) = FlattenSeq(L) BY Zenon DEF Concat, L
  <1>5. PICK P : Pieces(Concat(s), L, Len(s), P) BY <1>3, <1>4
  <1>6. Laid(s, P) BY <1>2, <1>5 DEF Pieces, Laid
  <1> QED BY <1>3, <1>4, <1>6, SeqText

\* The recursion of Offset has a solution.
LEMMA OffsetExists ==
  ASSUME NEW parts, NEW n \in Nat
  PROVE  \E g : g = [j \in 1 .. n |-> IF j = 1 THEN HeaderSize ELSE g[j - 1] + Size(parts[j - 1])]
  <1> DEFINE Some(u) == \E g : g = [j \in 1 .. u |-> IF j = 1 THEN HeaderSize
                                                      ELSE g[j - 1] + Size(parts[j - 1])]
             T == {u \in Nat : ~ Some(u)}
  <1>1. ASSUME T # {} PROVE FALSE
    <2>1. PICK u \in T : \A y \in T : u <= y BY <1>1, Least
    <2>2. u # 0
      <3>1. [i \in 1 .. 0 |-> 0] = [i \in 1 .. 0 |-> IF i = 1 THEN HeaderSize
                                      ELSE [j \in 1 .. 0 |-> 0][i - 1] + Size(parts[i - 1])]
        OBVIOUS
      <3>2. Some(0) BY <3>1
      <3>3. 0 \notin T
        <4> HIDE DEF Some
        <4> QED BY <3>2
      <3> QED BY <2>1, <3>3
    <2>3. u - 1 \in Nat /\ Some(u - 1)
      <3> HIDE DEF Some
      <3>1. u \in Nat /\ u - 1 \in Nat BY <2>1, <2>2
      <3>2. u - 1 \notin T
        <4> HIDE DEF T
        <4> QED BY <2>1, <3>1
      <3> QED BY <3>1, <3>2
    <2>4. PICK g : g = [j \in 1 .. u - 1 |-> IF j = 1 THEN HeaderSize ELSE g[j - 1] + Size(parts[j - 1])]
      BY <2>3
    <2> DEFINE h == [j \in 1 .. u |-> IF j = u THEN IF j = 1 THEN HeaderSize ELSE g[j - 1] + Size(parts[j - 1])
                                      ELSE g[j]]
    <2>5. ASSUME NEW j \in 1 .. u
          PROVE  h[j] = IF j = 1 THEN HeaderSize ELSE h[j - 1] + Size(parts[j - 1])
      <3>1. j # 1 => j - 1 \in 1 .. u - 1 /\ j - 1 # u /\ j - 1 \in 1 .. u BY <2>1
      <3>2. j # 1 => h[j - 1] = g[j - 1] BY <3>1
      <3>3. j # u => j \in 1 .. u - 1 BY <2>1
      <3>4. j # u => g[j] = IF j = 1 THEN HeaderSize ELSE g[j - 1] + Size(parts[j - 1]) BY <2>4, <3>3
      <3>5. h[j] = IF j = u THEN IF j = 1 THEN HeaderSize ELSE g[j - 1] + Size(parts[j - 1]) ELSE g[j]
        OBVIOUS
      <3> HIDE DEF h
      <3> QED BY <3>2, <3>4, <3>5
    <2>6. h = [j \in 1 .. u |-> h[j]] OBVIOUS
    <2> HIDE DEF h
    <2>7. h = [j \in 1 .. u |-> IF j = 1 THEN HeaderSize ELSE h[j - 1] + Size(parts[j - 1])] BY <2>5, <2>6
    <2> QED BY <2>1, <2>7
  <1> QED BY <1>1

LEMMA SizeNat == ASSUME NEW part PROVE Size(part) \in Nat
  BY DEF Size

LEMMA OffsetStep ==
  ASSUME NEW parts, Len(parts) \in Nat
  PROVE  /\ Offset(parts, 1) = HeaderSize
         /\ \A j \in 2 .. Len(parts) + 1 : Offset(parts, j) = Offset(parts, j - 1) + Size(parts[j - 1])
         /\ \A j \in 1 .. Len(parts) + 1 : Offset(parts, j) \in Nat
  <1> DEFINE n == Len(parts) + 1
             F == CHOOSE g : g = [j \in 1 .. n |-> IF j = 1 THEN HeaderSize
                                                    ELSE g[j - 1] + Size(parts[j - 1])]
  <1>0. n \in Nat /\ n >= 1 OBVIOUS
  <1>1. \A j : Offset(parts, j) = F[j] BY Zenon DEF Offset
  <1>2. F = [j \in 1 .. n |-> IF j = 1 THEN HeaderSize ELSE F[j - 1] + Size(parts[j - 1])]
    <2>1. \E g : g = [j \in 1 .. n |-> IF j = 1 THEN HeaderSize ELSE g[j - 1] + Size(parts[j - 1])]
      BY <1>0, OffsetExists
    <2> QED BY <2>1, Zenon
  <1> HIDE DEF F
  <1>3. F[1] = HeaderSize /\ \A j \in 2 .. n : F[j] = F[j - 1] + Size(parts[j - 1])
    BY <1>0, <1>2
  <1>4. \A j \in 1 .. n : F[j] \in Nat
    <2> DEFINE T == {j \in Nat : j \in 1 .. n /\ F[j] \notin Nat}
    <2>1. ASSUME T # {} PROVE FALSE
      <3>1. PICK u \in T : \A y \in T : u <= y BY <2>1, Least
      <3>2. u \in 1 .. n /\ F[u] \notin Nat /\ u \in Nat BY <3>1
      <3>3. u # 1 BY <1>3, <3>2, SizesAssumption
      <3>4. u \in 2 .. n /\ u - 1 \in Nat /\ u - 1 \in 1 .. n BY <3>2, <3>3
      <3>5. u - 1 \notin T
        <4> HIDE DEF T
        <4> QED BY <3>1, <3>2, <3>4
      <3>6. F[u - 1] \in Nat BY <3>4, <3>5
      <3>7. F[u] = F[u - 1] + Size(parts[u - 1]) BY <1>3, <3>4
      <3> QED BY <3>2, <3>6, <3>7, SizeNat
    <2> QED BY <2>1
  <1> QED BY <1>1, <1>3, <1>4

\* The offsets of the parts that have the sizes of the sections.
Sized(parts, s, n) == \A i \in 1 .. n : Size(parts[i]) = Len(s[i].data)
Placed(parts, P, n) == \A i \in 1 .. n + 1 : Offset(parts, i) = HeaderSize + P[i - 1]

LEMMA OffsetIs ==
  ASSUME NEW s, IsSections(s), NEW P, Laid(s, P), NEW parts, Len(parts) \in Nat,
         NEW n \in Nat, n <= Len(s), n <= Len(parts), Sized(parts, s, n)
  PROVE  Placed(parts, P, n)
  <1>0. Len(s) \in Nat /\ HeaderSize \in Nat BY SectionsAre, SizesAssumption
  <1> DEFINE T == {i \in Nat : i \in 1 .. n + 1 /\ Offset(parts, i) # HeaderSize + P[i - 1]}
  <1>1. ASSUME T # {} PROVE FALSE
    <2>1. PICK u \in T : \A y \in T : u <= y BY <1>1, Least
    <2>2. u \in 1 .. n + 1 /\ Offset(parts, u) # HeaderSize + P[u - 1] /\ u \in Nat BY <2>1
    <2>3. u # 1 BY <1>0, <2>2, OffsetStep DEF Laid
    <2>4. u - 1 \in Nat /\ u - 1 \in 1 .. n /\ u - 1 \in 1 .. n + 1 /\ u \in 2 .. Len(parts) + 1
          /\ u - 1 \in 1 .. Len(s) /\ u - 2 \in 0 .. Len(s)
      <3> HIDE DEF T
      <3> QED BY <1>0, <2>2, <2>3
    <2>5. u - 1 \notin T
      <3> HIDE DEF T
      <3> QED BY <2>1, <2>2, <2>4
    <2>6. Offset(parts, u - 1) = HeaderSize + P[u - 2]
      <3>1. (u - 1) - 1 = u - 2 BY <2>4
      <3> QED BY <2>4, <2>5, <3>1
    <2>7. Offset(parts, u) = Offset(parts, u - 1) + Size(parts[u - 1]) BY <2>4, OffsetStep
    <2>8. P[u - 1] = P[u - 2] + Len(s[u - 1].data)
      <3>1. (u - 1) - 1 = u - 2 BY <2>4
      <3> QED BY <2>4, <3>1 DEF Laid
    <2>9. P[u - 2] \in Nat /\ Len(s[u - 1].data) \in Nat BY <2>4, SectionsAre DEF Laid
    <2>10. Size(parts[u - 1]) = Len(s[u - 1].data) BY <2>4 DEF Sized
    <2> HIDE DEF T
    <2> QED BY <1>0, <2>2, <2>6, <2>7, <2>8, <2>9, <2>10
  <1> QED BY <1>1 DEF Placed

-----------------------------------------------------------------------------
(* The reader *)

LEMMA OffsetsOrdered ==
  ASSUME NEW parts, Len(parts) \in Nat, NEW j \in 1 .. Len(parts) + 1, NEW i \in 1 .. j
  PROVE  Offset(parts, i) <= Offset(parts, j)
  <1> DEFINE n == Len(parts)
             P == [u \in 0 .. n |-> Offset(parts, u + 1)]
  <1>1. \A u \in 0 .. n : u + 1 \in 1 .. Len(parts) + 1 OBVIOUS
  <1>2. P \in [0 .. n -> Nat] BY <1>1, OffsetStep
  <1>3. ASSUME NEW u \in 1 .. n PROVE P[u - 1] <= P[u]
    <2>1. u + 1 \in 2 .. Len(parts) + 1 /\ u \in 1 .. Len(parts) + 1 /\ (u + 1) - 1 = u /\ (u - 1) + 1 = u
      OBVIOUS
    <2>2. Offset(parts, u + 1) = Offset(parts, u) + Size(parts[u]) BY <2>1, OffsetStep
    <2>3. Offset(parts, u) \in Nat /\ Size(parts[u]) \in Nat BY <2>1, OffsetStep, SizeNat
    <2>4. P[u - 1] = Offset(parts, u) /\ P[u] = Offset(parts, u + 1) BY <2>1
    <2> HIDE DEF P
    <2> QED BY <2>2, <2>3, <2>4
  <1>4. P[i - 1] = Offset(parts, i) /\ P[j - 1] = Offset(parts, j)
    <2>1. i - 1 \in 0 .. n /\ j - 1 \in 0 .. n /\ (i - 1) + 1 = i /\ (j - 1) + 1 = j OBVIOUS
    <2> QED BY <2>1
  <1>5. j - 1 \in 0 .. n /\ i - 1 \in 0 .. (j - 1) OBVIOUS
  <1>6. n \in Nat OBVIOUS
  <1> HIDE DEF P
  <1>7. \A b \in 0 .. n : \A a \in 0 .. b : P[a] <= P[b]
    <2> HIDE DEF n
    <2> QED BY <1>2, <1>3, <1>6, PlacesOrdered
  <1> QED BY <1>4, <1>5, <1>7

\* A set with all numbers below each of its elements.
LEMMA PrefixIs ==
  ASSUME NEW m \in Nat, NEW F \in SUBSET (1 .. m), \A j \in F : \A i \in 1 .. j : i \in F
  PROVE  F = 1 .. Cardinality(F) /\ Cardinality(F) \in 0 .. m
  <1> DEFINE T == {i \in Nat : i \in 1 .. m + 1 /\ i \notin F}
  <1>1. m + 1 \in T OBVIOUS
  <1>2. PICK u \in T : \A y \in T : u <= y BY <1>1, Least
  <1>3. u \in 1 .. m + 1 /\ u \notin F /\ \A i \in 1 .. u - 1 : i \in F
    <2>1. u \in Nat /\ u \in 1 .. m + 1 /\ u \notin F BY <1>2
    <2>2. ASSUME NEW i \in 1 .. u - 1 PROVE i \in F
      <3>1. i \in Nat /\ i \in 1 .. m + 1 /\ i < u BY <2>1
      <3>2. i \notin T
        <4> HIDE DEF T
        <4> QED BY <1>2, <2>1, <3>1
      <3> QED BY <3>1, <3>2
    <2> QED BY <2>1, <2>2
  <1>4. ASSUME NEW j \in F PROVE j \in 1 .. u - 1
    <2>1. u \notin 1 .. j BY <1>3
    <2> QED BY <1>3, <2>1
  <1>5. F = 1 .. u - 1 BY <1>3, <1>4
  <1>6. u - 1 \in 0 .. m /\ u - 1 \in Nat BY <1>3
  <1>7. Cardinality(1 .. u - 1) = u - 1 BY <1>6, FS_Interval
  <1> QED BY <1>5, <1>6, <1>7

FitSet(buf, parts) == {i \in DOMAIN parts : Fits(buf, parts, i)}

LEMMA FitsPrefix ==
  ASSUME NEW buf, IsText(buf), NEW S, NEW parts \in Seq(S)
  PROVE  /\ Cardinality(FitSet(buf, parts)) \in 0 .. Len(parts)
         /\ \A i \in 1 .. Len(parts) :
              i <= Cardinality(FitSet(buf, parts)) <=> Offset(parts, i + 1) <= Len(buf)
  <1> DEFINE F == FitSet(buf, parts)
  <1>0. Len(parts) \in Nat /\ DOMAIN parts = 1 .. Len(parts) /\ Len(buf) \in Nat BY TextLen
  <1>1. F \in SUBSET (1 .. Len(parts)) BY <1>0 DEF FitSet
  <1>2. ASSUME NEW j \in F, NEW i \in 1 .. j PROVE i \in F
    <2>1. j \in 1 .. Len(parts) /\ Offset(parts, j + 1) <= Len(buf) BY <1>0 DEF FitSet, Fits
    <2>2. j + 1 \in 1 .. Len(parts) + 1 /\ i + 1 \in 1 .. j + 1 /\ i + 1 \in 1 .. Len(parts) + 1
      BY <1>0, <2>1
    <2>3. Offset(parts, i + 1) <= Offset(parts, j + 1) BY <1>0, <2>2, OffsetsOrdered
    <2>4. Offset(parts, i + 1) \in Nat /\ Offset(parts, j + 1) \in Nat BY <1>0, <2>2, OffsetStep
    <2>5. Offset(parts, i + 1) <= Len(buf) BY <1>0, <2>1, <2>3, <2>4
    <2> QED BY <1>0, <2>1, <2>2, <2>5 DEF FitSet, Fits
  <1> HIDE DEF F
  <1>3. F = 1 .. Cardinality(F) /\ Cardinality(F) \in 0 .. Len(parts) BY <1>0, <1>1, <1>2, PrefixIs
  <1>4. \A i \in 1 .. Len(parts) : i <= Cardinality(F) <=> i \in F BY <1>0, <1>3
  <1>5. \A i \in 1 .. Len(parts) : i \in F <=> Offset(parts, i + 1) <= Len(buf)
    BY <1>0 DEF F, FitSet, Fits
  <1> QED BY <1>3, <1>4, <1>5 DEF F

\* The sections that parse_ota finds, and whether OtaExtractor::parse accepts them.
Found(buf, parts) == [i \in 1 .. Cardinality(FitSet(buf, parts)) |-> SectionAt(buf, parts, i)]
Accepts(buf, parts) ==
  /\ Utf8(HeaderText(buf))
  /\ \A i \in 1 .. Cardinality(FitSet(buf, parts)) :
       SectionOk(parts[i], Found(buf, parts)[i].data, BsSize(buf))
  /\ Cardinality(FitSet(buf, parts)) = Len(parts) => PacketOk(HeaderText(buf), Found(buf, parts))

LEMMA ParseIs ==
  ASSUME NEW buf
  PROVE  Parse(buf) = IF Accepts(buf, Described(buf)) THEN Found(buf, Described(buf)) ELSE <<>>
  BY Zenon DEF Parse, Accepts, Found, FitSet

LEMMA HeaderTextIs ==
  ASSUME NEW buf, IsText(buf), Len(buf) >= HeaderSize
  PROVE  /\ IsText(HeaderText(buf)) /\ Len(HeaderText(buf)) = HeaderSize
         /\ \A i \in 1 .. HeaderSize : HeaderText(buf)[i] = buf[i]
  <1>0. HeaderSize \in Nat /\ Len(buf) \in Nat BY TextLen, SizesAssumption
  <1>1. Min({HeaderSize, Len(buf)}) = HeaderSize BY <1>0, MinTwo
  <1>2. HeaderText(buf) = SubSeq(buf, 1, HeaderSize) BY <1>1 DEF HeaderText
  <1>3. PICK S : buf \in Seq(S) BY DEF IsText
  <1>4. 1 \in 1 .. Len(buf) + 1 /\ HeaderSize \in 1 - 1 .. Len(buf) BY <1>0
  <1>5. /\ SubSeq(buf, 1, HeaderSize) \in Seq(S)
        /\ Len(SubSeq(buf, 1, HeaderSize)) = HeaderSize - 1 + 1
        /\ \A j \in 1 .. HeaderSize - 1 + 1 : SubSeq(buf, 1, HeaderSize)[j] = buf[1 + j - 1]
    BY <1>3, <1>4, SubSeqIs
  <1>6. HeaderSize - 1 + 1 = HeaderSize BY <1>0
  <1>7. \A j \in 1 .. HeaderSize : buf[1 + j - 1] = buf[j]
    <2>1. \A j \in 1 .. HeaderSize : 1 + j - 1 = j BY <1>0
    <2> QED BY <2>1
  <1> QED BY <1>2, <1>5, <1>6, <1>7, SeqText

LEMMA PartsText ==
  ASSUME NEW text, IsText(text) PROVE IsText(Parts(text)) /\ Len(Parts(text)) \in Nat
  <1>1. PICK S : text \in Seq(S) BY DEF IsText
  <1> DEFINE n == Cardinality(SectionStarts(text))
  <1>2. n \in Nat BY <1>1, StartsFinite
  <1>3. Parts(text) = [i \in 1 .. n |-> Parts(text)[i]] BY DEF Parts
  <1> HIDE DEF n
  <1> QED BY <1>2, <1>3, FunText

LEMMA DescribedIs ==
  ASSUME NEW buf, IsText(buf), Len(buf) >= HeaderSize
  PROVE  /\ IsText(Described(buf))
         /\ Len(Described(buf)) \in Nat
         /\ Len(Described(buf)) = Min({MaxImages, Len(Parts(HeaderText(buf)))})
         /\ \A i \in 1 .. Len(Described(buf)) :
              /\ Described(buf)[i] = Parts(HeaderText(buf))[i]
              /\ i \in 1 .. Len(Parts(HeaderText(buf)))
  <1> DEFINE p == Parts(HeaderText(buf))
             m == Min({MaxImages, Len(p)})
  <1>0. IsText(p) /\ Len(p) \in Nat /\ MaxImages \in Nat
    BY HeaderTextIs, PartsText, SizesAssumption
  <1>1. m \in 0 .. Len(p) /\ m \in Nat
    <2>1. PICK l \in Nat : l = Len(p) BY <1>0
    <2>2. Min({MaxImages, l}) \in {MaxImages, l} /\ Min({MaxImages, l}) <= l
      <3> HIDE DEF m, p
      <3>1. MaxImages \in Int /\ l \in Int BY <1>0
      <3> QED BY <3>1, MinTwo, Zenon
    <2>3. m = Min({MaxImages, l}) BY <2>1
    <2> HIDE DEF m, p
    <2> QED BY <1>0, <2>1, <2>2, <2>3
  <1>2. Described(buf) = SubSeq(p, 1, m) BY Zenon DEF Described
  <1> HIDE DEF m, p
  <1>3. PICK S : p \in Seq(S) BY <1>0 DEF IsText
  <1>4. 1 \in 1 .. Len(p) + 1 /\ m \in 1 - 1 .. Len(p) BY <1>0, <1>1
  <1>5. /\ SubSeq(p, 1, m) \in Seq(S) /\ Len(SubSeq(p, 1, m)) = m - 1 + 1
        /\ \A j \in 1 .. m - 1 + 1 : SubSeq(p, 1, m)[j] = p[1 + j - 1]
    BY <1>3, <1>4, SubSeqIs
  <1>6. m - 1 + 1 = m /\ \A j \in 1 .. m : 1 + j - 1 = j BY <1>1
  <1>7. /\ SubSeq(p, 1, m) \in Seq(S) /\ Len(SubSeq(p, 1, m)) = m
        /\ \A j \in 1 .. m : SubSeq(p, 1, m)[j] = p[j]
    BY <1>5, <1>6
  <1>8. \A i \in 1 .. m : i \in 1 .. Len(p) BY <1>0, <1>1
  <1>9. IsText(SubSeq(p, 1, m)) BY <1>7, SeqText
  <1> QED BY <1>1, <1>2, <1>7, <1>8, <1>9 DEF m, p

\* The data of section i where it was laid.
CellsAt(buf, P, i) == SubSeq(buf, HeaderSize + P[i - 1] + 1, HeaderSize + P[i])

LEMMA DataAt ==
  ASSUME NEW s, IsSections(s), NEW P, Laid(s, P), NEW buf, IsText(buf),
         NEW i \in 1 .. Len(s), HeaderSize + P[i] <= Len(buf)
  PROVE  /\ IsText(CellsAt(buf, P, i)) /\ Len(CellsAt(buf, P, i)) = Len(s[i].data)
         /\ \A j \in 1 .. Len(s[i].data) : CellsAt(buf, P, i)[j] = buf[HeaderSize + P[i - 1] + j]
  <1>0. HeaderSize \in Nat /\ Len(buf) \in Nat /\ Len(s) \in Nat /\ Len(s[i].data) \in Nat
    BY TextLen, SectionsAre, SizesAssumption
  <1>1. i - 1 \in 0 .. Len(s) /\ i \in 0 .. Len(s) BY <1>0
  <1>2. P[i - 1] \in Nat /\ P[i] \in Nat /\ P[i] = P[i - 1] + Len(s[i].data) BY <1>1 DEF Laid
  <1> DEFINE a == HeaderSize + P[i - 1] + 1
             b == HeaderSize + P[i]
  <1>3. a \in 1 .. Len(buf) + 1 /\ b \in a - 1 .. Len(buf) /\ b - a + 1 = Len(s[i].data)
    <2>1. PICK x \in Nat, l \in Nat, m \in Nat : x = P[i - 1] /\ l = Len(s[i].data) /\ m = Len(buf)
      BY <1>0, <1>2
    <2>2. P[i] = x + l /\ HeaderSize + (x + l) <= m BY <1>2, <2>1
    <2>4. a = HeaderSize + x + 1 /\ b = HeaderSize + (x + l) BY <2>1, <2>2
    <2> HIDE DEF a, b
    <2>5. a \in 1 .. m + 1 /\ b \in a - 1 .. m /\ b - a + 1 = l
      <3>1. HeaderSize \in Nat /\ HeaderSize + (x + l) <= m BY <1>0, <2>2
      <3>2. a = HeaderSize + x + 1 /\ b = HeaderSize + (x + l) BY <2>4
      <3> QED BY <3>1, <3>2
    <2> QED BY <2>1, <2>5, Zenon
  <1>4. \A j \in 1 .. Len(s[i].data) : a + j - 1 = HeaderSize + P[i - 1] + j BY <1>0, <1>2
  <1> HIDE DEF a, b
  <1>5. PICK S : buf \in Seq(S) BY DEF IsText
  <1>6. /\ SubSeq(buf, a, b) \in Seq(S) /\ Len(SubSeq(buf, a, b)) = b - a + 1
        /\ \A j \in 1 .. b - a + 1 : SubSeq(buf, a, b)[j] = buf[a + j - 1]
    BY <1>3, <1>5, SubSeqIs
  <1>7. IsText(SubSeq(buf, a, b)) BY <1>6, SeqText
  <1>8. \A j \in 1 .. Len(s[i].data) : SubSeq(buf, a, b)[j] = buf[HeaderSize + P[i - 1] + j]
    BY <1>3, <1>4, <1>6
  <1>9. Len(SubSeq(buf, a, b)) = Len(s[i].data) BY <1>3, <1>6
  <1>10. CellsAt(buf, P, i) = SubSeq(buf, a, b) BY DEF CellsAt, a, b
  <1> QED BY <1>7, <1>8, <1>9, <1>10, Zenon

\* The header names the sections of s, as far as both go, and says how long they are.
Names(text, s) ==
  \A i \in 1 .. Len(Parts(text)) : i \in 1 .. Len(s) =>
    /\ Field(Parts(text)[i], "img_name", <<>>) = s[i].name
    /\ Field(Parts(text)[i], "img_size", 0) = Len(s[i].data)

\* What is found under such a header: the names, and as many cells as there should be.
LEMMA FoundIs ==
  ASSUME NEW s, IsSections(s), NEW P, Laid(s, P), NEW buf, IsText(buf), Len(buf) >= HeaderSize,
         Names(HeaderText(buf), s)
  PROVE  \A i \in 1 .. Len(Described(buf)) : i \in 1 .. Len(s) =>
           /\ Offset(Described(buf), i) = HeaderSize + P[i - 1]
           /\ Offset(Described(buf), i + 1) = HeaderSize + P[i]
           /\ SectionAt(buf, Described(buf), i) =
                [name |-> s[i].name, data |-> CellsAt(buf, P, i)]
  <1> DEFINE p == Described(buf)
  <1>0. /\ IsText(p) /\ Len(p) \in Nat
        /\ \A i \in 1 .. Len(p) : p[i] = Parts(HeaderText(buf))[i] /\ i \in 1 .. Len(Parts(HeaderText(buf)))
    BY DescribedIs
  <1>1. Len(s) \in Nat /\ \A i \in 1 .. Len(s) : Len(s[i].data) \in Nat BY SectionsAre
  <1> HIDE DEF p
  <1>2. ASSUME NEW i \in 1 .. Len(p), i \in 1 .. Len(s)
        PROVE  Field(p[i], "img_name", <<>>) = s[i].name /\ Size(p[i]) = Len(s[i].data)
    <2>1. Field(p[i], "img_name", <<>>) = s[i].name /\ Field(p[i], "img_size", 0) = Len(s[i].data)
      BY <1>0, <1>2 DEF Names
    <2> QED BY <1>1, <1>2, <2>1 DEF Size
  <1>3. ASSUME NEW i \in 1 .. Len(p), i \in 1 .. Len(s)
        PROVE  /\ Offset(p, i) = HeaderSize + P[i - 1] /\ Offset(p, i + 1) = HeaderSize + P[i]
               /\ SectionAt(buf, p, i) =
                    [name |-> s[i].name, data |-> CellsAt(buf, P, i)]
    <2>1. /\ i \in Nat /\ i <= Len(s) /\ i <= Len(p)
          /\ \A j \in 1 .. i : j \in 1 .. Len(p) /\ j \in 1 .. Len(s)
      BY <1>0, <1>1, <1>3
    <2>2. \A j \in 1 .. i : Size(p[j]) = Len(s[j].data) BY <1>2, <2>1
    <2>3. \A j \in 1 .. i + 1 : Offset(p, j) = HeaderSize + P[j - 1]
      <3>1. Sized(p, s, i) BY <2>2 DEF Sized
      <3>2. Placed(p, P, i) BY <1>0, <2>1, <3>1, OffsetIs
      <3> QED BY <3>2 DEF Placed
    <2>4. i \in 1 .. i + 1 /\ i + 1 \in 1 .. i + 1 /\ (i + 1) - 1 = i BY <2>1
    <2>5. Offset(p, i) = HeaderSize + P[i - 1] /\ Offset(p, i + 1) = HeaderSize + P[i] BY <2>3, <2>4
    <2> QED BY <1>2, <1>3, <2>5 DEF SectionAt, CellsAt
  <1> QED BY <1>3 DEF p

\* u is the text s followed by the text t.
Joined(u, s, t) ==
  /\ IsText(u) /\ Len(u) = Len(s) + Len(t)
  /\ \A i \in 1 .. Len(s) : u[i] = s[i]
  /\ \A j \in 1 .. Len(t) : u[Len(s) + j] = t[j]

LEMMA CatText ==
  ASSUME NEW s, NEW t, IsText(s), IsText(t) PROVE Joined(s \o t, s, t)
  <1> DEFINE S == ToSet(s) \cup ToSet(t)
  <1>1. s \in Seq(ToSet(s)) /\ t \in Seq(ToSet(t)) BY DEF IsText
  <1>2. s \in Seq(S) /\ t \in Seq(S)
    <2>1. ToSet(s) \subseteq S /\ ToSet(t) \subseteq S OBVIOUS
    <2> HIDE DEF S
    <2> QED BY <1>1, <2>1, Widen
  <1> HIDE DEF S
  <1>3. s \o t \in Seq(S) BY <1>2, CatAt
  <1>4. IsText(s \o t) BY <1>3, SeqText
  <1>5. /\ Len(s \o t) = Len(s) + Len(t)
        /\ \A i \in 1 .. Len(s) : (s \o t)[i] = s[i]
        /\ \A j \in 1 .. Len(t) : (s \o t)[Len(s) + j] = t[j]
    BY <1>2, CatAt
  <1> QED BY <1>4, <1>5 DEF Joined

\* Two texts with the same cells.
LEMMA SameText ==
  ASSUME NEW s, NEW t, IsText(s), IsText(t), Len(s) = Len(t), \A i \in 1 .. Len(s) : s[i] = t[i]
  PROVE  s = t
  <1>1. s \in Seq(ToSet(s)) /\ t \in Seq(ToSet(t)) BY DEF IsText
  <1> QED BY <1>1, SameSeq

\* A whole image of these sections.
Good(f, s) ==
  \E h : IsText(h) /\ Len(h) = HeaderSize /\ Describes(h, s) /\ f = h \o Concat(s)

LEMMA LaidOrdered ==
  ASSUME NEW s, IsSections(s), NEW P, Laid(s, P), NEW i \in 0 .. Len(s)
  PROVE  P[i] \in Nat /\ P[i] <= P[Len(s)]
  <1>0. Len(s) \in Nat /\ \A j \in 1 .. Len(s) : Len(s[j].data) \in Nat BY SectionsAre
  <1>1. P \in [0 .. Len(s) -> Nat] BY DEF Laid
  <1>2. ASSUME NEW j \in 1 .. Len(s) PROVE P[j - 1] <= P[j]
    <2>1. P[j] = P[j - 1] + Len(s[j].data) BY DEF Laid
    <2>2. j - 1 \in 0 .. Len(s) BY <1>0
    <2>3. P[j - 1] \in Nat /\ Len(s[j].data) \in Nat BY <1>0, <1>1, <2>2
    <2> QED BY <2>1, <2>3
  <1>3. \A b \in 0 .. Len(s) : \A a \in 0 .. b : P[a] <= P[b] BY <1>0, <1>1, <1>2, PlacesOrdered
  <1>4. Len(s) \in 0 .. Len(s) /\ i \in 0 .. Len(s) BY <1>0
  <1> QED BY <1>1, <1>3, <1>4

\* The reader finds in a whole image the sections it was made from.
LEMMA ParseGood ==
  ASSUME NEW f, NEW s, IsSections(s), Good(f, s), Len(s) <= MaxImages, ~ Hangs(f)
  PROVE  Parse(f) = s
  <1>1. PICK h : IsText(h) /\ Len(h) = HeaderSize /\ Describes(h, s) /\ f = h \o Concat(s) BY DEF Good
  <1>2. PICK P : Laid(s, P) BY ConcatLaid
  <1>3. /\ Len(s) \in Nat /\ HeaderSize \in Nat /\ MaxImages \in Nat
        /\ \A i \in 1 .. Len(s) : /\ s[i] = [name |-> s[i].name, data |-> s[i].data]
                                  /\ IsText(s[i].data) /\ Len(s[i].data) \in Nat
    BY SectionsAre, SizesAssumption
  <1>4. /\ IsText(f) /\ Len(f) = HeaderSize + P[Len(s)] /\ P[Len(s)] \in Nat
        /\ \A i \in 1 .. HeaderSize : f[i] = h[i]
        /\ \A j \in 1 .. P[Len(s)] : f[HeaderSize + j] = Concat(s)[j]
    <2>1. IsText(Concat(s)) /\ Len(Concat(s)) = P[Len(s)] BY <1>2, ConcatLaid DEF Laid
    <2>2. Len(s) \in 0 .. Len(s) BY <1>3
    <2>3. P[Len(s)] \in Nat BY <1>2, <2>2 DEF Laid
    <2>4. Joined(f, h, Concat(s)) BY <1>1, <2>1, CatText
    <2> QED BY <1>1, <2>1, <2>3, <2>4 DEF Joined
  <1>5. Len(f) >= HeaderSize BY <1>3, <1>4
  <1>6. HeaderText(f) = h
    <2>1. /\ IsText(HeaderText(f)) /\ Len(HeaderText(f)) = HeaderSize
          /\ \A i \in 1 .. HeaderSize : HeaderText(f)[i] = f[i]
      BY <1>4, <1>5, HeaderTextIs
    <2> QED BY <1>1, <1>4, <2>1, SameText
  <1> DEFINE p == Described(f)
             n == Cardinality(FitSet(f, p))
             bs == BsSize(f)
  <1>7. /\ Utf8(h) /\ PacketOk(h, s) /\ Len(Parts(h)) = Len(s) /\ bs = Field(h, "bs_size", BlockSize)
        /\ \A i \in 1 .. Len(s) :
             /\ Field(Parts(h)[i], "img_name", <<>>) = s[i].name
             /\ Field(Parts(h)[i], "img_size", 0) = Len(s[i].data)
             /\ Stuck(Parts(h)[i], Field(h, "bs_size", BlockSize))
                  \/ SectionOk(Parts(h)[i], s[i].data, Field(h, "bs_size", BlockSize))
    BY <1>1, <1>6, SectionsAre DEF Describes, BsSize
  <1>8. IsText(p) /\ Len(p) = Len(s) /\ \A i \in 1 .. Len(s) : p[i] = Parts(h)[i]
    <2>1. /\ IsText(p) /\ Len(p) = Min({MaxImages, Len(Parts(h))})
          /\ \A i \in 1 .. Len(p) : p[i] = Parts(h)[i]
      BY <1>4, <1>5, <1>6, DescribedIs
    <2>2. Min({MaxImages, Len(s)}) = Len(s) BY <1>3, MinTwo
    <2> QED BY <1>7, <2>1, <2>2
  <1>9. \A i \in 1 .. Len(s) :
          /\ Offset(p, i + 1) = HeaderSize + P[i]
          /\ SectionAt(f, p, i) =
               [name |-> s[i].name, data |-> CellsAt(f, P, i)]
    <2>1. Names(HeaderText(f), s) BY <1>6, <1>7 DEF Names
    <2> QED BY <1>2, <1>4, <1>5, <1>8, <2>1, FoundIs
  <1> HIDE DEF p, bs
  <1>10. n = Len(s) /\ \A i \in 1 .. Len(s) : Fits(f, p, i)
    <2>1. ASSUME NEW i \in 1 .. Len(s) PROVE Offset(p, i + 1) <= Len(f)
      <3>1. i \in 0 .. Len(s) BY <1>3
      <3>2. P[i] \in Nat /\ P[i] <= P[Len(s)] BY <1>2, <3>1, LaidOrdered
      <3> QED BY <1>3, <1>4, <1>9, <3>2
    <2>2. PICK S : p \in Seq(S) BY <1>8 DEF IsText
    <2>3. n \in 0 .. Len(s) /\ \A i \in 1 .. Len(s) : i <= n <=> Offset(p, i + 1) <= Len(f)
      BY <1>4, <1>8, <2>2, FitsPrefix
    <2>4. n = Len(s)
      <3> HIDE DEF n
      <3>1. CASE Len(s) = 0 BY <2>3, <3>1
      <3>2. CASE Len(s) # 0
        <4>1. Len(s) \in 1 .. Len(s) BY <1>3, <3>2
        <4>2. Len(s) <= n BY <2>1, <2>3, <4>1
        <4> QED BY <1>3, <2>3, <4>2
      <3> QED BY <3>1, <3>2
    <2> QED BY <2>1, <2>4 DEF Fits
  <1>11. ASSUME NEW i \in 1 .. Len(s) PROVE SectionAt(f, p, i) = s[i]
    <2> DEFINE d == CellsAt(f, P, i)
    <2>1. HeaderSize + P[i] <= Len(f)
      <3>1. i \in 0 .. Len(s) BY <1>3
      <3>2. P[i] \in Nat /\ P[i] <= P[Len(s)] BY <1>2, <3>1, LaidOrdered
      <3> QED BY <1>3, <1>4, <3>2
    <2>2. /\ IsText(d) /\ Len(d) = Len(s[i].data)
          /\ \A j \in 1 .. Len(s[i].data) : d[j] = f[HeaderSize + P[i - 1] + j]
      BY <1>2, <1>4, <2>1, DataAt
    <2>3. ASSUME NEW j \in 1 .. Len(s[i].data) PROVE f[HeaderSize + P[i - 1] + j] = s[i].data[j]
      <3>1. P[i] = P[i - 1] + Len(s[i].data) /\ Concat(s)[P[i - 1] + j] = s[i].data[j]
        BY <1>2 DEF Laid
      <3>2. i - 1 \in 0 .. Len(s) /\ i \in 0 .. Len(s) BY <1>3
      <3>3. P[i - 1] \in Nat /\ P[i] <= P[Len(s)] BY <1>2, <3>2, LaidOrdered
      <3>4. Len(s[i].data) \in Nat BY <1>3
      <3>5. PICK x \in Nat : x = P[i - 1] BY <3>3
      <3>6. x + j \in 1 .. P[Len(s)] /\ HeaderSize + x + j = HeaderSize + (x + j)
        <4>1. PICK l \in Nat, m \in Nat : l = Len(s[i].data) /\ m = P[Len(s)] BY <1>4, <3>4
        <4>2. x + l <= m /\ j \in 1 .. l BY <3>1, <3>3, <3>5, <4>1
        <4>3. x + j \in 1 .. m /\ HeaderSize + x + j = HeaderSize + (x + j) BY <1>3, <4>2
        <4> QED BY <4>1, <4>3
      <3>7. f[HeaderSize + (x + j)] = Concat(s)[x + j] BY <1>4, <3>6
      <3> QED BY <3>1, <3>5, <3>6, <3>7
    <2> HIDE DEF d
    <2>4. d = s[i].data
      <3>1. PICK t : t = s[i].data OBVIOUS
      <3>2. IsText(d) /\ IsText(t) /\ Len(d) = Len(t) /\ \A j \in 1 .. Len(d) : d[j] = t[j]
        BY <1>3, <2>2, <2>3, <3>1
      <3> QED BY <3>1, <3>2, SameText
    <2>5. SectionAt(f, p, i) = [name |-> s[i].name, data |-> d] BY <1>9 DEF d
    <2> QED BY <1>3, <2>4, <2>5
  <1>12. Found(f, p) = s
    <2>1. Found(f, p) = [i \in 1 .. Len(s) |-> SectionAt(f, p, i)] BY <1>10 DEF Found
    <2>2. Found(f, p) = [i \in 1 .. Len(s) |-> s[i]] BY <1>11, <2>1
    <2>3. s = [i \in 1 .. Len(s) |-> s[i]]
      <3>1. s \in Seq(ToSet(s)) BY DEF IsSections, IsText
      <3> QED BY <3>1
    <2> QED BY <2>2, <2>3
  <1>13. ASSUME NEW i \in 1 .. Len(s) PROVE SectionOk(p[i], s[i].data, bs)
    <2>1. ~ Stuck(p[i], bs)
      <3>1. i \in DOMAIN p BY <1>8, TextLen
      <3>2. Fits(f, p, i) /\ Utf8(HeaderText(f)) BY <1>6, <1>7, <1>10
      <3> QED BY <3>1, <3>2 DEF Hangs, p, bs
    <2> QED BY <1>7, <1>8, <2>1
  <1>14. Accepts(f, p)
    BY <1>6, <1>7, <1>8, <1>10, <1>12, <1>13 DEF Accepts, bs
  <1> QED BY <1>12, <1>14, ParseIs DEF p

-----------------------------------------------------------------------------
(* The header of mini_pack *)

\* The text begins with the lines of build_header for two sections.
Lines(text, s) ==
  /\ text[1] = Line("img_name", s[1].name) /\ text[2] = Line("img_size", Len(s[1].data))
  /\ text[3] = Line("img_md5", s[1].data) /\ text[4] = Line("img_crc", XorCrc(s[1].data, BlockSize))
  /\ text[5] = Blank
  /\ text[6] = Line("img_name", s[2].name) /\ text[7] = Line("img_size", Len(s[2].data))
  /\ text[8] = Line("img_md5", s[2].data) /\ text[9] = Line("img_crc", XorCrc(s[2].data, BlockSize))
  /\ text[10] = Blank
  /\ text[11] = Line("bs_size", BlockSize) /\ text[12] = Line("ota_img_packet_md5", Concat(s))

\* What mini_pack packs.
IsPack(s) == \E a, b \in Contents : a # <<>> /\ b # <<>> /\ s = ToPack(a, b)

LEMMA PackIs ==
  ASSUME NEW s, IsPack(s)
  PROVE  /\ IsSections(s) /\ Len(s) = 2 /\ DOMAIN s = 1 .. 2
         /\ s[1].data # <<>> /\ s[2].data # <<>>
  <1>1. PICK a \in Contents, b \in Contents : a # <<>> /\ b # <<>> /\ s = ToPack(a, b) BY DEF IsPack
  <1> DEFINE x == [name |-> KernelName, data |-> a]
             y == [name |-> RootfsName, data |-> b]
  <1>2. s = <<x, y>> BY <1>1 DEF ToPack
  <1>3. x.data = a /\ y.data = b /\ x = [name |-> x.name, data |-> x.data] /\ y = [name |-> y.name, data |-> y.data]
    OBVIOUS
  <1>4. IsText(a) /\ IsText(b) BY ContentsAssumption
  <1> HIDE DEF x, y
  <1>5. s \in Seq({x, y}) /\ Len(s) = 2 /\ DOMAIN s = 1 .. 2 /\ s[1] = x /\ s[2] = y BY <1>2
  <1>6. IsText(s) BY <1>5, SeqText
  <1>7. \A i \in 1 .. 2 : i = 1 \/ i = 2 OBVIOUS
  <1>8. \A i \in DOMAIN s : s[i] = [name |-> s[i].name, data |-> s[i].data] /\ IsText(s[i].data)
    BY <1>3, <1>4, <1>5, <1>7
  <1> QED BY <1>1, <1>3, <1>5, <1>6, <1>8 DEF IsSections

LEMMA BuildHeaderIs ==
  ASSUME NEW s, IsPack(s)
  PROVE  IsText(BuildHeader(s)) /\ Len(BuildHeader(s)) = 12 /\ Lines(BuildHeader(s), s)
  <1>0. Len(s) = 2 /\ DOMAIN s = 1 .. 2 BY PackIs
  <1> DEFINE L == [i \in DOMAIN s |-> SectionLines(s[i], BlockSize)]
             last == << Line("bs_size", BlockSize), Line("ota_img_packet_md5", Concat(s)) >>
             c == FlattenSeq(L)
             S == ToSet(L[1]) \cup ToSet(L[2])
  <1>1. \A i \in 1 .. 2 : L[i] = SectionLines(s[i], BlockSize) BY <1>0
  <1>2. \A z, bs : /\ SectionLines(z, bs) \in Seq(ToSet(SectionLines(z, bs))) /\ Len(SectionLines(z, bs)) = 5
                   /\ SectionLines(z, bs)[1] = Line("img_name", z.name)
                   /\ SectionLines(z, bs)[2] = Line("img_size", Len(z.data))
                   /\ SectionLines(z, bs)[3] = Line("img_md5", z.data)
                   /\ SectionLines(z, bs)[4] = Line("img_crc", XorCrc(z.data, bs))
                   /\ SectionLines(z, bs)[5] = Blank
    <2> SUFFICES ASSUME NEW z, NEW bs
                 PROVE  /\ SectionLines(z, bs) \in Seq(ToSet(SectionLines(z, bs))) /\ Len(SectionLines(z, bs)) = 5
                        /\ SectionLines(z, bs)[1] = Line("img_name", z.name)
                        /\ SectionLines(z, bs)[2] = Line("img_size", Len(z.data))
                        /\ SectionLines(z, bs)[3] = Line("img_md5", z.data)
                        /\ SectionLines(z, bs)[4] = Line("img_crc", XorCrc(z.data, bs))
                        /\ SectionLines(z, bs)[5] = Blank
      OBVIOUS
    <2>1. PICK l1, l2, l3, l4, l5 :
            /\ l1 = Line("img_name", z.name) /\ l2 = Line("img_size", Len(z.data))
            /\ l3 = Line("img_md5", z.data) /\ l4 = Line("img_crc", XorCrc(z.data, bs)) /\ l5 = Blank
      OBVIOUS
    <2>2. SectionLines(z, bs) = <<l1, l2, l3, l4, l5>> BY <2>1 DEF SectionLines
    <2>3. <<l1, l2, l3, l4, l5>> \in Seq({l1, l2, l3, l4, l5}) OBVIOUS
    <2>4. IsText(SectionLines(z, bs)) BY <2>2, <2>3, SeqText
    <2> QED BY <2>1, <2>2, <2>4 DEF IsText
  <1>3. L[1] \in Seq(S) /\ L[2] \in Seq(S) /\ Len(L[1]) = 5 /\ Len(L[2]) = 5
    <2>1. ToSet(L[1]) \subseteq S /\ ToSet(L[2]) \subseteq S OBVIOUS
    <2>2. L[1] \in Seq(ToSet(L[1])) /\ L[2] \in Seq(ToSet(L[2])) /\ Len(L[1]) = 5 /\ Len(L[2]) = 5
      BY <1>1, <1>2
    <2> HIDE DEF S, L
    <2> QED BY <2>1, <2>2, Widen
  <1>4. L \in Seq(Seq(S)) /\ Len(L) = 2
    <2>1. L = [i \in 1 .. 2 |-> L[i]] BY <1>0
    <2>2. \A i \in 1 .. 2 : i = 1 \/ i = 2 OBVIOUS
    <2> HIDE DEF S, L
    <2> QED BY <1>3, <2>1, <2>2
  <1> HIDE DEF S
  <1>5. PICK P : c \in Seq(S) /\ Pieces(c, L, 2, P)
    <2> HIDE DEF L
    <2>1. 2 \in Nat /\ 2 = Len(L) /\ L \in Seq(Seq(S)) BY <1>4
    <2>2. FlattenSeq(L) \in Seq(S) /\ \E P : Pieces(FlattenSeq(L), L, 2, P) BY <2>1, Flat
    <2> QED BY <2>2, Zenon
  <1>6. P[0] = 0 /\ P[1] = 5 /\ P[2] = 10 /\ Len(c) = 10
    <2> HIDE DEF L, c
    <2>1. /\ P[0] = 0 /\ Len(c) = P[2]
          /\ \A i \in 1 .. 2 : P[i] = P[i - 1] + Len(L[i])
      BY <1>5 DEF Pieces
    <2>2. P[1] = P[0] + Len(L[1]) /\ P[2] = P[1] + Len(L[2])
      <3>1. 1 \in 1 .. 2 /\ 2 \in 1 .. 2 /\ 1 - 1 = 0 /\ 2 - 1 = 1 OBVIOUS
      <3> QED BY <2>1, <3>1
    <2> QED BY <1>3, <2>1, <2>2
  <1>7. \A j \in 1 .. 5 : c[j] = L[1][j] /\ c[5 + j] = L[2][j]
    <2> HIDE DEF L, c
    <2>1. \A a \in 1 .. 2 : \A j \in 1 .. Len(L[a]) : c[P[a - 1] + j] = L[a][j] BY <1>5 DEF Pieces
    <2>2. 1 \in 1 .. 2 /\ 2 \in 1 .. 2 /\ 1 - 1 = 0 /\ 2 - 1 = 1 OBVIOUS
    <2>3. \A j \in 1 .. 5 : c[0 + j] = L[1][j] /\ c[5 + j] = L[2][j]
      <3>1. \A j \in 1 .. Len(L[1]) : c[P[0] + j] = L[1][j]
        <4>1. \A j \in 1 .. Len(L[1]) : c[P[1 - 1] + j] = L[1][j] BY <2>1, <2>2, Zenon
        <4> QED BY <2>2, <4>1, Zenon
      <3>2. \A j \in 1 .. Len(L[2]) : c[P[1] + j] = L[2][j]
        <4>1. \A j \in 1 .. Len(L[2]) : c[P[2 - 1] + j] = L[2][j] BY <2>1, <2>2, Zenon
        <4> QED BY <2>2, <4>1, Zenon
      <3> QED BY <1>3, <1>6, <3>1, <3>2, Zenon
    <2>4. \A j \in 1 .. 5 : 0 + j = j OBVIOUS
    <2> QED BY <2>3, <2>4
  <1>8. IsText(last) /\ Len(last) = 2 /\ last[1] = Line("bs_size", BlockSize)
        /\ last[2] = Line("ota_img_packet_md5", Concat(s))
    <2>1. PICK x, y : x = Line("bs_size", BlockSize) /\ y = Line("ota_img_packet_md5", Concat(s)) OBVIOUS
    <2>2. last = <<x, y>> BY <2>1
    <2>3. <<x, y>> \in Seq({x, y}) OBVIOUS
    <2>4. IsText(last) BY <2>2, <2>3, SeqText
    <2> QED BY <2>1, <2>2, <2>4
  <1>9. BuildHeader(s) = c \o last BY Zenon DEF BuildHeader
  <1>10. IsText(c) BY <1>5, SeqText
  <1> HIDE DEF c, last
  <1>11. Joined(BuildHeader(s), c, last) BY <1>8, <1>9, <1>10, CatText
  <1>12. /\ IsText(BuildHeader(s)) /\ Len(BuildHeader(s)) = 12
         /\ \A i \in 1 .. 10 : BuildHeader(s)[i] = c[i]
         /\ BuildHeader(s)[11] = last[1] /\ BuildHeader(s)[12] = last[2]
    <2>1. /\ IsText(BuildHeader(s)) /\ Len(BuildHeader(s)) = 10 + 2
          /\ \A i \in 1 .. 10 : BuildHeader(s)[i] = c[i]
          /\ \A j \in 1 .. 2 : BuildHeader(s)[10 + j] = last[j]
      BY <1>6, <1>8, <1>11 DEF Joined
    <2>2. 1 \in 1 .. 2 /\ 2 \in 1 .. 2 /\ 10 + 1 = 11 /\ 10 + 2 = 12 OBVIOUS
    <2> QED BY <2>1, <2>2
  <1>13. \A j \in 1 .. 5 : BuildHeader(s)[j] = SectionLines(s[1], BlockSize)[j]
                        /\ BuildHeader(s)[5 + j] = SectionLines(s[2], BlockSize)[j]
    <2>1. \A j \in 1 .. 5 : j \in 1 .. 10 /\ 5 + j \in 1 .. 10 OBVIOUS
    <2>2. L[1] = SectionLines(s[1], BlockSize) /\ L[2] = SectionLines(s[2], BlockSize) BY <1>1
    <2> HIDE DEF L
    <2> QED BY <1>7, <1>12, <2>1, <2>2
  <1> HIDE DEF L
  <1>14. /\ 1 \in 1 .. 5 /\ 2 \in 1 .. 5 /\ 3 \in 1 .. 5 /\ 4 \in 1 .. 5 /\ 5 \in 1 .. 5
         /\ 5 + 1 = 6 /\ 5 + 2 = 7 /\ 5 + 3 = 8 /\ 5 + 4 = 9 /\ 5 + 5 = 10
    OBVIOUS
  <1>15. \A j \in 1 .. 5 : BuildHeader(s)[j] = SectionLines(s[1], BlockSize)[j] BY <1>13
  <1>16. \A j \in 1 .. 5 : BuildHeader(s)[5 + j] = SectionLines(s[2], BlockSize)[j] BY <1>13
  <1>17. /\ BuildHeader(s)[1] = Line("img_name", s[1].name)
         /\ BuildHeader(s)[2] = Line("img_size", Len(s[1].data))
         /\ BuildHeader(s)[3] = Line("img_md5", s[1].data)
         /\ BuildHeader(s)[4] = Line("img_crc", XorCrc(s[1].data, BlockSize))
         /\ BuildHeader(s)[5] = Blank
    <2> DEFINE l == SectionLines(s[1], BlockSize)
    <2>1. /\ l[1] = Line("img_name", s[1].name) /\ l[2] = Line("img_size", Len(s[1].data))
          /\ l[3] = Line("img_md5", s[1].data) /\ l[4] = Line("img_crc", XorCrc(s[1].data, BlockSize))
          /\ l[5] = Blank
      BY <1>2, Zenon
    <2> HIDE DEF l
    <2> QED BY <1>14, <1>15, <2>1, Zenon DEF l
  <1>18. /\ BuildHeader(s)[5 + 1] = Line("img_name", s[2].name)
         /\ BuildHeader(s)[5 + 2] = Line("img_size", Len(s[2].data))
         /\ BuildHeader(s)[5 + 3] = Line("img_md5", s[2].data)
         /\ BuildHeader(s)[5 + 4] = Line("img_crc", XorCrc(s[2].data, BlockSize))
         /\ BuildHeader(s)[5 + 5] = Blank
    <2> DEFINE l == SectionLines(s[2], BlockSize)
    <2>1. /\ l[1] = Line("img_name", s[2].name) /\ l[2] = Line("img_size", Len(s[2].data))
          /\ l[3] = Line("img_md5", s[2].data) /\ l[4] = Line("img_crc", XorCrc(s[2].data, BlockSize))
          /\ l[5] = Blank
      BY <1>2, Zenon
    <2> HIDE DEF l
    <2> QED BY <1>14, <1>16, <2>1, Zenon DEF l
  <1>19. /\ BuildHeader(s)[6] = Line("img_name", s[2].name)
         /\ BuildHeader(s)[7] = Line("img_size", Len(s[2].data))
         /\ BuildHeader(s)[8] = Line("img_md5", s[2].data)
         /\ BuildHeader(s)[9] = Line("img_crc", XorCrc(s[2].data, BlockSize))
         /\ BuildHeader(s)[10] = Blank
    BY <1>14, <1>18, Zenon
  <1>20. Lines(BuildHeader(s), s) BY <1>8, <1>12, <1>17, <1>19, Zenon DEF Lines
  <1> QED BY <1>12, <1>20

\* A part with the four lines of section z.
PartOf(q, z) ==
  /\ Field(q, "img_name", <<>>) = z.name /\ Field(q, "img_size", 0) = Len(z.data)
  /\ Has(q, "img_md5") /\ Field(q, "img_md5", <<>>) = z.data
  /\ Field(q, "img_crc", {}) = XorCrc(z.data, BlockSize)

LEMMA FourLines ==
  ASSUME NEW z, NEW S, NEW q \in Seq(S), Len(q) = 4,
         q[1] = Line("img_name", z.name), q[2] = Line("img_size", Len(z.data)),
         q[3] = Line("img_md5", z.data), q[4] = Line("img_crc", XorCrc(z.data, BlockSize))
  PROVE  PartOf(q, z) /\ Has(q, "img_name")
  <1>0. \A i \in 1 .. 4 : i \in {1, 2, 3, 4} OBVIOUS
  <1>1. PICK a, b, c, d : a = z.name /\ b = Len(z.data) /\ c = z.data /\ d = XorCrc(z.data, BlockSize) OBVIOUS
  <1>2. /\ q[1].k = "img_name" /\ q[2].k = "img_size" /\ q[3].k = "img_md5" /\ q[4].k = "img_crc"
        /\ q[1].v = a /\ q[2].v = b /\ q[3].v = c /\ q[4].v = d
    BY <1>1 DEF Line
  <1>3. Field(q, "img_name", <<>>) = a
    <2>1. PICK e : e = 1 OBVIOUS
    <2>2. LastWith(q, "img_name", e) BY <1>0, <1>2, <2>1 DEF LastWith
    <2>3. Field(q, "img_name", <<>>) = q[e].v BY <2>2, FieldLast
    <2> QED BY <1>2, <2>1, <2>3
  <1>4. Field(q, "img_size", 0) = b
    <2>1. PICK e : e = 2 OBVIOUS
    <2>2. LastWith(q, "img_size", e) BY <1>0, <1>2, <2>1 DEF LastWith
    <2>3. Field(q, "img_size", 0) = q[e].v BY <2>2, FieldLast
    <2> QED BY <1>2, <2>1, <2>3
  <1>5. Field(q, "img_md5", <<>>) = c
    <2>1. PICK e : e = 3 OBVIOUS
    <2>2. LastWith(q, "img_md5", e) BY <1>0, <1>2, <2>1 DEF LastWith
    <2>3. Field(q, "img_md5", <<>>) = q[e].v BY <2>2, FieldLast
    <2> QED BY <1>2, <2>1, <2>3
  <1>6. Field(q, "img_crc", {}) = d
    <2>1. PICK e : e = 4 OBVIOUS
    <2>2. LastWith(q, "img_crc", e) BY <1>0, <1>2, <2>1 DEF LastWith
    <2>3. Field(q, "img_crc", {}) = q[e].v BY <2>2, FieldLast
    <2> QED BY <1>2, <2>1, <2>3
  <1>7. DOMAIN q = 1 .. 4 /\ 1 \in 1 .. 4 /\ 3 \in 1 .. 4 OBVIOUS
  <1>8. Has(q, "img_name") /\ Has(q, "img_md5") BY <1>2, <1>7, Zenon DEF Has
  <1> QED BY <1>1, <1>3, <1>4, <1>5, <1>6, <1>8 DEF PartOf

\* The keys of the lines.
LEMMA LineKeys ==
  ASSUME NEW text, NEW s, Lines(text, s)
  PROVE  /\ text[1].k = "img_name" /\ text[2].k = "img_size" /\ text[3].k = "img_md5" /\ text[4].k = "img_crc"
         /\ text[5].k = "blank"
         /\ text[6].k = "img_name" /\ text[7].k = "img_size" /\ text[8].k = "img_md5" /\ text[9].k = "img_crc"
         /\ text[10].k = "blank"
         /\ text[11].k = "bs_size" /\ text[12].k = "ota_img_packet_md5"
         /\ text[11].v = BlockSize /\ text[12].v = Concat(s)
  <1>1. \A x, y : Line(x, y).k = x /\ Line(x, y).v = y BY DEF Line
  <1>2. Blank.k = "blank" BY <1>1 DEF Blank
  <1>3. /\ text[1].k = "img_name" /\ text[2].k = "img_size" /\ text[3].k = "img_md5" /\ text[4].k = "img_crc"
    BY DEF Lines, Line
  <1>4. /\ text[6].k = "img_name" /\ text[7].k = "img_size" /\ text[8].k = "img_md5" /\ text[9].k = "img_crc"
    BY DEF Lines, Line
  <1>5. text[5].k = "blank" /\ text[10].k = "blank" BY <1>2, Zenon DEF Lines
  <1>6. /\ text[11].k = "bs_size" /\ text[12].k = "ota_img_packet_md5"
        /\ text[11].v = BlockSize /\ text[12].v = Concat(s)
    BY DEF Lines, Line
  <1> QED BY <1>3, <1>4, <1>5, <1>6

LEMMA TwoStarts == Cardinality({1}) = 1 /\ Cardinality({1, 6}) = 2
  <1>1. Cardinality({1}) = 1 /\ IsFiniteSet({1}) BY FS_Singleton
  <1>2. {1, 6} = {1} \cup {6} /\ 6 \notin {1} OBVIOUS
  <1>3. Cardinality({1} \cup {6}) = Cardinality({1}) + 1 BY <1>1, <1>2, FS_AddElement
  <1> QED BY <1>1, <1>2, <1>3

\* The first two parts of a text that begins with these lines.
LEMMA FirstParts ==
  ASSUME NEW text, IsText(text), Len(text) >= 12, NEW s, Lines(text, s)
  PROVE  /\ Len(Parts(text)) >= 2 /\ 1 \in SectionStarts(text) /\ 6 \in SectionStarts(text)
         /\ PartOf(Parts(text)[1], s[1]) /\ PartOf(Parts(text)[2], s[2])
  <1>1. PICK S : text \in Seq(S) BY DEF IsText
  <1>2. Len(text) \in Nat /\ DOMAIN text = 1 .. Len(text) BY <1>1
  <1>3. PartAt(text, 1) = SubSeq(text, 1, 4)
    <2>1. 1 \in 1 .. Len(text) + 1 /\ 5 \in 1 .. Len(text) + 1 BY <1>2
    <2>2. \A i \in 1 .. 5 - 1 : i \in {1, 2, 3, 4} OBVIOUS
    <2>3. (\A i \in 1 .. 5 - 1 : text[i].k # "blank") /\ text[5].k = "blank" BY <2>2, LineKeys
    <2>4. PartAt(text, 1) = SubSeq(text, 1, 5 - 1) BY <1>1, <2>1, <2>3, PartAtIs
    <2>5. 5 - 1 = 4 OBVIOUS
    <2> QED BY <2>4, <2>5
  <1>4. PartAt(text, 6) = SubSeq(text, 6, 9)
    <2>1. 6 \in 1 .. Len(text) + 1 /\ 10 \in 6 .. Len(text) + 1 BY <1>2
    <2>2. \A i \in 6 .. 10 - 1 : i \in {6, 7, 8, 9} OBVIOUS
    <2>3. (\A i \in 6 .. 10 - 1 : text[i].k # "blank") /\ text[10].k = "blank" BY <2>2, LineKeys
    <2>4. PartAt(text, 6) = SubSeq(text, 6, 10 - 1) BY <1>1, <2>1, <2>3, PartAtIs
    <2>5. 10 - 1 = 9 OBVIOUS
    <2> QED BY <2>4, <2>5
  <1> DEFINE q == SubSeq(text, 1, 4)
             r == SubSeq(text, 6, 9)
  <1>5. q \in Seq(S) /\ Len(q) = 4 /\ q[1] = text[1] /\ q[2] = text[2] /\ q[3] = text[3] /\ q[4] = text[4]
    BY <1>1, <1>2
  <1>6. r \in Seq(S) /\ Len(r) = 4 /\ r[1] = text[6] /\ r[2] = text[7] /\ r[3] = text[8] /\ r[4] = text[9]
    BY <1>1, <1>2
  <1> HIDE DEF q, r
  <1>7. PartOf(q, s[1]) /\ Has(q, "img_name") BY <1>5, FourLines DEF Lines
  <1>8. PartOf(r, s[2]) /\ Has(r, "img_name") BY <1>6, FourLines DEF Lines
  <1> DEFINE at == SectionStarts(text)
  <1>9. 1 \in PartStarts(text) /\ 6 \in PartStarts(text)
    <2>1. 5 \in {j \in DOMAIN text : text[j].k = "blank"} BY <1>2, LineKeys
    <2>2. 5 + 1 = 6 OBVIOUS
    <2> QED BY <2>1, <2>2, Zenon DEF PartStarts
  <1>10. 1 \in at /\ 6 \in at BY <1>3, <1>4, <1>7, <1>8, <1>9 DEF SectionStarts, q, r
  <1>11. ASSUME NEW b \in at, b <= 6 PROVE b = 1 \/ b = 6
    <2>1. b = 1 \/ \E j \in DOMAIN text : b = j + 1 /\ text[j].k = "blank"
      BY Zenon DEF SectionStarts, PartStarts
    <2>2. ASSUME NEW j \in DOMAIN text, b = j + 1, text[j].k = "blank" PROVE b = 6
      <3>1. j \in 1 .. 5 BY <1>2, <1>11, <2>2
      <3>2. j \in {1, 2, 3, 4, 5} BY <3>1
      <3>3. j = 5 BY <2>2, <3>2, LineKeys
      <3> QED BY <2>2, <3>3
    <2> QED BY <2>1, <2>2
  <1>12. at \in SUBSET Nat BY <1>1, StartsFinite
  <1> HIDE DEF at
  <1>13. {b \in at : b <= 1} = {1} /\ {b \in at : b <= 6} = {1, 6}
    <2>1. \A b \in at : b <= 1 => b <= 6 /\ b # 6 BY <1>12
    <2>2. 1 <= 1 /\ 1 <= 6 /\ 6 <= 6 OBVIOUS
    <2> QED BY <1>10, <1>11, <2>1, <2>2
  <1>14. Cardinality({1}) = 1 /\ Cardinality({1, 6}) = 2 BY TwoStarts
  <1>15. 1 \in 1 .. Len(Parts(text)) /\ Parts(text)[1] = q
    BY <1>1, <1>3, <1>10, <1>13, <1>14, PartsAt DEF at, q
  <1>16. 2 \in 1 .. Len(Parts(text)) /\ Parts(text)[2] = r
    BY <1>1, <1>4, <1>10, <1>13, <1>14, PartsAt DEF at, r
  <1>17. Len(Parts(text)) >= 2
    <2>1. Len(Parts(text)) \in Nat BY <1>1, PartsText, TextLen
    <2> QED BY <1>16, <2>1
  <1> QED BY <1>7, <1>8, <1>10, <1>15, <1>16, <1>17 DEF at

\* The end of the header is a hole.
Holes(text) == \A i \in 13 .. HeaderSize : text[i] = NUL

\* A header that begins with these lines and has nothing after them describes the sections.
LEMMA LinesDescribe ==
  ASSUME NEW text, IsText(text), Len(text) = HeaderSize, NEW s, IsPack(s), Lines(text, s), Holes(text)
  PROVE  Describes(text, s)
  <1>0. HeaderSize \in Nat /\ HeaderSize >= 12 BY SizesAssumption, RoomAssumption
  <1>1. PICK S : text \in Seq(S) BY DEF IsText
  <1>2. DOMAIN text = 1 .. HeaderSize BY <1>1
  <1>3. ASSUME NEW i \in 1 .. HeaderSize PROVE i \in 1 .. 12 \/ i \in 13 .. HeaderSize BY <1>0
  <1>4. \A i \in 1 .. 12 : i \in {1, 2, 3, 4, 5, 6, 7, 8, 9, 10, 11, 12} OBVIOUS
  <1>5. \A i \in 13 .. HeaderSize : text[i].k = NUL.k BY DEF Holes
  <1>6. ASSUME NEW i \in 11 .. HeaderSize PROVE text[i].k \notin {"blank", "img_name"}
    <2>1. i = 11 \/ i = 12 \/ i \in 13 .. HeaderSize BY <1>0
    <2> QED BY <1>5, <2>1, LineKeys, NulAssumption
  <1>7. ASSUME NEW i \in 1 .. HeaderSize PROVE text[i].k # "binary"
    <2>1. i \in {1, 2, 3, 4, 5, 6, 7, 8, 9, 10, 11, 12} \/ i \in 13 .. HeaderSize BY <1>3, <1>4
    <2> QED BY <1>5, <2>1, LineKeys, NulAssumption
  <1>8. Utf8(text) BY <1>2, <1>7 DEF Utf8
  <1>9. /\ Field(text, "bs_size", BlockSize) = BlockSize
        /\ Field(text, "ota_img_packet_md5", <<>>) = Concat(s)
    <2>1. 11 \in 1 .. Len(text) /\ 12 \in 1 .. Len(text) BY <1>0
    <2>2. \A i \in 11 + 1 .. Len(text) : text[i].k # "bs_size"
      <3>1. \A i \in 11 + 1 .. HeaderSize : i = 12 \/ i \in 13 .. HeaderSize BY <1>0
      <3> QED BY <1>5, <3>1, LineKeys, NulAssumption
    <2>3. \A i \in 12 + 1 .. Len(text) : text[i].k # "ota_img_packet_md5"
      <3>1. \A i \in 12 + 1 .. HeaderSize : i \in 13 .. HeaderSize BY <1>0
      <3> QED BY <1>5, <3>1, NulAssumption
    <2>4. text[11].k = "bs_size" /\ text[12].k = "ota_img_packet_md5" /\ text[11].v = BlockSize /\ text[12].v = Concat(s)
      BY LineKeys
    <2>5. PICK a, b : a = 11 /\ b = 12 OBVIOUS
    <2>6. LastWith(text, "bs_size", a) /\ LastWith(text, "ota_img_packet_md5", b)
      BY <2>1, <2>2, <2>3, <2>4, <2>5 DEF LastWith
    <2>7. Field(text, "bs_size", BlockSize) = text[a].v BY <1>1, <2>6, FieldLast
    <2>8. Field(text, "ota_img_packet_md5", <<>>) = text[b].v BY <1>1, <2>6, FieldLast
    <2> QED BY <2>4, <2>5, <2>7, <2>8
  <1>10. PacketOk(text, s) BY <1>9 DEF PacketOk
  <1>11. /\ Len(Parts(text)) >= 2 /\ 1 \in SectionStarts(text) /\ 6 \in SectionStarts(text)
         /\ PartOf(Parts(text)[1], s[1]) /\ PartOf(Parts(text)[2], s[2])
    BY <1>0, FirstParts
  <1>12. ASSUME NEW a \in SectionStarts(text) PROVE a = 1 \/ a = 6
    <2>1. /\ a = 1 \/ \E j \in DOMAIN text : a = j + 1 /\ text[j].k = "blank"
          /\ Has(PartAt(text, a), "img_name")
      BY Zenon DEF SectionStarts, PartStarts
    <2>2. ASSUME NEW j \in DOMAIN text, a = j + 1, text[j].k = "blank", a # 6 PROVE FALSE
      <3>1. j \in {1, 2, 3, 4, 5, 6, 7, 8, 9, 10, 11, 12} \/ j \in 13 .. HeaderSize BY <1>2, <1>3, <1>4
      <3>2. j = 5 \/ j = 10 BY <1>5, <2>2, <3>1, LineKeys, NulAssumption
      <3>3. a = 11 BY <2>2, <3>2
      <3>4. PartAt(text, 11) = SubSeq(text, 11, HeaderSize)
        <4>1. 11 \in 1 .. Len(text) + 1 /\ HeaderSize + 1 \in 11 .. Len(text) + 1 /\ HeaderSize + 1 - 1 = HeaderSize
          BY <1>0
        <4>2. \A i \in 11 .. HeaderSize + 1 - 1 : text[i].k # "blank" BY <1>6, <4>1
        <4>3. ~ (HeaderSize + 1 <= Len(text)) BY <1>0
        <4>4. PartAt(text, 11) = SubSeq(text, 11, HeaderSize + 1 - 1) BY <1>1, <4>1, <4>2, <4>3, PartAtIs
        <4> QED BY <4>1, <4>4
      <3>5. /\ SubSeq(text, 11, HeaderSize) \in Seq(S) /\ Len(SubSeq(text, 11, HeaderSize)) = HeaderSize - 11 + 1
            /\ \A i \in 1 .. HeaderSize - 11 + 1 : SubSeq(text, 11, HeaderSize)[i] = text[11 + i - 1]
        <4>1. 11 \in 1 .. Len(text) + 1 /\ HeaderSize \in 11 - 1 .. Len(text) BY <1>0
        <4> QED BY <1>1, <4>1, SubSeqIs
      <3>6. \A i \in 1 .. HeaderSize - 11 + 1 : 11 + i - 1 \in 11 .. HeaderSize BY <1>0
      <3>7. DOMAIN SubSeq(text, 11, HeaderSize) = 1 .. HeaderSize - 11 + 1 BY <3>5
      <3> QED BY <1>6, <2>1, <3>3, <3>4, <3>5, <3>6, <3>7 DEF Has
    <2> QED BY <2>1, <2>2
  <1>13. SectionStarts(text) = {1, 6} BY <1>11, <1>12
  <1>14. Len(Parts(text)) = 2
    <2>4. Cardinality(SectionStarts(text)) = 2 BY <1>13, TwoStarts, Zenon
    <2> QED BY <2>4 DEF Parts
  <1>15. Len(s) = 2 /\ DOMAIN s = 1 .. 2 BY PackIs
  <1>16. ASSUME NEW z, NEW q, PartOf(q, z) PROVE SectionOk(q, z.data, BlockSize)
    BY <1>16 DEF PartOf, SectionOk
  <1>17. ASSUME NEW i \in DOMAIN s PROVE PartOf(Parts(text)[i], s[i])
    <2>1. i = 1 \/ i = 2 BY <1>15
    <2> QED BY <1>11, <2>1
  <1>18. \A i \in DOMAIN s : /\ Field(Parts(text)[i], "img_name", <<>>) = s[i].name
                             /\ Field(Parts(text)[i], "img_size", 0) = Len(s[i].data)
                             /\ SectionOk(Parts(text)[i], s[i].data, BlockSize)
    <2> SUFFICES ASSUME NEW i \in DOMAIN s
                 PROVE  /\ Field(Parts(text)[i], "img_name", <<>>) = s[i].name
                        /\ Field(Parts(text)[i], "img_size", 0) = Len(s[i].data)
                        /\ SectionOk(Parts(text)[i], s[i].data, BlockSize)
      OBVIOUS
    <2>1. PICK q, z : q = Parts(text)[i] /\ z = s[i] OBVIOUS
    <2>2. PartOf(q, z) BY <1>17, <2>1
    <2>3. SectionOk(q, z.data, BlockSize) BY <1>16, <2>2
    <2> QED BY <2>1, <2>2, <2>3, Zenon DEF PartOf
  <1> QED BY <1>8, <1>9, <1>10, <1>14, <1>15, <1>18, Zenon DEF Describes

-----------------------------------------------------------------------------
(* Images as they are packed *)

LEMMA ImageIs ==
  ASSUME NEW h, IsText(h), NEW s, IsSections(s)
  PROVE  /\ IsText(Image(h, s)) /\ OutputSize(s) \in Nat /\ OutputSize(s) >= HeaderSize
         /\ Len(Image(h, s)) = OutputSize(s)
         /\ \A i \in 1 .. HeaderSize : Image(h, s)[i] = IF i <= Len(h) THEN h[i] ELSE NUL
  <1> DEFINE r == Resize(h, HeaderSize)
             c == Concat(s)
  <1>0. HeaderSize \in Nat BY SizesAssumption
  <1>1. IsText(r) /\ Len(r) = HeaderSize BY <1>0, ResizeIs
  <1>2. \A i \in 1 .. HeaderSize : r[i] = IF i <= Len(h) THEN h[i] ELSE NUL BY DEF Resize
  <1>3. IsText(c) /\ Len(c) \in Nat BY ConcatLaid, TextLen
  <1>4. Image(h, s) = r \o c /\ OutputSize(s) = HeaderSize + Len(c) BY DEF Image, OutputSize
  <1> HIDE DEF r, c
  <1>5. Joined(Image(h, s), r, c) BY <1>1, <1>3, <1>4, CatText
  <1>6. /\ IsText(Image(h, s)) /\ Len(Image(h, s)) = HeaderSize + Len(c)
        /\ \A i \in 1 .. HeaderSize : Image(h, s)[i] = r[i]
    BY <1>1, <1>5 DEF Joined
  <1>7. HeaderSize + Len(c) \in Nat /\ HeaderSize + Len(c) >= HeaderSize BY <1>0, <1>3
  <1> QED BY <1>2, <1>4, <1>6, <1>7

\* What is packed whole is a whole image, and so are the images of other tools.
LEMMA ImageGood ==
  ASSUME NEW h, NEW s, Describes(Resize(h, HeaderSize), s) PROVE Good(Image(h, s), s)
  <1>0. HeaderSize \in Nat BY SizesAssumption
  <1>1. IsText(Resize(h, HeaderSize)) /\ Len(Resize(h, HeaderSize)) = HeaderSize BY <1>0, ResizeIs
  <1> QED BY <1>1 DEF Good, Image

LEMMA PackGood ==
  ASSUME NEW s, IsPack(s)
  PROVE  /\ IsSections(s) /\ Good(Image(BuildHeader(s), s), s)
         /\ Lines(Image(BuildHeader(s), s), s) /\ Holes(Image(BuildHeader(s), s))
  <1> DEFINE h == BuildHeader(s)
             r == Resize(h, HeaderSize)
             f == Image(h, s)
  <1>0. HeaderSize \in Nat /\ HeaderSize >= 12 BY SizesAssumption, RoomAssumption
  <1>1. IsText(h) /\ Len(h) = 12 /\ Lines(h, s) /\ IsSections(s) BY BuildHeaderIs, PackIs
  <1> HIDE DEF h
  <1>2. IsText(r) /\ Len(r) = HeaderSize BY <1>0, ResizeIs
  <1>3. \A i \in 1 .. HeaderSize : r[i] = IF i <= 12 THEN h[i] ELSE NUL BY <1>1 DEF Resize
  <1>4. \A i \in 1 .. HeaderSize : f[i] = IF i <= 12 THEN h[i] ELSE NUL BY <1>1, ImageIs
  <1> HIDE DEF r, f
  <1>5. ASSUME NEW t, \A i \in 1 .. HeaderSize : t[i] = IF i <= 12 THEN h[i] ELSE NUL
        PROVE  Lines(t, s) /\ Holes(t)
    <2>1. \A i \in 13 .. HeaderSize : i \in 1 .. HeaderSize /\ ~ (i <= 12) BY <1>0
    <2>2. Holes(t) BY <1>5, <2>1 DEF Holes
    <2>3. \A i \in 1 .. 12 : i \in 1 .. HeaderSize /\ i <= 12 BY <1>0
    <2>4. \A i \in 1 .. 12 : t[i] = h[i] BY <1>5, <2>3
    <2>5. Lines(t, s)
      <3>1. /\ 1 \in 1 .. 12 /\ 2 \in 1 .. 12 /\ 3 \in 1 .. 12 /\ 4 \in 1 .. 12 /\ 5 \in 1 .. 12 /\ 6 \in 1 .. 12
            /\ 7 \in 1 .. 12 /\ 8 \in 1 .. 12 /\ 9 \in 1 .. 12 /\ 10 \in 1 .. 12 /\ 11 \in 1 .. 12 /\ 12 \in 1 .. 12
        OBVIOUS
      <3>2. /\ t[1] = h[1] /\ t[2] = h[2] /\ t[3] = h[3] /\ t[4] = h[4] /\ t[5] = h[5] /\ t[6] = h[6]
            /\ t[7] = h[7] /\ t[8] = h[8] /\ t[9] = h[9] /\ t[10] = h[10] /\ t[11] = h[11] /\ t[12] = h[12]
        BY <2>4, <3>1, Zenon
      <3> QED BY <1>1, <3>2 DEF Lines
    <2> QED BY <2>2, <2>5
  <1>6. Lines(r, s) /\ Holes(r) BY <1>3, <1>5
  <1>7. Lines(f, s) /\ Holes(f) BY <1>4, <1>5
  <1>8. Describes(r, s) BY <1>2, <1>6, LinesDescribe
  <1>9. Good(f, s) BY <1>8, ImageGood DEF r, f
  <1> QED BY <1>1, <1>7, <1>9 DEF f, h

-----------------------------------------------------------------------------
(* RoundTrip *)

\* What a mini_pack that runs has written so far.
PackInv ==
  /\ IsText(file)
  /\ pc \in {"header", "data"} =>
       /\ IsPack(secs) /\ out = Image(BuildHeader(secs), secs) /\ Len(file) = Len(out)
       /\ ~ intact /\ (over => Holes(file))
  /\ pc = "header" => k = 12
  /\ pc = "data" => /\ packed = secs /\ k \in HeaderSize .. Len(out)
                    /\ \A i \in 1 .. 12 : file[i] = out[i]
                    /\ \A i \in HeaderSize + 1 .. k : file[i] = out[i]
  /\ intact /\ over => IsSections(packed) /\ Good(file, packed)

LEMMA PackInvInit == Init => PackInv
  <1> SUFFICES ASSUME Init PROVE PackInv OBVIOUS
  <1>0. pc = "idle" BY DEF Init
  <1>1. CASE \E v \in Vendor : file = Image(v.header, v.secs) /\ packed = v.secs
    <2>1. PICK v \in Vendor : file = Image(v.header, v.secs) /\ packed = v.secs BY <1>1
    <2>2. PICK h, s : h = v.header /\ s = v.secs OBVIOUS
    <2>3. IsText(h) /\ IsSections(s) /\ Describes(Resize(h, HeaderSize), s) BY <2>2, VendorAssumption
    <2>4. file = Image(h, s) /\ packed = s BY <2>1, <2>2
    <2>5. IsText(file) /\ Good(file, packed) BY <2>3, <2>4, ImageIs, ImageGood
    <2> QED BY <1>0, <2>3, <2>4, <2>5 DEF PackInv
  <1>2. CASE file \in {<<>>, Foreign} /\ intact = FALSE
    <2>1. IsText(<<>>)
      <3>1. <<>> \in Seq({}) OBVIOUS
      <3> QED BY <3>1, SeqText
    <2>2. IsText(file) BY <1>2, <2>1, ContentsAssumption
    <2> QED BY <1>0, <1>2, <2>2 DEF PackInv
  <1> QED BY <1>1, <1>2 DEF Init

LEMMA PackInvNext == PackInv /\ [Next]_vars => PackInv'
  <1> SUFFICES ASSUME PackInv, [Next]_vars PROVE PackInv' OBVIOUS
  <1>0. HeaderSize \in Nat /\ HeaderSize >= 12 BY SizesAssumption, RoomAssumption
  <1>1. ASSUME UNCHANGED <<file, packed, intact, over>>, pc' \notin {"header", "data"} PROVE PackInv'
    BY <1>1, Zenon DEF PackInv
  <1>2. CASE PackStart
    <2>1. PICK kernel \in Contents, rootfs \in Contents :
            LET s == ToPack(kernel, rootfs)
                h == BuildHeader(s)
            IN /\ kernel # <<>> /\ rootfs # <<>>
               /\ file' = Resize(file, OutputSize(s))
               /\ over' = \A i \in Len(h) + 1 .. Min({HeaderSize, Len(file)}) : file[i] = NUL
               /\ secs' = s
               /\ out' = Image(h, s)
               /\ k' = Len(h)
      BY <1>2, Zenon DEF PackStart
    <2> DEFINE s == ToPack(kernel, rootfs)
               h == BuildHeader(s)
    <2>2. IsPack(s) BY <2>1, Zenon DEF IsPack
    <2>3. /\ file' = Resize(file, OutputSize(s)) /\ secs' = s /\ out' = Image(h, s) /\ k' = Len(h)
          /\ over' = \A i \in Len(h) + 1 .. Min({HeaderSize, Len(file)}) : file[i] = NUL
      BY <2>1, Zenon
    <2> HIDE DEF s
    <2>4. IsText(h) /\ Len(h) = 12 /\ IsSections(s) BY <2>2, BuildHeaderIs, PackIs
    <2> HIDE DEF h
    <2>5. OutputSize(s) \in Nat /\ OutputSize(s) >= HeaderSize /\ Len(out') = OutputSize(s)
      BY <2>3, <2>4, ImageIs
    <2>6. IsText(file') /\ Len(file') = OutputSize(s) BY <2>3, <2>5, ResizeIs
    <2>7. ASSUME over' PROVE Holes(file')
      <3> SUFFICES ASSUME NEW i \in 13 .. HeaderSize PROVE file'[i] = NUL BY DEF Holes
      <3>1. PICK n \in Nat : n = Len(file) BY TextLen DEF PackInv
      <3>2. i \in 1 .. OutputSize(s) BY <1>0, <2>5
      <3>3. file'[i] = IF i <= n THEN file[i] ELSE NUL BY <2>3, <3>1, <3>2 DEF Resize
      <3>4. i <= n => i \in 12 + 1 .. Min({HeaderSize, n})
        <4>1. Min({HeaderSize, n}) \in {HeaderSize, n} BY <1>0, MinTwo
        <4> QED BY <1>0, <4>1
      <3>5. i <= n => file[i] = NUL BY <2>3, <2>4, <2>7, <3>1, <3>4
      <3> QED BY <3>3, <3>5
    <2>8. pc' = "header" /\ intact' = FALSE BY <1>2 DEF PackStart
    <2> QED BY <2>2, <2>3, <2>4, <2>5, <2>6, <2>7, <2>8 DEF PackInv, h
  <1>3. CASE PackHeader
    <2>1. /\ pc = "header" /\ file' = Overwrite(file, out, 0, k) /\ packed' = secs /\ pc' = "data" /\ k' = HeaderSize
          /\ UNCHANGED <<secs, out, intact, over>>
      BY <1>3 DEF PackHeader
    <2>2. /\ IsText(file) /\ IsPack(secs) /\ out = Image(BuildHeader(secs), secs) /\ Len(file) = Len(out)
          /\ ~ intact /\ (over => Holes(file)) /\ k = 12
      BY <2>1 DEF PackInv
    <2>3. Len(out) \in Nat /\ Len(out) >= HeaderSize BY <2>2, BuildHeaderIs, PackIs, ImageIs
    <2>4. /\ IsText(file') /\ Len(file') = Len(file)
          /\ \A i \in 1 .. Len(file) : file'[i] = IF i \in 0 + 1 .. 0 + 12 THEN out[i] ELSE file[i]
      <3>1. 0 \in Nat /\ 12 \in Nat /\ 0 + 12 <= Len(file) BY <1>0, <2>2, <2>3
      <3> QED BY <2>1, <2>2, <3>1, OverwriteIs
    <2>5. \A i \in 1 .. 12 : file'[i] = out[i]
      <3>1. \A i \in 1 .. 12 : i \in 1 .. Len(file) /\ i \in 0 + 1 .. 0 + 12 BY <1>0, <2>2, <2>3
      <3> QED BY <2>4, <3>1
    <2>6. over => Holes(file')
      <3>1. \A i \in 13 .. HeaderSize : i \in 1 .. Len(file) /\ i \notin 0 + 1 .. 0 + 12 BY <1>0, <2>2, <2>3
      <3> QED BY <2>2, <2>4, <3>1 DEF Holes
    <2>7. HeaderSize \in HeaderSize .. Len(out) /\ \A i \in HeaderSize + 1 .. HeaderSize : FALSE BY <1>0, <2>3
    <2> QED BY <2>1, <2>2, <2>4, <2>5, <2>6, <2>7 DEF PackInv
  <1>4. CASE PackData
    <2>1. /\ pc = "data" /\ k < Len(out) /\ file' = Overwrite(file, out, k, 1) /\ k' = k + 1
          /\ UNCHANGED <<pc, secs, out, packed, intact, over>>
      BY <1>4 DEF PackData
    <2>2. /\ IsText(file) /\ IsPack(secs) /\ out = Image(BuildHeader(secs), secs) /\ Len(file) = Len(out)
          /\ ~ intact /\ (over => Holes(file))
          /\ packed = secs /\ k \in HeaderSize .. Len(out)
          /\ \A i \in 1 .. 12 : file[i] = out[i]
          /\ \A i \in HeaderSize + 1 .. k : file[i] = out[i]
      BY <2>1 DEF PackInv
    <2>3. Len(out) \in Nat /\ Len(out) >= HeaderSize BY <2>2, BuildHeaderIs, PackIs, ImageIs
    <2>4. /\ IsText(file') /\ Len(file') = Len(file)
          /\ \A i \in 1 .. Len(file) : file'[i] = IF i \in k + 1 .. k + 1 THEN out[i] ELSE file[i]
      <3>1. k \in Nat /\ 1 \in Nat /\ k + 1 <= Len(file) BY <1>0, <2>1, <2>2, <2>3
      <3>2. IsText(file) BY <2>2
      <3>3. /\ IsText(Overwrite(file, out, k, 1)) /\ Len(Overwrite(file, out, k, 1)) = Len(file)
            /\ \A i \in 1 .. Len(file) :
                 Overwrite(file, out, k, 1)[i] = IF i \in k + 1 .. k + 1 THEN out[i] ELSE file[i]
        <4>1. PICK t, b, o, n : t = file /\ b = out /\ o = k /\ n = 1 OBVIOUS
        <4>2. IsText(t) /\ o \in Nat /\ n \in Nat /\ o + n <= Len(t) BY <3>1, <3>2, <4>1
        <4>3. /\ IsText(Overwrite(t, b, o, n)) /\ Len(Overwrite(t, b, o, n)) = Len(t)
              /\ \A i \in 1 .. Len(t) : Overwrite(t, b, o, n)[i] = IF i \in o + 1 .. o + n THEN b[i] ELSE t[i]
          BY <4>2, OverwriteIs
        <4> QED BY <4>1, <4>3
      <3> QED BY <2>1, <3>3
    <2>5. \A i \in 1 .. 12 : file'[i] = out[i]
      <3>1. \A i \in 1 .. 12 : i \in 1 .. Len(file) BY <1>0, <2>2, <2>3
      <3> QED BY <2>2, <2>4, <3>1
    <2>6. over => Holes(file')
      <3>1. \A i \in 13 .. HeaderSize : i \in 1 .. Len(file) /\ i \notin k + 1 .. k + 1 BY <1>0, <2>2, <2>3
      <3> QED BY <2>2, <2>4, <3>1 DEF Holes
    <2>7. \A i \in HeaderSize + 1 .. k + 1 : file'[i] = out[i]
      <3>1. \A i \in HeaderSize + 1 .. k + 1 : i \in 1 .. Len(file) /\ (i \in HeaderSize + 1 .. k \/ i \in k + 1 .. k + 1)
        BY <1>0, <2>1, <2>2, <2>3
      <3> QED BY <2>2, <2>4, <3>1
    <2>8. k + 1 \in HeaderSize .. Len(out) BY <1>0, <2>1, <2>2, <2>3
    <2> QED BY <2>1, <2>2, <2>4, <2>5, <2>6, <2>7, <2>8 DEF PackInv
  <1>5. CASE PackDone
    <2>1. /\ pc = "data" /\ k = Len(out) /\ pc' = "idle" /\ UNCHANGED <<file, packed, over>>
      BY <1>5 DEF PackDone, End
    <2>2. /\ IsText(file) /\ IsPack(secs) /\ out = Image(BuildHeader(secs), secs) /\ Len(file) = Len(out)
          /\ (over => Holes(file)) /\ packed = secs
          /\ \A i \in 1 .. 12 : file[i] = out[i]
          /\ \A i \in HeaderSize + 1 .. Len(out) : file[i] = out[i]
      BY <2>1 DEF PackInv
    <2>3. IsText(out) /\ Len(out) \in Nat BY <2>2, BuildHeaderIs, PackIs, ImageIs
    <2>4. IsSections(secs) /\ Good(out, secs) /\ Holes(out) BY <2>2, PackGood
    <2>5. over => file = out
      <3>1. \A i \in 1 .. Len(out) : i \in 1 .. 12 \/ i \in 13 .. HeaderSize \/ i \in HeaderSize + 1 .. Len(out)
        BY <1>0, <2>3
      <3>2. over => \A i \in 1 .. Len(file) : file[i] = out[i] BY <2>2, <2>4, <3>1 DEF Holes
      <3> QED BY <2>2, <2>3, <3>2, SameText
    <2> QED BY <2>1, <2>2, <2>4, <2>5 DEF PackInv
  <1>6. CASE Damage
    <2>1. PICK i \in DOMAIN file, c \in {Junk, Binary} : file' = [file EXCEPT ![i] = c] BY <1>6 DEF Damage
    <2>2. pc' = "idle" /\ intact' = FALSE BY <1>6 DEF Damage
    <2>3. IsText(file) BY DEF PackInv
    <2>4. PICK n \in Nat : n = Len(file) /\ DOMAIN file = 1 .. n BY <2>3, TextLen
    <2>5. DOMAIN file' = 1 .. n BY <2>1, <2>4
    <2>6. file' = [j \in 1 .. n |-> file'[j]] BY <2>1, <2>4
    <2>7. IsText(file') BY <2>6, FunText
    <2> QED BY <2>2, <2>7 DEF PackInv
  <1>7. CASE Cut
    <2>1. PICK n \in HeaderSize - 1 .. Len(file) - 1 : file' = Resize(file, n) BY <1>7 DEF Cut
    <2>2. pc' = "idle" /\ intact' = FALSE BY <1>7 DEF Cut
    <2>3. Len(file) \in Nat BY TextLen DEF PackInv
    <2>4. n \in Nat BY <1>0, <2>1, <2>3
    <2>5. IsText(file') BY <2>1, <2>4, ResizeIs
    <2> QED BY <2>2, <2>5 DEF PackInv
  <1>8. CASE UnpackHangs BY <1>1, <1>8 DEF UnpackHangs
  <1>9. CASE UnpackParsed BY <1>1, <1>9 DEF UnpackParsed
  <1>10. CASE ExtractOpen
    <2>1. UNCHANGED <<file, packed, intact, over>> /\ pc' \in {"idle", "copy"} BY <1>10, Zenon DEF ExtractOpen, End
    <2> QED BY <1>1, <2>1
  <1>11. CASE ExtractCopy
    <2>1. UNCHANGED <<file, packed, intact, over>> /\ pc' \in {"open", "done"} BY <1>11, Zenon DEF ExtractCopy
    <2> QED BY <1>1, <2>1
  <1>12. CASE UnpackDone BY <1>1, <1>12 DEF UnpackDone, End
  <1>13. CASE Stop BY <1>1, <1>13 DEF Stop, End
  <1>14. CASE UNCHANGED vars
    <2>1. UNCHANGED <<file, pc, secs, out, k, packed, intact, over>> BY <1>14 DEF vars
    <2> QED BY <2>1 DEF PackInv
  <1> QED
    BY <1>2, <1>3, <1>4, <1>5, <1>6, <1>7, <1>8, <1>9, <1>10, <1>11, <1>12, <1>13, <1>14, Zenon DEF Next, Command

LEMMA PackInvRoundTrip == PackInv => RoundTrip
  BY ParseGood DEF PackInv, RoundTrip

\* What mini_pack has packed whole, over nothing longer, and every image of another
\* tool whose header describes its data, is read back section by section
\* (OtaPacker::pack against OtaExtractor::parse): for all contents, headers and sizes.
THEOREM PackedIsRead == Spec => []RoundTrip
  <1>1. Spec => []PackInv BY PackInvInit, PackInvNext, PTL DEF Spec
  <1> QED BY <1>1, PackInvRoundTrip, PTL

-----------------------------------------------------------------------------
(* What is read under a header with MD5 lines *)

MarkOf(q, z) ==
  /\ Field(q, "img_name", <<>>) = z.name /\ Field(q, "img_size", 0) = Len(z.data)
  /\ Has(q, "img_md5") /\ Field(q, "img_md5", <<>>) = z.data

\* The first parts of the header describe the sections of s, each with its MD5.
Marked(text, s) == Len(Parts(text)) >= Len(s) /\ \A i \in 1 .. Len(s) : MarkOf(Parts(text)[i], s[i])

\* What mini_unpack reads of the image of s: the first sections, all of them that
\* there is room for unless the file was cut.
Begins(r, f, s) ==
  /\ Len(r) \in 1 .. Len(s)
  /\ \A i \in 1 .. Len(r) : r[i].name = s[i].name /\ r[i].data = s[i].data
  /\ Len(r) < Min({MaxImages, Len(s)}) => Len(f) < OutputSize(s)

LEMMA ParseText ==
  ASSUME NEW f, IsText(f), Len(f) >= HeaderSize, Parse(f) # <<>>
  PROVE  /\ Accepts(f, Described(f)) /\ Parse(f) = Found(f, Described(f))
         /\ Len(Parse(f)) = Cardinality(FitSet(f, Described(f)))
         /\ Len(Parse(f)) \in 1 .. Len(Described(f))
         /\ \A i \in 1 .. Len(Parse(f)) : Parse(f)[i] = SectionAt(f, Described(f), i)
         /\ IsText(Parse(f))
  <1> DEFINE p == Described(f)
             n == Cardinality(FitSet(f, p))
             r == Found(f, p)
  <1>1. Accepts(f, p) /\ Parse(f) = r BY ParseIs
  <1>2. PICK S : p \in Seq(S) BY DescribedIs DEF IsText
  <1>3. n \in 0 .. Len(p) /\ Len(p) \in Nat
    <2> HIDE DEF p
    <2> QED BY <1>2, FitsPrefix
  <1> HIDE DEF p
  <1>4. r = [i \in 1 .. n |-> SectionAt(f, p, i)] BY DEF Found
  <1>5. n \in Nat BY <1>3
  <1> HIDE DEF n
  <1>6. r = [i \in 1 .. n |-> r[i]] BY <1>4
  <1>7. \A i \in 1 .. n : r[i] = SectionAt(f, p, i) BY <1>4
  <1> HIDE DEF r
  <1>8. IsText(r) /\ Len(r) = n BY <1>5, <1>6, FunText
  <1>9. n # 0
    <2> SUFFICES ASSUME n = 0 PROVE FALSE OBVIOUS
    <2>1. r \in Seq(ToSet(r)) /\ Len(r) = 0 BY <1>8 DEF IsText
    <2>2. r = <<>> BY <2>1, NoCells
    <2> QED BY <1>1, <2>2
  <1>10. n \in 1 .. Len(p) BY <1>3, <1>9
  <1> QED BY <1>1, <1>7, <1>8, <1>10 DEF p, n, r

LEMMA ReadExact ==
  ASSUME NEW f, IsText(f), Len(f) >= HeaderSize, NEW s, IsSections(s), s # <<>>, Marked(HeaderText(f), s),
         Parse(f) # <<>>, \A i \in 1 .. Len(Parse(f)) : Parse(f)[i].data # <<>>,
         Len(Parts(HeaderText(f))) = Len(s) \/ Len(f) <= OutputSize(s)
  PROVE  Begins(Parse(f), f, s)
  <1> DEFINE p == Described(f)
             r == Parse(f)
             h == HeaderText(f)
  <1>0. HeaderSize \in Nat /\ MaxImages \in Nat /\ Len(f) \in Nat /\ Len(s) \in Nat
        /\ \A i \in 1 .. Len(s) : Len(s[i].data) \in Nat /\ IsText(s[i].data)
    BY SizesAssumption, SectionsAre, TextLen
  <1>1. /\ Accepts(f, p) /\ r = Found(f, p) /\ Len(r) = Cardinality(FitSet(f, p)) /\ Len(r) \in 1 .. Len(p)
        /\ \A i \in 1 .. Len(r) : r[i] = SectionAt(f, p, i)
    BY ParseText
  <1>2. /\ Len(p) \in Nat /\ Len(p) = Min({MaxImages, Len(Parts(h))}) /\ Len(Parts(h)) \in Nat
        /\ \A i \in 1 .. Len(p) : p[i] = Parts(h)[i] /\ i \in 1 .. Len(Parts(h))
    BY HeaderTextIs, PartsText, DescribedIs
  <1>3. PICK P : Laid(s, P) BY ConcatLaid
  <1>4. Len(Parts(h)) >= Len(s) /\ \A i \in 1 .. Len(s) : MarkOf(Parts(h)[i], s[i]) BY DEF Marked
  <1>5. Names(h, s) BY <1>4 DEF Names, MarkOf
  <1>6. \A i \in 1 .. Len(p) : i \in 1 .. Len(s) =>
           /\ Offset(p, i) = HeaderSize + P[i - 1]
           /\ Offset(p, i + 1) = HeaderSize + P[i]
           /\ SectionAt(f, p, i) = [name |-> s[i].name, data |-> CellsAt(f, P, i)]
    BY <1>3, <1>5, FoundIs
  <1>7. \A i \in 1 .. Len(p) : i <= Len(r) <=> Offset(p, i + 1) <= Len(f)
    <2>1. PICK S : p \in Seq(S) BY DescribedIs DEF IsText
    <2> HIDE DEF p, r
    <2> QED BY <1>1, <2>1, FitsPrefix
  <1>8. /\ OutputSize(s) = HeaderSize + P[Len(s)] /\ P[Len(s)] \in Nat
        /\ \A i \in 0 .. Len(s) : P[i] \in Nat /\ P[i] <= P[Len(s)]
    <2>1. Len(Concat(s)) = P[Len(s)] BY <1>3 DEF Laid
    <2>2. \A i \in 0 .. Len(s) : P[i] \in Nat /\ P[i] <= P[Len(s)] BY <1>3, LaidOrdered
    <2>3. Len(s) \in 0 .. Len(s) BY <1>0
    <2> QED BY <2>1, <2>2, <2>3 DEF OutputSize
  <1>9. ASSUME NEW i \in 1 .. Len(r), i \in 1 .. Len(s)
        PROVE  r[i].name = s[i].name /\ r[i].data = s[i].data
    <2>1. i \in 1 .. Len(p) BY <1>1, <1>2
    <2>2. r[i] = [name |-> s[i].name, data |-> CellsAt(f, P, i)] BY <1>1, <1>6, <1>9, <2>1
    <2>3. SectionOk(p[i], r[i].data, BsSize(f)) BY <1>1 DEF Accepts
    <2>4. p[i] = Parts(h)[i] /\ MarkOf(p[i], s[i]) BY <1>2, <1>4, <1>9, <2>1
    <2>5. s[i].data = r[i].data BY <2>3, <2>4 DEF SectionOk, MarkOf
    <2> QED BY <2>2, <2>5
  <1>10. Len(r) <= Len(s)
    <2> SUFFICES ASSUME ~ (Len(r) <= Len(s)) PROVE FALSE OBVIOUS
    <2>1. Len(r) \in Nat /\ Len(s) + 1 \in 1 .. Len(r) /\ Len(s) + 1 \in 1 .. Len(p) /\ Len(p) <= Len(Parts(h))
      <3>1. Len(p) <= Len(Parts(h))
        <4> HIDE DEF p, h
        <4> QED BY <1>0, <1>2, MinTwo
      <3> HIDE DEF p, r, h
      <3> QED BY <1>0, <1>1, <1>2, <3>1
    <2>2. Len(f) <= OutputSize(s)
      <3> HIDE DEF p, r, h
      <3>1. Len(Parts(h)) # Len(s) BY <1>0, <1>2, <2>1
      <3> QED BY <3>1 DEF h
    <2>3. Len(s) # 0
      <3>1. s \in Seq(ToSet(s)) BY DEF IsSections, IsText
      <3> QED BY <3>1, NoCells
    <2> HIDE DEF p, r, h
    <2>4. PICK m : m = Len(s) /\ m \in Nat /\ m # 0 BY <1>0, <2>3
    <2>5. Offset(p, m + 1) = HeaderSize + P[m]
      <3>1. m \in 1 .. Len(p) /\ m \in 1 .. Len(s) BY <1>2, <2>1, <2>4
      <3> QED BY <1>6, <3>1
    <2>6. Offset(p, (m + 1) + 1) <= Len(f) BY <1>7, <2>1, <2>4
    <2>7. r[m + 1].data = SubSeq(f, Offset(p, m + 1) + 1, Offset(p, (m + 1) + 1))
      BY <1>1, <2>1, <2>4 DEF SectionAt
    <2>8. Offset(p, (m + 1) + 1) \in Nat
      <3>1. (m + 1) + 1 \in 1 .. Len(p) + 1 BY <1>2, <2>1, <2>4
      <3> QED BY <1>2, <3>1, OffsetStep
    <2>9. Offset(p, (m + 1) + 1) <= Offset(p, m + 1) BY <1>0, <1>8, <2>2, <2>4, <2>5, <2>6, <2>8
    <2>10. r[m + 1].data = <<>>
      <3>1. Offset(p, m + 1) \in Nat BY <1>0, <1>8, <2>4, <2>5
      <3> QED BY <2>7, <2>8, <2>9, <3>1
    <2> QED BY <2>1, <2>4, <2>10 DEF r
  <1>11. ASSUME Len(r) < Min({MaxImages, Len(s)}) PROVE Len(f) < OutputSize(s)
    <2> HIDE DEF p, r, h
    <2>0. Len(r) \in Nat /\ Len(r) < MaxImages /\ Len(r) < Len(s)
      <3>1. Min({MaxImages, Len(s)}) \in {MaxImages, Len(s)} /\ Min({MaxImages, Len(s)}) <= MaxImages /\ Min({MaxImages, Len(s)}) <= Len(s)
        BY <1>0, MinTwo
      <3> QED BY <1>0, <1>1, <1>2, <1>11, <3>1
    <2>1. Len(r) < Len(p)
      <3>1. PICK l : l = Len(Parts(h)) /\ l \in Nat BY <1>2
      <3>2. Min({MaxImages, l}) \in {MaxImages, l}
        <4>1. MaxImages \in Int /\ l \in Int BY <1>0, <3>1
        <4> QED BY <4>1, MinTwo, Zenon
      <3>3. Len(p) \in {MaxImages, l} BY <1>2, <3>1, <3>2, Zenon
      <3> QED BY <1>0, <1>2, <1>4, <2>0, <3>1, <3>3
    <2>2. PICK n : n = Len(r) + 1 OBVIOUS
    <2>3. n \in 1 .. Len(p) /\ n \in 1 .. Len(s) /\ ~ (n <= Len(r)) BY <1>0, <1>2, <2>0, <2>1, <2>2
    <2>4. Offset(p, n + 1) = HeaderSize + P[n] /\ ~ (Offset(p, n + 1) <= Len(f)) BY <1>6, <1>7, <2>3
    <2>5. P[n] \in Nat /\ P[n] <= P[Len(s)]
      <3>1. n \in 0 .. Len(s) BY <1>0, <2>3
      <3> QED BY <1>8, <3>1
    <2> QED BY <1>0, <1>8, <2>4, <2>5
  <1>12. Len(r) \in 1 .. Len(s) /\ \A i \in 1 .. Len(r) : i \in 1 .. Len(s)
    <2> HIDE DEF p, r, h
    <2> QED BY <1>0, <1>1, <1>2, <1>10
  <1> QED BY <1>9, <1>11, <1>12 DEF Begins

-----------------------------------------------------------------------------
(* The header in the file *)

\* Every header of another tool gives the MD5 of each section.
Signed == \A v \in Vendor : Marked(Resize(v.header, HeaderSize), v.secs)

\* While nothing was damaged the header speaks of the sections it was made for.  What
\* a longer header left behind the lines of mini_pack may describe more sections.
HeadInv ==
  /\ damage \in Nat
  /\ packed # <<>> /\ damage = 0 =>
       /\ IsSections(packed) /\ Len(file) >= HeaderSize
       /\ \/ Len(Parts(HeaderText(file))) = Len(packed) /\ Marked(HeaderText(file), packed)
          \/ IsPack(packed) /\ Lines(file, packed) /\ ~ over

LEMMA LinesText ==
  ASSUME NEW t, NEW u, NEW s, Lines(t, s), \A i \in 1 .. 12 : u[i] = t[i] PROVE Lines(u, s)
  <1>1. /\ 1 \in 1 .. 12 /\ 2 \in 1 .. 12 /\ 3 \in 1 .. 12 /\ 4 \in 1 .. 12 /\ 5 \in 1 .. 12 /\ 6 \in 1 .. 12
        /\ 7 \in 1 .. 12 /\ 8 \in 1 .. 12 /\ 9 \in 1 .. 12 /\ 10 \in 1 .. 12 /\ 11 \in 1 .. 12 /\ 12 \in 1 .. 12
    OBVIOUS
  <1>2. /\ u[1] = t[1] /\ u[2] = t[2] /\ u[3] = t[3] /\ u[4] = t[4] /\ u[5] = t[5] /\ u[6] = t[6]
        /\ u[7] = t[7] /\ u[8] = t[8] /\ u[9] = t[9] /\ u[10] = t[10] /\ u[11] = t[11] /\ u[12] = t[12]
    BY <1>1, Zenon
  <1> QED BY <1>2 DEF Lines

\* A file with the same first cells has the same header.
LEMMA SameHeader ==
  ASSUME NEW f, IsText(f), Len(f) >= HeaderSize, NEW g, IsText(g), Len(g) >= HeaderSize,
         \A i \in 1 .. HeaderSize : g[i] = f[i]
  PROVE  HeaderText(g) = HeaderText(f) /\ \A s : Lines(f, s) => Lines(g, s)
  <1>1. /\ IsText(HeaderText(f)) /\ Len(HeaderText(f)) = HeaderSize
        /\ \A i \in 1 .. HeaderSize : HeaderText(f)[i] = f[i]
    BY HeaderTextIs
  <1>2. /\ IsText(HeaderText(g)) /\ Len(HeaderText(g)) = HeaderSize
        /\ \A i \in 1 .. HeaderSize : HeaderText(g)[i] = g[i]
    BY HeaderTextIs
  <1>3. HeaderText(g) = HeaderText(f) BY <1>1, <1>2, SameText
  <1>4. HeaderSize \in Nat /\ HeaderSize >= 12 BY SizesAssumption, RoomAssumption
  <1>5. \A i \in 1 .. 12 : i \in 1 .. HeaderSize BY <1>4
  <1>6. \A i \in 1 .. 12 : g[i] = f[i] BY <1>5
  <1> QED BY <1>3, <1>6, LinesText

\* The header of mini_pack, with or without something behind it.
LEMMA LinesHeader ==
  ASSUME NEW f, IsText(f), Len(f) >= HeaderSize, NEW s, IsPack(s), Lines(f, s)
  PROVE  Marked(HeaderText(f), s) /\ (Holes(f) => Len(Parts(HeaderText(f))) = Len(s))
  <1>0. HeaderSize \in Nat /\ HeaderSize >= 12 /\ Len(s) = 2 BY SizesAssumption, RoomAssumption, PackIs
  <1> DEFINE h == HeaderText(f)
  <1>1. IsText(h) /\ Len(h) = HeaderSize /\ \A i \in 1 .. HeaderSize : h[i] = f[i] BY HeaderTextIs
  <1> HIDE DEF h
  <1>2. Lines(h, s)
    <2>1. \A i \in 1 .. 12 : i \in 1 .. HeaderSize BY <1>0
    <2>2. \A i \in 1 .. 12 : h[i] = f[i] BY <1>1, <2>1
    <2> QED BY <2>2, LinesText
  <1>3. Len(Parts(h)) >= 2 /\ PartOf(Parts(h)[1], s[1]) /\ PartOf(Parts(h)[2], s[2])
    BY <1>0, <1>1, <1>2, FirstParts
  <1>4. \A q, z : PartOf(q, z) => MarkOf(q, z) BY DEF PartOf, MarkOf
  <1>5. \A i \in 1 .. 2 : i = 1 \/ i = 2 OBVIOUS
  <1>6. MarkOf(Parts(h)[1], s[1]) /\ MarkOf(Parts(h)[2], s[2]) BY <1>3, <1>4
  <1>7. Marked(h, s) BY <1>0, <1>3, <1>5, <1>6 DEF Marked
  <1>8. ASSUME Holes(f) PROVE Len(Parts(h)) = Len(s)
    <2>1. \A i \in 13 .. HeaderSize : i \in 1 .. HeaderSize BY <1>0
    <2>2. Holes(h) BY <1>1, <1>8, <2>1 DEF Holes
    <2>3. Describes(h, s) BY <1>1, <1>2, <2>2, LinesDescribe
    <2> QED BY <2>3 DEF Describes
  <1> QED BY <1>7, <1>8 DEF h

LEMMA HeadInvInit == Signed /\ Init => HeadInv
  <1> SUFFICES ASSUME Signed, Init PROVE HeadInv OBVIOUS
  <1>1. damage \in Nat BY DEF Init
  <1> SUFFICES ASSUME packed # <<>> PROVE HeadInv BY <1>1 DEF HeadInv
  <1>0. HeaderSize \in Nat BY SizesAssumption
  <1>2. PICK v \in Vendor : file = Image(v.header, v.secs) /\ packed = v.secs BY DEF Init
  <1>3. PICK h, s : h = v.header /\ s = v.secs OBVIOUS
  <1>4. IsText(h) /\ Len(h) <= HeaderSize /\ IsSections(s) /\ Describes(Resize(h, HeaderSize), s)
    BY <1>3, VendorAssumption
  <1>5. file = Image(h, s) /\ packed = s BY <1>2, <1>3
  <1>6. /\ IsText(file) /\ Len(file) >= HeaderSize
        /\ \A i \in 1 .. HeaderSize : file[i] = IF i <= Len(h) THEN h[i] ELSE NUL
    BY <1>4, <1>5, ImageIs
  <1>7. HeaderText(file) = Resize(h, HeaderSize)
    <2>1. /\ IsText(HeaderText(file)) /\ Len(HeaderText(file)) = HeaderSize
          /\ \A i \in 1 .. HeaderSize : HeaderText(file)[i] = file[i]
      BY <1>6, HeaderTextIs
    <2>2. IsText(Resize(h, HeaderSize)) /\ Len(Resize(h, HeaderSize)) = HeaderSize BY <1>0, ResizeIs
    <2>3. \A i \in 1 .. HeaderSize : Resize(h, HeaderSize)[i] = IF i <= Len(h) THEN h[i] ELSE NUL BY DEF Resize
    <2> QED BY <1>6, <2>1, <2>2, <2>3, SameText
  <1>8. Marked(Resize(h, HeaderSize), s) BY <1>3 DEF Signed
  <1>9. Len(Parts(Resize(h, HeaderSize))) = Len(s) BY <1>4 DEF Describes
  <1> QED BY <1>1, <1>4, <1>5, <1>6, <1>7, <1>8, <1>9 DEF HeadInv

LEMMA HeadInvNext == PackInv /\ HeadInv /\ [Next]_vars => HeadInv'
  <1> SUFFICES ASSUME PackInv, HeadInv, [Next]_vars PROVE HeadInv' OBVIOUS
  <1>0. HeaderSize \in Nat /\ HeaderSize >= 12 /\ IsText(file) /\ Len(file) \in Nat
    BY SizesAssumption, RoomAssumption, TextLen DEF PackInv
  <1>1. ASSUME UNCHANGED <<file, packed, over, damage>> PROVE HeadInv' BY <1>1, Zenon DEF HeadInv
  <1>2. ASSUME UNCHANGED <<packed, over, damage>>, IsText(file'), Len(file') >= HeaderSize, Len(file) >= HeaderSize,
               \A i \in 1 .. HeaderSize : file'[i] = file[i]
        PROVE  HeadInv'
    <2>1. HeaderText(file') = HeaderText(file) /\ \A s : Lines(file, s) => Lines(file', s)
      BY <1>0, <1>2, SameHeader
    <2> QED BY <1>2, <2>1 DEF HeadInv
  <1>3. CASE PackStart
    <2> SUFFICES ASSUME packed' # <<>>, damage' = 0
                 PROVE  /\ IsSections(packed') /\ Len(file') >= HeaderSize
                        /\ \/ Len(Parts(HeaderText(file'))) = Len(packed') /\ Marked(HeaderText(file'), packed')
                           \/ IsPack(packed') /\ Lines(file', packed') /\ ~ over'
      BY <1>3 DEF HeadInv, PackStart
    <2>1. PICK kernel \in Contents, rootfs \in Contents :
            LET s == ToPack(kernel, rootfs)
                h == BuildHeader(s)
            IN /\ kernel # <<>> /\ rootfs # <<>>
               /\ file' = Resize(file, OutputSize(s))
               /\ over' = \A i \in Len(h) + 1 .. Min({HeaderSize, Len(file)}) : file[i] = NUL
      BY <1>3, Zenon DEF PackStart
    <2> DEFINE s == ToPack(kernel, rootfs)
    <2>2. IsPack(s) BY <2>1, Zenon DEF IsPack
    <2>3. /\ file' = Resize(file, OutputSize(s))
          /\ over' = \A i \in Len(BuildHeader(s)) + 1 .. Min({HeaderSize, Len(file)}) : file[i] = NUL
      BY <2>1, Zenon
    <2> HIDE DEF s
    <2>4. Len(BuildHeader(s)) = 12 /\ OutputSize(s) \in Nat /\ OutputSize(s) >= HeaderSize
      BY <2>2, BuildHeaderIs, PackIs, ImageIs
    <2>5. UNCHANGED <<packed, damage>> BY <1>3 DEF PackStart
    <2>6. /\ IsSections(packed) /\ Len(file) >= HeaderSize
          /\ \/ Len(Parts(HeaderText(file))) = Len(packed) /\ Marked(HeaderText(file), packed)
             \/ IsPack(packed) /\ Lines(file, packed) /\ ~ over
      BY <2>5 DEF HeadInv
    <2>7. IsText(file') /\ Len(file') = OutputSize(s) BY <2>3, <2>4, ResizeIs
    <2>8. \A i \in 1 .. HeaderSize : file'[i] = file[i]
      <3>1. \A i \in 1 .. HeaderSize : i \in 1 .. OutputSize(s) /\ i <= Len(file) BY <1>0, <2>4, <2>6
      <3> QED BY <2>3, <3>1 DEF Resize
    <2>9. HeaderText(file') = HeaderText(file) /\ \A u : Lines(file, u) => Lines(file', u)
      <3>1. Len(file') >= HeaderSize BY <2>4, <2>7
      <3> QED BY <1>0, <2>6, <2>7, <2>8, <3>1, SameHeader
    <2>10. ASSUME over', IsPack(packed), Lines(file, packed)
           PROVE  Len(Parts(HeaderText(file))) = Len(packed) /\ Marked(HeaderText(file), packed)
      <3>1. Min({HeaderSize, Len(file)}) = HeaderSize
        <4>1. PICK n : n = Len(file) /\ n \in Nat /\ HeaderSize <= n BY <1>0, <2>6
        <4>2. /\ Min({HeaderSize, n}) \in {HeaderSize, n} /\ Min({HeaderSize, n}) <= HeaderSize
          <5>1. HeaderSize \in Int /\ n \in Int BY <1>0, <4>1
          <5> QED BY <5>1, MinTwo, Zenon
        <4>3. Min({HeaderSize, n}) = HeaderSize BY <1>0, <4>1, <4>2
        <4> QED BY <4>1, <4>3
      <3>2. \A i \in 12 + 1 .. HeaderSize : file[i] = NUL BY <2>3, <2>4, <2>10, <3>1
      <3>3. Holes(file)
        <4>1. \A i \in 13 .. HeaderSize : i \in 12 + 1 .. HeaderSize OBVIOUS
        <4> QED BY <3>2, <4>1 DEF Holes
      <3> QED BY <1>0, <2>6, <2>10, <3>3, LinesHeader
    <2>11. Len(file') >= HeaderSize BY <2>4, <2>7
    <2> QED BY <2>5, <2>6, <2>9, <2>10, <2>11
  <1>4. CASE PackHeader
    <2>1. /\ pc = "header" /\ packed' = secs /\ pc' = "data" /\ UNCHANGED <<secs, out, over, damage>>
      BY <1>4 DEF PackHeader
    <2>2. IsPack(secs) /\ out = Image(BuildHeader(secs), secs) BY <2>1 DEF PackInv
    <2>3. PackInv' BY PackInvNext
    <2>4. /\ IsText(file') /\ Len(file') = Len(out) /\ (over => Holes(file'))
          /\ \A i \in 1 .. 12 : file'[i] = out[i]
      BY <2>1, <2>3 DEF PackInv
    <2>5. Len(out) >= HeaderSize /\ Lines(out, secs) /\ IsSections(secs)
      BY <2>2, BuildHeaderIs, PackIs, ImageIs, PackGood
    <2>6. Lines(file', secs) BY <2>4, <2>5, LinesText
    <2>7. Marked(HeaderText(file'), secs) /\ (Holes(file') => Len(Parts(HeaderText(file'))) = Len(secs))
      BY <2>2, <2>4, <2>5, <2>6, LinesHeader
    <2> QED BY <2>1, <2>2, <2>4, <2>5, <2>6, <2>7 DEF HeadInv
  <1>5. CASE PackData
    <2>1. /\ pc = "data" /\ k < Len(out) /\ file' = Overwrite(file, out, k, 1)
          /\ UNCHANGED <<pc, secs, out, packed, over, damage>>
      BY <1>5 DEF PackData
    <2>2. IsPack(secs) /\ out = Image(BuildHeader(secs), secs) /\ Len(file) = Len(out) /\ k \in HeaderSize .. Len(out)
      BY <2>1 DEF PackInv
    <2>3. Len(out) >= HeaderSize BY <2>2, BuildHeaderIs, PackIs, ImageIs
    <2>4. PackInv' BY PackInvNext
    <2>5. IsText(file') /\ Len(file') = Len(out) BY <2>1, <2>4 DEF PackInv
    <2>6. \A i \in 1 .. Len(file) : Overwrite(file, out, k, 1)[i] = IF i \in k + 1 .. k + 1 THEN out[i] ELSE file[i]
      <3>1. PICK t, b, o, n : t = file /\ b = out /\ o = k /\ n = 1 OBVIOUS
      <3>2. IsText(t) /\ o \in Nat /\ n \in Nat /\ o + n <= Len(t) BY <1>0, <2>1, <2>2, <3>1
      <3>3. /\ IsText(Overwrite(t, b, o, n)) /\ Len(Overwrite(t, b, o, n)) = Len(t)
            /\ \A i \in 1 .. Len(t) : Overwrite(t, b, o, n)[i] = IF i \in o + 1 .. o + n THEN b[i] ELSE t[i]
        BY <3>2, OverwriteIs
      <3> QED BY <3>1, <3>3
    <2>7. \A i \in 1 .. HeaderSize : file'[i] = file[i]
      <3>1. \A i \in 1 .. HeaderSize : i \in 1 .. Len(file) /\ i \notin k + 1 .. k + 1 BY <1>0, <2>2, <2>3
      <3> QED BY <2>1, <2>6, <3>1
    <2> QED BY <1>2, <2>1, <2>2, <2>3, <2>5, <2>7
  <1>6. CASE Damage
    <2>1. damage' = damage + 1 /\ damage \in Nat BY <1>6 DEF Damage, HeadInv
    <2>2. damage' \in Nat /\ damage' # 0 BY <2>1
    <2> QED BY <2>2 DEF HeadInv
  <1>7. CASE Cut
    <2> SUFFICES ASSUME packed' # <<>> PROVE HeadInv' BY <1>7 DEF HeadInv, Cut
    <2>1. PICK n \in HeaderSize - 1 .. Len(file) - 1 :
            file' = Resize(file, n) /\ packed' = IF n < HeaderSize THEN <<>> ELSE packed
      BY <1>7 DEF Cut
    <2>2. UNCHANGED <<over, damage>> BY <1>7 DEF Cut
    <2>3. n \in Nat /\ n >= HeaderSize /\ Len(file) >= HeaderSize BY <1>0, <2>1
    <2>4. IsText(file') /\ Len(file') = n BY <2>1, <2>3, ResizeIs
    <2>5. \A i \in 1 .. HeaderSize : file'[i] = file[i]
      <3>1. \A i \in 1 .. HeaderSize : i \in 1 .. n /\ i <= Len(file) BY <1>0, <2>3
      <3> QED BY <2>1, <3>1 DEF Resize
    <2>6. packed' = packed BY <2>1
    <2> QED BY <1>2, <2>2, <2>3, <2>4, <2>5, <2>6
  <1>8. CASE PackDone BY <1>1, <1>8 DEF PackDone
  <1>9. CASE UnpackHangs BY <1>1, <1>9 DEF UnpackHangs
  <1>10. CASE UnpackParsed BY <1>1, <1>10 DEF UnpackParsed
  <1>11. CASE ExtractOpen BY <1>1, <1>11, Zenon DEF ExtractOpen
  <1>12. CASE ExtractCopy BY <1>1, <1>12, Zenon DEF ExtractCopy
  <1>13. CASE UnpackDone BY <1>1, <1>13 DEF UnpackDone
  <1>14. CASE Stop BY <1>1, <1>14 DEF Stop
  <1>15. CASE UNCHANGED vars BY <1>1, <1>15, Zenon DEF vars
  <1> QED
    BY <1>3, <1>4, <1>5, <1>6, <1>7, <1>8, <1>9, <1>10, <1>11, <1>12, <1>13, <1>14, <1>15, Zenon DEF Next, Command

-----------------------------------------------------------------------------
(* What mini_unpack has extracted *)

Ended == IF pc = "done" THEN k ELSE k - 1
Begun == IF pc = "open" THEN k - 1 ELSE k
FileOf(i) == Sanitize(secs[i].name)

\* The sections that were copied are in their files, except those whose file a later
\* section with the same name has opened, and each one has data.
Extracts ==
  /\ secs = Parse(file) /\ k \in 1 .. Len(secs) /\ (pc = "done" => k = Len(secs))
  /\ pc = "copy" => secs[k].data # <<>>
  /\ \A i \in 1 .. Ended :
       /\ secs[i].data # <<>>
       /\ (\A j \in i + 1 .. Begun : FileOf(j) # FileOf(i))
            => FileOf(i) \in DOMAIN folder /\ folder[FileOf(i)] = secs[i].data

ExtractInv == pc \in {"open", "copy", "done"} => Extracts

LEMMA PutIs ==
  ASSUME NEW name, NEW text, Put(name, text)
  PROVE  /\ name \in DOMAIN folder' /\ folder'[name] = text
         /\ \A x : x # name /\ x \in DOMAIN folder => x \in DOMAIN folder' /\ folder'[x] = folder[x]
  BY DEF Put

\* A file that is read has a header.
LEMMA ParseLen ==
  ASSUME NEW f, IsText(f), Parse(f) # <<>> PROVE IsText(Parse(f)) /\ Len(Parse(f)) \in Nat \ {0}
  <1> DEFINE h == HeaderText(f)
             p == Described(f)
             n == Cardinality(FitSet(f, p))
             r == Found(f, p)
  <1>0. Len(f) \in Nat /\ HeaderSize \in Nat /\ MaxImages \in Nat BY TextLen, SizesAssumption
  <1>1. IsText(h)
    <2>1. PICK l, m : l = Len(f) /\ m = Min({HeaderSize, l}) OBVIOUS
    <2>2. Min({HeaderSize, l}) \in {HeaderSize, l} /\ Min({HeaderSize, l}) <= l
      <3>1. HeaderSize \in Int /\ l \in Int BY <1>0, <2>1
      <3> QED BY <3>1, MinTwo, Zenon
    <2>3. m \in 1 - 1 .. l /\ 1 \in 1 .. l + 1 BY <1>0, <2>1, <2>2
    <2>4. PICK S : f \in Seq(S) BY DEF IsText
    <2>5. SubSeq(f, 1, m) \in Seq(S) BY <2>1, <2>3, <2>4, SubSeqIs
    <2>6. h = SubSeq(f, 1, m) BY <2>1 DEF HeaderText
    <2> QED BY <2>5, <2>6, SeqText
  <1>2. PICK S : p \in Seq(S)
    <2> DEFINE q == Parts(h)
    <2>1. IsText(q) /\ Len(q) \in Nat BY <1>1, PartsText
    <2>2. p = SubSeq(q, 1, Min({MaxImages, Len(q)})) BY Zenon DEF Described
    <2> HIDE DEF h, q, p
    <2>3. PICK l, m : l = Len(q) /\ m = Min({MaxImages, l}) OBVIOUS
    <2>4. Min({MaxImages, l}) \in {MaxImages, l} /\ Min({MaxImages, l}) <= l
      <3>1. MaxImages \in Int /\ l \in Int BY <1>0, <2>1, <2>3
      <3> QED BY <3>1, MinTwo, Zenon
    <2>5. m \in 1 - 1 .. l /\ 1 \in 1 .. l + 1 BY <1>0, <2>1, <2>3, <2>4
    <2>6. PICK S : q \in Seq(S) BY <2>1 DEF IsText
    <2>7. SubSeq(q, 1, m) \in Seq(S) BY <2>3, <2>5, <2>6, SubSeqIs
    <2> QED BY <2>2, <2>3, <2>7
  <1> HIDE DEF p
  <1>3. n \in 0 .. Len(p) /\ Len(p) \in Nat BY <1>2, FitsPrefix
  <1>4. r = [i \in 1 .. n |-> SectionAt(f, p, i)] BY DEF Found
  <1>5. n \in Nat BY <1>3
  <1> HIDE DEF n
  <1>6. r = [i \in 1 .. n |-> r[i]] BY <1>4
  <1> HIDE DEF r
  <1>7. IsText(r) /\ Len(r) = n BY <1>5, <1>6, FunText
  <1>8. Parse(f) = r BY ParseIs DEF p, r
  <1>9. Len(r) # 0
    <2> SUFFICES ASSUME Len(r) = 0 PROVE FALSE OBVIOUS
    <2>1. r \in Seq(ToSet(r)) BY <1>7 DEF IsText
    <2>2. r = <<>> BY <2>1, NoCells
    <2> QED BY <1>8, <2>2
  <1> QED BY <1>5, <1>7, <1>8, <1>9

LEMMA ExtractInvNext == PackInv /\ ExtractInv /\ [Next]_vars => ExtractInv'
  <1> SUFFICES ASSUME PackInv, ExtractInv, [Next]_vars, pc' \in {"open", "copy", "done"} PROVE Extracts'
    BY DEF ExtractInv
  <1>1. CASE UnpackParsed
    <2>1. /\ secs' = Parse(file) /\ secs' # <<>> /\ pc' = "open" /\ k' = 1 /\ file' = file
      BY <1>1 DEF UnpackParsed
    <2>2. Len(Parse(file)) \in Nat \ {0} BY <2>1, ParseLen DEF PackInv
    <2>3. k' \in 1 .. Len(secs') BY <2>1, <2>2
    <2>4. Ended' = k' - 1 /\ \A i \in 1 .. k' - 1 : FALSE BY <2>1 DEF Ended
    <2> QED BY <2>1, <2>3, <2>4 DEF Extracts
  <1>2. CASE ExtractOpen
    <2>0. Extracts /\ pc = "open" BY <1>2 DEF ExtractInv, ExtractOpen
    <2> DEFINE name == Sanitize(secs[k].name)
               old == IF name \in DOMAIN folder THEN folder[name] ELSE <<>>
    <2>1. /\ Put(name, Resize(old, Len(secs[k].data))) /\ secs[k].data # <<>>
          /\ pc' = "copy" /\ UNCHANGED <<secs, k, file>>
      <3>1. pc' # "idle" OBVIOUS
      <3> QED BY <1>2, <3>1, Zenon DEF ExtractOpen, End
    <2>2. k \in 1 .. Len(secs) /\ Ended = k - 1 /\ Begun = k - 1 /\ Ended' = k - 1 /\ Begun' = k
      BY <2>0, <2>1 DEF Extracts, Ended, Begun
    <2>3. k \in Nat
      <3>1. k \in Int BY <2>2
      <3> QED BY <2>2, <3>1
    <2>4. ASSUME NEW i \in 1 .. k - 1
          PROVE  /\ secs[i].data # <<>>
                 /\ (\A j \in i + 1 .. k : FileOf(j) # FileOf(i))
                      => FileOf(i) \in DOMAIN folder' /\ folder'[FileOf(i)] = secs[i].data
      <3>1. /\ secs[i].data # <<>>
            /\ (\A j \in i + 1 .. k - 1 : FileOf(j) # FileOf(i))
                 => FileOf(i) \in DOMAIN folder /\ folder[FileOf(i)] = secs[i].data
        BY <2>0, <2>2 DEF Extracts
      <3>2. \A j \in i + 1 .. k - 1 : j \in i + 1 .. k BY <2>3
      <3>3. k \in i + 1 .. k BY <2>3
      <3>4. ASSUME \A j \in i + 1 .. k : FileOf(j) # FileOf(i)
            PROVE  FileOf(i) \in DOMAIN folder' /\ folder'[FileOf(i)] = secs[i].data
        <4>1. FileOf(i) \in DOMAIN folder /\ folder[FileOf(i)] = secs[i].data BY <3>1, <3>2, <3>4
        <4>2. FileOf(i) # name BY <3>3, <3>4 DEF FileOf
        <4> HIDE DEF name, old
        <4> QED BY <2>1, <4>1, <4>2, PutIs
      <3> QED BY <3>1, <3>4
    <2>5. \A i : FileOf(i)' = FileOf(i) BY <2>1 DEF FileOf
    <2>6. secs' = Parse(file') /\ k' \in 1 .. Len(secs') BY <2>0, <2>1 DEF Extracts
    <2> HIDE DEF name, old
    <2> QED BY <2>1, <2>2, <2>4, <2>5, <2>6, Zenon DEF Extracts, FileOf
  <1>3. CASE ExtractCopy
    <2>0. Extracts /\ pc = "copy" BY <1>3 DEF ExtractInv, ExtractCopy
    <2> DEFINE name == Sanitize(secs[k].name)
    <2>1. /\ Put(name, secs[k].data) /\ UNCHANGED <<secs, file>>
          /\ \/ k < Len(secs) /\ pc' = "open" /\ k' = k + 1
             \/ ~ (k < Len(secs)) /\ pc' = "done" /\ k' = k
      BY <1>3, Zenon DEF ExtractCopy
    <2>2. k \in 1 .. Len(secs) /\ Ended = k - 1 /\ Begun = k /\ secs = Parse(file) /\ secs[k].data # <<>>
      BY <2>0 DEF Extracts, Ended, Begun
    <2>3. Len(secs) \in Nat /\ k \in Nat
      <3>1. secs # <<>>
        <4> SUFFICES ASSUME secs = <<>> PROVE FALSE OBVIOUS
        <4>1. Len(secs) = 0 OBVIOUS
        <4> QED BY <2>2, <4>1
      <3>2. Len(secs) \in Nat BY <2>2, <3>1, ParseLen DEF PackInv
      <3> QED BY <2>2, <3>2
    <2>4. Ended' = k /\ Begun' = k /\ k' \in 1 .. Len(secs) /\ (pc' = "done" => k' = Len(secs)) /\ pc' # "copy"
      <3>1. CASE k < Len(secs) /\ pc' = "open" /\ k' = k + 1
        <4>1. Ended' = k' - 1 /\ Begun' = k' - 1 /\ k' - 1 = k BY <2>3, <3>1 DEF Ended, Begun
        <4> QED BY <2>2, <2>3, <3>1, <4>1
      <3>2. CASE ~ (k < Len(secs)) /\ pc' = "done" /\ k' = k
        <4>1. Ended' = k' /\ Begun' = k' BY <3>2 DEF Ended, Begun
        <4> QED BY <2>2, <2>3, <3>2, <4>1
      <3> QED BY <2>1, <3>1, <3>2
    <2>5. ASSUME NEW i \in 1 .. k
          PROVE  /\ secs[i].data # <<>>
                 /\ (\A j \in i + 1 .. k : FileOf(j) # FileOf(i))
                      => FileOf(i) \in DOMAIN folder' /\ folder'[FileOf(i)] = secs[i].data
      <3>1. CASE i = k
        <4>1. FileOf(k) = name BY DEF FileOf
        <4> HIDE DEF name
        <4> QED BY <2>1, <2>2, <3>1, <4>1, PutIs
      <3>2. CASE i # k
        <4>1. i \in 1 .. k - 1 /\ k \in i + 1 .. k BY <2>3, <3>2
        <4>2. /\ secs[i].data # <<>>
              /\ (\A j \in i + 1 .. k : FileOf(j) # FileOf(i))
                   => FileOf(i) \in DOMAIN folder /\ folder[FileOf(i)] = secs[i].data
          BY <2>0, <2>2, <4>1 DEF Extracts
        <4>3. ASSUME \A j \in i + 1 .. k : FileOf(j) # FileOf(i)
              PROVE  FileOf(i) \in DOMAIN folder' /\ folder'[FileOf(i)] = secs[i].data
          <5>1. FileOf(i) # name BY <4>1, <4>3 DEF FileOf
          <5> HIDE DEF name
          <5> QED BY <2>1, <4>2, <4>3, <5>1, PutIs
        <4> QED BY <4>2, <4>3
      <3> QED BY <3>1, <3>2
    <2>6. \A i : FileOf(i)' = FileOf(i) BY <2>1 DEF FileOf
    <2>7. secs' = Parse(file') /\ k' \in 1 .. Len(secs') /\ (pc' = "done" => k' = Len(secs')) BY <2>1, <2>2, <2>4
    <2> HIDE DEF name
    <2> QED BY <2>1, <2>4, <2>5, <2>6, <2>7, Zenon DEF Extracts, FileOf
  <1>4. CASE UNCHANGED vars
    <2>1. UNCHANGED <<file, folder, pc, secs, k>> BY <1>4 DEF vars
    <2>2. Extracts BY <2>1 DEF ExtractInv
    <2> QED BY <2>1, <2>2, Zenon DEF Extracts, Ended, Begun, FileOf
  <1>5. CASE PackStart \/ UnpackHangs \/ PackHeader \/ PackData \/ PackDone \/ UnpackDone \/ Stop \/ Damage \/ Cut
    <2>1. pc' \notin {"open", "copy", "done"}
      BY <1>5, Zenon
      DEF PackStart, UnpackHangs, PackHeader, PackData, PackDone, UnpackDone, Stop, Damage, Cut, End
    <2> QED BY <2>1
  <1> QED BY <1>1, <1>2, <1>3, <1>4, <1>5, Zenon DEF Next, Command

\* The files of the sections that were read are those of the sections that were packed.
LEMMA BegunFiles ==
  ASSUME IsSections(packed), packed # <<>>, Begins(secs, file, packed), k = Len(secs),
         \A i \in 1 .. k : (\A j \in i + 1 .. k : FileOf(j) # FileOf(i))
                             => FileOf(i) \in DOMAIN folder /\ folder[FileOf(i)] = secs[i].data
  PROVE  \E n \in 1 .. Len(packed) :
           /\ n < Min({MaxImages, Len(packed)}) => IsCut
           /\ LET f == FilesOf(SubSeq(packed, 1, n))
              IN \A name \in DOMAIN f : name \in DOMAIN folder /\ folder[name] = f[name]
  <1>0. Len(packed) \in Nat BY SectionsAre
  <1>1. /\ k \in 1 .. Len(packed) /\ (k < Min({MaxImages, Len(packed)}) => IsCut)
        /\ \A i \in 1 .. k : secs[i].name = packed[i].name /\ secs[i].data = packed[i].data
    BY DEF Begins, IsCut
  <1> DEFINE s == SubSeq(packed, 1, k)
             f == FilesOf(s)
  <1>2. DOMAIN s = 1 .. k /\ \A i \in 1 .. k : s[i] = packed[i]
    <2>1. packed \in Seq(ToSet(packed)) BY DEF IsSections, IsText
    <2>2. 1 \in 1 .. Len(packed) + 1 /\ k \in 1 - 1 .. Len(packed) /\ k - 1 + 1 = k BY <1>0, <1>1
    <2>3. /\ s \in Seq(ToSet(packed)) /\ Len(s) = k - 1 + 1
          /\ \A j \in 1 .. k - 1 + 1 : s[j] = packed[1 + j - 1]
      BY <2>1, <2>2, SubSeqIs
    <2>4. \A j \in 1 .. k : 1 + j - 1 = j OBVIOUS
    <2> HIDE DEF s
    <2> QED BY <2>2, <2>3, <2>4
  <1> HIDE DEF s
  <1>3. \A i \in 1 .. k : Sanitize(s[i].name) = FileOf(i) /\ s[i].data = secs[i].data BY <1>1, <1>2 DEF FileOf
  <1>4. ASSUME NEW name \in DOMAIN f PROVE name \in DOMAIN folder /\ folder[name] = f[name]
    <2> DEFINE I == {i \in DOMAIN s : Sanitize(s[i].name) = name}
    <2>1. name \in {Sanitize(s[i].name) : i \in DOMAIN s} /\ f[name] = s[Max(I)].data
      BY <1>4, Zenon DEF FilesOf
    <2>2. I # {} /\ I \in SUBSET (1 .. k) /\ k \in Nat BY <1>0, <1>1, <1>2, <2>1
    <2>3. \A i \in I : FileOf(i) = name BY <1>2, <1>3
    <2>4. \A i \in 1 .. k : FileOf(i) = name => i \in I BY <1>2, <1>3
    <2> HIDE DEF I, f
    <2>5. PICK m \in I : \A i \in I : m >= i BY <2>2, Greatest
    <2>6. Max(I) = m
      <3>1. I \subseteq Int BY <2>2
      <3> QED BY <2>5, <3>1, MaxIs
    <2>7. m \in 1 .. k /\ FileOf(m) = name BY <2>2, <2>3, <2>5
    <2>8. \A j \in m + 1 .. k : FileOf(j) # FileOf(m)
      <3> SUFFICES ASSUME NEW j \in m + 1 .. k, FileOf(j) = FileOf(m) PROVE FALSE OBVIOUS
      <3>1. j \in 1 .. k /\ ~ (m >= j) BY <2>2, <2>7
      <3>2. j \in I BY <2>4, <2>7, <3>1
      <3> QED BY <2>5, <3>1, <3>2
    <2>9. name \in DOMAIN folder /\ folder[name] = secs[m].data BY <2>7, <2>8
    <2> QED BY <1>3, <2>1, <2>6, <2>7, <2>9
  <1> QED BY <1>1, <1>4 DEF s, f

LEMMA DoneExact ==
  ASSUME PackInv, HeadInv, ExtractInv, damage = 0 PROVE ExtractedExact
  <1> SUFFICES ASSUME pc = "done", packed # <<>>, ~ over => Len(file) <= OutputSize(packed)
               PROVE  \E n \in 1 .. Len(packed) :
                        /\ n < Min({MaxImages, Len(packed)}) => IsCut
                        /\ LET f == FilesOf(SubSeq(packed, 1, n))
                           IN \A name \in DOMAIN f : name \in DOMAIN folder /\ folder[name] = f[name]
    BY DEF ExtractedExact
  <1>1. /\ IsSections(packed) /\ Len(file) >= HeaderSize
        /\ \/ Len(Parts(HeaderText(file))) = Len(packed) /\ Marked(HeaderText(file), packed)
           \/ IsPack(packed) /\ Lines(file, packed) /\ ~ over
    BY DEF HeadInv
  <1>2. IsText(file) BY DEF PackInv
  <1>3. /\ secs = Parse(file) /\ k \in 1 .. Len(secs) /\ k = Len(secs)
        /\ \A i \in 1 .. k : /\ secs[i].data # <<>>
                             /\ (\A j \in i + 1 .. k : FileOf(j) # FileOf(i))
                                  => FileOf(i) \in DOMAIN folder /\ folder[FileOf(i)] = secs[i].data
    BY DEF ExtractInv, Extracts, Ended, Begun
  <1>4. Parse(file) # <<>>
    <2> SUFFICES ASSUME Parse(file) = <<>> PROVE FALSE OBVIOUS
    <2>1. Len(secs) = 0 BY <1>3
    <2> QED BY <1>3, <2>1
  <1>5. Marked(HeaderText(file), packed) BY <1>1, <1>2, LinesHeader
  <1>6. Begins(secs, file, packed)
    <2>1. \A i \in 1 .. Len(Parse(file)) : Parse(file)[i].data # <<>> BY <1>3
    <2>2. Len(Parts(HeaderText(file))) = Len(packed) \/ Len(file) <= OutputSize(packed) BY <1>1
    <2> QED BY <1>1, <1>2, <1>3, <1>4, <1>5, <2>1, <2>2, ReadExact
  <1> QED BY <1>1, <1>3, <1>6, BegunFiles

\* While no cell was damaged, what a successful mini_unpack leaves in its folder is
\* what was packed, whatever stopped calls of mini_pack, cuts, older headers and
\* older files came before (ExtractedExact, OtaExtractor::parse and mini_unpack).
\* Images of other tools have to give the MD5 of every section.
THEOREM UndamagedIsExact ==
  ASSUME Signed PROVE Spec => [](damage = 0 => ExtractedExact)
  <1>1. Init => PackInv /\ HeadInv /\ ExtractInv
    <2>1. Init => ExtractInv BY DEF Init, ExtractInv
    <2> QED BY <2>1, PackInvInit, HeadInvInit
  <1>2. PackInv /\ HeadInv /\ ExtractInv /\ [Next]_vars => (PackInv /\ HeadInv /\ ExtractInv)'
    BY PackInvNext, HeadInvNext, ExtractInvNext
  <1>3. PackInv /\ HeadInv /\ ExtractInv => (damage = 0 => ExtractedExact) BY DoneExact
  <1> QED BY <1>1, <1>2, <1>3, PTL DEF Spec

-----------------------------------------------------------------------------
(* One damaged line *)

\* The header of mini_pack with the cell d replaced.
NearLines(text, s, d, c) == \A i \in 1 .. 12 : text[i] = IF i = d THEN c ELSE BuildHeader(s)[i]
NearHoles(text, d, c) == \A i \in 13 .. HeaderSize : text[i] = IF i = d THEN c ELSE NUL

SectionKeys == {"img_name", "img_size", "img_md5", "img_crc"}
GlobalKeys == {"bs_size", "ota_img_packet_md5"}

\* What the reader finds there: line d has no key that it knows.
KeyedBut(text, s, d) ==
  /\ d # 1 => text[1].k = "img_name" /\ text[1].v = s[1].name
  /\ d # 2 => text[2].k = "img_size" /\ text[2].v = Len(s[1].data)
  /\ d # 3 => text[3].k = "img_md5" /\ text[3].v = s[1].data
  /\ d # 4 => text[4].k = "img_crc"
  /\ d # 5 => text[5].k = "blank"
  /\ d # 6 => text[6].k = "img_name" /\ text[6].v = s[2].name
  /\ d # 7 => text[7].k = "img_size" /\ text[7].v = Len(s[2].data)
  /\ d # 8 => text[8].k = "img_md5" /\ text[8].v = s[2].data
  /\ d # 9 => text[9].k = "img_crc"
  /\ d # 10 => text[10].k = "blank"
  /\ d # 11 => text[11].k = "bs_size"
  /\ d # 12 => text[12].k = "ota_img_packet_md5" /\ text[12].v = Concat(s)
  /\ d \in 1 .. 12 => text[d].k = "junk"
  /\ \A i \in 13 .. HeaderSize : text[i].k \notin SectionKeys \cup GlobalKeys \cup {"blank"}

LEMMA NearKeys ==
  ASSUME NEW s, IsPack(s), NEW text, NEW d, NearLines(text, s, d, Junk), NearHoles(text, d, Junk)
  PROVE  KeyedBut(text, s, d)
  <1> DEFINE h == BuildHeader(s)
  <1>0. Lines(h, s) BY BuildHeaderIs
  <1>1. \A x, y : Line(x, y).k = x /\ Line(x, y).v = y BY DEF Line
  <1> HIDE DEF h
  <1>2. /\ h[1].k = "img_name" /\ h[2].k = "img_size" /\ h[3].k = "img_md5" /\ h[4].k = "img_crc"
        /\ h[5].k = "blank"
        /\ h[6].k = "img_name" /\ h[7].k = "img_size" /\ h[8].k = "img_md5" /\ h[9].k = "img_crc"
        /\ h[10].k = "blank"
        /\ h[11].k = "bs_size" /\ h[12].k = "ota_img_packet_md5" /\ h[12].v = Concat(s)
    BY <1>0, LineKeys
  <1>3. h[1].v = s[1].name /\ h[2].v = Len(s[1].data) /\ h[3].v = s[1].data BY <1>0 DEF Lines, Line
  <1>4. h[6].v = s[2].name /\ h[7].v = Len(s[2].data) /\ h[8].v = s[2].data BY <1>0 DEF Lines, Line
  <1>5. \A i \in 1 .. 12 : i # d => text[i] = h[i] BY DEF NearLines, h
  <1>6. /\ d # 1 => text[1] = h[1]
        /\ d # 2 => text[2] = h[2]
        /\ d # 3 => text[3] = h[3]
        /\ d # 4 => text[4] = h[4]
        /\ d # 5 => text[5] = h[5]
        /\ d # 6 => text[6] = h[6]
        /\ d # 7 => text[7] = h[7]
        /\ d # 8 => text[8] = h[8]
        /\ d # 9 => text[9] = h[9]
        /\ d # 10 => text[10] = h[10]
        /\ d # 11 => text[11] = h[11]
        /\ d # 12 => text[12] = h[12]
    BY <1>5
  <1>7. Junk.k = "junk" BY <1>1 DEF Junk
  <1>8. d \in 1 .. 12 => text[d].k = "junk" BY <1>7 DEF NearLines
  <1>9. \A i \in 13 .. HeaderSize : text[i].k \notin SectionKeys \cup GlobalKeys \cup {"blank"}
    <2>1. \A i \in 13 .. HeaderSize : text[i].k \in {"junk", NUL.k} BY <1>7 DEF NearHoles
    <2> QED BY <2>1, NulAssumption DEF SectionKeys, GlobalKeys
  <1>10. /\ d # 1 => text[1].k = "img_name" /\ text[1].v = s[1].name
         /\ d # 2 => text[2].k = "img_size" /\ text[2].v = Len(s[1].data)
         /\ d # 3 => text[3].k = "img_md5" /\ text[3].v = s[1].data
         /\ d # 4 => text[4].k = "img_crc"
         /\ d # 5 => text[5].k = "blank"
    BY <1>2, <1>3, <1>6
  <1>11. /\ d # 6 => text[6].k = "img_name" /\ text[6].v = s[2].name
         /\ d # 7 => text[7].k = "img_size" /\ text[7].v = Len(s[2].data)
         /\ d # 8 => text[8].k = "img_md5" /\ text[8].v = s[2].data
         /\ d # 9 => text[9].k = "img_crc"
         /\ d # 10 => text[10].k = "blank"
    BY <1>2, <1>4, <1>6
  <1>12. /\ d # 11 => text[11].k = "bs_size"
         /\ d # 12 => text[12].k = "ota_img_packet_md5" /\ text[12].v = Concat(s)
    BY <1>2, <1>6
  <1> QED BY <1>8, <1>9, <1>10, <1>11, <1>12 DEF KeyedBut

\* In the part of the lines from a to before e, line m is the last with this key; or
\* none has it.
KeyAt(text, a, e, m, key) ==
  /\ a \in 1 .. Len(text) /\ e \in a + 1 .. Len(text) + 1
  /\ m \in a .. e - 1 /\ text[m].k = key /\ \A i \in m + 1 .. e - 1 : text[i].k # key

NoKey(text, a, e, key) ==
  /\ a \in 1 .. Len(text) /\ e \in a + 1 .. Len(text) + 1
  /\ \A i \in a .. e - 1 : text[i].k # key

LEMMA InPart ==
  ASSUME NEW S, NEW text \in Seq(S), NEW a, NEW e, NEW m, NEW key, KeyAt(text, a, e, m, key)
  PROVE  Has(SubSeq(text, a, e - 1), key) /\ \A x : Field(SubSeq(text, a, e - 1), key, x) = text[m].v
  <1> DEFINE q == SubSeq(text, a, e - 1)
             j == m - a + 1
  <1>0. /\ Len(text) \in Nat /\ a \in Nat /\ e \in Nat /\ m \in Nat
        /\ a \in 1 .. Len(text) /\ e \in a + 1 .. Len(text) + 1
        /\ m \in a .. e - 1 /\ text[m].k = key /\ \A i \in m + 1 .. e - 1 : text[i].k # key
    BY DEF KeyAt
  <1>1. a \in 1 .. Len(text) + 1 /\ e - 1 \in a - 1 .. Len(text) BY <1>0
  <1>2. /\ q \in Seq(S) /\ Len(q) = (e - 1) - a + 1
        /\ \A i \in 1 .. (e - 1) - a + 1 : q[i] = text[a + i - 1]
    BY <1>1, SubSeqIs
  <1> HIDE DEF q
  <1>3. j \in 1 .. Len(q) /\ a + j - 1 = m /\ DOMAIN q = 1 .. Len(q) BY <1>0, <1>2
  <1>4. q[j] = text[m] BY <1>2, <1>3
  <1>5. \A i \in j + 1 .. Len(q) : a + i - 1 \in m + 1 .. e - 1 /\ i \in 1 .. Len(q) BY <1>0, <1>2
  <1>6. \A i \in j + 1 .. Len(q) : q[i].k # key BY <1>0, <1>2, <1>5
  <1>7. q[j].k = key BY <1>0, <1>4
  <1> HIDE DEF j
  <1>8. LastWith(q, key, j) BY <1>3, <1>6, <1>7 DEF LastWith
  <1>9. \A x : Field(q, key, x) = q[j].v BY <1>2, <1>8, FieldLast
  <1>10. Has(q, key) BY <1>3, <1>7 DEF Has
  <1> QED BY <1>4, <1>9, <1>10 DEF q

LEMMA NotInPart ==
  ASSUME NEW S, NEW text \in Seq(S), NEW a, NEW e, NEW key, NoKey(text, a, e, key)
  PROVE  ~ Has(SubSeq(text, a, e - 1), key) /\ \A x : Field(SubSeq(text, a, e - 1), key, x) = x
  <1> DEFINE q == SubSeq(text, a, e - 1)
  <1>0. /\ Len(text) \in Nat /\ a \in Nat /\ e \in Nat
        /\ a \in 1 .. Len(text) /\ e \in a + 1 .. Len(text) + 1 /\ \A i \in a .. e - 1 : text[i].k # key
    BY DEF NoKey
  <1>1. a \in 1 .. Len(text) + 1 /\ e - 1 \in a - 1 .. Len(text) BY <1>0
  <1>2. /\ q \in Seq(S) /\ Len(q) = (e - 1) - a + 1
        /\ \A i \in 1 .. (e - 1) - a + 1 : q[i] = text[a + i - 1]
    BY <1>1, SubSeqIs
  <1> HIDE DEF q
  <1>3. DOMAIN q = 1 .. Len(q) /\ \A i \in 1 .. Len(q) : a + i - 1 \in a .. e - 1 BY <1>0, <1>2
  <1>4. \A i \in 1 .. Len(q) : q[i].k # key BY <1>0, <1>2, <1>3
  <1>5. \A x : Field(q, key, x) = x BY <1>4, FieldNone
  <1>6. ~ Has(q, key) BY <1>3, <1>4 DEF Has
  <1> QED BY <1>5, <1>6 DEF q

\* The lines from 10 on, whichever is damaged.
LEMMA LastLines ==
  ASSUME NEW text, NEW s, NEW d \in Nat, KeyedBut(text, s, d), NEW i \in 10 .. HeaderSize
  PROVE  text[i].k \notin SectionKeys /\ (i > 10 => text[i].k # "blank") /\ (i > 12 => text[i].k \notin GlobalKeys)
  <1>0. HeaderSize \in Nat BY SizesAssumption
  <1>1. i = 10 \/ i = 11 \/ i = 12 \/ i \in 13 .. HeaderSize BY <1>0
  <1>2. text[10].k \in {"blank", "junk"} /\ text[11].k \in {"bs_size", "junk"} /\ text[12].k \in {"ota_img_packet_md5", "junk"}
    <2>1. 10 \in 1 .. 12 /\ 11 \in 1 .. 12 /\ 12 \in 1 .. 12 OBVIOUS
    <2> QED BY <2>1 DEF KeyedBut
  <1>3. i \in 13 .. HeaderSize => text[i].k \notin SectionKeys \cup GlobalKeys \cup {"blank"} BY DEF KeyedBut
  <1> QED BY <1>1, <1>2, <1>3 DEF SectionKeys, GlobalKeys

\* Where the parts of sections begin, and where the second one ends.
PartEnd(d) == IF d = 10 THEN HeaderSize + 1 ELSE 10

LEMMA NearStarts ==
  ASSUME NEW S, NEW text \in Seq(S), Len(text) = HeaderSize, NEW s, NEW d \in Nat, KeyedBut(text, s, d)
  PROVE  /\ PartStarts(text) \subseteq {1, 6, 11} /\ 1 \in PartStarts(text) /\ (6 \in PartStarts(text) <=> d # 5)
         /\ PartAt(text, 1) = SubSeq(text, 1, (IF d = 5 THEN 10 ELSE 5) - 1)
         /\ PartAt(text, 6) = SubSeq(text, 6, PartEnd(d) - 1)
         /\ ~ Has(PartAt(text, 11), "img_name")
  <1>0. HeaderSize \in Nat /\ HeaderSize >= 12 /\ DOMAIN text = 1 .. HeaderSize BY SizesAssumption, RoomAssumption
  <1>1. \A i \in 10 .. HeaderSize : text[i].k \notin SectionKeys /\ (i > 10 => text[i].k # "blank") BY LastLines
  <1>2. \A i \in 1 .. HeaderSize : i \in {1, 2, 3, 4} \/ i = 5 \/ i \in {6, 7, 8, 9} \/ i = 10 \/ (i \in 10 .. HeaderSize /\ i > 10)
    BY <1>0
  <1>3. /\ \A i \in 1 .. 12 : d = i => text[i].k = "junk"
        /\ (d # 5 <=> text[5].k = "blank") /\ (d # 10 <=> text[10].k = "blank")
    <2>1. 5 \in 1 .. 12 /\ 10 \in 1 .. 12 OBVIOUS
    <2> QED BY <2>1 DEF KeyedBut
  <1>4. \A i \in {1, 2, 3, 4} \cup {6, 7, 8, 9} : text[i].k # "blank"
    <2>1. \A i \in {1, 2, 3, 4} \cup {6, 7, 8, 9} : d = i => text[i].k = "junk" BY <1>3
    <2> QED BY <2>1 DEF KeyedBut
  <1>5. \A i \in 1 .. HeaderSize : text[i].k = "blank" => i = 5 \/ i = 10 BY <1>1, <1>2, <1>4
  <1>6. PartStarts(text) \subseteq {1, 6, 11} /\ 1 \in PartStarts(text) /\ (6 \in PartStarts(text) <=> d # 5)
    <2>1. \A a : a \in PartStarts(text) <=> a = 1 \/ \E i \in 1 .. HeaderSize : text[i].k = "blank" /\ a = i + 1
      BY <1>0, Zenon DEF PartStarts
    <2>2. \A i \in 1 .. HeaderSize : 6 = i + 1 => i = 5 BY <1>0
    <2>3. 5 \in 1 .. HeaderSize /\ 6 = 5 + 1 /\ 6 # 1 BY <1>0
    <2>4. d # 5 => 6 \in PartStarts(text) BY <1>3, <2>1, <2>3
    <2>5. 6 \in PartStarts(text) => d # 5 BY <1>3, <2>1, <2>2, <2>3
    <2>6. PartStarts(text) \subseteq {1, 6, 11} BY <1>5, <2>1
    <2> QED BY <2>1, <2>4, <2>5, <2>6
  <1>7. PartAt(text, 1) = SubSeq(text, 1, (IF d = 5 THEN 10 ELSE 5) - 1)
    <2> DEFINE e == IF d = 5 THEN 10 ELSE 5
    <2>1. 1 \in 1 .. Len(text) + 1 /\ e \in 1 .. Len(text) + 1 BY <1>0
    <2>2. text[e].k = "blank" BY <1>3
    <2>3. \A i \in 1 .. e - 1 : i \in {1, 2, 3, 4} \/ (d = 5 /\ i = 5) \/ i \in {6, 7, 8, 9} OBVIOUS
    <2>4. \A i \in 1 .. e - 1 : text[i].k # "blank" BY <1>3, <1>4, <2>3
    <2> HIDE DEF e
    <2>5. PartAt(text, 1) = SubSeq(text, 1, e - 1) BY <2>1, <2>2, <2>4, PartAtIs
    <2> QED BY <2>5 DEF e
  <1>8. PartAt(text, 6) = SubSeq(text, 6, PartEnd(d) - 1)
    <2> DEFINE e == PartEnd(d)
    <2>1. 6 \in 1 .. Len(text) + 1 /\ e \in 6 .. Len(text) + 1 BY <1>0 DEF PartEnd
    <2>2. e <= Len(text) => text[e].k = "blank" BY <1>0, <1>3 DEF PartEnd
    <2>3. \A i \in 6 .. e - 1 : i \in {6, 7, 8, 9} \/ (d = 10 /\ i = 10) \/ (i \in 10 .. HeaderSize /\ i > 10) BY <1>0 DEF PartEnd
    <2>4. \A i \in 6 .. e - 1 : text[i].k # "blank" BY <1>1, <1>3, <1>4, <2>3
    <2> HIDE DEF e
    <2>5. PartAt(text, 6) = SubSeq(text, 6, e - 1) BY <2>1, <2>2, <2>4, PartAtIs
    <2> QED BY <2>5 DEF e
  <1>9. ~ Has(PartAt(text, 11), "img_name")
    <2>1. PICK a, e : a = 11 /\ e = HeaderSize + 1 OBVIOUS
    <2>2. a \in 1 .. Len(text) /\ e \in a + 1 .. Len(text) + 1 /\ a \in 1 .. Len(text) + 1 /\ e \in a .. Len(text) + 1
          /\ ~ (e <= Len(text))
      BY <1>0, <2>1
    <2>3. \A i \in a .. e - 1 : i \in 10 .. HeaderSize /\ i > 10 BY <1>0, <2>1
    <2>4. \A i \in a .. e - 1 : text[i].k # "blank" /\ text[i].k # "img_name" BY <1>1, <2>3 DEF SectionKeys
    <2>5. PartAt(text, a) = SubSeq(text, a, e - 1) BY <2>2, <2>4, PartAtIs
    <2>6. NoKey(text, a, e, "img_name") BY <2>2, <2>4 DEF NoKey
    <2>7. ~ Has(SubSeq(text, a, e - 1), "img_name") BY <2>6, NotInPart
    <2> QED BY <2>1, <2>5, <2>7
  <1> QED BY <1>6, <1>7, <1>8, <1>9

\* What a part that begins at line a says of its section when line d is damaged.
SaysBut(q, z, a, d) ==
  /\ Has(q, "img_name") <=> d # a
  /\ d # a => Field(q, "img_name", <<>>) = z.name
  /\ Field(q, "img_size", 0) = IF d = a + 1 THEN 0 ELSE Len(z.data)
  /\ d # a + 2 => Has(q, "img_md5") /\ Field(q, "img_md5", <<>>) = z.data

LEMMA NearFirst ==
  ASSUME NEW S, NEW text \in Seq(S), Len(text) = HeaderSize, NEW s, NEW d \in Nat, KeyedBut(text, s, d), d # 5
  PROVE  SaysBut(SubSeq(text, 1, 5 - 1), s[1], 1, d)
  <1> DEFINE q == SubSeq(text, 1, 5 - 1)
  <1>0. HeaderSize \in Nat /\ HeaderSize >= 12 BY SizesAssumption, RoomAssumption
  <1>1. PICK a, e : a = 1 /\ e = 5 OBVIOUS
  <1>2. a \in 1 .. Len(text) /\ e \in a + 1 .. Len(text) + 1 BY <1>0, <1>1
  <1>3. \A i \in a .. e - 1 : i \in {1, 2, 3, 4} BY <1>0, <1>1
  <1>4. \A i \in {1, 2, 3, 4} : i = d => text[i].k = "junk"
    <2>1. \A i \in {1, 2, 3, 4} : i \in 1 .. 12 OBVIOUS
    <2> QED BY <2>1 DEF KeyedBut
  <1>5. \A i \in 10 .. HeaderSize : text[i].k \notin SectionKeys BY LastLines
  <1>6. ASSUME d # 1 PROVE Has(q, "img_name") /\ Field(q, "img_name", <<>>) = s[1].name
    <2>1. PICK m : m = 1 OBVIOUS
    <2>2. m \in a .. e - 1 /\ text[m].k = "img_name" /\ text[m].v = s[1].name BY <1>0, <1>1, <1>6, <2>1 DEF KeyedBut
    <2>3. \A i \in m + 1 .. e - 1 : i \in a .. e - 1 /\ i # 1 BY <1>1, <2>1
    <2>4. \A i \in m + 1 .. e - 1 : text[i].k # "img_name"
      BY <1>3, <1>4, <1>5, <2>3 DEF KeyedBut, SectionKeys
    <2>5. KeyAt(text, a, e, m, "img_name") BY <1>2, <2>2, <2>4 DEF KeyAt
    <2> QED BY <1>1, <2>2, <2>5, InPart
  <1>7. ASSUME d = 1 PROVE ~ Has(q, "img_name")
    <2>1. \A i \in a .. e - 1 : text[i].k # "img_name"
      BY <1>3, <1>4, <1>5, <1>7 DEF KeyedBut, SectionKeys
    <2>2. NoKey(text, a, e, "img_name") BY <1>2, <2>1 DEF NoKey
    <2> QED BY <1>1, <2>2, NotInPart
  <1>8. ASSUME d # 2 PROVE Field(q, "img_size", 0) = Len(s[1].data)
    <2>1. PICK m : m = 2 OBVIOUS
    <2>2. m \in a .. e - 1 /\ text[m].k = "img_size" /\ text[m].v = Len(s[1].data) BY <1>0, <1>1, <1>8, <2>1 DEF KeyedBut
    <2>3. \A i \in m + 1 .. e - 1 : i \in a .. e - 1 /\ i # 2 BY <1>1, <2>1
    <2>4. \A i \in m + 1 .. e - 1 : text[i].k # "img_size"
      BY <1>3, <1>4, <1>5, <2>3 DEF KeyedBut, SectionKeys
    <2>5. KeyAt(text, a, e, m, "img_size") BY <1>2, <2>2, <2>4 DEF KeyAt
    <2> QED BY <1>1, <2>2, <2>5, InPart
  <1>9. ASSUME d = 2 PROVE Field(q, "img_size", 0) = 0
    <2>1. \A i \in a .. e - 1 : text[i].k # "img_size"
      BY <1>3, <1>4, <1>5, <1>9 DEF KeyedBut, SectionKeys
    <2>2. NoKey(text, a, e, "img_size") BY <1>2, <2>1 DEF NoKey
    <2> QED BY <1>1, <2>2, NotInPart
  <1>10. ASSUME d # 3 PROVE Has(q, "img_md5") /\ Field(q, "img_md5", <<>>) = s[1].data
    <2>1. PICK m : m = 3 OBVIOUS
    <2>2. m \in a .. e - 1 /\ text[m].k = "img_md5" /\ text[m].v = s[1].data BY <1>0, <1>1, <1>10, <2>1 DEF KeyedBut
    <2>3. \A i \in m + 1 .. e - 1 : i \in a .. e - 1 /\ i # 3 BY <1>1, <2>1
    <2>4. \A i \in m + 1 .. e - 1 : text[i].k # "img_md5"
      BY <1>3, <1>4, <1>5, <2>3 DEF KeyedBut, SectionKeys
    <2>5. KeyAt(text, a, e, m, "img_md5") BY <1>2, <2>2, <2>4 DEF KeyAt
    <2> QED BY <1>1, <2>2, <2>5, InPart
  <1> HIDE DEF q
  <1>11. SaysBut(q, s[1], 1, d) BY <1>6, <1>7, <1>8, <1>9, <1>10 DEF SaysBut
  <1> QED BY <1>11 DEF q

LEMMA NearSecond ==
  ASSUME NEW S, NEW text \in Seq(S), Len(text) = HeaderSize, NEW s, NEW d \in Nat, KeyedBut(text, s, d), d # 5
  PROVE  SaysBut(SubSeq(text, 6, PartEnd(d) - 1), s[2], 6, d)
  <1> DEFINE q == SubSeq(text, 6, PartEnd(d) - 1)
  <1>0. HeaderSize \in Nat /\ HeaderSize >= 12 BY SizesAssumption, RoomAssumption
  <1>1. PICK a, e : a = 6 /\ e = PartEnd(d) OBVIOUS
  <1>2. a \in 1 .. Len(text) /\ e \in a + 1 .. Len(text) + 1 BY <1>0, <1>1 DEF PartEnd
  <1>3. \A i \in a .. e - 1 : i \in {6, 7, 8, 9} \/ i \in 10 .. HeaderSize BY <1>0, <1>1 DEF PartEnd
  <1>4. \A i \in {6, 7, 8, 9} : i = d => text[i].k = "junk"
    <2>1. \A i \in {6, 7, 8, 9} : i \in 1 .. 12 OBVIOUS
    <2> QED BY <2>1 DEF KeyedBut, PartEnd
  <1>5. \A i \in 10 .. HeaderSize : text[i].k \notin SectionKeys BY LastLines
  <1>6. ASSUME d # 6 PROVE Has(q, "img_name") /\ Field(q, "img_name", <<>>) = s[2].name
    <2>1. PICK m : m = 6 OBVIOUS
    <2>2. m \in a .. e - 1 /\ text[m].k = "img_name" /\ text[m].v = s[2].name BY <1>0, <1>1, <1>6, <2>1 DEF KeyedBut, PartEnd
    <2>3. \A i \in m + 1 .. e - 1 : i \in a .. e - 1 /\ i # 6 BY <1>1, <2>1 DEF PartEnd
    <2>4. \A i \in m + 1 .. e - 1 : text[i].k # "img_name"
      BY <1>3, <1>4, <1>5, <2>3 DEF KeyedBut, SectionKeys
    <2>5. KeyAt(text, a, e, m, "img_name") BY <1>2, <2>2, <2>4 DEF KeyAt
    <2> QED BY <1>1, <2>2, <2>5, InPart
  <1>7. ASSUME d = 6 PROVE ~ Has(q, "img_name")
    <2>1. \A i \in a .. e - 1 : text[i].k # "img_name"
      BY <1>3, <1>4, <1>5, <1>7 DEF KeyedBut, SectionKeys
    <2>2. NoKey(text, a, e, "img_name") BY <1>2, <2>1 DEF NoKey
    <2> QED BY <1>1, <2>2, NotInPart
  <1>8. ASSUME d # 7 PROVE Field(q, "img_size", 0) = Len(s[2].data)
    <2>1. PICK m : m = 7 OBVIOUS
    <2>2. m \in a .. e - 1 /\ text[m].k = "img_size" /\ text[m].v = Len(s[2].data) BY <1>0, <1>1, <1>8, <2>1 DEF KeyedBut, PartEnd
    <2>3. \A i \in m + 1 .. e - 1 : i \in a .. e - 1 /\ i # 7 BY <1>1, <2>1 DEF PartEnd
    <2>4. \A i \in m + 1 .. e - 1 : text[i].k # "img_size"
      BY <1>3, <1>4, <1>5, <2>3 DEF KeyedBut, SectionKeys
    <2>5. KeyAt(text, a, e, m, "img_size") BY <1>2, <2>2, <2>4 DEF KeyAt
    <2> QED BY <1>1, <2>2, <2>5, InPart
  <1>9. ASSUME d = 7 PROVE Field(q, "img_size", 0) = 0
    <2>1. \A i \in a .. e - 1 : text[i].k # "img_size"
      BY <1>3, <1>4, <1>5, <1>9 DEF KeyedBut, SectionKeys
    <2>2. NoKey(text, a, e, "img_size") BY <1>2, <2>1 DEF NoKey
    <2> QED BY <1>1, <2>2, NotInPart
  <1>10. ASSUME d # 8 PROVE Has(q, "img_md5") /\ Field(q, "img_md5", <<>>) = s[2].data
    <2>1. PICK m : m = 8 OBVIOUS
    <2>2. m \in a .. e - 1 /\ text[m].k = "img_md5" /\ text[m].v = s[2].data BY <1>0, <1>1, <1>10, <2>1 DEF KeyedBut, PartEnd
    <2>3. \A i \in m + 1 .. e - 1 : i \in a .. e - 1 /\ i # 8 BY <1>1, <2>1 DEF PartEnd
    <2>4. \A i \in m + 1 .. e - 1 : text[i].k # "img_md5"
      BY <1>3, <1>4, <1>5, <2>3 DEF KeyedBut, SectionKeys
    <2>5. KeyAt(text, a, e, m, "img_md5") BY <1>2, <2>2, <2>4 DEF KeyAt
    <2> QED BY <1>1, <2>2, <2>5, InPart
  <1> HIDE DEF q
  <1>11. SaysBut(q, s[2], 6, d) BY <1>6, <1>7, <1>8, <1>9, <1>10 DEF SaysBut
  <1> QED BY <1>11 DEF q

\* A header with one section.
LEMMA OnePart ==
  ASSUME NEW S, NEW text \in Seq(S), NEW a, SectionStarts(text) = {a}
  PROVE  Len(Parts(text)) = 1 /\ Parts(text)[1] = PartAt(text, a)
  <1>1. a \in SectionStarts(text) /\ SectionStarts(text) \in SUBSET Nat BY StartsFinite
  <1>2. {b \in SectionStarts(text) : b <= a} = {a}
    <2>1. a <= a BY <1>1
    <2> QED BY <2>1
  <1>3. Cardinality({a}) = 1 BY FS_Singleton
  <1>4. Parts(text)[1] = PartAt(text, a) BY <1>1, <1>2, <1>3, PartsAt
  <1>5. Len(Parts(text)) = 1 BY <1>3 DEF Parts
  <1> QED BY <1>4, <1>5

LEMMA TwoParts ==
  ASSUME NEW S, NEW text \in Seq(S), SectionStarts(text) = {1, 6}
  PROVE  Len(Parts(text)) = 2 /\ Parts(text)[1] = PartAt(text, 1) /\ Parts(text)[2] = PartAt(text, 6)
  <1>1. 1 \in SectionStarts(text) /\ 6 \in SectionStarts(text) OBVIOUS
  <1>2. {b \in SectionStarts(text) : b <= 1} = {1} /\ {b \in SectionStarts(text) : b <= 6} = {1, 6} OBVIOUS
  <1>3. Cardinality({1}) = 1 /\ Cardinality({1, 6}) = 2 BY TwoStarts
  <1>4. Parts(text)[1] = PartAt(text, 1) BY <1>1, <1>2, <1>3, PartsAt
  <1>5. Parts(text)[2] = PartAt(text, 6) BY <1>1, <1>2, <1>3, PartsAt
  <1>6. Cardinality(SectionStarts(text)) = 2 BY <1>3, Zenon
  <1>7. Len(Parts(text)) = 2 BY <1>6 DEF Parts
  <1> QED BY <1>4, <1>5, <1>7

\* Without the name of one section, or without the blank line between them, only one is
\* described, and it is as long as one of the two.
LEMMA NearParts ==
  ASSUME NEW S, NEW text \in Seq(S), Len(text) = HeaderSize, NEW s, IsPack(s), NEW d \in Nat, KeyedBut(text, s, d)
  PROVE  /\ d \notin {1, 5, 6} =>
              /\ Len(Parts(text)) = 2 /\ Parts(text)[1] = SubSeq(text, 1, 5 - 1)
              /\ Parts(text)[2] = SubSeq(text, 6, PartEnd(d) - 1)
         /\ d \in {1, 5, 6} =>
              Len(Parts(text)) = 1 /\ Size(Parts(text)[1]) \in {Len(s[1].data), Len(s[2].data)}
  <1>0. HeaderSize \in Nat /\ HeaderSize >= 12 BY SizesAssumption, RoomAssumption
  <1>1. /\ PartStarts(text) \subseteq {1, 6, 11} /\ 1 \in PartStarts(text) /\ (6 \in PartStarts(text) <=> d # 5)
        /\ PartAt(text, 1) = SubSeq(text, 1, (IF d = 5 THEN 10 ELSE 5) - 1)
        /\ PartAt(text, 6) = SubSeq(text, 6, PartEnd(d) - 1)
        /\ ~ Has(PartAt(text, 11), "img_name")
    BY NearStarts
  <1>2. \A a : a \in SectionStarts(text) <=> a \in PartStarts(text) /\ Has(PartAt(text, a), "img_name")
    BY Zenon DEF SectionStarts
  <1>3. \A i \in 1 .. 2 : Len(s[i].data) \in Nat BY PackIs, SectionsAre
  <1> DEFINE q == PartAt(text, 1)
             r == PartAt(text, 6)
  <1>4. d # 5 => /\ Has(q, "img_name") <=> d # 1
                 /\ Field(q, "img_size", 0) = IF d = 2 THEN 0 ELSE Len(s[1].data)
    <2>1. d # 5 => SaysBut(q, s[1], 1, d) BY <1>1, NearFirst
    <2> HIDE DEF q
    <2> QED BY <2>1 DEF SaysBut
  <1>5. d # 5 => /\ Has(r, "img_name") <=> d # 6
                 /\ Field(r, "img_size", 0) = IF d = 7 THEN 0 ELSE Len(s[2].data)
    <2>1. d # 5 => SaysBut(r, s[2], 6, d) BY <1>1, NearSecond
    <2> HIDE DEF r
    <2> QED BY <2>1 DEF SaysBut
  <1>6. d = 5 => Has(q, "img_name") /\ Field(q, "img_size", 0) = Len(s[2].data)
    <2> SUFFICES ASSUME d = 5 PROVE Has(q, "img_name") /\ Field(q, "img_size", 0) = Len(s[2].data) OBVIOUS
    <2>1. PICK a, e, m, n : a = 1 /\ e = 10 /\ m = 6 /\ n = 7 OBVIOUS
    <2>2. q = SubSeq(text, a, e - 1) BY <1>1, <2>1
    <2>3. a \in 1 .. Len(text) /\ e \in a + 1 .. Len(text) + 1 /\ m \in a .. e - 1 /\ n \in a .. e - 1 BY <1>0, <2>1
    <2>4. text[m].k = "img_name" /\ text[n].k = "img_size" /\ text[n].v = Len(s[2].data) BY <2>1 DEF KeyedBut
    <2>5. \A i \in m + 1 .. e - 1 : i \in {7, 8, 9} BY <2>1
    <2>6. \A i \in n + 1 .. e - 1 : i \in {8, 9} BY <2>1
    <2>7. text[7].k = "img_size" /\ text[8].k = "img_md5" /\ text[9].k = "img_crc" BY DEF KeyedBut
    <2>8. KeyAt(text, a, e, m, "img_name") /\ KeyAt(text, a, e, n, "img_size")
      BY <2>3, <2>4, <2>5, <2>6, <2>7 DEF KeyAt
    <2> HIDE DEF q
    <2> QED BY <2>2, <2>4, <2>8, InPart
  <1>7. ASSUME d \notin {1, 5, 6} PROVE SectionStarts(text) = {1, 6}
    <2>1. 1 \in SectionStarts(text) /\ 6 \in SectionStarts(text) BY <1>1, <1>2, <1>4, <1>5, <1>7
    <2>2. \A a \in SectionStarts(text) : a = 1 \/ a = 6 BY <1>1, <1>2
    <2> QED BY <2>1, <2>2
  <1>8. ASSUME d = 1 PROVE SectionStarts(text) = {6}
    <2>1. 1 \notin SectionStarts(text) /\ 6 \in SectionStarts(text) BY <1>1, <1>2, <1>4, <1>5, <1>8
    <2>2. \A a \in SectionStarts(text) : a = 6 BY <1>1, <1>2, <2>1
    <2> QED BY <2>1, <2>2
  <1>9. ASSUME d = 5 \/ d = 6 PROVE SectionStarts(text) = {1}
    <2>1. 1 \in SectionStarts(text) /\ 6 \notin SectionStarts(text) BY <1>1, <1>2, <1>4, <1>5, <1>6, <1>9
    <2>2. \A a \in SectionStarts(text) : a = 1 BY <1>1, <1>2, <2>1
    <2> QED BY <2>1, <2>2
  <1>10. ASSUME d \notin {1, 5, 6}
         PROVE  /\ Len(Parts(text)) = 2 /\ Parts(text)[1] = SubSeq(text, 1, 5 - 1)
                /\ Parts(text)[2] = SubSeq(text, 6, PartEnd(d) - 1)
    <2>1. PartAt(text, 1) = SubSeq(text, 1, 5 - 1) BY <1>1, <1>10
    <2> QED BY <1>1, <1>7, <1>10, <2>1, TwoParts
  <1>11. ASSUME d = 1 PROVE Len(Parts(text)) = 1 /\ Size(Parts(text)[1]) = Len(s[2].data)
    <2>1. Len(Parts(text)) = 1 /\ Parts(text)[1] = r BY <1>8, <1>11, OnePart
    <2>2. Field(r, "img_size", 0) = Len(s[2].data) /\ Len(s[2].data) \in Nat BY <1>3, <1>5, <1>11
    <2> HIDE DEF r
    <2> QED BY <2>1, <2>2 DEF Size
  <1>12. ASSUME d = 5 \/ d = 6 PROVE Len(Parts(text)) = 1 /\ Size(Parts(text)[1]) \in {Len(s[1].data), Len(s[2].data)}
    <2>1. Len(Parts(text)) = 1 /\ Parts(text)[1] = q BY <1>9, <1>12, OnePart
    <2>2. Field(q, "img_size", 0) \in {Len(s[1].data), Len(s[2].data)} BY <1>4, <1>6, <1>12
    <2>3. Len(s[1].data) \in Nat /\ Len(s[2].data) \in Nat BY <1>3
    <2> HIDE DEF q
    <2> QED BY <2>1, <2>2, <2>3 DEF Size
  <1> QED BY <1>10, <1>11, <1>12

LEMMA NearMarked ==
  ASSUME NEW text, IsText(text), Len(text) = HeaderSize, NEW s, IsPack(s), NEW d \in Nat, KeyedBut(text, s, d),
         d \notin {1, 2, 3, 5, 6, 7, 8}
  PROVE  Marked(text, s) /\ Len(Parts(text)) = Len(s)
  <1>1. PICK S : text \in Seq(S) BY DEF IsText
  <1>2. Len(s) = 2 BY PackIs
  <1> DEFINE q == Parts(text)[1]
             r == Parts(text)[2]
  <1>3. /\ Len(Parts(text)) = 2 /\ q = SubSeq(text, 1, 5 - 1) /\ r = SubSeq(text, 6, PartEnd(d) - 1)
    BY <1>1, NearParts
  <1>4. SaysBut(q, s[1], 1, d) /\ SaysBut(r, s[2], 6, d) BY <1>1, <1>3, NearFirst, NearSecond
  <1> HIDE DEF q, r
  <1>5. MarkOf(q, s[1]) /\ MarkOf(r, s[2]) BY <1>4 DEF SaysBut, MarkOf
  <1>6. \A i \in 1 .. 2 : i = 1 \/ i = 2 OBVIOUS
  <1>7. MarkOf(Parts(text)[1], s[1]) /\ MarkOf(Parts(text)[2], s[2]) BY <1>5 DEF q, r
  <1>8. \A i \in 1 .. Len(s) : MarkOf(Parts(text)[i], s[i]) BY <1>2, <1>6, <1>7
  <1> QED BY <1>2, <1>3, <1>8 DEF Marked

LEMMA NearPacket ==
  ASSUME NEW text, IsText(text), Len(text) = HeaderSize, NEW s, NEW d \in Nat, KeyedBut(text, s, d), d # 12
  PROVE  Has(text, "ota_img_packet_md5") /\ Field(text, "ota_img_packet_md5", <<>>) = Concat(s)
  <1>0. HeaderSize \in Nat /\ HeaderSize >= 12 BY SizesAssumption, RoomAssumption
  <1>1. PICK S : text \in Seq(S) BY DEF IsText
  <1>2. PICK e : e = 12 OBVIOUS
  <1>3. text[e].k = "ota_img_packet_md5" /\ text[e].v = Concat(s) BY <1>2 DEF KeyedBut
  <1>4. \A i \in e + 1 .. Len(text) : i \in 10 .. HeaderSize /\ i > 12 BY <1>0, <1>2
  <1>5. \A i \in e + 1 .. Len(text) : text[i].k # "ota_img_packet_md5" BY <1>4, LastLines DEF GlobalKeys
  <1>6. e \in 1 .. Len(text) /\ DOMAIN text = 1 .. Len(text) BY <1>0, <1>1, <1>2
  <1>7. LastWith(text, "ota_img_packet_md5", e) BY <1>3, <1>5, <1>6 DEF LastWith
  <1> QED BY <1>1, <1>3, <1>6, <1>7, FieldLast DEF Has

\* The sections that are read have the sizes that the header gives.
LEMMA ParseSizes ==
  ASSUME NEW f, IsText(f), Len(f) >= HeaderSize, Parse(f) # <<>>
  PROVE  IsSections(Parse(f)) /\ \A i \in 1 .. Len(Parse(f)) : Len(Parse(f)[i].data) = Size(Described(f)[i])
  <1> DEFINE p == Described(f)
             r == Parse(f)
  <1>1. /\ Len(r) = Cardinality(FitSet(f, p)) /\ Len(r) \in 1 .. Len(p) /\ IsText(r)
        /\ \A i \in 1 .. Len(r) : r[i] = SectionAt(f, p, i)
    BY ParseText
  <1>2. PICK S : p \in Seq(S) BY DescribedIs DEF IsText
  <1>3. Len(p) \in Nat /\ Len(f) \in Nat BY DescribedIs, TextLen
  <1>4. PICK T : f \in Seq(T) BY DEF IsText
  <1> HIDE DEF p, r
  <1>5. ASSUME NEW i \in 1 .. Len(r)
        PROVE  /\ r[i] = [name |-> r[i].name, data |-> r[i].data]
               /\ IsText(r[i].data) /\ Len(r[i].data) = Size(p[i])
    <2>1. i \in 1 .. Len(p) BY <1>1, <1>3
    <2>2. i \in 1 .. Len(p) + 1 /\ i + 1 \in 2 .. Len(p) + 1 /\ (i + 1) - 1 = i BY <1>3, <2>1
    <2>3. Offset(p, i) \in Nat BY <1>3, <2>2, OffsetStep
    <2>4. Offset(p, i + 1) = Offset(p, i) + Size(p[i]) /\ Size(p[i]) \in Nat BY <1>3, <2>2, OffsetStep, SizeNat
    <2>5. Offset(p, i + 1) <= Len(f)
      <3>1. i <= Cardinality(FitSet(f, p)) BY <1>1, <1>3
      <3> QED BY <1>2, <2>1, <3>1, FitsPrefix
    <2>6. PICK a, z : a = Offset(p, i) /\ z = Size(p[i]) OBVIOUS
    <2>7. a + 1 \in 1 .. Len(f) + 1 /\ a + z \in (a + 1) - 1 .. Len(f) /\ (a + z) - (a + 1) + 1 = z
      BY <1>3, <2>3, <2>4, <2>5, <2>6
    <2>8. SubSeq(f, a + 1, a + z) \in Seq(T) /\ Len(SubSeq(f, a + 1, a + z)) = (a + z) - (a + 1) + 1
      BY <1>4, <2>7, SubSeqIs
    <2>9. r[i] = [name |-> Field(p[i], "img_name", <<>>), data |-> SubSeq(f, a + 1, a + z)]
      BY <1>1, <2>4, <2>6 DEF SectionAt
    <2>10. IsText(SubSeq(f, a + 1, a + z)) BY <2>8, SeqText
    <2> QED BY <2>6, <2>7, <2>8, <2>9, <2>10
  <1>6. IsSections(r)
    <2>1. DOMAIN r = 1 .. Len(r) BY <1>1, TextLen
    <2> QED BY <1>1, <1>5, <2>1 DEF IsSections
  <1> QED BY <1>5, <1>6 DEF p, r

\* t is what d holds after its first o cells.
HeldAt(d, o, t) == IsText(t) /\ \A j \in 1 .. Len(t) : d[o + j] = t[j]

LEMMA HeldSame ==
  ASSUME NEW d, NEW o, NEW t, NEW u, HeldAt(d, o, t), HeldAt(d, o, u), Len(t) = Len(u)
  PROVE  t = u
  <1>1. \A j \in 1 .. Len(t) : t[j] = u[j] BY Zenon DEF HeldAt
  <1> QED BY <1>1, SameText DEF HeldAt

\* The data of two sections is the same when their lengths are and the data of all is.
LEMMA SameData ==
  ASSUME NEW r, IsSections(r), NEW s, IsSections(s), Len(r) = 2, Len(s) = 2, Concat(r) = Concat(s),
         Len(r[1].data) = Len(s[1].data), Len(r[2].data) = Len(s[2].data)
  PROVE  r[1].data = s[1].data /\ r[2].data = s[2].data
  <1>1. PICK P : Laid(s, P) BY ConcatLaid
  <1>2. PICK Q : Laid(r, Q) BY ConcatLaid
  <1>3. 1 \in 1 .. 2 /\ 2 \in 1 .. 2 /\ 1 - 1 = 0 /\ 2 - 1 = 1 OBVIOUS
  <1>4. /\ P[0] = 0 /\ P[1] = P[0] + Len(s[1].data) /\ \A j \in 1 .. Len(s[1].data) : Concat(s)[P[0] + j] = s[1].data[j]
        /\ \A j \in 1 .. Len(s[2].data) : Concat(s)[P[1] + j] = s[2].data[j]
    <2>1. \A i \in 1 .. 2 : /\ P[i] = P[i - 1] + Len(s[i].data)
                            /\ \A j \in 1 .. Len(s[i].data) : Concat(s)[P[i - 1] + j] = s[i].data[j]
      BY <1>1, Zenon DEF Laid
    <2>2. P[0] = 0 BY <1>1 DEF Laid
    <2>3. P[1] = P[1 - 1] + Len(s[1].data) /\ \A j \in 1 .. Len(s[1].data) : Concat(s)[P[1 - 1] + j] = s[1].data[j]
      BY <1>3, <2>1, Zenon
    <2>4. \A j \in 1 .. Len(s[2].data) : Concat(s)[P[2 - 1] + j] = s[2].data[j] BY <1>3, <2>1, Zenon
    <2> QED BY <1>3, <2>2, <2>3, <2>4, Zenon
  <1>5. /\ Q[0] = 0 /\ Q[1] = Q[0] + Len(r[1].data) /\ \A j \in 1 .. Len(r[1].data) : Concat(r)[Q[0] + j] = r[1].data[j]
        /\ \A j \in 1 .. Len(r[2].data) : Concat(r)[Q[1] + j] = r[2].data[j]
    <2>1. \A i \in 1 .. 2 : /\ Q[i] = Q[i - 1] + Len(r[i].data)
                            /\ \A j \in 1 .. Len(r[i].data) : Concat(r)[Q[i - 1] + j] = r[i].data[j]
      BY <1>2, Zenon DEF Laid
    <2>2. Q[0] = 0 BY <1>2 DEF Laid
    <2>3. Q[1] = Q[1 - 1] + Len(r[1].data) /\ \A j \in 1 .. Len(r[1].data) : Concat(r)[Q[1 - 1] + j] = r[1].data[j]
      BY <1>3, <2>1, Zenon
    <2>4. \A j \in 1 .. Len(r[2].data) : Concat(r)[Q[2 - 1] + j] = r[2].data[j] BY <1>3, <2>1, Zenon
    <2> QED BY <1>3, <2>2, <2>3, <2>4, Zenon
  <1>6. \A i \in 1 .. 2 : IsText(r[i].data) /\ IsText(s[i].data) BY SectionsAre
  <1>7. Q[1] = P[1] BY <1>4, <1>5
  <1>8. HeldAt(Concat(s), P[0], s[1].data) /\ HeldAt(Concat(s), P[1], s[2].data)
    BY <1>3, <1>4, <1>6, Zenon DEF HeldAt
  <1>9. HeldAt(Concat(r), Q[0], r[1].data) /\ HeldAt(Concat(r), Q[1], r[2].data)
    BY <1>3, <1>5, <1>6, Zenon DEF HeldAt
  <1>10. Q[0] = P[0] BY <1>4, <1>5
  <1> QED BY <1>7, <1>8, <1>9, <1>10, HeldSame

LEMMA ConcatLen ==
  ASSUME NEW r, IsSections(r)
  PROVE  /\ Len(r) = 1 => Len(Concat(r)) = Len(r[1].data)
         /\ Len(r) = 2 => Len(Concat(r)) = Len(r[1].data) + Len(r[2].data)
  <1>1. PICK P : Laid(r, P) BY ConcatLaid
  <1>2. /\ P[0] = 0 /\ Len(Concat(r)) = P[Len(r)]
        /\ \A i \in 1 .. Len(r) : P[i] = P[i - 1] + Len(r[i].data)
    BY <1>1 DEF Laid
  <1>3. \A i \in 1 .. Len(r) : Len(r[i].data) \in Nat BY SectionsAre
  <1>4. ASSUME Len(r) = 1 PROVE Len(Concat(r)) = Len(r[1].data)
    <2>1. P[1] = P[1 - 1] + Len(r[1].data) /\ Len(r[1].data) \in Nat /\ 1 - 1 = 0 BY <1>2, <1>3, <1>4
    <2> QED BY <1>2, <1>4, <2>1
  <1>5. ASSUME Len(r) = 2 PROVE Len(Concat(r)) = Len(r[1].data) + Len(r[2].data)
    <2>1. P[1] = P[1 - 1] + Len(r[1].data) /\ Len(r[1].data) \in Nat /\ 1 - 1 = 0 BY <1>2, <1>3, <1>5
    <2>2. P[2] = P[2 - 1] + Len(r[2].data) /\ Len(r[2].data) \in Nat /\ 2 - 1 = 1 BY <1>2, <1>3, <1>5
    <2>3. P[1] = Len(r[1].data) BY <1>2, <2>1
    <2>4. P[2] = Len(r[1].data) + Len(r[2].data) BY <2>2, <2>3, Zenon
    <2>5. Len(Concat(r)) = P[2] BY <1>2, <1>5, Zenon
    <2> QED BY <2>4, <2>5, Zenon
  <1> QED BY <1>4, <1>5

\* When the file holds all sections that are described, the MD5 of the packet counts.
LEMMA PacketCounts ==
  ASSUME NEW f, IsText(f), Len(f) >= HeaderSize, NEW s, NEW d \in Nat, KeyedBut(HeaderText(f), s, d), d # 12,
         Parse(f) # <<>>, Offset(Described(f), Len(Described(f)) + 1) <= Len(f)
  PROVE  Len(Parse(f)) = Len(Described(f)) /\ Concat(Parse(f)) = Concat(s)
  <1> DEFINE p == Described(f)
             n == Cardinality(FitSet(f, p))
  <1>1. /\ Accepts(f, p) /\ Parse(f) = Found(f, p) /\ Len(Parse(f)) = n /\ Len(Parse(f)) \in 1 .. Len(p)
    BY ParseText
  <1>2. PICK S : p \in Seq(S) BY DescribedIs DEF IsText
  <1>3. Len(p) \in Nat BY DescribedIs
  <1>4. Len(p) \in 1 .. Len(p) BY <1>1, <1>3
  <1>5. n \in 0 .. Len(p) /\ Len(p) <= n BY <1>2, <1>4, FitsPrefix
  <1>6. n = Len(p) BY <1>3, <1>5
  <1>7. PacketOk(HeaderText(f), Parse(f)) BY <1>1, <1>6 DEF Accepts
  <1>8. /\ Has(HeaderText(f), "ota_img_packet_md5")
        /\ Field(HeaderText(f), "ota_img_packet_md5", <<>>) = Concat(s)
    BY HeaderTextIs, NearPacket
  <1> QED BY <1>1, <1>6, <1>7, <1>8 DEF PacketOk

\* Where the sections end that a header describes with one or two parts.
LEMMA EndsAt ==
  ASSUME NEW p, Len(p) \in Nat
  PROVE  /\ Len(p) = 1 => Offset(p, Len(p) + 1) = HeaderSize + Size(p[1])
         /\ Len(p) = 2 => Offset(p, Len(p) + 1) = HeaderSize + Size(p[1]) + Size(p[2])
  <1>1. /\ Offset(p, 1) = HeaderSize
        /\ \A j \in 2 .. Len(p) + 1 : Offset(p, j) = Offset(p, j - 1) + Size(p[j - 1])
    BY OffsetStep
  <1>2. ASSUME Len(p) = 1 PROVE Offset(p, Len(p) + 1) = HeaderSize + Size(p[1])
    <2>1. PICK j : j = 2 OBVIOUS
    <2>2. j \in 2 .. Len(p) + 1 /\ j - 1 = 1 /\ Len(p) + 1 = j BY <1>2, <2>1
    <2>3. Offset(p, j) = Offset(p, j - 1) + Size(p[j - 1]) BY <1>1, <2>2
    <2> QED BY <1>1, <2>2, <2>3
  <1>3. ASSUME Len(p) = 2 PROVE Offset(p, Len(p) + 1) = HeaderSize + Size(p[1]) + Size(p[2])
    <2>1. PICK i, j : i = 2 /\ j = 3 OBVIOUS
    <2>2. i \in 2 .. Len(p) + 1 /\ i - 1 = 1 /\ j \in 2 .. Len(p) + 1 /\ j - 1 = i /\ Len(p) + 1 = j BY <1>3, <2>1
    <2>3. Offset(p, i) = Offset(p, i - 1) + Size(p[i - 1]) BY <1>1, <2>2
    <2>4. Offset(p, j) = Offset(p, j - 1) + Size(p[j - 1]) BY <1>1, <2>2
    <2> QED BY <1>1, <2>1, <2>2, <2>3, <2>4
  <1> QED BY <1>2, <1>3

\* The MD5 of the packet finds the damage that takes the name, the size or the MD5 of a
\* section, or the line between two sections, from the header.
LEMMA DamageFound ==
  ASSUME NEW f, IsText(f), NEW s, IsPack(s), Len(f) >= OutputSize(s), NEW d \in Nat, KeyedBut(HeaderText(f), s, d),
         d \in {1, 2, 3, 5, 6, 7, 8}, Parse(f) # <<>>
  PROVE  Begins(Parse(f), f, s)
  <1> DEFINE p == Described(f)
             r == Parse(f)
             h == HeaderText(f)
  <1>1. /\ IsSections(s) /\ Len(s) = 2 /\ IsText(s[1].data) /\ IsText(s[2].data)
        /\ Len(s[1].data) \in Nat \ {0} /\ Len(s[2].data) \in Nat \ {0}
    <2>1. IsSections(s) /\ Len(s) = 2 /\ s[1].data # <<>> /\ s[2].data # <<>> BY PackIs
    <2>2. \A i \in 1 .. 2 : IsText(s[i].data) /\ Len(s[i].data) \in Nat BY <2>1, SectionsAre
    <2>3. \A i \in 1 .. 2 : s[i].data # <<>> => Len(s[i].data) # 0
      <3> SUFFICES ASSUME NEW i \in 1 .. 2, Len(s[i].data) = 0 PROVE s[i].data = <<>> OBVIOUS
      <3>1. PICK S : s[i].data \in Seq(S) BY <2>2 DEF IsText
      <3> QED BY <3>1, NoCells
    <2> QED BY <2>1, <2>2, <2>3
  <1>2. PICK l1 \in Nat \ {0}, l2 \in Nat \ {0} : l1 = Len(s[1].data) /\ l2 = Len(s[2].data) BY <1>1
  <1>3. Len(Concat(s)) = l1 + l2 BY <1>1, <1>2, ConcatLen
  <1>4. HeaderSize \in Nat /\ Len(f) \in Nat /\ MaxImages \in Nat \ {0} BY SizesAssumption, TextLen
  <1>5. HeaderSize + (l1 + l2) <= Len(f) BY <1>3 DEF OutputSize
  <1>6. Len(f) >= HeaderSize BY <1>4, <1>5
  <1>7. IsText(h) /\ Len(h) = HeaderSize BY <1>6, HeaderTextIs
  <1>8. PICK S : h \in Seq(S) BY <1>7 DEF IsText
  <1>9. /\ Len(p) \in Nat /\ Len(p) = Min({MaxImages, Len(Parts(h))})
        /\ \A i \in 1 .. Len(p) : p[i] = Parts(h)[i] /\ i \in 1 .. Len(Parts(h))
    BY <1>6, DescribedIs
  <1>10. /\ d \notin {1, 5, 6} =>
              /\ Len(Parts(h)) = 2 /\ Parts(h)[1] = SubSeq(h, 1, 5 - 1)
              /\ Parts(h)[2] = SubSeq(h, 6, PartEnd(d) - 1)
         /\ d \in {1, 5, 6} => Len(Parts(h)) = 1 /\ Size(Parts(h)[1]) \in {Len(s[1].data), Len(s[2].data)}
    BY <1>7, <1>8, NearParts
  <1>11. /\ IsSections(r) /\ \A i \in 1 .. Len(r) : Len(r[i].data) = Size(p[i])
         /\ Len(r) \in 1 .. Len(p) /\ \A i \in 1 .. Len(r) : r[i] = SectionAt(f, p, i)
    BY <1>6, ParseSizes, ParseText
  <1>12. d # 5 => SaysBut(SubSeq(h, 1, 5 - 1), s[1], 1, d) /\ SaysBut(SubSeq(h, 6, PartEnd(d) - 1), s[2], 6, d)
    BY <1>7, <1>8, NearFirst, NearSecond
  <1>13. Offset(p, Len(p) + 1) <= Len(f) => Len(r) = Len(p) /\ Concat(r) = Concat(s)
    BY <1>6, PacketCounts
  <1>14. \A z \in Nat : \A q : Field(q, "img_size", 0) = z => Size(q) = z BY DEF Size
  <1> HIDE DEF p, r, h
  <1>15. d \notin {1, 5, 6} => /\ Size(Parts(h)[1]) = IF d = 2 THEN 0 ELSE l1
                               /\ Size(Parts(h)[2]) = IF d = 7 THEN 0 ELSE l2
    <2> SUFFICES ASSUME d \notin {1, 5, 6}
                 PROVE  /\ Size(Parts(h)[1]) = IF d = 2 THEN 0 ELSE l1
                        /\ Size(Parts(h)[2]) = IF d = 7 THEN 0 ELSE l2
      OBVIOUS
    <2>1. SaysBut(Parts(h)[1], s[1], 1, d) /\ SaysBut(Parts(h)[2], s[2], 6, d) BY <1>10, <1>12, Zenon
    <2>2. /\ Field(Parts(h)[1], "img_size", 0) = IF d = 2 THEN 0 ELSE l1
          /\ Field(Parts(h)[2], "img_size", 0) = IF d = 7 THEN 0 ELSE l2
      BY <1>2, <2>1 DEF SaysBut
    <2>3. (IF d = 2 THEN 0 ELSE l1) \in Nat /\ (IF d = 7 THEN 0 ELSE l2) \in Nat OBVIOUS
    <2> QED BY <1>14, <2>2, <2>3, Zenon
  <1>16. Len(p) # 1
    <2> SUFFICES ASSUME Len(p) = 1 PROVE FALSE OBVIOUS
    <2>1. p[1] = Parts(h)[1] BY <1>9
    <2>2. Size(p[1]) \in {0, l1, l2} BY <1>2, <1>10, <1>15, <2>1
    <2>3. Offset(p, Len(p) + 1) = HeaderSize + Size(p[1]) BY <1>9, EndsAt
    <2>4. Offset(p, Len(p) + 1) <= Len(f) BY <1>4, <1>5, <2>2, <2>3
    <2>5. Len(r) = 1 /\ Concat(r) = Concat(s) BY <1>13, <2>4
    <2>6. Len(Concat(r)) = Len(r[1].data) BY <1>11, <2>5, ConcatLen
    <2>7. Len(r[1].data) = Size(p[1]) BY <1>11, <2>5
    <2>8. Size(p[1]) = l1 + l2 BY <1>3, <2>5, <2>6, <2>7, Zenon
    <2> QED BY <2>2, <2>8
  <1>17. Len(p) = 2 /\ Len(Parts(h)) = 2
    <2>1. Len(Parts(h)) \in {1, 2} BY <1>10
    <2>2. Len(p) \in 1 .. Len(p) /\ Len(p) \in Nat BY <1>9, <1>11
    <2>3. Len(p) \in 1 .. Len(Parts(h)) BY <1>9, <2>2
    <2>4. PICK m, n : m = Len(p) /\ n = Len(Parts(h)) OBVIOUS
    <2>5. m = 2 /\ n = 2 BY <1>16, <2>1, <2>2, <2>3, <2>4
    <2> QED BY <2>4, <2>5, Zenon
  <1>18. d \notin {1, 5, 6} BY <1>10, <1>17
  <1>19. p[1] = Parts(h)[1] /\ p[2] = Parts(h)[2]
    <2>1. 1 \in 1 .. 2 /\ 2 \in 1 .. 2 OBVIOUS
    <2> QED BY <1>9, <1>17, <2>1, Zenon
  <1>20. PICK z1 \in Nat, z2 \in Nat : /\ z1 = Size(p[1]) /\ z2 = Size(p[2])
                                       /\ z1 = (IF d = 2 THEN 0 ELSE l1) /\ z2 = (IF d = 7 THEN 0 ELSE l2)
    BY <1>15, <1>18, <1>19
  <1>21. Offset(p, Len(p) + 1) = HeaderSize + z1 + z2 BY <1>9, <1>17, <1>20, EndsAt
  <1>22. Offset(p, Len(p) + 1) <= Len(f) BY <1>4, <1>5, <1>20, <1>21
  <1>23. Len(r) = 2 /\ Concat(r) = Concat(s) BY <1>13, <1>17, <1>22
  <1>24. Len(r[1].data) = z1 /\ Len(r[2].data) = z2
    <2>1. 1 \in 1 .. 2 /\ 2 \in 1 .. 2 OBVIOUS
    <2> QED BY <1>11, <1>20, <1>23, <2>1, Zenon
  <1>25. Len(Concat(r)) = z1 + z2 BY <1>11, <1>23, <1>24, ConcatLen
  <1>26. z1 + z2 = l1 + l2 BY <1>3, <1>23, <1>25, Zenon
  <1>27. z1 = l1 /\ z2 = l2 BY <1>20, <1>26
  <1>28. r[1].data = s[1].data /\ r[2].data = s[2].data BY <1>1, <1>2, <1>11, <1>23, <1>24, <1>27, SameData
  <1>29. r[1].name = s[1].name /\ r[2].name = s[2].name
    <2>1. SaysBut(p[1], s[1], 1, d) /\ SaysBut(p[2], s[2], 6, d) BY <1>10, <1>12, <1>18, <1>19, Zenon
    <2>2. Field(p[1], "img_name", <<>>) = s[1].name /\ Field(p[2], "img_name", <<>>) = s[2].name
      BY <1>18, <2>1 DEF SaysBut
    <2>3. r[1] = SectionAt(f, p, 1) /\ r[2] = SectionAt(f, p, 2) BY <1>11, <1>23
    <2> QED BY <2>2, <2>3 DEF SectionAt
  <1>30. Len(r) \in 1 .. Len(s) BY <1>1, <1>23
  <1>31. \A i \in 1 .. Len(r) : r[i].name = s[i].name /\ r[i].data = s[i].data
    <2>1. \A i \in 1 .. 2 : i = 1 \/ i = 2 OBVIOUS
    <2> QED BY <1>23, <1>28, <1>29, <2>1
  <1>32. ~ (Len(r) < Min({MaxImages, Len(s)}))
    <2>1. Min({MaxImages, 2}) <= 2 /\ Min({MaxImages, 2}) \in {MaxImages, 2}
      <3>1. MaxImages \in Int /\ 2 \in Int BY <1>4
      <3> QED BY <3>1, MinTwo, Zenon
    <2>2. Min({MaxImages, Len(s)}) = Min({MaxImages, 2}) BY <1>1
    <2>3. PICK m \in Nat : m = Min({MaxImages, 2}) BY <1>4, <2>1
    <2> QED BY <1>23, <2>1, <2>2, <2>3
  <1>33. Begins(r, f, s) BY <1>30, <1>31, <1>32, Zenon DEF Begins
  <1> QED BY <1>33 DEF r

\* A damaged image that is accepted is read as it was packed.
LEMMA DamagedExact ==
  ASSUME NEW f, IsText(f), NEW s, IsPack(s), Len(f) >= OutputSize(s), NEW d \in Nat, KeyedBut(HeaderText(f), s, d),
         Parse(f) # <<>>, \A i \in 1 .. Len(Parse(f)) : Parse(f)[i].data # <<>>
  PROVE  Begins(Parse(f), f, s)
  <1>1. ASSUME d \notin {1, 2, 3, 5, 6, 7, 8} PROVE Begins(Parse(f), f, s)
    <2>1. IsSections(s) /\ s # <<>>
      <3>1. IsSections(s) /\ Len(s) = 2 BY PackIs
      <3> QED BY <3>1
    <2>2. Len(f) >= HeaderSize
      <3>1. IsText(Concat(s)) BY <2>1, ConcatLaid
      <3>2. Len(Concat(s)) \in Nat /\ HeaderSize \in Nat /\ Len(f) \in Nat BY <3>1, TextLen, SizesAssumption
      <3> QED BY <3>2 DEF OutputSize
    <2>3. IsText(HeaderText(f)) /\ Len(HeaderText(f)) = HeaderSize BY <2>2, HeaderTextIs
    <2>4. Marked(HeaderText(f), s) /\ Len(Parts(HeaderText(f))) = Len(s) BY <1>1, <2>3, NearMarked
    <2> QED BY <2>1, <2>2, <2>4, ReadExact
  <1> QED BY <1>1, DamageFound

\* The header that mini_pack wrote for s, with at most one cell damaged, and nothing
\* behind it when it replaced all of an older one.
NearPacked(f, s, o, n) ==
  \E d \in Nat, c \in {Junk, Binary} :
    NearLines(f, s, d, c) /\ (o => NearHoles(f, d, c)) /\ (n = 0 => d = 0)

\* The file has the header of a mini_pack and not that of another tool.
Own == packed # <<>> /\ packed \notin {v.secs : v \in Vendor}

OwnInv ==
  /\ damage \in Nat
  /\ Own /\ damage <= 1 => IsPack(packed) /\ Len(file) >= HeaderSize /\ NearPacked(file, packed, over, damage)

LEMMA NearSame ==
  ASSUME NEW f, NEW g, NEW s, NEW o, NEW n, NearPacked(f, s, o, n), \A i \in 1 .. HeaderSize : g[i] = f[i]
  PROVE  NearPacked(g, s, o, n)
  <1>0. HeaderSize \in Nat /\ HeaderSize >= 12 BY SizesAssumption, RoomAssumption
  <1>1. PICK d \in Nat, c \in {Junk, Binary} :
          NearLines(f, s, d, c) /\ (o => NearHoles(f, d, c)) /\ (n = 0 => d = 0)
    BY DEF NearPacked
  <1>2. \A i \in 1 .. 12 : i \in 1 .. HeaderSize BY <1>0
  <1>3. \A i \in 13 .. HeaderSize : i \in 1 .. HeaderSize BY <1>0
  <1>4. NearLines(g, s, d, c) BY <1>1, <1>2, Zenon DEF NearLines
  <1>5. o => NearHoles(g, d, c) BY <1>1, <1>3, Zenon DEF NearHoles
  <1> QED BY <1>1, <1>4, <1>5, Zenon DEF NearPacked

\* The next mini_pack finds nothing behind the lines of the header that it replaces.
LEMMA NearOver ==
  ASSUME NEW f, NEW s, NEW o, NEW p, NEW n, NearPacked(f, s, o, n), p => Holes(f)
  PROVE  NearPacked(f, s, p, n)
  <1>1. PICK d \in Nat, c \in {Junk, Binary} :
          NearLines(f, s, d, c) /\ (o => NearHoles(f, d, c)) /\ (n = 0 => d = 0)
    BY DEF NearPacked
  <1>2. CASE d \in 0 .. 12
    <2>1. \A i \in 13 .. HeaderSize : i # d BY <1>2, SizesAssumption
    <2>2. p => NearHoles(f, d, c) BY <2>1 DEF Holes, NearHoles
    <2> QED BY <1>1, <2>2, Zenon DEF NearPacked
  <1>3. CASE d > 12
    <2>1. \A i \in 1 .. 12 : i # d /\ i # 0 BY <1>3
    <2>2. \A i \in 13 .. HeaderSize : i # 0 OBVIOUS
    <2>3. NearLines(f, s, 0, c) BY <1>1, <2>1, Zenon DEF NearLines
    <2>4. p => NearHoles(f, 0, c) BY <2>2, Zenon DEF Holes, NearHoles
    <2>5. 0 \in Nat OBVIOUS
    <2> QED BY <1>1, <2>3, <2>4, <2>5, Zenon DEF NearPacked
  <1> QED BY <1>2, <1>3

\* The first cell is damaged.
LEMMA NearDamage ==
  ASSUME NEW f, IsText(f), NEW s, NEW o, NearPacked(f, s, o, 0), Len(f) >= HeaderSize,
         NEW i \in DOMAIN f, NEW c \in {Junk, Binary}
  PROVE  NearPacked([f EXCEPT ![i] = c], s, o, 1)
  <1>0. HeaderSize \in Nat /\ HeaderSize >= 12 /\ Len(f) \in Nat /\ DOMAIN f = 1 .. Len(f)
    BY SizesAssumption, RoomAssumption, TextLen
  <1>1. PICK b : NearLines(f, s, 0, b) /\ (o => NearHoles(f, 0, b)) BY DEF NearPacked
  <1>2. i \in Nat BY <1>0
  <1> DEFINE g == [f EXCEPT ![i] = c]
  <1>3. \A j \in 1 .. HeaderSize : g[j] = IF j = i THEN c ELSE f[j] BY <1>0
  <1> HIDE DEF g
  <1>4. \A j \in 1 .. 12 : j \in 1 .. HeaderSize /\ j # 0 BY <1>0
  <1>5. \A j \in 13 .. HeaderSize : j \in 1 .. HeaderSize /\ j # 0 BY <1>0
  <1>6. NearLines(g, s, i, c) BY <1>1, <1>3, <1>4 DEF NearLines
  <1>7. o => NearHoles(g, i, c) BY <1>1, <1>3, <1>5 DEF NearHoles
  <1>8. 1 # 0 OBVIOUS
  <1>9. NearPacked(g, s, o, 1) BY <1>2, <1>6, <1>7, <1>8, Zenon DEF NearPacked
  <1> QED BY <1>9 DEF g

LEMMA OwnInvInit == Init => OwnInv
  <1> SUFFICES ASSUME Init PROVE OwnInv OBVIOUS
  <1>1. damage \in Nat BY DEF Init
  <1>2. ~ Own BY DEF Init, Own
  <1> QED BY <1>1, <1>2 DEF OwnInv

LEMMA OwnInvNext == PackInv /\ OwnInv /\ [Next]_vars => OwnInv'
  <1> SUFFICES ASSUME PackInv, OwnInv, [Next]_vars PROVE OwnInv' OBVIOUS
  <1>0. HeaderSize \in Nat /\ HeaderSize >= 12 /\ IsText(file) /\ Len(file) \in Nat
    BY SizesAssumption, RoomAssumption, TextLen DEF PackInv
  <1>1. ASSUME UNCHANGED <<file, packed, over, damage>> PROVE OwnInv' BY <1>1, Zenon DEF OwnInv, Own
  <1>2. ASSUME UNCHANGED <<packed, over, damage>>, Len(file') >= HeaderSize, \A i \in 1 .. HeaderSize : file'[i] = file[i]
        PROVE  OwnInv'
    <2>1. NearPacked(file, packed, over, damage) => NearPacked(file', packed, over, damage) BY <1>2, NearSame
    <2> QED BY <1>2, <2>1 DEF OwnInv, Own
  <1>3. CASE PackStart
    <2>1. PICK kernel \in Contents, rootfs \in Contents :
            LET s == ToPack(kernel, rootfs)
                h == BuildHeader(s)
            IN /\ kernel # <<>> /\ rootfs # <<>>
               /\ file' = Resize(file, OutputSize(s))
               /\ over' = \A i \in Len(h) + 1 .. Min({HeaderSize, Len(file)}) : file[i] = NUL
      BY <1>3, Zenon DEF PackStart
    <2> DEFINE s == ToPack(kernel, rootfs)
    <2>2. IsPack(s) BY <2>1, Zenon DEF IsPack
    <2>3. /\ file' = Resize(file, OutputSize(s))
          /\ over' = \A i \in Len(BuildHeader(s)) + 1 .. Min({HeaderSize, Len(file)}) : file[i] = NUL
      BY <2>1, Zenon
    <2> HIDE DEF s
    <2>4. Len(BuildHeader(s)) = 12 /\ OutputSize(s) \in Nat /\ OutputSize(s) >= HeaderSize
      BY <2>2, BuildHeaderIs, PackIs, ImageIs
    <2>5. UNCHANGED <<packed, damage>> BY <1>3 DEF PackStart
    <2> SUFFICES ASSUME Own, damage <= 1 PROVE OwnInv' BY <2>5 DEF OwnInv, Own
    <2>6. IsPack(packed) /\ Len(file) >= HeaderSize /\ NearPacked(file, packed, over, damage) BY DEF OwnInv
    <2>7. Len(file') = OutputSize(s) BY <2>3, <2>4, ResizeIs
    <2>8. \A i \in 1 .. HeaderSize : file'[i] = file[i]
      <3>1. \A i \in 1 .. HeaderSize : i \in 1 .. OutputSize(s) /\ i <= Len(file) BY <1>0, <2>4, <2>6
      <3> QED BY <2>3, <3>1 DEF Resize
    <2>9. over' => Holes(file)
      <3> SUFFICES ASSUME over' PROVE Holes(file) OBVIOUS
      <3>1. Min({HeaderSize, Len(file)}) = HeaderSize
        <4>1. PICK n : n = Len(file) /\ n \in Nat /\ HeaderSize <= n BY <1>0, <2>6
        <4>2. /\ Min({HeaderSize, n}) \in {HeaderSize, n} /\ Min({HeaderSize, n}) <= HeaderSize
          <5>1. HeaderSize \in Int /\ n \in Int BY <1>0, <4>1
          <5> QED BY <5>1, MinTwo, Zenon
        <4>3. Min({HeaderSize, n}) = HeaderSize BY <1>0, <4>1, <4>2
        <4> QED BY <4>1, <4>3
      <3>2. \A i \in 12 + 1 .. HeaderSize : file[i] = NUL BY <2>3, <2>4, <3>1
      <3>3. \A i \in 13 .. HeaderSize : i \in 12 + 1 .. HeaderSize OBVIOUS
      <3> QED BY <3>2, <3>3 DEF Holes
    <2>10. NearPacked(file, packed, over', damage) BY <2>6, <2>9, NearOver
    <2>11. NearPacked(file', packed, over', damage) BY <2>8, <2>10, NearSame
    <2>12. Len(file') >= HeaderSize BY <2>4, <2>7
    <2> QED BY <2>5, <2>6, <2>11, <2>12 DEF OwnInv
  <1>4. CASE PackHeader
    <2>1. /\ pc = "header" /\ packed' = secs /\ pc' = "data" /\ UNCHANGED <<secs, out, over, damage>>
      BY <1>4 DEF PackHeader
    <2>2. IsPack(secs) /\ out = Image(BuildHeader(secs), secs) BY <2>1 DEF PackInv
    <2>3. PackInv' BY PackInvNext
    <2>4. /\ IsText(file') /\ Len(file') = Len(out) /\ (over => Holes(file'))
          /\ \A i \in 1 .. 12 : file'[i] = out[i]
      BY <2>1, <2>3 DEF PackInv
    <2>5. /\ Len(BuildHeader(secs)) = 12 /\ Len(out) >= HeaderSize
          /\ \A i \in 1 .. HeaderSize : out[i] = IF i <= Len(BuildHeader(secs)) THEN BuildHeader(secs)[i] ELSE NUL
      BY <2>2, BuildHeaderIs, PackIs, ImageIs, <1>0
    <2>6. \A i \in 1 .. 12 : i \in 1 .. HeaderSize /\ i <= 12 /\ i # 0 BY <1>0
    <2>7. \A i \in 1 .. 12 : file'[i] = BuildHeader(secs)[i] BY <2>4, <2>5, <2>6
    <2>8. NearLines(file', secs, 0, Junk) BY <2>6, <2>7, Zenon DEF NearLines
    <2>9. \A i \in 13 .. HeaderSize : i # 0 OBVIOUS
    <2>10. over => NearHoles(file', 0, Junk) BY <2>4, <2>9, Zenon DEF Holes, NearHoles
    <2>11. 0 \in Nat OBVIOUS
    <2>12. NearPacked(file', secs, over, damage) BY <2>8, <2>10, <2>11, Zenon DEF NearPacked
    <2> QED BY <2>1, <2>2, <2>4, <2>5, <2>12 DEF OwnInv
  <1>5. CASE PackData
    <2>1. /\ pc = "data" /\ k < Len(out) /\ file' = Overwrite(file, out, k, 1)
          /\ UNCHANGED <<pc, secs, out, packed, over, damage>>
      BY <1>5 DEF PackData
    <2>2. IsPack(secs) /\ out = Image(BuildHeader(secs), secs) /\ Len(file) = Len(out) /\ k \in HeaderSize .. Len(out)
      BY <2>1 DEF PackInv
    <2>3. Len(out) >= HeaderSize BY <2>2, BuildHeaderIs, PackIs, ImageIs
    <2>4. PackInv' BY PackInvNext
    <2>5. Len(file') = Len(out) BY <2>1, <2>4 DEF PackInv
    <2>6. \A i \in 1 .. Len(file) : Overwrite(file, out, k, 1)[i] = IF i \in k + 1 .. k + 1 THEN out[i] ELSE file[i]
      <3>1. PICK t, b, o, n : t = file /\ b = out /\ o = k /\ n = 1 OBVIOUS
      <3>2. IsText(t) /\ o \in Nat /\ n \in Nat /\ o + n <= Len(t) BY <1>0, <2>1, <2>2, <3>1
      <3>3. /\ IsText(Overwrite(t, b, o, n)) /\ Len(Overwrite(t, b, o, n)) = Len(t)
            /\ \A i \in 1 .. Len(t) : Overwrite(t, b, o, n)[i] = IF i \in o + 1 .. o + n THEN b[i] ELSE t[i]
        BY <3>2, OverwriteIs
      <3> QED BY <3>1, <3>3
    <2>7. \A i \in 1 .. HeaderSize : file'[i] = file[i]
      <3>1. \A i \in 1 .. HeaderSize : i \in 1 .. Len(file) /\ i \notin k + 1 .. k + 1 BY <1>0, <2>2, <2>3
      <3> QED BY <2>1, <2>6, <3>1
    <2> QED BY <1>2, <2>1, <2>3, <2>5, <2>7
  <1>6. CASE Damage
    <2>1. damage' = damage + 1 /\ damage \in Nat /\ UNCHANGED <<packed, over>> BY <1>6 DEF Damage, OwnInv
    <2>2. damage' \in Nat /\ (damage' <= 1 => damage = 0 /\ damage' = 1 /\ damage <= 1) BY <2>1
    <2> SUFFICES ASSUME Own, damage' <= 1 PROVE OwnInv' BY <2>1, <2>2 DEF OwnInv, Own
    <2>3. IsPack(packed) /\ Len(file) >= HeaderSize /\ NearPacked(file, packed, over, damage) BY <2>2 DEF OwnInv
    <2>4. PICK i \in DOMAIN file, c \in {Junk, Binary} : file' = [file EXCEPT ![i] = c] BY <1>6 DEF Damage
    <2>5. NearPacked(file, packed, over, 0) BY <2>2, <2>3
    <2>6. NearPacked(file', packed, over, 1) BY <1>0, <2>3, <2>4, <2>5, NearDamage
    <2>7. Len(file') = Len(file)
      <3>1. PICK S : file \in Seq(S) BY <1>0 DEF IsText
      <3>2. DOMAIN file' = 1 .. Len(file) /\ IsText(file')
        <4>1. PackInv' BY PackInvNext
        <4> QED BY <1>0, <2>4, <4>1, TextLen DEF PackInv
      <3>3. PICK T : file' \in Seq(T) BY <3>2 DEF IsText
      <3> QED BY <1>0, <3>2, <3>3
    <2> QED BY <2>1, <2>2, <2>3, <2>6, <2>7 DEF OwnInv
  <1>7. CASE Cut
    <2> SUFFICES ASSUME packed' # <<>> PROVE OwnInv' BY <1>7 DEF OwnInv, Own, Cut
    <2>1. PICK n \in HeaderSize - 1 .. Len(file) - 1 :
            file' = Resize(file, n) /\ packed' = IF n < HeaderSize THEN <<>> ELSE packed
      BY <1>7 DEF Cut
    <2>2. UNCHANGED <<over, damage>> BY <1>7 DEF Cut
    <2>3. n \in Nat /\ n >= HeaderSize BY <1>0, <2>1
    <2>4. IsText(file') /\ Len(file') = n BY <2>1, <2>3, ResizeIs
    <2>5. \A i \in 1 .. HeaderSize : file'[i] = file[i]
      <3>1. \A i \in 1 .. HeaderSize : i \in 1 .. n /\ i <= Len(file) BY <1>0, <2>1, <2>3
      <3> QED BY <2>1, <3>1 DEF Resize
    <2>6. packed' = packed BY <2>1
    <2> QED BY <1>2, <2>2, <2>3, <2>4, <2>5, <2>6
  <1>8. CASE PackDone BY <1>1, <1>8 DEF PackDone
  <1>9. CASE UnpackHangs BY <1>1, <1>9 DEF UnpackHangs
  <1>10. CASE UnpackParsed BY <1>1, <1>10 DEF UnpackParsed
  <1>11. CASE ExtractOpen BY <1>1, <1>11, Zenon DEF ExtractOpen
  <1>12. CASE ExtractCopy BY <1>1, <1>12, Zenon DEF ExtractCopy
  <1>13. CASE UnpackDone BY <1>1, <1>13 DEF UnpackDone
  <1>14. CASE Stop BY <1>1, <1>14 DEF Stop
  <1>15. CASE UNCHANGED vars BY <1>1, <1>15, Zenon DEF vars
  <1> QED
    BY <1>3, <1>4, <1>5, <1>6, <1>7, <1>8, <1>9, <1>10, <1>11, <1>12, <1>13, <1>14, <1>15, Zenon DEF Next, Command

\* A header that is not text is refused; one that is has at most one line without a key.
LEMMA NearText ==
  ASSUME NEW f, IsText(f), Len(f) >= HeaderSize, NEW s, IsPack(s), NearPacked(f, s, TRUE, 1), Parse(f) # <<>>
  PROVE  \E d \in Nat : KeyedBut(HeaderText(f), s, d)
  <1>0. HeaderSize \in Nat /\ HeaderSize >= 12 BY SizesAssumption, RoomAssumption
  <1>1. PICK d \in Nat, c \in {Junk, Binary} : NearLines(f, s, d, c) /\ NearHoles(f, d, c) BY DEF NearPacked
  <1> DEFINE h == HeaderText(f)
  <1>2. IsText(h) /\ Len(h) = HeaderSize /\ \A i \in 1 .. HeaderSize : h[i] = f[i] BY HeaderTextIs
  <1>3. Utf8(h) BY ParseText DEF Accepts
  <1>4. DOMAIN h = 1 .. HeaderSize BY <1>2, TextLen
  <1> HIDE DEF h
  <1>5. \A i \in 1 .. 12 : i \in 1 .. HeaderSize BY <1>0
  <1>6. \A i \in 13 .. HeaderSize : i \in 1 .. HeaderSize BY <1>0
  <1>7. NearLines(h, s, d, c) BY <1>1, <1>2, <1>5, Zenon DEF NearLines
  <1>8. NearHoles(h, d, c) BY <1>1, <1>2, <1>6, Zenon DEF NearHoles
  <1>9. CASE d \in 1 .. HeaderSize
    <2>1. d \in 1 .. 12 \/ d \in 13 .. HeaderSize BY <1>0, <1>9
    <2>2. h[d] = c BY <1>7, <1>8, <2>1 DEF NearLines, NearHoles
    <2>3. h[d].k # "binary" BY <1>3, <1>4, <1>9 DEF Utf8
    <2>4. Binary.k = "binary" BY DEF Binary, Line
    <2>5. c = Junk BY <2>2, <2>3, <2>4
    <2>6. KeyedBut(h, s, d) BY <1>7, <1>8, <2>5, NearKeys
    <2> QED BY <2>6 DEF h
  <1>10. CASE d \notin 1 .. HeaderSize
    <2>1. NearLines(h, s, d, Junk) BY <1>5, <1>7, <1>10, Zenon DEF NearLines
    <2>2. NearHoles(h, d, Junk) BY <1>6, <1>8, <1>10, Zenon DEF NearHoles
    <2>3. KeyedBut(h, s, d) BY <2>1, <2>2, NearKeys
    <2> QED BY <2>3 DEF h
  <1> QED BY <1>9, <1>10

LEMMA NearWhole ==
  ASSUME NEW f, IsText(f), Len(f) >= HeaderSize, NEW s, IsPack(s), NEW o, NearPacked(f, s, o, 0)
  PROVE  Marked(HeaderText(f), s) /\ (o => Len(Parts(HeaderText(f))) = Len(s))
  <1>1. PICK c : NearLines(f, s, 0, c) /\ (o => NearHoles(f, 0, c)) BY DEF NearPacked
  <1>2. \A i \in 1 .. 12 : f[i] = BuildHeader(s)[i]
    <2>1. \A i \in 1 .. 12 : i # 0 OBVIOUS
    <2> QED BY <1>1, <2>1, Zenon DEF NearLines
  <1>3. Lines(BuildHeader(s), s) BY BuildHeaderIs
  <1>4. Lines(f, s) BY <1>2, <1>3, LinesText
  <1>5. o => Holes(f)
    <2>1. \A i \in 13 .. HeaderSize : i # 0 OBVIOUS
    <2> QED BY <1>1, <2>1, Zenon DEF NearHoles, Holes
  <1> QED BY <1>4, <1>5, LinesHeader

LEMMA OwnExact ==
  ASSUME PackInv, OwnInv, ExtractInv, damage <= 1, packed \notin {v.secs : v \in Vendor} PROVE ExtractedExact
  <1> SUFFICES ASSUME pc = "done", packed # <<>>, damage > 0 => over /\ ~ IsCut,
                      ~ over => Len(file) <= OutputSize(packed)
               PROVE  \E n \in 1 .. Len(packed) :
                        /\ n < Min({MaxImages, Len(packed)}) => IsCut
                        /\ LET f == FilesOf(SubSeq(packed, 1, n))
                           IN \A name \in DOMAIN f : name \in DOMAIN folder /\ folder[name] = f[name]
    BY DEF ExtractedExact
  <1>1. /\ damage \in Nat /\ IsPack(packed) /\ Len(file) >= HeaderSize
        /\ NearPacked(file, packed, over, damage)
    BY DEF OwnInv, Own
  <1>2. IsText(file) BY DEF PackInv
  <1>3. /\ secs = Parse(file) /\ k \in 1 .. Len(secs) /\ k = Len(secs)
        /\ \A i \in 1 .. k : /\ secs[i].data # <<>>
                             /\ (\A j \in i + 1 .. k : FileOf(j) # FileOf(i))
                                  => FileOf(i) \in DOMAIN folder /\ folder[FileOf(i)] = secs[i].data
    BY DEF ExtractInv, Extracts, Ended, Begun
  <1>4. Parse(file) # <<>>
    <2> SUFFICES ASSUME Parse(file) = <<>> PROVE FALSE OBVIOUS
    <2>1. Len(secs) = 0 BY <1>3
    <2> QED BY <1>3, <2>1
  <1>5. \A i \in 1 .. Len(Parse(file)) : Parse(file)[i].data # <<>> BY <1>3
  <1>6. IsSections(packed) BY <1>1, PackIs
  <1>7. ASSUME damage = 0 PROVE Begins(Parse(file), file, packed)
    <2>1. NearPacked(file, packed, over, 0) BY <1>1, <1>7
    <2>2. Marked(HeaderText(file), packed) /\ (over => Len(Parts(HeaderText(file))) = Len(packed))
      BY <1>1, <1>2, <2>1, NearWhole
    <2>3. Len(Parts(HeaderText(file))) = Len(packed) \/ Len(file) <= OutputSize(packed) BY <2>2
    <2> QED BY <1>1, <1>2, <1>4, <1>5, <1>6, <2>2, <2>3, ReadExact
  <1>8. ASSUME damage = 1 PROVE Begins(Parse(file), file, packed)
    <2>1. over /\ ~ IsCut BY <1>8
    <2>2. NearPacked(file, packed, TRUE, 1)
      <3>1. NearPacked(file, packed, over, 1) BY <1>1, <1>8
      <3>2. PICK d \in Nat, c \in {Junk, Binary} :
              NearLines(file, packed, d, c) /\ (over => NearHoles(file, d, c)) /\ (1 = 0 => d = 0)
        BY <3>1, Zenon DEF NearPacked
      <3> QED BY <2>1, <3>2, Zenon DEF NearPacked
    <2>3. PICK d \in Nat : KeyedBut(HeaderText(file), packed, d) BY <1>1, <1>2, <1>4, <2>2, NearText
    <2>4. Len(file) >= OutputSize(packed)
      <3>1. OutputSize(packed) \in Nat BY <1>1, BuildHeaderIs, <1>6, ImageIs
      <3>2. Len(file) \in Nat BY <1>2, TextLen
      <3> QED BY <2>1, <3>1, <3>2 DEF IsCut
    <2> QED BY <1>1, <1>2, <1>4, <1>5, <2>3, <2>4, DamagedExact
  <1>9. Begins(secs, file, packed)
    <2>1. damage = 0 \/ damage = 1 BY <1>1
    <2> QED BY <1>3, <1>7, <1>8, <2>1
  <1> QED BY <1>3, <1>6, <1>9, BegunFiles

\* Of an image of mini_pack at most one cell may be damaged, anywhere: what a successful
\* mini_unpack leaves in its folder is still what was packed, because a damaged
\* header either is not text, or keeps the MD5 of each section, or describes
\* other data than the MD5 of the packet was made for (ExtractedExact,
\* OtaPacker::build_header against OtaExtractor::parse).
THEOREM PackedIsExact ==
  Spec => [](damage <= 1 /\ packed \notin {v.secs : v \in Vendor} => ExtractedExact)
  <1>1. Init => PackInv /\ OwnInv /\ ExtractInv
    <2>1. Init => ExtractInv BY DEF Init, ExtractInv
    <2> QED BY <2>1, PackInvInit, OwnInvInit
  <1>2. PackInv /\ OwnInv /\ ExtractInv /\ [Next]_vars => (PackInv /\ OwnInv /\ ExtractInv)'
    BY PackInvNext, OwnInvNext, ExtractInvNext
  <1>3. PackInv /\ OwnInv /\ ExtractInv =>
          (damage <= 1 /\ packed \notin {v.secs : v \in Vendor} => ExtractedExact)
    BY OwnExact
  <1> QED BY <1>1, <1>2, <1>3, PTL DEF Spec
=============================================================================
