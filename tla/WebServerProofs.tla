-------------------------- MODULE WebServerProofs --------------------------
(***************************************************************************)
(* Proofs about module WebServer, for every set of definitions, servers,   *)
(* clients and requests: a server is a register per property, whatever its *)
(* clients do, whenever it is killed and whatever is left in the file.     *)
(***************************************************************************)
EXTENDS WebServer, WellFoundedInduction, TLAPS

-----------------------------------------------------------------------------
(* The inductive invariant *)

PCs == {"down", "accept", "read", "truncate", "write", "respond"}
Writing(s) == pc[s] \in {"truncate", "write"}

Shape ==
  /\ defs \in DefSets
  /\ pc \in [Servers -> PCs]
  /\ cur \in [Servers -> Clients \cup {None}]
  /\ backlog \in [Servers -> Seq(Clients)]
  /\ st \in [Clients -> {"idle", "open", "gone", "served", "reset"}]
  /\ to \in [Clients -> Servers \cup {None}]
  /\ req = [c \in Clients |-> req[c]] /\ ans = [c \in Clients |-> ans[c]]
  /\ mem = [s \in Servers |-> mem[s]] /\ wr = [s \in Servers |-> wr[s]]
  /\ \A s \in Servers :
       /\ mem[s] = [n \in Names(defs) |-> mem[s][n]]
       /\ wr[s] = [name |-> wr[s].name, old |-> wr[s].old,
                   body |-> wr[s].body, off |-> wr[s].off]

\* The connections of a server are those in its queue and the one it serves, each once.
ConnInv ==
  /\ \A s \in Servers :
       /\ cur[s] = None <=> pc[s] \in {"down", "accept"}
       /\ cur[s] # None => to[cur[s]] = s
       /\ Len(backlog[s]) <= Backlog
       /\ \A j \in 1 .. Len(backlog[s]) :
            /\ to[backlog[s][j]] = s /\ backlog[s][j] # cur[s]
            /\ \A k \in 1 .. Len(backlog[s]) : backlog[s][j] = backlog[s][k] => j = k
  /\ \A c \in Clients :
       /\ to[c] # None => c \in Waiting(to[c])
       /\ st[c] = "idle" => to[c] = None

\* Only the client being answered has an answer.
AnsInv ==
  \A c \in Clients : ans[c] # NoAnswer => \E s \in Servers : cur[s] = c /\ pc[s] = "respond"

\* While the file is written memory holds what the PUT asks for, and wr what a
\* failure brings back.
WriteInv ==
  \A s \in Servers :
    /\ wr[s].name # None <=> Writing(s)
    /\ Writing(s) =>
         /\ Settable(req[cur[s]]) /\ req[cur[s]].name = wr[s].name
         /\ req[cur[s]].value \in Seq(ToSet(req[cur[s]].value))
         /\ mem[s][wr[s].name] =
              Normal(TypeOf(defs, wr[s].name), StripEol(req[cur[s]].value))
         /\ Valid(TypeOf(defs, wr[s].name), wr[s].old)

\* Every value a server holds is one the type accepts.
ValueInv ==
  \A s \in Servers : \A n \in Names(defs) : Valid(TypeOf(defs, n), mem[s][n])

WInv == Shape /\ ConnInv /\ AnsInv /\ WriteInv /\ ValueInv

-----------------------------------------------------------------------------
(* Values *)

\* What a type keeps is acceptable and stays as it is.
LEMMA NormalValid ==
  ASSUME NEW t \in DOMAIN Types, NEW v, Valid(Types[t], v)
  PROVE  /\ Valid(Types[t], Normal(Types[t], v))
         /\ Normal(Types[t], Normal(Types[t], v)) = Normal(Types[t], v)
  <1>1. CASE Types[t].kind = "enum" BY <1>1 DEF Valid, Normal
  <1>2. CASE Types[t].kind = "bool"
    <2>1. FalseText \notin {TrueText, <<"1">>} BY DEF FalseText, TrueText
    <2>2. \A w : Normal(Types[t], w) = IF w \in {TrueText, <<"1">>} THEN TrueText ELSE FalseText
      BY <1>2 DEF Normal
    <2>3. \A w : w \in {TrueText, FalseText} => Valid(Types[t], w)
      BY <1>2 DEF Valid
    <2> QED BY <2>1, <2>2, <2>3
  <1>3. CASE Types[t].kind = "int"
    <2>1. \A w : Normal(Types[t], w) = IntText(IntOf(w)) BY <1>3 DEF Normal
    <2>2. \A w : Valid(Types[t], w) <=> IsInt(w) /\ IntOf(w) \in Types[t].min .. Types[t].max
      BY <1>3 DEF Valid
    <2>3. IsInt(IntText(IntOf(v))) /\ IntOf(IntText(IntOf(v))) = IntOf(v)
      BY <1>3, <2>2, IntTextAssumption
    <2> QED BY <2>1, <2>2, <2>3
  <1>4. CASE Types[t].kind = "string" BY <1>4 DEF Valid, Normal
  <1> QED BY <1>1, <1>2, <1>3, <1>4, TypesAssumption

LEMMA DefType ==
  ASSUME NEW d \in DefSets, NEW n \in Names(d)
  PROVE  /\ Def(d, n).ty \in DOMAIN Types /\ TypeOf(d, n) = Types[Def(d, n).ty]
         /\ Valid(TypeOf(d, n), Def(d, n).value)
         /\ Normal(TypeOf(d, n), Def(d, n).value) = Def(d, n).value
  <1>1. \E i \in DOMAIN d : d[i].name = n BY DEF Names
  <1>2. PICK i \in DOMAIN d : Def(d, n) = d[i] BY <1>1 DEF Def
  <1> QED BY <1>2, DefSetsAssumption DEF TypeOf

\* Whatever text the file holds, load finds an acceptable value for every name.
LEMMA LoadedValid ==
  ASSUME NEW d \in DefSets, NEW text
  PROVE  /\ Loaded(d, text) = [n \in Names(d) |-> Loaded(d, text)[n]]
         /\ \A n \in Names(d) :
              /\ Valid(TypeOf(d, n), Loaded(d, text)[n])
              /\ Normal(TypeOf(d, n), Loaded(d, text)[n]) = Loaded(d, text)[n]
  <1> DEFINE entries == Entries(text)
             Override(n) == LastOf(OverrideLines(d, entries, n))
             Value(n) == IF Parses(d, entries) /\ Override(n) # {}
                         THEN Normal(TypeOf(d, n), ValueAt(entries[CHOOSE i \in Override(n) : TRUE], 3))
                         ELSE Def(d, n).value
  <1>1. Loaded(d, text) = [n \in Names(d) |-> Value(n)] BY DEF Loaded
  <1>2. ASSUME NEW n \in Names(d)
        PROVE  Valid(TypeOf(d, n), Value(n)) /\ Normal(TypeOf(d, n), Value(n)) = Value(n)
    <2>1. CASE Override(n) = {}
      BY <2>1, DefType
    <2>2. CASE Override(n) # {}
      <3>1. PICK i \in Override(n) : i = CHOOSE k \in Override(n) : TRUE BY <2>2
      <3>2. Entry(entries[i], Names(d), 1) /\ entries[i][2] = Def(d, n).ty
        BY <3>1 DEF LastOf, OverrideLines
      <3>3. Valid(TypeOf(d, n), ValueAt(entries[i], 3))
        BY <3>2, DefType DEF Entry
      <3> HIDE DEF Override, entries
      <3> QED BY <3>1, <3>3, DefType, NormalValid
    <2> QED BY <2>1, <2>2
  <1> HIDE DEF Value
  <1> QED BY <1>1, <1>2

LEMMA DefaultsValid ==
  ASSUME NEW d \in DefSets
  PROVE  /\ Defaults(d) = [n \in Names(d) |-> Defaults(d)[n]]
         /\ \A n \in Names(d) : Valid(TypeOf(d, n), Defaults(d)[n])
  BY DefType DEF Defaults

-----------------------------------------------------------------------------
(* The end of a line *)

LEMMA MaxExists ==
  ASSUME NEW n \in Nat, NEW I \in SUBSET (1 .. n), I # {}
  PROVE  Max(I) \in I /\ \A j \in I : j <= Max(I)
  <1> DEFINE T == {n - i : i \in I}
  <1>0. \A i \in I : i \in Nat /\ i <= n /\ n - i \in Nat OBVIOUS
  <1>1. T \subseteq Nat /\ T # {} BY <1>0
  <1>2. \E x \in T : \A y \in T : ~ (<<y, x>> \in OpToRel(<, Nat))
    BY <1>1, NatLessThanWellFounded, WFMin
  <1>3. PICK x \in T : \A y \in T : ~ (y < x)
    BY <1>1, <1>2 DEF OpToRel
  <1>4. PICK m \in I : x = n - m OBVIOUS
  <1>5. \A j \in I : m >= j BY <1>0, <1>3, <1>4
  <1> QED BY <1>4, <1>5 DEF Max

\* trim_end_matches removes the line ends and nothing else.
LEMMA Stripped ==
  ASSUME NEW S, NEW v \in Seq(S)
  PROVE  \E k \in 0 .. Len(v) :
           /\ StripEol(v) = SubSeq(v, 1, k)
           /\ \A i \in k + 1 .. Len(v) : v[i] \in LineEnds
           /\ k > 0 => v[k] \notin LineEnds
  <1> DEFINE I == {i \in 1 .. Len(v) : v[i] \notin LineEnds}
             k == IF I # {} THEN Max(I) ELSE 0
  <1>1. StripEol(v) = SubSeq(v, 1, k) BY Zenon DEF StripEol, SelectLastInSeq
  <1>2. I # {} => Max(I) \in I /\ \A j \in I : j <= Max(I)
    <2>1. Len(v) \in Nat /\ I \in SUBSET (1 .. Len(v)) OBVIOUS
    <2> HIDE DEF I
    <2> QED BY <2>1, MaxExists
  <1>3. k \in 0 .. Len(v) /\ (k > 0 => v[k] \notin LineEnds) BY <1>2
  <1>4. ASSUME NEW i \in k + 1 .. Len(v) PROVE v[i] \in LineEnds BY <1>2
  <1> HIDE DEF k
  <1> QED BY <1>1, <1>3, <1>4

-----------------------------------------------------------------------------
(* What a step leaves alone *)

LEMMA WaitingIs ==
  ASSUME WInv, NEW s \in Servers, NEW c \in Clients
  PROVE  c \in Waiting(s) <=> to[c] = s
  <1>1. s # None /\ c # None BY NamesAssumption
  <1>2. ASSUME c = cur[s] PROVE to[c] = s BY <1>1, <1>2 DEF WInv, ConnInv
  <1>3. ASSUME Contains(backlog[s], c) PROVE to[c] = s
    BY <1>3 DEF WInv, ConnInv, Contains
  <1>4. ASSUME to[c] = s PROVE c \in Waiting(s) BY <1>1, <1>4 DEF WInv, ConnInv
  <1> QED BY <1>2, <1>3, <1>4 DEF Waiting

\* No client is served by two servers.
LEMMA OthersApart ==
  ASSUME WInv, NEW s \in Servers, NEW t \in Servers, t # s, cur[t] # None
  PROVE  cur[t] \in Clients /\ to[cur[t]] = t /\ cur[t] # cur[s] /\ cur[t] \notin Waiting(s)
  <1>1. cur[t] \in Clients /\ to[cur[t]] = t BY DEF WInv, Shape, ConnInv
  <1>2. cur[t] \notin Waiting(s) BY <1>1, WaitingIs
  <1> QED BY <1>1, <1>2 DEF Waiting

\* The client being served.
LEMMA Served ==
  ASSUME WInv, NEW s \in Servers, pc[s] \notin {"down", "accept"}
  PROVE  cur[s] # None /\ cur[s] \in Clients /\ to[cur[s]] = s
  BY DEF WInv, Shape, ConnInv

LEMMA ConnKept ==
  ASSUME WInv, UNCHANGED <<cur, to, backlog>>,
         \A s \in Servers : pc'[s] \in {"down", "accept"} <=> pc[s] \in {"down", "accept"},
         \A c \in Clients : st'[c] = "idle" => st[c] = "idle"
  PROVE  ConnInv'
  <1>1. \A s \in Servers : Waiting(s)' = Waiting(s) BY DEF Waiting
  <1>2. \A c \in Clients : to[c] # None => to[c] \in Servers BY DEF WInv, Shape
  <1> QED BY <1>1, <1>2 DEF WInv, ConnInv

\* A step of server s leaves the writes of the others alone.
LEMMA WriteFrame ==
  ASSUME WInv, NEW s \in Servers, defs' = defs,
         \A t \in Servers \ {s} :
           /\ pc'[t] = pc[t] /\ wr'[t] = wr[t] /\ mem'[t] = mem[t] /\ cur'[t] = cur[t],
         \A c \in Clients : c \notin Waiting(s) => req'[c] = req[c],
         wr'[s].name # None <=> Writing(s)',
         Writing(s)' =>
           /\ Settable(req'[cur'[s]]) /\ req'[cur'[s]].name = wr'[s].name
           /\ req'[cur'[s]].value \in Seq(ToSet(req'[cur'[s]].value))
           /\ mem'[s][wr'[s].name] =
                Normal(TypeOf(defs, wr'[s].name), StripEol(req'[cur'[s]].value))
           /\ Valid(TypeOf(defs, wr'[s].name), wr'[s].old)
  PROVE  WriteInv'
  <1>1. \A r : Settable(r) <=> /\ r.kind = "put" /\ r.name \in Names(defs)
                               /\ Valid(TypeOf(defs, r.name), StripEol(r.value))
    BY DEF Settable
  <1>2. ASSUME NEW t \in Servers, t # s, Writing(t)
        PROVE  req'[cur'[t]] = req[cur[t]]
    <2>1. cur[t] # None BY <1>2, Served DEF Writing
    <2> QED BY <1>2, <2>1, OthersApart
  <1>3. ASSUME NEW t \in Servers
        PROVE  /\ wr'[t].name # None <=> pc'[t] \in {"truncate", "write"}
               /\ pc'[t] \in {"truncate", "write"} =>
                    /\ Settable(req'[cur'[t]]) /\ req'[cur'[t]].name = wr'[t].name
                    /\ req'[cur'[t]].value \in Seq(ToSet(req'[cur'[t]].value))
                    /\ mem'[t][wr'[t].name] =
                         Normal(TypeOf(defs, wr'[t].name), StripEol(req'[cur'[t]].value))
                    /\ Valid(TypeOf(defs, wr'[t].name), wr'[t].old)
    <2>1. CASE t = s BY <2>1 DEF Writing
    <2>2. CASE t # s BY <1>2, <2>2 DEF WInv, WriteInv, Writing
    <2> QED BY <2>1, <2>2
  <1> QED BY <1>1, <1>3 DEF WriteInv, Writing, Settable

\* The same when the server is not writing afterwards.
LEMMA NoWriteFrame ==
  ASSUME WInv, NEW s \in Servers, defs' = defs,
         \A t \in Servers \ {s} :
           /\ pc'[t] = pc[t] /\ wr'[t] = wr[t] /\ mem'[t] = mem[t] /\ cur'[t] = cur[t],
         \A c \in Clients : c \notin Waiting(s) => req'[c] = req[c],
         wr'[s].name = None, ~ Writing(s)'
  PROVE  WriteInv'
  BY WriteFrame

\* Answers are given by s only.
LEMMA AnsFrame ==
  ASSUME WInv, NEW s \in Servers,
         \A t \in Servers \ {s} : pc'[t] = pc[t] /\ cur'[t] = cur[t],
         \A c \in Clients : ans'[c] # NoAnswer =>
            \/ ans[c] = ans'[c] /\ c # cur[s]
            \/ c = cur'[s] /\ pc'[s] = "respond"
  PROVE  AnsInv'
  BY DEF WInv, AnsInv

-----------------------------------------------------------------------------
(* Clients *)

LEMMA ConnectInv == ASSUME WInv, NEW c \in Clients, NEW s \in Servers, Connect(c, s) PROVE WInv'
  <1>1. /\ UNCHANGED <<defs, file, mem, wr, stored, solo, pc, cur, req, whole, ans>>
        /\ st[c] = "idle" /\ pc[s] # "down" /\ Len(backlog[s]) < Backlog
        /\ st' = [st EXCEPT ![c] = "open"] /\ to' = [to EXCEPT ![c] = s]
        /\ backlog' = [backlog EXCEPT ![s] = Append(backlog[s], c)]
    BY DEF Connect, storeVars
  <1>2. Shape' BY <1>1 DEF WInv, Shape
  <1>3. to[c] = None BY <1>1 DEF WInv, ConnInv
  <1>4. ConnInv'
    <2>1. /\ backlog[s] \in Seq(Clients) /\ backlog'[s] = Append(backlog[s], c)
          /\ \A t \in Servers : t # s => backlog'[t] = backlog[t]
          /\ \A e \in Clients : to'[e] = IF e = c THEN s ELSE to[e]
      BY <1>1 DEF WInv, Shape
    <2>2. /\ Len(backlog'[s]) = Len(backlog[s]) + 1 /\ Len(backlog[s]) \in Nat
          /\ backlog'[s][Len(backlog[s]) + 1] = c
          /\ \A j \in 1 .. Len(backlog[s]) :
               /\ backlog'[s][j] = backlog[s][j]
               /\ backlog[s][j] \in Clients
      BY <2>1
    <2>3. \A t \in Servers : cur[t] # None => cur[t] # c /\ cur[t] \in Clients /\ to[cur[t]] = t
      BY <1>3, NamesAssumption DEF WInv, Shape, ConnInv
    <2>4. \A t \in Servers : \A j \in 1 .. Len(backlog[t]) :
            backlog[t][j] # c /\ backlog[t][j] \in Clients
      BY <1>3, NamesAssumption DEF WInv, Shape, ConnInv
    <2>5. ASSUME NEW t \in Servers
          PROVE  /\ cur'[t] = None <=> pc'[t] \in {"down", "accept"}
                 /\ cur'[t] # None => to'[cur'[t]] = t
      BY <1>1, <2>1, <2>3 DEF WInv, ConnInv
    <2>6. Len(backlog'[s]) <= Backlog
      BY <1>1, <2>2, BoundsAssumption
    <2>7. ASSUME NEW j \in 1 .. Len(backlog'[s])
          PROVE  /\ to'[backlog'[s][j]] = s /\ backlog'[s][j] # cur'[s]
                 /\ \A k \in 1 .. Len(backlog'[s]) : backlog'[s][j] = backlog'[s][k] => j = k
      <3>1. j \in 1 .. Len(backlog[s]) \/ j = Len(backlog[s]) + 1 BY <2>2
      <3>2. \A k \in 1 .. Len(backlog'[s]) : k \in 1 .. Len(backlog[s]) \/ k = Len(backlog[s]) + 1
        BY <2>2
      <3>3. to'[backlog'[s][j]] = s
        BY <2>1, <2>2, <2>4, <3>1 DEF WInv, ConnInv
      <3>4. backlog'[s][j] # cur'[s]
        <4>1. c # cur[s] BY <2>3, NamesAssumption
        <4> QED BY <1>1, <2>2, <3>1, <4>1 DEF WInv, ConnInv
      <3>5. \A k \in 1 .. Len(backlog'[s]) : backlog'[s][j] = backlog'[s][k] => j = k
        <4>1. \A a, b \in 1 .. Len(backlog[s]) : backlog[s][a] = backlog[s][b] => a = b
          BY DEF WInv, ConnInv
        <4>2. SUFFICES ASSUME NEW k \in 1 .. Len(backlog'[s]), backlog'[s][j] = backlog'[s][k]
                       PROVE  j = k
          OBVIOUS
        <4>3. k \in 1 .. Len(backlog[s]) \/ k = Len(backlog[s]) + 1 BY <3>2
        <4>4. CASE j \in 1 .. Len(backlog[s]) /\ k \in 1 .. Len(backlog[s])
          BY <2>2, <4>1, <4>2, <4>4
        <4>5. CASE j \in 1 .. Len(backlog[s]) /\ k = Len(backlog[s]) + 1
          <5>1. backlog'[s][j] # c BY <2>2, <2>4, <4>5
          <5> QED BY <2>2, <4>2, <4>5, <5>1
        <4>6. CASE j = Len(backlog[s]) + 1 /\ k \in 1 .. Len(backlog[s])
          <5>1. backlog'[s][k] # c BY <2>2, <2>4, <4>6
          <5> QED BY <2>2, <4>2, <4>6, <5>1
        <4> QED BY <3>1, <4>3, <4>4, <4>5, <4>6
      <3> QED BY <3>3, <3>4, <3>5
    <2>8. ASSUME NEW t \in Servers, t # s
          PROVE  /\ Len(backlog'[t]) <= Backlog
                 /\ \A j \in 1 .. Len(backlog'[t]) :
                      /\ to'[backlog'[t][j]] = t /\ backlog'[t][j] # cur'[t]
                      /\ \A k \in 1 .. Len(backlog'[t]) : backlog'[t][j] = backlog'[t][k] => j = k
      BY <1>1, <2>1, <2>4, <2>8 DEF WInv, ConnInv
    <2>9. ASSUME NEW e \in Clients, to'[e] # None PROVE e \in Waiting(to[e])'
      <3>1. CASE e = c
        <4>1. Contains(backlog'[s], c) BY <2>2 DEF Contains
        <4> QED BY <2>1, <3>1, <4>1 DEF Waiting
      <3>2. CASE e # c
        <4>1. to'[e] = to[e] /\ to[e] \in Servers BY <2>1, <2>9, <3>2 DEF WInv, Shape
        <4>2. e = cur[to[e]] \/ Contains(backlog[to[e]], e)
          BY <2>9, <4>1 DEF WInv, ConnInv, Waiting
        <4>3. Contains(backlog[to[e]], e) => Contains(backlog'[to[e]], e)
          BY <2>1, <2>2, <4>1 DEF Contains
        <4> QED BY <1>1, <4>1, <4>2, <4>3 DEF Waiting
      <3> QED BY <3>1, <3>2
    <2>10. ASSUME NEW e \in Clients, st'[e] = "idle" PROVE to'[e] = None
      BY <1>1, <2>1, <2>10 DEF WInv, Shape, ConnInv
    <2> QED BY <2>5, <2>6, <2>7, <2>8, <2>9, <2>10 DEF ConnInv
  <1>5. AnsInv' BY <1>1 DEF WInv, AnsInv
  <1>6. WriteInv' BY <1>1 DEF WInv, WriteInv, Writing, Settable
  <1>7. ValueInv' BY <1>1 DEF WInv, ValueInv
  <1> QED BY <1>2, <1>4, <1>5, <1>6, <1>7 DEF WInv

LEMMA SendInv ==
  ASSUME WInv, NEW c \in Clients, Send(c) \/ HangUp(c) PROVE WInv'
  <1>1. /\ UNCHANGED <<defs, file, mem, wr, stored, solo, pc, cur, backlog, req, to, ans>>
        /\ st' = st \/ st' = [st EXCEPT ![c] = "gone"]
    BY DEF Send, HangUp, storeVars, serverVars
  <1>2. Shape' BY <1>1 DEF WInv, Shape
  <1>3. ConnInv'
    <2>1. \A e \in Clients : st'[e] = "idle" => st[e] = "idle"
      BY <1>1 DEF WInv, Shape
    <2> QED BY <1>1, <2>1, ConnKept
  <1>4. AnsInv' BY <1>1 DEF WInv, AnsInv
  <1>5. WriteInv' BY <1>1 DEF WInv, WriteInv, Writing, Settable
  <1>6. ValueInv' BY <1>1 DEF WInv, ValueInv
  <1> QED BY <1>2, <1>3, <1>4, <1>5, <1>6 DEF WInv

-----------------------------------------------------------------------------
(* The server *)

LEMMA AcceptInv == ASSUME WInv, NEW s \in Servers, Accept(s) PROVE WInv'
  <1>1. /\ UNCHANGED <<defs, file, mem, wr, stored, solo, st, to, req, whole, ans>>
        /\ pc[s] = "accept" /\ backlog[s] # <<>>
        /\ cur' = [cur EXCEPT ![s] = Head(backlog[s])]
        /\ backlog' = [backlog EXCEPT ![s] = Tail(backlog[s])]
        /\ pc' = [pc EXCEPT ![s] = "read"]
    BY DEF Accept, storeVars, clientVars
  <1>2. /\ backlog[s] \in Seq(Clients) /\ Len(backlog[s]) \in Nat /\ Len(backlog[s]) >= 1
        /\ Head(backlog[s]) = backlog[s][1] /\ backlog[s][1] \in Clients
        /\ Tail(backlog[s]) \in Seq(Clients)
        /\ Len(Tail(backlog[s])) = Len(backlog[s]) - 1
        /\ \A j \in 1 .. Len(backlog[s]) - 1 : Tail(backlog[s])[j] = backlog[s][j + 1]
    BY <1>1 DEF WInv, Shape
  <1>3. /\ cur'[s] = backlog[s][1] /\ backlog'[s] = Tail(backlog[s]) /\ pc'[s] = "read"
        /\ \A t \in Servers : t # s => /\ cur'[t] = cur[t] /\ backlog'[t] = backlog[t]
                                       /\ pc'[t] = pc[t]
    BY <1>1, <1>2 DEF WInv, Shape
  <1>4. Shape' BY <1>1, <1>2 DEF WInv, Shape, PCs
  <1>5. cur[s] = None BY <1>1 DEF WInv, ConnInv
  <1>6. ConnInv'
    <2>1. \A j \in 1 .. Len(backlog[s]) :
            /\ to[backlog[s][j]] = s
            /\ \A k \in 1 .. Len(backlog[s]) : backlog[s][j] = backlog[s][k] => j = k
      BY DEF WInv, ConnInv
    <2>2. /\ cur'[s] # None /\ pc'[s] \notin {"down", "accept"} /\ to[cur'[s]] = s
      BY <1>2, <1>3, <2>1, NamesAssumption
    <2>3. Len(backlog'[s]) <= Backlog
      BY <1>2, <1>3, BoundsAssumption DEF WInv, ConnInv
    <2>4. ASSUME NEW j \in 1 .. Len(backlog'[s])
          PROVE  /\ to[backlog'[s][j]] = s /\ backlog'[s][j] # cur'[s]
                 /\ \A k \in 1 .. Len(backlog'[s]) : backlog'[s][j] = backlog'[s][k] => j = k
      <3>1. j \in 1 .. Len(backlog[s]) - 1 /\ j \in Nat /\ j + 1 \in 1 .. Len(backlog[s]) /\ j + 1 # 1
        BY <1>2, <1>3
      <3>2. backlog'[s][j] = backlog[s][j + 1] /\ 1 \in 1 .. Len(backlog[s])
        BY <1>2, <1>3, <3>1
      <3>3. to[backlog'[s][j]] = s /\ backlog'[s][j] # cur'[s]
        BY <1>3, <2>1, <3>1, <3>2
      <3>4. ASSUME NEW k \in 1 .. Len(backlog'[s]), backlog'[s][j] = backlog'[s][k] PROVE j = k
        <4>1. k \in Nat /\ k + 1 \in 1 .. Len(backlog[s]) /\ backlog'[s][k] = backlog[s][k + 1]
          BY <1>2, <1>3
        <4>2. j + 1 = k + 1 BY <2>1, <3>1, <3>2, <3>4, <4>1
        <4> QED BY <3>1, <4>1, <4>2
      <3> QED BY <3>3, <3>4
    <2>5. ASSUME NEW c \in Clients, to[c] # None PROVE c \in Waiting(to[c])'
      <3>1. to[c] \in Servers BY <2>5 DEF WInv, Shape
      <3>2. c = cur[to[c]] \/ Contains(backlog[to[c]], c)
        BY <2>5, <3>1 DEF WInv, ConnInv, Waiting
      <3>3. CASE to[c] # s BY <1>1, <1>3, <3>1, <3>2, <3>3 DEF Waiting, Contains
      <3>4. CASE to[c] = s
        <4>1. PICK j \in 1 .. Len(backlog[s]) : backlog[s][j] = c
          BY <1>5, <3>2, <3>4, NamesAssumption DEF Contains
        <4>2. CASE j = 1 BY <1>1, <1>3, <3>4, <4>1, <4>2 DEF Waiting
        <4>3. CASE j # 1
          <5>1. j - 1 \in 1 .. Len(backlog[s]) - 1 /\ (j - 1) + 1 = j BY <1>2, <4>1, <4>3
          <5>2. Tail(backlog[s])[j - 1] = c BY <1>2, <4>1, <5>1
          <5>3. Contains(backlog'[s], c) BY <1>2, <1>3, <5>1, <5>2 DEF Contains
          <5> QED BY <1>1, <3>4, <5>3 DEF Waiting
        <4> QED BY <4>2, <4>3
      <3> QED BY <3>3, <3>4
    <2>6. ASSUME NEW t \in Servers, t # s
          PROVE  /\ cur'[t] = None <=> pc'[t] \in {"down", "accept"}
                 /\ cur'[t] # None => to'[cur'[t]] = t
                 /\ Len(backlog'[t]) <= Backlog
                 /\ \A j \in 1 .. Len(backlog'[t]) :
                      /\ to'[backlog'[t][j]] = t /\ backlog'[t][j] # cur'[t]
                      /\ \A k \in 1 .. Len(backlog'[t]) : backlog'[t][j] = backlog'[t][k] => j = k
      BY <1>1, <1>3, <2>6 DEF WInv, ConnInv
    <2>7. \A c \in Clients : st'[c] = "idle" => to'[c] = None BY <1>1 DEF WInv, ConnInv
    <2>8. ASSUME NEW t \in Servers
          PROVE  /\ cur'[t] = None <=> pc'[t] \in {"down", "accept"}
                 /\ cur'[t] # None => to'[cur'[t]] = t
                 /\ Len(backlog'[t]) <= Backlog
                 /\ \A j \in 1 .. Len(backlog'[t]) :
                      /\ to'[backlog'[t][j]] = t /\ backlog'[t][j] # cur'[t]
                      /\ \A k \in 1 .. Len(backlog'[t]) : backlog'[t][j] = backlog'[t][k] => j = k
      <3>0. to' = to BY <1>1
      <3>1. CASE t = s
        <4>1. \A j \in 1 .. Len(backlog'[s]) :
                /\ to'[backlog'[s][j]] = s /\ backlog'[s][j] # cur'[s]
                /\ \A k \in 1 .. Len(backlog'[s]) : backlog'[s][j] = backlog'[s][k] => j = k
          BY <2>4, <3>0
        <4> QED BY <2>2, <2>3, <3>0, <3>1, <4>1, Zenon
      <3>2. CASE t # s BY <2>6, <3>2
      <3> QED BY <3>1, <3>2
    <2>9. \A c \in Clients : to'[c] # None => c \in Waiting(to[c])' BY <1>1, <2>5
    <2> QED BY <2>7, <2>8, <2>9 DEF ConnInv
  <1>7. AnsInv'
    <2>1. \A c \in Clients : ans'[c] # NoAnswer => ans[c] = ans'[c] /\ c # cur[s]
      BY <1>1, <1>5, NamesAssumption
    <2> QED BY <1>3, <2>1, AnsFrame
  <1>8. WriteInv'
    <2>1. wr'[s].name = None /\ ~ Writing(s)'
      BY <1>1, <1>3 DEF WInv, WriteInv, Writing
    <2> QED BY <1>1, <1>3, <2>1, NoWriteFrame
  <1>9. ValueInv' BY <1>1 DEF WInv, ValueInv
  <1> QED BY <1>4, <1>6, <1>7, <1>8, <1>9 DEF WInv

\* A record of a write.
IsWrite(w) == w = [name |-> w.name, old |-> w.old, body |-> w.body, off |-> w.off]

\* The server has found its answer and is not writing any more.
LEMMA DecideInv ==
  ASSUME WInv, NEW s \in Servers, NEW a, pc[s] \notin {"down", "accept"}, Decide(s, a),
         UNCHANGED <<defs, cur, backlog, st, to>>,
         req' = [c \in Clients |-> req'[c]],
         \A c \in Clients : c # cur[s] => req'[c] = req[c],
         wr' = [t \in Servers |-> wr'[t]], mem' = [t \in Servers |-> mem'[t]],
         \A t \in Servers : t # s => wr'[t] = wr[t] /\ mem'[t] = mem[t],
         IsWrite(wr'[s]), wr'[s].name = None,
         mem'[s] = [n \in Names(defs) |-> mem'[s][n]],
         \A n \in Names(defs) : Valid(TypeOf(defs, n), mem'[s][n])
  PROVE  WInv'
  <1>1. cur[s] \in Clients /\ cur[s] # None BY Served
  <1>2. /\ pc' = [pc EXCEPT ![s] = "respond"] /\ ans' = [ans EXCEPT ![cur[s]] = a]
    BY DEF Decide
  <1>3. /\ pc'[s] = "respond" /\ \A t \in Servers : t # s => pc'[t] = pc[t]
        /\ \A c \in Clients : c # cur[s] => ans'[c] = ans[c]
        /\ pc' \in [Servers -> PCs] /\ ans' = [c \in Clients |-> ans'[c]]
    BY <1>1, <1>2 DEF WInv, Shape, PCs
  <1>4. Shape'
    <2>1. \A t \in Servers : /\ mem'[t] = [n \in Names(defs) |-> mem'[t][n]]
                             /\ IsWrite(wr'[t])
      BY DEF WInv, Shape, IsWrite
    <2> QED BY <1>3, <2>1 DEF WInv, Shape, IsWrite
  <1>5. ConnInv'
    <2>1. \A t \in Servers : pc'[t] \in {"down", "accept"} <=> pc[t] \in {"down", "accept"}
      BY <1>3
    <2> QED BY <2>1, ConnKept
  <1>6. AnsInv'
    <2>1. \A c \in Clients : ans'[c] # NoAnswer =>
            \/ ans[c] = ans'[c] /\ c # cur[s]
            \/ c = cur'[s] /\ pc'[s] = "respond"
      BY <1>3
    <2> QED BY <1>3, <2>1, AnsFrame
  <1>7. WriteInv'
    <2>1. \A c \in Clients : c \notin Waiting(s) => req'[c] = req[c] BY DEF Waiting
    <2>2. ~ Writing(s)' BY <1>3 DEF Writing
    <2> QED BY <1>3, <2>1, <2>2, NoWriteFrame
  <1>8. ValueInv' BY DEF WInv, ValueInv
  <1> QED BY <1>4, <1>5, <1>6, <1>7, <1>8 DEF WInv

LEMMA ReadInv == ASSUME WInv, NEW s \in Servers, ReadEof(s) \/ HandleRead(s) PROVE WInv'
  <1>1. pc[s] = "read" BY DEF ReadEof, HandleRead, Receive
  <1>2. cur[s] \in Clients BY <1>1, Served
  <1>3. PICK a : Decide(s, a) BY DEF ReadEof, HandleRead
  <1>4. UNCHANGED <<defs, mem, wr, cur, backlog, st, to>>
    BY DEF ReadEof, HandleRead, storeVars
  <1>5. /\ req' = [c \in Clients |-> req'[c]]
        /\ \A c \in Clients : c # cur[s] => req'[c] = req[c]
    <2>1. req' = req \/ \E r : req' = [req EXCEPT ![cur[s]] = r]
      BY DEF ReadEof, HandleRead, Receive
    <2> QED BY <1>2, <2>1 DEF WInv, Shape
  <1>6. IsWrite(wr'[s]) /\ wr'[s].name = None
    BY <1>1, <1>4 DEF WInv, Shape, WriteInv, Writing, IsWrite
  <1>7. /\ wr' = [t \in Servers |-> wr'[t]] /\ mem' = [t \in Servers |-> mem'[t]]
        /\ mem'[s] = [n \in Names(defs) |-> mem'[s][n]]
        /\ \A n \in Names(defs) : Valid(TypeOf(defs, n), mem'[s][n])
    BY <1>4 DEF WInv, Shape, ValueInv
  <1> QED BY <1>1, <1>3, <1>4, <1>5, <1>6, <1>7, DecideInv

LEMMA PersistFailsInv == ASSUME WInv, NEW s \in Servers, PersistFails(s) PROVE WInv'
  <1>1. /\ UNCHANGED <<defs, cur, backlog, st, to, req>> /\ pc[s] \in {"truncate", "write"}
        /\ mem' = [mem EXCEPT ![s][wr[s].name] = wr[s].old]
        /\ wr' = [wr EXCEPT ![s] = NoWrite]
        /\ Decide(s, Answer(400, "error", <<>>))
    BY DEF PersistFails
  <1>2. /\ Settable(req[cur[s]]) /\ req[cur[s]].name = wr[s].name
        /\ Valid(TypeOf(defs, wr[s].name), wr[s].old)
    BY <1>1 DEF WInv, WriteInv, Writing
  <1>3. wr[s].name \in Names(defs) BY <1>2 DEF Settable
  <1>4. /\ mem' = [t \in Servers |-> mem'[t]]
        /\ mem'[s] = [mem[s] EXCEPT ![wr[s].name] = wr[s].old]
        /\ \A t \in Servers : t # s => mem'[t] = mem[t]
    BY <1>1 DEF WInv, Shape
  <1>5. \A n \in Names(defs) : mem'[s][n] = IF n = wr[s].name THEN wr[s].old ELSE mem[s][n]
    BY <1>3, <1>4 DEF WInv, Shape
  <1>6. mem'[s] = [n \in Names(defs) |-> mem'[s][n]]
    BY <1>4 DEF WInv, Shape
  <1>7. \A n \in Names(defs) : Valid(TypeOf(defs, n), mem'[s][n])
    BY <1>2, <1>5 DEF WInv, ValueInv
  <1>8. /\ wr' = [t \in Servers |-> wr'[t]] /\ wr'[s] = NoWrite
        /\ \A t \in Servers : t # s => wr'[t] = wr[t]
    BY <1>1 DEF WInv, Shape
  <1>9. IsWrite(wr'[s]) /\ wr'[s].name = None BY <1>8 DEF IsWrite, NoWrite
  <1>10. req' = [c \in Clients |-> req'[c]] BY <1>1 DEF WInv, Shape
  <1> QED BY <1>1, <1>4, <1>6, <1>7, <1>8, <1>9, <1>10, DecideInv

LEMMA TruncateInv == ASSUME WInv, NEW s \in Servers, TruncateFile(s) PROVE WInv'
  <1>1. /\ UNCHANGED <<defs, mem, wr, cur, backlog, st, to, req, whole, ans>>
        /\ pc[s] = "truncate" /\ pc' = [pc EXCEPT ![s] = "write"]
    BY DEF TruncateFile, clientVars
  <1>2. pc'[s] = "write" /\ \A t \in Servers : t # s => pc'[t] = pc[t]
    BY <1>1 DEF WInv, Shape
  <1>3. Shape' BY <1>1 DEF WInv, Shape, PCs
  <1>4. ConnInv' BY <1>1, <1>2, ConnKept
  <1>5. AnsInv'
    BY <1>1, <1>2 DEF WInv, AnsInv
  <1>6. WriteInv'
    BY <1>1, <1>2 DEF WInv, WriteInv, Writing, Settable
  <1>7. ValueInv' BY <1>1 DEF WInv, ValueInv
  <1> QED BY <1>3, <1>4, <1>5, <1>6, <1>7 DEF WInv

LEMMA WriteSomeInv == ASSUME WInv, NEW s \in Servers, WriteSome(s) PROVE WInv'
  <1>1. /\ UNCHANGED <<defs, mem, cur, backlog, st, to, req>> /\ pc[s] = "write"
        /\ \/ /\ \E n : wr' = [wr EXCEPT ![s].off = n]
              /\ UNCHANGED <<pc, ans>>
           \/ /\ wr' = [wr EXCEPT ![s] = NoWrite]
              /\ Decide(s, Answer(200, "value", mem[s][wr[s].name]))
    BY DEF WriteSome
  <1>2. /\ mem' = [t \in Servers |-> mem'[t]] /\ mem'[s] = [n \in Names(defs) |-> mem'[s][n]]
        /\ req' = [c \in Clients |-> req'[c]]
        /\ \A n \in Names(defs) : Valid(TypeOf(defs, n), mem'[s][n])
    BY <1>1 DEF WInv, Shape, ValueInv
  <1>3. CASE wr' = [wr EXCEPT ![s] = NoWrite] /\ Decide(s, Answer(200, "value", mem[s][wr[s].name]))
    <2>1. /\ wr' = [t \in Servers |-> wr'[t]] /\ wr'[s] = NoWrite
          /\ \A t \in Servers : t # s => wr'[t] = wr[t]
      BY <1>3 DEF WInv, Shape
    <2>2. IsWrite(wr'[s]) /\ wr'[s].name = None BY <2>1 DEF IsWrite, NoWrite
    <2> QED BY <1>1, <1>2, <1>3, <2>1, <2>2, DecideInv
  <1>4. ASSUME NEW n, wr' = [wr EXCEPT ![s].off = n], UNCHANGED <<pc, ans>> PROVE WInv'
    <2>1. /\ wr' = [t \in Servers |-> wr'[t]] /\ \A t \in Servers : t # s => wr'[t] = wr[t]
          /\ wr'[s] = [wr[s] EXCEPT !.off = n]
      BY <1>4 DEF WInv, Shape
    <2>2. wr'[s] = [name |-> wr[s].name, old |-> wr[s].old, body |-> wr[s].body, off |-> n]
      <3>1. IsWrite(wr[s]) BY DEF WInv, Shape, IsWrite
      <3> QED BY <2>1, <3>1 DEF IsWrite
    <2>3. \A t \in Servers : IsWrite(wr'[t]) /\ wr'[t].name = wr[t].name /\ wr'[t].old = wr[t].old
      BY <2>1, <2>2 DEF IsWrite, WInv, Shape
    <2>4. Shape' BY <1>1, <1>4, <2>1, <2>3 DEF WInv, Shape, IsWrite
    <2>5. ConnInv' BY <1>1, <1>4, ConnKept
    <2>6. AnsInv' BY <1>1, <1>4 DEF WInv, AnsInv
    <2>7. WriteInv' BY <1>1, <1>4, <2>3 DEF WInv, WriteInv, Writing, Settable
    <2>8. ValueInv' BY <1>1 DEF WInv, ValueInv
    <2> QED BY <2>4, <2>5, <2>6, <2>7, <2>8 DEF WInv
  <1> QED BY <1>1, <1>3, <1>4

LEMMA RequestValue ==
  ASSUME NEW r \in Request PROVE r.value \in Seq(ToSet(r.value))
  <1>1. r.value \in Inputs \cup {<<>>} BY DEF Request
  <1>2. <<>> \in Seq(ToSet(<<>>)) OBVIOUS
  <1> QED BY <1>1, <1>2, InputsAssumption DEF IsText

LEMMA HandleSetInv == ASSUME WInv, NEW s \in Servers, HandleSet(s) PROVE WInv'
  <1>1. PICK r \in Request :
          /\ Receive(s, r) /\ Settable(r)
          /\ LET new == [mem[s] EXCEPT ![r.name] = Normal(TypeOf(defs, r.name), StripEol(r.value))]
             IN /\ mem' = [mem EXCEPT ![s] = new]
                /\ wr' = [wr EXCEPT ![s] = [name |-> r.name, old |-> mem[s][r.name],
                                            body |-> Serialize(defs, new), off |-> 0]]
          /\ pc' = [pc EXCEPT ![s] = "truncate"]
          /\ UNCHANGED <<defs, file, stored, solo, cur, backlog, st, to, whole, ans>>
    BY DEF HandleSet
  <1>2. /\ UNCHANGED <<defs, cur, backlog, st, to, whole, ans>>
        /\ pc[s] = "read" /\ pc' = [pc EXCEPT ![s] = "truncate"]
        /\ req' = [req EXCEPT ![cur[s]] = r]
    BY <1>1 DEF Receive
  <1>3. PICK body : wr' = [wr EXCEPT ![s] = [name |-> r.name, old |-> mem[s][r.name],
                                             body |-> body, off |-> 0]]
    BY <1>1
  <1>4. PICK v : v = Normal(TypeOf(defs, r.name), StripEol(r.value)) OBVIOUS
  <1>5. mem' = [mem EXCEPT ![s] = [mem[s] EXCEPT ![r.name] = v]] BY <1>1, <1>4
  <1>6. cur[s] \in Clients /\ cur[s] # None BY <1>2, Served
  <1>7. /\ pc'[s] = "truncate" /\ \A t \in Servers : t # s => pc'[t] = pc[t]
        /\ req'[cur[s]] = r /\ \A c \in Clients : c # cur[s] => req'[c] = req[c]
        /\ pc' \in [Servers -> PCs] /\ req' = [c \in Clients |-> req'[c]]
    BY <1>2, <1>6 DEF WInv, Shape, PCs
  <1>8. r.name \in Names(defs) /\ Valid(TypeOf(defs, r.name), StripEol(r.value))
    BY <1>1 DEF Settable
  <1>9. Valid(TypeOf(defs, r.name), v)
    <2>1. defs \in DefSets BY DEF WInv, Shape
    <2> QED BY <1>4, <1>8, <2>1, DefType, NormalValid
  <1>10. /\ mem' = [t \in Servers |-> mem'[t]]
         /\ mem'[s] = [mem[s] EXCEPT ![r.name] = v]
         /\ \A t \in Servers : t # s => mem'[t] = mem[t]
    BY <1>5 DEF WInv, Shape
  <1>11. /\ \A n \in Names(defs) : mem'[s][n] = IF n = r.name THEN v ELSE mem[s][n]
         /\ mem'[s] = [n \in Names(defs) |-> mem'[s][n]]
    BY <1>8, <1>10 DEF WInv, Shape
  <1>12. /\ wr' = [t \in Servers |-> wr'[t]] /\ \A t \in Servers : t # s => wr'[t] = wr[t]
         /\ wr'[s] = [name |-> r.name, old |-> mem[s][r.name], body |-> body, off |-> 0]
    BY <1>3 DEF WInv, Shape
  <1>13. wr'[s].name = r.name /\ wr'[s].old = mem[s][r.name] /\ IsWrite(wr'[s])
    BY <1>12 DEF IsWrite
  <1>14. Shape'
    <2>1. ASSUME NEW t \in Servers
          PROVE  mem'[t] = [n \in Names(defs) |-> mem'[t][n]] /\ IsWrite(wr'[t])
      <3>1. mem[t] = [n \in Names(defs) |-> mem[t][n]] /\ IsWrite(wr[t])
        BY DEF WInv, Shape, IsWrite
      <3>2. CASE t = s BY <1>11, <1>13, <3>2, Zenon
      <3>3. CASE t # s
        <4>1. mem'[t] = mem[t] /\ wr'[t] = wr[t] BY <1>10, <1>12, <3>3
        <4> QED BY <3>1, <4>1, Zenon
      <3> QED BY <3>2, <3>3
    <2> QED BY <1>2, <1>7, <1>10, <1>12, <2>1 DEF WInv, Shape, IsWrite
  <1>15. ConnInv' BY <1>2, <1>7, ConnKept
  <1>16. AnsInv' BY <1>2, <1>7 DEF WInv, AnsInv
  <1>17. WriteInv'
    <2>1. \A c \in Clients : c \notin Waiting(s) => req'[c] = req[c] BY <1>7 DEF Waiting
    <2>2. wr'[s].name # None BY <1>8, <1>13, NamesAssumption DEF WInv, Shape
    <2>3. req'[cur'[s]] = r BY <1>2, <1>7
    <2>4. r.value \in Seq(ToSet(r.value)) BY RequestValue
    <2>5. mem'[s][wr'[s].name] = Normal(TypeOf(defs, wr'[s].name), StripEol(r.value))
      BY <1>4, <1>8, <1>11, <1>13
    <2>6. Valid(TypeOf(defs, wr'[s].name), wr'[s].old)
      BY <1>8, <1>13 DEF WInv, ValueInv
    <2>7. Writing(s)' BY <1>7 DEF Writing
    <2>8. Settable(r) /\ r.name = wr'[s].name BY <1>1, <1>13
    <2>9. \A t \in Servers \ {s} :
            /\ pc'[t] = pc[t] /\ wr'[t] = wr[t] /\ mem'[t] = mem[t] /\ cur'[t] = cur[t]
      BY <1>2, <1>7, <1>10, <1>12
    <2>10. /\ Settable(req'[cur'[s]]) /\ req'[cur'[s]].name = wr'[s].name
           /\ req'[cur'[s]].value \in Seq(ToSet(req'[cur'[s]].value))
           /\ mem'[s][wr'[s].name] =
                Normal(TypeOf(defs, wr'[s].name), StripEol(req'[cur'[s]].value))
      BY <2>3, <2>4, <2>5, <2>8, Zenon
    <2>11. defs' = defs BY <1>2
    <2> QED BY <2>1, <2>2, <2>6, <2>7, <2>9, <2>10, <2>11, WriteFrame, Zenon
  <1>18. ValueInv' BY <1>2, <1>9, <1>10, <1>11 DEF WInv, ValueInv
  <1> QED BY <1>14, <1>15, <1>16, <1>17, <1>18 DEF WInv

LEMMA RespondInv == ASSUME WInv, NEW s \in Servers, Respond(s) PROVE WInv'
  <1>1. /\ UNCHANGED <<defs, mem, wr, backlog>> /\ pc[s] = "respond"
        /\ st' = [st EXCEPT ![cur[s]] = IF @ = "open" THEN "served" ELSE @]
        /\ cur' = [cur EXCEPT ![s] = None] /\ pc' = [pc EXCEPT ![s] = "accept"]
        /\ Disconnect({cur[s]})
    BY DEF Respond, storeVars
  <1>2. cur[s] \in Clients /\ cur[s] # None /\ to[cur[s]] = s BY <1>1, Served
  <1>3. /\ \A c \in Clients : /\ to'[c] = IF c = cur[s] THEN None ELSE to[c]
                              /\ req'[c] = IF c = cur[s] THEN NoRequest ELSE req[c]
                              /\ ans'[c] = IF c = cur[s] THEN NoAnswer ELSE ans[c]
                              /\ st'[c] = "idle" => st[c] = "idle"
        /\ to' \in [Clients -> Servers \cup {None}]
        /\ req' = [c \in Clients |-> req'[c]] /\ ans' = [c \in Clients |-> ans'[c]]
        /\ st' \in [Clients -> {"idle", "open", "gone", "served", "reset"}]
    BY <1>1, <1>2 DEF Disconnect, WInv, Shape
  <1>4. /\ cur'[s] = None /\ pc'[s] = "accept"
        /\ \A t \in Servers : t # s => cur'[t] = cur[t] /\ pc'[t] = pc[t]
        /\ cur' \in [Servers -> Clients \cup {None}] /\ pc' \in [Servers -> PCs]
    BY <1>1 DEF WInv, Shape, PCs
  <1>5. Shape' BY <1>1, <1>3, <1>4 DEF WInv, Shape
  <1>6. ConnInv'
    <2>1. \A t \in Servers : \A j \in 1 .. Len(backlog[t]) :
            /\ backlog[t][j] \in Clients /\ backlog[t][j] # cur[s] /\ backlog[t][j] # None
            /\ to[backlog[t][j]] = t
      BY <1>2, NamesAssumption DEF WInv, Shape, ConnInv
    <2>2. \A t \in Servers : t # s /\ cur[t] # None => cur[t] # cur[s] /\ cur[t] \in Clients
      BY OthersApart
    <2>3. ASSUME NEW t \in Servers
          PROVE  /\ cur'[t] = None <=> pc'[t] \in {"down", "accept"}
                 /\ cur'[t] # None => to'[cur'[t]] = t
                 /\ Len(backlog'[t]) <= Backlog
      BY <1>1, <1>3, <1>4, <2>2 DEF WInv, ConnInv
    <2>4. ASSUME NEW t \in Servers, NEW j \in 1 .. Len(backlog'[t])
          PROVE  /\ to'[backlog'[t][j]] = t /\ backlog'[t][j] # cur'[t]
                 /\ \A k \in 1 .. Len(backlog'[t]) : backlog'[t][j] = backlog'[t][k] => j = k
      BY <1>1, <1>3, <1>4, <2>1 DEF WInv, ConnInv
    <2>5. ASSUME NEW c \in Clients, to'[c] # None PROVE c \in Waiting(to[c])'
      <3>1. c # cur[s] /\ to'[c] = to[c] /\ to[c] \in Servers /\ c # None
        BY <1>3, <2>5, NamesAssumption DEF WInv, Shape
      <3>2. c = cur[to[c]] \/ Contains(backlog[to[c]], c)
        BY <2>5, <3>1 DEF WInv, ConnInv, Waiting
      <3>3. c = cur'[to[c]] \/ Contains(backlog'[to[c]], c)
        BY <1>1, <1>4, <3>1, <3>2
      <3> QED BY <3>1, <3>3 DEF Waiting
    <2>6. \A c \in Clients : st'[c] = "idle" => to'[c] = None
      BY <1>3 DEF WInv, ConnInv
    <2> QED BY <2>3, <2>4, <2>5, <2>6 DEF ConnInv
  <1>7. AnsInv'
    <2>1. \A c \in Clients : ans'[c] # NoAnswer => ans[c] = ans'[c] /\ c # cur[s]
      BY <1>3
    <2> QED BY <1>4, <2>1, AnsFrame
  <1>8. WriteInv'
    <2>1. wr'[s].name = None /\ ~ Writing(s)' BY <1>1, <1>4 DEF WInv, WriteInv, Writing
    <2>2. \A c \in Clients : c \notin Waiting(s) => req'[c] = req[c] BY <1>3 DEF Waiting
    <2> QED BY <1>1, <1>4, <2>1, <2>2, NoWriteFrame
  <1>9. ValueInv' BY <1>1 DEF WInv, ValueInv
  <1> QED BY <1>5, <1>6, <1>7, <1>8, <1>9 DEF WInv
-----------------------------------------------------------------------------
(* The end of a process, and a new one *)

LEMMA DieInv == ASSUME WInv, NEW s \in Servers, Die(s) PROVE WInv'
  <1>1. /\ defs' = defs /\ pc' = [pc EXCEPT ![s] = "down"]
        /\ st' = [c \in Clients |-> IF c \in Waiting(s) /\ st[c] = "open" THEN "reset" ELSE st[c]]
        /\ cur' = [cur EXCEPT ![s] = None] /\ backlog' = [backlog EXCEPT ![s] = <<>>]
        /\ wr' = [wr EXCEPT ![s] = NoWrite] /\ mem' = [mem EXCEPT ![s] = Defaults(defs)]
        /\ Disconnect(Waiting(s))
    BY DEF Die
  <1>2. \A c \in Clients : c \in Waiting(s) <=> to[c] = s BY WaitingIs
  <1>3. /\ \A c \in Clients : /\ to'[c] = IF to[c] = s THEN None ELSE to[c]
                              /\ req'[c] = IF to[c] = s THEN NoRequest ELSE req[c]
                              /\ ans'[c] = IF to[c] = s THEN NoAnswer ELSE ans[c]
                              /\ st'[c] = "idle" => st[c] = "idle"
        /\ to' \in [Clients -> Servers \cup {None}]
        /\ req' = [c \in Clients |-> req'[c]] /\ ans' = [c \in Clients |-> ans'[c]]
        /\ st' \in [Clients -> {"idle", "open", "gone", "served", "reset"}]
    BY <1>1, <1>2 DEF Disconnect, WInv, Shape
  <1>4. /\ cur'[s] = None /\ pc'[s] = "down" /\ backlog'[s] = <<>>
        /\ \A t \in Servers : t # s => cur'[t] = cur[t] /\ pc'[t] = pc[t] /\ backlog'[t] = backlog[t]
        /\ cur' \in [Servers -> Clients \cup {None}] /\ pc' \in [Servers -> PCs]
        /\ backlog' \in [Servers -> Seq(Clients)]
    BY <1>1 DEF WInv, Shape, PCs
  <1>5. /\ wr'[s] = NoWrite /\ mem'[s] = Defaults(defs)
        /\ \A t \in Servers : t # s => wr'[t] = wr[t] /\ mem'[t] = mem[t]
        /\ wr' = [t \in Servers |-> wr'[t]] /\ mem' = [t \in Servers |-> mem'[t]]
    BY <1>1 DEF WInv, Shape
  <1>6. wr'[s].name = None /\ IsWrite(wr'[s]) BY <1>5 DEF NoWrite, IsWrite
  <1>7. /\ mem'[s] = [n \in Names(defs) |-> mem'[s][n]]
        /\ \A n \in Names(defs) : Valid(TypeOf(defs, n), mem'[s][n])
    <2>1. defs \in DefSets BY DEF WInv, Shape
    <2>2. /\ Defaults(defs) = [n \in Names(defs) |-> Defaults(defs)[n]]
          /\ \A n \in Names(defs) : Valid(TypeOf(defs, n), Defaults(defs)[n])
      BY <2>1, DefaultsValid
    <2> QED BY <1>5, <2>2, Zenon
  <1>8. Shape'
    <2>1. ASSUME NEW t \in Servers
          PROVE  mem'[t] = [n \in Names(defs) |-> mem'[t][n]] /\ IsWrite(wr'[t])
      <3>1. mem[t] = [n \in Names(defs) |-> mem[t][n]] /\ IsWrite(wr[t])
        BY DEF WInv, Shape, IsWrite
      <3>2. CASE t = s BY <1>6, <1>7, <3>2, Zenon
      <3>3. CASE t # s
        <4>1. mem'[t] = mem[t] /\ wr'[t] = wr[t] BY <1>5, <3>3
        <4> QED BY <3>1, <4>1, Zenon
      <3> QED BY <3>2, <3>3
    <2> QED BY <1>1, <1>3, <1>4, <1>5, <2>1 DEF WInv, Shape, IsWrite
  <1>9. ConnInv'
    <2>0. s # None /\ \A t \in Servers : t # None BY NamesAssumption
    <2>1. ASSUME NEW t \in Servers, t # s
          PROVE  /\ cur'[t] = None <=> pc'[t] \in {"down", "accept"}
                 /\ cur'[t] # None => to'[cur'[t]] = t
                 /\ Len(backlog'[t]) <= Backlog
                 /\ \A j \in 1 .. Len(backlog'[t]) :
                      /\ to'[backlog'[t][j]] = t /\ backlog'[t][j] # cur'[t]
                      /\ \A k \in 1 .. Len(backlog'[t]) : backlog'[t][j] = backlog'[t][k] => j = k
      <3>1. cur[t] # None => cur[t] \in Clients /\ to[cur[t]] = t
        BY DEF WInv, Shape, ConnInv
      <3>2. \A j \in 1 .. Len(backlog[t]) : backlog[t][j] \in Clients
        BY DEF WInv, Shape
      <3>3. cur'[t] = cur[t] /\ pc'[t] = pc[t] /\ backlog'[t] = backlog[t] BY <1>4, <2>1
      <3>4. cur'[t] # None => to'[cur'[t]] = t BY <1>3, <2>1, <3>1, <3>3
      <3>5. ASSUME NEW j \in 1 .. Len(backlog[t])
            PROVE  /\ to'[backlog[t][j]] = t /\ backlog[t][j] # cur[t]
                   /\ \A k \in 1 .. Len(backlog[t]) : backlog[t][j] = backlog[t][k] => j = k
        BY <1>3, <2>1, <3>2 DEF WInv, ConnInv
      <3> QED BY <3>3, <3>4, <3>5 DEF WInv, ConnInv
    <2>2. /\ cur'[s] = None <=> pc'[s] \in {"down", "accept"}
          /\ cur'[s] # None => to'[cur'[s]] = s
          /\ Len(backlog'[s]) <= Backlog /\ 1 .. Len(backlog'[s]) = {}
      BY <1>4, BoundsAssumption
    <2>3. ASSUME NEW c \in Clients, to'[c] # None PROVE c \in Waiting(to[c])'
      <3>1. to'[c] = to[c] /\ to[c] \in Servers /\ to[c] # s
        BY <1>3, <2>3 DEF WInv, Shape
      <3>2. c = cur[to[c]] \/ Contains(backlog[to[c]], c)
        BY <2>3, <3>1 DEF WInv, ConnInv, Waiting
      <3>3. c = cur'[to[c]] \/ Contains(backlog'[to[c]], c) BY <1>4, <3>1, <3>2
      <3> QED BY <3>1, <3>3 DEF Waiting
    <2>4. \A c \in Clients : st'[c] = "idle" => to'[c] = None
      BY <1>3 DEF WInv, ConnInv
    <2> QED BY <2>1, <2>2, <2>3, <2>4 DEF ConnInv
  <1>10. AnsInv'
    <2>1. ASSUME NEW c \in Clients, ans'[c] # NoAnswer PROVE ans[c] = ans'[c] /\ c # cur[s]
      <3>1. ans[c] = ans'[c] /\ to[c] # s BY <1>3, <2>1
      <3>2. cur[s] = c => to[c] = s BY NamesAssumption DEF WInv, ConnInv
      <3> QED BY <3>1, <3>2
    <2> QED BY <1>4, <2>1, AnsFrame
  <1>11. WriteInv'
    <2>1. ~ Writing(s)' BY <1>4 DEF Writing
    <2>2. \A c \in Clients : c \notin Waiting(s) => req'[c] = req[c] BY <1>2, <1>3
    <2>3. \A t \in Servers \ {s} :
            /\ pc'[t] = pc[t] /\ wr'[t] = wr[t] /\ mem'[t] = mem[t] /\ cur'[t] = cur[t]
      BY <1>4, <1>5
    <2> QED BY <1>1, <1>6, <2>1, <2>2, <2>3, NoWriteFrame
  <1>12. ValueInv' BY <1>1, <1>5, <1>7 DEF WInv, ValueInv
  <1> QED BY <1>8, <1>9, <1>10, <1>11, <1>12 DEF WInv

LEMMA StartInv == ASSUME WInv, NEW s \in Servers, Start(s) PROVE WInv'
  <1>1. /\ UNCHANGED <<defs, wr, cur, backlog, st, to, req, whole, ans>>
        /\ pc[s] = "down" /\ pc' = [pc EXCEPT ![s] = "accept"]
        /\ mem' = [mem EXCEPT ![s] = Loaded(defs, file)]
    BY DEF Start, clientVars
  <1>2. /\ pc'[s] = "accept" /\ \A t \in Servers : t # s => pc'[t] = pc[t]
        /\ pc' \in [Servers -> PCs]
        /\ mem'[s] = Loaded(defs, file) /\ \A t \in Servers : t # s => mem'[t] = mem[t]
        /\ mem' = [t \in Servers |-> mem'[t]]
    BY <1>1 DEF WInv, Shape, PCs
  <1>3. /\ mem'[s] = [n \in Names(defs) |-> mem'[s][n]]
        /\ \A n \in Names(defs) : Valid(TypeOf(defs, n), mem'[s][n])
    <2>1. defs \in DefSets BY DEF WInv, Shape
    <2>2. /\ Loaded(defs, file) = [n \in Names(defs) |-> Loaded(defs, file)[n]]
          /\ \A n \in Names(defs) : Valid(TypeOf(defs, n), Loaded(defs, file)[n])
      BY <2>1, LoadedValid
    <2> QED BY <1>2, <2>2, Zenon
  <1>4. Shape'
    <2>1. ASSUME NEW t \in Servers PROVE mem'[t] = [n \in Names(defs) |-> mem'[t][n]]
      <3>1. mem[t] = [n \in Names(defs) |-> mem[t][n]] BY DEF WInv, Shape
      <3>2. CASE t = s BY <1>3, <3>2, Zenon
      <3>3. CASE t # s BY <1>2, <3>1, <3>3, Zenon
      <3> QED BY <3>2, <3>3
    <2> QED BY <1>1, <1>2, <2>1 DEF WInv, Shape
  <1>5. ConnInv' BY <1>1, <1>2, ConnKept
  <1>6. AnsInv' BY <1>1, <1>2 DEF WInv, AnsInv
  <1>7. WriteInv'
    <2>1. wr'[s].name = None /\ ~ Writing(s)' BY <1>1, <1>2 DEF WInv, WriteInv, Writing
    <2> QED BY <1>1, <1>2, <2>1, NoWriteFrame
  <1>8. ValueInv' BY <1>1, <1>2, <1>3 DEF WInv, ValueInv
  <1> QED BY <1>4, <1>5, <1>6, <1>7, <1>8 DEF WInv

-----------------------------------------------------------------------------
(* The invariant *)

LEMMA InitWInv == ASSUME Init PROVE WInv
  <1>1. Shape
    <2>1. /\ Defaults(defs) = [n \in Names(defs) |-> Defaults(defs)[n]] BY DefaultsValid DEF Init
    <2>2. ASSUME NEW s \in Servers
          PROVE  mem[s] = [n \in Names(defs) |-> mem[s][n]] /\ IsWrite(wr[s])
      <3>1. mem[s] = Defaults(defs) /\ wr[s] = NoWrite BY DEF Init
      <3>2. IsWrite(NoWrite) BY DEF IsWrite, NoWrite
      <3> QED BY <2>1, <3>1, <3>2, Zenon
    <2> QED BY <2>2 DEF Init, Shape, PCs, IsWrite
  <1>2. ConnInv
    <2>1. \A s \in Servers : cur[s] = None /\ pc[s] = "down" /\ Len(backlog[s]) = 0 BY DEF Init
    <2>2. \A c \in Clients : to[c] = None BY DEF Init
    <2> QED BY <2>1, <2>2, BoundsAssumption DEF ConnInv
  <1>3. AnsInv BY DEF Init, AnsInv
  <1>4. WriteInv BY DEF Init, WriteInv, Writing, NoWrite
  <1>5. ValueInv BY DefaultsValid DEF Init, ValueInv
  <1> QED BY <1>1, <1>2, <1>3, <1>4, <1>5 DEF WInv

LEMMA StutterWInv == ASSUME WInv, UNCHANGED vars PROVE WInv'
  <1>1. UNCHANGED <<defs, mem, wr, pc, cur, backlog, st, to, req, ans>>
    BY DEF vars, storeVars, serverVars, clientVars
  <1>2. ConnInv' BY <1>1, ConnKept
  <1>3. Shape' BY <1>1 DEF WInv, Shape
  <1>4. AnsInv' BY <1>1 DEF WInv, AnsInv
  <1>5. WriteInv' BY <1>1 DEF WInv, WriteInv, Writing, Settable
  <1>6. ValueInv' BY <1>1 DEF WInv, ValueInv
  <1> QED BY <1>2, <1>3, <1>4, <1>5, <1>6 DEF WInv

LEMMA WInductive == Spec => []WInv
  <1>1. Init => WInv BY InitWInv
  <1>2. WInv /\ [Next]_vars => WInv'
    <2> SUFFICES ASSUME WInv, [Next]_vars PROVE WInv' OBVIOUS
    <2>1. CASE UNCHANGED vars BY <2>1, StutterWInv
    <2>2. ASSUME NEW s \in Servers, ServerStep(s) PROVE WInv'
      <3>1. Accept(s) => WInv' BY AcceptInv
      <3>2. ReadEof(s) \/ HandleRead(s) => WInv' BY ReadInv
      <3>3. HandleSet(s) => WInv' BY HandleSetInv
      <3>4. TruncateFile(s) => WInv' BY TruncateInv
      <3>5. WriteSome(s) => WInv' BY WriteSomeInv
      <3>6. PersistFails(s) => WInv' BY PersistFailsInv
      <3>7. Respond(s) => WInv' BY RespondInv
      <3>8. BrokenPipe(s) => WInv' BY DieInv DEF BrokenPipe
      <3> QED BY <2>2, <3>1, <3>2, <3>3, <3>4, <3>5, <3>6, <3>7, <3>8 DEF ServerStep
    <2>3. ASSUME NEW s \in Servers, Kill(s) \/ Start(s) PROVE WInv'
      BY <2>3, DieInv, StartInv DEF Kill
    <2>4. ASSUME NEW c \in Clients, Send(c) \/ HangUp(c) PROVE WInv' BY <2>4, SendInv
    <2>5. ASSUME NEW c \in Clients, NEW s \in Servers, Connect(c, s) PROVE WInv'
      BY <2>5, ConnectInv
    <2> QED BY <2>1, <2>2, <2>3, <2>4, <2>5 DEF Next
  <1> QED BY <1>1, <1>2, PTL DEF Spec

\* A server that is up serves a client exactly between accept and close, never
\* holds more unaccepted connections than the backlog it listened with, and never
\* holds a value its type does not accept, whatever it was sent or read from the
\* file (WebServer::run, handle_client, PropStore::set and PropStore::load).
THEOREM TypeCorrect == Spec => []TypeOK
  <1>1. WInv => TypeOK
    <2> SUFFICES ASSUME WInv PROVE TypeOK OBVIOUS
    <2>1. \A s \in Servers : cur[s] = None <=> pc[s] \in {"down", "accept"}
      BY DEF WInv, ConnInv
    <2>2. \A s \in Servers : Len(backlog[s]) <= Backlog BY DEF WInv, ConnInv
    <2> QED BY <2>1, <2>2 DEF WInv, Shape, ValueInv, TypeOK, PCs
  <1> QED BY <1>1, WInductive, PTL
-----------------------------------------------------------------------------
(* The registers of PropRegister *)

UpView  == [s \in Servers |-> pc[s] # "down"]
RegView == [s \in Servers |-> Register(s)]

LEMMA UpSame ==
  ASSUME \A t \in Servers : pc'[t] = "down" <=> pc[t] = "down" PROVE UpView' = UpView
  BY Zenon DEF UpView

LEMMA RegSame ==
  ASSUME \A t \in Servers : Register(t)' = Register(t) PROVE RegView' = RegView
  BY Zenon DEF RegView

LEMMA RegUpdate ==
  ASSUME NEW s \in Servers, NEW m, Register(s)' = m,
         \A t \in Servers : t # s => Register(t)' = Register(t)
  PROVE  RegView' = [RegView EXCEPT ![s] = m]
  <1> DEFINE R(t) == Register(t)
             N(t) == Register(t)'
  <1>1. RegView = [t \in Servers |-> R(t)] /\ RegView' = [t \in Servers |-> N(t)] BY DEF RegView
  <1>2. N(s) = m /\ \A t \in Servers : t # s => N(t) = R(t) OBVIOUS
  <1> HIDE DEF R, N
  <1> QED BY <1>1, <1>2

\* A server that is not writing shows what it holds.
LEMMA RegOf ==
  ASSUME WInv, NEW s \in Servers
  PROVE  /\ ~ Writing(s) => Register(s) = mem[s]
         /\ Writing(s) => Register(s) = [mem[s] EXCEPT ![wr[s].name] = wr[s].old]
  BY DEF WInv, WriteInv, Register

\* What a server shows depends on its memory and on the write under way.
LEMMA RegKept ==
  ASSUME NEW t, mem'[t] = mem[t], wr'[t].name = wr[t].name, wr'[t].old = wr[t].old
  PROVE  Register(t)' = Register(t)
  BY DEF Register

\* The client being served waits for its answer.
LEMMA WaitsFor ==
  ASSUME WInv, NEW s \in Servers, pc[s] \in {"read", "truncate", "write"}
  PROVE  cur[s] \in Clients /\ to[cur[s]] = s /\ ans[cur[s]] = NoAnswer /\ UpView[s]
  <1>1. cur[s] # None /\ cur[s] \in Clients /\ to[cur[s]] = s BY Served
  <1>2. ASSUME ans[cur[s]] # NoAnswer PROVE FALSE
    <2>1. PICK t \in Servers : cur[t] = cur[s] /\ pc[t] = "respond"
      BY <1>1, <1>2 DEF WInv, AnsInv
    <2>2. t = s BY <1>1, <2>1 DEF WInv, ConnInv
    <2> QED BY <2>1, <2>2
  <1>3. UpView[s] BY DEF UpView
  <1> QED BY <1>1, <1>2, <1>3

\* The answer is the only thing the client sees of the step.
LEMMA DecideView ==
  ASSUME WInv, NEW s \in Servers, NEW a, pc[s] \in {"read", "truncate", "write"}, Decide(s, a)
  PROVE  ans' = [ans EXCEPT ![cur[s]] = a] /\ ans'[cur[s]] = a /\ UpView' = UpView
  <1>1. cur[s] \in Clients BY WaitsFor
  <1>2. ans' = [ans EXCEPT ![cur[s]] = a] /\ pc' = [pc EXCEPT ![s] = "respond"] BY DEF Decide
  <1>3. ans'[cur[s]] = a BY <1>1, <1>2 DEF WInv, Shape
  <1>4. \A t \in Servers : pc'[t] = "down" <=> pc[t] = "down" BY <1>2 DEF WInv, Shape
  <1> QED BY <1>2, <1>3, <1>4, UpSame

LEMMA ReqSame ==
  ASSUME WInv, NEW c \in Clients, req' = req PROVE req' = [req EXCEPT ![c] = req'[c]]
  BY DEF WInv, Shape

LEMMA ReqOne ==
  ASSUME WInv, NEW c \in Clients, NEW r, req' = [req EXCEPT ![c] = r]
  PROVE  req' = [req EXCEPT ![c] = req'[c]] /\ req'[c] = r
  BY DEF WInv, Shape

-----------------------------------------------------------------------------
(* The steps of PropRegister, in terms of the registers *)

LEMMA ViewSubmit ==
  ASSUME NEW c \in Clients, NEW s \in Servers, UpView[s], to[c] = None,
         to' = [to EXCEPT ![c] = s], UNCHANGED <<defs, req, ans>>,
         UpView' = UpView, RegView' = RegView
  PROVE  Registers!Submit(c, s)
  BY Zenon DEF Registers!Submit, UpView, RegView

LEMMA ViewSend ==
  ASSUME NEW c \in Clients, to[c] # None, req' = [req EXCEPT ![c] = req'[c]],
         UNCHANGED <<defs, to, ans>>, UpView' = UpView, RegView' = RegView
  PROVE  Registers!Send(c)
  BY Zenon DEF Registers!Send, Registers!Chooses, UpView, RegView

LEMMA ViewRefuse ==
  ASSUME NEW c \in Clients, NEW s \in Servers, UpView[s], to[c] = s, ans[c] = NoAnswer,
         ans' = [ans EXCEPT ![c] = ans'[c]], ans'[c].code \in {400, 404},
         req' = [req EXCEPT ![c] = req'[c]], UNCHANGED <<defs, to>>,
         UpView' = UpView, RegView' = RegView
  PROVE  Registers!Refuse(c, s)
  BY Zenon DEF Registers!Refuse, Registers!Waits, Registers!Gives, Registers!Chooses,
     UpView, RegView

LEMMA ViewGetPage ==
  ASSUME NEW c \in Clients, NEW s \in Servers, UpView[s], to[c] = s, ans[c] = NoAnswer,
         req'[c].kind = "root", ans' = [ans EXCEPT ![c] = Answer(200, "page", <<>>)],
         req' = [req EXCEPT ![c] = req'[c]], UNCHANGED <<defs, to>>,
         UpView' = UpView, RegView' = RegView
  PROVE  Registers!GetPage(c, s)
  BY Zenon DEF Registers!GetPage, Registers!Waits, Registers!Gives, Registers!Chooses, Registers!Ok,
     Answer, UpView, RegView

LEMMA ViewGetAll ==
  ASSUME NEW c \in Clients, NEW s \in Servers, UpView[s], to[c] = s, ans[c] = NoAnswer,
         req'[c].kind = "props",
         ans' = [ans EXCEPT ![c] = Answer(200, "props",
                   [i \in DOMAIN defs |-> <<defs[i].name, RegView[s][defs[i].name]>>])],
         req' = [req EXCEPT ![c] = req'[c]], UNCHANGED <<defs, to>>,
         UpView' = UpView, RegView' = RegView
  PROVE  Registers!GetAll(c, s)
  BY Zenon DEF Registers!GetAll, Registers!Waits, Registers!Gives, Registers!Chooses, Registers!Ok,
     Answer, UpView, RegView

LEMMA ViewGetOne ==
  ASSUME NEW c \in Clients, NEW s \in Servers, UpView[s], to[c] = s, ans[c] = NoAnswer,
         req'[c].kind = "get", req'[c].name \in Names(defs),
         ans' = [ans EXCEPT ![c] = Answer(200, "value", RegView[s][req'[c].name])],
         req' = [req EXCEPT ![c] = req'[c]], UNCHANGED <<defs, to>>,
         UpView' = UpView, RegView' = RegView
  PROVE  Registers!GetOne(c, s)
  BY Zenon DEF Registers!GetOne, Registers!Waits, Registers!Gives, Registers!Chooses, Registers!Ok,
     Answer, UpView, RegView

LEMMA ViewPut ==
  ASSUME NEW c \in Clients, NEW s \in Servers, UpView[s], to[c] = s, ans[c] = NoAnswer,
         req'[c].kind = "put", req'[c].name \in Names(defs),
         NEW k \in 0 .. Len(req'[c].value), NEW v, v = SubSeq(req'[c].value, 1, k),
         \A i \in k + 1 .. Len(req'[c].value) : req'[c].value[i] \in LineEnds,
         k > 0 => req'[c].value[k] \notin LineEnds,
         Valid(TypeOf(defs, req'[c].name), v),
         RegView' = [RegView EXCEPT ![s][req'[c].name] = Normal(TypeOf(defs, req'[c].name), v)],
         ans' = [ans EXCEPT ![c] = Answer(200, "value", Normal(TypeOf(defs, req'[c].name), v))],
         req' = [req EXCEPT ![c] = req'[c]], UNCHANGED <<defs, to>>, UpView' = UpView
  PROVE  Registers!Put(c, s)
  BY Zenon DEF Registers!Put, Registers!Waits, Registers!Gives, Registers!Chooses, Registers!Ok,
     Answer, UpView, RegView

LEMMA ViewFinish ==
  ASSUME NEW c \in Clients, to[c] # None, to' = [to EXCEPT ![c] = None],
         req' = [req EXCEPT ![c] = req'[c]], ans' = [ans EXCEPT ![c] = NoAnswer],
         defs' = defs, UpView' = UpView, RegView' = RegView
  PROVE  Registers!Finish(c)
  BY Zenon DEF Registers!Finish, Registers!Chooses, UpView, RegView

LEMMA ViewCrash ==
  ASSUME NEW s \in Servers, UpView' = [UpView EXCEPT ![s] = FALSE],
         RegView' = [RegView EXCEPT ![s] = Defaults(defs)],
         to' = [c \in Clients |-> IF to[c] = s THEN None ELSE to[c]],
         req' = [c \in Clients |-> IF to[c] = s THEN req'[c] ELSE req[c]],
         ans' = [c \in Clients |-> IF to[c] = s THEN NoAnswer ELSE ans[c]], defs' = defs
  PROVE  Registers!Crash(s)
  BY Zenon DEF Registers!Crash, UpView, RegView

LEMMA ViewRestart ==
  ASSUME NEW s \in Servers, UpView' = [UpView EXCEPT ![s] = TRUE],
         DOMAIN RegView'[s] = Names(defs),
         \A n \in Names(defs) : /\ Valid(TypeOf(defs, n), RegView'[s][n])
                                /\ Normal(TypeOf(defs, n), RegView'[s][n]) = RegView'[s][n],
         RegView' = [RegView EXCEPT ![s] = RegView'[s]], UNCHANGED <<defs, to, req, ans>>
  PROVE  Registers!Restart(s)
  BY Zenon DEF Registers!Restart, UpView, RegView

LEMMA ViewStutter ==
  ASSUME UpView' = UpView, RegView' = RegView, UNCHANGED <<defs, to, req, ans>>
  PROVE  UNCHANGED Registers!vars
  BY Zenon DEF Registers!vars, UpView, RegView
-----------------------------------------------------------------------------
(* Every step of the server is a step of its registers *)

LEMMA InitStep == ASSUME Init PROVE Registers!Init
  <1>1. UpView = [s \in Servers |-> FALSE]
    <2>1. \A s \in Servers : (pc[s] # "down") = FALSE BY DEF Init
    <2> QED BY <2>1, Zenon DEF UpView
  <1>2. RegView = [s \in Servers |-> Defaults(defs)]
    <2>1. \A s \in Servers : Register(s) = Defaults(defs)
      BY DEF Init, Register, NoWrite
    <2> QED BY <2>1, Zenon DEF RegView
  <1>3. /\ defs \in DefSets /\ to = [c \in Clients |-> None]
        /\ ans = [c \in Clients |-> NoAnswer]
    BY DEF Init
  <1> QED BY <1>1, <1>2, <1>3, Zenon DEF Registers!Init, UpView, RegView

LEMMA ConnectStep ==
  ASSUME WInv, NEW c \in Clients, NEW s \in Servers, Connect(c, s) PROVE Registers!Submit(c, s)
  <1>1. /\ st[c] = "idle" /\ pc[s] # "down" /\ to' = [to EXCEPT ![c] = s]
        /\ UNCHANGED <<defs, mem, wr, pc, req, ans>>
    BY DEF Connect, storeVars
  <1>2. to[c] = None BY <1>1 DEF WInv, ConnInv
  <1>3. UpView[s] BY <1>1 DEF UpView
  <1>4. UpView' = UpView BY <1>1, UpSame
  <1>5. RegView' = RegView BY <1>1, RegKept, RegSame
  <1> QED BY <1>1, <1>2, <1>3, <1>4, <1>5, ViewSubmit

\* Steps that neither the registers nor the answers show.
LEMMA HiddenStep ==
  ASSUME WInv,
         \/ \E c \in Clients : Send(c) \/ HangUp(c)
         \/ \E s \in Servers : Accept(s) \/ TruncateFile(s)
         \/ UNCHANGED vars
  PROVE  UNCHANGED Registers!vars
  <1>1. UNCHANGED <<defs, mem, wr, to, req, ans>>
    BY DEF Send, HangUp, Accept, TruncateFile, storeVars, serverVars, clientVars, vars
  <1>2. RegView' = RegView BY <1>1, RegKept, RegSame
  <1>3. \A t \in Servers : pc'[t] = "down" <=> pc[t] = "down"
    <2>1. pc' = pc \/ \E s \in Servers : /\ pc[s] \in {"accept", "truncate"}
                                         /\ \E p \in {"read", "write"} : pc' = [pc EXCEPT ![s] = p]
      BY DEF Send, HangUp, Accept, TruncateFile, serverVars, vars
    <2> QED BY <2>1 DEF WInv, Shape
  <1> QED BY <1>1, <1>2, <1>3, UpSame, ViewStutter

LEMMA ReadEofStep ==
  ASSUME WInv, NEW s \in Servers, ReadEof(s)
  PROVE  \E c \in Clients : Registers!Refuse(c, s)
  <1>1. /\ pc[s] = "read" /\ Decide(s, Answer(400, "error", <<>>))
        /\ UNCHANGED <<defs, mem, wr, to, req>>
    BY DEF ReadEof, storeVars
  <1>2. cur[s] \in Clients /\ to[cur[s]] = s /\ ans[cur[s]] = NoAnswer /\ UpView[s]
    BY <1>1, WaitsFor
  <1>3. PICK a : a = Answer(400, "error", <<>>) OBVIOUS
  <1>4. ans' = [ans EXCEPT ![cur[s]] = a] /\ ans'[cur[s]] = a /\ UpView' = UpView
    BY <1>1, <1>3, DecideView
  <1>5. ans'[cur[s]].code \in {400, 404} BY <1>3, <1>4 DEF Answer
  <1>6. ans' = [ans EXCEPT ![cur[s]] = ans'[cur[s]]] BY <1>4
  <1>7. RegView' = RegView BY <1>1, RegKept, RegSame
  <1>8. req' = [req EXCEPT ![cur[s]] = req'[cur[s]]] BY <1>1, <1>2, ReqSame
  <1>9. PICK c \in Clients : c = cur[s] BY <1>2
  <1>10. /\ UpView[s] /\ to[c] = s /\ ans[c] = NoAnswer /\ ans'[c].code \in {400, 404}
         /\ ans' = [ans EXCEPT ![c] = ans'[c]] /\ req' = [req EXCEPT ![c] = req'[c]]
         /\ UNCHANGED <<defs, to>> /\ UpView' = UpView /\ RegView' = RegView
    BY <1>1, <1>2, <1>4, <1>5, <1>6, <1>7, <1>8, <1>9
  <1> QED BY <1>10, ViewRefuse

LEMMA HandleReadStep ==
  ASSUME WInv, NEW s \in Servers, HandleRead(s) PROVE [Registers!Next]_(Registers!vars)
  <1>1. PICK r \in Request : /\ Receive(s, r) /\ ~ Settable(r) /\ Decide(s, Reply(s, r))
                             /\ UNCHANGED <<defs, mem, wr, to>>
    BY DEF HandleRead, storeVars
  <1>2. pc[s] = "read" /\ req' = [req EXCEPT ![cur[s]] = r] BY <1>1 DEF Receive
  <1>3. cur[s] \in Clients /\ to[cur[s]] = s /\ ans[cur[s]] = NoAnswer /\ UpView[s]
    BY <1>2, WaitsFor
  <1>4. PICK a : a = Reply(s, r) OBVIOUS
  <1>5. ans' = [ans EXCEPT ![cur[s]] = a] /\ ans'[cur[s]] = a /\ UpView' = UpView
    BY <1>1, <1>2, <1>4, DecideView
  <1>6. RegView' = RegView BY <1>1, RegKept, RegSame
  <1>7. req' = [req EXCEPT ![cur[s]] = req'[cur[s]]] /\ req'[cur[s]] = r
    BY <1>2, <1>3, ReqOne
  <1>8. RegView[s] = mem[s]
    <2>1. ~ Writing(s) BY <1>2 DEF Writing
    <2> QED BY <2>1, RegOf DEF RegView
  <1>9. UNCHANGED <<defs, to>> BY <1>1
  <1>10. CASE r.kind = "root"
    <2>1. a = Answer(200, "page", <<>>) BY <1>4, <1>10 DEF Reply
    <2>2. Registers!GetPage(cur[s], s)
      BY <1>3, <1>5, <1>6, <1>7, <1>9, <1>10, <2>1, ViewGetPage, Zenon
    <2> QED BY <1>3, <2>2, Zenon DEF Registers!Next
  <1>11. CASE r.kind = "props"
    <2>1. a = Answer(200, "props", AllProps(s)) BY <1>4, <1>11 DEF Reply
    <2>2. a = Answer(200, "props", [i \in DOMAIN defs |-> <<defs[i].name, RegView[s][defs[i].name]>>])
      BY <1>8, <2>1, Zenon DEF AllProps
    <2>3. Registers!GetAll(cur[s], s)
      BY <1>3, <1>5, <1>6, <1>7, <1>9, <1>11, <2>2, ViewGetAll, Zenon
    <2> QED BY <1>3, <2>3, Zenon DEF Registers!Next
  <1>12. CASE r.kind = "get" /\ r.name \in Names(defs)
    <2>1. a = Answer(200, "value", mem[s][r.name]) BY <1>4, <1>12 DEF Reply
    <2>2. a = Answer(200, "value", RegView[s][req'[cur[s]].name]) BY <1>7, <1>8, <2>1, Zenon
    <2>3. Registers!GetOne(cur[s], s)
      BY <1>3, <1>5, <1>6, <1>7, <1>9, <1>12, <2>2, ViewGetOne, Zenon
    <2> QED BY <1>3, <2>3, Zenon DEF Registers!Next
  <1>13. CASE /\ r.kind \notin {"root", "props"}
              /\ ~ (r.kind = "get" /\ r.name \in Names(defs))
    <2>1. a = Answer(404, "error", <<>>) \/ a = Answer(400, "error", <<>>)
      BY <1>4, <1>13 DEF Reply
    <2>2. ans'[cur[s]].code \in {400, 404} BY <1>5, <2>1 DEF Answer
    <2>3. ans' = [ans EXCEPT ![cur[s]] = ans'[cur[s]]] BY <1>5
    <2>4. PICK c \in Clients : c = cur[s] BY <1>3
    <2>5. /\ UpView[s] /\ to[c] = s /\ ans[c] = NoAnswer /\ ans'[c].code \in {400, 404}
          /\ ans' = [ans EXCEPT ![c] = ans'[c]] /\ req' = [req EXCEPT ![c] = req'[c]]
          /\ UNCHANGED <<defs, to>> /\ UpView' = UpView /\ RegView' = RegView
      BY <1>3, <1>5, <1>6, <1>7, <1>9, <2>2, <2>3, <2>4
    <2>6. Registers!Refuse(c, s) BY <2>5, ViewRefuse
    <2> QED BY <2>6, Zenon DEF Registers!Next
  <1> QED BY <1>10, <1>11, <1>12, <1>13

\* The value in memory is provisional: the registers do not show it.
LEMMA HandleSetStep ==
  ASSUME WInv, NEW s \in Servers, HandleSet(s) PROVE Registers!Send(cur[s])
  <1>1. PICK r, v, body :
          /\ r \in Request /\ Receive(s, r) /\ Settable(r) /\ mem' = [mem EXCEPT ![s] = [mem[s] EXCEPT ![r.name] = v]]
          /\ wr' = [wr EXCEPT ![s] = [name |-> r.name, old |-> mem[s][r.name],
                                      body |-> body, off |-> 0]]
          /\ pc' = [pc EXCEPT ![s] = "truncate"] /\ UNCHANGED <<defs, to, ans>>
    BY Zenon DEF HandleSet
  <1>2. pc[s] = "read" /\ req' = [req EXCEPT ![cur[s]] = r] BY <1>1 DEF Receive
  <1>3. cur[s] \in Clients /\ to[cur[s]] = s BY <1>2, WaitsFor
  <1>4. req' = [req EXCEPT ![cur[s]] = req'[cur[s]]] BY <1>2, <1>3, ReqOne
  <1>5. \A t \in Servers : pc'[t] = "down" <=> pc[t] = "down"
    BY <1>1, <1>2 DEF WInv, Shape
  <1>6. /\ mem'[s] = [mem[s] EXCEPT ![r.name] = v]
        /\ wr'[s].name = r.name /\ wr'[s].old = mem[s][r.name]
        /\ \A t \in Servers : t # s => mem'[t] = mem[t] /\ wr'[t] = wr[t]
    BY <1>1 DEF WInv, Shape
  <1>7. r.name \in Names(defs) /\ r.name # None
    BY <1>1, NamesAssumption DEF Settable, WInv, Shape
  <1>8. Register(s)' = Register(s)
    <2>1. Register(s)' = [mem'[s] EXCEPT ![r.name] = mem[s][r.name]]
      BY <1>6, <1>7 DEF Register
    <2>2. mem[s] = [n \in Names(defs) |-> mem[s][n]] BY DEF WInv, Shape
    <2>3. [[mem[s] EXCEPT ![r.name] = v] EXCEPT ![r.name] = mem[s][r.name]] = mem[s]
      BY <1>7, <2>2
    <2>4. Register(s) = mem[s] BY <1>2, RegOf DEF Writing
    <2> QED BY <1>6, <2>1, <2>3, <2>4
  <1>9. \A t \in Servers : t # s => Register(t)' = Register(t) BY <1>6, RegKept
  <1>10. RegView' = RegView BY <1>8, <1>9, RegSame
  <1> QED BY <1>1, <1>3, <1>4, <1>5, <1>10, NamesAssumption, UpSame, ViewSend

\* The PUT happens with the last page of the file.
LEMMA WriteSomeStep ==
  ASSUME WInv, NEW s \in Servers, WriteSome(s)
  PROVE  UNCHANGED Registers!vars \/ \E c \in Clients : Registers!Put(c, s)
  <1>1. /\ UNCHANGED <<defs, mem, to, req>> /\ pc[s] = "write"
        /\ \/ /\ \E n : wr' = [wr EXCEPT ![s].off = n]
              /\ UNCHANGED <<pc, ans>>
           \/ /\ wr' = [wr EXCEPT ![s] = NoWrite]
              /\ Decide(s, Answer(200, "value", mem[s][wr[s].name]))
    BY DEF WriteSome
  <1>2. ASSUME NEW n, wr' = [wr EXCEPT ![s].off = n], UNCHANGED <<pc, ans>>
        PROVE  UNCHANGED Registers!vars
    <2>1. \A t \in Servers : wr'[t].name = wr[t].name /\ wr'[t].old = wr[t].old
      <3>1. \A t \in Servers : t # s => wr'[t] = wr[t] BY <1>2 DEF WInv, Shape
      <3>2. wr'[s] = [wr[s] EXCEPT !.off = n] BY <1>2 DEF WInv, Shape
      <3>3. IsWrite(wr[s]) BY DEF WInv, Shape, IsWrite
      <3>4. wr'[s] = [name |-> wr[s].name, old |-> wr[s].old, body |-> wr[s].body, off |-> n]
        BY <3>2, <3>3 DEF IsWrite
      <3> QED BY <3>1, <3>4
    <2>2. RegView' = RegView BY <1>1, <2>1, RegKept, RegSame
    <2> QED BY <1>1, <1>2, <2>2, UpSame, ViewStutter
  <1>3. ASSUME wr' = [wr EXCEPT ![s] = NoWrite],
               Decide(s, Answer(200, "value", mem[s][wr[s].name]))
        PROVE  \E c \in Clients : Registers!Put(c, s)
    <2>1. cur[s] \in Clients /\ to[cur[s]] = s /\ ans[cur[s]] = NoAnswer /\ UpView[s]
      BY <1>1, WaitsFor
    <2>2. /\ ans' = [ans EXCEPT ![cur[s]] = Answer(200, "value", mem[s][wr[s].name])]
          /\ UpView' = UpView
      BY <1>1, <1>3, DecideView
    <2>3. PICK r : r = req[cur[s]] OBVIOUS
    <2>4. /\ Settable(r) /\ r.name = wr[s].name /\ r.value \in Seq(ToSet(r.value))
          /\ mem[s][r.name] = Normal(TypeOf(defs, r.name), StripEol(r.value))
      BY <1>1, <2>3 DEF WInv, WriteInv, Writing
    <2>5. /\ r.kind = "put" /\ r.name \in Names(defs)
          /\ Valid(TypeOf(defs, r.name), StripEol(r.value))
      BY <2>4 DEF Settable
    <2>6. req'[cur[s]] = r /\ req' = [req EXCEPT ![cur[s]] = req'[cur[s]]]
      BY <1>1, <2>1, <2>3, ReqSame
    <2>7. PICK k \in 0 .. Len(r.value) :
            /\ StripEol(r.value) = SubSeq(r.value, 1, k)
            /\ \A i \in k + 1 .. Len(r.value) : r.value[i] \in LineEnds
            /\ k > 0 => r.value[k] \notin LineEnds
      BY <2>4, Stripped
    <2>8. RegView' = [RegView EXCEPT ![s] = mem[s]]
      <3>1. wr'[s] = NoWrite /\ \A t \in Servers : t # s => wr'[t] = wr[t]
        BY <1>3 DEF WInv, Shape
      <3>2. Register(s)' = mem[s] BY <1>1, <3>1 DEF Register, NoWrite
      <3>3. \A t \in Servers : t # s => Register(t)' = Register(t) BY <1>1, <3>1, RegKept
      <3> QED BY <3>2, <3>3, RegUpdate
    <2>9. mem[s] = [RegView[s] EXCEPT ![r.name] = mem[s][r.name]]
      <3>1. RegView[s] = [mem[s] EXCEPT ![r.name] = wr[s].old]
        BY <1>1, <2>4, RegOf DEF Writing, RegView
      <3>2. mem[s] = [n \in Names(defs) |-> mem[s][n]] BY DEF WInv, Shape
      <3> QED BY <2>5, <3>1, <3>2
    <2>10. RegView' = [RegView EXCEPT ![s][r.name] = Normal(TypeOf(defs, r.name), StripEol(r.value))]
      <3> DEFINE m == mem[s]
                 w == Normal(TypeOf(defs, r.name), StripEol(r.value))
      <3>1. m = [RegView[s] EXCEPT ![r.name] = w] BY <2>4, <2>9
      <3>2. RegView' = [RegView EXCEPT ![s] = m] BY <2>8
      <3> HIDE DEF m, w
      <3>3. RegView' = [RegView EXCEPT ![s] = [RegView[s] EXCEPT ![r.name] = w]] BY <3>1, <3>2, Zenon
      <3> QED BY <3>3 DEF w
    <2>11. ans' = [ans EXCEPT ![cur[s]] =
                     Answer(200, "value", Normal(TypeOf(defs, r.name), StripEol(r.value)))]
      BY <2>2, <2>4
    <2>12. UNCHANGED <<defs, to>> BY <1>1
    <2>13. PICK v : v = StripEol(r.value) OBVIOUS
    <2>14. PICK c \in Clients : c = cur[s] BY <2>1
    <2>15. /\ UpView[s] /\ to[c] = s /\ ans[c] = NoAnswer
           /\ req' = [req EXCEPT ![c] = req'[c]] /\ UNCHANGED <<defs, to>> /\ UpView' = UpView
      BY <2>1, <2>2, <2>6, <2>12, <2>14
    <2>16. req'[c] = r BY <2>6, <2>14
    <2>17. /\ req'[c].kind = "put" /\ req'[c].name \in Names(defs)
           /\ Valid(TypeOf(defs, req'[c].name), v)
           /\ RegView' = [RegView EXCEPT ![s][req'[c].name] = Normal(TypeOf(defs, req'[c].name), v)]
      BY <2>5, <2>10, <2>13, <2>16, Zenon
    <2>18. ans' = [ans EXCEPT ![c] = Answer(200, "value", Normal(TypeOf(defs, req'[c].name), v))]
      BY <2>11, <2>13, <2>14, <2>16, Zenon
    <2>19. /\ k \in 0 .. Len(req'[c].value) /\ v = SubSeq(req'[c].value, 1, k)
           /\ \A i \in k + 1 .. Len(req'[c].value) : req'[c].value[i] \in LineEnds
           /\ k > 0 => req'[c].value[k] \notin LineEnds
      BY <2>7, <2>13, <2>16, Zenon
    <2> QED BY <2>15, <2>17, <2>18, <2>19, ViewPut, Zenon
  <1> QED BY <1>1, <1>2, <1>3, Zenon
\* What a failure brings back is what the registers showed all along.
LEMMA PersistFailsStep ==
  ASSUME WInv, NEW s \in Servers, PersistFails(s) PROVE \E c \in Clients : Registers!Refuse(c, s)
  <1>1. /\ pc[s] \in {"truncate", "write"} /\ Decide(s, Answer(400, "error", <<>>))
        /\ mem' = [mem EXCEPT ![s][wr[s].name] = wr[s].old] /\ wr' = [wr EXCEPT ![s] = NoWrite]
        /\ UNCHANGED <<defs, to, req>>
    BY DEF PersistFails
  <1>2. PICK c \in Clients : c = cur[s] BY <1>1, WaitsFor
  <1>3. to[c] = s /\ ans[c] = NoAnswer /\ UpView[s] BY <1>1, <1>2, WaitsFor
  <1>4. PICK a : a = Answer(400, "error", <<>>) OBVIOUS
  <1>5. ans' = [ans EXCEPT ![cur[s]] = a] /\ ans'[cur[s]] = a /\ UpView' = UpView
    BY <1>1, <1>4, DecideView
  <1>6. ans' = [ans EXCEPT ![c] = ans'[c]] /\ ans'[c].code \in {400, 404}
    <2>1. a.code = 400 BY <1>4 DEF Answer
    <2>2. ans' = [ans EXCEPT ![c] = a] /\ ans'[c] = a BY <1>2, <1>5
    <2>3. ans'[c].code = 400 BY <2>1, <2>2, Zenon
    <2>4. ans' = [ans EXCEPT ![c] = ans'[c]] BY <2>2, Zenon
    <2> QED BY <2>3, <2>4
  <1>7. req' = [req EXCEPT ![c] = req'[c]] BY <1>1, ReqSame
  <1>8. /\ mem'[s] = [mem[s] EXCEPT ![wr[s].name] = wr[s].old] /\ wr'[s] = NoWrite
        /\ \A t \in Servers : t # s => mem'[t] = mem[t] /\ wr'[t] = wr[t]
    BY <1>1 DEF WInv, Shape
  <1>9. Register(s)' = mem'[s] BY <1>8 DEF Register, NoWrite
  <1>10. Register(s) = mem'[s] BY <1>1, <1>8, RegOf DEF Writing
  <1>11. \A t \in Servers : t # s => Register(t)' = Register(t) BY <1>8, RegKept
  <1>12. RegView' = RegView BY <1>9, <1>10, <1>11, RegSame
  <1> QED BY <1>1, <1>3, <1>5, <1>6, <1>7, <1>12, ViewRefuse

LEMMA RespondStep ==
  ASSUME WInv, NEW s \in Servers, Respond(s) PROVE \E c \in Clients : Registers!Finish(c)
  <1>1. /\ pc[s] = "respond" /\ pc' = [pc EXCEPT ![s] = "accept"] /\ Disconnect({cur[s]})
        /\ UNCHANGED <<defs, mem, wr>>
    BY DEF Respond, storeVars
  <1>2. PICK c \in Clients : c = cur[s] /\ to[c] = s BY <1>1, Served
  <1>3. /\ to' = [to EXCEPT ![c] = None] /\ req' = [req EXCEPT ![c] = req'[c]]
        /\ ans' = [ans EXCEPT ![c] = NoAnswer]
    BY <1>1, <1>2 DEF Disconnect, WInv, Shape
  <1>4. UpView' = UpView
    <2>1. \A t \in Servers : pc'[t] = "down" <=> pc[t] = "down" BY <1>1 DEF WInv, Shape
    <2> QED BY <2>1, UpSame
  <1>5. RegView' = RegView BY <1>1, RegKept, RegSame
  <1>6. to[c] # None BY <1>2, NamesAssumption
  <1> QED BY <1>1, <1>3, <1>4, <1>5, <1>6, ViewFinish

LEMMA DieStep == ASSUME WInv, NEW s \in Servers, Die(s) PROVE Registers!Crash(s)
  <1>1. /\ defs' = defs /\ pc' = [pc EXCEPT ![s] = "down"] /\ wr' = [wr EXCEPT ![s] = NoWrite]
        /\ mem' = [mem EXCEPT ![s] = Defaults(defs)] /\ Disconnect(Waiting(s))
    BY DEF Die
  <1>2. \A c \in Clients : c \in Waiting(s) <=> to[c] = s BY WaitingIs
  <1>3. /\ to' = [c \in Clients |-> IF to[c] = s THEN None ELSE to[c]]
        /\ req' = [c \in Clients |-> IF to[c] = s THEN req'[c] ELSE req[c]]
        /\ ans' = [c \in Clients |-> IF to[c] = s THEN NoAnswer ELSE ans[c]]
    BY <1>1, <1>2 DEF Disconnect
  <1>4. UpView' = [UpView EXCEPT ![s] = FALSE]
    <2>1. pc'[s] = "down" /\ \A t \in Servers : t # s => pc'[t] = pc[t] BY <1>1 DEF WInv, Shape
    <2> QED BY <2>1, Zenon DEF UpView
  <1>5. /\ mem'[s] = Defaults(defs) /\ wr'[s] = NoWrite
        /\ \A t \in Servers : t # s => mem'[t] = mem[t] /\ wr'[t] = wr[t]
    BY <1>1 DEF WInv, Shape
  <1>6. Register(s)' = Defaults(defs) BY <1>5 DEF Register, NoWrite
  <1>7. \A t \in Servers : t # s => Register(t)' = Register(t) BY <1>5, RegKept
  <1>8. RegView' = [RegView EXCEPT ![s] = Defaults(defs)] BY <1>6, <1>7, RegUpdate
  <1> QED BY <1>1, <1>3, <1>4, <1>8, ViewCrash, Zenon

\* Whatever the file holds.
LEMMA StartStep == ASSUME WInv, NEW s \in Servers, Start(s) PROVE Registers!Restart(s)
  <1>1. /\ pc[s] = "down" /\ pc' = [pc EXCEPT ![s] = "accept"]
        /\ mem' = [mem EXCEPT ![s] = Loaded(defs, file)]
        /\ UNCHANGED <<defs, wr, to, req, ans>>
    BY DEF Start, clientVars
  <1>2. UpView' = [UpView EXCEPT ![s] = TRUE]
    <2>1. pc'[s] = "accept" /\ \A t \in Servers : t # s => pc'[t] = pc[t] BY <1>1 DEF WInv, Shape
    <2>2. pc'[s] # "down" BY <2>1
    <2> QED BY <2>1, <2>2, Zenon DEF UpView
  <1>3. mem'[s] = Loaded(defs, file) /\ \A t \in Servers : t # s => mem'[t] = mem[t]
    BY <1>1 DEF WInv, Shape
  <1>4. Register(s)' = Loaded(defs, file)
    <2>1. wr'[s].name = None BY <1>1 DEF WInv, WriteInv, Writing
    <2> QED BY <1>3, <2>1 DEF Register
  <1>5. \A t \in Servers : t # s => Register(t)' = Register(t) BY <1>1, <1>3, RegKept
  <1>6. RegView' = [RegView EXCEPT ![s] = Loaded(defs, file)] BY <1>4, <1>5, RegUpdate
  <1>7. RegView'[s] = Loaded(defs, file) BY <1>4 DEF RegView
  <1>8. /\ DOMAIN Loaded(defs, file) = Names(defs)
        /\ \A n \in Names(defs) :
             /\ Valid(TypeOf(defs, n), Loaded(defs, file)[n])
             /\ Normal(TypeOf(defs, n), Loaded(defs, file)[n]) = Loaded(defs, file)[n]
    <2>1. defs \in DefSets BY DEF WInv, Shape
    <2>2. Loaded(defs, file) = [n \in Names(defs) |-> Loaded(defs, file)[n]] BY <2>1, LoadedValid
    <2> QED BY <2>1, <2>2, LoadedValid
  <1>9. /\ DOMAIN RegView'[s] = Names(defs) /\ RegView' = [RegView EXCEPT ![s] = RegView'[s]]
        /\ \A n \in Names(defs) : /\ Valid(TypeOf(defs, n), RegView'[s][n])
                                  /\ Normal(TypeOf(defs, n), RegView'[s][n]) = RegView'[s][n]
    BY <1>6, <1>7, <1>8, Zenon
  <1> QED BY <1>1, <1>2, <1>9, ViewRestart, Zenon

\* Every server implements a register per property: a GET is answered with what the
\* registers hold at one moment while the client waits, a PUT that is answered 200
\* sets one register at one moment while the client waits, a PUT that is refused or
\* whose write fails changes nothing, and a server started again after any crash,
\* from whatever an interrupted or overlapping write left in the file, holds an
\* acceptable value of every property (WebServer::handle_client, PropStore::set and
\* PropStore::load).
THEOREM ImplementsPropRegister == Spec => RegisterSpec
  <1>1. Init => Registers!Init BY InitStep
  <1>2. WInv /\ [Next]_vars => [Registers!Next]_(Registers!vars)
    <2> SUFFICES ASSUME WInv, [Next]_vars PROVE [Registers!Next]_(Registers!vars) OBVIOUS
    <2>1. CASE UNCHANGED vars BY <2>1, HiddenStep, Zenon
    <2>2. ASSUME NEW s \in Servers, ServerStep(s) PROVE [Registers!Next]_(Registers!vars)
      <3>1. CASE Accept(s) \/ TruncateFile(s) BY <3>1, HiddenStep, Zenon
      <3>2. CASE ReadEof(s) BY <3>2, ReadEofStep, Zenon DEF Registers!Next
      <3>3. CASE HandleRead(s) BY <3>3, HandleReadStep, Zenon
      <3>4. CASE HandleSet(s)
        <4>1. pc[s] = "read" BY <3>4 DEF HandleSet, Receive
        <4>2. cur[s] \in Clients BY <4>1, Served
        <4> QED BY <3>4, <4>2, HandleSetStep, Zenon DEF Registers!Next
      <3>5. CASE WriteSome(s) BY <3>5, WriteSomeStep, Zenon DEF Registers!Next
      <3>6. CASE PersistFails(s) BY <3>6, PersistFailsStep, Zenon DEF Registers!Next
      <3>7. CASE Respond(s) BY <3>7, RespondStep, Zenon DEF Registers!Next
      <3>8. CASE BrokenPipe(s) BY <3>8, DieStep, Zenon DEF BrokenPipe, Registers!Next
      <3> QED BY <2>2, <3>1, <3>2, <3>3, <3>4, <3>5, <3>6, <3>7, <3>8, Zenon DEF ServerStep
    <2>3. ASSUME NEW s \in Servers, Kill(s) \/ Start(s) PROVE [Registers!Next]_(Registers!vars)
      BY <2>3, DieStep, StartStep, Zenon DEF Kill, Registers!Next
    <2>4. ASSUME NEW c \in Clients, Send(c) \/ HangUp(c) PROVE [Registers!Next]_(Registers!vars)
      BY <2>4, HiddenStep, Zenon
    <2>5. ASSUME NEW c \in Clients, NEW s \in Servers, Connect(c, s)
          PROVE  [Registers!Next]_(Registers!vars)
      BY <2>5, ConnectStep, Zenon DEF Registers!Next
    <2> QED BY <2>1, <2>2, <2>3, <2>4, <2>5 DEF Next
  <1> QED BY <1>1, <1>2, WInductive, PTL DEF Spec, RegisterSpec, Registers!Spec

-----------------------------------------------------------------------------
(* Texts put together from pieces *)

\* A set of natural numbers that is not empty has a least element.
LEMMA Least ==
  ASSUME NEW T \in SUBSET Nat, T # {} PROVE \E x \in T : \A y \in T : x <= y
  <1>1. \E x \in T : \A y \in T : ~ (<<y, x>> \in OpToRel(<, Nat))
    BY NatLessThanWellFounded, WFMin
  <1>2. PICK x \in T : \A y \in T : ~ (y < x) BY <1>1 DEF OpToRel
  <1> QED BY <1>2

\* The recursion of FlattenSeq has a solution.
LEMMA FlattenExists ==
  ASSUME NEW L, NEW n \in Nat
  PROVE  \E g : g = [i \in 1 .. n |-> IF i = 1 THEN L[i] ELSE g[i - 1] \o L[i]]
  <1> DEFINE Has(k) == \E g : g = [i \in 1 .. k |-> IF i = 1 THEN L[i] ELSE g[i - 1] \o L[i]]
             T == {k \in Nat : ~ Has(k)}
  <1>1. ASSUME T # {} PROVE FALSE
    <2>1. PICK k \in T : \A y \in T : k <= y BY <1>1, Least
    <2>2. k # 0
      <3>1. [i \in 1 .. 0 |-> L[i]] = [i \in 1 .. 0 |-> IF i = 1 THEN L[i] ELSE [j \in 1 .. 0 |-> L[j]][i - 1] \o L[i]]
        OBVIOUS
      <3>2. Has(0) BY <3>1
      <3> QED BY <2>1, <3>2
    <2>3. k - 1 \in Nat /\ Has(k - 1)
      <3> HIDE DEF Has
      <3>1. k \in Nat /\ k - 1 \in Nat BY <2>1, <2>2
      <3>2. k - 1 \notin T
        <4> HIDE DEF T
        <4> QED BY <2>1, <3>1
      <3> QED BY <3>1, <3>2
    <2>4. PICK g : g = [i \in 1 .. k - 1 |-> IF i = 1 THEN L[i] ELSE g[i - 1] \o L[i]] BY <2>3
    <2> DEFINE h == [i \in 1 .. k |-> IF i = k THEN IF i = 1 THEN L[i] ELSE g[i - 1] \o L[i] ELSE g[i]]
    <2>5. ASSUME NEW i \in 1 .. k
          PROVE  h[i] = IF i = 1 THEN L[i] ELSE h[i - 1] \o L[i]
      <3>1. i # 1 => i - 1 \in 1 .. k - 1 /\ i - 1 # k /\ i - 1 \in 1 .. k BY <2>1
      <3>2. i # 1 => h[i - 1] = g[i - 1] BY <3>1
      <3>3. i # k => i \in 1 .. k - 1 BY <2>1
      <3>4. i # k => g[i] = IF i = 1 THEN L[i] ELSE g[i - 1] \o L[i] BY <2>4, <3>3
      <3>5. h[i] = IF i = k THEN IF i = 1 THEN L[i] ELSE g[i - 1] \o L[i] ELSE g[i] OBVIOUS
      <3> HIDE DEF h
      <3> QED BY <3>2, <3>4, <3>5
    <2>6. h = [i \in 1 .. k |-> h[i]] OBVIOUS
    <2> HIDE DEF h
    <2>7. h = [i \in 1 .. k |-> IF i = 1 THEN L[i] ELSE h[i - 1] \o L[i]] BY <2>5, <2>6
    <2> QED BY <2>1, <2>7
  <1> QED BY <1>1

LEMMA FlattenIs ==
  ASSUME NEW S, NEW L \in Seq(Seq(S)), Len(L) # 0
  PROVE  \E F : /\ FlattenSeq(L) = F[Len(L)]
                /\ \A i \in 1 .. Len(L) : F[i] = IF i = 1 THEN L[i] ELSE F[i - 1] \o L[i]
  <1> DEFINE F == CHOOSE g : g = [i \in 1 .. Len(L) |-> IF i = 1 THEN L[i] ELSE g[i - 1] \o L[i]]
  <1>1. FlattenSeq(L) = F[Len(L)] BY Zenon DEF FlattenSeq
  <1>2. F = [i \in 1 .. Len(L) |-> IF i = 1 THEN L[i] ELSE F[i - 1] \o L[i]]
    <2>1. Len(L) \in Nat OBVIOUS
    <2>2. \E g : g = [i \in 1 .. Len(L) |-> IF i = 1 THEN L[i] ELSE g[i - 1] \o L[i]]
      BY <2>1, FlattenExists
    <2> QED BY <2>2, Zenon
  <1> HIDE DEF F
  <1> QED BY <1>1, <1>2
LEMMA CatAt ==
  ASSUME NEW S, NEW s \in Seq(S), NEW t \in Seq(S)
  PROVE  /\ s \o t \in Seq(S) /\ Len(s \o t) = Len(s) + Len(t)
         /\ \A i \in 1 .. Len(s) : (s \o t)[i] = s[i]
         /\ \A j \in 1 .. Len(t) : (s \o t)[Len(s) + j] = t[j]
  OBVIOUS

LEMMA NoCells == ASSUME NEW S, NEW s \in Seq(S), Len(s) = 0 PROVE s = <<>>
  OBVIOUS

LEMMA InPiece ==
  ASSUME NEW p \in Nat, NEW l \in Nat, NEW j \in 1 .. l, NEW q \in Nat, p + l <= q
  PROVE  p + j \in 1 .. q
  OBVIOUS

\* Places in a text that is put together from n pieces: P[i] cells belong to the first i.
LEMMA PlacesOrdered ==
  ASSUME NEW n \in Nat, NEW P \in [0 .. n -> Nat], \A i \in 1 .. n : P[i - 1] <= P[i]
  PROVE  /\ \A b \in 0 .. n : \A a \in 0 .. b : P[a] <= P[b]
         /\ \A q \in P[0] + 1 .. P[n] : \E i \in 1 .. n : P[i - 1] < q /\ q <= P[i]
  <1>1. ASSUME NEW b \in 0 .. n, NEW a \in 0 .. b PROVE P[a] <= P[b]
    <2> DEFINE T == {k \in Nat : k \in a .. n /\ P[k] < P[a]}
    <2>0. P[a] \in Nat /\ a \in Nat /\ b \in a .. n /\ b \in Nat /\ P[b] \in Nat
      BY <1>1
    <2>1. ASSUME T # {} PROVE FALSE
      <3>1. PICK k \in T : \A y \in T : k <= y BY <2>1, Least
      <3>2. k \in a .. n /\ P[k] < P[a] /\ k \in Nat BY <3>1
      <3>3. k # a BY <2>0, <3>2
      <3>4. k - 1 \in a .. n /\ k \in 1 .. n /\ k - 1 \in Nat /\ k - 1 \in 0 .. n
        BY <2>0, <3>2, <3>3
      <3>5. k - 1 \notin T
        <4> HIDE DEF T
        <4> QED BY <3>1, <3>2, <3>4
      <3>6. P[k - 1] \in Nat /\ P[k] \in Nat /\ P[k - 1] <= P[k] BY <3>4
      <3> QED BY <2>0, <3>2, <3>4, <3>5, <3>6
    <2>2. ~ (b \in Nat /\ b \in a .. n /\ P[b] < P[a]) BY <2>1
    <2> QED BY <2>0, <2>2
  <1>2. ASSUME NEW q \in P[0] + 1 .. P[n] PROVE \E i \in 1 .. n : P[i - 1] < q /\ q <= P[i]
    <2> DEFINE T == {k \in Nat : k \in 0 .. n /\ q <= P[k]}
    <2>0. P[n] \in Nat /\ P[0] \in Nat /\ q \in Nat /\ q > P[0] OBVIOUS
    <2>1. n \in T BY <2>0
    <2>2. PICK k \in T : \A y \in T : k <= y BY <2>1, Least
    <2>3. k # 0 /\ k \in 1 .. n /\ k - 1 \in Nat /\ k - 1 \in 0 .. n /\ q <= P[k]
      BY <2>0, <2>2
    <2>4. k - 1 \notin T
      <3> HIDE DEF T
      <3> QED BY <2>2, <2>3
    <2>5. P[k - 1] < q
      <3>1. P[k - 1] \in Nat BY <2>3
      <3> QED BY <2>0, <2>3, <2>4, <3>1
    <2> QED BY <2>3, <2>5
  <1> QED BY <1>1, <1>2

\* The text is the n pieces of L, and piece i ends at P[i].
Pieces(text, L, n, P) ==
  /\ P \in [0 .. n -> Nat] /\ P[0] = 0 /\ Len(text) = P[n]
  /\ \A i \in 1 .. n : P[i] = P[i - 1] + Len(L[i])
  /\ \A a \in 1 .. n : \A j \in 1 .. Len(L[a]) : text[P[a - 1] + j] = L[a][j]

LEMMA Flat ==
  ASSUME NEW S, NEW L \in Seq(Seq(S)), NEW n \in Nat, n = Len(L)
  PROVE  FlattenSeq(L) \in Seq(S) /\ \E P : Pieces(FlattenSeq(L), L, n, P)
  <1>0. \A i \in 1 .. n : L[i] \in Seq(S) /\ Len(L[i]) \in Nat OBVIOUS
  <1>1. CASE n = 0
    <2>0. L = <<>> BY <1>1, NoCells
    <2>1. L = <<>> /\ FlattenSeq(L) = <<>> BY <1>1, <2>0, Zenon DEF FlattenSeq
    <2> DEFINE P == [i \in 0 .. n |-> 0]
    <2>2. P \in [0 .. n -> Nat] /\ P[0] = 0 /\ P[n] = 0 BY <1>1
    <2> HIDE DEF P
    <2>3. Pieces(FlattenSeq(L), L, n, P) BY <1>1, <2>1, <2>2 DEF Pieces
    <2>4. <<>> \in Seq(S) OBVIOUS
    <2> QED BY <2>1, <2>3, <2>4, Zenon
  <1>2. CASE n # 0
    <2>1. PICK F : /\ FlattenSeq(L) = F[n]
                   /\ \A i \in 1 .. n : F[i] = IF i = 1 THEN L[i] ELSE F[i - 1] \o L[i]
      BY <1>2, FlattenIs
    <2>2. F[1] = L[1] /\ \A i \in 1 .. n : i # 1 => i - 1 \in 1 .. n /\ F[i] = F[i - 1] \o L[i]
      <3>1. 1 \in 1 .. n /\ \A i \in 1 .. n : i # 1 => i - 1 \in 1 .. n BY <1>2
      <3> QED BY <2>1, <3>1, Zenon
    <2> DEFINE Bad == {i \in Nat : i \in 1 .. n /\ F[i] \notin Seq(S)}
    <2>3. \A i \in 1 .. n : F[i] \in Seq(S)
      <3>1. ASSUME Bad # {} PROVE FALSE
        <4>1. PICK k \in Bad : \A y \in Bad : k <= y BY <3>1, Least
        <4>2. k \in 1 .. n /\ F[k] \notin Seq(S) BY <4>1
        <4>3. k # 1 BY <1>0, <2>2, <4>2
        <4>4. k - 1 \in 1 .. n /\ k - 1 \in Nat BY <4>2, <4>3
        <4>5. k - 1 \notin Bad
          <5> HIDE DEF Bad
          <5> QED BY <4>1, <4>2, <4>4
        <4>6. F[k - 1] \in Seq(S) BY <4>4, <4>5
        <4>7. F[k] = F[k - 1] \o L[k] /\ L[k] \in Seq(S) BY <1>0, <2>2, <4>2, <4>3, Zenon
        <4>8. F[k] \in Seq(S) BY <4>6, <4>7, CatAt
        <4> QED BY <4>2, <4>8
      <3> SUFFICES ASSUME NEW i \in 1 .. n PROVE F[i] \in Seq(S) OBVIOUS
      <3>2. i \notin Bad BY <3>1
      <3> QED BY <3>2
    <2> DEFINE P == [i \in 0 .. n |-> IF i = 0 THEN 0 ELSE Len(F[i])]
    <2>4. P[0] = 0 /\ \A i \in 1 .. n : P[i] = Len(F[i]) OBVIOUS
    <2>5. P \in [0 .. n -> Nat]
      <3>1. \A i \in 1 .. n : Len(F[i]) \in Nat BY <2>3
      <3> QED BY <3>1
    <2> HIDE DEF P
    <2>6. ASSUME NEW i \in 1 .. n PROVE P[i] = P[i - 1] + Len(L[i])
      <3>1. CASE i = 1 BY <1>0, <2>2, <2>4, <3>1
      <3>2. CASE i # 1
        <4>1. F[i] = F[i - 1] \o L[i] /\ i - 1 \in 1 .. n BY <2>2, <3>2
        <4>2. Len(F[i]) = Len(F[i - 1]) + Len(L[i]) BY <1>0, <2>3, <4>1, CatAt
        <4> QED BY <2>4, <4>1, <4>2
      <3> QED BY <3>1, <3>2
    <2>7. \A i \in 1 .. n : P[i - 1] \in Nat /\ P[i - 1] <= P[i]
      <3>0. \A i \in 1 .. n : i - 1 \in 0 .. n OBVIOUS
      <3>1. \A i \in 1 .. n : P[i - 1] \in Nat BY <2>5, <3>0
      <3> QED BY <1>0, <2>6, <3>1
    <2>8. \A b \in 0 .. n : \A a \in 0 .. b : P[a] <= P[b] BY <2>4, <2>5, <2>7, PlacesOrdered
    <2> DEFINE Holds(i) == \A a \in 1 .. i : \A j \in 1 .. Len(L[a]) : F[i][P[a - 1] + j] = L[a][j]
               Off == {i \in Nat : i \in 1 .. n /\ ~ Holds(i)}
    <2>9. \A i \in 1 .. n : Holds(i)
      <3>1. ASSUME Off # {} PROVE FALSE
        <4>1. PICK k \in Off : \A y \in Off : k <= y BY <3>1, Least
        <4>2. k \in 1 .. n /\ ~ Holds(k)
          <5> HIDE DEF Holds
          <5> QED BY <4>1
        <4>3. k # 1
          <5>1. Holds(1) BY <1>0, <2>2, <2>4
          <5> HIDE DEF Holds
          <5> QED BY <4>2, <5>1
        <4>4. k - 1 \in 1 .. n /\ k - 1 \in Nat BY <4>2, <4>3
        <4>5. k - 1 \notin Off
          <5> HIDE DEF Off
          <5> QED BY <4>1, <4>2, <4>4
        <4>6. Holds(k - 1)
          <5> HIDE DEF Holds
          <5> QED BY <4>4, <4>5
        <4>7. F[k] = F[k - 1] \o L[k] /\ F[k - 1] \in Seq(S) /\ L[k] \in Seq(S)
          BY <1>0, <2>2, <2>3, <4>2, <4>3, <4>4
        <4>8. /\ \A i \in 1 .. Len(F[k - 1]) : (F[k - 1] \o L[k])[i] = F[k - 1][i]
              /\ \A j \in 1 .. Len(L[k]) : (F[k - 1] \o L[k])[Len(F[k - 1]) + j] = L[k][j]
          <5>1. \E s, t : s = F[k - 1] /\ t = L[k] OBVIOUS
          <5>2. PICK s, t : s = F[k - 1] /\ t = L[k] BY <5>1
          <5>3. s \in Seq(S) /\ t \in Seq(S) BY <4>7, <5>2
          <5>4. /\ \A i \in 1 .. Len(s) : (s \o t)[i] = s[i]
                /\ \A j \in 1 .. Len(t) : (s \o t)[Len(s) + j] = t[j]
            BY <5>3, CatAt
          <5> QED BY <5>2, <5>4, Zenon
        <4>9. ASSUME NEW a \in 1 .. k, NEW j \in 1 .. Len(L[a]) PROVE F[k][P[a - 1] + j] = L[a][j]
          <5>1. CASE a = k
            <6>1. P[a - 1] = Len(F[k - 1]) BY <2>4, <4>4, <5>1
            <6>2. j \in 1 .. Len(L[k]) /\ Len(L[k]) \in Nat BY <1>0, <4>2, <5>1
            <6>3. (F[k - 1] \o L[k])[Len(F[k - 1]) + j] = L[k][j] BY <4>8, <6>2, Zenon
            <6> QED BY <4>7, <5>1, <6>1, <6>3
          <5>2. CASE a # k
            <6>1. a \in 1 .. k - 1 /\ a \in 1 .. n BY <4>2, <5>2
            <6>2. F[k - 1][P[a - 1] + j] = L[a][j] BY <4>6, <6>1
            <6>3. P[a] = P[a - 1] + Len(L[a]) /\ P[a - 1] \in Nat /\ Len(L[a]) \in Nat
              BY <1>0, <2>6, <2>7, <6>1
            <6>4. P[a] <= P[k - 1]
              <7>1. k - 1 \in 0 .. n /\ a \in 0 .. k - 1 BY <4>4, <6>1
              <7> QED BY <2>8, <7>1
            <6>5. P[k - 1] = Len(F[k - 1]) BY <2>4, <4>4
            <6>6. Len(F[k - 1]) \in Nat BY <4>7
            <6>7. P[a - 1] + Len(L[a]) <= Len(F[k - 1]) BY <6>3, <6>4, <6>5, Zenon
            <6>8. P[a - 1] + j \in 1 .. Len(F[k - 1]) BY <6>3, <6>6, <6>7, InPiece, Zenon
            <6>9. (F[k - 1] \o L[k])[P[a - 1] + j] = F[k - 1][P[a - 1] + j] BY <4>8, <6>8, Zenon
            <6> QED BY <4>7, <6>2, <6>9
          <5> QED BY <5>1, <5>2
        <4>11. Holds(k) BY <4>9
        <4> HIDE DEF Holds
        <4> QED BY <4>2, <4>11
      <3> HIDE DEF Holds
      <3> QED BY <3>1
    <2>10. Holds(n)
      <3> HIDE DEF Holds
      <3> QED BY <1>2, <2>9
    <2>11. F[n] \in Seq(S) /\ P[n] = Len(F[n]) BY <1>2, <2>3, <2>4
    <2>12. FlattenSeq(L) \in Seq(S) /\ Len(FlattenSeq(L)) = P[n] BY <2>1, <2>11
    <2>13. \A a \in 1 .. n : \A j \in 1 .. Len(L[a]) : FlattenSeq(L)[P[a - 1] + j] = L[a][j]
      BY <2>1, <2>10, Zenon
    <2> HIDE DEF Holds
    <2>14. Pieces(FlattenSeq(L), L, n, P) BY <2>4, <2>5, <2>6, <2>12, <2>13, Zenon DEF Pieces
    <2> QED BY <2>12, <2>14
  <1> QED BY <1>1, <1>2
-----------------------------------------------------------------------------
(* Lines *)

LEMMA Widen ==
  ASSUME NEW A, NEW B, NEW s \in Seq(A), \A i \in 1 .. Len(s) : s[i] \in B PROVE s \in Seq(B)
  OBVIOUS

LEMMA SubSeqIs ==
  ASSUME NEW S, NEW s \in Seq(S), NEW a \in 1 .. Len(s) + 1, NEW b \in a - 1 .. Len(s)
  PROVE  /\ SubSeq(s, a, b) \in Seq(S) /\ Len(SubSeq(s, a, b)) = b - a + 1
         /\ \A j \in 1 .. b - a + 1 : SubSeq(s, a, b)[j] = s[a + j - 1]
  OBVIOUS

LEMMA SameSeq ==
  ASSUME NEW A, NEW s \in Seq(A), NEW B, NEW t \in Seq(B), Len(s) = Len(t),
         \A i \in 1 .. Len(s) : s[i] = t[i]
  PROVE  s = t
  OBVIOUS

LEMMA MinIs ==
  ASSUME NEW I, NEW e \in I, I \subseteq Int, \A i \in I : e <= i PROVE Min(I) = e
  <1>1. \A x \in I : (\A y \in I : x <= y) => x = e
    <2> SUFFICES ASSUME NEW x \in I, \A y \in I : x <= y PROVE x = e OBVIOUS
    <2>1. x \in Int /\ e \in Int /\ x <= e /\ e <= x OBVIOUS
    <2> QED BY <2>1
  <1> DEFINE m == CHOOSE x \in I : \A y \in I : x <= y
  <1>2. m \in I /\ \A y \in I : m <= y BY Zenon
  <1>3. m = e BY <1>1, <1>2, Zenon
  <1> QED BY <1>3, Zenon DEF Min

\* A line ends before the first line feed, or with the text.
LEMMA LineAtIs ==
  ASSUME NEW S, NEW text \in Seq(S), NEW a \in 1 .. Len(text) + 1, NEW e \in a .. Len(text) + 1,
         \A i \in a .. e - 1 : text[i] # NL, e <= Len(text) => text[e] = NL
  PROVE  LineAt(text, a) = SubSeq(text, a, e - 1)
  <1> DEFINE ends == {i \in a .. Len(text) : text[i] = NL} \cup {Len(text) + 1}
  <1>0. Len(text) \in Nat OBVIOUS
  <1>1. e \in ends BY <1>0
  <1>2. ends \subseteq Int BY <1>0
  <1>3. \A i \in ends : e <= i
    <2> SUFFICES ASSUME NEW i \in ends PROVE e <= i OBVIOUS
    <2>1. CASE i = Len(text) + 1 BY <1>0, <2>1
    <2>2. CASE i \in a .. Len(text) /\ text[i] = NL
      <3>1. i \notin a .. e - 1 BY <2>2
      <3> QED BY <1>0, <2>2, <3>1
    <2> QED BY <2>1, <2>2
  <1>4. Min(ends) = e
    <2> HIDE DEF ends
    <2> QED BY <1>1, <1>2, <1>3, MinIs
  <1> QED BY <1>4 DEF LineAt

LEMMA LineAtSeq ==
  ASSUME NEW S, NEW text \in Seq(S), NEW a \in LineStarts(text)
  PROVE  LineAt(text, a) \in Seq(S \ {NL})
  <1>0. Len(text) \in Nat OBVIOUS
  <1>1. a \in 1 .. Len(text) + 1
    <2>1. DOMAIN text = 1 .. Len(text) OBVIOUS
    <2> QED BY <1>0, <2>1 DEF LineStarts
  <1> DEFINE ends == {i \in Nat : i \in a .. Len(text) + 1 /\ (i <= Len(text) => text[i] = NL)}
  <1>2. Len(text) + 1 \in ends BY <1>0, <1>1
  <1>3. PICK e \in ends : \A y \in ends : e <= y BY <1>2, Least
  <1>4. e \in a .. Len(text) + 1 /\ (e <= Len(text) => text[e] = NL) /\ e \in Nat BY <1>3
  <1>5. ASSUME NEW i \in a .. e - 1 PROVE text[i] # NL
    <2>1. i \in Nat /\ i \in a .. Len(text) + 1 /\ i < e BY <1>1, <1>4
    <2>2. i \notin ends
      <3> HIDE DEF ends
      <3> QED BY <1>3, <1>4, <2>1
    <2> QED BY <2>1, <2>2
  <1>6. LineAt(text, a) = SubSeq(text, a, e - 1) BY <1>1, <1>4, <1>5, LineAtIs
  <1>7. e - 1 \in a - 1 .. Len(text) BY <1>0, <1>1, <1>4
  <1> DEFINE s == SubSeq(text, a, e - 1)
  <1>8. /\ s \in Seq(S) /\ Len(s) = (e - 1) - a + 1
        /\ \A j \in 1 .. (e - 1) - a + 1 : s[j] = text[a + j - 1]
    BY <1>1, <1>7, SubSeqIs
  <1>9. ASSUME NEW j \in 1 .. Len(s) PROVE s[j] \in S \ {NL}
    <2> HIDE DEF s
    <2>1. a + j - 1 \in a .. e - 1 /\ j \in 1 .. (e - 1) - a + 1 BY <1>1, <1>4, <1>8
    <2>2. s[j] \in S BY <1>8
    <2>3. s[j] = text[a + j - 1] BY <1>8, <2>1
    <2> QED BY <1>5, <2>1, <2>2, <2>3
  <1> HIDE DEF s
  <1>10. s \in Seq(S \ {NL}) BY <1>8, <1>9, Widen
  <1> QED BY <1>6, <1>10 DEF s

-----------------------------------------------------------------------------
(* White space at the ends *)

LEMMA MaxIs ==
  ASSUME NEW I, NEW e \in I, I \subseteq Int, \A i \in I : e >= i PROVE Max(I) = e
  <1>1. \A x \in I : (\A y \in I : x >= y) => x = e
    <2> SUFFICES ASSUME NEW x \in I, \A y \in I : x >= y PROVE x = e OBVIOUS
    <2>1. x \in Int /\ e \in Int /\ x >= e /\ e >= x OBVIOUS
    <2> QED BY <2>1
  <1> DEFINE m == CHOOSE x \in I : \A y \in I : x >= y
  <1>2. m \in I /\ \A y \in I : m >= y BY Zenon
  <1>3. m = e BY <1>1, <1>2, Zenon
  <1> QED BY <1>3, Zenon DEF Max

LEMMA TrimEndAt ==
  ASSUME NEW S, NEW v \in Seq(S), NEW k \in 0 .. Len(v),
         \A i \in k + 1 .. Len(v) : v[i] = SP, k > 0 => v[k] # SP
  PROVE  TrimEnd(v) = SubSeq(v, 1, k)
  <1> DEFINE I == {i \in 1 .. Len(v) : v[i] # SP}
  <1>0. Len(v) \in Nat OBVIOUS
  <1>1. TrimEnd(v) = SubSeq(v, 1, IF I # {} THEN Max(I) ELSE 0) BY Zenon DEF TrimEnd, SelectLastInSeq
  <1>2. CASE k = 0
    <2>1. I = {} BY <1>0, <1>2
    <2> QED BY <1>1, <1>2, <2>1
  <1>3. CASE k # 0
    <2>1. k \in I /\ I \subseteq Int /\ \A i \in I : k >= i
      <3>1. k \in I BY <1>0, <1>3
      <3>2. ASSUME NEW i \in I PROVE k >= i
        <4>1. i \notin k + 1 .. Len(v) OBVIOUS
        <4> QED BY <1>0, <4>1
      <3> QED BY <3>1, <3>2
    <2>2. Max(I) = k
      <3> HIDE DEF I
      <3> QED BY <2>1, MaxIs
    <2> QED BY <1>1, <2>1, <2>2
  <1> QED BY <1>2, <1>3

LEMMA TrimEndIs ==
  ASSUME NEW S, NEW v \in Seq(S)
  PROVE  \E k \in 0 .. Len(v) :
           /\ TrimEnd(v) = SubSeq(v, 1, k)
           /\ \A i \in k + 1 .. Len(v) : v[i] = SP
           /\ k > 0 => v[k] # SP
  <1> DEFINE T == {k \in Nat : k \in 0 .. Len(v) /\ \A i \in k + 1 .. Len(v) : v[i] = SP}
  <1>0. Len(v) \in Nat OBVIOUS
  <1>1. Len(v) \in T BY <1>0
  <1>2. PICK k \in T : \A y \in T : k <= y BY <1>1, Least
  <1>3. k \in 0 .. Len(v) /\ k \in Nat /\ \A i \in k + 1 .. Len(v) : v[i] = SP BY <1>2
  <1>4. ASSUME k > 0, v[k] = SP PROVE FALSE
    <2>1. k - 1 \in Nat /\ k - 1 \in 0 .. Len(v) BY <1>0, <1>3, <1>4
    <2>2. \A i \in (k - 1) + 1 .. Len(v) : i = k \/ i \in k + 1 .. Len(v) BY <1>0, <1>3
    <2>3. k - 1 \in T BY <1>3, <1>4, <2>1, <2>2
    <2> HIDE DEF T
    <2> QED BY <1>2, <1>3, <2>1, <2>3
  <1> QED BY <1>3, <1>4, TrimEndAt

LEMMA TrimSeq ==
  ASSUME NEW S, NEW v \in Seq(S) PROVE Trim(v) \in Seq(S)
  <1>1. TrimEnd(v) \in Seq(S)
    <2>1. PICK k \in 0 .. Len(v) : TrimEnd(v) = SubSeq(v, 1, k) BY TrimEndIs
    <2> QED BY <2>1, SubSeqIs
  <1> DEFINE e == TrimEnd(v)
             I == {i \in 1 .. Len(e) : e[i] # SP}
             k == IF I # {} THEN Min(I) ELSE 0
  <1>2. Trim(v) = IF k = 0 THEN <<>> ELSE SubSeq(e, k, Len(e)) BY Zenon DEF Trim, SelectInSeq
  <1> HIDE DEF e
  <1>3. e \in Seq(S) /\ Len(e) \in Nat BY <1>1 DEF e
  <1>4. I # {} => Min(I) \in I
    <2>1. I \subseteq Nat BY <1>3
    <2> HIDE DEF I
    <2>2. ASSUME I # {} PROVE Min(I) \in I
      <3>1. PICK x \in I : \A y \in I : x <= y BY <2>1, <2>2, Least
      <3>2. I \subseteq Int BY <2>1
      <3> QED BY <3>1, <3>2, MinIs
    <2> QED BY <2>2
  <1>5. k = 0 \/ k \in 1 .. Len(e) BY <1>4
  <1> HIDE DEF k
  <1>6. ASSUME k \in 1 .. Len(e) PROVE SubSeq(e, k, Len(e)) \in Seq(S)
    <2>1. k \in 1 .. Len(e) + 1 /\ Len(e) \in k - 1 .. Len(e) BY <1>3, <1>6
    <2> QED BY <1>3, <2>1, SubSeqIs
  <1> QED BY <1>2, <1>5, <1>6

LEMMA TrimFirst ==
  ASSUME NEW S, NEW l \in Seq(S), Len(l) # 0, l[1] # SP
  PROVE  Trim(l) = TrimEnd(l) /\ Trim(l) # <<>> /\ Trim(l)[1] = l[1]
  <1>0. Len(l) \in Nat OBVIOUS
  <1>1. PICK k \in 0 .. Len(l) : /\ TrimEnd(l) = SubSeq(l, 1, k)
                                 /\ \A i \in k + 1 .. Len(l) : l[i] = SP
    BY TrimEndIs
  <1>2. k # 0 BY <1>0, <1>1
  <1> DEFINE e == TrimEnd(l)
             I == {i \in 1 .. Len(e) : e[i] # SP}
             m == IF I # {} THEN Min(I) ELSE 0
  <1>3. Trim(l) = IF m = 0 THEN <<>> ELSE SubSeq(e, m, Len(e)) BY Zenon DEF Trim, SelectInSeq
  <1>4. e \in Seq(S) /\ Len(e) = k /\ e[1] = l[1] BY <1>0, <1>1, <1>2
  <1> HIDE DEF e
  <1>5. 1 \in I /\ I \subseteq Int /\ \A i \in I : 1 <= i BY <1>2, <1>4
  <1>6. m = 1
    <2>1. Min(I) = 1
      <3> HIDE DEF I
      <3> QED BY <1>5, MinIs
    <2> QED BY <1>5, <2>1
  <1>7. SubSeq(e, 1, Len(e)) = e /\ e # <<>> BY <1>2, <1>4
  <1> HIDE DEF m
  <1>8. Trim(l) = e BY <1>3, <1>6, <1>7
  <1> QED BY <1>4, <1>7, <1>8 DEF e

\* A line that begins with two cells that are not blank keeps them.
LEMMA TrimLine ==
  ASSUME NEW S, NEW v \in Seq(S), NEW x \in S, NEW y \in S, x # SP, y # SP
  PROVE  Trim(<<x, y>> \o v) = <<x, y>> \o TrimEnd(v)
  <1> DEFINE l == <<x, y>> \o v
  <1>0. Len(v) \in Nat OBVIOUS
  <1>1. /\ l \in Seq(S) /\ Len(l) = Len(v) + 2 /\ l[1] = x /\ l[2] = y
        /\ \A i \in 1 .. Len(v) : l[i + 2] = v[i]
    OBVIOUS
  <1>2. PICK k \in 0 .. Len(v) : /\ TrimEnd(v) = SubSeq(v, 1, k)
                                 /\ \A i \in k + 1 .. Len(v) : v[i] = SP
                                 /\ k > 0 => v[k] # SP
    BY TrimEndIs
  <1> HIDE DEF l
  <1>3. TrimEnd(l) = SubSeq(l, 1, k + 2)
    <2>1. k + 2 \in 0 .. Len(l) BY <1>0, <1>1
    <2>2. ASSUME NEW i \in (k + 2) + 1 .. Len(l) PROVE l[i] = SP
      <3>1. i - 2 \in k + 1 .. Len(v) /\ i - 2 \in 1 .. Len(v) /\ (i - 2) + 2 = i BY <1>0, <1>1
      <3> QED BY <1>1, <1>2, <3>1
    <2>3. l[k + 2] # SP
      <3>1. CASE k = 0 BY <1>1, <3>1
      <3>2. CASE k # 0 BY <1>1, <1>2, <3>2
      <3> QED BY <3>1, <3>2
    <2> QED BY <1>1, <2>1, <2>2, <2>3, TrimEndAt
  <1>4. TrimEnd(l) = <<x, y>> \o TrimEnd(v)
    <2>1. /\ TrimEnd(l) \in Seq(S) /\ Len(TrimEnd(l)) = k + 2
          /\ \A j \in 1 .. k + 2 : TrimEnd(l)[j] = l[j]
      BY <1>0, <1>1, <1>3
    <2>2. /\ TrimEnd(v) \in Seq(S) /\ Len(TrimEnd(v)) = k
          /\ \A j \in 1 .. k : TrimEnd(v)[j] = v[j]
      BY <1>0, <1>2
    <2> DEFINE r == <<x, y>> \o TrimEnd(v)
    <2>3. /\ r \in Seq(S) /\ Len(r) = k + 2 /\ r[1] = x /\ r[2] = y
          /\ \A j \in 1 .. k : r[j + 2] = TrimEnd(v)[j]
      BY <1>0, <2>2
    <2> HIDE DEF r
    <2>4. ASSUME NEW j \in 1 .. k + 2 PROVE TrimEnd(l)[j] = r[j]
      <3>1. CASE j \in {1, 2} BY <1>1, <2>1, <2>3, <3>1
      <3>2. CASE j \notin {1, 2}
        <4>1. j - 2 \in 1 .. k /\ j - 2 \in 1 .. Len(v) /\ (j - 2) + 2 = j BY <1>0, <3>2
        <4> QED BY <1>1, <2>1, <2>2, <2>3, <4>1
      <3> QED BY <3>1, <3>2
    <2>5. TrimEnd(l) = r BY <2>1, <2>3, <2>4, SameSeq
    <2> QED BY <2>5 DEF r
  <1>5. Trim(l) = TrimEnd(l) BY <1>0, <1>1, TrimFirst
  <1> QED BY <1>4, <1>5 DEF l
-----------------------------------------------------------------------------
(* The file set writes *)

\* A value that leaves the lines of the file apart.
Storable(d, v) ==
  IsText(v) /\ \A i \in 1 .. Len(v) : v[i] \notin {NL} \cup Names(d) \cup DOMAIN Types

\* Line i of the text ends with cell P[i]; line 0 is the comment.
Laid(d, m, text, P) ==
  /\ P \in [0 .. Len(d) -> Nat] /\ P[0] = 2 /\ Len(text) = P[Len(d)]
  /\ text[1] = HASH /\ text[2] = NL
  /\ \A i \in 1 .. Len(d) :
       /\ P[i] = P[i - 1] + (Len(m[d[i].name]) + 3)
       /\ text[P[i - 1] + 1] = d[i].name /\ text[P[i - 1] + 2] = d[i].ty
       /\ \A j \in 1 .. Len(m[d[i].name]) : text[P[i - 1] + (2 + j)] = m[d[i].name][j]
       /\ text[P[i]] = NL

LEMMA PieceIs ==
  ASSUME NEW A, NEW v \in Seq(A), NEW x \in A, NEW y \in A, NEW z \in A
  PROVE  /\ <<x, y>> \o v \o <<z>> \in Seq(A) /\ Len(<<x, y>> \o v \o <<z>>) = Len(v) + 3
         /\ (<<x, y>> \o v \o <<z>>)[1] = x /\ (<<x, y>> \o v \o <<z>>)[2] = y
         /\ \A j \in 1 .. Len(v) : (<<x, y>> \o v \o <<z>>)[2 + j] = v[j]
         /\ (<<x, y>> \o v \o <<z>>)[Len(v) + 3] = z
  OBVIOUS

LEMMA SerializeIs ==
  ASSUME NEW d \in DefSets, NEW m, \A n \in Names(d) : Storable(d, m[n])
  PROVE  /\ IsText(Serialize(d, m))
         /\ \E P : Laid(d, m, Serialize(d, m), P)
  <1>0. d \in Seq(ToSet(d)) BY DefSetsAssumption DEF IsText
  <1>1. PICK n \in Nat : n = Len(d) /\ DOMAIN d = 1 .. n BY <1>0
  <1> DEFINE L == [i \in DOMAIN d |-> <<d[i].name, d[i].ty>> \o m[d[i].name] \o <<NL>>]
             V == UNION {ToSet(m[d[i].name]) : i \in 1 .. n}
             S == V \cup {d[i].name : i \in 1 .. n} \cup {d[i].ty : i \in 1 .. n} \cup {HASH, NL}
  <1>2. ASSUME NEW i \in 1 .. n
        PROVE  /\ m[d[i].name] \in Seq(S) /\ d[i].name \in S /\ d[i].ty \in S /\ NL \in S
               /\ Len(m[d[i].name]) \in Nat
    <2>1. IsText(m[d[i].name]) BY <1>1 DEF Storable, Names
    <2>2. ToSet(m[d[i].name]) \subseteq S OBVIOUS
    <2> DEFINE v == m[d[i].name]
    <2>3. v \in Seq(ToSet(v)) BY <2>1 DEF IsText
    <2>4. ToSet(v) \subseteq S BY <2>2
    <2>5. d[i].name \in S /\ d[i].ty \in S /\ NL \in S OBVIOUS
    <2> HIDE DEF S, v
    <2>6. \A j \in 1 .. Len(v) : v[j] \in S BY <2>3, <2>4
    <2>7. v \in Seq(S) BY <2>3, <2>6, Widen
    <2> QED BY <2>5, <2>7 DEF v
  <1> HIDE DEF S
  <1>3. ASSUME NEW i \in 1 .. n
        PROVE  /\ L[i] \in Seq(S) /\ Len(L[i]) = Len(m[d[i].name]) + 3
               /\ L[i][1] = d[i].name /\ L[i][2] = d[i].ty
               /\ \A j \in 1 .. Len(m[d[i].name]) : L[i][2 + j] = m[d[i].name][j]
               /\ L[i][Len(m[d[i].name]) + 3] = NL
    <2>1. L[i] = <<d[i].name, d[i].ty>> \o m[d[i].name] \o <<NL>> BY <1>1
    <2> HIDE DEF L
    <2>2. PICK x, y, v, l : x = d[i].name /\ y = d[i].ty /\ v = m[d[i].name] /\ l = L[i] OBVIOUS
    <2>3. v \in Seq(S) /\ x \in S /\ y \in S /\ NL \in S BY <1>2, <2>2
    <2>4. l = <<x, y>> \o v \o <<NL>> BY <2>1, <2>2, Zenon
    <2>5. /\ l \in Seq(S) /\ Len(l) = Len(v) + 3
          /\ l[1] = x /\ l[2] = y
          /\ \A j \in 1 .. Len(v) : l[2 + j] = v[j]
          /\ l[Len(v) + 3] = NL
      <3> DEFINE w == <<x, y>> \o v \o <<NL>>
      <3>1. /\ w \in Seq(S) /\ Len(w) = Len(v) + 3
            /\ w[1] = x /\ w[2] = y
            /\ \A j \in 1 .. Len(v) : w[2 + j] = v[j]
            /\ w[Len(v) + 3] = NL
        BY <2>3, PieceIs
      <3> QED BY <2>4, <3>1, Zenon
    <2> QED BY <2>2, <2>5, Zenon
  <1>4. L \in Seq(Seq(S)) /\ Len(L) = n
    <2>1. L = [i \in 1 .. n |-> L[i]] BY <1>1
    <2> HIDE DEF L
    <2> QED BY <1>3, <2>1
  <1>5. PICK text : text = FlattenSeq(L) OBVIOUS
  <1>6. Serialize(d, m) = <<HASH, NL>> \o text BY <1>5 DEF Serialize
  <1> HIDE DEF L
  <1>7. text \in Seq(S) BY <1>4, <1>5, Flat
  <1>8. PICK Q \in [0 .. n -> Nat] :
          /\ Q[0] = 0 /\ Len(text) = Q[n]
          /\ \A i \in 1 .. n : Q[i] = Q[i - 1] + Len(L[i])
          /\ \A a \in 1 .. n : \A j \in 1 .. Len(L[a]) : text[Q[a - 1] + j] = L[a][j]
    <2>1. \E P : Pieces(FlattenSeq(L), L, n, P) BY <1>4, Flat
    <2>2. PICK P : Pieces(text, L, n, P) BY <1>5, <2>1
    <2> QED BY <2>2, Zenon DEF Pieces
  <1> DEFINE whole1 == <<HASH, NL>> \o text
             P == [i \in 0 .. n |-> Q[i] + 2]
  <1>9. /\ whole1 \in Seq(S) /\ Len(whole1) = Len(text) + 2 /\ whole1[1] = HASH /\ whole1[2] = NL
        /\ \A q \in 1 .. Len(text) : whole1[q + 2] = text[q]
    <2>1. <<HASH, NL>> \in Seq(S) BY DEF S
    <2>2. Len(<<HASH, NL>>) = 2 /\ <<HASH, NL>>[1] = HASH /\ <<HASH, NL>>[2] = NL OBVIOUS
    <2> QED BY <1>7, <2>1, <2>2
  <1>10. IsText(whole1)
    <2> HIDE DEF whole1
    <2>1. \A i \in 1 .. Len(whole1) : whole1[i] \in ToSet(whole1)
      <3>1. DOMAIN whole1 = 1 .. Len(whole1) BY <1>9
      <3> QED BY <3>1 DEF ToSet
    <2> QED BY <1>9, <2>1, Widen DEF IsText
  <1>11. P \in [0 .. n -> Nat] /\ P[0] = 2 /\ P[n] = Len(whole1)
         /\ \A i \in 0 .. n : P[i] = Q[i] + 2
    BY <1>8, <1>9
  <1> HIDE DEF whole1, P
  <1>12. \A b \in 0 .. n : \A a \in 0 .. b : Q[a] <= Q[b]
    <2>1. ASSUME NEW i \in 1 .. n PROVE Q[i - 1] <= Q[i]
      <3>1. i - 1 \in 0 .. n OBVIOUS
      <3>2. Q[i - 1] \in Nat /\ Len(L[i]) \in Nat BY <1>3, <3>1
      <3> QED BY <1>8, <3>2
    <2> QED BY <1>8, <2>1, PlacesOrdered
  <1>13. ASSUME NEW i \in 1 .. n
         PROVE  /\ P[i] = P[i - 1] + (Len(m[d[i].name]) + 3)
                /\ whole1[P[i - 1] + 1] = d[i].name /\ whole1[P[i - 1] + 2] = d[i].ty
                /\ \A j \in 1 .. Len(m[d[i].name]) : whole1[P[i - 1] + (2 + j)] = m[d[i].name][j]
                /\ whole1[P[i]] = NL
    <2>1. PICK l \in Nat : l = Len(m[d[i].name]) BY <1>2
    <2>2. i - 1 \in 0 .. n /\ i \in 0 .. n OBVIOUS
    <2>3. PICK q \in Nat : q = Q[i - 1] BY <2>2
    <2>4. P[i - 1] = q + 2 /\ Q[i] = q + (l + 3) /\ P[i] = Q[i] + 2
      BY <1>3, <1>8, <1>11, <2>1, <2>2, <2>3
    <2>5. Q[i] <= Len(text) /\ Len(text) \in Nat
      <3>1. n \in 0 .. n /\ i \in 0 .. n OBVIOUS
      <3> QED BY <1>8, <1>12, <3>1
    <2>6. ASSUME NEW j \in 1 .. l + 3 PROVE whole1[(q + j) + 2] = L[i][j]
      <3>1. q + j \in 1 .. Len(text) BY <2>4, <2>5
      <3>2. text[q + j] = L[i][j] BY <1>3, <1>8, <2>1, <2>3
      <3> QED BY <1>9, <3>1, <3>2
    <2>7. whole1[P[i - 1] + 1] = L[i][1]
      <3>1. 1 \in 1 .. l + 3 /\ P[i - 1] + 1 = (q + 1) + 2 BY <2>4
      <3> QED BY <2>6, <3>1
    <2>8. whole1[P[i - 1] + 2] = L[i][2]
      <3>1. 2 \in 1 .. l + 3 /\ P[i - 1] + 2 = (q + 2) + 2 BY <2>4
      <3> QED BY <2>6, <3>1
    <2>9. ASSUME NEW j \in 1 .. l PROVE whole1[P[i - 1] + (2 + j)] = L[i][2 + j]
      <3>1. 2 + j \in 1 .. l + 3 /\ P[i - 1] + (2 + j) = (q + (2 + j)) + 2 BY <2>4
      <3> QED BY <2>6, <3>1
    <2>10. whole1[P[i]] = L[i][l + 3]
      <3>1. l + 3 \in 1 .. l + 3 /\ P[i] = (q + (l + 3)) + 2 BY <2>4
      <3> QED BY <2>6, <3>1
    <2>11. P[i] = P[i - 1] + (l + 3) BY <2>4
    <2> QED BY <1>3, <2>1, <2>7, <2>8, <2>9, <2>10, <2>11
  <1>14. Laid(d, m, whole1, P) BY <1>1, <1>9, <1>11, <1>13 DEF Laid
  <1>15. Serialize(d, m) = whole1 BY <1>6 DEF whole1
  <1> QED BY <1>10, <1>14, <1>15
LEMMA DefsText ==
  ASSUME NEW d \in DefSets PROVE Len(d) \in Nat /\ DOMAIN d = 1 .. Len(d)
  <1>0. d \in Seq(ToSet(d)) BY DefSetsAssumption DEF IsText
  <1> QED BY <1>0

LEMMA DefName ==
  ASSUME NEW d \in DefSets, NEW i \in 1 .. Len(d)
  PROVE  d[i].name \in Names(d) /\ d[i].ty \in DOMAIN Types /\ i \in DOMAIN d
  BY DefsText, DefSetsAssumption DEF Names

\* Where the lines of the file end.
LEMMA LaidOrder ==
  ASSUME NEW d \in DefSets, NEW m, NEW text, NEW P, Laid(d, m, text, P),
         \A n \in Names(d) : Storable(d, m[n])
  PROVE  /\ \A i \in 0 .. Len(d) : P[i] \in Nat /\ 2 <= P[i] /\ P[i] <= Len(text)
         /\ Len(text) \in Nat
         /\ \A q \in 3 .. Len(text) : \E i \in 1 .. Len(d) : P[i - 1] < q /\ q <= P[i]
  <1>0. PICK n \in Nat : n = Len(d) BY DefsText
  <1>1. P \in [0 .. n -> Nat] /\ P[0] = 2 /\ Len(text) = P[n] BY <1>0 DEF Laid
  <1>2. ASSUME NEW i \in 1 .. n PROVE P[i - 1] <= P[i]
    <2>1. i - 1 \in 0 .. n OBVIOUS
    <2>2. Storable(d, m[d[i].name]) BY <1>0, DefName
    <2>3. Len(m[d[i].name]) \in Nat BY <2>2 DEF Storable, IsText
    <2>4. P[i] = P[i - 1] + (Len(m[d[i].name]) + 3) BY <1>0 DEF Laid
    <2> QED BY <1>1, <2>1, <2>3, <2>4
  <1>3. /\ \A b \in 0 .. n : \A a \in 0 .. b : P[a] <= P[b]
        /\ \A q \in P[0] + 1 .. P[n] : \E i \in 1 .. n : P[i - 1] < q /\ q <= P[i]
    BY <1>1, <1>2, PlacesOrdered
  <1>4. ASSUME NEW i \in 0 .. n PROVE P[i] \in Nat /\ P[0] <= P[i] /\ P[i] <= P[n]
    BY <1>1, <1>3
  <1> QED BY <1>0, <1>1, <1>3, <1>4

\* Line i of the file begins after cell p and has the value v, of length l.
LineCells(d, m, text, P, i, p, l, v) ==
  /\ p \in Nat /\ l \in Nat /\ v \in Seq(ToSet(v))
  /\ p = P[i - 1] /\ v = m[d[i].name] /\ l = Len(v)
  /\ P[i] = p + (l + 3) /\ P[i] <= Len(text)
  /\ text[p + 1] = d[i].name /\ text[p + 2] = d[i].ty /\ text[P[i]] = NL
  /\ d[i].name \notin {NL, SP, HASH} /\ d[i].ty \notin {NL, SP, HASH}
  /\ \A j \in 1 .. l : text[p + (2 + j)] = v[j] /\ v[j] # NL

LEMMA LaidLine ==
  ASSUME NEW d \in DefSets, NEW m, NEW text, NEW P, Laid(d, m, text, P),
         \A n \in Names(d) : Storable(d, m[n]), NEW i \in 1 .. Len(d)
  PROVE  \E p, l, v : LineCells(d, m, text, P, i, p, l, v)
  <1>1. PICK v : v = m[d[i].name] OBVIOUS
  <1>2. Storable(d, v) BY <1>1, DefName
  <1>3. v \in Seq(ToSet(v)) /\ \A j \in 1 .. Len(v) : v[j] # NL BY <1>2 DEF Storable, IsText
  <1>4. Len(v) \in Nat BY <1>3
  <1>5. i - 1 \in 0 .. Len(d) /\ i \in 0 .. Len(d) BY DefsText
  <1>6. P[i - 1] \in Nat /\ P[i] <= Len(text) BY <1>5, LaidOrder
  <1>7. /\ P[i] = P[i - 1] + (Len(v) + 3)
        /\ text[P[i - 1] + 1] = d[i].name /\ text[P[i - 1] + 2] = d[i].ty
        /\ \A j \in 1 .. Len(v) : text[P[i - 1] + (2 + j)] = v[j]
        /\ text[P[i]] = NL
    BY <1>1, Zenon DEF Laid
  <1>8. d[i].name \notin {NL, SP, HASH} /\ d[i].ty \notin {NL, SP, HASH}
    BY DefName, CellsAssumption
  <1>9. PICK p, l : p = P[i - 1] /\ l = Len(v) OBVIOUS
  <1>10. LineCells(d, m, text, P, i, p, l, v)
    BY <1>1, <1>3, <1>4, <1>6, <1>7, <1>8, <1>9, Zenon DEF LineCells
  <1> QED BY <1>10

LEMMA InValue ==
  ASSUME NEW p \in Nat, NEW l \in Nat, NEW q \in Nat, q > p + 2, q <= p + (l + 3), q # p + (l + 3)
  PROVE  \E j \in 1 .. l : q = p + (2 + j)
  <1>1. (q - p) - 2 \in 1 .. l OBVIOUS
  <1>2. q = p + (2 + ((q - p) - 2)) OBVIOUS
  <1> QED BY <1>1, <1>2

\* The line feeds of the file are the ends of its lines.
LEMMA LaidFeeds ==
  ASSUME NEW d \in DefSets, NEW m, NEW text, NEW P, Laid(d, m, text, P),
         \A n \in Names(d) : Storable(d, m[n]), NEW q \in 1 .. Len(text)
  PROVE  text[q] = NL <=> \E i \in 0 .. Len(d) : q = P[i]
  <1>0. Len(text) \in Nat /\ Len(d) \in Nat BY LaidOrder, DefsText
  <1>1. P[0] = 2 /\ text[1] = HASH /\ text[2] = NL BY DEF Laid
  <1>2. ASSUME NEW i \in 0 .. Len(d), q = P[i] PROVE text[q] = NL
    <2>1. CASE i = 0 BY <1>1, <1>2, <2>1
    <2>2. CASE i # 0
      <3>1. i \in 1 .. Len(d) BY <1>0, <2>2
      <3>2. PICK p, l, v : LineCells(d, m, text, P, i, p, l, v) BY <3>1, LaidLine
      <3> QED BY <1>2, <3>2 DEF LineCells
    <2> QED BY <2>1, <2>2
  <1>3. ASSUME text[q] = NL PROVE \E i \in 0 .. Len(d) : q = P[i]
    <2>1. q # 1 BY <1>1, <1>3 DEF HASH, NL
    <2>2. CASE q = 2 BY <1>0, <1>1, <2>2
    <2>3. CASE q # 2
      <3>1. q \in 3 .. Len(text) BY <1>0, <2>1, <2>3
      <3>2. PICK i \in 1 .. Len(d) : P[i - 1] < q /\ q <= P[i] BY <3>1, LaidOrder
      <3>3. PICK p, l, v : LineCells(d, m, text, P, i, p, l, v) BY LaidLine
      <3>4. q # p + 1 /\ q # p + 2 BY <1>3, <3>3 DEF LineCells
      <3>5. ASSUME NEW j \in 1 .. l PROVE q # p + (2 + j) BY <1>3, <3>3 DEF LineCells
      <3>6. q = P[i]
        <4>0. p \in Nat /\ l \in Nat /\ p = P[i - 1] /\ P[i] = p + (l + 3) BY <3>3 DEF LineCells
        <4>1. q \in Nat /\ q > p + 2 /\ q <= p + (l + 3) BY <1>0, <3>2, <3>4, <4>0
        <4>2. CASE q # p + (l + 3)
          <5>1. \E j \in 1 .. l : q = p + (2 + j) BY <4>0, <4>1, <4>2, InValue
          <5> QED BY <3>5, <5>1
        <4> QED BY <4>0, <4>2
      <3>7. i \in 0 .. Len(d) BY <1>0
      <3> QED BY <3>6, <3>7
    <2> QED BY <2>2, <2>3
  <1> QED BY <1>2, <1>3
\* A definition's line as load sees it.
KeptLine(d, m, i) == <<d[i].name, d[i].ty>> \o TrimEnd(m[d[i].name])

LEMMA LaidLineAt ==
  ASSUME NEW d \in DefSets, NEW m, NEW text, NEW P, Laid(d, m, text, P), IsText(text),
         \A n \in Names(d) : Storable(d, m[n]), NEW i \in 1 .. Len(d)
  PROVE  Trim(LineAt(text, P[i - 1] + 1)) = KeptLine(d, m, i)
  <1>0. Len(text) \in Nat /\ Len(d) \in Nat BY LaidOrder, DefsText
  <1>1. PICK p, l, v : LineCells(d, m, text, P, i, p, l, v) BY LaidLine
  <1>2. PICK x, y : x = d[i].name /\ y = d[i].ty OBVIOUS
  <1>3. /\ p \in Nat /\ l \in Nat /\ v \in Seq(ToSet(v)) /\ l = Len(v)
        /\ text[p + 1] = x /\ text[p + 2] = y
        /\ x \notin {NL, SP, HASH} /\ y \notin {NL, SP, HASH}
        /\ \A j \in 1 .. l : text[p + (2 + j)] = v[j] /\ v[j] # NL
    BY <1>1, <1>2 DEF LineCells
  <1>4. p = P[i - 1] /\ P[i] = p + (l + 3) /\ p + (l + 3) <= Len(text) /\ text[p + (l + 3)] = NL
    BY <1>1 DEF LineCells
  <1>5. PICK e \in Nat : e = p + (l + 3) BY <1>3
  <1>6. ASSUME NEW q \in p + 1 .. e - 1 PROVE text[q] # NL
    <2>1. q = p + 1 \/ q = p + 2 \/ (q \in Nat /\ q > p + 2 /\ q <= p + (l + 3) /\ q # p + (l + 3))
      BY <1>3, <1>5
    <2>2. ASSUME q \in Nat, q > p + 2, q <= p + (l + 3), q # p + (l + 3) PROVE text[q] # NL
      <3>1. PICK j \in 1 .. l : q = p + (2 + j) BY <1>3, <2>2, InValue
      <3> QED BY <1>3, <3>1
    <2> QED BY <1>3, <2>1, <2>2
  <1>7. p + 1 \in 1 .. Len(text) + 1 /\ e \in p + 1 .. Len(text) + 1 /\ (e <= Len(text) => text[e] = NL)
    BY <1>0, <1>3, <1>4, <1>5
  <1>8. text \in Seq(ToSet(text)) BY DEF IsText
  <1>9. LineAt(text, p + 1) = SubSeq(text, p + 1, e - 1) BY <1>6, <1>7, <1>8, LineAtIs
  <1> DEFINE S == ToSet(v) \cup {x, y}
             w == <<x, y>> \o v
             u == SubSeq(text, p + 1, e - 1)
  <1>10. v \in Seq(S)
    <2>1. \A j \in 1 .. Len(v) : v[j] \in S BY <1>3
    <2> HIDE DEF S
    <2> QED BY <1>3, <2>1, Widen
  <1>11. x \in S /\ y \in S OBVIOUS
  <1> HIDE DEF S
  <1>12. w \in Seq(S) /\ Len(w) = l + 2 /\ w[1] = x /\ w[2] = y /\ \A j \in 1 .. l : w[j + 2] = v[j]
    BY <1>3, <1>10, <1>11
  <1>13. u \in Seq(ToSet(text)) /\ Len(u) = l + 2 /\ \A j \in 1 .. l + 2 : u[j] = text[p + j]
    <2>0. p \in Nat /\ l \in Nat /\ e = p + (l + 3) /\ e <= Len(text) BY <1>3, <1>4, <1>5
    <2>1. e - 1 \in (p + 1) - 1 .. Len(text) /\ (e - 1) - (p + 1) + 1 = l + 2
      <3>1. PICK t \in Nat : t = Len(text) BY <1>0
      <3>2. e <= t BY <2>0, <3>1
      <3>3. e - 1 \in (p + 1) - 1 .. t /\ (e - 1) - (p + 1) + 1 = l + 2 BY <2>0, <3>2
      <3> QED BY <3>1, <3>3
    <2>2. /\ u \in Seq(ToSet(text)) /\ Len(u) = (e - 1) - (p + 1) + 1
          /\ \A j \in 1 .. (e - 1) - (p + 1) + 1 : u[j] = text[(p + 1) + j - 1]
      BY <1>7, <1>8, <2>1, SubSeqIs
    <2>3. \A j \in 1 .. l + 2 : (p + 1) + j - 1 = p + j BY <1>3
    <2> HIDE DEF u
    <2> QED BY <2>1, <2>2, <2>3
  <1> HIDE DEF u, w
  <1>14. ASSUME NEW j \in 1 .. l + 2 PROVE u[j] = w[j]
    <2>1. CASE j = 1 BY <1>3, <1>12, <1>13, <2>1
    <2>2. CASE j = 2 BY <1>3, <1>12, <1>13, <2>2
    <2>3. CASE j # 1 /\ j # 2
      <3>1. j - 2 \in 1 .. l /\ (j - 2) + 2 = j /\ p + (2 + (j - 2)) = p + j BY <1>3, <2>3
      <3>2. w[j] = v[j - 2] BY <1>12, <3>1
      <3>3. text[p + j] = v[j - 2] BY <1>3, <3>1
      <3> QED BY <1>13, <3>2, <3>3
    <2> QED BY <2>1, <2>2, <2>3
  <1>15. u = w BY <1>12, <1>13, <1>14, SameSeq
  <1>16. Trim(w) = <<x, y>> \o TrimEnd(v) BY <1>3, <1>10, <1>11, TrimLine DEF w
  <1>17. LineAt(text, P[i - 1] + 1) = w BY <1>4, <1>9, <1>15 DEF u
  <1>18. v = m[d[i].name] BY <1>1 DEF LineCells
  <1> QED BY <1>2, <1>16, <1>17, <1>18 DEF KeptLine

\* That line has the first k cells of the value v.
KeptCells(d, m, i, k, v) ==
  /\ v = m[d[i].name] /\ v \in Seq(ToSet(v)) /\ k \in 0 .. Len(v)
  /\ TrimEnd(v) = SubSeq(v, 1, k)
  /\ TrimEnd(v) \in Seq(ToSet(v)) /\ Len(TrimEnd(v)) = k
  /\ \A j \in 1 .. k : TrimEnd(v)[j] = v[j]
  /\ Len(KeptLine(d, m, i)) = k + 2
  /\ KeptLine(d, m, i) \in Seq(ToSet(v) \cup {d[i].name, d[i].ty})
  /\ KeptLine(d, m, i)[1] = d[i].name /\ KeptLine(d, m, i)[2] = d[i].ty
  /\ \A j \in 1 .. k : KeptLine(d, m, i)[j + 2] = v[j]

LEMMA KeptLineIs ==
  ASSUME NEW d \in DefSets, NEW m, \A n \in Names(d) : Storable(d, m[n]), NEW i \in 1 .. Len(d)
  PROVE  \E k, v : KeptCells(d, m, i, k, v)
  <1>1. PICK v : v = m[d[i].name] OBVIOUS
  <1>2. Storable(d, v) BY <1>1, DefName
  <1>3. v \in Seq(ToSet(v)) BY <1>2 DEF Storable, IsText
  <1>4. PICK k \in 0 .. Len(v) : TrimEnd(v) = SubSeq(v, 1, k) BY <1>3, TrimEndIs
  <1>5. PICK x, y, t : x = d[i].name /\ y = d[i].ty /\ t = TrimEnd(v) OBVIOUS
  <1> DEFINE S == ToSet(v) \cup {x, y}
             w == <<x, y>> \o t
  <1>6. t \in Seq(ToSet(v)) /\ Len(t) = k /\ \A j \in 1 .. k : t[j] = v[j] BY <1>3, <1>4, <1>5
  <1>7. t \in Seq(S)
    <2>1. \A j \in 1 .. Len(t) : t[j] \in S BY <1>6
    <2> HIDE DEF S
    <2> QED BY <1>6, <2>1, Widen
  <1>8. x \in S /\ y \in S OBVIOUS
  <1> HIDE DEF S
  <1>9. w \in Seq(S) /\ Len(w) = k + 2 /\ w[1] = x /\ w[2] = y /\ \A j \in 1 .. k : w[j + 2] = v[j]
    BY <1>6, <1>7, <1>8
  <1>10. KeptLine(d, m, i) = w BY <1>1, <1>5 DEF KeptLine
  <1> HIDE DEF w
  <1>11. S = ToSet(v) \cup {d[i].name, d[i].ty} BY <1>5 DEF S
  <1>12. KeptCells(d, m, i, k, v)
    BY <1>1, <1>3, <1>4, <1>5, <1>6, <1>9, <1>10, <1>11, Zenon DEF KeptCells
  <1> QED BY <1>12
\* What load sees of the file: the line of every definition and nothing else.
DefEntries(entries, d, m, P) ==
  /\ DOMAIN entries = {P[i - 1] + 1 : i \in 1 .. Len(d)}
  /\ \A i \in 1 .. Len(d) : entries[P[i - 1] + 1] = KeptLine(d, m, i)

LEMMA LaidEntries ==
  ASSUME NEW d \in DefSets, NEW m, NEW text, NEW P, Laid(d, m, text, P), IsText(text),
         \A n \in Names(d) : Storable(d, m[n])
  PROVE  DefEntries(Entries(text), d, m, P)
  <1> DEFINE Kept(l) == l # <<>> /\ l[1] # HASH
             Z == {b \in LineStarts(text) : Kept(Trim(LineAt(text, b)))}
  <1>0. Len(text) \in Nat /\ Len(d) \in Nat BY LaidOrder, DefsText
  <1>1. Entries(text) = [a \in Z |-> Trim(LineAt(text, a))] BY Zenon DEF Entries
  <1>2. text \in Seq(ToSet(text)) /\ DOMAIN text = 1 .. Len(text) BY DEF IsText
  <1>3. text[1] = HASH /\ text[2] = NL /\ P[0] = 2 /\ Len(text) = P[Len(d)] BY DEF Laid
  <1>4. ASSUME NEW b PROVE b \in LineStarts(text) <=> (b = 1 \/ \E i \in 0 .. Len(d) : b = P[i] + 1)
    <2>1. ASSUME NEW q \in 1 .. Len(text), text[q] = NL, b = q + 1
          PROVE  \E i \in 0 .. Len(d) : b = P[i] + 1
      BY <2>1, LaidFeeds
    <2>2. ASSUME NEW i \in 0 .. Len(d), b = P[i] + 1
          PROVE  \E q \in 1 .. Len(text) : text[q] = NL /\ b = q + 1
      <3>1. P[i] \in 1 .. Len(text) BY <1>0, LaidOrder
      <3>2. text[P[i]] = NL
        <4>1. PICK q \in 1 .. Len(text) : q = P[i] BY <3>1
        <4> QED BY <4>1, LaidFeeds
      <3> QED BY <2>2, <3>1, <3>2
    <2>3. b \in LineStarts(text) <=> (b = 1 \/ \E q \in 1 .. Len(text) : text[q] = NL /\ b = q + 1)
      BY <1>2, Zenon DEF LineStarts
    <2> QED BY <2>1, <2>2, <2>3
  <1>5. ~ Kept(Trim(LineAt(text, 1)))
    <2>1. 2 <= Len(text)
      <3>1. Len(d) \in 0 .. Len(d) BY <1>0
      <3> QED BY <1>3, <3>1, LaidOrder
    <2>2. LineAt(text, 1) = SubSeq(text, 1, 2 - 1)
      <3>1. 1 \in 1 .. Len(text) + 1 /\ 2 \in 1 .. Len(text) + 1 BY <1>0, <2>1
      <3>2. \A i \in 1 .. 2 - 1 : text[i] # NL
        <4>1. \A i \in 1 .. 2 - 1 : i = 1 OBVIOUS
        <4> QED BY <1>3, <4>1 DEF HASH, NL
      <3> QED BY <1>2, <1>3, <3>1, <3>2, LineAtIs
    <2> DEFINE u == SubSeq(text, 1, 2 - 1)
    <2>3. u \in Seq(ToSet(text)) /\ Len(u) = 1 /\ u[1] = HASH BY <1>0, <1>2, <1>3, <2>1
    <2> HIDE DEF u
    <2>4. u[1] # SP BY <2>3 DEF HASH, SP
    <2>5. Trim(u)[1] = u[1] BY <2>3, <2>4, TrimFirst
    <2> QED BY <2>2, <2>3, <2>5 DEF u
  <1>6. ~ Kept(Trim(LineAt(text, P[Len(d)] + 1)))
    <2>1. LineAt(text, Len(text) + 1) = SubSeq(text, Len(text) + 1, (Len(text) + 1) - 1)
      <3>1. Len(text) + 1 \in 1 .. Len(text) + 1 /\ Len(text) + 1 \in Len(text) + 1 .. Len(text) + 1
            /\ ~ (Len(text) + 1 <= Len(text)) /\ \A i \in Len(text) + 1 .. (Len(text) + 1) - 1 : FALSE
        BY <1>0
      <3> QED BY <1>2, <3>1, LineAtIs
    <2>2. SubSeq(text, Len(text) + 1, (Len(text) + 1) - 1) = <<>> BY <1>0, <1>2
    <2>3. Trim(<<>>) = <<>>
      <3>1. <<>> \in Seq({}) OBVIOUS
      <3>2. Trim(<<>>) \in Seq({}) BY <3>1, TrimSeq
      <3> QED BY <3>2
    <2> QED BY <1>3, <2>1, <2>2, <2>3
  <1>7. ASSUME NEW i \in 1 .. Len(d) PROVE Kept(KeptLine(d, m, i))
    <2>1. PICK k, v : KeptCells(d, m, i, k, v) BY KeptLineIs
    <2>2. PICK l : l = KeptLine(d, m, i) OBVIOUS
    <2>3. Len(l) = k + 2 /\ k \in Nat /\ l \in Seq(ToSet(v) \cup {d[i].name, d[i].ty}) /\ l[1] = d[i].name
      BY <2>1, <2>2 DEF KeptCells
    <2>4. d[i].name # HASH
      <3>1. PICK p, q, w : LineCells(d, m, text, P, i, p, q, w) BY LaidLine
      <3> QED BY <3>1 DEF LineCells
    <2>5. l # <<>> BY <2>3
    <2> QED BY <2>2, <2>3, <2>4, <2>5
  <1> HIDE DEF Kept
  <1>8. ASSUME NEW i \in 1 .. Len(d)
        PROVE  P[i - 1] + 1 \in Z /\ Trim(LineAt(text, P[i - 1] + 1)) = KeptLine(d, m, i)
    <2>1. i - 1 \in 0 .. Len(d) BY <1>0
    <2>2. P[i - 1] + 1 \in LineStarts(text) BY <1>4, <2>1
    <2>3. Trim(LineAt(text, P[i - 1] + 1)) = KeptLine(d, m, i) BY LaidLineAt
    <2> QED BY <1>7, <2>2, <2>3
  <1>9. ASSUME NEW b \in Z PROVE \E i \in 1 .. Len(d) : b = P[i - 1] + 1
    <2>1. b # 1 BY <1>5
    <2>2. PICK i \in 0 .. Len(d) : b = P[i] + 1 BY <1>4, <2>1
    <2>3. i # Len(d) BY <1>6, <2>2
    <2>4. i + 1 \in 1 .. Len(d) /\ (i + 1) - 1 = i BY <1>0, <2>3
    <2> QED BY <2>2, <2>4
  <1> HIDE DEF Z
  <1>10. DOMAIN Entries(text) = Z BY <1>1
  <1>11. Z = {P[i - 1] + 1 : i \in 1 .. Len(d)} BY <1>8, <1>9
  <1>12. \A i \in 1 .. Len(d) : Entries(text)[P[i - 1] + 1] = KeptLine(d, m, i) BY <1>1, <1>8
  <1> QED BY <1>10, <1>11, <1>12 DEF DefEntries
LEMMA DefIs ==
  ASSUME NEW d \in DefSets, NEW i \in 1 .. Len(d)
  PROVE  Def(d, d[i].name) = d[i] /\ TypeOf(d, d[i].name) = Types[d[i].ty]
  <1>1. PICK n : n = d[i].name OBVIOUS
  <1>2. i \in DOMAIN d BY DefName
  <1>3. \A j \in DOMAIN d : d[j].name = n => j = i BY <1>1, <1>2, DefSetsAssumption
  <1> DEFINE k == CHOOSE j \in DOMAIN d : d[j].name = n
  <1>4. k \in DOMAIN d /\ d[k].name = n BY <1>1, <1>2, Zenon
  <1>5. k = i BY <1>3, <1>4, Zenon
  <1>6. Def(d, n) = d[i] BY <1>5, Zenon DEF Def
  <1> QED BY <1>1, <1>6 DEF TypeOf

LEMMA NoBlanks ==
  ASSUME NEW S, NEW v \in Seq(S), SP \notin S PROVE TrimEnd(v) = v
  <1>0. Len(v) \in Nat /\ SubSeq(v, 1, Len(v)) = v OBVIOUS
  <1>1. Len(v) \in 0 .. Len(v) /\ \A i \in Len(v) + 1 .. Len(v) : v[i] = SP BY <1>0
  <1>2. Len(v) > 0 => v[Len(v)] # SP BY <1>0
  <1> QED BY <1>0, <1>1, <1>2, TrimEndAt

\* The form a type keeps is the form it keeps without white space at the end.
LEMMA NormalTrim ==
  ASSUME NEW t \in DOMAIN Types, NEW v, Valid(Types[t], v), Normal(Types[t], v) = v
  PROVE  Normal(Types[t], TrimEnd(v)) = TrimEnd(v)
  <1>1. CASE Types[t].kind \in {"enum", "string"} BY <1>1 DEF Normal
  <1>2. CASE Types[t].kind = "bool"
    <2>1. v \in {TrueText, FalseText} BY <1>2 DEF Normal
    <2>2. TrueText \in Seq({"t"}) /\ FalseText \in Seq({"f"}) BY DEF TrueText, FalseText
    <2>3. TrimEnd(v) = v BY <2>1, <2>2, NoBlanks DEF SP
    <2> QED BY <2>3
  <1>3. CASE Types[t].kind = "int"
    <2>1. v = IntText(IntOf(v)) BY <1>3 DEF Normal
    <2>2. IntOf(v) \in Types[t].min .. Types[t].max BY <1>3 DEF Valid
    <2>3. v \in Seq(IntCells) BY <1>3, <2>1, <2>2, IntTextAssumption
    <2>4. SP \notin IntCells BY DEF IntCells, Digits, SP, ToSet
    <2>5. TrimEnd(v) = v BY <2>3, <2>4, NoBlanks
    <2> QED BY <2>5
  <1> QED BY <1>1, <1>2, <1>3, TypesAssumption

\* A line of the file is read as the definition whose line it is, or not at all.
LEMMA KeptEntry ==
  ASSUME NEW d \in DefSets, NEW m, \A n \in Names(d) : Storable(d, m[n]), NEW i \in 1 .. Len(d)
  PROVE  /\ ValueAt(KeptLine(d, m, i), 3) = TrimEnd(m[d[i].name])
         /\ KeptLine(d, m, i)[1] = d[i].name /\ KeptLine(d, m, i)[2] = d[i].ty
         /\ 1 \in DOMAIN KeptLine(d, m, i)
         /\ \A k \in DOMAIN KeptLine(d, m, i) : Entry(KeptLine(d, m, i), Names(d), k) => k = 1
         /\ Entry(KeptLine(d, m, i), Names(d), 1) <=>
              TrimEnd(m[d[i].name]) # <<>> /\ Valid(Types[d[i].ty], TrimEnd(m[d[i].name]))
  <1>1. PICK k, v : KeptCells(d, m, i, k, v) BY KeptLineIs
  <1>2. PICK l, x, y, t : l = KeptLine(d, m, i) /\ x = d[i].name /\ y = d[i].ty /\ t = TrimEnd(v) OBVIOUS
  <1> DEFINE S == ToSet(v) \cup {x, y}
  <1>3. /\ k \in Nat /\ k <= Len(v) /\ t \in Seq(ToSet(v)) /\ Len(t) = k
        /\ \A j \in 1 .. k : t[j] = v[j]
        /\ Len(l) = k + 2 /\ l \in Seq(S) /\ l[1] = x /\ l[2] = y
        /\ \A j \in 1 .. k : l[j + 2] = v[j]
    BY <1>1, <1>2 DEF KeptCells
  <1> HIDE DEF S
  <1>4. v = m[d[i].name] /\ v \in Seq(ToSet(v)) BY <1>1 DEF KeptCells
  <1>5. Storable(d, v) BY <1>4, DefName
  <1>6. ASSUME NEW j \in 1 .. k PROVE v[j] \notin Names(d) \cup DOMAIN Types
    <2>1. j \in 1 .. Len(v) BY <1>3, <1>4
    <2> QED BY <1>5, <2>1 DEF Storable
  <1>7. x \in Names(d) /\ y \in DOMAIN Types /\ y \notin Names(d)
    BY <1>2, DefName, CellsAssumption
  <1>8. DOMAIN l = 1 .. k + 2 BY <1>3
  <1>9. SubSeq(l, 3, Len(l)) = t
    <2>1. 3 \in 1 .. Len(l) + 1 /\ Len(l) \in 3 - 1 .. Len(l) /\ Len(l) - 3 + 1 = k BY <1>3
    <2> DEFINE u == SubSeq(l, 3, Len(l))
    <2>2. /\ u \in Seq(S) /\ Len(u) = Len(l) - 3 + 1
          /\ \A j \in 1 .. Len(l) - 3 + 1 : u[j] = l[3 + j - 1]
      BY <1>3, <2>1, SubSeqIs
    <2> HIDE DEF u
    <2>3. ASSUME NEW j \in 1 .. k PROVE u[j] = t[j]
      <3>1. 3 + j - 1 = j + 2 BY <1>3
      <3> QED BY <1>3, <2>1, <2>2, <3>1
    <2>4. u = t BY <1>3, <2>1, <2>2, <2>3, SameSeq
    <2> QED BY <2>4 DEF u
  <1>10. ASSUME NEW q \in 3 .. k + 2 PROVE l[q] \notin Names(d) \cup DOMAIN Types
    <2>1. q - 2 \in 1 .. k /\ (q - 2) + 2 = q BY <1>3
    <2> QED BY <1>3, <1>6, <2>1
  <1>11. ASSUME NEW q \in DOMAIN l, Entry(l, Names(d), q) PROVE q = 1
    <2>1. l[q] \in Names(d) BY <1>11 DEF Entry
    <2>2. q # 2 BY <1>3, <1>7, <2>1
    <2>3. q \notin 3 .. k + 2 BY <1>10, <2>1
    <2> QED BY <1>3, <1>8, <1>11, <2>2, <2>3
  <1>12. k # 0 <=> t # <<>> BY <1>3
  <1>13. 1 + 2 \in DOMAIN l <=> k # 0 BY <1>3, <1>8
  <1>14. \A q \in DOMAIN l \ {1, 1 + 1} : l[q] \notin Names(d) \cup DOMAIN Types
    <2>1. \A q \in DOMAIN l \ {1, 1 + 1} : q \in 3 .. k + 2 BY <1>3, <1>8
    <2> QED BY <1>10, <2>1
  <1>15. ValueAt(l, 1 + 2) = t /\ ValueAt(l, 3) = t
    <2>1. 1 + 2 = 3 OBVIOUS
    <2> QED BY <1>9, <2>1 DEF ValueAt
  <1>16. l[1] \in Names(d) /\ l[1 + 1] = y BY <1>3, <1>7
  <1>17. Entry(l, Names(d), 1) <=> t # <<>> /\ Valid(Types[y], t)
    BY <1>7, <1>12, <1>13, <1>14, <1>15, <1>16, Zenon DEF Entry
  <1>18. 1 \in DOMAIN l BY <1>3, <1>8
  <1>19. t = TrimEnd(m[d[i].name]) BY <1>2, <1>4
  <1> QED BY <1>2, <1>3, <1>11, <1>15, <1>17, <1>18, <1>19, Zenon
-----------------------------------------------------------------------------
(* What load reads of what set wrote *)

\* A value as a server holds it.
Held(d, n, v) == Storable(d, v) /\ Valid(TypeOf(d, n), v) /\ Normal(TypeOf(d, n), v) = v
AllHeld(d, m) == \A n \in Names(d) : Held(d, n, m[n])

Reads(d, n, v) == TrimEnd(v) # <<>> /\ Valid(TypeOf(d, n), TrimEnd(v))

LEMMA LastOfOne == ASSUME NEW a \in Nat PROVE LastOf({a}) = {a} BY DEF LastOf

LEMMA LoadedLaid ==
  ASSUME NEW d \in DefSets, NEW m, NEW text, NEW P, Laid(d, m, text, P), IsText(text), AllHeld(d, m)
  PROVE  Loaded(d, text) = IF \A n \in Names(d) : Reads(d, n, m[n])
                           THEN [n \in Names(d) |-> TrimEnd(m[n])]
                           ELSE Defaults(d)
  <1>0. \A n \in Names(d) : Storable(d, m[n]) BY DEF AllHeld, Held
  <1>1. PICK entries : entries = Entries(text) OBVIOUS
  <1>2. /\ DOMAIN entries = {P[i - 1] + 1 : i \in 1 .. Len(d)}
        /\ \A i \in 1 .. Len(d) : entries[P[i - 1] + 1] = KeptLine(d, m, i)
    <2>1. DefEntries(entries, d, m, P) BY <1>0, <1>1, LaidEntries
    <2> QED BY <2>1, Zenon DEF DefEntries
  <1>3. Names(d) = {d[i].name : i \in 1 .. Len(d)} BY DefsText DEF Names
  <1>4. ASSUME NEW i \in 1 .. Len(d)
        PROVE  LineOk(KeptLine(d, m, i), Names(d)) <=> Reads(d, d[i].name, m[d[i].name])
    BY <1>0, KeptEntry, DefIs DEF LineOk, Reads
  <1>5. Parses(d, entries) <=> \A n \in Names(d) : Reads(d, n, m[n])
    <2>1. Parses(d, entries) <=> \A i \in 1 .. Len(d) : LineOk(KeptLine(d, m, i), Names(d))
      BY <1>2 DEF Parses
    <2>2. (\A n \in Names(d) : Reads(d, n, m[n])) <=> \A i \in 1 .. Len(d) : Reads(d, d[i].name, m[d[i].name])
      BY <1>3
    <2> QED BY <1>4, <2>1, <2>2, Zenon
  <1> DEFINE Override(n) == LastOf(OverrideLines(d, entries, n))
             Value(n) == IF Parses(d, entries) /\ Override(n) # {}
                         THEN Normal(TypeOf(d, n), ValueAt(entries[CHOOSE i \in Override(n) : TRUE], 3))
                         ELSE Def(d, n).value
  <1>6. Loaded(d, text) = [n \in Names(d) |-> Value(n)] BY <1>1 DEF Loaded
  <1>7. CASE ~ Parses(d, entries)
    <2>1. \A n \in Names(d) : Value(n) = Def(d, n).value BY <1>7
    <2> HIDE DEF Value
    <2> QED BY <1>5, <1>6, <1>7, <2>1 DEF Defaults
  <1>8. CASE Parses(d, entries)
    <2>1. ASSUME NEW i \in 1 .. Len(d) PROVE Value(d[i].name) = TrimEnd(m[d[i].name])
      <3>1. PICK n, a : n = d[i].name /\ a = P[i - 1] + 1 OBVIOUS
      <3>2. a \in Nat
        <4>1. i - 1 \in 0 .. Len(d) BY DefsText
        <4>2. \A j \in 0 .. Len(d) : P[j] \in Nat BY <1>0, LaidOrder, Zenon
        <4>3. P[i - 1] \in Nat BY <4>1, <4>2
        <4> QED BY <3>1, <4>3
      <3>3. n \in Names(d) /\ Reads(d, n, m[n]) BY <1>3, <1>5, <1>8, <3>1
      <3>4. a \in OverrideLines(d, entries, n)
        <4>1. a \in DOMAIN entries /\ entries[a] = KeptLine(d, m, i) BY <1>2, <3>1
        <4>2. Entry(KeptLine(d, m, i), Names(d), 1) BY <1>0, <3>1, <3>3, KeptEntry, DefIs DEF Reads
        <4>3. KeptLine(d, m, i)[1] = n /\ KeptLine(d, m, i)[2] = Def(d, n).ty
          BY <1>0, <3>1, KeptEntry, DefIs
        <4> QED BY <4>1, <4>2, <4>3 DEF OverrideLines
      <3>5. ASSUME NEW b \in OverrideLines(d, entries, n) PROVE b = a
        <4>1. b \in DOMAIN entries /\ entries[b][1] = n BY DEF OverrideLines
        <4>2. PICK j \in 1 .. Len(d) : b = P[j - 1] + 1 BY <1>2, <4>1
        <4>3. entries[b] = KeptLine(d, m, j) BY <1>2, <4>2
        <4>4. d[j].name = n BY <1>0, <4>1, <4>3, KeptEntry
        <4>5. i \in DOMAIN d /\ j \in DOMAIN d BY DefName
        <4>6. j = i BY <3>1, <4>4, <4>5, DefSetsAssumption
        <4> QED BY <3>1, <4>2, <4>6
      <3>6. OverrideLines(d, entries, n) = {a} BY <3>4, <3>5
      <3>7. Override(n) = {a} BY <3>2, <3>6, LastOfOne
      <3>8. (CHOOSE q \in Override(n) : TRUE) = a BY <3>7
      <3>9. ValueAt(entries[a], 3) = TrimEnd(m[n])
        <4>1. entries[a] = KeptLine(d, m, i) BY <1>2, <3>1
        <4>2. ValueAt(KeptLine(d, m, i), 3) = TrimEnd(m[d[i].name]) BY <1>0, KeptEntry
        <4> QED BY <3>1, <4>1, <4>2
      <3>10. Value(n) = Normal(TypeOf(d, n), TrimEnd(m[n])) BY <1>8, <3>7, <3>8, <3>9, Zenon
      <3>11. Normal(TypeOf(d, n), TrimEnd(m[n])) = TrimEnd(m[n])
        <4>1. PICK t \in DOMAIN Types : TypeOf(d, n) = Types[t] BY <3>3, DefType
        <4>2. Valid(Types[t], m[n]) /\ Normal(Types[t], m[n]) = m[n]
          BY <3>3, <4>1 DEF AllHeld, Held
        <4> QED BY <4>1, <4>2, NormalTrim
      <3> HIDE DEF Value
      <3> QED BY <3>1, <3>10, <3>11
    <2> HIDE DEF Value
    <2>2. \A n \in Names(d) : Value(n) = TrimEnd(m[n]) BY <1>3, <2>1
    <2> QED BY <1>5, <1>6, <1>8, <2>2
  <1> QED BY <1>7, <1>8

\* load after an undisturbed write.
LEMMA LoadedSerialize ==
  ASSUME NEW d \in DefSets, NEW m, AllHeld(d, m)
  PROVE  Loaded(d, Serialize(d, m)) =
           IF \A n \in Names(d) : Reads(d, n, m[n])
           THEN [n \in Names(d) |-> TrimEnd(m[n])]
           ELSE Defaults(d)
  <1>1. \A n \in Names(d) : Storable(d, m[n]) BY DEF AllHeld, Held
  <1>2. IsText(Serialize(d, m)) /\ \E P : Laid(d, m, Serialize(d, m), P) BY <1>1, SerializeIs
  <1>3. PICK text : text = Serialize(d, m) OBVIOUS
  <1>4. PICK P : Laid(d, m, text, P) BY <1>2, <1>3
  <1> QED BY <1>2, <1>3, <1>4, LoadedLaid
LEMMA SeqText == ASSUME NEW S, NEW v \in Seq(S) PROVE IsText(v)
  <1>1. \A i \in 1 .. Len(v) : v[i] \in ToSet(v)
    <2>1. DOMAIN v = 1 .. Len(v) OBVIOUS
    <2> QED BY <2>1 DEF ToSet
  <1> QED BY <1>1, Widen DEF IsText

\* The cells of a text.
LEMMA TextCells ==
  ASSUME NEW v, IsText(v), NEW i \in 1 .. Len(v) PROVE v[i] \in ToSet(v)
  BY DEF IsText

\* What a type keeps can be stored.
LEMMA NormalStorable ==
  ASSUME NEW d \in DefSets, NEW t \in DOMAIN Types, NEW v, IsText(v), Valid(Types[t], v),
         \A i \in 1 .. Len(v) : v[i] \notin Names(d) \cup DOMAIN Types
  PROVE  Storable(d, Normal(Types[t], v))
  <1>1. ASSUME TokenOk(v) PROVE Storable(d, v)
    <2>1. ASSUME NEW i \in 1 .. Len(v) PROVE v[i] # NL
      <3>1. v[i] \in ToSet(v) BY TextCells
      <3> QED BY <1>1, <3>1 DEF TokenOk, Control
    <2> QED BY <2>1 DEF Storable
  <1>2. ASSUME NEW S, NEW w \in Seq(S), S \cap ({NL} \cup Names(d) \cup DOMAIN Types) = {}
        PROVE  Storable(d, w)
    <2>1. IsText(w) BY <1>2, SeqText
    <2>2. \A i \in 1 .. Len(w) : w[i] \in S BY <1>2
    <2> QED BY <1>2, <2>1, <2>2 DEF Storable
  <1>3. CASE Types[t].kind = "enum"
    <2>1. Normal(Types[t], v) = v /\ v \in Types[t].values BY <1>3 DEF Normal, Valid
    <2> QED BY <1>1, <1>3, <2>1, TypesAssumption
  <1>4. CASE Types[t].kind = "string"
    <2>1. Normal(Types[t], v) = v /\ TokenOk(v) BY <1>4 DEF Normal, Valid
    <2> QED BY <1>1, <2>1
  <1>5. CASE Types[t].kind = "bool"
    <2>1. Normal(Types[t], v) \in {TrueText, FalseText} BY <1>5 DEF Normal
    <2>2. TrueText \in Seq({"t"}) /\ FalseText \in Seq({"f"}) BY DEF TrueText, FalseText
    <2>3. /\ {"t"} \cap ({NL} \cup Names(d) \cup DOMAIN Types) = {}
          /\ {"f"} \cap ({NL} \cup Names(d) \cup DOMAIN Types) = {}
      BY CellsAssumption DEF NL
    <2>4. Storable(d, TrueText) BY <1>2, <2>2, <2>3
    <2>5. Storable(d, FalseText) BY <1>2, <2>2, <2>3
    <2> QED BY <2>1, <2>4, <2>5
  <1>6. CASE Types[t].kind = "int"
    <2>1. Normal(Types[t], v) = IntText(IntOf(v)) BY <1>6 DEF Normal
    <2>2. IntOf(v) \in Types[t].min .. Types[t].max BY <1>6 DEF Valid
    <2>3. Normal(Types[t], v) \in Seq(IntCells) BY <1>6, <2>1, <2>2, IntTextAssumption
    <2>4. NL \notin IntCells BY DEF IntCells, Digits, NL, ToSet
    <2>5. IntCells \cap ({NL} \cup Names(d) \cup DOMAIN Types) = {} BY <2>4, CellsAssumption
    <2> QED BY <1>2, <2>3, <2>5
  <1> QED BY <1>3, <1>4, <1>5, <1>6, TypesAssumption

LEMMA NormalHeld ==
  ASSUME NEW d \in DefSets, NEW n \in Names(d), NEW v, IsText(v), Valid(TypeOf(d, n), v),
         \A i \in 1 .. Len(v) : v[i] \notin Names(d) \cup DOMAIN Types
  PROVE  Held(d, n, Normal(TypeOf(d, n), v))
  <1>1. PICK t \in DOMAIN Types : TypeOf(d, n) = Types[t] BY DefType
  <1>2. Valid(Types[t], v) BY <1>1
  <1>3. Storable(d, Normal(Types[t], v)) BY <1>2, NormalStorable
  <1>4. /\ Valid(Types[t], Normal(Types[t], v))
        /\ Normal(Types[t], Normal(Types[t], v)) = Normal(Types[t], v)
    BY <1>2, NormalValid
  <1> QED BY <1>1, <1>3, <1>4 DEF Held

LEMMA DefaultHeld ==
  ASSUME NEW d \in DefSets, NEW n \in Names(d) PROVE Held(d, n, Def(d, n).value)
  <1>1. \E i \in DOMAIN d : d[i].name = n BY DEF Names
  <1>2. PICK i \in DOMAIN d : Def(d, n) = d[i] BY <1>1 DEF Def
  <1>3. PICK v : v = Def(d, n).value OBVIOUS
  <1>4. IsText(v) BY <1>2, <1>3, DefSetsAssumption
  <1>5. \A j \in 1 .. Len(v) : v[j] \notin Names(d) \cup DOMAIN Types
    <2>1. (Names(d) \cup DOMAIN Types) \cap ToSet(v) = {} BY <1>2, <1>3, CellsAssumption
    <2>2. \A j \in 1 .. Len(v) : v[j] \in ToSet(v) BY <1>4, TextCells
    <2> QED BY <2>1, <2>2
  <1>6. Valid(TypeOf(d, n), v) /\ Normal(TypeOf(d, n), v) = v BY <1>3, DefType
  <1>7. Held(d, n, Normal(TypeOf(d, n), v)) BY <1>4, <1>5, <1>6, NormalHeld
  <1> QED BY <1>3, <1>6, <1>7

\* Whatever text the file holds, load finds values a server can hold.
LEMMA LoadedHeld ==
  ASSUME NEW d \in DefSets, NEW text, IsText(text) PROVE AllHeld(d, Loaded(d, text))
  <1> DEFINE entries == Entries(text)
             Override(n) == LastOf(OverrideLines(d, entries, n))
             Value(n) == IF Parses(d, entries) /\ Override(n) # {}
                         THEN Normal(TypeOf(d, n), ValueAt(entries[CHOOSE i \in Override(n) : TRUE], 3))
                         ELSE Def(d, n).value
  <1>1. Loaded(d, text) = [n \in Names(d) |-> Value(n)] BY DEF Loaded
  <1>2. ASSUME NEW n \in Names(d) PROVE Held(d, n, Value(n))
    <2>1. CASE ~ (Parses(d, entries) /\ Override(n) # {})
      <3>1. Value(n) = Def(d, n).value BY <2>1
      <3> QED BY <3>1, DefaultHeld
    <2>2. CASE Parses(d, entries) /\ Override(n) # {}
      <3>1. PICK a \in Override(n) : a = CHOOSE k \in Override(n) : TRUE BY <2>2
      <3>2. a \in DOMAIN entries /\ Entry(entries[a], Names(d), 1) /\ entries[a][2] = Def(d, n).ty
        BY <3>1 DEF LastOf, OverrideLines
      <3>3. PICK l : l = entries[a] OBVIOUS
      <3>4. PICK S : l \in Seq(S)
        <4>1. a \in LineStarts(text) /\ entries[a] = Trim(LineAt(text, a)) BY <3>2 DEF Entries
        <4>2. text \in Seq(ToSet(text)) BY DEF IsText
        <4>3. LineAt(text, a) \in Seq(ToSet(text) \ {NL}) BY <4>1, <4>2, LineAtSeq
        <4>4. l \in Seq(ToSet(text) \ {NL}) BY <3>3, <4>1, <4>3, TrimSeq
        <4> QED BY <4>4
      <3>5. PICK v : v = ValueAt(l, 3) OBVIOUS
      <3>6. /\ 3 \in DOMAIN l
            /\ \A j \in DOMAIN l \ {1, 2} : l[j] \notin Names(d) \cup DOMAIN Types
            /\ Valid(TypeOf(d, n), v)
        <4>1. 1 + 2 = 3 /\ 1 + 1 = 2 OBVIOUS
        <4> QED BY <3>2, <3>3, <3>5, <4>1, DefType DEF Entry
      <3>7. v \in Seq(S) /\ Len(v) = Len(l) - 2 /\ \A j \in 1 .. Len(l) - 2 : v[j] = l[j + 2]
        BY <3>4, <3>5, <3>6 DEF ValueAt
      <3>8. ASSUME NEW j \in 1 .. Len(v) PROVE v[j] \notin Names(d) \cup DOMAIN Types
        <4>1. j + 2 \in DOMAIN l \ {1, 2} BY <3>4, <3>6, <3>7
        <4> QED BY <3>6, <3>7, <4>1
      <3>9. Held(d, n, Normal(TypeOf(d, n), v))
        <4>1. IsText(v) BY <3>7, SeqText
        <4> QED BY <3>6, <3>8, <4>1, NormalHeld
      <3> HIDE DEF Override, entries
      <3>10. Value(n) = Normal(TypeOf(d, n), v) BY <2>2, <3>1, <3>3, <3>5
      <3> QED BY <3>9, <3>10
    <2> QED BY <2>1, <2>2
  <1> HIDE DEF Value
  <1> QED BY <1>1, <1>2 DEF AllHeld
-----------------------------------------------------------------------------
(* The file *)

LEMMA FunText ==
  ASSUME NEW k \in Nat, NEW f, f = [i \in 1 .. k |-> f[i]] PROVE IsText(f) /\ Len(f) = k
  <1>1. DOMAIN f = 1 .. k OBVIOUS
  <1>2. \A i \in 1 .. k : f[i] \in ToSet(f) BY <1>1 DEF ToSet
  <1> QED BY <1>2 DEF IsText

LEMMA TextLen == ASSUME NEW v, IsText(v) PROVE Len(v) \in Nat /\ DOMAIN v = 1 .. Len(v)
  BY DEF IsText

LEMMA ResizeIs ==
  ASSUME NEW text, NEW len \in Nat PROVE IsText(Resize(text, len)) /\ Len(Resize(text, len)) = len
  <1> DEFINE f == [i \in 1 .. len |-> IF i <= Len(text) THEN text[i] ELSE NUL]
  <1>1. f = [i \in 1 .. len |-> f[i]] OBVIOUS
  <1> HIDE DEF f
  <1>2. IsText(f) /\ Len(f) = len BY <1>1, FunText
  <1> QED BY <1>2 DEF f, Resize

LEMMA OverwriteIs ==
  ASSUME NEW text, IsText(text), NEW body, NEW off \in Nat, NEW n \in Nat
  PROVE  /\ IsText(Overwrite(text, body, off, n))
         /\ off + n <= Len(text) =>
              /\ Len(Overwrite(text, body, off, n)) = Len(text)
              /\ \A i \in 1 .. Len(text) :
                   Overwrite(text, body, off, n)[i] = IF i \in off + 1 .. off + n THEN body[i] ELSE text[i]
  <1>0. PICK l \in Nat : l = Len(text) BY TextLen
  <1> DEFINE I == {l, off + n}
             k == Max(I)
  <1>1. k \in Nat /\ (off + n <= l => k = l)
    <2>1. I \subseteq Int OBVIOUS
    <2>2. CASE off + n <= l
      <3>1. l \in I /\ \A i \in I : l >= i BY <2>2
      <3> HIDE DEF I
      <3>2. Max(I) = l BY <2>1, <3>1, MaxIs
      <3> QED BY <3>2
    <2>3. CASE ~ (off + n <= l)
      <3>1. off + n \in I /\ off + n \in Nat /\ \A i \in I : off + n >= i BY <2>3
      <3> HIDE DEF I
      <3>2. Max(I) = off + n BY <2>1, <3>1, MaxIs
      <3> QED BY <2>3, <3>1, <3>2
    <2> QED BY <2>2, <2>3
  <1> HIDE DEF k
  <1> DEFINE f == [i \in 1 .. k |-> IF i \in off + 1 .. off + n THEN body[i]
                                    ELSE IF i <= Len(text) THEN text[i] ELSE NUL]
  <1>2. Overwrite(text, body, off, n) = f BY <1>0 DEF Overwrite, k
  <1>3. f = [i \in 1 .. k |-> f[i]] OBVIOUS
  <1>4. \A i \in 1 .. k : i <= l => f[i] = IF i \in off + 1 .. off + n THEN body[i] ELSE text[i]
    BY <1>0
  <1> HIDE DEF f
  <1>5. IsText(f) /\ Len(f) = k BY <1>1, <1>3, FunText
  <1>6. ASSUME off + n <= l
        PROVE  /\ Len(f) = l
               /\ \A i \in 1 .. l : f[i] = IF i \in off + 1 .. off + n THEN body[i] ELSE text[i]
    <2>1. \A i \in 1 .. l : i \in 1 .. k /\ i <= l BY <1>1, <1>6
    <2> QED BY <1>1, <1>4, <1>5, <1>6, <2>1
  <1> QED BY <1>0, <1>2, <1>5, <1>6

LEMMA MinTwo ==
  ASSUME NEW a \in Int, NEW b \in Int
  PROVE  Min({a, b}) \in {a, b} /\ Min({a, b}) <= a /\ Min({a, b}) <= b
  <1> DEFINE I == {a, b}
  <1>1. I \subseteq Int OBVIOUS
  <1>2. CASE a <= b
    <2>1. a \in I /\ \A i \in I : a <= i BY <1>2
    <2> HIDE DEF I
    <2>2. Min(I) = a BY <1>1, <2>1, MinIs
    <2> QED BY <1>2, <2>2 DEF I
  <1>3. CASE ~ (a <= b)
    <2>1. b \in I /\ \A i \in I : b <= i BY <1>3
    <2> HIDE DEF I
    <2>2. Min(I) = b BY <1>1, <2>1, MinIs
    <2> QED BY <1>3, <2>2 DEF I
  <1> QED BY <1>2, <1>3

-----------------------------------------------------------------------------
(* The inductive invariant of the file *)

\* The write under way has all of what memory holds, and brings back a value that can be held.
WriteHeld(s) ==
  /\ Held(defs, wr[s].name, wr[s].old)
  /\ wr[s].body = Serialize(defs, mem[s])
  /\ wr[s].off \in Nat /\ wr[s].off < Len(wr[s].body)
  /\ pc[s] = "truncate" => wr[s].off = 0

\* A write that met no other has the file for itself, and what it wrote is there.
Undisturbed(s) ==
  /\ \A t \in Servers : MidWrite(t) => t = s
  /\ Len(file) = Len(wr[s].body)
  /\ \A i \in 1 .. wr[s].off : file[i] = wr[s].body[i]

\* While the last undisturbed write counts, the file is what it wrote.
StoredInv ==
  stored # <<>> =>
    /\ AllHeld(defs, stored[1])
    /\ file = Serialize(defs, stored[1])
    /\ \A s \in Servers : ~ MidWrite(s)

FileInv ==
  /\ IsText(file)
  /\ solo = [s \in Servers |-> solo[s]]
  /\ \A s \in Servers :
       /\ AllHeld(defs, mem[s])
       /\ Writing(s) => WriteHeld(s)
       /\ MidWrite(s) /\ solo[s] => Undisturbed(s)
  /\ StoredInv

\* A step that leaves the file alone and begins or resumes no writing of it.
LEMMA FileKept ==
  ASSUME FileInv, defs' = defs, file' = file, stored' = stored,
         solo' = [s \in Servers |-> solo'[s]],
         \A t \in Servers :
           /\ AllHeld(defs, mem'[t])
           /\ pc'[t] \in {"truncate", "write"} => WriteHeld(t)'
           /\ pc'[t] = "write" => pc[t] = "write" /\ (solo'[t] => solo[t]) /\ wr'[t] = wr[t]
  PROVE  FileInv'
  <1>1. \A t \in Servers : MidWrite(t)' => MidWrite(t) BY DEF MidWrite
  <1>2. ASSUME NEW s \in Servers, MidWrite(s)', solo'[s] PROVE Undisturbed(s)'
    <2>1. MidWrite(s) /\ solo[s] /\ wr'[s] = wr[s] BY <1>2 DEF MidWrite
    <2>2. Undisturbed(s) BY <2>1 DEF FileInv
    <2> QED BY <1>1, <2>1, <2>2 DEF Undisturbed
  <1>3. StoredInv' BY <1>1 DEF FileInv, StoredInv
  <1>4. \A t \in Servers : Writing(t)' => WriteHeld(t)' BY DEF Writing
  <1>5. \A t \in Servers : AllHeld(defs, mem[t])' OBVIOUS
  <1>6. IsText(file)' BY DEF FileInv
  <1> QED BY <1>2, <1>3, <1>4, <1>5, <1>6 DEF FileInv

\* A step that touches neither the store nor a write under way.
LEMMA StoreKept ==
  ASSUME FileInv, defs' = defs, UNCHANGED storeVars,
         \A t \in Servers : pc'[t] = pc[t] \/ pc'[t] \notin {"truncate", "write"}
  PROVE  FileInv'
  <1>1. file' = file /\ stored' = stored /\ solo' = solo /\ mem' = mem /\ wr' = wr BY DEF storeVars
  <1>2. ASSUME NEW t \in Servers, pc'[t] \in {"truncate", "write"} PROVE WriteHeld(t)'
    <2>1. Writing(t) BY <1>2 DEF Writing
    <2>2. WriteHeld(t) BY <2>1 DEF FileInv
    <2> QED BY <1>1, <1>2, <2>2 DEF WriteHeld
  <1>3. \A t \in Servers : AllHeld(defs, mem'[t]) BY <1>1 DEF FileInv
  <1>4. solo' = [s \in Servers |-> solo'[s]] BY <1>1 DEF FileInv
  <1> QED BY <1>1, <1>2, <1>3, <1>4, FileKept
LEMMA PassiveFile ==
  ASSUME WInv, FileInv,
         \/ \E c \in Clients : Send(c) \/ HangUp(c)
         \/ \E c \in Clients, s \in Servers : Connect(c, s)
         \/ \E s \in Servers : Accept(s) \/ ReadEof(s) \/ HandleRead(s) \/ Respond(s)
  PROVE  FileInv'
  <1>1. CASE (\E c \in Clients : Send(c) \/ HangUp(c)) \/ (\E c \in Clients, s \in Servers : Connect(c, s))
    <2>1. defs' = defs /\ UNCHANGED storeVars /\ pc' = pc BY <1>1 DEF Send, HangUp, Connect, serverVars
    <2> QED BY <2>1, StoreKept
  <1>2. ASSUME NEW s \in Servers, Accept(s) \/ ReadEof(s) \/ HandleRead(s) \/ Respond(s) PROVE FileInv'
    <2>1. defs' = defs /\ UNCHANGED storeVars
      BY <1>2 DEF Accept, ReadEof, HandleRead, Respond
    <2>2. \E p \in {"read", "respond", "accept"} : pc' = [pc EXCEPT ![s] = p]
      BY <1>2 DEF Accept, ReadEof, HandleRead, Respond, Decide
    <2>3. \A t \in Servers : pc'[t] = pc[t] \/ pc'[t] \notin {"truncate", "write"}
      BY <2>2 DEF WInv, Shape
    <2> QED BY <2>1, <2>3, StoreKept
  <1> QED BY <1>1, <1>2

LEMMA PersistFailsFile ==
  ASSUME WInv, FileInv, NEW s \in Servers, PersistFails(s) PROVE FileInv'
  <1>1. /\ defs' = defs /\ file' = file /\ stored' = stored
        /\ mem' = [mem EXCEPT ![s][wr[s].name] = wr[s].old]
        /\ wr' = [wr EXCEPT ![s] = NoWrite] /\ solo' = [solo EXCEPT ![s] = FALSE]
        /\ pc' = [pc EXCEPT ![s] = "respond"] /\ Writing(s)
    BY DEF PersistFails, Decide, Writing
  <1>2. \A t \in Servers : t # s => pc'[t] = pc[t] /\ mem'[t] = mem[t] /\ wr'[t] = wr[t] /\ solo'[t] = solo[t]
    BY <1>1 DEF WInv, Shape, FileInv
  <1>3. pc'[s] = "respond" BY <1>1 DEF WInv, Shape
  <1>4. solo' = [t \in Servers |-> solo'[t]] BY <1>1 DEF FileInv
  <1>5. AllHeld(defs, mem'[s])
    <2>1. Held(defs, wr[s].name, wr[s].old) BY <1>1 DEF FileInv, WriteHeld
    <2>2. mem[s] = [n \in Names(defs) |-> mem[s][n]] /\ mem = [t \in Servers |-> mem[t]] BY DEF WInv, Shape
    <2>3. \A n \in Names(defs) : mem'[s][n] = IF n = wr[s].name THEN wr[s].old ELSE mem[s][n]
      BY <1>1, <2>2
    <2>4. AllHeld(defs, mem[s]) BY DEF FileInv
    <2> QED BY <2>1, <2>3, <2>4 DEF AllHeld
  <1>6. ASSUME NEW t \in Servers
        PROVE  /\ AllHeld(defs, mem'[t])
               /\ pc'[t] \in {"truncate", "write"} => WriteHeld(t)'
               /\ pc'[t] = "write" => pc[t] = "write" /\ (solo'[t] => solo[t]) /\ wr'[t] = wr[t]
    <2>1. CASE t = s BY <1>3, <1>5, <2>1
    <2>2. CASE t # s
      <3>1. AllHeld(defs, mem[t]) /\ (Writing(t) => WriteHeld(t)) BY DEF FileInv
      <3>2. pc'[t] = pc[t] /\ mem'[t] = mem[t] /\ wr'[t] = wr[t] /\ solo'[t] = solo[t] BY <1>2, <2>2
      <3>3. WriteHeld(t) => WriteHeld(t)' BY <1>1, <3>2 DEF WriteHeld
      <3> QED BY <3>1, <3>2, <3>3 DEF Writing
    <2> QED BY <2>1, <2>2
  <1> QED BY <1>1, <1>4, <1>6, FileKept

\* The end of a process, or a new one: its memory is what the file or the definitions give.
LEMMA ResetFile ==
  ASSUME WInv, FileInv, NEW s \in Servers, Die(s) \/ Start(s) PROVE FileInv'
  <1>1. /\ defs' = defs /\ file' = file /\ stored' = stored
        /\ wr' = [wr EXCEPT ![s] = wr'[s]] /\ solo' = [solo EXCEPT ![s] = solo'[s]]
        /\ mem' = [mem EXCEPT ![s] = mem'[s]] /\ pc' = [pc EXCEPT ![s] = pc'[s]]
        /\ pc'[s] \in {"down", "accept"}
    BY DEF Die, Start, WInv, Shape, FileInv
  <1>2. mem'[s] = Defaults(defs) \/ mem'[s] = Loaded(defs, file) BY DEF Die, Start, WInv, Shape
  <1>3. AllHeld(defs, mem'[s])
    <2>1. defs \in DefSets /\ IsText(file) BY DEF WInv, Shape, FileInv
    <2>2. AllHeld(defs, Defaults(defs)) BY <2>1, DefaultHeld DEF AllHeld, Defaults
    <2>3. AllHeld(defs, Loaded(defs, file)) BY <2>1, LoadedHeld
    <2> QED BY <1>2, <2>2, <2>3
  <1>4. \A t \in Servers : t # s => pc'[t] = pc[t] /\ mem'[t] = mem[t] /\ wr'[t] = wr[t] /\ solo'[t] = solo[t]
    BY <1>1 DEF WInv, Shape, FileInv
  <1>5. solo' = [t \in Servers |-> solo'[t]] BY <1>1 DEF FileInv
  <1>6. ASSUME NEW t \in Servers
        PROVE  /\ AllHeld(defs, mem'[t])
               /\ pc'[t] \in {"truncate", "write"} => WriteHeld(t)'
               /\ pc'[t] = "write" => pc[t] = "write" /\ (solo'[t] => solo[t]) /\ wr'[t] = wr[t]
    <2>1. CASE t = s BY <1>1, <1>3, <2>1
    <2>2. CASE t # s
      <3>1. AllHeld(defs, mem[t]) /\ (Writing(t) => WriteHeld(t)) BY DEF FileInv
      <3>2. pc'[t] = pc[t] /\ mem'[t] = mem[t] /\ wr'[t] = wr[t] /\ solo'[t] = solo[t] BY <1>4, <2>2
      <3>3. WriteHeld(t) => WriteHeld(t)' BY <1>1, <3>2 DEF WriteHeld
      <3> QED BY <3>1, <3>2, <3>3 DEF Writing
    <2> QED BY <2>1, <2>2
  <1> QED BY <1>1, <1>5, <1>6, FileKept
\* What a PUT asks for can be held.
LEMMA SettableHeld ==
  ASSUME defs \in DefSets, NEW r \in Request, Settable(r)
  PROVE  r.name \in Names(defs) /\ Held(defs, r.name, Normal(TypeOf(defs, r.name), StripEol(r.value)))
  <1>1. r.name \in Names(defs) /\ Valid(TypeOf(defs, r.name), StripEol(r.value)) BY DEF Settable
  <1>2. PICK v : v = r.value OBVIOUS
  <1>3. IsText(v) /\ ToSet(v) \cap (Names(defs) \cup DOMAIN Types) = {}
    <2>1. v \in Inputs \cup {<<>>} BY <1>2 DEF Request
    <2>2. CASE v \in Inputs BY <2>2, InputsAssumption
    <2>3. CASE v = <<>>
      <3>1. <<>> \in Seq({}) /\ ToSet(<<>>) = {} BY DEF ToSet
      <3> QED BY <2>3, <3>1, SeqText
    <2> QED BY <2>1, <2>2, <2>3
  <1>4. v \in Seq(ToSet(v)) BY <1>3 DEF IsText
  <1>5. PICK k \in 0 .. Len(v) : StripEol(v) = SubSeq(v, 1, k) BY <1>4, Stripped
  <1>6. PICK w : w = StripEol(v) OBVIOUS
  <1>7. w \in Seq(ToSet(v)) BY <1>4, <1>5, <1>6
  <1>8. IsText(w) BY <1>7, SeqText
  <1>9. \A i \in 1 .. Len(w) : w[i] \notin Names(defs) \cup DOMAIN Types BY <1>3, <1>7
  <1>10. Held(defs, r.name, Normal(TypeOf(defs, r.name), w))
    <2>1. PICK d, n : d = defs /\ n = r.name OBVIOUS
    <2>2. d \in DefSets /\ n \in Names(d) /\ Valid(TypeOf(d, n), w) BY <1>1, <1>2, <1>6, <2>1
    <2>3. \A i \in 1 .. Len(w) : w[i] \notin Names(d) \cup DOMAIN Types BY <1>9, <2>1
    <2>4. Held(d, n, Normal(TypeOf(d, n), w)) BY <1>8, <2>2, <2>3, NormalHeld
    <2> QED BY <2>1, <2>4
  <1> QED BY <1>1, <1>2, <1>6, <1>10

LEMMA SerializeText ==
  ASSUME NEW d \in DefSets, NEW m, AllHeld(d, m)
  PROVE  IsText(Serialize(d, m)) /\ Len(Serialize(d, m)) \in Nat /\ 2 <= Len(Serialize(d, m))
  <1>1. \A n \in Names(d) : Storable(d, m[n]) BY DEF AllHeld, Held
  <1>2. IsText(Serialize(d, m)) /\ \E P : Laid(d, m, Serialize(d, m), P) BY <1>1, SerializeIs
  <1>3. PICK text : text = Serialize(d, m) OBVIOUS
  <1>4. PICK P : Laid(d, m, text, P) BY <1>2, <1>3
  <1>5. 0 \in 0 .. Len(d) BY DefsText
  <1>6. \A i \in 0 .. Len(d) : P[i] \in Nat /\ 2 <= P[i] /\ P[i] <= Len(text) BY <1>1, <1>4, LaidOrder
  <1>7. Len(text) \in Nat BY <1>1, <1>4, LaidOrder
  <1>8. 2 <= Len(text) BY <1>5, <1>6, <1>7
  <1> QED BY <1>2, <1>3, <1>7, <1>8

LEMMA HandleSetFile ==
  ASSUME WInv, FileInv, NEW s \in Servers, HandleSet(s) PROVE FileInv'
  <1>0. defs \in DefSets BY DEF WInv, Shape
  <1>1. PICK r \in Request :
          /\ Settable(r)
          /\ LET new == [mem[s] EXCEPT ![r.name] = Normal(TypeOf(defs, r.name), StripEol(r.value))]
             IN /\ mem' = [mem EXCEPT ![s] = new]
                /\ wr' = [wr EXCEPT ![s] = [name |-> r.name, old |-> mem[s][r.name],
                                            body |-> Serialize(defs, new), off |-> 0]]
          /\ pc' = [pc EXCEPT ![s] = "truncate"]
          /\ defs' = defs /\ file' = file /\ stored' = stored /\ solo' = solo
    BY DEF HandleSet
  <1>2. PICK n, v : n = r.name /\ v = Normal(TypeOf(defs, r.name), StripEol(r.value)) OBVIOUS
  <1>3. n \in Names(defs) /\ Held(defs, n, v) BY <1>0, <1>1, <1>2, SettableHeld
  <1> DEFINE new == [mem[s] EXCEPT ![n] = v]
             w == [name |-> n, old |-> mem[s][n], body |-> Serialize(defs, new), off |-> 0]
  <1>4. mem' = [mem EXCEPT ![s] = new] /\ wr' = [wr EXCEPT ![s] = w] BY <1>1, <1>2
  <1>5. AllHeld(defs, new)
    <2>1. mem[s] = [q \in Names(defs) |-> mem[s][q]] BY DEF WInv, Shape
    <2>2. \A q \in Names(defs) : new[q] = IF q = n THEN v ELSE mem[s][q] BY <2>1
    <2>3. AllHeld(defs, mem[s]) BY DEF FileInv
    <2> HIDE DEF new
    <2> QED BY <1>3, <2>2, <2>3 DEF AllHeld
  <1> HIDE DEF new
  <1>6. /\ w.name = n /\ w.old = mem[s][n] /\ w.body = Serialize(defs, new) /\ w.off = 0 OBVIOUS
  <1> HIDE DEF w
  <1>7. mem'[s] = new /\ wr'[s] = w /\ pc'[s] = "truncate" BY <1>1, <1>4 DEF WInv, Shape
  <1>8. \A t \in Servers : t # s => pc'[t] = pc[t] /\ mem'[t] = mem[t] /\ wr'[t] = wr[t]
    BY <1>1, <1>4 DEF WInv, Shape
  <1>9. WriteHeld(s)'
    <2>1. Held(defs, n, mem[s][n]) BY <1>3 DEF FileInv, AllHeld
    <2>2. Len(Serialize(defs, new)) \in Nat /\ 2 <= Len(Serialize(defs, new)) BY <1>0, <1>5, SerializeText
    <2>3. 0 \in Nat /\ 0 < Len(Serialize(defs, new)) BY <2>2
    <2> QED BY <1>1, <1>6, <1>7, <2>1, <2>3 DEF WriteHeld
  <1>10. ASSUME NEW t \in Servers
         PROVE  /\ AllHeld(defs, mem'[t])
                /\ pc'[t] \in {"truncate", "write"} => WriteHeld(t)'
                /\ pc'[t] = "write" => pc[t] = "write" /\ (solo'[t] => solo[t]) /\ wr'[t] = wr[t]
    <2>1. CASE t = s BY <1>5, <1>7, <1>9, <2>1
    <2>2. CASE t # s
      <3>1. AllHeld(defs, mem[t]) /\ (Writing(t) => WriteHeld(t)) BY DEF FileInv
      <3>2. pc'[t] = pc[t] /\ mem'[t] = mem[t] /\ wr'[t] = wr[t] BY <1>8, <2>2
      <3>3. WriteHeld(t) => WriteHeld(t)' BY <1>1, <3>2 DEF WriteHeld
      <3> QED BY <1>1, <3>1, <3>2, <3>3 DEF Writing
    <2> QED BY <2>1, <2>2
  <1>11. solo' = [t \in Servers |-> solo'[t]] BY <1>1 DEF FileInv
  <1> QED BY <1>1, <1>10, <1>11, FileKept

\* The file gets its new length; a write that finds no other under way is alone
\* from here on, and one that is overtaken is not.
LEMMA TruncateFileInv ==
  ASSUME WInv, FileInv, NEW s \in Servers, TruncateFile(s) PROVE FileInv'
  <1>1. /\ defs' = defs /\ mem' = mem /\ wr' = wr /\ pc[s] = "truncate"
        /\ pc' = [pc EXCEPT ![s] = "write"] /\ stored' = <<>>
        /\ file' = Resize(file, Len(wr[s].body))
    BY DEF TruncateFile
  <1>2. pc'[s] = "write" /\ \A t \in Servers : t # s => pc'[t] = pc[t] BY <1>1 DEF WInv, Shape
  <1>3. WriteHeld(s) /\ wr[s].off = 0
    <2>1. WriteHeld(s) BY <1>1 DEF FileInv, Writing
    <2> QED BY <1>1, <2>1 DEF WriteHeld
  <1>4. Len(wr[s].body) \in Nat
    <2>1. defs \in DefSets /\ AllHeld(defs, mem[s]) BY DEF WInv, Shape, FileInv
    <2> QED BY <1>3, <2>1, SerializeText DEF WriteHeld
  <1>5. IsText(file)' /\ Len(file') = Len(wr[s].body) BY <1>1, <1>4, ResizeIs
  <1>6. solo' = [t \in Servers |-> IF t = s THEN \A u \in Servers : ~ MidWrite(u)
                                           ELSE solo[t] /\ ~ MidWrite(t)]
    BY DEF TruncateFile
  <1>7. solo' = [t \in Servers |-> solo'[t]] BY <1>6, Zenon
  <1>8. ASSUME solo'[s] PROVE Undisturbed(s)'
    <2>1. \A u \in Servers : ~ MidWrite(u) BY <1>6, <1>8, Zenon
    <2>2. \A t \in Servers : MidWrite(t)' => t = s BY <1>2, <2>1 DEF MidWrite
    <2>3. wr'[s].off = 0 /\ Len(file') = Len(wr'[s].body) BY <1>1, <1>3, <1>5
    <2> QED BY <2>2, <2>3 DEF Undisturbed
  <1>9. ASSUME NEW t \in Servers, t # s, MidWrite(t)', solo'[t] PROVE FALSE
    <2>1. MidWrite(t) BY <1>2, <1>9 DEF MidWrite
    <2>2. ~ MidWrite(t) BY <1>6, <1>9, Zenon
    <2> QED BY <2>1, <2>2
  <1>10. ASSUME NEW t \in Servers, Writing(t)' PROVE WriteHeld(t)'
    <2>1. CASE t = s BY <1>1, <1>3, <2>1 DEF WriteHeld
    <2>2. CASE t # s
      <3>1. Writing(t) BY <1>2, <1>10, <2>2 DEF Writing
      <3>2. WriteHeld(t) BY <3>1 DEF FileInv
      <3> QED BY <1>1, <1>2, <2>2, <3>2 DEF WriteHeld
    <2> QED BY <2>1, <2>2
  <1>11. \A t \in Servers : AllHeld(defs, mem[t])' BY <1>1 DEF FileInv
  <1>12. StoredInv' BY <1>1 DEF StoredInv
  <1>13. \A t \in Servers : MidWrite(t)' /\ solo'[t] => Undisturbed(t)' BY <1>8, <1>9
  <1> QED BY <1>5, <1>7, <1>10, <1>11, <1>12, <1>13 DEF FileInv

\* A page is written.  Other writers under way are disturbed already.
LEMMA WriteSomeFile ==
  ASSUME WInv, FileInv, NEW s \in Servers, WriteSome(s) PROVE FileInv'
  <1>0. defs \in DefSets BY DEF WInv, Shape
  <1>1. PICK off, body : off = wr[s].off /\ body = wr[s].body OBVIOUS
  <1>2. WriteHeld(s) /\ MidWrite(s) BY DEF WriteSome, FileInv, Writing, MidWrite
  <1>3. AllHeld(defs, mem[s]) /\ IsText(file) BY DEF FileInv
  <1>4. /\ body = Serialize(defs, mem[s]) /\ IsText(body) /\ Len(body) \in Nat
        /\ off \in Nat /\ off < Len(body)
    BY <1>0, <1>1, <1>2, <1>3, SerializeText DEF WriteHeld
  <1>5. PICK n : n = Min({Page - (off % Page), Len(body) - off}) OBVIOUS
  <1>6. n \in Nat /\ off + n <= Len(body)
    <2>1. PICK a, b : a = Page - (off % Page) /\ b = Len(body) - off OBVIOUS
    <2>2. Page \in Nat /\ Page > 0 BY BoundsAssumption
    <2>3. a \in Nat
      <3>1. off % Page \in 0 .. Page - 1 BY <1>4, <2>2
      <3> QED BY <2>1, <2>2, <3>1
    <2>4. b \in Nat BY <1>4, <2>1
    <2>5. n = Min({a, b}) BY <1>5, <2>1
    <2>6. Min({a, b}) \in {a, b} /\ Min({a, b}) <= b BY <2>3, <2>4, MinTwo
    <2>7. n \in Nat /\ n <= b BY <2>3, <2>4, <2>5, <2>6
    <2> QED BY <1>4, <2>1, <2>7
  <1>7. /\ defs' = defs /\ mem' = mem /\ file' = Overwrite(file, body, off, n)
        /\ pc[s] = "write" /\ solo' = [solo EXCEPT ![s] = @ /\ pc'[s] = "write"]
    BY <1>1, <1>5 DEF WriteSome
  <1>8. \/ /\ off + n < Len(body) /\ wr' = [wr EXCEPT ![s].off = @ + n]
           /\ pc' = pc /\ stored' = stored
        \/ /\ ~ (off + n < Len(body)) /\ wr' = [wr EXCEPT ![s] = NoWrite]
           /\ pc' = [pc EXCEPT ![s] = "respond"]
           /\ stored' = IF solo[s] THEN <<mem[s]>> ELSE <<>>
    BY <1>1, <1>5 DEF WriteSome, Decide
  <1>9. IsText(file)' BY <1>3, <1>4, <1>6, <1>7, OverwriteIs
  <1>10. solo' = [t \in Servers |-> solo'[t]] BY <1>7 DEF FileInv
  <1>11. \A t \in Servers : t # s => pc'[t] = pc[t] /\ wr'[t] = wr[t]
    BY <1>8 DEF WInv, Shape
  <1>12. \A t \in Servers : solo'[t] => solo[t]
    <2>1. \A t \in Servers : t # s => solo'[t] = solo[t] BY <1>7 DEF FileInv
    <2>2. solo'[s] = (solo[s] /\ pc'[s] = "write") BY <1>7, Zenon DEF FileInv
    <2> QED BY <2>1, <2>2, Zenon
  <1>13. \A t \in Servers : AllHeld(defs, mem[t])' BY <1>7 DEF FileInv
  \* Alone, the write is the whole file up to where it has come.
  <1>14. ASSUME solo[s]
         PROVE  /\ \A t \in Servers : MidWrite(t) => t = s
                /\ Len(file') = Len(body)
                /\ \A i \in 1 .. off + n : file'[i] = body[i]
    <2>1. Undisturbed(s) BY <1>2, <1>14 DEF FileInv
    <2>2. Len(file) = Len(body) /\ \A i \in 1 .. off : file[i] = body[i] BY <1>1, <2>1 DEF Undisturbed
    <2>3. off + n <= Len(file) BY <1>6, <2>2
    <2>4. /\ Len(file') = Len(file)
          /\ \A i \in 1 .. Len(file) : file'[i] = IF i \in off + 1 .. off + n THEN body[i] ELSE file[i]
      <3>1. PICK f, g : f = file /\ g = Overwrite(f, body, off, n) OBVIOUS
      <3>2. IsText(f) /\ off + n <= Len(f) BY <1>3, <2>3, <3>1
      <3>3. /\ Len(g) = Len(f)
            /\ \A i \in 1 .. Len(f) : g[i] = IF i \in off + 1 .. off + n THEN body[i] ELSE f[i]
        BY <1>4, <1>6, <3>1, <3>2, OverwriteIs
      <3>4. file' = g /\ file = f BY <1>7, <3>1
      <3> QED BY <3>3, <3>4, Zenon
    <2>5. ASSUME NEW i \in 1 .. off + n PROVE file'[i] = body[i]
      <3>1. i \in 1 .. Len(file) BY <1>4, <1>6, <2>2
      <3>2. i \in off + 1 .. off + n \/ i \in 1 .. off BY <1>4, <1>6
      <3> QED BY <2>2, <2>4, <3>1, <3>2
    <2> QED BY <2>1, <2>2, <2>4, <2>5 DEF Undisturbed
  <1>15. ASSUME NEW t \in Servers, t # s, MidWrite(t)', solo'[t] PROVE FALSE
    <2>1. MidWrite(t) /\ solo[t] BY <1>11, <1>12, <1>15 DEF MidWrite
    <2>2. Undisturbed(t) BY <2>1 DEF FileInv
    <2> QED BY <1>2, <1>15, <2>2 DEF Undisturbed
  <1>16. ASSUME NEW t \in Servers, t # s, Writing(t)' PROVE WriteHeld(t)'
    <2>1. Writing(t) /\ pc'[t] = pc[t] /\ wr'[t] = wr[t] BY <1>11, <1>16 DEF Writing
    <2>2. WriteHeld(t) BY <2>1 DEF FileInv
    <2> QED BY <1>7, <2>1, <2>2 DEF WriteHeld
  <1>17. CASE off + n < Len(body)
    <2>1. wr' = [wr EXCEPT ![s].off = @ + n] /\ pc' = pc /\ stored' = stored BY <1>8, <1>17
    <2>2. wr'[s].name = wr[s].name /\ wr'[s].old = wr[s].old /\ wr'[s].body = body /\ wr'[s].off = off + n
      BY <1>1, <2>1 DEF WInv, Shape
    <2>3. WriteHeld(s)' BY <1>1, <1>2, <1>4, <1>6, <1>7, <1>17, <2>1, <2>2 DEF WriteHeld
    <2>4. ASSUME solo'[s] PROVE Undisturbed(s)'
      <3>1. solo[s] BY <1>12, <2>4
      <3>2. \A t \in Servers : MidWrite(t)' => t = s BY <1>14, <2>1, <3>1 DEF MidWrite
      <3> QED BY <1>14, <2>2, <3>1, <3>2 DEF Undisturbed
    <2>5. stored' = <<>> BY <1>2, <2>1 DEF FileInv, StoredInv
    <2>6. StoredInv' BY <2>5 DEF StoredInv
    <2>7. \A t \in Servers : MidWrite(t)' /\ solo'[t] => Undisturbed(t)' BY <1>15, <2>4
    <2>8. \A t \in Servers : Writing(t)' => WriteHeld(t)' BY <1>16, <2>3
    <2> QED BY <1>9, <1>10, <1>13, <2>6, <2>7, <2>8 DEF FileInv
  <1>18. CASE ~ (off + n < Len(body))
    <2>1. /\ wr' = [wr EXCEPT ![s] = NoWrite] /\ pc' = [pc EXCEPT ![s] = "respond"]
          /\ stored' = IF solo[s] THEN <<mem[s]>> ELSE <<>>
      BY <1>8, <1>18
    <2>2. pc'[s] = "respond" BY <2>1 DEF WInv, Shape
    <2>3. off + n = Len(body) BY <1>4, <1>6, <1>18
    <2>4. StoredInv'
      <3>1. CASE ~ solo[s] BY <2>1, <3>1 DEF StoredInv
      <3>2. CASE solo[s]
        <4>1. stored' = <<mem[s]>> /\ stored'[1] = mem[s] BY <2>1, <3>2
        <4>2. file' = body
          <5>1. PICK f : f = file' OBVIOUS
          <5>2. f \in Seq(ToSet(f)) /\ body \in Seq(ToSet(body)) BY <1>4, <1>9, <5>1 DEF IsText
          <5>3. Len(f) = Len(body) /\ \A i \in 1 .. Len(f) : f[i] = body[i] BY <1>14, <2>3, <3>2, <5>1
          <5>4. f = body BY <5>2, <5>3, SameSeq
          <5> QED BY <5>1, <5>4
        <4>3. \A t \in Servers : ~ MidWrite(t)' BY <1>11, <1>14, <2>2, <3>2 DEF MidWrite
        <4> QED BY <1>3, <1>4, <1>7, <4>1, <4>2, <4>3 DEF StoredInv
      <3> QED BY <3>1, <3>2
    <2>5. \A t \in Servers : MidWrite(t)' /\ solo'[t] => Undisturbed(t)' BY <1>15, <2>2 DEF MidWrite
    <2>6. \A t \in Servers : Writing(t)' => WriteHeld(t)' BY <1>16, <2>2 DEF Writing
    <2> QED BY <1>9, <1>10, <1>13, <2>4, <2>5, <2>6 DEF FileInv
  <1> QED BY <1>17, <1>18

LEMMA InitFile == ASSUME Init PROVE FileInv
  <1>1. defs \in DefSets BY DEF Init
  <1>2. file = <<>> /\ stored = <<>> /\ mem = [s \in Servers |-> Defaults(defs)]
        /\ pc = [s \in Servers |-> "down"] /\ solo = [s \in Servers |-> FALSE]
    BY DEF Init
  <1>3. AllHeld(defs, Defaults(defs)) BY <1>1, DefaultHeld DEF AllHeld, Defaults
  <1>4. IsText(file)
    <2>1. <<>> \in Seq({}) OBVIOUS
    <2> QED BY <1>2, <2>1, SeqText
  <1>5. \A s \in Servers : ~ Writing(s) /\ ~ MidWrite(s) /\ AllHeld(defs, mem[s])
    BY <1>2, <1>3 DEF Writing, MidWrite
  <1>6. solo = [s \in Servers |-> solo[s]] BY <1>2
  <1> QED BY <1>2, <1>4, <1>5, <1>6 DEF FileInv, StoredInv

LEMMA FileInductive == Spec => []FileInv
  <1>1. ASSUME WInv, FileInv, [Next]_vars PROVE FileInv'
    <2>1. ASSUME NEW s \in Servers, ServerStep(s) \/ Kill(s) \/ Start(s) PROVE FileInv'
      <3>1. CASE Accept(s) \/ ReadEof(s) \/ HandleRead(s) \/ Respond(s) BY <1>1, <3>1, PassiveFile
      <3>2. CASE HandleSet(s) BY <1>1, <3>2, HandleSetFile
      <3>3. CASE TruncateFile(s) BY <1>1, <3>3, TruncateFileInv
      <3>4. CASE WriteSome(s) BY <1>1, <3>4, WriteSomeFile
      <3>5. CASE PersistFails(s) BY <1>1, <3>5, PersistFailsFile
      <3>6. CASE BrokenPipe(s) \/ Kill(s) BY <1>1, <3>6, ResetFile DEF BrokenPipe, Kill
      <3>7. CASE Start(s) BY <1>1, <3>7, ResetFile
      <3> QED BY <2>1, <3>1, <3>2, <3>3, <3>4, <3>5, <3>6, <3>7 DEF ServerStep
    <2>2. CASE (\E c \in Clients : Send(c) \/ HangUp(c)) \/ (\E c \in Clients, s \in Servers : Connect(c, s))
      BY <1>1, <2>2, PassiveFile
    <2>3. CASE UNCHANGED vars
      <3>1. defs' = defs /\ UNCHANGED storeVars /\ pc' = pc BY <2>3 DEF vars, serverVars
      <3> QED BY <1>1, <3>1, StoreKept
    <2> QED BY <1>1, <2>1, <2>2, <2>3 DEF Next
  <1> QED BY <1>1, InitFile, WInductive, PTL DEF Spec

\* After a write that nothing interrupted or overlapped, a restart reads what the
\* server held, without white space at the end of a value, or the defaults when a
\* value does not survive that; for every set of definitions, every value and
\* every file length (write_props_file against parse_props_file and parse_line).
THEOREM ReadsBack == Spec => []ReadBack
  <1>1. ASSUME WInv, FileInv PROVE ReadBack
    <2> SUFFICES ASSUME stored # <<>> PROVE ReadBack BY DEF ReadBack
    <2>1. PICK d, m : d = defs /\ m = stored[1] OBVIOUS
    <2>2. d \in DefSets /\ AllHeld(d, m) /\ file = Serialize(d, m)
      BY <1>1, <2>1 DEF WInv, Shape, FileInv, StoredInv
    <2>3. Loaded(d, Serialize(d, m)) =
            IF \A n \in Names(d) : Reads(d, n, m[n])
            THEN [n \in Names(d) |-> TrimEnd(m[n])]
            ELSE Defaults(d)
      BY <2>2, LoadedSerialize
    <2> QED BY <2>1, <2>2, <2>3, Zenon DEF ReadBack, Survives, Reads
  <1> QED BY <1>1, WInductive, FileInductive, PTL
=============================================================================
