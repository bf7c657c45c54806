----------------------------- MODULE PropRegister -----------------------------
(***************************************************************************)
(* What a property server promises its clients: every property is a        *)
(* register.  An answer 200 to a GET is what the registers hold at one     *)
(* moment while the client waits; an answer 200 to a PUT means that the    *)
(* register was set at one moment while the client waits; any other answer *)
(* means that nothing was changed.  A server that is started again holds   *)
(* some acceptable value in every register; which one is not promised.     *)
(***************************************************************************)
EXTENDS Integers, Sequences

CONSTANTS
  Servers, Clients, None, NoAnswer,
  DefSets,                      \* sets of property definitions
  Names(_), Defaults(_),        \* the names of a set, and their first values
  TypeOf(_, _),                 \* the type a set gives to a name
  Valid(_, _), Normal(_, _),    \* does a type accept a value, and the form it keeps
  LineEnds                      \* the cells that end a line

VARIABLES defs, up, reg, to, req, ans

vars == <<defs, up, reg, to, req, ans>>

Init ==
  /\ defs \in DefSets
  /\ up = [s \in Servers |-> FALSE]
  /\ reg = [s \in Servers |-> Defaults(defs)]
  /\ to = [c \in Clients |-> None]
  /\ ans = [c \in Clients |-> NoAnswer]

Waits(c, s) == up[s] /\ to[c] = s /\ ans[c] = NoAnswer
\* The request is known at the latest when it is answered.
Chooses(c) == req' = [req EXCEPT ![c] = req'[c]]
Gives(c, a) == ans' = [ans EXCEPT ![c] = a] /\ Chooses(c) /\ UNCHANGED <<defs, up, to>>
Ok(kind, val) == [code |-> 200, kind |-> kind, val |-> val]

Submit(c, s) ==
  /\ up[s] /\ to[c] = None
  /\ to' = [to EXCEPT ![c] = s]
  /\ UNCHANGED <<defs, up, reg, req, ans>>

Send(c) ==
  /\ to[c] # None
  /\ Chooses(c)
  /\ UNCHANGED <<defs, up, reg, to, ans>>

GetOne(c, s) ==
  /\ Waits(c, s) /\ req'[c].kind = "get" /\ req'[c].name \in Names(defs)
  /\ Gives(c, Ok("value", reg[s][req'[c].name]))
  /\ UNCHANGED reg

GetAll(c, s) ==
  /\ Waits(c, s) /\ req'[c].kind = "props"
  /\ Gives(c, Ok("props", [i \in DOMAIN defs |-> <<defs[i].name, reg[s][defs[i].name]>>]))
  /\ UNCHANGED reg

GetPage(c, s) ==
  /\ Waits(c, s) /\ req'[c].kind = "root"
  /\ Gives(c, Ok("page", <<>>))
  /\ UNCHANGED reg

\* Line ends after the value do not belong to it.
Put(c, s) ==
  /\ Waits(c, s) /\ req'[c].kind = "put" /\ req'[c].name \in Names(defs)
  /\ \E k \in 0 .. Len(req'[c].value) : LET v == SubSeq(req'[c].value, 1, k) IN
       /\ \A i \in k + 1 .. Len(req'[c].value) : req'[c].value[i] \in LineEnds
       /\ k > 0 => req'[c].value[k] \notin LineEnds
       /\ Valid(TypeOf(defs, req'[c].name), v)
       /\ reg' = [reg EXCEPT ![s][req'[c].name] = Normal(TypeOf(defs, req'[c].name), v)]
       /\ Gives(c, Ok("value", Normal(TypeOf(defs, req'[c].name), v)))

Refuse(c, s) ==
  /\ Waits(c, s)
  /\ ans'[c].code \in {400, 404}
  /\ Gives(c, ans'[c])
  /\ UNCHANGED reg

Finish(c) ==
  /\ to[c] # None
  /\ to' = [to EXCEPT ![c] = None]
  /\ Chooses(c)
  /\ ans' = [ans EXCEPT ![c] = NoAnswer]
  /\ UNCHANGED <<defs, up, reg>>

\* The connections end with the server.
Crash(s) ==
  /\ up' = [up EXCEPT ![s] = FALSE]
  /\ reg' = [reg EXCEPT ![s] = Defaults(defs)]
  /\ to' = [c \in Clients |-> IF to[c] = s THEN None ELSE to[c]]
  /\ req' = [c \in Clients |-> IF to[c] = s THEN req'[c] ELSE req[c]]
  /\ ans' = [c \in Clients |-> IF to[c] = s THEN NoAnswer ELSE ans[c]]
  /\ UNCHANGED defs

Restart(s) ==
  /\ up' = [up EXCEPT ![s] = TRUE]
  /\ DOMAIN reg'[s] = Names(defs)
  /\ \A n \in Names(defs) : /\ Valid(TypeOf(defs, n), reg'[s][n])
                            /\ Normal(TypeOf(defs, n), reg'[s][n]) = reg'[s][n]
  /\ reg' = [reg EXCEPT ![s] = reg'[s]]
  /\ UNCHANGED <<defs, to, req, ans>>

Next ==
  \/ \E c \in Clients, s \in Servers :
       \/ Submit(c, s) \/ GetOne(c, s) \/ GetAll(c, s) \/ GetPage(c, s)
       \/ Put(c, s) \/ Refuse(c, s)
  \/ \E c \in Clients : Send(c) \/ Finish(c)
  \/ \E s \in Servers : Crash(s) \/ Restart(s)

Spec == Init /\ [][Next]_vars
=============================================================================
