------------------------------ MODULE WebServer ------------------------------
(***************************************************************************)
(* The property web server of OTA/web/mod.rs with its PropStore, the file  *)
(* the store is kept in, and the clients.                                  *)
(*                                                                         *)
(* A server is one process: it accepts a connection, reads a request,      *)
(* handles it, answers and closes, one client at a time.  A PUT rewrites   *)
(* the whole property file in place, in the steps create, truncate, write. *)
(* Servers are started by "web [port]"; two of them on two ports share the *)
(* file and nothing else.  A server may be killed at any step and started  *)
(* again; /tmp, where the file is, lives as long as the machine is up.     *)
(***************************************************************************)
EXTENDS PropStore

CONSTANTS
  Servers,   \* server processes, each on a port of its own
  Clients,   \* client connections, each for one request
  Unknown,   \* a name no definition has
  Inputs,    \* values clients send
  Backlog,   \* length of the accept queue (16 in the code)
  Page       \* cells of a page of the file system

ASSUME BoundsAssumption ==
  {Backlog, Page} \subseteq Nat \ {0}

None == "none"

ASSUME NamesAssumption ==
  /\ None \notin Servers \cup Clients
  /\ \A d \in DefSets : None \notin Names(d)

\* A client's value is a text; the cells of names and types are no cells of values.
ASSUME InputsAssumption ==
  \A v \in Inputs :
    IsText(v) /\ \A d \in DefSets : ToSet(v) \cap (Names(d) \cup DOMAIN Types) = {}

VARIABLES
  defs,      \* the definitions all servers read
  file,      \* text of PROP_VALUES_PATH; <<>> also when it does not exist
  pc,        \* [Servers]: "down", "accept", "read", "truncate", "write", "respond"
  mem,       \* [Servers]: PropStore.props, name -> value
  cur,       \* [Servers]: the client being served, or None
  backlog,   \* [Servers]: connections not yet accepted
  wr,        \* [Servers]: the write under way: name, old value, body, offset
  st,        \* [Clients]: "idle", "open", "gone" (closed by the client), "served", "reset"
  to,        \* [Clients]: the server it is connected to
  req,       \* [Clients]: its request
  whole,     \* [Clients]: the request has been sent in full
  ans,       \* [Clients]: the answer the server decided on
  stored,    \* history: the properties the last undisturbed write saved (<<>>: none)
  solo       \* history, [Servers]: no other write has met the one under way

storeVars == <<file, mem, wr, stored, solo>>
serverVars == <<pc, cur, backlog>>
clientVars == <<st, to, req, whole, ans>>
vars == <<defs, storeVars, serverVars, clientVars>>

NoWrite == [name |-> None, old |-> <<>>, body |-> <<>>, off |-> 0]
Answer(code, kind, val) == [code |-> code, kind |-> kind, val |-> val]
NoAnswer == Answer(0, None, <<>>)

\* "malformed" is not HTTP, fills the buffer of 8192 bytes, or is a PUT whose
\* body is not UTF-8; "other" asks for anything else.  A PUT to an unknown name is
\* refused before its value is looked at.
Request ==
  [kind : {"root", "props", "other", "malformed"}, name : {None}, value : {<<>>}]
  \cup [kind : {"get"}, name : Names(defs) \cup {Unknown}, value : {<<>>}]
  \cup [kind : {"put"}, name : Names(defs), value : Inputs]
  \cup [kind : {"put"}, name : {Unknown}, value : {<<>>}]
NoRequest == [kind |-> None, name |-> None, value |-> <<>>]

Waiting(s) == { c \in Clients : c = cur[s] \/ Contains(backlog[s], c) }
MidWrite(s) == pc[s] = "write"

Init ==
  /\ defs \in DefSets
  /\ file = <<>>
  /\ pc = [s \in Servers |-> "down"]
  /\ mem = [s \in Servers |-> Defaults(defs)]
  /\ cur = [s \in Servers |-> None]
  /\ backlog = [s \in Servers |-> <<>>]
  /\ wr = [s \in Servers |-> NoWrite]
  /\ st = [c \in Clients |-> "idle"]
  /\ to = [c \in Clients |-> None]
  /\ req = [c \in Clients |-> NoRequest]
  /\ whole = [c \in Clients |-> FALSE]
  /\ ans = [c \in Clients |-> NoAnswer]
  /\ stored = <<>>
  /\ solo = [s \in Servers |-> FALSE]

-----------------------------------------------------------------------------
(* Clients.  They may be slow, stop in the middle of a request, or leave. *)

Connect(c, s) ==
  /\ st[c] = "idle" /\ pc[s] # "down" /\ Len(backlog[s]) < Backlog
  /\ st' = [st EXCEPT ![c] = "open"]
  /\ to' = [to EXCEPT ![c] = s]
  /\ backlog' = [backlog EXCEPT ![s] = Append(@, c)]
  /\ UNCHANGED <<defs, storeVars, pc, cur, req, whole, ans>>

Send(c) ==
  /\ st[c] = "open" /\ ~whole[c]
  /\ whole' = [whole EXCEPT ![c] = TRUE]
  /\ UNCHANGED <<defs, storeVars, serverVars, st, to, req, ans>>

HangUp(c) ==
  /\ st[c] = "open"
  /\ st' = [st EXCEPT ![c] = "gone"]
  /\ UNCHANGED <<defs, storeVars, serverVars, to, req, whole, ans>>

-----------------------------------------------------------------------------
(* One connection, from accept to close. *)

Accept(s) ==
  /\ pc[s] = "accept" /\ backlog[s] # <<>>
  /\ cur' = [cur EXCEPT ![s] = Head(backlog[s])]
  /\ backlog' = [backlog EXCEPT ![s] = Tail(@)]
  /\ pc' = [pc EXCEPT ![s] = "read"]
  /\ UNCHANGED <<defs, storeVars, clientVars>>

\* The connections of the clients in C are closed by the server.
Disconnect(C) ==
  /\ to' = [c \in Clients |-> IF c \in C THEN None ELSE to[c]]
  /\ req' = [c \in Clients |-> IF c \in C THEN NoRequest ELSE req[c]]
  /\ ans' = [c \in Clients |-> IF c \in C THEN NoAnswer ELSE ans[c]]
  /\ whole' = [c \in Clients |-> whole[c] /\ c \notin C]

Decide(s, a) ==
  /\ ans' = [ans EXCEPT ![cur[s]] = a]
  /\ pc' = [pc EXCEPT ![s] = "respond"]

\* Mutant: the end of the connection is taken for "nothing yet" and read again.
ReadEof_Retry(s) ==
  /\ pc[s] = "read" /\ st[cur[s]] = "gone" /\ ~whole[cur[s]]
  /\ UNCHANGED vars

\* read_request meets the end of the connection before the end of the request.
ReadEof(s) ==
  /\ pc[s] = "read" /\ st[cur[s]] = "gone" /\ ~whole[cur[s]]
  /\ Decide(s, Answer(400, "error", <<>>))
  /\ UNCHANGED <<defs, storeVars, cur, backlog, st, to, req, whole>>

\* props_to_json: every property with its value, in the order of the definitions.
AllProps(s) == [i \in DOMAIN defs |-> <<defs[i].name, mem[s][defs[i].name]>>]

\* The answers of handle_client that need no write; the last line is also set's
\* answer to an unknown name or a value the type does not accept.
Reply(s, r) ==
  CASE r.kind = "root"                        -> Answer(200, "page", <<>>)
    [] r.kind = "props"                       -> Answer(200, "props", AllProps(s))
    [] r.kind = "get" /\ r.name \in Names(defs) -> Answer(200, "value", mem[s][r.name])
    [] r.kind = "other" \/ (r.kind = "get" /\ r.name \notin Names(defs))
                                              -> Answer(404, "error", <<>>)
    [] OTHER                                  -> Answer(400, "error", <<>>)

\* trim_end_matches on the body of a PUT.
LineEnds == {"cr", NL}
StripEol(v) == SubSeq(v, 1, SelectLastInSeq(v, LAMBDA c : c \notin LineEnds))

Settable(r) ==
  /\ r.kind = "put" /\ r.name \in Names(defs)
  /\ Valid(TypeOf(defs, r.name), StripEol(r.value))

\* read_request returns the request r.  What it is matters only from here on,
\* so it is chosen here.
Receive(s, r) ==
  /\ pc[s] = "read" /\ whole[cur[s]]
  /\ req' = [req EXCEPT ![cur[s]] = r]

HandleRead(s) ==
  \E r \in Request :
    /\ Receive(s, r) /\ ~Settable(r)
    /\ Decide(s, Reply(s, r))
    /\ UNCHANGED <<defs, storeVars, cur, backlog, st, to, whole>>

\* PropStore::set up to the truncate of write_props_file: the value is replaced
\* in memory first; create opens the file and leaves its contents alone.
HandleSet(s) ==
  \E r \in Request :
    /\ Receive(s, r) /\ Settable(r)
    /\ LET new == [mem[s] EXCEPT ![r.name] = Normal(TypeOf(defs, r.name), StripEol(r.value))]
       IN /\ mem' = [mem EXCEPT ![s] = new]
          /\ wr' = [wr EXCEPT ![s] = [name |-> r.name, old |-> mem[s][r.name],
                                      body |-> Serialize(defs, new), off |-> 0]]
    /\ pc' = [pc EXCEPT ![s] = "truncate"]
    /\ UNCHANGED <<defs, file, stored, solo, cur, backlog, st, to, whole, ans>>

\* Mutant: the file keeps its old length.
TruncateFile_Missing(s) ==
  /\ pc[s] = "truncate"
  /\ pc' = [pc EXCEPT ![s] = "write"]
  /\ stored' = <<>>
  /\ solo' = [t \in Servers |-> IF t = s THEN \A u \in Servers : ~MidWrite(u)
                                         ELSE solo[t] /\ ~MidWrite(t)]
  /\ UNCHANGED <<defs, file, mem, wr, cur, backlog, clientVars>>

TruncateFile(s) ==
  /\ pc[s] = "truncate"
  /\ file' = Resize(file, Len(wr[s].body))
  /\ pc' = [pc EXCEPT ![s] = "write"]
  /\ stored' = <<>>
  /\ solo' = [t \in Servers |-> IF t = s THEN \A u \in Servers : ~MidWrite(u)
                                         ELSE solo[t] /\ ~MidWrite(t)]
  /\ UNCHANGED <<defs, mem, wr, cur, backlog, clientVars>>

\* One page of the write loop: a write that is cut, by a signal or a full file
\* system, ends between pages, and the loop goes on with the rest.
WriteSome(s) ==
  LET n == Min({Page - (wr[s].off % Page), Len(wr[s].body) - wr[s].off})
  IN /\ pc[s] = "write"
     /\ file' = Overwrite(file, wr[s].body, wr[s].off, n)
     /\ IF wr[s].off + n < Len(wr[s].body)
        THEN /\ wr' = [wr EXCEPT ![s].off = @ + n]
             /\ UNCHANGED <<pc, ans, stored>>
        ELSE /\ wr' = [wr EXCEPT ![s] = NoWrite]
             /\ Decide(s, Answer(200, "value", mem[s][wr[s].name]))
             /\ stored' = IF solo[s] THEN <<mem[s]>> ELSE <<>>
     /\ solo' = [solo EXCEPT ![s] = @ /\ pc'[s] = "write"]
     /\ UNCHANGED <<defs, mem, cur, backlog, st, to, req, whole>>

\* Mutant: the value stays in memory although it could not be saved.
PersistFails_Keep(s) ==
  /\ pc[s] \in {"truncate", "write"}
  /\ wr' = [wr EXCEPT ![s] = NoWrite]
  /\ Decide(s, Answer(400, "error", <<>>))
  /\ solo' = [solo EXCEPT ![s] = FALSE]
  /\ UNCHANGED <<defs, file, mem, stored, cur, backlog, st, to, req, whole>>

\* create, truncate or write fails: the value in memory is rolled back, the
\* file stays as it is.
PersistFails(s) ==
  /\ pc[s] \in {"truncate", "write"}
  /\ mem' = [mem EXCEPT ![s][wr[s].name] = wr[s].old]
  /\ wr' = [wr EXCEPT ![s] = NoWrite]
  /\ Decide(s, Answer(400, "error", <<>>))
  /\ solo' = [solo EXCEPT ![s] = FALSE]
  /\ UNCHANGED <<defs, file, stored, cur, backlog, st, to, req, whole>>

\* write_response and close.  An answer to a client that has left may still be
\* accepted by the socket.
Respond(s) ==
  /\ pc[s] = "respond"
  /\ st' = [st EXCEPT ![cur[s]] = IF @ = "open" THEN "served" ELSE @]
  /\ cur' = [cur EXCEPT ![s] = None]
  /\ pc' = [pc EXCEPT ![s] = "accept"]
  /\ Disconnect({cur[s]})
  /\ UNCHANGED <<defs, storeVars, backlog>>

-----------------------------------------------------------------------------
(* The end of a process, and a new one. *)

Die(s) ==
  /\ pc' = [pc EXCEPT ![s] = "down"]
  /\ st' = [c \in Clients |-> IF c \in Waiting(s) /\ st[c] = "open" THEN "reset" ELSE st[c]]
  /\ cur' = [cur EXCEPT ![s] = None]
  /\ backlog' = [backlog EXCEPT ![s] = <<>>]
  /\ wr' = [wr EXCEPT ![s] = NoWrite]
  /\ mem' = [mem EXCEPT ![s] = Defaults(defs)]
  /\ solo' = [solo EXCEPT ![s] = FALSE]
  /\ Disconnect(Waiting(s))
  /\ UNCHANGED <<defs, file, stored>>

\* The second write of write_response to a client that has left raises SIGPIPE,
\* which this binary neither ignores nor handles: it has no std runtime.
BrokenPipe(s) == pc[s] = "respond" /\ st[cur[s]] = "gone" /\ Die(s)

Kill(s) == pc[s] # "down" /\ Die(s)

\* WebServer::new and run_forked: bind, listen, load, fork.
Start(s) ==
  /\ pc[s] = "down"
  /\ mem' = [mem EXCEPT ![s] = Loaded(defs, file)]
  /\ pc' = [pc EXCEPT ![s] = "accept"]
  /\ UNCHANGED <<defs, file, wr, stored, solo, cur, backlog, clientVars>>

ServerStep(s) ==
  \/ Accept(s) \/ ReadEof(s) \/ HandleRead(s) \/ HandleSet(s)
  \/ TruncateFile(s) \/ WriteSome(s) \/ PersistFails(s)
  \/ Respond(s) \/ BrokenPipe(s)

Next ==
  \/ \E s \in Servers : ServerStep(s) \/ Kill(s) \/ Start(s)
  \/ \E c \in Clients : Send(c) \/ HangUp(c)
  \/ \E c \in Clients, s \in Servers : Connect(c, s)

\* A server that can go on does.  Clients owe nothing, and nobody is promised
\* that a process is killed or started.
Fairness == \A s \in Servers : WF_vars(ServerStep(s))

Spec == Init /\ [][Next]_vars /\ Fairness

-----------------------------------------------------------------------------
TypeOK ==
  /\ defs \in DefSets
  /\ pc \in [Servers -> {"down", "accept", "read", "truncate", "write", "respond"}]
  /\ cur \in [Servers -> Clients \cup {None}]
  /\ \A s \in Servers : cur[s] = None <=> pc[s] \in {"down", "accept"}
  /\ \A s \in Servers : Len(backlog[s]) <= Backlog
  /\ st \in [Clients -> {"idle", "open", "gone", "served", "reset"}]
  /\ \A s \in Servers : \A n \in Names(defs) : Valid(TypeOf(defs, n), mem[s][n])

\* Seen from outside, a set happens when the file has been written: until then
\* the value in memory is provisional and is rolled back when the write fails.
Register(s) ==
  IF wr[s].name = None THEN mem[s] ELSE [mem[s] EXCEPT ![wr[s].name] = wr[s].old]

Registers == INSTANCE PropRegister WITH
  up <- [s \in Servers |-> pc[s] # "down"],
  reg <- [s \in Servers |-> Register(s)]

\* Every server implements a register per property: clients are told what the
\* registers hold, a refused or failed PUT changes nothing that a later GET can
\* see, and whatever an interrupted or overlapping write left in the file, a
\* restarted server holds an acceptable value of every property
\* (WebServer::handle_client, PropStore::set and PropStore::load).
RegisterSpec == Registers!Spec

\* A value load can read back from the line set wrote for it.
Survives(n, v) == TrimEnd(v) # <<>> /\ Valid(TypeOf(defs, n), TrimEnd(v))

\* After a write that nothing interrupted or overlapped, a restart reads what the
\* server held, without white space at the end of a value; but one string that is
\* empty, blank, or too short without that white space makes the whole file
\* unreadable, and a restart then starts from the defaults
\* (write_props_file against parse_props_file and parse_line).
ReadBack ==
  stored # <<>> =>
    Loaded(defs, file) =
      IF \A n \in Names(defs) : Survives(n, stored[1][n])
      THEN [n \in Names(defs) |-> TrimEnd(stored[1][n])]
      ELSE Defaults(defs)

Stalled(s) == pc[s] = "read" /\ st[cur[s]] = "open" /\ ~whole[cur[s]]

\* A client that has sent its request is answered, unless it leaves, the server
\* dies, or a client before it keeps its connection open and sends nothing: the
\* server reads without a timeout and serves one client at a time (WebServer::run,
\* read_request).
Answered ==
  \A c \in Clients :
    (st[c] = "open" /\ whole[c]) ~> (st[c] # "open" \/ Stalled(to[c]))
=============================================================================
