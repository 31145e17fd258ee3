------------------------------ MODULE SQLStore ------------------------------
(***************************************************************************)
(* The durable store (store/sqlite.go): the tables are in a file, every    *)
(* writing call is a transaction that loads rows and saves them one by     *)
(* one, and SetMaxOpenConns(1) leaves one connection for all of them, so a *)
(* call waits until it has it.  A call can fail at any point before its    *)
(* commit (its context ends, a statement is refused), and the hub's        *)
(* process can end at any point.                                           *)
(*                                                                         *)
(* Abstracted: SQL itself; a statement is the scan or the row it writes.   *)
(* hosts has the order of its ids, which is the order of insertion.        *)
(***************************************************************************)
EXTENDS StoreCalls

CONSTANT MaxCalls   \* bound: calls in one behaviour

ASSUME MaxCallsAssumption == MaxCalls \in Nat
ASSUME WorkerAssumption == None \notin Worker

VARIABLES
  disk,    \* the committed tables
  tx,      \* the tables as the open transaction sees them
  conn,    \* the worker that has the connection, or None
  call,    \* call[w]: stage, req, todo (rows still to be saved), answer
  calls    \* how many calls were made

vars == <<disk, tx, conn, call, calls>>

NoCall == [stage |-> "idle"]

Init ==
  /\ disk \in Files /\ tx = disk
  /\ conn = None
  /\ call = [w \in Worker |-> NoCall]
  /\ calls = 0

Holds(w) == call[w].stage \in {"open", "saving"}

Finish(w, a) == call' = [call EXCEPT ![w] = [stage |-> "answered", answer |-> a]]

-----------------------------------------------------------------------------
(* The rows a transaction saves once it has loaded and looked at them.  A  *)
(* new row goes behind the last one; row 0 of traces deletes the oldest    *)
(* rows above TraceRetain.                                                 *)
Row(table, at, row) == [table |-> table, at |-> at, row |-> row]
Create(db, table, row) == Row(table, Len(db[table]) + 1, row)

HostWrites(db, row) ==
  LET rows == MatchingRows(db.hosts, row)
  IN  IF rows = {} THEN << Create(db, "hosts", row) >>
      ELSE << Row("hosts", Min(rows), MergeHost(db.hosts[Min(rows)], row)) >>

DeviceRows(db, d) == {b \in DOMAIN db.bindings : db.bindings[b].device = d}

(* The orders in which loadBindings may give some of the bindings: oldest  *)
(* first, and those of one age as they come.                               *)
Loaded(db, rows) ==
  { s \in [1..Cardinality(rows) -> rows] :
      /\ \A b \in rows : \E i \in DOMAIN s : s[i] = b
      /\ \A i, j \in DOMAIN s : i < j => db.bindings[s[i]].created <= db.bindings[s[j]].created }

\* Mutant: the time is stored without a look at the one that is there.
SeenWritesAlways(db, d, at) ==
  { [i \in DOMAIN s |-> Row("bindings", s[i], [db.bindings[s[i]] EXCEPT !.seen = at])] :
    s \in Loaded(db, DeviceRows(db, d)) }

SeenWrites(db, d, at) ==
  { [i \in DOMAIN s |-> Row("bindings", s[i], [db.bindings[s[i]] EXCEPT !.seen = at])] :
    s \in Loaded(db, {b \in DeviceRows(db, d) : db.bindings[b].seen < at}) }

LabelWrites(db, d, label) ==
  { [i \in DOMAIN s |-> Row("bindings", s[i], [db.bindings[s[i]] EXCEPT !.label = label])] :
    s \in Loaded(db, DeviceRows(db, d)) }

Writes(db, r) ==
  CASE r.op = "PutHost" -> { HostWrites(db, r.row) }
    [] r.op = "PutPairing" -> { << Create(db, "pairings", r.row) >> }
    [] r.op = "ConsumePairing" ->
         { << Row("pairings", r.code, [db.pairings[r.code] EXCEPT !.consumed = TRUE]) >> }
    [] r.op = "PutBinding" -> { << Create(db, "bindings", r.row) >> }
    [] r.op = "RevokeBinding" ->
         { << Row("bindings", r.id, [db.bindings[r.id] EXCEPT !.revoked = TRUE]) >> }
    [] r.op = "NoteDeviceSeen" -> SeenWrites(db, r.device, r.at)
    [] r.op = "SetDeviceLabels" -> LabelWrites(db, r.device, r.label)
    [] r.op = "AppendTrace" ->
         { << Create(db, "traces", r.event), Row("traces", 0, r.event) >> }

Saved(db, w) ==
  [db EXCEPT ![w.table] = CASE w.at = 0 -> Newest(@)
                            [] w.at > Len(@) -> Append(@, w.row)
                            [] OTHER -> [@ EXCEPT ![w.at] = w.row]]

(* What the loaded rows make the call answer: loadBindings orders by       *)
(* created, so the oldest row of a pair decides (any, of equal ages).      *)
Verdicts(db, r) ==
  IF r.op # "BindingByPeers" THEN Answers(db, r)
  ELSE LET rows == PairRows(db.bindings, r.host, r.device)
       IN  PeersAnswers(db.bindings,
             {b \in rows : \A c \in rows : db.bindings[b].created <= db.bindings[c].created})

-----------------------------------------------------------------------------
Call(w) ==
  /\ call[w] = NoCall /\ calls < MaxCalls
  /\ \E r \in Requests : call' = [call EXCEPT ![w] = [stage |-> "waiting", req |-> r]]
  /\ calls' = calls + 1
  /\ UNCHANGED <<disk, tx, conn>>

(* The pool hands out its only connection; a transaction begins on it. *)
Begin(w) ==
  /\ call[w].stage = "waiting" /\ conn = None
  /\ conn' = w /\ tx' = disk
  /\ call' = [call EXCEPT ![w].stage = "open"]
  /\ UNCHANGED <<disk, calls>>

(* Mutant: the rows are loaded through s.db, on a connection of their own. *)
LoadOnOwnConnection(w) ==
  /\ call[w].stage = "open" /\ conn = None
  /\ \E a \in Verdicts(tx, call[w].req) : Finish(w, a)
  /\ UNCHANGED <<disk, tx, conn, calls>>

(* The rows are read.  A reading call, or one whose rows refuse it, is     *)
(* answered and gives the connection back; the others have rows to save.   *)
Load(w) ==
  /\ call[w].stage = "open"
  /\ \E a \in Verdicts(tx, call[w].req) :
       IF call[w].req.op \in Reads \/ a # Done("ok")
       THEN Finish(w, a) /\ conn' = None
       ELSE /\ \E rows \in Writes(tx, call[w].req) :
                 call' = [call EXCEPT ![w] = [stage |-> "saving", req |-> call[w].req, todo |-> rows]]
            /\ UNCHANGED conn
  /\ UNCHANGED <<disk, tx, calls>>

(* Mutant: each row is saved outside the transaction. *)
SaveAtOnce(w) ==
  /\ call[w].stage = "saving" /\ call[w].todo # <<>>
  /\ tx' = Saved(tx, Head(call[w].todo)) /\ disk' = tx'
  /\ call' = [call EXCEPT ![w].todo = Tail(@)]
  /\ UNCHANGED <<conn, calls>>

Save(w) ==
  /\ call[w].stage = "saving" /\ call[w].todo # <<>>
  /\ tx' = Saved(tx, Head(call[w].todo))
  /\ call' = [call EXCEPT ![w].todo = Tail(@)]
  /\ UNCHANGED <<disk, conn, calls>>

Commit(w) ==
  /\ call[w].stage = "saving" /\ call[w].todo = <<>>
  /\ disk' = tx /\ conn' = None
  /\ Finish(w, Done("ok"))
  /\ UNCHANGED <<tx, calls>>

(* Mutant: a failed transaction keeps the connection. *)
FailAndKeep(w) ==
  /\ call[w].stage = "waiting" \/ Holds(w)
  /\ Finish(w, Done("failed"))
  /\ UNCHANGED <<disk, tx, conn, calls>>

(* The context ends, or a statement fails: whatever was saved is undone.   *)
Fail(w) ==
  /\ call[w].stage = "waiting" \/ Holds(w)
  /\ Finish(w, Done("failed"))
  /\ conn' = IF Holds(w) THEN None ELSE conn
  /\ UNCHANGED <<disk, tx, calls>>

Return(w) ==
  /\ call[w].stage = "answered"
  /\ call' = [call EXCEPT ![w] = NoCall]
  /\ UNCHANGED <<disk, tx, conn, calls>>

(* The process ends and is started again on the same file. *)
Crash ==
  /\ call' = [w \in Worker |-> NoCall]
  /\ conn' = None
  /\ UNCHANGED <<disk, tx, calls>>

Step(w) == Load(w) \/ Save(w) \/ Commit(w) \/ Return(w)

Next == Crash \/ \E w \in Worker : Call(w) \/ Begin(w) \/ Fail(w) \/ Step(w)

(* A call that can go on does; database/sql hands a connection that comes  *)
(* back to one of those that wait, so none of them is passed over forever. *)
Spec ==
  /\ Init /\ [][Next]_vars
  /\ \A w \in Worker : WF_vars(Step(w)) /\ SF_vars(Begin(w))

-----------------------------------------------------------------------------
TypeOK ==
  /\ disk \in Tables /\ tx \in Tables
  /\ conn \in Worker \cup {None} /\ calls \in 0..MaxCalls
  /\ \A w \in Worker :
       /\ call[w].stage \in {"idle", "waiting", "open", "saving", "answered"}
       /\ Holds(w) <=> conn = w

(* Seen from outside a call is idle, asked or answered. *)
AskOf(c) ==
  CASE c.stage = "idle" -> [state |-> "idle"]
    [] c.stage = "answered" -> [state |-> "answered", answer |-> c.answer]
    [] OTHER -> [state |-> "asked", req |-> c.req]

(* SQLite keeps the promise of store.Store, as Memory does: a call that    *)
(* saves several rows (every binding of a device, a trace and the oldest   *)
(* traces) is seen whole or not at all, whatever fails or ends in the      *)
(* middle, and what was answered is in the file when the hub starts again. *)
Promise == INSTANCE StorePromise WITH db <- disk, ask <- [w \in Worker |-> AskOf(call[w])]
KeepsStorePromise == Promise!Spec

(* The handlers of a device's sockets read the clock and note it in any    *)
(* order, and the process may end in between: the time a binding was last  *)
(* connected never moves back in the file (hub.go:455, NoteDeviceSeen).    *)
LastConnectedAdvances ==
  [][\A b \in DOMAIN disk.bindings : disk.bindings[b].seen <= disk'.bindings[b].seen]_vars

(* No call waits for ever: the one connection always comes back, because   *)
(* no transaction needs a second one (sqlite.go:123).                      *)
EveryCallEnds == \A w \in Worker : call[w].stage # "idle" ~> call[w].stage = "idle"
=============================================================================
