----------------------------- MODULE StoreCalls -----------------------------
(***************************************************************************)
(* What each call of the store.Store interface does to the tables and what *)
(* it answers, as store/memory.go has it under its mutex: one step from    *)
(* the tables before the call to the tables after it.  Module StorePromise *)
(* makes these steps the abstract store that store/sqlite.go implements.   *)
(*                                                                         *)
(* A code, a ticket and a binding id name their row by its position, as in *)
(* module Store; a binding also has the clock reading `created` that the   *)
(* hub took before the call.  The look-ups by public key, ticket and       *)
(* pairing id scan one table as those modelled here do.                    *)
(***************************************************************************)
EXTENDS Store

CONSTANTS
  Worker,       \* calls in progress at one time
  Requests,     \* the calls that are made, see Request
  Files,        \* what the database file may hold when it is opened
  TraceRetain   \* traceRetain, 4000 in the source

StoredBinding == [host : Pub, device : Device, revoked : BOOLEAN, created : Nat,
                  seen : Nat, label : Label \cup {None}]
StoredPairing == [host : Pub, late : BOOLEAN, consumed : BOOLEAN]

Tables == [hosts : Seq(HostRow), pairings : Seq(StoredPairing),
           bindings : Seq(StoredBinding), traces : Seq(Nat)]

(* A pairing is late when its time is over before it is consumed. *)
Request ==
  [op : {"PutHost"}, row : HostRow] \cup [op : {"PutPairing"}, row : StoredPairing]
    \cup [op : {"ConsumePairing"}, code : Nat] \cup [op : {"PutBinding"}, row : StoredBinding]
    \cup [op : {"RevokeBinding"}, id : Nat] \cup [op : {"NoteDeviceSeen"}, device : Device, at : Nat]
    \cup [op : {"SetDeviceLabels"}, device : Device, label : Label] \cup [op : {"AppendTrace"}, event : Nat]
    \cup [op : {"BindingByPeers"}, host : Pub, device : Device]
    \cup [op : {"ListBindings"}, host : Pub] \cup [op : {"Trace"}]

ASSUME TraceRetainAssumption == TraceRetain \in Nat \ {0}

(* The arguments have the types of the interface, and the file was written *)
(* by this store.                                                          *)
ASSUME CallsAssumption == Requests \subseteq Request /\ Files \subseteq Tables

Reads == {"BindingByPeers", "ListBindings", "Trace"}

-----------------------------------------------------------------------------
(* Every row of the device, revoked ones included: the latest time it was  *)
(* seen, and the label it last announced.                                  *)
NoteDeviceSeen(bindings, d, at) ==
  [b \in DOMAIN bindings |->
     IF bindings[b].device = d /\ bindings[b].seen < at
     THEN [bindings[b] EXCEPT !.seen = at] ELSE bindings[b]]

SetDeviceLabels(bindings, d, label) ==
  [b \in DOMAIN bindings |->
     IF bindings[b].device = d THEN [bindings[b] EXCEPT !.label = label] ELSE bindings[b]]

(* The newest TraceRetain of them. *)
Newest(traces) == SubSeq(traces, Max({1, Len(traces) - TraceRetain + 1}), Len(traces))

(* The rows of a pair; which of them decides is the row a scan meets first. *)
PairRows(bindings, h, d) ==
  {b \in DOMAIN bindings : bindings[b].host = h /\ bindings[b].device = d}

Done(word) == [is |-> word]

PairAnswer(bindings, b) ==
  IF bindings[b].revoked THEN Done("revoked") ELSE [binding |-> bindings[b]]

ConsumeAnswer(pairings, code) ==
  Done(IF code \notin DOMAIN pairings THEN "not found"
       ELSE IF pairings[code].consumed THEN "already consumed"
       ELSE IF pairings[code].late THEN "expired" ELSE "ok")

PeersAnswers(bindings, rows) ==
  IF rows = {} THEN { Done("not found") } ELSE { PairAnswer(bindings, b) : b \in rows }

(* What a call may answer.  Memory scans bindings in the order they were   *)
(* written, SQLite in the order they were created, so the row of a pair    *)
(* that decides BindingByPeers is left open.                               *)
Answers(db, r) ==
  CASE r.op = "ConsumePairing" -> { ConsumeAnswer(db.pairings, r.code) }
    [] r.op = "PutBinding" ->
         { Done(IF CountBindings(db.bindings, r.row.host) >= MaxBindings
                THEN "binding limit" ELSE "ok") }
    [] r.op = "RevokeBinding" ->
         { Done(IF r.id \in DOMAIN db.bindings THEN "ok" ELSE "not found") }
    [] r.op = "BindingByPeers" ->
         PeersAnswers(db.bindings, PairRows(db.bindings, r.host, r.device))
    [] r.op = "ListBindings" -> { [bindings |-> ActiveBindings(db.bindings, r.host)] }
    [] r.op = "Trace" -> { [events |-> db.traces] }
    [] OTHER -> { Done("ok") }

(* What a call that answers "ok" leaves in the tables. *)
Effect(db, r) ==
  CASE r.op = "PutHost" -> [db EXCEPT !.hosts = PutHost(@, r.row)]
    [] r.op = "PutPairing" -> [db EXCEPT !.pairings = Append(@, r.row)]
    [] r.op = "ConsumePairing" -> [db EXCEPT !.pairings = ConsumePairing(@, r.code)]
    [] r.op = "PutBinding" -> [db EXCEPT !.bindings = PutBinding(@, r.row)]
    [] r.op = "RevokeBinding" -> [db EXCEPT !.bindings = RevokeBinding(@, r.id)]
    [] r.op = "NoteDeviceSeen" -> [db EXCEPT !.bindings = NoteDeviceSeen(@, r.device, r.at)]
    [] r.op = "SetDeviceLabels" -> [db EXCEPT !.bindings = SetDeviceLabels(@, r.device, r.label)]
    [] r.op = "AppendTrace" -> [db EXCEPT !.traces = Newest(Append(@, r.event))]
=============================================================================
