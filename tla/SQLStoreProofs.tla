--------------------------- MODULE SQLStoreProofs ---------------------------
(***************************************************************************)
(* The durable store, for any tables, calls, number of callers and bounds. *)
(*                                                                         *)
(* It implements StorePromise because a transaction that is saving rows    *)
(* has, in its own view of the tables, everything the call is to leave     *)
(* there except the rows it has still to save, and because the one         *)
(* connection keeps every other transaction out in the meantime: nothing   *)
(* it read or wrote is stale when it commits.                              *)
(***************************************************************************)
EXTENDS SQLStore, StoreProofs

-----------------------------------------------------------------------------
(* What the calls do to the tables. *)

(* Each call has the arguments its method has. *)
LEMMA RequestArguments ==
  ASSUME NEW r \in Request
  PROVE  /\ r.op = "PutHost" => r.row \in HostRow
         /\ r.op = "PutPairing" => r.row \in StoredPairing
         /\ r.op = "PutBinding" => r.row \in StoredBinding
         /\ r.op = "NoteDeviceSeen" => r.at \in Nat
         /\ r.op = "SetDeviceLabels" => r.label \in Label
         /\ r.op = "AppendTrace" => r.event \in Nat
         /\ r.op \in {"PutHost", "PutPairing", "ConsumePairing", "PutBinding", "RevokeBinding",
                      "NoteDeviceSeen", "SetDeviceLabels", "AppendTrace"} \cup Reads
BY DEF Request, Reads

(* Writing one field of a row leaves a row. *)
LEMMA RowFields ==
  /\ \A b \in StoredBinding :
       /\ [b EXCEPT !.revoked = TRUE] \in StoredBinding
       /\ \A n \in Nat : [b EXCEPT !.seen = n] \in StoredBinding
       /\ \A l \in Label : [b EXCEPT !.label = l] \in StoredBinding
  /\ \A p \in StoredPairing : [p EXCEPT !.consumed = TRUE] \in StoredPairing
BY DEF StoredBinding, StoredPairing

(* The tables are four sequences of rows. *)
LEMMA TablesFields ==
  ASSUME NEW db \in Tables
  PROVE  /\ db.hosts \in Seq(HostRow) /\ db.pairings \in Seq(StoredPairing)
         /\ db.bindings \in Seq(StoredBinding) /\ db.traces \in Seq(Nat)
         /\ DOMAIN db = {"hosts", "pairings", "bindings", "traces"}
         /\ \A q \in Seq(HostRow) : [db EXCEPT !.hosts = q] \in Tables
         /\ \A q \in Seq(StoredPairing) : [db EXCEPT !.pairings = q] \in Tables
         /\ \A q \in Seq(StoredBinding) : [db EXCEPT !.bindings = q] \in Tables
         /\ \A q \in Seq(Nat) : [db EXCEPT !.traces = q] \in Tables
BY DEF Tables

(* A function on the rows of a table that gives rows is a table. *)
LEMMA RowsMapped ==
  ASSUME NEW S, NEW q \in Seq(S), NEW f, DOMAIN f = DOMAIN q, f = [i \in DOMAIN q |-> f[i]],
         \A i \in DOMAIN q : f[i] \in S
  PROVE  f \in Seq(S)
<1>1. DOMAIN q = 1..Len(q) /\ Len(q) \in Nat
  BY RowsOfSeq
<1>2. f \in [1..Len(q) -> S]
  BY <1>1
<1> QED
  BY <1>1, <1>2, SeqDef

(* The newest traces are traces. *)
LEMMA NewestType ==
  ASSUME NEW q \in Seq(Nat)
  PROVE  Newest(q) \in Seq(Nat)
<1> DEFINE m == Max({1, Len(q) - TraceRetain + 1})
<1>1. DOMAIN q = 1..Len(q) /\ Len(q) \in Nat /\ \A i \in DOMAIN q : q[i] \in Nat
  BY RowsOfSeq
<1>2. TraceRetain \in Nat
  BY TraceRetainAssumption
<1>3. Len(q) - TraceRetain + 1 \in Int
  BY <1>1, <1>2
<1>4. m \in Int /\ m >= 1
  <2> DEFINE a == Len(q) - TraceRetain + 1
  <2>1. a \in Int
    BY <1>3
  <2> HIDE DEF a
  <2>2. \E x \in {1, a} : \A y \in {1, a} : x >= y
    BY <2>1
  <2>3. Max({1, a}) \in {1, a} /\ \A y \in {1, a} : Max({1, a}) >= y
    BY <2>2 DEF Max
  <2>4. Max({1, a}) \in Int /\ Max({1, a}) >= 1
    BY <2>1, <2>3
  <2> QED
    BY <2>4 DEF a
<1> HIDE DEF m
<1>5. \A i \in m..Len(q) : q[i] \in Nat
  BY <1>1, <1>4
<1>6. SubSeq(q, m, Len(q)) \in Seq(Nat)
  BY <1>1, <1>4, <1>5, SubSeqProperties
<1> QED
  BY <1>6 DEF Newest, m

(* Noting a device or a label writes one field of some rows. *)
LEMMA DeviceRowsType ==
  ASSUME NEW q \in Seq(StoredBinding), NEW d
  PROVE  /\ \A at \in Nat : NoteDeviceSeen(q, d, at) \in Seq(StoredBinding)
         /\ \A l \in Label : SetDeviceLabels(q, d, l) \in Seq(StoredBinding)
<1>1. \A i \in DOMAIN q : q[i] \in StoredBinding
  BY RowsOfSeq
<1>2. ASSUME NEW at \in Nat PROVE NoteDeviceSeen(q, d, at) \in Seq(StoredBinding)
  BY <1>1, RowFields, RowsMapped DEF NoteDeviceSeen
<1>3. ASSUME NEW l \in Label PROVE SetDeviceLabels(q, d, l) \in Seq(StoredBinding)
  BY <1>1, RowFields, RowsMapped DEF SetDeviceLabels
<1> QED
  BY <1>2, <1>3

(* The call r writes, and the rows of db do not refuse it. *)
Writable(db, r) == r.op \notin Reads /\ Done("ok") \in Answers(db, r)

(* Such a call names a row that exists, and its binding is within the      *)
(* limit.                                                                  *)
LEMMA WritableRows ==
  ASSUME NEW db, NEW r \in Request, Writable(db, r)
  PROVE  /\ r.op = "ConsumePairing" => r.code \in DOMAIN db.pairings
         /\ r.op = "RevokeBinding" => r.id \in DOMAIN db.bindings
         /\ r.op = "PutBinding" => PutBinding(db.bindings, r.row) = Append(db.bindings, r.row)
         /\ r.op \in {"PutHost", "PutPairing", "ConsumePairing", "PutBinding", "RevokeBinding",
                      "NoteDeviceSeen", "SetDeviceLabels", "AppendTrace"}
<1>1. Done("ok") # Done("not found") /\ Done("ok") # Done("already consumed")
      /\ Done("ok") # Done("expired") /\ Done("ok") # Done("binding limit")
  BY DEF Done
<1>2. r.op = "ConsumePairing" => r.code \in DOMAIN db.pairings
  BY <1>1 DEF Writable, Answers, ConsumeAnswer, Done
<1>3. r.op = "RevokeBinding" => r.id \in DOMAIN db.bindings
  BY <1>1 DEF Writable, Answers
<1>4. r.op = "PutBinding" => ~(CountBindings(db.bindings, r.row.host) >= MaxBindings)
  BY <1>1 DEF Writable, Answers
<1> QED
  BY <1>2, <1>3, <1>4, RequestArguments DEF PutBinding, Writable

(* Marking a row of a table leaves a table. *)
LEMMA MarkedRowType ==
  /\ \A q \in Seq(StoredPairing) : \A c \in DOMAIN q : ConsumePairing(q, c) \in Seq(StoredPairing)
  /\ \A q \in Seq(StoredBinding) : \A b \in DOMAIN q : RevokeBinding(q, b) \in Seq(StoredBinding)
<1>1. ASSUME NEW q \in Seq(StoredPairing), NEW c \in DOMAIN q
      PROVE  ConsumePairing(q, c) \in Seq(StoredPairing)
  <2> DEFINE row == [q[c] EXCEPT !.consumed = TRUE]
  <2>1. row \in StoredPairing
    BY RowsOfSeq, RowFields
  <2>2. ConsumePairing(q, c) = [q EXCEPT ![c] = row]
    BY DEF ConsumePairing
  <2> HIDE DEF row
  <2> QED
    BY <2>1, <2>2, ExceptRow
<1>2. ASSUME NEW q \in Seq(StoredBinding), NEW b \in DOMAIN q
      PROVE  RevokeBinding(q, b) \in Seq(StoredBinding)
  <2> DEFINE row == [q[b] EXCEPT !.revoked = TRUE]
  <2>1. row \in StoredBinding
    BY RowsOfSeq, RowFields
  <2>2. RevokeBinding(q, b) = [q EXCEPT ![b] = row]
    BY DEF RevokeBinding
  <2> HIDE DEF row
  <2> QED
    BY <2>1, <2>2, ExceptRow
<1> QED
  BY <1>1, <1>2

(* A call leaves tables behind. *)
LEMMA EffectType ==
  ASSUME NEW db \in Tables, NEW r \in Request, Writable(db, r)
  PROVE  Effect(db, r) \in Tables
<1>0. /\ db.hosts \in Seq(HostRow) /\ db.pairings \in Seq(StoredPairing)
      /\ db.bindings \in Seq(StoredBinding) /\ db.traces \in Seq(Nat)
  BY TablesFields
<1>1. CASE r.op = "PutHost"
  <2>1. PutHost(db.hosts, r.row) \in Seq(HostRow)
    BY <1>0, <1>1, RequestArguments, PutHostType
  <2> QED
    BY <1>1, <2>1, TablesFields DEF Effect
<1>2. CASE r.op = "PutPairing"
  <2>1. Append(db.pairings, r.row) \in Seq(StoredPairing)
    BY <1>0, <1>2, RequestArguments, AppendRow
  <2> QED
    BY <1>2, <2>1, TablesFields DEF Effect
<1>3. CASE r.op = "ConsumePairing"
  <2>1. ConsumePairing(db.pairings, r.code) \in Seq(StoredPairing)
    BY <1>0, <1>3, WritableRows, MarkedRowType
  <2> QED
    BY <1>3, <2>1, TablesFields DEF Effect
<1>4. CASE r.op = "PutBinding"
  <2>1. Append(db.bindings, r.row) \in Seq(StoredBinding)
    BY <1>0, <1>4, RequestArguments, AppendRow
  <2> QED
    BY <1>4, <2>1, WritableRows, TablesFields DEF Effect
<1>5. CASE r.op = "RevokeBinding"
  <2>1. RevokeBinding(db.bindings, r.id) \in Seq(StoredBinding)
    BY <1>0, <1>5, WritableRows, MarkedRowType
  <2> QED
    BY <1>5, <2>1, TablesFields DEF Effect
<1>6. CASE r.op = "NoteDeviceSeen"
  <2>1. NoteDeviceSeen(db.bindings, r.device, r.at) \in Seq(StoredBinding)
    BY <1>0, <1>6, RequestArguments, DeviceRowsType
  <2> QED
    BY <1>6, <2>1, TablesFields DEF Effect
<1>7. CASE r.op = "SetDeviceLabels"
  <2>1. SetDeviceLabels(db.bindings, r.device, r.label) \in Seq(StoredBinding)
    BY <1>0, <1>7, RequestArguments, DeviceRowsType
  <2> QED
    BY <1>7, <2>1, TablesFields DEF Effect
<1>8. CASE r.op = "AppendTrace"
  <2>1. Newest(Append(db.traces, r.event)) \in Seq(Nat)
    BY <1>0, <1>8, RequestArguments, AppendRow, NewestType
  <2> QED
    BY <1>8, <2>1, TablesFields DEF Effect
<1> QED
  BY <1>1, <1>2, <1>3, <1>4, <1>5, <1>6, <1>7, <1>8, WritableRows

(* No call moves the time a binding was last connected back. *)
LEMMA EffectSeen ==
  ASSUME NEW db \in Tables, NEW r \in Request, Writable(db, r), NEW b \in DOMAIN db.bindings
  PROVE  /\ b \in DOMAIN Effect(db, r).bindings
         /\ db.bindings[b].seen <= Effect(db, r).bindings[b].seen
<1>0. db.bindings \in Seq(StoredBinding) /\ db.bindings[b] \in StoredBinding
  BY TablesFields, RowsOfSeq
<1>d. DOMAIN db = {"hosts", "pairings", "bindings", "traces"}
  BY TablesFields
<1>s. db.bindings[b].seen \in Nat
  BY <1>0 DEF StoredBinding
<1>1. CASE r.op \in {"PutHost", "PutPairing", "ConsumePairing", "AppendTrace"}
  <2>1. Effect(db, r).bindings = db.bindings
    BY <1>1 DEF Effect, Tables
  <2> QED
    BY <1>s, <2>1
<1>2. CASE r.op = "PutBinding"
  <2>1. Effect(db, r).bindings = Append(db.bindings, r.row)
    BY <1>2, WritableRows DEF Effect, Tables
  <2>2. r.row \in StoredBinding
    BY <1>2, RequestArguments
  <2>3. b \in DOMAIN Append(db.bindings, r.row) /\ Append(db.bindings, r.row)[b] = db.bindings[b]
    BY <1>0, <2>2, AppendRow
  <2> QED
    BY <1>s, <2>1, <2>3
<1>3. CASE r.op = "RevokeBinding"
  <2>1. Effect(db, r).bindings = RevokeBinding(db.bindings, r.id)
    BY <1>3 DEF Effect, Tables
  <2>2. /\ b \in DOMAIN RevokeBinding(db.bindings, r.id)
        /\ RevokeBinding(db.bindings, r.id)[b].seen = db.bindings[b].seen
    BY <1>0 DEF RevokeBinding, StoredBinding
  <2> QED
    BY <1>s, <2>1, <2>2
<1>4. CASE r.op = "NoteDeviceSeen"
  <2>1. Effect(db, r).bindings = NoteDeviceSeen(db.bindings, r.device, r.at) /\ r.at \in Nat
    BY <1>4, RequestArguments DEF Effect, Tables
  <2>2. [db.bindings[b] EXCEPT !.seen = r.at].seen = r.at
    BY <1>0 DEF StoredBinding
  <2>3. /\ b \in DOMAIN NoteDeviceSeen(db.bindings, r.device, r.at)
        /\ db.bindings[b].seen <= NoteDeviceSeen(db.bindings, r.device, r.at)[b].seen
    BY <1>s, <2>1, <2>2 DEF NoteDeviceSeen
  <2> QED
    BY <2>1, <2>3
<1>5. CASE r.op = "SetDeviceLabels"
  <2>1. Effect(db, r).bindings = SetDeviceLabels(db.bindings, r.device, r.label)
    BY <1>5 DEF Effect, Tables
  <2>2. [db.bindings[b] EXCEPT !.label = r.label].seen = db.bindings[b].seen
    BY <1>0 DEF StoredBinding
  <2>3. /\ b \in DOMAIN SetDeviceLabels(db.bindings, r.device, r.label)
        /\ db.bindings[b].seen <= SetDeviceLabels(db.bindings, r.device, r.label)[b].seen
    BY <1>s, <2>2 DEF SetDeviceLabels
  <2> QED
    BY <2>1, <2>3
<1> QED
  BY <1>1, <1>2, <1>3, <1>4, <1>5, WritableRows

-----------------------------------------------------------------------------
(* What a transaction has still to save. *)

Table == {"hosts", "pairings", "bindings", "traces"}
WriteRow == [table : Table, at : Nat, row : HostRow \cup StoredPairing \cup StoredBinding \cup Nat]

(* The rows that todo saves are bindings as eff has them, and t has the    *)
(* other bindings already.                                                 *)
BindingsLeft(t, todo, eff) ==
  /\ eff = [t EXCEPT !.bindings = eff.bindings]
  /\ DOMAIN eff.bindings = DOMAIN t.bindings
  /\ \A i \in DOMAIN todo :
       /\ todo[i].table = "bindings" /\ todo[i].at \in DOMAIN t.bindings
       /\ todo[i].row = eff.bindings[todo[i].at]
  /\ \A b \in DOMAIN t.bindings :
       (\A i \in DOMAIN todo : todo[i].at # b) => t.bindings[b] = eff.bindings[b]

(* Saving the rows of todo makes of the tables t the tables eff: a row or  *)
(* two of any table, or any number of bindings.                            *)
Pending(t, todo, eff) ==
  \/ todo = <<>> /\ t = eff
  \/ Len(todo) = 1 /\ Saved(t, todo[1]) = eff
  \/ Len(todo) = 2 /\ Saved(t, todo[1]) \in Tables /\ Saved(Saved(t, todo[1]), todo[2]) = eff
  \/ BindingsLeft(t, todo, eff)

(* A row saved behind the last one is appended. *)
LEMMA SavedNew ==
  ASSUME NEW db \in Tables, NEW name \in Table, NEW row
  PROVE  Saved(db, Create(db, name, row)) = [db EXCEPT ![name] = Append(db[name], row)]
<1>1. Len(db[name]) \in Nat
  BY TablesFields, RowsOfSeq DEF Table, Tables
<1>2. /\ Create(db, name, row).table = name /\ Create(db, name, row).row = row
      /\ Create(db, name, row).at = Len(db[name]) + 1
  BY DEF Create, Row
<1>3. Len(db[name]) + 1 # 0 /\ Len(db[name]) + 1 > Len(db[name])
  BY <1>1
<1> QED
  BY <1>2, <1>3 DEF Saved

(* A row saved at its place replaces the row there. *)
LEMMA SavedOver ==
  ASSUME NEW db \in Tables, NEW name \in Table, NEW n \in DOMAIN db[name], NEW row
  PROVE  Saved(db, Row(name, n, row)) = [db EXCEPT ![name] = [db[name] EXCEPT ![n] = row]]
<1>1. DOMAIN db[name] = 1..Len(db[name]) /\ Len(db[name]) \in Nat
  BY TablesFields, RowsOfSeq DEF Table, Tables
<1>2. Row(name, n, row).table = name /\ Row(name, n, row).row = row /\ Row(name, n, row).at = n
  BY DEF Row
<1>3. n # 0 /\ ~(n > Len(db[name]))
  BY <1>1
<1> QED
  BY <1>2, <1>3 DEF Saved

(* Tables with equal sequences are equal. *)
LEMMA SameTables ==
  ASSUME NEW db \in Tables, NEW q, q = db.bindings
  PROVE  [db EXCEPT !.bindings = q] = db
BY DEF Tables

(* When nothing is left to save, the transaction has what the call leaves. *)
LEMMA NothingLeft ==
  ASSUME NEW t \in Tables, NEW eff \in Tables, Pending(t, <<>>, eff)
  PROVE  t = eff
<1>1. CASE t = eff
  BY <1>1
<1>2. CASE BindingsLeft(t, <<>>, eff)
  <2>1. /\ eff = [t EXCEPT !.bindings = eff.bindings]
        /\ DOMAIN eff.bindings = DOMAIN t.bindings
        /\ \A b \in DOMAIN t.bindings : t.bindings[b] = eff.bindings[b]
    BY <1>2 DEF BindingsLeft
  <2>2. t.bindings \in Seq(StoredBinding) /\ eff.bindings \in Seq(StoredBinding)
    BY TablesFields
  <2>3. Len(t.bindings) = Len(eff.bindings)
    BY <2>1, <2>2, LenProperties
  <2>4. t.bindings = eff.bindings
    BY <2>1, <2>2, <2>3, SeqEqual, LenProperties
  <2> QED
    BY <2>1, <2>4, SameTables
<1>3. Len(<<>>) = 0
  BY EmptySeq
<1> QED
  BY <1>1, <1>2, <1>3 DEF Pending

(* The second of two rows is the first of the rest. *)
LEMMA TailOfTwo ==
  ASSUME NEW S, NEW q \in Seq(S), Len(q) = 2
  PROVE  Tail(q)[1] = q[2]
<1>1. q # <<>>
  BY EmptySeq
<1>2. Len(Tail(q)) = 1 /\ \A i \in 1..Len(Tail(q)) : Tail(q)[i] = q[i + 1]
  BY <1>1, HeadTailProperties
<1>3. \A f : (\A i \in 1..1 : f[i] = q[i + 1]) => f[1] = q[2]
  OBVIOUS
<1>4. \A i \in 1..1 : Tail(q)[i] = q[i + 1]
  BY <1>2
<1> QED
  BY <1>3, <1>4, Zenon

(* Saving the first row that is left leaves the others. *)
LEMMA SaveOne ==
  ASSUME NEW t \in Tables, NEW eff \in Tables, NEW todo \in Seq(WriteRow), todo # <<>>,
         Pending(t, todo, eff)
  PROVE  /\ Saved(t, Head(todo)) \in Tables
         /\ Tail(todo) \in Seq(WriteRow)
         /\ Pending(Saved(t, Head(todo)), Tail(todo), eff)
<1> DEFINE w == Head(todo)
           rest == Tail(todo)
           u == Saved(t, w)
<1>1. /\ Len(todo) \in Nat /\ Len(todo) # 0 /\ DOMAIN todo = 1..Len(todo)
      /\ w \in WriteRow /\ w = todo[1]
      /\ rest \in Seq(WriteRow) /\ Len(rest) = Len(todo) - 1
      /\ \A i \in 1..Len(rest) : rest[i] = todo[i + 1]
      /\ DOMAIN rest = 1..Len(rest)
  BY HeadTailProperties, LenProperties, EmptySeq
<1>2. CASE Len(todo) = 1 /\ Saved(t, todo[1]) = eff
  <2>1. Len(rest) = 0
    BY <1>1, <1>2
  <2>2. rest = <<>>
    BY <1>1, <2>1, EmptySeq
  <2> QED
    BY <1>1, <1>2, <2>2 DEF Pending
<1>3. CASE Len(todo) = 2 /\ Saved(t, todo[1]) \in Tables /\ Saved(Saved(t, todo[1]), todo[2]) = eff
  <2>1. Len(rest) = 1
    BY <1>1, <1>3
  <2>2. rest[1] = todo[2]
    BY <1>3, TailOfTwo
  <2> QED
    BY <1>1, <1>3, <2>1, <2>2 DEF Pending
<1>4. CASE BindingsLeft(t, todo, eff)
  <2> DEFINE n == w.at
             new == [t.bindings EXCEPT ![n] = w.row]
  <2>1. /\ w.table = "bindings" /\ n \in DOMAIN t.bindings /\ w.row = eff.bindings[n]
        /\ eff = [t EXCEPT !.bindings = eff.bindings]
        /\ DOMAIN eff.bindings = DOMAIN t.bindings
        /\ \A b \in DOMAIN t.bindings :
             (\A i \in DOMAIN todo : todo[i].at # b) => t.bindings[b] = eff.bindings[b]
    BY <1>1, <1>4 DEF BindingsLeft
  <2>2. t.bindings \in Seq(StoredBinding) /\ eff.bindings \in Seq(StoredBinding)
    BY TablesFields
  <2>3. w.row \in StoredBinding
    BY <2>1, <2>2, RowsOfSeq
  <2>4. /\ new \in Seq(StoredBinding) /\ DOMAIN new = DOMAIN t.bindings
        /\ \A b \in DOMAIN t.bindings : new[b] = IF b = n THEN w.row ELSE t.bindings[b]
    BY <2>2, <2>3, ExceptRow
  <2>5. w = Row("bindings", n, w.row)
    BY <1>1, <2>1 DEF WriteRow, Row
  <2>6. u = [t EXCEPT !.bindings = new]
    <3>1. Saved(t, Row("bindings", n, w.row)) = [t EXCEPT !["bindings"] = [t["bindings"] EXCEPT ![n] = w.row]]
      BY <2>1, SavedOver DEF Table
    <3> QED
      BY <2>5, <3>1
  <2> HIDE DEF new
  <2>7. u \in Tables /\ u.bindings = new
    BY <2>4, <2>6, TablesFields
  <2>8. eff = [u EXCEPT !.bindings = eff.bindings]
    BY <2>1, <2>6 DEF Tables
  <2>9. ASSUME NEW i \in DOMAIN rest
        PROVE  /\ rest[i].table = "bindings" /\ rest[i].at \in DOMAIN new
               /\ rest[i].row = eff.bindings[rest[i].at]
    <3>1. i + 1 \in DOMAIN todo /\ rest[i] = todo[i + 1]
      BY <1>1
    <3> QED
      BY <1>4, <2>4, <3>1 DEF BindingsLeft
  <2>10. ASSUME NEW b \in DOMAIN new, \A i \in DOMAIN rest : rest[i].at # b
         PROVE  new[b] = eff.bindings[b]
    <3>1. CASE b = n
      BY <2>1, <2>4, <3>1
    <3>2. CASE b # n
      <4>1. ASSUME NEW i \in DOMAIN todo PROVE todo[i].at # b
        <5>1. CASE i = 1
          BY <1>1, <3>2, <5>1
        <5>2. CASE i # 1
          <6>1. i - 1 \in DOMAIN rest /\ rest[i - 1] = todo[i]
            BY <1>1, <5>2
          <6> QED
            BY <2>10, <6>1
        <5> QED
          BY <5>1, <5>2
      <4> QED
        BY <2>1, <2>4, <3>2, <4>1
    <3> QED
      BY <3>1, <3>2
  <2>11. BindingsLeft(u, rest, eff)
    BY <2>1, <2>4, <2>7, <2>8, <2>9, <2>10 DEF BindingsLeft
  <2> QED
    BY <1>1, <2>7, <2>11 DEF Pending
<1> QED
  BY <1>2, <1>3, <1>4 DEF Pending

(* A row to be saved, and lists of one and of two rows. *)
LEMMA WriteRows ==
  /\ \A name \in Table, n \in Nat, row \in HostRow \cup StoredPairing \cup StoredBinding \cup Nat :
       Row(name, n, row) \in WriteRow
  /\ \A x \in WriteRow : <<x>> \in Seq(WriteRow) /\ Len(<<x>>) = 1 /\ <<x>>[1] = x
  /\ \A x, y \in WriteRow : /\ <<x, y>> \in Seq(WriteRow) /\ Len(<<x, y>>) = 2
                            /\ <<x, y>>[1] = x /\ <<x, y>>[2] = y
BY DEF WriteRow, Row

(* The rows that loadBindings gives are saved as the call wants them, the  *)
(* other rows are so already.                                              *)
LEMMA LoadedPending ==
  ASSUME NEW db \in Tables, NEW rows, rows \subseteq DOMAIN db.bindings,
         NEW s \in Loaded(db, rows), NEW q \in Seq(StoredBinding),
         DOMAIN q = DOMAIN db.bindings,
         \A b \in DOMAIN db.bindings : b \notin rows => q[b] = db.bindings[b],
         NEW todo, todo = [i \in DOMAIN s |-> Row("bindings", s[i], q[s[i]])],
         NEW eff, eff = [db EXCEPT !.bindings = q]
  PROVE  /\ todo \in Seq(WriteRow)
         /\ Pending(db, todo, eff)
<1> DEFINE n == Cardinality(rows)
<1>1. s \in [1..n -> rows] /\ \A b \in rows : \E i \in DOMAIN s : s[i] = b
  BY DEF Loaded
<1>2. IsFiniteSet(rows) /\ n \in Nat
  <2>1. DOMAIN db.bindings = 1..Len(db.bindings) /\ Len(db.bindings) \in Nat
    BY TablesFields, RowsOfSeq
  <2>2. IsFiniteSet(DOMAIN db.bindings)
    BY <2>1, FS_Interval
  <2>3. rows \in SUBSET DOMAIN db.bindings
    OBVIOUS
  <2>4. IsFiniteSet(rows)
    BY <2>2, <2>3, FS_Subset
  <2> QED
    BY <2>4, FS_CardinalityType
<1>3. \A i \in 1..n : s[i] \in DOMAIN q /\ s[i] \in Nat /\ q[s[i]] \in StoredBinding
  BY <1>1, RowsOfSeq
<1>4. \A i \in 1..n : todo[i] = Row("bindings", s[i], q[s[i]]) /\ todo[i] \in WriteRow
  BY <1>1, <1>3, WriteRows DEF Table
<1>5. todo \in [1..n -> WriteRow]
  BY <1>1, <1>4
<1>6. todo \in Seq(WriteRow)
  BY <1>2, <1>5, SeqDef
<1>7. eff.bindings = q /\ eff = [db EXCEPT !.bindings = eff.bindings]
  BY DEF Tables
<1>8. BindingsLeft(db, todo, eff)
  <2>1. \A i \in DOMAIN todo :
          /\ todo[i].table = "bindings" /\ todo[i].at \in DOMAIN db.bindings
          /\ todo[i].row = q[todo[i].at]
    BY <1>1, <1>3, <1>4 DEF Row
  <2>2. ASSUME NEW b \in DOMAIN db.bindings, \A i \in DOMAIN todo : todo[i].at # b
        PROVE  db.bindings[b] = q[b]
    <3>1. \A i \in 1..n : s[i] # b
      BY <1>1, <1>4, <2>2 DEF Row
    <3>2. b \notin rows
      BY <1>1, <3>1
    <3> QED
      BY <3>2
  <2> QED
    BY <1>7, <2>1, <2>2 DEF BindingsLeft
<1> QED
  BY <1>6, <1>8 DEF Pending

(* One row is left to save, and it makes the tables what they are to be.   *)
LEMMA OneRowPending ==
  ASSUME NEW db, NEW x \in WriteRow, NEW eff, Saved(db, x) = eff
  PROVE  << x >> \in Seq(WriteRow) /\ Pending(db, << x >>, eff)
BY WriteRows DEF Pending

(* What a call has to save, once its rows are loaded, is what it is to     *)
(* leave in the tables.                                                    *)
LEMMA WritesPending ==
  ASSUME NEW db \in Tables, NEW r \in Request, Writable(db, r), NEW todo \in Writes(db, r)
  PROVE  todo \in Seq(WriteRow) /\ Pending(db, todo, Effect(db, r))
<1>0. /\ db.hosts \in Seq(HostRow) /\ db.pairings \in Seq(StoredPairing)
      /\ db.bindings \in Seq(StoredBinding) /\ db.traces \in Seq(Nat)
      /\ DOMAIN db = Table
  BY TablesFields DEF Table
<1>n. \A name \in Table : Len(db[name]) + 1 \in Nat
  BY <1>0, LenProperties DEF Table
<1>1. CASE r.op = "PutHost"
  <2> DEFINE rows == MatchingRows(db.hosts, r.row)
  <2>1. r.row \in HostRow /\ todo = HostWrites(db, r.row)
    BY <1>1, RequestArguments DEF Writes
  <2>2. Effect(db, r) = [db EXCEPT !.hosts = PutHost(db.hosts, r.row)]
    BY <1>1 DEF Effect
  <2>3. CASE rows = {}
    <3>1. todo = << Create(db, "hosts", r.row) >>
      BY <2>1, <2>3 DEF HostWrites
    <3>2. Create(db, "hosts", r.row) \in WriteRow
      BY <1>n, <2>1, WriteRows DEF Create, Table
    <3>3. Saved(db, Create(db, "hosts", r.row)) = [db EXCEPT !["hosts"] = Append(db["hosts"], r.row)]
      BY SavedNew DEF Table
    <3>4. PutHost(db.hosts, r.row) = Append(db.hosts, r.row)
      BY <2>3 DEF PutHost
    <3> QED
      BY <2>2, <3>1, <3>2, <3>3, <3>4, OneRowPending
  <2>4. CASE rows # {}
    <3> DEFINE n == Min(rows)
               row == MergeHost(db.hosts[n], r.row)
    <3>1. rows \subseteq DOMAIN db.hosts
      BY DEF MatchingRows, TokenRows, PubRows
    <3>2. n \in DOMAIN db.hosts /\ n \in Nat
      BY <1>0, <2>4, <3>1, MinProperty, RowsOfSeq
    <3>3. todo = << Row("hosts", n, row) >>
      BY <2>1, <2>4 DEF HostWrites
    <3>4. PutHost(db.hosts, r.row) = [db.hosts EXCEPT ![n] = row]
      BY <2>4 DEF PutHost
    <3>5. row \in HostRow
      BY <1>0, <2>1, <3>2, MergeHostRow, RowsOfSeq
    <3> HIDE DEF n, row
    <3>6. Row("hosts", n, row) \in WriteRow
      BY <3>2, <3>5, WriteRows DEF Table
    <3>7. Saved(db, Row("hosts", n, row)) = [db EXCEPT !["hosts"] = [db["hosts"] EXCEPT ![n] = row]]
      BY <3>2, SavedOver DEF Table
    <3> QED
      BY <2>2, <3>3, <3>4, <3>6, <3>7, OneRowPending
  <2> QED
    BY <2>3, <2>4
<1>2. CASE r.op = "PutPairing"
  <2>1. todo = << Create(db, "pairings", r.row) >> /\ r.row \in StoredPairing
    BY <1>2, RequestArguments DEF Writes
  <2>2. Effect(db, r) = [db EXCEPT !["pairings"] = Append(db["pairings"], r.row)]
    BY <1>2 DEF Effect
  <2>3. Create(db, "pairings", r.row) \in WriteRow
    BY <1>n, <2>1, WriteRows DEF Create, Table
  <2>4. Saved(db, Create(db, "pairings", r.row)) = Effect(db, r)
    BY <2>2, SavedNew DEF Table
  <2> QED
    BY <2>1, <2>3, <2>4, OneRowPending
<1>3. CASE r.op = "ConsumePairing"
  <2> DEFINE row == [db.pairings[r.code] EXCEPT !.consumed = TRUE]
  <2>1. todo = << Row("pairings", r.code, row) >>
    BY <1>3 DEF Writes
  <2>2. r.code \in DOMAIN db.pairings /\ r.code \in Nat
    BY <1>0, <1>3, WritableRows, RowsOfSeq
  <2>3. row \in StoredPairing
    BY <1>0, <2>2, RowsOfSeq, RowFields
  <2>4. Effect(db, r) = [db EXCEPT !["pairings"] = [db["pairings"] EXCEPT ![r.code] = row]]
    BY <1>3 DEF Effect, ConsumePairing
  <2> HIDE DEF row
  <2>5. Row("pairings", r.code, row) \in WriteRow
    BY <2>2, <2>3, WriteRows DEF Table
  <2>6. Saved(db, Row("pairings", r.code, row)) = Effect(db, r)
    <3>1. Saved(db, Row("pairings", r.code, row)) = [db EXCEPT !["pairings"] = [db["pairings"] EXCEPT ![r.code] = row]]
      BY <2>2, SavedOver DEF Table
    <3> QED
      BY <2>4, <3>1
  <2> QED
    BY <2>1, <2>5, <2>6, OneRowPending
<1>4. CASE r.op = "PutBinding"
  <2>1. todo = << Create(db, "bindings", r.row) >> /\ r.row \in StoredBinding
    BY <1>4, RequestArguments DEF Writes
  <2>2. Effect(db, r) = [db EXCEPT !["bindings"] = Append(db["bindings"], r.row)]
    BY <1>4, WritableRows DEF Effect
  <2>3. Create(db, "bindings", r.row) \in WriteRow
    BY <1>n, <2>1, WriteRows DEF Create, Table
  <2>4. Saved(db, Create(db, "bindings", r.row)) = Effect(db, r)
    BY <2>2, SavedNew DEF Table
  <2> QED
    BY <2>1, <2>3, <2>4, OneRowPending
<1>5. CASE r.op = "RevokeBinding"
  <2> DEFINE row == [db.bindings[r.id] EXCEPT !.revoked = TRUE]
  <2>1. todo = << Row("bindings", r.id, row) >>
    BY <1>5 DEF Writes
  <2>2. r.id \in DOMAIN db.bindings /\ r.id \in Nat
    BY <1>0, <1>5, WritableRows, RowsOfSeq
  <2>3. row \in StoredBinding
    BY <1>0, <2>2, RowsOfSeq, RowFields
  <2>4. Effect(db, r) = [db EXCEPT !["bindings"] = [db["bindings"] EXCEPT ![r.id] = row]]
    BY <1>5 DEF Effect, RevokeBinding
  <2> HIDE DEF row
  <2>5. Row("bindings", r.id, row) \in WriteRow
    BY <2>2, <2>3, WriteRows DEF Table
  <2>6. Saved(db, Row("bindings", r.id, row)) = Effect(db, r)
    <3>1. Saved(db, Row("bindings", r.id, row)) = [db EXCEPT !["bindings"] = [db["bindings"] EXCEPT ![r.id] = row]]
      BY <2>2, SavedOver DEF Table
    <3> QED
      BY <2>4, <3>1
  <2> QED
    BY <2>1, <2>5, <2>6, OneRowPending
<1>6. CASE r.op = "NoteDeviceSeen"
  <2> DEFINE rows == {b \in DeviceRows(db, r.device) : db.bindings[b].seen < r.at}
             q == NoteDeviceSeen(db.bindings, r.device, r.at)
  <2>1. PICK s \in Loaded(db, rows) :
          todo = [i \in DOMAIN s |-> Row("bindings", s[i], [db.bindings[s[i]] EXCEPT !.seen = r.at])]
    BY <1>6 DEF Writes, SeenWrites
  <2>2. rows \subseteq DOMAIN db.bindings /\ \A i \in DOMAIN s : s[i] \in rows
    BY DEF DeviceRows, Loaded
  <2>3. /\ q \in Seq(StoredBinding) /\ DOMAIN q = DOMAIN db.bindings
        /\ \A b \in DOMAIN db.bindings :
             q[b] = IF b \in rows THEN [db.bindings[b] EXCEPT !.seen = r.at] ELSE db.bindings[b]
    <3>1. r.at \in Nat
      BY <1>6, RequestArguments
    <3>2. q \in Seq(StoredBinding)
      BY <1>0, <3>1, DeviceRowsType
    <3> QED
      BY <3>2 DEF NoteDeviceSeen, DeviceRows
  <2>4. Effect(db, r) = [db EXCEPT !.bindings = q]
    BY <1>6 DEF Effect
  <2> HIDE DEF rows, q
  <2>5. todo = [i \in DOMAIN s |-> Row("bindings", s[i], q[s[i]])]
    <3>1. \A i \in DOMAIN s : q[s[i]] = [db.bindings[s[i]] EXCEPT !.seen = r.at]
      BY <2>2, <2>3
    <3> QED
      BY <2>1, <3>1
  <2>6. \A b \in DOMAIN db.bindings : b \notin rows => q[b] = db.bindings[b]
    BY <2>3
  <2>7. /\ rows \subseteq DOMAIN db.bindings /\ s \in Loaded(db, rows)
        /\ q \in Seq(StoredBinding) /\ DOMAIN q = DOMAIN db.bindings
    BY <2>2, <2>3
  <2> QED
    BY <2>4, <2>5, <2>6, <2>7, LoadedPending
<1>7. CASE r.op = "SetDeviceLabels"
  <2> DEFINE rows == DeviceRows(db, r.device)
             q == SetDeviceLabels(db.bindings, r.device, r.label)
  <2>1. PICK s \in Loaded(db, rows) :
          todo = [i \in DOMAIN s |-> Row("bindings", s[i], [db.bindings[s[i]] EXCEPT !.label = r.label])]
    BY <1>7 DEF Writes, LabelWrites
  <2>2. rows \subseteq DOMAIN db.bindings /\ \A i \in DOMAIN s : s[i] \in rows
    BY DEF DeviceRows, Loaded
  <2>3. /\ q \in Seq(StoredBinding) /\ DOMAIN q = DOMAIN db.bindings
        /\ \A b \in DOMAIN db.bindings :
             q[b] = IF b \in rows THEN [db.bindings[b] EXCEPT !.label = r.label] ELSE db.bindings[b]
    BY <1>0, <1>7, RequestArguments, DeviceRowsType DEF SetDeviceLabels, DeviceRows
  <2>4. Effect(db, r) = [db EXCEPT !.bindings = q]
    BY <1>7 DEF Effect
  <2> HIDE DEF rows, q
  <2>5. todo = [i \in DOMAIN s |-> Row("bindings", s[i], q[s[i]])]
    <3>1. \A i \in DOMAIN s : q[s[i]] = [db.bindings[s[i]] EXCEPT !.label = r.label]
      BY <2>2, <2>3
    <3> QED
      BY <2>1, <3>1
  <2>6. \A b \in DOMAIN db.bindings : b \notin rows => q[b] = db.bindings[b]
    BY <2>3
  <2>7. /\ rows \subseteq DOMAIN db.bindings /\ s \in Loaded(db, rows)
        /\ q \in Seq(StoredBinding) /\ DOMAIN q = DOMAIN db.bindings
    BY <2>2, <2>3
  <2> QED
    BY <2>4, <2>5, <2>6, <2>7, LoadedPending
<1>8. CASE r.op = "AppendTrace"
  <2> DEFINE x == Create(db, "traces", r.event)
             y == Row("traces", 0, r.event)
             u == [db EXCEPT !.traces = Append(db.traces, r.event)]
  <2>1. todo = << x, y >> /\ r.event \in Nat
    BY <1>8, RequestArguments DEF Writes
  <2>2. x \in WriteRow
    BY <1>n, <2>1, WriteRows DEF Create, Table
  <2>3. y \in WriteRow
    BY <2>1, WriteRows DEF Table
  <2>4. Saved(db, x) = u
    <3>1. Saved(db, x) = [db EXCEPT !["traces"] = Append(db["traces"], r.event)]
      BY SavedNew DEF Table
    <3> QED
      BY <3>1
  <2>5. Append(db.traces, r.event) \in Seq(Nat)
    BY <1>0, <2>1, AppendRow
  <2>6. u \in Tables /\ u.traces = Append(db.traces, r.event)
    BY <1>0, <2>5, TablesFields DEF Table
  <2>7. Effect(db, r) = [u EXCEPT !.traces = Newest(Append(db.traces, r.event))]
    BY <1>8 DEF Effect, Tables
  <2>8. Saved(u, y) = [u EXCEPT !.traces = Newest(u.traces)]
    <3>1. y.table = "traces" /\ y.at = 0
      BY DEF Row
    <3> HIDE DEF u, y
    <3> QED
      BY <3>1 DEF Saved
  <2>9. Saved(u, y) = Effect(db, r)
    BY <2>6, <2>7, <2>8
  <2> HIDE DEF x, y, u
  <2> QED
    BY <2>1, <2>2, <2>3, <2>4, <2>6, <2>9, WriteRows DEF Pending
<1> QED
  BY <1>1, <1>2, <1>3, <1>4, <1>5, <1>6, <1>7, <1>8, WritableRows

(* The calls of StorePromise are those of this module. *)
LEMMA SameCalls ==
  /\ \A word : Promise!Done(word) = Done(word)
  /\ \A d, r : Promise!Answers(d, r) = Answers(d, r)
  /\ \A d, r : Promise!Effect(d, r) = Effect(d, r)
<1>1. \A q : Promise!Cardinality(q) = Cardinality(q)
  BY DEF Promise!Cardinality, Cardinality
<1>2. \A q : Promise!Min(q) = Min(q) /\ Promise!Max(q) = Max(q)
  BY DEF Promise!Min, Min, Promise!Max, Max
<1>3. \A word : Promise!Done(word) = Done(word)
  BY DEF Promise!Done, Done
<1>4. \A q, h : Promise!ActiveBindings(q, h) = ActiveBindings(q, h)
  BY DEF Promise!ActiveBindings, ActiveBindings
<1>5. \A q, h : Promise!CountBindings(q, h) = CountBindings(q, h)
  BY <1>1, <1>4 DEF Promise!CountBindings, CountBindings
<1>6. \A q, h : Promise!MatchingRows(q, h) = MatchingRows(q, h)
  BY DEF Promise!MatchingRows, MatchingRows, Promise!TokenRows, TokenRows, Promise!PubRows, PubRows
<1>7. \A x, y : Promise!MergeHost(x, y) = MergeHost(x, y)
  BY DEF Promise!MergeHost, MergeHost
<1>8. \A q, h : Promise!PutHost(q, h) = PutHost(q, h)
  BY <1>2, <1>6, <1>7 DEF Promise!PutHost, PutHost
<1>9. \A q, c : Promise!ConsumePairing(q, c) = ConsumePairing(q, c) 
  BY DEF Promise!ConsumePairing, ConsumePairing
<1>10. \A q, b : Promise!RevokeBinding(q, b) = RevokeBinding(q, b) 
  BY DEF Promise!RevokeBinding, RevokeBinding
<1>11. \A q, row : Promise!PutBinding(q, row) = PutBinding(q, row)
  BY <1>5 DEF Promise!PutBinding, PutBinding
<1>12. \A q, d, n : Promise!NoteDeviceSeen(q, d, n) = NoteDeviceSeen(q, d, n)
  BY DEF Promise!NoteDeviceSeen, NoteDeviceSeen
<1>13. \A q, d, n : Promise!SetDeviceLabels(q, d, n) = SetDeviceLabels(q, d, n)
  BY DEF Promise!SetDeviceLabels, SetDeviceLabels
<1>14. \A q : Promise!Newest(q) = Newest(q)
  BY <1>2 DEF Promise!Newest, Newest
<1>15. \A q, c : Promise!ConsumeAnswer(q, c) = ConsumeAnswer(q, c)
  BY <1>3 DEF Promise!ConsumeAnswer, ConsumeAnswer
<1>16. \A q, h, d : Promise!PairRows(q, h, d) = PairRows(q, h, d)
  BY DEF Promise!PairRows, PairRows
<1>17. \A q, b : Promise!PairAnswer(q, b) = PairAnswer(q, b)
  BY <1>3 DEF Promise!PairAnswer, PairAnswer
<1>18. \A q, rows : Promise!PeersAnswers(q, rows) = PeersAnswers(q, rows)
  BY <1>3, <1>17 DEF Promise!PeersAnswers, PeersAnswers
<1>19. \A d, r : Promise!Answers(d, r) = Answers(d, r)
  BY <1>3, <1>4, <1>5, <1>15, <1>16, <1>18 DEF Promise!Answers, Answers
<1>20. \A d, r : Promise!Effect(d, r) = Effect(d, r)
  BY <1>8, <1>9, <1>10, <1>11, <1>12, <1>13, <1>14 DEF Promise!Effect, Effect
<1> QED
  BY <1>3, <1>19, <1>20

-----------------------------------------------------------------------------
(* What holds of a transaction between its steps. *)

(* A call in progress has the parts its stage has.  An open transaction    *)
(* still sees the file; one that is saving was not refused by the rows of  *)
(* the file, which nobody else has written since, and is on its way to     *)
(* what the call is to leave there.                                        *)
InProgress(w) ==
  /\ call[w].stage = "idle" => call[w] = NoCall
  /\ call[w].stage \in {"waiting", "open"} =>
       call[w].req \in Requests /\ call[w] = [stage |-> call[w].stage, req |-> call[w].req]
  /\ call[w].stage = "open" => tx = disk
  /\ call[w].stage = "saving" =>
       /\ call[w] = [stage |-> "saving", req |-> call[w].req, todo |-> call[w].todo]
       /\ call[w].req \in Requests /\ Writable(disk, call[w].req)
       /\ call[w].todo \in Seq(WriteRow)
       /\ Pending(tx, call[w].todo, Effect(disk, call[w].req))
  /\ call[w].stage = "answered" =>
       call[w] = [stage |-> "answered", answer |-> call[w].answer]

IInv ==
  /\ TypeOK
  /\ call = [w \in Worker |-> call[w]]
  /\ \A w \in Worker : InProgress(w)

(* The row that decides a pair is one of the pair's.                       *)
LEMMA VerdictsAreAnswers ==
  ASSUME NEW db \in Tables, NEW r, NEW a \in Verdicts(db, r)
  PROVE  a \in Answers(db, r)
<1>1. CASE r.op # "BindingByPeers"
  BY <1>1 DEF Verdicts
<1>2. CASE r.op = "BindingByPeers"
  <2> DEFINE rows == PairRows(db.bindings, r.host, r.device)
             oldest == {b \in rows : \A c \in rows : db.bindings[b].created <= db.bindings[c].created}
             ages == {db.bindings[b].created : b \in rows}
  <2>1. a \in PeersAnswers(db.bindings, oldest) /\ Answers(db, r) = PeersAnswers(db.bindings, rows)
    BY <1>2 DEF Verdicts, Answers
  <2>2. CASE rows = {}
    BY <2>1, <2>2
  <2>3. CASE rows # {}
    <3>1. \A b \in rows : db.bindings[b].created \in Nat
      <4>1. \A b \in rows : db.bindings[b] \in StoredBinding
        BY TablesFields, RowsOfSeq DEF PairRows
      <4> QED
        BY <4>1 DEF StoredBinding
    <3>2. ages \subseteq Nat /\ ages # {}
      BY <2>3, <3>1
    <3>3. Min(ages) \in ages /\ \A n \in ages : Min(ages) <= n
      BY <3>2, MinProperty
    <3>4. PICK b \in rows : Min(ages) = db.bindings[b].created
      BY <3>3
    <3>5. b \in oldest
      BY <3>3, <3>4
    <3>6. a \in {PairAnswer(db.bindings, c) : c \in oldest}
      BY <2>1, <3>5 DEF PeersAnswers
    <3> QED
      BY <2>1, <2>3, <3>6 DEF PeersAnswers
  <2> QED
    BY <2>2, <2>3
<1> QED
  BY <1>1, <1>2

(* No call that reads is answered "ok": it is answered with rows.          *)
LEMMA ReadsAnswerRows ==
  ASSUME NEW db, NEW r, r.op \in Reads, NEW a \in Answers(db, r)
  PROVE  a # Done("ok")
<1>1. /\ Done("ok") = [is |-> "ok"] /\ DOMAIN Done("ok") = {"is"}
      /\ Done("not found") # Done("ok") /\ Done("revoked") # Done("ok")
  BY DEF Done
<1>2. \A x : [binding |-> x] # Done("ok") /\ [bindings |-> x] # Done("ok") /\ [events |-> x] # Done("ok")
  <2>1. \A x : /\ DOMAIN [binding |-> x] = {"binding"} /\ DOMAIN [bindings |-> x] = {"bindings"}
               /\ DOMAIN [events |-> x] = {"events"}
    OBVIOUS
  <2>2. {"binding"} # {"is"} /\ {"bindings"} # {"is"} /\ {"events"} # {"is"}
    OBVIOUS
  <2> QED
    BY <1>1, <2>1, <2>2, Zenon
<1> QED
  BY <1>1, <1>2 DEF Reads, Answers, PeersAnswers, PairAnswer

-----------------------------------------------------------------------------
(* The invariant. *)

(* A transaction that has the connection keeps the others from it. *)
LEMMA OneHolds ==
  ASSUME TypeOK, NEW w \in Worker, NEW v \in Worker, Holds(w), Holds(v)
  PROVE  v = w
BY DEF TypeOK

LEMMA InitIInv == Init => IInv
<1> SUFFICES ASSUME Init PROVE IInv
  OBVIOUS
<1>1. disk \in Tables /\ tx \in Tables
  BY CallsAssumption DEF Init
<1>2. call = [w \in Worker |-> NoCall]
  BY DEF Init
<1>3. \A w \in Worker : call[w].stage = "idle" /\ call[w] = NoCall
  BY <1>2 DEF NoCall
<1>4. TypeOK
  BY <1>1, <1>3, MaxCallsAssumption, WorkerAssumption DEF Init, TypeOK, Holds
<1> QED
  BY <1>2, <1>3, <1>4 DEF IInv, InProgress

(* What a step of w leaves alone: the call of every other worker, and with *)
(* it everything the invariant says of that call unless the step writes    *)
(* the tables.                                                             *)
LEMMA OthersInProgress ==
  ASSUME IInv, NEW w \in Worker, NEW c, call' = [call EXCEPT ![w] = c], NEW v \in Worker, v # w,
         call[v].stage \in {"open", "saving"} => disk' = disk /\ tx' = tx
  PROVE  InProgress(v)'
<1>1. call'[v] = call[v]
  BY DEF IInv
<1> QED
  BY <1>1 DEF IInv, InProgress

(* A call begins. *)
LEMMA CallStep ==
  ASSUME IInv, NEW w \in Worker, Call(w)
  PROVE  IInv'
<1>1. PICK r \in Requests : call' = [call EXCEPT ![w] = [stage |-> "waiting", req |-> r]]
  BY DEF Call
<1>2. call[w] = NoCall /\ UNCHANGED <<disk, tx, conn>> /\ calls < MaxCalls /\ calls' = calls + 1
  BY DEF Call
<1>3. call = [v \in Worker |-> call[v]] /\ TypeOK
  BY DEF IInv
<1>4. /\ call'[w] = [stage |-> "waiting", req |-> r]
      /\ \A v \in Worker \ {w} : call'[v] = call[v]
      /\ call' = [v \in Worker |-> call'[v]]
  BY <1>1, <1>3
<1>5. \A v \in Worker : Holds(v)' <=> Holds(v)
  BY <1>2, <1>4 DEF Holds, NoCall
<1>6. TypeOK'
  BY <1>2, <1>3, <1>4, <1>5, MaxCallsAssumption DEF TypeOK
<1>7. InProgress(w)'
  BY <1>4 DEF InProgress
<1> QED
  BY <1>1, <1>2, <1>4, <1>6, <1>7, OthersInProgress DEF IInv

(* The connection is given to a call that waits. *)
LEMMA BeginStep ==
  ASSUME IInv, NEW w \in Worker, Begin(w)
  PROVE  IInv'
<1> DEFINE c == [stage |-> "open", req |-> call[w].req]
<1>1. /\ call[w].stage = "waiting" /\ conn = None /\ conn' = w /\ tx' = disk
      /\ UNCHANGED <<disk, calls>> /\ call' = [call EXCEPT ![w].stage = "open"]
  BY DEF Begin
<1>2. call = [v \in Worker |-> call[v]] /\ TypeOK
  BY DEF IInv
<1>3. call[w].req \in Requests /\ call[w] = [stage |-> "waiting", req |-> call[w].req]
  BY <1>1 DEF IInv, InProgress
<1>4. [call[w] EXCEPT !.stage = "open"] = c
  BY <1>3
<1>5. call' = [call EXCEPT ![w] = c]
  BY <1>1, <1>4
<1>6. /\ call'[w] = c /\ \A v \in Worker \ {w} : call'[v] = call[v]
      /\ call' = [v \in Worker |-> call'[v]]
  BY <1>2, <1>5
<1>7. \A v \in Worker : ~Holds(v)
  BY <1>1, <1>2, WorkerAssumption DEF TypeOK
<1>8. \A v \in Worker : Holds(v)' <=> v = w
  BY <1>6, <1>7 DEF Holds
<1>9. TypeOK'
  BY <1>1, <1>2, <1>6, <1>8 DEF TypeOK
<1>10. InProgress(w)'
  BY <1>1, <1>3, <1>6 DEF InProgress
<1>11. \A v \in Worker : call[v].stage \notin {"open", "saving"}
  BY <1>7 DEF Holds
<1> QED
  BY <1>5, <1>6, <1>9, <1>10, <1>11, OthersInProgress DEF IInv

(* A call is answered and gives the connection back, with the file as it   *)
(* was or as the call leaves it.                                           *)
LEMMA AnswerStep ==
  ASSUME IInv, NEW w \in Worker, NEW a, Finish(w, a), UNCHANGED <<tx, calls>>,
         conn' = IF Holds(w) THEN None ELSE conn,
         disk' \in Tables, disk' # disk => Holds(w)
  PROVE  IInv'
<1> DEFINE c == [stage |-> "answered", answer |-> a]
<1>1. call' = [call EXCEPT ![w] = c]
  BY DEF Finish
<1>2. call = [v \in Worker |-> call[v]] /\ TypeOK
  BY DEF IInv
<1>3. /\ call'[w] = c /\ \A v \in Worker \ {w} : call'[v] = call[v]
      /\ call' = [v \in Worker |-> call'[v]]
  BY <1>1, <1>2
<1>4. ~Holds(w)' /\ \A v \in Worker \ {w} : Holds(v)' <=> Holds(v)
  BY <1>3 DEF Holds
<1>5. TypeOK'
  BY <1>2, <1>3, <1>4, WorkerAssumption DEF TypeOK
<1>6. InProgress(w)'
  BY <1>3 DEF InProgress
<1>7. ASSUME NEW v \in Worker, v # w PROVE InProgress(v)'
  <2>1. Holds(v) => disk' = disk /\ tx' = tx
    BY <1>2, <1>7, OneHolds
  <2> QED
    BY <1>1, <1>7, <2>1, OthersInProgress DEF Holds
<1> QED
  BY <1>3, <1>5, <1>6, <1>7 DEF IInv

(* A transaction has rows to save. *)
LEMMA LoadStep ==
  ASSUME IInv, NEW w \in Worker, Load(w)
  PROVE  IInv'
<1>1. call[w].stage = "open" /\ UNCHANGED <<disk, tx, calls>> /\ Holds(w)
  BY DEF Load, Holds
<1>2. /\ call = [v \in Worker |-> call[v]] /\ TypeOK /\ tx = disk /\ tx \in Tables /\ disk \in Tables
      /\ call[w].req \in Requests
  BY <1>1 DEF IInv, InProgress, TypeOK
<1>3. ASSUME NEW a, Finish(w, a), conn' = None
      PROVE  IInv'
  BY <1>1, <1>2, <1>3, AnswerStep
<1>4. ASSUME call[w].req.op \notin Reads, Done("ok") \in Verdicts(tx, call[w].req),
             NEW rows \in Writes(tx, call[w].req),
             call' = [call EXCEPT ![w] = [stage |-> "saving", req |-> call[w].req, todo |-> rows]],
             UNCHANGED conn
      PROVE  IInv'
  <2> DEFINE c == [stage |-> "saving", req |-> call[w].req, todo |-> rows]
  <2>1. /\ call'[w] = c /\ \A v \in Worker \ {w} : call'[v] = call[v]
        /\ call' = [v \in Worker |-> call'[v]]
    BY <1>2, <1>4
  <2>2. \A v \in Worker : Holds(v)' <=> Holds(v)
    BY <1>1, <2>1 DEF Holds
  <2>3. TypeOK'
    BY <1>1, <1>2, <1>4, <2>1, <2>2 DEF TypeOK
  <2>4. call[w].req \in Request /\ Writable(disk, call[w].req)
    BY <1>2, <1>4, CallsAssumption, VerdictsAreAnswers DEF Writable
  <2>5. rows \in Seq(WriteRow) /\ Pending(tx, rows, Effect(disk, call[w].req))
    BY <1>2, <1>4, <2>4, WritesPending
  <2>6. InProgress(w)'
    BY <1>1, <1>2, <2>1, <2>4, <2>5 DEF InProgress
  <2> QED
    BY <1>1, <1>4, <2>1, <2>3, <2>6, OthersInProgress DEF IInv
<1>5. PICK a \in Verdicts(tx, call[w].req) :
        IF call[w].req.op \in Reads \/ a # Done("ok")
        THEN Finish(w, a) /\ conn' = None
        ELSE /\ \E rows \in Writes(tx, call[w].req) :
                  call' = [call EXCEPT ![w] = [stage |-> "saving", req |-> call[w].req, todo |-> rows]]
             /\ UNCHANGED conn
  BY DEF Load
<1> QED
  BY <1>3, <1>4, <1>5

(* A row is saved. *)
LEMMA SaveStep ==
  ASSUME IInv, NEW w \in Worker, Save(w)
  PROVE  IInv'
<1> DEFINE todo == call[w].todo
           eff == Effect(disk, call[w].req)
           c == [stage |-> "saving", req |-> call[w].req, todo |-> Tail(todo)]
<1>1. /\ call[w].stage = "saving" /\ todo # <<>> /\ tx' = Saved(tx, Head(todo))
      /\ call' = [call EXCEPT ![w].todo = Tail(todo)] /\ UNCHANGED <<disk, conn, calls>>
  BY DEF Save
<1>2. /\ call = [v \in Worker |-> call[v]] /\ TypeOK /\ tx \in Tables /\ disk \in Tables
      /\ call[w] = [stage |-> "saving", req |-> call[w].req, todo |-> todo]
      /\ call[w].req \in Requests /\ Writable(disk, call[w].req)
      /\ todo \in Seq(WriteRow) /\ Pending(tx, todo, eff)
  BY <1>1 DEF IInv, InProgress, TypeOK
<1>3. eff \in Tables
  BY <1>2, CallsAssumption, EffectType
<1>4. tx' \in Tables /\ Tail(todo) \in Seq(WriteRow) /\ Pending(tx', Tail(todo), eff)
  <2> HIDE DEF todo, eff
  <2> QED
    BY <1>1, <1>2, <1>3, SaveOne
<1>5. [call[w] EXCEPT !.todo = Tail(todo)] = c
  <2> DEFINE rest == Tail(todo)
  <2> HIDE DEF rest
  <2>1. [call[w] EXCEPT !.todo = rest] = [stage |-> "saving", req |-> call[w].req, todo |-> rest]
    BY <1>2
  <2> QED
    BY <2>1 DEF rest
<1>6. call' = [call EXCEPT ![w] = c]
  BY <1>1, <1>5
<1>7. /\ call'[w] = c /\ \A v \in Worker \ {w} : call'[v] = call[v]
      /\ call' = [v \in Worker |-> call'[v]]
  BY <1>2, <1>6
<1>8. \A v \in Worker : Holds(v)' <=> Holds(v)
  BY <1>1, <1>7 DEF Holds
<1>9. TypeOK'
  BY <1>1, <1>2, <1>4, <1>7, <1>8 DEF TypeOK
<1>10. InProgress(w)'
  BY <1>1, <1>2, <1>4, <1>7 DEF InProgress
<1>11. ASSUME NEW v \in Worker, v # w PROVE InProgress(v)'
  <2>1. ~Holds(v)
    BY <1>1, <1>2, <1>11, OneHolds DEF Holds
  <2> QED
    BY <1>6, <1>11, <2>1, OthersInProgress DEF Holds
<1> QED
  BY <1>7, <1>9, <1>10, <1>11 DEF IInv

(* What a transaction that saved all its rows commits is what its call is  *)
(* to leave in the file as it now is.                                      *)
LEMMA CommitsTheEffect ==
  ASSUME IInv, NEW w \in Worker, Commit(w)
  PROVE  /\ call[w].req \in Requests /\ Writable(disk, call[w].req) /\ Holds(w)
         /\ disk' = Effect(disk, call[w].req) /\ disk' \in Tables
<1>1. call[w].stage = "saving" /\ call[w].todo = <<>> /\ disk' = tx
  BY DEF Commit
<1>2. /\ call[w].req \in Requests /\ Writable(disk, call[w].req)
      /\ tx \in Tables /\ disk \in Tables /\ Pending(tx, <<>>, Effect(disk, call[w].req))
  BY <1>1 DEF IInv, InProgress, TypeOK
<1>3. Effect(disk, call[w].req) \in Tables
  BY <1>2, CallsAssumption, EffectType
<1>4. tx = Effect(disk, call[w].req)
  BY <1>2, <1>3, NothingLeft
<1> QED
  BY <1>1, <1>2, <1>4 DEF Holds

(* An answer is returned. *)
LEMMA ReturnStep ==
  ASSUME IInv, NEW w \in Worker, Return(w)
  PROVE  IInv'
<1>1. /\ call[w].stage = "answered" /\ call' = [call EXCEPT ![w] = NoCall]
      /\ UNCHANGED <<disk, tx, conn, calls>>
  BY DEF Return
<1>2. call = [v \in Worker |-> call[v]] /\ TypeOK
  BY DEF IInv
<1>3. /\ call'[w] = NoCall /\ \A v \in Worker \ {w} : call'[v] = call[v]
      /\ call' = [v \in Worker |-> call'[v]]
  BY <1>1, <1>2
<1>4. \A v \in Worker : Holds(v)' <=> Holds(v)
  BY <1>1, <1>3 DEF Holds, NoCall
<1>5. TypeOK'
  BY <1>1, <1>2, <1>3, <1>4 DEF TypeOK, NoCall
<1>6. InProgress(w)'
  BY <1>3 DEF InProgress, NoCall
<1> QED
  BY <1>1, <1>3, <1>5, <1>6, OthersInProgress DEF IInv

(* The process ends. *)
LEMMA CrashStep ==
  ASSUME IInv, Crash
  PROVE  IInv'
<1>1. call' = [w \in Worker |-> NoCall] /\ conn' = None /\ UNCHANGED <<disk, tx, calls>>
  BY DEF Crash
<1>2. \A w \in Worker : call'[w] = NoCall
  BY <1>1
<1>3. TypeOK'
  BY <1>1, <1>2, WorkerAssumption DEF IInv, TypeOK, Holds, NoCall
<1> QED
  BY <1>1, <1>2, <1>3 DEF IInv, InProgress, NoCall

(* The invariant is inductive. *)
LEMMA NextIInv == IInv /\ [Next]_vars => IInv'
<1> SUFFICES ASSUME IInv, [Next]_vars PROVE IInv'
  OBVIOUS
<1>1. CASE UNCHANGED vars
  BY <1>1 DEF vars, IInv, TypeOK, InProgress, Holds
<1>2. CASE Crash
  BY <1>2, CrashStep
<1>3. ASSUME NEW w \in Worker, Commit(w) PROVE IInv'
  BY <1>3, CommitsTheEffect, AnswerStep DEF Commit
<1>4. ASSUME NEW w \in Worker, Fail(w) PROVE IInv'
  <2>1. disk' = disk /\ disk \in Tables
    BY <1>4 DEF Fail, IInv, TypeOK
  <2> QED
    BY <1>4, <2>1, AnswerStep DEF Fail
<1> QED
  BY <1>1, <1>2, <1>3, <1>4, CallStep, BeginStep, LoadStep, SaveStep, ReturnStep DEF Next, Step

-----------------------------------------------------------------------------
(* The theorems. *)

(* The tables, the connection and the calls have their types, and the      *)
(* connection is with the one call whose transaction is open.              *)
THEOREM TypeCorrect == Spec => []TypeOK
<1>1. IInv => TypeOK
  BY DEF IInv
<1> QED
  BY InitIInv, NextIInv, <1>1, PTL DEF Spec

(* The file is written by a commit alone, and as the call is to leave it.  *)
LEMMA FileWritten ==
  ASSUME IInv, [Next]_vars
  PROVE  \/ disk' = disk
         \/ \E w \in Worker : Commit(w) /\ disk' = Effect(disk, call[w].req)
BY CommitsTheEffect DEF Next, Step, Call, Begin, Fail, Load, Save, Return, Crash, vars

(* The time a binding was last connected never moves back in the file: the *)
(* rows a transaction saves have been compared with the rows that are      *)
(* there when it commits (sqlite.go, NoteDeviceSeen).                      *)
THEOREM SeenAdvances == Spec => LastConnectedAdvances
<1>1. ASSUME IInv, [Next]_vars
      PROVE  \A b \in DOMAIN disk.bindings : disk.bindings[b].seen <= disk'.bindings[b].seen
  <2>1. disk \in Tables
    BY <1>1 DEF IInv, TypeOK
  <2>2. CASE disk' = disk
    <3>1. \A b \in DOMAIN disk.bindings : disk.bindings[b] \in StoredBinding
      BY <2>1, TablesFields, RowsOfSeq
    <3>2. \A b \in DOMAIN disk.bindings : disk.bindings[b].seen \in Nat
      BY <3>1 DEF StoredBinding
    <3> QED
      BY <2>2, <3>2
  <2>3. ASSUME NEW w \in Worker, Commit(w), disk' = Effect(disk, call[w].req)
        PROVE  \A b \in DOMAIN disk.bindings : disk.bindings[b].seen <= disk'.bindings[b].seen
    <3>1. call[w].req \in Request /\ Writable(disk, call[w].req)
      BY <1>1, <2>3, CommitsTheEffect, CallsAssumption
    <3> QED
      BY <2>1, <2>3, <3>1, EffectSeen
  <2> QED
    BY <1>1, <2>2, <2>3, FileWritten
<1>2. IInv /\ [Next]_vars =>
        [\A b \in DOMAIN disk.bindings : disk.bindings[b].seen <= disk'.bindings[b].seen]_vars
  BY <1>1
<1> QED
  BY InitIInv, NextIInv, <1>2, PTL DEF Spec, LastConnectedAdvances

(* What StorePromise sees of the calls. *)
AskView == [w \in Worker |-> AskOf(call[w])]

(* A step that gives one call another stage. *)
LEMMA AskChanges ==
  ASSUME IInv, NEW w \in Worker, NEW c, call' = [call EXCEPT ![w] = c]
  PROVE  AskView' = [AskView EXCEPT ![w] = AskOf(c)]
<1>1. call'[w] = c /\ \A v \in Worker \ {w} : call'[v] = call[v]
  BY DEF IInv
<1>2. \A v \in Worker : AskOf(call'[v]) = IF v = w THEN AskOf(c) ELSE AskOf(call[v])
  BY <1>1
<1>3. AskView' = [v \in Worker |-> AskOf(call'[v])]
  BY DEF AskView
<1>4. AskView' = [v \in Worker |-> IF v = w THEN AskOf(c) ELSE AskOf(call[v])]
  BY <1>2, <1>3
<1> QED
  BY <1>4 DEF AskView

(* A new call is asked. *)
LEMMA CallIsAsk ==
  ASSUME IInv, NEW w \in Worker, Call(w)
  PROVE  Promise!Ask(w)
<1>1. PICK r \in Requests : call' = [call EXCEPT ![w] = [stage |-> "waiting", req |-> r]]
  BY DEF Call
<1>2. call[w] = NoCall /\ UNCHANGED disk
  BY DEF Call
<1>3. AskView[w] = [state |-> "idle"]
  BY <1>2 DEF AskView, AskOf, NoCall
<1>4. AskView' = [AskView EXCEPT ![w] = [state |-> "asked", req |-> r]]
  BY <1>1, AskChanges DEF AskOf
<1> QED
  BY <1>2, <1>3, <1>4 DEF Promise!Ask, Promise!Idle, Promise!Asked, AskView

(* A call in progress is one that was asked. *)
LEMMA AskedView ==
  ASSUME NEW w \in Worker, call[w].stage \in {"waiting", "open", "saving"}
  PROVE  AskView[w] = [state |-> "asked", req |-> call[w].req]
BY DEF AskView, AskOf

(* The answer that a call finishes with is one StorePromise gives, and the *)
(* file is then as StorePromise has it.                                    *)
LEMMA FinishIsTake ==
  ASSUME IInv, NEW w \in Worker, call[w].stage \in {"waiting", "open", "saving"},
         NEW a \in Answers(disk, call[w].req), Finish(w, a),
         disk' = IF a = Done("ok") THEN Effect(disk, call[w].req) ELSE disk
  PROVE  Promise!Take(w)
<1>1. AskView[w] = [state |-> "asked", req |-> call[w].req]
  BY AskedView
<1>2. AskView' = [AskView EXCEPT ![w] = [state |-> "answered", answer |-> a]]
  BY AskChanges DEF Finish, AskOf
<1>3. AskView[w].state = "asked" /\ AskView[w].req = call[w].req
  BY <1>1
<1>4. a \in Promise!Answers(disk, AskView[w].req)
  BY <1>3, SameCalls
<1>5. disk' = IF a = Promise!Done("ok") THEN Promise!Effect(disk, AskView[w].req) ELSE disk
  BY <1>3, SameCalls
<1> QED
  BY <1>2, <1>3, <1>4, <1>5 DEF Promise!Take, Promise!Answered, AskView

(* A call whose rows answer it takes effect as it is answered; one that    *)
(* has rows to save has not yet.                                           *)
LEMMA LoadIsTake ==
  ASSUME IInv, NEW w \in Worker, Load(w)
  PROVE  Promise!Take(w) \/ UNCHANGED <<disk, AskView>>
<1>1. call[w].stage = "open" /\ UNCHANGED disk
  BY DEF Load
<1>2. tx = disk /\ disk \in Tables
  BY <1>1 DEF IInv, InProgress, TypeOK
<1>3. PICK a \in Verdicts(tx, call[w].req) :
        IF call[w].req.op \in Reads \/ a # Done("ok")
        THEN Finish(w, a) /\ conn' = None
        ELSE /\ \E rows \in Writes(tx, call[w].req) :
                  call' = [call EXCEPT ![w] = [stage |-> "saving", req |-> call[w].req, todo |-> rows]]
             /\ UNCHANGED conn
  BY DEF Load
<1>4. a \in Answers(disk, call[w].req)
  BY <1>2, <1>3, VerdictsAreAnswers
<1>5. CASE call[w].req.op \in Reads \/ a # Done("ok")
  <2>1. a # Done("ok")
    BY <1>4, <1>5, ReadsAnswerRows
  <2> QED
    BY <1>1, <1>3, <1>4, <1>5, <2>1, FinishIsTake
<1>6. CASE ~(call[w].req.op \in Reads \/ a # Done("ok"))
  <2>1. PICK rows : call' = [call EXCEPT ![w] = [stage |-> "saving", req |-> call[w].req, todo |-> rows]]
    BY <1>3, <1>6
  <2>2. AskView' = [AskView EXCEPT ![w] = [state |-> "asked", req |-> call[w].req]]
    <3>1. AskOf([stage |-> "saving", req |-> call[w].req, todo |-> rows]) = [state |-> "asked", req |-> call[w].req]
      BY DEF AskOf
    <3> QED
      BY <2>1, <3>1, AskChanges
  <2>3. AskView[w] = [state |-> "asked", req |-> call[w].req]
    BY <1>1, AskedView
  <2>4. AskView' = AskView
    BY <2>2, <2>3 DEF AskView
  <2> QED
    BY <1>1, <2>4
<1> QED
  BY <1>5, <1>6

(* A commit is where a writing call takes effect, on the file as it is.    *)
LEMMA CommitIsTake ==
  ASSUME IInv, NEW w \in Worker, Commit(w)
  PROVE  Promise!Take(w)
<1>1. call[w].stage = "saving" /\ Finish(w, Done("ok"))
  BY DEF Commit
<1>2. Done("ok") \in Answers(disk, call[w].req) /\ disk' = Effect(disk, call[w].req)
  BY CommitsTheEffect DEF Writable
<1> QED
  BY <1>1, <1>2, FinishIsTake

(* A call that fails has left the file alone. *)
LEMMA FailIsRefuse ==
  ASSUME IInv, NEW w \in Worker, Fail(w)
  PROVE  Promise!Refuse(w)
<1>1. call[w].stage \in {"waiting", "open", "saving"} /\ Finish(w, Done("failed")) /\ UNCHANGED disk
  BY DEF Fail, Holds
<1>2. AskView' = [AskView EXCEPT ![w] = [state |-> "answered", answer |-> Done("failed")]]
  BY <1>1, AskChanges DEF Finish, AskOf
<1>3. AskView[w] = [state |-> "asked", req |-> call[w].req]
  BY <1>1, AskedView
<1>4. Promise!Answered(Promise!Done("failed")) = [state |-> "answered", answer |-> Done("failed")]
  BY SameCalls DEF Promise!Answered
<1>5. AskView[w].state = "asked"
  BY <1>3
<1> QED
  BY <1>1, <1>2, <1>4, <1>5 DEF Promise!Refuse, AskView

(* Waiting for the connection and saving rows are not seen. *)
LEMMA InsideUnseen ==
  ASSUME IInv, NEW w \in Worker, Begin(w) \/ Save(w)
  PROVE  UNCHANGED <<disk, AskView>>
<1>1. /\ UNCHANGED disk /\ call[w].stage \in {"waiting", "saving"}
      /\ \/ call' = [call EXCEPT ![w] = [call[w] EXCEPT !.stage = "open"]]
         \/ call[w].stage = "saving" /\ call' = [call EXCEPT ![w] = [call[w] EXCEPT !.todo = Tail(call[w].todo)]]
  BY DEF Begin, Save
<1>2. \/ call[w] = [stage |-> "waiting", req |-> call[w].req]
      \/ call[w] = [stage |-> "saving", req |-> call[w].req, todo |-> call[w].todo]
  BY <1>1 DEF IInv, InProgress
<1>3. ASSUME NEW c, call' = [call EXCEPT ![w] = c], c.stage \in {"open", "saving"}, c.req = call[w].req
      PROVE  AskView' = AskView
  <2>1. AskView' = [AskView EXCEPT ![w] = [state |-> "asked", req |-> call[w].req]]
    <3>1. AskOf(c) = [state |-> "asked", req |-> call[w].req]
      BY <1>3 DEF AskOf
    <3> QED
      BY <1>3, <3>1, AskChanges
  <2>2. AskView[w] = [state |-> "asked", req |-> call[w].req]
    BY <1>1, AskedView
  <2> QED
    BY <2>1, <2>2 DEF AskView
<1>4. \A x : /\ [call[w] EXCEPT !.stage = "open"].stage = "open"
             /\ [call[w] EXCEPT !.stage = "open"].req = call[w].req
             /\ [call[w] EXCEPT !.todo = x].stage = call[w].stage
             /\ [call[w] EXCEPT !.todo = x].req = call[w].req
  BY <1>2
<1> QED
  BY <1>1, <1>3, <1>4

(* An answer is returned. *)
LEMMA ReturnIsReturn ==
  ASSUME IInv, NEW w \in Worker, Return(w)
  PROVE  Promise!Return(w)
<1>1. call[w].stage = "answered" /\ call' = [call EXCEPT ![w] = NoCall] /\ UNCHANGED disk
  BY DEF Return
<1>2. AskView' = [AskView EXCEPT ![w] = [state |-> "idle"]]
  BY <1>1, AskChanges DEF AskOf, NoCall
<1>3. AskView[w].state = "answered"
  BY <1>1 DEF AskView, AskOf
<1> QED
  BY <1>1, <1>2, <1>3 DEF Promise!Return, Promise!Idle, AskView

(* When the process ends, the calls in progress are gone. *)
LEMMA CrashIsRestart == Crash => Promise!Restart
<1> SUFFICES ASSUME Crash PROVE Promise!Restart
  OBVIOUS
<1>1. call' = [w \in Worker |-> NoCall] /\ UNCHANGED disk
  BY DEF Crash
<1>2. AskView' = [w \in Worker |-> [state |-> "idle"]]
  BY <1>1 DEF AskView, AskOf, NoCall
<1> QED
  BY <1>1, <1>2 DEF Promise!Restart, Promise!Idle, AskView

(* The durable store keeps the promise of store.Store: whatever is saved   *)
(* row by row, fails, or ends with the process, each call takes effect in  *)
(* one step, on the tables of that moment, or not at all.                  *)
THEOREM CallsAreAtomic == Spec => KeepsStorePromise
<1>1. Init => Promise!Init
  <2> SUFFICES ASSUME Init PROVE Promise!Init
    OBVIOUS
  <2>1. AskView = [w \in Worker |-> [state |-> "idle"]]
    BY DEF Init, AskView, AskOf, NoCall
  <2> QED
    BY <2>1 DEF Init, Promise!Init, Promise!Idle, AskView
<1>2. IInv /\ [Next]_vars => [Promise!Next]_<<disk, AskView>>
  <2> SUFFICES ASSUME IInv, [Next]_vars PROVE Promise!Next \/ UNCHANGED <<disk, AskView>>
    OBVIOUS
  <2>1. CASE UNCHANGED vars
    BY <2>1 DEF vars, AskView
  <2>2. CASE Crash
    BY <2>2, CrashIsRestart DEF Promise!Next
  <2>3. ASSUME NEW w \in Worker, Call(w) \/ Begin(w) \/ Fail(w) \/ Step(w)
        PROVE  Promise!Next \/ UNCHANGED <<disk, AskView>>
    BY <2>3, CallIsAsk, LoadIsTake, CommitIsTake, FailIsRefuse, InsideUnseen, ReturnIsReturn
       DEF Step, Promise!Next
  <2> QED
    BY <2>1, <2>2, <2>3 DEF Next
<1> QED
  BY InitIInv, NextIInv, <1>1, <1>2, PTL DEF Spec, KeepsStorePromise, Promise!Spec, AskView

=============================================================================
