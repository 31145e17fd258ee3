---------------------------- MODULE StorePromise ----------------------------
(***************************************************************************)
(* The store the hub is written against: every call takes effect in one    *)
(* step between its beginning and its answer, or not at all, and what was  *)
(* answered "ok" is never lost.  A call that fails for a reason of the     *)
(* machine leaves the tables alone.  When the hub's process ends, the calls*)
(* in progress are gone and the tables are as they were.                   *)
(***************************************************************************)
EXTENDS StoreCalls

VARIABLES
  db,     \* the tables
  ask     \* ask[w]: Idle, the request in progress, or its answer

Idle == [state |-> "idle"]
Asked(r) == [state |-> "asked", req |-> r]
Answered(a) == [state |-> "answered", answer |-> a]

Init == db \in Files /\ ask = [w \in Worker |-> Idle]

Ask(w) ==
  /\ ask[w] = Idle
  /\ \E r \in Requests : ask' = [ask EXCEPT ![w] = Asked(r)]
  /\ UNCHANGED db

(* The call takes effect. *)
Take(w) ==
  /\ ask[w].state = "asked"
  /\ \E a \in Answers(db, ask[w].req) :
       /\ ask' = [ask EXCEPT ![w] = Answered(a)]
       /\ db' = IF a = Done("ok") THEN Effect(db, ask[w].req) ELSE db

Refuse(w) ==
  /\ ask[w].state = "asked"
  /\ ask' = [ask EXCEPT ![w] = Answered(Done("failed"))]
  /\ UNCHANGED db

Return(w) ==
  /\ ask[w].state = "answered"
  /\ ask' = [ask EXCEPT ![w] = Idle]
  /\ UNCHANGED db

Restart == ask' = [w \in Worker |-> Idle] /\ UNCHANGED db

Next == Restart \/ \E w \in Worker : Ask(w) \/ Take(w) \/ Refuse(w) \/ Return(w)

Spec == Init /\ [][Next]_<<db, ask>>
=============================================================================
