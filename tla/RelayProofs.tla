----------------------------- MODULE RelayProofs -----------------------------
(***************************************************************************)
(* The relay of any number of sockets, hosts and devices: the table conns  *)
(* and the handlers agree, frames go to bound peers only, and the          *)
(* last-connected time never moves back.                                   *)
(*                                                                         *)
(* The inductive invariant adds to the checked invariants that a handler   *)
(* past the upgrade knows whose socket it serves, that one that forwards   *)
(* has a destination, and that the two were bound when the frame was let   *)
(* through; rows are only added and marked, so they still name the pair    *)
(* when the frame is written.                                              *)
(***************************************************************************)
EXTENDS Relay, StoreProofs

(* Some row, revoked or not, binds the two. *)
Peers(rows, e, f) == PairRows(rows, e, f) \cup PairRows(rows, f, e) # {}

Identified ==
  \A s \in Sock :
    /\ pc[s] # "free" => who[s] \in Endpoint
    /\ pc[s] = "forwarding" => dst[s] \in Endpoint

ForwardsBetweenPeers ==
  \A s \in Sock : pc[s] = "forwarding" => Peers(bindings, dst[s], who[s])

Invariant ==
  /\ TypeOK
  /\ Identified
  /\ NoGhostPresence
  /\ ServedPeerIsReachable
  /\ ForwardsBetweenPeers
  /\ OnlyPeersAreHeard

-----------------------------------------------------------------------------
(* The rows of a pair. *)

(* Adding a binding keeps the rows a table of bindings and takes no pair   *)
(* apart.                                                                  *)
LEMMA BindKeepsPairs ==
  ASSUME NEW rows \in Seq(BindingRow), NEW row \in BindingRow
  PROVE  /\ PutBinding(rows, row) \in Seq(BindingRow)
         /\ \A e, f : PairRows(rows, e, f) \subseteq PairRows(PutBinding(rows, row), e, f)
BY AppendRow DEF PutBinding, PairRows

(* So does revoking one. *)
LEMMA RevokeKeepsPairs ==
  ASSUME NEW rows \in Seq(BindingRow), NEW b \in DOMAIN rows
  PROVE  /\ RevokeBinding(rows, b) \in Seq(BindingRow)
         /\ \A e, f : PairRows(rows, e, f) \subseteq PairRows(RevokeBinding(rows, b), e, f)
<1> DEFINE row == [rows[b] EXCEPT !.revoked = TRUE]
<1>1. RevokeBinding(rows, b) = [rows EXCEPT ![b] = row]
  BY DEF RevokeBinding
<1>2. rows[b] \in BindingRow
  BY RowsOfSeq
<1>3. row \in BindingRow /\ row.host = rows[b].host /\ row.device = rows[b].device
  BY <1>2 DEF BindingRow
<1> HIDE DEF row
<1>4. /\ [rows EXCEPT ![b] = row] \in Seq(BindingRow)
      /\ DOMAIN [rows EXCEPT ![b] = row] = DOMAIN rows
      /\ \A i \in DOMAIN rows : [rows EXCEPT ![b] = row][i] = IF i = b THEN row ELSE rows[i]
  BY <1>3, ExceptRow
<1> QED
  BY <1>1, <1>3, <1>4 DEF PairRows

(* A frame is only let through between two that some row binds. *)
LEMMA ForwardedAreBound ==
  ASSUME NEW e, NEW f, MayForward(f, e)
  PROVE  Peers(bindings, e, f)
BY DEF MayForward, BindingByPeers, Peers

(* No step takes a pair apart. *)
LEMMA PairsLast ==
  ASSUME TypeOK, [Next]_vars
  PROVE  /\ bindings' \in Seq(BindingRow)
         /\ \A e, f : Peers(bindings, e, f) => Peers(bindings', e, f)
<1>1. bindings \in Seq(BindingRow)
  BY DEF TypeOK
<1>2. CASE bindings' = bindings
  BY <1>1, <1>2
<1>3. CASE \E h \in Pub, d \in Device : Bind(h, d)
  <2>1. PICK h \in Pub, d \in Device : Bind(h, d)
    BY <1>3
  <2> DEFINE row == [host |-> h, device |-> d, session |-> Len(bindings) + 1, revoked |-> FALSE]
  <2>2. row \in BindingRow /\ bindings' = PutBinding(bindings, row)
    BY <1>1, <2>1, RowsOfSeq DEF Bind, BindingRow
  <2> HIDE DEF row
  <2> QED
    BY <1>1, <2>2, BindKeepsPairs DEF Peers
<1>4. CASE \E b \in DOMAIN bindings : Revoke(b)
  BY <1>1, <1>4, RevokeKeepsPairs DEF Revoke, Peers
<1>5. CASE \E s \in Sock : HandlerStep(s) \/ ClientStep(s)
  <2>1. bindings' = bindings
    BY <1>5 DEF HandlerStep, ClientStep, CheckHost, Insert, ReadClock, NoteSeen, WriteFrame,
       Remove, CloseOne, AcceptHost, AcceptDevice, ReadFrame, ReadError, ClientVanishes
  <2> QED
    BY <1>2, <2>1
<1>6. CASE Tick \/ ClosePeers
  BY <1>2, <1>6 DEF Tick, ClosePeers
<1> QED
  BY <1>2, <1>3, <1>4, <1>5, <1>6 DEF Next, vars

-----------------------------------------------------------------------------
(* The shape of the state and of the handlers. *)

(* Every step keeps the shape of the state. *)
LEMMA TypeStep ==
  ASSUME TypeOK, Identified, NoGhostPresence, [Next]_vars
  PROVE  TypeOK'
<1> USE DEF TypeOK, socketVars
<1>0. bindings' \in Seq(BindingRow)
  BY PairsLast
<1>1. CASE UNCHANGED vars
  BY <1>1 DEF vars
<1>2. ASSUME NEW h \in Pub, NEW d \in Device, Bind(h, d) PROVE TypeOK'
  BY <1>0, <1>2 DEF Bind
<1>3. ASSUME NEW b \in DOMAIN bindings, Revoke(b) PROVE TypeOK'
  BY <1>0, <1>3 DEF Revoke
<1>4. CASE Tick
  BY <1>4 DEF Tick
<1>5. CASE ClosePeers
  BY <1>5 DEF ClosePeers
<1>6. ASSUME NEW s \in Sock, HandlerStep(s) PROVE TypeOK'
  <2>1. CASE CheckHost(s)
    BY <2>1 DEF CheckHost, Stage
  <2>2. CASE Insert(s)
    BY <2>2 DEF Insert, GoTo, Stage
  <2>3. CASE ReadClock(s)
    BY <2>3 DEF ReadClock, GoTo, Stage
  <2>4. CASE NoteSeen(s)
    BY <2>4 DEF NoteSeen, NoteDeviceSeen, GoTo, Stage
  <2>5. CASE WriteFrame(s)
    <3>1. who[s] \in Endpoint
      BY <2>5 DEF WriteFrame, GoTo, Identified
    <3>2. wrote' \in [from : Endpoint, to : Endpoint] \cup {None}
      <4>1. dst[s] \in Endpoint
        BY <2>5 DEF WriteFrame, GoTo, Identified
      <4>2. conns[dst[s]] # None => who[conns[dst[s]]] \in Endpoint
        BY <4>1 DEF NoGhostPresence
      <4> QED
        BY <2>5, <3>1, <4>2 DEF WriteFrame
    <3> QED
      BY <2>5, <3>2 DEF WriteFrame, GoTo, Stage
  <2>6. CASE Remove(s)
    BY <2>6 DEF Remove, GoTo, Stage
  <2>7. CASE CloseOne(s)
    BY <2>7 DEF CloseOne
  <2> QED
    BY <1>6, <2>1, <2>2, <2>3, <2>4, <2>5, <2>6, <2>7 DEF HandlerStep
<1>7. ASSUME NEW s \in Sock, ClientStep(s) PROVE TypeOK'
  <2>1. ASSUME NEW h \in Pub, AcceptHost(s, h) PROVE TypeOK'
    BY <2>1 DEF AcceptHost, GoTo, Stage, Endpoint
  <2>2. ASSUME NEW b \in DOMAIN bindings, AcceptDevice(s, b) PROVE TypeOK'
    <3>0. bindings[b] \in BindingRow
      BY <2>2, RowsOfSeq
    <3>1. bindings[b].host \in Pub /\ bindings[b].device \in Device
      BY <3>0 DEF BindingRow
    <3> QED
      BY <2>2, <3>1 DEF AcceptDevice, GoTo, Stage, Endpoint
  <2>3. ASSUME NEW e \in Endpoint, ReadFrame(s, e) PROVE TypeOK'
    BY <2>3 DEF ReadFrame, GoTo, Stage
  <2>4. CASE ReadError(s)
    BY <2>4 DEF ReadError, GoTo, Stage
  <2>5. CASE ClientVanishes(s)
    BY <2>5 DEF ClientVanishes
  <2> QED
    BY <1>7, <2>1, <2>2, <2>3, <2>4, <2>5 DEF ClientStep
<1> QED
  BY <1>1, <1>2, <1>3, <1>4, <1>5, <1>6, <1>7 DEF Next

(* A handler past the upgrade keeps the key it was given, one that starts  *)
(* to forward gets a destination.                                          *)
LEMMA IdentifiedStep ==
  ASSUME TypeOK, Identified, [Next]_vars
  PROVE  Identified'
<1> USE DEF Identified, socketVars
<1>1. CASE UNCHANGED <<pc, who, dst>>
  BY <1>1
<1>2. ASSUME NEW s \in Sock, HandlerStep(s) PROVE Identified'
  <2> USE DEF TypeOK, GoTo
  <2>1. CASE CheckHost(s)
    BY <2>1 DEF CheckHost
  <2>2. CASE Insert(s)
    BY <2>2 DEF Insert
  <2>3. CASE ReadClock(s)
    BY <2>3 DEF ReadClock
  <2>4. CASE NoteSeen(s)
    BY <2>4 DEF NoteSeen
  <2>5. CASE WriteFrame(s)
    BY <2>5 DEF WriteFrame
  <2>6. CASE Remove(s)
    BY <2>6 DEF Remove
  <2>7. CASE CloseOne(s)
    BY <2>7, <1>1 DEF CloseOne
  <2> QED
    BY <1>2, <2>1, <2>2, <2>3, <2>4, <2>5, <2>6, <2>7 DEF HandlerStep
<1>3. ASSUME NEW s \in Sock, ClientStep(s) PROVE Identified'
  <2> USE DEF TypeOK, GoTo
  <2>1. ASSUME NEW h \in Pub, AcceptHost(s, h) PROVE Identified'
    BY <2>1 DEF AcceptHost, Endpoint
  <2>2. ASSUME NEW b \in DOMAIN bindings, AcceptDevice(s, b) PROVE Identified'
    <3>0. bindings[b] \in BindingRow
      BY <2>2, RowsOfSeq
    <3>1. bindings[b].device \in Endpoint
      BY <3>0 DEF BindingRow, Endpoint
    <3> QED
      BY <2>2, <3>1 DEF AcceptDevice
  <2>3. ASSUME NEW e \in Endpoint, ReadFrame(s, e) PROVE Identified'
    BY <2>3 DEF ReadFrame
  <2>4. CASE ReadError(s)
    BY <2>4 DEF ReadError
  <2>5. CASE ClientVanishes(s)
    BY <2>5, <1>1 DEF ClientVanishes
  <2> QED
    BY <1>3, <2>1, <2>2, <2>3, <2>4, <2>5 DEF ClientStep
<1> QED
  BY <1>1, <1>2, <1>3 DEF Next, Bind, Revoke, Tick, ClosePeers, vars

-----------------------------------------------------------------------------
(* The table and the handlers. *)

(* A handler that leaves takes its own entry with it; the table names only *)
(* handlers that have entered it, each under its own key.                  *)
LEMMA PresenceStep ==
  ASSUME TypeOK, Identified, NoGhostPresence, [Next]_vars
  PROVE  NoGhostPresence'
<1> USE DEF NoGhostPresence, socketVars
<1>1. CASE UNCHANGED <<conns, pc, who>>
  BY <1>1
<1>2. CASE ClosePeers
  BY <1>2 DEF ClosePeers
<1>3. ASSUME NEW s \in Sock, HandlerStep(s) PROVE NoGhostPresence'
  <2> USE DEF TypeOK, GoTo
  <2>1. CASE CheckHost(s)
    BY <2>1 DEF CheckHost
  <2>2. CASE Insert(s)
    BY <2>2 DEF Insert, Identified
  <2>3. CASE ReadClock(s)
    BY <2>3 DEF ReadClock
  <2>4. CASE NoteSeen(s)
    BY <2>4 DEF NoteSeen
  <2>5. CASE WriteFrame(s)
    BY <2>5 DEF WriteFrame
  <2>6. CASE Remove(s)
    BY <2>6 DEF Remove
  <2>7. CASE CloseOne(s)
    BY <2>7, <1>1 DEF CloseOne
  <2> QED
    BY <1>3, <2>1, <2>2, <2>3, <2>4, <2>5, <2>6, <2>7 DEF HandlerStep
<1>4. ASSUME NEW s \in Sock, ClientStep(s) PROVE NoGhostPresence'
  <2> USE DEF TypeOK, GoTo
  <2>1. ASSUME NEW h \in Pub, AcceptHost(s, h) PROVE NoGhostPresence'
    BY <2>1 DEF AcceptHost
  <2>2. ASSUME NEW b \in DOMAIN bindings, AcceptDevice(s, b) PROVE NoGhostPresence'
    BY <2>2 DEF AcceptDevice
  <2>3. ASSUME NEW e \in Endpoint, ReadFrame(s, e) PROVE NoGhostPresence'
    BY <2>3 DEF ReadFrame
  <2>4. CASE ReadError(s)
    BY <2>4 DEF ReadError
  <2>5. CASE ClientVanishes(s)
    BY <2>5, <1>1 DEF ClientVanishes
  <2> QED
    BY <1>4, <2>1, <2>2, <2>3, <2>4, <2>5 DEF ClientStep
<1> QED
  BY <1>1, <1>2, <1>3, <1>4 DEF Next, Bind, Revoke, Tick, vars

(* A socket that enters closes the one it replaces, so the replaced one is *)
(* no longer open; ClosePeers takes the served sockets out of the table    *)
(* into those it goes on to close.                                         *)
LEMMA ServedStep ==
  ASSUME TypeOK, Identified, NoGhostPresence, ServedPeerIsReachable, [Next]_vars
  PROVE  ServedPeerIsReachable'
<1> USE DEF ServedPeerIsReachable, Serving, socketVars
<1>1. CASE UNCHANGED <<conns, pc, who, open, closing>>
  BY <1>1
<1>2. CASE ClosePeers
  BY <1>2 DEF ClosePeers, Identified
<1>3. ASSUME NEW s \in Sock, HandlerStep(s) PROVE ServedPeerIsReachable'
  <2> USE DEF TypeOK, GoTo
  <2>1. CASE CheckHost(s)
    BY <2>1 DEF CheckHost
  <2>2. CASE Insert(s)
    BY <2>2 DEF Insert, Identified
  <2>3. CASE ReadClock(s)
    BY <2>3 DEF ReadClock
  <2>4. CASE NoteSeen(s)
    BY <2>4 DEF NoteSeen
  <2>5. CASE WriteFrame(s)
    BY <2>5 DEF WriteFrame
  <2>6. CASE Remove(s)
    BY <2>6 DEF Remove
  <2>7. CASE CloseOne(s)
    BY <2>7 DEF CloseOne
  <2> QED
    BY <1>3, <2>1, <2>2, <2>3, <2>4, <2>5, <2>6, <2>7 DEF HandlerStep
<1>4. ASSUME NEW s \in Sock, ClientStep(s) PROVE ServedPeerIsReachable'
  <2> USE DEF TypeOK, GoTo
  <2>1. ASSUME NEW h \in Pub, AcceptHost(s, h) PROVE ServedPeerIsReachable'
    BY <2>1 DEF AcceptHost
  <2>2. ASSUME NEW b \in DOMAIN bindings, AcceptDevice(s, b) PROVE ServedPeerIsReachable'
    BY <2>2 DEF AcceptDevice
  <2>3. ASSUME NEW e \in Endpoint, ReadFrame(s, e) PROVE ServedPeerIsReachable'
    BY <2>3 DEF ReadFrame
  <2>4. CASE ReadError(s)
    BY <2>4 DEF ReadError
  <2>5. CASE ClientVanishes(s)
    BY <2>5, <1>1 DEF ClientVanishes
  <2> QED
    BY <1>4, <2>1, <2>2, <2>3, <2>4, <2>5 DEF ClientStep
<1> QED
  BY <1>1, <1>2, <1>3, <1>4 DEF Next, Bind, Revoke, Tick, vars

-----------------------------------------------------------------------------
(* Frames and times. *)

(* A frame is let through between peers, and they are peers still when it  *)
(* is written.                                                             *)
LEMMA ForwardStep ==
  ASSUME TypeOK, Identified, ForwardsBetweenPeers, [Next]_vars
  PROVE  ForwardsBetweenPeers'
<1> USE DEF ForwardsBetweenPeers, socketVars
<1>0. \A e, f : Peers(bindings, e, f) => Peers(bindings', e, f)
  BY PairsLast
<1>1. CASE UNCHANGED <<pc, who, dst>>
  BY <1>0, <1>1
<1>2. ASSUME NEW s \in Sock, HandlerStep(s) PROVE ForwardsBetweenPeers'
  <2> USE <1>0 DEF TypeOK, GoTo
  <2>1. CASE CheckHost(s)
    BY <2>1 DEF CheckHost
  <2>2. CASE Insert(s)
    BY <2>2 DEF Insert
  <2>3. CASE ReadClock(s)
    BY <2>3 DEF ReadClock
  <2>4. CASE NoteSeen(s)
    BY <2>4 DEF NoteSeen
  <2>5. CASE WriteFrame(s)
    BY <2>5 DEF WriteFrame
  <2>6. CASE Remove(s)
    BY <2>6 DEF Remove
  <2>7. CASE CloseOne(s)
    BY <2>7, <1>1 DEF CloseOne
  <2> QED
    BY <1>2, <2>1, <2>2, <2>3, <2>4, <2>5, <2>6, <2>7 DEF HandlerStep
<1>3. ASSUME NEW s \in Sock, ClientStep(s) PROVE ForwardsBetweenPeers'
  <2> USE <1>0 DEF TypeOK, GoTo
  <2>1. ASSUME NEW h \in Pub, AcceptHost(s, h) PROVE ForwardsBetweenPeers'
    BY <2>1 DEF AcceptHost
  <2>2. ASSUME NEW b \in DOMAIN bindings, AcceptDevice(s, b) PROVE ForwardsBetweenPeers'
    BY <2>2 DEF AcceptDevice
  <2>3. ASSUME NEW e \in Endpoint, ReadFrame(s, e) PROVE ForwardsBetweenPeers'
    <3>1. Peers(bindings, e, who[s])
      BY <2>3, ForwardedAreBound DEF ReadFrame
    <3> QED
      BY <2>3, <3>1 DEF ReadFrame
  <2>4. CASE ReadError(s)
    BY <2>4 DEF ReadError
  <2>5. CASE ClientVanishes(s)
    BY <2>5, <1>1 DEF ClientVanishes
  <2> QED
    BY <1>3, <2>1, <2>2, <2>3, <2>4, <2>5 DEF ClientStep
<1> QED
  BY <1>1, <1>2, <1>3 DEF Next, Bind, Revoke, Tick, ClosePeers, vars

(* What was written to a peer's socket came from its peers: the table      *)
(* names a socket of that peer.                                            *)
LEMMA HeardStep ==
  ASSUME TypeOK, Identified, NoGhostPresence, ForwardsBetweenPeers, OnlyPeersAreHeard, [Next]_vars
  PROVE  OnlyPeersAreHeard'
<1>0. \A e, f : Peers(bindings, e, f) => Peers(bindings', e, f)
  BY PairsLast
<1>1. wrote # None => Peers(bindings, wrote.from, wrote.to)
  BY DEF OnlyPeersAreHeard, Peers
<1>2. SUFFICES wrote' # None => Peers(bindings', wrote'.from, wrote'.to)
  BY DEF OnlyPeersAreHeard, Peers
<1>3. CASE wrote' = wrote
  BY <1>0, <1>1, <1>3
<1>4. ASSUME NEW s \in Sock, WriteFrame(s)
      PROVE  wrote' # None => Peers(bindings', wrote'.from, wrote'.to)
  <2>1. pc[s] = "forwarding" /\ dst[s] \in Endpoint
    BY <1>4 DEF WriteFrame, GoTo, Identified
  <2>2. Peers(bindings, who[s], dst[s])
    BY <2>1 DEF ForwardsBetweenPeers, Peers
  <2>3. conns[dst[s]] # None => who[conns[dst[s]]] = dst[s]
    BY <2>1 DEF NoGhostPresence
  <2>4. wrote' = wrote \/ wrote' = [from |-> who[s], to |-> dst[s]]
    BY <1>4, <2>3 DEF WriteFrame
  <2> QED
    BY <1>0, <1>3, <2>2, <2>4
<1>5. CASE \E s \in Sock : HandlerStep(s) \/ ClientStep(s)
  BY <1>3, <1>4, <1>5 DEF HandlerStep, ClientStep, CheckHost, Insert, ReadClock, NoteSeen,
     Remove, CloseOne, AcceptHost, AcceptDevice, ReadFrame, ReadError, ClientVanishes
<1> QED
  BY <1>3, <1>5 DEF Next, Bind, Revoke, Tick, ClosePeers, vars

(* A look-up succeeds only while some row binds the two. *)
LEMMA LookUpsNeedForce ==
  ASSUME TypeOK, NEW a, NEW b, MayForward(a, b)
  PROVE  InForce(a, b)
<1>1. ASSUME NEW h, NEW d, BindingByPeers(bindings, h, d)
      PROVE  \E i \in PairRows(bindings, h, d) : ~bindings[i].revoked
  <2>1. PairRows(bindings, h, d) # {} /\ PairRows(bindings, h, d) \subseteq Nat
    BY <1>1 DEF BindingByPeers, PairRows, TypeOK
  <2>2. Min(PairRows(bindings, h, d)) \in PairRows(bindings, h, d)
    BY <2>1, MinProperty
  <2> QED
    BY <1>1, <2>2 DEF BindingByPeers
<1> QED
  BY <1>1 DEF MayForward, InForce

(* While no binding of a pair is in force, no step puts a frame of it on   *)
(* its way.                                                                *)
LEMMA SilenceStep ==
  ASSUME NEW e, NEW f, TypeOK, ~InForce(e, f), ~OnItsWay(e, f), [Next]_vars
  PROVE  ~OnItsWay(e, f)'
<1> USE DEF OnItsWay, socketVars
<1>1. CASE UNCHANGED <<pc, who, dst>>
  BY <1>1
<1>2. ASSUME NEW s \in Sock, HandlerStep(s) PROVE ~OnItsWay(e, f)'
  BY <1>1, <1>2 DEF HandlerStep, GoTo, TypeOK, CheckHost, Insert, ReadClock, NoteSeen,
     WriteFrame, Remove, CloseOne
<1>3. ASSUME NEW s \in Sock, NEW g \in Endpoint, ReadFrame(s, g) PROVE ~OnItsWay(e, f)'
  <2>1. InForce(who[s], g)
    BY <1>3, LookUpsNeedForce DEF ReadFrame
  <2>2. {who[s], g} # {e, f}
    BY <2>1 DEF InForce
  <2> QED
    BY <1>3, <2>2 DEF ReadFrame, GoTo, TypeOK
<1>4. ASSUME NEW s \in Sock, ClientStep(s) PROVE ~OnItsWay(e, f)'
  BY <1>1, <1>3, <1>4 DEF ClientStep, GoTo, TypeOK, AcceptHost, AcceptDevice, ReadError,
     ClientVanishes
<1> QED
  BY <1>1, <1>2, <1>4 DEF Next, Bind, Revoke, Tick, ClosePeers, vars

(* The store keeps the later of two times, whoever writes them. *)
LEMMA SeenStep ==
  ASSUME TypeOK, [Next]_vars
  PROVE  \A d \in Device : lastSeen'[d] >= lastSeen[d]
<1>1. CASE lastSeen' = lastSeen
  BY <1>1 DEF TypeOK
<1>2. ASSUME NEW s \in Sock, NoteSeen(s)
      PROVE  \A d \in Device : lastSeen'[d] >= lastSeen[d]
  BY <1>2 DEF NoteSeen, NoteDeviceSeen, TypeOK
<1>3. CASE \E s \in Sock : HandlerStep(s) \/ ClientStep(s)
  BY <1>1, <1>2, <1>3 DEF HandlerStep, ClientStep, CheckHost, Insert, ReadClock, WriteFrame,
     Remove, CloseOne, AcceptHost, AcceptDevice, ReadFrame, ReadError, ClientVanishes
<1> QED
  BY <1>1, <1>3 DEF Next, Bind, Revoke, Tick, ClosePeers, vars

-----------------------------------------------------------------------------
(* The relay starts empty, and every step keeps the invariant. *)
LEMMA Inductive == Spec => []Invariant
<1>1. Init => Invariant
  BY DEF Init, Invariant, TypeOK, Identified, NoGhostPresence, ServedPeerIsReachable, Serving,
     ForwardsBetweenPeers, OnlyPeersAreHeard, Stage
<1>2. Invariant /\ [Next]_vars => Invariant'
  BY TypeStep, IdentifiedStep, PresenceStep, ServedStep, ForwardStep, HeardStep DEF Invariant
<1> QED
  BY <1>1, <1>2, PTL DEF Spec

(* The hub's socket table and the handlers keep their shape, for any       *)
(* number of sockets, hosts and devices (handleWS).                        *)
THEOREM RelayTypeCorrect == Spec => []TypeOK
BY Inductive, PTL DEF Invariant

(* A peer whose handler runs and whose socket nobody is closing is the one *)
(* frames for its key reach, however many older sockets of the key are     *)
(* cleaning up (handleWS's deferred delete, ClosePeers).                   *)
THEOREM ServedPeersAreReachable == Spec => []ServedPeerIsReachable
BY Inductive, PTL DEF Invariant

(* No key is present through a handler that has returned or through the    *)
(* socket of another key (handleWS, ClosePeers).                           *)
THEOREM NoGhosts == Spec => []NoGhostPresence
BY Inductive, PTL DEF Invariant

(* An endpoint is never sent a frame of one it never had a binding with,   *)
(* though the binding may change between the check and the write (forward).*)
THEOREM FramesFromPeersOnly == Spec => []OnlyPeersAreHeard
BY Inductive, PTL DEF Invariant

(* Once nothing a pair sent is on its way, nothing is again for as long as *)
(* the pair stays revoked, whatever sockets it has or opens: the safety    *)
(* half of RevokedPairFallsSilent (handleRevoke, forward).                 *)
THEOREM RevokedStaysSilent ==
  ASSUME NEW e, NEW f
  PROVE  Spec => [](~OnItsWay(e, f) /\ []~InForce(e, f) => []~OnItsWay(e, f))
<1>1. TypeOK /\ ~InForce(e, f) /\ ~OnItsWay(e, f) /\ [Next]_vars => ~OnItsWay(e, f)'
  BY SilenceStep
<1> QED
  BY <1>1, RelayTypeCorrect, PTL DEF Spec

(* The last-connected time of a device never moves back, in whatever order *)
(* its handlers read the clock and store it (NoteDeviceSeen).              *)
THEOREM SeenMovesForward == Spec => LastSeenNeverMovesBack
<1>1. TypeOK /\ [Next]_vars => [\A d \in Device : lastSeen'[d] >= lastSeen[d]]_vars
  BY SeenStep
<1> QED
  BY <1>1, RelayTypeCorrect, PTL DEF Spec, LastSeenNeverMovesBack

=============================================================================
