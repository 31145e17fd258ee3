------------------------------- MODULE Relay -------------------------------
(***************************************************************************)
(* The hub's WebSocket side (handleWS): one goroutine per upgraded socket, *)
(* the table conns of the socket that speaks for each public key, the      *)
(* forwarding of frames between bound peers, the last-connected time of a  *)
(* device, and ClosePeers.                                                 *)
(*                                                                         *)
(* h.mu is held for one map operation at a time, so a handler is cut at    *)
(* every acquisition of it and at every store call: pc[s] is where the     *)
(* goroutine of socket s stands.  The store's binding rows change under    *)
(* it (Bind and Revoke, which module ControlPlane has in full).            *)
(*                                                                         *)
(* Abstracted: frame bytes, traces, the sniff buffer, write deadlines, the *)
(* observed-address frame, path and label frames (module PathSelect and    *)
(* module ControlPlane).  A read deadline is the point where ReadError     *)
(* becomes possible, so wsIdle has no number here.                         *)
(***************************************************************************)
EXTENDS Store

CONSTANTS
  Sock,         \* WebSocket connections, each used once
  MaxNow,       \* bound: clock readings told apart
  MaxRows       \* bound: binding rows written in one behaviour

ASSUME BoundsAssumption == MaxNow \in Nat /\ MaxRows \in Nat

Endpoint == Pub \cup Device

VARIABLES
  bindings,     \* the store's binding rows
  lastSeen,     \* LastConnected of each device
  conns,        \* conns[e]: the socket that speaks for e, or None
  pc,           \* where the handler of each socket stands
  who,          \* whose socket it is, known once upgraded
  peerHost,     \* the host a device's ticket named
  open,         \* the hub has not closed this socket
  stamp,        \* the clock reading noteDeviceSeen is about to store
  dst,          \* the destination of the frame being forwarded
  closing,      \* sockets a running ClosePeers has still to close
  dead,         \* sockets whose client is gone without closing the connection
  wrote,        \* history: the last frame written, and to whose socket
  now

socketVars == <<pc, who, peerHost, open, stamp, dst>>
vars == <<bindings, lastSeen, conns, socketVars, closing, dead, wrote, now>>

(* Where a handler can stand: not accepted yet, upgraded, allowed to enter *)
(* the table, in it, in the read loop, forwarding a frame, leaving, gone.  *)
Stage == {"free", "upgraded", "admitted", "inserted", "stamped", "serving",
          "forwarding", "leaving", "leavingStamped", "removing", "done"}

(* The handler has put its socket in conns and not begun to clean up. *)
Serving(s) == pc[s] \in {"inserted", "stamped", "serving", "forwarding"}

Init ==
  /\ bindings = <<>>
  /\ lastSeen = [d \in Device |-> 0]
  /\ conns = [e \in Endpoint |-> None]
  /\ pc = [s \in Sock |-> "free"]
  /\ who = [s \in Sock |-> None] /\ peerHost = [s \in Sock |-> None]
  /\ open = [s \in Sock |-> FALSE]
  /\ stamp = [s \in Sock |-> 0] /\ dst = [s \in Sock |-> None]
  /\ closing = {} /\ dead = {}
  /\ wrote = None
  /\ now = 1

GoTo(s, from, to) == pc[s] = from /\ pc' = [pc EXCEPT ![s] = to]

-----------------------------------------------------------------------------
(* The rest of the system: the control plane's writes, time, and clients.  *)
Bind(h, d) ==
  /\ Len(bindings) < MaxRows
  /\ bindings' = PutBinding(bindings,
        [host |-> h, device |-> d, session |-> Len(bindings) + 1, revoked |-> FALSE])
  /\ UNCHANGED <<lastSeen, conns, socketVars, closing, dead, wrote, now>>

Revoke(b) ==
  /\ b \in DOMAIN bindings
  /\ bindings' = RevokeBinding(bindings, b)
  /\ UNCHANGED <<lastSeen, conns, socketVars, closing, dead, wrote, now>>

Tick ==
  /\ now < MaxNow
  /\ now' = now + 1
  /\ UNCHANGED <<bindings, lastSeen, conns, socketVars, closing, dead, wrote>>

(* A phone leaves the network: nothing more arrives, not even a FIN. *)
ClientVanishes(s) ==
  /\ Serving(s)
  /\ dead' = dead \cup {s}
  /\ UNCHANGED <<bindings, lastSeen, conns, socketVars, closing, wrote, now>>

-----------------------------------------------------------------------------
(* identifyWS and Upgrade: a registered host's token, ...                  *)
AcceptHost(s, h) ==
  /\ GoTo(s, "free", "admitted")
  /\ who' = [who EXCEPT ![s] = h]
  /\ open' = [open EXCEPT ![s] = TRUE]
  /\ UNCHANGED <<bindings, lastSeen, conns, peerHost, stamp, dst, closing, dead, wrote, now>>

(* ... or the ticket of a binding that is not revoked.                     *)
AcceptDevice(s, b) ==
  /\ b \in DOMAIN bindings /\ ~bindings[b].revoked
  /\ GoTo(s, "free", "upgraded")
  /\ who' = [who EXCEPT ![s] = bindings[b].device]
  /\ peerHost' = [peerHost EXCEPT ![s] = bindings[b].host]
  /\ open' = [open EXCEPT ![s] = TRUE]
  /\ UNCHANGED <<bindings, lastSeen, conns, stamp, dst, closing, dead, wrote, now>>

(* A device whose host is not here is closed at once so that it redials.   *)
CheckHost(s) ==
  /\ pc[s] = "upgraded"
  /\ IF conns[peerHost[s]] # None
       THEN pc' = [pc EXCEPT ![s] = "admitted"] /\ UNCHANGED open
       ELSE pc' = [pc EXCEPT ![s] = "done"] /\ open' = [open EXCEPT ![s] = FALSE]
  /\ peerHost' = [peerHost EXCEPT ![s] = None]
  /\ UNCHANGED <<bindings, lastSeen, conns, who, stamp, dst, closing, dead, wrote, now>>

(* Under h.mu: close the socket that spoke for this key and take its place.*)
Insert(s) ==
  /\ GoTo(s, "admitted", IF who[s] \in Device THEN "inserted" ELSE "serving")
  /\ conns' = [conns EXCEPT ![who[s]] = s]
  /\ open' = [o \in Sock |-> open[o] /\ o # conns[who[s]]]
  /\ UNCHANGED <<bindings, lastSeen, who, peerHost, stamp, dst, closing, dead, wrote, now>>

(* noteDeviceSeen, on arrival and on departure: read the clock, ...        *)
ReadClock(s) ==
  /\ \/ GoTo(s, "inserted", "stamped")
     \/ GoTo(s, "leaving", "leavingStamped")
  /\ stamp' = [stamp EXCEPT ![s] = now]
  /\ UNCHANGED <<bindings, lastSeen, conns, who, peerHost, open, dst, closing, dead, wrote, now>>

(* The store keeps the later of the two times. *)
NoteDeviceSeen(seen, d, at) == [seen EXCEPT ![d] = IF at > @ THEN at ELSE @]

(* ... then store it.                                                      *)
NoteSeen(s) ==
  /\ \/ GoTo(s, "stamped", "serving")
     \/ GoTo(s, "leavingStamped", "removing")
  /\ lastSeen' = NoteDeviceSeen(lastSeen, who[s], stamp[s])
  /\ stamp' = [stamp EXCEPT ![s] = 0]
  /\ UNCHANGED <<bindings, conns, who, peerHost, open, dst, closing, dead, wrote, now>>

-----------------------------------------------------------------------------
PairRows(rows, h, d) == {b \in DOMAIN rows : rows[b].host = h /\ rows[b].device = d}

(* Mutant: revoked rows are not skipped. *)
BindingByPeersRevoked(rows, h, d) == PairRows(rows, h, d) # {}

(* BindingByPeers: the first row of the pair decides. *)
BindingByPeers(rows, h, d) ==
  PairRows(rows, h, d) # {} /\ ~rows[Min(PairRows(rows, h, d))].revoked

(* Mutant: the error of the second lookup is dropped. *)
MayForwardAnyone(a, b) == TRUE

MayForward(a, b) == BindingByPeers(bindings, a, b) \/ BindingByPeers(bindings, b, a)

(* A frame for e is read from an open socket and its peers are bound.  The *)
(* read and the two look-ups are one step: a frame that a revocation       *)
(* overtakes between them could as well have been read later.              *)
ReadFrame(s, e) ==
  /\ open[s] /\ s \notin dead
  /\ MayForward(who[s], e)
  /\ GoTo(s, "serving", "forwarding")
  /\ dst' = [dst EXCEPT ![s] = e]
  /\ UNCHANGED <<bindings, lastSeen, conns, who, peerHost, open, stamp, closing, dead, wrote, now>>

(* It goes to whichever socket speaks for e now; if none does, or that one *)
(* is closed before the write, it is lost.  Finding the socket and writing *)
(* are one step: a socket never changes hands in between.                  *)
WriteFrame(s) ==
  /\ GoTo(s, "forwarding", "serving")
  /\ wrote' = LET to == conns[dst[s]]
              IN  IF to # None /\ open[to] THEN [from |-> who[s], to |-> who[to]] ELSE wrote
  /\ dst' = [dst EXCEPT ![s] = None]
  /\ UNCHANGED <<bindings, lastSeen, conns, who, peerHost, open, stamp, closing, dead, now>>

(* Mutant: no read deadline. *)
ReadErrorWithoutDeadline(s) ==
  /\ s \notin dead \/ ~open[s]
  /\ GoTo(s, "serving", IF who[s] \in Device THEN "leaving" ELSE "removing")
  /\ UNCHANGED <<bindings, lastSeen, conns, who, peerHost, open, stamp, dst,
                 closing, dead, wrote, now>>

(* The read fails: the client closed, the hub closed this socket, or the   *)
(* read deadline passed.                                                   *)
ReadError(s) ==
  /\ GoTo(s, "serving", IF who[s] \in Device THEN "leaving" ELSE "removing")
  /\ UNCHANGED <<bindings, lastSeen, conns, who, peerHost, open, stamp, dst,
                 closing, dead, wrote, now>>

(* Mutants: the clean-up deletes the entry of its key whoever holds it, or *)
(* leaves its own entry behind.                                            *)
RemoveWhoever(s) ==
  /\ GoTo(s, "removing", "done")
  /\ conns' = [conns EXCEPT ![who[s]] = None]
  /\ open' = [open EXCEPT ![s] = FALSE]
  /\ dead' = dead \ {s}
  /\ UNCHANGED <<bindings, lastSeen, who, peerHost, stamp, dst, closing, wrote, now>>

RemoveNothing(s) ==
  /\ GoTo(s, "removing", "done")
  /\ open' = [open EXCEPT ![s] = FALSE]
  /\ dead' = dead \ {s}
  /\ UNCHANGED <<bindings, lastSeen, conns, who, peerHost, stamp, dst, closing, wrote, now>>

(* The deferred clean-up leaves a newer socket of the same key in place. *)
Remove(s) ==
  /\ GoTo(s, "removing", "done")
  /\ conns' = IF conns[who[s]] = s THEN [conns EXCEPT ![who[s]] = None] ELSE conns
  /\ open' = [open EXCEPT ![s] = FALSE]
  /\ dead' = dead \ {s}
  /\ UNCHANGED <<bindings, lastSeen, who, peerHost, stamp, dst, closing, wrote, now>>

(* Mutant: keys without a socket are not skipped. *)
ClosePeersWithNil ==
  /\ closing = {}
  /\ closing' = {conns[e] : e \in Endpoint}
  /\ conns' = [e \in Endpoint |-> None]
  /\ UNCHANGED <<bindings, lastSeen, socketVars, dead, wrote, now>>

(* ClosePeers takes the table under h.mu, then closes what was in it.      *)
ClosePeers ==
  /\ closing = {}
  /\ closing' = {s \in Sock : \E e \in Endpoint : conns[e] = s}
  /\ conns' = [e \in Endpoint |-> None]
  /\ UNCHANGED <<bindings, lastSeen, socketVars, dead, wrote, now>>

CloseOne(s) ==
  /\ s \in closing
  /\ closing' = closing \ {s}
  /\ open' = [open EXCEPT ![s] = FALSE]
  /\ UNCHANGED <<bindings, lastSeen, conns, pc, who, peerHost, stamp, dst, dead, wrote, now>>

-----------------------------------------------------------------------------
HandlerStep(s) ==
  \/ CheckHost(s) \/ Insert(s) \/ ReadClock(s) \/ NoteSeen(s)
  \/ WriteFrame(s) \/ Remove(s) \/ CloseOne(s)

ClientStep(s) ==
  \/ \E h \in Pub : AcceptHost(s, h)
  \/ \E b \in DOMAIN bindings : AcceptDevice(s, b)
  \/ \E e \in Endpoint : ReadFrame(s, e)
  \/ ReadError(s)
  \/ ClientVanishes(s)

Next ==
  \/ \E h \in Pub, d \in Device : Bind(h, d)
  \/ \E b \in DOMAIN bindings : Revoke(b)
  \/ Tick \/ ClosePeers
  \/ \E s \in Sock : HandlerStep(s) \/ ClientStep(s)

(* A goroutine that can take its next step takes it; a read fails in the   *)
(* end when its socket was closed, or when nothing can arrive any more and *)
(* the deadline set before that read passes.                               *)
Fairness ==
  \A s \in Sock :
    /\ WF_vars(HandlerStep(s))
    /\ WF_vars((s \in dead \/ ~open[s]) /\ ReadError(s))

Spec == Init /\ [][Next]_vars /\ Fairness

-----------------------------------------------------------------------------
(* Every handler and table entry has the shape the code gives it.          *)
TypeOK ==
  /\ bindings \in Seq(BindingRow)
  /\ lastSeen \in [Device -> Nat]
  /\ conns \in [Endpoint -> Sock \cup {None}]
  /\ pc \in [Sock -> Stage]
  /\ who \in [Sock -> Endpoint \cup {None}]
  /\ peerHost \in [Sock -> Pub \cup {None}]
  /\ open \in [Sock -> BOOLEAN]
  /\ stamp \in [Sock -> Nat]
  /\ dst \in [Sock -> Endpoint \cup {None}]
  /\ closing \subseteq Sock /\ dead \subseteq Sock
  /\ wrote \in [from : Endpoint, to : Endpoint] \cup {None}
  /\ now \in Nat

(* A peer that is being served and was not closed is the one the table     *)
(* names: the clean-up of an older socket of the same key never takes it   *)
(* out (handleWS's deferred delete), and only a running ClosePeers may     *)
(* hold it back.                                                           *)
ServedPeerIsReachable ==
  \A s \in Sock :
    Serving(s) /\ open[s] /\ s \notin closing => conns[who[s]] = s

(* The table never names a socket whose handler has returned, nor one of   *)
(* another key: presence is not left behind (handleWS, ClosePeers).        *)
NoGhostPresence ==
  \A e \in Endpoint :
    conns[e] # None => pc[conns[e]] \notin {"free", "upgraded", "admitted", "done"}
                       /\ who[conns[e]] = e

(* Whoever is behind the socket a frame is written to has, or had, a       *)
(* binding with its sender, although sockets of either are replaced, and   *)
(* rows revoked, between the look-ups and the write (forward).             *)
OnlyPeersAreHeard ==
  wrote # None =>
    PairRows(bindings, wrote.from, wrote.to) \cup PairRows(bindings, wrote.to, wrote.from) # {}

(* Some row binds the two; a frame of one is on its way to the other.      *)
InForce(e, f) == \E b \in PairRows(bindings, e, f) \cup PairRows(bindings, f, e) : ~bindings[b].revoked
OnItsWay(e, f) == \E s \in Sock : pc[s] = "forwarding" /\ {who[s], dst[s]} = {e, f}

(* Nobody closes the sockets of a pair when its binding is revoked: only   *)
(* the look-up for each frame stops what they send.  A frame looked up     *)
(* before is still delivered, but a pair that stays revoked falls silent,  *)
(* whatever sockets it has or opens (handleRevoke, forward).               *)
RevokedPairFallsSilent ==
  \A h \in Pub, d \in Device : <>[]~InForce(h, d) => <>[]~OnItsWay(h, d)

(* The last-connected time of a device never moves back, though two of its *)
(* handlers read the clock and write it in either order (NoteDeviceSeen).  *)
LastSeenNeverMovesBack == [][\A d \in Device : lastSeen'[d] >= lastSeen[d]]_vars

(* A device that vanished without closing its connection stops being       *)
(* online (the read deadline and the deferred clean-up of handleWS).       *)
VanishedPeerGoesOffline ==
  \A s \in Sock : s \in dead ~> \A e \in Endpoint : conns[e] # s

(* docs/PROTOCOL.md says a handshake frame is forwarded to the bound peer: *)
(* while some binding of a pair is in force, its frames are let through.   *)
BoundPairIsForwarded ==
  \A b \in DOMAIN bindings :
    ~bindings[b].revoked => MayForward(bindings[b].device, bindings[b].host)

=============================================================================
