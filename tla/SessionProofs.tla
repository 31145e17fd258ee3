--------------------------- MODULE SessionProofs ---------------------------
(***************************************************************************)
(* Any number of sending goroutines, handshakes, losses and restarts: no   *)
(* nonce is used twice under one session, and a link hears only its own    *)
(* session.                                                                *)
(*                                                                         *)
(* Counters start at zero in every link, so the first theorem needs that   *)
(* no session is ever installed twice.  The inductive invariant says that  *)
(* the ephemeral key a client waits with, or is about to install a session *)
(* with, is in no link and under no sealed message, and that the counter   *)
(* of a link is at least every nonce sealed under it, and more than every  *)
(* one while a goroutine holds the mutex.                                  *)
(***************************************************************************)
EXTENDS Session, TLAPS

(* The variables of a node are functions, and a session that was just      *)
(* installed is the link in use.                                           *)
Shape ==
  /\ DOMAIN live = Node /\ DOMAIN call = Node /\ DOMAIN datagram = Node
  /\ \A n \in Node : DOMAIN call[n] = Sender
  /\ \A n \in Node : reader[n].at = "disco" => link[n] # None

SealedType == \A e \in sealed : e.session \in Session /\ e.nonce \in Nonce

Typed == SessionTypeOK /\ Shape /\ SealedType

(* No link has the ephemeral key, and nothing was sealed with it.          *)
Unused(id, links, seals) ==
  /\ \A e \in seals : e.session.mine.id # id
  /\ \A n \in Node : \A s \in DOMAIN links[n] : s.mine.id # id

(* A client that waits with p and whose reader is at r may still install a *)
(* session with this ephemeral key of its own.                             *)
Holds(p, r, id) ==
  \/ p # None /\ p.id = id
  \/ r.at = "install" /\ r.session.mine.id = id

Known ==
  /\ \A n \in Node : \A id : Holds(pending[n], reader[n], id) => id \in 1..made
  /\ \A e \in sealed : e.session.mine.id \in 1..made
  /\ \A n \in Node : \A s \in DOMAIN live[n] : s.mine.id \in 1..made

(* What a client is about to install, or waits with, was never used, and   *)
(* no two clients have a key in common.                                    *)
FreshKeys ==
  /\ \A n \in Node : reader[n].at = "install" => Unused(reader[n].session.mine.id, live, sealed)
  /\ \A n \in Node : pending[n] # None /\ reader[n].at # "install" => Unused(pending[n].id, live, sealed)
  /\ \A n, m \in Node : \A id : Holds(pending[n], reader[n], id) /\ Holds(pending[m], reader[m], id) => n = m
  /\ \A n, m \in Node : \A s \in DOMAIN live[n], t \in DOMAIN live[m] :
       s.mine.id = t.mine.id => n = m

(* A goroutine at c has taken a number of session s and not sealed with it. *)
HasNumber(c, s) == c # None /\ c.at = "seal" /\ c.session = s

OneHolder ==
  \A n \in Node : \A g, h \in Sender : \A s :
    HasNumber(call[n][g], s) /\ HasNumber(call[n][h], s) => g = h

CounterAhead ==
  \A n \in Node : \A s \in DOMAIN live[n] : \A e \in sealed :
    e.session = s => /\ e.nonce <= live[n][s].sendN
                     /\ Locked(n, s) => e.nonce < live[n][s].sendN

Invariant ==
  /\ Typed
  /\ Known /\ FreshKeys
  /\ OneHolder /\ CounterAhead
  /\ NonceUsedOnce

-----------------------------------------------------------------------------
(* Frames and links. *)

LEMMA FreshType ==
  ASSUME made \in 0..MaxEph, made < MaxEph, NEW c \in {"initiate", "respond"}
  PROVE  Fresh(c) \in Eph /\ made + 1 \in 0..MaxEph
BY BoundsAssumption DEF Fresh, Eph

(* Writing and reading frames keeps them frames. *)
LEMMA SendType ==
  ASSUME inbox \in [Node -> Seq(Frame \cup Data)], NEW n \in Node, NEW f \in Frame \cup Data, Send(n, f)
  PROVE  inbox' \in [Node -> Seq(Frame \cup Data)]
<1> DEFINE p == Peer(n)
<1>1. inbox' = [inbox EXCEPT ![p] = Append(inbox[p], f)]
  BY DEF Send
<1> HIDE DEF p
<1>2. p \in Node => Append(inbox[p], f) \in Seq(Frame \cup Data)
  OBVIOUS
<1> QED
  BY <1>1, <1>2

LEMMA ReadType ==
  ASSUME inbox \in [Node -> Seq(Frame \cup Data)], NEW n \in Node, inbox[n] # <<>>
  PROVE  /\ Head(inbox[n]) \in Frame \cup Data
         /\ [inbox EXCEPT ![n] = Tail(@)] \in [Node -> Seq(Frame \cup Data)]
<1>1. inbox[n] \in Seq(Frame \cup Data)
  OBVIOUS
<1>2. Head(inbox[n]) \in Frame \cup Data /\ Tail(inbox[n]) \in Seq(Frame \cup Data)
  BY <1>1
<1> QED
  BY <1>2

(* What the relay reader holds where it stands. *)
LEMMA ReaderHolds ==
  ASSUME NEW r \in Reader
  PROVE  /\ r.at = "install" => r.session \in Session /\ r.reply \in Eph \cup {None}
         /\ r.at \in {"disco", "onLink"} => r.reply \in Eph \cup {None}
BY DEF Reader, Idle

(* What a step does to one link of one node. *)
LEMMA LinkStep ==
  ASSUME NEW n \in Node, DOMAIN live = Node, NEW s \in DOMAIN live[n], NEW row,
         live' = [live EXCEPT ![n][s] = row]
  PROVE  /\ DOMAIN live' = Node
         /\ \A m \in Node : DOMAIN live'[m] = DOMAIN live[m]
         /\ live'[n][s] = row
         /\ \A m \in Node : \A t \in DOMAIN live[m] : m # n \/ t # s => live'[m][t] = live[m][t]
OBVIOUS

LEMMA Rows ==
  ASSUME NEW row \in LinkState, Len(row.inbox) <= Room
  PROVE  /\ [row EXCEPT !.sendN = @ + 1] \in LinkState
         /\ [row EXCEPT !.sendN = @ + 1].inbox = row.inbox
         /\ \A f \in Data : Len(row.inbox) < Room =>
              /\ [row EXCEPT !.inbox = Append(@, f)] \in LinkState
              /\ Len([row EXCEPT !.inbox = Append(@, f)].inbox) <= Room
         /\ row.inbox # <<>> =>
              /\ [row EXCEPT !.inbox = Tail(@)] \in LinkState
              /\ Len([row EXCEPT !.inbox = Tail(@)].inbox) <= Room
<1>1. row.inbox \in Seq(Data) /\ row.sendN \in Nat
  BY DEF LinkState
<1>2. [row EXCEPT !.sendN = @ + 1] \in LinkState /\ [row EXCEPT !.sendN = @ + 1].inbox = row.inbox
  BY <1>1 DEF LinkState
<1>3. ASSUME NEW f \in Data, Len(row.inbox) < Room
      PROVE  /\ [row EXCEPT !.inbox = Append(@, f)] \in LinkState
             /\ Len([row EXCEPT !.inbox = Append(@, f)].inbox) <= Room
  <2>1. Append(row.inbox, f) \in Seq(Data) /\ Len(Append(row.inbox, f)) <= Room
    BY <1>1, <1>3, SessionAssumption
  <2> QED
    BY <2>1 DEF LinkState
<1>4. ASSUME row.inbox # <<>>
      PROVE  /\ [row EXCEPT !.inbox = Tail(@)] \in LinkState
             /\ Len([row EXCEPT !.inbox = Tail(@)].inbox) <= Room
  <2>1. Tail(row.inbox) \in Seq(Data) /\ Len(Tail(row.inbox)) <= Room
    BY <1>1, <1>4, SessionAssumption
  <2> QED
    BY <2>1 DEF LinkState
<1> QED
  BY <1>2, <1>3, <1>4

-----------------------------------------------------------------------------
(* Every step keeps the types of the handshake and of the frames. *)
LEMMA HandshakeStepType ==
  ASSUME Typed, [NextSession]_allVars
  PROVE  HandshakeType' /\ FramesType' /\ \A n \in Node : reader'[n].at = "disco" => link'[n] # None
<1> USE DEF Typed, SessionTypeOK, Shape, HandshakeType, FramesType
<1>0. CASE UNCHANGED allVars
  BY <1>0 DEF allVars, vars, dataVars
<1> DEFINE Goal == HandshakeType' /\ FramesType' /\ \A n \in Node : reader'[n].at = "disco" => link'[n] # None
<1>1. ASSUME NEW n \in Node, OpenInitiator(n), UNCHANGED dataVars PROVE Goal
  <2>1. made < MaxEph
    BY <1>1, BoundsAssumption DEF OpenInitiator
  <2>2. Fresh("initiate") \in Eph /\ made + 1 \in 0..MaxEph
    BY <2>1, FreshType
  <2> QED
    BY <1>1, <2>2 DEF OpenInitiator, dataVars
<1>2. ASSUME NEW n \in Node, SendInitiation(n), UNCHANGED dataVars PROVE Goal
  <2>1. [type |-> "handshake", eph |-> opening[n]] \in Frame \cup Data
    BY <1>2 DEF SendInitiation, Frame
  <2>2. inbox' \in [Node -> Seq(Frame \cup Data)]
    BY <1>2, <2>1, SendType DEF SendInitiation
  <2> QED
    BY <1>2, <2>2 DEF SendInitiation, dataVars
<1>3. ASSUME NEW n \in Node, OnHandshake(n), UNCHANGED dataVars PROVE Goal
  <2>1. inbox[n] # <<>> /\ HandshakeOf(Head(inbox[n])) /\ inbox' = [inbox EXCEPT ![n] = Tail(@)]
    BY <1>3 DEF OnHandshake
  <2>2. inbox' \in [Node -> Seq(Frame \cup Data)] /\ Head(inbox[n]) \in Frame \cup Data
    BY <2>1, ReadType
  <2> DEFINE eph == Head(inbox[n]).eph
  <2>3. eph \in Eph
    BY <2>1, <2>2 DEF HandshakeOf, Frame, Data
  <2> HIDE DEF eph
  <2>4. CASE pending[n] # None
    <3>1. reader' = [reader EXCEPT ![n] = [at |-> "install", session |-> Finish(n, eph), reply |-> None]]
      BY <1>3, <2>4 DEF OnHandshake, eph
    <3>2. Finish(n, eph) \in Session
      BY <2>3, <2>4 DEF Finish, Session, Role
    <3>3. reader' \in [Node -> Reader]
      BY <3>1, <3>2 DEF Reader
    <3> QED
      BY <1>3, <2>2, <2>4, <3>1, <3>3 DEF OnHandshake, dataVars
  <2>5. CASE pending[n] = None
    <3>1. /\ reader' = [reader EXCEPT ![n] = [at |-> "install", session |-> Respond(eph), reply |-> Fresh("respond")]]
          /\ made < MaxEph /\ made' = made + 1
      BY <1>3, <2>5 DEF OnHandshake, eph
    <3>2. Fresh("respond") \in Eph /\ made' \in 0..MaxEph
      BY <3>1, FreshType
    <3>3. Respond(eph) \in Session
      BY <2>3, <3>2 DEF Respond, Session, Role
    <3>4. reader' \in [Node -> Reader]
      BY <3>1, <3>2, <3>3 DEF Reader
    <3> QED
      BY <1>3, <2>2, <3>1, <3>2, <3>4 DEF OnHandshake, dataVars
  <2> QED
    BY <2>4, <2>5
<1>4. ASSUME NEW n \in Node, SendReply(n), UNCHANGED dataVars PROVE Goal
  <2>1. reader[n].reply # None =>
          [type |-> "handshake", eph |-> reader[n].reply] \in Frame \cup Data
    BY <1>4, ReaderHolds DEF SendReply, Frame
  <2>2. inbox' \in [Node -> Seq(Frame \cup Data)]
    BY <1>4, <2>1, SendType DEF SendReply
  <2>3. Idle \in Reader /\ Idle.at # "disco"
    BY DEF Reader, Idle
  <2> QED
    BY <1>4, <2>2, <2>3 DEF SendReply, dataVars
<1>5. ASSUME NEW n \in Node, Drop(n), UNCHANGED dataVars PROVE Goal
  BY <1>5, BoundsAssumption DEF Drop, dataVars
<1>6. ASSUME NEW n \in Node, InstallLink(n) PROVE Goal
  <2>1. reader[n].session \in Session /\ reader[n].reply \in Eph \cup {None}
    BY <1>6, ReaderHolds DEF InstallLink, Install
  <2>2. [at |-> "disco", reply |-> reader[n].reply] \in Reader
    BY <2>1 DEF Reader
  <2>3. link' = [link EXCEPT ![n] = reader[n].session] /\ reader[n].session # None
    BY <1>6, <2>1, NoneAssumption DEF InstallLink, Install
  <2> QED
    BY <1>6, <2>1, <2>2, <2>3 DEF InstallLink, Install
<1>7. ASSUME NEW n \in Node, SealDisco(n) PROVE Goal
  <2>1. reader[n].at = "disco" /\ reader[n].reply \in Eph \cup {None} /\ link[n] \in Session
    BY <1>7, ReaderHolds DEF SealDisco, SendDisco
  <2>2. [type |-> "disco", session |-> link[n]] \in Frame \cup Data
    BY <2>1 DEF Frame
  <2>3. inbox' \in [Node -> Seq(Frame \cup Data)]
    BY <1>7, <2>2, SendType DEF SealDisco, SendDisco
  <2> DEFINE after == [at |-> "onLink", reply |-> reader[n].reply]
  <2>4. after \in Reader /\ after.at # "disco"
    BY <2>1 DEF Reader, Idle
  <2>5. reader' = [reader EXCEPT ![n] = after]
    BY <1>7 DEF SealDisco, SendDisco
  <2> HIDE DEF after
  <2>6. UNCHANGED <<pending, link, opening, knows, made, losses, stray, said, air>>
    BY <1>7 DEF SealDisco, SendDisco
  <2>7. reader' \in [Node -> Reader] /\ \A m \in Node : reader'[m].at = "disco" => link'[m] # None
    BY <2>4, <2>5, <2>6
  <2> QED
    BY <2>3, <2>6, <2>7
<1>8. ASSUME NEW n \in Node, OpenDisco(n) PROVE Goal
  <2>1. inbox' \in [Node -> Seq(Frame \cup Data)]
    BY <1>8, ReadType DEF OpenDisco, OnDisco
  <2> QED
    BY <1>8, <2>1 DEF OpenDisco, OnDisco, dataVars
<1>9. ASSUME NEW n \in Node, RestartProcess(n) PROVE Goal
  <2>1. Idle \in Reader /\ Idle.at # "disco" /\ inbox' = [inbox EXCEPT ![n] = <<>>]
    BY <1>9 DEF RestartProcess, Restart, Reader, Idle
  <2>2. inbox' \in [Node -> Seq(Frame \cup Data)]
    BY <2>1
  <2>3. losses < MaxLoss /\ losses' = losses + 1
    BY <1>9 DEF RestartProcess, Restart
  <2>4. losses' \in 0..MaxLoss
    BY <2>3, BoundsAssumption
  <2> QED
    BY <1>9, <2>1, <2>2, <2>4 DEF RestartProcess, Restart
<1>10. ASSUME NEW n \in Node, OnData(n) PROVE Goal
  <2>1. inbox' \in [Node -> Seq(Frame \cup Data)]
    BY <1>10, ReadType DEF OnData
  <2> QED
    BY <1>10, <2>1 DEF OnData
<1>11. ASSUME NEW n \in Node, ReadDatagram(n) \/ OpenDatagram(n) \/ Recv(n) PROVE Goal
  BY <1>11 DEF ReadDatagram, OpenDatagram, Recv, vars
<1>12. ASSUME NEW n \in Node, NEW g \in Sender, TakeNumber(n, g) PROVE Goal
  BY <1>12, SessionAssumption DEF TakeNumber, vars
<1>13. ASSUME NEW n \in Node, NEW g \in Sender, Seal(n, g) PROVE Goal
  BY <1>13 DEF Seal, vars
<1>14. ASSUME NEW n \in Node, NEW g \in Sender, WriteFrame(n, g) PROVE Goal
  <2>1. call[n][g].frame \in Data
    BY <1>14 DEF WriteFrame, CallsType, Sealing, Writing
  <2>2. CASE Send(n, call[n][g].frame) /\ UNCHANGED air
    <3>1. inbox' \in [Node -> Seq(Frame \cup Data)]
      BY <2>1, <2>2, SendType
    <3> QED
      BY <1>14, <2>2, <3>1 DEF WriteFrame
  <2>3. CASE air' = [air EXCEPT ![Peer(n)] = @ \cup {call[n][g].frame}] /\ UNCHANGED inbox
    <3> DEFINE p == Peer(n)
    <3> HIDE DEF p
    <3>1. air' = [air EXCEPT ![p] = air[p] \cup {call[n][g].frame}]
      BY <2>3 DEF p
    <3>2. air' \in [Node -> SUBSET Data]
      BY <2>1, <3>1
    <3> QED
      BY <1>14, <2>3, <3>2 DEF WriteFrame
  <2> QED
    BY <1>14, <2>2, <2>3 DEF WriteFrame
<1> QED
  BY <1>0, <1>1, <1>2, <1>3, <1>4, <1>5, <1>6, <1>7, <1>8, <1>9, <1>10, <1>11, <1>12, <1>13,
     <1>14 DEF NextSession, HandshakeStep

(* What a step does to live[n], for one link s of one node. *)
LEMMA LinkRowType ==
  ASSUME Typed, NEW n \in Node, NEW s \in DOMAIN live[n], NEW row \in LinkState, Len(row.inbox) <= Room,
         live' = [live EXCEPT ![n][s] = row]
  PROVE  LinksType' /\ DOMAIN live' = Node /\ \A m \in Node : DOMAIN live'[m] = DOMAIN live[m]
BY LinkStep DEF Typed, Shape, SessionTypeOK, LinksType

(* A link that hears something, or does not, stays a link. *)
LEMMA DeliverType ==
  ASSUME Typed, NEW n \in Node, NEW s \in DOMAIN live[n], NEW f \in Data, Deliver(n, s, f)
  PROVE  LinksType' /\ DOMAIN live' = Node /\ \A m \in Node : DOMAIN live'[m] = DOMAIN live[m]
<1> DEFINE row == [live[n][s] EXCEPT !.inbox = Append(@, f)]
<1>1. CASE live' = live
  BY <1>1 DEF Typed, Shape, SessionTypeOK, LinksType
<1>2. CASE Len(live[n][s].inbox) < Room /\ live' = [live EXCEPT ![n][s].inbox = Append(@, f)]
  <2>1. live[n][s] \in LinkState /\ Len(live[n][s].inbox) <= Room
    BY DEF Typed, SessionTypeOK, LinksType
  <2>2. row \in LinkState /\ Len(row.inbox) <= Room
    BY <1>2, <2>1, Rows
  <2>3. live' = [live EXCEPT ![n][s] = row]
    BY <1>2
  <2> HIDE DEF row
  <2> QED
    BY <2>2, <2>3, LinkRowType
<1> QED
  BY <1>1, <1>2 DEF Deliver

(* What a step that keeps every link, and leaves the rest alone, keeps of  *)
(* the calls.                                                              *)
LEMMA CallsKept ==
  ASSUME Typed, \A m \in Node : DOMAIN live'[m] = DOMAIN live[m],
         UNCHANGED <<link, datagram, call>>
  PROVE  CallsType' /\ DOMAIN call' = Node /\ DOMAIN datagram' = Node
         /\ \A n \in Node : DOMAIN call'[n] = Sender
BY DEF Typed, SessionTypeOK, Shape, CallsType

LEMMA LinksStepType ==
  ASSUME Typed, [NextSession]_allVars
  PROVE  /\ LinksType' /\ CallsType'
         /\ DOMAIN live' = Node /\ DOMAIN call' = Node /\ DOMAIN datagram' = Node
         /\ \A n \in Node : DOMAIN call'[n] = Sender
<1> DEFINE Goal == /\ LinksType' /\ CallsType'
                   /\ DOMAIN live' = Node /\ DOMAIN call' = Node /\ DOMAIN datagram' = Node
                   /\ \A n \in Node : DOMAIN call'[n] = Sender
<1>0. ASSUME UNCHANGED <<link, live, call, datagram>> PROVE Goal
  <2>1. LinksType' /\ DOMAIN live' = Node /\ \A m \in Node : DOMAIN live'[m] = DOMAIN live[m]
    BY <1>0 DEF Typed, Shape, SessionTypeOK, LinksType
  <2> QED
    BY <1>0, <2>1, CallsKept
<1>1. ASSUME NEW n \in Node, HandshakeStep(n) \/ OpenDisco(n) PROVE Goal
  <2>1. UNCHANGED <<link, live, call, datagram>>
    BY <1>1 DEF HandshakeStep, OpenDisco, OpenInitiator, SendInitiation, OnHandshake, SendReply,
       Drop, OnDisco, dataVars
  <2> QED
    BY <1>0, <2>1
<1>2. ASSUME NEW n \in Node, InstallLink(n) PROVE Goal
  <2> DEFINE s == reader[n].session
  <2> DEFINE new == [t \in DOMAIN live[n] \cup {s} |->
                       IF t = s THEN [sendN |-> 0, inbox |-> <<>>] ELSE live[n][t]]
  <2>1. s \in Session
    BY <1>2, ReaderHolds DEF InstallLink, Install, Typed, SessionTypeOK, HandshakeType
  <2>2. [sendN |-> 0, inbox |-> <<>>] \in LinkState /\ Len(<<>>) <= Room
    BY SessionAssumption DEF LinkState
  <2>3. /\ DOMAIN new \subseteq Session
        /\ \A t \in DOMAIN new : new[t] \in LinkState /\ Len(new[t].inbox) <= Room
    BY <2>1, <2>2 DEF Typed, SessionTypeOK, LinksType
  <2>4. DOMAIN new = DOMAIN live[n] \cup {s}
    OBVIOUS
  <2>5. live' = [live EXCEPT ![n] = new] /\ link' = [link EXCEPT ![n] = s] /\ UNCHANGED <<call, datagram>>
    BY <1>2 DEF InstallLink, Install, Publish
  <2> HIDE DEF new, s
  <2>6. /\ DOMAIN live' = Node
        /\ \A m \in Node : live'[m] = IF m = n THEN new ELSE live[m]
    BY <2>5 DEF Typed, Shape
  <2>7. LinksType'
    BY <2>3, <2>6 DEF Typed, SessionTypeOK, LinksType
  <2>8. \A m \in Node : DOMAIN live[m] \subseteq DOMAIN live'[m]
    BY <2>4, <2>6
  <2>9. CallsType'
    BY <2>4, <2>5, <2>6, <2>8 DEF Typed, SessionTypeOK, HandshakeType, CallsType
  <2> QED
    BY <2>5, <2>6, <2>7, <2>9 DEF Typed, Shape
<1>3. ASSUME NEW n \in Node, SealDisco(n) PROVE Goal
  <2>1. link[n] \in DOMAIN live[n]
    BY <1>3 DEF SealDisco, SendDisco, Typed, SessionTypeOK, CallsType, Shape
  <2> DEFINE row == [live[n][link[n]] EXCEPT !.sendN = @ + 1]
  <2>2. row \in LinkState /\ Len(row.inbox) <= Room
    BY <2>1, Rows DEF Typed, SessionTypeOK, LinksType
  <2>3. live' = [live EXCEPT ![n][link[n]] = row]
    BY <1>3 DEF SealDisco
  <2> HIDE DEF row
  <2>4. UNCHANGED <<link, datagram, call>>
    BY <1>3 DEF SealDisco, SendDisco
  <2> QED
    BY <2>1, <2>2, <2>3, <2>4, LinkRowType, CallsKept
<1>4. ASSUME NEW n \in Node, RestartProcess(n) PROVE Goal
  <2>1. /\ live' = [live EXCEPT ![n] = <<>>] /\ link' = [link EXCEPT ![n] = None]
        /\ call' = [call EXCEPT ![n] = [g \in Sender |-> None]]
        /\ datagram' = [datagram EXCEPT ![n] = None]
    BY <1>4 DEF RestartProcess, Restart
  <2> QED
    BY <2>1 DEF Typed, SessionTypeOK, HandshakeType, CallsType, LinksType, Shape
<1>5. ASSUME NEW n \in Node, OnData(n) PROVE Goal
  <2>1. UNCHANGED <<link, datagram, call>>
    BY <1>5 DEF OnData
  <2>2. CASE link[n] = None
    BY <1>0, <1>5, <2>1, <2>2 DEF OnData
  <2>3. CASE link[n] # None
    <3>1. link[n] \in DOMAIN live[n]
      BY <2>3 DEF Typed, SessionTypeOK, CallsType
    <3>2. Head(inbox[n]) \in Data
      BY <1>5, ReadType DEF OnData, Typed, SessionTypeOK, FramesType, Frame
    <3>3. Deliver(n, link[n], Head(inbox[n]))
      BY <1>5, <2>3 DEF OnData
    <3> QED
      BY <2>1, <3>1, <3>2, <3>3, DeliverType, CallsKept
  <2> QED
    BY <2>2, <2>3
<1>6. ASSUME NEW n \in Node, ReadDatagram(n) PROVE Goal
  <2>1. UNCHANGED <<link, live, call>> /\ link[n] \in DOMAIN live[n]
    BY <1>6 DEF ReadDatagram, vars, Typed, SessionTypeOK, CallsType
  <2>2. PICK f \in air[n] : datagram' = [datagram EXCEPT ![n] = [link |-> link[n], frame |-> f]]
    BY <1>6 DEF ReadDatagram
  <2>3. f \in Data
    BY <2>2 DEF Typed, SessionTypeOK, FramesType
  <2> QED
    BY <2>1, <2>2, <2>3 DEF Typed, SessionTypeOK, LinksType, CallsType, Shape
<1>7. ASSUME NEW n \in Node, OpenDatagram(n) PROVE Goal
  <2>1. datagram[n].link \in DOMAIN live[n] /\ datagram[n].frame \in Data
    BY <1>7 DEF OpenDatagram, Typed, SessionTypeOK, CallsType
  <2>2. LinksType' /\ DOMAIN live' = Node /\ \A m \in Node : DOMAIN live'[m] = DOMAIN live[m]
    BY <1>7, <2>1, DeliverType DEF OpenDatagram
  <2>3. UNCHANGED <<link, call>> /\ datagram' = [datagram EXCEPT ![n] = None]
    BY <1>7 DEF OpenDatagram, vars
  <2> QED
    BY <2>2, <2>3 DEF Typed, SessionTypeOK, CallsType, Shape
<1>8. ASSUME NEW n \in Node, Recv(n) PROVE Goal
  <2>1. PICK s \in DOMAIN live[n] : live[n][s].inbox # <<>> /\ live' = [live EXCEPT ![n][s].inbox = Tail(@)]
    BY <1>8 DEF Recv
  <2> DEFINE row == [live[n][s] EXCEPT !.inbox = Tail(@)]
  <2>2. row \in LinkState /\ Len(row.inbox) <= Room
    BY <2>1, Rows DEF Typed, SessionTypeOK, LinksType
  <2>3. live' = [live EXCEPT ![n][s] = row]
    BY <2>1
  <2> HIDE DEF row
  <2>4. UNCHANGED <<link, datagram, call>>
    BY <1>8 DEF Recv, vars
  <2> QED
    BY <2>2, <2>3, <2>4, LinkRowType, CallsKept
<1>9. ASSUME NEW n \in Node, NEW g \in Sender, TakeNumber(n, g) PROVE Goal
  <2>1. PICK s \in DOMAIN live[n] :
          /\ live' = [live EXCEPT ![n][s].sendN = @ + 1]
          /\ call' = [call EXCEPT ![n][g] = [at |-> "seal", session |-> s, plain |-> said + 1]]
    BY <1>9 DEF TakeNumber
  <2> DEFINE row == [live[n][s] EXCEPT !.sendN = @ + 1]
  <2>2. row \in LinkState /\ Len(row.inbox) <= Room
    BY <2>1, Rows DEF Typed, SessionTypeOK, LinksType
  <2>3. live' = [live EXCEPT ![n][s] = row]
    BY <2>1
  <2> HIDE DEF row
  <2>4. LinksType' /\ DOMAIN live' = Node /\ \A m \in Node : DOMAIN live'[m] = DOMAIN live[m]
    BY <2>2, <2>3, LinkRowType
  <2>5. [at |-> "seal", session |-> s, plain |-> said + 1] \in Sealing
    BY <1>9, SessionAssumption DEF TakeNumber, Sealing, Plain, Typed, SessionTypeOK, LinksType, FramesType
  <2>6. UNCHANGED <<link, datagram>>
    BY <1>9 DEF TakeNumber, vars
  <2> QED
    BY <2>1, <2>4, <2>5, <2>6 DEF Typed, SessionTypeOK, CallsType, Shape
<1>10. ASSUME NEW n \in Node, NEW g \in Sender, Seal(n, g) PROVE Goal
  <2> DEFINE f == [type |-> "data", session |-> call[n][g].session,
                   nonce |-> live[n][call[n][g].session].sendN, plain |-> call[n][g].plain]
  <2>1. call' = [call EXCEPT ![n][g] = [at |-> "write", frame |-> f]] /\ UNCHANGED <<link, live, datagram>>
    BY <1>10 DEF Seal, vars
  <2> DEFINE s == call[n][g].session
  <2>0. s \in DOMAIN live[n] /\ call[n][g] \in {None} \cup Sealing \cup Writing /\ call[n][g] # None
    BY <1>10 DEF Seal, Typed, SessionTypeOK, CallsType
  <2>a. s \in Session /\ live[n][s].sendN \in Nonce /\ call[n][g].plain \in Plain
    BY <1>10, <2>0 DEF Seal, Sealing, Writing, Nonce, LinkState, Typed, SessionTypeOK, LinksType
  <2>2. f \in Data
    BY <2>a DEF Data
  <2> HIDE DEF f
  <2>3. [at |-> "write", frame |-> f] \in Writing /\ [at |-> "write", frame |-> f].at # "seal"
    BY <2>2 DEF Writing
  <2> QED
    BY <2>1, <2>3 DEF Typed, SessionTypeOK, LinksType, CallsType, Shape
<1>11. ASSUME NEW n \in Node, NEW g \in Sender, WriteFrame(n, g) PROVE Goal
  <2>1. call' = [call EXCEPT ![n][g] = None] /\ UNCHANGED <<link, live, datagram>>
    BY <1>11 DEF WriteFrame
  <2> QED
    BY <2>1 DEF Typed, SessionTypeOK, LinksType, CallsType, Shape
<1>12. CASE UNCHANGED allVars
  BY <1>0, <1>12 DEF allVars, vars, dataVars
<1> QED
  BY <1>1, <1>2, <1>3, <1>4, <1>5, <1>6, <1>7, <1>8, <1>9, <1>10, <1>11, <1>12 DEF NextSession

(* What was sealed was sealed under a session. *)
LEMMA SealedStepType ==
  ASSUME Typed, [NextSession]_allVars
  PROVE  SealedType'
<1>1. CASE UNCHANGED sealed
  BY <1>1 DEF Typed, SealedType
<1>2. ASSUME NEW n \in Node, SealDisco(n) PROVE SealedType'
  <2>1. link[n] \in DOMAIN live[n]
    BY <1>2 DEF SealDisco, SendDisco, Typed, SessionTypeOK, CallsType, Shape
  <2>2. link[n] \in Session /\ live[n][link[n]].sendN + 1 \in Nonce
    BY <2>1 DEF Typed, SessionTypeOK, LinksType, LinkState, Nonce
  <2> QED
    BY <1>2, <2>2 DEF SealDisco, Seals, Typed, SealedType
<1>3. ASSUME NEW n \in Node, NEW g \in Sender, Seal(n, g) PROVE SealedType'
  <2> DEFINE s == call[n][g].session
  <2>1. s \in DOMAIN live[n]
    BY <1>3 DEF Seal, Typed, SessionTypeOK, CallsType
  <2>2. s \in Session /\ live[n][s].sendN \in Nonce
    BY <2>1 DEF Typed, SessionTypeOK, LinksType, LinkState, Nonce
  <2> QED
    BY <1>3, <2>2 DEF Seal, Seals, Typed, SealedType
<1> QED
  BY <1>1, <1>2, <1>3 DEF NextSession, HandshakeStep, InstallLink, OpenDisco, RestartProcess, OnData,
     ReadDatagram, OpenDatagram, Recv, TakeNumber, WriteFrame, dataVars, allVars

LEMMA TypedStep ==
  ASSUME Typed, [NextSession]_allVars
  PROVE  Typed'
BY HandshakeStepType, LinksStepType, SealedStepType DEF Typed, SessionTypeOK, Shape

-----------------------------------------------------------------------------
(* Ephemeral keys. *)

(* A step that makes no key, starts no installation and puts no new key    *)
(* into a link or under a message keeps keys fresh.                        *)
LEMMA KeysKept ==
  ASSUME Typed, Known, FreshKeys,
         made' = made,
         \A n \in Node : pending'[n] = pending[n] \/ pending'[n] = None,
         \A n \in Node : reader'[n].at = "install" => reader'[n] = reader[n],
         \A n \in Node : reader[n].at = "install" /\ reader'[n].at # "install" => pending'[n] = None,
         \A n \in Node : DOMAIN live'[n] \subseteq DOMAIN live[n],
         \A e \in sealed' : e \in sealed \/ \E n \in Node : e.session \in DOMAIN live[n]
  PROVE  Known' /\ FreshKeys'
<1>1. \A n \in Node : \A id : Holds(pending'[n], reader'[n], id) => Holds(pending[n], reader[n], id)
  BY DEF Holds
<1>2. \A id : Unused(id, live, sealed) => Unused(id, live', sealed')
  BY DEF Unused
<1>3. Known'
  BY <1>1 DEF Known
<1>4. \A n, m \in Node : \A id : Holds(pending'[n], reader'[n], id) /\ Holds(pending'[m], reader'[m], id) => n = m
  BY <1>1 DEF FreshKeys
<1>5. \A n \in Node : reader'[n].at = "install" => Unused(reader'[n].session.mine.id, live', sealed')
  BY <1>2 DEF FreshKeys
<1>6. \A n \in Node : pending'[n] # None /\ reader'[n].at # "install" => Unused(pending'[n].id, live', sealed')
  BY <1>2 DEF FreshKeys
<1> QED
  BY <1>3, <1>4, <1>5, <1>6 DEF FreshKeys

(* A key that was just made is in no link and under no message. *)
LEMMA NewKeyUnused ==
  ASSUME Typed, Known, UNCHANGED <<live, sealed>>
  PROVE  Unused(made + 1, live', sealed') /\ \A n \in Node : ~Holds(pending[n], reader[n], made + 1)
<1>1. made \in Nat
  BY DEF Typed, SessionTypeOK, HandshakeType
<1> QED
  BY <1>1 DEF Known, Unused

(* Giving one client the key that was just made keeps all keys known and   *)
(* apart.                                                                  *)
LEMMA OneMoreKey ==
  ASSUME Typed, Known, FreshKeys, NEW n \in Node,
         made' = made + 1, UNCHANGED <<live, sealed>>,
         \A m \in Node : \A id : Holds(pending'[m], reader'[m], id) =>
           Holds(pending[m], reader[m], id) \/ (m = n /\ id = made + 1)
  PROVE  /\ Known'
         /\ \A m, k \in Node : \A id :
              Holds(pending'[m], reader'[m], id) /\ Holds(pending'[k], reader'[k], id) => m = k
<1>1. made \in Nat
  BY DEF Typed, SessionTypeOK, HandshakeType
<1>2. made + 1 \in 1..made' /\ \A id : id \in 1..made => id \in 1..made'
  BY <1>1
<1>3. \A m \in Node : \A id : Holds(pending'[m], reader'[m], id) => id \in 1..made'
  BY <1>2 DEF Known
<1>4. \A e \in sealed' : e.session.mine.id \in 1..made'
  BY <1>2 DEF Known
<1>5. \A m \in Node : \A s \in DOMAIN live'[m] : s.mine.id \in 1..made'
  BY <1>2 DEF Known
<1>6. \A m \in Node : ~Holds(pending[m], reader[m], made + 1)
  BY NewKeyUnused
<1>7. ASSUME NEW m \in Node, NEW k \in Node, NEW id,
             Holds(pending'[m], reader'[m], id), Holds(pending'[k], reader'[k], id)
      PROVE  m = k
  <2>1. CASE id = made + 1
    BY <1>6, <1>7, <2>1
  <2>2. CASE id # made + 1
    BY <1>7, <2>2 DEF FreshKeys
  <2> QED
    BY <2>1, <2>2
<1> QED
  BY <1>3, <1>4, <1>5, <1>7 DEF Known

LEMMA KeysStep ==
  ASSUME Typed, Known, FreshKeys, [NextSession]_allVars
  PROVE  Known' /\ FreshKeys'
<1>0. made \in Nat
  BY DEF Typed, SessionTypeOK, HandshakeType
<1>1. ASSUME NEW n \in Node, OpenInitiator(n), UNCHANGED dataVars PROVE Known' /\ FreshKeys'
  <2>1. /\ pending' = [pending EXCEPT ![n] = Fresh("initiate")] /\ made' = made + 1
        /\ UNCHANGED <<reader, live, sealed>>
    BY <1>1 DEF OpenInitiator, dataVars
  <2>2. Unused(made + 1, live', sealed') /\ \A m \in Node : ~Holds(pending[m], reader[m], made + 1)
    BY <2>1, NewKeyUnused
  <2>3. \A m \in Node : \A id : Holds(pending'[m], reader'[m], id) => Holds(pending[m], reader[m], id) \/ (m = n /\ id = made + 1)
    BY <2>1 DEF Holds, Fresh, Typed, SessionTypeOK, HandshakeType
  <2>4. Known'
    BY <2>1, <2>3, OneMoreKey
  <2>5. \A m, k \in Node : \A id : Holds(pending'[m], reader'[m], id) /\ Holds(pending'[k], reader'[k], id) => m = k
    BY <2>1, <2>3, OneMoreKey
  <2>6. \A id : Unused(id, live, sealed) => Unused(id, live', sealed')
    BY <2>1 DEF Unused
  <2>7. \A m \in Node : pending'[m] # None /\ reader'[m].at # "install" => Unused(pending'[m].id, live', sealed')
    BY <2>1, <2>2, <2>6 DEF FreshKeys, Fresh, Typed, SessionTypeOK, HandshakeType
  <2> QED
    BY <2>1, <2>4, <2>5, <2>6, <2>7 DEF FreshKeys
<1>2. ASSUME NEW n \in Node, OnHandshake(n), UNCHANGED dataVars PROVE Known' /\ FreshKeys'
  <2> DEFINE eph == Head(inbox[n]).eph
  <2>0. UNCHANGED <<live, sealed, pending>> /\ reader[n] = Idle /\ Idle.at # "install"
    BY <1>2 DEF OnHandshake, dataVars, Idle
  <2>1. \A id : Unused(id, live, sealed) => Unused(id, live', sealed')
    BY <2>0 DEF Unused
  <2>2. CASE pending[n] # None
    <3>1. /\ reader' = [reader EXCEPT ![n] = [at |-> "install", session |-> Finish(n, eph), reply |-> None]]
          /\ made' = made
      BY <1>2, <2>2 DEF OnHandshake
    <3>2. Finish(n, eph).mine = pending[n]
      BY DEF Finish
    <3>3. \A m \in Node : \A id : Holds(pending'[m], reader'[m], id) => Holds(pending[m], reader[m], id)
      BY <2>0, <2>2, <3>1, <3>2 DEF Holds, Typed, SessionTypeOK, HandshakeType
    <3>4. Known'
      BY <2>0, <3>1, <3>3 DEF Known
    <3>5. \A m \in Node : reader'[m].at = "install" => Unused(reader'[m].session.mine.id, live', sealed')
      BY <2>0, <2>1, <2>2, <3>1, <3>2 DEF FreshKeys, Typed, SessionTypeOK, HandshakeType
    <3>6. \A m \in Node : reader'[m].at # "install" => reader[m].at # "install"
      BY <2>0, <3>1 DEF Typed, SessionTypeOK, HandshakeType
    <3> QED
      BY <2>0, <2>1, <3>3, <3>4, <3>5, <3>6 DEF FreshKeys
  <2>3. CASE pending[n] = None
    <3>1. /\ reader' = [reader EXCEPT ![n] = [at |-> "install", session |-> Respond(eph), reply |-> Fresh("respond")]]
          /\ made' = made + 1
      BY <1>2, <2>3 DEF OnHandshake
    <3>2. Respond(eph).mine.id = made + 1
      BY DEF Respond, Fresh
    <3>3. Unused(made + 1, live', sealed') /\ \A m \in Node : ~Holds(pending[m], reader[m], made + 1)
      BY <2>0, NewKeyUnused
    <3>4. \A m \in Node : \A id : Holds(pending'[m], reader'[m], id) => Holds(pending[m], reader[m], id) \/ (m = n /\ id = made + 1)
      BY <2>0, <3>1, <3>2 DEF Holds, Typed, SessionTypeOK, HandshakeType
    <3>5. Known'
      BY <2>0, <3>1, <3>4, OneMoreKey
    <3>6. \A m, k \in Node : \A id : Holds(pending'[m], reader'[m], id) /\ Holds(pending'[k], reader'[k], id) => m = k
      BY <2>0, <3>1, <3>4, OneMoreKey
    <3>7. \A m \in Node : reader'[m].at = "install" => Unused(reader'[m].session.mine.id, live', sealed')
      BY <2>1, <3>1, <3>2, <3>3 DEF FreshKeys, Typed, SessionTypeOK, HandshakeType
    <3>8. \A m \in Node : reader'[m].at # "install" => reader[m].at # "install"
      BY <2>0, <3>1 DEF Typed, SessionTypeOK, HandshakeType
    <3> QED
      BY <2>0, <2>1, <3>5, <3>6, <3>7, <3>8 DEF FreshKeys
  <2> QED
    BY <2>2, <2>3
<1>3. ASSUME NEW n \in Node, InstallLink(n) PROVE Known' /\ FreshKeys'
  <2> DEFINE s == reader[n].session
  <2>1. /\ reader[n].at = "install" /\ s \in Session
        /\ pending' = [pending EXCEPT ![n] = None]
        /\ reader' = [reader EXCEPT ![n] = [at |-> "disco", reply |-> reader[n].reply]]
        /\ UNCHANGED <<made, sealed>>
    BY <1>3, ReaderHolds DEF InstallLink, Install, Typed, SessionTypeOK, HandshakeType
  <2>2. \A m \in Node : DOMAIN live'[m] = IF m = n THEN DOMAIN live[n] \cup {s} ELSE DOMAIN live[m]
    BY <1>3 DEF InstallLink, Publish, Typed, Shape
  <2>3. Holds(pending[n], reader[n], s.mine.id)
    BY <2>1 DEF Holds
  <2> HIDE DEF s
  <2>4. \A m \in Node : \A id : Holds(pending'[m], reader'[m], id) => Holds(pending[m], reader[m], id) /\ m # n
    BY <2>1 DEF Holds, Typed, SessionTypeOK, HandshakeType
  <2>5. Known'
    BY <2>1, <2>2, <2>3, <2>4 DEF Known
  <2>6. \A id : Unused(id, live, sealed) /\ id # s.mine.id => Unused(id, live', sealed')
    BY <2>1, <2>2 DEF Unused
  <2>7. \A m, k \in Node : \A id : Holds(pending'[m], reader'[m], id) /\ Holds(pending'[k], reader'[k], id) => m = k
    BY <2>4 DEF FreshKeys
  <2>8. Unused(s.mine.id, live, sealed)
    BY <2>1 DEF FreshKeys, s
  <2>9. \A m, k \in Node : \A t \in DOMAIN live'[m], u \in DOMAIN live'[k] : t.mine.id = u.mine.id => m = k
    BY <2>2, <2>8 DEF FreshKeys, Unused
  <2>10. ASSUME NEW m \in Node, m # n, NEW id, Holds(pending[m], reader[m], id) PROVE id # s.mine.id
    BY <2>3, <2>10 DEF FreshKeys
  <2>11. \A m \in Node : reader'[m].at = "install" => Unused(reader'[m].session.mine.id, live', sealed')
    <3> SUFFICES ASSUME NEW m \in Node, reader'[m].at = "install" PROVE Unused(reader'[m].session.mine.id, live', sealed')
      OBVIOUS
    <3>1. m # n /\ reader'[m] = reader[m]
      BY <2>1 DEF Typed, SessionTypeOK, HandshakeType
    <3>2. Holds(pending[m], reader[m], reader[m].session.mine.id)
      BY <3>1 DEF Holds
    <3> QED
      BY <2>6, <2>10, <3>1, <3>2 DEF FreshKeys
  <2>12. \A m \in Node : pending'[m] # None /\ reader'[m].at # "install" => Unused(pending'[m].id, live', sealed')
    <3> SUFFICES ASSUME NEW m \in Node, pending'[m] # None, reader'[m].at # "install" PROVE Unused(pending'[m].id, live', sealed')
      OBVIOUS
    <3>1. m # n /\ reader'[m] = reader[m] /\ pending'[m] = pending[m]
      BY <2>1 DEF Typed, SessionTypeOK, HandshakeType
    <3>2. Holds(pending[m], reader[m], pending[m].id)
      BY <3>1 DEF Holds
    <3> QED
      BY <2>6, <2>10, <3>1, <3>2 DEF FreshKeys
  <2> QED
    BY <2>5, <2>7, <2>9, <2>11, <2>12 DEF FreshKeys
<1>4. ASSUME NEW n \in Node, SealDisco(n) PROVE Known' /\ FreshKeys'
  <2>1. link[n] \in DOMAIN live[n]
    BY <1>4 DEF SealDisco, SendDisco, Typed, SessionTypeOK, CallsType, Shape
  <2>2. \A e \in sealed' : e \in sealed \/ e.session \in DOMAIN live[n]
    BY <1>4, <2>1 DEF SealDisco, Seals
  <2> DEFINE after == [at |-> "onLink", reply |-> reader[n].reply]
  <2>a. after.at # "install"
    OBVIOUS
  <2>3. /\ UNCHANGED <<made, pending>> /\ reader[n].at = "disco"
        /\ reader' = [reader EXCEPT ![n] = after]
    BY <1>4 DEF SealDisco, SendDisco
  <2> HIDE DEF after
  <2>4. \A m \in Node : DOMAIN live'[m] = DOMAIN live[m]
    BY <1>4 DEF SealDisco, Typed, Shape
  <2>5. \A m \in Node : reader'[m].at = "install" => reader'[m] = reader[m]
    BY <2>a, <2>3 DEF Typed, SessionTypeOK, HandshakeType
  <2>6. \A m \in Node : reader[m].at = "install" => reader'[m].at = "install"
    BY <2>3 DEF Typed, SessionTypeOK, HandshakeType
  <2>7. \A e \in sealed' : e \in sealed \/ \E m \in Node : e.session \in DOMAIN live[m]
    BY <2>2
  <2>8. \A m \in Node : DOMAIN live'[m] \subseteq DOMAIN live[m]
    BY <2>4
  <2> QED
    BY <2>3, <2>5, <2>6, <2>7, <2>8, KeysKept
<1>5. ASSUME NEW n \in Node, NEW g \in Sender, Seal(n, g) PROVE Known' /\ FreshKeys'
  <2>1. call[n][g].session \in DOMAIN live[n]
    BY <1>5 DEF Seal, Typed, SessionTypeOK, CallsType
  <2>2. \A e \in sealed' : e \in sealed \/ e.session \in DOMAIN live[n]
    BY <1>5, <2>1 DEF Seal, Seals
  <2>3. UNCHANGED <<made, pending, reader, live>>
    BY <1>5 DEF Seal, vars
  <2> QED
    BY <2>2, <2>3, KeysKept
<1>6. ASSUME NEW n \in Node, RestartProcess(n) PROVE Known' /\ FreshKeys'
  <2>1. /\ UNCHANGED <<made, sealed>> /\ Idle.at # "install"
        /\ pending' = [pending EXCEPT ![n] = None] /\ reader' = [reader EXCEPT ![n] = Idle]
        /\ live' = [live EXCEPT ![n] = <<>>]
    BY <1>6 DEF RestartProcess, Restart, Idle
  <2> QED
    BY <2>1, KeysKept DEF Typed, SessionTypeOK, HandshakeType, Shape
<1>7. ASSUME UNCHANGED <<made, pending, sealed>>,
             \A m \in Node : reader'[m] = reader[m] \/ (reader[m].at # "install" /\ reader'[m].at # "install"),
             \A m \in Node : DOMAIN live'[m] = DOMAIN live[m]
      PROVE  Known' /\ FreshKeys'
  BY <1>7, KeysKept
<1>8. ASSUME NEW n \in Node, SendInitiation(n) \/ Drop(n), UNCHANGED dataVars PROVE Known' /\ FreshKeys'
  BY <1>7, <1>8 DEF SendInitiation, Drop, dataVars
<1>9. ASSUME NEW n \in Node, SendReply(n), UNCHANGED dataVars PROVE Known' /\ FreshKeys'
  <2>1. /\ UNCHANGED <<made, pending, sealed, live>> /\ Idle.at # "install"
        /\ reader[n].at = "onLink" /\ reader' = [reader EXCEPT ![n] = Idle]
    BY <1>9 DEF SendReply, dataVars, Idle
  <2> QED
    BY <1>7, <2>1 DEF Typed, SessionTypeOK, HandshakeType
<1>10. ASSUME NEW n \in Node,
              OpenDisco(n) \/ OnData(n) \/ ReadDatagram(n) \/ OpenDatagram(n) \/ Recv(n)
       PROVE  UNCHANGED <<made, pending, sealed, reader>>
  BY <1>10 DEF OpenDisco, OnDisco, OnData, ReadDatagram, OpenDatagram, Recv, vars, dataVars
<1>11. ASSUME NEW n \in Node,
              OpenDisco(n) \/ OnData(n) \/ ReadDatagram(n) \/ OpenDatagram(n) \/ Recv(n)
       PROVE  \A m \in Node : DOMAIN live'[m] = DOMAIN live[m]
  BY <1>11 DEF OpenDisco, OnData, ReadDatagram, OpenDatagram, Deliver, Recv, vars, dataVars, Typed, Shape
<1>12. ASSUME NEW n \in Node, NEW g \in Sender, TakeNumber(n, g) \/ WriteFrame(n, g)
       PROVE  Known' /\ FreshKeys'
  <2>1. UNCHANGED <<made, pending, sealed, reader>>
    BY <1>12 DEF TakeNumber, WriteFrame, vars
  <2>2. \A m \in Node : DOMAIN live'[m] = DOMAIN live[m]
    BY <1>12 DEF TakeNumber, WriteFrame, Typed, Shape
  <2> QED
    BY <1>7, <2>1, <2>2
<1>13. CASE UNCHANGED allVars
  BY <1>7, <1>13 DEF allVars, vars, dataVars
<1> QED
  BY <1>1, <1>2, <1>3, <1>4, <1>5, <1>6, <1>7, <1>8, <1>9, <1>10, <1>11, <1>12, <1>13
     DEF NextSession, HandshakeStep

-----------------------------------------------------------------------------
(* Counters. *)

(* A step that seals nothing and takes no number keeps the counters ahead. *)
LEMMA CountersKept ==
  ASSUME Typed, OneHolder, CounterAhead, NonceUsedOnce, UNCHANGED sealed,
         \A n \in Node : \A g \in Sender : \A s : HasNumber(call'[n][g], s) => HasNumber(call[n][g], s),
         \A n \in Node : \A s \in DOMAIN live'[n] :
           \/ s \in DOMAIN live[n] /\ live'[n][s].sendN = live[n][s].sendN
           \/ \A e \in sealed : e.session # s
  PROVE  OneHolder' /\ CounterAhead' /\ NonceUsedOnce'
<1>1. OneHolder'
  BY DEF OneHolder
<1>2. NonceUsedOnce'
  BY DEF NonceUsedOnce
<1>3. ASSUME NEW n \in Node, NEW s \in DOMAIN live'[n], NEW e \in sealed', e.session = s
      PROVE  /\ e.nonce <= live'[n][s].sendN
             /\ (\E g \in Sender : HasNumber(call'[n][g], s)) => e.nonce < live'[n][s].sendN
  <2>1. s \in DOMAIN live[n] /\ live'[n][s].sendN = live[n][s].sendN
    BY <1>3
  <2> QED
    BY <1>3, <2>1 DEF CounterAhead, Locked, HasNumber
<1> QED
  BY <1>1, <1>2, <1>3 DEF CounterAhead, Locked, HasNumber

(* A message sealed under a link's counter when every earlier nonce of the *)
(* link is smaller gets a nonce of its own.                                *)
LEMMA SealOnce ==
  ASSUME NonceUsedOnce, NEW s, NEW nonce, NEW plain, Seals(s, nonce, plain),
         \A e \in sealed : e.session = s => e.nonce < nonce,
         nonce \in Nat
  PROVE  NonceUsedOnce'
<1> DEFINE new == [session |-> s, nonce |-> nonce, plain |-> plain]
<1>1. sealed' = sealed \cup {new} /\ new.session = s /\ new.nonce = nonce
  BY DEF Seals
<1>2. \A e \in sealed : e.session = s => e.nonce # nonce
  OBVIOUS
<1> HIDE DEF new
<1> QED
  BY <1>1, <1>2 DEF NonceUsedOnce

LEMMA CountersStep ==
  ASSUME Typed, Known, FreshKeys, OneHolder, CounterAhead, NonceUsedOnce, [NextSession]_allVars
  PROVE  OneHolder' /\ CounterAhead' /\ NonceUsedOnce'
<1>0. ASSUME UNCHANGED sealed,
             \A m \in Node : \A h \in Sender : \A s : HasNumber(call'[m][h], s) => HasNumber(call[m][h], s),
             \A m \in Node : \A s \in DOMAIN live'[m] : s \in DOMAIN live[m] /\ live'[m][s].sendN = live[m][s].sendN
      PROVE  OneHolder' /\ CounterAhead' /\ NonceUsedOnce'
  BY <1>0, CountersKept
<1>1. ASSUME UNCHANGED <<sealed, call, live>> PROVE OneHolder' /\ CounterAhead' /\ NonceUsedOnce'
  BY <1>0, <1>1
<1>2. ASSUME NEW n \in Node, HandshakeStep(n) \/ OpenDisco(n) \/ ReadDatagram(n)
      PROVE  OneHolder' /\ CounterAhead' /\ NonceUsedOnce'
  BY <1>1, <1>2 DEF HandshakeStep, OpenDisco, ReadDatagram, dataVars
<1>3. ASSUME NEW n \in Node, InstallLink(n) PROVE OneHolder' /\ CounterAhead' /\ NonceUsedOnce'
  <2> DEFINE s == reader[n].session
  <2>1. reader[n].at = "install" /\ UNCHANGED <<sealed, call>>
    BY <1>3 DEF InstallLink, Install
  <2>2. \A e \in sealed : e.session # s
    BY <2>1 DEF FreshKeys, Unused
  <2>3. \A m \in Node : \A t \in DOMAIN live'[m] : t = s \/ (t \in DOMAIN live[m] /\ live'[m][t].sendN = live[m][t].sendN)
    BY <1>3 DEF InstallLink, Publish, Typed, Shape
  <2> HIDE DEF s
  <2>4. \A m \in Node : \A t \in DOMAIN live'[m] :
          \/ t \in DOMAIN live[m] /\ live'[m][t].sendN = live[m][t].sendN
          \/ \A e \in sealed : e.session # t
    BY <2>2, <2>3
  <2>5. \A m \in Node : \A h \in Sender : \A t : HasNumber(call'[m][h], t) => HasNumber(call[m][h], t)
    BY <2>1
  <2> QED
    BY <2>1, <2>4, <2>5, CountersKept
<1>4. ASSUME NEW n \in Node, RestartProcess(n) PROVE OneHolder' /\ CounterAhead' /\ NonceUsedOnce'
  <2>1. /\ UNCHANGED sealed /\ live' = [live EXCEPT ![n] = <<>>]
        /\ call' = [call EXCEPT ![n] = [g \in Sender |-> None]]
    BY <1>4 DEF RestartProcess
  <2>2. \A m \in Node : \A s \in DOMAIN live'[m] : s \in DOMAIN live[m] /\ live'[m][s].sendN = live[m][s].sendN
    BY <2>1 DEF Typed, Shape
  <2>3. \A m \in Node : \A h \in Sender : \A s : HasNumber(call'[m][h], s) => HasNumber(call[m][h], s)
    BY <2>1 DEF Typed, Shape, HasNumber
  <2> QED
    BY <1>0, <2>1, <2>2, <2>3
<1>5. ASSUME NEW n \in Node, OnData(n) \/ OpenDatagram(n) \/ Recv(n)
      PROVE  OneHolder' /\ CounterAhead' /\ NonceUsedOnce'
  <2>1. UNCHANGED <<sealed, call>>
    BY <1>5 DEF OnData, OpenDatagram, Recv
  <2>a. ASSUME OnData(n)
        PROVE  \/ live' = live
               \/ \E s \in DOMAIN live[n] : \E q : live' = [live EXCEPT ![n][s].inbox = q]
    <3>1. link[n] = None \/ link[n] \in DOMAIN live[n]
      BY DEF Typed, SessionTypeOK, CallsType
    <3> QED
      BY <2>a, <3>1 DEF OnData, Deliver
  <2>b. ASSUME OpenDatagram(n)
        PROVE  \/ live' = live
               \/ \E s \in DOMAIN live[n] : \E q : live' = [live EXCEPT ![n][s].inbox = q]
    <3>1. datagram[n].link \in DOMAIN live[n]
      BY <2>b DEF OpenDatagram, Typed, SessionTypeOK, CallsType
    <3> QED
      BY <2>b, <3>1 DEF OpenDatagram, Deliver
  <2>2. \/ live' = live
        \/ \E s \in DOMAIN live[n] : \E q : live' = [live EXCEPT ![n][s].inbox = q]
    BY <1>5, <2>a, <2>b DEF Recv
  <2>3. \A m \in Node : \A s \in DOMAIN live[m] : live[m][s] \in LinkState
    BY DEF Typed, SessionTypeOK, LinksType
  <2>4. \A m \in Node : \A t \in DOMAIN live'[m] : t \in DOMAIN live[m] /\ live'[m][t].sendN = live[m][t].sendN
    <3>1. CASE live' = live
      BY <3>1
    <3>2. ASSUME NEW s \in DOMAIN live[n], NEW q, live' = [live EXCEPT ![n][s].inbox = q] 
               PROVE  \A m \in Node : \A t \in DOMAIN live'[m] :
                        t \in DOMAIN live[m] /\ live'[m][t].sendN = live[m][t].sendN
      <4> DEFINE row == [live[n][s] EXCEPT !.inbox = q]
      <4>1. row.sendN = live[n][s].sendN
        BY <2>3 DEF LinkState
      <4>2. live' = [live EXCEPT ![n][s] = row]
        BY <3>2
      <4> HIDE DEF row
      <4> QED
        BY <4>1, <4>2, LinkStep DEF Typed, Shape
    <3> QED
      BY <2>2, <3>1, <3>2
  <2> QED
    BY <1>0, <2>1, <2>4
<1>6. ASSUME NEW n \in Node, NEW g \in Sender, WriteFrame(n, g)
      PROVE  OneHolder' /\ CounterAhead' /\ NonceUsedOnce'
  <2>1. UNCHANGED <<sealed, live>> /\ call' = [call EXCEPT ![n][g] = None]
    BY <1>6 DEF WriteFrame
  <2>2. \A m \in Node : \A h \in Sender : \A s : HasNumber(call'[m][h], s) => HasNumber(call[m][h], s)
    BY <2>1 DEF Typed, Shape, HasNumber
  <2> QED
    BY <1>0, <2>1, <2>2
<1>7. ASSUME NEW n \in Node, SealDisco(n) PROVE OneHolder' /\ CounterAhead' /\ NonceUsedOnce'
  <2> DEFINE s == link[n]
  <2> DEFINE nonce == live[n][s].sendN + 1
  <2>1. s \in DOMAIN live[n]
    BY <1>7 DEF SealDisco, SendDisco, Typed, SessionTypeOK, CallsType, Shape
  <2>2. live[n][s] \in LinkState
    BY <2>1 DEF Typed, SessionTypeOK, LinksType
  <2>3. live[n][s].sendN \in Nat
    BY <2>2 DEF LinkState
  <2>4. /\ Seals(s, nonce, 0) /\ ~Locked(n, s) /\ UNCHANGED call
        /\ live' = [live EXCEPT ![n][s].sendN = @ + 1]
    BY <1>7 DEF SealDisco
  <2>5. \A e \in sealed : e.session = s => e.nonce < nonce
    BY <2>1, <2>3 DEF CounterAhead, Typed, SealedType, Nonce
  <2>6. NonceUsedOnce'
    BY <2>3, <2>4, <2>5, SealOnce
  <2>7. OneHolder'
    BY <2>4 DEF OneHolder
  <2>8. /\ \A m \in Node : DOMAIN live'[m] = DOMAIN live[m]
        /\ live'[n][s].sendN = nonce
        /\ \A m \in Node : \A t \in DOMAIN live[m] : m # n \/ t # s => live'[m][t] = live[m][t]
    BY <2>1, <2>2, <2>4 DEF LinkState, Typed, Shape
  <2>9. \A m \in Node : s \in DOMAIN live[m] => m = n
    BY <2>1 DEF FreshKeys
  <2>10. sealed' = sealed \cup {[session |-> s, nonce |-> nonce, plain |-> 0]}
    BY <2>4 DEF Seals
  <2>11. ~\E h \in Sender : HasNumber(call'[n][h], s)
    BY <2>4 DEF Locked, HasNumber
  <2> HIDE DEF s, nonce
  <2>12. ASSUME NEW m \in Node, NEW t \in DOMAIN live'[m], NEW e \in sealed', e.session = t
         PROVE  /\ e.nonce <= live'[m][t].sendN
                /\ (\E h \in Sender : HasNumber(call'[m][h], t)) => e.nonce < live'[m][t].sendN
    <3>1. CASE t = s
      <4>1. m = n
        BY <2>8, <2>9, <3>1
      <4>2. e.nonce <= nonce
        BY <2>3, <2>5, <2>10, <2>12, <3>1 DEF Typed, SealedType, Nonce, nonce
      <4> QED
        BY <2>8, <2>11, <3>1, <4>1, <4>2
    <3>2. CASE t # s
      <4>1. e \in sealed /\ t \in DOMAIN live[m] /\ live'[m][t] = live[m][t]
        BY <2>8, <2>10, <2>12, <3>2
      <4> QED
        BY <2>4, <2>12, <4>1 DEF CounterAhead, Locked, HasNumber
    <3> QED
      BY <3>1, <3>2
  <2> QED
    BY <2>6, <2>7, <2>12 DEF CounterAhead, Locked, HasNumber
<1>8. ASSUME NEW n \in Node, NEW g \in Sender, TakeNumber(n, g)
      PROVE  OneHolder' /\ CounterAhead' /\ NonceUsedOnce'
  <2>1. PICK s \in DOMAIN live[n] :
          /\ ~Locked(n, s)
          /\ live' = [live EXCEPT ![n][s].sendN = @ + 1]
          /\ call' = [call EXCEPT ![n][g] = [at |-> "seal", session |-> s, plain |-> said + 1]]
    BY <1>8 DEF TakeNumber
  <2>2. live[n][s] \in LinkState /\ UNCHANGED sealed
    BY <1>8 DEF TakeNumber, Typed, SessionTypeOK, LinksType
  <2>3. live[n][s].sendN \in Nat
    BY <2>2 DEF LinkState
  <2>4. /\ \A m \in Node : DOMAIN live'[m] = DOMAIN live[m]
        /\ live'[n][s].sendN = live[n][s].sendN + 1
        /\ \A m \in Node : \A t \in DOMAIN live[m] : m # n \/ t # s => live'[m][t] = live[m][t]
    BY <2>1, <2>2 DEF LinkState, Typed, Shape
  <2>5. \A m \in Node : \A h \in Sender : m # n \/ h # g => call'[m][h] = call[m][h]
    BY <2>1 DEF Typed, Shape
  <2>6. \A t : HasNumber(call'[n][g], t) => t = s
    BY <2>1 DEF Typed, Shape, HasNumber
  <2>7. \A h \in Sender : ~HasNumber(call[n][h], s)
    BY <2>1 DEF Locked, HasNumber
  <2>8. OneHolder'
    BY <2>5, <2>6, <2>7 DEF OneHolder
  <2>9. NonceUsedOnce'
    BY <2>2 DEF NonceUsedOnce
  <2>10. ASSUME NEW m \in Node, NEW t \in DOMAIN live'[m], NEW e \in sealed', e.session = t
         PROVE  /\ e.nonce <= live'[m][t].sendN
                /\ (\E h \in Sender : HasNumber(call'[m][h], t)) => e.nonce < live'[m][t].sendN
    <3>1. e \in sealed /\ t \in DOMAIN live[m] /\ e.nonce <= live[m][t].sendN /\ e.nonce \in Nat
      BY <2>2, <2>4, <2>10 DEF CounterAhead, Typed, SealedType, Nonce
    <3>2. CASE m = n /\ t = s
      BY <2>3, <2>4, <3>1, <3>2
    <3>3. CASE m # n \/ t # s
      <4>1. live'[m][t] = live[m][t]
        BY <2>4, <3>1, <3>3
      <4>2. \A h \in Sender : HasNumber(call'[m][h], t) => HasNumber(call[m][h], t)
        BY <2>5, <2>6, <3>3
      <4> QED
        BY <2>10, <3>1, <4>1, <4>2 DEF CounterAhead, Locked, HasNumber
    <3> QED
      BY <3>2, <3>3
  <2> QED
    BY <2>8, <2>9, <2>10 DEF CounterAhead, Locked, HasNumber
<1>9. ASSUME NEW n \in Node, NEW g \in Sender, Seal(n, g)
      PROVE  OneHolder' /\ CounterAhead' /\ NonceUsedOnce'
  <2> DEFINE s == call[n][g].session
  <2> DEFINE nonce == live[n][s].sendN
  <2>1. s \in DOMAIN live[n] /\ HasNumber(call[n][g], s)
    BY <1>9 DEF Seal, HasNumber, Typed, SessionTypeOK, CallsType
  <2>2. nonce \in Nat
    BY <2>1 DEF Typed, SessionTypeOK, LinksType, LinkState
  <2>3. Seals(s, nonce, call[n][g].plain) /\ UNCHANGED live
    BY <1>9 DEF Seal
  <2>4. \A e \in sealed : e.session = s => e.nonce < nonce
    BY <2>1 DEF CounterAhead, Locked, HasNumber
  <2>5. NonceUsedOnce'
    BY <2>2, <2>3, <2>4, SealOnce
  <2> DEFINE c == [at |-> "write", frame |->
                     [type |-> "data", session |-> s, nonce |-> nonce, plain |-> call[n][g].plain]]
  <2>6. call' = [call EXCEPT ![n][g] = c] /\ c.at = "write"
    BY <1>9 DEF Seal
  <2> HIDE DEF c
  <2>7. \A m \in Node : \A h \in Sender : m # n \/ h # g => call'[m][h] = call[m][h]
    BY <2>6 DEF Typed, Shape
  <2>8. \A t : ~HasNumber(call'[n][g], t)
    BY <2>6 DEF Typed, Shape, HasNumber
  <2>9. OneHolder'
    BY <2>7, <2>8 DEF OneHolder
  <2>10. \A h \in Sender : ~HasNumber(call'[n][h], s)
    BY <2>1, <2>7, <2>8 DEF OneHolder
  <2>11. \A m \in Node : s \in DOMAIN live[m] => m = n
    BY <2>1 DEF FreshKeys
  <2>12. \A e \in sealed' : e \in sealed \/ (e.session = s /\ e.nonce = nonce)
    BY <2>3 DEF Seals
  <2> HIDE DEF s
  <2>13. ASSUME NEW m \in Node, NEW t \in DOMAIN live'[m], NEW e \in sealed', e.session = t
         PROVE  /\ e.nonce <= live'[m][t].sendN
                /\ (\E h \in Sender : HasNumber(call'[m][h], t)) => e.nonce < live'[m][t].sendN
    <3>1. t \in DOMAIN live[m] /\ live' = live
      BY <2>3
    <3>2. CASE e \in sealed
      <4>1. \A h \in Sender : HasNumber(call'[m][h], t) => HasNumber(call[m][h], t)
        BY <2>7, <2>8
      <4> QED
        BY <2>13, <3>1, <3>2, <4>1 DEF CounterAhead, Locked, HasNumber
    <3>3. CASE e.session = s /\ e.nonce = nonce
      <4>1. t = s /\ m = n
        BY <2>11, <2>13, <3>1, <3>3
      <4> QED
        BY <2>2, <2>10, <3>1, <3>3, <4>1
    <3> QED
      BY <2>12, <3>2, <3>3
  <2> QED
    BY <2>5, <2>9, <2>13 DEF CounterAhead, Locked, HasNumber
<1>10. CASE UNCHANGED allVars
  BY <1>1, <1>10 DEF allVars, dataVars
<1> QED
  BY <1>2, <1>3, <1>4, <1>5, <1>6, <1>7, <1>8, <1>9, <1>10 DEF NextSession

-----------------------------------------------------------------------------
(* At the start nothing is installed, waited for or sealed. *)
LEMMA InitInvariant == InitSession => Invariant
<1> SUFFICES ASSUME InitSession PROVE Invariant
  OBVIOUS
<1> USE DEF InitSession, Init
<1>1. Typed
  <2>0. stray \in BOOLEAN
    OBVIOUS
  <2> HIDE DEF Init, InitSession
  <2>a. /\ pending = [n \in Node |-> None] /\ link = [n \in Node |-> None]
        /\ opening = [n \in Node |-> None] /\ reader = [n \in Node |-> Idle]
        /\ knows = [n \in Node |-> FALSE] /\ made = 0 /\ losses = 0
    BY DEF InitSession, Init
  <2>1. HandshakeType
    BY <2>0, <2>a, BoundsAssumption DEF HandshakeType, Reader
  <2> USE DEF InitSession, Init
  <2>2. FramesType
    BY SessionAssumption DEF FramesType
  <2>3. LinksType /\ CallsType
    BY DEF LinksType, CallsType
  <2> QED
    BY <2>1, <2>2, <2>3 DEF Typed, SessionTypeOK, Shape, SealedType, Idle
<1>2. Known /\ FreshKeys
  BY DEF Known, FreshKeys, Holds, Idle
<1>3. OneHolder /\ CounterAhead /\ NonceUsedOnce
  BY DEF OneHolder, HasNumber, CounterAhead, NonceUsedOnce
<1> QED
  BY <1>1, <1>2, <1>3 DEF Invariant

LEMMA InvariantStep == Invariant /\ [NextSession]_allVars => Invariant'
BY TypedStep, KeysStep, CountersStep DEF Invariant

THEOREM InvariantHolds == SpecSession => []Invariant
BY InitInvariant, InvariantStep, PTL DEF SpecSession

(* For any number of goroutines, keys, losses and messages the state has   *)
(* its type: every link in use or held by a goroutine is one of the        *)
(* process, and no inbox overflows.                                        *)
THEOREM TypeCorrect == SpecSession => []SessionTypeOK
<1>1. Invariant => SessionTypeOK
  BY DEF Invariant, Typed
<1> QED
  BY <1>1, InvariantHolds, PTL

(* For any number of goroutines, keys, losses and messages no nonce is     *)
(* used for two messages of a session (Session.Seal).                      *)
THEOREM NoncesUsedOnce == SpecSession => []NonceUsedOnce
<1>1. Invariant => NonceUsedOnce
  BY DEF Invariant
<1> QED
  BY <1>1, InvariantHolds, PTL

-----------------------------------------------------------------------------
(* Inboxes. *)

(* Everything in the inbox was sealed under the session s is matched with. *)
Hears(q, s) == \A i \in DOMAIN q : Match(q[i].session, s)

(* One more such frame, or the first one gone, leaves it so. *)
LEMMA HearsStep ==
  ASSUME NEW q \in Seq(Data), NEW s, Hears(q, s)
  PROVE  /\ \A f \in Data : Match(f.session, s) => Hears(Append(q, f), s)
         /\ q # <<>> => Hears(Tail(q), s)
<1>1. ASSUME NEW f \in Data, Match(f.session, s) PROVE Hears(Append(q, f), s)
  <2>1. ASSUME NEW i \in DOMAIN Append(q, f) PROVE Match(Append(q, f)[i].session, s)
    <3>1. CASE i \in DOMAIN q
      BY <3>1 DEF Hears
    <3>2. CASE i = Len(q) + 1
      BY <1>1, <3>2
    <3> QED
      BY <2>1, <3>1, <3>2
  <2> QED
    BY <2>1 DEF Hears
<1>2. ASSUME q # <<>> PROVE Hears(Tail(q), s)
  <2>1. ASSUME NEW i \in DOMAIN Tail(q) PROVE i + 1 \in DOMAIN q /\ Tail(q)[i] = q[i + 1]
    BY <1>2, <2>1
  <2> QED
    BY <2>1 DEF Hears
<1> QED
  BY <1>1, <1>2

LEMMA DeliverHears ==
  ASSUME Typed, LinkHearsItsOwn, NEW n \in Node, NEW s \in DOMAIN live[n], NEW f \in Data, Deliver(n, s, f)
  PROVE  LinkHearsItsOwn'
<1>0. \A m \in Node : \A t \in DOMAIN live[m] : Hears(live[m][t].inbox, t)
  BY DEF LinkHearsItsOwn, Hears
<1>1. CASE live' = live
  BY <1>1 DEF LinkHearsItsOwn
<1>2. CASE Match(f.session, s) /\ live' = [live EXCEPT ![n][s].inbox = Append(@, f)]
  <2> DEFINE row == [live[n][s] EXCEPT !.inbox = Append(@, f)]
  <2>1. live[n][s] \in LinkState
    BY DEF Typed, SessionTypeOK, LinksType
  <2>2. row.inbox = Append(live[n][s].inbox, f) /\ live[n][s].inbox \in Seq(Data)
    BY <2>1 DEF LinkState
  <2>3. Hears(row.inbox, s)
    BY <1>0, <1>2, <2>2, HearsStep
  <2>4. live' = [live EXCEPT ![n][s] = row]
    BY <1>2
  <2> HIDE DEF row
  <2>5. \A m \in Node : \A t \in DOMAIN live'[m] : Hears(live'[m][t].inbox, t)
    BY <1>0, <2>3, <2>4, LinkStep DEF Typed, Shape
  <2> QED
    BY <2>5 DEF LinkHearsItsOwn, Hears
<1> QED
  BY <1>1, <1>2 DEF Deliver

LEMMA HearsItsOwnStep ==
  ASSUME Typed, LinkHearsItsOwn, [NextSession]_allVars
  PROVE  LinkHearsItsOwn'
<1>0. \A m \in Node : \A t \in DOMAIN live[m] : Hears(live[m][t].inbox, t)
  BY DEF LinkHearsItsOwn, Hears
<1>1. ASSUME \A m \in Node : \A t \in DOMAIN live'[m] :
               \/ live'[m][t].inbox = <<>>
               \/ t \in DOMAIN live[m] /\ live'[m][t].inbox = live[m][t].inbox
      PROVE  LinkHearsItsOwn'
  BY <1>1 DEF LinkHearsItsOwn
<1>2. CASE UNCHANGED live
  BY <1>2 DEF LinkHearsItsOwn
<1>3. ASSUME NEW n \in Node, InstallLink(n) \/ RestartProcess(n) PROVE LinkHearsItsOwn'
  BY <1>1, <1>3 DEF InstallLink, Publish, RestartProcess, Typed, Shape
<1>4. ASSUME NEW n \in Node, NEW s \in DOMAIN live[n], live' = [live EXCEPT ![n][s].sendN = @ + 1]
      PROVE  LinkHearsItsOwn'
  <2> DEFINE row == [live[n][s] EXCEPT !.sendN = @ + 1]
  <2>1. row.inbox = live[n][s].inbox
    BY DEF Typed, SessionTypeOK, LinksType, LinkState
  <2>2. live' = [live EXCEPT ![n][s] = row]
    BY <1>4
  <2> HIDE DEF row
  <2> QED
    BY <1>1, <2>1, <2>2, LinkStep DEF Typed, Shape
<1>5. ASSUME NEW n \in Node, SealDisco(n) PROVE LinkHearsItsOwn'
  <2>1. link[n] \in DOMAIN live[n]
    BY <1>5 DEF SealDisco, SendDisco, Typed, SessionTypeOK, CallsType, Shape
  <2> QED
    BY <1>4, <1>5, <2>1 DEF SealDisco
<1>6. ASSUME NEW n \in Node, NEW g \in Sender, TakeNumber(n, g) PROVE LinkHearsItsOwn'
  BY <1>4, <1>6 DEF TakeNumber
<1>7. ASSUME NEW n \in Node, OnData(n) PROVE LinkHearsItsOwn'
  <2>1. CASE link[n] = None
    BY <1>2, <1>7, <2>1 DEF OnData
  <2>2. CASE link[n] # None
    <3>1. link[n] \in DOMAIN live[n]
      BY <2>2 DEF Typed, SessionTypeOK, CallsType
    <3>2. Head(inbox[n]) \in Data
      BY <1>7, ReadType DEF OnData, Typed, SessionTypeOK, FramesType, Frame
    <3>3. Deliver(n, link[n], Head(inbox[n]))
      BY <1>7, <2>2 DEF OnData
    <3> QED
      BY <3>1, <3>2, <3>3, DeliverHears
  <2> QED
    BY <2>1, <2>2
<1>8. ASSUME NEW n \in Node, OpenDatagram(n) PROVE LinkHearsItsOwn'
  <2>1. datagram[n].link \in DOMAIN live[n] /\ datagram[n].frame \in Data
    BY <1>8 DEF OpenDatagram, Typed, SessionTypeOK, CallsType
  <2> QED
    BY <1>8, <2>1, DeliverHears DEF OpenDatagram
<1>9. ASSUME NEW n \in Node, Recv(n) PROVE LinkHearsItsOwn'
  <2>1. PICK s \in DOMAIN live[n] : live[n][s].inbox # <<>> /\ live' = [live EXCEPT ![n][s].inbox = Tail(@)]
    BY <1>9 DEF Recv
  <2> DEFINE row == [live[n][s] EXCEPT !.inbox = Tail(@)]
  <2>2. live[n][s] \in LinkState
    BY DEF Typed, SessionTypeOK, LinksType
  <2>3. row.inbox = Tail(live[n][s].inbox) /\ live[n][s].inbox \in Seq(Data)
    BY <2>2 DEF LinkState
  <2>4. Hears(row.inbox, s)
    BY <1>0, <2>1, <2>3, HearsStep
  <2>5. live' = [live EXCEPT ![n][s] = row]
    BY <2>1
  <2> HIDE DEF row
  <2>6. \A m \in Node : \A t \in DOMAIN live'[m] : Hears(live'[m][t].inbox, t)
    BY <1>0, <2>4, <2>5, LinkStep DEF Typed, Shape
  <2> QED
    BY <2>6 DEF LinkHearsItsOwn, Hears
<1> QED
  BY <1>2, <1>3, <1>5, <1>6, <1>7, <1>8, <1>9 DEF NextSession, HandshakeStep, OpenDisco, ReadDatagram,
     Seal, WriteFrame, dataVars, allVars

(* For any number of goroutines, keys, losses and messages a link's inbox  *)
(* holds only what was sealed under the session it shares with its peer    *)
(* (onData, Session.Open).                                                 *)
THEOREM LinksHearTheirOwn == SpecSession => []LinkHearsItsOwn
<1>1. InitSession => LinkHearsItsOwn
  BY DEF InitSession, LinkHearsItsOwn
<1>2. Typed /\ LinkHearsItsOwn /\ [NextSession]_allVars => LinkHearsItsOwn'
  BY HearsItsOwnStep
<1>3. Invariant => Typed
  BY DEF Invariant
<1> QED
  BY <1>1, <1>2, <1>3, InvariantHolds, PTL DEF SpecSession

-----------------------------------------------------------------------------
(***************************************************************************)
(* One client opens, and it opens only while no handshake is under way:    *)
(* then both ends of a settled exchange hold the same keys, for any number *)
(* of handshakes, messages, losses and restarts of either process at any   *)
(* time, or the client that opens was ended in mid-handshake and has not   *)
(* opened since; and without a loss one of them has the other's addresses. *)
(*                                                                         *)
(* The argument is that a handshake is one token.  It is in the hands of   *)
(* OpenInitiator, or it is the one handshake frame on its way to the other *)
(* client, or that client's reader has it, or it is the one handshake      *)
(* frame on its way back, or it is with the reader of the client that      *)
(* opened; and as long as there is one, that client waits with the key the *)
(* token began with.  A loss or a restart of the other client destroys it. *)
(* When the process of the client that opens ends while there is a token,  *)
(* the token is astray: both clients answer whatever reaches them, until   *)
(* nothing is under way and a session is opened anew.                      *)
(***************************************************************************)

(* One client of the two opens sessions, and one at a time. *)
OneOpens(d, h) == Node = {d, h} /\ d # h /\ Initiator = {d} /\ Orderly

-----------------------------------------------------------------------------
(* The inductive invariant. *)

(* What is on its way in a queue. *)
NoHandshakeIn(q) == \A i \in DOMAIN q : ~HandshakeOf(q[i])

OneHandshakeIn(q, e) ==
  \E i \in DOMAIN q :
    /\ HandshakeOf(q[i]) /\ q[i].eph = e
    /\ \A j \in DOMAIN q : HandshakeOf(q[j]) => j = i

DiscoIn(q, s) == \E i \in DOMAIN q : q[i].type = "disco" /\ q[i].session = s

Quiet(n) == reader[n] = Idle /\ NoHandshakeIn(inbox[n])

(* The sessions that an initiation and its answer r give the two ends. *)
Answering(r, e) == [mine |-> r, theirs |-> e, role |-> "responder"]
Answered(r, e) == [mine |-> e, theirs |-> r, role |-> "initiator"]

(* The link of n is s, or something was lost and n has none. *)
Keeps(n, s) == link[n] = s \/ (link[n] = None /\ losses > 0)

(* Where the token is. *)
Nowhere(d, h) == opening[d] = None /\ Quiet(d) /\ Quiet(h)

Opening(d, h) == opening[d] # None /\ opening[d] = pending[d] /\ Quiet(d) /\ Quiet(h)

OnItsWay(d, h) ==
  /\ opening[d] = None /\ pending[d] # None
  /\ Quiet(d) /\ reader[h] = Idle /\ OneHandshakeIn(inbox[h], pending[d])

WithResponder(d, h) ==
  /\ opening[d] = None /\ pending[d] # None
  /\ Quiet(d) /\ NoHandshakeIn(inbox[h])
  /\ \E r \in Eph :
       /\ r.by = "respond"
       /\ \/ reader[h] = [at |-> "install", session |-> Answering(r, pending[d]), reply |-> r]
          \/ /\ link[h] = Answering(r, pending[d])
             /\ reader[h] \in {[at |-> "disco", reply |-> r], [at |-> "onLink", reply |-> r]}

OnItsWayBack(d, h) ==
  /\ opening[d] = None /\ pending[d] # None /\ Quiet(h)
  /\ \E r \in Eph :
       /\ r.by = "respond" /\ Keeps(h, Answering(r, pending[d]))
       /\ \/ reader[d] = Idle /\ OneHandshakeIn(inbox[d], r)
          \/ /\ reader[d] = [at |-> "install", session |-> Answered(r, pending[d]), reply |-> None]
             /\ NoHandshakeIn(inbox[d])

Finished(d, h) ==
  /\ opening[d] = None /\ pending[d] = None /\ link[d] # None
  /\ reader[d] \in {[at |-> "disco", reply |-> None], [at |-> "onLink", reply |-> None]}
  /\ NoHandshakeIn(inbox[d]) /\ Quiet(h)

OneToken(d, h) ==
  \/ Nowhere(d, h) \/ Opening(d, h) \/ OnItsWay(d, h)
  \/ WithResponder(d, h) \/ OnItsWayBack(d, h) \/ Finished(d, h)

(* The client that opens initiates, and the other never opens. *)
Roles(d, h) ==
  /\ pending[h] = None /\ opening[h] = None
  /\ pending[d] # None => pending[d].by = "initiate"

(* When the client that opens waits for nothing, the other has the session *)
(* that matches, or lost it, and its addresses are on their way or there.  *)
Agree(d, h) ==
  pending[d] = None /\ link[d] # None =>
    /\ \/ link[h] # None /\ Match(link[d], link[h])
       \/ link[h] = None /\ losses > 0
    /\ losses = 0 => \/ reader[d].at = "disco"
                     \/ DiscoIn(inbox[h], link[d])
                     \/ knows[h]

Exchange(d, h) == Roles(d, h) /\ OneToken(d, h) /\ Agree(d, h)

(* A client that waits for nothing becomes a responder only. *)
Responds(n) ==
  /\ link[n] # None => link[n].role = "responder"
  /\ reader[n].at = "install" => reader[n].session.role = "responder"

(* The token is astray, if there still is one. *)
Astray(d, h) ==
  /\ \A n \in {d, h} : pending[n] = None /\ opening[n] = None
  /\ losses > 0 /\ Responds(d)

Course(d, h) ==
  /\ Responds(h)
  /\ IF stray THEN Astray(d, h) ELSE Exchange(d, h)

-----------------------------------------------------------------------------
(* The two clients, and what is on its way. *)

(* Each is the other's peer. *)
LEMMA Peers ==
  ASSUME NEW d, NEW h, OneOpens(d, h)
  PROVE  Peer(d) = h /\ Peer(h) = d /\ d \in Node /\ h \in Node
BY DEF OneOpens, Peer

(* A frame sent goes behind the others. *)
LEMMA QueueGrows ==
  ASSUME NEW S, NEW q \in Seq(S), NEW f \in S
  PROVE  /\ ~HandshakeOf(f) /\ NoHandshakeIn(q) => NoHandshakeIn(Append(q, f))
         /\ \A e : ~HandshakeOf(f) /\ OneHandshakeIn(q, e) => OneHandshakeIn(Append(q, f), e)
         /\ HandshakeOf(f) /\ NoHandshakeIn(q) => OneHandshakeIn(Append(q, f), f.eph)
         /\ \A s : DiscoIn(q, s) => DiscoIn(Append(q, f), s)
         /\ f.type = "disco" => DiscoIn(Append(q, f), f.session)
<1> DEFINE p == Append(q, f)
<1>1. /\ Len(q) \in Nat /\ DOMAIN q = 1..Len(q) /\ DOMAIN p = 1..(Len(q) + 1)
      /\ p[Len(q) + 1] = f /\ \A i \in 1..Len(q) : p[i] = q[i]
  OBVIOUS
<1>2. /\ DOMAIN p = DOMAIN q \cup {Len(q) + 1} /\ Len(q) + 1 \notin DOMAIN q
      /\ p[Len(q) + 1] = f /\ \A i \in DOMAIN q : p[i] = q[i]
  BY <1>1
<1> HIDE DEF p
<1>3. ~HandshakeOf(f) /\ NoHandshakeIn(q) => NoHandshakeIn(p)
  BY <1>2 DEF NoHandshakeIn
<1>4. ASSUME NEW e, ~HandshakeOf(f), OneHandshakeIn(q, e)
      PROVE  OneHandshakeIn(p, e)
  BY <1>2, <1>4 DEF OneHandshakeIn
<1>5. HandshakeOf(f) /\ NoHandshakeIn(q) => OneHandshakeIn(p, f.eph)
  BY <1>2 DEF OneHandshakeIn, NoHandshakeIn
<1>6. ASSUME NEW s, DiscoIn(q, s) PROVE DiscoIn(p, s)
  BY <1>2, <1>6 DEF DiscoIn
<1>7. f.type = "disco" => DiscoIn(p, f.session)
  BY <1>2 DEF DiscoIn
<1> QED
  BY <1>3, <1>4, <1>5, <1>6, <1>7 DEF p

(* The frame read is the first. *)
LEMMA QueueShrinks ==
  ASSUME NEW S, NEW q \in Seq(S), q # <<>>
  PROVE  /\ NoHandshakeIn(q) => ~HandshakeOf(Head(q)) /\ NoHandshakeIn(Tail(q))
         /\ \A e : OneHandshakeIn(q, e) =>
              IF HandshakeOf(Head(q)) THEN Head(q).eph = e /\ NoHandshakeIn(Tail(q))
              ELSE OneHandshakeIn(Tail(q), e)
         /\ \A s : DiscoIn(q, s) =>
              (Head(q).type = "disco" /\ Head(q).session = s) \/ DiscoIn(Tail(q), s)
<1> DEFINE p == Tail(q)
           f == Head(q)
<1>1. /\ Len(q) \in Nat /\ Len(q) # 0 /\ DOMAIN q = 1..Len(q) /\ DOMAIN p = 1..(Len(q) - 1)
      /\ f = q[1] /\ \A i \in 1..(Len(q) - 1) : p[i] = q[i + 1]
  OBVIOUS
<1>2. /\ 1 \in DOMAIN q /\ f = q[1] /\ DOMAIN p \subseteq Nat /\ DOMAIN q \subseteq Nat
      /\ \A i \in DOMAIN p : i + 1 \in DOMAIN q /\ p[i] = q[i + 1] /\ i + 1 # 1
      /\ \A j \in DOMAIN q : j # 1 => j - 1 \in DOMAIN p /\ p[j - 1] = q[j]
  BY <1>1
<1> HIDE DEF p, f
<1>3. NoHandshakeIn(q) => ~HandshakeOf(f) /\ NoHandshakeIn(p)
  BY <1>2 DEF NoHandshakeIn
<1>4. ASSUME NEW e, OneHandshakeIn(q, e)
      PROVE  IF HandshakeOf(f) THEN f.eph = e /\ NoHandshakeIn(p) ELSE OneHandshakeIn(p, e)
  <2>1. PICK i \in DOMAIN q : /\ HandshakeOf(q[i]) /\ q[i].eph = e
                              /\ \A j \in DOMAIN q : HandshakeOf(q[j]) => j = i
    BY <1>4 DEF OneHandshakeIn
  <2>2. CASE HandshakeOf(f)
    <3>1. i = 1
      BY <1>2, <2>1, <2>2
    <3> QED
      BY <1>2, <2>1, <2>2, <3>1 DEF NoHandshakeIn
  <2>3. CASE ~HandshakeOf(f)
    <3>1. i # 1
      BY <1>2, <2>1, <2>3
    <3>2. i - 1 \in DOMAIN p /\ p[i - 1] = q[i]
      BY <1>2, <3>1
    <3>3. \A j \in DOMAIN p : HandshakeOf(p[j]) => j = i - 1
      BY <1>2, <2>1
    <3> QED
      BY <2>1, <2>3, <3>2, <3>3 DEF OneHandshakeIn
  <2> QED
    BY <2>2, <2>3
<1>5. ASSUME NEW s, DiscoIn(q, s)
      PROVE  (f.type = "disco" /\ f.session = s) \/ DiscoIn(p, s)
  BY <1>2, <1>5 DEF DiscoIn
<1> QED
  BY <1>3, <1>4, <1>5 DEF p, f

(* Frames that are no handshakes come and go without touching the token,   *)
(* and without losing the addresses of the client that opens.              *)
LEMMA OtherFrames ==
  ASSUME NEW d, NEW h, OneOpens(d, h), Exchange(d, h),
         UNCHANGED <<pending, link, opening, reader, losses>>,
         \A n \in Node : NoHandshakeIn(inbox[n]) => NoHandshakeIn(inbox'[n]),
         \A n \in Node : \A e : OneHandshakeIn(inbox[n], e) => OneHandshakeIn(inbox'[n], e),
         DiscoIn(inbox[h], link[d]) \/ knows[h] =>
           DiscoIn(inbox'[h], link[d]) \/ knows'[h] \/ link[h] = None \/ ~Match(link[d], link[h])
  PROVE  Exchange(d, h)'
<1>1. d \in Node /\ h \in Node
  BY Peers
<1>2. (Quiet(d) => Quiet(d)') /\ (Quiet(h) => Quiet(h)')
  BY <1>1 DEF Quiet
<1>3. OneToken(d, h)'
  <2>1. Nowhere(d, h) => Nowhere(d, h)'
    BY <1>2 DEF Nowhere
  <2>2. Opening(d, h) => Opening(d, h)'
    BY <1>2 DEF Opening
  <2>3. OnItsWay(d, h) => OnItsWay(d, h)'
    BY <1>1, <1>2 DEF OnItsWay
  <2>4. WithResponder(d, h) => WithResponder(d, h)'
    BY <1>1, <1>2 DEF WithResponder
  <2>5. OnItsWayBack(d, h) => OnItsWayBack(d, h)'
    BY <1>1, <1>2 DEF OnItsWayBack, Keeps
  <2>6. Finished(d, h) => Finished(d, h)'
    BY <1>1, <1>2 DEF Finished
  <2> QED
    BY <2>1, <2>2, <2>3, <2>4, <2>5, <2>6 DEF OneToken, Exchange
<1>4. Agree(d, h)'
  BY DEF Exchange, Agree
<1> QED
  BY <1>3, <1>4 DEF Exchange, Roles

(* The queue of one client changes. *)
LEMMA OneQueue ==
  ASSUME Typed, NEW n \in Node, NEW q, inbox' = [inbox EXCEPT ![n] = q]
  PROVE  /\ inbox'[n] = q
         /\ \A m \in Node : m # n => inbox'[m] = inbox[m]
         /\ \A m \in Node : inbox[m] \in Seq(Frame \cup Data)
BY DEF Typed, SessionTypeOK, FramesType

(* Where the readers stand says where the token is. *)
LEMMA ReadersTell ==
  ASSUME NEW d, NEW h, OneToken(d, h)
  PROVE  /\ reader[d].at = "install" => OnItsWayBack(d, h)
         /\ reader[d].at \in {"disco", "onLink"} => Finished(d, h)
         /\ reader[h].at \in {"install", "disco", "onLink"} => WithResponder(d, h)
<1>1. Idle.at = "idle"
  BY DEF Idle
<1>2. CASE Nowhere(d, h) \/ Opening(d, h) \/ OnItsWay(d, h)
  BY <1>1, <1>2 DEF Nowhere, Opening, OnItsWay, Quiet
<1>3. CASE WithResponder(d, h)
  BY <1>1, <1>3 DEF WithResponder, Quiet
<1>4. CASE OnItsWayBack(d, h)
  BY <1>1, <1>4 DEF OnItsWayBack, Quiet
<1>5. CASE Finished(d, h)
  BY <1>1, <1>5 DEF Finished, Quiet
<1> QED
  BY <1>2, <1>3, <1>4, <1>5 DEF OneToken

(* The client that opens starts a handshake when none is under way. *)
LEMMA OpenStep ==
  ASSUME Typed, NEW d, NEW h, OneOpens(d, h), Exchange(d, h) \/ Astray(d, h),
         NEW n \in Node, OpenInitiator(n)
  PROVE  Exchange(d, h)'
<1>1. /\ n = d /\ d \in Node /\ h \in Node /\ d # h /\ NoHandshakeUnderWay
      /\ pending' = [pending EXCEPT ![d] = Fresh("initiate")]
      /\ opening' = [opening EXCEPT ![d] = Fresh("initiate")]
      /\ UNCHANGED <<link, inbox, reader, knows, losses>>
  BY Peers DEF OpenInitiator, OneOpens
<1>2. Quiet(d) /\ Quiet(h)
  BY <1>1 DEF NoHandshakeUnderWay, Quiet, NoHandshakeIn
<1>3. Fresh("initiate") # None /\ Fresh("initiate").by = "initiate"
  <2>1. made < MaxEph /\ made \in 0..MaxEph
    BY BoundsAssumption DEF OpenInitiator, Typed, SessionTypeOK, HandshakeType
  <2> QED
    BY <2>1, FreshType, NoneAssumption DEF Fresh
<1>4. /\ pending'[d] = Fresh("initiate") /\ opening'[d] = Fresh("initiate")
      /\ pending'[h] = pending[h] /\ opening'[h] = opening[h]
  BY <1>1 DEF Typed, SessionTypeOK, HandshakeType
<1>5. Opening(d, h)'
  BY <1>1, <1>2, <1>3, <1>4 DEF Opening, Quiet
<1>6. Roles(d, h)' /\ Agree(d, h)'
  BY <1>3, <1>4 DEF Exchange, Astray, Roles, Agree
<1> QED
  BY <1>5, <1>6 DEF Exchange, OneToken

(* The token sets out. *)
LEMMA InitiationStep ==
  ASSUME Typed, NEW d, NEW h, OneOpens(d, h), Exchange(d, h), NEW n \in Node, SendInitiation(n)
  PROVE  Exchange(d, h)'
<1>1. n = d /\ d \in Node /\ h \in Node /\ d # h /\ Peer(d) = h
  BY Peers DEF SendInitiation, OneOpens, Exchange, Roles
<1>2. opening[d] # None /\ opening[d] = pending[d] /\ Quiet(d) /\ Quiet(h)
  BY <1>1 DEF SendInitiation, Exchange, OneToken, Nowhere, Opening, OnItsWay, WithResponder,
              OnItsWayBack, Finished
<1> DEFINE f == [type |-> "handshake", eph |-> opening[d]]
<1>3. /\ inbox' = [inbox EXCEPT ![h] = Append(inbox[h], f)]
      /\ opening' = [opening EXCEPT ![d] = None]
      /\ UNCHANGED <<pending, link, reader, knows, losses>>
  BY <1>1 DEF SendInitiation, Send
<1>4. f \in Frame \cup Data /\ HandshakeOf(f) /\ f.eph = pending[d]
  BY <1>1, <1>2 DEF Frame, HandshakeOf, Typed, SessionTypeOK, HandshakeType
<1> HIDE DEF f
<1>5. inbox'[h] = Append(inbox[h], f) /\ inbox'[d] = inbox[d] /\ inbox[h] \in Seq(Frame \cup Data)
  BY <1>1, <1>3, OneQueue
<1>6. OneHandshakeIn(inbox'[h], pending[d])
  BY <1>2, <1>4, <1>5, QueueGrows DEF Quiet
<1>7. opening'[d] = None /\ opening'[h] = opening[h]
  BY <1>1, <1>3 DEF Typed, SessionTypeOK, HandshakeType
<1>8. OnItsWay(d, h)'
  BY <1>2, <1>3, <1>5, <1>6, <1>7 DEF OnItsWay, Quiet
<1>9. Roles(d, h)' /\ Agree(d, h)'
  BY <1>2, <1>3, <1>7 DEF Exchange, Roles, Agree
<1> QED
  BY <1>3, <1>8, <1>9 DEF Exchange, OneToken

(* The token reaches the other client, or comes back. *)
LEMMA OnHandshakeStep ==
  ASSUME Typed, NEW d, NEW h, OneOpens(d, h), Exchange(d, h), NEW n \in Node, OnHandshake(n)
  PROVE  Exchange(d, h)'
<1> DEFINE e == Head(inbox[n]).eph
<1>1. d \in Node /\ h \in Node /\ d # h /\ Node = {d, h}
  BY Peers DEF OneOpens
<1>2. /\ reader[n] = Idle /\ inbox[n] # <<>> /\ HandshakeOf(Head(inbox[n]))
      /\ inbox' = [inbox EXCEPT ![n] = Tail(inbox[n])]
      /\ UNCHANGED <<pending, link, opening, knows, losses>>
  BY DEF OnHandshake
<1>3. /\ inbox'[n] = Tail(inbox[n]) /\ \A m \in Node : m # n => inbox'[m] = inbox[m]
      /\ inbox[n] \in Seq(Frame \cup Data)
  BY <1>2, OneQueue
<1>4. ~NoHandshakeIn(inbox[n]) /\ \A x : OneHandshakeIn(inbox[n], x) => x = e /\ NoHandshakeIn(inbox'[n])
  BY <1>2, <1>3, QueueShrinks
<1> HIDE DEF e
<1>5. CASE n = h
  <2>1. OnItsWay(d, h)
    BY <1>4, <1>5 DEF Exchange, OneToken, Nowhere, Opening, WithResponder, OnItsWayBack, Finished, Quiet
  <2>2. e = pending[d] /\ NoHandshakeIn(inbox'[h])
    BY <1>4, <1>5, <2>1 DEF OnItsWay
  <2> DEFINE r == Fresh("respond")
  <2>3. r \in Eph /\ r.by = "respond"
    <3>1. made < MaxEph /\ made \in 0..MaxEph
      BY <1>5 DEF OnHandshake, Typed, SessionTypeOK, HandshakeType, Exchange, Roles
    <3> QED
      BY <3>1, FreshType DEF Fresh
  <2>4. reader' = [reader EXCEPT ![h] = [at |-> "install", session |-> Answering(r, pending[d]), reply |-> r]]
    BY <1>5, <2>2 DEF OnHandshake, Exchange, Roles, Respond, Answering, e
  <2> HIDE DEF r
  <2>5. /\ reader'[h] = [at |-> "install", session |-> Answering(r, pending[d]), reply |-> r]
        /\ reader'[d] = reader[d]
    BY <1>1, <2>4 DEF Typed, SessionTypeOK, HandshakeType
  <2>6. WithResponder(d, h)'
    BY <1>1, <1>2, <1>3, <1>5, <2>1, <2>2, <2>3, <2>5 DEF OnItsWay, WithResponder, Quiet, Answering
  <2>7. Roles(d, h)' /\ Agree(d, h)'
    BY <1>2, <2>1 DEF Exchange, Roles, Agree, OnItsWay
  <2> QED
    BY <1>2, <2>6, <2>7 DEF Exchange, OneToken
<1>6. CASE n = d
  <2>1. OnItsWayBack(d, h) /\ reader[d] = Idle
    BY <1>2, <1>4, <1>6 DEF Exchange, OneToken, Nowhere, Opening, OnItsWay, WithResponder, Finished, Quiet
  <2>2. PICK r \in Eph :
          /\ r.by = "respond" /\ Keeps(h, Answering(r, pending[d]))
          /\ OneHandshakeIn(inbox[d], r)
    BY <2>1 DEF OnItsWayBack, Idle
  <2>3. e = r /\ NoHandshakeIn(inbox'[d])
    BY <1>4, <1>6, <2>2
  <2>4. reader' = [reader EXCEPT ![d] = [at |-> "install", session |-> Answered(r, pending[d]), reply |-> None]]
    BY <1>6, <2>1, <2>3 DEF OnHandshake, OnItsWayBack, Finish, Answered, e
  <2>5. /\ reader'[d] = [at |-> "install", session |-> Answered(r, pending[d]), reply |-> None]
        /\ reader'[h] = reader[h]
    BY <1>1, <2>4 DEF Typed, SessionTypeOK, HandshakeType
  <2>6. OnItsWayBack(d, h)'
    BY <1>1, <1>2, <1>3, <1>6, <2>1, <2>2, <2>3, <2>5 DEF OnItsWayBack, Quiet, Keeps, Answering, Answered
  <2>7. Roles(d, h)' /\ Agree(d, h)'
    BY <1>2, <2>1 DEF Exchange, Roles, Agree, OnItsWayBack
  <2> QED
    BY <1>2, <2>6, <2>7 DEF Exchange, OneToken
<1> QED
  BY <1>1, <1>5, <1>6

(* A session is installed: by the other client under the token, or by the  *)
(* one that opens, which then waits no longer.                             *)
LEMMA InstallStep ==
  ASSUME Typed, NEW d, NEW h, OneOpens(d, h), Exchange(d, h), NEW n \in Node, Install(n)
  PROVE  Exchange(d, h)'
<1>1. d \in Node /\ h \in Node /\ d # h /\ Node = {d, h}
  BY Peers DEF OneOpens
<1>2. /\ reader[n].at = "install"
      /\ link' = [link EXCEPT ![n] = reader[n].session]
      /\ pending' = [pending EXCEPT ![n] = None]
      /\ knows' = [knows EXCEPT ![n] = FALSE]
      /\ reader' = [reader EXCEPT ![n] = [at |-> "disco", reply |-> reader[n].reply]]
      /\ UNCHANGED <<inbox, opening, losses>>
  BY DEF Install
<1>3. /\ link'[n] = reader[n].session /\ pending'[n] = None
      /\ reader'[n] = [at |-> "disco", reply |-> reader[n].reply]
      /\ \A m \in Node : m # n => /\ link'[m] = link[m] /\ pending'[m] = pending[m]
                                  /\ reader'[m] = reader[m]
  BY <1>2 DEF Typed, SessionTypeOK, HandshakeType
<1>4. Idle.at # "install"
  BY DEF Idle
<1>5. CASE n = h
  <2>1. WithResponder(d, h)
    BY <1>2, <1>5, ReadersTell DEF Exchange
  <2>2. PICK r \in Eph :
          /\ r.by = "respond"
          /\ reader[h] = [at |-> "install", session |-> Answering(r, pending[d]), reply |-> r]
    BY <1>2, <1>5, <2>1 DEF WithResponder
  <2>3. /\ link'[h] = Answering(r, pending[d]) /\ reader'[h] = [at |-> "disco", reply |-> r]
        /\ link'[d] = link[d] /\ pending'[d] = pending[d] /\ reader'[d] = reader[d]
        /\ pending[d] # None /\ pending[d].by = "initiate"
    BY <1>1, <1>3, <1>5, <2>1, <2>2 DEF WithResponder, Exchange, Roles
  <2>4. WithResponder(d, h)'
    BY <1>2, <2>1, <2>2, <2>3 DEF WithResponder, Quiet, Answering
  <2>5. Roles(d, h)' /\ Agree(d, h)'
    BY <1>2, <1>3, <1>5, <2>3 DEF Exchange, Roles, Agree
  <2> QED
    BY <2>4, <2>5 DEF Exchange, OneToken
<1>6. CASE n = d
  <2>1. OnItsWayBack(d, h)
    BY <1>2, <1>6, ReadersTell DEF Exchange
  <2>2. PICK r \in Eph :
          /\ r.by = "respond" /\ Keeps(h, Answering(r, pending[d]))
          /\ reader[d] = [at |-> "install", session |-> Answered(r, pending[d]), reply |-> None]
          /\ NoHandshakeIn(inbox[d])
    BY <1>2, <1>4, <1>6, <2>1 DEF OnItsWayBack
  <2>3. /\ link'[d] = Answered(r, pending[d]) /\ reader'[d] = [at |-> "disco", reply |-> None]
        /\ link'[h] = link[h] /\ pending'[h] = pending[h] /\ reader'[h] = reader[h]
        /\ pending'[d] = None /\ pending[d] # None
    BY <1>1, <1>3, <1>6, <2>1, <2>2 DEF OnItsWayBack
  <2>4. Answered(r, pending[d]) \in Session /\ link'[d] # None
    <3>1. pending[d] \in Eph
      BY <1>1, <2>3 DEF Typed, SessionTypeOK, HandshakeType
    <3>2. Answered(r, pending[d]) \in Session
      BY <3>1 DEF Answered, Session, Role
    <3> QED
      BY <2>3, <3>2, NoneAssumption
  <2>5. Finished(d, h)'
    BY <1>2, <2>1, <2>2, <2>3, <2>4 DEF OnItsWayBack, Finished, Quiet
  <2>6. Roles(d, h)' /\ Agree(d, h)'
    <3>1. Match(Answered(r, pending[d]), Answering(r, pending[d]))
      BY DEF Match, Answered, Answering
    <3>2. Answering(r, pending[d]) # None
      <4>1. pending[d] \in Eph
        BY <1>1, <2>3 DEF Typed, SessionTypeOK, HandshakeType
      <4>2. Answering(r, pending[d]) \in Session
        BY <4>1 DEF Answering, Session, Role
      <4> QED
        BY <4>2, NoneAssumption
    <3>3. \/ link'[h] # None /\ Match(link'[d], link'[h])
          \/ link'[h] = None /\ losses' > 0
      BY <1>2, <2>2, <2>3, <3>1, <3>2 DEF Keeps
    <3>4. reader'[d].at = "disco"
      BY <2>3
    <3> QED
      BY <1>2, <2>3, <3>3, <3>4 DEF Exchange, Roles, Agree, Match
  <2> QED
    BY <2>5, <2>6 DEF Exchange, OneToken
<1> QED
  BY <1>1, <1>5, <1>6

(* A reader sends the addresses of its end under the link it installed.    *)
LEMMA SendDiscoStep ==
  ASSUME Typed, NEW d, NEW h, OneOpens(d, h), Exchange(d, h), NEW n \in Node, SendDisco(n)
  PROVE  Exchange(d, h)'
<1>1. d \in Node /\ h \in Node /\ d # h /\ Node = {d, h} /\ Peer(d) = h /\ Peer(h) = d
  BY Peers DEF OneOpens
<1> DEFINE f == [type |-> "disco", session |-> link[n]]
           after == [at |-> "onLink", reply |-> reader[n].reply]
<1>2. /\ reader[n].at = "disco"
      /\ inbox' = [inbox EXCEPT ![Peer(n)] = Append(inbox[Peer(n)], f)]
      /\ reader' = [reader EXCEPT ![n] = after]
      /\ UNCHANGED <<pending, link, opening, knows, losses>>
  BY DEF SendDisco, Send
<1>3. /\ reader'[n] = after /\ \A m \in Node : m # n => reader'[m] = reader[m]
  BY <1>2 DEF Typed, SessionTypeOK, HandshakeType
<1>4. f \in Frame \cup Data /\ ~HandshakeOf(f) /\ f.type = "disco" /\ f.session = link[n]
  BY <1>2 DEF Typed, Shape, SessionTypeOK, HandshakeType, Frame, HandshakeOf
<1> HIDE DEF f
<1>5. /\ inbox'[Peer(n)] = Append(inbox[Peer(n)], f)
      /\ \A m \in Node : m # Peer(n) => inbox'[m] = inbox[m]
      /\ \A m \in Node : inbox[m] \in Seq(Frame \cup Data)
  BY <1>1, <1>2, OneQueue
<1>6. CASE n = h
  <2>1. WithResponder(d, h)
    BY <1>2, <1>6, ReadersTell DEF Exchange
  <2>2. PICK r \in Eph :
          /\ r.by = "respond" /\ link[h] = Answering(r, pending[d])
          /\ reader[h] = [at |-> "disco", reply |-> r]
    BY <1>2, <1>6, <2>1 DEF WithResponder
  <2>3. reader'[h] = [at |-> "onLink", reply |-> r] /\ reader'[d] = reader[d]
    BY <1>1, <1>3, <1>6, <2>2
  <2>4. NoHandshakeIn(inbox'[d]) /\ inbox'[h] = inbox[h]
    <3>1. NoHandshakeIn(inbox[d])
      BY <2>1 DEF WithResponder, Quiet
    <3>2. inbox'[d] = Append(inbox[d], f) /\ inbox'[h] = inbox[h]
      BY <1>1, <1>5, <1>6
    <3>3. NoHandshakeIn(Append(inbox[d], f))
      BY <1>1, <1>4, <1>5, <3>1, QueueGrows
    <3> QED
      BY <3>2, <3>3
  <2>5. WithResponder(d, h)'
    BY <1>2, <2>1, <2>2, <2>3, <2>4 DEF WithResponder, Quiet, Answering
  <2>6. Agree(d, h)'
    BY <1>2, <2>1 DEF WithResponder, Agree
  <2> QED
    BY <1>2, <2>5, <2>6 DEF Exchange, OneToken, Roles
<1>7. CASE n = d
  <2>1. Finished(d, h)
    BY <1>2, <1>7, ReadersTell DEF Exchange
  <2>2. reader'[d] = [at |-> "onLink", reply |-> None] /\ reader'[h] = reader[h]
    BY <1>1, <1>2, <1>3, <1>7, <2>1 DEF Finished
  <2>3. NoHandshakeIn(inbox'[h]) /\ inbox'[d] = inbox[d] /\ DiscoIn(inbox'[h], link[d])
    <3>1. NoHandshakeIn(inbox[h])
      BY <2>1 DEF Finished, Quiet
    <3>2. inbox'[h] = Append(inbox[h], f) /\ inbox'[d] = inbox[d] /\ f.session = link[d]
      BY <1>1, <1>4, <1>5, <1>7
    <3>3. NoHandshakeIn(Append(inbox[h], f)) /\ DiscoIn(Append(inbox[h], f), f.session)
      BY <1>1, <1>4, <1>5, <3>1, QueueGrows
    <3> QED
      BY <3>2, <3>3
  <2>4. Finished(d, h)'
    BY <1>2, <2>1, <2>2, <2>3 DEF Finished, Quiet
  <2>5. Agree(d, h)'
    BY <1>2, <2>3 DEF Exchange, Agree
  <2> QED
    BY <1>2, <2>4, <2>5 DEF Exchange, OneToken, Roles
<1> QED
  BY <1>1, <1>6, <1>7

(* The token goes back; the client that opened is done. *)
LEMMA SendReplyStep ==
  ASSUME Typed, NEW d, NEW h, OneOpens(d, h), Exchange(d, h), NEW n \in Node, SendReply(n)
  PROVE  Exchange(d, h)'
<1>1. d \in Node /\ h \in Node /\ d # h /\ Node = {d, h} /\ Peer(d) = h /\ Peer(h) = d
  BY Peers DEF OneOpens
<1> DEFINE f == [type |-> "handshake", eph |-> reader[n].reply]
<1>2. /\ reader[n].at = "onLink"
      /\ IF reader[n].reply = None THEN UNCHANGED inbox
         ELSE inbox' = [inbox EXCEPT ![Peer(n)] = Append(inbox[Peer(n)], f)]
      /\ reader' = [reader EXCEPT ![n] = Idle]
      /\ UNCHANGED <<pending, link, opening, knows, losses>>
  BY DEF SendReply, Send
<1>3. reader'[n] = Idle /\ \A m \in Node : m # n => reader'[m] = reader[m]
  BY <1>2 DEF Typed, SessionTypeOK, HandshakeType
<1>4. CASE n = d
  <2>1. Finished(d, h)
    BY <1>2, <1>4, ReadersTell DEF Exchange
  <2>2. UNCHANGED inbox
    BY <1>2, <1>4, <2>1 DEF Finished
  <2>3. reader'[d] = Idle /\ reader'[h] = reader[h]
    BY <1>1, <1>3, <1>4
  <2>4. Nowhere(d, h)'
    BY <1>2, <2>1, <2>2, <2>3 DEF Finished, Nowhere, Quiet
  <2>5. Agree(d, h)'
    BY <1>2, <1>4, <2>2 DEF Exchange, Agree
  <2> QED
    BY <1>2, <2>4, <2>5 DEF Exchange, OneToken, Roles
<1>5. CASE n = h
  <2>1. WithResponder(d, h)
    BY <1>2, <1>5, ReadersTell DEF Exchange
  <2>2. PICK r \in Eph :
          /\ r.by = "respond" /\ link[h] = Answering(r, pending[d])
          /\ reader[h] = [at |-> "onLink", reply |-> r]
    BY <1>2, <1>5, <2>1 DEF WithResponder
  <2>3. f \in Frame \cup Data /\ HandshakeOf(f) /\ f.eph = r /\ reader[n].reply # None
    BY <1>5, <2>2, NoneAssumption DEF Frame, HandshakeOf
  <2> HIDE DEF f
  <2>4. inbox'[d] = Append(inbox[d], f) /\ inbox'[h] = inbox[h] /\ inbox[d] \in Seq(Frame \cup Data)
    BY <1>1, <1>2, <1>5, <2>3, OneQueue
  <2>5. OneHandshakeIn(inbox'[d], r)
    BY <2>1, <2>3, <2>4, QueueGrows DEF WithResponder, Quiet
  <2>6. OnItsWayBack(d, h)'
    BY <1>1, <1>2, <1>3, <1>5, <2>1, <2>2, <2>4, <2>5 DEF WithResponder, OnItsWayBack, Quiet, Keeps, Answering
  <2>7. Agree(d, h)'
    BY <1>2, <2>1 DEF WithResponder, Agree
  <2> QED
    BY <1>2, <2>6, <2>7 DEF Exchange, OneToken, Roles
<1> QED
  BY <1>1, <1>4, <1>5

(* The frame at the head of a queue is read and is no handshake; if it has *)
(* the addresses of the client that opens and the link opens it, they are  *)
(* known.                                                                  *)
LEMMA ReadStep ==
  ASSUME Typed, NEW d, NEW h, OneOpens(d, h), Exchange(d, h), NEW n \in Node,
         inbox[n] # <<>>, ~HandshakeOf(Head(inbox[n])), inbox' = [inbox EXCEPT ![n] = Tail(@)],
         UNCHANGED <<pending, link, opening, reader, losses>>,
         OnDisco(n) \/ (Head(inbox[n]).type # "disco" /\ UNCHANGED knows)
  PROVE  Exchange(d, h)'
<1>1. d \in Node /\ h \in Node /\ d # h
  BY Peers DEF OneOpens
<1>2. /\ inbox'[n] = Tail(inbox[n]) /\ \A m \in Node : m # n => inbox'[m] = inbox[m]
      /\ inbox[n] \in Seq(Frame \cup Data)
  BY OneQueue
<1>3. /\ NoHandshakeIn(inbox[n]) => NoHandshakeIn(inbox'[n])
      /\ \A e : OneHandshakeIn(inbox[n], e) => OneHandshakeIn(inbox'[n], e)
      /\ DiscoIn(inbox[n], link[d]) =>
           (Head(inbox[n]).type = "disco" /\ Head(inbox[n]).session = link[d]) \/ DiscoIn(inbox'[n], link[d])
  BY <1>2, QueueShrinks
<1>4. knows[h] => knows'[h]
  BY <1>1 DEF OnDisco, Typed, SessionTypeOK, HandshakeType
<1>5. ASSUME DiscoIn(inbox[h], link[d]), link[h] # None, Match(link[d], link[h])
      PROVE  DiscoIn(inbox'[h], link[d]) \/ knows'[h]
  <2>1. CASE n = h /\ Head(inbox[h]).type = "disco" /\ Head(inbox[h]).session = link[d]
    BY <1>5, <2>1 DEF OnDisco, Typed, SessionTypeOK, HandshakeType
  <2> QED
    BY <1>1, <1>2, <1>3, <1>5, <2>1
<1> QED
  BY <1>2, <1>3, <1>4, <1>5, OtherFrames

(* A frame of the application is sent. *)
LEMMA WriteStep ==
  ASSUME Typed, NEW d, NEW h, OneOpens(d, h), Exchange(d, h), NEW n \in Node, NEW f \in Data, Send(n, f),
         UNCHANGED <<pending, link, opening, reader, knows, losses>>
  PROVE  Exchange(d, h)'
<1>1. Peer(n) \in Node
  BY Peers DEF OneOpens
<1>2. inbox' = [inbox EXCEPT ![Peer(n)] = Append(inbox[Peer(n)], f)]
  BY DEF Send
<1>3. f \in Frame \cup Data /\ ~HandshakeOf(f)
  BY DEF Data, HandshakeOf
<1>4. /\ inbox'[Peer(n)] = Append(inbox[Peer(n)], f)
      /\ \A m \in Node : m # Peer(n) => inbox'[m] = inbox[m]
      /\ inbox[Peer(n)] \in Seq(Frame \cup Data)
  BY <1>1, <1>2, OneQueue
<1>5. /\ NoHandshakeIn(inbox[Peer(n)]) => NoHandshakeIn(inbox'[Peer(n)])
      /\ \A e : OneHandshakeIn(inbox[Peer(n)], e) => OneHandshakeIn(inbox'[Peer(n)], e)
      /\ \A s : DiscoIn(inbox[Peer(n)], s) => DiscoIn(inbox'[Peer(n)], s)
  BY <1>3, <1>4, QueueGrows
<1>6. h \in Node
  BY Peers
<1> QED
  BY <1>4, <1>5, <1>6, OtherFrames

(* Nothing is on its way in an empty queue. *)
LEMMA EmptyQueue == NoHandshakeIn(<<>>)
BY DEF NoHandshakeIn

(* The frames on their way to a client are lost, and the token with them,  *)
(* if it was one of them.                                                  *)
LEMMA DropStep ==
  ASSUME Typed, NEW d, NEW h, OneOpens(d, h), Exchange(d, h), NEW n \in Node, Drop(n)
  PROVE  Exchange(d, h)'
<1>1. d \in Node /\ h \in Node /\ d # h /\ Node = {d, h}
  BY Peers DEF OneOpens
<1>2. /\ inbox' = [inbox EXCEPT ![n] = <<>>] /\ losses' = losses + 1 /\ losses \in Nat
      /\ UNCHANGED <<pending, link, opening, reader, knows>>
  BY BoundsAssumption DEF Drop, Typed, SessionTypeOK, HandshakeType
<1>3. inbox'[n] = <<>> /\ \A m \in Node : m # n => inbox'[m] = inbox[m]
  BY <1>2, OneQueue
<1>4. \A m \in Node : NoHandshakeIn(inbox[m]) => NoHandshakeIn(inbox'[m])
  BY <1>3, EmptyQueue
<1>5. losses' > 0 /\ losses' # 0
  BY <1>2
<1>6. OneToken(d, h)'
  <2>1. (Quiet(d) => Quiet(d)') /\ (Quiet(h) => Quiet(h)')
    BY <1>1, <1>2, <1>4 DEF Quiet
  <2>2. Nowhere(d, h) => Nowhere(d, h)'
    BY <1>2, <2>1 DEF Nowhere
  <2>3. Opening(d, h) => Opening(d, h)'
    BY <1>2, <2>1 DEF Opening
  <2>4. OnItsWay(d, h) => OnItsWay(d, h)' \/ Nowhere(d, h)'
    BY <1>1, <1>2, <1>3, <2>1, EmptyQueue DEF OnItsWay, Nowhere, Quiet
  <2>5. WithResponder(d, h) => WithResponder(d, h)'
    BY <1>1, <1>2, <1>4, <2>1 DEF WithResponder
  <2>6. OnItsWayBack(d, h) => OnItsWayBack(d, h)' \/ Nowhere(d, h)'
    <3> SUFFICES ASSUME OnItsWayBack(d, h) PROVE OnItsWayBack(d, h)' \/ Nowhere(d, h)'
      OBVIOUS
    <3>1. PICK r \in Eph :
            /\ r.by = "respond" /\ Keeps(h, Answering(r, pending[d]))
            /\ \/ reader[d] = Idle /\ OneHandshakeIn(inbox[d], r)
               \/ /\ reader[d] = [at |-> "install", session |-> Answered(r, pending[d]), reply |-> None]
                  /\ NoHandshakeIn(inbox[d])
      BY DEF OnItsWayBack
    <3>2. CASE reader[d] = Idle /\ n = d
      BY <1>2, <1>3, <2>1, <3>2, EmptyQueue DEF OnItsWayBack, Nowhere, Quiet
    <3>3. CASE reader[d] = Idle /\ n # d
      <4>1. OneHandshakeIn(inbox'[d], r)
        BY <1>1, <1>3, <3>1, <3>3 DEF Idle
      <4> QED
        BY <1>2, <1>5, <2>1, <3>1, <3>3, <4>1 DEF OnItsWayBack, Keeps, Answering
    <3>4. CASE reader[d] # Idle
      BY <1>1, <1>2, <1>4, <1>5, <2>1, <3>1, <3>4 DEF OnItsWayBack, Keeps, Answering, Answered
    <3> QED
      BY <3>2, <3>3, <3>4
  <2>7. Finished(d, h) => Finished(d, h)'
    BY <1>1, <1>2, <1>4, <2>1 DEF Finished
  <2> QED
    BY <2>2, <2>3, <2>4, <2>5, <2>6, <2>7 DEF OneToken, Exchange
<1>7. Agree(d, h)'
  BY <1>2, <1>5 DEF Exchange, Agree
<1> QED
  BY <1>2, <1>6, <1>7 DEF Exchange, Roles

(* A client starts again: the one that opens when no handshake is under    *)
(* way, the other at any time.                                             *)
LEMMA RestartStep ==
  ASSUME Typed, NEW d, NEW h, OneOpens(d, h), Exchange(d, h), NEW n \in Node, Restart(n),
         n = d => NoHandshakeUnderWay
  PROVE  Exchange(d, h)'
<1>1. d \in Node /\ h \in Node /\ d # h /\ Node = {d, h}
  BY Peers DEF OneOpens
<1>2. /\ pending' = [pending EXCEPT ![n] = None] /\ link' = [link EXCEPT ![n] = None]
      /\ inbox' = [inbox EXCEPT ![n] = <<>>]
      /\ opening' = [opening EXCEPT ![n] = None] /\ reader' = [reader EXCEPT ![n] = Idle]
      /\ losses' = losses + 1 /\ losses \in Nat
  BY BoundsAssumption DEF Restart, Typed, SessionTypeOK, HandshakeType
<1>3. /\ pending'[n] = None /\ link'[n] = None /\ inbox'[n] = <<>> /\ opening'[n] = None
      /\ reader'[n] = Idle
      /\ \A m \in Node : m # n => /\ pending'[m] = pending[m] /\ link'[m] = link[m]
                                  /\ inbox'[m] = inbox[m] /\ opening'[m] = opening[m]
                                  /\ reader'[m] = reader[m]
  BY <1>2 DEF Typed, SessionTypeOK, HandshakeType, FramesType
<1>4. losses' > 0 /\ losses' # 0
  BY <1>2
<1>5. Quiet(n)'
  BY <1>3, EmptyQueue DEF Quiet
<1>6. \A m \in Node : m # n /\ Quiet(m) => Quiet(m)'
  BY <1>3 DEF Quiet
<1>7. Roles(d, h)'
  BY <1>1, <1>3 DEF Exchange, Roles
<1>8. CASE n = d
  <2>1. Quiet(h)
    BY <1>1, <1>8 DEF NoHandshakeUnderWay, Quiet, NoHandshakeIn
  <2>2. Nowhere(d, h)'
    BY <1>1, <1>3, <1>5, <1>6, <1>8, <2>1 DEF Nowhere
  <2>3. Agree(d, h)'
    BY <1>3, <1>8 DEF Agree
  <2> QED
    BY <1>7, <2>2, <2>3 DEF Exchange, OneToken
<1>9. CASE n = h
  <2>1. /\ pending'[d] = pending[d] /\ link'[d] = link[d] /\ inbox'[d] = inbox[d]
        /\ opening'[d] = opening[d] /\ reader'[d] = reader[d]
    BY <1>1, <1>3, <1>9
  <2>2. Quiet(h)' /\ (Quiet(d) => Quiet(d)')
    BY <1>1, <1>5, <1>6, <1>9
  <2>3. Nowhere(d, h) => Nowhere(d, h)'
    BY <2>1, <2>2 DEF Nowhere
  <2>4. Opening(d, h) => Opening(d, h)'
    BY <2>1, <2>2 DEF Opening
  <2>5. OnItsWay(d, h) \/ WithResponder(d, h) => Nowhere(d, h)'
    BY <2>1, <2>2 DEF OnItsWay, WithResponder, Nowhere
  <2>6. OnItsWayBack(d, h) => OnItsWayBack(d, h)'
    BY <1>3, <1>4, <1>9, <2>1, <2>2 DEF OnItsWayBack, Keeps, Answered
  <2>7. Finished(d, h) => Finished(d, h)'
    BY <2>1, <2>2 DEF Finished
  <2>8. OneToken(d, h)'
    BY <2>3, <2>4, <2>5, <2>6, <2>7 DEF OneToken, Exchange
  <2>9. Agree(d, h)'
    BY <1>3, <1>4, <1>9 DEF Agree
  <2> QED
    BY <1>7, <2>8, <2>9 DEF Exchange
<1> QED
  BY <1>1, <1>8, <1>9

LEMMA InitExchange ==
  ASSUME InitSession, NEW d, NEW h, OneOpens(d, h)
  PROVE  Exchange(d, h)
<1>1. d \in Node /\ h \in Node
  BY Peers
<1>2. \A n \in Node : /\ pending[n] = None /\ link[n] = None /\ inbox[n] = <<>>
                      /\ opening[n] = None /\ reader[n] = Idle
  BY DEF InitSession, Init
<1>3. Nowhere(d, h)
  BY <1>1, <1>2, EmptyQueue DEF Nowhere, Quiet
<1> QED
  BY <1>1, <1>2, <1>3 DEF Exchange, Roles, OneToken, Agree

(* Every step of the two clients, the application's messages among them,   *)
(* moves the token on, destroys it or leaves it alone, if it does not lead *)
(* it astray.                                                              *)
LEMMA ExchangeStep ==
  ASSUME Typed, NEW d, NEW h, OneOpens(d, h), Exchange(d, h), [NextSession]_allVars, ~stray'
  PROVE  Exchange(d, h)'
<1>0. ASSUME UNCHANGED vars PROVE Exchange(d, h)'
  BY <1>0 DEF vars, Exchange, Roles, OneToken, Nowhere, Opening, OnItsWay, WithResponder, OnItsWayBack,
              Finished, Agree, Quiet, Keeps
<1>1. ASSUME NEW n \in Node, HandshakeStep(n) PROVE Exchange(d, h)'
  BY <1>1, OpenStep, InitiationStep, OnHandshakeStep, SendReplyStep, DropStep DEF HandshakeStep
<1>2. ASSUME NEW n \in Node, InstallLink(n) PROVE Exchange(d, h)'
  BY <1>2, InstallStep DEF InstallLink
<1>3. ASSUME NEW n \in Node, SealDisco(n) PROVE Exchange(d, h)'
  BY <1>3, SendDiscoStep DEF SealDisco
<1>4. ASSUME NEW n \in Node, OpenDisco(n) PROVE Exchange(d, h)'
  <2>1. /\ OnDisco(n) /\ inbox[n] # <<>> /\ ~HandshakeOf(Head(inbox[n]))
        /\ inbox' = [inbox EXCEPT ![n] = Tail(@)]
        /\ UNCHANGED <<pending, link, opening, reader, losses>>
    BY <1>4 DEF OpenDisco, OnDisco, HandshakeOf
  <2> QED
    BY <2>1, ReadStep
<1>5. ASSUME NEW n \in Node, RestartProcess(n) PROVE Exchange(d, h)'
  <2>1. Restart(n) /\ (n = d => NoHandshakeUnderWay)
    BY <1>5 DEF RestartProcess, Restart, OneOpens
  <2> QED
    BY <2>1, RestartStep
<1>6. ASSUME NEW n \in Node, OnData(n) PROVE Exchange(d, h)'
  <2>1. /\ inbox[n] # <<>> /\ ~HandshakeOf(Head(inbox[n])) /\ Head(inbox[n]).type # "disco"
        /\ inbox' = [inbox EXCEPT ![n] = Tail(@)]
        /\ UNCHANGED <<pending, link, opening, reader, losses, knows>>
    BY <1>6 DEF OnData, HandshakeOf
  <2> QED
    BY <2>1, ReadStep
<1>7. ASSUME NEW n \in Node, ReadDatagram(n) \/ OpenDatagram(n) \/ Recv(n) PROVE Exchange(d, h)'
  BY <1>0, <1>7 DEF ReadDatagram, OpenDatagram, Recv
<1>8. ASSUME NEW n \in Node, NEW g \in Sender, TakeNumber(n, g) \/ Seal(n, g) PROVE Exchange(d, h)'
  BY <1>0, <1>8 DEF TakeNumber, Seal
<1>9. ASSUME NEW n \in Node, NEW g \in Sender, WriteFrame(n, g) PROVE Exchange(d, h)'
  <2>1. call[n][g].frame \in Data
    BY <1>9 DEF WriteFrame, Typed, SessionTypeOK, CallsType, Sealing, Writing
  <2>2. UNCHANGED <<pending, link, opening, reader, knows, losses>>
    BY <1>9 DEF WriteFrame
  <2>3. CASE Send(n, call[n][g].frame)
    BY <2>1, <2>2, <2>3, WriteStep
  <2>4. CASE UNCHANGED inbox
    BY <1>0, <1>9, <2>2, <2>4 DEF WriteFrame, vars
  <2> QED
    BY <1>9, <2>3, <2>4 DEF WriteFrame
<1>10. CASE UNCHANGED allVars
  BY <1>0, <1>10 DEF allVars
<1> QED
  BY <1>1, <1>2, <1>3, <1>4, <1>5, <1>6, <1>7, <1>8, <1>9, <1>10 DEF NextSession

(* A client that waits for nothing never becomes an initiator. *)
LEMMA RespondsStep ==
  ASSUME Typed, NEW n \in Node, pending[n] = None, Responds(n), [NextSession]_allVars
  PROVE  Responds(n)'
<1> USE DEF Typed, SessionTypeOK, HandshakeType
<1>0. ASSUME UNCHANGED <<link, reader>> PROVE Responds(n)'
  BY <1>0 DEF Responds
<1>1. ASSUME NEW m \in Node, OnHandshake(m) PROVE Responds(n)'
  <2>1. link' = link /\ \A k \in Node : k # m => reader'[k] = reader[k]
    BY <1>1 DEF OnHandshake
  <2>2. CASE m = n
    <3>1. reader' = [reader EXCEPT ![n] =
            [at |-> "install", session |-> Respond(Head(inbox[n]).eph), reply |-> Fresh("respond")]]
      BY <1>1, <2>2 DEF OnHandshake
    <3>2. reader'[n].session.role = "responder"
      BY <3>1 DEF Respond
    <3> QED
      BY <2>1, <3>2 DEF Responds
  <2> QED
    BY <2>1, <2>2 DEF Responds
<1>2. ASSUME NEW m \in Node, Install(m) PROVE Responds(n)'
  <2>1. /\ reader[m].at = "install" /\ link' = [link EXCEPT ![m] = reader[m].session]
        /\ reader' = [reader EXCEPT ![m] = [at |-> "disco", reply |-> reader[m].reply]]
    BY <1>2 DEF Install
  <2> QED
    BY <2>1 DEF Responds
<1>3. ASSUME NEW m \in Node, link' = link, NEW r, r.at # "install", reader' = [reader EXCEPT ![m] = r]
      PROVE  Responds(n)'
  BY <1>3 DEF Responds
<1>4. ASSUME NEW m \in Node, SendDisco(m) \/ SendReply(m) PROVE Responds(n)'
  <2>1. Idle.at # "install" /\ [at |-> "onLink", reply |-> reader[m].reply].at # "install"
    BY DEF Idle
  <2> QED
    BY <1>3, <1>4, <2>1 DEF SendDisco, SendReply
<1>5. ASSUME NEW m \in Node, Restart(m) PROVE Responds(n)'
  <2>1. Idle.at # "install"
    BY DEF Idle
  <2> QED
    BY <1>5, <2>1 DEF Restart, Responds
<1>6. ASSUME NEW m \in Node,
             OpenInitiator(m) \/ SendInitiation(m) \/ Drop(m) \/ OpenDisco(m) \/ OnData(m)
               \/ ReadDatagram(m) \/ OpenDatagram(m) \/ Recv(m)
               \/ \E g \in Sender : TakeNumber(m, g) \/ Seal(m, g) \/ WriteFrame(m, g)
      PROVE  UNCHANGED <<link, reader>>
  BY <1>6 DEF OpenInitiator, SendInitiation, Drop, OpenDisco, OnDisco, OnData, ReadDatagram,
              OpenDatagram, Recv, TakeNumber, Seal, WriteFrame, vars
<1>7. CASE UNCHANGED allVars
  BY <1>0, <1>7 DEF allVars, vars
<1> QED
  BY <1>0, <1>1, <1>2, <1>4, <1>5, <1>6, <1>7
     DEF NextSession, HandshakeStep, InstallLink, SealDisco, RestartProcess

(* What happens to the handshake a client waits for, to the losses and to  *)
(* the history.                                                            *)
LEMMA WaitingStep ==
  ASSUME Typed, [NextSession]_allVars
  PROVE  \/ \E n \in Node : OpenInitiator(n) /\ ~stray'
         \/ /\ \A m \in Node : /\ pending'[m] \in {pending[m], None}
                               /\ opening'[m] \in {opening[m], None}
            /\ losses' \in {losses, losses + 1}
            /\ \/ stray' = stray
               \/ /\ losses' > 0
                  /\ \E n \in Node : Restart(n) /\ n \in Initiator
<1> USE BoundsAssumption DEF Typed, SessionTypeOK, HandshakeType
<1>1. ASSUME NEW n \in Node, OpenInitiator(n) PROVE ~stray'
  BY <1>1 DEF OpenInitiator
<1> DEFINE Kept == /\ \A m \in Node : /\ pending'[m] \in {pending[m], None}
                                     /\ opening'[m] \in {opening[m], None}
                   /\ losses' \in {losses, losses + 1}
<1>2. ASSUME NEW n \in Node,
             SendInitiation(n) \/ OnHandshake(n) \/ Install(n) \/ SendDisco(n) \/ SendReply(n)
               \/ OnDisco(n) \/ Drop(n)
      PROVE  Kept /\ stray' = stray
  BY <1>2 DEF SendInitiation, OnHandshake, Install, SendDisco, SendReply, OnDisco, Drop
<1>3. ASSUME NEW n \in Node, Restart(n)
      PROVE  Kept /\ (stray' = stray \/ (losses' > 0 /\ n \in Initiator))
  BY <1>3 DEF Restart
<1>4. ASSUME NEW n \in Node,
             OnData(n) \/ ReadDatagram(n) \/ OpenDatagram(n) \/ Recv(n)
               \/ \E g \in Sender : TakeNumber(n, g) \/ Seal(n, g) \/ WriteFrame(n, g)
      PROVE  Kept /\ stray' = stray
  BY <1>4 DEF OnData, ReadDatagram, OpenDatagram, Recv, TakeNumber, Seal, WriteFrame, vars
<1>5. CASE UNCHANGED allVars
  BY <1>5 DEF allVars, vars
<1> QED
  BY <1>1, <1>2, <1>3, <1>4, <1>5
     DEF NextSession, HandshakeStep, InstallLink, SealDisco, OpenDisco, RestartProcess

(* What the invariant says of the two clients is kept. *)
LEMMA CourseStep ==
  ASSUME Typed, NEW d, NEW h, OneOpens(d, h), Course(d, h), [NextSession]_allVars
  PROVE  Course(d, h)'
<1>1. d \in Node /\ h \in Node /\ d # h /\ stray \in BOOLEAN /\ losses \in Nat
  BY Peers, BoundsAssumption DEF OneOpens, Typed, SessionTypeOK, HandshakeType
<1>2. pending[h] = None /\ opening[h] = None
  BY DEF Course, Astray, Exchange, Roles
<1>3. Responds(h)'
  BY <1>1, <1>2, RespondsStep DEF Course
<1>4. CASE ~stray'
  <2>1. CASE ~stray
    BY <1>3, <1>4, <2>1, ExchangeStep DEF Course
  <2>2. CASE stray
    <3>1. PICK n \in Node : OpenInitiator(n) \/ (Restart(n) /\ stray')
      BY <1>1, <1>4, <2>2, WaitingStep DEF Restart
    <3> QED
      BY <1>3, <1>4, <2>2, <3>1, OpenStep DEF Course
  <2> QED
    BY <2>1, <2>2
<1>5. CASE stray'
  <2>1. /\ \A m \in Node : /\ pending'[m] \in {pending[m], None}
                          /\ opening'[m] \in {opening[m], None}
        /\ losses' \in {losses, losses + 1}
        /\ stray' = stray \/ (losses' > 0 /\ \E n \in Node : Restart(n) /\ n \in Initiator)
    BY <1>5, WaitingStep
  <2>2. CASE stray
    <3>1. Responds(d)'
      BY <1>1, <2>2, RespondsStep DEF Course, Astray
    <3>2. losses' > 0
      BY <1>1, <2>1, <2>2 DEF Course, Astray
    <3> QED
      BY <1>1, <1>3, <1>5, <2>1, <2>2, <3>1, <3>2 DEF Course, Astray
  <2>3. CASE ~stray
    <3>1. PICK n \in Node : Restart(n) /\ n \in Initiator
      BY <1>1, <1>5, <2>1, <2>3
    <3>2. Restart(d) /\ losses' > 0
      BY <1>1, <1>5, <2>1, <2>3, <3>1 DEF OneOpens
    <3>3. pending'[d] = None /\ opening'[d] = None /\ link'[d] = None /\ reader'[d] = Idle
      BY <1>1, <3>2 DEF Restart, Typed, SessionTypeOK, HandshakeType
    <3>4. Responds(d)'
      BY <3>3 DEF Responds, Idle
    <3> QED
      BY <1>1, <1>2, <1>3, <1>5, <2>1, <3>2, <3>3, <3>4 DEF Course, Astray
  <2> QED
    BY <2>2, <2>3
<1> QED
  BY <1>4, <1>5

-----------------------------------------------------------------------------
(* The theorems. *)

(* One client opens, and only while no handshake is under way. *)
OneAtATime == Orderly /\ \E d \in Node : Initiator = {d}

(* Who the two clients are. *)
LEMMA TheTwo ==
  ASSUME OneAtATime
  PROVE  \E d, h : OneOpens(d, h)
BY NodeAssumption DEF OneAtATime, OneOpens

(* The invariant holds of the two clients as long as they run. *)
LEMMA CourseHolds ==
  ASSUME NEW d, NEW h, OneOpens(d, h)
  PROVE  SpecSession => []Course(d, h)
<1>1. InitSession => Course(d, h)
  <2> SUFFICES ASSUME InitSession PROVE Course(d, h)
    OBVIOUS
  <2>1. h \in Node /\ link[h] = None /\ reader[h] = Idle /\ ~stray
    BY Peers DEF InitSession, Init
  <2>2. Responds(h)
    BY <2>1 DEF Responds, Idle
  <2> QED
    BY <2>1, <2>2, InitExchange DEF Course
<1>2. Invariant /\ Course(d, h) /\ [NextSession]_allVars => Course(d, h)'
  BY CourseStep DEF Invariant
<1> QED
  BY InvariantHolds, <1>1, <1>2, PTL DEF SpecSession

(* When an exchange has settled both ends hold the same keys, whatever was *)
(* lost, whenever a process restarted and however often the session was    *)
(* opened again; but after the process of the client that opens ended in   *)
(* mid-handshake, and until it opens again, both may be responders         *)
(* (client/conn.go, onHandshake and install).                              *)
THEOREM SettledEndsMatch == OneAtATime => (SpecSession => []SettledSessionsMatch)
<1> SUFFICES ASSUME NEW d, NEW h, OneOpens(d, h)
             PROVE  SpecSession => []SettledSessionsMatch
  BY TheTwo
<1>1. Course(d, h) => SettledSessionsMatch
  <2> SUFFICES ASSUME Course(d, h), Settled
               PROVE  \/ \A n \in Node : Match(link[n], link[Peer(n)])
                      \/ stray /\ \A n \in Node : link[n].role = "responder"
    BY DEF SettledSessionsMatch
  <2>1. d \in Node /\ h \in Node /\ Node = {d, h} /\ Peer(d) = h /\ Peer(h) = d
    BY Peers DEF OneOpens
  <2>2. CASE ~stray
    <3>1. Match(link[d], link[h])
      BY <2>1, <2>2 DEF Settled, Course, Exchange, Agree
    <3> QED
      BY <2>1, <3>1 DEF Match
  <2>3. CASE stray
    BY <2>1, <2>3 DEF Settled, Course, Astray, Responds
  <2> QED
    BY <2>2, <2>3
<1> QED
  BY CourseHolds, <1>1, PTL

(* An answer is itself answered only after the process of the client that  *)
(* opens ended in mid-handshake (client/conn.go, onHandshake).             *)
THEOREM AnswersStayUnanswered == OneAtATime => (SpecSession => []AnswersGoUnanswered)
<1> SUFFICES ASSUME NEW d, NEW h, OneOpens(d, h)
             PROVE  SpecSession => []AnswersGoUnanswered
  BY TheTwo
<1>1. Course(d, h) => AnswersGoUnanswered
  <2> SUFFICES ASSUME Course(d, h), ~stray, NEW n \in Node, reader[n].at = "install",
                      reader[n].session.role = "responder", reader[n].session.theirs.by = "respond"
               PROVE  FALSE
    BY DEF AnswersGoUnanswered
  <2>1. Exchange(d, h) /\ Node = {d, h} /\ Idle.at # "install"
    BY DEF Course, OneOpens, Idle
  <2>2. CASE n = d
    <3>1. OnItsWayBack(d, h)
      BY <2>1, <2>2, ReadersTell DEF Exchange
    <3>2. reader[d].session.role = "initiator"
      BY <2>1, <2>2, <3>1 DEF OnItsWayBack, Answered
    <3> QED
      BY <2>2, <3>2
  <2>3. CASE n = h
    <3>1. WithResponder(d, h)
      BY <2>1, <2>3, ReadersTell DEF Exchange
    <3>2. reader[h].session.theirs = pending[d] /\ pending[d].by = "initiate"
      BY <2>1, <2>3, <3>1 DEF WithResponder, Answering, Exchange, Roles
    <3> QED
      BY <2>3, <3>2
  <2> QED
    BY <2>1, <2>2, <2>3
<1> QED
  BY CourseHolds, <1>1, PTL

(* When an exchange has settled and nothing was lost, one end has opened   *)
(* the other's addresses and can punch (client/conn.go, install, sendDisco *)
(* and onDisco).                                                           *)
THEOREM PunchingCanStart == OneAtATime => (SpecSession => []SomeoneCanPunch)
<1> SUFFICES ASSUME NEW d, NEW h, OneOpens(d, h)
             PROVE  SpecSession => []SomeoneCanPunch
  BY TheTwo
<1>1. Course(d, h) => SomeoneCanPunch
  <2> SUFFICES ASSUME Course(d, h), Settled, losses = 0 PROVE \E n \in Node : knows[n]
    BY DEF SomeoneCanPunch
  <2>0. Exchange(d, h)
    BY DEF Course, Astray
  <2>1. d \in Node /\ h \in Node
    BY Peers
  <2>2. pending[d] = None /\ link[d] # None /\ reader[d] = Idle /\ inbox[h] = <<>>
    BY <2>1 DEF Settled
  <2>3. reader[d].at # "disco" /\ ~DiscoIn(inbox[h], link[d])
    BY <2>2 DEF Idle, DiscoIn
  <2> QED
    BY <2>0, <2>1, <2>2, <2>3 DEF Exchange, Agree
<1> QED
  BY CourseHolds, <1>1, PTL

=============================================================================
