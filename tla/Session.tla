------------------------------ MODULE Session ------------------------------
(***************************************************************************)
(* What the application says over the sessions of Handshake: Link.Send on  *)
(* any number of goroutines, Session.Seal and Open with their counter, and *)
(* onData with the inbox of a link (client/conn.go, crypto/identity.go).   *)
(*                                                                         *)
(* Every step of Handshake happens here too, with what it does to the      *)
(* links.  A link is named by its session.  The application may keep a     *)
(* link that install has replaced in c.links, and go on using it.          *)
(*                                                                         *)
(* Session.mu is held from the increment of the counter to the end of the  *)
(* encryption; Open and the sealing of addresses hold it for one step.     *)
(* Relay and UDP are read by a goroutine each.  Both hand every frame to   *)
(* handleFrame, but this program writes handshakes and addresses to the    *)
(* relay only, so with two such clients only the relay's reader installs   *)
(* links, and only the UDP reader can find a link replaced between looking *)
(* it up and using it.  A datagram stays in the network: it may come late, *)
(* twice or never.                                                         *)
(*                                                                         *)
(* Abstracted: which of the two paths Link.Send finds (PathSelect), the    *)
(* write errors of a missing socket, which lose the frame as Drop does,    *)
(* KillUDP, and recvN, which Open stores and nothing reads.                *)
(***************************************************************************)
EXTENDS Handshake

CONSTANTS
  Sender,       \* goroutines of each application that call Link.Send
  Room,         \* capacity of a link's inbox (32)
  MaxSaid       \* bound: messages sent in one behaviour

ASSUME SessionAssumption == Room \in Nat \ {0} /\ MaxSaid \in Nat

VARIABLES
  live,         \* live[n]: the links of n's process, with counter and inbox
  call,         \* where each goroutine stands in Link.Send
  datagram,     \* the UDP reader between linkByPeer and Open
  air,          \* datagrams sent to a node
  sealed,       \* history: what was sealed under which session and nonce
  said          \* messages the applications have sent so far

dataVars == <<live, call, datagram, air, sealed, said>>
allVars == <<vars, dataVars>>

Plain == 1..MaxSaid
Nonce == Nat
Data == [type : {"data"}, session : Session, nonce : Nonce, plain : Plain]
LinkState == [sendN : Nat, inbox : Seq(Data)]
Sealing == [at : {"seal"}, session : Session, plain : Plain]
Writing == [at : {"write"}, frame : Data]

ASSUME NoneAssumption == None \notin Eph /\ None \notin Session /\ None \notin Sealing

InitSession ==
  /\ Init
  /\ live = [n \in Node |-> <<>>]
  /\ call = [n \in Node |-> [g \in Sender |-> None]]
  /\ datagram = [n \in Node |-> None]
  /\ air = [n \in Node |-> {}]
  /\ sealed = {} /\ said = 0

(* Mutant: the counter is used without its mutex. *)
NeverLocked(n, s) == FALSE

(* A goroutine of n holds the mutex of session s. *)
Locked(n, s) ==
  \E g \in Sender : call[n][g] # None /\ call[n][g].at = "seal" /\ call[n][g].session = s

Seals(s, nonce, plain) == sealed' = sealed \cup {[session |-> s, nonce |-> nonce, plain |-> plain]}

-----------------------------------------------------------------------------
(* Mutant: a link is not entered anywhere. *)
PublishNothing(n) == UNCHANGED live

(* install makes a link with a counter of its own and an empty inbox.      *)
Publish(n) ==
  live' = [live EXCEPT ![n] =
    [s \in DOMAIN @ \cup {reader[n].session} |->
       IF s = reader[n].session THEN [sendN |-> 0, inbox |-> <<>>] ELSE @[s]]]

InstallLink(n) ==
  /\ Install(n) /\ Publish(n)
  /\ UNCHANGED <<call, datagram, air, sealed, said>>

(* sendDisco seals the addresses, message 0, under the new link's counter. *)
SealDisco(n) ==
  /\ SendDisco(n)
  /\ ~Locked(n, link[n])
  /\ live' = [live EXCEPT ![n][link[n]].sendN = @ + 1]
  /\ Seals(link[n], live[n][link[n]].sendN + 1, 0)
  /\ UNCHANGED <<call, datagram, air, said>>

OpenDisco(n) ==
  /\ OnDisco(n)
  /\ link[n] # None => ~Locked(n, link[n])
  /\ UNCHANGED dataVars

(* A process that starts again has no links and no calls under way. *)
RestartProcess(n) ==
  /\ Restart(n)
  /\ live' = [live EXCEPT ![n] = <<>>]
  /\ call' = [call EXCEPT ![n] = [g \in Sender |-> None]]
  /\ datagram' = [datagram EXCEPT ![n] = None]
  /\ UNCHANGED <<air, sealed, said>>

-----------------------------------------------------------------------------
(* Link.Send on any link the application was ever given: Seal takes the    *)
(* mutex and the next number, ...                                          *)
TakeNumber(n, g) ==
  /\ call[n][g] = None /\ said < MaxSaid
  /\ \E s \in DOMAIN live[n] :
       /\ ~Locked(n, s)
       /\ live' = [live EXCEPT ![n][s].sendN = @ + 1]
       /\ call' = [call EXCEPT ![n][g] = [at |-> "seal", session |-> s, plain |-> said + 1]]
  /\ said' = said + 1
  /\ UNCHANGED <<vars, datagram, air, sealed>>

(* ... seals under the counter's value and lets the mutex go; ...          *)
Seal(n, g) ==
  /\ call[n][g] # None /\ call[n][g].at = "seal"
  /\ LET s == call[n][g].session
         nonce == live[n][s].sendN
         plain == call[n][g].plain
     IN  /\ Seals(s, nonce, plain)
         /\ call' = [call EXCEPT ![n][g] = [at |-> "write", frame |->
              [type |-> "data", session |-> s, nonce |-> nonce, plain |-> plain]]]
  /\ UNCHANGED <<vars, live, datagram, air, said>>

(* ... and the frame leaves by the relay or, on a direct path, by UDP.     *)
WriteFrame(n, g) ==
  /\ call[n][g] # None /\ call[n][g].at = "write"
  /\ \/ Send(n, call[n][g].frame) /\ UNCHANGED air
     \/ air' = [air EXCEPT ![Peer(n)] = @ \cup {call[n][g].frame}] /\ UNCHANGED inbox
  /\ call' = [call EXCEPT ![n][g] = None]
  /\ UNCHANGED <<pending, link, opening, reader, knows, made, losses, stray, live, datagram, sealed, said>>

-----------------------------------------------------------------------------
(* What a link that opens a frame of its peer's does with it: a full inbox *)
(* loses it.                                                               *)
Deliver(n, s, frame) ==
  live' = IF Match(frame.session, s) /\ Len(live[n][s].inbox) < Room
            THEN [live EXCEPT ![n][s].inbox = Append(@, frame)]
            ELSE live

(* Mutant: a full inbox is waited for. *)
OnDataWaiting(n) ==
  /\ reader[n] = Idle /\ inbox[n] # <<>> /\ Head(inbox[n]).type = "data"
  /\ IF link[n] = None THEN UNCHANGED live
     ELSE /\ ~Locked(n, link[n]) /\ Len(live[n][link[n]].inbox) < Room
          /\ Deliver(n, link[n], Head(inbox[n]))
  /\ inbox' = [inbox EXCEPT ![n] = Tail(@)]
  /\ UNCHANGED <<pending, link, opening, reader, knows, made, losses, stray,
                 call, datagram, air, sealed, said>>

(* onData on the relay reader. *)
OnData(n) ==
  /\ reader[n] = Idle /\ inbox[n] # <<>> /\ Head(inbox[n]).type = "data"
  /\ IF link[n] = None THEN UNCHANGED live
     ELSE ~Locked(n, link[n]) /\ Deliver(n, link[n], Head(inbox[n]))
  /\ inbox' = [inbox EXCEPT ![n] = Tail(@)]
  /\ UNCHANGED <<pending, link, opening, reader, knows, made, losses, stray,
                 call, datagram, air, sealed, said>>

(* onData on the UDP reader: it looks up the link, ...                     *)
ReadDatagram(n) ==
  /\ datagram[n] = None /\ link[n] # None
  /\ \E f \in air[n] : datagram' = [datagram EXCEPT ![n] = [link |-> link[n], frame |-> f]]
  /\ UNCHANGED <<vars, live, call, air, sealed, said>>

(* Mutant: the link is looked up again for its inbox. *)
OpenDatagramLate(n) ==
  /\ datagram[n] # None /\ ~Locked(n, datagram[n].link)
  /\ live' = IF /\ Match(datagram[n].frame.session, datagram[n].link)
                /\ Len(live[n][link[n]].inbox) < Room
               THEN [live EXCEPT ![n][link[n]].inbox = Append(@, datagram[n].frame)]
               ELSE live
  /\ datagram' = [datagram EXCEPT ![n] = None]
  /\ UNCHANGED <<vars, call, air, sealed, said>>

(* ... then opens the datagram under that link's session and leaves it in  *)
(* that link's inbox.                                                      *)
OpenDatagram(n) ==
  /\ datagram[n] # None /\ ~Locked(n, datagram[n].link)
  /\ Deliver(n, datagram[n].link, datagram[n].frame)
  /\ datagram' = [datagram EXCEPT ![n] = None]
  /\ UNCHANGED <<vars, call, air, sealed, said>>

(* The application takes a message from a link's channel, if it ever does. *)
Recv(n) ==
  /\ \E s \in DOMAIN live[n] :
       /\ live[n][s].inbox # <<>>
       /\ live' = [live EXCEPT ![n][s].inbox = Tail(@)]
  /\ UNCHANGED <<vars, call, datagram, air, sealed, said>>

-----------------------------------------------------------------------------
HandshakeStep(n) ==
  /\ OpenInitiator(n) \/ SendInitiation(n) \/ OnHandshake(n) \/ SendReply(n) \/ Drop(n)
  /\ UNCHANGED dataVars

RelayReader(n) ==
  \/ (OnHandshake(n) \/ SendReply(n)) /\ UNCHANGED dataVars
  \/ InstallLink(n) \/ SealDisco(n) \/ OpenDisco(n) \/ OnData(n)

NextSession ==
  \E n \in Node :
    \/ HandshakeStep(n)
    \/ InstallLink(n) \/ SealDisco(n) \/ OpenDisco(n) \/ RestartProcess(n)
    \/ OnData(n) \/ ReadDatagram(n) \/ OpenDatagram(n) \/ Recv(n)
    \/ \E g \in Sender : TakeNumber(n, g) \/ Seal(n, g) \/ WriteFrame(n, g)

(* As in Handshake, and a goroutine that holds a mutex goes on.  Nobody    *)
(* need call Send or Recv and no datagram need arrive.                     *)
FairnessSession ==
  \A n \in Node :
    /\ WF_allVars(SendInitiation(n) /\ UNCHANGED dataVars)
    /\ WF_allVars(RelayReader(n))
    /\ \A g \in Sender : WF_allVars(Seal(n, g))

SpecSession == InitSession /\ [][NextSession]_allVars /\ FairnessSession

-----------------------------------------------------------------------------
FramesType ==
  /\ inbox \in [Node -> Seq(Frame \cup Data)]
  /\ air \in [Node -> SUBSET Data]
  /\ said \in 0..MaxSaid

LinksType ==
  \A n \in Node :
    /\ DOMAIN live[n] \subseteq Session
    /\ \A s \in DOMAIN live[n] : live[n][s] \in LinkState /\ Len(live[n][s].inbox) <= Room

CallsType ==
  \A n \in Node :
    /\ link[n] \in {None} \cup DOMAIN live[n]
    /\ datagram[n] \in {None} \cup [link : DOMAIN live[n], frame : Data]
    /\ \A g \in Sender :
         /\ call[n][g] \in {None} \cup Sealing \cup Writing
         /\ call[n][g] # None /\ call[n][g].at = "seal" => call[n][g].session \in DOMAIN live[n]

(* The link in use and every link a goroutine works with is one of the     *)
(* process, and an inbox holds no more than its channel does.              *)
SessionTypeOK == HandshakeType /\ FramesType /\ LinksType /\ CallsType

(* No two messages are ever sealed under one session with one nonce,       *)
(* however many goroutines send, whichever path each message takes and     *)
(* however often a session is opened again or a process restarts with its  *)
(* counters at zero (Session.Seal, install, Initiate, Respond).            *)
NonceUsedOnce ==
  \A a, b \in sealed : a.session = b.session /\ a.nonce = b.nonce => a = b

(* A link's inbox holds only what the peer sealed under the session that   *)
(* link shares with it, also when the link is replaced while the UDP       *)
(* reader works on a datagram (onData, linkByPeer, Session.Open).          *)
LinkHearsItsOwn ==
  \A n \in Node : \A s \in DOMAIN live[n] :
    \A i \in DOMAIN live[n][s].inbox : Match(live[n][s].inbox[i].session, s)

(* The bound on ephemerals, and nothing in the code, keeps n from          *)
(* answering the handshake at the head of its queue.                       *)
OutOfKeys(n) ==
  /\ made = MaxEph /\ reader[n] = Idle /\ pending[n] = None
  /\ inbox[n] # <<>> /\ HandshakeOf(Head(inbox[n]))

(* A client whose application never takes a message still handles every    *)
(* frame that comes by the relay, the next handshake among them (onData's  *)
(* select, readWS).                                                        *)
ReaderKeepsReading == \A n \in Node : inbox[n] # <<>> ~> inbox[n] = <<>> \/ OutOfKeys(n)

=============================================================================
