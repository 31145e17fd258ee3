----------------------------- MODULE Handshake -----------------------------
(***************************************************************************)
(* The end-to-end session between two clients of the hub: OpenInitiator on *)
(* one side, onHandshake and install on the reader goroutine of each side, *)
(* and the exchange of sealed addresses that follows (client/conn.go,      *)
(* crypto/identity.go).                                                    *)
(*                                                                         *)
(* The hub forwards frames of one sender in order, so inbox[n] is a queue; *)
(* whatever is in it is lost when a socket drops.  The reader takes one    *)
(* frame at a time, but pending and links are under c.mu and the socket    *)
(* under c.wsMu, each for a moment, so the application's goroutine can run *)
(* between the steps of onHandshake.                                       *)
(*                                                                         *)
(* A handshake payload is one ephemeral public key.  On the wire nothing   *)
(* tells an initiation from an answer; eph.by records which call made it,  *)
(* for the properties only.  The Diffie-Hellman terms are abstracted to    *)
(* what they decide: two sessions share keys exactly when each holds the   *)
(* other's ephemeral and one end derived as initiator, the other as        *)
(* responder.                                                              *)
(***************************************************************************)
EXTENDS Naturals, Sequences

CONSTANTS
  Node,         \* the two clients
  Initiator,    \* those whose application calls OpenInitiator
  None,
  Orderly,      \* TRUE: an initiator opens only while no handshake is
                \* under way; FALSE: whenever it likes
  MaxEph,       \* bound: ephemeral keys made in one behaviour
  MaxLoss       \* bound: socket drops and restarts in one behaviour

ASSUME NodeAssumption ==
  /\ \E a, b \in Node : a # b /\ Node = {a, b}
  /\ Initiator \subseteq Node /\ None \notin Node
ASSUME BoundsAssumption == Orderly \in BOOLEAN /\ MaxEph \in Nat /\ MaxLoss \in Nat

Eph == [id : 1..MaxEph, by : {"initiate", "respond"}]
Role == {"initiator", "responder"}
Session == [mine : Eph, theirs : Eph, role : Role]
Frame == [type : {"handshake"}, eph : Eph] \cup [type : {"disco"}, session : Session]

VARIABLES
  pending,      \* c.pending[peer]: the initiation waiting for its answer
  link,         \* c.links[peer]: the session in use
  inbox,        \* frames on their way to a node, in order
  opening,      \* OpenInitiator between storing its handshake and sending it
  reader,       \* onHandshake between two critical sections
  knows,        \* a disco of the peer was opened under the session in use
  made,         \* ephemeral keys made so far
  losses,
  stray         \* history: the process of an initiator ended while a handshake
                \* was under way, and no session has been opened since

vars == <<pending, link, inbox, opening, reader, knows, made, losses, stray>>

Peer(n) == CHOOSE m \in Node : m # n

Idle == [at |-> "idle"]
Reader == {Idle}
  \cup [at : {"install"}, session : Session, reply : Eph \cup {None}]
  \cup [at : {"disco", "onLink"}, reply : Eph \cup {None}]

Init ==
  /\ pending = [n \in Node |-> None] /\ link = [n \in Node |-> None]
  /\ inbox = [n \in Node |-> <<>>]
  /\ opening = [n \in Node |-> None] /\ reader = [n \in Node |-> Idle]
  /\ knows = [n \in Node |-> FALSE]
  /\ made = 0 /\ losses = 0 /\ stray = FALSE

Fresh(call) == [id |-> made + 1, by |-> call]

(* One end was the initiator, the other the responder, and each holds the  *)
(* other's ephemeral.                                                      *)
Match(s, t) == s.mine = t.theirs /\ s.theirs = t.mine /\ s.role # t.role

Send(n, frame) == inbox' = [inbox EXCEPT ![Peer(n)] = Append(@, frame)]

HandshakeOf(frame) == frame.type = "handshake"

(* No handshake frame is travelling or being worked on. *)
NoHandshakeUnderWay ==
  \A n \in Node :
    /\ opening[n] = None /\ reader[n] = Idle
    /\ \A i \in DOMAIN inbox[n] : ~HandshakeOf(inbox[n][i])

-----------------------------------------------------------------------------
(* OpenInitiator overwrites whatever handshake it was waiting for, ...     *)
OpenInitiator(n) ==
  /\ n \in Initiator
  /\ Orderly => NoHandshakeUnderWay
  /\ opening[n] = None
  /\ made + 1 < MaxEph            \* one is left for the answer
  /\ pending' = [pending EXCEPT ![n] = Fresh("initiate")]
  /\ opening' = [opening EXCEPT ![n] = Fresh("initiate")]
  /\ made' = made + 1 /\ stray' = FALSE
  /\ UNCHANGED <<link, inbox, reader, knows, losses>>

(* ... then writes the frame.                                              *)
SendInitiation(n) ==
  /\ opening[n] # None
  /\ Send(n, [type |-> "handshake", eph |-> opening[n]])
  /\ opening' = [opening EXCEPT ![n] = None]
  /\ UNCHANGED <<pending, link, reader, knows, made, losses, stray>>

(* Mutant: the initiator derives its keys as a responder does. *)
FinishAsResponder(n, eph) == [mine |-> pending[n], theirs |-> eph, role |-> "responder"]

(* A handshake frame finishes the handshake this client waits for, if it   *)
(* waits for one, and is answered as an initiation if it does not.         *)
Finish(n, eph) == [mine |-> pending[n], theirs |-> eph, role |-> "initiator"]

Respond(eph) == [mine |-> Fresh("respond"), theirs |-> eph, role |-> "responder"]

(* Mutant: a frame is always taken for an initiation.                      *)
OnHandshakeResponding(n) ==
  /\ reader[n] = Idle /\ inbox[n] # <<>> /\ HandshakeOf(Head(inbox[n]))
  /\ made < MaxEph
  /\ reader' = [reader EXCEPT ![n] =
       [at |-> "install", session |-> Respond(Head(inbox[n]).eph), reply |-> Fresh("respond")]]
  /\ made' = made + 1
  /\ inbox' = [inbox EXCEPT ![n] = Tail(@)]
  /\ UNCHANGED <<pending, link, opening, knows, losses, stray>>

OnHandshake(n) ==
  /\ reader[n] = Idle /\ inbox[n] # <<>> /\ HandshakeOf(Head(inbox[n]))
  /\ LET eph == Head(inbox[n]).eph
     IN  IF pending[n] # None
           THEN /\ reader' = [reader EXCEPT ![n] =
                     [at |-> "install", session |-> Finish(n, eph), reply |-> None]]
                /\ UNCHANGED made
           ELSE /\ made < MaxEph
                /\ reader' = [reader EXCEPT ![n] =
                     [at |-> "install", session |-> Respond(eph), reply |-> Fresh("respond")]]
                /\ made' = made + 1
  /\ inbox' = [inbox EXCEPT ![n] = Tail(@)]
  /\ UNCHANGED <<pending, link, opening, knows, losses, stray>>

(* Mutant: the handshake stays pending. *)
InstallKeepingPending(n) ==
  /\ reader[n].at = "install"
  /\ link' = [link EXCEPT ![n] = reader[n].session]
  /\ knows' = [knows EXCEPT ![n] = FALSE]
  /\ reader' = [reader EXCEPT ![n] = [at |-> "disco", reply |-> reader[n].reply]]
  /\ UNCHANGED <<pending, inbox, opening, made, losses, stray>>

(* install replaces the link and forgets the pending handshake, ...        *)
Install(n) ==
  /\ reader[n].at = "install"
  /\ link' = [link EXCEPT ![n] = reader[n].session]
  /\ pending' = [pending EXCEPT ![n] = None]
  /\ knows' = [knows EXCEPT ![n] = FALSE]
  /\ reader' = [reader EXCEPT ![n] = [at |-> "disco", reply |-> reader[n].reply]]
  /\ UNCHANGED <<inbox, opening, made, losses, stray>>

(* Mutant: only a responder sends its addresses. *)
SendDiscoAsResponder(n) ==
  /\ reader[n].at = "disco"
  /\ IF reader[n].reply = None
       THEN UNCHANGED inbox
       ELSE Send(n, [type |-> "disco", session |-> link[n]])
  /\ reader' = [reader EXCEPT ![n] = [at |-> "onLink", reply |-> reader[n].reply]]
  /\ UNCHANGED <<pending, link, opening, knows, made, losses, stray>>

(* ... sends its addresses sealed under the new session, ...               *)
SendDisco(n) ==
  /\ reader[n].at = "disco"
  /\ Send(n, [type |-> "disco", session |-> link[n]])
  /\ reader' = [reader EXCEPT ![n] = [at |-> "onLink", reply |-> reader[n].reply]]
  /\ UNCHANGED <<pending, link, opening, knows, made, losses, stray>>

(* ... and calls the application's onLink on the reader; only when that    *)
(* has returned does a responder send its own ephemeral.                   *)
SendReply(n) ==
  /\ reader[n].at = "onLink"
  /\ IF reader[n].reply = None
       THEN UNCHANGED inbox
       ELSE Send(n, [type |-> "handshake", eph |-> reader[n].reply])
  /\ reader' = [reader EXCEPT ![n] = Idle]
  /\ UNCHANGED <<pending, link, opening, knows, made, losses, stray>>

(* A disco that the session in use can open makes this end punch.          *)
OnDisco(n) ==
  /\ reader[n] = Idle /\ inbox[n] # <<>> /\ Head(inbox[n]).type = "disco"
  /\ knows' = [knows EXCEPT ![n] =
       @ \/ (link[n] # None /\ Match(Head(inbox[n]).session, link[n]))]
  /\ inbox' = [inbox EXCEPT ![n] = Tail(@)]
  /\ UNCHANGED <<pending, link, opening, reader, made, losses, stray>>

(* The socket of n drops: what was on its way to n is gone. *)
Drop(n) ==
  /\ losses < MaxLoss /\ inbox[n] # <<>>
  /\ inbox' = [inbox EXCEPT ![n] = <<>>]
  /\ losses' = losses + 1
  /\ UNCHANGED <<pending, link, opening, reader, knows, made, stray>>

(* The process of n ends, at any time, and starts again with nothing in    *)
(* memory; what it has sent is still on its way.                           *)
Restart(n) ==
  /\ losses < MaxLoss
  /\ pending' = [pending EXCEPT ![n] = None] /\ link' = [link EXCEPT ![n] = None]
  /\ inbox' = [inbox EXCEPT ![n] = <<>>]
  /\ opening' = [opening EXCEPT ![n] = None] /\ reader' = [reader EXCEPT ![n] = Idle]
  /\ knows' = [knows EXCEPT ![n] = FALSE]
  /\ losses' = losses + 1
  /\ stray' = (stray \/ (n \in Initiator /\ ~NoHandshakeUnderWay))
  /\ UNCHANGED made

ReaderStep(n) ==
  \/ OnHandshake(n) \/ Install(n) \/ SendDisco(n) \/ SendReply(n) \/ OnDisco(n)

Next ==
  \E n \in Node :
    \/ OpenInitiator(n) \/ SendInitiation(n) \/ ReaderStep(n)
    \/ Drop(n) \/ Restart(n)

(* A started OpenInitiator writes its frame, and a reader keeps reading:   *)
(* the application's onLink returns, however long it takes.                *)
Fairness == \A n \in Node : WF_vars(SendInitiation(n)) /\ WF_vars(ReaderStep(n))

Spec == Init /\ [][Next]_vars /\ Fairness

-----------------------------------------------------------------------------
(* The type of everything but the frames on their way, to which Session    *)
(* adds its own.                                                           *)
HandshakeType ==
  /\ pending \in [Node -> Eph \cup {None}]
  /\ link \in [Node -> Session \cup {None}]
  /\ opening \in [Node -> Eph \cup {None}]
  /\ reader \in [Node -> Reader]
  /\ knows \in [Node -> BOOLEAN]
  /\ made \in 0..MaxEph /\ losses \in 0..MaxLoss /\ stray \in BOOLEAN

(* Nothing is travelling, being worked on or waited for, and both ends     *)
(* have a link.                                                            *)
Settled ==
  \A n \in Node :
    /\ inbox[n] = <<>> /\ opening[n] = None /\ reader[n] = Idle
    /\ pending[n] = None /\ link[n] # None

(* When the exchange has settled both ends hold the same keys, whatever    *)
(* was lost, whenever a responder restarted and however often the session  *)
(* was opened again, if no session is opened while an earlier handshake is *)
(* still travelling (onHandshake, install, Initiate/Respond/Finish).  One  *)
(* case is left out of the promise and named: an initiator whose process   *)
(* ended in mid-handshake answers the answer to it, and until the next     *)
(* session is opened both ends may hold links of responders, with keys     *)
(* that do not match.                                                      *)
SettledSessionsMatch ==
  Settled => \/ \A n \in Node : Match(link[n], link[Peer(n)])
             \/ stray /\ \A n \in Node : link[n].role = "responder"

(* Every session was derived from one initiation and one answer: an answer *)
(* is never itself answered as if it opened a session. crypto/identity.go  *)
(* line 114: "Respond accepts the initiator ephemeral".                    *)
RespondOnlyToInitiation ==
  \A n \in Node :
    link[n] # None =>
      link[n].theirs.by = (IF link[n].role = "responder" THEN "initiate" ELSE "respond")

(* An answer is itself answered, as if it opened a session, in one case    *)
(* only: when the initiator's process ended while its handshake was under  *)
(* way, and no session has been opened since.  Losses, a responder that    *)
(* restarts and sessions opened again do not bring it about (onHandshake). *)
AnswersGoUnanswered ==
  \A n \in Node :
    /\ reader[n].at = "install" /\ reader[n].session.role = "responder"
    /\ reader[n].session.theirs.by = "respond"
    => stray

(* Once settled without loss at least one end has opened the other's       *)
(* addresses, so hole punching can start, although the responder sends its *)
(* own addresses before the answer that would let them be opened (install, *)
(* sendDisco, onDisco).                                                    *)
SomeoneCanPunch == Settled /\ losses = 0 => \E n \in Node : knows[n]

(* An initiation is answered: the client stops waiting for it unless       *)
(* something was lost on the way (OpenInitiator, onHandshake).             *)
HandshakeCompletes ==
  \A n \in Node : pending[n] # None ~> pending[n] = None \/ losses > 0

=============================================================================
