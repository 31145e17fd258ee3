------------------------- MODULE ClientSocketProofs -------------------------
(***************************************************************************)
(* The relay socket of a client, for any number of sockets.                *)
(*                                                                         *)
(* That no socket leaks is not inductive: a reader that takes a message    *)
(* lets go of its socket, and then only c.ws holds it.  It is kept by the  *)
(* fact that a socket the reader blocks on is the current one for as long  *)
(* as it is open, because whoever takes it out of c.ws closes it first.    *)
(* That a shut client stays shut rests on the reader's look at c.closed    *)
(* before a dial, and on Close setting it before it takes the socket.      *)
(***************************************************************************)
EXTENDS ClientSocket, TLAPS

(* The current socket was dialled. *)
CurrentDialled == ws \in dialled \cup {None}

(* The reader reads the current socket or one that is closed.              *)
ReadsCurrent ==
  reader.at = "reading" /\ reader.sock \in openEnd => reader.sock = ws

(* Close closes c.closed first. *)
FlagFirst == closing # "before" => closed

(* Every open socket is held, the one a late dial left in c.ws included.   *)
SocketsHeld == openEnd \subseteq {ws, keeper.sock, reader.sock}

IInv == TypeOK /\ CurrentDialled /\ ReadsCurrent /\ FlagFirst /\ SocketsHeld

-----------------------------------------------------------------------------
(* The client starts with the socket that Dial connected. *)
LEMMA InitIInv == Init => IInv
<1> SUFFICES ASSUME Init PROVE IInv
  OBVIOUS
<1>1. /\ ws = First /\ dialled = {First} /\ openEnd = {First} /\ broken = {} /\ silent = {}
      /\ reader = At("top", None) /\ keeper = At("waiting", None)
  BY DEF Init
<1>2. closed \in BOOLEAN /\ closing = "before"
  BY DEF Init
<1>3. TypeOK
  BY <1>1, <1>2, SockAssumption DEF TypeOK, At
<1> QED
  BY <1>1, <1>2, <1>3
  DEF IInv, At, CurrentDialled, ReadsCurrent, FlagFirst, SocketsHeld

(* Every step of the reader, the keep-alive, Close, the hub and the        *)
(* network keeps the sockets that are held among those that were dialled.  *)
LEMMA TypeStep == IInv /\ [Next]_vars => TypeOK' /\ CurrentDialled' /\ FlagFirst'
<1> SUFFICES ASSUME IInv, [Next]_vars PROVE TypeOK' /\ CurrentDialled' /\ FlagFirst'
  OBVIOUS
<1> USE SockAssumption DEF IInv, TypeOK, At, CurrentDialled, FlagFirst, vars
<1>1. CASE UNCHANGED vars
  BY <1>1
<1>2. CASE ReaderTop
  BY <1>2 DEF ReaderTop
<1>3. CASE ReaderMessage
  BY <1>3 DEF ReaderMessage
<1>4. CASE ReaderError
  BY <1>4 DEF ReaderError, DropWS
<1>5. CASE Reconnect
  BY <1>5 DEF Reconnect
<1>6. CASE BackoffEnds
  BY <1>6 DEF BackoffEnds
<1>7. CASE Publish
  BY <1>7 DEF Publish
<1>8. CASE DialFails
  BY <1>8 DEF DialFails
<1>9. ASSUME NEW s \in Sock, DialSucceeds(s) PROVE TypeOK' /\ CurrentDialled' /\ FlagFirst'
  BY <1>9 DEF DialSucceeds
<1>10. CASE KeeperStops
  BY <1>10 DEF KeeperStops
<1>11. CASE KeeperWriteFails
  BY <1>11 DEF KeeperWriteFails
<1>12. CASE KeeperLooks
  BY <1>12 DEF KeeperLooks
<1>13. CASE KeeperDrops
  BY <1>13 DEF KeeperDrops, DropWS
<1>14. CASE CloseFlags
  BY <1>14 DEF CloseFlags
<1>15. CASE CloseSocket
  BY <1>15 DEF CloseSocket
<1>16. ASSUME NEW s \in Sock, Breaks(s) PROVE TypeOK' /\ CurrentDialled' /\ FlagFirst'
  BY <1>16 DEF Breaks
<1> QED
  BY <1>1, <1>2, <1>3, <1>4, <1>5, <1>6, <1>7, <1>8, <1>9, <1>10, <1>11, <1>12, <1>13, <1>14,
     <1>15, <1>16
  DEF Next, ReaderStep, KeeperStep

(* Whoever takes a socket out of c.ws closes it, and whoever lets go of a  *)
(* socket without closing it leaves it in c.ws.                            *)
LEMMA LeakStep == IInv /\ [Next]_vars => ReadsCurrent' /\ SocketsHeld'
<1> SUFFICES ASSUME IInv, [Next]_vars PROVE ReadsCurrent' /\ SocketsHeld'
  OBVIOUS
<1> USE SockAssumption DEF IInv, TypeOK, At, ReadsCurrent, SocketsHeld, vars
<1>1. CASE UNCHANGED vars
  BY <1>1
<1>2. CASE ReaderTop
  BY <1>2 DEF ReaderTop
<1>3. CASE ReaderMessage
  BY <1>3 DEF ReaderMessage, Usable
<1>4. CASE ReaderError
  BY <1>4 DEF ReaderError, DropWS
<1>5. CASE Reconnect
  BY <1>5 DEF Reconnect
<1>6. CASE BackoffEnds
  BY <1>6 DEF BackoffEnds
<1>7. CASE Publish
  BY <1>7 DEF Publish
<1>8. CASE DialFails
  BY <1>8 DEF DialFails
<1>9. ASSUME NEW s \in Sock, DialSucceeds(s) PROVE ReadsCurrent' /\ SocketsHeld'
  BY <1>9 DEF DialSucceeds
<1>10. CASE KeeperStops
  BY <1>10 DEF KeeperStops
<1>11. CASE KeeperWriteFails
  BY <1>11 DEF KeeperWriteFails
<1>12. CASE KeeperLooks
  BY <1>12 DEF KeeperLooks
<1>13. CASE KeeperDrops
  BY <1>13 DEF KeeperDrops, DropWS
<1>14. CASE CloseFlags
  BY <1>14 DEF CloseFlags
<1>15. CASE CloseSocket
  BY <1>15 DEF CloseSocket
<1>16. ASSUME NEW s \in Sock, Breaks(s) PROVE ReadsCurrent' /\ SocketsHeld'
  BY <1>16 DEF Breaks
<1> QED
  BY <1>1, <1>2, <1>3, <1>4, <1>5, <1>6, <1>7, <1>8, <1>9, <1>10, <1>11, <1>12, <1>13, <1>14,
     <1>15, <1>16
  DEF Next, ReaderStep, KeeperStep

(* IInv holds in every reachable state. *)
LEMMA Invariance == Spec => []IInv
<1>1. IInv /\ [Next]_vars => IInv'
  BY TypeStep, LeakStep DEF IInv
<1> QED
  BY <1>1, InitIInv, PTL DEF Spec

(* No goroutine reads, publishes or closes nil or a socket that was never  *)
(* dialled (readWS, connectWS, dropWS).                                    *)
THEOREM TypeCorrect == Spec => []TypeOK
<1>1. IInv => TypeOK
  BY DEF IInv
<1> QED
  BY <1>1, Invariance, PTL

(* However the keep-alive's drop, the reader's redial, Close and the hub's *)
(* closes cross, a client owns no socket that nobody holds any more,       *)
(* unless it is closed and a late dial made it connected again (dropWS,    *)
(* connectWS, Close).                                                      *)
THEOREM SocketsAreHeld == Spec => []NoSocketLeaks
<1>1. IInv => NoSocketLeaks
  BY DEF IInv, SocketsHeld, NoSocketLeaks
<1> QED
  BY <1>1, Invariance, PTL

-----------------------------------------------------------------------------
(* Who is shut dials no more: the reader asks c.closed before it dials.    *)
LEMMA ShutStep == IInv /\ Shut /\ [Next]_vars => Shut'
<1> SUFFICES ASSUME IInv, Shut, [Next]_vars PROVE Shut'
  OBVIOUS
<1>1. closed /\ ws = None /\ closing = "returned" /\ reader.at \notin {"dialling", "dialled"}
  BY DEF IInv, FlagFirst, Shut, Connected
<1> USE DEF Shut, Connected, At
<1>2. CASE ReaderTop \/ ReaderMessage \/ Reconnect \/ BackoffEnds
  <2>1. reader' \in {At("done", None), At("reconnect", None), At("top", None), At("backoff", None)}
    BY <1>1, <1>2 DEF ReaderTop, ReaderMessage, Reconnect, BackoffEnds
  <2>2. UNCHANGED <<ws, closing>>
    BY <1>2 DEF ReaderTop, ReaderMessage, Reconnect, BackoffEnds
  <2> QED
    BY <1>1, <2>1, <2>2
<1>3. CASE ReaderError \/ KeeperDrops
  <2>1. ws' = None /\ closing' = closing
    BY <1>1, <1>3 DEF ReaderError, KeeperDrops, DropWS
  <2>2. reader' \in {reader, At("done", None), At("top", None)}
    BY <1>3 DEF ReaderError, KeeperDrops
  <2> QED
    BY <1>1, <2>1, <2>2
<1>4. CASE KeeperStops \/ KeeperWriteFails \/ KeeperLooks
  BY <1>1, <1>4 DEF KeeperStops, KeeperWriteFails, KeeperLooks
<1>5. ASSUME NEW s \in Sock, Breaks(s) PROVE Shut'
  BY <1>1, <1>5 DEF Breaks
<1>6. ~ Publish /\ ~ DialFails /\ ~ CloseFlags /\ ~ CloseSocket /\ \A s \in Sock : ~ DialSucceeds(s)
  BY <1>1 DEF Publish, DialFails, CloseFlags, CloseSocket, DialSucceeds
<1>7. CASE UNCHANGED vars
  BY <1>1, <1>7 DEF vars
<1> QED
  BY <1>2, <1>3, <1>4, <1>5, <1>6, <1>7 DEF Next, ReaderStep, KeeperStep

(* Close is final unless a dial was under way: what is shut stays shut     *)
(* (Close, reconnect, readWS, connectWS).                                  *)
THEOREM CloseIsFinal == Spec => StaysShut
BY ShutStep, Invariance, PTL DEF Spec, StaysShut

(* So the one socket a closed client can leave behind is that of such a    *)
(* dial, and a shut client owns none but those being closed.               *)
THEOREM ShutOwnsNothing ==
  Spec => [](Shut => [](~Connected /\ openEnd \subseteq {None, keeper.sock, reader.sock}))
<1>1. IInv /\ Shut => ~Connected /\ openEnd \subseteq {None, keeper.sock, reader.sock}
  BY DEF IInv, Shut, Connected, SocketsHeld
<1> QED
  BY <1>1, ShutStep, Invariance, PTL DEF Spec

=============================================================================
