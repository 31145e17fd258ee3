---------------------------- MODULE ClientSocket ----------------------------
(***************************************************************************)
(* The relay socket of one client (client/ws.go): c.ws and the goroutines  *)
(* that replace it - the reader, which also redials, the keep-alive, and   *)
(* Close.                                                                  *)
(*                                                                         *)
(* c.wsMu is held for one read, write or swap of c.ws at a time; a frame   *)
(* is written under it.  Each action below is one such critical section    *)
(* or one blocking call.  The hub and the network may break a socket at    *)
(* any time and refuse a dial.                                             *)
(*                                                                         *)
(* Abstracted: the numbers of the backoff and of the keep-alive period;    *)
(* the frames, what handleFrame does with them, and writes that succeed.   *)
(***************************************************************************)
EXTENDS Naturals, FiniteSets

CONSTANTS
  Sock,         \* sockets, each dialled once
  None,
  First         \* the socket Dial connected before the goroutines started

ASSUME SockAssumption == First \in Sock /\ None \notin Sock

VARIABLES
  ws,           \* c.ws
  dialled,      \* sockets that exist
  openEnd,      \* sockets this client has not closed
  broken,       \* sockets the hub or the network ended
  silent,       \* those of them that a blocked read does not notice
  closed,       \* c.closed is closed
  closing,      \* Close: "before", "flagged", "returned"
  reader,       \* the reader's place and the socket it holds
  keeper        \* the keep-alive's place and the socket it holds

vars == <<ws, dialled, openEnd, broken, silent, closed, closing, reader, keeper>>

At(place, s) == [at |-> place, sock |-> s]

Init ==
  /\ ws = First /\ dialled = {First} /\ openEnd = {First}
  /\ broken = {} /\ silent = {}
  /\ closed = FALSE /\ closing = "before"
  /\ reader = At("top", None) /\ keeper = At("waiting", None)

Connected == ws # None

Usable(s) == s # None /\ s \in openEnd /\ s \notin broken

(* Mutant: dropWS forgets whatever socket is current.                      *)
DropWSWhoever(s) == ws' = None /\ openEnd' = openEnd \ {s}

(* dropWS: forget the socket only if it is still the current one; close it.*)
DropWS(s) ==
  /\ ws' = IF ws = s THEN None ELSE ws
  /\ openEnd' = openEnd \ {s}

-----------------------------------------------------------------------------
(* readWS, top of the loop. *)
ReaderTop ==
  /\ reader.at = "top"
  /\ reader' = IF closed THEN At("done", None)
               ELSE IF ws = None THEN At("reconnect", None) ELSE At("reading", ws)
  /\ UNCHANGED <<ws, dialled, openEnd, broken, silent, closed, closing, keeper>>

(* A message arrives and is handled. *)
ReaderMessage ==
  /\ reader.at = "reading" /\ Usable(reader.sock)
  /\ reader' = At("top", None)
  /\ UNCHANGED <<ws, dialled, openEnd, broken, silent, closed, closing, keeper>>

(* ReadMessage fails: the other end closed, or this end did.  It has no    *)
(* deadline, so a connection that is lost silently blocks it.              *)
ReaderError ==
  /\ reader.at = "reading" /\ ~Usable(reader.sock)
  /\ reader.sock \in silent => reader.sock \notin openEnd
  /\ DropWS(reader.sock)
  /\ reader' = IF closed THEN At("done", None) ELSE At("top", None)
  /\ UNCHANGED <<dialled, broken, silent, closed, closing, keeper>>

(* Mutant: reconnect dials for a stopped client too. *)
ReconnectStopped ==
  /\ reader.at = "reconnect"
  /\ reader' = At("dialling", None)
  /\ UNCHANGED <<ws, dialled, openEnd, broken, silent, closed, closing, keeper>>

(* reconnect does not dial for a stopped client, ...                       *)
Reconnect ==
  /\ reader.at = "reconnect"
  /\ reader' = IF closed THEN At("backoff", None) ELSE At("dialling", None)
  /\ UNCHANGED <<ws, dialled, openEnd, broken, silent, closed, closing, keeper>>

(* ... and Close cancels a dial, but not one that was already answered.    *)
DialSucceeds(s) ==
  /\ reader.at = "dialling"
  /\ s \notin dialled
  /\ dialled' = dialled \cup {s}
  /\ openEnd' = openEnd \cup {s}
  /\ reader' = At("dialled", s)
  /\ UNCHANGED <<ws, broken, silent, closed, closing, keeper>>

DialFails ==
  /\ reader.at = "dialling"
  /\ reader' = At("backoff", None)
  /\ UNCHANGED <<ws, dialled, openEnd, broken, silent, closed, closing, keeper>>

BackoffEnds ==
  /\ reader.at = "backoff"
  /\ reader' = IF closed THEN At("done", None) ELSE At("top", None)
  /\ UNCHANGED <<ws, dialled, openEnd, broken, silent, closed, closing, keeper>>

(* connectWS puts the new socket in c.ws and closes the one it displaces.  *)
Publish ==
  /\ reader.at = "dialled"
  /\ ws' = reader.sock
  /\ openEnd' = openEnd \ {ws}
  /\ reader' = At("top", None)
  /\ UNCHANGED <<dialled, broken, silent, closed, closing, keeper>>

-----------------------------------------------------------------------------
(* keepAlive writes a frame every period, until the client is closed.  A   *)
(* write that succeeds changes nothing here.                               *)
KeeperStops ==
  /\ keeper.at = "waiting" /\ closed
  /\ keeper' = At("done", None)
  /\ UNCHANGED <<ws, dialled, openEnd, broken, silent, closed, closing, reader>>

(* A write on a broken socket may still succeed once or twice; when one    *)
(* fails, another look at c.ws tells which socket is dropped.              *)
KeeperWriteFails ==
  /\ keeper.at = "waiting" /\ ~closed /\ ~Usable(ws)
  /\ keeper' = At("failed", None)
  /\ UNCHANGED <<ws, dialled, openEnd, broken, silent, closed, closing, reader>>

(* Mutant: nobody looks whether there is a socket to drop. *)
KeeperLooksUnchecked ==
  /\ keeper.at = "failed"
  /\ keeper' = At("dropping", ws)
  /\ UNCHANGED <<ws, dialled, openEnd, broken, silent, closed, closing, reader>>

KeeperLooks ==
  /\ keeper.at = "failed"
  /\ keeper' = IF closed \/ ws = None THEN At("waiting", None) ELSE At("dropping", ws)
  /\ UNCHANGED <<ws, dialled, openEnd, broken, silent, closed, closing, reader>>

(* Mutant: a failed keep-alive write is ignored. *)
KeeperDropsNothing ==
  /\ keeper.at = "dropping"
  /\ keeper' = At("waiting", None)
  /\ UNCHANGED <<ws, dialled, openEnd, broken, silent, closed, closing, reader>>

KeeperDrops ==
  /\ keeper.at = "dropping"
  /\ DropWS(keeper.sock)
  /\ keeper' = At("waiting", None)
  /\ UNCHANGED <<dialled, broken, silent, closed, closing, reader>>

(* Close first tells the goroutines, then closes the socket it finds.      *)
CloseFlags ==
  /\ closing = "before"
  /\ closed' = TRUE /\ closing' = "flagged"
  /\ UNCHANGED <<ws, dialled, openEnd, broken, silent, reader, keeper>>

(* Mutant: Close forgets the socket without closing it. *)
CloseSocketUnclosed ==
  /\ closing = "flagged"
  /\ closing' = "returned"
  /\ ws' = None
  /\ UNCHANGED <<dialled, openEnd, broken, silent, closed, reader, keeper>>

CloseSocket ==
  /\ closing = "flagged"
  /\ closing' = "returned"
  /\ ws' = None
  /\ openEnd' = openEnd \ {ws}
  /\ UNCHANGED <<dialled, broken, silent, closed, reader, keeper>>

(* The hub closes the socket or restarts, or the network loses it. *)
Breaks(s) ==
  /\ s \in dialled \ broken
  /\ silent' \in {silent, silent \cup {s}}
  /\ broken' = broken \cup {s}
  /\ UNCHANGED <<ws, dialled, openEnd, closed, closing, reader, keeper>>

ReaderStep ==
  \/ ReaderTop \/ ReaderError \/ Reconnect \/ BackoffEnds \/ Publish

KeeperStep == KeeperStops \/ KeeperWriteFails \/ KeeperLooks \/ KeeperDrops

Next ==
  \/ ReaderStep \/ ReaderMessage \/ DialFails
  \/ KeeperStep \/ CloseFlags \/ CloseSocket
  \/ \E s \in Sock : DialSucceeds(s) \/ Breaks(s)

(* Goroutines run, but no message need ever arrive; a client that dials    *)
(* again and again gets through in the end (readWS retries for ever);      *)
(* writes on a broken socket fail in the end (TCP gives up); a started     *)
(* Close finishes.                                                         *)
Fairness ==
  /\ WF_vars(ReaderStep) /\ WF_vars(KeeperStep) /\ WF_vars(CloseSocket)
  /\ SF_vars(\E s \in Sock : DialSucceeds(s))
  /\ WF_vars(DialFails)

Spec == Init /\ [][Next]_vars /\ Fairness

-----------------------------------------------------------------------------
(* A goroutine about to read, publish or close a socket holds one that     *)
(* exists, never nil.                                                      *)
TypeOK ==
  /\ ws \in Sock \cup {None}
  /\ openEnd \subseteq dialled /\ silent \subseteq broken /\ broken \subseteq dialled
  /\ dialled \subseteq Sock
  /\ closed \in BOOLEAN /\ closing \in {"before", "flagged", "returned"}
  /\ reader.at \in {"top", "reading", "reconnect", "dialling", "dialled", "backoff", "done"}
  /\ reader.sock \in (IF reader.at \in {"reading", "dialled"} THEN dialled ELSE {None})
  /\ keeper.at \in {"waiting", "failed", "dropping", "done"}
  /\ keeper.sock \in (IF keeper.at = "dropping" THEN dialled ELSE {None})

(* client/loop_test.go:364 says "Close must clear Connected".              *)
CloseClearsConnected == closing = "returned" => ~Connected

(* A client in use, or being closed, owns only the current socket, one     *)
(* being set up, and ones a goroutine is about to close; a closed one only *)
(* the latter two, so that no redial leaks a connection (dropWS,           *)
(* connectWS, Close).  Excepted is the closed client whose late dial left  *)
(* a socket in c.ws that nobody closes: CloseClearsConnected fails there.  *)
NoSocketLeaks == CloseClearsConnected => openEnd \subseteq {ws, keeper.sock, reader.sock}

(* Close has returned, c.ws is nil and no dial is under way. *)
Shut == closing = "returned" /\ ~Connected /\ reader.at \notin {"dialling", "dialled"}

(* A client that is shut stays so: only a dial that was under way when     *)
(* Close was called can give it a socket again (Close, reconnect, readWS). *)
StaysShut == [][Shut => Shut']_vars

(* Whatever breaks, and however the keep-alive's drop and the reader's     *)
(* redial cross, the client comes back, unless it is closed or ran out of  *)
(* the sockets of this instance (readWS, reconnect, dropWS).               *)
ComesBack ==
  []<>((Connected /\ ws \notin broken) \/ closed \/ dialled = Sock)

(* Close ends the goroutines (c.closed, readWS, keepAlive). *)
CloseEndsGoroutines == closed ~> reader.at = "done" /\ keeper.at = "done"

=============================================================================
