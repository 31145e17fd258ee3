------------------------------ MODULE PathSelect ------------------------------
(***************************************************************************)
(* How one client chooses between the relay and the direct UDP path to a   *)
(* peer, and what the hub shows of it (client/path.go, punchLoop and       *)
(* onPong in client/conn.go; relay/path.go).                               *)
(*                                                                         *)
(* Four goroutines touch a link: the UDP reader, the punch loop, the       *)
(* keep-alive, and the relay reader, which installs a new link.  The path  *)
(* of a link is an atomic value, and notePath is a load, a store and an    *)
(* announcement that loads it again, so they cross at each of these; what  *)
(* was loaded is then on its way to the hub for as long as it takes.  A    *)
(* goroutine keeps the link it found when a newer one replaces it in       *)
(* c.links.  Finding the link and looking at its last pong is one step:    *)
(* nothing reads that of a link that was replaced.                         *)
(*                                                                         *)
(* Abstracted: addresses, pings, and KillUDP, which the tests use to cut   *)
(* the direct path; the two seconds after which a pong is too old and the  *)
(* periods of the loops.  The network decides which pongs arrive.          *)
(*                                                                         *)
(* The pair has one entry in the hub's table, and the other end announces  *)
(* to it as well.  Of that end the model keeps only what may reach the     *)
(* table: any path while there are packets, and, since it runs the same    *)
(* code, the relay alone some time after there are none (FallsBack, which  *)
(* rests on nothing of the hub or of the other end).                       *)
(***************************************************************************)
EXTENDS Naturals

CONSTANTS
  MaxLinks,     \* bound: sessions installed in one behaviour
  MaxAge        \* PathFreshness, in steps of the hub's clock

ASSUME BoundsAssumption == MaxLinks \in Nat /\ MaxAge \in Nat \ {0}

VARIABLES
  link,         \* c.links[peer]: the number of the newest link, 0 if none
  path,         \* l.path
  pong,         \* l.lastPong of the newest link is less than two seconds ago
  lost,         \* the network carries no packet of this pair any more
  at,           \* where each goroutine stands
  heard,        \* the relay socket is connected and the pair is bound
  coming,       \* paths that this end's announcements have loaded and the hub
                \* has not stored
  peer,         \* paths that the other end's announcements may still store
  shown, age    \* the pair's entry in h.paths and how old it is

hubVars == <<heard, coming, peer, shown, age>>
vars == <<link, path, pong, lost, at, hubVars>>

Link == 1..MaxLinks
Path == {"relay", "direct"}
Goroutine == {"readUDP", "punchLoop", "keepAlive", "readWS"}

(* A goroutine is between two iterations, or in notePath or announcePath   *)
(* with a link.                                                            *)
Idle == [step |-> "idle"]
Holding == [step : {"announce"}, link : Link]
  \cup [step : {"compare", "store", "restore"}, link : Link, path : Path]

Init ==
  /\ link = 0 /\ path = [l \in Link |-> "relay"] /\ pong = FALSE
  /\ lost = FALSE
  /\ at = [g \in Goroutine |-> Idle]
  /\ heard = TRUE /\ coming = {} /\ peer = Path
  /\ shown = "none" /\ age = 0

Move(g, place) == at' = [at EXCEPT ![g] = place]

(* An idle goroutine g has found a link and goes to a place with it. *)
Begin(g, place) == link # 0 /\ at[g] = Idle /\ Move(g, place)

-----------------------------------------------------------------------------
(* install publishes a link on the relay path and announces it.            *)
Install ==
  /\ at["readWS"] = Idle
  /\ link < MaxLinks
  /\ link' = link + 1 /\ pong' = FALSE
  /\ Move("readWS", [step |-> "announce", link |-> link + 1])
  /\ UNCHANGED <<path, lost, hubVars>>

(* onPong: a pong leaves the time it came, and the path is direct.         *)
OnPong ==
  /\ ~lost
  /\ Begin("readUDP", [step |-> "compare", link |-> link, path |-> "direct"])
  /\ pong' = TRUE
  /\ UNCHANGED <<link, path, lost, hubVars>>

(* Mutant: the age of the last pong is compared the wrong way round. *)
PunchTickFresh ==
  /\ Begin("punchLoop", [step |-> "compare", link |-> link, path |-> "relay"])
  /\ path[link] = "direct" /\ pong
  /\ UNCHANGED <<link, path, pong, lost, hubVars>>

(* punchLoop: a tick that finds the path direct and the last pong too old  *)
(* leaves the direct path; any other tick changes nothing.                 *)
PunchTick ==
  /\ Begin("punchLoop", [step |-> "compare", link |-> link, path |-> "relay"])
  /\ path[link] = "direct" /\ ~pong
  /\ UNCHANGED <<link, path, pong, lost, hubVars>>

(* Mutants: the keep-alive announces a link there is not, or nothing.      *)
KeepAliveNil ==
  /\ at["keepAlive"] = Idle
  /\ Move("keepAlive", [step |-> "announce", link |-> link])
  /\ UNCHANGED <<link, path, pong, lost, hubVars>>

KeepAliveQuiet == at["keepAlive"] = Idle /\ UNCHANGED vars

(* The keep-alive announces the path again every period. *)
KeepAlive ==
  /\ Begin("keepAlive", [step |-> "announce", link |-> link])
  /\ UNCHANGED <<link, path, pong, lost, hubVars>>

-----------------------------------------------------------------------------
(* notePath: is this a change? ...                                         *)
Compare(g) ==
  /\ at[g].step = "compare"
  /\ Move(g, [at[g] EXCEPT !.step = IF path[at[g].link] # at[g].path THEN "store" ELSE "restore"])
  /\ UNCHANGED <<link, path, pong, lost, hubVars>>

(* ... the path is stored in any case, ...                                 *)
StorePath(g) ==
  /\ at[g].step \in {"store", "restore"}
  /\ path' = [path EXCEPT ![at[g].link] = at[g].path]
  /\ Move(g, IF at[g].step = "store" THEN [step |-> "announce", link |-> at[g].link] ELSE Idle)
  /\ UNCHANGED <<link, pong, lost, hubVars>>

(* ... and if it was one, announcePath loads the path again and writes it  *)
(* to the relay socket, for a handler of the hub to read.                  *)
Announce(g) ==
  /\ at[g].step = "announce"
  /\ coming' = coming \cup {path[at[g].link]}
  /\ Move(g, Idle)
  /\ UNCHANGED <<link, path, pong, lost, heard, peer, shown, age>>

(* It is lost when there is no socket, with a socket that drops, or when   *)
(* the hub finds the pair unbound.                                         *)
AnnouncementLost(p) ==
  /\ p \in coming /\ ~heard
  /\ coming' = coming \ {p}
  /\ UNCHANGED <<link, path, pong, lost, at, heard, peer, shown, age>>

(* observePath of this end's announcements: goroutines of the client and   *)
(* handlers of an old and a new socket get there in any order.  A handler  *)
(* takes the time before it takes the lock, so the entry may be old when   *)
(* it is stored, as if the hub's clock ticked at once.  Of several that    *)
(* say the same the last leaves none coming.                               *)
ObservePath(p) ==
  /\ p \in coming
  /\ shown' = p /\ age' = 0
  /\ coming' \in {coming, coming \ {p}}
  /\ UNCHANGED <<link, path, pong, lost, at, heard, peer>>

(* ... and of the other end's.                                             *)
ObservePeer(p) ==
  /\ p \in peer
  /\ shown' = p /\ age' = 0
  /\ UNCHANGED <<link, path, pong, lost, at, heard, coming, peer>>

-----------------------------------------------------------------------------
(* Two seconds without a pong. *)
PongAges ==
  /\ pong
  /\ pong' = FALSE
  /\ UNCHANGED <<link, path, lost, at, hubVars>>

(* The direct path stops working for good. *)
PathBreaks ==
  /\ ~lost
  /\ lost' = TRUE
  /\ UNCHANGED <<link, path, pong, at, hubVars>>

(* The relay socket drops or is back; the host revokes the binding or the  *)
(* pair is bound again.                                                    *)
HearingChanges ==
  /\ heard' = ~heard
  /\ UNCHANGED <<link, path, pong, lost, at, coming, peer, shown, age>>

(* The other end changes its path, and changes it to direct only while the *)
(* network carries its packets.                                            *)
PeerChanges ==
  /\ peer' \in (SUBSET Path) \ {{}, peer}
  /\ lost => peer' \subseteq peer \cup {"relay"}
  /\ UNCHANGED <<link, path, pong, lost, at, heard, coming, shown, age>>

PeerFallsBack ==
  /\ lost /\ "direct" \in peer
  /\ peer' = {"relay"}
  /\ UNCHANGED <<link, path, pong, lost, at, heard, coming, shown, age>>

(* The hub's clock. *)
HubTick ==
  /\ shown # "none" /\ age < MaxAge
  /\ age' = age + 1
  /\ UNCHANGED <<link, path, pong, lost, at, heard, coming, peer, shown>>

(* Mutant: an entry is shown however old it is. *)
LinkPathForever == shown

(* What the hub answers for the pair: nothing when the entry is too old.   *)
LinkPath == IF age < MaxAge THEN shown ELSE "none"

-----------------------------------------------------------------------------
NotePath(g) == Compare(g) \/ StorePath(g) \/ Announce(g)

Next ==
  \/ Install \/ OnPong \/ PunchTick \/ KeepAlive
  \/ \E g \in Goroutine : NotePath(g)
  \/ \E p \in Path : AnnouncementLost(p) \/ ObservePath(p) \/ ObservePeer(p)
  \/ PongAges \/ PathBreaks \/ HearingChanges \/ PeerChanges \/ PeerFallsBack \/ HubTick

(* Goroutines run and their tickers tick, what is not lost on its way is   *)
(* stored, the hub's clock runs, and without packets the last pong grows   *)
(* old and the other end, which runs the same code, falls back.  No packet *)
(* need arrive, the socket need not come back, and the other end need not  *)
(* announce anything.                                                      *)
Fairness ==
  /\ \A g \in Goroutine : WF_vars(NotePath(g))
  /\ WF_vars(PunchTick) /\ WF_vars(KeepAlive) /\ WF_vars(HubTick)
  /\ \A p \in Path : WF_vars(ObservePath(p) /\ p \notin coming')
  /\ WF_vars(lost /\ PongAges) /\ WF_vars(PeerFallsBack)

Spec == Init /\ [][Next]_vars /\ Fairness

-----------------------------------------------------------------------------
(* A goroutine holds a link that was installed, never nil, and the hub     *)
(* stores one of the two paths.                                            *)
TypeOK ==
  /\ link \in 0..MaxLinks /\ path \in [Link -> Path]
  /\ pong \in BOOLEAN /\ lost \in BOOLEAN /\ heard \in BOOLEAN
  /\ at \in [Goroutine -> {Idle} \cup {h \in Holding : h.link <= link}]
  /\ coming \subseteq Path /\ peer \in (SUBSET Path) \ {{}}
  /\ shown \in Path \cup {"none"} /\ age \in 0..MaxAge

(* Once the direct path is dead the link in use falls back to the relay    *)
(* and stays there, also when a last pong is still being handled while the *)
(* punch loop gives the path up (onPong, punchLoop, notePath).             *)
FallsBack == lost ~> [](link # 0 => path[link] = "relay")

(* The hub stops calling a dead path direct, whichever end said so last,   *)
(* whether its socket comes back or not and however late its handler       *)
(* stores what it has read (announceLinks, observePath, PathFreshness).    *)
NeverDirectForEver == lost ~> [](LinkPath # "direct")

(* While the two ends stay on one path and the hub hears this one, the     *)
(* hub's entry becomes that path and stays so, although announcements of   *)
(* two goroutines, of a replaced link, of two sockets or of two ends may   *)
(* be stored in the wrong order, or have been lost with an earlier socket  *)
(* (notePath, keepAlive, observePath).  While the ends differ the entry    *)
(* may go back and forth (docs/PROTOCOL.md line 205).                      *)
HubAgrees ==
  \A p \in Path :
    <>[](heard /\ link # 0 /\ path[link] = p /\ peer = {p}) => <>[](shown = p)

=============================================================================
