-------------------------- MODULE PathSelectProofs --------------------------
(***************************************************************************)
(* The choice of a path, for any number of sessions and any freshness.     *)
(*                                                                         *)
(* Besides its type, the safety halves of the liveness properties are      *)
(* proved. A link in use that has fallen back when the direct path was     *)
(* dead stays on the relay, the hub that has forgotten such a path does    *)
(* not show it again, and what the hub shows of a pair whose ends keep one *)
(* path it goes on showing, although goroutines that still hold older      *)
(* links go on writing and announcing paths.                               *)
(* They need two facts which the type does not give: no goroutine holds a  *)
(* link that is not installed yet, and such a link is on the relay.        *)
(***************************************************************************)
EXTENDS PathSelect, TLAPS

(* Sessions to come start on the relay. *)
NewLinksRelayed == \A l \in Link : l > link => path[l] = "relay"

IInv == TypeOK /\ NewLinksRelayed

(* The direct path is dead, the link in use is on the relay, and nobody is *)
(* about to store another path for it.                                     *)
FallenBack ==
  /\ lost
  /\ link # 0 => path[link] = "relay"
  /\ \A g \in Goroutine :
       at[g].step \in {"compare", "store", "restore"} /\ at[g].link = link => at[g].path = "relay"

(* The places of a goroutine when n links are installed. *)
PlaceOf(n) == {Idle} \cup {h \in Holding : h.link <= n}

-----------------------------------------------------------------------------
(* What a goroutine has in its hands, by where it stands. *)
LEMMA Places ==
  ASSUME NEW n, NEW p \in PlaceOf(n)
  PROVE  /\ p.step \in {"announce", "compare", "store", "restore"} => p.link \in Link /\ p.link <= n
         /\ p.step \in {"compare", "store", "restore"} => p.path \in Path
         /\ p.step \in {"idle", "announce", "compare", "store", "restore"}
BY DEF PlaceOf, Idle, Holding

(* The places a goroutine can go to. *)
LEMMA NewPlaces ==
  ASSUME NEW n \in 0..MaxLinks
  PROVE  /\ Idle \in PlaceOf(n)
         /\ \A l \in Link : l <= n => [step |-> "announce", link |-> l] \in PlaceOf(n)
         /\ \A m \in 0..MaxLinks : n <= m => PlaceOf(n) \subseteq PlaceOf(m)
BY BoundsAssumption DEF PlaceOf, Idle, Holding, Link

(* The places in notePath before the announcement. *)
LEMMA NotingPlaces ==
  ASSUME NEW n, NEW l \in Link, l <= n, NEW p \in Path, NEW s \in {"compare", "store", "restore"}
  PROVE  [step |-> s, link |-> l, path |-> p] \in PlaceOf(n)
BY DEF PlaceOf, Holding

(* A goroutine that moves goes to one place and the others stay. *)
LEMMA MoveOne ==
  ASSUME NEW n \in 0..MaxLinks, NEW g \in Goroutine, NEW p \in PlaceOf(n), Move(g, p),
         at \in [Goroutine -> PlaceOf(link)], link <= n, link \in 0..MaxLinks
  PROVE  /\ at' \in [Goroutine -> PlaceOf(n)]
         /\ at'[g] = p
         /\ \A h \in Goroutine : h # g => at'[h] = at[h]
BY NewPlaces DEF Move

-----------------------------------------------------------------------------
(* The link in a comparison keeps its path value when it goes on to store. *)
LEMMA CompareGoesOn ==
  ASSUME NEW p \in Holding, NEW s \in {"store", "restore"}, p.step = "compare"
  PROVE  [p EXCEPT !.step = s] = [step |-> s, link |-> p.link, path |-> p.path]
BY DEF Holding

(* At the start there is no link, and everything is idle. *)
LEMMA InitIInv == Init => IInv
<1> SUFFICES ASSUME Init PROVE IInv
  OBVIOUS
<1>1. link = 0 /\ path = [l \in Link |-> "relay"] /\ shown = "none" /\ age = 0
  BY DEF Init
<1>2. /\ pong \in BOOLEAN /\ lost \in BOOLEAN /\ heard \in BOOLEAN
      /\ coming \subseteq Path /\ peer \in (SUBSET Path) \ {{}}
  BY DEF Init, Path
<1>3. at \in [Goroutine -> PlaceOf(link)]
  <2>1. 0 \in 0..MaxLinks
    BY BoundsAssumption
  <2>2. Idle \in PlaceOf(0)
    BY <2>1, NewPlaces
  <2> QED
    BY <1>1, <2>2 DEF Init
<1>4. TypeOK
  BY <1>1, <1>2, <1>3, BoundsAssumption DEF TypeOK, Path, PlaceOf
<1> QED
  BY <1>1, <1>4 DEF IInv, NewLinksRelayed

(* A step that moves one goroutine between places of the links there are,  *)
(* and leaves the links alone, keeps the type and the new links.           *)
LEMMA MoveKeeps ==
  ASSUME IInv, NEW g \in Goroutine, NEW p \in PlaceOf(link), Move(g, p),
         UNCHANGED <<link, path, lost, heard, peer, shown, age>>, pong' \in BOOLEAN,
         coming' \subseteq Path
  PROVE  IInv'
<1>1. at' \in [Goroutine -> PlaceOf(link)]
  BY MoveOne, BoundsAssumption DEF IInv, TypeOK, PlaceOf
<1>2. TypeOK'
  BY <1>1 DEF IInv, TypeOK, PlaceOf
<1> QED
  BY <1>2 DEF IInv, NewLinksRelayed

(* Every step of a goroutine, the network and the hub keeps the held links *)
(* among the installed ones, and the others on the relay.                  *)
LEMMA StepIInv == IInv /\ [Next]_vars => IInv'
<1> SUFFICES ASSUME IInv, [Next]_vars PROVE IInv'
  OBVIOUS
<1>0. /\ link \in 0..MaxLinks /\ path \in [Link -> Path]
      /\ at \in [Goroutine -> PlaceOf(link)]
      /\ coming \subseteq Path /\ peer \in (SUBSET Path) \ {{}}
      /\ shown \in Path \cup {"none"} /\ age \in 0..MaxAge
      /\ MaxLinks \in Nat /\ MaxAge \in Nat
      /\ link # 0 => link \in Link
  BY BoundsAssumption DEF IInv, TypeOK, PlaceOf, Link
<1>b. pong \in BOOLEAN /\ lost \in BOOLEAN /\ heard \in BOOLEAN
  BY DEF IInv, TypeOK
<1>n. NewLinksRelayed
  BY DEF IInv
<1>1. CASE UNCHANGED vars
  BY <1>1 DEF vars, hubVars, IInv, TypeOK, NewLinksRelayed
<1>2. CASE Install
  <2>1. /\ link' = link + 1 /\ link' \in 0..MaxLinks /\ link' \in Link
        /\ Move("readWS", [step |-> "announce", link |-> link'])
        /\ UNCHANGED <<path, coming, peer, shown, age>>
    BY <1>0, <1>2 DEF Install, hubVars, Link
  <2>2. at' \in [Goroutine -> PlaceOf(link')]
    BY <1>0, <2>1, MoveOne, NewPlaces DEF Goroutine
  <2>3. pong' \in BOOLEAN /\ lost' \in BOOLEAN /\ heard' \in BOOLEAN
    BY <1>b, <1>2 DEF Install, hubVars
  <2>4. NewLinksRelayed'
    BY <1>0, <1>n, <2>1 DEF NewLinksRelayed, Link
  <2> QED
    BY <1>0, <2>1, <2>2, <2>3, <2>4 DEF IInv, TypeOK, PlaceOf
<1>3. CASE OnPong
  <2>1. link \in Link /\ pong' \in BOOLEAN /\ UNCHANGED <<link, path, lost, hubVars>>
    BY <1>0, <1>3 DEF OnPong, Begin
  <2>2. [step |-> "compare", link |-> link, path |-> "direct"] \in PlaceOf(link)
    <3>1. link <= link
      BY <1>0
    <3> QED
      BY <2>1, <3>1, NotingPlaces DEF Path
  <2> QED
    BY <1>0, <1>3, <2>1, <2>2, MoveKeeps DEF OnPong, Begin, Goroutine, hubVars
<1>4. CASE PunchTick
  <2>1. link \in Link /\ UNCHANGED <<link, path, pong, lost, hubVars>>
    BY <1>0, <1>4 DEF PunchTick, Begin
  <2>2. [step |-> "compare", link |-> link, path |-> "relay"] \in PlaceOf(link)
    <3>1. link <= link
      BY <1>0
    <3> QED
      BY <2>1, <3>1, NotingPlaces DEF Path
  <2> QED
    BY <1>0, <1>b, <1>4, <2>1, <2>2, MoveKeeps DEF PunchTick, Begin, Goroutine, hubVars
<1>5. CASE KeepAlive
  <2>1. link \in Link /\ UNCHANGED <<link, path, pong, lost, hubVars>>
    BY <1>0, <1>5 DEF KeepAlive, Begin
  <2>2. [step |-> "announce", link |-> link] \in PlaceOf(link)
    BY <1>0, <2>1, NewPlaces
  <2> QED
    BY <1>0, <1>b, <1>5, <2>1, <2>2, MoveKeeps DEF KeepAlive, Begin, Goroutine, hubVars
<1>6. ASSUME NEW g \in Goroutine, Compare(g) PROVE IInv'
  <2>1. at[g] \in PlaceOf(link) /\ at[g].step = "compare"
    BY <1>0, <1>6 DEF Compare
  <2>2. at[g] \in Holding /\ at[g].link \in Link /\ at[g].link <= link /\ at[g].path \in Path
    BY <2>1, Places DEF PlaceOf, Idle
  <2>3. \A s \in {"store", "restore"} : [at[g] EXCEPT !.step = s] \in PlaceOf(link)
    <3>1. ASSUME NEW s \in {"store", "restore"} PROVE [at[g] EXCEPT !.step = s] \in PlaceOf(link)
      <4>1. [at[g] EXCEPT !.step = s] = [step |-> s, link |-> at[g].link, path |-> at[g].path]
        BY <2>1, <2>2, CompareGoesOn
      <4>2. [step |-> s, link |-> at[g].link, path |-> at[g].path] \in PlaceOf(link)
        BY <2>2, NotingPlaces
      <4> QED
        BY <4>1, <4>2
    <3> QED
      BY <3>1
  <2>4. PICK p \in PlaceOf(link) : Move(g, p)
    BY <1>6, <2>3 DEF Compare
  <2> QED
    BY <1>0, <1>b, <1>6, <2>4, MoveKeeps DEF Compare, hubVars
<1>7. ASSUME NEW g \in Goroutine, StorePath(g) PROVE IInv'
  <2>1. at[g] \in PlaceOf(link) /\ at[g].step \in {"store", "restore"}
    BY <1>0, <1>7 DEF StorePath
  <2>2. at[g].link \in Link /\ at[g].link <= link /\ at[g].path \in Path
    BY <2>1, Places
  <2>3. PICK p \in PlaceOf(link) : Move(g, p)
    BY <1>0, <1>7, <2>2, NewPlaces DEF StorePath
  <2>4. path' = [path EXCEPT ![at[g].link] = at[g].path] /\ UNCHANGED <<link, pong, lost, hubVars>>
    BY <1>7 DEF StorePath
  <2>5. at' \in [Goroutine -> PlaceOf(link)]
    BY <1>0, <2>3, MoveOne
  <2>6. path' \in [Link -> Path]
    BY <1>0, <2>2, <2>4
  <2>7. \A l \in Link : l > link => l # at[g].link
    BY <1>0, <2>2 DEF Link
  <2>8. \A l \in Link : l > link => path'[l] = path[l]
    BY <1>0, <2>4, <2>7
  <2> QED
    BY <1>0, <1>b, <1>n, <2>4, <2>5, <2>6, <2>8 DEF IInv, TypeOK, PlaceOf, NewLinksRelayed, hubVars
<1>8. ASSUME NEW g \in Goroutine, Announce(g) PROVE IInv'
  <2>1. at[g] \in PlaceOf(link) /\ at[g].step = "announce"
    BY <1>0, <1>8 DEF Announce
  <2>2. path[at[g].link] \in Path
    BY <1>0, <2>1, Places
  <2>3. Idle \in PlaceOf(link)
    BY <1>0, NewPlaces
  <2>4. coming' \subseteq Path
    BY <1>0, <1>8, <2>2 DEF Announce
  <2> QED
    BY <1>0, <1>b, <1>8, <2>3, <2>4, MoveKeeps DEF Announce
<1>9. ASSUME NEW p \in Path, AnnouncementLost(p) \/ ObservePath(p) \/ ObservePeer(p) PROVE IInv'
  <2>1. /\ coming' \subseteq Path /\ shown' \in Path \cup {"none"} /\ age' \in 0..MaxAge
        /\ UNCHANGED <<link, path, at, peer>>
    BY <1>0, <1>9 DEF AnnouncementLost, ObservePath, ObservePeer
  <2>2. UNCHANGED <<pong, lost, heard>>
    BY <1>9 DEF AnnouncementLost, ObservePath, ObservePeer
  <2> QED
    BY <1>0, <1>b, <1>n, <2>1, <2>2 DEF IInv, TypeOK, PlaceOf, NewLinksRelayed
<1>10. CASE PongAges \/ PathBreaks \/ HearingChanges \/ PeerChanges \/ PeerFallsBack
  <2>1. pong' \in BOOLEAN /\ lost' \in BOOLEAN /\ heard' \in BOOLEAN
    BY <1>b, <1>10 DEF PongAges, PathBreaks, HearingChanges, PeerChanges, PeerFallsBack, hubVars
  <2>2. UNCHANGED <<link, path, at, coming, shown, age>>
    BY <1>10 DEF PongAges, PathBreaks, HearingChanges, PeerChanges, PeerFallsBack, hubVars
  <2>3. peer' \in (SUBSET Path) \ {{}}
    BY <1>0, <1>10 DEF PongAges, PathBreaks, HearingChanges, PeerChanges, PeerFallsBack, hubVars, Path
  <2> QED
    BY <1>0, <1>n, <2>1, <2>2, <2>3 DEF IInv, TypeOK, PlaceOf, NewLinksRelayed
<1>11. CASE HubTick
  BY <1>0, <1>b, <1>n, <1>11 DEF HubTick, IInv, TypeOK, PlaceOf, NewLinksRelayed
<1> QED
  BY <1>1, <1>2, <1>3, <1>4, <1>5, <1>6, <1>7, <1>8, <1>9, <1>10, <1>11 DEF Next, NotePath

(* IInv holds in every reachable state. *)
LEMMA Invariance == Spec => []IInv
BY InitIInv, StepIInv, PTL DEF Spec

(* No goroutine holds a link that was never installed, and the hub shows   *)
(* one of the two paths or none (install, notePath, announcePath).         *)
THEOREM TypeCorrect == Spec => []TypeOK
<1>1. IInv => TypeOK
  BY DEF IInv
<1> QED
  BY <1>1, Invariance, PTL

-----------------------------------------------------------------------------
(* Once the link in use has fallen back from a dead path, no step of any   *)
(* goroutine, whichever links they hold, moves it off the relay.           *)
LEMMA FallenBackStep == IInv /\ FallenBack /\ [Next]_vars => FallenBack'
<1> SUFFICES ASSUME IInv, FallenBack, [Next]_vars PROVE FallenBack'
  OBVIOUS
<1>0. /\ link \in 0..MaxLinks /\ path \in [Link -> Path]
      /\ at \in [Goroutine -> PlaceOf(link)]
      /\ MaxLinks \in Nat /\ NewLinksRelayed
      /\ lost /\ (link # 0 => link \in Link)
  BY BoundsAssumption DEF IInv, TypeOK, PlaceOf, FallenBack, Link
<1>1. CASE UNCHANGED <<link, path, lost, at>>
  BY <1>1 DEF FallenBack
<1>2. ASSUME NEW g \in Goroutine, NEW p, Move(g, p), UNCHANGED <<link, path, lost>>,
             p.step \in {"compare", "store", "restore"} /\ p.link = link => p.path = "relay"
      PROVE  FallenBack'
  BY <1>0, <1>2 DEF Move, FallenBack
<1>3. CASE Install
  <2>1. /\ link' = link + 1 /\ link' \in Link /\ lost' /\ path' = path
        /\ Move("readWS", [step |-> "announce", link |-> link'])
    BY <1>0, <1>3 DEF Install, Link
  <2>2. path'[link'] = "relay"
    BY <1>0, <2>1 DEF NewLinksRelayed
  <2>3. \A g \in Goroutine : at[g].step \in {"compare", "store", "restore"} => at[g].link # link'
    BY <1>0, <2>1, Places DEF Link
  <2>4. \A g \in Goroutine :
          at'[g].step \in {"compare", "store", "restore"} => at'[g].link # link'
    BY <1>0, <2>1, <2>3 DEF Move
  <2> QED
    BY <2>1, <2>2, <2>4 DEF FallenBack
<1>4. CASE PunchTick \/ KeepAlive
  BY <1>2, <1>4 DEF PunchTick, KeepAlive, Begin, Goroutine
<1>5. ASSUME NEW g \in Goroutine, Compare(g) PROVE FallenBack'
  <2>1. at[g] \in PlaceOf(link) /\ at[g].step = "compare"
    BY <1>0, <1>5 DEF Compare
  <2>2. at[g] \in Holding
    BY <2>1 DEF PlaceOf, Idle
  <2>3. at[g].link = link => at[g].path = "relay"
    BY <2>1 DEF FallenBack
  <2>4. PICK s \in {"store", "restore"} : Move(g, [at[g] EXCEPT !.step = s])
    BY <1>5 DEF Compare
  <2>5. [at[g] EXCEPT !.step = s] = [step |-> s, link |-> at[g].link, path |-> at[g].path]
    BY <2>1, <2>2, CompareGoesOn
  <2>6. PICK p : Move(g, p) /\ (p.link = link => p.path = "relay")
    BY <2>3, <2>4, <2>5
  <2>7. UNCHANGED <<link, path, lost>>
    BY <1>5 DEF Compare
  <2> QED
    BY <1>2, <2>6, <2>7
<1>6. ASSUME NEW g \in Goroutine, StorePath(g) PROVE FallenBack'
  <2>1. at[g] \in PlaceOf(link) /\ at[g].step \in {"store", "restore"}
    BY <1>0, <1>6 DEF StorePath
  <2>2. at[g].link \in Link /\ (at[g].link = link => at[g].path = "relay")
    BY <2>1, Places DEF FallenBack
  <2>3. path' = [path EXCEPT ![at[g].link] = at[g].path] /\ UNCHANGED <<link, lost>>
    BY <1>6 DEF StorePath
  <2>4. link # 0 => path'[link] = "relay"
    BY <1>0, <2>2, <2>3 DEF FallenBack
  <2>5. PICK p : Move(g, p) /\ p.step \notin {"compare", "store", "restore"}
    BY <1>6 DEF StorePath, Idle
  <2> QED
    BY <1>0, <2>3, <2>4, <2>5 DEF Move, FallenBack
<1>7. ASSUME NEW g \in Goroutine, Announce(g) PROVE FallenBack'
  BY <1>2, <1>7 DEF Announce, Idle
<1>8. ASSUME NEW p \in Path, AnnouncementLost(p) \/ ObservePath(p) \/ ObservePeer(p) PROVE FallenBack'
  BY <1>1, <1>8 DEF AnnouncementLost, ObservePath, ObservePeer
<1>9. ~OnPong
  BY <1>0 DEF OnPong
<1>10. PongAges \/ PathBreaks \/ HearingChanges \/ PeerChanges \/ PeerFallsBack \/ HubTick
         \/ UNCHANGED vars
         => UNCHANGED <<link, path, lost, at>>
  BY <1>0 DEF PongAges, PathBreaks, HearingChanges, PeerChanges, PeerFallsBack, HubTick, vars
<1> QED
  BY <1>1, <1>3, <1>4, <1>5, <1>6, <1>7, <1>8, <1>9, <1>10 DEF Next, NotePath

(* The safety half of FallsBack: a link that is on the relay once the      *)
(* direct path is dead, with nobody about to say otherwise, stays there,   *)
(* also through a last pong's notePath for a link that was replaced        *)
(* (onPong, punchLoop, notePath, install).                                 *)
THEOREM FallBackLasts == Spec => [](FallenBack => [](link # 0 => path[link] = "relay"))
<1>1. FallenBack => (link # 0 => path[link] = "relay")
  BY DEF FallenBack
<1> QED
  BY <1>1, FallenBackStep, Invariance, PTL DEF Spec

-----------------------------------------------------------------------------
(* The direct path is dead, the hub does not call the pair direct, the     *)
(* other end does not either, and nobody holds what could make it.         *)
DirectForgotten ==
  /\ FallenBack /\ LinkPath # "direct"
  /\ coming \subseteq {"relay"} /\ peer = {"relay"}
  /\ \A g \in Goroutine :
       /\ at[g].step \in {"compare", "store", "restore"} => at[g].path = "relay"
       /\ at[g].step = "announce" => path[at[g].link] = "relay"

(* Nobody brings a dead direct path back: what a goroutine can come to     *)
(* hold is the link in use, which is on the relay.                         *)
LEMMA ForgottenStep == IInv /\ DirectForgotten /\ [Next]_vars => DirectForgotten'
<1> SUFFICES ASSUME IInv, DirectForgotten, [Next]_vars PROVE DirectForgotten'
  OBVIOUS
<1> DEFINE Fine(p) == /\ p.step \in {"compare", "store", "restore"} => p.path = "relay"
                      /\ p.step = "announce" => path[p.link] = "relay"
<1>0. /\ link \in 0..MaxLinks /\ path \in [Link -> Path]
      /\ at \in [Goroutine -> PlaceOf(link)]
      /\ MaxLinks \in Nat /\ NewLinksRelayed /\ lost
      /\ link # 0 => link \in Link /\ path[link] = "relay"
      /\ coming \subseteq {"relay"} /\ peer = {"relay"}
      /\ \A g \in Goroutine : Fine(at[g])
  BY BoundsAssumption DEF IInv, TypeOK, PlaceOf, DirectForgotten, FallenBack, Link
<1>1. FallenBack'
  BY FallenBackStep DEF DirectForgotten
<1>2. ASSUME NEW g \in Goroutine, NEW p, Move(g, p), Fine(p), UNCHANGED <<path, peer>>,
             coming' \subseteq {"relay"}, LinkPath' # "direct"
      PROVE  DirectForgotten'
  BY <1>0, <1>1, <1>2 DEF Move, DirectForgotten
<1>3. UNCHANGED <<shown, age>> => LinkPath' # "direct"
  BY DEF DirectForgotten, LinkPath
<1>4. CASE /\ UNCHANGED <<path, at>> /\ LinkPath' # "direct"
           /\ coming' \subseteq {"relay"} /\ peer' = {"relay"}
  BY <1>0, <1>1, <1>4 DEF DirectForgotten
<1>5. CASE Install
  <2>1. link + 1 \in Link /\ path[link + 1] = "relay"
    BY <1>0, <1>5 DEF Install, NewLinksRelayed, Link
  <2> QED
    BY <1>0, <1>2, <1>3, <1>5, <2>1 DEF Install, hubVars, Goroutine
<1>6. CASE KeepAlive
  BY <1>0, <1>2, <1>3, <1>6 DEF KeepAlive, Begin, hubVars, Goroutine
<1>7. ASSUME NEW g \in Goroutine, Compare(g) PROVE DirectForgotten'
  <2>1. at[g] \in PlaceOf(link) /\ at[g].step = "compare" /\ Fine(at[g])
    BY <1>0, <1>7 DEF Compare
  <2>2. at[g] \in Holding /\ at[g].path = "relay"
    BY <2>1 DEF PlaceOf, Idle
  <2>3. PICK s \in {"store", "restore"} : Move(g, [at[g] EXCEPT !.step = s])
    BY <1>7 DEF Compare
  <2>4. [at[g] EXCEPT !.step = s] = [step |-> s, link |-> at[g].link, path |-> at[g].path]
    BY <2>1, <2>2, CompareGoesOn
  <2>5. Fine([at[g] EXCEPT !.step = s])
    BY <2>2, <2>4
  <2> QED
    BY <1>0, <1>2, <1>3, <1>7, <2>3, <2>5 DEF Compare, hubVars
<1>8. ASSUME NEW g \in Goroutine, StorePath(g) PROVE DirectForgotten'
  <2>1. at[g] \in PlaceOf(link) /\ at[g].step \in {"store", "restore"} /\ at[g].path = "relay"
    BY <1>0, <1>8 DEF StorePath
  <2>2. at[g].link \in Link
    BY <2>1, Places
  <2>3. /\ path' = [path EXCEPT ![at[g].link] = "relay"] /\ LinkPath' # "direct"
        /\ UNCHANGED <<coming, peer>>
    BY <1>3, <1>8, <2>1 DEF StorePath, hubVars
  <2>4. \A l \in Link : path[l] = "relay" => path'[l] = "relay"
    BY <1>0, <2>3
  <2>5. PICK p : Move(g, p) /\ (p = Idle \/ p = [step |-> "announce", link |-> at[g].link])
    BY <1>8 DEF StorePath
  <2>6. path'[at[g].link] = "relay"
    BY <1>0, <2>2, <2>3
  <2>7. ASSUME NEW h \in Goroutine
        PROVE  /\ at'[h].step \in {"compare", "store", "restore"} => at'[h].path = "relay"
               /\ at'[h].step = "announce" => path'[at'[h].link] = "relay"
    <3>1. CASE h = g
      <4>1. at'[h] = p
        BY <1>0, <2>5, <3>1 DEF Move
      <4> QED
        BY <2>5, <2>6, <4>1 DEF Idle
    <3>2. CASE h # g
      <4>1. at'[h] = at[h] /\ at[h] \in PlaceOf(link) /\ Fine(at[h])
        BY <1>0, <2>5, <3>2 DEF Move
      <4>2. at[h].step = "announce" => at[h].link \in Link
        BY <4>1, Places
      <4> QED
        BY <2>4, <4>1, <4>2
    <3> QED
      BY <3>1, <3>2
  <2> QED
    BY <1>0, <1>1, <2>3, <2>7 DEF DirectForgotten
<1>9. ASSUME NEW g \in Goroutine, Announce(g) PROVE DirectForgotten'
  <2>1. coming' \subseteq {"relay"} /\ Fine(Idle)
    BY <1>0, <1>9 DEF Announce, Idle
  <2> QED
    BY <1>2, <1>3, <1>9, <2>1 DEF Announce
<1>10. ASSUME NEW p \in Path, AnnouncementLost(p) \/ ObservePath(p) \/ ObservePeer(p)
       PROVE  DirectForgotten'
  <2>1. /\ UNCHANGED <<path, at, peer>> /\ coming' \subseteq coming
        /\ shown' = "relay" \/ UNCHANGED <<shown, age>>
    BY <1>0, <1>10 DEF AnnouncementLost, ObservePath, ObservePeer
  <2>2. LinkPath' # "direct"
    BY <1>3, <2>1 DEF LinkPath
  <2> QED
    BY <1>0, <1>4, <2>1, <2>2
<1>11. CASE HubTick
  <2>1. shown # "direct"
    BY <1>11 DEF HubTick, DirectForgotten, LinkPath
  <2>2. LinkPath' # "direct"
    BY <1>11, <2>1 DEF HubTick, LinkPath
  <2> QED
    BY <1>0, <1>4, <1>11, <2>2 DEF HubTick
<1>12. ~ OnPong /\ ~ PunchTick /\ ~ PeerFallsBack
  BY <1>0 DEF OnPong, PunchTick, Begin, PeerFallsBack
<1>13. CASE PongAges \/ PathBreaks \/ HearingChanges \/ PeerChanges \/ UNCHANGED vars
  <2>1. UNCHANGED <<path, at, coming, shown, age>> /\ peer' = {"relay"}
    BY <1>0, <1>13 DEF PongAges, PathBreaks, HearingChanges, PeerChanges, vars, hubVars
  <2> QED
    BY <1>0, <1>3, <1>4, <2>1
<1> QED
  BY <1>5, <1>6, <1>7, <1>8, <1>9, <1>10, <1>11, <1>12, <1>13 DEF Next, NotePath

(* The safety half of NeverDirectForEver: once the hub has stopped calling *)
(* a dead path direct and the last word of it, of either end, has been     *)
(* stored or lost, no announcement of any link, new or replaced, makes the *)
(* hub call it so again (announcePath, observePath, LinkPath).             *)
THEOREM HubForgetsDirect == Spec => [](DirectForgotten => [](LinkPath # "direct"))
<1>1. DirectForgotten => LinkPath # "direct"
  BY DEF DirectForgotten
<1> QED
  BY <1>1, ForgottenStep, Invariance, PTL DEF Spec

-----------------------------------------------------------------------------
(* The link in use is n and both ends are on path p, ... *)
InUse(n, p) == link = n /\ path[n] = p /\ peer = {p}

(* ... and so says the hub; nobody holds an older link, and no other path  *)
(* is on its way to the hub.                                               *)
Agreed(n, p) ==
  /\ InUse(n, p) /\ shown = p /\ coming \subseteq {p}
  /\ \A g \in Goroutine :
       at[g].step \in {"announce", "compare", "store", "restore"} => at[g].link = n

(* While both ends keep their path every announcement says it again. *)
LEMMA AgreedStep ==
  ASSUME NEW n \in Link, NEW p \in Path
  PROVE  IInv /\ Agreed(n, p) /\ InUse(n, p)' /\ [Next]_vars => Agreed(n, p)'
<1> SUFFICES ASSUME IInv, Agreed(n, p), InUse(n, p)', [Next]_vars PROVE Agreed(n, p)'
  OBVIOUS
<1> DEFINE Fine(q) == q.step \in {"announce", "compare", "store", "restore"} => q.link = n
<1>0. /\ at \in [Goroutine -> PlaceOf(link)] /\ link = n /\ path[n] = p /\ shown = p
      /\ coming \subseteq {p} /\ peer = {p}
      /\ \A g \in Goroutine : Fine(at[g])
  BY DEF IInv, TypeOK, PlaceOf, Agreed, InUse
<1>1. ASSUME NEW g \in Goroutine, NEW q, Move(g, q), Fine(q), shown' = p, coming' \subseteq {p}
      PROVE  Agreed(n, p)'
  BY <1>0, <1>1 DEF Move, Agreed
<1>2. CASE UNCHANGED at /\ shown' = p /\ coming' \subseteq {p}
  BY <1>0, <1>2 DEF Agreed
<1>3. ~ Install
  BY <1>0 DEF Install, InUse, Link
<1>4. CASE OnPong \/ PunchTick \/ KeepAlive
  BY <1>0, <1>1, <1>4 DEF OnPong, PunchTick, KeepAlive, Begin, hubVars, Goroutine
<1>5. ASSUME NEW g \in Goroutine, Compare(g) PROVE Agreed(n, p)'
  <2>1. at[g] \in PlaceOf(link) /\ at[g].step = "compare" /\ Fine(at[g])
    BY <1>0, <1>5 DEF Compare
  <2>2. at[g] \in Holding /\ at[g].link = n
    BY <2>1 DEF PlaceOf, Idle
  <2>3. PICK s \in {"store", "restore"} : Move(g, [at[g] EXCEPT !.step = s])
    BY <1>5 DEF Compare
  <2>4. [at[g] EXCEPT !.step = s] = [step |-> s, link |-> at[g].link, path |-> at[g].path]
    BY <2>1, <2>2, CompareGoesOn
  <2>5. Fine([at[g] EXCEPT !.step = s])
    BY <2>2, <2>4
  <2> QED
    BY <1>0, <1>1, <1>5, <2>3, <2>5 DEF Compare, hubVars
<1>6. ASSUME NEW g \in Goroutine, StorePath(g) PROVE Agreed(n, p)'
  <2>1. at[g].link = n /\ UNCHANGED <<shown, coming>>
    BY <1>0, <1>6 DEF StorePath, hubVars
  <2>2. PICK q : Move(g, q) /\ (q = Idle \/ q = [step |-> "announce", link |-> n])
    BY <1>6, <2>1 DEF StorePath
  <2> QED
    BY <1>0, <1>1, <2>1, <2>2 DEF Idle
<1>7. ASSUME NEW g \in Goroutine, Announce(g) PROVE Agreed(n, p)'
  <2>1. coming' \subseteq {p} /\ shown' = p /\ Fine(Idle)
    BY <1>0, <1>7 DEF Announce, Idle
  <2> QED
    BY <1>1, <1>7, <2>1 DEF Announce
<1>8. ASSUME NEW q \in Path, AnnouncementLost(q) \/ ObservePath(q) \/ ObservePeer(q)
      PROVE  Agreed(n, p)'
  <2>1. UNCHANGED at /\ shown' = p /\ coming' \subseteq {p}
    BY <1>0, <1>8 DEF AnnouncementLost, ObservePath, ObservePeer
  <2> QED
    BY <1>2, <2>1
<1>9. PongAges \/ PathBreaks \/ HearingChanges \/ PeerChanges \/ PeerFallsBack \/ HubTick
        \/ UNCHANGED vars
        => UNCHANGED <<at, shown, coming>>
  BY DEF PongAges, PathBreaks, HearingChanges, PeerChanges, PeerFallsBack, HubTick, vars, hubVars
<1> QED
  BY <1>0, <1>2, <1>3, <1>4, <1>5, <1>6, <1>7, <1>8, <1>9 DEF Next, NotePath

(* The safety half of HubAgrees: while both ends stay on one path, the hub *)
(* that shows it goes on showing it, once what older links and other paths *)
(* had to say has been stored or lost, whatever socket drops and in        *)
(* whatever order the announcements of the two ends are stored             *)
(* (announcePath, observePath).                                            *)
THEOREM AgreementLasts ==
  ASSUME NEW n \in Link, NEW p \in Path
  PROVE  Spec => [](Agreed(n, p) /\ []InUse(n, p) => [](shown = p))
<1>1. Agreed(n, p) => shown = p
  BY DEF Agreed
<1>2. IInv /\ Agreed(n, p) /\ InUse(n, p)' /\ [Next]_vars => Agreed(n, p)'
  BY AgreedStep
<1> QED
  BY <1>1, <1>2, Invariance, PTL DEF Spec

=============================================================================
