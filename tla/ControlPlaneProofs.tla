------------------------- MODULE ControlPlaneProofs -------------------------
(***************************************************************************)
(* The control plane, for any number of tokens, keys, devices, labels,     *)
(* concurrent requests and codes, and for any limit of bindings.           *)
(*                                                                         *)
(* The type invariant is not inductive by itself: a redeem that goes on to *)
(* write a binding reads the host out of the pairing row its code names,   *)
(* so the code of a request in flight has to name a row.  That, and what   *)
(* keeps a code from becoming two bindings and a token from naming two     *)
(* rows, is the inductive invariant IInv.                                  *)
(***************************************************************************)
EXTENDS ControlPlane, StoreProofs

(* The code of a redeem in flight was consumed and has no binding yet, and *)
(* no other redeem has it.                                                 *)
CodesInFlight ==
  /\ \A w \in Worker : Redeeming(w) =>
       /\ req[w].code \in DOMAIN pairings
       /\ pairings[req[w].code].consumed
       /\ \A b \in DOMAIN bindings : bindings[b].session # req[w].code
  /\ \A v, w \in Worker :
       Redeeming(v) /\ Redeeming(w) /\ req[v].code = req[w].code => v = w

(* The code of a binding stays consumed. *)
BoundCodesConsumed ==
  \A b \in DOMAIN bindings :
    bindings[b].session \in DOMAIN pairings => pairings[bindings[b].session].consumed

(* A registration in flight writes under a token the table knows. *)
RegisteringKnown ==
  \A w \in Worker : req[w].op = "register" =>
    req[w].row.token # None /\ KnownToken(hosts, req[w].row.token)

IInv ==
  /\ TypeOK
  /\ CodesInFlight /\ BoundCodesConsumed /\ OneBindingPerCode
  /\ RegisteringKnown /\ OneRowPerToken

-----------------------------------------------------------------------------
(* The local variables a handler has are those of its kind of request. *)
LEMMA RequestKinds ==
  ASSUME NEW r \in Request
  PROVE  /\ r.op = "register" => r \in RegisterReq
         /\ r.op = "create" => r \in CreateReq
         /\ r.op \in {"lookup", "count", "bind"} => r \in RedeemReq
         /\ r.op \in {"list", "revoke"} => r \in RevokeReq
BY DEF Request, Idle, RegisterReq, CreateReq, RedeemReq, RevokeReq

(* A worker that takes a step becomes what the step says and leaves the    *)
(* other workers where they are.                                           *)
LEMMA BecomeRequest ==
  ASSUME req \in [Worker -> Request], NEW w \in Worker, NEW r, Become(w, r)
  PROVE  /\ r \in Request => req' \in [Worker -> Request]
         /\ req'[w] = r
         /\ \A v \in Worker : v # w => req'[v] = req[v]
BY DEF Become

(* A worker that has finished is idle. *)
LEMMA IdleRequest == Idle \in Request /\ Idle.op = "idle"
BY DEF Request, Idle

-----------------------------------------------------------------------------
(* The initial state. *)
LEMMA InitIInv == Init => IInv
<1> SUFFICES ASSUME Init PROVE IInv
  OBVIOUS
<1>1. hosts = <<>> /\ pairings = <<>> /\ bindings = <<>> /\ online = {}
  BY DEF Init
<1>2. \A w \in Worker : req[w] = Idle /\ req[w].op = "idle"
  BY DEF Init, Idle
<1>3. DOMAIN hosts = {} /\ DOMAIN bindings = {}
  BY <1>1
<1>4. TypeOK
  <2>1. req \in [Worker -> Request]
    BY IdleRequest DEF Init
  <2> QED
    BY <1>1, <2>1 DEF TypeOK
<1>5. \A w \in Worker : ~Redeeming(w) /\ req[w].op # "register"
  BY <1>2 DEF Redeeming
<1> QED
  BY <1>3, <1>4, <1>5
  DEF IInv, CodesInFlight, BoundCodesConsumed, OneBindingPerCode, RegisteringKnown, OneRowPerToken

-----------------------------------------------------------------------------
(* Every step keeps every row and every request in its type.               *)
LEMMA TypeStep == TypeOK /\ CodesInFlight /\ [Next]_vars => TypeOK'
<1> SUFFICES ASSUME TypeOK, CodesInFlight, [Next]_vars PROVE TypeOK'
  OBVIOUS
<1> USE RowsOfSeq
<1>0. /\ hosts \in Seq(HostRow) /\ pairings \in Seq(PairingRow) /\ bindings \in Seq(BindingRow)
      /\ online \subseteq Pub /\ req \in [Worker -> Request]
  BY DEF TypeOK
<1>1. CASE UNCHANGED vars
  BY <1>1 DEF TypeOK, vars
<1>2. ASSUME NEW t \in Token, IssueHostToken(t) PROVE TypeOK'
  <2>1. [token |-> t, pub |-> None, label |-> None] \in HostRow
    BY DEF HostRow
  <2> QED
    BY <1>0, <1>2, <2>1, PutHostType DEF IssueHostToken, TypeOK
<1>3. ASSUME NEW t \in Token, HostAttach(t) PROVE TypeOK'
  <2>1. HostByToken(hosts, t) \in HostRow
    BY <1>0, <1>3, HostByTokenRow DEF HostAttach
  <2>2. HostByToken(hosts, t).pub \in Pub
    BY <1>3, <2>1 DEF HostAttach, HostRow
  <2> QED
    BY <1>0, <1>3, <2>2 DEF HostAttach, TypeOK, store
<1>4. ASSUME NEW t \in Token, NEW w \in Worker, NEW p \in Pub, NEW l \in Label \cup {None},
             RegisterRead(w, t, p, l)
      PROVE  TypeOK'
  <2> DEFINE host == HostByToken(hosts, t)
             row == [host EXCEPT !.pub = p, !.label = IF l # None THEN l ELSE @]
             r == [op |-> "register", label |-> l, row |-> row]
  <2>1. host \in HostRow
    BY <1>0, <1>4, HostByTokenRow DEF RegisterRead
  <2>2. row \in HostRow
    BY <2>1 DEF HostRow
  <2>3. r \in Request
    BY <2>2 DEF Request, RegisterReq
  <2>4. Become(w, r) /\ UNCHANGED <<store, online>>
    BY <1>4 DEF RegisterRead
  <2> HIDE DEF r
  <2> QED
    BY <1>0, <2>3, <2>4, BecomeRequest DEF TypeOK, store
<1>5. ASSUME NEW t \in Token, NEW w \in Worker, CreatePairing(w, t) PROVE TypeOK'
  <2> DEFINE r == [op |-> "create", host |-> HostByToken(hosts, t).pub]
  <2>1. HostByToken(hosts, t) \in HostRow
    BY <1>0, <1>5, HostByTokenRow DEF CreatePairing
  <2>2. r \in Request
    BY <1>5, <2>1 DEF CreatePairing, HostRow, Request, CreateReq
  <2>3. Become(w, r) /\ UNCHANGED <<store, online>>
    BY <1>5 DEF CreatePairing
  <2> HIDE DEF r
  <2> QED
    BY <1>0, <2>2, <2>3, BecomeRequest DEF TypeOK, store
<1>6. ASSUME NEW t \in Token, NEW w \in Worker, NEW b \in DOMAIN bindings, RevokeAuth(w, t, b)
      PROVE  TypeOK'
  <2> DEFINE r == [op |-> "list", host |-> HostByToken(hosts, t).pub, binding |-> b]
  <2>1. HostByToken(hosts, t) \in HostRow
    BY <1>0, <1>6, HostByTokenRow DEF RevokeAuth
  <2>2. b \in Nat
    BY <1>0
  <2>3. r \in Request
    BY <2>1, <2>2 DEF HostRow, Request, RevokeReq
  <2>4. Become(w, r) /\ UNCHANGED <<store, online>>
    BY <1>6 DEF RevokeAuth
  <2> HIDE DEF r
  <2> QED
    BY <1>0, <2>3, <2>4, BecomeRequest DEF TypeOK, store
<1>7. ASSUME NEW p \in Pub, HostDetach(p) PROVE TypeOK'
  BY <1>0, <1>7 DEF HostDetach, TypeOK, store
<1>8. ASSUME NEW p \in Pub, NEW l \in Label, HostLabel(p, l) PROVE TypeOK'
  <2>1. [token |-> None, pub |-> p, label |-> l] \in HostRow
    BY DEF HostRow
  <2> QED
    BY <1>0, <1>8, <2>1, PutHostType DEF HostLabel, TypeOK
<1>9. ASSUME NEW w \in Worker, RegisterWrite(w) PROVE TypeOK'
  <2>1. req[w].row \in HostRow
    BY <1>0, <1>9, RequestKinds DEF RegisterWrite, RegisterReq
  <2> QED
    BY <1>0, <1>9, <2>1, PutHostType, BecomeRequest, IdleRequest DEF RegisterWrite, TypeOK
<1>10. ASSUME NEW w \in Worker, CreateWrite(w) PROVE TypeOK'
  <2>1. req[w].host \in Pub
    BY <1>0, <1>10, RequestKinds DEF CreateWrite, CreateReq
  <2>2. [host |-> req[w].host, expired |-> FALSE, consumed |-> FALSE] \in PairingRow
    BY <2>1 DEF PairingRow
  <2> QED
    BY <1>0, <1>10, <2>2, AppendRow, BecomeRequest, IdleRequest
    DEF CreateWrite, PutPairing, TypeOK
<1>11. ASSUME NEW c \in DOMAIN pairings, Expire(c) PROVE TypeOK'
  <2> DEFINE row == pairings[c]
  <2>0. row \in PairingRow
    BY <1>0
  <2>1. [row EXCEPT !.expired = TRUE] \in PairingRow
    BY <2>0 DEF PairingRow
  <2>2. pairings' = [pairings EXCEPT ![c] = [pairings[c] EXCEPT !.expired = TRUE]]
    BY <1>11 DEF Expire
  <2>3. pairings' \in Seq(PairingRow)
    BY <1>0, <2>1, <2>2, ExceptRow
  <2> QED
    BY <1>0, <1>11, <2>3 DEF Expire, TypeOK
<1>12. ASSUME NEW c \in DOMAIN pairings, NEW w \in Worker, NEW d \in Device, RedeemConsume(w, c, d)
       PROVE  TypeOK'
  <2> DEFINE r == [op |-> "lookup", code |-> c, device |-> d]
  <2>1. r \in Request
    BY <1>0 DEF Request, RedeemReq
  <2>2. Become(w, r) /\ UNCHANGED <<hosts, bindings, online>>
    BY <1>12 DEF RedeemConsume
  <2>3. pairings' \in Seq(PairingRow)
    BY <1>0, <1>12, ConsumePairingRows DEF RedeemConsume
  <2> HIDE DEF r
  <2> QED
    BY <1>0, <2>1, <2>2, <2>3, BecomeRequest DEF TypeOK
<1>13. ASSUME NEW w \in Worker, RedeemLookup(w) \/ RedeemCount(w) PROVE TypeOK'
  <2> DEFINE r == req[w]
  <2>1. r \in RedeemReq
    BY <1>0, <1>13, RequestKinds DEF RedeemLookup, RedeemCount
  <2>2. \A op \in {"count", "bind"} : [r EXCEPT !.op = op] \in RedeemReq
    BY <2>1 DEF RedeemReq
  <2>3. \A op \in {"count", "bind"} : [r EXCEPT !.op = op] \in Request
    BY <2>2 DEF Request
  <2> QED
    BY <1>0, <1>13, <2>3, BecomeRequest, IdleRequest DEF RedeemLookup, RedeemCount, TypeOK, store
<1>14. ASSUME NEW w \in Worker, RedeemBind(w) PROVE TypeOK'
  <2> DEFINE row == [host |-> pairings[req[w].code].host, device |-> req[w].device,
                     session |-> req[w].code, revoked |-> FALSE]
  <2>1. req[w] \in RedeemReq /\ Redeeming(w)
    BY <1>0, <1>14, RequestKinds DEF RedeemBind, Redeeming
  <2>2. pairings[req[w].code] \in PairingRow
    BY <1>0, <2>1 DEF CodesInFlight
  <2>3. row \in BindingRow
    BY <2>1, <2>2 DEF RedeemReq, PairingRow, BindingRow
  <2>4. bindings' = PutBinding(bindings, row) /\ Become(w, Idle) /\ UNCHANGED <<hosts, pairings, online>>
    BY <1>14 DEF RedeemBind
  <2> HIDE DEF row
  <2> QED
    BY <1>0, <2>3, <2>4, PutBindingRows, BecomeRequest, IdleRequest DEF TypeOK
<1>15. ASSUME NEW w \in Worker, RevokeList(w) PROVE TypeOK'
  <2> DEFINE r == req[w]
  <2>1. r \in RevokeReq
    BY <1>0, <1>15, RequestKinds DEF RevokeList
  <2>2. [r EXCEPT !.op = "revoke"] \in RevokeReq
    BY <2>1 DEF RevokeReq
  <2>3. [r EXCEPT !.op = "revoke"] \in Request
    BY <2>2 DEF Request
  <2> QED
    BY <1>0, <1>15, <2>3, BecomeRequest, IdleRequest DEF RevokeList, TypeOK, store
<1>16. ASSUME NEW w \in Worker, RevokeApply(w) PROVE TypeOK'
  BY <1>0, <1>16, RevokeBindingRows, BecomeRequest, IdleRequest DEF RevokeApply, TypeOK
<1>17. ASSUME NEW w \in Worker, StoreFails(w) PROVE TypeOK'
  BY <1>0, <1>17, BecomeRequest, IdleRequest DEF StoreFails, TypeOK, store
<1>18. ASSUME NEW b \in DOMAIN bindings, AdminRevoke(b) PROVE TypeOK'
  BY <1>0, <1>18, RevokeBindingRows DEF AdminRevoke, TypeOK
<1> QED
  BY <1>1, <1>2, <1>3, <1>4, <1>5, <1>6, <1>7, <1>8, <1>9, <1>10, <1>11, <1>12, <1>13, <1>14,
     <1>15, <1>16, <1>17, <1>18
  DEF Next, HostStep, SocketStep, HandlerStep, CodeStep

(* What one step makes of one worker. *)
LEMMA WorkerStep ==
  ASSUME req \in [Worker -> Request], [Next]_vars, NEW w \in Worker
  PROVE  \/ req'[w] = req[w]
         \/ req'[w] = Idle
         \/ \E t \in Token, p \in Pub, l \in Label \cup {None} : RegisterRead(w, t, p, l)
         \/ \E t \in Token : CreatePairing(w, t)
         \/ \E t \in Token, b \in DOMAIN bindings : RevokeAuth(w, t, b)
         \/ \E c \in DOMAIN pairings, d \in Device : RedeemConsume(w, c, d)
         \/ RedeemLookup(w) /\ req'[w] = [req[w] EXCEPT !.op = "count"]
         \/ RedeemCount(w) /\ req'[w] = [req[w] EXCEPT !.op = "bind"]
         \/ RevokeList(w) /\ req'[w] = [req[w] EXCEPT !.op = "revoke"]
<1>1. ASSUME NEW v \in Worker, NEW r, Become(v, r)
      PROVE  IF w = v THEN req'[w] = r ELSE req'[w] = req[w]
  BY <1>1 DEF Become
<1>2. CASE req' = req
  BY <1>2
<1>3. ASSUME NEW v \in Worker, Become(v, Idle) PROVE req'[w] = req[w] \/ req'[w] = Idle
  BY <1>1, <1>3
<1>4. ASSUME NEW v \in Worker, NEW t \in Token, CreatePairing(v, t)
      PROVE  req'[w] = req[w] \/ CreatePairing(w, t)
  BY <1>1, <1>4 DEF CreatePairing
<1>5. ASSUME NEW v \in Worker, NEW t \in Token, NEW b, RevokeAuth(v, t, b)
      PROVE  req'[w] = req[w] \/ RevokeAuth(w, t, b)
  BY <1>1, <1>5 DEF RevokeAuth
<1>6. ASSUME NEW v \in Worker, NEW t \in Token, NEW p, NEW l, RegisterRead(v, t, p, l)
      PROVE  req'[w] = req[w] \/ RegisterRead(w, t, p, l)
  BY <1>1, <1>6 DEF RegisterRead
<1>7. ASSUME NEW v \in Worker, NEW c, NEW d, RedeemConsume(v, c, d)
      PROVE  req'[w] = req[w] \/ RedeemConsume(w, c, d)
  BY <1>1, <1>7 DEF RedeemConsume
<1>8. ASSUME NEW v \in Worker, RedeemLookup(v)
      PROVE  \/ req'[w] = req[w] \/ req'[w] = Idle
             \/ RedeemLookup(w) /\ req'[w] = [req[w] EXCEPT !.op = "count"]
  BY <1>1, <1>8 DEF RedeemLookup
<1>9. ASSUME NEW v \in Worker, RedeemCount(v)
      PROVE  \/ req'[w] = req[w] \/ req'[w] = Idle
             \/ RedeemCount(w) /\ req'[w] = [req[w] EXCEPT !.op = "bind"]
  BY <1>1, <1>9 DEF RedeemCount
<1>10. ASSUME NEW v \in Worker, RevokeList(v)
       PROVE  \/ req'[w] = req[w] \/ req'[w] = Idle
              \/ RevokeList(w) /\ req'[w] = [req[w] EXCEPT !.op = "revoke"]
  BY <1>1, <1>10 DEF RevokeList
<1>11. \/ req' = req
       \/ \E v \in Worker : Become(v, Idle)
       \/ \E v \in Worker, t \in Token : CreatePairing(v, t)
       \/ \E v \in Worker, t \in Token, b \in DOMAIN bindings : RevokeAuth(v, t, b)
       \/ \E v \in Worker, t \in Token, p \in Pub, l \in Label \cup {None} : RegisterRead(v, t, p, l)
       \/ \E v \in Worker, c \in DOMAIN pairings, d \in Device : RedeemConsume(v, c, d)
       \/ \E v \in Worker : RedeemLookup(v) \/ RedeemCount(v) \/ RevokeList(v)
  BY DEF vars, Next, HostStep, SocketStep, HandlerStep, CodeStep, IssueHostToken, HostAttach,
         HostDetach, HostLabel, Expire, AdminRevoke, RegisterWrite, CreateWrite, RedeemBind,
         RevokeApply, StoreFails
<1> QED
  BY <1>2, <1>3, <1>4, <1>5, <1>6, <1>7, <1>8, <1>9, <1>10, <1>11

-----------------------------------------------------------------------------
(* Host rows. *)

(* Three actions write the host table. *)
LEMMA HostsChange ==
  ASSUME [Next]_vars
  PROVE  \/ UNCHANGED hosts
         \/ \E t \in Token : IssueHostToken(t)
         \/ \E p \in Pub, l \in Label : HostLabel(p, l)
         \/ \E w \in Worker : RegisterWrite(w)
BY DEF vars, store, Next, HostStep, SocketStep, HandlerStep, CodeStep, HostAttach, RegisterRead,
       CreatePairing, RevokeAuth, HostDetach, CreateWrite, Expire, RedeemConsume, RedeemLookup,
       RedeemCount, RedeemBind, RevokeList, RevokeApply, StoreFails, AdminRevoke

(* Every row keeps its token and, if it has one, its label, and no second  *)
(* row gets a token of the table.                                          *)
HostsKept ==
  /\ hosts' \in Seq(HostRow)
  /\ \A i \in DOMAIN hosts :
       /\ i \in DOMAIN hosts'
       /\ hosts'[i].token = hosts[i].token
       /\ hosts[i].label # None => hosts'[i].label # None
  /\ \A i, j \in DOMAIN hosts' \ DOMAIN hosts :
       hosts'[i].token # None => i = j /\ ~KnownToken(hosts, hosts'[i].token)

(* A write whose token is empty or known adds no token. *)
LEMMA WriteKeepsHosts ==
  ASSUME hosts \in Seq(HostRow), NEW h \in HostRow,
         h.token = None \/ KnownToken(hosts, h.token),
         hosts' = PutHost(hosts, h)
  PROVE  HostsKept
<1>1. hosts' \in Seq(HostRow) /\ DOMAIN hosts \subseteq DOMAIN hosts'
  BY PutHostType
<1>2. /\ \A i \in DOMAIN hosts : hosts'[i].token = hosts[i].token
      /\ \A i \in DOMAIN hosts' \ DOMAIN hosts : hosts'[i].token = None
  BY PutHostTokens
<1>3. \A i \in DOMAIN hosts : hosts[i].label # None => hosts'[i].label # None
  BY PutHostKeepsLabels
<1> QED
  BY <1>1, <1>2, <1>3 DEF HostsKept

(* Issuing appends one row, with a token no row has. *)
LEMMA IssueKeepsHosts ==
  ASSUME hosts \in Seq(HostRow), NEW t \in Token, IssueHostToken(t)
  PROVE  HostsKept
<1> DEFINE h == [token |-> t, pub |-> None, label |-> None]
<1>1. h \in HostRow /\ h.token = t /\ h.pub = None
  BY DEF HostRow
<1>2. ~KnownToken(hosts, t) /\ hosts' = PutHost(hosts, h)
  BY DEF IssueHostToken
<1> HIDE DEF h
<1>3. MatchingRows(hosts, h) = {}
  BY <1>1, <1>2 DEF MatchingRows, KnownToken
<1>4. hosts' = Append(hosts, h)
  BY <1>1, <1>2, <1>3, PutHostRows
<1> QED
  BY <1>1, <1>2, <1>4, AppendRow DEF HostsKept

(* Every step keeps the tokens and labels of the rows: the three writes   *)
(* carry a fresh token, no token, or one the table knows.                  *)
LEMMA HostsStep == TypeOK /\ RegisteringKnown /\ [Next]_vars => HostsKept
<1> SUFFICES ASSUME TypeOK, RegisteringKnown, [Next]_vars PROVE HostsKept
  OBVIOUS
<1>0. hosts \in Seq(HostRow) /\ req \in [Worker -> Request]
  BY DEF TypeOK
<1>1. CASE UNCHANGED hosts
  BY <1>0, <1>1 DEF HostsKept
<1>2. ASSUME NEW t \in Token, IssueHostToken(t) PROVE HostsKept
  BY <1>0, <1>2, IssueKeepsHosts
<1>3. ASSUME NEW p \in Pub, NEW l \in Label, HostLabel(p, l) PROVE HostsKept
  <2>1. [token |-> None, pub |-> p, label |-> l] \in HostRow
    BY DEF HostRow
  <2> QED
    BY <1>0, <1>3, <2>1, WriteKeepsHosts DEF HostLabel
<1>4. ASSUME NEW w \in Worker, RegisterWrite(w) PROVE HostsKept
  <2>1. req[w].row \in HostRow /\ KnownToken(hosts, req[w].row.token)
    BY <1>0, <1>4, RequestKinds DEF RegisterWrite, RegisterReq, RegisteringKnown
  <2> QED
    BY <1>0, <1>4, <2>1, WriteKeepsHosts DEF RegisterWrite
<1> QED
  BY <1>1, <1>2, <1>3, <1>4, HostsChange

(* What HostsKept says of the tokens. *)
LEMMA KeptTokens ==
  ASSUME HostsKept
  PROVE  /\ \A t : KnownToken(hosts, t) => KnownToken(hosts', t)
         /\ OneRowPerToken => OneRowPerToken'
<1>1. ASSUME NEW t, KnownToken(hosts, t) PROVE KnownToken(hosts', t)
  <2>1. PICK i \in DOMAIN hosts : hosts[i].token = t
    BY <1>1 DEF KnownToken, TokenRows
  <2> QED
    BY <2>1 DEF HostsKept, KnownToken, TokenRows
<1>2. ASSUME OneRowPerToken, NEW i \in DOMAIN hosts', NEW j \in DOMAIN hosts',
             hosts'[i].token # None, hosts'[i].token = hosts'[j].token
      PROVE  i = j
  <2>1. CASE i \in DOMAIN hosts /\ j \in DOMAIN hosts
    BY <1>2, <2>1 DEF HostsKept, OneRowPerToken
  <2>2. CASE i \in DOMAIN hosts' \ DOMAIN hosts /\ j \in DOMAIN hosts' \ DOMAIN hosts
    BY <1>2, <2>2 DEF HostsKept
  <2>3. ASSUME NEW m \in DOMAIN hosts, NEW n \in DOMAIN hosts' \ DOMAIN hosts,
               hosts'[m].token # None, hosts'[m].token = hosts'[n].token
        PROVE  FALSE
    <3>1. hosts[m].token = hosts'[n].token /\ ~KnownToken(hosts, hosts'[n].token)
      BY <2>3 DEF HostsKept
    <3> QED
      BY <3>1 DEF KnownToken, TokenRows
  <2> QED
    BY <1>2, <2>1, <2>2, <2>3
<1> QED
  BY <1>1, <1>2 DEF OneRowPerToken

(* Only RegisterRead starts a registration, with a token it has just found.*)
LEMMA RegisteringStep == TypeOK /\ RegisteringKnown /\ [Next]_vars => RegisteringKnown'
<1> SUFFICES ASSUME TypeOK, RegisteringKnown, [Next]_vars,
                    NEW w \in Worker, req'[w].op = "register"
             PROVE  req'[w].row.token # None /\ KnownToken(hosts', req'[w].row.token)
  BY DEF RegisteringKnown
<1>0. hosts \in Seq(HostRow) /\ req \in [Worker -> Request]
  BY DEF TypeOK
<1>1. \A t : KnownToken(hosts, t) => KnownToken(hosts', t)
  BY HostsStep, KeptTokens
<1>2. CASE req'[w] = req[w]
  BY <1>1, <1>2 DEF RegisteringKnown
<1>3. ASSUME NEW t \in Token, NEW p \in Pub, NEW l \in Label \cup {None}, RegisterRead(w, t, p, l)
      PROVE  req'[w].row.token = t /\ KnownToken(hosts, t)
  <2> DEFINE host == HostByToken(hosts, t)
             row == [host EXCEPT !.pub = p, !.label = IF l # None THEN l ELSE @]
             r == [op |-> "register", label |-> l, row |-> row]
  <2>1. host \in HostRow /\ host.token = t
    BY <1>0, <1>3, HostByTokenRow DEF RegisterRead
  <2>2. r.row.token = t
    BY <2>1 DEF HostRow
  <2>3. Become(w, r)
    BY <1>3 DEF RegisterRead
  <2>4. req'[w] = r
    BY <1>0, <2>3 DEF Become
  <2> QED
    BY <1>3, <2>2, <2>4 DEF RegisterRead
<1>4. \/ req'[w] = req[w]
      \/ \E t \in Token, p \in Pub, l \in Label \cup {None} : RegisterRead(w, t, p, l)
  <2>1. ASSUME NEW r, r.op # "register", Become(w, r) PROVE FALSE
    BY <1>0, <2>1 DEF Become
  <2>2. ASSUME NEW t \in Token, CreatePairing(w, t) PROVE FALSE
    BY <2>1, <2>2 DEF CreatePairing
  <2>3. ASSUME NEW t \in Token, NEW b \in DOMAIN bindings, RevokeAuth(w, t, b) PROVE FALSE
    BY <2>1, <2>3 DEF RevokeAuth
  <2>4. ASSUME NEW c \in DOMAIN pairings, NEW d \in Device, RedeemConsume(w, c, d) PROVE FALSE
    BY <2>1, <2>4 DEF RedeemConsume
  <2>5. ASSUME NEW op, op # "register", req'[w] = [req[w] EXCEPT !.op = op],
               req[w] \in RedeemReq \/ req[w] \in RevokeReq
        PROVE  FALSE
    BY <2>5 DEF RedeemReq, RevokeReq
  <2>6. /\ RedeemLookup(w) \/ RedeemCount(w) => req[w] \in RedeemReq
        /\ RevokeList(w) => req[w] \in RevokeReq
    BY <1>0, RequestKinds DEF RedeemLookup, RedeemCount, RevokeList
  <2>7. req'[w] # Idle
    BY DEF Idle
  <2> QED
    BY <1>0, <2>2, <2>3, <2>4, <2>5, <2>6, <2>7, WorkerStep
<1> QED
  BY <1>1, <1>2, <1>3, <1>4, NoneAssumption

-----------------------------------------------------------------------------
(* Codes and bindings. *)

(* Every code keeps its host and, once consumed, stays consumed. *)
PairingsKept ==
  \A c \in DOMAIN pairings :
    /\ c \in DOMAIN pairings'
    /\ pairings'[c].host = pairings[c].host
    /\ pairings[c].consumed => pairings'[c].consumed

(* Every step keeps the codes: creating appends, expiring and redeeming    *)
(* mark.                                                                   *)
LEMMA PairingsStep == TypeOK /\ [Next]_vars => PairingsKept
<1> SUFFICES ASSUME TypeOK, [Next]_vars PROVE PairingsKept
  OBVIOUS
<1>0. pairings \in Seq(PairingRow) /\ req \in [Worker -> Request]
  BY DEF TypeOK
<1>1. CASE UNCHANGED pairings
  BY <1>1 DEF PairingsKept
<1>2. ASSUME NEW w \in Worker, CreateWrite(w) PROVE PairingsKept
  <2>1. req[w].host \in Pub
    BY <1>0, <1>2, RequestKinds DEF CreateWrite, CreateReq
  <2>2. [host |-> req[w].host, expired |-> FALSE, consumed |-> FALSE] \in PairingRow
    BY <2>1 DEF PairingRow
  <2> QED
    BY <1>0, <1>2, <2>2, AppendRow DEF CreateWrite, PutPairing, PairingsKept
<1>3. ASSUME NEW c \in DOMAIN pairings, Expire(c) PROVE PairingsKept
  <2> DEFINE row == pairings[c]
  <2>1. row \in PairingRow
    BY <1>0, RowsOfSeq
  <2>2. /\ [row EXCEPT !.expired = TRUE] \in PairingRow
        /\ [row EXCEPT !.expired = TRUE].host = row.host
        /\ [row EXCEPT !.expired = TRUE].consumed = row.consumed
    BY <2>1 DEF PairingRow
  <2>3. pairings' = [pairings EXCEPT ![c] = [row EXCEPT !.expired = TRUE]]
    BY <1>3 DEF Expire
  <2> QED
    BY <1>0, <2>2, <2>3, ExceptRow DEF PairingsKept
<1>4. ASSUME NEW c \in DOMAIN pairings, pairings' = ConsumePairing(pairings, c) PROVE PairingsKept
  BY <1>0, <1>4, ConsumePairingRows DEF PairingsKept
<1>5. \/ UNCHANGED pairings
      \/ \E w \in Worker : CreateWrite(w)
      \/ \E c \in DOMAIN pairings : Expire(c) \/ pairings' = ConsumePairing(pairings, c)
  BY DEF vars, store, Next, HostStep, SocketStep, HandlerStep, CodeStep, IssueHostToken, HostAttach,
         HostDetach, HostLabel, RegisterRead, CreatePairing, RevokeAuth, RegisterWrite,
         RedeemConsume, RedeemLookup, RedeemCount, RedeemBind, RevokeList, RevokeApply, StoreFails,
         AdminRevoke
<1> QED
  BY <1>1, <1>2, <1>3, <1>4, <1>5

(* A step keeps the session and the host of every binding row; only a      *)
(* redeem that reached its last call adds a row, of its own code.          *)
BindingsKept ==
  /\ DOMAIN bindings \subseteq DOMAIN bindings'
  /\ \A b \in DOMAIN bindings :
       bindings'[b].session = bindings[b].session /\ bindings'[b].host = bindings[b].host

(* What RedeemBind of worker w does to the rows and to the workers.        *)
BindingAdded(w) ==
  /\ BindingsKept
  /\ Redeeming(w) /\ req'[w] = Idle
  /\ \A v \in Worker : v # w => req'[v] = req[v]
  /\ \A b \in DOMAIN bindings' \ DOMAIN bindings :
       /\ b = Len(bindings) + 1
       /\ bindings'[b].session = req[w].code
       /\ bindings'[b].host = pairings[req[w].code].host

(* Every step keeps the binding rows or is RedeemBind adding one.          *)
LEMMA BindingsStep ==
  ASSUME TypeOK, CodesInFlight, [Next]_vars
  PROVE  \/ BindingsKept /\ DOMAIN bindings' = DOMAIN bindings
         \/ \E w \in Worker : BindingAdded(w)
<1>0. /\ pairings \in Seq(PairingRow) /\ bindings \in Seq(BindingRow)
      /\ req \in [Worker -> Request]
  BY DEF TypeOK
<1>1. CASE UNCHANGED bindings
  BY <1>1 DEF BindingsKept
<1>2. ASSUME NEW b, bindings' = RevokeBinding(bindings, b)
      PROVE  BindingsKept /\ DOMAIN bindings' = DOMAIN bindings
  BY <1>0, <1>2, RevokeBindingRows DEF BindingsKept
<1>3. ASSUME NEW w \in Worker, RedeemBind(w)
      PROVE  BindingAdded(w)
  <2> DEFINE row == [host |-> pairings[req[w].code].host, device |-> req[w].device,
                     session |-> req[w].code, revoked |-> FALSE]
  <2>1. req[w] \in RedeemReq /\ Redeeming(w)
    BY <1>0, <1>3, RequestKinds DEF RedeemBind, Redeeming
  <2>2. pairings[req[w].code] \in PairingRow
    BY <1>0, <2>1, RowsOfSeq DEF CodesInFlight
  <2>3. /\ row \in BindingRow
        /\ row.session = req[w].code /\ row.host = pairings[req[w].code].host
    BY <2>1, <2>2 DEF RedeemReq, PairingRow, BindingRow
  <2>4. bindings' = PutBinding(bindings, row) /\ Become(w, Idle)
    BY <1>3 DEF RedeemBind
  <2> HIDE DEF row
  <2>5. req'[w] = Idle /\ \A v \in Worker : v # w => req'[v] = req[v]
    BY <1>0, <2>4, BecomeRequest
  <2>6. CASE bindings' = bindings
    BY <2>1, <2>5, <2>6 DEF BindingAdded, BindingsKept
  <2>7. CASE bindings' = Append(bindings, row)
    BY <1>0, <2>1, <2>3, <2>5, <2>7, AppendRow DEF BindingAdded, BindingsKept
  <2> QED
    BY <1>0, <2>3, <2>4, <2>6, <2>7, PutBindingRows
<1>4. \/ UNCHANGED bindings
      \/ \E b : bindings' = RevokeBinding(bindings, b)
      \/ \E w \in Worker : RedeemBind(w)
  BY DEF vars, store, Next, HostStep, SocketStep, HandlerStep, CodeStep, IssueHostToken, HostAttach,
         HostDetach, HostLabel, RegisterRead, CreatePairing, RevokeAuth, RegisterWrite, CreateWrite,
         Expire, RedeemConsume, RedeemLookup, RedeemCount, RevokeList, RevokeApply, StoreFails,
         AdminRevoke
<1> QED
  BY <1>1, <1>2, <1>3, <1>4

(* A redeem in flight was in flight before with the same code, or has just *)
(* taken its code.                                                         *)
LEMMA RedeemingStep ==
  ASSUME req \in [Worker -> Request], [Next]_vars, NEW w \in Worker, Redeeming(w)'
  PROVE  \/ Redeeming(w) /\ req'[w].code = req[w].code
         \/ \E c \in DOMAIN pairings, d \in Device :
              RedeemConsume(w, c, d) /\ req'[w].code = c
<1>1. req'[w].op \in {"lookup", "count", "bind"}
  BY DEF Redeeming
<1>2. ASSUME NEW r, r.op \notin {"lookup", "count", "bind"}, Become(w, r) PROVE FALSE
  BY <1>1, <1>2 DEF Become
<1>3. CASE req'[w] = req[w]
  BY <1>1, <1>3 DEF Redeeming
<1>4. ASSUME NEW t \in Token, NEW p \in Pub, NEW l \in Label \cup {None}, RegisterRead(w, t, p, l)
      PROVE  FALSE
  BY <1>2, <1>4 DEF RegisterRead
<1>5. ASSUME NEW t \in Token, CreatePairing(w, t) PROVE FALSE
  BY <1>2, <1>5 DEF CreatePairing
<1>6. ASSUME NEW t \in Token, NEW b \in DOMAIN bindings, RevokeAuth(w, t, b) PROVE FALSE
  BY <1>2, <1>6 DEF RevokeAuth
<1>7. ASSUME NEW c \in DOMAIN pairings, NEW d \in Device, RedeemConsume(w, c, d)
      PROVE  req'[w].code = c
  BY <1>7 DEF RedeemConsume, Become
<1>8. ASSUME NEW op, RedeemLookup(w) \/ RedeemCount(w), req'[w] = [req[w] EXCEPT !.op = op]
      PROVE  Redeeming(w) /\ req'[w].code = req[w].code
  <2>1. req[w] \in RedeemReq
    BY <1>8, RequestKinds DEF RedeemLookup, RedeemCount
  <2> QED
    BY <1>8, <2>1 DEF RedeemReq, Redeeming
<1>9. CASE RevokeList(w) /\ req'[w] = [req[w] EXCEPT !.op = "revoke"]
  <2>1. req[w] \in RevokeReq
    BY <1>9, RequestKinds DEF RevokeList
  <2> QED
    BY <1>1, <1>9, <2>1 DEF RevokeReq
<1>10. req'[w] # Idle
  BY <1>1 DEF Idle
<1> QED
  BY <1>3, <1>4, <1>5, <1>6, <1>7, <1>8, <1>9, <1>10, WorkerStep

(* Consumed codes stay with at most one redeem, then with at most one      *)
(* binding.                                                                *)
LEMMA CodesStep ==
  TypeOK /\ CodesInFlight /\ BoundCodesConsumed /\ OneBindingPerCode /\ [Next]_vars
    => CodesInFlight' /\ BoundCodesConsumed' /\ OneBindingPerCode'
<1> SUFFICES ASSUME TypeOK, CodesInFlight, BoundCodesConsumed, OneBindingPerCode, [Next]_vars
             PROVE  CodesInFlight' /\ BoundCodesConsumed' /\ OneBindingPerCode'
  OBVIOUS
<1>0. req \in [Worker -> Request]
  BY DEF TypeOK
<1>1. PairingsKept
  BY PairingsStep
<1>2. ASSUME NEW w \in Worker, NEW c \in DOMAIN pairings, NEW d \in Device, RedeemConsume(w, c, d)
      PROVE  /\ ~pairings[c].consumed /\ pairings'[c].consumed
             /\ bindings' = bindings
             /\ \A v \in Worker : v # w => req'[v] = req[v]
  <2>1. ~pairings[c].consumed /\ pairings' = ConsumePairing(pairings, c) /\ bindings' = bindings
    BY <1>2 DEF RedeemConsume, Redeemable
  <2>2. pairings'[c].consumed
    BY <2>1, ConsumePairingRows DEF TypeOK
  <2> QED
    BY <1>0, <1>2, <2>1, <2>2 DEF RedeemConsume, Become
<1>3. ASSUME NEW w \in Worker, Redeeming(w)'
      PROVE  /\ req'[w].code \in DOMAIN pairings'
             /\ pairings'[req'[w].code].consumed
             /\ \A b \in DOMAIN bindings' : bindings'[b].session # req'[w].code
  <2>1. CASE Redeeming(w) /\ req'[w].code = req[w].code
    <3>1. /\ req[w].code \in DOMAIN pairings /\ pairings[req[w].code].consumed
          /\ \A b \in DOMAIN bindings : bindings[b].session # req[w].code
      BY <2>1 DEF CodesInFlight
    <3>2. ASSUME NEW v \in Worker, BindingAdded(v)
          PROVE  \A b \in DOMAIN bindings' : bindings'[b].session # req[w].code
      <4>1. v # w
        BY <1>3, <3>2 DEF BindingAdded, Redeeming, Idle
      <4>2. req[v].code # req[w].code
        BY <2>1, <3>2, <4>1 DEF BindingAdded, CodesInFlight
      <4> QED
        BY <3>1, <3>2, <4>2 DEF BindingAdded, BindingsKept
    <3> QED
      BY <1>1, <2>1, <3>1, <3>2, BindingsStep DEF PairingsKept, BindingsKept
  <2>2. ASSUME NEW c \in DOMAIN pairings, NEW d \in Device,
               RedeemConsume(w, c, d), req'[w].code = c
        PROVE  /\ c \in DOMAIN pairings' /\ pairings'[c].consumed
               /\ \A b \in DOMAIN bindings' : bindings'[b].session # c
    BY <1>1, <1>2, <2>2 DEF PairingsKept, BoundCodesConsumed
  <2> QED
    BY <1>0, <1>3, <2>1, <2>2, RedeemingStep
<1>4. ASSUME NEW v \in Worker, NEW w \in Worker,
             Redeeming(v)', Redeeming(w)', req'[v].code = req'[w].code
      PROVE  v = w
  <2>1. CASE /\ Redeeming(v) /\ req'[v].code = req[v].code
             /\ Redeeming(w) /\ req'[w].code = req[w].code
    BY <1>4, <2>1 DEF CodesInFlight
  <2>2. ASSUME NEW x \in Worker, NEW y \in Worker, NEW c \in DOMAIN pairings, NEW d \in Device,
               RedeemConsume(x, c, d), Redeeming(y), req[y].code = c
        PROVE  FALSE
    BY <1>2, <2>2 DEF CodesInFlight
  <2>3. ASSUME NEW c \in DOMAIN pairings, NEW d \in Device, RedeemConsume(v, c, d),
               NEW e \in DOMAIN pairings, NEW f \in Device, RedeemConsume(w, e, f),
               v # w
        PROVE  FALSE
    <3>1. req'[w] = req[w] /\ req[w] = Idle
      BY <1>2, <2>3 DEF RedeemConsume
    <3> QED
      BY <1>4, <3>1 DEF Redeeming, Idle
  <2> QED
    BY <1>0, <1>4, <2>1, <2>2, <2>3, RedeemingStep
<1>5. CodesInFlight'
  BY <1>3, <1>4 DEF CodesInFlight
<1>6. CASE BindingsKept /\ DOMAIN bindings' = DOMAIN bindings
  BY <1>1, <1>5, <1>6 DEF PairingsKept, BindingsKept, BoundCodesConsumed, OneBindingPerCode
<1>7. ASSUME NEW w \in Worker, BindingAdded(w)
      PROVE  BoundCodesConsumed' /\ OneBindingPerCode'
  <2>1. /\ req[w].code \in DOMAIN pairings /\ pairings[req[w].code].consumed
        /\ \A b \in DOMAIN bindings : bindings[b].session # req[w].code
    BY <1>7 DEF BindingAdded, CodesInFlight
  <2>2. ASSUME NEW b \in DOMAIN bindings'
        PROVE  \/ /\ b \in DOMAIN bindings
                  /\ bindings'[b].session = bindings[b].session
                  /\ bindings'[b].host = bindings[b].host
               \/ /\ b = Len(bindings) + 1
                  /\ bindings'[b].session = req[w].code
                  /\ bindings'[b].host = pairings[req[w].code].host
    BY <1>7, <2>2 DEF BindingAdded, BindingsKept
  <2>3. \A b \in DOMAIN bindings' :
          /\ bindings'[b].session \in DOMAIN pairings'
          /\ bindings'[b].host = pairings'[bindings'[b].session].host
          /\ pairings'[bindings'[b].session].consumed
    BY <1>1, <2>1, <2>2 DEF PairingsKept, OneBindingPerCode, BoundCodesConsumed
  <2>4. \A b1, b2 \in DOMAIN bindings' :
          bindings'[b1].session = bindings'[b2].session => b1 = b2
    BY <2>1, <2>2 DEF OneBindingPerCode
  <2> QED
    BY <2>3, <2>4 DEF BoundCodesConsumed, OneBindingPerCode
<1> QED
  BY <1>5, <1>6, <1>7, BindingsStep

(* A step keeps every host within the limit, because the store counts      *)
(* again: the number a redeem saw in its own count plays no part.          *)
LEMMA LimitStep == TypeOK /\ CodesInFlight /\ BindingLimit /\ [Next]_vars => BindingLimit'
<1> SUFFICES ASSUME TypeOK, CodesInFlight, BindingLimit, [Next]_vars, NEW p \in Pub
             PROVE  CountBindings(bindings', p) <= MaxBindings
  BY DEF BindingLimit
<1>0. /\ pairings \in Seq(PairingRow) /\ bindings \in Seq(BindingRow)
      /\ req \in [Worker -> Request]
      /\ CountBindings(bindings, p) <= MaxBindings
  BY DEF TypeOK, BindingLimit
<1>1. CASE UNCHANGED bindings
  BY <1>0, <1>1
<1>2. ASSUME NEW b, bindings' = RevokeBinding(bindings, b)
      PROVE  CountBindings(bindings', p) <= MaxBindings
  <2>1. \/ CountBindings(bindings', p) = CountBindings(bindings, p)
        \/ CountBindings(bindings', p) = CountBindings(bindings, p) - 1
    BY <1>0, <1>2, CountAfterRevoke
  <2>2. CountBindings(bindings, p) \in Nat /\ MaxBindings \in Nat
    BY <1>0, ActiveFinite, MaxBindingsAssumption
  <2> QED
    BY <1>0, <2>1, <2>2
<1>3. ASSUME NEW w \in Worker, RedeemBind(w)
      PROVE  CountBindings(bindings', p) <= MaxBindings
  <2> DEFINE row == [host |-> pairings[req[w].code].host, device |-> req[w].device,
                     session |-> req[w].code, revoked |-> FALSE]
  <2>1. req[w] \in RedeemReq /\ Redeeming(w)
    BY <1>0, <1>3, RequestKinds DEF RedeemBind, Redeeming
  <2>2. pairings[req[w].code] \in PairingRow
    BY <1>0, <2>1, RowsOfSeq DEF CodesInFlight
  <2>3. row \in BindingRow /\ ~row.revoked
    BY <2>1, <2>2 DEF RedeemReq, PairingRow, BindingRow
  <2>4. bindings' = PutBinding(bindings, row)
    BY <1>3 DEF RedeemBind
  <2> HIDE DEF row
  <2> QED
    BY <1>0, <2>3, <2>4, PutBindingWithinLimit
<1>4. \/ UNCHANGED bindings
      \/ \E b : bindings' = RevokeBinding(bindings, b)
      \/ \E w \in Worker : RedeemBind(w)
  BY DEF vars, store, Next, HostStep, SocketStep, HandlerStep, CodeStep, IssueHostToken, HostAttach,
         HostDetach, HostLabel, RegisterRead, CreatePairing, RevokeAuth, RegisterWrite, CreateWrite,
         Expire, RedeemConsume, RedeemLookup, RedeemCount, RevokeList, RevokeApply, StoreFails,
         AdminRevoke
<1> QED
  BY <1>1, <1>2, <1>3, <1>4

-----------------------------------------------------------------------------
(* IInv is inductive. *)
LEMMA StepIInv == IInv /\ [Next]_vars => IInv'
<1> SUFFICES ASSUME IInv, [Next]_vars PROVE IInv'
  OBVIOUS
<1>1. TypeOK'
  BY TypeStep DEF IInv
<1>2. CodesInFlight' /\ BoundCodesConsumed' /\ OneBindingPerCode'
  BY CodesStep DEF IInv
<1>3. RegisteringKnown'
  BY RegisteringStep DEF IInv
<1>4. OneRowPerToken'
  BY HostsStep, KeptTokens DEF IInv
<1> QED
  BY <1>1, <1>2, <1>3, <1>4 DEF IInv

(* IInv holds in every reachable state. *)
LEMMA Invariance == Spec => []IInv
BY InitIInv, StepIInv, PTL DEF Spec

(* Every row and every request in flight keeps its shape (Store, Hub).     *)
THEOREM TypeCorrect == Spec => []TypeOK
<1>1. IInv => TypeOK
  BY DEF IInv
<1> QED
  BY <1>1, Invariance, PTL

(* A code becomes at most one binding, and one of the host that asked for  *)
(* it, however many devices redeem it together (Memory.ConsumePairing,     *)
(* handleRedeem).                                                          *)
THEOREM CodesBindOnce == Spec => []OneBindingPerCode
<1>1. IInv => OneBindingPerCode
  BY DEF IInv
<1> QED
  BY <1>1, Invariance, PTL

(* A host token names at most one row, however registrations and label     *)
(* frames interleave (hostIndex, mergeHost).                               *)
THEOREM TokensNameOneRow == Spec => []OneRowPerToken
<1>1. IInv => OneRowPerToken
  BY DEF IInv
<1> QED
  BY <1>1, Invariance, PTL

(* However many redeems pass the hub's count at once, no host ever has     *)
(* more than MaxBindings bindings in force (handleRedeem, PutBinding).     *)
THEOREM LimitHolds == Spec => []BindingLimit
<1>1. Init => BindingLimit
  <2>1. SUFFICES ASSUME Init, NEW p \in Pub PROVE CountBindings(bindings, p) <= MaxBindings
    BY DEF BindingLimit
  <2>2. ActiveBindings(bindings, p) = {}
    BY <2>1 DEF Init, ActiveBindings
  <2> QED
    BY <2>2, FS_EmptySet, MaxBindingsAssumption DEF CountBindings
<1>2. IInv /\ BindingLimit /\ [Next]_vars => BindingLimit'
  BY LimitStep DEF IInv
<1> QED
  BY <1>1, <1>2, Invariance, PTL DEF Spec

(* A token that authenticates once authenticates for ever.                 *)
THEOREM TokensLast == Spec => TokensStayValid
<1>1. IInv /\ [Next]_vars => [\A t \in Token : KnownToken(hosts, t) => KnownToken(hosts', t)]_vars
  BY HostsStep, KeptTokens DEF IInv
<1> QED
  BY <1>1, Invariance, PTL DEF Spec, TokensStayValid

(* A stored label is replaced or kept, never cleared. *)
THEOREM LabelsLast == Spec => LabelNeverCleared
<1>1. IInv /\ [Next]_vars
        => [\A i \in DOMAIN hosts : hosts[i].label # None => hosts'[i].label # None]_vars
  BY HostsStep DEF IInv, HostsKept
<1> QED
  BY <1>1, Invariance, PTL DEF Spec, LabelNeverCleared

-----------------------------------------------------------------------------
(* The control plane keeps the promise of a one-time code.                 *)

(* What PairingPromise sees of the rows. *)
CodeView == [c \in DOMAIN pairings |-> [host |-> pairings[c].host, state |-> CodeState(c)]]
ActiveView == [p \in Pub |-> CountBindings(bindings, p)]

BindingOf(c) == {b \in DOMAIN bindings : bindings[b].session = c}

(* The state of a code, and what it depends on. *)
LEMMA CodeStates ==
  ASSUME IInv, NEW c \in DOMAIN pairings
  PROVE  /\ BindingOf(c) # {} => CodeState(c) = "bound" /\ pairings[c].consumed
         /\ BindingOf(c) = {} /\ pairings[c].consumed => CodeState(c) = "spent"
         /\ BindingOf(c) = {} /\ ~pairings[c].consumed /\ pairings[c].expired => CodeState(c) = "dead"
         /\ Redeemable(pairings, c) => CodeState(c) = "live"
BY DEF CodeState, BindingOf, Redeemable, IInv, BoundCodesConsumed

(* One code goes to another state, and the other codes stay where they are.*)
LEMMA OneCodeBecomes ==
  ASSUME NEW k \in DOMAIN pairings, NEW from, NEW to,
         CodeState(k) = from, CodeState(k)' = to,
         DOMAIN pairings' = DOMAIN pairings,
         \A c \in DOMAIN pairings : pairings'[c].host = pairings[c].host,
         \A c \in DOMAIN pairings : c # k => CodeState(c)' = CodeState(c)
  PROVE  Promise!Become(k, from, to)
<1>1. k \in DOMAIN CodeView /\ CodeView[k].state = from
  BY DEF CodeView
<1>2. ASSUME NEW c \in DOMAIN pairings
      PROVE  CodeView'[c] = IF c = k THEN [CodeView[k] EXCEPT !.state = to] ELSE CodeView[c]
  BY DEF CodeView
<1>3. CodeView' = [CodeView EXCEPT ![k].state = to]
  BY <1>2 DEF CodeView
<1> QED
  BY <1>1, <1>3 DEF Promise!Become, CodeView

(* The initial states are initial states of the promise. *)
LEMMA InitKeepsPromise == Init => Promise!Init
<1> SUFFICES ASSUME Init PROVE Promise!Init
  OBVIOUS
<1>1. DOMAIN pairings = {} /\ DOMAIN bindings = {}
  BY DEF Init
<1>2. CodeView = <<>>
  BY <1>1 DEF CodeView
<1>3. ASSUME NEW p \in Pub PROVE CountBindings(bindings, p) = 0
  BY <1>1, FS_EmptySet DEF CountBindings, ActiveBindings
<1> QED
  BY <1>2, <1>3 DEF Promise!Init, CodeView

(* Handing out a code is Issue. *)
LEMMA CreateIsIssue ==
  ASSUME IInv, NEW w \in Worker, CreateWrite(w)
  PROVE  \E p \in Pub : Promise!Issue(p)
<1> DEFINE p == req[w].host
           row == [host |-> p, expired |-> FALSE, consumed |-> FALSE]
           e == [host |-> p, state |-> "live"]
<1>0. pairings \in Seq(PairingRow) /\ req \in [Worker -> Request]
  BY DEF IInv, TypeOK
<1>1. p \in Pub
  BY <1>0, RequestKinds DEF CreateWrite, CreateReq
<1>2. row \in PairingRow /\ ~row.consumed /\ ~row.expired /\ row.host = p
  BY <1>1 DEF PairingRow
<1>3. pairings' = Append(pairings, row) /\ bindings' = bindings
  BY DEF CreateWrite, PutPairing
<1> HIDE DEF row
<1>n. PICK n : n = Len(pairings) + 1
  OBVIOUS
<1>4. /\ DOMAIN pairings' = DOMAIN pairings \cup {n} /\ n \notin DOMAIN pairings
      /\ \A c \in DOMAIN pairings : pairings'[c] = pairings[c]
      /\ pairings'[n] = row
  BY <1>0, <1>2, <1>3, <1>n, AppendRow
<1>5. CodeState(n)' = "live"
  <2>1. \A b \in DOMAIN bindings : bindings[b].session # n
    BY <1>4 DEF IInv, OneBindingPerCode
  <2> QED
    BY <1>2, <1>3, <1>4, <2>1 DEF CodeState
<1>6. \A c \in DOMAIN pairings : CodeState(c)' = CodeState(c)
  BY <1>3, <1>4 DEF CodeState
<1>7. CodeView' = Append(CodeView, e)
  <2>1. Len(pairings) \in Nat /\ DOMAIN pairings = 1..Len(pairings)
    BY <1>0, RowsOfSeq
  <2>2. \A c \in 1..Len(pairings) : CodeView[c] \in {CodeView[i] : i \in 1..Len(pairings)}
    OBVIOUS
  <2>3. CodeView \in Seq({CodeView[i] : i \in 1..Len(pairings)} \cup {e})
    BY <2>1, <2>2, SeqDef DEF CodeView
  <2>4. Len(CodeView) = Len(pairings)
    BY <2>1, <2>3, LenProperties DEF CodeView
  <2>5. /\ DOMAIN Append(CodeView, e) = DOMAIN pairings'
        /\ \A c \in DOMAIN pairings : Append(CodeView, e)[c] = CodeView[c]
        /\ Append(CodeView, e)[n] = e
    BY <1>n, <1>4, <2>1, <2>3, <2>4, AppendRow
  <2>6. DOMAIN CodeView' = DOMAIN pairings' /\ CodeView'[n] = e
    BY <1>2, <1>4, <1>5 DEF CodeView
  <2>7. \A c \in DOMAIN pairings : CodeView'[c] = CodeView[c]
    BY <1>4, <1>6 DEF CodeView
  <2>8. Append(CodeView, e) = [c \in DOMAIN pairings' |-> Append(CodeView, e)[c]]
    BY <2>3, <2>5, AppendRow, LenProperties
  <2>9. CodeView' = [c \in DOMAIN pairings' |-> CodeView'[c]]
    BY DEF CodeView
  <2> QED
    BY <1>4, <2>5, <2>6, <2>7, <2>8, <2>9
<1> QED
  BY <1>1, <1>3, <1>7 DEF Promise!Issue, CodeView

(* Running out is Expire: the code was good, so it had no binding. *)
LEMMA ExpireIsExpire ==
  ASSUME IInv, NEW c \in DOMAIN pairings, Expire(c)
  PROVE  Promise!Expire(c)
<1> DEFINE row == pairings[c]
           new == [row EXCEPT !.expired = TRUE]
<1>0. pairings \in Seq(PairingRow) /\ row \in PairingRow
  BY RowsOfSeq DEF IInv, TypeOK
<1>1. new \in PairingRow /\ new.host = row.host /\ new.consumed = row.consumed /\ new.expired
  BY <1>0 DEF PairingRow
<1>2. pairings' = [pairings EXCEPT ![c] = new] /\ bindings' = bindings /\ Redeemable(pairings, c)
  BY DEF Expire
<1> HIDE DEF new
<1>3. /\ DOMAIN pairings' = DOMAIN pairings /\ pairings'[c] = new
      /\ \A i \in DOMAIN pairings : i # c => pairings'[i] = pairings[i]
  BY <1>0, <1>1, <1>2, ExceptRow
<1>4. CodeState(c) = "live"
  BY <1>2, CodeStates
<1>5. CodeState(c)' = "dead"
  BY <1>1, <1>2, <1>3 DEF Redeemable, CodeState, IInv, BoundCodesConsumed
<1>6. \A i \in DOMAIN pairings : i # c => CodeState(i)' = CodeState(i)
  BY <1>2, <1>3 DEF CodeState
<1>7. Promise!Become(c, "live", "dead")
  BY <1>1, <1>3, <1>4, <1>5, <1>6, OneCodeBecomes
<1> QED
  BY <1>2, <1>7 DEF Promise!Expire

(* Consuming is Spend. *)
LEMMA ConsumeIsSpend ==
  ASSUME IInv, NEW w \in Worker, NEW c \in DOMAIN pairings, NEW d \in Device, RedeemConsume(w, c, d)
  PROVE  Promise!Spend(c)
<1>0. pairings \in Seq(PairingRow)
  BY DEF IInv, TypeOK
<1>1. pairings' = ConsumePairing(pairings, c) /\ bindings' = bindings /\ Redeemable(pairings, c)
  BY DEF RedeemConsume
<1>2. /\ DOMAIN pairings' = DOMAIN pairings /\ pairings'[c].consumed
      /\ \A i \in DOMAIN pairings :
           /\ pairings'[i].host = pairings[i].host
           /\ i # c => pairings'[i] = pairings[i]
  BY <1>0, <1>1, ConsumePairingRows
<1>3. CodeState(c) = "live"
  BY <1>1, CodeStates
<1>4. CodeState(c)' = "spent"
  BY <1>1, <1>2 DEF Redeemable, CodeState, IInv, BoundCodesConsumed
<1>5. \A i \in DOMAIN pairings : i # c => CodeState(i)' = CodeState(i)
  BY <1>1, <1>2 DEF CodeState
<1>6. Promise!Become(c, "live", "spent")
  BY <1>2, <1>3, <1>4, <1>5, OneCodeBecomes
<1> QED
  BY <1>1, <1>6 DEF Promise!Spend

(* A change of the bindings that keeps every code's state is no step of    *)
(* the codes.                                                              *)
LEMMA CodesStay ==
  ASSUME pairings' = pairings,
         \A c \in DOMAIN pairings : BindingOf(c)' = {} <=> BindingOf(c) = {}
  PROVE  CodeView' = CodeView
<1>1. \A c \in DOMAIN pairings : CodeState(c)' = CodeState(c)
  BY DEF CodeState, BindingOf
<1> QED
  BY <1>1 DEF CodeView

(* Writing a binding is Bind, unless the store refuses it. *)
LEMMA BindIsBind ==
  ASSUME IInv, NEW w \in Worker, RedeemBind(w)
  PROVE  \/ \E c \in DOMAIN pairings : Promise!Bind(c)
         \/ UNCHANGED <<pairings, bindings>>
<1> DEFINE row == [host |-> pairings[req[w].code].host, device |-> req[w].device,
                   session |-> req[w].code, revoked |-> FALSE]
<1>0. /\ pairings \in Seq(PairingRow) /\ bindings \in Seq(BindingRow)
      /\ req \in [Worker -> Request]
  BY DEF IInv, TypeOK
<1>c. PICK c : c = req[w].code
  OBVIOUS
<1>h. PICK h : h = pairings[c].host
  OBVIOUS
<1>1. req[w] \in RedeemReq /\ Redeeming(w)
  BY <1>0, RequestKinds DEF RedeemBind, Redeeming
<1>2. c \in DOMAIN pairings /\ pairings[c].consumed /\ BindingOf(c) = {}
  BY <1>c, <1>1 DEF IInv, CodesInFlight, BindingOf
<1>3. h \in Pub
  <2>1. pairings[c] \in PairingRow
    BY <1>0, <1>2, RowsOfSeq
  <2> QED
    BY <1>h, <2>1 DEF PairingRow
<1>4. row \in BindingRow /\ ~row.revoked /\ row.session = c /\ row.host = h
  BY <1>c, <1>h, <1>1, <1>3 DEF RedeemReq, BindingRow
<1>5. bindings' = PutBinding(bindings, row) /\ pairings' = pairings
  BY DEF RedeemBind
<1> HIDE DEF row
<1>6. CASE CountBindings(bindings, h) >= MaxBindings
  BY <1>4, <1>5, <1>6 DEF PutBinding
<1>7. CASE ~(CountBindings(bindings, h) >= MaxBindings)
  <2>1. bindings' = Append(bindings, row)
    BY <1>4, <1>5, <1>7 DEF PutBinding
  <2>2. PICK n : n = Len(bindings) + 1
    OBVIOUS
  <2>3. /\ DOMAIN bindings' = DOMAIN bindings \cup {n}
        /\ \A b \in DOMAIN bindings : bindings'[b] = bindings[b]
        /\ bindings'[n] = row
    BY <1>0, <1>4, <2>1, <2>2, AppendRow
  <2>4. CodeState(c) = "spent"
    BY <1>2, CodeStates
  <2>5. CodeState(c)' = "bound"
    BY <1>4, <2>3 DEF CodeState
  <2>6. \A i \in DOMAIN pairings : i # c => CodeState(i)' = CodeState(i)
    BY <1>4, <1>5, <2>3 DEF CodeState
  <2>7. Promise!Become(c, "spent", "bound")
    BY <1>2, <1>5, <2>4, <2>5, <2>6, OneCodeBecomes
  <2>8. ASSUME NEW p \in Pub
        PROVE  CountBindings(bindings', p)
                 = IF p = h THEN CountBindings(bindings, p) + 1 ELSE CountBindings(bindings, p)
    BY <1>0, <1>4, <2>1, CountAfterAppend
  <2>9. ActiveView' = [ActiveView EXCEPT ![h] = @ + 1]
    BY <1>3, <2>8 DEF ActiveView
  <2>10. ActiveView[h] < MaxBindings
    BY <1>0, <1>3, <1>7, ActiveFinite, MaxBindingsAssumption DEF ActiveView
  <2>11. CodeView[c].host = h
    BY <1>h, <1>2 DEF CodeView
  <2>12. Promise!Bind(c)
    BY <2>7, <2>9, <2>10, <2>11 DEF Promise!Bind, CodeView, ActiveView
  <2> QED
    BY <1>2, <2>12
<1> QED
  BY <1>6, <1>7

(* Revoking is Revoke for a binding in force, and nothing for another one. *)
LEMMA RevokeIsRevoke ==
  ASSUME IInv, NEW b, pairings' = pairings, bindings' = RevokeBinding(bindings, b)
  PROVE  \/ \E p \in Pub : Promise!Revoke(p)
         \/ UNCHANGED <<CodeView, ActiveView>>
<1>0. bindings \in Seq(BindingRow)
  BY DEF IInv, TypeOK
<1>1. /\ DOMAIN bindings' = DOMAIN bindings
      /\ \A i \in DOMAIN bindings : bindings'[i].session = bindings[i].session
  BY <1>0, RevokeBindingRows
<1>2. CodeView' = CodeView
  BY <1>1, CodesStay DEF BindingOf
<1>3. ASSUME NEW p \in Pub
      PROVE  CountBindings(bindings', p)
               = IF b \in ActiveBindings(bindings, p) THEN CountBindings(bindings, p) - 1
                 ELSE CountBindings(bindings, p)
  BY <1>0, CountAfterRevoke
<1>4. CASE \E p \in Pub : b \in ActiveBindings(bindings, p)
  <2>1. PICK p \in Pub : b \in ActiveBindings(bindings, p)
    BY <1>4
  <2>2. \A q \in Pub : q # p => b \notin ActiveBindings(bindings, q)
    BY <2>1 DEF ActiveBindings
  <2>3. ActiveView' = [ActiveView EXCEPT ![p] = @ - 1]
    BY <1>3, <2>1, <2>2 DEF ActiveView
  <2>4. CountBindings(bindings, p) # 0 /\ CountBindings(bindings, p) \in Nat
    BY <1>0, <2>1, ActiveFinite, FS_EmptySet DEF CountBindings
  <2>5. ActiveView[p] > 0
    BY <2>1, <2>4 DEF ActiveView
  <2>6. Promise!Revoke(p)
    BY <1>2, <2>3, <2>5 DEF Promise!Revoke, CodeView, ActiveView
  <2> QED
    BY <2>6
<1>5. CASE \A p \in Pub : b \notin ActiveBindings(bindings, p)
  BY <1>2, <1>3, <1>5 DEF ActiveView
<1> QED
  BY <1>4, <1>5

(* Every step of the control plane is a step of the promise or none. *)
LEMMA StepKeepsPromise == IInv /\ [Next]_vars => [Promise!Next]_(Promise!vars)
<1> SUFFICES ASSUME IInv, [Next]_vars
             PROVE  Promise!Next \/ UNCHANGED <<CodeView, ActiveView>>
  BY DEF Promise!vars, CodeView, ActiveView
<1>1. CASE UNCHANGED <<pairings, bindings>>
  <2>1. CodeView' = CodeView
    BY <1>1, CodesStay DEF BindingOf
  <2>2. ActiveView' = ActiveView
    BY <1>1 DEF ActiveView
  <2> QED
    BY <2>1, <2>2
<1>2. ASSUME NEW w \in Worker, CreateWrite(w) PROVE Promise!Next
  BY <1>2, CreateIsIssue DEF Promise!Next
<1>3. ASSUME NEW c \in DOMAIN pairings, Promise!Expire(c) \/ Promise!Spend(c) \/ Promise!Bind(c)
      PROVE  Promise!Next
  BY <1>3 DEF Promise!Next
<1>4. ASSUME NEW c \in DOMAIN pairings, Expire(c) PROVE Promise!Next
  BY <1>3, <1>4, ExpireIsExpire
<1>5. ASSUME NEW w \in Worker, NEW c \in DOMAIN pairings, NEW d \in Device, RedeemConsume(w, c, d)
      PROVE  Promise!Next
  BY <1>3, <1>5, ConsumeIsSpend
<1>6. ASSUME NEW w \in Worker, RedeemBind(w)
      PROVE  Promise!Next \/ UNCHANGED <<pairings, bindings>>
  BY <1>3, <1>6, BindIsBind
<1>7. ASSUME NEW w \in Worker, RevokeApply(w)
      PROVE  Promise!Next \/ UNCHANGED <<CodeView, ActiveView>>
  BY <1>7, RevokeIsRevoke DEF RevokeApply, Promise!Next
<1>8. ASSUME NEW b \in DOMAIN bindings, AdminRevoke(b)
      PROVE  Promise!Next \/ UNCHANGED <<CodeView, ActiveView>>
  BY <1>8, RevokeIsRevoke DEF AdminRevoke, Promise!Next
<1>9. \/ UNCHANGED <<pairings, bindings>>
      \/ \E w \in Worker : CreateWrite(w) \/ RedeemBind(w) \/ RevokeApply(w)
      \/ \E c \in DOMAIN pairings :
           Expire(c) \/ \E w \in Worker, d \in Device : RedeemConsume(w, c, d)
      \/ \E b \in DOMAIN bindings : AdminRevoke(b)
  BY DEF vars, store, Next, HostStep, SocketStep, HandlerStep, CodeStep, IssueHostToken, HostAttach,
         HostDetach, HostLabel, RegisterRead, CreatePairing, RevokeAuth, RegisterWrite,
         RedeemLookup, RedeemCount, RevokeList, StoreFails
<1> QED
  BY <1>1, <1>2, <1>4, <1>5, <1>6, <1>7, <1>8, <1>9

(* Scanning a code is what PairingPromise says it is: the handlers, their  *)
(* store calls and everything between them implement a code that is used   *)
(* once, becomes one binding of its host at most, and never takes a host   *)
(* above MaxBindings (handleRedeem, Memory.ConsumePairing, PutBinding).    *)
THEOREM CodesKeepPromise == Spec => KeepsPromise
<1>1. Init => Promise!Init
  BY InitKeepsPromise
<1>2. IInv /\ [Next]_vars => [Promise!Next]_(Promise!vars)
  BY StepKeepsPromise
<1> QED
  BY <1>1, <1>2, Invariance, PTL DEF Spec, KeepsPromise, Promise!Spec

=============================================================================
