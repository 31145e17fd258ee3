---------------------------- MODULE ControlPlane ----------------------------
(***************************************************************************)
(* The hub's HTTP control plane: issuing host tokens, registering a host   *)
(* key, creating and redeeming pairing codes, revoking bindings, and the   *)
(* label frames of host sockets, which write the same host rows.           *)
(*                                                                         *)
(* net/http runs every request on a goroutine of its own and the hub holds *)
(* no lock across a handler, so a handler is a sequence of atomic store    *)
(* calls.  A worker is such a goroutine; req[w] is what its local          *)
(* variables hold between two calls.  A refused call answers an error and  *)
(* frees the worker without writing.                                       *)
(*                                                                         *)
(* Abstracted: trace rows; JSON and header parsing; the clock (pairingTTL  *)
(* is the point where Expire(c) becomes possible).  The socket table is    *)
(* reduced to the set of hosts that are online; module Relay has the       *)
(* sockets themselves.                                                     *)
(***************************************************************************)
EXTENDS Store

CONSTANTS
  Worker,       \* request goroutines that may run at the same time
  MaxPairings   \* bound: codes handed out in one behaviour

ASSUME MaxPairingsAssumption == MaxPairings \in Nat

VARIABLES
  hosts, pairings, bindings,   \* the store's rows, in insertion order
  online,                      \* public keys of hosts with a live socket
  req                          \* what each worker is in the middle of

store == <<hosts, pairings, bindings>>
vars == <<hosts, pairings, bindings, online, req>>

Idle == [op |-> "idle"]
RegisterReq == [op : {"register"}, label : Label \cup {None}, row : HostRow]
CreateReq == [op : {"create"}, host : Pub]
RedeemReq == [op : {"lookup", "count", "bind"}, code : Nat, device : Device]
RevokeReq == [op : {"list", "revoke"}, host : Pub \cup {None}, binding : Nat]
Request == {Idle} \cup RegisterReq \cup CreateReq \cup RedeemReq \cup RevokeReq

Redeeming(w) == req[w].op \in {"lookup", "count", "bind"}

Init ==
  /\ hosts = <<>> /\ pairings = <<>> /\ bindings = <<>>
  /\ online = {}
  /\ req = [w \in Worker |-> Idle]

Become(w, r) == req' = [req EXCEPT ![w] = r]

-----------------------------------------------------------------------------
(* IssueHostToken, from the command line or the admin page: a fresh token, *)
(* no key and no label yet.                                                *)
IssueHostToken(t) ==
  /\ ~KnownToken(hosts, t)
  /\ hosts' = PutHost(hosts, [token |-> t, pub |-> None, label |-> None])
  /\ UNCHANGED <<pairings, bindings, online, req>>

(* Register reads the host row of its token, ...                           *)
RegisterRead(w, t, p, l) ==
  /\ req[w] = Idle
  /\ KnownToken(hosts, t)
  /\ LET host == HostByToken(hosts, t)
     IN  Become(w, [op |-> "register", label |-> l,
                    row |-> [host EXCEPT !.pub = p,
                                         !.label = IF l # None THEN l ELSE @]])
  /\ UNCHANGED <<store, online>>

(* ... and puts the whole row back in a second store call.                 *)
RegisterWrite(w) ==
  /\ req[w].op = "register"
  /\ hosts' = PutHost(hosts, req[w].row)
  /\ Become(w, Idle)
  /\ UNCHANGED <<pairings, bindings, online>>

(* A TypeLabel frame on the socket of host key p: the row is found by key. *)
HostLabel(p, l) ==
  /\ p \in online
  /\ hosts' = PutHost(hosts, [token |-> None, pub |-> p, label |-> l])
  /\ UNCHANGED <<pairings, bindings, online, req>>

(* A host socket needs a token whose row has a key; it is known by the key.*)
HostAttach(t) ==
  /\ KnownToken(hosts, t)
  /\ HostByToken(hosts, t).pub # None
  /\ online' = online \cup {HostByToken(hosts, t).pub}
  /\ UNCHANGED <<store, req>>

HostDetach(p) ==
  /\ p \in online
  /\ online' = online \ {p}
  /\ UNCHANGED <<store, req>>

-----------------------------------------------------------------------------
(* Mutant: a host that has not registered a key may ask for a code. *)
CreatePairingUnregistered(w, t) ==
  /\ req[w] = Idle
  /\ KnownToken(hosts, t)
  /\ Become(w, [op |-> "create", host |-> HostByToken(hosts, t).pub])
  /\ UNCHANGED <<store, online>>

(* A code is asked for with a host token whose row has a key.              *)
CreatePairing(w, t) ==
  /\ req[w] = Idle
  /\ KnownToken(hosts, t)
  /\ HostByToken(hosts, t).pub # None
  /\ Become(w, [op |-> "create", host |-> HostByToken(hosts, t).pub])
  /\ UNCHANGED <<store, online>>

CreateWrite(w) ==
  /\ req[w].op = "create"
  /\ Len(pairings) < MaxPairings
  /\ pairings' = PutPairing(pairings, req[w].host)
  /\ Become(w, Idle)
  /\ UNCHANGED <<hosts, bindings, online>>

(* Ten minutes after it was created, a code that was not redeemed is void. *)
Expire(c) ==
  /\ Redeemable(pairings, c)
  /\ pairings' = [pairings EXCEPT ![c].expired = TRUE]
  /\ UNCHANGED <<hosts, bindings, online, req>>

(* Redeem takes the code before it checks anything else ...                *)
RedeemConsume(w, c, d) ==
  /\ req[w] = Idle
  /\ Redeemable(pairings, c)
  /\ pairings' = ConsumePairing(pairings, c)
  /\ Become(w, [op |-> "lookup", code |-> c, device |-> d])
  /\ UNCHANGED <<hosts, bindings, online>>

(* ... then wants the host online (else 409 and the code is gone), ...     *)
RedeemLookup(w) ==
  /\ req[w].op = "lookup"
  /\ IF pairings[req[w].code].host \in online
       THEN Become(w, [req[w] EXCEPT !.op = "count"])
       ELSE Become(w, Idle)
  /\ UNCHANGED <<store, online>>

(* ... then fewer than MaxBindings bindings, ...                           *)
RedeemCount(w) ==
  /\ req[w].op = "count"
  /\ IF CountBindings(bindings, pairings[req[w].code].host) < MaxBindings
       THEN Become(w, [req[w] EXCEPT !.op = "bind"])
       ELSE Become(w, Idle)
  /\ UNCHANGED <<store, online>>

(* ... and writes the binding, which the store may still refuse.           *)
RedeemBind(w) ==
  /\ req[w].op = "bind"
  /\ bindings' = PutBinding(bindings,
                   [host |-> pairings[req[w].code].host, device |-> req[w].device,
                    session |-> req[w].code, revoked |-> FALSE])
  /\ Become(w, Idle)
  /\ UNCHANGED <<hosts, pairings, online>>

(* Revoke authenticates the host, lists its active bindings to see that    *)
(* the id is one of them, and revokes by id: three store calls.            *)
RevokeAuth(w, t, b) ==
  /\ req[w] = Idle
  /\ KnownToken(hosts, t)
  /\ b \in DOMAIN bindings
  /\ Become(w, [op |-> "list", host |-> HostByToken(hosts, t).pub, binding |-> b])
  /\ UNCHANGED <<store, online>>

RevokeList(w) ==
  /\ req[w].op = "list"
  /\ IF req[w].binding \in ActiveBindings(bindings, req[w].host)
       THEN Become(w, [req[w] EXCEPT !.op = "revoke"])
       ELSE Become(w, Idle)
  /\ UNCHANGED <<store, online>>

RevokeApply(w) ==
  /\ req[w].op = "revoke"
  /\ bindings' = RevokeBinding(bindings, req[w].binding)
  /\ Become(w, Idle)
  /\ UNCHANGED <<hosts, pairings, online>>

(* The store fails or the entropy source does: the request answers 500 and *)
(* what it had already written stays.                                      *)
StoreFails(w) ==
  /\ req[w] # Idle
  /\ Become(w, Idle)
  /\ UNCHANGED <<store, online>>

(* The admin page revokes by id alone. *)
AdminRevoke(b) ==
  /\ b \in DOMAIN bindings
  /\ bindings' = RevokeBinding(bindings, b)
  /\ UNCHANGED <<hosts, pairings, online, req>>

-----------------------------------------------------------------------------
HostStep ==
  \E t \in Token :
    \/ IssueHostToken(t)
    \/ HostAttach(t)
    \/ \E w \in Worker :
         \/ \E p \in Pub, l \in Label \cup {None} : RegisterRead(w, t, p, l)
         \/ CreatePairing(w, t)
         \/ \E b \in DOMAIN bindings : RevokeAuth(w, t, b)

SocketStep == \E p \in Pub : HostDetach(p) \/ \E l \in Label : HostLabel(p, l)

HandlerStep(w) ==
  \/ RegisterWrite(w) \/ CreateWrite(w)
  \/ RedeemLookup(w) \/ RedeemCount(w) \/ RedeemBind(w)
  \/ RevokeList(w) \/ RevokeApply(w)
  \/ StoreFails(w)

CodeStep ==
  \E c \in DOMAIN pairings :
    Expire(c) \/ \E w \in Worker, d \in Device : RedeemConsume(w, c, d)

Next ==
  \/ HostStep \/ SocketStep \/ CodeStep
  \/ \E w \in Worker : HandlerStep(w)
  \/ \E b \in DOMAIN bindings : AdminRevoke(b)

Spec == Init /\ [][Next]_vars

-----------------------------------------------------------------------------
(* Every row and every request in flight has the shape its struct has.     *)
TypeOK ==
  /\ hosts \in Seq(HostRow)
  /\ pairings \in Seq(PairingRow)
  /\ bindings \in Seq(BindingRow)
  /\ online \subseteq Pub
  /\ req \in [Worker -> Request]

(* A host never has more than MaxBindings bindings in force, however many  *)
(* redeems passed the hub's own count at the same time                     *)
(* (handleRedeem's check against Memory.PutBinding's).                     *)
BindingLimit == \A p \in Pub : CountBindings(bindings, p) <= MaxBindings

(* A code becomes at most one binding, and a binding of the host that      *)
(* asked for the code, even when two devices scan it together              *)
(* (Memory.ConsumePairing, handleRedeem).                                  *)
OneBindingPerCode ==
  /\ \A b1, b2 \in DOMAIN bindings :
       bindings[b1].session = bindings[b2].session => b1 = b2
  /\ \A b \in DOMAIN bindings :
       /\ bindings[b].session \in DOMAIN pairings
       /\ bindings[b].host = pairings[bindings[b].session].host

(* A host token names one row, however registrations, second tokens for    *)
(* the same key and label frames interleave (hostIndex, mergeHost).        *)
OneRowPerToken ==
  \A i, j \in DOMAIN hosts :
    hosts[i].token # None /\ hosts[i].token = hosts[j].token => i = j

(* A token that was issued authenticates for ever: no registration and no  *)
(* label frame takes it off its row (hostIndex looks for the token before  *)
(* it looks for the key).                                                  *)
TokensStayValid ==
  [][\A t \in Token : KnownToken(hosts, t) => KnownToken(hosts', t)]_vars

(* A label, once stored, is replaced by another label or kept: a register  *)
(* that read the row before the label arrived, and writes an empty one     *)
(* back, does not clear it (mergeHost).                                    *)
LabelNeverCleared ==
  [][\A i \in DOMAIN hosts : hosts[i].label # None => hosts'[i].label # None]_vars

(* Scanning a code is what PairingPromise says it is. *)
CodeState(c) ==
  IF \E b \in DOMAIN bindings : bindings[b].session = c THEN "bound"
  ELSE IF pairings[c].consumed THEN "spent"
  ELSE IF pairings[c].expired THEN "dead" ELSE "live"

Promise == INSTANCE PairingPromise WITH
  code <- [c \in DOMAIN pairings |-> [host |-> pairings[c].host, state |-> CodeState(c)]],
  active <- [p \in Pub |-> CountBindings(bindings, p)]

(* The handlers and the store together implement the promise of a one-time *)
(* code: single use, single binding, never above the limit.                *)
KeepsPromise == Promise!Spec

(* client/rest.go:80 says of Register that "An empty label leaves a name   *)
(* the hub already stored": a registration without a label leaves the      *)
(* token's label as it is.                                                 *)
EmptyLabelLeavesName ==
  [][\A w \in Worker :
       req[w].op = "register" /\ req[w].label = None /\ req'[w] = Idle
         => HostByToken(hosts', req[w].row.token).label
              = HostByToken(hosts, req[w].row.token).label]_vars

=============================================================================
