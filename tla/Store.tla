------------------------------- MODULE Store -------------------------------
(***************************************************************************)
(* The hub's bounded control state (package store): hosts, pairings and    *)
(* bindings, and the calls the hub makes on them.  Each store method holds *)
(* the store's mutex (or one SQL transaction) from its first line to its   *)
(* last, so it is one operator from the rows before the call to the rows   *)
(* after it; what interleaves is the calls, in the modules that use these  *)
(* operators.                                                              *)
(*                                                                         *)
(* Rows are kept in insertion order, which is the order every scan uses.   *)
(* A code, a ticket, a binding id and a session id are fresh random values *)
(* stored hashed; a row is therefore named by its position: "the code of   *)
(* pairing i" is i, and "the ticket of binding b" is b.  The host's name   *)
(* and version go through the same code and are one label.                 *)
(***************************************************************************)
EXTENDS Naturals, Sequences, FiniteSets, FiniteSetsExt

CONSTANTS
  Token,        \* host tokens (stored as HashSecret(token))
  Pub,          \* 32-byte public keys of hosts
  Device,       \* 32-byte public keys of devices
  Label,        \* non-empty sanitized labels
  None,         \* an empty field: no token, no public key, no label
  MaxBindings   \* MaxBindingsPerHost, 32 in the source

ASSUME NoneAssumption == None \notin Token \cup Pub \cup Device \cup Label
ASSUME MaxBindingsAssumption == MaxBindings \in Nat \ {0}

HostRow == [token : Token \cup {None}, pub : Pub \cup {None}, label : Label \cup {None}]
PairingRow == [host : Pub, expired : BOOLEAN, consumed : BOOLEAN]
BindingRow == [host : Pub, device : Device, session : Nat, revoked : BOOLEAN]

-----------------------------------------------------------------------------
(* Hosts *)

TokenRows(hosts, t) == {i \in DOMAIN hosts : hosts[i].token = t}
PubRows(hosts, p) == {i \in DOMAIN hosts : hosts[i].pub = p}

(* Mutant: look for the key before the token. *)
MatchingRowsKeyFirst(hosts, h) ==
  IF h.pub # None /\ PubRows(hosts, h.pub) # {} THEN PubRows(hosts, h.pub)
  ELSE IF h.token # None THEN TokenRows(hosts, h.token) ELSE {}

(* The rows a write may land on: those of its token, else those of its     *)
(* public key.  An empty token or an empty public key matches nothing.     *)
MatchingRows(hosts, h) ==
  IF h.token # None /\ TokenRows(hosts, h.token) # {}
    THEN TokenRows(hosts, h.token)
    ELSE IF h.pub # None THEN PubRows(hosts, h.pub) ELSE {}

(* Mutants: an empty token, or an empty label, overwrites the stored one.  *)
MergeHostDetachesToken(prev, next) == [next EXCEPT !.label = IF @ = None THEN prev.label ELSE @]
MergeHostClearsLabel(prev, next) == [next EXCEPT !.token = IF @ = None THEN prev.token ELSE @]

(* A field the incoming record leaves empty keeps its stored value. *)
MergeHost(prev, next) ==
  [token |-> IF next.token = None THEN prev.token ELSE next.token,
   pub   |-> IF next.pub = None THEN prev.pub ELSE next.pub,
   label |-> IF next.label = None THEN prev.label ELSE next.label]

(* Update the first matching row, or append one. *)
PutHost(hosts, h) ==
  LET rows == MatchingRows(hosts, h)
  IN  IF rows = {} THEN Append(hosts, h)
      ELSE [hosts EXCEPT ![Min(rows)] = MergeHost(@, h)]

KnownToken(hosts, t) == TokenRows(hosts, t) # {}

HostByToken(hosts, t) == hosts[Min(TokenRows(hosts, t))]

-----------------------------------------------------------------------------
(* Pairings *)

PutPairing(pairings, p) ==
  Append(pairings, [host |-> p, expired |-> FALSE, consumed |-> FALSE])

(* Mutant: the expiry is not looked at. *)
RedeemableLate(pairings, c) == c \in DOMAIN pairings /\ ~pairings[c].consumed

(* A code is answered with its pairing once, and only before it expires. *)
Redeemable(pairings, c) ==
  c \in DOMAIN pairings /\ ~pairings[c].consumed /\ ~pairings[c].expired

(* Mutant: the row is answered but not marked. *)
ConsumePairingUnmarked(pairings, c) == pairings

ConsumePairing(pairings, c) == [pairings EXCEPT ![c].consumed = TRUE]

-----------------------------------------------------------------------------
(* Bindings *)

ActiveBindings(bindings, p) ==
  {b \in DOMAIN bindings : bindings[b].host = p /\ ~bindings[b].revoked}

CountBindings(bindings, p) == Cardinality(ActiveBindings(bindings, p))

(* Mutant: the store trusts the hub's count. *)
PutBindingUncounted(bindings, row) == Append(bindings, row)

(* The store counts again under its own lock; ErrLimit leaves the rows. *)
PutBinding(bindings, row) ==
  IF CountBindings(bindings, row.host) >= MaxBindings THEN bindings
  ELSE Append(bindings, row)

RevokeBinding(bindings, b) == [bindings EXCEPT ![b].revoked = TRUE]

=============================================================================
