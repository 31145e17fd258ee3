--------------------------- MODULE PairingPromise ---------------------------
(***************************************************************************)
(* What scanning a code promises, without requests, rows or locks.  A code *)
(* belongs to the host that asked for it, lives until it is redeemed or    *)
(* runs out, and becomes at most one binding, of that host; a host never   *)
(* has more than MaxBindings active bindings; a binding ends by revocation *)
(* and its code stays used.                                                *)
(***************************************************************************)
EXTENDS Naturals, Sequences

CONSTANTS Pub, MaxBindings

VARIABLES
  code,     \* code[c] = [host, state]: one record for each code handed out
  active    \* active[p]: how many bindings of host p are in force

vars == <<code, active>>

Init == code = <<>> /\ active = [p \in Pub |-> 0]

Become(c, from, to) ==
  /\ c \in DOMAIN code
  /\ code[c].state = from
  /\ code' = [code EXCEPT ![c].state = to]

Issue(p) ==
  /\ code' = Append(code, [host |-> p, state |-> "live"])
  /\ UNCHANGED active

Expire(c) == Become(c, "live", "dead") /\ UNCHANGED active

(* Redeeming takes the code at once; the binding may follow, or never. *)
Spend(c) == Become(c, "live", "spent") /\ UNCHANGED active

Bind(c) ==
  /\ Become(c, "spent", "bound")
  /\ active[code[c].host] < MaxBindings
  /\ active' = [active EXCEPT ![code[c].host] = @ + 1]

Revoke(p) ==
  /\ active[p] > 0
  /\ active' = [active EXCEPT ![p] = @ - 1]
  /\ UNCHANGED code

Next ==
  \/ \E p \in Pub : Issue(p) \/ Revoke(p)
  \/ \E c \in DOMAIN code : Expire(c) \/ Spend(c) \/ Bind(c)

Spec == Init /\ [][Next]_vars

=============================================================================
