---------------------------- MODULE MCSQLStore ----------------------------
EXTENDS SQLStore

CONSTANTS t1, p1, p2, d1, d2, l1

Binding(h, d, revoked, created) ==
  [host |-> h, device |-> d, revoked |-> revoked, created |-> created, seen |-> 0, label |-> None]

(* A new file, and one an earlier process left: a device with a binding of *)
(* each of two hosts and a revoked one, a code that is good and one that   *)
(* is late, and as many traces as are kept.                                *)
SomeFiles ==
  { [hosts |-> <<>>, pairings |-> <<>>, bindings |-> <<>>, traces |-> <<>>],
    [hosts |-> << [token |-> t1, pub |-> p1, label |-> None] >>,
     pairings |-> << [host |-> p1, late |-> FALSE, consumed |-> FALSE],
                     [host |-> p1, late |-> TRUE, consumed |-> FALSE] >>,
     bindings |-> << Binding(p1, d1, TRUE, 2), Binding(p2, d1, FALSE, 1), Binding(p1, d1, FALSE, 2) >>,
     traces |-> <<1, 2>>] }

SomeRequests ==
  { [op |-> "PutHost", row |-> [token |-> t1, pub |-> p1, label |-> l1]],
    [op |-> "PutHost", row |-> [token |-> None, pub |-> p2, label |-> None]],
    [op |-> "PutPairing", row |-> [host |-> p1, late |-> FALSE, consumed |-> FALSE]],
    [op |-> "ConsumePairing", code |-> 1], [op |-> "ConsumePairing", code |-> 2],
    [op |-> "PutBinding", row |-> Binding(p1, d1, FALSE, 1)],
    [op |-> "PutBinding", row |-> Binding(p1, d2, FALSE, 3)],
    [op |-> "RevokeBinding", id |-> 1], [op |-> "RevokeBinding", id |-> 3],
    [op |-> "NoteDeviceSeen", device |-> d1, at |-> 1],
    [op |-> "NoteDeviceSeen", device |-> d1, at |-> 2],
    [op |-> "SetDeviceLabels", device |-> d1, label |-> l1],
    [op |-> "AppendTrace", event |-> 3],
    [op |-> "BindingByPeers", host |-> p1, device |-> d1],
    [op |-> "ListBindings", host |-> p1], [op |-> "Trace"] }
=============================================================================
