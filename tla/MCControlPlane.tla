--------------------------- MODULE MCControlPlane ---------------------------
(***************************************************************************)
(* Small instances of ControlPlane.  Tokens, keys, devices, labels and     *)
(* workers are only compared with each other, so each set is symmetric.    *)
(***************************************************************************)
EXTENDS ControlPlane, TLC

Symmetric ==
  Permutations(Token) \cup Permutations(Pub) \cup Permutations(Device)
    \cup Permutations(Label) \cup Permutations(Worker)

=============================================================================
