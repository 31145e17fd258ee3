--------------------------- MODULE MCClientSocket ---------------------------
(* Small instances of ClientSocket. *)
EXTENDS ClientSocket, TLC

=============================================================================
