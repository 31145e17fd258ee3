---------------------------- MODULE MCPathSelect ----------------------------
(* A small instance of PathSelect; the bounds are in the configuration. *)
EXTENDS PathSelect

=============================================================================
