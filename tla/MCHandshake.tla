----------------------------- MODULE MCHandshake -----------------------------
(* Small instances of Handshake: a host and a device.                       *)
EXTENDS Handshake, TLC

=============================================================================
