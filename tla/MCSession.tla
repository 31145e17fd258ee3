----------------------------- MODULE MCSession -----------------------------
(* Small instances of Session: a host and a device, two goroutines each.    *)
EXTENDS Session

=============================================================================
