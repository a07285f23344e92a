----------------------------- MODULE MCKeepalive -----------------------------
(* Instances of Keepalive for TLC; the configurations give the constants.  *)
EXTENDS Keepalive
=============================================================================
