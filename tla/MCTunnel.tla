------------------------------ MODULE MCTunnel ------------------------------
(* Instances of Tunnel for TLC; the configurations give the constants.     *)
EXTENDS Tunnel
=============================================================================
