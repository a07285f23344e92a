----------------------------- MODULE MCService ------------------------------
(* Service with a few connections.                                         *)
EXTENDS Service

CONSTANTS c1, c2
=============================================================================
