------------------------------- MODULE MCMux --------------------------------
(* An instance of Mux for TLC.                                             *)
EXTENDS Mux

CONSTANTS c1, c2

(* The client's local socket of c1 overruns the channel at the server.     *)
Chunks == [p \in Pipes |-> CASE p = <<"client", c1>> -> 2
                             [] p = <<"client", c2>> -> 1
                             [] OTHER -> 0]
=============================================================================
