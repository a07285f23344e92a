---------------------------- MODULE MCHandshake -----------------------------
(* An instance of Handshake for TLC.                                       *)
EXTENDS Handshake

(* A password may begin with the byte that marks a device id, and be the   *)
(* tail of another one.                                                    *)
MCPasswords == {<<1>>, <<0, 1>>, <<1, 0, 1>>}
=============================================================================
