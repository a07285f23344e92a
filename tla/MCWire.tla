------------------------------- MODULE MCWire -------------------------------
(* An instance of Wire for TLC.                                            *)
EXTENDS Wire

(* Every type, also unknown, with every declared and every actual length;  *)
(* a stream id of two bytes; plaintexts without a whole header.            *)
MCPlains ==
  {<<t, 0, 1, 0, l>> \o [i \in 1..n |-> 3] : t \in 0..6, l \in 0..2, n \in 0..2}
  \cup {<<DATA, 1, 7, 0, 1, 3>>, <<>>, <<CLOSE, 0, 1, 0>>}
=============================================================================
