-------------------------------- MODULE Pipe --------------------------------
(***************************************************************************)
(* What a tunnel promises each direction of each of its streams: a byte    *)
(* pipe that can be closed by its sender.  Chunks come out in order, none  *)
(* twice, none of another pipe.  While a pipe is not broken none is        *)
(* missing either, and its end is seen only after the last chunk of a      *)
(* sender that closed it.  A broken pipe may skip chunks and end early.    *)
(***************************************************************************)
EXTENDS Naturals, Sequences

CONSTANT Pipes

VARIABLES
  sent,     \* how many chunks the sender has put in
  got,      \* the chunks <<pipe, number>> that came out
  closed,   \* the sender has finished
  ended,    \* the receiver has seen the end
  broken    \* something went wrong with this pipe

vars == <<sent, got, closed, ended, broken>>

Init ==
  /\ sent = [p \in Pipes |-> 0] /\ got = [p \in Pipes |-> <<>>]
  /\ closed = [p \in Pipes |-> FALSE] /\ ended = [p \in Pipes |-> FALSE]
  /\ broken = [p \in Pipes |-> FALSE]

Send(p) ==
  /\ ~closed[p]
  /\ sent' = [sent EXCEPT ![p] = @ + 1]
  /\ UNCHANGED <<got, closed, ended, broken>>

Close(p) ==
  /\ closed' = [closed EXCEPT ![p] = TRUE]
  /\ UNCHANGED <<sent, got, ended, broken>>

Receive(p) ==
  /\ ~ended[p]
  /\ \E n \in 1..sent[p] :
       /\ \A k \in 1..Len(got[p]) : got[p][k][2] < n
       /\ broken[p] \/ n = Len(got[p]) + 1
       /\ got' = [got EXCEPT ![p] = Append(@, <<p, n>>)]
  /\ UNCHANGED <<sent, closed, ended, broken>>

End(p) ==
  /\ broken[p] \/ (closed[p] /\ Len(got[p]) = sent[p])
  /\ ended' = [ended EXCEPT ![p] = TRUE]
  /\ UNCHANGED <<sent, got, closed, broken>>

(* Any number of pipes break at once; a sender that is broken off closes.  *)
Break ==
  /\ \A p \in Pipes : broken[p] => broken'[p]
  /\ \A p \in Pipes : closed[p] => closed'[p]
  /\ \A p \in Pipes : closed'[p] # closed[p] => broken'[p]
  /\ UNCHANGED <<sent, got, ended>>

Next == Break \/ \E p \in Pipes : Send(p) \/ Close(p) \/ Receive(p) \/ End(p)

Spec == Init /\ [][Next]_vars
=============================================================================
