-------------------------------- MODULE Mux ---------------------------------
(***************************************************************************)
(* The two ends of a tunnel and the streams between them: what the local   *)
(* socket of one end sends, the uplink of pump_stream, the frame queue and *)
(* the wire, the reader with its registry, the inbound channel and the     *)
(* downlink, up to the local socket of the other end.                      *)
(*                                                                         *)
(* A pipe <<e, c>> is the direction of connection c that end e sends.  A   *)
(* frame queue, the socket behind it and the RecordBuf at the far end are  *)
(* one FIFO, wire[e].  A chunk is its pipe and its number.  How a tunnel   *)
(* dies is the matter of Tunnel; here Dies stands for all of it.           *)
(***************************************************************************)
EXTENDS Naturals, Sequences, FiniteSets

CONSTANTS
  Conns,       \* connections accepted by the client
  IdSpace,     \* how many ids there are (2^32 in the code)
  MaxChunks,   \* bound: chunks the local socket of each pipe sends
  WireCap,     \* FRAME_CHANNEL_CAPACITY and what the socket buffers
  InboundCap,  \* INBOUND_CAPACITY
  MaxBad,      \* bound: bad records
  NoConn       \* not a connection

ASSUME MuxAssumption ==
  /\ IsFiniteSet(Conns) /\ IdSpace \in Nat /\ Cardinality(Conns) <= IdSpace
  /\ MaxChunks \in [{"client", "server"} \X Conns -> Nat] /\ MaxBad \in Nat
  /\ WireCap \in Nat \ {0} /\ InboundCap \in Nat \ {0}
  /\ NoConn \notin Conns

VARIABLES
  nextId,      \* CarrierHandle::next_id of the client
  idOf,        \* the stream id of a connection
  entry,       \* StreamRegistry::streams of each end: id to connection
  wire,        \* the frames an end has sent and the other not dispatched
  chan,        \* the inbound channel at the far end of a pipe
  up,          \* the sender of a pipe: opener or on_open, then the uplink
  down,        \* the receiver of a pipe: its channel, then the downlink
  sent, got,   \* history: chunks that entered a pipe, that left it
  broken,      \* history: connections hit by a fault
  bad,         \* history: connections that lost a record to corruption
  dead         \* the tunnel died

vars == <<nextId, idOf, entry, wire, chan, up, down, sent, got, broken, bad, dead>>

Ends == {"client", "server"}
Ids == 0..(IdSpace - 1)
Pipes == Ends \X Conns
Other(e) == IF e = "client" THEN "server" ELSE "client"
Frame(t, c, p, n) == [type |-> t, id |-> idOf[c], load |-> <<p, n>>]

-----------------------------------------------------------------------------
Room(e) == Len(wire[e]) < WireCap

Send(e, f) == ~dead /\ Room(e) /\ wire' = [wire EXCEPT ![e] = Append(@, f)]

BestEffort(e, f) == Send(e, f) \/ (dead /\ UNCHANGED wire)

Breaks(C) == broken' = broken \cup C

AllocId == nextId % IdSpace

(* accept_connection: register, then OPEN, then the pump.                  *)
ClientRegister(c) ==
  /\ ~dead /\ up[<<"client", c>>] = "off"
  /\ idOf' = [idOf EXCEPT ![c] = AllocId]
  /\ nextId' = nextId + 1
  /\ entry' = [entry EXCEPT !["client"][AllocId] = c]
  /\ up' = [up EXCEPT ![<<"client", c>>] = "opening"]
  /\ down' = [down EXCEPT ![<<"server", c>>] = "wait"]
  /\ UNCHANGED <<wire, chan, sent, got, broken, bad, dead>>

ClientOpen(c) ==
  LET p == <<"client", c>>
      q == <<"server", c>>
  IN  /\ up[p] = "opening"
      /\ \/ /\ Send("client", Frame("OPEN", c, p, 0))
            /\ up' = [up EXCEPT ![p] = "read"]
            /\ down' = [down EXCEPT ![q] = "recv"]
         \/ /\ dead /\ UNCHANGED wire
            /\ up' = [up EXCEPT ![p] = "done"]
            /\ down' = [down EXCEPT ![q] = "gone"]
      /\ UNCHANGED <<nextId, idOf, entry, chan, sent, got, broken, bad, dead>>

(* on_open of the server: dial, then the pump, or unregister and CLOSE.    *)
DialOk(c) ==
  /\ up[<<"server", c>>] = "dial"
  /\ up' = [up EXCEPT ![<<"server", c>>] = "read"]
  /\ down' = [down EXCEPT ![<<"client", c>>] = "recv"]
  /\ UNCHANGED <<nextId, idOf, entry, wire, chan, sent, got, broken, bad, dead>>

DialFails(c) ==
  LET p == <<"server", c>>
  IN  /\ up[p] = "dial"
      /\ entry' = [entry EXCEPT !["server"][idOf[c]] = NoConn]
      /\ BestEffort("server", Frame("CLOSE", c, p, 0))
      /\ up' = [up EXCEPT ![p] = "done"]
      /\ down' = [down EXCEPT ![<<"client", c>>] = "gone"]
      /\ Breaks({c})
      /\ UNCHANGED <<nextId, idOf, chan, sent, got, bad, dead>>

-----------------------------------------------------------------------------
(* pump_stream, the uplink: local data become DATA, the local end CLOSE.   *)
UplinkData(p) ==
  /\ up[p] = "read" /\ sent[p] < MaxChunks[p]
  /\ Send(p[1], Frame("DATA", p[2], p, sent[p] + 1))
  /\ sent' = [sent EXCEPT ![p] = @ + 1]
  /\ UNCHANGED <<nextId, idOf, entry, chan, up, down, got, broken, bad, dead>>

UplinkEnd(p) ==
  /\ up[p] = "read"
  /\ BestEffort(p[1], Frame("CLOSE", p[2], p, 0))
  /\ up' = [up EXCEPT ![p] = "done"]
  /\ UNCHANGED <<nextId, idOf, entry, chan, down, sent, got, broken, bad, dead>>

(* The downlink: chunks go to the local socket; when the channel closes or *)
(* a write fails, FIN.                                                     *)
DownlinkWrite(p) ==
  /\ down[p] = "recv" /\ chan[p] # <<>>
  /\ got' = [got EXCEPT ![p] = Append(@, Head(chan[p]))]
  /\ chan' = [chan EXCEPT ![p] = Tail(@)]
  /\ UNCHANGED <<nextId, idOf, entry, wire, up, down, sent, broken, bad, dead>>

DownlinkFails(p) ==
  /\ down[p] = "recv" /\ chan[p] # <<>>
  /\ chan' = [chan EXCEPT ![p] = <<>>]
  /\ down' = [down EXCEPT ![p] = "abandoned"]
  /\ Breaks({p[2]})
  /\ UNCHANGED <<nextId, idOf, entry, wire, up, sent, got, bad, dead>>

(* FIN as soon as the channel is closed, whatever it still holds.          *)
DownlinkEndEarly(p) ==
  /\ \/ down[p] = "abandoned"
     \/ down[p] = "recv" /\ \A i \in Ids : entry[Other(p[1])][i] # p[2]
  /\ down' = [down EXCEPT ![p] = "done"]
  /\ UNCHANGED <<nextId, idOf, entry, wire, chan, up, sent, got, broken, bad, dead>>

(* A failed write returns from the downlink, without FIN.                  *)
DownlinkEndReturns(p) ==
  /\ down[p] = "recv" /\ chan[p] = <<>>
  /\ \A i \in Ids : entry[Other(p[1])][i] # p[2]
  /\ down' = [down EXCEPT ![p] = "done"]
  /\ UNCHANGED <<nextId, idOf, entry, wire, chan, up, sent, got, broken, bad, dead>>

DownlinkEnd(p) ==
  /\ \/ down[p] = "abandoned"
     \/ /\ down[p] = "recv" /\ chan[p] = <<>>
        /\ \A i \in Ids : entry[Other(p[1])][i] # p[2]
  /\ down' = [down EXCEPT ![p] = "done"]
  /\ UNCHANGED <<nextId, idOf, entry, wire, chan, up, sent, got, broken, bad, dead>>

-----------------------------------------------------------------------------
(* reader_loop of end e, on the next frame of the other end.               *)
Incoming(e, type) ==
  /\ wire[Other(e)] # <<>>
  /\ Head(wire[Other(e)]).type = type

Arriving(e) == Head(wire[Other(e)])
Taken(e) == [wire EXCEPT ![Other(e)] = Tail(@)]

ReaderOpen(e) ==
  /\ Incoming(e, "OPEN")
  /\ wire' = Taken(e)
  /\ LET c == Arriving(e).load[1][2]
     IN  /\ entry' = [entry EXCEPT ![e][Arriving(e).id] = c]
         /\ up' = [up EXCEPT ![<<e, c>>] = "dial"]
         /\ down' = [down EXCEPT ![<<Other(e), c>>] = "wait"]
  /\ UNCHANGED <<nextId, idOf, chan, sent, got, broken, bad, dead>>

(* StreamRegistry::deliver: the pipe whose channel the chunk goes to, and  *)
(* whether its receiver still exists.                                      *)
Addressee(e) == entry[e][Arriving(e).id]
Inbound(e) == <<Other(e), Addressee(e)>>
Listening(e) == Addressee(e) # NoConn /\ down[Inbound(e)] \in {"wait", "recv"}

(* The chunk is queued whether or not there is room.                       *)
ReaderDataUnbounded(e) ==
  /\ Incoming(e, "DATA") /\ Listening(e)
  /\ wire' = Taken(e)
  /\ chan' = [chan EXCEPT ![Inbound(e)] = Append(@, Arriving(e).load)]
  /\ UNCHANGED <<nextId, idOf, entry, up, down, sent, got, broken, bad, dead>>

ReaderData(e) ==
  /\ Incoming(e, "DATA") /\ Listening(e)
  /\ Len(chan[Inbound(e)]) < InboundCap
  /\ wire' = Taken(e)
  /\ chan' = [chan EXCEPT ![Inbound(e)] = Append(@, Arriving(e).load)]
  /\ UNCHANGED <<nextId, idOf, entry, up, down, sent, got, broken, bad, dead>>

(* STREAM_STALL_TIMEOUT: the entry goes, and the chunk is then refused.    *)
ReaderStalled(e) ==
  /\ Incoming(e, "DATA") /\ Listening(e)
  /\ Len(chan[Inbound(e)]) = InboundCap
  /\ entry' = [entry EXCEPT ![e][Arriving(e).id] = NoConn]
  /\ Breaks({Addressee(e)})
  /\ UNCHANGED <<nextId, idOf, wire, chan, up, down, sent, got, bad, dead>>

ReaderRefuses(e) ==
  LET c == Arriving(e).load[1][2]
  IN  /\ Incoming(e, "DATA") /\ ~Listening(e)
      /\ ~dead /\ Room(e)
      /\ wire' = [Taken(e) EXCEPT ![e] = Append(@, Frame("CLOSE", c, <<e, c>>, 0))]
      /\ UNCHANGED <<nextId, idOf, entry, chan, up, down, sent, got, broken, bad, dead>>

(* CLOSE only ends the stream when its receiver has caught up.             *)
ReaderCloseIdle(e) ==
  /\ Incoming(e, "CLOSE")
  /\ wire' = Taken(e)
  /\ entry' = IF Addressee(e) # NoConn /\ chan[Inbound(e)] # <<>> THEN entry
              ELSE [entry EXCEPT ![e][Arriving(e).id] = NoConn]
  /\ UNCHANGED <<nextId, idOf, chan, up, down, sent, got, broken, bad, dead>>

ReaderClose(e) ==
  /\ Incoming(e, "CLOSE")
  /\ wire' = Taken(e)
  /\ entry' = [entry EXCEPT ![e][Arriving(e).id] = NoConn]
  /\ UNCHANGED <<nextId, idOf, chan, up, down, sent, got, broken, bad, dead>>

(* A record that fails to decrypt or decode is dropped.                    *)
BadRecord(e) ==
  /\ Cardinality(bad) < MaxBad
  /\ wire[Other(e)] # <<>>
  /\ wire' = Taken(e)
  /\ bad' = bad \cup {Arriving(e).load[1][2]}
  /\ Breaks({Arriving(e).load[1][2]})
  /\ UNCHANGED <<nextId, idOf, entry, chan, up, down, sent, got, dead>>

Reader(e) ==
  ReaderOpen(e) \/ ReaderData(e) \/ ReaderStalled(e) \/ ReaderRefuses(e) \/ ReaderClose(e)

(* kill at both ends: queues and wires are lost, close_all.                *)
Dies ==
  /\ ~dead /\ dead' = TRUE
  /\ wire' = [e \in Ends |-> <<>>]
  /\ entry' = [e \in Ends |-> [i \in Ids |-> NoConn]]
  /\ Breaks(Conns)
  /\ UNCHANGED <<nextId, idOf, chan, up, down, sent, got, bad>>

(* WRITE_TIMEOUT: a wire that the other end does not drain.                *)
WriteTimeout == Dies /\ \E e \in Ends : ~Room(e)

-----------------------------------------------------------------------------
Init ==
  /\ nextId = 1 /\ idOf = [c \in Conns |-> 0]
  /\ entry = [e \in Ends |-> [i \in Ids |-> NoConn]]
  /\ wire = [e \in Ends |-> <<>>] /\ chan = [p \in Pipes |-> <<>>]
  /\ up = [p \in Pipes |-> "off"] /\ down = [p \in Pipes |-> "off"]
  /\ sent = [p \in Pipes |-> 0] /\ got = [p \in Pipes |-> <<>>]
  /\ broken = {} /\ bad = {} /\ dead = FALSE

Opener(c) == ClientRegister(c) \/ ClientOpen(c) \/ DialOk(c) \/ DialFails(c)

Downlink(p) == DownlinkWrite(p) \/ DownlinkFails(p) \/ DownlinkEnd(p)

Next ==
  \/ \E c \in Conns : Opener(c)
  \/ \E p \in Pipes : UplinkData(p) \/ UplinkEnd(p) \/ Downlink(p)
  \/ \E e \in Ends : Reader(e) \/ BadRecord(e)
  \/ Dies

(* Timeouts bound the dial, the local write and the wire write; a task     *)
(* that can move does.  Nothing is assumed of what local sockets send.     *)
Fairness ==
  /\ \A c \in Conns : WF_vars(DialOk(c) \/ DialFails(c))
  /\ \A p \in Pipes : WF_vars(Downlink(p))
  /\ \A e \in Ends : WF_vars(Reader(e))
  /\ WF_vars(WriteTimeout)

Spec == Init /\ [][Next]_vars

FairSpec == Spec /\ Fairness

-----------------------------------------------------------------------------
(* Types and the capacities of the queues.                                 *)
TypeOK ==
  /\ nextId \in Nat /\ idOf \in [Conns -> Ids]
  /\ entry \in [Ends -> [Ids -> Conns \cup {NoConn}]]
  /\ up \in [Pipes -> {"off", "opening", "dial", "read", "done"}]
  /\ down \in [Pipes -> {"off", "wait", "recv", "abandoned", "done", "gone"}]
  /\ sent \in [Pipes -> Nat]
  /\ broken \subseteq Conns /\ bad \subseteq broken /\ dead \in BOOLEAN
  /\ \A e \in Ends : /\ Len(wire[e]) <= WireCap
                     /\ \A k \in 1..Len(wire[e]) : wire[e][k].load[1] \in Pipes
  /\ \A p \in Pipes : Len(chan[p]) <= InboundCap

(* Every direction of every stream is a pipe: a fault on one connection    *)
(* (a stall, a failed write, a failed dial, a bad record) breaks the pipes *)
(* of that connection and of no other.                                     *)
Stream == INSTANCE Pipe WITH
  closed <- [p \in Pipes |-> up[p] = "done"],
  ended <- [p \in Pipes |-> down[p] = "done"],
  broken <- [p \in Pipes |-> p[2] \in broken]

StreamsArePipes == Stream!Spec

(* The registry keeps no entry the peer has closed: once the far uplink    *)
(* has ended and its frames are dispatched, the entry is gone, unless the  *)
(* CLOSE itself was a bad record.                                          *)
NoStaleEntry ==
  \A e \in Ends : \A i \in Ids :
    LET c == entry[e][i]
    IN  (/\ c \in Conns \ bad /\ up[<<Other(e), c>>] = "done")
          => \E k \in 1..Len(wire[Other(e)]) : wire[Other(e)][k].load[1][2] = c

(* A stream both sides have ended is over at both: every FIN reaches the   *)
(* far local socket, whatever faults hit this and other streams, unless a  *)
(* record of it was lost.                                                  *)
Ended(c) == \A e \in Ends : up[<<e, c>>] = "done"

Finished(c) == \A e \in Ends : down[<<e, c>>] \in {"done", "gone", "off"}

StreamsEnd == \A c \in Conns : Ended(c) ~> (Finished(c) \/ c \in bad)
=============================================================================
