------------------------------ MODULE Keepalive ------------------------------
(***************************************************************************)
(* The timing of keepalive_loop (src/carrier.rs): one end of a tunnel with *)
(* its keepalive, writer and reader tasks, the timeouts that bound them,   *)
(* one consumer, and a peer that answers or freezes without closing.       *)
(*                                                                         *)
(* Steps take no time; Pass lets one unit of time go by and waits until no *)
(* task can move, because tokio runs a ready task and fires a due timer at *)
(* once.  What takes time is outside: a write waits for the link, and a    *)
(* PING for its answer.  Only frames and records that matter here are told *)
(* apart: PINGs and PONGs; everything else competes with them for the two  *)
(* queues.                                                                 *)
(***************************************************************************)
EXTENDS Naturals, Sequences

CONSTANTS
  Periods,     \* the values of ping_secs.max(1) to consider
  Grace,       \* KEEPALIVE_GRACE
  Stall,       \* STREAM_STALL_TIMEOUT
  Write,       \* WRITE_TIMEOUT
  Slow,        \* external: a link that works takes a record within this time
  RoundTrip,   \* external: a healthy peer answers a PING within this time
  FrameCap,    \* FRAME_CHANNEL_CAPACITY
  MaxWaiting,  \* bound: senders waiting for room, when an uplink joins them
  SendBuf,     \* external: frames the kernels still take after a freeze
  MaxArrived   \* bound: records the peer has in flight towards the reader

ASSUME KeepaliveAssumption ==
  /\ Periods \subseteq Nat \ {0} /\ Grace \in Nat \ {0}
  /\ Stall \in Nat \ {0} /\ Write \in Nat \ {0}
  /\ Slow \in Nat /\ RoundTrip \in Nat
  /\ FrameCap \in Nat \ {0} /\ MaxWaiting \in Nat
  /\ SendBuf \in Nat /\ MaxArrived \in Nat

VARIABLES
  period,      \* configured: the time between two ticks
  ka,          \* where keepalive_loop stands
  due,         \* until the ticker's next tick
  grace,       \* until the end of the sleep
  ponged,      \* pongs() > before
  frames,      \* the frame channel and, behind its capacity, the waiting senders
  writing,     \* the frame the writer is writing, "none" between two
  writeLeft,   \* until WRITE_TIMEOUT
  reader,      \* "free", or what it is doing with a record
  stallLeft,   \* until STREAM_STALL_TIMEOUT
  arrived,     \* records the reader has yet to dispatch
  registered,  \* the stream has not been dropped
  stuck,       \* the stream's channel is full and its consumer not reading
  stalled,     \* history: the consumer was stuck at some time
  frozen,      \* the peer has frozen (a hung process, a black-holed path)
  silent,      \* for how long
  asked,       \* the time since a PING reached the peer, unanswered
  buffer,      \* frames the kernel still takes
  cause        \* why the tunnel died, "none" while it lives

keepaliveVars == <<ka, due, grace, ponged>>
writerVars == <<frames, writing, writeLeft>>
readerVars == <<reader, stallLeft, arrived, registered>>
consumerVars == <<stuck, stalled>>
peerVars == <<frozen, silent, asked, buffer>>
vars == <<period, keepaliveVars, writerVars, readerVars, consumerVars, peerVars,
          cause>>

NoPing == RoundTrip + 1        \* the value of asked when no PING is pending
Later(n) == IF n = 0 THEN 0 ELSE n - 1
Longer(m, n) == IF m >= n THEN m ELSE n
Alive == cause = "none"
Spent == Write - writeLeft     \* on the write in progress

(* tokio's channel gives room to its senders in the order they asked, so   *)
(* the frames of those that wait stand in line behind the ones it holds. A *)
(* send has returned once its frame is within the capacity.                *)
Enqueue(f) == frames' = Append(frames, f)

Placed(f) == \A i \in 1..Len(frames) : frames[i] = f => i <= FrameCap

-----------------------------------------------------------------------------
(* keepalive_loop.  A tick that comes late (MissedTickBehavior::Delay) is  *)
(* followed by a whole period, as one that is on time.                     *)
(* The PONGs of earlier rounds count for this one.                         *)
KaTickStale ==
  /\ ka = "select" /\ due = 0
  /\ ka' = "ping" /\ due' = period
  /\ UNCHANGED <<grace, ponged>>

KaTick ==
  /\ ka = "select" /\ due = 0
  /\ ka' = "ping" /\ due' = period
  /\ ponged' = FALSE
  /\ UNCHANGED grace

KaPing ==
  /\ ka = "ping"
  /\ Enqueue("PING")
  /\ ka' = "sending"
  /\ UNCHANGED <<due, grace, ponged>>

(* The grace begins while the PING still waits for room.                   *)
KaSentEarly ==
  /\ ka = "sending"
  /\ ka' = "grace" /\ grace' = Grace
  /\ UNCHANGED <<due, ponged, frames>>

(* The grace begins when the channel has the PING, not when it is written. *)
KaSent ==
  /\ ka = "sending" /\ Placed("PING")
  /\ ka' = "grace" /\ grace' = Grace
  /\ UNCHANGED <<due, ponged, frames>>

KaGrace ==
  /\ ka = "grace" /\ grace = 0
  /\ IF ponged THEN ka' = "select" /\ UNCHANGED cause
               ELSE ka' = "end" /\ cause' = "KeepaliveTimeout"
  /\ UNCHANGED <<due, grace, ponged>>

-----------------------------------------------------------------------------
(* writer_loop.  A write completes when the kernel takes the record: from  *)
(* a peer that is not frozen within Slow, from a frozen one while there    *)
(* are buffers left.                                                       *)
Accepts == ~frozen \/ buffer > 0

WriterTake ==
  /\ writing = "none" /\ frames # <<>>
  /\ writing' = Head(frames) /\ frames' = Tail(frames)
  /\ writeLeft' = Write
  /\ UNCHANGED <<peerVars, cause>>

WriterDone ==
  /\ writing # "none" /\ Accepts
  /\ writing' = "none"
  /\ buffer' = IF frozen THEN buffer - 1 ELSE buffer
  /\ asked' = IF writing = "PING" /\ ~frozen /\ asked = NoPing THEN 0 ELSE asked
  /\ UNCHANGED <<frames, writeLeft, frozen, silent, cause>>

WriterTimeout ==
  /\ writing # "none" /\ writeLeft = 0
  /\ cause' = "WriteError"
  /\ UNCHANGED <<writerVars, peerVars>>

-----------------------------------------------------------------------------
(* reader_loop: one record at a time, however long it takes.               *)
ReaderTake ==
  /\ reader = "free" /\ arrived # <<>>
  /\ arrived' = Tail(arrived)
  /\ \/ /\ Head(arrived) = "PONG"
        /\ ponged' = TRUE
        /\ UNCHANGED <<reader, stallLeft>>
     \/ /\ Head(arrived) = "DATA" /\ registered
        /\ reader' = "deliver" /\ stallLeft' = Stall
        /\ UNCHANGED ponged
     \/ /\ Head(arrived) = "PING" \/ (Head(arrived) = "DATA" /\ ~registered)
        /\ reader' = "answer"
        /\ UNCHANGED <<stallLeft, ponged>>
  /\ UNCHANGED <<frames, registered>>

ReaderDeliver ==
  /\ reader = "deliver" /\ ~stuck
  /\ reader' = "free"
  /\ UNCHANGED <<frames, stallLeft, arrived, registered, ponged>>

ReaderStalled ==
  /\ reader = "deliver" /\ stuck /\ stallLeft = 0
  /\ registered' = FALSE
  /\ reader' = "answer"
  /\ UNCHANGED <<frames, stallLeft, arrived, ponged>>

ReaderAnswer ==
  /\ reader = "answer"
  /\ Enqueue("answer")
  /\ reader' = "sending"
  /\ UNCHANGED <<stallLeft, arrived, registered, ponged>>

(* The answer is sent without waiting for room.                            *)
ReaderSentAnyway ==
  /\ reader = "sending"
  /\ reader' = "free"
  /\ UNCHANGED <<frames, stallLeft, arrived, registered, ponged>>

ReaderSent ==
  /\ reader = "sending" /\ Placed("answer")
  /\ reader' = "free"
  /\ UNCHANGED <<frames, stallLeft, arrived, registered, ponged>>

-----------------------------------------------------------------------------
(* What surrounds the tunnel: uplinks with data to send, a consumer that   *)
(* stops and resumes, a peer that sends, answers and freezes.              *)
UplinkSends ==
  /\ Len(frames) < FrameCap + MaxWaiting
  /\ Enqueue("other")
  /\ UNCHANGED <<writing, writeLeft, readerVars, consumerVars, peerVars>>

ConsumerTurns ==
  /\ stuck' = ~stuck
  /\ stalled' = TRUE
  /\ UNCHANGED <<writerVars, readerVars, peerVars>>

PeerSends ==
  /\ ~frozen /\ Len(arrived) < MaxArrived
  /\ \E r \in {"DATA", "PING"} : arrived' = Append(arrived, r)
  /\ UNCHANGED <<writerVars, reader, stallLeft, registered, consumerVars, peerVars>>

PeerAnswers ==
  /\ ~frozen /\ asked # NoPing
  /\ arrived' = Append(arrived, "PONG")
  /\ asked' = NoPing
  /\ UNCHANGED <<writerVars, reader, stallLeft, registered, consumerVars,
                 frozen, silent, buffer>>

PeerFreezes ==
  /\ ~frozen
  /\ frozen' = TRUE
  /\ UNCHANGED <<writerVars, readerVars, consumerVars, silent, asked, buffer>>

-----------------------------------------------------------------------------
(* Some task can move, or the link or the healthy peer is about to.        *)
Ready ==
  \/ ka = "select" /\ due = 0
  \/ ka = "ping" \/ (ka = "sending" /\ Placed("PING"))
  \/ ka = "grace" /\ grace = 0
  \/ writing = "none" /\ frames # <<>>
  \/ writing # "none" /\ (writeLeft = 0 \/ (Accepts /\ Spent >= Slow))
  \/ reader = "free" /\ arrived # <<>>
  \/ reader = "deliver" /\ (~stuck \/ stallLeft = 0)
  \/ reader = "answer" \/ (reader = "sending" /\ Placed("answer"))
  \/ ~frozen /\ asked = RoundTrip

Pass ==
  /\ Alive /\ ~Ready
  /\ due' = Later(due) /\ grace' = Later(grace)
  /\ writeLeft' = Later(writeLeft) /\ stallLeft' = Later(stallLeft)
  /\ silent' = IF frozen THEN silent + 1 ELSE silent
  /\ asked' = IF ~frozen /\ asked # NoPing THEN asked + 1 ELSE asked
  /\ UNCHANGED <<ka, ponged, frames, writing, reader, arrived, registered,
                 consumerVars, frozen, buffer, cause, period>>

KeepaliveStep ==
  /\ Alive
  /\ \/ KaTick /\ UNCHANGED <<frames, cause>>
     \/ (KaPing \/ KaSent) /\ UNCHANGED cause
     \/ KaGrace /\ UNCHANGED frames
  /\ UNCHANGED <<writing, writeLeft, readerVars, consumerVars, peerVars, period>>

WriterStep ==
  /\ Alive
  /\ WriterTake \/ WriterDone \/ WriterTimeout
  /\ UNCHANGED <<keepaliveVars, readerVars, consumerVars, period>>

ReaderStep ==
  /\ Alive
  /\ ReaderTake \/ ReaderDeliver \/ ReaderStalled \/ ReaderAnswer \/ ReaderSent
  /\ UNCHANGED <<ka, due, grace, writing, writeLeft, consumerVars, peerVars, cause,
                 period>>

Surroundings ==
  /\ Alive
  /\ UplinkSends \/ ConsumerTurns \/ PeerSends \/ PeerAnswers \/ PeerFreezes
  /\ UNCHANGED <<keepaliveVars, cause, period>>

Next == KeepaliveStep \/ WriterStep \/ ReaderStep \/ Surroundings \/ Pass

(* The ticker of tokio ticks at once.                                      *)
Init ==
  /\ period \in Periods
  /\ ka = "select" /\ due = 0 /\ grace = 0 /\ ponged = FALSE
  /\ frames = <<>> /\ writing = "none" /\ writeLeft = 0
  /\ reader = "free" /\ stallLeft = 0 /\ arrived = <<>> /\ registered = TRUE
  /\ stuck = FALSE /\ stalled = FALSE
  /\ frozen = FALSE /\ silent = 0 /\ asked = NoPing /\ buffer = SendBuf
  /\ cause = "none"

Spec == Init /\ [][Next]_vars

-----------------------------------------------------------------------------
Frame == {"PING", "answer", "other"}

Types ==
  /\ period \in Periods
  /\ ka \in {"select", "ping", "sending", "grace", "end"}
  /\ due \in 0..period /\ grace \in 0..Grace /\ ponged \in BOOLEAN
  /\ frames \in Seq(Frame) /\ writing \in Frame \cup {"none"} /\ writeLeft \in 0..Write
  /\ reader \in {"free", "deliver", "answer", "sending"} /\ stallLeft \in 0..Stall
  /\ arrived \in Seq({"DATA", "PING", "PONG"})
  /\ registered \in BOOLEAN /\ stuck \in BOOLEAN /\ stalled \in BOOLEAN
  /\ frozen \in BOOLEAN /\ silent \in Nat
  /\ asked \in 0..NoPing /\ buffer \in 0..SendBuf
  /\ cause \in {"none", "KeepaliveTimeout", "WriteError"}

QueuesBounded ==
  /\ Len(frames) <= FrameCap + MaxWaiting + 2
  /\ Len(arrived) <= MaxArrived + 1

(* Types, and the bounds of the timers and of the queues.  No more than    *)
(* one PING and one answer wait for room behind the uplinks: keepalive and *)
(* reader wait too.                                                        *)
TypeOK == Types /\ QueuesBounded

(* The time n writes take on a link that works, at most.                   *)
Writes(n) == n * Slow

(* A frozen peer is detected: by the probe at the latest a round and a     *)
(* grace later or, when the probe's PING waits behind a full frame queue,  *)
(* by the write timeout of the frame that blocks it; the buffers on the    *)
(* way to the peer may fill slowly before that.                            *)
DetectionBound ==
  silent <= Longer(period, Grace) + Writes(SendBuf) + Longer(Grace, Write)

(* A PING unanswered for KEEPALIVE_GRACE means that the peer is silently   *)
(* dead.  (Stalled consumers are StallSparesTunnel's matter.)              *)
UnansweredMeansFrozen == cause = "KeepaliveTimeout" => frozen \/ stalled

(* What a probe can cost while all is well: the PING is written behind a   *)
(* full channel and the write in progress, the peer answers, and the       *)
(* reader gets to the PONG behind the records before it, each of which may *)
(* want an answer that waits for room.                                     *)
Turns(n) == n * Writes(MaxWaiting + 1)
Latency == Writes(FrameCap + 1) + RoundTrip + Turns(MaxArrived + 1)

(* On a link fast enough for that the probe raises no false alarm: no      *)
(* order of sends, answers and waits makes keepalive kill a tunnel whose   *)
(* peer answers and whose consumers read.                                  *)
NoFalseAlarm == Latency < Grace => UnansweredMeansFrozen

(* Documented: a stalled consumer costs its own stream; the rest of the    *)
(* tunnel keeps flowing.                                                   *)
StallSparesTunnel == cause = "KeepaliveTimeout" => frozen
=============================================================================
