--------------------------- MODULE KeepaliveProofs ---------------------------
(***************************************************************************)
(* Proofs about Keepalive, for every period, every timeout, every capacity *)
(* and every speed of the link that KeepaliveAssumption allows.            *)
(***************************************************************************)
EXTENDS Keepalive, Integers, TLAPS

-----------------------------------------------------------------------------
(* Sequences in which a value occurs, and occurs at most once.             *)
Has(q, v) == \E i \in 1..Len(q) : q[i] = v
Once(q, v) == \A i, j \in 1..Len(q) : q[i] = v /\ q[j] = v => i = j

LEMMA AppendHas ==
  ASSUME NEW S, NEW q \in Seq(S), NEW e \in S, NEW v
  PROVE  /\ Has(Append(q, e), v) <=> (Has(q, v) \/ e = v)
         /\ (Once(q, v) /\ (e = v => ~Has(q, v))) => Once(Append(q, e), v)
<1>1. Len(Append(q, e)) = Len(q) + 1 /\ Len(q) \in Nat
  OBVIOUS
<1>2. \A i \in 1..Len(q) : Append(q, e)[i] = q[i]
  OBVIOUS
<1>3. Append(q, e)[Len(q) + 1] = e
  OBVIOUS
<1>4. QED
  BY <1>1, <1>2, <1>3 DEF Has, Once

LEMMA TailHas ==
  ASSUME NEW S, NEW q \in Seq(S), q # <<>>, NEW v
  PROVE  /\ Head(q) = v => Has(q, v)
         /\ Has(Tail(q), v) => Has(q, v)
         /\ Has(q, v) => Head(q) = v \/ Has(Tail(q), v)
         /\ Once(q, v) => Once(Tail(q), v)
         /\ (Once(q, v) /\ Head(q) = v) => ~Has(Tail(q), v)
<1>1. Len(q) \in Nat \ {0} /\ Len(Tail(q)) = Len(q) - 1 /\ Head(q) = q[1]
  OBVIOUS
<1>2. \A i \in 1..Len(Tail(q)) : Tail(q)[i] = q[i + 1]
  OBVIOUS
<1>3. Head(q) = v => Has(q, v)
  BY <1>1 DEF Has
<1>4. Has(Tail(q), v) => Has(q, v)
  BY <1>1, <1>2 DEF Has
<1>5. Has(q, v) => Head(q) = v \/ Has(Tail(q), v)
  <2>1. SUFFICES ASSUME NEW i \in 1..Len(q), q[i] = v, i # 1 PROVE Has(Tail(q), v)
    BY <1>1 DEF Has
  <2>2. i - 1 \in 1..Len(Tail(q)) /\ Tail(q)[i - 1] = v
    BY <2>1, <1>1, <1>2
  <2>3. QED
    BY <2>2 DEF Has
<1>6. Once(q, v) => Once(Tail(q), v)
  <2>1. SUFFICES ASSUME Once(q, v), NEW i \in 1..Len(Tail(q)), NEW j \in 1..Len(Tail(q)),
                        Tail(q)[i] = v, Tail(q)[j] = v
                 PROVE  i = j
    BY DEF Once
  <2>2. i + 1 \in 1..Len(q) /\ j + 1 \in 1..Len(q) /\ q[i + 1] = v /\ q[j + 1] = v
    BY <2>1, <1>1, <1>2
  <2>3. i + 1 = j + 1
    BY <2>1, <2>2 DEF Once
  <2>4. QED
    BY <2>3
<1>7. (Once(q, v) /\ Head(q) = v) => ~Has(Tail(q), v)
  <2>1. SUFFICES ASSUME Once(q, v), Head(q) = v, NEW i \in 1..Len(Tail(q)), Tail(q)[i] = v
                 PROVE  FALSE
    BY DEF Has
  <2>2. i + 1 \in 1..Len(q) /\ 1 \in 1..Len(q) /\ q[i + 1] = v /\ q[1] = v
    BY <2>1, <1>1, <1>2
  <2>3. i + 1 = 1
    BY <2>1, <2>2 DEF Once
  <2>4. QED
    BY <2>3
<1>8. QED
  BY <1>3, <1>4, <1>5, <1>6, <1>7

(* The line at the frame channel.  Places beyond FrameCap are of senders   *)
(* that wait.  Uplinks join only up to MaxWaiting, and one answer waits at *)
(* most.                                                                   *)
Behind(q) == {i \in 1..Len(q) : i > FrameCap}
Within(q, f) == \A i \in 1..Len(q) : q[i] = f => i <= FrameCap

InLine(q) ==
  /\ \A i \in Behind(q) : q[i] = "other" => i <= FrameCap + MaxWaiting
  /\ \A i, j \in Behind(q) : q[i] = "answer" /\ q[j] = "answer" => i = j

LEMMA AppendLine ==
  ASSUME NEW q \in Seq(Frame), NEW e \in Frame, InLine(q),
         e = "other" => Len(q) < FrameCap + MaxWaiting,
         e = "answer" => Within(q, "answer")
  PROVE  InLine(Append(q, e))
<1> USE KeepaliveAssumption
<1>1. Len(Append(q, e)) = Len(q) + 1 /\ Len(q) \in Nat
  OBVIOUS
<1>2. \A i \in 1..Len(q) : Append(q, e)[i] = q[i]
  OBVIOUS
<1>3. Append(q, e)[Len(q) + 1] = e
  OBVIOUS
<1>4. QED
  BY <1>1, <1>2, <1>3 DEF InLine, Behind, Within

LEMMA AppendWithin ==
  ASSUME NEW q \in Seq(Frame), NEW e \in Frame, NEW f, f # e
  PROVE  Within(Append(q, e), f) <=> Within(q, f)
<1>1. Len(Append(q, e)) = Len(q) + 1 /\ Len(q) \in Nat
  OBVIOUS
<1>2. \A i \in 1..Len(q) : Append(q, e)[i] = q[i]
  OBVIOUS
<1>3. Append(q, e)[Len(q) + 1] = e
  OBVIOUS
<1>4. QED
  BY <1>1, <1>2, <1>3 DEF Within

LEMMA TailLine ==
  ASSUME NEW q \in Seq(Frame), q # <<>>, InLine(q)
  PROVE  /\ InLine(Tail(q))
         /\ \A f : Within(q, f) => Within(Tail(q), f)
<1> USE KeepaliveAssumption
<1>1. Len(q) \in Nat \ {0} /\ Len(Tail(q)) = Len(q) - 1
  OBVIOUS
<1>2. \A i \in 1..Len(Tail(q)) : Tail(q)[i] = q[i + 1] /\ i + 1 \in 1..Len(q)
  BY <1>1
<1>3. \A i \in Behind(Tail(q)) : i \in 1..Len(Tail(q)) /\ i + 1 \in Behind(q)
  BY <1>1, <1>2 DEF Behind
<1>4. \A i \in Behind(Tail(q)) : Tail(q)[i] = "other" => i <= FrameCap + MaxWaiting
  <2> SUFFICES ASSUME NEW i \in Behind(Tail(q)), Tail(q)[i] = "other"
               PROVE  i <= FrameCap + MaxWaiting
    OBVIOUS
  <2>1. i + 1 <= FrameCap + MaxWaiting /\ i \in 1..Len(Tail(q))
    BY <1>2, <1>3 DEF InLine
  <2>2. QED
    BY <2>1, <1>1
<1>5. \A i, j \in Behind(Tail(q)) : Tail(q)[i] = "answer" /\ Tail(q)[j] = "answer" => i = j
  <2> SUFFICES ASSUME NEW i \in Behind(Tail(q)), NEW j \in Behind(Tail(q)),
                      Tail(q)[i] = "answer", Tail(q)[j] = "answer"
               PROVE  i = j
    OBVIOUS
  <2>1. i + 1 = j + 1 /\ i \in 1..Len(Tail(q)) /\ j \in 1..Len(Tail(q))
    BY <1>2, <1>3 DEF InLine
  <2>2. QED
    BY <2>1, <1>1
<1>6. ASSUME NEW f, Within(q, f), NEW i \in 1..Len(Tail(q)), Tail(q)[i] = f
      PROVE  i <= FrameCap
  <2>1. i + 1 <= FrameCap
    BY <1>2, <1>6 DEF Within
  <2>2. QED
    BY <2>1, <1>1
<1>7. QED
  BY <1>4, <1>5, <1>6 DEF InLine, Within

(* Only a PING and an answer can stand beyond the uplinks.                 *)
LEMMA LineLength ==
  ASSUME NEW q \in Seq(Frame), InLine(q), Once(q, "PING")
  PROVE  /\ Len(q) <= FrameCap + MaxWaiting + 2
         /\ ~Has(q, "PING") => Len(q) <= FrameCap + MaxWaiting + 1
<1> USE KeepaliveAssumption
<1> DEFINE L == FrameCap + MaxWaiting
<1>1. L \in Nat /\ FrameCap \in Nat /\ L >= FrameCap /\ Len(q) \in Nat
  OBVIOUS
<1> HIDE DEF L
<1>2. \A i \in 1..Len(q) : i > L => i \in Behind(q) /\ q[i] \in {"PING", "answer"}
  BY <1>1 DEF InLine, Behind, Frame, L
<1>3. Len(q) <= L + 2
  <2> SUFFICES ASSUME Len(q) >= L + 3 PROVE FALSE
    BY <1>1
  <2>1. L + 1 \in 1..Len(q) /\ L + 2 \in 1..Len(q) /\ L + 3 \in 1..Len(q)
    BY <1>1
  <2>2. /\ L + 1 \in Behind(q) /\ q[L + 1] \in {"PING", "answer"}
        /\ L + 2 \in Behind(q) /\ q[L + 2] \in {"PING", "answer"}
        /\ L + 3 \in Behind(q) /\ q[L + 3] \in {"PING", "answer"}
    BY <1>1, <1>2, <2>1
  <2>3. /\ ~(q[L + 1] = "PING" /\ q[L + 2] = "PING")
        /\ ~(q[L + 1] = "PING" /\ q[L + 3] = "PING")
        /\ ~(q[L + 2] = "PING" /\ q[L + 3] = "PING")
    BY <1>1, <2>1 DEF Once
  <2>4. /\ ~(q[L + 1] = "answer" /\ q[L + 2] = "answer")
        /\ ~(q[L + 1] = "answer" /\ q[L + 3] = "answer")
        /\ ~(q[L + 2] = "answer" /\ q[L + 3] = "answer")
    BY <1>1, <2>2 DEF InLine
  <2>5. QED
    BY <2>2, <2>3, <2>4
<1>4. ~Has(q, "PING") => Len(q) <= L + 1
  <2> SUFFICES ASSUME ~Has(q, "PING"), Len(q) >= L + 2 PROVE FALSE
    BY <1>1
  <2>1. L + 1 \in 1..Len(q) /\ L + 2 \in 1..Len(q)
    BY <1>1
  <2>2. /\ L + 1 \in Behind(q) /\ q[L + 1] = "answer"
        /\ L + 2 \in Behind(q) /\ q[L + 2] = "answer"
    BY <1>1, <1>2, <2>1 DEF Has
  <2>3. L + 1 = L + 2
    BY <2>2 DEF InLine
  <2>4. QED
    BY <2>3, <1>1
<1>5. QED
  BY <1>3, <1>4 DEF L

-----------------------------------------------------------------------------
(* The cost of n writes, and of n turns of the reader, grows with n.       *)
LEMMA ProductGrows ==
  ASSUME NEW k \in Nat, NEW m \in Nat, NEW n \in Nat
  PROVE  n * k \in Nat /\ (n + 1) * k = n * k + k /\ (m <= n => m * k <= n * k)
<1>1. n * k \in Nat /\ (n + 1) * k = n * k + k
  OBVIOUS
<1>2. ASSUME m <= n PROVE m * k <= n * k
  <2>1. PICK d \in Nat : n = m + d
    BY <1>2
  <2>2. d * k \in Nat /\ m * k \in Nat
    OBVIOUS
  <2>3. n * k = m * k + d * k
    BY <2>1
  <2>4. QED
    BY <2>2, <2>3
<1>3. QED
  BY <1>1, <1>2

LEMMA WritesGrow ==
  /\ \A n \in Nat : Writes(n) \in Nat /\ Writes(n + 1) = Writes(n) + Slow
  /\ \A m, n \in Nat : m <= n => Writes(m) <= Writes(n)
  /\ Writes(0) = 0
<1>1. \A n : Writes(n) = n * Slow
  BY DEF Writes
<1>2. Slow \in Nat /\ 0 * Slow = 0
  BY KeepaliveAssumption
<1>3. QED
  BY <1>1, <1>2, ProductGrows

LEMMA TurnsGrow ==
  /\ \A n \in Nat : Turns(n) \in Nat /\ Turns(n + 1) = Turns(n) + Writes(MaxWaiting + 1)
  /\ \A m, n \in Nat : m <= n => Turns(m) <= Turns(n)
  /\ Turns(0) = 0
<1> DEFINE T == Writes(MaxWaiting + 1)
<1>1. \A n : Turns(n) = n * T
  BY DEF Turns
<1>2. MaxWaiting + 1 \in Nat
  BY KeepaliveAssumption
<1>3. T \in Nat
  BY <1>2, WritesGrow
<1> HIDE DEF T
<1>4. 0 * T = 0
  BY <1>3
<1>5. QED
  BY <1>1, <1>3, <1>4, ProductGrows DEF T

-----------------------------------------------------------------------------
(* Types are preserved by every step.                                      *)
LEMMA TypesInit == Init => Types
<1> SUFFICES ASSUME Init PROVE Types
  OBVIOUS
<1>1. /\ ponged \in BOOLEAN /\ registered \in BOOLEAN /\ stuck \in BOOLEAN
      /\ stalled \in BOOLEAN /\ frozen \in BOOLEAN
  BY DEF Init
<1>2. QED
  BY <1>1, KeepaliveAssumption DEF Init, Types, NoPing, Frame

LEMMA TypesKeepalive == Types /\ KeepaliveStep => Types'
<1> SUFFICES ASSUME Types, KeepaliveStep PROVE Types'
  OBVIOUS
<1> USE KeepaliveAssumption DEF Types, KeepaliveStep, Frame, NoPing, readerVars,
        consumerVars, peerVars
<1>1. CASE KaTick /\ UNCHANGED <<frames, cause>>
  <2>1. ponged' \in BOOLEAN
    BY <1>1 DEF KaTick
  <2>2. due' \in 0..period'
    BY <1>1 DEF KaTick
  <2>3. QED
    BY <1>1, <2>1, <2>2 DEF KaTick
<1>2. CASE KaPing /\ UNCHANGED cause
  BY <1>2 DEF KaPing, Enqueue
<1>3. CASE KaSent /\ UNCHANGED cause
  BY <1>3 DEF KaSent
<1>4. CASE KaGrace /\ UNCHANGED frames
  BY <1>4 DEF KaGrace
<1>5. QED
  BY <1>1, <1>2, <1>3, <1>4

LEMMA TypesWriter == Types /\ WriterStep => Types'
<1> SUFFICES ASSUME Types, WriterStep PROVE Types'
  OBVIOUS
<1> USE KeepaliveAssumption DEF Types, WriterStep, Frame, NoPing, keepaliveVars,
        readerVars, consumerVars, peerVars, writerVars
<1>1. CASE WriterTake
  BY <1>1 DEF WriterTake
<1>2. CASE WriterDone
  BY <1>2 DEF WriterDone, Accepts
<1>3. CASE WriterTimeout
  BY <1>3 DEF WriterTimeout
<1>4. QED
  BY <1>1, <1>2, <1>3

LEMMA TypesReader == Types /\ ReaderStep => Types'
<1> SUFFICES ASSUME Types, ReaderStep PROVE Types'
  OBVIOUS
<1> USE KeepaliveAssumption DEF Types, ReaderStep, Frame, NoPing, consumerVars, peerVars
<1>1. CASE ReaderTake
  <2>1. ponged' \in BOOLEAN
    BY <1>1, Zenon DEF ReaderTake
  <2>2. arrived' \in Seq({"DATA", "PING", "PONG"})
    BY <1>1 DEF ReaderTake
  <2>3. QED
    BY <1>1, <2>1, <2>2 DEF ReaderTake
<1>2. CASE ReaderDeliver
  BY <1>2 DEF ReaderDeliver
<1>3. CASE ReaderStalled
  BY <1>3 DEF ReaderStalled
<1>4. CASE ReaderAnswer
  BY <1>4 DEF ReaderAnswer, Enqueue
<1>5. CASE ReaderSent
  BY <1>5 DEF ReaderSent
<1>6. QED
  BY <1>1, <1>2, <1>3, <1>4, <1>5

LEMMA TypesSurroundings == Types /\ Surroundings => Types'
<1> SUFFICES ASSUME Types, Surroundings PROVE Types'
  OBVIOUS
<1> USE KeepaliveAssumption DEF Types, Surroundings, Frame, NoPing, keepaliveVars,
        writerVars, readerVars, consumerVars, peerVars
<1>1. CASE UplinkSends
  BY <1>1 DEF UplinkSends, Enqueue
<1>2. CASE ConsumerTurns
  BY <1>2 DEF ConsumerTurns
<1>3. CASE PeerSends
  BY <1>3 DEF PeerSends
<1>4. CASE PeerAnswers
  BY <1>4 DEF PeerAnswers
<1>5. CASE PeerFreezes
  BY <1>5 DEF PeerFreezes
<1>6. QED
  BY <1>1, <1>2, <1>3, <1>4, <1>5

LEMMA TypesPass == Types /\ Pass => Types'
  BY KeepaliveAssumption DEF Types, Pass, Ready, Later, NoPing, consumerVars

LEMMA TypesNext == Types /\ [Next]_vars => Types'
<1> SUFFICES ASSUME Types, [Next]_vars PROVE Types'
  OBVIOUS
<1>1. CASE UNCHANGED vars
  BY <1>1 DEF vars, keepaliveVars, writerVars, readerVars, consumerVars, peerVars, Types
<1>2. QED
  BY <1>1, TypesKeepalive, TypesWriter, TypesReader, TypesSurroundings, TypesPass DEF Next

-----------------------------------------------------------------------------
(* One probe at a time.  A round that ends well has counted the answer to  *)
(* its own PING, so none is left over to count for the next round.         *)
InFrames == Has(frames, "PING")
InArrived == Has(arrived, "PONG")
Outstanding == InFrames \/ writing = "PING" \/ asked # NoPing \/ InArrived

OneProbe ==
  /\ Once(frames, "PING") /\ Once(arrived, "PONG")
  /\ InFrames => writing # "PING" /\ asked = NoPing /\ ~InArrived
  /\ writing = "PING" => asked = NoPing /\ ~InArrived
  /\ asked # NoPing => ~InArrived

RoundInv ==
  /\ OneProbe
  /\ ka = "select" => ~Outstanding
  /\ ka = "ping" => ~Outstanding /\ ~ponged
  /\ (ka \in {"sending", "grace"} /\ ponged) => ~Outstanding
  /\ (ka \in {"sending", "grace"} /\ ~ponged /\ ~frozen) => Outstanding
  /\ ka = "end" => cause = "KeepaliveTimeout"

(* The frames in line, and the records on their way to the reader: of the  *)
(* latter one more than the peer sends by itself, its PONG.                *)
LineInv ==
  /\ InLine(frames)
  /\ reader # "sending" => Within(frames, "answer")
  /\ Len(arrived) <= MaxArrived \/ (InArrived /\ Len(arrived) <= MaxArrived + 1)

(* A link that works is never late with a write.                           *)
LinkInv ==
  /\ ~frozen => silent = 0 /\ buffer = SendBuf
  /\ (writing # "none" /\ Accepts) => Spent <= Slow

QueueInv == RoundInv /\ LineInv /\ LinkInv

LEMMA QueueInit == Init => QueueInv
<1> SUFFICES ASSUME Init PROVE QueueInv
  OBVIOUS
<1>1. ~InFrames /\ ~InArrived /\ OneProbe /\ InLine(frames) /\ Within(frames, "answer")
  BY DEF Init, InFrames, InArrived, OneProbe, Has, Once, InLine, Behind, Within
<1>2. QED
  BY <1>1, KeepaliveAssumption DEF Init, QueueInv, RoundInv, LineInv, LinkInv, Outstanding

LEMMA QueueKeepalive == Types /\ QueueInv /\ KeepaliveStep => QueueInv'
<1> SUFFICES ASSUME Types, QueueInv, KeepaliveStep PROVE QueueInv'
  OBVIOUS
<1> USE DEF Types, QueueInv, LineInv, LinkInv, KeepaliveStep, Alive, readerVars,
        consumerVars, peerVars, Outstanding, Accepts, Spent
<1>1. CASE KaTick /\ UNCHANGED <<frames, cause>>
  BY <1>1 DEF RoundInv, OneProbe, InFrames, InArrived, KaTick
<1>2. CASE KaPing /\ UNCHANGED cause
  <2>1. "PING" \in Frame /\ frames' = Append(frames, "PING") /\ ~InFrames
    BY <1>2 DEF KaPing, Enqueue, Frame, RoundInv
  <2>2. InFrames' /\ Once(frames', "PING")
    BY <2>1, AppendHas DEF RoundInv, OneProbe, InFrames
  <2>3. InLine(frames') /\ (Within(frames, "answer") => Within(frames', "answer"))
    BY <2>1, AppendLine, AppendWithin
  <2>4. RoundInv'
    BY <1>2, <2>2 DEF RoundInv, OneProbe, InArrived, KaPing
  <2>5. QED
    BY <1>2, <2>3, <2>4 DEF KaPing, InArrived
<1>3. CASE KaSent /\ UNCHANGED cause
  BY <1>3 DEF RoundInv, OneProbe, InFrames, InArrived, KaSent
<1>4. CASE KaGrace /\ UNCHANGED frames
  BY <1>4 DEF RoundInv, OneProbe, InFrames, InArrived, KaGrace
<1>5. QED
  BY <1>1, <1>2, <1>3, <1>4

LEMMA QueueWriter == Types /\ QueueInv /\ WriterStep => QueueInv'
<1> SUFFICES ASSUME Types, QueueInv, WriterStep PROVE QueueInv'
  OBVIOUS
<1> USE KeepaliveAssumption DEF Types, QueueInv, LineInv, LinkInv, WriterStep, Alive,
        keepaliveVars, readerVars, consumerVars, peerVars, writerVars, Outstanding,
        Accepts, Spent
<1>1. CASE WriterTake
  <2>1. frames # <<>> /\ frames' = Tail(frames) /\ writing' = Head(frames)
    BY <1>1 DEF WriterTake
  <2>2. /\ Once(frames', "PING")
        /\ InFrames <=> (writing' = "PING" \/ InFrames')
        /\ ~(writing' = "PING" /\ InFrames')
    BY <2>1, TailHas DEF RoundInv, OneProbe, InFrames
  <2>3. InLine(frames') /\ (Within(frames, "answer") => Within(frames', "answer"))
    BY <2>1, TailLine
  <2>4. RoundInv'
    BY <1>1, <2>2 DEF RoundInv, OneProbe, InArrived, WriterTake
  <2>5. LinkInv'
    BY <1>1 DEF WriterTake
  <2>6. QED
    BY <1>1, <2>3, <2>4, <2>5 DEF WriterTake, InArrived
<1>2. CASE WriterDone
  <2>1. RoundInv'
    BY <1>2 DEF RoundInv, OneProbe, InFrames, InArrived, WriterDone, NoPing
  <2>2. QED
    BY <1>2, <2>1 DEF WriterDone, InArrived
<1>3. CASE WriterTimeout
  BY <1>3 DEF RoundInv, OneProbe, InFrames, InArrived, WriterTimeout
<1>4. QED
  BY <1>1, <1>2, <1>3

LEMMA QueueReader == Types /\ QueueInv /\ ReaderStep => QueueInv'
<1> SUFFICES ASSUME Types, QueueInv, ReaderStep PROVE QueueInv'
  OBVIOUS
<1> USE KeepaliveAssumption DEF Types, QueueInv, LineInv, LinkInv, ReaderStep, Alive,
        consumerVars, peerVars, Outstanding, Accepts, Spent
<1>1. CASE ReaderTake
  <2>1. arrived # <<>> /\ arrived' = Tail(arrived) /\ frames' = frames
    BY <1>1 DEF ReaderTake
  <2>2. /\ Once(arrived', "PONG")
        /\ InArrived <=> (Head(arrived) = "PONG" \/ InArrived')
        /\ ~(Head(arrived) = "PONG" /\ InArrived')
    BY <2>1, TailHas DEF RoundInv, OneProbe, InArrived
  <2>3. Len(arrived') <= MaxArrived
    BY <2>1
  <2>4. RoundInv'
    BY <1>1, <2>1, <2>2 DEF RoundInv, OneProbe, InFrames, ReaderTake
  <2>5. QED
    BY <1>1, <2>1, <2>3, <2>4 DEF ReaderTake
<1>2. CASE ReaderDeliver
  BY <1>2 DEF RoundInv, OneProbe, InFrames, InArrived, ReaderDeliver
<1>3. CASE ReaderStalled
  BY <1>3 DEF RoundInv, OneProbe, InFrames, InArrived, ReaderStalled
<1>4. CASE ReaderAnswer
  <2>1. "answer" \in Frame /\ frames' = Append(frames, "answer") /\ Within(frames, "answer")
    BY <1>4 DEF ReaderAnswer, Enqueue, Frame
  <2>2. (InFrames' <=> InFrames) /\ Once(frames', "PING")
    BY <2>1, AppendHas DEF RoundInv, OneProbe, InFrames
  <2>3. InLine(frames')
    BY <2>1, AppendLine
  <2>4. RoundInv'
    BY <1>4, <2>2 DEF RoundInv, OneProbe, InArrived, ReaderAnswer
  <2>5. QED
    BY <1>4, <2>3, <2>4 DEF ReaderAnswer, InArrived
<1>5. CASE ReaderSent
  BY <1>5 DEF RoundInv, OneProbe, InFrames, InArrived, ReaderSent, Placed, Within
<1>6. QED
  BY <1>1, <1>2, <1>3, <1>4, <1>5

LEMMA QueueSurroundings == Types /\ QueueInv /\ Surroundings => QueueInv'
<1> SUFFICES ASSUME Types, QueueInv, Surroundings PROVE QueueInv'
  OBVIOUS
<1> USE KeepaliveAssumption DEF Types, QueueInv, LineInv, LinkInv, Surroundings, Alive,
        keepaliveVars, writerVars, readerVars, consumerVars, peerVars, Outstanding,
        Accepts, Spent
<1>1. CASE UplinkSends
  <2>1. /\ "other" \in Frame /\ frames' = Append(frames, "other")
        /\ Len(frames) < FrameCap + MaxWaiting
    BY <1>1 DEF UplinkSends, Enqueue, Frame
  <2>2. (InFrames' <=> InFrames) /\ Once(frames', "PING")
    BY <2>1, AppendHas DEF RoundInv, OneProbe, InFrames
  <2>3. InLine(frames') /\ (Within(frames, "answer") => Within(frames', "answer"))
    BY <2>1, AppendLine, AppendWithin
  <2>4. RoundInv'
    BY <1>1, <2>2 DEF RoundInv, OneProbe, InArrived, UplinkSends
  <2>5. QED
    BY <1>1, <2>3, <2>4 DEF UplinkSends, InArrived
<1>2. CASE ConsumerTurns
  BY <1>2 DEF RoundInv, OneProbe, InFrames, InArrived, ConsumerTurns
<1>3. CASE PeerSends
  <2>1. PICK r \in {"DATA", "PING"} : arrived' = Append(arrived, r)
    BY <1>3 DEF PeerSends
  <2>2. (InArrived' <=> InArrived) /\ Once(arrived', "PONG")
    BY <2>1, AppendHas DEF RoundInv, OneProbe, InArrived
  <2>3. Len(arrived') <= MaxArrived
    BY <1>3, <2>1 DEF PeerSends
  <2>4. RoundInv'
    BY <1>3, <2>2 DEF RoundInv, OneProbe, InFrames, PeerSends
  <2>5. QED
    BY <1>3, <2>3, <2>4 DEF PeerSends
<1>4. CASE PeerAnswers
  <2>1. arrived' = Append(arrived, "PONG") /\ ~InArrived
    BY <1>4 DEF PeerAnswers, RoundInv, OneProbe
  <2>2. InArrived' /\ Once(arrived', "PONG")
    BY <2>1, AppendHas DEF RoundInv, OneProbe, InArrived
  <2>3. Len(arrived') <= MaxArrived + 1
    BY <2>1
  <2>4. RoundInv'
    BY <1>4, <2>2 DEF RoundInv, OneProbe, InFrames, PeerAnswers
  <2>5. QED
    BY <1>4, <2>2, <2>3, <2>4 DEF PeerAnswers
<1>5. CASE PeerFreezes
  BY <1>5 DEF RoundInv, OneProbe, InFrames, InArrived, PeerFreezes
<1>6. QED
  BY <1>1, <1>2, <1>3, <1>4, <1>5

LEMMA QueuePass == Types /\ QueueInv /\ Pass => QueueInv'
<1> SUFFICES ASSUME Types, QueueInv, Pass PROVE QueueInv'
  OBVIOUS
<1> USE KeepaliveAssumption DEF Types, QueueInv, Pass, Later, consumerVars, Outstanding
<1>1. RoundInv'
  BY DEF RoundInv, OneProbe, InFrames, InArrived, Ready, NoPing
<1>2. LineInv'
  BY DEF LineInv, InArrived
<1>3. LinkInv'
  BY DEF LinkInv, Accepts, Spent, Ready
<1>4. QED
  BY <1>1, <1>2, <1>3

LEMMA QueueNext == Types /\ QueueInv /\ [Next]_vars => QueueInv'
<1> SUFFICES ASSUME Types, QueueInv, [Next]_vars PROVE QueueInv'
  OBVIOUS
<1>1. CASE UNCHANGED vars
  BY <1>1 DEF vars, keepaliveVars, writerVars, readerVars, consumerVars, peerVars,
       QueueInv, RoundInv, LineInv, LinkInv, OneProbe, Outstanding, InFrames, InArrived,
       Accepts, Spent
<1>2. QED
  BY <1>1, QueueKeepalive, QueueWriter, QueueReader, QueueSurroundings, QueuePass DEF Next

(* Types of the timed model, every timer within its timeout, and queues    *)
(* that only those who wait for room can lengthen: one PING and one answer *)
(* at the most behind the uplinks.                                         *)
THEOREM TypeCorrect == Spec => []TypeOK
<1>1. Init => Types /\ QueueInv
  BY TypesInit, QueueInit
<1>2. Types /\ QueueInv /\ [Next]_vars => (Types /\ QueueInv)'
  BY TypesNext, QueueNext
<1>3. Types /\ QueueInv => TypeOK
  <2>1. Types /\ QueueInv => Len(frames) <= FrameCap + MaxWaiting + 2
    BY LineLength DEF Types, QueueInv, LineInv, RoundInv, OneProbe
  <2>2. Types /\ QueueInv => Len(arrived) <= MaxArrived + 1
    BY KeepaliveAssumption DEF Types, QueueInv, LineInv
  <2>3. QED
    BY <2>1, <2>2 DEF TypeOK, QueuesBounded
<1>4. QED
  BY <1>1, <1>2, <1>3, PTL DEF Spec

-----------------------------------------------------------------------------
(* Where a frozen peer can still be undetected, and for how long; what the *)
(* writer can still spend before a frame that does not get through ends    *)
(* the tunnel.                                                             *)
Round == Longer(period, Grace)
Left == Writes(buffer) + (IF writing = "none" THEN Write ELSE writeLeft)

TimeInv ==
  /\ ka = "select" => silent + due <= Round
  /\ ka = "ping" => silent <= Round
  /\ (ka = "sending" /\ frozen /\ Within(frames, "PING")) =>
       silent <= Round + Writes(SendBuf)
  /\ (ka = "sending" /\ frozen /\ ~Within(frames, "PING")) =>
       silent + Left <= Round + Writes(SendBuf) + Write
  /\ (ka = "sending" /\ (ponged \/ InArrived \/ asked # NoPing)) => silent = 0
  /\ ka \in {"grace", "end"} => silent + grace <= Round + Writes(SendBuf) + Grace
  /\ (ka = "grace" /\ (ponged \/ InArrived)) =>
       silent + grace <= Round /\ silent + due <= Round

(* The numbers in TimeInv, and what the writer spends.                     *)
Numbers ==
  /\ period \in Nat /\ Grace \in Nat /\ Write \in Nat /\ Slow \in Nat
  /\ Round \in Nat /\ period <= Round /\ Grace <= Round
  /\ Writes(buffer) \in Nat /\ Writes(SendBuf) \in Nat
  /\ Writes(buffer) <= Writes(SendBuf)
  /\ buffer > 0 => Writes(buffer) = Writes(buffer - 1) + Slow
  /\ Left \in Nat /\ Left <= Writes(SendBuf) + Write

LEMMA TimeNumbers == Types => Numbers
<1> SUFFICES ASSUME Types PROVE Numbers
  OBVIOUS
<1>1. /\ period \in Nat /\ Grace \in Nat /\ Write \in Nat /\ Slow \in Nat
      /\ buffer \in Nat /\ SendBuf \in Nat /\ buffer <= SendBuf /\ writeLeft \in 0..Write
  BY KeepaliveAssumption DEF Types
<1>2. Round \in Nat /\ period <= Round /\ Grace <= Round
  BY <1>1 DEF Round, Longer
<1>3. /\ Writes(buffer) \in Nat /\ Writes(SendBuf) \in Nat
      /\ Writes(buffer) <= Writes(SendBuf)
  BY <1>1, WritesGrow
<1>4. ASSUME buffer > 0 PROVE Writes(buffer) = Writes(buffer - 1) + Slow
  <2>1. buffer - 1 \in Nat /\ (buffer - 1) + 1 = buffer
    BY <1>1, <1>4
  <2>2. QED
    BY <2>1, WritesGrow
<1>5. Left \in Nat /\ Left <= Writes(SendBuf) + Write
  BY <1>1, <1>3 DEF Left
<1>6. QED
  BY <1>1, <1>2, <1>3, <1>4, <1>5 DEF Numbers

LEMMA TimeInit == Init => TimeInv
<1> SUFFICES ASSUME Init PROVE TimeInv
  OBVIOUS
<1>1. period \in Nat /\ Grace \in Nat
  BY KeepaliveAssumption DEF Init
<1>2. QED
  BY <1>1 DEF Init, TimeInv, Round, Longer

LEMMA TimeKeepalive == Types /\ QueueInv /\ TimeInv /\ KeepaliveStep => TimeInv'
<1> SUFFICES ASSUME Types, QueueInv, TimeInv, KeepaliveStep PROVE TimeInv'
  OBVIOUS
<1>0. Numbers
  BY TimeNumbers
<1> USE <1>0 DEF Numbers, Types, TimeInv, KeepaliveStep, Alive, readerVars, consumerVars,
        peerVars
<1>1. Round' = Round /\ (InArrived' <=> InArrived) /\ Left' = Left
  BY DEF Round, InArrived, Left
<1>2. CASE KaTick /\ UNCHANGED <<frames, cause>>
  BY <1>1, <1>2 DEF KaTick
<1>3. CASE KaPing /\ UNCHANGED cause
  BY <1>1, <1>3 DEF KaPing, QueueInv, RoundInv, Outstanding
<1>4. CASE KaSent /\ UNCHANGED cause
  <2>1. silent <= Round + Writes(SendBuf)
    BY <1>4 DEF KaSent, Placed, Within, QueueInv, LinkInv
  <2>2. QED
    BY <1>1, <1>4, <2>1 DEF KaSent
<1>5. CASE KaGrace /\ UNCHANGED frames
  BY <1>1, <1>5 DEF KaGrace
<1>6. QED
  BY <1>2, <1>3, <1>4, <1>5

LEMMA TimeWriter == Types /\ QueueInv /\ TimeInv /\ WriterStep => TimeInv'
<1> SUFFICES ASSUME Types, QueueInv, TimeInv, WriterStep PROVE TimeInv'
  OBVIOUS
<1>0. Numbers
  BY TimeNumbers
<1> USE <1>0 DEF Numbers, Types, TimeInv, WriterStep, Alive, keepaliveVars, readerVars,
        consumerVars, peerVars, writerVars
<1>1. Round' = Round /\ (InArrived' <=> InArrived)
  BY DEF Round, InArrived
<1>2. CASE WriterTake
  <2>1. Within(frames, "PING") => Within(frames', "PING")
    BY <1>2, TailLine DEF WriterTake, QueueInv, LineInv
  <2>2. Left' = Left /\ Left >= Write
    BY <1>2 DEF WriterTake, Left
  <2>3. QED
    BY <1>1, <1>2, <2>1, <2>2 DEF WriterTake
<1>3. CASE WriterDone
  <2>1. frozen => Left' <= Left
    <3> SUFFICES ASSUME frozen PROVE Left' <= Left
      OBVIOUS
    <3>1. /\ Left = Writes(buffer) + writeLeft /\ Left' = Writes(buffer - 1) + Write
          /\ Writes(buffer) = Writes(buffer - 1) + Slow /\ buffer - 1 \in Nat
      BY <1>3 DEF WriterDone, Accepts, Left
    <3>2. Write - writeLeft <= Slow
      BY <1>3 DEF WriterDone, QueueInv, LinkInv, Spent
    <3>3. Writes(buffer - 1) \in Nat
      BY <3>1, WritesGrow
    <3>4. QED
      BY <3>1, <3>2, <3>3
  <2>2. Left' \in Nat
    <3>1. buffer' \in Nat /\ Left' = Writes(buffer') + Write
      BY <1>3 DEF WriterDone, Accepts, Left
    <3>2. Writes(buffer') \in Nat
      BY <3>1, WritesGrow
    <3>3. QED
      BY <3>1, <3>2
  <2>3. (asked' # NoPing /\ asked = NoPing) => silent = 0
    BY <1>3 DEF WriterDone, QueueInv, LinkInv
  <2>4. QED
    BY <1>1, <1>3, <2>1, <2>2, <2>3 DEF WriterDone
<1>4. CASE WriterTimeout
  BY <1>1, <1>4 DEF WriterTimeout, Left
<1>5. QED
  BY <1>2, <1>3, <1>4

LEMMA TimeReader == Types /\ QueueInv /\ TimeInv /\ ReaderStep => TimeInv'
<1> SUFFICES ASSUME Types, QueueInv, TimeInv, ReaderStep PROVE TimeInv'
  OBVIOUS
<1>0. Numbers
  BY TimeNumbers
<1> USE <1>0 DEF Numbers, Types, TimeInv, ReaderStep, Alive, consumerVars, peerVars
<1>1. Round' = Round /\ Left' = Left
  BY DEF Round, Left
<1>2. CASE ReaderTake
  <2>1. InArrived <=> (Head(arrived) = "PONG" \/ InArrived')
    BY <1>2, TailHas DEF ReaderTake, InArrived
  <2>2. ponged' => ponged \/ InArrived
    BY <1>2, <2>1 DEF ReaderTake
  <2>3. QED
    BY <1>1, <1>2, <2>1, <2>2 DEF ReaderTake
<1>3. CASE ReaderDeliver
  BY <1>1, <1>3 DEF ReaderDeliver, InArrived
<1>4. CASE ReaderStalled
  BY <1>1, <1>4 DEF ReaderStalled, InArrived
<1>5. CASE ReaderAnswer
  <2>1. Within(frames', "PING") <=> Within(frames, "PING")
    <3>1. "answer" \in Frame /\ frames' = Append(frames, "answer")
      BY <1>5 DEF ReaderAnswer, Enqueue, Frame
    <3>2. QED
      BY <3>1, AppendWithin
  <2>2. QED
    BY <1>1, <1>5, <2>1 DEF ReaderAnswer, InArrived
<1>6. CASE ReaderSent
  BY <1>1, <1>6 DEF ReaderSent, InArrived
<1>7. QED
  BY <1>2, <1>3, <1>4, <1>5, <1>6

LEMMA TimeSurroundings == Types /\ QueueInv /\ TimeInv /\ Surroundings => TimeInv'
<1> SUFFICES ASSUME Types, QueueInv, TimeInv, Surroundings PROVE TimeInv'
  OBVIOUS
<1>0. Numbers
  BY TimeNumbers
<1> USE <1>0 DEF Numbers, Types, TimeInv, Surroundings, Alive, keepaliveVars, writerVars,
        readerVars, consumerVars, peerVars
<1>1. Round' = Round
  BY DEF Round
<1>2. CASE UplinkSends
  <2>1. Within(frames', "PING") <=> Within(frames, "PING")
    <3>1. "other" \in Frame /\ frames' = Append(frames, "other")
      BY <1>2 DEF UplinkSends, Enqueue, Frame
    <3>2. QED
      BY <3>1, AppendWithin
  <2>2. QED
    BY <1>1, <1>2, <2>1 DEF UplinkSends, InArrived, Left
<1>3. CASE ConsumerTurns
  BY <1>1, <1>3 DEF ConsumerTurns, InArrived, Left
<1>4. CASE PeerSends
  <2>1. silent = 0 /\ ~frozen
    BY <1>4 DEF PeerSends, QueueInv, LinkInv
  <2>2. QED
    BY <1>1, <1>4, <2>1 DEF PeerSends, Left
<1>5. CASE PeerAnswers
  <2>1. silent = 0 /\ ~frozen
    BY <1>5 DEF PeerAnswers, QueueInv, LinkInv
  <2>2. QED
    BY <1>1, <1>5, <2>1 DEF PeerAnswers, Left
<1>6. CASE PeerFreezes
  <2>1. silent = 0 /\ Left' = Left
    BY <1>6 DEF PeerFreezes, QueueInv, LinkInv, Left
  <2>2. QED
    BY <1>1, <1>6, <2>1 DEF PeerFreezes, InArrived
<1>7. QED
  BY <1>2, <1>3, <1>4, <1>5, <1>6

LEMMA TimePass == Types /\ QueueInv /\ TimeInv /\ Pass => TimeInv'
<1> SUFFICES ASSUME Types, QueueInv, TimeInv, Pass PROVE TimeInv'
  OBVIOUS
<1>0. Numbers
  BY TimeNumbers
<1> USE <1>0 DEF Numbers, Types, TimeInv, Pass, Later, Alive, consumerVars
<1>1. Round' = Round /\ (InArrived' <=> InArrived)
  BY DEF Round, InArrived
<1>2. ka # "ping" /\ (ka = "select" => due > 0) /\ (ka = "grace" => grace > 0)
  BY DEF Ready
<1>3. ka = "sending" => ~Within(frames, "PING") /\ InFrames
  <2>1. ka = "sending" => ~Within(frames, "PING")
    BY DEF Ready, Placed, Within
  <2>2. ~Within(frames, "PING") => InFrames
    BY DEF Within, InFrames, Has
  <2>3. QED
    BY <2>1, <2>2
<1>4. ka = "sending" => ~ponged /\ ~InArrived /\ asked = NoPing
  BY <1>3 DEF QueueInv, RoundInv, OneProbe, Outstanding
<1>5. InFrames => writing # "none" /\ writeLeft > 0
  <2>1. InFrames => frames # <<>>
    BY DEF InFrames, Has
  <2>2. QED
    BY <2>1 DEF Ready
<1>6. ka = "sending" => Left' = Left - 1
  BY <1>3, <1>5 DEF Left
<1>7. ka = "end" => cause # "none"
  BY DEF QueueInv, RoundInv
<1>8. asked' # NoPing => asked # NoPing
  OBVIOUS
<1>9. CASE ka = "sending"
  BY <1>1, <1>3, <1>4, <1>6, <1>8, <1>9
<1>10. CASE ka = "select"
  BY <1>1, <1>2, <1>10
<1>11. CASE ka = "grace"
  BY <1>1, <1>2, <1>11
<1>12. QED
  BY <1>2, <1>7, <1>9, <1>10, <1>11

LEMMA TimeNext == Types /\ QueueInv /\ TimeInv /\ [Next]_vars => TimeInv'
<1> SUFFICES ASSUME Types, QueueInv, TimeInv, [Next]_vars PROVE TimeInv'
  OBVIOUS
<1>1. CASE UNCHANGED vars
  BY <1>1 DEF vars, keepaliveVars, writerVars, readerVars, consumerVars, peerVars,
       TimeInv, InArrived, Round, Left
<1>2. QED
  BY <1>1, TimeKeepalive, TimeWriter, TimeReader, TimeSurroundings, TimePass DEF Next

LEMMA TimeInductive == Spec => [](Types /\ QueueInv /\ TimeInv)
<1>1. Init => Types /\ QueueInv /\ TimeInv
  BY TypesInit, QueueInit, TimeInit
<1>2. Types /\ QueueInv /\ TimeInv /\ [Next]_vars => (Types /\ QueueInv /\ TimeInv)'
  BY TypesNext, QueueNext, TimeNext
<1>3. QED
  BY <1>1, <1>2, PTL DEF Spec

(* A frozen peer is detected within the longer of a period and a grace,    *)
(* the time the buffers on the way to it take to fill, and the longer of   *)
(* KEEPALIVE_GRACE and WRITE_TIMEOUT: the bound that keepalive_loop and    *)
(* writer_loop give together, whatever is queued before the PING.          *)
THEOREM PeerDetected == Spec => []DetectionBound
<1>1. ASSUME Types, QueueInv, TimeInv PROVE DetectionBound
  <2> DEFINE G == Longer(Grace, Write)
  <2>1. G \in Nat /\ Grace <= G /\ Write <= G
    BY KeepaliveAssumption DEF Longer
  <2> HIDE DEF G
  <2> Numbers
    BY <1>1, TimeNumbers
  <2>2. silent <= Round + Writes(SendBuf) + G
    <3>1. CASE ~frozen
      BY <1>1, <2>1, <3>1 DEF Numbers, QueueInv, LinkInv
    <3>2. CASE frozen
      <4>1. CASE ka \in {"select", "ping"}
        BY <1>1, <2>1, <4>1 DEF Numbers, Types, TimeInv
      <4>2. CASE ka = "sending"
        BY <1>1, <2>1, <3>2, <4>2 DEF Numbers, Types, TimeInv
      <4>3. CASE ka \in {"grace", "end"}
        BY <1>1, <2>1, <4>3 DEF Numbers, Types, TimeInv
      <4>4. QED
        BY <1>1, <4>1, <4>2, <4>3 DEF Types
    <3>3. QED
      BY <3>1, <3>2
  <2>3. QED
    BY <2>2 DEF DetectionBound, Round, G
<1>2. Types /\ QueueInv /\ TimeInv => DetectionBound
  BY <1>1
<1>3. QED
  BY TimeInductive, <1>2, PTL

-----------------------------------------------------------------------------
(* While the peer answers and the consumer reads: how much of the grace is *)
(* gone, and how much the answer needs yet, at each place of its way.  A   *)
(* PING at place p of the frames waits for p writes and the rest of the    *)
(* one in progress; a PONG at place q of the records for q - 1 turns of    *)
(* the reader and, when the reader itself waits with an answer, for the    *)
(* writes that give that answer room.                                      *)
Full == Writes(FrameCap + 1)
Turn == Writes(MaxWaiting + 1)
Gone == Grace - grace
Rest == IF writing = "none" THEN 0 ELSE Slow - Spent

PingAt(p) == p <= FrameCap /\ Gone + Writes(p) + Rest <= Full

PongAt(q, gone) ==
  /\ gone + Turns(q - 1) <= Latency
  /\ reader = "answer" => gone + Turns(q - 1) + Turn <= Latency
  /\ \A i \in Behind(frames) : frames[i] = "answer" =>
       gone + Turns(q - 1) + Writes(i - FrameCap - 1) + Rest <= Latency

InTime ==
  /\ \A p \in 1..Len(frames) : frames[p] = "PING" => PingAt(p)
  /\ writing = "PING" => Gone + Rest <= Full
  /\ asked # NoPing => Gone <= Full + asked
  /\ \A q \in 1..Len(arrived) : arrived[q] = "PONG" => PongAt(q, Gone)

Watched == ka = "grace" /\ ~ponged /\ ~frozen /\ ~stalled

AnswerInv ==
  /\ stuck => stalled
  /\ Watched => InTime
  /\ NoFalseAlarm

(* The numbers in AnswerInv while the peer is well.                        *)
Costs ==
  /\ Gone \in Nat /\ Rest \in Nat /\ Rest <= Slow /\ Slow \in Nat
  /\ Full \in Nat /\ Turn \in Nat /\ RoundTrip \in Nat /\ Turns(MaxArrived + 1) \in Nat
  /\ FrameCap \in Nat /\ MaxWaiting \in Nat /\ MaxArrived \in Nat
  /\ Latency = Full + RoundTrip + Turns(MaxArrived + 1)

CostRules ==
  /\ \A n \in Nat : /\ Writes(n) \in Nat /\ Writes(n + 1) = Writes(n) + Slow
                    /\ Turns(n) \in Nat /\ Turns(n + 1) = Turns(n) + Turn
  /\ \A n \in Nat : n <= FrameCap => Writes(n) + Slow <= Full
  /\ \A n \in Nat : n <= MaxWaiting => Writes(n) + Slow <= Turn
  /\ \A n \in Nat : n <= MaxArrived => Turns(n) + Turn <= Turns(MaxArrived + 1)

LEMMA CostNumbers == Types /\ QueueInv /\ ~frozen => Costs /\ CostRules
<1> SUFFICES ASSUME Types, QueueInv, ~frozen PROVE Costs /\ CostRules
  OBVIOUS
<1>1. /\ Slow \in Nat /\ RoundTrip \in Nat /\ FrameCap \in Nat /\ MaxWaiting \in Nat
      /\ MaxArrived \in Nat /\ Grace \in Nat /\ Write \in Nat
      /\ FrameCap + 1 \in Nat /\ MaxWaiting + 1 \in Nat /\ MaxArrived + 1 \in Nat
  BY KeepaliveAssumption
<1>2. Gone \in Nat
  BY <1>1 DEF Types, Gone
<1>3. Rest \in Nat /\ Rest <= Slow
  BY <1>1 DEF Types, QueueInv, LinkInv, Accepts, Rest, Spent
<1>4. Full \in Nat /\ Turn \in Nat /\ Turns(MaxArrived + 1) \in Nat
  BY <1>1, WritesGrow, TurnsGrow DEF Full, Turn
<1>5. /\ \A n \in Nat : Writes(n) \in Nat /\ Writes(n + 1) = Writes(n) + Slow
      /\ \A n \in Nat : Turns(n) \in Nat /\ Turns(n + 1) = Turns(n) + Turn
  BY WritesGrow, TurnsGrow DEF Turn
<1>6. ASSUME NEW n \in Nat, n <= FrameCap PROVE Writes(n) + Slow <= Full
  <2>1. n + 1 \in Nat /\ n + 1 <= FrameCap + 1
    BY <1>1, <1>6
  <2>2. Writes(n + 1) <= Full
    BY <2>1, <1>1, WritesGrow DEF Full
  <2>3. QED
    BY <2>2, <1>5
<1>7. ASSUME NEW n \in Nat, n <= MaxWaiting PROVE Writes(n) + Slow <= Turn
  <2>1. n + 1 \in Nat /\ n + 1 <= MaxWaiting + 1
    BY <1>1, <1>7
  <2>2. Writes(n + 1) <= Turn
    BY <2>1, <1>1, WritesGrow DEF Turn
  <2>3. QED
    BY <2>2, <1>5
<1>8. ASSUME NEW n \in Nat, n <= MaxArrived PROVE Turns(n) + Turn <= Turns(MaxArrived + 1)
  <2>1. n + 1 \in Nat /\ n + 1 <= MaxArrived + 1
    BY <1>1, <1>8
  <2>2. Turns(n + 1) <= Turns(MaxArrived + 1)
    BY <2>1, <1>1, TurnsGrow
  <2>3. QED
    BY <2>2, <1>5
<1>9. Latency = Full + RoundTrip + Turns(MaxArrived + 1)
  BY DEF Latency, Full
<1>10. QED
  BY <1>1, <1>2, <1>3, <1>4, <1>5, <1>6, <1>7, <1>8, <1>9 DEF Costs, CostRules

(* No PING in the line: an answer that waits for room waits for one turn   *)
(* at the most.                                                            *)
LEMMA AnswerWaits ==
  ASSUME Types, QueueInv, ~frozen, ~InFrames, NEW i \in Behind(frames)
  PROVE  /\ i \in 1..Len(frames) /\ i - FrameCap - 1 \in Nat
         /\ Writes(i - FrameCap - 1) \in Nat
         /\ Writes(i - FrameCap - 1) + Rest <= Turn
<1>1. Costs /\ CostRules
  BY CostNumbers
<1>2. Len(frames) \in Nat /\ Len(frames) <= FrameCap + MaxWaiting + 1
  BY LineLength DEF Types, QueueInv, LineInv, RoundInv, OneProbe, InFrames
<1>3. i \in 1..Len(frames) /\ i > FrameCap
  BY DEF Behind
<1>4. i - FrameCap - 1 \in Nat /\ i - FrameCap - 1 <= MaxWaiting
  BY <1>1, <1>2, <1>3 DEF Costs
<1>5. Writes(i - FrameCap - 1) + Slow <= Turn /\ Writes(i - FrameCap - 1) \in Nat
  BY <1>1, <1>4 DEF CostRules
<1>6. Rest \in Nat /\ Rest <= Slow /\ Slow \in Nat /\ Turn \in Nat
  BY <1>1 DEF Costs
<1>7. QED
  BY <1>3, <1>4, <1>5, <1>6

(* When the way to the PONG is still open the whole of it is affordable.   *)
LEMMA PongAffordable ==
  ASSUME Types, QueueInv, ~frozen, ~InFrames,
         NEW q \in Nat, q >= 1, q <= MaxArrived + 1,
         NEW gone \in Nat, gone <= Full + RoundTrip
  PROVE  PongAt(q, gone)
<1>1. Costs /\ CostRules
  BY CostNumbers
<1>2. q - 1 \in Nat /\ q - 1 <= MaxArrived
  BY <1>1 DEF Costs
<1>3. Turns(q - 1) \in Nat /\ Turns(q - 1) + Turn <= Turns(MaxArrived + 1)
  BY <1>1, <1>2 DEF CostRules
<1>4. gone + Turns(q - 1) + Turn <= Latency /\ gone + Turns(q - 1) <= Latency
  BY <1>1, <1>3 DEF Costs
<1>5. ASSUME NEW i \in Behind(frames)
      PROVE  gone + Turns(q - 1) + Writes(i - FrameCap - 1) + Rest <= Latency
  <2>1. Writes(i - FrameCap - 1) \in Nat /\ Writes(i - FrameCap - 1) + Rest <= Turn
    BY AnswerWaits
  <2>2. QED
    BY <1>1, <1>3, <1>4, <2>1 DEF Costs
<1>6. QED
  BY <1>4, <1>5 DEF PongAt

LEMMA AnswerInit == Init => AnswerInv
  BY DEF Init, AnswerInv, Watched, NoFalseAlarm, UnansweredMeansFrozen

LEMMA AnswerKeepalive == Types /\ QueueInv /\ AnswerInv /\ KeepaliveStep => AnswerInv'
<1> SUFFICES ASSUME Types, QueueInv, AnswerInv, KeepaliveStep PROVE AnswerInv'
  OBVIOUS
<1> USE DEF AnswerInv, KeepaliveStep, Alive, readerVars, consumerVars, peerVars
<1>1. CASE KaTick /\ UNCHANGED <<frames, cause>>
  BY <1>1 DEF KaTick, Watched, NoFalseAlarm, UnansweredMeansFrozen
<1>2. CASE KaPing /\ UNCHANGED cause
  BY <1>2 DEF KaPing, Watched, NoFalseAlarm, UnansweredMeansFrozen
<1>3. CASE KaSent /\ UNCHANGED cause
  <2>1. SUFFICES ASSUME Watched' PROVE InTime'
    BY <1>3 DEF KaSent, NoFalseAlarm, UnansweredMeansFrozen
  <2>2. ~frozen /\ Costs /\ CostRules /\ Types' /\ QueueInv' /\ ~frozen'
    BY <1>3, <2>1, CostNumbers, TypesKeepalive, QueueKeepalive DEF Watched
  <2>3. Gone' = 0 /\ Rest' = Rest
    BY <1>3, KeepaliveAssumption DEF KaSent, Gone, Rest, Spent
  <2>4. ASSUME NEW p \in 1..Len(frames'), frames'[p] = "PING" PROVE PingAt(p)'
    <3>1. p \in Nat /\ p <= FrameCap
      BY <1>3, <2>4 DEF KaSent, Placed
    <3>2. Writes(p) \in Nat /\ Writes(p) + Slow <= Full
      BY <2>2, <3>1 DEF CostRules
    <3>3. QED
      BY <2>2, <2>3, <3>1, <3>2 DEF Costs, PingAt, Full
  <2>5. Gone' + Rest' <= Full'
    <3>1. 0 \in Nat /\ 0 <= FrameCap
      BY KeepaliveAssumption
    <3>2. Writes(0) \in Nat /\ Writes(0) + Slow <= Full
      BY <2>2, <3>1 DEF CostRules
    <3>3. QED
      BY <2>2, <2>3, <3>2 DEF Costs, Full
  <2>6. asked' # NoPing => Gone' <= Full' + asked'
    BY <1>3, <2>2, <2>3 DEF Costs, Full, Types, KaSent
  <2>7. ASSUME NEW q \in 1..Len(arrived'), arrived'[q] = "PONG" PROVE PongAt(q, Gone)'
    <3>1. InArrived /\ ~InFrames /\ Len(arrived) <= MaxArrived + 1 /\ Len(arrived) \in Nat
      BY <1>3, <2>7, KeepaliveAssumption DEF InArrived, Has, QueueInv, RoundInv,
           OneProbe, LineInv, Types, KaSent
    <3>2. q \in Nat /\ q >= 1 /\ q <= MaxArrived + 1
      BY <3>1, <2>7, KeepaliveAssumption DEF KaSent
    <3>3. PongAt(q, 0)
      <4>1. 0 \in Nat /\ 0 <= Full + RoundTrip
        BY <2>2 DEF Costs
      <4>2. QED
        BY <2>2, <3>1, <3>2, <4>1, PongAffordable
    <3>4. QED
      BY <1>3, <2>3, <3>3 DEF PongAt, KaSent, Turn, Latency
  <2>8. QED
    BY <2>4, <2>5, <2>6, <2>7 DEF InTime
<1>4. CASE KaGrace /\ UNCHANGED frames
  <2>1. ka' # "grace"
    BY <1>4 DEF KaGrace
  <2>2. SUFFICES ASSUME ~ponged, ~frozen, ~stalled PROVE Grace <= Latency
    <3>1. Latency \in Nat /\ Grace \in Nat
      <4>1. FrameCap + 1 \in Nat /\ MaxArrived + 1 \in Nat
        BY KeepaliveAssumption
      <4>2. Full \in Nat /\ Turns(MaxArrived + 1) \in Nat
        BY <4>1, WritesGrow, TurnsGrow DEF Full
      <4>3. QED
        BY <4>2, KeepaliveAssumption DEF Latency, Full
    <3>2. QED
      BY <1>4, <2>1, <3>1 DEF KaGrace, Watched, NoFalseAlarm, UnansweredMeansFrozen
  <2>3. Costs /\ CostRules /\ InTime /\ Outstanding /\ Gone = Grace
    BY <1>4, <2>2, CostNumbers, KeepaliveAssumption DEF KaGrace, Watched, QueueInv,
         RoundInv, Gone
  <2>4. CASE InFrames
    <3>1. PICK p \in 1..Len(frames) : frames[p] = "PING"
      BY <2>4 DEF InFrames, Has
    <3>2. p \in Nat /\ PingAt(p)
      BY <3>1, <2>3 DEF InTime
    <3>3. Writes(p) \in Nat
      BY <2>3, <3>2 DEF CostRules
    <3>4. QED
      BY <2>3, <3>2, <3>3 DEF Costs, PingAt
  <2>5. CASE writing = "PING"
    BY <2>3, <2>5 DEF Costs, InTime
  <2>6. CASE asked # NoPing
    <3>1. asked \in Nat /\ asked <= RoundTrip
      BY <2>6, KeepaliveAssumption DEF Types, NoPing
    <3>2. QED
      BY <2>3, <2>6, <3>1 DEF Costs, InTime
  <2>7. CASE InArrived
    <3>1. PICK q \in 1..Len(arrived) : arrived[q] = "PONG"
      BY <2>7 DEF InArrived, Has
    <3>2. q - 1 \in Nat /\ Gone + Turns(q - 1) <= Latency
      BY <3>1, <2>3 DEF InTime, PongAt
    <3>3. Turns(q - 1) \in Nat
      BY <2>3, <3>2 DEF CostRules
    <3>4. QED
      BY <2>3, <3>2, <3>3 DEF Costs
  <2>8. QED
    BY <2>3, <2>4, <2>5, <2>6, <2>7 DEF Outstanding
<1>5. QED
  BY <1>1, <1>2, <1>3, <1>4

LEMMA AnswerWriter == Types /\ QueueInv /\ AnswerInv /\ WriterStep => AnswerInv'
<1> SUFFICES ASSUME Types, QueueInv, AnswerInv, WriterStep PROVE AnswerInv'
  OBVIOUS
<1> USE DEF AnswerInv, WriterStep, Alive, keepaliveVars, readerVars, consumerVars,
        peerVars, writerVars
<1>1. stuck' => stalled'
  OBVIOUS
<1>2. NoFalseAlarm'
  BY DEF NoFalseAlarm, UnansweredMeansFrozen, WriterTake, WriterDone, WriterTimeout
<1>3. SUFFICES ASSUME Watched' PROVE InTime'
  BY <1>1, <1>2
<1>4. ~frozen /\ InTime /\ Costs /\ CostRules /\ Gone' = Gone
  BY <1>3, CostNumbers DEF Watched, Gone, WriterTake, WriterDone, WriterTimeout
<1>5. CASE WriterTake
  <2>1. /\ frames # <<>> /\ frames' = Tail(frames) /\ writing' = Head(frames)
        /\ Rest = 0 /\ Rest' = Slow
    BY <1>5, KeepaliveAssumption DEF WriterTake, Rest, Spent, Types, Frame
  <2>2. /\ Len(frames) \in Nat \ {0} /\ Len(frames') = Len(frames) - 1
        /\ Head(frames) = frames[1]
    BY <2>1 DEF Types
  <2>3. \A i \in 1..Len(frames') :
          frames'[i] = frames[i + 1] /\ i + 1 \in 1..Len(frames) /\ i \in Nat
    BY <2>1, <2>2 DEF Types
  <2>4. ASSUME NEW p \in 1..Len(frames'), frames'[p] = "PING" PROVE PingAt(p)'
    <3>1. p \in Nat /\ PingAt(p + 1)
      BY <1>4, <2>3, <2>4 DEF InTime
    <3>2. Writes(p) \in Nat /\ Writes(p + 1) = Writes(p) + Slow
      BY <1>4, <3>1 DEF CostRules
    <3>3. QED
      BY <1>4, <2>1, <3>1, <3>2 DEF Costs, PingAt, Full
  <2>5. writing' = "PING" => Gone' + Rest' <= Full'
    <3>1. Writes(1) = Slow
      BY KeepaliveAssumption DEF Writes
    <3>2. writing' = "PING" => PingAt(1)
      BY <1>4, <2>1, <2>2 DEF InTime
    <3>3. QED
      BY <1>4, <2>1, <3>1, <3>2 DEF Costs, PingAt, Full
  <2>6. asked' # NoPing => Gone' <= Full' + asked'
    BY <1>4, <1>5 DEF InTime, WriterTake, Full
  <2>7. ASSUME NEW q \in 1..Len(arrived'), arrived'[q] = "PONG" PROVE PongAt(q, Gone)'
    <3>1. PongAt(q, Gone)
      BY <1>4, <2>7 DEF InTime
    <3>2. ASSUME NEW i \in Behind(frames)', frames'[i] = "answer"
          PROVE  Gone' + Turns(q - 1) + Writes(i - FrameCap - 1) + Rest' <= Latency
      <4>1. /\ i + 1 \in Behind(frames) /\ frames[i + 1] = "answer"
            /\ i - FrameCap - 1 \in Nat /\ (i + 1) - FrameCap - 1 = (i - FrameCap - 1) + 1
        BY <2>3, <3>2, KeepaliveAssumption DEF Behind
      <4>2. Gone + Turns(q - 1) + Writes((i + 1) - FrameCap - 1) + Rest <= Latency
        BY <3>1, <4>1 DEF PongAt
      <4>3. /\ Writes(i - FrameCap - 1) \in Nat
            /\ Writes((i + 1) - FrameCap - 1) = Writes(i - FrameCap - 1) + Slow
        BY <1>4, <4>1 DEF CostRules
      <4>4. q - 1 \in Nat
        OBVIOUS
      <4>5. Turns(q - 1) \in Nat
        BY <1>4, <4>4 DEF CostRules
      <4>6. QED
        BY <1>4, <2>1, <4>2, <4>3, <4>5 DEF Costs
    <3>3. QED
      BY <1>4, <3>1, <3>2 DEF PongAt, Turn, Latency
  <2>8. QED
    BY <2>4, <2>5, <2>6, <2>7 DEF InTime
<1>6. CASE WriterDone
  <2>1. Rest' = 0 /\ frames' = frames /\ writing' = "none"
    BY <1>6 DEF WriterDone, Rest
  <2>2. ASSUME NEW p \in 1..Len(frames'), frames'[p] = "PING" PROVE PingAt(p)'
    <3>1. p \in Nat /\ PingAt(p)
      BY <1>4, <2>1, <2>2 DEF InTime
    <3>2. Writes(p) \in Nat
      BY <1>4, <3>1 DEF CostRules
    <3>3. QED
      BY <1>4, <2>1, <3>1, <3>2 DEF Costs, PingAt, Full
  <2>3. asked' # NoPing => Gone' <= Full' + asked'
    <3>1. CASE writing = "PING" /\ asked = NoPing
      BY <1>4, <1>6, <3>1 DEF WriterDone, InTime, Costs, Full
    <3>2. CASE ~(writing = "PING" /\ asked = NoPing)
      BY <1>4, <1>6, <3>2 DEF WriterDone, InTime, Full
    <3>3. QED
      BY <3>1, <3>2
  <2>4. ASSUME NEW q \in 1..Len(arrived'), arrived'[q] = "PONG" PROVE PongAt(q, Gone)'
    <3>1. PongAt(q, Gone)
      BY <1>4, <2>4 DEF InTime
    <3>2. ASSUME NEW i \in Behind(frames), frames[i] = "answer"
          PROVE  Gone' + Turns(q - 1) + Writes(i - FrameCap - 1) + Rest' <= Latency
      <4>1. q - 1 \in Nat /\ i - FrameCap - 1 \in Nat
        BY <3>2, KeepaliveAssumption DEF Behind
      <4>2. Turns(q - 1) \in Nat /\ Writes(i - FrameCap - 1) \in Nat
        BY <1>4, <4>1 DEF CostRules
      <4>3. Gone + Turns(q - 1) + Writes(i - FrameCap - 1) + Rest <= Latency
        BY <3>1, <3>2 DEF PongAt
      <4>4. QED
        BY <1>4, <2>1, <4>2, <4>3 DEF Costs
    <3>3. QED
      BY <1>4, <2>1, <3>1, <3>2 DEF PongAt, Turn, Latency
  <2>5. QED
    BY <2>1, <2>2, <2>3, <2>4 DEF InTime
<1>7. CASE WriterTimeout
  BY <1>4, <1>7 DEF WriterTimeout, InTime, PingAt, PongAt, Rest, Spent, Full, Turn, Latency
<1>8. QED
  BY <1>5, <1>6, <1>7

LEMMA AnswerReader == Types /\ QueueInv /\ AnswerInv /\ ReaderStep => AnswerInv'
<1> SUFFICES ASSUME Types, QueueInv, AnswerInv, ReaderStep PROVE AnswerInv'
  OBVIOUS
<1> USE DEF AnswerInv, ReaderStep, Alive, consumerVars, peerVars
<1>1. stuck' => stalled'
  OBVIOUS
<1>2. NoFalseAlarm'
  BY DEF NoFalseAlarm, UnansweredMeansFrozen
<1>3. SUFFICES ASSUME Watched' PROVE InTime'
  BY <1>1, <1>2
<1>4. ~frozen /\ ~stalled /\ Costs /\ CostRules /\ Gone' = Gone /\ Rest' = Rest
  BY <1>3, CostNumbers DEF Watched, Gone, Rest, Spent
<1>5. InTime /\ ~ponged
  BY <1>3 DEF Watched, ReaderTake, ReaderDeliver, ReaderStalled, ReaderAnswer, ReaderSent
<1>6. asked' # NoPing => Gone' <= Full' + asked'
  BY <1>4, <1>5 DEF InTime, Full
<1>7. writing' = "PING" => Gone' + Rest' <= Full'
  BY <1>4, <1>5 DEF InTime, Full
<1>8. CASE ReaderTake
  <2>1. /\ frames' = frames /\ reader = "free" /\ arrived # <<>> /\ arrived' = Tail(arrived)
        /\ reader' # "sending"
    BY <1>3, <1>8 DEF ReaderTake, Watched
  <2>2. /\ Len(arrived) \in Nat \ {0} /\ Len(arrived') = Len(arrived) - 1
    BY <2>1 DEF Types
  <2>3. \A q \in 1..Len(arrived') :
          arrived'[q] = arrived[q + 1] /\ q + 1 \in 1..Len(arrived) /\ q \in Nat
    BY <2>1, <2>2 DEF Types
  <2>4. ASSUME NEW q \in 1..Len(arrived'), arrived'[q] = "PONG" PROVE PongAt(q, Gone)'
    <3>1. /\ PongAt(q + 1, Gone) /\ q \in Nat
          /\ q - 1 \in Nat /\ (q - 1) + 1 = q /\ (q + 1) - 1 = q
      BY <1>5, <2>3, <2>4 DEF InTime
    <3>2. Turns(q - 1) \in Nat /\ Turns(q) = Turns(q - 1) + Turn
      BY <1>4, <3>1 DEF CostRules
    <3>3. Gone + Turns(q) <= Latency
      BY <3>1 DEF PongAt
    <3>4. Gone + Turns(q - 1) + Turn <= Latency /\ Gone + Turns(q - 1) <= Latency
      BY <1>4, <3>2, <3>3 DEF Costs
    <3>5. \A i \in Behind(frames) : frames[i] # "answer"
      BY <2>1, KeepaliveAssumption DEF QueueInv, LineInv, Within, Behind
    <3>6. QED
      BY <1>4, <2>1, <3>4, <3>5 DEF PongAt, Turn, Latency
  <2>5. QED
    BY <1>4, <1>5, <1>6, <1>7, <2>1, <2>4 DEF InTime, PingAt, Full
<1>9. CASE ReaderDeliver
  BY <1>4, <1>5, <1>6, <1>7, <1>9 DEF ReaderDeliver, InTime, PingAt, PongAt, Full, Turn,
       Latency
<1>10. CASE ReaderStalled
  BY <1>1, <1>4, <1>10 DEF ReaderStalled
<1>11. CASE ReaderAnswer
  <2>1. /\ frames' = Append(frames, "answer") /\ "answer" \in Frame /\ arrived' = arrived
        /\ reader = "answer" /\ reader' # "answer" /\ Within(frames, "answer")
    BY <1>11 DEF ReaderAnswer, Enqueue, Frame, QueueInv, LineInv
  <2>2. /\ Len(frames) \in Nat /\ Len(frames') = Len(frames) + 1
        /\ frames'[Len(frames) + 1] = "answer"
        /\ \A i \in 1..Len(frames) : frames'[i] = frames[i]
    BY <2>1 DEF Types
  <2>3. ASSUME NEW p \in 1..Len(frames'), frames'[p] = "PING" PROVE PingAt(p)'
    <3>1. p \in 1..Len(frames) /\ frames[p] = "PING"
      BY <2>2, <2>3
    <3>2. QED
      BY <1>4, <1>5, <3>1 DEF InTime, PingAt, Full
  <2>4. ASSUME NEW q \in 1..Len(arrived'), arrived'[q] = "PONG" PROVE PongAt(q, Gone)'
    <3>1. PongAt(q, Gone) /\ q - 1 \in Nat /\ InArrived
      BY <1>5, <2>1, <2>4 DEF InTime, InArrived, Has
    <3>2. /\ Gone + Turns(q - 1) + Turn <= Latency /\ Gone + Turns(q - 1) <= Latency
          /\ Turns(q - 1) \in Nat
      BY <1>4, <2>1, <3>1 DEF PongAt, CostRules
    <3>3. Types' /\ QueueInv' /\ ~frozen' /\ ~InFrames'
      <4>1. Types' /\ QueueInv' /\ ~frozen'
        BY <1>4, TypesReader, QueueReader
      <4>2. InArrived'
        BY <2>1, <3>1 DEF InArrived
      <4>3. QED
        BY <4>1, <4>2 DEF QueueInv, RoundInv, OneProbe
    <3>4. Len(frames') <= FrameCap + MaxWaiting + 1
      BY <3>3, LineLength DEF Types, QueueInv, LineInv, RoundInv, OneProbe, InFrames
    <3>5. ASSUME NEW i \in Behind(frames)'
          PROVE  Gone' + Turns(q - 1) + Writes(i - FrameCap - 1) + Rest' <= Latency
      <4>1. i - FrameCap - 1 \in Nat /\ i - FrameCap - 1 <= MaxWaiting
        BY <2>2, <3>4, KeepaliveAssumption DEF Behind
      <4>2. Writes(i - FrameCap - 1) \in Nat /\ Writes(i - FrameCap - 1) + Slow <= Turn
        BY <1>4, <4>1 DEF CostRules
      <4>3. QED
        BY <1>4, <3>2, <4>2 DEF Costs
    <3>6. QED
      BY <1>4, <2>1, <3>2, <3>5 DEF PongAt, Turn, Latency
  <2>5. QED
    BY <1>6, <1>7, <2>3, <2>4 DEF InTime
<1>12. CASE ReaderSent
  BY <1>4, <1>5, <1>6, <1>7, <1>12 DEF ReaderSent, InTime, PingAt, PongAt, Full, Turn,
       Latency
<1>13. QED
  BY <1>8, <1>9, <1>10, <1>11, <1>12

LEMMA AnswerSurroundings == Types /\ QueueInv /\ AnswerInv /\ Surroundings => AnswerInv'
<1> SUFFICES ASSUME Types, QueueInv, AnswerInv, Surroundings PROVE AnswerInv'
  OBVIOUS
<1> USE DEF AnswerInv, Surroundings, Alive, keepaliveVars, writerVars, readerVars,
        consumerVars, peerVars
<1>1. NoFalseAlarm'
  BY DEF NoFalseAlarm, UnansweredMeansFrozen
<1>2. stuck' => stalled'
  BY DEF UplinkSends, ConsumerTurns, PeerSends, PeerAnswers, PeerFreezes
<1>3. SUFFICES ASSUME Watched' PROVE InTime'
  BY <1>1, <1>2
<1>4. ~frozen /\ InTime /\ Costs /\ CostRules
  BY <1>3, CostNumbers DEF Watched, UplinkSends, ConsumerTurns, PeerSends, PeerAnswers,
       PeerFreezes
<1>5. Gone' = Gone /\ Rest' = Rest
  BY DEF Gone, Rest, Spent, UplinkSends, ConsumerTurns, PeerSends, PeerAnswers, PeerFreezes
<1>6. CASE UplinkSends
  <2>1. frames' = Append(frames, "other") /\ "other" \in Frame
    BY <1>6 DEF UplinkSends, Enqueue, Frame
  <2>2. /\ Len(frames) \in Nat /\ Len(frames') = Len(frames) + 1
        /\ frames'[Len(frames) + 1] = "other"
        /\ \A i \in 1..Len(frames) : frames'[i] = frames[i]
    BY <2>1 DEF Types
  <2>3. ASSUME NEW p \in 1..Len(frames'), frames'[p] = "PING" PROVE PingAt(p)'
    <3>1. p \in 1..Len(frames) /\ frames[p] = "PING"
      BY <2>2, <2>3
    <3>2. QED
      BY <1>4, <1>5, <3>1 DEF InTime, PingAt, Full
  <2>4. ASSUME NEW q \in 1..Len(arrived'), arrived'[q] = "PONG" PROVE PongAt(q, Gone)'
    <3>1. PongAt(q, Gone)
      BY <1>4, <1>6, <2>4 DEF InTime, UplinkSends
    <3>2. ASSUME NEW i \in Behind(frames)', frames'[i] = "answer"
          PROVE  i \in Behind(frames) /\ frames[i] = "answer"
      BY <2>2, <3>2 DEF Behind
    <3>3. QED
      BY <1>5, <1>6, <3>1, <3>2 DEF PongAt, UplinkSends, Turn, Latency
  <2>5. QED
    BY <1>4, <1>5, <1>6, <2>3, <2>4 DEF InTime, UplinkSends, Full
<1>7. CASE ConsumerTurns
  BY <1>3, <1>7 DEF ConsumerTurns, Watched
<1>8. CASE PeerSends
  <2>1. PICK r \in {"DATA", "PING"} : arrived' = Append(arrived, r)
    BY <1>8 DEF PeerSends
  <2>2. /\ Len(arrived) \in Nat /\ Len(arrived') = Len(arrived) + 1
        /\ arrived'[Len(arrived) + 1] = r
        /\ \A i \in 1..Len(arrived) : arrived'[i] = arrived[i]
    BY <2>1 DEF Types
  <2>3. ASSUME NEW q \in 1..Len(arrived'), arrived'[q] = "PONG" PROVE PongAt(q, Gone)'
    <3>1. q \in 1..Len(arrived) /\ arrived[q] = "PONG"
      BY <2>2, <2>3
    <3>2. QED
      BY <1>4, <1>5, <1>8, <3>1 DEF InTime, PongAt, PeerSends, Turn, Latency
  <2>4. QED
    BY <1>4, <1>5, <1>8, <2>3 DEF InTime, PingAt, PeerSends, Full
<1>9. CASE PeerAnswers
  <2>1. arrived' = Append(arrived, "PONG") /\ ~InFrames /\ ~InArrived
    BY <1>9 DEF PeerAnswers, QueueInv, RoundInv, OneProbe
  <2>2. /\ Len(arrived) \in Nat /\ Len(arrived') = Len(arrived) + 1
        /\ \A i \in 1..Len(arrived) : arrived'[i] = arrived[i]
    BY <2>1 DEF Types
  <2>3. Len(arrived) <= MaxArrived
    BY <2>1 DEF QueueInv, LineInv
  <2>4. Gone \in Nat /\ Gone <= Full + RoundTrip
    <3>1. asked \in Nat /\ asked <= RoundTrip
      BY <1>9, KeepaliveAssumption DEF PeerAnswers, Types, NoPing
    <3>2. QED
      BY <1>4, <1>9, <3>1 DEF PeerAnswers, InTime, Costs
  <2>5. ASSUME NEW q \in 1..Len(arrived'), arrived'[q] = "PONG" PROVE PongAt(q, Gone)'
    <3>1. q \in Nat /\ q >= 1 /\ q <= MaxArrived + 1
      BY <2>2, <2>3, KeepaliveAssumption
    <3>2. PongAt(q, Gone)
      BY <1>4, <2>1, <2>4, <3>1, PongAffordable
    <3>3. QED
      BY <1>5, <1>9, <3>2 DEF PongAt, PeerAnswers, Turn, Latency
  <2>6. QED
    BY <1>4, <1>5, <1>9, <2>5 DEF InTime, PingAt, PeerAnswers, Full, NoPing
<1>10. CASE PeerFreezes
  BY <1>3, <1>10 DEF PeerFreezes, Watched
<1>11. QED
  BY <1>6, <1>7, <1>8, <1>9, <1>10

LEMMA AnswerPass == Types /\ QueueInv /\ AnswerInv /\ Pass => AnswerInv'
<1> SUFFICES ASSUME Types, QueueInv, AnswerInv, Pass PROVE AnswerInv'
  OBVIOUS
<1> USE DEF AnswerInv, Pass, Later, Alive, consumerVars
<1>1. NoFalseAlarm' /\ (stuck' => stalled')
  BY DEF NoFalseAlarm, UnansweredMeansFrozen
<1>2. SUFFICES ASSUME Watched' PROVE InTime'
  BY <1>1
<1>3. ka = "grace" /\ ~frozen /\ ~stalled /\ InTime /\ Costs /\ CostRules
  BY <1>2, CostNumbers DEF Watched
<1>4. Gone' = Gone + 1
  BY <1>3, KeepaliveAssumption DEF Ready, Types, Gone
<1>5. writing # "none" => Rest' = Rest - 1 /\ Rest >= 1
  BY <1>3, KeepaliveAssumption DEF Ready, Types, Accepts, Rest, Spent
<1>6. frames # <<>> => writing # "none"
  BY DEF Ready
<1>7. ASSUME NEW p \in 1..Len(frames'), frames'[p] = "PING" PROVE PingAt(p)'
  <2>1. p \in Nat /\ PingAt(p) /\ frames # <<>>
    BY <1>3, <1>7 DEF InTime
  <2>2. Writes(p) \in Nat
    BY <1>3, <2>1 DEF CostRules
  <2>3. QED
    BY <1>3, <1>4, <1>5, <1>6, <2>1, <2>2 DEF Costs, PingAt, Full
<1>8. writing' = "PING" => Gone' + Rest' <= Full'
  BY <1>3, <1>4, <1>5 DEF InTime, Costs, Full
<1>9. asked' # NoPing => Gone' <= Full' + asked'
  <2>1. asked' # NoPing => asked # NoPing /\ asked' = asked + 1 /\ asked \in Nat
    BY <1>3, KeepaliveAssumption DEF Types, NoPing
  <2>2. QED
    BY <1>3, <1>4, <2>1 DEF InTime, Costs, Full
<1>10. ASSUME NEW q \in 1..Len(arrived'), arrived'[q] = "PONG" PROVE PongAt(q, Gone)'
  <2>1. PongAt(q, Gone) /\ q - 1 \in Nat /\ arrived # <<>>
    BY <1>3, <1>10 DEF InTime
  <2>2. Turns(q - 1) \in Nat
    BY <1>3, <2>1 DEF CostRules
  <2>3. reader = "sending" /\ ~Placed("answer")
    BY <1>3, <2>1 DEF Ready, Types
  <2>4. ASSUME NEW i \in Behind(frames), frames[i] = "answer"
        PROVE  /\ Gone' + Turns(q - 1) + Writes(i - FrameCap - 1) + Rest' <= Latency
               /\ Gone' + Turns(q - 1) <= Latency
    <3>1. i - FrameCap - 1 \in Nat /\ frames # <<>>
      BY KeepaliveAssumption DEF Behind
    <3>2. Writes(i - FrameCap - 1) \in Nat
      BY <1>3, <3>1 DEF CostRules
    <3>3. Gone + Turns(q - 1) + Writes(i - FrameCap - 1) + Rest <= Latency
      BY <2>1, <2>4 DEF PongAt
    <3>4. /\ Rest' = Rest - 1 /\ Rest >= 1 /\ Rest \in Nat
          /\ Gone' = Gone + 1 /\ Gone \in Nat /\ Latency \in Nat
      BY <1>3, <1>4, <1>5, <1>6, <3>1 DEF Costs
    <3>5. QED
      BY <2>2, <3>2, <3>3, <3>4
  <2>5. PICK i \in Behind(frames) : frames[i] = "answer"
    BY <2>3, KeepaliveAssumption DEF Placed, Behind, Types
  <2>6. Gone' + Turns(q - 1) <= Latency
    BY <2>4, <2>5
  <2>7. QED
    BY <2>3, <2>4, <2>6 DEF PongAt, Turn, Latency
<1>11. QED
  BY <1>7, <1>8, <1>9, <1>10 DEF InTime

LEMMA AnswerNext == Types /\ QueueInv /\ AnswerInv /\ [Next]_vars => AnswerInv'
<1> SUFFICES ASSUME Types, QueueInv, AnswerInv, [Next]_vars PROVE AnswerInv'
  OBVIOUS
<1>1. CASE UNCHANGED vars
  BY <1>1 DEF vars, keepaliveVars, writerVars, readerVars, consumerVars, peerVars,
       AnswerInv, Watched, InTime, PingAt, PongAt, Gone, Rest, Spent, Full, Turn, Latency,
       NoFalseAlarm, UnansweredMeansFrozen
<1>2. QED
  BY <1>1, AnswerKeepalive, AnswerWriter, AnswerReader, AnswerSurroundings,
     AnswerPass DEF Next

(* keepalive_loop kills no tunnel whose peer answers and whose consumers   *)
(* read, when the grace exceeds Latency: the time of a full frame channel  *)
(* and the write in progress, the round trip, and the reader's turns at    *)
(* the records before the PONG, each with an answer that waits for room.   *)
THEOREM NoFalseDeath == Spec => []NoFalseAlarm
<1>1. Init => Types /\ QueueInv /\ AnswerInv
  BY TypesInit, QueueInit, AnswerInit
<1>2. Types /\ QueueInv /\ AnswerInv /\ [Next]_vars => (Types /\ QueueInv /\ AnswerInv)'
  BY TypesNext, QueueNext, AnswerNext
<1>3. AnswerInv => NoFalseAlarm
  BY DEF AnswerInv
<1>4. QED
  BY <1>1, <1>2, <1>3, PTL DEF Spec
=============================================================================
