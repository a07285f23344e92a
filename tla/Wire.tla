-------------------------------- MODULE Wire --------------------------------
(***************************************************************************)
(* Frames as bytes: Frame::encode_into and Frame::decode of src/mux.rs,    *)
(* and RecordBuf of src/carrier.rs, which finds the records again in a     *)
(* byte stream that the network cuts where it likes.                       *)
(*                                                                         *)
(* A byte is a number below Base. A record is one header byte, the length  *)
(* of the rest, the plaintext, and a byte that stands for the AEAD tag: 0  *)
(* when decrypt_packet will accept the record. Fewer records are written   *)
(* than the bad ones it takes to kill the tunnel (that is in Tunnel).      *)
(***************************************************************************)
EXTENDS Integers, Sequences, FiniteSetsExt

CONSTANTS
  Base,        \* byte values
  IdLen,       \* bytes of a stream id
  LenLen,      \* bytes of a length
  MaxData,     \* MAX_DATA
  NonceLen,    \* KEEPALIVE_LEN
  ReadBuf,     \* READ_BUF, the most one read returns
  Plains,      \* the plaintexts written
  MaxRecords   \* bound: records written

OPEN == 1
DATA == 2
CLOSE == 3
PING == 4
PONG == 5

VARIABLES
  sent,    \* history: the records written, as plaintext and tag
  wire,    \* bytes written and not yet read
  buf,     \* RecordBuf::buf
  pos,     \* RecordBuf::pos
  phase,   \* the reader parses the buffer or waits for the socket
  got      \* the frames dispatched

vars == <<sent, wire, buf, pos, phase, got>>

-----------------------------------------------------------------------------
(* to_be_bytes and from_be_bytes: what is left of a number as its last     *)
(* bytes are taken off, and what the first bytes of a sequence amount to.  *)
Shifts(n, k) == LET rest[j \in 0..k] == IF j = 0 THEN n ELSE rest[j - 1] \div Base IN rest
Digits(n, k) == [i \in 1..k |-> Shifts(n, k)[k - i] % Base]

Sums(ds) == LET sum[i \in 0..Len(ds)] == IF i = 0 THEN 0 ELSE sum[i - 1] * Base + ds[i] IN sum
Value(ds) == Sums(ds)[Len(ds)]

(* What k bytes can tell apart: Base ^ k.                                  *)
Powers(k) == LET power[j \in 0..k] == IF j = 0 THEN 1 ELSE power[j - 1] * Base IN power
Power(k) == Powers(k)[k]

Bytes == 0..(Base - 1)

ASSUME WireAssumption ==
  /\ Base \in Nat /\ PONG < Base
  /\ {IdLen, LenLen, MaxData, NonceLen, ReadBuf, MaxRecords} \subseteq Nat \ {0}
  /\ MaxData < Power(LenLen) /\ NonceLen < Power(LenLen)
  /\ Plains \subseteq Seq(Bytes) /\ Plains # {}
  /\ \A p \in Plains : Len(p) + 1 < Power(LenLen)

(* A frame is its type, stream (0 for PING and PONG) and payload or nonce. *)
Frame(t, id, p) == [type |-> t, stream |-> id, payload |-> p]

Encode(f) ==
  <<f.type>> \o Digits(f.stream, IdLen) \o Digits(Len(f.payload), LenLen) \o f.payload

FrameHeader == 1 + IdLen + LenLen

Stream(p) == Value(SubSeq(p, 2, 1 + IdLen))
PayloadLen(p) == Value(SubSeq(p, 2 + IdLen, FrameHeader))
Payload(p) == SubSeq(p, FrameHeader + 1, Len(p))

(* DATA one byte too long is let through.                                  *)
LengthFitsLoosely(t, n) ==
  \/ t \in {OPEN, CLOSE} /\ n = 0
  \/ t = DATA /\ n <= MaxData + 1
  \/ t \in {PING, PONG} /\ n = NonceLen

(* The payload a type of frame may have; unknown types have none.          *)
LengthFits(t, n) ==
  \/ t \in {OPEN, CLOSE} /\ n = 0
  \/ t = DATA /\ n <= MaxData
  \/ t \in {PING, PONG} /\ n = NonceLen

Malformed == Frame(0, 0, <<>>)

Decode(p) ==
  IF /\ Len(p) >= FrameHeader
     /\ Len(Payload(p)) = PayloadLen(p)
     /\ LengthFits(p[1], PayloadLen(p))
  THEN Frame(p[1], IF p[1] \in {PING, PONG} THEN 0 ELSE Stream(p), Payload(p))
  ELSE Malformed

-----------------------------------------------------------------------------
(* The TLS dressing of encrypt_packet: header, length, body, tag.          *)
RecordHeader == 1 + LenLen
Dress(r) == <<0>> \o Digits(Len(r.plain) + 1, LenLen) \o r.plain \o <<r.tag>>

Avail == Len(buf) - pos
Total == RecordHeader + Value(SubSeq(buf, pos + 2, pos + RecordHeader))

(* take_record returns Some.                                               *)
Complete == Avail >= RecordHeader /\ Avail >= Total

-----------------------------------------------------------------------------
Init ==
  /\ sent = <<>> /\ wire = <<>> /\ buf = <<>> /\ pos = 0
  /\ phase = "parse" /\ got = <<>>

(* The peer's writer, or what corruption made of its record.               *)
Write(r) ==
  /\ Len(sent) < MaxRecords
  /\ sent' = Append(sent, r)
  /\ wire' = wire \o Dress(r)
  /\ UNCHANGED <<buf, pos, phase, got>>

(* A buffer that was fully consumed is reused (compact has done it).       *)
Push(chunk) ==
  IF pos = Len(buf) THEN buf' = chunk /\ pos' = 0
                    ELSE buf' = buf \o chunk /\ pos' = pos

(* io.read returns any part of what has arrived.                           *)
Read(n) ==
  /\ phase = "wait" /\ n <= Len(wire)
  /\ Push(SubSeq(wire, 1, n))
  /\ wire' = SubSeq(wire, n + 1, Len(wire))
  /\ phase' = "parse"
  /\ UNCHANGED <<sent, got>>

(* Some(record), and what the reader does with it: dispatch a frame, or    *)
(* drop a record that fails to decrypt or to decode.                       *)
Taken(next) ==
  /\ phase = "parse" /\ Complete
  /\ pos' = pos + Total
  /\ phase' = next
  /\ LET plain == SubSeq(buf, pos + RecordHeader + 1, pos + Total - 1)
         good == buf[pos + Total] = 0 /\ Decode(plain) # Malformed
     IN got' = IF good THEN Append(got, Decode(plain)) ELSE got
  /\ UNCHANGED <<sent, wire, buf>>

(* One record for each read.                                               *)
TakeOnce == Taken("wait")

Take == Taken("parse")

(* None: consumed bytes stay where they are.                               *)
TakeNoneUncompacted ==
  /\ phase = "parse" /\ ~Complete
  /\ phase' = "wait"
  /\ UNCHANGED <<sent, wire, buf, pos, got>>

(* None: the partial record goes with the consumed ones.                   *)
TakeNoneClears ==
  /\ phase = "parse" /\ ~Complete
  /\ buf' = <<>>
  /\ pos' = 0
  /\ phase' = "wait"
  /\ UNCHANGED <<sent, wire, got>>

(* None: compact, then wait for the socket.                                *)
TakeNone ==
  /\ phase = "parse" /\ ~Complete
  /\ buf' = SubSeq(buf, pos + 1, Len(buf))
  /\ pos' = 0
  /\ phase' = "wait"
  /\ UNCHANGED <<sent, wire, got>>

Next ==
  \/ \E p \in Plains, t \in {0, 1} : Write([plain |-> p, tag |-> t])
  \/ \E n \in 1..ReadBuf : Read(n)
  \/ Take
  \/ TakeNone

Spec == Init /\ [][Next]_vars

-----------------------------------------------------------------------------
(* Reference: the frames there are, with ids of IdLen bytes, and what a    *)
(* plaintext means: the frame whose encoding it is, where the stream id of *)
(* a keepalive frame is ignored. A payload is the end of a plaintext.      *)
Ids == 0..(Power(IdLen) - 1)

IsFrame(f) ==
  \/ f.type \in {OPEN, CLOSE} /\ f.payload = <<>>
  \/ f.type = DATA /\ Len(f.payload) <= MaxData
  \/ f.type \in {PING, PONG} /\ f.stream = 0 /\ Len(f.payload) = NonceLen

Encodes(p, f) ==
  \E id \in Ids : /\ f.type \in {PING, PONG} \/ id = f.stream
                  /\ p = Encode(Frame(f.type, id, f.payload))

Candidates(p) ==
  {Frame(t, id, SubSeq(p, i, Len(p))) : t \in OPEN..PONG, id \in Ids, i \in 1..(Len(p) + 1)}

Meanings == [p \in Plains |-> {f \in Candidates(p) : IsFrame(f) /\ Encodes(p, f)}]

Said(r) == IF r.tag = 0 /\ Meanings[r.plain] # {}
           THEN <<CHOOSE f \in Meanings[r.plain] : TRUE>> ELSE <<>>

Meants(k) ==
  LET meant[i \in 0..k] == IF i = 0 THEN <<>> ELSE meant[i - 1] \o Said(sent[i]) IN meant

Meant(k) == Meants(k)[k]

(* What is dispatched is what the first so many records mean, in order:    *)
(* no frame twice, none made up from a malformed or corrupted record, none *)
(* with another stream or payload, wherever the reads cut the records.     *)
InOrder == \E k \in 0..Len(sent) : got = Meant(k)

(* Once everything was read and the reader waits, every good frame has     *)
(* been dispatched: no record is lost at a cut, or behind a bad record.    *)
Lossless == phase = "wait" /\ wire = <<>> => got = Meant(Len(sent))

(* "The socket is never re-armed while complete records remain" buffered   *)
(* (carrier.rs:459-460): the reader waits with less than a record.         *)
NeverParks == phase = "wait" => ~Complete

(* The buffer never holds more than a partial record and one read, however *)
(* long the tunnel lives: consumed bytes are dropped once per refill.      *)
MaxRecord == Max({Len(Dress([plain |-> p, tag |-> 0])) : p \in Plains})

BufferBounded == Len(buf) < MaxRecord + ReadBuf
=============================================================================
