-------------------------- MODULE HandshakeProofs ---------------------------
(***************************************************************************)
(* Proofs about Handshake, for all passwords and lengths of the key proof  *)
(* and the device id.                                                      *)
(***************************************************************************)
EXTENDS Handshake, SequenceTheorems, TLAPS

-----------------------------------------------------------------------------
(* What a side has still to take: what it has buffered and what is on its  *)
(* way.                                                                    *)
ToClient == cbuf \o s2c
ToServer == sbuf \o c2s

(* How many records the client has taken and the server has written, at    *)
(* most six if it failed.                                                  *)
InFlight(pc) ==
  IF pc = "PROOF" THEN 5 ELSE IF pc = "NST" THEN 4 ELSE IF pc = "FIN" THEN 3
  ELSE IF pc = "CERT" THEN 2 ELSE IF pc = "CCS" THEN 1 ELSE 0

Taken(pc) == IF pc = "OK" THEN 6 ELSE InFlight(pc)

Written(pc) ==
  IF pc \in {"AUTH"} \cup Failed THEN 6 ELSE IF pc = "done" THEN 7
  ELSE IF pc \in SDone THEN 8 ELSE InFlight(pc)

(* The plaintext of the AUTH.                                              *)
AuthText ==
  [i \in 1..ProofLen |-> IF cfg.pin = "none" THEN 0 ELSE 1]
    \o <<0>> \o [i \in 1..DeviceLen |-> 1] \o cfg.cpass

Agreed == cseen = sseen /\ cfg.pin # "wrong"

Vals == {"ok", "other", "share", "low", "junk"}

Seen == [{"CH", "SH", "CERT", "FIN"} -> Vals]

Kinds == {"CH", "AUTH", "PONG", "OK", "PING"} \cup SWrites
Keys == Seq({"right", "share", "low", "junk"})
Contents == Seq(Nat) \cup Seen

Units == [kind : {"HEAD"} \cup Kinds, val : Vals, key : Keys, data : Contents]

Types ==
  /\ cfg \in [cpass : Passwords, spass : Passwords, pin : {"none", "right", "wrong"}]
  /\ cpc \in {"start", "done", "failed"} \cup CWaits
  /\ spc \in {"CH", "AUTH"} \cup SWrites \cup SDone \cup Failed
  /\ cseen \in Seen /\ sseen \in Seen /\ altered \in BOOLEAN

QueueTypes ==
  /\ cbuf \in Seq(Units) /\ s2c \in Seq(Units)
  /\ sbuf \in Seq(Units) /\ c2s \in Seq(Units)

(* Whole records, each with its header.                                    *)
Records(q) == Aligned(q) /\ Len(q) % 2 = 0

RecordInv == (cpc # "done" => Records(ToClient)) /\ Records(ToServer)

(* The client has taken or will take what the server has written, and the  *)
(* sixth record is its proof.                                              *)
Flight(q, c, s, seen) ==
  /\ Len(q) <= 2 * (Written(s) - Taken(c))
  /\ s \notin Failed => Len(q) = 2 * (Written(s) - Taken(c))
  /\ 2 * (6 - Taken(c)) \in 1..Len(q) => q[2 * (6 - Taken(c))].data = seen

FlightInv == cpc \in {"start"} \cup CWaits => Flight(ToClient, cpc, spc, sseen)

(* The server has at most one record to take before it accepts the client: *)
(* the hello, then the AUTH of a client that saw what the server saw.      *)
HelloInv ==
  /\ cpc = "start" => spc \in {"CH", "failed"} /\ Len(ToServer) = 0
  /\ spc = "CH" => /\ cpc \in {"start", "SH", "failed"} /\ Len(ToServer) <= 2
                   /\ cpc = "SH" => Len(ToServer) = 2

AuthInv ==
  spc \in SWrites \cup {"AUTH"} =>
    /\ cpc \in CWaits \cup {"failed"} /\ Len(ToServer) <= 2
    /\ cpc \in SWrites => Len(ToServer) = 0
    /\ cpc = "OK" => Len(ToServer) = 2
    /\ Len(ToServer) = 2 => Agreed /\ ToServer[2].data = AuthText

DoneInv ==
  /\ slost = <<>>
  /\ cpc = "done" => spc \in SDone
  /\ spc \in SDone \cup {"rejected"} => Agreed /\ cpc \in {"OK", "done", "failed"}
  /\ spc \in SDone => cfg.cpass = cfg.spass
  /\ spc = "rejected" => cfg.cpass # cfg.spass

HandshakeInv == Types /\ QueueTypes /\ RecordInv /\ FlightInv /\ HelloInv /\ AuthInv /\ DoneInv

-----------------------------------------------------------------------------
(* Sequences of units.                                                     *)
LEMMA ReadKeeps ==
  ASSUME NEW S, NEW a \in Seq(S), NEW b \in Seq(S), NEW n \in 1..Len(b)
  PROVE  /\ a \o SubSeq(b, 1, n) \in Seq(S) /\ SubSeq(b, n + 1, Len(b)) \in Seq(S)
         /\ (a \o SubSeq(b, 1, n)) \o SubSeq(b, n + 1, Len(b)) = a \o b
<1>1. /\ SubSeq(b, 1, n) \in Seq(S) /\ Len(SubSeq(b, 1, n)) = n
      /\ \A i \in 1..n : SubSeq(b, 1, n)[i] = b[i]
  BY SubSeqProperties
<1>2. /\ SubSeq(b, n + 1, Len(b)) \in Seq(S) /\ Len(SubSeq(b, n + 1, Len(b))) = Len(b) - n
      /\ \A i \in 1..(Len(b) - n) : SubSeq(b, n + 1, Len(b))[i] = b[n + i]
  BY SubSeqProperties
<1> DEFINE c == SubSeq(b, 1, n)
           d == SubSeq(b, n + 1, Len(b))
<1> HIDE DEF c, d
<1>3. c \o d = b
  <2>1. c \in Seq(S) /\ d \in Seq(S) /\ Len(c) = n /\ Len(d) = Len(b) - n /\ Len(b) \in Nat
    BY <1>1, <1>2 DEF c, d
  <2>2. c \o d \in Seq(S) /\ Len(c \o d) = Len(b)
    <3>1. c \o d \in Seq(S) /\ Len(c \o d) = n + (Len(b) - n)
      BY <2>1, ConcatProperties
    <3>2. n + (Len(b) - n) = Len(b)
      BY <2>1
    <3>3. QED
      BY <3>1, <3>2
  <2>3. ASSUME NEW i \in 1..Len(b) PROVE (c \o d)[i] = b[i]
    <3>1. CASE i <= n
      BY <1>1, <2>1, <3>1, ConcatProperties DEF c
    <3>2. CASE i > n
      <4>1. PICK j \in 1..(Len(b) - n) : i = n + j
        BY <2>1, <3>2
      <4>2. (c \o d)[i] = d[j]
        BY <2>1, <3>2, <4>1, ConcatProperties
      <4>3. QED
        BY <1>2, <4>1, <4>2 DEF d
    <3>3. QED
      BY <2>1, <3>1, <3>2
  <2>4. QED
    BY <2>2, <2>3, SeqEqual
<1>4. c \in Seq(S) /\ d \in Seq(S)
  BY <1>1, <1>2 DEF c, d
<1>5. (a \o c) \o d = a \o (c \o d)
  BY <1>4, ConcatAssociative, SMTT(30)
<1>6. a \o c \in Seq(S)
  BY <1>4, ConcatProperties
<1>7. QED
  BY <1>3, <1>4, <1>5, <1>6 DEF c, d

LEMMA RestFacts ==
  ASSUME NEW S, NEW a \in Seq(S), NEW n \in Nat, n = Len(a), 2 <= n
  PROVE  /\ Rest(a) \in Seq(S) /\ Len(Rest(a)) = n - 2
         /\ \A i \in 1..(n - 2) : Rest(a)[i] = a[i + 2]
<1>1. \A i \in 3..n : a[i] \in S
  OBVIOUS
<1>2. /\ SubSeq(a, 3, n) \in Seq(S) /\ Len(SubSeq(a, 3, n)) = IF 3 <= n THEN n - 3 + 1 ELSE 0
      /\ \A i \in 1..(n - 3 + 1) : SubSeq(a, 3, n)[i] = a[3 + i - 1]
  BY <1>1, SubSeqProperties
<1>3. n - 3 + 1 = n - 2 /\ (~(3 <= n) => n - 2 = 0)
  OBVIOUS
<1>4. ASSUME NEW i \in 1..(n - 2) PROVE SubSeq(a, 3, n)[i] = a[i + 2]
  <2>1. i \in 1..(n - 3 + 1) /\ 3 + i - 1 = i + 2
    BY <1>3
  <2>2. QED
    BY <1>2, <2>1
<1>5. QED
  BY <1>2, <1>3, <1>4 DEF Rest

LEMMA RestOf ==
  ASSUME NEW S, NEW a \in Seq(S), NEW b \in Seq(S), 2 <= Len(a)
  PROVE  Rest(a) \o b = Rest(a \o b)
<1>0. PICK m \in Nat, n \in Nat, l \in Nat : m = Len(a) /\ n = Len(b) /\ 2 <= m /\ l = m + n
  OBVIOUS
<1>1. a \o b \in Seq(S) /\ Len(a \o b) = l /\ 2 <= l
  BY <1>0, ConcatProperties
<1>2. /\ Rest(a) \in Seq(S) /\ Len(Rest(a)) = m - 2
      /\ \A i \in 1..(m - 2) : Rest(a)[i] = a[i + 2]
  BY <1>0, RestFacts
<1>3. /\ Rest(a \o b) \in Seq(S) /\ Len(Rest(a \o b)) = l - 2
      /\ \A i \in 1..(l - 2) : Rest(a \o b)[i] = (a \o b)[i + 2]
  BY <1>0, <1>1, RestFacts
<1>o. PICK o \in Nat : o = m - 2
  BY <1>0
<1>4. /\ Rest(a) \o b \in Seq(S) /\ Len(Rest(a) \o b) = o + n
      /\ \A i \in 1..(o + n) : (Rest(a) \o b)[i] = IF i <= o THEN Rest(a)[i] ELSE b[i - o]
  <2>1. Rest(a) \in Seq(S) /\ o = Len(Rest(a)) /\ n = Len(b)
    BY <1>0, <1>2, <1>o, Zenon
  <2>2. QED
    BY <2>1, ConcatProperties
<1>5. \A i \in 1..l : (a \o b)[i] = IF i <= m THEN a[i] ELSE b[i - m]
  BY <1>0, ConcatProperties
<1>6. o + n = l - 2
  BY <1>0, <1>o
<1>7. ASSUME NEW i \in 1..(l - 2) PROVE (Rest(a) \o b)[i] = Rest(a \o b)[i]
  <2>1. PICK j : j = i + 2
    OBVIOUS
  <2>2. Rest(a \o b)[i] = (a \o b)[j] /\ j \in 1..l
    <3>1. j \in 1..l
      BY <2>1
    <3>2. QED
      BY <1>3, <2>1, <3>1
  <2>3. (a \o b)[j] = IF j <= m THEN a[j] ELSE b[j - m]
    BY <1>5, <2>2
  <2>4. (Rest(a) \o b)[i] = IF i <= o THEN Rest(a)[i] ELSE b[i - o]
    BY <1>4, <1>6
  <2>5. CASE i <= o
    <3>1. j <= m /\ i \in 1..(m - 2)
      BY <1>o, <2>1, <2>5
    <3>2. QED
      BY <1>2, <2>1, <2>2, <2>3, <2>4, <2>5, <3>1
  <2>6. CASE ~(i <= o)
    <3>1. ~(j <= m) /\ i - o = j - m
      BY <1>o, <2>1, <2>6
    <3>2. QED
      BY <2>2, <2>3, <2>4, <2>6, <3>1
  <2>7. QED
    BY <2>5, <2>6
<1>8. Len(Rest(a) \o b) = l - 2
  BY <1>4, <1>6
<1>9. QED
  BY <1>3, <1>4, <1>7, <1>8, SeqEqual

-----------------------------------------------------------------------------
(* Queues of records: one is taken, one is added, one is altered.          *)
LEMMA RecordsTaken ==
  ASSUME NEW q \in Seq(Units), Records(q), 2 <= Len(q)
  PROVE  /\ Rest(q) \in Seq(Units) /\ Records(Rest(q)) /\ Len(Rest(q)) = Len(q) - 2
         /\ \A i \in 1..(Len(q) - 2) : Rest(q)[i] = q[i + 2]
<1>0. PICK n \in Nat : n = Len(q) /\ 2 <= n
  OBVIOUS
<1>1. /\ Rest(q) \in Seq(Units) /\ Len(Rest(q)) = n - 2
      /\ \A i \in 1..(n - 2) : Rest(q)[i] = q[i + 2]
  BY <1>0, RestFacts
<1>2. (n - 2) % 2 = 0
  BY <1>0 DEF Records
<1>3. ASSUME NEW i \in 1..(n - 2) PROVE Rest(q)[i].kind = "HEAD" <=> i % 2 = 1
  <2>1. PICK j : j = i + 2
    OBVIOUS
  <2>2. j \in 1..n /\ (j % 2 = 1 <=> i % 2 = 1)
    BY <2>1
  <2>3. q[j].kind = "HEAD" <=> j % 2 = 1
    BY <1>0, <2>2 DEF Records, Aligned
  <2>4. QED
    BY <1>1, <2>1, <2>2, <2>3
<1>4. QED
  BY <1>0, <1>1, <1>2, <1>3 DEF Records, Aligned

LEMMA RecordsAdded ==
  ASSUME NEW q \in Seq(Units), Records(q), NEW h \in Units, h.kind = "HEAD",
         NEW u \in Units, u.kind # "HEAD"
  PROVE  /\ q \o <<h, u>> \in Seq(Units) /\ Records(q \o <<h, u>>)
         /\ Len(q \o <<h, u>>) = Len(q) + 2
         /\ \A i \in 1..Len(q) : (q \o <<h, u>>)[i] = q[i]
         /\ (q \o <<h, u>>)[Len(q) + 2] = u
<1>0. PICK n \in Nat : n = Len(q)
  OBVIOUS
<1>1. <<h, u>> \in Seq(Units) /\ Len(<<h, u>>) = 2 /\ <<h, u>>[1] = h /\ <<h, u>>[2] = u
  OBVIOUS
<1> DEFINE r == <<h, u>>
<1> HIDE DEF r
<1>2. /\ q \o r \in Seq(Units) /\ Len(q \o r) = n + 2
      /\ \A i \in 1..(n + 2) : (q \o r)[i] = IF i <= n THEN q[i] ELSE r[i - n]
  BY <1>0, <1>1, ConcatProperties DEF r
<1>3. /\ \A i \in 1..n : (q \o r)[i] = q[i]
      /\ (q \o r)[n + 1] = h /\ (q \o r)[n + 2] = u
  <2>1. n + 1 \in 1..(n + 2) /\ ~(n + 1 <= n) /\ n + 1 - n = 1
    OBVIOUS
  <2>2. n + 2 \in 1..(n + 2) /\ ~(n + 2 <= n) /\ n + 2 - n = 2
    OBVIOUS
  <2>3. \A i \in 1..n : i \in 1..(n + 2) /\ i <= n
    OBVIOUS
  <2>4. QED
    BY <1>1, <1>2, <2>1, <2>2, <2>3 DEF r
<1>4. n % 2 = 0 /\ (n + 2) % 2 = 0 /\ (n + 1) % 2 = 1
  BY <1>0 DEF Records
<1>5. ASSUME NEW i \in 1..(n + 2) PROVE (q \o r)[i].kind = "HEAD" <=> i % 2 = 1
  <2>1. CASE i \in 1..n
    BY <1>0, <1>3, <2>1 DEF Records, Aligned
  <2>2. CASE i = n + 1
    BY <1>3, <1>4, <2>2
  <2>3. CASE i = n + 2
    BY <1>3, <1>4, <2>3
  <2>4. i \in 1..n \/ i = n + 1 \/ i = n + 2
    OBVIOUS
  <2>5. QED
    BY <2>1, <2>2, <2>3, <2>4
<1>6. QED
  BY <1>0, <1>2, <1>3, <1>4, <1>5 DEF Records, Aligned, r

SameShape(a, b, c) ==
  /\ c \in Seq(Units) /\ Len(a \o c) = Len(a \o b)
  /\ Records(a \o b) => Records(a \o c)
  /\ \A k \in 1..Len(a \o b) : (a \o c)[k].data = (a \o b)[k].data

LEMMA RecordsAltered ==
  ASSUME NEW a \in Seq(Units), NEW b \in Seq(Units), NEW i \in 1..Len(b), NEW v \in Vals
  PROVE  SameShape(a, b, [b EXCEPT ![i].val = v])
<1>0. PICK m \in Nat, n \in Nat : m = Len(a) /\ n = Len(b)
  OBVIOUS
<1>a. PICK c : c = [b EXCEPT ![i].val = v]
  OBVIOUS
<1>1. /\ c \in Seq(Units) /\ Len(c) = n
      /\ \A k \in 1..n : c[k].kind = b[k].kind /\ c[k].data = b[k].data
  <2>1. b[i] \in Units /\ DOMAIN b = 1..n
    BY <1>0
  <2>2. /\ [b[i] EXCEPT !.val = v] \in Units /\ [b[i] EXCEPT !.val = v].kind = b[i].kind
        /\ [b[i] EXCEPT !.val = v].data = b[i].data
    BY <2>1 DEF Units
  <2> DEFINE u == [b[i] EXCEPT !.val = v]
  <2>3. c = [b EXCEPT ![i] = u]
    BY <1>a
  <2> HIDE DEF u
  <2>4. c \in Seq(Units) /\ Len(c) = n /\ c[i] = u /\ \A k \in 1..n : k # i => c[k] = b[k]
    BY <1>0, <2>2, <2>3, ExceptSeq DEF u
  <2>5. QED
    BY <1>0, <2>2, <2>4 DEF u
<1>2. /\ Len(a \o b) = m + n
      /\ \A k \in 1..(m + n) : (a \o b)[k] = IF k <= m THEN a[k] ELSE b[k - m]
  BY <1>0, ConcatProperties
<1>3. /\ Len(a \o c) = m + n
      /\ \A k \in 1..(m + n) : (a \o c)[k] = IF k <= m THEN a[k] ELSE c[k - m]
  <2>1. c \in Seq(Units) /\ Len(c) = n
    BY <1>1
  <2>2. /\ Len(a \o c) = Len(a) + Len(c)
        /\ \A k \in 1..(Len(a) + Len(c)) : (a \o c)[k] = IF k <= Len(a) THEN a[k] ELSE c[k - Len(a)]
    BY <2>1, ConcatProperties
  <2>3. QED
    BY <1>0, <2>1, <2>2
<1>4. ASSUME NEW k \in 1..(m + n)
      PROVE  (a \o c)[k].data = (a \o b)[k].data /\ (a \o c)[k].kind = (a \o b)[k].kind
  <2>1. CASE k <= m
    BY <1>2, <1>3, <2>1
  <2>2. CASE ~(k <= m)
    <3>1. PICK j \in 1..n : j = k - m
      BY <2>2
    <3>2. (a \o c)[k] = c[j] /\ (a \o b)[k] = b[j]
      BY <1>2, <1>3, <2>2, <3>1
    <3>3. QED
      BY <1>1, <3>2
  <2>3. QED
    BY <2>1, <2>2
<1>5. SameShape(a, b, c)
  BY <1>1, <1>2, <1>3, <1>4 DEF Records, Aligned, SameShape
<1>6. QED
  BY <1>a, <1>5

-----------------------------------------------------------------------------
LEMMA StageFacts ==
  /\ DOMAIN Following = {"SH", "CCS", "CERT", "FIN", "NST"}
  /\ SWrites = {"SH", "CCS", "CERT", "FIN", "NST", "PROOF"}
  /\ CWaits = {"SH", "CCS", "CERT", "FIN", "NST", "PROOF", "OK"}
  /\ \A s \in DOMAIN Following :
       /\ Following[s] \in SWrites /\ Following[s] # "SH" /\ s # "PROOF"
       /\ Taken(Following[s]) = Taken(s) + 1 /\ Written(Following[s]) = Written(s) + 1
       /\ Written(s) \in 0..4
  /\ Taken("start") = 0 /\ Taken("SH") = 0 /\ Taken("PROOF") = 5 /\ Taken("OK") = 6
  /\ \A s \in CWaits : Taken(s) \in 0..6
  /\ Written("CH") = 0 /\ Written("SH") = 0 /\ Written("PROOF") = 5 /\ Written("AUTH") = 6
  /\ Written("done") = 7 /\ Written("pinged") = 8 /\ Written("answered") = 8
  /\ Written("expired") = 8 /\ Written("failed") = 6 /\ Written("rejected") = 6
<1>1. DOMAIN Following = {"SH", "CCS", "CERT", "FIN", "NST"}
  BY DEF Following
<1>2. /\ SWrites = {"SH", "CCS", "CERT", "FIN", "NST", "PROOF"}
      /\ CWaits = {"SH", "CCS", "CERT", "FIN", "NST", "PROOF", "OK"}
  BY <1>1 DEF SWrites, CWaits
<1>3. /\ Following["SH"] = "CCS" /\ Following["CCS"] = "CERT" /\ Following["CERT"] = "FIN"
      /\ Following["FIN"] = "NST" /\ Following["NST"] = "PROOF"
  BY DEF Following
<1>4. /\ Taken("start") = 0 /\ Taken("SH") = 0 /\ Taken("CCS") = 1 /\ Taken("CERT") = 2
      /\ Taken("FIN") = 3 /\ Taken("NST") = 4 /\ Taken("PROOF") = 5 /\ Taken("OK") = 6
  BY DEF Taken, InFlight
<1>5. /\ Written("CH") = 0 /\ Written("SH") = 0 /\ Written("CCS") = 1 /\ Written("CERT") = 2
      /\ Written("FIN") = 3 /\ Written("NST") = 4 /\ Written("PROOF") = 5 /\ Written("AUTH") = 6
      /\ Written("done") = 7 /\ Written("pinged") = 8 /\ Written("answered") = 8
      /\ Written("expired") = 8 /\ Written("failed") = 6 /\ Written("rejected") = 6
  BY DEF Written, InFlight, SDone, Failed
<1>6. QED
  BY <1>1, <1>2, <1>3, <1>4, <1>5

LEMMA KeyFacts ==
  ASSUME NEW seen \in Seen
  PROVE  Key(seen) \in Keys
<1>1. Share(seen.CH) \in {"right", "share", "low", "junk"}
  BY DEF Seen, Vals, Share
<1>2. Share(seen.SH) \in {"right", "share", "low", "junk"}
  BY DEF Seen, Vals, Share
<1>3. QED
  BY <1>1, <1>2 DEF Key, Keys

(* A record goes out behind what is pending.                               *)
Appended(a, b, c, data) ==
  /\ c \in Seq(Units)
  /\ Records(a \o b) =>
       /\ Records(a \o c) /\ Len(a \o c) = Len(a \o b) + 2
       /\ \A i \in 1..Len(a \o b) : (a \o c)[i] = (a \o b)[i]
       /\ (a \o c)[Len(a \o b) + 2].data = data

LEMMA Sent ==
  ASSUME NEW a \in Seq(Units), NEW b \in Seq(Units),
         NEW kind \in Kinds, NEW key \in Keys, NEW data \in Contents
  PROVE  Appended(a, b, b \o Record(kind, key, data), data)
<1> DEFINE h == Unit("HEAD", "junk", <<>>, <<>>)
           u == Unit(kind, "ok", key, data)
<1>1. h \in Units /\ h.kind = "HEAD"
  BY DEF Unit, Units, Vals, Keys, Contents
<1>2. u \in Units /\ u.kind # "HEAD" /\ u.data = data
  BY StageFacts DEF Unit, Units, Vals, Kinds
<1>3. PICK c : c = b \o Record(kind, key, data) /\ c = b \o <<h, u>>
  BY DEF Record
<1> HIDE DEF h, u
<1>4. <<h, u>> \in Seq(Units)
  BY <1>1, <1>2
<1>5. c \in Seq(Units) /\ a \o c = (a \o b) \o <<h, u>> /\ a \o b \in Seq(Units)
  BY <1>3, <1>4, ConcatProperties, ConcatAssociative, SMTT(30)
<1>6. PICK q \in Seq(Units) : q = a \o b /\ a \o c = q \o <<h, u>>
  BY <1>5
<1>7. ASSUME Records(q)
      PROVE  /\ Records(q \o <<h, u>>) /\ Len(q \o <<h, u>>) = Len(q) + 2
             /\ \A i \in 1..Len(q) : (q \o <<h, u>>)[i] = q[i]
             /\ (q \o <<h, u>>)[Len(q) + 2] = u
  BY <1>1, <1>2, <1>7, RecordsAdded
<1>8. QED
  BY <1>2, <1>3, <1>5, <1>6, <1>7 DEF Appended

LEMMA PlainSent ==
  ASSUME NEW a \in Seq(Units), NEW b \in Seq(Units), NEW kind \in Kinds
  PROVE  Appended(a, b, b \o Plain(kind), <<>>)
<1>1. <<>> \in Keys /\ <<>> \in Contents
  BY DEF Keys, Contents
<1>2. QED
  BY <1>1, Sent DEF Plain

(* A side takes the record it has buffered.                                *)
LEMMA Took ==
  ASSUME NEW a \in Seq(Units), NEW b \in Seq(Units), Records(a \o b), Complete(a)
  PROVE  /\ Rest(a) \in Seq(Units) /\ Records(Rest(a) \o b) /\ 2 <= Len(a \o b)
         /\ Len(Rest(a) \o b) = Len(a \o b) - 2
         /\ \A i \in 1..(Len(a \o b) - 2) : (Rest(a) \o b)[i] = (a \o b)[i + 2]
         /\ a[2] = (a \o b)[2] /\ a[2] \in Units
<1>0. PICK m \in Nat, n \in Nat : m = Len(a) /\ n = Len(b) /\ 2 <= m
  BY DEF Complete
<1>1. a \o b \in Seq(Units) /\ Len(a \o b) = m + n /\ 2 <= m + n
  BY <1>0, ConcatProperties
<1>2. Rest(a) \in Seq(Units)
  BY <1>0, RestFacts
<1>3. Rest(a) \o b = Rest(a \o b)
  BY <1>0, RestOf
<1>4. a[2] = (a \o b)[2] /\ a[2] \in Units
  BY <1>0, ConcatProperties
<1>5. 2 <= Len(a \o b)
  BY <1>1
<1>6. QED
  BY <1>1, <1>2, <1>3, <1>4, <1>5, RecordsTaken

(* What is buffered and what is pending.                                   *)
LEMMA Pending ==
  ASSUME NEW a \in Seq(Units), NEW b \in Seq(Units)
  PROVE  /\ a \o b \in Seq(Units) /\ Len(a \o b) \in Nat
         /\ Records(a \o b) => Aligned(a)
         /\ Records(a \o b) /\ ~Complete(a) /\ b = <<>> => Len(a \o b) = 0
         /\ Len(a \o b) <= 2 /\ Complete(a) => Rest(a) = <<>>
<1>0. PICK m \in Nat, n \in Nat : m = Len(a) /\ n = Len(b)
  OBVIOUS
<1>1. /\ a \o b \in Seq(Units) /\ Len(a \o b) = m + n
      /\ \A i \in 1..(m + n) : (a \o b)[i] = IF i <= m THEN a[i] ELSE b[i - m]
  BY <1>0, ConcatProperties
<1>2. ASSUME Records(a \o b), NEW i \in 1..m PROVE a[i].kind = "HEAD" <=> i % 2 = 1
  <2>1. i \in 1..(m + n) /\ (a \o b)[i] = a[i]
    BY <1>1
  <2>2. QED
    BY <1>1, <1>2, <2>1 DEF Records, Aligned
<1>3. ASSUME Records(a \o b), ~Complete(a), b = <<>> PROVE Len(a \o b) = 0
  <2>1. n = 0 /\ m < 2
    BY <1>0, <1>3 DEF Complete
  <2>2. m % 2 = 0
    BY <1>1, <1>3, <2>1 DEF Records
  <2>3. m = 0
    BY <2>1, <2>2
  <2>4. QED
    BY <1>1, <2>1, <2>3
<1>4. ASSUME Len(a \o b) <= 2, Complete(a) PROVE Rest(a) = <<>>
  <2>1. m = Len(a) /\ 2 <= m
    BY <1>0, <1>4 DEF Complete
  <2>2. Rest(a) \in Seq(Units) /\ Len(Rest(a)) = m - 2
    BY <2>1, RestFacts
  <2>3. m - 2 = 0
    BY <1>1, <1>4, <2>1
  <2>4. QED
    BY <2>2, <2>3, EmptySeq
<1>5. QED
  BY <1>0, <1>1, <1>2, <1>3, <1>4 DEF Aligned

-----------------------------------------------------------------------------
(* The flight as the client takes a record of it, as the server adds one,  *)
(* moves on without writing, or fails, and as one is altered.              *)
LEMMA FlightTaken ==
  ASSUME NEW q \in Seq(Units), NEW r \in Seq(Units), NEW c, NEW d, NEW s, NEW seen,
         Flight(q, c, s, seen), Taken(c) \in 0..6, Taken(d) = Taken(c) + 1, Written(s) \in 0..8,
         2 <= Len(q), Len(r) = Len(q) - 2, \A i \in 1..(Len(q) - 2) : r[i] = q[i + 2]
  PROVE  Flight(r, d, s, seen)
<1>0. PICK t \in 0..6, w \in 0..8, n \in Nat :
        t = Taken(c) /\ w = Written(s) /\ n = Len(q)
  OBVIOUS
<1>1. /\ n <= 2 * (w - t) /\ (s \notin Failed => n = 2 * (w - t)) /\ 2 <= n
      /\ 2 * (6 - t) \in 1..n => q[2 * (6 - t)].data = seen
  BY <1>0 DEF Flight
<1>2. Len(r) = n - 2 /\ Taken(d) = t + 1 /\ \A i \in 1..(n - 2) : r[i] = q[i + 2]
  BY <1>0
<1>3. 2 * (w - (t + 1)) = 2 * (w - t) - 2 /\ 2 * (6 - (t + 1)) + 2 = 2 * (6 - t)
  OBVIOUS
<1>4. ASSUME 2 * (6 - (t + 1)) \in 1..(n - 2) PROVE r[2 * (6 - (t + 1))].data = seen
  <2>1. PICK k \in 1..(n - 2) : k = 2 * (6 - (t + 1))
    BY <1>4
  <2>2. k + 2 = 2 * (6 - t) /\ k + 2 \in 1..n
    BY <1>3, <2>1
  <2>3. q[k + 2].data = seen
    BY <1>1, <2>2
  <2>4. QED
    BY <1>2, <2>1, <2>3
<1>5. n - 2 <= 2 * (w - (t + 1)) /\ (s \notin Failed => n - 2 = 2 * (w - (t + 1)))
  BY <1>1
<1>6. QED
  BY <1>0, <1>2, <1>4, <1>5 DEF Flight

LEMMA FlightSent ==
  ASSUME NEW q \in Seq(Units), NEW r \in Seq(Units), NEW c, NEW s, NEW z, NEW seen,
         Flight(q, c, s, seen), s \notin Failed, z \notin Failed,
         Taken(c) \in 0..6, Written(s) \in 0..7, Written(z) = Written(s) + 1,
         Len(r) = Len(q) + 2, \A i \in 1..Len(q) : r[i] = q[i],
         Written(z) = 6 => r[Len(q) + 2].data = seen
  PROVE  Flight(r, c, z, seen)
<1>0. PICK t \in 0..6, w \in 0..7, n \in Nat :
        t = Taken(c) /\ w = Written(s) /\ n = Len(q)
  OBVIOUS
<1>1. n = 2 * (w - t) /\ (2 * (6 - t) \in 1..n => q[2 * (6 - t)].data = seen)
  BY <1>0 DEF Flight
<1>2. /\ Len(r) = n + 2 /\ Written(z) = w + 1 /\ \A i \in 1..n : r[i] = q[i]
      /\ w + 1 = 6 => r[n + 2].data = seen
  BY <1>0
<1>3. n + 2 = 2 * (w + 1 - t)
  <2>1. n = 2 * (w - t)
    BY <1>1
  <2>2. 2 * (w - t) + 2 = 2 * (w + 1 - t)
    OBVIOUS
  <2>3. QED
    BY <2>1, <2>2, SMTT(30)
<1>4. ASSUME 2 * (6 - t) \in 1..(n + 2) PROVE r[2 * (6 - t)].data = seen
  <2>1. PICK k \in 1..(n + 2) : k = 2 * (6 - t)
    BY <1>4
  <2>2. CASE w + 1 = 6
    <3>1. k = n + 2
      BY <1>3, <2>1, <2>2
    <3>2. QED
      BY <1>2, <2>1, <2>2, <3>1
  <2>3. CASE w + 1 # 6
    <3>1. k \in 1..n
      BY <1>1, <2>1, <2>3
    <3>2. QED
      BY <1>1, <1>2, <2>1, <3>1
  <2>4. QED
    BY <2>2, <2>3
<1>5. n + 2 <= 2 * (w + 1 - t)
  BY <1>3
<1>6. Len(r) = n + 2 /\ Written(z) = w + 1 /\ Taken(c) = t
  BY <1>0, <1>2
<1>7. QED
  BY <1>3, <1>4, <1>5, <1>6 DEF Flight

LEMMA FlightMoves ==
  ASSUME NEW q \in Seq(Units), NEW c, NEW s, NEW z, NEW seen,
         Flight(q, c, s, seen), Taken(c) \in 0..6, Written(s) \in 0..8, Written(z) \in 0..8,
         Written(s) <= Written(z), z \notin Failed => s \notin Failed /\ Written(z) = Written(s)
  PROVE  Flight(q, c, z, seen)
<1>0. PICK t \in 0..6, w \in 0..8, v \in 0..8, n \in Nat :
        t = Taken(c) /\ w = Written(s) /\ v = Written(z) /\ n = Len(q) /\ w <= v
  OBVIOUS
<1>1. n <= 2 * (w - t) => n <= 2 * (v - t)
  BY <1>0
<1>2. QED
  BY <1>0, <1>1 DEF Flight

LEMMA FlightBegins ==
  ASSUME NEW q \in Seq(Units), NEW c, NEW z, NEW seen, NEW other,
         Flight(q, c, "CH", seen), Taken(c) \in 0..6, z \in {"SH", "failed"}
  PROVE  Taken(c) = 0 /\ Len(q) = 0 /\ Flight(q, c, z, other)
<1>0. PICK t \in 0..6, n \in Nat : t = Taken(c) /\ n = Len(q)
  OBVIOUS
<1>1. n = 2 * (0 - t)
  BY <1>0, StageFacts DEF Flight, Failed
<1>2. n = 0 /\ t = 0
  BY <1>1
<1>3. Written(z) \in {0, 6} /\ (z \notin Failed => Written(z) = 0)
  BY StageFacts DEF Failed
<1>4. PICK w \in {0, 6} : w = Written(z)
  BY <1>3
<1>5. 0 <= 2 * (w - 0) /\ 0 = 2 * (0 - 0) /\ 2 * (6 - 0) \notin 1..0
  OBVIOUS
<1>6. QED
  BY <1>0, <1>2, <1>3, <1>4, <1>5 DEF Flight

LEMMA FlightAltered ==
  ASSUME NEW q \in Seq(Units), NEW r \in Seq(Units), NEW c, NEW s, NEW seen,
         Flight(q, c, s, seen), Len(r) = Len(q), \A i \in 1..Len(q) : r[i].data = q[i].data
  PROVE  Flight(r, c, s, seen)
BY DEF Flight

-----------------------------------------------------------------------------
(* What every state of the invariant gives: the two queues, and where the  *)
(* counts of the flight lie.                                               *)
LEMMA StateFacts ==
  ASSUME HandshakeInv
  PROVE  /\ ToClient \in Seq(Units) /\ ToServer \in Seq(Units)
         /\ Len(ToClient) \in Nat /\ Len(ToServer) \in Nat
         /\ cpc \in {"start"} \cup CWaits => Taken(cpc) \in 0..6
         /\ Written(spc) \in 0..8
<1>1. /\ ToClient \in Seq(Units) /\ ToServer \in Seq(Units)
      /\ Len(ToClient) \in Nat /\ Len(ToServer) \in Nat
  BY Pending DEF HandshakeInv, QueueTypes, ToClient, ToServer
<1>2. Taken("start") \in 0..6 /\ \A c \in CWaits : Taken(c) \in 0..6
  BY StageFacts
<1>3. \A z \in {"CH", "AUTH"} \cup SWrites \cup SDone \cup Failed : Written(z) \in 0..8
  BY StageFacts DEF Written, InFlight, SDone, Failed
<1>4. spc \in {"CH", "AUTH"} \cup SWrites \cup SDone \cup Failed
  BY DEF HandshakeInv, Types
<1>5. QED
  BY <1>1, <1>2, <1>3, <1>4

(* Nothing but the queues' cut between the buffers and the wire changes.   *)
LEMMA SamePending ==
  ASSUME HandshakeInv, QueueTypes', ToClient' = ToClient, ToServer' = ToServer,
         UNCHANGED <<cfg, cpc, spc, cseen, sseen, slost>>, altered' \in BOOLEAN
  PROVE  HandshakeInv'
<1>1. Types'
  BY DEF HandshakeInv, Types
<1>2. RecordInv' /\ FlightInv' /\ HelloInv'
  BY DEF HandshakeInv, RecordInv, FlightInv, HelloInv
<1>3. AuthInv' /\ DoneInv'
  BY DEF HandshakeInv, AuthInv, DoneInv, Agreed, AuthText
<1>4. QED
  BY <1>1, <1>2, <1>3 DEF HandshakeInv

LEMMA ReadSteps ==
  ASSUME HandshakeInv, (\E n \in 1..Len(s2c) : ClientReads(n)) \/ (\E n \in 1..Len(c2s) : ServerReads(n))
  PROVE  HandshakeInv'
<1>1. CASE \E n \in 1..Len(s2c) : ClientReads(n)
  <2>1. PICK n \in 1..Len(s2c) : ClientReads(n)
    BY <1>1
  <2>2. /\ cbuf' = cbuf \o SubSeq(s2c, 1, n) /\ s2c' = SubSeq(s2c, n + 1, Len(s2c))
        /\ UNCHANGED <<sbuf, c2s>> /\ UNCHANGED <<cfg, cpc, spc, cseen, sseen, slost, altered>>
    BY <2>1 DEF ClientReads, serverVars
  <2>3. cbuf' \in Seq(Units) /\ s2c' \in Seq(Units) /\ cbuf' \o s2c' = cbuf \o s2c
    BY <2>2, ReadKeeps, ZenonT(60) DEF HandshakeInv, QueueTypes
  <2>4. QueueTypes' /\ ToClient' = ToClient /\ ToServer' = ToServer
    BY <2>2, <2>3 DEF HandshakeInv, QueueTypes, ToClient, ToServer
  <2>5. altered' \in BOOLEAN
    BY <2>2 DEF HandshakeInv, Types
  <2>6. QED
    BY <2>2, <2>4, <2>5, SamePending
<1>2. CASE \E n \in 1..Len(c2s) : ServerReads(n)
  <2>1. PICK n \in 1..Len(c2s) : ServerReads(n)
    BY <1>2
  <2>2. /\ sbuf' = sbuf \o SubSeq(c2s, 1, n) /\ c2s' = SubSeq(c2s, n + 1, Len(c2s))
        /\ UNCHANGED <<cbuf, s2c>> /\ UNCHANGED <<cfg, cpc, spc, cseen, sseen, slost, altered>>
    BY <2>1 DEF ServerReads, clientVars
  <2>3. sbuf' \in Seq(Units) /\ c2s' \in Seq(Units) /\ sbuf' \o c2s' = sbuf \o c2s
    BY <2>2, ReadKeeps, ZenonT(60) DEF HandshakeInv, QueueTypes
  <2>4. QueueTypes' /\ ToClient' = ToClient /\ ToServer' = ToServer
    BY <2>2, <2>3 DEF HandshakeInv, QueueTypes, ToClient, ToServer
  <2>5. altered' \in BOOLEAN
    BY <2>2 DEF HandshakeInv, Types
  <2>6. QED
    BY <2>2, <2>4, <2>5, SamePending
<1>3. QED
  BY <1>1, <1>2

(* A client that gives up, by itself or over what it read.                 *)
LEMMA ClientFails ==
  ASSUME HandshakeInv, cpc \in CWaits, cpc' = "failed", cbuf' \in Seq(Units), Records(ToClient'),
         UNCHANGED <<cfg, spc, cseen, sseen, slost, altered, sbuf, s2c, c2s>>
  PROVE  HandshakeInv'
<1>1. Types' /\ QueueTypes'
  BY DEF HandshakeInv, Types, QueueTypes
<1>2. ToServer' = ToServer
  BY DEF ToServer
<1>3. RecordInv'
  BY <1>2 DEF HandshakeInv, RecordInv
<1>4. cpc' \notin {"start", "OK", "done"} \cup CWaits /\ cpc # "start" /\ cpc # "done"
  BY StageFacts
<1>5. FlightInv'
  BY <1>4 DEF FlightInv
<1>6. HelloInv'
  BY <1>2, <1>4 DEF HandshakeInv, HelloInv
<1>7. AuthInv'
  <2>1. cpc' \notin SWrites
    BY StageFacts
  <2>2. QED
    BY <1>2, <1>4, <2>1 DEF HandshakeInv, AuthInv, Agreed, AuthText
<1>8. DoneInv'
  BY <1>4 DEF HandshakeInv, DoneInv, Agreed
<1>9. QED
  BY <1>1, <1>3, <1>5, <1>6, <1>7, <1>8 DEF HandshakeInv

LEMMA ClientRejecting ==
  ASSUME HandshakeInv, cpc \in CWaits, Complete(cbuf), ClientRejects
  PROVE  HandshakeInv'
<1>1. cpc # "done"
  BY StageFacts
<1>2. Records(cbuf \o s2c) /\ cbuf \in Seq(Units) /\ s2c \in Seq(Units)
  BY <1>1 DEF HandshakeInv, RecordInv, QueueTypes, ToClient
<1>3. Rest(cbuf) \in Seq(Units) /\ Records(Rest(cbuf) \o s2c)
  BY <1>2, Took
<1>4. /\ cpc' = "failed" /\ cbuf' = Rest(cbuf)
      /\ UNCHANGED <<cfg, spc, cseen, sseen, slost, altered, sbuf, s2c, c2s>>
  BY DEF ClientRejects, serverVars
<1>5. cbuf' \in Seq(Units) /\ Records(ToClient')
  BY <1>3, <1>4 DEF ToClient
<1>6. QED
  BY <1>4, <1>5, ClientFails

LEMMA ClientTimeoutStep ==
  ASSUME HandshakeInv, ClientTimeout
  PROVE  HandshakeInv'
<1>1. /\ cpc \in CWaits /\ cpc' = "failed" /\ cbuf' = cbuf
      /\ UNCHANGED <<cfg, spc, cseen, sseen, slost, altered, sbuf, s2c, c2s>>
  BY DEF ClientTimeout, serverVars
<1>2. cbuf' \in Seq(Units) /\ Records(ToClient')
  BY <1>1, StageFacts DEF HandshakeInv, RecordInv, QueueTypes, ToClient
<1>3. QED
  BY <1>1, <1>2, ClientFails

(* The first record of the client.                                         *)
LEMMA ClientHelloStep ==
  ASSUME HandshakeInv, ClientHello
  PROVE  HandshakeInv'
<1>1. /\ cpc = "start" /\ cpc' = "SH" /\ c2s' = c2s \o Plain("CH")
      /\ UNCHANGED <<cfg, cbuf, cseen, spc, sbuf, sseen, slost, s2c, altered>>
  BY DEF ClientHello, serverVars
<1>2. spc \in {"CH", "failed"} /\ Len(ToServer) = 0 /\ Records(ToServer)
  BY <1>1 DEF HandshakeInv, HelloInv, RecordInv
<1>3. sbuf \in Seq(Units) /\ c2s \in Seq(Units)
  BY DEF HandshakeInv, QueueTypes
<1>4. c2s' \in Seq(Units) /\ Records(sbuf \o c2s') /\ Len(sbuf \o c2s') = Len(ToServer) + 2
  <2>1. "CH" \in Kinds
    BY DEF Kinds
  <2>2. QED
    BY <1>1, <1>2, <1>3, <2>1, PlainSent DEF ToServer, Appended
<1>5. Types' /\ QueueTypes'
  BY <1>1, <1>4, StageFacts DEF HandshakeInv, Types, QueueTypes
<1>6. ToClient' = ToClient /\ Records(ToServer') /\ Len(ToServer') = 2
  BY <1>1, <1>2, <1>4 DEF ToClient, ToServer
<1>7. RecordInv'
  BY <1>1, <1>6 DEF HandshakeInv, RecordInv
<1>8. FlightInv'
  BY <1>1, <1>6, StageFacts DEF HandshakeInv, FlightInv, Flight
<1>9. HelloInv' /\ AuthInv'
  BY <1>1, <1>2, <1>6, StageFacts DEF HelloInv, AuthInv
<1>10. DoneInv'
  BY <1>1, <1>2 DEF HandshakeInv, DoneInv, SDone
<1>11. QED
  BY <1>5, <1>7, <1>8, <1>9, <1>10 DEF HandshakeInv

(* The client takes a record of the flight: what is left of it.            *)
LEMMA ClientTakes ==
  ASSUME HandshakeInv, cpc \in CWaits, Complete(cbuf)
  PROVE  /\ Rest(cbuf) \in Seq(Units) /\ Records(Rest(cbuf) \o s2c)
         /\ CRecord = ToClient[2] /\ CRecord \in Units
         /\ 2 <= Len(ToClient) /\ spc # "CH" /\ Written(spc) > Taken(cpc)
         /\ Flight(ToClient, cpc, spc, sseen)
         /\ \A d : Taken(d) = Taken(cpc) + 1 => Flight(Rest(cbuf) \o s2c, d, spc, sseen)
<1>1. /\ Records(ToClient) /\ cbuf \in Seq(Units) /\ s2c \in Seq(Units)
      /\ Flight(ToClient, cpc, spc, sseen)
  BY StageFacts DEF HandshakeInv, RecordInv, QueueTypes, FlightInv
<1>2. /\ Rest(cbuf) \in Seq(Units) /\ Records(Rest(cbuf) \o s2c) /\ 2 <= Len(ToClient)
      /\ Len(Rest(cbuf) \o s2c) = Len(ToClient) - 2
      /\ \A i \in 1..(Len(ToClient) - 2) : (Rest(cbuf) \o s2c)[i] = ToClient[i + 2]
      /\ CRecord = ToClient[2] /\ CRecord \in Units
  BY <1>1, Took DEF ToClient, CRecord
<1>3. /\ Taken(cpc) \in 0..6 /\ Written(spc) \in 0..8 /\ Len(ToClient) \in Nat
      /\ ToClient \in Seq(Units)
  BY StateFacts
<1>4. spc # "CH"
  <2>1. SUFFICES ASSUME spc = "CH" PROVE FALSE
    OBVIOUS
  <2>2. Len(ToClient) = 0
    BY <1>1, <1>3, <2>1, FlightBegins
  <2>3. QED
    BY <1>2, <2>2
<1>5. Written(spc) > Taken(cpc)
  <2>1. PICK w \in 0..8, t \in 0..6, n \in Nat :
          w = Written(spc) /\ t = Taken(cpc) /\ n = Len(ToClient)
    BY <1>3
  <2>2. n <= 2 * (w - t) /\ 2 <= n
    BY <1>1, <1>2, <2>1 DEF Flight
  <2>3. w > t
    BY <2>2
  <2>4. QED
    BY <2>1, <2>3
<1>6. ASSUME NEW d, Taken(d) = Taken(cpc) + 1
      PROVE  Flight(Rest(cbuf) \o s2c, d, spc, sseen)
  <2>1. Rest(cbuf) \o s2c \in Seq(Units)
    BY <1>1, <1>2, Pending
  <2>2. QED
    BY <1>1, <1>2, <1>3, <1>6, <2>1, FlightTaken
<1>7. QED
  BY <1>1, <1>2, <1>4, <1>5, <1>6

LEMMA ClientTakesFlightStep ==
  ASSUME HandshakeInv, ClientTakesFlight
  PROVE  HandshakeInv'
<1>1. cpc \in DOMAIN Following /\ cpc \in SWrites /\ cpc \in CWaits /\ Complete(cbuf)
  BY StageFacts DEF ClientTakesFlight
<1>2. CASE Acceptable(CRecord)
  <2>1. /\ cpc' = Following[cpc] /\ cbuf' = Rest(cbuf)
        /\ cseen' = IF cpc \in DOMAIN cseen THEN [cseen EXCEPT ![cpc] = CRecord.val] ELSE cseen
        /\ UNCHANGED <<cfg, spc, sbuf, sseen, slost, s2c, c2s, altered>>
    BY <1>2 DEF ClientTakesFlight, serverVars
  <2>2. /\ Rest(cbuf) \in Seq(Units) /\ Records(Rest(cbuf) \o s2c) /\ CRecord \in Units
        /\ spc # "CH"
        /\ \A d : Taken(d) = Taken(cpc) + 1 => Flight(Rest(cbuf) \o s2c, d, spc, sseen)
    BY <1>1, ClientTakes
  <2>3. cpc' \in SWrites /\ cpc' \in CWaits /\ Taken(cpc') = Taken(cpc) + 1
    BY <1>1, <2>1, StageFacts
  <2>4. cpc' \notin {"start", "done", "OK"} /\ cpc \notin {"start", "done", "OK", "failed"}
    BY <1>1, <2>3, StageFacts
  <2>5. cseen' \in Seen
    <3>1. cseen \in Seen /\ CRecord.val \in Vals
      BY <2>2 DEF HandshakeInv, Types, Units
    <3>2. QED
      BY <2>1, <3>1 DEF Seen
  <2>6. Types' /\ QueueTypes'
    BY <2>1, <2>2, <2>3, <2>5 DEF HandshakeInv, Types, QueueTypes
  <2>7. ToClient' = Rest(cbuf) \o s2c /\ ToServer' = ToServer
    BY <2>1 DEF ToClient, ToServer
  <2>8. RecordInv'
    BY <2>2, <2>7 DEF HandshakeInv, RecordInv
  <2>9. FlightInv'
    BY <2>1, <2>2, <2>3, <2>7 DEF FlightInv
  <2>10. HelloInv'
    BY <2>1, <2>2, <2>4 DEF HelloInv
  <2>11. AuthInv'
    <3>1. spc \in SWrites \cup {"AUTH"} => Len(ToServer) = 0
      BY <1>1 DEF HandshakeInv, AuthInv
    <3>2. spc' = spc /\ (spc \in SWrites \cup {"AUTH"} => Len(ToServer') = 0)
      BY <2>1, <2>7, <3>1
    <3>3. QED
      BY <2>3, <2>4, <3>2 DEF AuthInv
  <2>12. DoneInv'
    BY <2>1, <2>4 DEF HandshakeInv, DoneInv
  <2>13. QED
    BY <2>6, <2>8, <2>9, <2>10, <2>11, <2>12 DEF HandshakeInv
<1>3. CASE ~Acceptable(CRecord)
  BY <1>1, <1>3, ClientRejecting DEF ClientTakesFlight
<1>4. QED
  BY <1>2, <1>3

(* The text of the AUTH, and what the server makes of it, whatever the     *)
(* bytes of the password: the marker stands where it looks for one.        *)
LEMMA AuthTextFacts ==
  ASSUME Types
  PROVE  /\ AuthText \in Seq(Nat) /\ Len(AuthText) >= ProofLen + 1
         /\ ParseClientAuth(AuthText) = cfg.cpass
<1> DEFINE p == [i \in 1..ProofLen |-> IF cfg.pin = "none" THEN 0 ELSE 1]
           d == [i \in 1..DeviceLen |-> 1]
           z == <<0>>
           w == cfg.cpass
<1>1. ProofLen \in Nat /\ DeviceLen \in Nat /\ w \in Seq(Nat)
  BY HandshakeAssumption DEF Types
<1>2. p \in Seq(Nat) /\ Len(p) = ProofLen
  BY <1>1
<1>3. d \in Seq(Nat) /\ Len(d) = DeviceLen
  BY <1>1
<1>4. z \in Seq(Nat) /\ Len(z) = 1 /\ z[1] = 0
  OBVIOUS
<1>5. AuthText = ((p \o z) \o d) \o w
  BY DEF AuthText
<1> HIDE DEF p, d, z, w
<1>a. Len(w) \in Nat
  BY <1>1, LenProperties
<1>6. PICK m \in Nat, e \in Nat, n \in Nat : m = ProofLen /\ e = DeviceLen /\ n = Len(w)
  BY <1>1, <1>a, Zenon
<1>7. PICK x \in Seq(Nat) : x = p \o z
  BY <1>2, <1>4, ConcatProperties
<1>8. Len(x) = m + 1 /\ x[m + 1] = 0
  <2>1. /\ Len(x) = m + 1
        /\ \A i \in 1..(m + 1) : x[i] = IF i <= m THEN p[i] ELSE z[i - m]
    <3>1. /\ Len(p \o z) = Len(p) + Len(z)
          /\ \A i \in 1..(Len(p) + Len(z)) : (p \o z)[i] = IF i <= Len(p) THEN p[i] ELSE z[i - Len(p)]
      BY <1>2, <1>4, ConcatProperties
    <3>2. Len(p) = m /\ Len(z) = 1
      BY <1>2, <1>4, <1>6
    <3>3. QED
      BY <1>7, <3>1, <3>2
  <2>2. m + 1 \in 1..(m + 1) /\ ~(m + 1 <= m) /\ m + 1 - m = 1
    OBVIOUS
  <2>3. QED
    BY <1>4, <2>1, <2>2
<1>9. PICK y \in Seq(Nat) : y = x \o d
  BY <1>3, ConcatProperties
<1>10. Len(y) = m + 1 + e /\ y[m + 1] = 0
  <2>1. /\ Len(y) = (m + 1) + e
        /\ \A i \in 1..((m + 1) + e) : y[i] = IF i <= m + 1 THEN x[i] ELSE d[i - (m + 1)]
    <3>1. /\ Len(x \o d) = Len(x) + Len(d)
          /\ \A i \in 1..(Len(x) + Len(d)) : (x \o d)[i] = IF i <= Len(x) THEN x[i] ELSE d[i - Len(x)]
      BY <1>3, ConcatProperties
    <3>2. Len(x) = m + 1 /\ Len(d) = e
      BY <1>3, <1>6, <1>8
    <3>3. QED
      BY <1>9, <3>1, <3>2
  <2>2. m + 1 \in 1..((m + 1) + e)
    OBVIOUS
  <2>3. QED
    BY <1>8, <2>1, <2>2
<1>11. PICK k \in Nat : k = m + 1 + e
  OBVIOUS
<1>12. /\ AuthText \in Seq(Nat) /\ Len(AuthText) = k + n
       /\ \A i \in 1..(k + n) : AuthText[i] = IF i <= k THEN y[i] ELSE w[i - k]
  <2>1. AuthText = y \o w /\ Len(y) = k
    BY <1>5, <1>7, <1>9, <1>10, <1>11
  <2>2. QED
    BY <1>1, <1>6, <2>1, ConcatProperties
<1>13. AuthText[m + 1] = 0
  BY <1>10, <1>11, <1>12
<1>14. SubSeq(AuthText, k + 1, k + n) = w
  <2>1. /\ SubSeq(AuthText, k + 1, k + n) \in Seq(Nat)
        /\ Len(SubSeq(AuthText, k + 1, k + n)) = IF k + 1 <= k + n THEN (k + n) - (k + 1) + 1 ELSE 0
        /\ \A i \in 1..((k + n) - (k + 1) + 1) :
             SubSeq(AuthText, k + 1, k + n)[i] = AuthText[(k + 1) + i - 1]
    <3>1. \A i \in (k + 1)..(k + n) : AuthText[i] \in Nat
      BY <1>12
    <3>2. QED
      BY <1>12, <3>1, SubSeqProperties
  <2>2. (k + n) - (k + 1) + 1 = n /\ (~(k + 1 <= k + n) => n = 0)
    OBVIOUS
  <2>3. Len(SubSeq(AuthText, k + 1, k + n)) = n
    BY <2>1, <2>2
  <2>4. ASSUME NEW i \in 1..n PROVE SubSeq(AuthText, k + 1, k + n)[i] = w[i]
    <3>1. PICK j : j = k + i
      OBVIOUS
    <3>2. j \in 1..(k + n) /\ ~(j <= k) /\ j - k = i /\ (k + 1) + i - 1 = j
      BY <3>1
    <3>3. SubSeq(AuthText, k + 1, k + n)[i] = AuthText[j]
      BY <2>1, <2>2, <3>2
    <3>4. QED
      BY <1>12, <3>2, <3>3
  <2>5. QED
    BY <1>1, <1>6, <2>1, <2>3, <2>4, SeqEqual
<1>15. Len(AuthText) >= m + 1 + e /\ Len(AuthText) >= m + 1 /\ m + 1 + e + 1 = k + 1
  BY <1>11, <1>12
<1>16. ParseClientAuth(AuthText) = w
  BY <1>6, <1>12, <1>13, <1>14, <1>15 DEF ParseClientAuth
<1>17. QED
  BY <1>6, <1>12, <1>15, <1>16 DEF w

(* The proof is the server's word on what it saw, and the AUTH follows.    *)
LEMMA ClientTakesProofStep ==
  ASSUME HandshakeInv, ClientTakesProof
  PROVE  HandshakeInv'
<1>1. cpc = "PROOF" /\ cpc \in CWaits /\ cpc \in SWrites /\ Complete(cbuf)
  BY StageFacts DEF ClientTakesProof, ProofTaken
<1>2. CASE Verifies(CRecord)
  <2>1. /\ cpc' = "OK" /\ cbuf' = Rest(cbuf) /\ c2s' = c2s \o Record("AUTH", Key(cseen), AuthText)
        /\ UNCHANGED <<cfg, cseen, spc, sbuf, sseen, slost, s2c, altered>>
    BY <1>2 DEF ClientTakesProof, ProofTaken, ClientAuth, AuthText, serverVars
  <2>2. /\ Rest(cbuf) \in Seq(Units) /\ Records(Rest(cbuf) \o s2c) /\ CRecord = ToClient[2]
        /\ 2 <= Len(ToClient) /\ spc # "CH" /\ Written(spc) > 5
        /\ Flight(ToClient, "PROOF", spc, sseen)
        /\ \A d : Taken(d) = 5 + 1 => Flight(Rest(cbuf) \o s2c, d, spc, sseen)
    BY <1>1, ClientTakes, StageFacts
  <2>3. Flight(Rest(cbuf) \o s2c, "OK", spc, sseen)
    BY <2>2, StageFacts
  <2>4. spc \in {"AUTH", "failed"}
    <3>1. spc \notin SDone \cup {"rejected"}
      BY <1>1 DEF HandshakeInv, DoneInv
    <3>2. \A s \in SWrites : ~(Written(s) > 5)
      BY StageFacts DEF Written, InFlight, Failed, SDone
    <3>3. QED
      BY <2>2, <3>1, <3>2 DEF HandshakeInv, Types, Failed
  <2>5. Agreed
    <3>1. Len(ToClient) \in Nat /\ 2 * (6 - 5) = 2
      BY StateFacts
    <3>2. ToClient[2].data = sseen
      BY <2>2, <3>1, StageFacts DEF Flight
    <3>3. QED
      BY <1>2, <2>2, <3>2 DEF Verifies, Agreed
  <2>6. Appended(sbuf, c2s, c2s', AuthText)
    <3>1. "AUTH" \in Kinds /\ Key(cseen) \in Keys /\ AuthText \in Contents
      BY KeyFacts, AuthTextFacts DEF HandshakeInv, Types, Kinds, Contents
    <3>2. sbuf \in Seq(Units) /\ c2s \in Seq(Units)
      BY DEF HandshakeInv, QueueTypes
    <3>3. QED
      BY <2>1, <3>1, <3>2, Sent
  <2>7. spc = "AUTH" => Len(ToServer) = 0
    BY <1>1 DEF HandshakeInv, AuthInv
  <2>8. /\ Records(ToServer') /\ Len(ToServer') = Len(ToServer) + 2
        /\ ToServer'[Len(ToServer) + 2].data = AuthText
    BY <2>1, <2>6 DEF HandshakeInv, RecordInv, ToServer, Appended
  <2>9. /\ ToClient' = Rest(cbuf) \o s2c /\ AuthText' = AuthText /\ Agreed'
        /\ spc = "AUTH" => Len(ToServer') = 2 /\ ToServer'[2].data = AuthText'
    <3>1. ToClient' = Rest(cbuf) \o s2c
      BY <2>1 DEF ToClient
    <3>2. AuthText' = AuthText /\ Agreed'
      BY <2>1, <2>5 DEF AuthText, Agreed
    <3>3. QED
      BY <2>7, <2>8, <3>1, <3>2
  <2>10. Types' /\ QueueTypes'
    BY <2>1, <2>2, <2>6, StageFacts DEF HandshakeInv, Types, QueueTypes, Appended
  <2>11. RecordInv'
    BY <2>2, <2>8, <2>9 DEF RecordInv
  <2>12. FlightInv'
    BY <2>1, <2>3, <2>9 DEF FlightInv
  <2>13. HelloInv'
    BY <2>1, <2>4 DEF HelloInv
  <2>14. AuthInv'
    <3>1. 2 <= 2 /\ cpc' \in CWaits /\ cpc' \notin SWrites
      BY <2>1, StageFacts
    <3>2. spc' = "AUTH" \/ spc' \notin SWrites \cup {"AUTH"}
      BY <2>1, <2>4, StageFacts
    <3>3. QED
      BY <2>1, <2>9, <3>1, <3>2 DEF AuthInv
  <2>15. DoneInv'
    BY <2>1, <2>4 DEF HandshakeInv, DoneInv, SDone
  <2>16. QED
    BY <2>10, <2>11, <2>12, <2>13, <2>14, <2>15 DEF HandshakeInv
<1>3. CASE ~Verifies(CRecord)
  BY <1>1, <1>3, ClientRejecting DEF ClientTakesProof, ProofTaken
<1>4. QED
  BY <1>2, <1>3

(* A seventh record comes from a server that has accepted the client.      *)
LEMMA ClientTakesOkStep ==
  ASSUME HandshakeInv, ClientTakesOk
  PROVE  HandshakeInv'
<1>1. cpc = "OK" /\ cpc \in CWaits /\ Complete(cbuf)
  BY StageFacts DEF ClientTakesOk
<1>2. CASE Opens(CRecord, Key(cseen))
  <2>1. /\ cpc' = "done" /\ cbuf' = <<>>
        /\ UNCHANGED <<cfg, cseen, spc, sbuf, sseen, slost, s2c, c2s, altered>>
    BY <1>2 DEF ClientTakesOk, serverVars
  <2>2. Written(spc) > 6
    BY <1>1, ClientTakes, StageFacts
  <2>3. spc \in SDone
    <3>1. \A s \in {"CH", "AUTH"} \cup SWrites \cup Failed : ~(Written(s) > 6)
      BY StageFacts DEF Written, InFlight, Failed, SDone
    <3>2. QED
      BY <2>2, <3>1 DEF HandshakeInv, Types
  <2>4. spc \notin {"CH"} \cup SWrites \cup {"AUTH"}
    BY <2>3, StageFacts DEF SDone
  <2>5. Types' /\ QueueTypes'
    BY <2>1 DEF HandshakeInv, Types, QueueTypes
  <2>6. ToServer' = ToServer
    BY <2>1 DEF ToServer
  <2>7. RecordInv'
    BY <2>1, <2>6 DEF HandshakeInv, RecordInv
  <2>8. FlightInv'
    BY <2>1, StageFacts DEF FlightInv
  <2>9. HelloInv' /\ AuthInv'
    BY <2>1, <2>4 DEF HelloInv, AuthInv
  <2>10. DoneInv'
    BY <2>1, <2>3 DEF HandshakeInv, DoneInv, Agreed
  <2>11. QED
    BY <2>5, <2>7, <2>8, <2>9, <2>10 DEF HandshakeInv
<1>3. CASE ~Opens(CRecord, Key(cseen))
  BY <1>1, <1>3, ClientRejecting DEF ClientTakesOk
<1>4. QED
  BY <1>2, <1>3

LEMMA ClientPongsStep ==
  ASSUME HandshakeInv, ClientPongs
  PROVE  HandshakeInv'
<1>1. /\ cpc = "done" /\ Complete(cbuf) /\ cbuf' = Rest(cbuf) /\ c2s' = c2s \o Plain("PONG")
      /\ UNCHANGED <<cfg, cpc, cseen, spc, sbuf, sseen, slost, s2c, altered>>
  BY DEF ClientPongs, serverVars
<1>2. cbuf \in Seq(Units) /\ sbuf \in Seq(Units) /\ c2s \in Seq(Units)
  BY DEF HandshakeInv, QueueTypes
<1>3. cbuf' \in Seq(Units)
  <2>1. PICK n \in Nat : n = Len(cbuf) /\ 2 <= n
    BY <1>1, <1>2 DEF Complete
  <2>2. QED
    BY <1>1, <1>2, <2>1, RestFacts
<1>4. Appended(sbuf, c2s, c2s', <<>>)
  <2>1. "PONG" \in Kinds
    BY DEF Kinds
  <2>2. QED
    BY <1>1, <1>2, <2>1, PlainSent
<1>5. spc \in SDone /\ spc \notin {"CH"} \cup SWrites \cup {"AUTH"}
  BY <1>1, StageFacts DEF HandshakeInv, DoneInv, SDone
<1>6. Types' /\ QueueTypes'
  BY <1>1, <1>3, <1>4 DEF HandshakeInv, Types, QueueTypes, Appended
<1>7. RecordInv'
  BY <1>1, <1>4 DEF HandshakeInv, RecordInv, ToServer, Appended
<1>8. FlightInv' /\ HelloInv' /\ AuthInv'
  BY <1>1, <1>5, StageFacts DEF FlightInv, HelloInv, AuthInv
<1>9. DoneInv'
  BY <1>1 DEF HandshakeInv, DoneInv, Agreed
<1>10. QED
  BY <1>6, <1>7, <1>8, <1>9 DEF HandshakeInv

-----------------------------------------------------------------------------
(* The server takes the hello: the client waits for it, or is gone, and    *)
(* nothing was written yet.                                                *)
LEMMA ServerTakesHelloStep ==
  ASSUME HandshakeInv, ServerTakesHello
  PROVE  HandshakeInv'
<1>1. /\ spc = "CH" /\ Complete(sbuf) /\ spc' \in {"SH", "failed"} /\ sbuf' = Rest(sbuf)
      /\ sseen' = [sseen EXCEPT !.CH = SRecord.val]
      /\ UNCHANGED <<cfg, cpc, cbuf, cseen, slost, s2c, c2s, altered>>
  BY DEF ServerTakesHello, clientVars
<1>2. Records(ToServer) /\ sbuf \in Seq(Units) /\ c2s \in Seq(Units)
  BY DEF HandshakeInv, RecordInv, QueueTypes
<1>3. /\ Rest(sbuf) \in Seq(Units) /\ Records(Rest(sbuf) \o c2s) /\ 2 <= Len(ToServer)
      /\ Len(Rest(sbuf) \o c2s) = Len(ToServer) - 2 /\ SRecord \in Units
  BY <1>1, <1>2, Took DEF ToServer, SRecord
<1>4. Len(ToServer) \in Nat /\ Len(ToServer) <= 2 /\ cpc \in {"start", "SH", "failed"}
  BY <1>1, StateFacts DEF HandshakeInv, HelloInv
<1>5. Len(Rest(sbuf) \o c2s) = 0
  BY <1>3, <1>4
<1>6. cpc \in {"SH", "failed"}
  BY <1>3, <1>4 DEF HandshakeInv, HelloInv
<1>7. Types' /\ QueueTypes'
  <2>1. sseen \in Seen /\ SRecord.val \in Vals
    BY <1>3 DEF HandshakeInv, Types, Units
  <2>2. sseen' \in Seen
    BY <1>1, <2>1 DEF Seen
  <2>3. QED
    BY <1>1, <1>3, <2>2, StageFacts DEF HandshakeInv, Types, QueueTypes, Failed
<1>8. ToServer' = Rest(sbuf) \o c2s /\ ToClient' = ToClient
  BY <1>1 DEF ToServer, ToClient
<1>9. RecordInv'
  BY <1>1, <1>3, <1>8 DEF HandshakeInv, RecordInv
<1>10. FlightInv'
  <2>1. SUFFICES ASSUME cpc = "SH" PROVE Flight(ToClient, cpc, spc', sseen')
    BY <1>1, <1>6, <1>8, StageFacts DEF FlightInv
  <2>2. Flight(ToClient, cpc, "CH", sseen) /\ Taken(cpc) \in 0..6 /\ ToClient \in Seq(Units)
    BY <1>1, <2>1, StageFacts, StateFacts DEF HandshakeInv, FlightInv
  <2>3. QED
    BY <1>1, <2>2, FlightBegins
<1>11. HelloInv'
  BY <1>1, <1>6 DEF HelloInv
<1>12. AuthInv'
  <2>1. Len(ToServer') = 0 /\ 0 <= 2 /\ cpc' \in {"SH", "failed"} /\ cpc' \in CWaits \cup {"failed"}
    BY <1>1, <1>5, <1>6, <1>8, StageFacts
  <2>2. QED
    BY <2>1 DEF AuthInv
<1>13. DoneInv'
  BY <1>1, <1>6 DEF HandshakeInv, DoneInv, SDone
<1>14. QED
  BY <1>7, <1>9, <1>10, <1>11, <1>12, <1>13 DEF HandshakeInv

(* The server writes a record.                                             *)
LEMMA ServerSends ==
  ASSUME HandshakeInv, NEW data, Appended(cbuf, s2c, s2c', data), cbuf' = cbuf, cpc' = cpc,
         sseen' = sseen, spc \notin Failed, spc' \notin Failed,
         Written(spc) \in 0..7, Written(spc') = Written(spc) + 1,
         Written(spc') = 6 => data = sseen
  PROVE  (cpc # "done" => Records(ToClient')) /\ FlightInv'
<1>1. cpc # "done" => /\ Records(ToClient') /\ Len(ToClient') = Len(ToClient) + 2
                      /\ \A i \in 1..Len(ToClient) : ToClient'[i] = ToClient[i]
                      /\ ToClient'[Len(ToClient) + 2].data = data
  BY DEF HandshakeInv, RecordInv, ToClient, Appended
<1>2. ToClient' \in Seq(Units) /\ ToClient \in Seq(Units)
  <2>1. s2c' \in Seq(Units) /\ cbuf \in Seq(Units)
    BY DEF HandshakeInv, QueueTypes, Appended
  <2>2. QED
    BY <2>1, Pending, StateFacts DEF ToClient
<1>3. ASSUME cpc \in {"start"} \cup CWaits PROVE Flight(ToClient', cpc, spc', sseen)
  <2>1. Flight(ToClient, cpc, spc, sseen) /\ Taken(cpc) \in 0..6 /\ cpc # "done"
    BY <1>3, StageFacts, StateFacts DEF HandshakeInv, FlightInv
  <2>2. Written(spc') = 6 => ToClient'[Len(ToClient) + 2].data = sseen
    BY <1>1, <2>1
  <2>3. QED
    BY <1>1, <1>2, <2>1, <2>2, FlightSent
<1>4. QED
  BY <1>1, <1>3 DEF FlightInv

LEMMA ServerWritesStep ==
  ASSUME HandshakeInv, ServerWrites
  PROVE  HandshakeInv'
<1>1. /\ spc \in DOMAIN Following /\ s2c' = s2c \o Plain(spc) /\ spc' = Following[spc]
      /\ UNCHANGED <<cfg, cpc, cbuf, cseen, sbuf, sseen, slost, c2s, altered>>
  BY DEF ServerWrites, clientVars
<1>2. /\ spc \in SWrites /\ spc' \in SWrites /\ Written(spc) \in 0..4
      /\ Written(spc') = Written(spc) + 1
  BY <1>1, StageFacts
<1>3. Appended(cbuf, s2c, s2c', <<>>)
  <2>1. spc \in Kinds /\ cbuf \in Seq(Units) /\ s2c \in Seq(Units)
    BY <1>2 DEF HandshakeInv, QueueTypes, Kinds
  <2>2. QED
    BY <1>1, <2>1, PlainSent
<1>4. (cpc # "done" => Records(ToClient')) /\ FlightInv'
  <2>1. spc \notin Failed /\ spc' \notin Failed
    BY <1>2, StageFacts DEF Failed
  <2>2. Written(spc) \in 0..7 /\ Written(spc') # 6
    BY <1>2
  <2>3. QED
    BY <1>1, <1>2, <1>3, <2>1, <2>2, ServerSends
<1>5. ToServer' = ToServer
  BY <1>1 DEF ToServer
<1>6. Types' /\ QueueTypes'
  BY <1>1, <1>2, <1>3 DEF HandshakeInv, Types, QueueTypes, Appended
<1>7. RecordInv'
  BY <1>1, <1>4, <1>5 DEF HandshakeInv, RecordInv
<1>8. AuthInv' /\ cpc \in CWaits \cup {"failed"}
  BY <1>1, <1>2, <1>5 DEF HandshakeInv, AuthInv, Agreed, AuthText
<1>9. HelloInv'
  BY <1>1, <1>2, <1>8, StageFacts DEF HelloInv
<1>10. DoneInv'
  BY <1>1, <1>2, <1>8, StageFacts DEF HandshakeInv, DoneInv, SDone
<1>11. QED
  BY <1>4, <1>6, <1>7, <1>8, <1>9, <1>10 DEF HandshakeInv

(* The server gives up, or turns the client away.                          *)
LEMMA ServerFails ==
  ASSUME HandshakeInv, spc \in {"CH", "AUTH"} \cup SWrites, spc' \in Failed,
         sbuf' \in Seq(Units), Records(ToServer'), cpc = "start" => Len(ToServer') = 0,
         spc' = "rejected" => Agreed /\ cpc \in {"OK", "failed"} /\ cfg.cpass # cfg.spass,
         UNCHANGED <<cfg, cpc, cbuf, cseen, sseen, slost, s2c, c2s, altered>>
  PROVE  HandshakeInv'
<1>1. Types' /\ QueueTypes'
  BY DEF HandshakeInv, Types, QueueTypes
<1>2. ToClient' = ToClient
  BY DEF ToClient
<1>3. RecordInv'
  BY <1>2 DEF HandshakeInv, RecordInv
<1>4. spc' \in {"failed", "rejected"} /\ spc' \notin {"CH"} \cup SWrites \cup {"AUTH"} \cup SDone
  BY StageFacts DEF Failed, SDone
<1>5. FlightInv'
  <2>1. SUFFICES ASSUME cpc \in {"start"} \cup CWaits PROVE Flight(ToClient, cpc, spc', sseen)
    BY <1>2 DEF FlightInv
  <2>2. /\ Flight(ToClient, cpc, spc, sseen) /\ Taken(cpc) \in 0..6 /\ ToClient \in Seq(Units)
        /\ Written(spc) \in 0..8
    BY <2>1, StateFacts DEF HandshakeInv, FlightInv
  <2>3. Written(spc') = 6
    BY <1>4, StageFacts
  <2>4. Written(spc) <= 6
    BY StageFacts DEF Written, InFlight, Failed, SDone
  <2>5. Written(spc) <= Written(spc') /\ Written(spc') \in 0..8
    BY <2>3, <2>4
  <2>6. QED
    BY <2>2, <2>5, FlightMoves
<1>6. cpc = "start" => spc' # "rejected"
  OBVIOUS
<1>7. HelloInv'
  BY <1>4, <1>6 DEF HelloInv
<1>8. AuthInv'
  BY <1>4 DEF AuthInv
<1>9. DoneInv'
  <2>1. slost' = <<>> /\ cpc' # "done"
    <3>1. cpc # "done"
      BY StageFacts DEF HandshakeInv, DoneInv, SDone
    <3>2. QED
      BY <3>1 DEF HandshakeInv, DoneInv
  <2>2. QED
    BY <1>4, <2>1 DEF DoneInv, Agreed
<1>10. QED
  BY <1>1, <1>3, <1>5, <1>7, <1>8, <1>9 DEF HandshakeInv

LEMMA ServerTimeoutStep ==
  ASSUME HandshakeInv, ServerTimeout
  PROVE  HandshakeInv'
<1>1. /\ spc \in {"CH", "AUTH"} \cup SWrites /\ spc' = "failed" /\ sbuf' = sbuf
      /\ UNCHANGED <<cfg, cpc, cbuf, cseen, sseen, slost, s2c, c2s, altered>>
  BY DEF ServerTimeout, clientVars
<1>2. ToServer' = ToServer
  BY <1>1 DEF ToServer
<1>3. sbuf' \in Seq(Units) /\ Records(ToServer') /\ (cpc = "start" => Len(ToServer') = 0)
  BY <1>1, <1>2 DEF HandshakeInv, QueueTypes, RecordInv, HelloInv
<1>4. spc' \in Failed /\ spc' # "rejected"
  BY <1>1 DEF Failed
<1>5. QED
  BY <1>1, <1>3, <1>4, ServerFails

LEMMA ServerProvesStep ==
  ASSUME HandshakeInv, ServerProves
  PROVE  HandshakeInv'
<1>1. /\ spc = "PROOF" /\ UNCHANGED <<cfg, cpc, cbuf, cseen, sbuf, sseen, slost, c2s, altered>>
      /\ \/ spc' = "failed" /\ s2c' = s2c
         \/ spc' = "AUTH" /\ s2c' = s2c \o Record("PROOF", Key(sseen), sseen)
  BY DEF ServerProves, clientVars
<1>2. ToServer' = ToServer
  BY <1>1 DEF ToServer
<1>3. spc \in SWrites /\ cpc \in CWaits \cup {"failed"}
  BY <1>1, StageFacts DEF HandshakeInv, AuthInv
<1>4. CASE spc' = "failed" /\ s2c' = s2c
  <2>1. /\ sbuf' \in Seq(Units) /\ Records(ToServer') /\ cpc # "start"
        /\ spc' \in Failed /\ spc' # "rejected"
    BY <1>1, <1>2, <1>3, <1>4, StageFacts DEF HandshakeInv, QueueTypes, RecordInv, Failed
  <2>2. QED
    BY <1>1, <1>3, <1>4, <2>1, ServerFails
<1>5. CASE spc' = "AUTH" /\ s2c' = s2c \o Record("PROOF", Key(sseen), sseen)
  <2>1. Appended(cbuf, s2c, s2c', sseen)
    <3>1. "PROOF" \in Kinds /\ Key(sseen) \in Keys /\ sseen \in Contents
      BY KeyFacts, StageFacts DEF HandshakeInv, Types, Kinds, Contents
    <3>2. cbuf \in Seq(Units) /\ s2c \in Seq(Units)
      BY DEF HandshakeInv, QueueTypes
    <3>3. QED
      BY <1>5, <3>1, <3>2, Sent
  <2>2. (cpc # "done" => Records(ToClient')) /\ FlightInv'
    <3>1. spc \notin Failed /\ spc' \notin Failed
      BY <1>1, <1>5 DEF Failed
    <3>2. Written(spc) \in 0..7 /\ Written(spc') = Written(spc) + 1
      BY <1>1, <1>5, StageFacts
    <3>3. QED
      BY <1>1, <2>1, <3>1, <3>2, ServerSends
  <2>3. Types' /\ QueueTypes'
    BY <1>1, <1>5, <2>1 DEF HandshakeInv, Types, QueueTypes, Appended
  <2>4. RecordInv'
    BY <1>1, <1>2, <2>2 DEF HandshakeInv, RecordInv
  <2>5. AuthInv'
    BY <1>1, <1>2, <1>3 DEF HandshakeInv, AuthInv, Agreed, AuthText
  <2>6. HelloInv'
    BY <1>1, <1>3, <1>5, StageFacts DEF HelloInv
  <2>7. DoneInv'
    BY <1>1, <1>3, <1>5, StageFacts DEF HandshakeInv, DoneInv, SDone
  <2>8. QED
    BY <2>2, <2>3, <2>4, <2>5, <2>6, <2>7 DEF HandshakeInv
<1>6. QED
  BY <1>1, <1>4, <1>5

(* A server that serves, and goes on serving.                              *)
LEMMA ServerServes ==
  ASSUME HandshakeInv, spc' \in SDone, slost' = <<>>, Agreed, cfg.cpass = cfg.spass,
         cpc \in {"OK", "done", "failed"}, sbuf' \in Seq(Units), s2c' \in Seq(Units),
         (cpc # "done" => Records(ToClient')) /\ FlightInv', Records(ToServer'),
         UNCHANGED <<cfg, cpc, cbuf, cseen, sseen, c2s, altered>>
  PROVE  HandshakeInv'
<1>1. Types' /\ QueueTypes' /\ RecordInv'
  BY DEF HandshakeInv, Types, QueueTypes, RecordInv
<1>2. spc' \notin {"CH"} \cup SWrites \cup {"AUTH", "rejected"}
  BY StageFacts DEF SDone
<1>3. HelloInv' /\ AuthInv' /\ DoneInv'
  BY <1>2 DEF HelloInv, AuthInv, DoneInv, Agreed
<1>4. QED
  BY <1>1, <1>3 DEF HandshakeInv

(* The server takes the AUTH, the one record the client had to send.       *)
LEMMA ServerTakesAuthStep ==
  ASSUME HandshakeInv, ServerTakesAuth
  PROVE  HandshakeInv'
<1>1. /\ spc = "AUTH" /\ Complete(sbuf)
      /\ UNCHANGED <<cfg, cpc, cbuf, cseen, sseen, c2s, altered>>
      /\ \/ spc' = "failed" /\ sbuf' = Rest(sbuf) /\ UNCHANGED <<s2c, slost>>
         \/ /\ ParseClientAuth(SRecord.data) # cfg.spass
            /\ spc' = "rejected" /\ sbuf' = Rest(sbuf) /\ UNCHANGED <<s2c, slost>>
         \/ /\ ParseClientAuth(SRecord.data) = cfg.spass
            /\ spc' = "done" /\ sbuf' = <<>> /\ slost' = Rest(sbuf)
            /\ s2c' = s2c \o Record("OK", Key(sseen), <<>>)
  BY DEF ServerTakesAuth, clientVars
<1>2. sbuf \in Seq(Units) /\ c2s \in Seq(Units) /\ Records(ToServer) /\ Len(ToServer) \in Nat
  BY StateFacts DEF HandshakeInv, QueueTypes, RecordInv
<1>3. /\ Rest(sbuf) \in Seq(Units) /\ Records(Rest(sbuf) \o c2s) /\ 2 <= Len(ToServer)
      /\ SRecord = ToServer[2]
  BY <1>1, <1>2, Took DEF ToServer, SRecord
<1>4. Len(ToServer) <= 2 /\ cpc \in CWaits \cup {"failed"} /\ (cpc \in SWrites => Len(ToServer) = 0)
  BY <1>1 DEF HandshakeInv, AuthInv
<1>5. Len(ToServer) = 2 /\ cpc \in {"OK", "failed"}
  <2> DEFINE n == Len(ToServer)
  <2>0. n \in Nat /\ 2 <= n /\ n <= 2
    BY <1>2, <1>3, <1>4
  <2> HIDE DEF n
  <2>a. n = 2
    BY <2>0
  <2>1. Len(ToServer) = 2
    BY <2>a DEF n
  <2>2. cpc \notin SWrites
    BY <1>4, <2>1
  <2>3. QED
    BY <1>4, <2>1, <2>2 DEF CWaits
<1>6. Agreed /\ SRecord.data = AuthText
  BY <1>1, <1>3, <1>5 DEF HandshakeInv, AuthInv
<1>7. ParseClientAuth(SRecord.data) = cfg.cpass
  BY <1>6, AuthTextFacts DEF HandshakeInv
<1>8. Rest(sbuf) = <<>>
  BY <1>1, <1>2, <1>4, Pending DEF ToServer
<1>9. CASE spc' # "done"
  <2>1. spc' \in Failed /\ sbuf' = Rest(sbuf) /\ UNCHANGED <<s2c, slost>>
    BY <1>1, <1>9 DEF Failed
  <2>2. spc' = "rejected" => cfg.cpass # cfg.spass
    BY <1>1, <1>7
  <2>3. sbuf' \in Seq(Units) /\ Records(ToServer') /\ cpc # "start"
    BY <1>1, <1>3, <1>5, <2>1 DEF ToServer
  <2>4. QED
    BY <1>1, <1>5, <1>6, <2>1, <2>2, <2>3, ServerFails
<1>10. CASE spc' = "done"
  <2>1. /\ sbuf' = Rest(sbuf) /\ slost' = <<>> /\ cfg.cpass = cfg.spass
        /\ s2c' = s2c \o Record("OK", Key(sseen), <<>>)
    BY <1>1, <1>7, <1>8, <1>10
  <2>2. Appended(cbuf, s2c, s2c', <<>>)
    <3>1. "OK" \in Kinds /\ Key(sseen) \in Keys /\ <<>> \in Contents
      BY KeyFacts DEF HandshakeInv, Types, Kinds, Contents
    <3>2. cbuf \in Seq(Units) /\ s2c \in Seq(Units)
      BY DEF HandshakeInv, QueueTypes
    <3>3. QED
      BY <2>1, <3>1, <3>2, Sent
  <2>3. (cpc # "done" => Records(ToClient')) /\ FlightInv'
    <3>1. spc \notin Failed /\ spc' \notin Failed
      BY <1>1, <1>10 DEF Failed
    <3>2. Written(spc) \in 0..7 /\ Written(spc') = Written(spc) + 1 /\ Written(spc') # 6
      BY <1>1, <1>10, StageFacts
    <3>3. QED
      BY <1>1, <2>2, <3>1, <3>2, ServerSends
  <2>4. sbuf' \in Seq(Units) /\ Records(ToServer') /\ s2c' \in Seq(Units) /\ spc' \in SDone
    BY <1>1, <1>3, <1>10, <2>1, <2>2 DEF ToServer, Appended, SDone
  <2>5. QED
    BY <1>1, <1>5, <1>6, <2>1, <2>3, <2>4, ServerServes
<1>11. QED
  BY <1>9, <1>10

LEMMA ServingFacts ==
  ASSUME HandshakeInv, spc \in SDone
  PROVE  /\ Agreed /\ cfg.cpass = cfg.spass /\ cpc \in {"OK", "done", "failed"} /\ slost = <<>>
         /\ sbuf \in Seq(Units) /\ c2s \in Seq(Units) /\ cbuf \in Seq(Units) /\ s2c \in Seq(Units)
         /\ Records(ToServer)
BY DEF HandshakeInv, DoneInv, QueueTypes, RecordInv

LEMMA ServerPingsStep ==
  ASSUME HandshakeInv, ServerPings
  PROVE  HandshakeInv'
<1>1. /\ spc = "done" /\ spc' = "pinged" /\ s2c' = s2c \o Plain("PING")
      /\ UNCHANGED <<cfg, cpc, cbuf, cseen, sbuf, sseen, slost, c2s, altered>>
  BY DEF ServerPings, clientVars
<1>2. spc \in SDone /\ spc' \in SDone /\ spc \notin Failed /\ spc' \notin Failed
  BY <1>1 DEF SDone, Failed
<1>3. Appended(cbuf, s2c, s2c', <<>>)
  <2>1. "PING" \in Kinds
    BY DEF Kinds
  <2>2. QED
    BY <1>1, <1>2, <2>1, ServingFacts, PlainSent
<1>4. (cpc # "done" => Records(ToClient')) /\ FlightInv'
  <2>1. Written(spc) \in 0..7 /\ Written(spc') = Written(spc) + 1 /\ Written(spc') # 6
    BY <1>1, StageFacts
  <2>2. QED
    BY <1>1, <1>2, <1>3, <2>1, ServerSends
<1>5. sbuf' \in Seq(Units) /\ s2c' \in Seq(Units) /\ Records(ToServer') /\ slost' = <<>>
  BY <1>1, <1>2, <1>3, ServingFacts DEF ToServer, Appended
<1>6. QED
  BY <1>1, <1>2, <1>4, <1>5, ServingFacts, ServerServes

LEMMA ServerWaitsStep ==
  ASSUME HandshakeInv, ServerTakesPong \/ ServerExpires
  PROVE  HandshakeInv'
<1>1. /\ spc = "pinged" /\ spc' \in {"answered", "expired"}
      /\ sbuf' = sbuf \/ (Complete(sbuf) /\ sbuf' = Rest(sbuf))
      /\ UNCHANGED <<cfg, cpc, cbuf, cseen, sseen, slost, s2c, c2s, altered>>
  BY DEF ServerTakesPong, ServerExpires, clientVars
<1>2. spc \in SDone /\ spc' \in SDone /\ spc \notin Failed /\ spc' \notin Failed
  BY <1>1 DEF SDone, Failed
<1>3. ToClient' = ToClient
  BY <1>1 DEF ToClient
<1>4. cpc # "done" => Records(ToClient')
  BY <1>3 DEF HandshakeInv, RecordInv
<1>5. FlightInv'
  <2>1. SUFFICES ASSUME cpc \in {"start"} \cup CWaits PROVE Flight(ToClient, cpc, spc', sseen)
    BY <1>1, <1>3 DEF FlightInv
  <2>2. Flight(ToClient, cpc, spc, sseen) /\ Taken(cpc) \in 0..6 /\ ToClient \in Seq(Units)
    BY <2>1, StateFacts DEF HandshakeInv, FlightInv
  <2>3. Written(spc) = 8 /\ Written(spc') = 8
    BY <1>1, StageFacts
  <2>4. Written(spc) \in 0..8 /\ Written(spc') \in 0..8 /\ Written(spc) <= Written(spc')
    BY <2>3
  <2>5. QED
    BY <1>2, <2>2, <2>3, <2>4, FlightMoves
<1>6. sbuf' \in Seq(Units) /\ Records(sbuf' \o c2s)
  <2>1. CASE sbuf' = sbuf
    BY <1>2, <2>1, ServingFacts DEF ToServer
  <2>2. CASE Complete(sbuf) /\ sbuf' = Rest(sbuf)
    BY <1>2, <2>2, ServingFacts, Took DEF ToServer
  <2>3. QED
    BY <1>1, <2>1, <2>2
<1>7. Records(ToServer') /\ s2c' \in Seq(Units) /\ slost' = <<>>
  BY <1>1, <1>2, <1>6, ServingFacts DEF ToServer
<1>8. QED
  BY <1>1, <1>2, <1>4, <1>5, <1>6, <1>7, ServingFacts, ServerServes

-----------------------------------------------------------------------------
(* Corruption changes how a record reads, not where it is nor what it was  *)
(* made over.                                                              *)
LEMMA AlterToClientStep ==
  ASSUME HandshakeInv, AlterToClient
  PROVE  HandshakeInv'
<1>1. /\ UNCHANGED <<cfg, cpc, cbuf, cseen, spc, sbuf, sseen, slost, c2s>> /\ altered' = TRUE
      /\ \E i \in 1..Len(s2c), v \in Damage("SH") : s2c' = [s2c EXCEPT ![i].val = v]
  BY DEF AlterToClient, Alter, clientVars, serverVars
<1>2. PICK i \in 1..Len(s2c), v \in Vals : s2c' = [s2c EXCEPT ![i].val = v]
  BY <1>1 DEF Damage, Vals
<1>3. cbuf \in Seq(Units) /\ s2c \in Seq(Units)
  BY DEF HandshakeInv, QueueTypes
<1>4. SameShape(cbuf, s2c, s2c')
  BY <1>2, <1>3, RecordsAltered
<1>5. /\ Len(ToClient') = Len(ToClient) /\ (Records(ToClient) => Records(ToClient'))
      /\ \A k \in 1..Len(ToClient) : ToClient'[k].data = ToClient[k].data
      /\ ToServer' = ToServer
  BY <1>1, <1>4 DEF ToClient, ToServer, SameShape
<1>6. ToClient \in Seq(Units) /\ ToClient' \in Seq(Units)
  BY <1>1, <1>3, <1>4, Pending DEF ToClient, SameShape
<1>7. Types' /\ QueueTypes'
  BY <1>1, <1>4 DEF HandshakeInv, Types, QueueTypes, SameShape
<1>8. RecordInv'
  BY <1>1, <1>5 DEF HandshakeInv, RecordInv
<1>9. FlightInv'
  <2>1. SUFFICES ASSUME cpc \in {"start"} \cup CWaits PROVE Flight(ToClient', cpc, spc, sseen)
    BY <1>1 DEF FlightInv
  <2>2. Flight(ToClient, cpc, spc, sseen)
    BY <2>1 DEF HandshakeInv, FlightInv
  <2>3. QED
    BY <1>5, <1>6, <2>2, FlightAltered
<1>10. HelloInv' /\ AuthInv' /\ DoneInv'
  BY <1>1, <1>5 DEF HandshakeInv, HelloInv, AuthInv, DoneInv, Agreed, AuthText
<1>11. QED
  BY <1>7, <1>8, <1>9, <1>10 DEF HandshakeInv

LEMMA AlterToServerStep ==
  ASSUME HandshakeInv, AlterToServer
  PROVE  HandshakeInv'
<1>1. /\ UNCHANGED <<cfg, cpc, cbuf, cseen, spc, sbuf, sseen, slost, s2c>> /\ altered' = TRUE
      /\ \E i \in 1..Len(c2s), v \in Damage("CH") : c2s' = [c2s EXCEPT ![i].val = v]
  BY DEF AlterToServer, Alter, clientVars, serverVars
<1>2. PICK i \in 1..Len(c2s), v \in Vals : c2s' = [c2s EXCEPT ![i].val = v]
  BY <1>1 DEF Damage, Vals
<1>3. sbuf \in Seq(Units) /\ c2s \in Seq(Units)
  BY DEF HandshakeInv, QueueTypes
<1>4. SameShape(sbuf, c2s, c2s')
  BY <1>2, <1>3, RecordsAltered
<1>5. /\ Len(ToServer') = Len(ToServer) /\ (Records(ToServer) => Records(ToServer'))
      /\ \A k \in 1..Len(ToServer) : ToServer'[k].data = ToServer[k].data
      /\ ToClient' = ToClient
  BY <1>1, <1>4 DEF ToClient, ToServer, SameShape
<1>6. Types' /\ QueueTypes'
  BY <1>1, <1>4 DEF HandshakeInv, Types, QueueTypes, SameShape
<1>7. RecordInv' /\ FlightInv'
  BY <1>1, <1>5 DEF HandshakeInv, RecordInv, FlightInv
<1>8. HelloInv' /\ DoneInv'
  BY <1>1, <1>5 DEF HandshakeInv, HelloInv, DoneInv, Agreed
<1>9. AuthInv'
  <2>1. Len(ToServer) = 2 => ToServer'[2].data = ToServer[2].data
    BY <1>5
  <2>2. AuthText' = AuthText /\ Agreed' = Agreed
    BY <1>1 DEF AuthText, Agreed
  <2>3. QED
    BY <1>1, <1>5, <2>1, <2>2 DEF HandshakeInv, AuthInv
<1>10. QED
  BY <1>6, <1>7, <1>8, <1>9 DEF HandshakeInv

-----------------------------------------------------------------------------
LEMMA HandshakeInit == Init => HandshakeInv
<1> SUFFICES ASSUME Init PROVE HandshakeInv
  OBVIOUS
<1>1. /\ cbuf = <<>> /\ sbuf = <<>> /\ s2c = <<>> /\ c2s = <<>> /\ slost = <<>>
      /\ cpc = "start" /\ spc = "CH" /\ altered = FALSE /\ sseen = cseen
      /\ cseen = [CH |-> "ok", SH |-> "ok", CERT |-> "ok", FIN |-> "ok"]
  BY DEF Init
<1>2. ToClient = <<>> /\ ToServer = <<>>
  BY <1>1 DEF ToClient, ToServer
<1>3. cseen \in Seen
  BY <1>1 DEF Seen, Vals
<1>4. Types
  BY <1>1, <1>3 DEF Types, Init
<1>5. QueueTypes
  BY <1>1 DEF QueueTypes
<1>6. Len(<<>>) = 0 /\ Records(<<>>)
  BY DEF Records, Aligned
<1>7. RecordInv
  BY <1>2, <1>6 DEF RecordInv
<1>8. FlightInv
  <2>1. 0 <= 2 * (0 - 0) /\ 0 = 2 * (0 - 0) /\ 2 * (6 - 0) \notin 1..0
    OBVIOUS
  <2>2. QED
    BY <1>1, <1>2, <1>6, <2>1, StageFacts DEF FlightInv, Flight
<1>9. HelloInv
  BY <1>1, <1>2, <1>6 DEF HelloInv
<1>10. AuthInv
  BY <1>1, StageFacts DEF AuthInv
<1>11. DoneInv
  BY <1>1 DEF DoneInv, SDone
<1>12. QED
  BY <1>4, <1>5, <1>7, <1>8, <1>9, <1>10, <1>11 DEF HandshakeInv

LEMMA HandshakeStep == HandshakeInv /\ [Next]_vars => HandshakeInv'
<1> SUFFICES ASSUME HandshakeInv, [Next]_vars PROVE HandshakeInv'
  OBVIOUS
<1>1. CASE (\E n \in 1..Len(s2c) : ClientReads(n)) \/ (\E n \in 1..Len(c2s) : ServerReads(n))
  BY <1>1, ReadSteps
<1>2. CASE ClientHello
  BY <1>2, ClientHelloStep
<1>3. CASE ClientTakesFlight
  BY <1>3, ClientTakesFlightStep
<1>4. CASE ClientTakesProof
  BY <1>4, ClientTakesProofStep
<1>5. CASE ClientTakesOk
  BY <1>5, ClientTakesOkStep
<1>6. CASE ClientTimeout
  BY <1>6, ClientTimeoutStep
<1>7. CASE ClientPongs
  BY <1>7, ClientPongsStep
<1>8. CASE ServerTakesHello
  BY <1>8, ServerTakesHelloStep
<1>9. CASE ServerWrites
  BY <1>9, ServerWritesStep
<1>10. CASE ServerProves
  BY <1>10, ServerProvesStep
<1>11. CASE ServerTakesAuth
  BY <1>11, ServerTakesAuthStep
<1>12. CASE ServerTimeout
  BY <1>12, ServerTimeoutStep
<1>13. CASE ServerPings
  BY <1>13, ServerPingsStep
<1>14. CASE ServerTakesPong \/ ServerExpires
  BY <1>14, ServerWaitsStep
<1>15. CASE AlterToClient
  BY <1>15, AlterToClientStep
<1>16. CASE AlterToServer
  BY <1>16, AlterToServerStep
<1>17. CASE UNCHANGED vars
  <2>1. UNCHANGED <<cfg, cpc, cbuf, cseen, spc, sbuf, sseen, slost, s2c, c2s, altered>>
    BY <1>17 DEF vars, clientVars, serverVars
  <2>2. /\ QueueTypes' /\ ToClient' = ToClient /\ ToServer' = ToServer
        /\ altered' \in BOOLEAN
    BY <2>1 DEF HandshakeInv, Types, QueueTypes, ToClient, ToServer
  <2>3. QED
    BY <2>1, <2>2, SamePending
<1>18. QED
  BY <1>1, <1>2, <1>3, <1>4, <1>5, <1>6, <1>7, <1>8, <1>9, <1>10, <1>11, <1>12, <1>13,
     <1>14, <1>15, <1>16, <1>17 DEF Next

LEMMA HandshakeAlways == Spec => []HandshakeInv
BY HandshakeInit, HandshakeStep, PTL DEF Spec

(* Buffers of both handshakes begin at a record boundary, however the      *)
(* reads cut the records and whatever is corrupted: RecordReader never     *)
(* takes a payload for a header.                                           *)
THEOREM HandshakeTypeCorrect == Spec => []TypeOK
<1>1. HandshakeInv => TypeOK
  <2> SUFFICES ASSUME HandshakeInv PROVE TypeOK
    OBVIOUS
  <2>1. cbuf \in Seq(Units) /\ s2c \in Seq(Units) /\ sbuf \in Seq(Units) /\ c2s \in Seq(Units)
    BY DEF HandshakeInv, QueueTypes
  <2>2. cpc # "done" => Aligned(cbuf)
    BY <2>1, Pending DEF HandshakeInv, RecordInv, ToClient
  <2>3. Aligned(sbuf)
    BY <2>1, Pending DEF HandshakeInv, RecordInv, ToServer
  <2>4. Aligned(slost)
    BY DEF HandshakeInv, DoneInv, Aligned
  <2>5. QED
    BY <2>2, <2>3, <2>4 DEF HandshakeInv, Types, TypeOK
<1>2. QED
  BY <1>1, HandshakeAlways, PTL

(* A client that goes over to the tunnel has a server that did, and sides  *)
(* that did agree on keys, transcript and password, for all passwords and  *)
(* whichever record is corrupted in flight.                                *)
THEOREM HandshakeAgrees == Spec => []Agreement
<1>1. HandshakeInv => Agreement
  BY DEF HandshakeInv, DoneInv, Agreed, Agreement
<1>2. QED
  BY <1>1, HandshakeAlways, PTL

(* The server rejects a client only for another password than its own: for *)
(* all bytes of the passwords and lengths of the message's parts, the      *)
(* parser finds the password that was sent.                                *)
THEOREM HandshakeRejectsJustly == Spec => []RejectionIsJust
<1>1. HandshakeInv => RejectionIsJust
  BY DEF HandshakeInv, DoneInv, RejectionIsJust
<1>2. QED
  BY <1>1, HandshakeAlways, PTL

(* Nothing the server read beyond the AUTH is dropped at the handover.     *)
THEOREM HandshakeHandsOverClean == Spec => []ServerHandoverClean
<1>1. HandshakeInv => ServerHandoverClean
  BY DEF HandshakeInv, DoneInv, ServerHandoverClean
<1>2. QED
  BY <1>1, HandshakeAlways, PTL

(* The sides never both wait for a record with nothing on the wire.        *)
THEOREM HandshakeNeverStuck == Spec => []NoMutualWait
<1>1. HandshakeInv => NoMutualWait
  <2> SUFFICES ASSUME HandshakeInv,
                      cpc \in CWaits, ~Complete(cbuf), s2c = <<>>,
                      spc \in {"CH", "AUTH"}, ~Complete(sbuf), c2s = <<>>
               PROVE  FALSE
    BY DEF NoMutualWait
  <2>1. cbuf \in Seq(Units) /\ s2c \in Seq(Units) /\ sbuf \in Seq(Units) /\ c2s \in Seq(Units)
    BY DEF HandshakeInv, QueueTypes
  <2>2. Len(ToServer) = 0
    BY <2>1, Pending DEF HandshakeInv, RecordInv, ToServer
  <2>3. Len(ToClient) = 0 /\ Flight(ToClient, cpc, spc, sseen)
    BY <2>1, StageFacts, Pending DEF HandshakeInv, RecordInv, FlightInv, ToClient
  <2>4. CASE spc = "CH"
    <3>1. cpc \in {"SH", "failed", "start"}
      BY <2>4 DEF HandshakeInv, HelloInv
    <3>2. cpc = "SH"
      BY <3>1, StageFacts
    <3>3. QED
      BY <2>2, <2>4, <3>2 DEF HandshakeInv, HelloInv
  <2>5. CASE spc = "AUTH"
    <3>1. PICK t \in 0..6 : t = Taken(cpc)
      BY StateFacts
    <3>2. 0 = 2 * (6 - t)
      BY <2>3, <2>5, <3>1, StageFacts DEF Flight, Failed
    <3>3. Taken(cpc) = 6
      BY <3>1, <3>2
    <3>4. cpc = "OK"
      BY <3>3, StageFacts DEF Taken, InFlight
    <3>5. QED
      BY <2>2, <2>5, <3>4 DEF HandshakeInv, AuthInv
  <2>6. QED
    BY <2>4, <2>5
<1>2. QED
  BY <1>1, HandshakeAlways, PTL
=============================================================================
