----------------------------- MODULE Handshake ------------------------------
(***************************************************************************)
(* client_handshake and server_handshake of src/handshake.rs over one      *)
(* connection, up to the first keepalive PING of the tunnel the server     *)
(* spawns on it.                                                           *)
(*                                                                         *)
(* A record is two units on the wire, its header and its content, and a    *)
(* read may return any number of units: records arrive in pieces or        *)
(* several at a time. Cryptography is symbolic: a key is the pair of key   *)
(* shares it was derived from, a record sealed with it opens under the     *)
(* same key only, and a transcript is the list of its records' contents.   *)
(* At most one record is corrupted in flight, its length kept intact.      *)
(***************************************************************************)
EXTENDS Naturals, Sequences

CONSTANTS
  Passwords,   \* passwords, as sequences of bytes
  ProofLen,    \* 32, the client's key proof
  DeviceLen    \* DEVICE_ID_LEN

ASSUME HandshakeAssumption ==
  /\ Passwords \subseteq Seq(Nat)
  /\ ProofLen \in Nat \ {0} /\ DeviceLen \in Nat

VARIABLES
  cfg,      \* what the sides were configured with
  cpc,      \* the record the client reads, or how its handshake ended
  cbuf,     \* its RecordReader::buf, then its carrier's RecordBuf
  cseen,    \* the contents of the hellos, Certificate and Finished it saw
  spc,      \* the same of the server
  sbuf,
  sseen,
  s2c,      \* units on their way to the client
  c2s,      \* units on their way to the server
  slost,    \* history: what the server had read beyond the AUTH
  altered   \* a record was corrupted

clientVars == <<cpc, cbuf, cseen>>
serverVars == <<spc, sbuf, sseen, slost>>
vars == <<cfg, clientVars, serverVars, s2c, c2s, altered>>

(* The server's flight: each record and the one after it.                  *)
Following == [SH |-> "CCS", CCS |-> "CERT", CERT |-> "FIN", FIN |-> "NST", NST |-> "PROOF"]

SWrites == DOMAIN Following \cup {"PROOF"}
CWaits == SWrites \cup {"OK"}
SDone == {"done", "pinged", "answered", "expired"}
Failed == {"failed", "rejected"}

(* How a content differs from what was sent: parsed to the same key share, *)
(* to another one, to a low-order one, or not at all.                      *)
Damage(kind) == IF kind \in {"CH", "SH"} THEN {"other", "share", "low", "junk"}
                                         ELSE {"other", "junk"}

Unit(kind, val, key, data) == [kind |-> kind, val |-> val, key |-> key, data |-> data]

Record(kind, key, data) ==
  <<Unit("HEAD", "junk", <<>>, <<>>), Unit(kind, "ok", key, data)>>

Plain(kind) == Record(kind, <<>>, <<>>)

Share(val) == IF val \in {"ok", "other"} THEN "right" ELSE val
Key(seen) == <<Share(seen.CH), Share(seen.SH)>>   \* derive_keys_hybrid
Opens(r, key) == r.val = "ok" /\ r.key = key      \* decrypt_packet

-----------------------------------------------------------------------------
(* RecordReader::read_record.                                              *)
Complete(buf) == Len(buf) >= 2

(* A new reader for every record.                                          *)
RestDropped(buf) == <<>>

(* The payload's length without the header's.                              *)
RestShort(buf) == Tail(buf)

Rest(buf) == SubSeq(buf, 3, Len(buf))   \* drain(..total)

Init ==
  /\ cfg \in [cpass : Passwords, spass : Passwords, pin : {"none", "right", "wrong"}]
  /\ cpc = "start" /\ spc = "CH"
  /\ cbuf = <<>> /\ sbuf = <<>> /\ slost = <<>>
  /\ cseen = [CH |-> "ok", SH |-> "ok", CERT |-> "ok", FIN |-> "ok"]
  /\ sseen = cseen
  /\ s2c = <<>> /\ c2s = <<>>
  /\ altered = FALSE

(* Reads are for a record that is not yet buffered.                        *)
ClientReads(n) ==
  /\ cpc \in CWaits \cup {"done"} /\ ~Complete(cbuf) /\ n <= Len(s2c)
  /\ cbuf' = cbuf \o SubSeq(s2c, 1, n)
  /\ s2c' = SubSeq(s2c, n + 1, Len(s2c))
  /\ UNCHANGED <<cfg, cpc, cseen, serverVars, c2s, altered>>

ServerReads(n) ==
  /\ spc \in {"CH", "AUTH", "pinged"} /\ ~Complete(sbuf) /\ n <= Len(c2s)
  /\ sbuf' = sbuf \o SubSeq(c2s, 1, n)
  /\ c2s' = SubSeq(c2s, n + 1, Len(c2s))
  /\ UNCHANGED <<cfg, clientVars, spc, sseen, slost, s2c, altered>>

-----------------------------------------------------------------------------
(* The client.                                                             *)
ClientHello ==
  /\ cpc = "start"
  /\ c2s' = c2s \o Plain("CH")
  /\ cpc' = "SH"
  /\ UNCHANGED <<cfg, cbuf, cseen, serverVars, s2c, altered>>

CRecord == cbuf[2]

ClientRejects ==
  /\ cpc' = "failed"
  /\ cbuf' = Rest(cbuf)
  /\ UNCHANGED <<cfg, cseen, serverVars, s2c, c2s, altered>>

(* ServerHello must parse and the next record begin as a ChangeCipherSpec; *)
(* Certificate, Finished and NewSessionTicket are opaque, and a low-order  *)
(* key share is found out after the last of them.                          *)
Acceptable(r) ==
  /\ cpc \in {"SH", "CCS"} => r.val # "junk"
  /\ cpc = "NST" => Share(cseen.SH) # "low"

ClientTakesFlight ==
  /\ cpc \in DOMAIN Following /\ Complete(cbuf)
  /\ IF Acceptable(CRecord)
     THEN /\ cpc' = Following[cpc]
          /\ cbuf' = Rest(cbuf)
          /\ cseen' = IF cpc \in DOMAIN cseen
                      THEN [cseen EXCEPT ![cpc] = CRecord.val] ELSE cseen
          /\ UNCHANGED <<cfg, serverVars, s2c, c2s, altered>>
     ELSE ClientRejects

(* The proof opens and names a pinned key, whatever it was made over.      *)
VerifiesKeyOnly(r) == Opens(r, Key(cseen)) /\ cfg.pin # "wrong"

Verifies(r) ==
  /\ Opens(r, Key(cseen)) /\ r.data = cseen   \* verify_server_auth_message
  /\ cfg.pin # "wrong"

(* [proof][0x00][device id][password], the proof all zeros when unpinned.  *)
ClientAuth ==
  LET proof == [i \in 1..ProofLen |-> IF cfg.pin = "none" THEN 0 ELSE 1]
      device == [i \in 1..DeviceLen |-> 1]
  IN Record("AUTH", Key(cseen), proof \o <<0>> \o device \o cfg.cpass)

ProofTaken(out) ==
  /\ cpc = "PROOF" /\ Complete(cbuf)
  /\ IF Verifies(CRecord)
     THEN /\ c2s' = c2s \o out
          /\ cpc' = "OK"
          /\ cbuf' = Rest(cbuf)
          /\ UNCHANGED <<cfg, cseen, serverVars, s2c, altered>>
     ELSE ClientRejects

(* The first frame does not wait for the server's OK.                      *)
ClientTakesProofEager == ProofTaken(ClientAuth \o Plain("FRAME"))

ClientTakesProof == ProofTaken(ClientAuth)

(* The reader goes, with what it holds beyond the OK; the carrier starts   *)
(* with an empty buffer.                                                   *)
ClientTakesOk ==
  /\ cpc = "OK" /\ Complete(cbuf)
  /\ IF Opens(CRecord, Key(cseen))
     THEN /\ cpc' = "done"
          /\ cbuf' = <<>>
          /\ UNCHANGED <<cfg, cseen, serverVars, s2c, c2s, altered>>
     ELSE ClientRejects

(* The deadline, or the end of the connection once the server closed it.   *)
ClientTimeout ==
  /\ cpc \in CWaits
  /\ cpc' = "failed"
  /\ UNCHANGED <<cfg, cbuf, cseen, serverVars, s2c, c2s, altered>>

(* The tunnel's reader answers the server's PING; it can make nothing of a *)
(* record whose header it has not read.                                    *)
ClientPongs ==
  /\ cpc = "done" /\ Complete(cbuf) /\ cbuf[1].kind = "HEAD"
  /\ cbuf' = Rest(cbuf)
  /\ c2s' = c2s \o Plain("PONG")
  /\ UNCHANGED <<cfg, cpc, cseen, serverVars, s2c, altered>>

-----------------------------------------------------------------------------
(* The server.                                                             *)
SRecord == sbuf[2]

ServerTakesHello ==
  /\ spc = "CH" /\ Complete(sbuf)
  /\ spc' = IF SRecord.val = "junk" THEN "failed" ELSE "SH"
  /\ sseen' = [sseen EXCEPT !.CH = SRecord.val]
  /\ sbuf' = Rest(sbuf)
  /\ UNCHANGED <<cfg, clientVars, slost, s2c, c2s, altered>>

(* One write_all after the other, the proof sealed and over the transcript. *)
ServerWrites ==
  /\ spc \in DOMAIN Following
  /\ s2c' = s2c \o Plain(spc)
  /\ spc' = Following[spc]
  /\ UNCHANGED <<cfg, clientVars, sbuf, sseen, slost, c2s, altered>>

ServerProves ==
  /\ spc = "PROOF"
  /\ IF Share(sseen.CH) = "low"
     THEN spc' = "failed" /\ UNCHANGED s2c
     ELSE spc' = "AUTH" /\ s2c' = s2c \o Record("PROOF", Key(sseen), sseen)
  /\ UNCHANGED <<cfg, clientVars, sbuf, sseen, slost, c2s, altered>>

(* The marker is taken for the first byte of the device id.                *)
ParseClientAuthUnmarked(auth) ==
  SubSeq(auth, ProofLen + DeviceLen + 1, Len(auth))

ParseClientAuth(auth) ==
  IF Len(auth) >= ProofLen + 1 + DeviceLen /\ auth[ProofLen + 1] = 0
  THEN SubSeq(auth, ProofLen + 1 + DeviceLen + 1, Len(auth))
  ELSE SubSeq(auth, ProofLen + 1, Len(auth))

(* A right password is answered with OK and handed to the carrier, with an *)
(* empty buffer of its own.                                                *)
ServerTakesAuth ==
  /\ spc = "AUTH" /\ Complete(sbuf)
  /\ LET r == SRecord IN
       \/ /\ ~Opens(r, Key(sseen)) \/ Len(r.data) < ProofLen + 1
          /\ spc' = "failed" /\ sbuf' = Rest(sbuf)
          /\ UNCHANGED <<s2c, slost>>
       \/ /\ Opens(r, Key(sseen)) /\ Len(r.data) >= ProofLen + 1
          /\ ParseClientAuth(r.data) # cfg.spass
          /\ spc' = "rejected" /\ sbuf' = Rest(sbuf)
          /\ UNCHANGED <<s2c, slost>>
       \/ /\ Opens(r, Key(sseen)) /\ Len(r.data) >= ProofLen + 1
          /\ ParseClientAuth(r.data) = cfg.spass
          /\ spc' = "done" /\ sbuf' = <<>> /\ slost' = Rest(sbuf)
          /\ s2c' = s2c \o Record("OK", Key(sseen), <<>>)
  /\ UNCHANGED <<cfg, clientVars, sseen, c2s, altered>>

(* Only the ClientHello has a deadline.                                    *)
ServerTimeoutHello ==
  /\ spc = "CH"
  /\ spc' = "failed"
  /\ UNCHANGED <<cfg, clientVars, sbuf, sseen, slost, s2c, c2s, altered>>

ServerTimeout ==
  /\ spc \in {"CH", "AUTH"} \cup SWrites
  /\ spc' = "failed"
  /\ UNCHANGED <<cfg, clientVars, sbuf, sseen, slost, s2c, c2s, altered>>

(* keepalive_loop: the first tick of an interval is immediate.             *)
ServerPings ==
  /\ spc = "done"
  /\ spc' = "pinged"
  /\ s2c' = s2c \o Plain("PING")
  /\ UNCHANGED <<cfg, clientVars, sbuf, sseen, slost, c2s, altered>>

ServerTakesPong ==
  /\ spc = "pinged" /\ Complete(sbuf)
  /\ spc' = "answered"
  /\ sbuf' = Rest(sbuf)
  /\ UNCHANGED <<cfg, clientVars, sseen, slost, s2c, c2s, altered>>

(* The grace is longer than a round trip: it runs out when nothing on its  *)
(* way or buffered can still lead to the PONG.                             *)
ServerExpires ==
  /\ spc = "pinged" /\ cpc \in {"done", "failed"}
  /\ cpc = "done" => s2c = <<>> /\ ~Complete(cbuf)
  /\ c2s = <<>> /\ ~Complete(sbuf)
  /\ spc' = "expired"
  /\ UNCHANGED <<cfg, clientVars, sbuf, sseen, slost, s2c, c2s, altered>>

-----------------------------------------------------------------------------
(* Corruption in flight, of one handshake record.                          *)
Alter(wire, i, val) ==
  /\ ~altered
  /\ wire[i].kind \notin {"HEAD", "PING", "PONG"}
  /\ val \in Damage(wire[i].kind)
  /\ altered' = TRUE

AlterToClient ==
  /\ \E i \in 1..Len(s2c), val \in Damage("SH") :
       Alter(s2c, i, val) /\ s2c' = [s2c EXCEPT ![i].val = val]
  /\ UNCHANGED <<cfg, clientVars, serverVars, c2s>>

AlterToServer ==
  /\ \E i \in 1..Len(c2s), val \in Damage("CH") :
       Alter(c2s, i, val) /\ c2s' = [c2s EXCEPT ![i].val = val]
  /\ UNCHANGED <<cfg, clientVars, serverVars, s2c>>

Next ==
  \/ \E n \in 1..Len(s2c) : ClientReads(n)
  \/ \E n \in 1..Len(c2s) : ServerReads(n)
  \/ ClientHello \/ ClientTakesFlight \/ ClientTakesProof \/ ClientTakesOk
  \/ ClientTimeout \/ ClientPongs
  \/ ServerTakesHello \/ ServerWrites \/ ServerProves \/ ServerTakesAuth
  \/ ServerTimeout \/ ServerPings \/ ServerTakesPong \/ ServerExpires
  \/ AlterToClient \/ AlterToServer

Spec == Init /\ [][Next]_vars

(* Each side's timer fires whatever its peer does.                         *)
FairSpec == Spec /\ WF_vars(ClientTimeout) /\ WF_vars(ServerTimeout) /\ WF_vars(ClientHello)

-----------------------------------------------------------------------------
(* Buffers of a handshake begin with a header and alternate.               *)
Aligned(buf) == \A i \in 1..Len(buf) : buf[i].kind = "HEAD" <=> i % 2 = 1

TypeOK ==
  /\ cpc \in {"start", "done", "failed"} \cup CWaits
  /\ spc \in {"CH", "AUTH"} \cup SWrites \cup SDone \cup Failed
  /\ cpc # "done" => Aligned(cbuf)
  /\ Aligned(sbuf) /\ Aligned(slost)
  /\ altered \in BOOLEAN

(* When the client goes over to the tunnel the server has; and when either *)
(* has, both derived the same keys, saw the same hellos, Certificate and   *)
(* Finished, and hold the same password, and the client accepts the key of *)
(* the server: corruption of those records in flight never goes unnoticed. *)
Agreement ==
  /\ cpc = "done" => spc \in SDone
  /\ cpc = "done" \/ spc \in SDone =>
       /\ Key(cseen) = Key(sseen) /\ cseen = sseen
       /\ cfg.cpass = cfg.spass /\ cfg.pin # "wrong"

(* A client is rejected for its password only when it is another one,      *)
(* whatever bytes it has and although the layout of the message has two    *)
(* readings.                                                               *)
RejectionIsJust == spc = "rejected" => cfg.cpass # cfg.spass

(* The server hands a connection over at a record boundary: nothing read   *)
(* beyond the AUTH is dropped with the handshake's reader.                 *)
ServerHandoverClean == slost = <<>>

(* The sides never wait for each other: no record is lost between a burst  *)
(* of writes and reads that cut it anywhere, so only timeouts that come    *)
(* too early or a slow network end a handshake of willing parties.         *)
NoMutualWait ==
  ~ /\ cpc \in CWaits /\ ~Complete(cbuf) /\ s2c = <<>>
    /\ spc \in {"CH", "AUTH"} /\ ~Complete(sbuf) /\ c2s = <<>>

(* "A client that connects and stalls must not hang the server's           *)
(* connection task forever" (handshake.rs:247-248), nor a stalling server  *)
(* the dialer: both handshakes end, wherever the peer stops.               *)
HandshakeEnds ==
  /\ <>(cpc \in {"done", "failed"})
  /\ <>(spc \in SDone \cup Failed)

(* "A PING unanswered for this long means the peer is silently dead"       *)
(* (carrier.rs:40-42): the server's first keepalive never expires on a     *)
(* client that is up.                                                      *)
UnansweredMeansDead == spc = "expired" => cpc # "done"
=============================================================================
