------------------------------- MODULE Tunnel -------------------------------
(***************************************************************************)
(* One end of the long-lived tunnel of src/carrier.rs: the writer, reader  *)
(* and keepalive tasks, the stream registry, the per-stream pumps and the  *)
(* protocol by which the tunnel dies.  The tasks run on tokio's threaded   *)
(* runtime, so every lock section, flag write and channel operation is a   *)
(* step of its own and steps of different tasks interleave freely.         *)
(*                                                                         *)
(* Data abstraction.  Of the frame queue and of each inbound channel only  *)
(* the fill level is kept; `pongs() <= before' becomes "no PONG since the  *)
(* tick"; the record the peer sends next is chosen when it is dispatched.  *)
(* Timeouts may fire at any moment while what they bound is in progress.   *)
(* The peer runs the same program: it sends OPEN only for ids it just      *)
(* allocated and DATA only for streams that were announced.                *)
(***************************************************************************)
EXTENDS Naturals, FiniteSets

CONSTANTS
  Streams,     \* the ids allocated on this tunnel (alloc_id hands out fresh ones)
  Client,      \* TRUE: client.rs opens the streams;  FALSE: the peer's OPENs do
  PingOn,      \* ping_secs > 0
  Stoppable,   \* server::serve may be told to shut down (run never does)
  FrameCap,    \* FRAME_CHANNEL_CAPACITY
  InboundCap,  \* INBOUND_CAPACITY
  MaxBad,      \* MAX_CONSECUTIVE_BAD_RECORDS
  MaxBatch,    \* bound: complete records one socket read leaves in RecordBuf
  NoStream     \* not a stream id

ASSUME TunnelAssumption ==
  /\ Client \in BOOLEAN /\ PingOn \in BOOLEAN /\ Stoppable \in BOOLEAN
  /\ Client => ~Stoppable
  /\ FrameCap \in Nat \ {0} /\ InboundCap \in Nat \ {0}
  /\ MaxBad \in Nat \ {0} /\ MaxBatch \in Nat \ {0}
  /\ NoStream \notin Streams

VARIABLES
  dead,        \* the `dead' watch flag
  cause,       \* Tunnel::cause, "none" until the first kill
  logged,      \* the cause in each task's "tunnel down" line, "none" before it
  pc,          \* where each task stands
  exitCause,   \* the cause a task that left its loop passes to kill_with,
               \* "Killed" when there is none to pass
  registry,    \* the ids in StreamRegistry::streams
  removed,     \* history: the ids whose entry was ever taken out again
  inbound,     \* chunks buffered in each stream's inbound channel
  queued,      \* frames buffered in the channel towards the writer
  current,     \* the stream whose chunk or CLOSE the reader holds
  buffered,    \* complete records waiting in the reader's RecordBuf
  bad,         \* the reader's bad_streak
  ponged,      \* a PONG was counted since the keepalive's last tick
  opener,      \* the task that opens a stream: accept_connection or on_open
  up, down     \* the two halves of a stream's pump

streamVars == <<opener, up, down>>
registryVars == <<registry, removed>>
readerVars == <<current, buffered, bad>>
deathVars  == <<dead, cause, logged, exitCause>>
vars == <<deathVars, pc, registryVars, inbound, queued, readerVars, ponged,
          streamVars>>

Loops == {"writer", "reader"}            \* each owns one half of the socket
Tasks == Loops \cup {"keepalive", "shutdown"}
Dying == {"log_check", "log_emit", "set_cause", "set_dead", "close_all"}
Running == {"top", "select", "write", "dispatch", "deliver", "echo", "pong",
            "refill", "ping", "grace"}
PC == Running \cup Dying \cup {"drop", "end"}
OpenerPC == {"idle", "got", "opening", "opened", "ignoring", "dialing", "rejecting",
             "pumping", "failed"}
UpPC == {"off", "read", "send", "close", "done"}
DownPC == {"off", "recv", "write", "done"}
DeathCause == {"PeerClosed", "ReadError", "WriteError", "WireCorruption",
               "BadFrame", "KeepaliveTimeout", "Killed"}

-----------------------------------------------------------------------------
(* The frame channel.  Its receiver lives as long as the writer task.      *)
FramesOpen == pc["writer"] # "end"

SendOk == FramesOpen /\ queued < FrameCap /\ queued' = queued + 1

SendErr == ~FramesOpen /\ UNCHANGED queued

BestEffort == SendOk \/ SendErr

(* The socket is closed, and the peer sees EOF, once both halves dropped.  *)
SocketClosed == \A t \in Loops : pc[t] = "end"

(* A stream's inbound channel: its senders are the registry's and the      *)
(* clone `deliver' holds across its await; its receiver lives with the     *)
(* opener first and with the pump's downlink afterwards.                   *)
Delivering(s) == pc["reader"] = "deliver" /\ current = s

InboundClosed(s) == s \notin registry /\ ~Delivering(s)

ReceiverAlive(s) ==
  \/ opener[s] \in {"opening", "opened", "dialing", "rejecting"}
  \/ opener[s] = "pumping" /\ down[s] # "done"

Goto(t, l) == pc' = [pc EXCEPT ![t] = l]

-----------------------------------------------------------------------------
(* Death: log_tunnel_death, then kill_with, which ends in kill (whose own  *)
(* Killed only counts when there is no cause yet: a shutdown's).           *)
Exit(t, c) ==
  /\ Goto(t, "log_check")
  /\ exitCause' = [exitCause EXCEPT ![t] = c]
  /\ UNCHANGED <<dead, cause, logged>>

(* The line is written only when it has streams to report.                 *)
LogCheckStreams(t) ==
  /\ pc[t] = "log_check"
  /\ Goto(t, IF cause = "none" /\ registry # {} THEN "log_emit" ELSE "set_cause")
  /\ UNCHANGED <<deathVars, registryVars, queued>>

LogCheck(t) ==
  /\ pc[t] = "log_check"
  /\ Goto(t, IF cause = "none" THEN "log_emit" ELSE "set_cause")
  /\ UNCHANGED <<deathVars, registryVars, queued>>

LogEmit(t) ==
  /\ pc[t] = "log_emit"
  /\ logged' = [logged EXCEPT ![t] = exitCause[t]]
  /\ Goto(t, "set_cause")
  /\ UNCHANGED <<dead, cause, exitCause, registryVars, queued>>

FirstCause(c) == IF cause = "none" THEN c ELSE cause

SetCause(t) ==
  /\ pc[t] = "set_cause"
  /\ cause' = FirstCause(exitCause[t])
  /\ exitCause' = [exitCause EXCEPT ![t] = "Killed"]
  /\ Goto(t, "set_dead")
  /\ UNCHANGED <<dead, logged, registryVars, queued>>

(* A tunnel that is already dead is not closed again.                      *)
SetDeadOnce(t) ==
  /\ pc[t] = "set_dead"
  /\ dead' = TRUE
  /\ Goto(t, IF dead THEN "drop" ELSE "close_all")
  /\ UNCHANGED <<cause, logged, exitCause, registryVars, queued>>

SetDead(t) ==
  /\ pc[t] = "set_dead"
  /\ dead' = TRUE
  /\ Goto(t, "close_all")
  /\ UNCHANGED <<cause, logged, exitCause, registryVars, queued>>

(* The flag goes up first, the cause is recorded after it.                 *)
FlagThenCause(t) ==
  /\ \/ /\ pc[t] = "set_cause"
        /\ dead' = TRUE /\ UNCHANGED cause
        /\ Goto(t, "set_dead")
     \/ /\ pc[t] = "set_dead"
        /\ cause' = FirstCause(exitCause[t]) /\ UNCHANGED dead
        /\ Goto(t, "close_all")
  /\ UNCHANGED <<logged, exitCause, registryVars, queued>>

CauseThenFlag(t) == SetCause(t) \/ SetDead(t)

(* The streams are left to notice by themselves.                           *)
CloseNone(t) ==
  /\ pc[t] = "close_all"
  /\ Goto(t, "drop")
  /\ UNCHANGED <<deathVars, registryVars, queued>>

CloseAll(t) ==
  /\ pc[t] = "close_all"
  /\ registry' = {} /\ removed' = removed \cup registry
  /\ Goto(t, "drop")
  /\ UNCHANGED <<deathVars, queued>>

(* The task returns: the writer drops its write half and the receiver of   *)
(* the frame channel, the reader its read half.                            *)
Drop(t) ==
  /\ pc[t] = "drop"
  /\ Goto(t, "end")
  /\ queued' = IF t = "writer" THEN 0 ELSE queued
  /\ UNCHANGED <<deathVars, registryVars>>

Die(t) ==
  /\ \/ LogCheck(t) \/ LogEmit(t) \/ CauseThenFlag(t) \/ CloseAll(t)
     \/ Drop(t)
  /\ UNCHANGED <<inbound, readerVars, ponged, streamVars>>

(* server::serve kills its live tunnels when it is shut down.              *)
Shutdown ==
  /\ Stoppable
  /\ pc["shutdown"] = "top"
  /\ Goto("shutdown", "set_cause")
  /\ exitCause' = [exitCause EXCEPT !["shutdown"] = "Killed"]
  /\ UNCHANGED <<dead, cause, logged, registryVars, inbound, queued,
                 readerVars, ponged, streamVars>>

-----------------------------------------------------------------------------
(* writer_loop                                                             *)
WriterTop ==
  /\ pc["writer"] = "top"
  /\ IF dead THEN Exit("writer", "Killed")
             ELSE Goto("writer", "select") /\ UNCHANGED deathVars
  /\ UNCHANGED queued

WriterSelect ==
  /\ pc["writer"] = "select"
  /\ \/ /\ queued > 0
        /\ queued' = queued - 1
        /\ Goto("writer", "write")
        /\ UNCHANGED deathVars
     \/ dead /\ Exit("writer", "Killed") /\ UNCHANGED queued

(* The record reaches the wire.  The peer need not make room for it ...    *)
WriterWritten ==
  /\ pc["writer"] = "write"
  /\ Goto("writer", "top")
  /\ UNCHANGED <<deathVars, queued>>

(* The write waits for the peer however long it takes.                     *)
WriterWaits == FALSE

(* ... and then WRITE_TIMEOUT ends the wait; encryption may fail as well.  *)
WriterFails ==
  /\ pc["writer"] = "write"
  /\ \E c \in {"WireCorruption", "WriteError"} : Exit("writer", c)
  /\ UNCHANGED queued

WriterFrame == UNCHANGED <<registryVars, inbound, readerVars, ponged, streamVars>>

Writer == (WriterTop \/ WriterSelect \/ WriterFails) /\ WriterFrame

-----------------------------------------------------------------------------
(* reader_loop                                                             *)
ReaderTop ==
  /\ pc["reader"] = "top"
  /\ IF dead THEN Exit("reader", "Killed")
             ELSE Goto("reader", "dispatch") /\ UNCHANGED deathVars
  /\ UNCHANGED <<registryVars, inbound, queued, readerVars, ponged, opener>>

NoneBuffered ==
  /\ pc["reader"] = "dispatch" /\ buffered = 0
  /\ Goto("reader", "refill")
  /\ UNCHANGED <<deathVars, registryVars, inbound, queued, readerVars, ponged, opener>>

TakeRecord ==
  /\ pc["reader"] = "dispatch" /\ buffered > 0
  /\ buffered' = buffered - 1

(* One bad record too many is tolerated.                                   *)
BadRecordLax(c) ==
  /\ TakeRecord
  /\ bad' = bad + 1
  /\ IF bad >= MaxBad THEN Exit("reader", c)
                      ELSE UNCHANGED <<pc, deathVars>>
  /\ UNCHANGED <<registryVars, inbound, queued, current, ponged, opener>>

(* A record the codec rejects or that holds no well-formed frame.          *)
BadRecord(c) ==
  /\ TakeRecord
  /\ bad' = bad + 1
  /\ IF bad + 1 >= MaxBad THEN Exit("reader", c)
                          ELSE UNCHANGED <<pc, deathVars>>
  /\ UNCHANGED <<registryVars, inbound, queued, current, ponged, opener>>

(* A well-formed frame ends the streak; l is where the reader goes on.     *)
GoodFrame(s, l) ==
  /\ TakeRecord
  /\ bad' = 0
  /\ current' = s
  /\ Goto("reader", l)
  /\ UNCHANGED <<deathVars, queued>>

Register(s) ==
  /\ registry' = registry \cup {s}
  /\ inbound' = [inbound EXCEPT ![s] = 0]
  /\ UNCHANGED removed

Remove(s) ==
  /\ registry' = registry \ {s}
  /\ removed' = removed \cup (registry \cap {s})

(* The entry is left to the spawned on_open task.                          *)
OnOpenLate(s) ==
  /\ opener' = [opener EXCEPT ![s] = IF Client THEN "ignoring" ELSE "dialing"]
  /\ UNCHANGED <<registryVars, inbound>>

(* The entry is made before on_open is spawned.  The server's on_open      *)
(* dials; the client's drops its receiver at once and answers CLOSE.       *)
OnOpen(s) ==
  /\ Register(s)
  /\ opener' = [opener EXCEPT ![s] = IF Client THEN "ignoring" ELSE "dialing"]

OpenFrame(s) ==
  /\ opener[s] = "idle"
  /\ GoodFrame(NoStream, "dispatch")
  /\ OnOpen(s)
  /\ UNCHANGED ponged

(* The peer knows a stream once its OPEN is out.                           *)
Announced(s) == opener[s] \notin {"idle", "got", "opening"}

DataFrame(s) ==
  /\ Announced(s)
  /\ GoodFrame(s, IF s \in registry THEN "deliver" ELSE "echo")
  /\ UNCHANGED <<registryVars, inbound, ponged, opener>>

CloseFrame(s) ==
  /\ Announced(s)
  /\ GoodFrame(NoStream, "dispatch")
  /\ Remove(s)
  /\ UNCHANGED <<inbound, ponged, opener>>

PingFrame ==
  /\ GoodFrame(NoStream, "pong")
  /\ UNCHANGED <<registryVars, inbound, ponged, opener>>

PongFrame ==
  /\ GoodFrame(NoStream, "dispatch")
  /\ ponged' = TRUE
  /\ UNCHANGED <<registryVars, inbound, opener>>

(* StreamRegistry::deliver after the lookup: the channel takes the chunk,  *)
(* or its receiver is gone, or it stays full for STREAM_STALL_TIMEOUT.     *)
Deliver(s) ==
  /\ Delivering(s)
  /\ \/ /\ ReceiverAlive(s) /\ inbound[s] < InboundCap
        /\ inbound' = [inbound EXCEPT ![s] = @ + 1]
        /\ current' = NoStream
        /\ Goto("reader", "dispatch")
        /\ UNCHANGED registryVars
     \/ /\ ~ReceiverAlive(s)
        /\ Goto("reader", "echo")
        /\ UNCHANGED <<registryVars, inbound, current>>
     \/ /\ ReceiverAlive(s) /\ inbound[s] = InboundCap
        /\ Remove(s)
        /\ Goto("reader", "echo")
        /\ UNCHANGED <<inbound, current>>
  /\ UNCHANGED <<deathVars, queued, buffered, bad, ponged, opener>>

(* The CLOSE echoed for a dropped chunk and the PONG go through the frame  *)
(* channel and wait for room in it.                                        *)
Answer ==
  /\ pc["reader"] \in {"echo", "pong"}
  /\ BestEffort
  /\ current' = NoStream
  /\ Goto("reader", "dispatch")
  /\ UNCHANGED <<deathVars, registryVars, inbound, buffered, bad, ponged, opener>>

(* The reader keeps waiting for the socket on a dead tunnel.               *)
RefillDeaf == FALSE

RefillDead ==
  /\ pc["reader"] = "refill" /\ dead
  /\ Exit("reader", "Killed")
  /\ UNCHANGED <<registryVars, inbound, queued, readerVars, ponged, opener>>

(* Bytes, EOF or an error: when is up to the peer and the network.         *)
RefillSocket ==
  /\ pc["reader"] = "refill"
  /\ \/ /\ buffered' \in 0..MaxBatch
        /\ Goto("reader", "top")
        /\ UNCHANGED deathVars
     \/ /\ \E c \in {"PeerClosed", "ReadError"} : Exit("reader", c)
        /\ UNCHANGED buffered
  /\ UNCHANGED <<registryVars, inbound, queued, current, bad, ponged, opener>>

Dispatch ==
  \/ \E c \in {"WireCorruption", "BadFrame"} : BadRecord(c)
  \/ \E s \in Streams : OpenFrame(s) \/ DataFrame(s) \/ CloseFrame(s)
  \/ PingFrame \/ PongFrame

Reader ==
  /\ \/ ReaderTop \/ NoneBuffered \/ Dispatch \/ Answer \/ RefillDead
     \/ \E s \in Streams : Deliver(s)
  /\ UNCHANGED <<up, down>>

-----------------------------------------------------------------------------
(* keepalive_loop                                                          *)
KeepaliveTop ==
  /\ pc["keepalive"] = "top"
  /\ Goto("keepalive", IF dead THEN "end" ELSE "select")
  /\ UNCHANGED <<deathVars, queued, ponged>>

KeepaliveSelect ==
  /\ pc["keepalive"] = "select"
  /\ \/ Goto("keepalive", "ping") /\ ponged' = FALSE
     \/ dead /\ Goto("keepalive", "end") /\ UNCHANGED ponged
  /\ UNCHANGED <<deathVars, queued>>

KeepalivePing ==
  /\ pc["keepalive"] = "ping"
  /\ \/ SendOk /\ Goto("keepalive", "grace")
     \/ SendErr /\ Goto("keepalive", "end")
  /\ UNCHANGED <<deathVars, ponged>>

(* The probe forgets to look at the counter.                               *)
KeepaliveTrusting ==
  /\ pc["keepalive"] = "grace"
  /\ Goto("keepalive", IF dead THEN "end" ELSE "top")
  /\ UNCHANGED <<deathVars, queued, ponged>>

KeepaliveGrace ==
  /\ pc["keepalive"] = "grace"
  /\ \/ ponged /\ Goto("keepalive", "top") /\ UNCHANGED deathVars
     \/ ~ponged /\ Exit("keepalive", "KeepaliveTimeout")
     \/ dead /\ Goto("keepalive", "end") /\ UNCHANGED deathVars
  /\ UNCHANGED <<queued, ponged>>

Keepalive ==
  /\ KeepaliveTop \/ KeepaliveSelect \/ KeepalivePing \/ KeepaliveGrace
  /\ UNCHANGED <<registryVars, inbound, readerVars, streamVars>>

-----------------------------------------------------------------------------
(* Opening a stream.  Client: one attempt of accept_connection on this     *)
(* tunnel, from TunnelManager::tunnel to the spawned pump.                 *)
SetOpener(s, l) == opener' = [opener EXCEPT ![s] = l]

StartPump(s) ==
  /\ SetOpener(s, "pumping")
  /\ up' = [up EXCEPT ![s] = "read"]
  /\ down' = [down EXCEPT ![s] = "recv"]

(* The receiver is dropped with the chunks it buffers.                     *)
DropReceiver(s) == inbound' = [inbound EXCEPT ![s] = 0]

GetTunnel(s) ==
  /\ Client /\ opener[s] = "idle" /\ ~dead
  /\ SetOpener(s, "got")
  /\ UNCHANGED <<registryVars, inbound, queued, up, down>>

(* The OPEN is sent before the entry is made.                              *)
AcceptUnregistered(s) ==
  /\ opener[s] = "got"
  /\ SetOpener(s, "opening")
  /\ UNCHANGED <<registryVars, inbound, queued, up, down>>

AcceptRegister(s) ==
  /\ opener[s] = "got"
  /\ Register(s)
  /\ SetOpener(s, "opening")
  /\ UNCHANGED <<queued, up, down>>

AcceptOpen(s) ==
  /\ opener[s] = "opening"
  /\ \/ SendOk /\ SetOpener(s, "opened") /\ UNCHANGED inbound
     \/ SendErr /\ SetOpener(s, "failed") /\ DropReceiver(s)
  /\ UNCHANGED <<registryVars, up, down>>

(* The stream is pumped whatever became of the tunnel.                     *)
AcceptUnchecked(s) ==
  /\ opener[s] = "opened"
  /\ StartPump(s)
  /\ UNCHANGED <<registryVars, inbound, queued>>

(* The is_dead check after the OPEN; the entry stays behind on failure.    *)
AcceptChecked(s) ==
  /\ opener[s] = "opened"
  /\ IF dead THEN SetOpener(s, "failed") /\ DropReceiver(s) /\ UNCHANGED <<up, down>>
             ELSE StartPump(s) /\ UNCHANGED inbound
  /\ UNCHANGED <<registryVars, queued>>

(* Client: the task spawned for an unexpected OPEN.                        *)
IgnoreOpen(s) ==
  /\ opener[s] = "ignoring"
  /\ BestEffort
  /\ SetOpener(s, "failed")
  /\ UNCHANGED <<registryVars, inbound, up, down>>

(* Server: on_open connects to ss-server within dial_timeout.              *)
DialOk(s) ==
  /\ opener[s] = "dialing"
  /\ StartPump(s)
  /\ UNCHANGED <<registryVars, inbound, queued>>

(* Nothing bounds the connect.                                             *)
DialWaits(s) == FALSE

DialFails(s) ==
  /\ opener[s] = "dialing"
  /\ Remove(s)
  /\ SetOpener(s, "rejecting")
  /\ UNCHANGED <<inbound, queued, up, down>>

DialReject(s) ==
  /\ opener[s] = "rejecting"
  /\ BestEffort
  /\ SetOpener(s, "failed")
  /\ DropReceiver(s)
  /\ UNCHANGED <<registryVars, up, down>>

OpenerFrame == UNCHANGED <<deathVars, pc, readerVars, ponged>>

Opener(s) ==
  /\ \/ AcceptRegister(s) \/ AcceptOpen(s) \/ AcceptChecked(s)
     \/ IgnoreOpen(s) \/ DialFails(s) \/ DialReject(s)
  /\ OpenerFrame

-----------------------------------------------------------------------------
(* pump_stream: the uplink reads the local socket, the downlink writes it. *)
LocalRead(s) ==
  /\ up[s] = "read"
  /\ up' = [up EXCEPT ![s] = "send"]
  /\ UNCHANGED queued

LocalEof(s) ==
  /\ up[s] = "read"
  /\ up' = [up EXCEPT ![s] = "close"]
  /\ UNCHANGED queued

UpSend(s) ==
  /\ up[s] = "send"
  /\ \/ SendOk /\ up' = [up EXCEPT ![s] = "read"]
     \/ SendErr /\ up' = [up EXCEPT ![s] = "close"]

UpClose(s) ==
  /\ up[s] = "close"
  /\ BestEffort
  /\ up' = [up EXCEPT ![s] = "done"]

UpFrame ==
  UNCHANGED <<deathVars, pc, registryVars, inbound, readerVars, ponged, opener, down>>

Uplink(s) == (UpSend(s) \/ UpClose(s)) /\ UpFrame

DownRecv(s) ==
  /\ down[s] = "recv"
  /\ \/ /\ inbound[s] > 0
        /\ inbound' = [inbound EXCEPT ![s] = @ - 1]
        /\ down' = [down EXCEPT ![s] = "write"]
     \/ /\ inbound[s] = 0 /\ InboundClosed(s)
        /\ down' = [down EXCEPT ![s] = "done"]
        /\ UNCHANGED inbound

DownWritten(s) ==
  /\ down[s] = "write"
  /\ down' = [down EXCEPT ![s] = "recv"]
  /\ UNCHANGED inbound

(* A failed write, or one that STREAM_WRITE_TIMEOUT ends.                  *)
DownFails(s) ==
  /\ down[s] = "write"
  /\ down' = [down EXCEPT ![s] = "done"]
  /\ DropReceiver(s)

DownFrame ==
  UNCHANGED <<deathVars, pc, registryVars, queued, readerVars, ponged, opener, up>>

Downlink(s) == (DownRecv(s) \/ DownFails(s)) /\ DownFrame

-----------------------------------------------------------------------------
(* What the peer, the network, the local sockets and the operator decide:  *)
(* nothing obliges them to act.                                            *)
Environment ==
  \/ Shutdown
  \/ WriterWritten /\ WriterFrame
  \/ RefillSocket /\ UNCHANGED <<up, down>>
  \/ \E s \in Streams :
       \/ (GetTunnel(s) \/ DialOk(s)) /\ OpenerFrame
       \/ (LocalRead(s) \/ LocalEof(s)) /\ UpFrame
       \/ DownWritten(s) /\ DownFrame

Next ==
  \/ Writer \/ Reader \/ Keepalive
  \/ \E t \in Tasks : Die(t)
  \/ \E s \in Streams : Opener(s) \/ Uplink(s) \/ Downlink(s)
  \/ Environment

Init ==
  /\ dead = FALSE /\ cause = "none" /\ logged = [t \in Tasks |-> "none"]
  /\ pc = [t \in Tasks |-> IF t = "keepalive" /\ ~PingOn THEN "end" ELSE "top"]
  /\ exitCause = [t \in Tasks |-> "Killed"]
  /\ registry = {} /\ removed = {} /\ inbound = [s \in Streams |-> 0]
  /\ queued = 0
  /\ current = NoStream /\ buffered = 0 /\ bad = 0
  /\ ponged = FALSE
  /\ opener = [s \in Streams |-> "idle"]
  /\ up = [s \in Streams |-> "off"] /\ down = [s \in Streams |-> "off"]

(* tokio polls every ready task again, and timers fire: a task that can    *)
(* move by itself or by a timeout does.  The frame channel serves its      *)
(* waiting senders first in first out, so one that waits for room is not   *)
(* overtaken for ever: strong fairness, for the senders that need it.      *)
Fairness ==
  /\ WF_vars(Writer) /\ SF_vars(Reader) /\ SF_vars(Keepalive)
  /\ \A t \in Tasks : WF_vars(Die(t))
  /\ \A s \in Streams :
       SF_vars(Opener(s)) /\ WF_vars(Uplink(s)) /\ WF_vars(Downlink(s))

Spec == Init /\ [][Next]_vars

FairSpec == Spec /\ Fairness

-----------------------------------------------------------------------------
(* Types, and the bounds of the channels and of the bad-record streak: a   *)
(* streak of MAX_CONSECUTIVE_BAD_RECORDS is never survived.                *)
TypeOK ==
  /\ dead \in BOOLEAN /\ cause \in DeathCause \cup {"none"}
  /\ logged \in [Tasks -> DeathCause \cup {"none"}]
  /\ pc \in [Tasks -> PC]
  /\ exitCause \in [Tasks -> DeathCause]
  /\ registry \subseteq Streams /\ removed \subseteq Streams
  /\ inbound \in [Streams -> 0..InboundCap] /\ queued \in 0..FrameCap
  /\ current \in Streams \cup {NoStream}
  /\ buffered \in 0..MaxBatch /\ bad \in 0..MaxBad
  /\ ponged \in BOOLEAN
  /\ opener \in [Streams -> OpenerPC] /\ up \in [Streams -> UpPC]
  /\ down \in [Streams -> DownPC]

(* The recorded cause is the real one: "Killed", which a loop reports when *)
(* it only noticed the flag, is recorded by a shutdown and nothing else.   *)
KilledMeansShutdown == cause = "Killed" => pc["shutdown"] # "top"

(* No death goes unseen in the logs: whatever the cause, except a          *)
(* shutdown, log_tunnel_death has named it in a line before it is          *)
(* recorded, however the tasks that die together overtake each other.      *)
DeathIsLogged ==
  cause \notin {"none", "Killed"} => \E t \in Tasks : logged[t] = cause

(* A task that only noticed the death another one caused stays silent: "a  *)
(* later waker sees the cause already set" (carrier.rs:590), so no line    *)
(* blames "Killed", not even when it is a shutdown that kills.             *)
FollowersAreSilent == \A t \in Tasks : logged[t] # "Killed"

(* A chunk is answered with CLOSE only for a stream whose entry was once   *)
(* removed or whose receiver is gone, never because it overtook the        *)
(* registration of its own stream.                                         *)
FirstDataHasEntry ==
  pc["reader"] = "echo" => current \in removed \/ ~ReceiverAlive(current)

(* A task that is still going to run close_all.                            *)
WillCloseAll(t) == pc[t] \in Dying \/ (t \in Loops /\ pc[t] \notin {"drop", "end"})

(* No stream outlives the death fan-out: once nobody is left to close      *)
(* streams, none with a pump, running or being dialled, is registered.     *)
NoOrphanStream ==
  (\A t \in Tasks : ~WillCloseAll(t)) =>
    \A s \in registry : opener[s] \notin {"dialing", "pumping"}

(* A killed tunnel drops both halves of its socket, so the peer sees EOF.  *)
KilledTunnelClosesSocket == dead ~> SocketClosed

(* The death of the tunnel reaches the local socket of every stream as a   *)
(* FIN, whatever the stream's pump is doing.                               *)
DeathFanOut ==
  \A s \in Streams : (dead /\ opener[s] = "pumping") ~> (down[s] = "done")

(* A silent peer is detected: if from some point on no PONG is counted     *)
(* after any PING, the tunnel dies.                                        *)
SilentPeerDetected == PingOn => (<>[]~ponged => <>dead)

(* Neither a stalled consumer nor a stalled peer parks the reader for ever *)
(* inside the handling of one record.                                      *)
ReaderNeverWedges ==
  pc["reader"] \in {"deliver", "echo", "pong"} ~> pc["reader"] \in {"dispatch", "end"}

(* Every connection accepted from ss-local, and every OPEN accepted from   *)
(* the peer, is eventually pumped or given up, whatever the tunnel does.   *)
OpenResolves ==
  \A s \in Streams : opener[s] # "idle" ~> opener[s] \in {"pumping", "failed"}

(* Documented: the tunnel closing the stream terminates its pump.          *)
PumpEndsOnDeath ==
  \A s \in Streams : (dead /\ opener[s] = "pumping") ~> (up[s] = "done")

=============================================================================
