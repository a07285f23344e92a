---------------------------- MODULE TunnelProofs ----------------------------
(***************************************************************************)
(* Proofs about Tunnel, for every set of streams, every channel capacity   *)
(* and every bound.                                                        *)
(***************************************************************************)
EXTENDS Tunnel, TLAPS

(* A reader that has not left its loop has not used up its streak.         *)
StreakInv == pc["reader"] \in Running => bad < MaxBad

TypeInv == TypeOK /\ StreakInv

(* The steps of Next, grouped by the process that takes them.              *)
WriterStep == Writer \/ (WriterWritten /\ WriterFrame)

ReaderStep == Reader \/ (RefillSocket /\ UNCHANGED <<up, down>>)

StreamStep(s) ==
  \/ Opener(s) \/ ((GetTunnel(s) \/ DialOk(s)) /\ OpenerFrame)
  \/ Uplink(s) \/ ((LocalRead(s) \/ LocalEof(s)) /\ UpFrame)
  \/ Downlink(s) \/ (DownWritten(s) /\ DownFrame)

LEMMA StepCases ==
  Next <=> \/ WriterStep \/ ReaderStep \/ Keepalive \/ Shutdown
           \/ \E t \in Tasks : Die(t)
           \/ \E s \in Streams : StreamStep(s)
  BY DEF Next, Environment, WriterStep, ReaderStep, StreamStep

-----------------------------------------------------------------------------
LEMMA TypeInit == Init => TypeInv
<1> SUFFICES ASSUME Init PROVE TypeInv
  OBVIOUS
<1>1. pc \in [Tasks -> PC] /\ exitCause \in [Tasks -> DeathCause]
  BY DEF Init, PC, Running, DeathCause
<1>2. opener \in [Streams -> OpenerPC] /\ up \in [Streams -> UpPC]
      /\ down \in [Streams -> DownPC] /\ inbound \in [Streams -> 0..InboundCap]
  BY TunnelAssumption DEF Init, OpenerPC, UpPC, DownPC
<1>3. dead \in BOOLEAN /\ ponged \in BOOLEAN
  BY DEF Init
<1>4. QED
  BY <1>1, <1>2, <1>3, TunnelAssumption DEF Init, TypeInv, TypeOK, StreakInv

LEMMA TypeWriter == TypeInv /\ WriterStep => TypeInv'
  BY TunnelAssumption DEF WriterStep, Writer, WriterTop, WriterSelect, WriterWritten, WriterFails,
     WriterFrame, Exit, Goto, TypeInv, TypeOK, StreakInv, Tasks, Loops, PC, Running,
     Dying, DeathCause, deathVars, registryVars, readerVars, streamVars

LEMMA TypeDie == TypeInv /\ (\E t \in Tasks : Die(t)) => TypeInv'
<1> SUFFICES ASSUME TypeInv, NEW t \in Tasks, Die(t) PROVE TypeInv'
  OBVIOUS
<1> USE DEF TypeInv, TypeOK, StreakInv, PC, Running, Dying, deathVars, registryVars,
            readerVars, streamVars, Goto, Die
<1>1. CASE LogCheck(t)
  BY <1>1 DEF LogCheck
<1>2. CASE LogEmit(t)
  BY <1>2 DEF LogEmit
<1>3. CASE SetCause(t)
  BY <1>3 DEF SetCause, FirstCause, DeathCause
<1>4. CASE SetDead(t)
  BY <1>4 DEF SetDead
<1>5. CASE CloseAll(t)
  BY <1>5 DEF CloseAll
<1>6. CASE Drop(t)
  BY <1>6, TunnelAssumption DEF Drop
<1>7. QED
  BY <1>1, <1>2, <1>3, <1>4, <1>5, <1>6 DEF CauseThenFlag

LEMMA TypeKeepalive == TypeInv /\ (Keepalive \/ Shutdown) => TypeInv'
<1> SUFFICES ASSUME TypeInv, Keepalive \/ Shutdown PROVE TypeInv'
  OBVIOUS
<1> USE DEF TypeInv, TypeOK, StreakInv, Tasks, Loops, PC, Running, Dying, deathVars,
            registryVars, readerVars, streamVars, Goto, Exit, DeathCause, Keepalive
<1>1. CASE KeepaliveTop /\ Keepalive
  BY <1>1 DEF KeepaliveTop
<1>2. CASE KeepaliveSelect /\ Keepalive
  BY <1>2 DEF KeepaliveSelect
<1>3. CASE KeepalivePing /\ Keepalive
  BY <1>3, TunnelAssumption DEF KeepalivePing, SendOk, SendErr
<1>4. CASE KeepaliveGrace /\ Keepalive
  BY <1>4 DEF KeepaliveGrace
<1>5. CASE Shutdown
  BY <1>5 DEF Shutdown
<1>6. QED
  BY <1>1, <1>2, <1>3, <1>4, <1>5

LEMMA TypeStreams ==
  ASSUME TypeInv, NEW s \in Streams,
         StreamStep(s)
  PROVE  TypeInv'
  BY TunnelAssumption DEF StreamStep, Opener, GetTunnel, AcceptRegister, AcceptOpen, AcceptChecked,
     IgnoreOpen, DialOk, DialFails, DialReject, OpenerFrame, Register, Remove, SetOpener,
     StartPump, DropReceiver, BestEffort, SendOk, SendErr, Uplink, LocalRead, LocalEof, UpSend,
     UpClose, UpFrame, Downlink, DownRecv, DownWritten, DownFails, DownFrame, TypeInv,
     TypeOK, StreakInv, OpenerPC, UpPC, DownPC, deathVars, registryVars, readerVars, streamVars

LEMMA TypeReader == TypeInv /\ ReaderStep => TypeInv'
<1> SUFFICES ASSUME TypeInv, ReaderStep PROVE TypeInv'
  OBVIOUS
<1> USE DEF TypeInv, TypeOK, StreakInv, Tasks, Loops, PC, Running, Dying, deathVars,
            registryVars, readerVars, Goto, Exit, DeathCause
<1>1. UNCHANGED <<up, down>>
  BY DEF ReaderStep, Reader
<1>2. CASE ReaderTop
  BY <1>1, <1>2 DEF ReaderTop
<1>3. CASE NoneBuffered
  BY <1>1, <1>3 DEF NoneBuffered
<1>4. ASSUME NEW c \in {"WireCorruption", "BadFrame"}, BadRecord(c) PROVE TypeInv'
  BY <1>1, <1>4, TunnelAssumption DEF BadRecord, TakeRecord
<1>5. ASSUME NEW s \in Streams, OpenFrame(s) PROVE TypeInv'
  BY <1>1, <1>5, TunnelAssumption
     DEF OpenFrame, GoodFrame, TakeRecord, OnOpen, Register, OpenerPC
<1>6. ASSUME NEW s \in Streams, DataFrame(s) PROVE TypeInv'
  BY <1>1, <1>6, TunnelAssumption DEF DataFrame, GoodFrame, TakeRecord
<1>7. ASSUME NEW s \in Streams, CloseFrame(s) PROVE TypeInv'
  BY <1>1, <1>7, TunnelAssumption DEF CloseFrame, GoodFrame, TakeRecord, Remove
<1>8. CASE PingFrame
  BY <1>1, <1>8, TunnelAssumption DEF PingFrame, GoodFrame, TakeRecord
<1>8a. CASE PongFrame
  BY <1>1, <1>8a, TunnelAssumption DEF PongFrame, GoodFrame, TakeRecord
<1>9. ASSUME NEW s \in Streams, Deliver(s) PROVE TypeInv'
  BY <1>1, <1>9, TunnelAssumption DEF Deliver, Delivering, Remove
<1>10. CASE Answer
  BY <1>1, <1>10, TunnelAssumption DEF Answer, BestEffort, SendOk, SendErr
<1>11. CASE RefillDead
  BY <1>1, <1>11 DEF RefillDead
<1>12. CASE RefillSocket
  BY <1>1, <1>12, TunnelAssumption DEF RefillSocket
<1>13. QED
  BY <1>2, <1>3, <1>4, <1>5, <1>6, <1>7, <1>8, <1>8a, <1>9, <1>10, <1>11, <1>12
     DEF ReaderStep, Reader, Dispatch

LEMMA TypeNext == TypeInv /\ [Next]_vars => TypeInv'
<1> SUFFICES ASSUME TypeInv, [Next]_vars PROVE TypeInv'
  OBVIOUS
<1>1. CASE UNCHANGED vars
  BY <1>1 DEF vars, deathVars, registryVars, readerVars, streamVars, TypeInv, TypeOK,
     StreakInv
<1>2. QED
  BY <1>1, StepCases, TypeWriter, TypeReader, TypeDie, TypeKeepalive, TypeStreams

(* Type correctness of one end of the tunnel, with the bounds of its       *)
(* channels: no queue of carrier.rs outgrows its capacity and no streak of *)
(* MAX_CONSECUTIVE_BAD_RECORDS bad records is survived.                    *)
THEOREM TypeCorrect == Spec => []TypeOK
<1>1. TypeInv => TypeOK
  BY DEF TypeInv
<1>2. QED
  BY TypeInit, TypeNext, <1>1, PTL DEF Spec

-----------------------------------------------------------------------------
(* The death protocol.  KilledMeansShutdown, DeathIsLogged and             *)
(* FollowersAreSilent are not inductive: they hold because kill_with       *)
(* records the cause before kill raises the flag, so whoever exits because *)
(* of the flag finds a cause, and because each loop logs the cause it is   *)
(* going to record, once, before it records it.                            *)
DeathInv ==
  /\ dead => cause # "none"
  /\ \A t \in Tasks :
       /\ pc[t] \in {"set_dead", "close_all", "drop"} => cause # "none"
       /\ pc[t] \in {"close_all", "drop"} => dead
  /\ \A t \in Loops : pc[t] = "end" => dead
  /\ \A t \in Tasks \ {"shutdown"} :
       /\ (pc[t] \in {"log_check", "log_emit", "set_cause"} /\ exitCause[t] = "Killed")
            => cause # "none"
       /\ pc[t] = "log_emit" => exitCause[t] # "Killed"
       /\ pc[t] = "set_cause" => (cause # "none" \/ logged[t] = exitCause[t])
       /\ logged[t] # "none" =>
            pc[t] \in {"set_cause", "set_dead", "close_all", "drop", "end"}
  /\ exitCause["shutdown"] = "Killed" /\ logged["shutdown"] = "none"
  /\ pc["shutdown"] \notin {"log_check", "log_emit"}
  /\ KilledMeansShutdown
  /\ DeathIsLogged
  /\ FollowersAreSilent

LEMMA DeathInit == Init => DeathInv
  BY DEF Init, DeathInv, KilledMeansShutdown, DeathIsLogged, FollowersAreSilent, Tasks, Loops

(* A task that stays in its loop disturbs nothing; only the keepalive task *)
(* may return without having killed the tunnel.                            *)
LEMMA DeathGoto ==
  ASSUME TypeInv, DeathInv, NEW t \in Tasks \ {"shutdown"}, pc[t] \in Running, NEW l,
         l \in Running \/ (t = "keepalive" /\ l = "end"),
         Goto(t, l), UNCHANGED deathVars
  PROVE  DeathInv'
  BY DEF TypeInv, TypeOK, Goto, deathVars, DeathInv, KilledMeansShutdown, DeathIsLogged,
     FollowersAreSilent, Tasks, Loops, Running

(* A task that leaves its loop passes on "Killed" only when it saw the     *)
(* flag, and then there is a cause already.                                *)
LEMMA DeathExit ==
  ASSUME TypeInv, DeathInv, NEW t \in Tasks \ {"shutdown"}, pc[t] \in Running,
         NEW c, c = "Killed" => dead, Exit(t, c)
  PROVE  DeathInv'
  BY DEF TypeInv, TypeOK, Exit, Goto, DeathInv, KilledMeansShutdown, DeathIsLogged,
     FollowersAreSilent, Tasks, Loops, Running

LEMMA DeathDie == ASSUME TypeInv, DeathInv, NEW t \in Tasks, Die(t) PROVE DeathInv'
<1> USE DEF TypeInv, TypeOK, Goto, deathVars, DeathInv, KilledMeansShutdown,
            DeathIsLogged, FollowersAreSilent, Tasks, Loops
<1>1. CASE LogCheck(t)
  BY <1>1 DEF LogCheck
<1>2. CASE LogEmit(t)
  BY <1>2 DEF LogEmit
<1>3. CASE SetCause(t)
  BY <1>3 DEF SetCause, FirstCause, DeathCause
<1>4. CASE SetDead(t)
  BY <1>4 DEF SetDead
<1>5. CASE CloseAll(t)
  BY <1>5 DEF CloseAll
<1>6. CASE Drop(t)
  BY <1>6 DEF Drop
<1>7. QED
  BY <1>1, <1>2, <1>3, <1>4, <1>5, <1>6 DEF Die, CauseThenFlag

LEMMA DeathWriter == TypeInv /\ DeathInv /\ WriterStep => DeathInv'
<1> SUFFICES ASSUME TypeInv, DeathInv, WriterStep PROVE DeathInv'
  OBVIOUS
<1>1. \/ \E l \in Running : Goto("writer", l) /\ UNCHANGED deathVars
      \/ \E c : (c = "Killed" => dead) /\ Exit("writer", c)
  BY DEF WriterStep, Writer, WriterTop, WriterSelect, WriterFails, WriterWritten, Running
<1>2. pc["writer"] \in Running
  BY DEF WriterStep, Writer, WriterTop, WriterSelect, WriterFails, WriterWritten, Running
<1>3. QED
  BY <1>1, <1>2, DeathGoto, DeathExit DEF Tasks, Loops

LEMMA DeathKeepalive == TypeInv /\ DeathInv /\ Keepalive => DeathInv'
<1> SUFFICES ASSUME TypeInv, DeathInv, Keepalive PROVE DeathInv'
  OBVIOUS
<1>1. \/ \E l \in Running \cup {"end"} : Goto("keepalive", l) /\ UNCHANGED deathVars
      \/ Exit("keepalive", "KeepaliveTimeout")
  BY DEF Keepalive, KeepaliveTop, KeepaliveSelect, KeepalivePing, KeepaliveGrace, Running
<1>2. pc["keepalive"] \in Running
  BY DEF Keepalive, KeepaliveTop, KeepaliveSelect, KeepalivePing, KeepaliveGrace, Running
<1>3. QED
  BY <1>1, <1>2, DeathGoto, DeathExit DEF Tasks

LEMMA DeathReader == TypeInv /\ DeathInv /\ ReaderStep => DeathInv'
<1> SUFFICES ASSUME TypeInv, DeathInv, ReaderStep PROVE DeathInv'
  OBVIOUS
<1>1. \/ \E l \in Running : Goto("reader", l) /\ UNCHANGED deathVars
      \/ \E c : (c = "Killed" => dead) /\ Exit("reader", c)
      \/ UNCHANGED <<pc, deathVars>>
  BY DEF ReaderStep, Reader, ReaderTop, NoneBuffered, Dispatch, BadRecord, OpenFrame,
     DataFrame, CloseFrame, PingFrame, PongFrame, GoodFrame, Deliver, Answer, RefillDead,
     RefillSocket, Running
<1>2. CASE UNCHANGED <<pc, deathVars>>
  BY <1>2 DEF deathVars, DeathInv, KilledMeansShutdown, DeathIsLogged, FollowersAreSilent
<1>3. pc["reader"] \in Running
  BY DEF ReaderStep, Reader, ReaderTop, NoneBuffered, Dispatch, BadRecord, OpenFrame,
     DataFrame, CloseFrame, PingFrame, PongFrame, GoodFrame, TakeRecord, Deliver,
     Delivering, Answer, RefillDead, RefillSocket, Running
<1>4. QED
  BY <1>1, <1>2, <1>3, DeathGoto, DeathExit DEF Tasks, Loops

LEMMA DeathNext == TypeInv /\ DeathInv /\ [Next]_vars => DeathInv'
<1> SUFFICES ASSUME TypeInv, DeathInv, [Next]_vars PROVE DeathInv'
  OBVIOUS
<1>1. CASE Shutdown
  BY <1>1 DEF Shutdown, Goto, TypeInv, TypeOK, DeathInv, KilledMeansShutdown,
     DeathIsLogged, FollowersAreSilent, Tasks, Loops
<1>2. CASE \E s \in Streams : StreamStep(s)
  <2>1. UNCHANGED <<pc, deathVars>>
    BY <1>2 DEF StreamStep, Opener, OpenerFrame, Uplink, UpFrame, Downlink, DownFrame
  <2>2. QED
    BY <2>1 DEF deathVars, DeathInv, KilledMeansShutdown, DeathIsLogged, FollowersAreSilent
<1>3. CASE UNCHANGED vars
  BY <1>3 DEF vars, deathVars, DeathInv, KilledMeansShutdown, DeathIsLogged, FollowersAreSilent
<1>4. QED
  BY <1>1, <1>2, <1>3, StepCases, DeathWriter, DeathReader, DeathKeepalive, DeathDie

-----------------------------------------------------------------------------
(* No orphans.  A pump is started on the client only while the flag is     *)
(* down, hence (DeathInv) while both loops still have a close_all ahead,   *)
(* and on the server only for streams the reader registered.               *)
OrphanGone(s) == opener[s] \notin {"dialing", "pumping"}

(* What a step must not do: end the last close_all without clearing the    *)
(* registry, or bring a pumped stream into it.                             *)
LEMMA OrphanFrame ==
  ASSUME NoOrphanStream,
         \A t \in Tasks : WillCloseAll(t) => WillCloseAll(t)',
         \A s \in registry' : s \in registry /\ (OrphanGone(s) => OrphanGone(s)')
  PROVE  NoOrphanStream'
  BY DEF NoOrphanStream, OrphanGone

LEMMA OrphanDie ==
  ASSUME TypeInv, NoOrphanStream, NEW t \in Tasks, Die(t) PROVE NoOrphanStream'
<1> USE DEF Die, Goto, TypeInv, TypeOK, registryVars, streamVars
<1>1. CASE CloseAll(t)
  BY <1>1 DEF CloseAll, NoOrphanStream
<1>2. CASE LogCheck(t) \/ LogEmit(t) \/ SetCause(t) \/ SetDead(t) \/ Drop(t)
  <2>1. registry' = registry /\ opener' = opener
    BY <1>2 DEF LogCheck, LogEmit, SetCause, SetDead, Drop
  <2>2. \A u \in Tasks : WillCloseAll(u) => WillCloseAll(u)'
    BY <1>2 DEF LogCheck, LogEmit, SetCause, SetDead, Drop, WillCloseAll, Dying
  <2>3. QED
    BY <2>1, <2>2, OrphanFrame DEF OrphanGone
<1>3. QED
  BY <1>1, <1>2 DEF CauseThenFlag

LEMMA OrphanLoops ==
  TypeInv /\ NoOrphanStream /\ (WriterStep \/ Keepalive \/ Shutdown) => NoOrphanStream'
<1> SUFFICES ASSUME TypeInv, NoOrphanStream, WriterStep \/ Keepalive \/ Shutdown
             PROVE  NoOrphanStream'
  OBVIOUS
<1>1. registry' = registry /\ opener' = opener
  BY DEF WriterStep, Writer, WriterFrame, Keepalive, Shutdown, registryVars, streamVars
<1>2. \A t \in Tasks : WillCloseAll(t) => WillCloseAll(t)'
  BY DEF WriterStep, Writer, WriterTop, WriterSelect, WriterWritten, WriterFails, Keepalive,
     KeepaliveTop, KeepaliveSelect, KeepalivePing, KeepaliveGrace, Shutdown, Exit, Goto,
     WillCloseAll, Dying, Tasks, Loops, TypeInv, TypeOK, deathVars
<1>3. QED
  BY <1>1, <1>2, OrphanFrame DEF OrphanGone

(* The reader has its own close_all ahead, whatever it registers.          *)
LEMMA OrphanReader == TypeInv /\ NoOrphanStream /\ ReaderStep => NoOrphanStream'
<1> SUFFICES ASSUME TypeInv, ReaderStep PROVE WillCloseAll("reader")'
  BY DEF NoOrphanStream, Tasks, Loops
<1>1. pc["reader"] \in Running
  BY DEF ReaderStep, Reader, ReaderTop, NoneBuffered, Dispatch, BadRecord, OpenFrame,
     DataFrame, CloseFrame, PingFrame, PongFrame, GoodFrame, TakeRecord, Deliver, Delivering,
     Answer, RefillDead, RefillSocket, Running
<1>2. \/ \E l \in Running \cup {"log_check"} : Goto("reader", l)
      \/ UNCHANGED pc
  BY DEF ReaderStep, Reader, ReaderTop, NoneBuffered, Dispatch, BadRecord, OpenFrame,
     DataFrame, CloseFrame, PingFrame, PongFrame, GoodFrame, Deliver, Answer, RefillDead,
     RefillSocket, Exit, Running
<1>3. QED
  BY <1>1, <1>2 DEF Goto, WillCloseAll, Running, Loops, Tasks, TypeInv, TypeOK

LEMMA OrphanStreams ==
  ASSUME TypeInv, DeathInv, NoOrphanStream, NEW s \in Streams, StreamStep(s)
  PROVE  NoOrphanStream'
<1>1. \A t \in Tasks : WillCloseAll(t) => WillCloseAll(t)'
  BY DEF StreamStep, Opener, OpenerFrame, Uplink, UpFrame, Downlink, DownFrame, WillCloseAll
<1>2. CASE AcceptRegister(s) /\ OpenerFrame
  BY <1>2, <1>1 DEF AcceptRegister, Register, SetOpener, NoOrphanStream, TypeInv, TypeOK
<1>3. CASE AcceptChecked(s) /\ OpenerFrame
  <2>1. CASE dead
    BY <2>1, <1>1, <1>3 DEF AcceptChecked, SetOpener, NoOrphanStream, TypeInv, TypeOK,
       registryVars
  <2>2. CASE ~dead
    BY <2>2, <1>1 DEF DeathInv, NoOrphanStream, WillCloseAll, Tasks, Loops
  <2>3. QED
    BY <2>1, <2>2
<1>4. CASE \/ /\ \/ AcceptOpen(s) \/ IgnoreOpen(s) \/ DialFails(s) \/ DialReject(s)
                 \/ GetTunnel(s) \/ DialOk(s)
              /\ OpenerFrame
           \/ Uplink(s) \/ ((LocalRead(s) \/ LocalEof(s)) /\ UpFrame)
           \/ Downlink(s) \/ (DownWritten(s) /\ DownFrame)
  <2>1. registry' \subseteq registry
    BY <1>4 DEF AcceptOpen, IgnoreOpen, DialFails, DialReject, GetTunnel, DialOk, Uplink,
       UpFrame, Downlink, DownFrame, Remove, registryVars
  <2>2. \A r \in registry : OrphanGone(r) => OrphanGone(r)'
    BY <1>4 DEF AcceptOpen, IgnoreOpen, DialFails, DialReject, GetTunnel, DialOk, StartPump,
       SetOpener, Uplink, UpFrame, Downlink, DownFrame, OrphanGone, TypeInv, TypeOK
  <2>3. QED
    BY <2>1, <2>2, <1>1, OrphanFrame
<1>5. QED
  BY <1>2, <1>3, <1>4 DEF StreamStep, Opener

LEMMA OrphanNext == TypeInv /\ DeathInv /\ NoOrphanStream /\ [Next]_vars => NoOrphanStream'
<1> SUFFICES ASSUME TypeInv, DeathInv, NoOrphanStream, [Next]_vars PROVE NoOrphanStream'
  OBVIOUS
<1>1. CASE UNCHANGED vars
  BY <1>1 DEF vars, registryVars, streamVars, NoOrphanStream, WillCloseAll
<1>2. QED
  BY <1>1, StepCases, OrphanLoops, OrphanReader, OrphanDie, OrphanStreams

-----------------------------------------------------------------------------
(* The first chunk of a stream finds its entry: both ends register before  *)
(* the peer can know the stream (EverRegistered), and a receiver that is   *)
(* gone never comes back for a stream the peer knows.                      *)
EverRegistered ==
  \A s \in Streams : opener[s] \notin {"idle", "got"} => s \in registry \cup removed

HoldsAnnounced ==
  pc["reader"] \in {"deliver", "echo"} => current \in Streams /\ Announced(current)

EntryInv == EverRegistered /\ HoldsAnnounced /\ FirstDataHasEntry

LEMMA EntryInit == Init => EntryInv
  BY DEF Init, EntryInv, EverRegistered, HoldsAnnounced, FirstDataHasEntry, Tasks, Loops

(* A step of another task: what the reader holds stays true if no entry is *)
(* forgotten, no stream becomes unknown and no lost receiver revives.      *)
LEMMA EntryFrame ==
  ASSUME EntryInv, UNCHANGED <<pc["reader"], current>>,
         registry \cup removed \subseteq registry' \cup removed', removed \subseteq removed',
         \A s \in Streams :
           /\ opener'[s] \notin {"idle", "got"} =>
                opener[s] \notin {"idle", "got"} \/ s \in registry'
           /\ Announced(s) => Announced(s)'
           /\ (Announced(s) /\ ~ReceiverAlive(s)) => ~ReceiverAlive(s)'
  PROVE  EntryInv'
  BY DEF EntryInv, EverRegistered, HoldsAnnounced, FirstDataHasEntry

LEMMA EntryTasks ==
  ASSUME TypeInv, EntryInv,
         WriterStep \/ Keepalive \/ Shutdown \/ \E t \in Tasks : Die(t)
  PROVE  EntryInv'
<1>1. CASE WriterStep \/ Keepalive \/ Shutdown
  <2>1. pc'["reader"] = pc["reader"]
    BY <1>1 DEF WriterStep, Writer, WriterTop, WriterSelect, WriterWritten, WriterFails,
       Keepalive, KeepaliveTop, KeepaliveSelect, KeepalivePing, KeepaliveGrace, Shutdown,
       Exit, Goto, Tasks, Loops, TypeInv, TypeOK
  <2>2. UNCHANGED <<registry, removed, current, opener, down>>
    BY <1>1 DEF WriterStep, Writer, WriterFrame, Keepalive, Shutdown, registryVars,
       readerVars, streamVars
  <2>3. QED
    BY <2>1, <2>2 DEF EntryInv, EverRegistered, HoldsAnnounced, FirstDataHasEntry, Announced,
       ReceiverAlive
<1>2. ASSUME NEW t \in Tasks, Die(t) PROVE EntryInv'
  <2>1. UNCHANGED <<current, opener, down>> /\ removed \subseteq removed'
        /\ registry \cup removed = registry' \cup removed'
    BY <1>2 DEF Die, LogCheck, LogEmit, CauseThenFlag, SetCause, SetDead, CloseAll, Drop,
       registryVars, readerVars, streamVars
  <2>2. pc'["reader"] \in {"deliver", "echo"} => pc'["reader"] = pc["reader"]
    BY <1>2 DEF Die, LogCheck, LogEmit, CauseThenFlag, SetCause, SetDead, CloseAll, Drop,
       Goto, Tasks, Loops, TypeInv, TypeOK
  <2>3. QED
    BY <2>1, <2>2 DEF EntryInv, EverRegistered, HoldsAnnounced, FirstDataHasEntry, Announced,
       ReceiverAlive
<1>3. QED
  BY <1>1, <1>2

LEMMA EntryReader == TypeInv /\ EntryInv /\ ReaderStep => EntryInv'
<1> SUFFICES ASSUME TypeInv, EntryInv, ReaderStep PROVE EntryInv'
  OBVIOUS
<1> USE DEF EntryInv, EverRegistered, HoldsAnnounced, FirstDataHasEntry, Goto, TypeInv,
            TypeOK, Tasks, Loops, registryVars, readerVars
<1>1. CASE ReaderTop \/ NoneBuffered \/ RefillDead \/ RefillSocket
  BY <1>1 DEF ReaderTop, NoneBuffered, RefillDead, RefillSocket, Exit
<1>2. ASSUME NEW c, BadRecord(c) PROVE EntryInv'
  BY <1>2 DEF BadRecord, TakeRecord, Exit
<1>3. ASSUME NEW s \in Streams, OpenFrame(s) PROVE EntryInv'
  BY <1>3 DEF OpenFrame, GoodFrame, TakeRecord, OnOpen, Register
<1>4. ASSUME NEW s \in Streams, DataFrame(s) PROVE EntryInv'
  BY <1>4 DEF DataFrame, GoodFrame, TakeRecord, Announced
<1>5. ASSUME NEW s \in Streams, CloseFrame(s) PROVE EntryInv'
  BY <1>5 DEF CloseFrame, GoodFrame, TakeRecord, Remove
<1>6. CASE PingFrame \/ PongFrame
  BY <1>6 DEF PingFrame, PongFrame, GoodFrame, TakeRecord
<1>7. ASSUME NEW s \in Streams, Deliver(s) PROVE EntryInv'
  BY <1>7 DEF ReaderStep, Reader, Deliver, Delivering, Remove, Announced, ReceiverAlive
<1>8. CASE Answer
  BY <1>8 DEF Answer
<1>9. QED
  BY <1>1, <1>2, <1>3, <1>4, <1>5, <1>6, <1>7, <1>8 DEF ReaderStep, Reader, Dispatch

LEMMA EntryStreams ==
  ASSUME TypeInv, EntryInv, NEW s \in Streams, StreamStep(s) PROVE EntryInv'
<1>1. UNCHANGED <<pc["reader"], current>>
  BY DEF StreamStep, Opener, OpenerFrame, Uplink, UpFrame, Downlink, DownFrame, readerVars
<1>2. registry \cup removed \subseteq registry' \cup removed' /\ removed \subseteq removed'
  BY DEF StreamStep, Opener, AcceptRegister, AcceptOpen, AcceptChecked, IgnoreOpen,
     DialFails, DialReject, GetTunnel, DialOk, Uplink, UpFrame, Downlink, DownFrame, Register,
     Remove, registryVars
<1>3. \A r \in Streams :
        opener'[r] \notin {"idle", "got"} =>
          opener[r] \notin {"idle", "got"} \/ r \in registry'
  BY DEF StreamStep, Opener, AcceptRegister, AcceptOpen, AcceptChecked, IgnoreOpen,
     DialFails, DialReject, GetTunnel, DialOk, Uplink, UpFrame, Downlink, DownFrame, Register,
     SetOpener, StartPump, TypeInv, TypeOK
<1>4. \A r \in Streams : Announced(r) => Announced(r)'
  BY DEF StreamStep, Opener, AcceptRegister, AcceptOpen, AcceptChecked, IgnoreOpen,
     DialFails, DialReject, GetTunnel, DialOk, Uplink, UpFrame, Downlink, DownFrame,
     SetOpener, StartPump, Announced, TypeInv, TypeOK
<1>5. \A r \in Streams : (Announced(r) /\ ~ReceiverAlive(r)) => ~ReceiverAlive(r)'
  BY DEF StreamStep, Opener, AcceptRegister, AcceptOpen, AcceptChecked, IgnoreOpen,
     DialFails, DialReject, GetTunnel, DialOk, Uplink, UpFrame, Downlink, DownRecv, DownWritten,
     DownFails, DownFrame, SetOpener, StartPump, Announced, ReceiverAlive, TypeInv, TypeOK
<1>6. QED
  BY <1>1, <1>2, <1>3, <1>4, <1>5, EntryFrame

LEMMA EntryNext == TypeInv /\ EntryInv /\ [Next]_vars => EntryInv'
<1> SUFFICES ASSUME TypeInv, EntryInv, [Next]_vars PROVE EntryInv'
  OBVIOUS
<1>1. CASE UNCHANGED vars
  BY <1>1 DEF vars, registryVars, readerVars, streamVars, EntryInv, EverRegistered,
     HoldsAnnounced, FirstDataHasEntry, Announced, ReceiverAlive
<1>2. QED
  BY <1>1, StepCases, EntryTasks, EntryReader, EntryStreams

-----------------------------------------------------------------------------
(* The whole inductive invariant.                                          *)
IInv == TypeInv /\ DeathInv /\ NoOrphanStream /\ EntryInv

LEMMA Inductive == Spec => []IInv
<1>1. Init => NoOrphanStream
  BY DEF Init, NoOrphanStream
<1>2. Init => IInv
  BY <1>1, TypeInit, DeathInit, EntryInit DEF IInv
<1>3. IInv /\ [Next]_vars => IInv'
  BY TypeNext, DeathNext, OrphanNext, EntryNext DEF IInv
<1>4. QED
  BY <1>2, <1>3, PTL DEF Spec

(* The cause recorded at the first kill is the real one, "Killed" only     *)
(* after a shutdown: carrier.rs' "the cause is theirs; do not overwrite    *)
(* it" holds however the loops race.                                       *)
THEOREM CauseIsReal == Spec => []KilledMeansShutdown
<1>1. IInv => KilledMeansShutdown
  BY DEF IInv, DeathInv
<1>2. QED
  BY Inductive, <1>1, PTL

(* Every death but a shutdown is in the logs by the time its cause is      *)
(* recorded (log_tunnel_death: "always visible in the logs").              *)
THEOREM DeathAlwaysLogged == Spec => []DeathIsLogged
<1>1. IInv => DeathIsLogged
  BY DEF IInv, DeathInv
<1>2. QED
  BY Inductive, <1>1, PTL

(* Of the tasks that die together none logs a death it only noticed: what  *)
(* log_tunnel_death checks is set by the time the flag wakes anyone.       *)
THEOREM FollowersLogNothing == Spec => []FollowersAreSilent
<1>1. IInv => FollowersAreSilent
  BY DEF IInv, DeathInv
<1>2. QED
  BY Inductive, <1>1, PTL

(* No stream survives the death fan-out of kill, on either end, however    *)
(* registrations race with the kills.                                      *)
THEOREM NoOrphans == Spec => []NoOrphanStream
<1>1. IInv => NoOrphanStream
  BY DEF IInv
<1>2. QED
  BY Inductive, <1>1, PTL

(* No chunk is refused because it overtook the registration of its stream. *)
THEOREM FirstDataDelivered == Spec => []FirstDataHasEntry
<1>1. IInv => FirstDataHasEntry
  BY DEF IInv, EntryInv
<1>2. QED
  BY Inductive, <1>1, PTL

=============================================================================
