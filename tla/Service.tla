------------------------------ MODULE Service -------------------------------
(***************************************************************************)
(* Who dials, keeps and ends tunnels: TunnelManager of src/client.rs with  *)
(* the connections it serves, and serve of src/server.rs with its          *)
(* connection tasks and its shutdown.                                      *)
(*                                                                         *)
(* Dials are numbered; tunnel t is what became of dial t at either end.    *)
(* What a tunnel carries is left to Tunnel and Mux, and what happens in a  *)
(* handshake to Handshake: here the client's end of a dial is dialing, up  *)
(* or dead, and the server's is a connection task and perhaps a tunnel.    *)
(***************************************************************************)
EXTENDS Naturals, Sequences, FiniteSets

CONSTANTS
  Conns,     \* connections accepted from ss-local
  Stoppable  \* serve may be told to shut down (run never does)

ASSUME ServiceAssumption == IsFiniteSet(Conns) /\ Stoppable \in BOOLEAN

Attempts == 2                                 \* for _attempt in 0..2
Dials == 1..(Attempts * Cardinality(Conns))   \* no connection dials more often

VARIABLES
  conn,      \* where accept_connection stands
  failures,  \* the dials or tunnels that failed a connection, in order
  using,     \* the dial or tunnel a connection works with
  mutex,     \* the connections at the mutex, its holder first (tokio is FIFO)
  current,   \* TunnelManager::current, 0 for None
  dials,     \* how many dials were begun
  near,      \* the client's end of each dial
  far,       \* where the server's handle_conn of each dial stands
  up,        \* the server's tunnels that are not dead
  live,      \* the server's list of tunnels
  serving,   \* where serve stands
  doomed,    \* the tunnels drained from the list alive, still to be killed
  settled    \* history: those handle_conn had listed by then, still alive

clientVars == <<conn, failures, using, mutex, current, dials>>
serverVars == <<up, live, serving, doomed, settled>>
vars == <<clientVars, near, far, serverVars>>

TypeOK ==
  /\ conn \in [Conns -> {"idle", "locking", "dialing", "opening", "pumping", "failed"}]
  /\ failures \in [Conns -> UNION {[1..n -> Dials] : n \in 0..Attempts}]
  /\ using \in [Conns -> {0} \cup Dials]
  /\ mutex \in UNION {[1..n -> Conns] : n \in 0..Cardinality(Conns)}
  /\ current \in {0} \cup Dials /\ dials \in {0} \cup Dials
  /\ near \in [Dials -> {"none", "dialing", "up", "dead"}]
  /\ far \in [Dials -> {"none", "handshake", "spawned", "listed", "closed"}]
  /\ up \subseteq Dials /\ live \subseteq Dials
  /\ doomed \subseteq Dials /\ settled \subseteq Dials
  /\ serving \in {"accepting", "killing", "stopped"}

Init ==
  /\ conn = [c \in Conns |-> "idle"]
  /\ failures = [c \in Conns |-> <<>>]
  /\ using = [c \in Conns |-> 0]
  /\ mutex = <<>> /\ current = 0 /\ dials = 0
  /\ near = [t \in Dials |-> "none"]
  /\ far = [t \in Dials |-> "none"]
  /\ up = {} /\ live = {} /\ doomed = {} /\ settled = {}
  /\ serving = "accepting"

-----------------------------------------------------------------------------
(* The client: run accepts, each connection is a task.                     *)
Accept(c) ==
  /\ conn[c] = "idle"
  /\ conn' = [conn EXCEPT ![c] = "locking"]
  /\ mutex' = Append(mutex, c)
  /\ UNCHANGED <<failures, using, current, dials, near, far, serverVars>>

Holds(c) == mutex # <<>> /\ Head(mutex) = c /\ conn[c] = "locking"

(* The mutex without c, if c holds it.                                     *)
Released(c) == IF mutex # <<>> /\ Head(mutex) = c THEN Tail(mutex) ELSE mutex

(* Whatever is cached will do.                                             *)
CachedAny == current # 0

Cached == current # 0 /\ near[current] = "up"

TakeCached(c) ==
  /\ Holds(c) /\ Cached
  /\ mutex' = Released(c)
  /\ conn' = [conn EXCEPT ![c] = "opening"]
  /\ using' = [using EXCEPT ![c] = current]
  /\ UNCHANGED <<failures, current, dials, near, far, serverVars>>

(* Connection c dials, with queue left at the mutex.                       *)
Dialing(c, queue) ==
  /\ Holds(c) /\ ~Cached
  /\ dials' = dials + 1
  /\ conn' = [conn EXCEPT ![c] = "dialing"]
  /\ near' = [near EXCEPT ![dials + 1] = "dialing"]
  /\ using' = [using EXCEPT ![c] = dials + 1]
  /\ mutex' = queue
  /\ UNCHANGED <<failures, current, far, serverVars>>

(* The mutex is released for the dial.                                     *)
DialBeginsUnlocked(c) == Dialing(c, Released(c))

(* The guard of the mutex lives across dial().await.                       *)
DialBegins(c) == Dialing(c, mutex)

DialOk(c) ==
  /\ conn[c] = "dialing" /\ far[using[c]] \in {"spawned", "listed"}
  /\ near' = [near EXCEPT ![using[c]] = "up"]
  /\ current' = using[c]
  /\ conn' = [conn EXCEPT ![c] = "opening"]
  /\ mutex' = Released(c)
  /\ UNCHANGED <<failures, using, dials, far, serverVars>>

(* One attempt more than 0..2 makes.                                       *)
AttemptFailsMore(c) ==
  /\ failures' = [failures EXCEPT ![c] = Append(@, using[c])]
  /\ IF Len(failures[c]) < Attempts
     THEN conn' = [conn EXCEPT ![c] = "locking"] /\ mutex' = Append(Released(c), c)
     ELSE conn' = [conn EXCEPT ![c] = "failed"] /\ mutex' = Released(c)

(* The attempt failed: back to the mutex, behind the others, or give up.   *)
AttemptFails(c) ==
  /\ failures' = [failures EXCEPT ![c] = Append(@, using[c])]
  /\ IF Len(failures[c]) + 1 < Attempts
     THEN conn' = [conn EXCEPT ![c] = "locking"] /\ mutex' = Append(Released(c), c)
     ELSE conn' = [conn EXCEPT ![c] = "failed"] /\ mutex' = Released(c)

(* The dial ends only if the server ends it.                               *)
DialFailsUntimed(c) ==
  /\ conn[c] = "dialing" /\ far[using[c]] = "closed"
  /\ near' = [near EXCEPT ![using[c]] = "dead"]
  /\ AttemptFails(c)
  /\ UNCHANGED <<using, current, dials, far, serverVars>>

(* Refused, closed by the server, rejected, or dial_timeout.               *)
DialFails(c) ==
  /\ conn[c] = "dialing"
  /\ near' = [near EXCEPT ![using[c]] = "dead"]
  /\ AttemptFails(c)
  /\ UNCHANGED <<using, current, dials, far, serverVars>>

(* The stream is opened and the pump spawned; accept_connection returns.   *)
OpenOk(c) ==
  /\ conn[c] = "opening" /\ near[using[c]] = "up"
  /\ conn' = [conn EXCEPT ![c] = "pumping"]
  /\ using' = [using EXCEPT ![c] = 0]
  /\ failures' = [failures EXCEPT ![c] = <<>>]
  /\ UNCHANGED <<mutex, current, dials, near, far, serverVars>>

(* open failed, or the tunnel was dead once the OPEN was queued.           *)
OpenFails(c) ==
  /\ conn[c] = "opening" /\ near[using[c]] = "dead"
  /\ AttemptFails(c)
  /\ UNCHANGED <<using, current, dials, near, far, serverVars>>

(* Of any cause Tunnel models.                                             *)
NearDies(t) ==
  /\ near[t] = "up"
  /\ near' = [near EXCEPT ![t] = "dead"]
  /\ UNCHANGED <<clientVars, far, serverVars>>

-----------------------------------------------------------------------------
(* The server: serve accepts, each connection is a task of a JoinSet. (A   *)
(* connection given up in the backlog can only fail the handshake.)        *)
ServerAccepts(t) ==
  /\ serving = "accepting" /\ near[t] = "dialing" /\ far[t] = "none"
  /\ far' = [far EXCEPT ![t] = "handshake"]
  /\ UNCHANGED <<clientVars, near, serverVars>>

(* OK is written and the tunnel spawned, whose tasks run from now on. The  *)
(* client may have timed out since it sent its AUTH.                       *)
HandshakeOk(t) ==
  /\ far[t] = "handshake"
  /\ far' = [far EXCEPT ![t] = "spawned"]
  /\ up' = up \cup {t}
  /\ UNCHANGED <<clientVars, near, live, serving, doomed, settled>>

(* The list forgets the tunnels that are alive.                            *)
RetainedDead == live \ up

Retained == live \cap up

(* The tunnel is listed under the lock; serve may have drained the list    *)
(* since it was spawned, and then nobody reads what is added to it.        *)
ListTunnel(t) ==
  /\ far[t] = "spawned"
  /\ far' = [far EXCEPT ![t] = "listed"]
  /\ live' = IF serving = "accepting" THEN Retained \cup {t} ELSE live
  /\ UNCHANGED <<clientVars, near, up, serving, doomed, settled>>

(* Closed, rejected, or the timeout of server_handshake.                   *)
HandshakeFails(t) ==
  /\ far[t] = "handshake"
  /\ far' = [far EXCEPT ![t] = "closed"]
  /\ UNCHANGED <<clientVars, near, serverVars>>

(* Killing a dead tunnel does nothing, so the doomed are those alive.      *)
Dies(t) ==
  /\ up' = up \ {t} /\ doomed' = doomed \ {t} /\ settled' = settled \ {t}
  /\ UNCHANGED <<clientVars, near, far, live, serving>>

(* Of any cause Tunnel models, the reader's EOF one of them.               *)
FarDies(t) == t \in up /\ Dies(t)

-----------------------------------------------------------------------------
(* The shutdown of serve: the loop breaks and the list is drained.         *)
Shutdown ==
  /\ Stoppable /\ serving = "accepting"
  /\ serving' = "killing"
  /\ doomed' = live \cap up
  /\ live' = {}
  /\ settled' = {t \in up : far[t] = "listed"}
  /\ UNCHANGED <<clientVars, near, far, up>>

Kill(t) == serving = "killing" /\ t \in doomed /\ Dies(t)

(* An abort takes a task at an await; past OK handle_conn has none, and    *)
(* the tasks of its tunnel are not in the JoinSet.                         *)
AbortAll ==
  /\ serving = "killing" /\ doomed = {}
  /\ serving' = "stopped"
  /\ far' = [t \in Dials |-> IF far[t] = "handshake" THEN "closed" ELSE far[t]]
  /\ UNCHANGED <<clientVars, near, up, live, doomed, settled>>

Next ==
  \/ \E c \in Conns :
       \/ Accept(c) \/ TakeCached(c) \/ DialBegins(c) \/ DialOk(c)
       \/ DialFails(c) \/ OpenOk(c) \/ OpenFails(c)
  \/ \E t \in Dials :
       \/ NearDies(t) \/ ServerAccepts(t) \/ HandshakeOk(t)
       \/ ListTunnel(t) \/ HandshakeFails(t) \/ FarDies(t) \/ Kill(t)
  \/ Shutdown \/ AbortAll

Spec == Init /\ [][Next]_vars

(* The task of a connection moves when it can; a dial can at any time, by  *)
(* its deadline at the latest.                                             *)
Fairness ==
  \A c \in Conns :
    WF_vars(\/ TakeCached(c) \/ DialBegins(c) \/ DialOk(c) \/ DialFails(c)
            \/ OpenOk(c) \/ OpenFails(c))

FairSpec == Spec /\ Fairness

-----------------------------------------------------------------------------
(* The client never holds two live tunnels, however many connections find  *)
(* the cached one dead: "only one dial at a time" (client.rs:61).          *)
OneLiveTunnel ==
  \A s, t \in Dials : near[s] = "up" /\ near[t] = "up" => s = t

(* A connection is given up only after two different dials or tunnels      *)
(* failed it: "the retry dials fresh" (client.rs:128), also when the       *)
(* tunnel that died under it was dialed by another connection.             *)
RetryIsFresh ==
  \A c \in Conns : conn[c] = "failed" =>
    \E s, t \in Dials : s # t /\ failures[c] = <<s, t>>

(* The shutdown reaches every tunnel that handle_conn had listed by then,  *)
(* whatever died, was cleaned out of the list or was listed after it: none *)
(* of them outlives serve.                                                 *)
StopKillsListed == serving = "stopped" => up \cap settled = {}

(* Every accepted connection gets its stream or is given up, though        *)
(* tunnels die and the server may stop answering at any time.              *)
ConnectionResolves ==
  \A c \in Conns : conn[c] = "locking" ~> conn[c] \in {"pumping", "failed"}
=============================================================================
