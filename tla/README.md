# TLA+ verification of qeli-ss-plugin

qeli-ss-plugin is a SIP003 plugin for shadowsocks. The client side accepts local
TCP connections from `ss-local` and carries all of them, as multiplexed streams,
over one long-lived encrypted TCP connection (the *tunnel*) to the server side,
which connects each stream to `ss-server`. This directory models the part of it
that carries its own logic: the tunnel and its streams, who dials and keeps tunnels,
the handshake, the wire format, and how a process gets its configuration.

## Inventory

| component | state it keeps | operations | hard behaviour | what makes it correct |
|---|---|---|---|---|
| tunnel core, `carrier.rs` (`Tunnel`, `writer_loop`, `reader_loop`, `keepalive_loop`) | dead flag, death cause, frame queue, record buffer, bad-record streak, PONG counter | `spawn_tunnel`, `kill`, `kill_with`, `log_tunnel_death`, one loop per task | three tasks and a shutdown kill in any order; blocking sends; timeouts | one real cause, logged; every stream closed; both socket halves dropped; the reader never parked for good |
| stream registry, `carrier.rs` | id to inbound sender | `register`, `deliver`, `remove`, `close_all` | registrations race with the death fan-out; a full channel holds up the shared reader | no orphan, no chunk before its entry |
| stream pump, `carrier.rs` | a local socket, an inbound receiver | uplink, downlink, `WriteFin` | half-close; stalled local sockets | FIN reaches the local side; bytes arrive in order |
| tunnel manager, `client.rs` | the cached tunnel behind a mutex | `tunnel`, `dial`, `accept_connection` | the tunnel dies between check and use; retries; serialised dials | a connection is pumped or failed; at most one live tunnel |
| server, `server.rs` | list of live tunnels | `serve`, `handle_conn`, `on_open`, shutdown | a handshake that ends during shutdown; a dial that outlasts its tunnel | no tunnel listed before a shutdown survives it |
| handshake, `handshake.rs` | a `RecordReader`, transcript and keys | `client_handshake`, `server_handshake` | timeouts; bytes read past the last message | both ends agree; no byte is lost at the handover |
| mux codec and `RecordBuf`, `mux.rs`, `carrier.rs` | byte buffer and cursor | `encode_into`, `decode`, `push`, `take_record` | arbitrary chunking | round trip; independence of chunking |
| options, `opts.rs`, and command line, `main.rs` | arguments read, options parsed so far | argument loop, `parse_plugin_opts`, `parse_standalone_config`, `resolve` | escapes, precedence of sources, a role turned around | the process runs with what was written, or not at all |

Interaction. The pumps and the openers send frames through one bounded channel to
the writer task. The reader task dispatches the peer's records: it registers
streams, delivers chunks through one bounded channel per stream, removes entries,
and answers PING and undeliverable DATA through the same frame channel. Whoever
detects a failure calls `kill_with`, which records a cause, raises a watch flag
the other tasks select on, and clears the registry; a cleared entry closes the
inbound channel of its pump, which then sends FIN to its local socket.

## Modules

| module | models | used with |
|---|---|---|
| `Tunnel` | one end of a tunnel, client or server: its tasks, blocking points and death | `MCTunnel`, `TunnelProofs` |
| `Keepalive` | the timing of `keepalive_loop`, writer and reader, on a link that takes time | `MCKeepalive`, `KeepaliveProofs` |
| `Pipe` | abstract: a byte pipe per direction of a stream, closable, breakable | instantiated by `Mux` |
| `Mux` | both ends of a tunnel and the streams between them, with what they carry | `MCMux`, `MuxProofs` |
| `Service` | `TunnelManager` with its connections, `serve` with its connection tasks and shutdown | `MCService`, `ServiceProofs` |
| `Handshake` | both sides of the handshake, the handover, the server's first PING | `MCHandshake`, `HandshakeProofs` |
| `Wire` | the frame codec and `RecordBuf`, on bytes | `MCWire`, `WireProofs` |
| `Config` | `main`, `plugin_opts` and the config file, down to the call of `run` | `MCConfig`, `ConfigProofs` |
| `SeqLemmas` | nothing of the code: induction, recursive functions and parts of sequences | `WireProofs`, `ConfigProofs` |

The modules divide the system by question and meet at named points. `Tunnel` has
every await of one end but no payloads; `Mux` joins two ends and has payloads, and
folds the death that `Tunnel` details into one action `Dies`. `Service` treats a
tunnel as up or dead and a handshake as a task that ends well or not; what happens
inside is `Handshake`. `Wire` justifies the frames and records that the others
take as units.

### How Tunnel corresponds to the code

| variable | in the code |
|---|---|
| `dead`, `cause` | `Tunnel::dead_tx`, `Tunnel::cause` |
| `logged[t]` | the cause named in the "tunnel down" line of task `t`, if it wrote one |
| `pc`, `exitCause` | the position of each task, and the cause it will pass to `kill_with` |
| `registry`, `removed` | the keys of `StreamRegistry::streams`; `removed` is a history variable |
| `inbound[s]`, `queued` | fill levels of a stream's inbound channel and of the frame channel |
| `current`, `buffered`, `bad` | what the reader holds, the complete records in `RecordBuf`, `bad_streak` |
| `ponged` | `pongs() > before` of `keepalive_loop` |
| `opener[s]` | progress of `accept_connection` (client) or `on_open` (server) |
| `up[s]`, `down[s]` | the two halves of `pump_stream` |

Each lock section, flag write, channel operation and await is a step of its own.
A task that leaves its loop goes through `log_check`, `log_emit`, `set_cause`,
`set_dead`, `close_all` and `drop`, the steps of `log_tunnel_death`, `kill_with`,
`kill` and the return; the keepalive task may also return without killing.
Payloads are not modelled, and what the peer sends next is chosen when the record
is dispatched. A timeout may fire whenever the operation it bounds is pending,
since the model has no clock.

The peer is assumed to run the same program: an OPEN names a fresh id, and DATA
and CLOSE name streams that were announced. A client that receives an OPEN is
modelled (`OnOpen`, `IgnoreOpen`). Ids do not wrap, and an id is never opened twice.

### How Keepalive corresponds to the code

`Tunnel` has no clock, so it says that a silent peer is detected but not when.
`Keepalive` keeps only what the timing depends on: the ticker (`due`), the sleep
(`grace`), the comparison with `before` (`ponged`), the frame channel (`frames`)
with PINGs, answers and other frames, the write in progress and its timeout
(`writing`, `writeLeft`), the record in the reader's hands and the stall timeout
(`reader`, `stallLeft`), and whether the stream is still registered. `stuck` says
that the stream's inbound channel is full and its consumer is not reading. Steps take
no time; `Pass` advances every timer by one unit and is enabled only when no task can
move and no timer is due, since tokio runs ready tasks at once. A tick that comes late
is followed by a whole period (`MissedTickBehavior::Delay`).

`frames` is the channel and, behind its `FrameCap` places, the senders that wait for
room, in the order in which they asked, as tokio's channel serves them. `KaPing` and
`ReaderAnswer` join the line; `KaSent` and `ReaderSent` go on once their frame is
within the capacity (`Placed`). So the grace begins when the channel has the PING,
long before it is written if the channel is full, and the reader takes no record while
its answer waits. Uplinks join while fewer than `MaxWaiting` frames wait.

Outside the code: a link that works takes a record within `Slow`, at any time up to
it; a healthy peer answers a PING within `RoundTrip` of getting it; a frozen one sends
nothing, and the kernels still take `SendBuf` frames, each within `Slow`. None of
these is compared with the code's timeouts by assumption. `silent` is the time since
the freeze.

### How Mux corresponds to the code

A pipe `<<e, c>>` is the direction of connection `c` that end `e` sends. `wire[e]`
is one FIFO made of the frame channel, the socket and the far `RecordBuf`; `chan`
is the inbound channel of a stream; `entry` is `StreamRegistry::streams` of each
end. `up` and `down` are the places of the two halves of `pump_stream`, with the
opener (`accept_connection`, `on_open`) before them. `nextId` and `AllocId` are
`alloc_id`, reduced modulo `IdSpace`. `broken` and `bad` are history: the
connections hit by a fault, and those that lost a record to corruption.

Every direction of every stream implements `Pipe` (`Stream == INSTANCE Pipe WITH`,
property `StreamsArePipes`): `closed` is a finished uplink, `ended` a finished
downlink, `broken` a fault of this connection. So a fault of one connection can
neither lose, repeat nor misdirect a chunk of another, and while no fault hits a
connection the far socket sees its end only after its last chunk.

### How Service corresponds to the code

Dials are numbered, and tunnel `t` is what became of dial `t`. `near[t]` is the
client's end, `far[t]` the `handle_conn` task, `up` and `live` the server's living
tunnels and its list. `HandshakeOk` writes the OK and spawns the tunnel, `ListTunnel`
is the locked clean-up and push that follows: there is no await between them, but the
runtime has several threads, so `serve` may drain the list in between. `mutex` is the
FIFO of the tokio mutex around `TunnelManager::current`, held through `dial().await`.
A connection makes two attempts (`0..2`); `failures` remembers what failed it.
`Shutdown`, `Kill` and `AbortAll` are the end of `serve`, one kill at a time, with
handshakes still going on. Killing a dead tunnel does nothing, so `doomed` keeps only
living ones, and what is listed after the drain is not recorded, as nobody reads it.
`settled` is history: of the tunnels listed when the shutdown began, those still alive.
`server::run` never fires the shutdown (`Stoppable` is FALSE for it).

### How Handshake corresponds to the code

A record is two units, header and content, and `ClientReads`/`ServerReads` move any
number of units into `RecordReader::buf`, so records arrive cut or joined.
`cpc`/`spc` is the record each side reads or writes next. Keys are the pair of key
shares, a sealed record opens under its key only, the transcript is the list of
contents; one handshake record may be corrupted in flight. `ClientTakesOk` drops
the reader with its surplus, as the code does. The tail of the module is the
server's immediate first PING and the PONG of the client's carrier.

### How Wire corresponds to the code

Bytes are numbers below `Base`; ids, lengths and nonces have small widths. `Encode`
and `Decode` follow `encode_into` and `decode` check by check; `Push`, `Take` and
`TakeNone` are `push`, `take_record` and `compact` in the order `reader_loop` calls
them. `Shifts`, `Digits` and `Sums`, `Value` are `to_be_bytes` and `from_be_bytes`,
byte by byte. The reference (`Meanings`, `Said`, `Meant`) is stated through `Encode`
alone, not through `Decode`: what a plaintext means is the frame, of all frames with
ids of `IdLen` bytes, whose encoding it is. `WireAssumption` asks that a byte can hold
a type, that `MAX_DATA`, the nonce and every record fit their length fields, and that
the plaintexts are bytes.

### How Config corresponds to the code

A key is one character, and a value keeps what the checks tell apart; passwords are
sequences of characters, because escaping is about them. `FlagArg`, `BadArg`,
`HelpArg`, `ArgsEnd` are the argument loop, `ScanChar`/`ScanEnd`/`Apply` are
`split_entries` and `apply_entry`, `Standalone` is the config file, `Sip003` the
environment. `Compose` is the user who writes the text, so `OptionsAsWritten` is a
round trip: settings are written as entries (`Plain`), each character of an entry as
one mark (`Marks`), itself or escaped, and entries are joined by `;`. The user escapes
every special character of a value, or only where it is needed: a value may then hold
`=` and backslashes that escape nothing, and the scanner must keep them.
`ConfigAssumption` asks that keys hold no special character, and that values neither
begin nor end with a blank, which no `plugin_opts` can convey since they are trimmed.

## Runs

| run | instance | shows |
|---|---|---|
| `tunnel_server` | server, one stream | registration, fan-out, reader progress, OPENs resolved |
| `tunnel_client` | client, one stream | the same for `accept_connection`, and closing of the socket |
| `tunnel_death` | no stream; keepalive and shutdown on | a real cause, a line that names it and none from followers, detection of a silent peer |
| `keepalive` | ping 5 and 10, grace 8, stall 9, write 10, a unit for each record | a frozen peer is detected in bounded time; no false alarm while the grace exceeds what a full channel, the round trip and the reader's turns cost |
| `mux` | two connections, both ends | streams are pipes of their own; no stale entry; ended streams are over |
| `service` | two connections, up to four dials, shutdown, fair | one live tunnel; the retry is fresh; the shutdown kills every listed tunnel; connections resolve |
| `handshake` | three passwords, three pins | agreement, just rejection, clean handover at the server, no mutual wait, both end |
| `wire` | two records, every type and length | the frames that were meant, in order, none lost; a bounded buffer |
| `config` | three arguments, two settings, all address forms | options, role and addresses as meant; nothing invalid runs |
| `pump_ends` | violation | an uplink outlives its tunnel |
| `stall_kills` | violation, default ping | a stalled consumer gets the tunnel of a healthy peer killed |
| `handover_ping` | violation | a PING read together with the OK is lost and the tunnel of a live client killed |

### Bounds

* `Tunnel`: channel capacities are 1, so that full and empty both occur within a
  step of each other; `MaxBad` is 2 for the server, so that a streak can grow, be
  reset and run out, and 1 elsewhere; one socket read yields 0 or 1 complete
  records, which loses no interleaving because the reader takes records one at a
  time and other tasks may run between two of them. Keepalive, shutdown and streams
  are not all switched on in one run, as that instance exceeds the time of a run;
  the safety theorems cover the combinations.
* `Keepalive`: the numbers are units, chosen for their order and small enough to count
  through. The ping intervals lie below and above the grace, because each order of the
  two makes another term of the detection bound the larger one; stall and write timeout
  exceed the grace, as in the code. A channel of one place and one sender waiting behind
  it let a PING be written at once, wait behind a full channel, or wait for room behind
  an uplink. With these `Latency` is 7 and the grace 8: the least for which
  `NoFalseAlarm` promises anything, and with 7 TLC finds a false alarm, so the bound is
  tight there. The code's 256 places and 2 s give Latency below the grace only on a
  link that takes a 16 KiB record in well under 8 ms.
  `stall_kills` uses the code's timeouts in seconds on a link that takes no time, so
  that nothing but the stalled consumer is to blame.
* `Mux`: two connections are the least for one to disturb the other. One of them
  sends two chunks through channels of capacity one, so it fills the channel and
  stalls while the other's chunk is behind it. One bad record. Three ids for two
  connections, so that the modulus never reuses one.
* `Service`: with two connections the cached tunnel can die under one while the
  other dials, and each can use up both attempts; four dials are all there can be.
* `Handshake`: the proof is one byte and the device id two, so that a password can
  have the length of a device id and one can be the tail of another; one corruption
  is enough for a disagreement, and two would not be told apart from a wrong peer.
* `Wire`: two records let a read end anywhere in the first, between, or in the
  second. Reads return up to ten bytes: two small records at once, or not quite all
  of the largest. `MCPlains` has every type, unknown ones too, with every declared and
  actual length around the limits.
* `Config`: two settings show precedence, skipping and one entry running into the
  next; passwords of up to three characters contain each pair of special ones.

Deadlock is not checked: a dead tunnel whose tasks have returned, a finished
handshake, or a process that has started or refused to is a proper end.

### Fairness

* `Tunnel`: a task that can move by itself, or whose timeout can fire, moves: tokio
  polls every ready task and its timers fire. Strong fairness is assumed for the
  reader, the keepalive and the openers because tokio's bounded channel serves
  waiting senders first in first out. No fairness is assumed of the peer, the
  network, the local sockets, the upstream or a shutdown: a wire write, a local
  write or a dial may never complete, and then only its timeout is fair.
* `Mux`: weak fairness of readers, downlinks and server dials, each of which has a
  timeout or blocks on nothing outside, and of the write timeout, which is what
  ends two ends that wait for each other's full wires. None of the local senders.
* `Service`: one condition for the task of each connection, which moves when it can:
  at the mutex when its turn comes, in an open, and in a dial, which has a deadline.
  Nothing is assumed of the server, of
  success, or of one end noticing that the other died: with `ping` 0 and a lost FIN it
  need not, and with keepalive on that is `SilentPeerDetected` and `DetectionBound`.
* `Handshake`: only the two deadlines and the client's first step.

## Findings

* `pump_ends`: the doc of `pump_stream` says that the tunnel closing the stream
  terminates the pump; its uplink stays in the local read.
* `stall_kills`: a consumer that stops reading holds the reader for up to 5 s, and
  a held reader counts no PONG. The 2 s grace runs out first, so the whole tunnel
  dies where the README says that only the stream is dropped. The repository's
  test of the stall switches keepalive off.
* `handover_ping`: `client_handshake` reads in chunks and drops its reader on return;
  the carrier starts with an empty buffer. The server's first PING follows its OK at
  once, so when one read returns both, the PING (or the first part of it) is lost
  and the server kills the tunnel after the grace. The server's side of the handover
  is clean (`ServerHandoverClean`), because a client sends nothing before the OK.

Other disagreements between comments and code. For the first four a passing run checks,
and a theorem states, what does hold; each formula given is violated when it is added to
the invariants.

* `carrier.rs:40-41` says that a PING unanswered for the grace means a silently dead
  peer. The 2 s start at the enqueue of the PING (`carrier.rs:625-629`), behind up to 256
  frames of 16 KiB and a write in progress. Below about 2 MB/s a full channel alone takes
  longer, and keepalive kills the tunnel of a peer that answers at once: in `Keepalive`
  `UnansweredMeansFrozen`, with `Latency` not below `Grace`. `NoFalseAlarm` says how fast
  the link must be.
* `carrier.rs:609-610` gives the worst-case detection as ping + grace (`silent <= period
  + Grace`). The PING may wait for room behind a blocked write; then the write timeout of
  10 s is what ends the tunnel. The bound that holds is `DetectionBound`.
* `carrier.rs:588-591` promises one line per tunnel, "exactly once" (at most one task with
  `logged[t] # "none"`). Check and recording of the cause are two steps, so reader and
  writer that fail together both log. The death is never missed (`DeathIsLogged`), and a
  task that only wakes on the flag never logs (`FollowersAreSilent`).
* `server.rs:30-31` promises that a shutdown kills every live tunnel (`serving =
  "stopped" => up = {}`). One that is spawned or listed after the drain lives on, since
  `abort_all` does not reach its tasks. `StopKillsListed` says what holds. `server::run`
  never fires the shutdown; the tests, and other users of the library, do.
* `carrier.rs:156`: sends on a dead tunnel are rejected only once the writer task
  has returned; until then frames are accepted and lost (such a pipe is broken in
  `Mux`).
* `mux.rs:92-94` says that a decode failure kills the tunnel; `reader_loop` tolerates
  a streak of them.
* `USAGE` in `main.rs` names `-client`, the loop accepts `--client` only.
* `plugin_opts` trims values, the config file does not, so a password with blanks at
  its edges differs between the two; an entry without `=` is dropped without a word.
  The comment of `apply_entry` says that the config file shares it; it does not.

## Proofs

`TunnelProofs` proves, for every set of streams, every capacity and every bound
allowed by `TunnelAssumption`: `TypeCorrect`, `CauseIsReal`, `DeathAlwaysLogged`,
`FollowersLogNothing`, `NoOrphans` and `FirstDataDelivered`.

The inductive invariant `IInv` has four parts.

* `TypeInv` adds to the types that a reader still in its loop has not used up its
  streak, without which the bound of `bad` is not inductive.
* `DeathInv` relates every stage of a task's death to cause, flag and log. The
  cause is written before the flag, so a task that exits because of the flag finds
  a cause: its own `Killed` is discarded, and it logs nothing.
* `NoOrphanStream` is inductive given `DeathInv`: the client starts a pump only
  while the flag is down, so both loops still have a `close_all` ahead; the server
  registers in the reader, which has its own ahead.
* `EntryInv` says that a stream the peer knows was registered once, and that a
  lost receiver never comes back.

`KeepaliveProofs` proves, for every set of ping intervals and all timeouts,
capacities, link speeds and round trips: `TypeCorrect`, `PeerDetected` and
`NoFalseDeath`. `KeepaliveAssumption` says only which constants are positive. The
invariant has three layers on top of the types.

* `QueueInv`: at most one probe is under way, in one place (the line, the writer, the
  peer or the reader), and none between two rounds (`RoundInv`); behind the capacity
  stand only uplinks up to `MaxWaiting`, one PING and one answer (`LineInv`), from which
  `LineLength` counts the length of the line; a link that works is never late with a
  write (`LinkInv`).
* `TimeInv` gives each phase of a round its own bound on `silent`, expressed in the
  time left on the timer that ends the phase, or, while the PING waits for room, in what
  the writer can still spend on a frozen peer (`Left`); the detection bound itself is
  not inductive, since a step of time may only be taken while some timer that leads to
  the death still runs.
* `AnswerInv` follows a PING from its place in the line to the PONG in the reader's
  hands while the peer is well and no consumer ever stalled, and says at each place that
  the grace already gone and the writes and turns still ahead stay within `Latency`
  (`InTime`). A step of time is paid for by the write in progress, by the peer, or by
  the write that the reader's own answer waits for.

`ServiceProofs`, for every finite set of connections: `ServerKillsListed`,
`ClientHoldsOneTunnel`, `RetriesAreFresh`, `ServiceTypeCorrect`. The server's part
(`ListInv`) says that a listed tunnel that is alive is in the list until the shutdown,
and among the doomed from then on. The client's `ClientInv` has

* `MutexInv`: a connection is at the mutex once, and only its holder dials. This is
  what makes two dials at a time impossible;
* `DialInv`: a tunnel that is up is the cached one, and none is up while one is dialed;
* `FreshInv`: what failed a connection is dead, and the connection never works with
  it again. `RetryIsFresh` speaks of the end only and is not inductive;
* `BudgetInv`: the dials begun are no more than the attempts used up, counted as
  pairs of connection and attempt. `TypeOK` needs it, since dials are numbered
  `1..2 * Cardinality(Conns)` and the code has no such bound of its own.

`MuxProofs`, for every finite set of connections no larger than the id space and all
capacities: `MuxTypeCorrect`, `MuxKeepsNoStaleEntry` and the refinement
`MuxImplementsPipes` (`Spec => StreamsArePipes`), each in its own layer.

* `EndsInv`: frames travel under the id of their connection, ids are handed out once,
  entries lead from an id to its connection, the two halves of a pump start together,
  an OPEN is the first that is heard of its connection, a dead tunnel has nothing left.
* `PipeInv`: what came out of a pipe, what waits in its channel and what travels is
  numbered upwards; while its connection is not broken nothing is missing between
  them, its CLOSE is behind all its chunks, and the places of uplink, wire, entry and
  downlink fit together (`Phase`). From it every step of `Mux` is shown to be a step
  of each pipe's `Pipe` or to leave the pipe alone.
* `StaleInv`: an entry that stays after the far uplink has ended has its CLOSE coming.

`HandshakeProofs`, for all sets of passwords (any sequences of numbers) and lengths of
proof and device id: `HandshakeTypeCorrect`, `HandshakeAgrees`,
`HandshakeRejectsJustly`, `HandshakeHandsOverClean`, `HandshakeNeverStuck`.
`HandshakeInv` says that buffer and wire together always hold whole records however
they are cut (`RecordInv`), how many records are on the way as a function of the two
places (`FlightInv`, which gives `NoMutualWait`), that the server is sent one record at
a time before it accepts (`HelloInv`, `AuthInv`, which give the clean handover), and
that an AUTH can only reach the server from a client that saw what the server saw
(`AuthInv`, `DoneInv`).

`ConfigProofs`, for every alphabet, all settings with values of any length, any blanks
around them, all files and address forms: `ConfigRunsOnlyValid`,
`ConfigOptionsAsWritten`, `ConfigStartsAsTold`. It has two layers.

* `ConfigInv`: the options are sound at every point of the way through the text, not
  only at its end; which source `main` has chosen; what a config file leads to. This
  layer does not look into the text.
* `TextInv` does. While the text is read (`ReadInv`) the scanner stands in front of
  a mark of some entry `j`: what is ahead are the remaining marks of that entry and
  the entries behind it, `current` is the part of the entry already read, and the
  entries before it are as they were meant (`Place`). `TurnFacts` is the core: at such
  a place the scanner finds exactly one mark or separator, takes the branch that
  belongs to it, and stands at the next place; at the end nothing is left over. While
  the entries are applied (`ApplyInv`) the first `k` are gone and the options are what
  the first `k` settings ask for. `BareRead` and `ValueRead` say that `split_once` and
  `trim` give back the key and the value of an entry. `OptionsAsWritten` speaks of a
  running process only and is far from inductive.

`WireProofs`, for all byte sizes, widths and read sizes and every set of plaintexts,
finite or not, that fits them: `CodecRoundTrip`, `WireDispatchesInOrder`,
`WireLosesNothing`, `WireNeverParks`, `WireBufferBounded`. It has three parts.

* Induction, in `SeqLemmas`, which `ConfigProofs` needs too, for the recursive function
  `Ends` that concatenates. The library's induction theorems cannot be instantiated by
  the provers, but a set of naturals has a least member (`WFMin`), and from that follow
  induction for sets (`Induct`) and existence and uniqueness of recursive functions
  (`FcnExists`, `FcnUnique`). So `ValueOfDigits` and `DigitsOfValue`, which say that `to_be_bytes`
  and `from_be_bytes` undo each other, hold for every width.
* The codec. `SaidIs`: `Decode` accepts a plaintext exactly if it is the encoding of a
  frame, and then returns that frame.
* The buffer. `WireInv` says that behind the consumed bytes, in the buffer and then on
  the wire, come exactly the records after the `k`-th, and that what was dispatched is
  what the first `k` mean (`PlaceInv`); a reader that waits has consumed nothing and
  has less than a record (`WaitInv`). `Finds` is the core: at such a place
  `take_record` reads the length of the next record as soon as the header is there,
  and cuts exactly this record out.

Each of these invariants was checked with TLC on the instance of its run before it was
proved (`PlaceInv` with the concatenation of the remaining records in place of the
quantified functions; `ReadInv` with the text up to `at` as what lies behind, and fewer
passwords).

## Only model-checked

* All liveness properties, since fairness and ENABLED are out of the prover's reach:
  `DeathFanOut`, `ReaderNeverWedges`, `OpenResolves`, `KilledTunnelClosesSocket`,
  `SilentPeerDetected`, `StreamsEnd`, `ConnectionResolves`, `HandshakeEnds`.

Every invariant and every refinement the passing runs check is proved.

## Not modelled, and why

* `qeli-core`, which is an external crate: its cryptography is symbolic in
  `Handshake`, and its record layout is `Dress` in `Wire`.
* The wrap of stream ids after 2^32 streams of one tunnel: `Mux` takes ids modulo
  `IdSpace` and assumes no more connections than ids.
* Syntax of JSON and hex, name resolution, reading of files and of the environment:
  `Config` keeps what is accepted and what not.
* Logging text, logger and runtime set-up, build files, examples, tests.
