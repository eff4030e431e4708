# StateMaster in TLA+

StateMaster is a database of state machines: clients define machines, move
entities along them with `transition`, and subscribe to the stream of changes.
This directory models the parts of it that decide whether the log, the
projection, the change stream and the connections stay consistent. It is
translated from the Rust source in `src/crates`; `PROJECT.json` maps every
definition to the lines it models.

    tlc -workers 2 -config MCEngine.cfg MCEngine    # one run
    tlapm EngineProofs.tla                          # one proof module

## The system

| part | state | operations | hard behaviours |
|---|---|---|---|
| `smdb-core` planner, definitions | none (pure); the builder's fields | builder methods, `build`, `validate`, `plan_transition`, `validate_guards`, `compute_effects` | duplicate pairs across rules, undeclared states |
| `smdb-engine` transitions | stripe locks, guard registry, shutdown watch, commit permit; the locals of each call | `transition`, `define_machine`, `register_guard`, `shutdown`, restart | races on one entity, redefinition during a call, retries with a key, failed reads, crash after commit |
| `smdb-engine` change stream | subscriber Vec with a cursor each, Notify permit, the dispatcher's locals | `subscribe`, `unsubscribe`, `dispatch_pass`, `Dispatcher::run` and `dispatch` | commits during a pass, batch boundary, one permit for many commits, receivers that die, shutdown |
| `smdb-storage` | nine redb tables, `write_lock`, one open write transaction | the `StorageEngine` methods | error after the sequence was taken, crash in a transaction, index agreement, paging |
| `smdb-proto` | the buffer of the decoder | `encode`, `decode`, messages | partial reads, length limit, a stream that ends inside a frame, messages without a request id |
| `smdb-wire` | semaphore, session, shared sink, forwarder channels, metrics | accept, handshake, request loop, subscribe/unsubscribe, forward, cleanup | forwarders and replies on one sink, disconnects at any moment, frames out of protocol |
| `smdb-sdk` | attempts and handshake, pending map, subscription map, `dead`, request counter | `connect_with_retry`, `connect`, `send_request`, reader task, `subscribe`, builders | a silent server, late answers, reader exit racing a caller, records before the reply |
| `smdbd` | configuration, database file lock, server, dispatcher and metrics tasks | `resolve_config`, start, signals, shutdown | order of start and stop, closures that outlive `main`, crashes |
| `smdbctl`, `smash` | an `Engine` of their own on the same file | open, commands, exit | another process on the file |
| `smdb-wal` | empty crate | | |

Clients talk frames to a session (`smdb-wire`), which runs requests on blocking
workers through `Engine`. The engine writes log, projection, outbox and key in
one storage transaction and wakes the dispatcher, which reads the log and sends
change records into the channels of subscribers. A forwarder per subscription
writes them to the connection next to the replies.

What each part must guarantee:

* planner: an accepted machine is deterministic and closed; nothing legal is refused;
* engine: one linear lifecycle per (entity, machine); projection = log; a key
  commits once; every answer is true; calls return;
* stream: in order, no gap, no repetition, delivered in the end; pruning takes no one
  off it who does not share the id of a dead subscriber;
* storage: all or nothing, gap-free sequence, indexes agree, scans give the log;
* codec: the frames that were sent come out, however the stream is cut;
* session: replies in order, handshake first, permits returned;
* client: connecting ends, answers reach their calls, no caller is stranded;
* processes: commits chain across processes on one file; a client is told the
  truth through shutdown and crashes; a daemon that is interrupted ends.

`PROJECT.json` lists the hazards behind these at their source lines, with the
properties that would catch each one.

## Modules

| module | models | remarks |
|---|---|---|
| `StateMachine` | definitions, `validate`, `FsmPlanner` | operators, no state |
| `MachineBuilder` | `MachineBuilder`, then an entity walking the built machine | one action per method |
| `MachineBuilderProofs` | theorems | see below |
| `Engine` | `Engine::transition` by concurrent workers | a worker's step is one storage call or lock operation with the pure code after it; storage calls are atomic here |
| `Lifecycle` | what the engine promises | log, outbox and history of definitions only; one atomic `Commit` |
| `Store` | what the `StorageEngine` trait promises | atomic calls; no lock, index, transaction or crash |
| `EngineRefinement` | `Engine` implements `Lifecycle`, and uses `Store` | identity mapping for the first, the tables without their bookkeeping for the second |
| `EngineProofs` | theorems | see below |
| `Dispatcher` | subscribers, `dispatch_pass`, the dispatcher task, the outbox | the log is the machine of each record, the outbox one status per record |
| `DispatcherProofs` | theorems | see below |
| `StorageKeys` | the keys of the tables | strings are sequences of numbers; a sequence number is written in a base and width of the model, 10 and 20 in the code |
| `RedbEngine` | the writing methods of the store, table group by table group | `tx` is the private copy of the open transaction; redb's commit is atomic |
| `RedbReads` | the reading methods that scan a table | operators on the committed tables: a read sees one snapshot |
| `StoreRefinement` | `RedbEngine` implements `Store` | the committed tables without indexes and counter |
| `RedbEngineProofs` | theorems | see below |
| `FrameChannel` | what a framed connection promises | frames only, no bytes |
| `FrameCodec` | `encode`, `decode` and `FramedRead` over a stream of bytes | implements `FrameChannel`; `src` is the part of the stream between `consumed` and `arrived` |
| `FrameCodecProofs` | theorems | see below |
| `Protocol` | frame tags, request ids, payload fields, `handle_frame` | operators used by both ends |
| `Session` | server, sessions, forwarders | clients follow scripts, good and bad |
| `SessionProofs` | theorems | see below |
| `Connection` | the SDK client: connecting with its retries, then calls over one connection | the server end greets as `serve_framed` does and answers with `handle_frame` |
| `ConnectionProofs` | theorems | see below |
| `Daemon` | `smdbd` from configuration to exit, its clients, and `smdbctl`/`smash` on the same file | composes the processes; `transition` is shutdown check, read under the lock, commit |
| `DaemonProofs` | theorems | see below |
| `MC*` | constants of the runs | |

`pc` values name the next call a worker makes. `Engine!Answer` is every return
of `transition`: the guard is dropped and the locals are gone. In `Dispatcher`
a pass excludes `subscribe` and `unsubscribe` (read lock against write lock) but
not commits or dying receivers. In `Session`, `channel` is keyed by connection
and position of the Subscribe frame, so a client that subscribes twice under one id
has two streams, each in order by itself (`PushesInOrder`); `wire` is the history of what was written.
In `Daemon`, a daemon in `returning` has left `main`: its tasks are cancelled, but
blocking closures that run go on, and the runtime waits for them.
History variables (`defined`, `replaced`, `joined`, `left`, `delivered`, `wire`,
`read`, `missed`, `bounds`, `launch`) never influence a guard.

Two chains connect the layers. `Engine` treats a storage call as one step, and
what that step does is the operation of `Store` that the code calls there, with
the arguments it computed (`UsesStore`). `RedbEngine`, with locks, transactions,
indexes and crashes, implements the same `Store`, and not only up to the choice
of an operation (`ImplementsStore`): the tables change only when a call returns,
by the step that its own method and arguments stand for (`Performs`), and a
commit always is that step, so a call can neither do another method's work nor a
part of its own. `Session` and `Connection` exchange whole frames, which is
what `FrameChannel` promises and `FrameCodec` implements (`ImplementsChannel`).

## Runs that pass

| run (configuration) | shows | distinct states |
|---|---|---|
| `builder` (`MCMachineBuilder`) | over every builder program with two states, two events, two rules: `validate` accepts exactly the tables that are partial functions over declared states, and an entity never leaves them | 299 k |
| `engine` (`MCEngine`) | two workers, two entities, a key, a redefinition and a refused definition, guards, restart: projection, chain, outbox, answers, optimistic versions, sufficiency of the stripe lock; `Engine` refines `Lifecycle` and uses `Store` | 231 k |
| `engine_faults` (`MCEngineFaults`) | two workers on one stripe, failing storage calls: keys commit once, calls return | 22 k |
| `dispatcher` (`MCDispatcher`) | two subscribers, dying receivers, failing reads, polling, restarts: exactly once, in order; pruning removes only ids of the dead | 3.0 M |
| `dispatcher_stream` (`MCDispatcherStream`) | one subscriber with any filter and start position: no wake-up is lost; the outbox drains | 212 k |
| `redb` (`MCRedbEngine`) | every writing method on two rows with errors in every step and crashes: gap-free log, indexes agree, histories, pages and tails are the log; `RedbEngine` refines `Store` | 40 k |
| `session` (`MCSession`) | two connections, one permit, good and bad clients, two records: reply order, handshake, permits, pushes in order next to replies; a session whose client left ends | 435 k |
| `connection` (`MCConnection`) | connecting ends, whatever the server does; answers reach their calls; nobody is stranded; no record missed; a broken stream releases every waiting call | 33 k |
| `codec` (`MCFrameCodec`) | three frames of five kinds, any cuts, a stream that closes, breaks or fails to read: `FrameCodec` refines `FrameChannel`; what was sent arrives | 81 k |
| `daemon` (`MCDaemon`) | a daemon, a tool and two clients on one file, eleven configurations, signals and crashes: commits chain, answers are true, start-up is in order, certificates are not ignored, an interrupted daemon ends | 327 k |

`RetriesNeverCollide` speaks of calls whose reads do not fail, so it is checked
in `engine`, where they do not. Deadlock is checked for the engine. The other
runs may stop: their scripts, logs, frames and budgets of calls and starts are
finite, and the dispatcher returns on shutdown.

### Bounds

Two workers (threads, tasks, connections) suffice for a race on one entity, one
lock or one sink; a third is a copy of the second. With a log of two records,
`MCDispatcherStream` reads one at a time (each batch is full and another
follows) and `MCDispatcher` two at a time (a partial batch, and a full one
followed by an empty read); the outbox is always read one effect at a time, so
a read leaves something behind. One key and two entities give retry and reuse.
`MaxLog` in `Engine` only stops new calls, so calls in flight run past it.
Version 1 and 2 give an insert, a successor and a conflict. The two rows of
`MCRedbEngine` are pairs of names that are equal once the separator is dropped,
and sequences have a width and a base in which an unpadded number sorts wrongly.
In `MCSession` one connection runs every script while the other runs a brief
one: it is there to compete for the permit. `MCFrameCodec` has bytes below a
small base, so that lengths use more than one byte, bodies at the limit and one
past it, and an unknown tag. Three starts in `MCDaemon` are a daemon, a tool and
a restart of either. Two calls of the
client give an answer that arrives late while the same task, or the other,
waits. Symmetry is used only in runs without liveness, over values the model
never orders or names.

### Fairness

Liveness assumes that threads and tasks that can run do run (weak fairness of
each worker, session, reader, the dispatcher and pending `notify_one` calls),
and that a lock that is free again and again is obtained (strong fairness of
`Lock`; `parking_lot` mutexes are eventually fair). Nothing is assumed of
clients, of the request timeout or of the poll timer; `OutboxDrains` alone has
the timer as a hypothesis, and fails without it. `ConnectReturns` rests on the
timeout of the dial and on the deadline that `connect` sets for reading the
handshake: time passes, so a server that says nothing is given up. The two
writes between them (connection.rs:89-100) have no timeout; that they return,
two small frames into an empty socket buffer, is assumed.
`InterruptStops` assumes that `main`, the server's select on the watch and
closures that have begun get to run; signals, users, accept and the metrics task
may do nothing.

## Runs that are violated

Each checks what a document or comment says, against what the code does.

| run (configuration) | statement | behaviour |
|---|---|---|
| `engine_key_reuse` (`MCEngineKeyReuse`) | PROTOCOL.md:495 | a key is answered with the transition it recorded, whatever entity it comes with |
| `dispatcher_shared_ids` (`MCDispatcherSharedIds`) | engine.rs:306 | subscription ids are chosen by clients and not compared (PROTOCOL.md:218, engine.rs:281), and dead subscribers are removed by id: a live one under the same id, also one that subscribed again before the removal, goes with them |

### Further divergences

The models show these as well. Each has a property and a configuration that can
be run by hand and ends in a counterexample; they are not among the runs of
`PROJECT.json`. `MCConnectionClaims` and `MCSessionClaims` name several properties,
one of them active at a time.

| configuration | property | statement | behaviour |
|---|---|---|---|
| `MCDispatcherStreamed` | `StreamedBeforePublished` | dispatcher.rs:58 | an effect is marked before its record is sent |
| `MCDispatcherDrain` | `DrainedAtExit` | dispatcher.rs:37 | a late commit misses the last pass |
| `MCRedbEngineMachines` | `StoredOnce` | storage/engine.rs:13 | a definition is replaced silently |
| `MCRedbEngineUpserts` | `UpsertsAreNext` | storage/engine.rs:33 | version 1 replaces any row |
| `MCRedbEngineEffects` | `EffectsInInsertionOrder` | storage/engine.rs:82 | effects come in the order of random ids |
| `MCRedbEngineTail` | `TailOnly` | storage/engine.rs, `get_transitions_after` | after the largest sequence the sum wraps (release build; a debug build panics) and the tail is the whole log |
| `MCSessionClaims` | `SessionCleansUp` | server.rs:367 | the cleanup list is always empty |
| `MCSessionClaims` | `ResultBeforeRecords` | PROTOCOL.md:223 | records may precede the Result |
| `MCSessionClaims` | `ErrorsAreFatal` | PROTOCOL.md:539 | the session goes on after an Error |
| `MCConnectionClaims` | `ReadAnswersArrive` | connection.rs:297 | Error frames carry no request id |
| `MCConnectionClaims` | `ResultsDecode` | client.rs:378 | the Result of a transition does not decode as a ChangeRecord |
| `MCConnectionClaims` | `OnlyTransientRetried` | sdk/config.rs:21 | a refused token and missing TLS support are retried too |
| `MCConnectionClaims` | `DisconnectClosesChannels` | subscription.rs:17 | the channel of a subscription stays open |
| `MCDaemonDevMode` | `DevModeIsOpen` | README.md:255, deploy/statemaster.toml:36, smdbd/main.rs:247 | with an empty token list every client is refused |
| `MCDaemonTerm` | `StopsGracefully` | smdbd/main.rs:301, deploy/statemaster.service:19 | SIGTERM has no handler and kills the daemon |
| `MCDaemonReady` | `ReadyMeansAccepting` | README.md:72 | `/readyz` answers 200 before the listener is bound, and after accept has failed |
| `MCDaemonDrain` | `DrainsBeforeExit` | dispatcher.rs:37 | `main` does not wait for the dispatcher's last pass |

Noticed on the way and not checked: entities that share a lock stripe wait
for each other (PROJECT.md:528 says different entities never contend); an undefined machine is rejected as
`internal_error`, not `unknown_machine` (PROTOCOL.md:493), because
`get_machine` reports a storage error; there is no handshake timeout
(PROTOCOL.md:131); an oversized frame gets no Error (PROTOCOL.md:59);
Unsubscribe gets no reply (PROTOCOL.md:245); `Client::conn` never reconnects
(client.rs:229); `max_subscribers` is not used; without `--tls-cert` the server
speaks plain TCP, no certificate is generated (smdbd/main.rs:46).

## Proofs

**Engine.** `EngineProofs` proves, for every set of workers, entities, machines, keys and definitions, every striping
and with or without faults (assumption: `EngineAssumption`, which only types the
constants):

* `TypeCorrect`, `ProjectionIsTheLog`, `ChainAlways`, `KeysCommitOnce`,
  `ReadsStayCurrent`: from the inductive invariant `Consistent`;
* `StripeLockAlwaysSuffices`: the version check of `execute_transition` never
  fires for calls of `transition`;
* `CommittedAlwaysStays`: an action property;
* `ExpectedVersionAlwaysHonoured`, `RetriesAlwaysReplay`: an Ok to a call that named
  a version is the next one, and a retry never runs into its own key at commit;
* `OneDefinitionAlways`, `OkAlwaysCommitted`: answers and outbox rows are true;
* `EngineImplementsLifecycle` and `EngineUsesStore`: the two refinements.

Projection and chain are not inductive by themselves: a commit appends what the
worker read some steps earlier. `Consistent` adds that a worker past the lock
holds its stripe (`HoldsItsStripe`), hence that the row it read is still the
stored row (`ReadsAreCurrent`), and that the definition it uses was stored
(`DefinitionsWereStored`). `WorkerSteps` reduces each step of `transition` to
what it does to locks, reads and storage, so that each conjunct has one short
step lemma; `CommitAppends` states what the single writing step does. The
refinement uses `PositionIsLoadedState`: where the log leaves an instance is
what its row says. A retry replays because `check_idempotency` is asked under the
stripe: `CallsAreSound` says that a call which holds the stripe and missed its key
still misses it, unless another instance took it.

**Codec.** `FrameCodecProofs` proves `CodecImplementsChannel` for every byte base,
limit, set of tags and set of frames (assumption: `CodecAssumption`; no body has
2^32 bytes, which `encode` does not see to). The invariant `InPlace` says that the
stream holds the encodings of the frames that were sent, one after the other, as
far as it goes, and that the decoder stands at the beginning of one of them.
`LengthRoundTrip` shows that reading a length gives back what was written.

**Processes.** `DaemonProofs` proves `CommitsAlwaysChain`, `AnswersAlwaysTrue`,
`ReadyAlwaysOpen` and `NoCertificateIgnored` for any number of daemons, tools and
clients and any configurations (assumption: `DaemonAssumption`). The invariant
`IInv` adds who holds the file (`FileHeld`), that sessions and running closures
belong to a daemon that holds it, also when its `main` has returned
(`SessionsHeld`), that whoever has read the version has the current one and is
alone (`VersionsFresh`), and which clients have a record (`OneRecordEach`). That
a dropped runtime waits for running closures, and that redb locks the file, are
what the argument needs of tokio and redb.

**Client.** `ConnectionProofs` proves `AnswersMatchHolds`, `DeadStrandsNoOneHolds` and
`NoRecordMissedHolds` for any number of tasks, calls and records (assumption:
`ConnectionAssumption`, which only types the constants). That an answer belongs to
the call that gets it is not inductive: a sender can stay in the table after its
call has returned (the write failed), and the server may answer long after a
time-out. The invariant `IInv` adds that an id belongs to one call, as does the
sender under it (`IdsOwned`); that an id the server can still name was written, and
that a sender under it is that of a call which waits (`FlightTracked`); and that a
subscription is in the table before its frame is written (`Subscribed`). `CallerMoves`
and `ServerMoves` state once what most steps of the callers, and all steps of the
server and the network, have in common.

**Storage.** `RedbEngineProofs` proves `AlwaysTyped`, `LogAlwaysGapFree`,
`IndexesAlwaysAgree`, `ReadsAlwaysMatchTheLog` and the refinement `RedbImplementsStore`,
for any writers, rows, definitions, effects and errors, and a crash at any moment (assumptions:
`KeyAssumption`, `RedbAssumption`: names contain no NUL, and fewer calls are made than
there are sequence numbers; the code sees to neither). The invariant `IInv` adds that
the committed tables agree with each other (`Sound`: the records are numbered without
gaps, every index has an entry for each of them and no other), that calls in flight
bring ids that are new (`CallOK`, `Distinct`), and that the open transaction is the
committed tables after some of the steps of the call that holds the lock
(`InTransaction`). A commit is then the step of `Store`
that `Performs` names for the method and arguments of the call. That an index entry is not
overwritten by another row rests on the keys: `PaddedInjective`, `StateKeyInjective`
and `HistoryKeyInjective` recover the number and the row from the string. Induction
over digits is put as the least element of the set of counterexamples
(`LeastElement`, `InductionOverNat`).

That reads find the log rests on two facts about strings: a key starts with the prefix
of a row only if it is a key of that row (`PrefixIdentifies`), and padded numbers sort
as numbers (`PaddedOrdered`, `HistoryKeysOrdered`). The n-th key of a scan is the one
with n - 1 keys before it; `SameOrder` counts on both sides of the bijection between
sequence numbers and keys, and `GreaterFollow` puts a page and its continuation
together.

**Change stream.** `DispatcherProofs` proves `AlwaysExactlyOnceInOrder` for any
subscribers, filters, start positions and batch sizes, with failing reads, dying
receivers and restarts (assumption: `DispatcherAssumption`, which types the constants
and asks for a batch of at least one record). The invariant says that a subscriber
was served through a position of the log, all it asked for up to there, in order and
nothing else (`StreamOK`). Which position that is depends on the pass: the subscriber
being served is ahead of its stored cursor (`Progress`). `PrunedAlwaysSharesDeadId`
says what pruning by id keeps; it needs that an id in `dead` is still that of a
subscriber without a receiver when the write lock is obtained (`DeadAreDead`). That
live subscribers stay (`LiveStaysSubscribed`) does not hold: ids may be shared.
`Vec::retain` is written by the rank of
the survivors (`Nth`, `Retained`), so that what it keeps, and in which order, follows
from counting.

**Sessions.** `SessionProofs` proves `HandshakeAlwaysFirst`, `RepliesAlwaysInOrder`,
`PermitsAlwaysBalance` and `PushesAlwaysInOrder` for any number of connections and any
scripts of the clients (assumption: `SessionAssumption`: finitely many connections at
a time). The invariant reads the wire of a connection in two ways: without the
pushed records it is the answers to the frames taken so far, in each phase one more or
one fewer (`ConnectionOK`), with AuthOk and Ready as two writes of which either may
be the last (`Admitted`); and the records of one subscription are those of the log
from its first to the one its forwarder sent last (`ChannelOK`).

**Builder.** `MachineBuilderProofs` proves `AlwaysWalksDeterministically` and
`AlwaysAcceptsEveryPartialFunction` for any names and lists (assumption:
`BuilderAssumption`, which only types the constants). `ValidatesWellFormed` shows that
the three checks of `validate`, which compare entries pair by pair, pass exactly the
tables that are partial functions over declared states.

A leaf is tried with Zenon and then with SMT, 30 seconds each, and says so when it
needs SMT; the codec, which is arithmetic, tries SMT first. `RedbEngineProofs` takes
about twenty minutes, `SessionProofs` and `DispatcherProofs` about seven, `EngineProofs`
about five, the others less than two. Preparing an SMT obligation costs `tlapm` more
the more of them it has prepared, which is why SMT is not the default of the larger
modules.

Every invariant, action property and refinement of the passing runs is proved. Only
model-checked: liveness (fairness and ENABLED are outside the prover).

## Not modelled

* HTTP bodies and metrics other than the connection gauge, log output,
  timestamps, payloads: no property depends on them.
* Parsing and printing of `smdbctl` and `smash`, and their commands other than
  transitions: reads of the store and text.
* The TLS handshake, PEM files, TOML and MessagePack: libraries; what the code
  decides on their results is modelled.
* The lengths of back-off delays and time-outs: a time-out may strike at any
  moment, which includes every length.
* Effects inside change records, and reads of them that fail: the outbox is
  modelled, what a record carries is not.
* `smdb-wal`, which is empty. redb and tokio are taken at their documented
  behaviour.
* No module joins `Dispatcher`, `Session` and `Connection` end to end: each is
  checked against what its neighbour may do.
