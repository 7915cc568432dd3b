# A formal model of the Denon AVR remote

TLA+ modules for the control service of the Denon AVR remote, its API server,
its window and its files, TLC configurations that check them on small instances,
and TLAPS proofs of what holds for every instance. `PROJECT.json` maps every
definition to the lines of source it models and lists the runs, the mutated forms
that show each property can fail, the hazards and the finding.

## 1. The system

The workspace is a port-and-adapter design. A delivery program (desktop GUI,
command line, HTTP API server) talks to the *control port*; the *control
service* behind it owns operations and connections; a *receiver session* owns
the single TCP control connection the receiver accepts. Paths below are relative
to `crates/` unless they begin with `apps/`.

| Component | Source | State it keeps | Operations | Talks to |
|---|---|---|---|---|
| Operation gate | `application/src/service.rs`, `service/operations.rs` | table of operations, idempotency keys, `in_flight`, `closed` | submit, cancel, the task of an operation, its drop guard, shutdown | session (`operate`), ledger, audit log, event broadcast |
| Agent decision, budget, audit sequence | `application/src/service/agent/`, `ledger.rs` | budget ledger, write-rate windows, whether the ledger is ready | judge, reserve, settle, record, rebuild | gate, policy engine, audit log |
| Connection slots | `service/connections.rs`, `service/ports.rs` | per receiver: slot lock, held session, lease and operation counts, activity, status | lease, drop of a lease, idle release, retire after a save, shutdown | configuration file, session factory |
| Receiver session | `infrastructure/src/avr_session.rs`, `x3800h_session*` | socket, generation, event channel; canonical state, epoch | query, dispatch, reconnect; observe, synchronize, operate, close | receiver over TCP |
| Canonical state | `domain/src/receiver_state.rs`, `precondition.rs` | value, validity, epoch of each field | reduce, expire, disconnect, capture and compare a precondition | session, policy, window |
| Synchronization debt | `domain/src/sync_debt.rs` | deadlines of fields awaiting reconciliation | incur, settle, next due | session actor |
| Policy engine and source | `policy/src/`, `application/src/policy_source.rs`, `infrastructure/src/policy_yaml.rs` | the policy in force, or why there is none | evaluate, load | decision |
| Audit log on disk | `infrastructure/src/audit_jsonl.rs` | current file and rotations, next sequence number | append, rotate, query, since | decision, API |
| Token store | `infrastructure/src/token_store.rs` | one file of token digests and its copy in memory | issue, revoke, authenticate | API server |
| API server | `apps/api-server` | instance lock, sockets, event streams and their places | start, pump, shutdown | token store, control port |
| Request pipeline, contract and client | `apps/api-server`, `api-contract/`, `api-client/` | one call, one stream | authenticate, route, convert, parse events | control port on both sides |
| Window and bridge | `gui-lib/src/` | selection, subscription, state shown, controls and reads under way | update, forward, refresh, submit | control port |
| Configuration file and its writers | `infrastructure/src/config*`, `gui-lib`, `apps/cli`, `apps/api-server` | one YAML file, its backups, the window's copy | load, save, remember, PUT with an ETag | each other, through the file |
| Refusal throttle, protocol encoding, discovery, HTTP inspection, data directory, shells | | counters, or none | pure or one-shot | |

The exact source paths of each component, and why the unmodelled ones are not
modelled, are in `PROJECT.json` under `components`.

What is hard here:

* the gate's table is changed under one lock by clients (submit, cancel), by
  one task per operation and by the guard that runs when a task panics, and an
  event is published after the lock is gone;
* an agent's operation is judged, reserved, logged twice and only then written,
  a cancel may arrive between any two of those, and the ledger that holds the
  budget is lost in a crash and rebuilt from a log whose appends can time out and
  land later, by a clock that can be set back;
* the session's two tasks meet over two bounded channels and an atomic
  generation counter: the actor learns of a reconnect twice, in either order,
  and does not read events while it awaits an answer;
* the slot lock is held across a connect and a close, while the caller's future
  may be dropped at any await;
* writes to the receiver may fail after they arrived, and must not be repeated;
* the log, the tokens and the configuration are files that a crash finds in any
  intermediate state, and the configuration is rewritten by several processes;
* a request the server drops at its time limit, or whose client leaves, frees its
  locks, while what it gave to a blocking thread goes on;
* a stream must notice the revocation of its token although it may be waiting for
  a client that does not read, a receiver that does not change, or nothing;
* the window hears of states and of the results of its own commands on different
  paths, and locks controls until it is answered;
* a caller of the port must not be able to tell the socket from the service.

## 2. Modules

| Module | Models |
|---|---|
| `OperationLifecycle` | abstract: the life of an operation as the port promises it |
| `OperationGate` | the gate, detailed; implements `OperationLifecycle` |
| `OperationGateProofs` | its types, inductive invariant, its table and its count in flight, what follows, and that it implements `OperationLifecycle` |
| `ReceiverSession` | the transport task, the actor and the handle of one session, with network and receiver |
| `ReceiverSessionProofs` | theorems about `ReceiverSession` |
| `ConnectionPool` | the slot of one receiver |
| `ConnectionPoolProofs` | theorems about `ConnectionPool` |
| `ReceiverDomain` | operators: volumes, intents, the canonical state, preconditions, synchronization debt |
| `PolicyEngine` (extends `ReceiverDomain`) | operators: levels, rules, validation, the decision, the policy file |
| `AgentLedger` (extends `PolicyEngine`) | decision, budget, audit sequence and the ledger's rebuild, over restarts |
| `AgentLedgerProofs` | theorems about `AgentLedger` |
| `AuditJsonl` | the audit log's files |
| `AuditJsonlProofs` | theorems about `AuditJsonl` |
| `TokenStore` | the tokens in memory and in their file |
| `ApiServer` (extends `TokenStore`) | the server processes and their streams, composed with the store |
| `ApiServerProofs` | theorems about `TokenStore` and `ApiServer` |
| `Window` | the window, the bridge and the service as it sees it |
| `WindowProofs` | theorems about `Window` |
| `ApiContract` (extends `ReceiverDomain`) | operators: every conversion to and from the wire |
| `RemotePort` (extends `ApiContract`) | one port call and one event stream, client to service and back |
| `Configuration` (extends `ApiContract`) | the configuration file and everyone who rewrites it |
| `ConfigurationProofs` | theorems about `Configuration`, and one about `RemotePort` |
| `MCOperationGate`, `MCReceiverSession`, `MCConnectionPool`, `MCAgentLedger`, `MCRemotePort`, `MCConfiguration` | model values and functions for TLC |

Definitions called `X_Something` under the words "Mutated form" are plausible
errors in the code that `X` models. No specification uses them; each shows that
a property notices its error.

### OperationGate

An action is one critical section of `operations` or of the ledger. `pc[id]` is
where `run_operation` is: `start` (policy and ledger present?), `lease`,
`reserve` (Operator) or `judge`/`allow`/`decided`/`dispatching` (agent),
`begin` (`begin_session`), `session`, `finish`, `record`, `exit`
(`OperationTask::drop`), `done`. `unsent` marks a task between the change under
the lock and its publication. Clients have one call at a time: `spawn` is
between `admit` and `tokio::spawn`, `cancel` between cancel's read and its
change, `cancelled` between the change and the answer.

Abstractions. A request is a receiver and an intent, compared for equality, and
is always a volume change (the only kind that takes a reservation). Judging is
a free choice among allow, deny, approval unavailable and reject; an append
succeeds or fails freely; `AgentLedger` opens both up. The session is the
assumption that its outcome is honest about the write (`SessionAnswers`, first
conjunct). `HonestOutcome` of `ReceiverSession` discharges it for every operation
but one that a close of its session aborted, and `NeverUnderOperation` of
`ConnectionPool` says that the service closes no session an operation uses. An
operation whose task panicked no longer waits for an answer. `SessionWrites` is
external. `MaxOps` bounds the operations admitted and
`MaxPanics` the panics.

### ReceiverSession

`tpc` is where `run_session` is, `apc` and `why` where the actor is and what the
query it awaits is for. A *generation* is one TCP connection; an *epoch* is the
actor's name for it (generation + 1). `inbound` and `wire` are the two
directions of the socket.

Abstractions. The canonical state is one field, so synchronizing, a targeted
query and a reconciliation are all one query, and `Background` stands for the
sweep, the debt, and a client's observe and synchronize. The precondition of an
operation reads that field or does not; the re-observation of further fields a
precondition may name is not modelled. Time is gone: a timer may fire
whenever it is armed, which includes every schedule of the code. The event
channel has 32 places in the code and `EventCap` in the model; the request
channel has 16 and needs one, since the actor awaits every answer. A command
that the receiver handles after its connection was replaced has the effect of a
`Knob` step, so `inbound` is emptied when the link fails. A session that a close
has stopped answers `Indeterminate { NotDispatched }`, both to what it never
admitted (`SubmitStopped`) and to the operation the close aborted (`StopTasks`);
the second answer may be false, and `HonestOutcome` excepts it by name
(`Aborted`), see `ReceiverSessionAbort.cfg`. `MaxGen`, `MaxKnobs`,
`MaxFails` and `MaxRechecks` bound the environment.

### ConnectionPool

A session is named after the client whose lease opened it; each client leases
once, each saver saves once, and there is one receiver. `victim` is the session
the lock's holder is closing, `lingering` a session that was dropped without a
close and whose actor has not noticed yet. `AbandonLease` and `AbandonSave` drop
the caller at any of its awaits, as the API server does when a request takes too
long or its client goes away (`apps/api-server/src/pipeline.rs`). Operations run
in tasks of their own and are never dropped. The two counters of `Lease::drop`
change one after the other, as other threads see them.

### ReceiverDomain and PolicyEngine

No variables: each function of the crates is an operator on records, and an
`Option` is a set of at most one element. The policy is a sequence of rules; a
request is decided by `evaluate`, a rise is measured from the floor of the
window's levels (`floor_in_window`), and levels live on the half-decibel grid of
the receiver. `validate`, `convert_rule` and `parse` say which files load.

### AgentLedger

Time passes in minutes. `clock` is what the service reads and can be set back;
the properties speak of `time`, which cannot. `ledger`, `ready` and `op` are
memory and die in `Restart`; `log` is the disk; `late` holds records whose append
timed out and may still land. A step of an operation is one critical section of
the ledger lock or one append: `PrecheckPasses`, `ReadHistory` and `MergeHistory`
(`ensure_ledger` on first use), `Look` (the state read before the lock),
`judge` and `reserve` under it, `AppendDecided`, `AppendDispatching`, `Compare`,
`Operate`, `RecordFinished`. Policy, volume and the health of the log are chosen
where they are read: each can change at any moment between. A load of a faulty
file puts no policy in force, and agents are then refused. The session writes at
most once. Its preflight reads the volume and, if the policy read it too, refuses
unless it is what the decision read (`Compare`, `Holds`); the write comes after
that, when the volume may be another already. So a rise is measured from the level
the session last read, which is the last the code knows. The per-minute cap on writes only adds refusals and
is not a variable.

### AuditJsonl

A line is a record, a line of another version, or torn; `ended` says whether its
newline was written, `safe` whether it was synced. Appends and queries hold the
state lock, so the steps of an append (`AppendBegin`, one `rotate` per renamed
file, `Rotated`, `Write`) interleave with crashes and failing calls only. A
`Killed` process leaves what was written, a `MachineCrash` a prefix of what was
not synced. Sizes are lines and times ticks; `MARGIN` is `CLOCK_MARGIN_MILLIS`.

### TokenStore and ApiServer

A file is `Half` until its content is synced; a thread keeps hold of the file it
has open when that is renamed or removed (`Follow`). A call waits for the writing
lock, has a blocking thread write and rename, and then changes memory. The thread
outlives a call that is dropped (`DropCall`: the time limit, or a client that
leaves) and, for a while, a process that has released its instance lock (`Release`:
nobody waits for the thread). `overlapped` is history: a write or a start began
while a thread was still writing. `ApiServer` adds processes that start under one lock file
(`acquire`, `OpenStore`, `remove_stale`, `start_locked`), are signalled, drain
and end in the code's order, or are killed anywhere; and streams: the handler
authenticates, takes a place and subscribes, and the pump then polls, in order,
the client's end, shutdown, the revocation counter, its age and the next state.
`Watch` and `Look` are the two steps of `revoked`: the counter is subscribed to
before the token is looked up. Calls are dropped here as in `TokenStore`;
`TokensKept` says what holds until `overlapped`, `TokenStoreDropped.cfg` what
happens after.

### Window

The window's `update` is one action per message; each leaves commands for the
bridge, whose loop is `TakeCommand`, `TakeState`, `TakeEnd` and `TakeDone`.
Controls, refreshes and reads are tasks. The bridge waits for room in the channel
to the window and forwards only the newest state. A published state carries, for the
properties only, the session it is of and the controls whose effect it includes.
The window's `connection` and a read's `from` repeat it; a new selection starts
without one (`Unconnected`), as `connect_to` starts it without a state.

### ApiContract, RemotePort

For each value the server's form and the client's reading of it. An enumeration
goes by its name; what is modelled is all that a conversion drops, adds, rounds
or checks: moments before 1970, fractions of a millisecond, texts that only the
Operator is shown, ranges, blank texts, the seconds of a wait. `RemotePort` takes
one call through `Ask`, the pipeline (`Refuse`), a route (`Serve`), and
`Receive`; a stream may find no place (`NoPlace`), a wait may be ended by the
revocation of its token (`WaitRevoked`), and `save_configuration` is two requests,
one for the tag and one under it (`SendPut`), of which the second makes three calls
of the service (`PutRuns`); and one stream through `SendState`, `Arrive` (bytes in chunks cut
anywhere) and `Take`. A byte is a line end, a name or a value of a line. Since
each call has its own connection, one call is all there is to interleave.

### Configuration

`file` is an `Option` of a text; a text has keys, parses or not, and a body of
one of the two schemas. A save is `save_configuration`, `ReadExisting`,
`write_backup`, `install_config`, each of which may fail, and every writer runs
one: the window's receiver saver and favourites saver, the command line's
`remember`, two PUTs of the API, and a hand edit in one step. A PUT can be dropped
anywhere (`DropPut`): the lock is free, and what its blocking thread has begun, the
copy of the old file (`KeepingEnds`) or the rename (`RenamingEnds`), still ends, or
fails. The other writers are not requests and are not dropped. One save of a
receiver by the window is under way at a time, which is a bound of the model: a
second one can be started in the code, and overlaps with the first as with the
favourites saver (`ConfigurationOverlap.cfg`).

## 3. Runs

| Run | Checks | Shows |
|---|---|---|
| `operation_gate` | `NoTwins`, `CancelWins`, `HonestEnd`, `LedgerCoversWrites`, `ReservationReleased`, `EndAnnounced`, `ImplementsLifecycle` | 2.3 million states: the Operator's client and an agent's, one receiver request, one key, a panic, shutdown |
| `operation_gate_live` | `EveryOperationEnds`, `ShutdownReturns` | two operations of an agent at once end, also after a panic, and shutdown returns |
| `receiver_session` | `NoReplay`, `HonestOutcome`, `QuiescentEpoch` | 1.9 million states: one operation with a precondition, one reconnect, a failed attempt, a change at the receiver, an event channel that overflows, a close; answers are true but for an operation the close aborted |
| `receiver_session_live` | `EveryCallEnds`, `Converges`, `CloseReturns` | calls are answered and the state comes to be the receiver's, though lines are dropped, unless the transport waits for room for ever; close returns even then |
| `session_stall` | `MonitoringGoesOn` (violated) | failed reconnects fill the event channel while the actor awaits an answer: both wait for ever |
| `connection_pool` | `OneSession`, `NeverUnderOperation`, `SubscribersTold`, `AddressInFile`, `ShutdownLeavesNone`, `IdleReleased` | a reader, an operation, a save, the idle timers and shutdown, with callers dropped anywhere |
| `agent_ledger` | `BudgetHolds`, `ReadyCountsWrites`, `WriteIsOnRecord` | agents and the Operator change the volume side by side, over a restart, a clock set back and appends that fail or land late: no agent's rise over the level its session last read exceeds the budget |
| `audit_log` | `SyncedKept`, `AckedSeqRises`, `SinceComplete` | two faults anywhere among appends and rotations lose no synced record, repeat no acknowledged number, and hide no record of a query |
| `server` | `ServesAlone`, `TokensKept`, `OneEventAfterRevocation`, `RevokedStreamEnds` | two processes, a stream, a token issued and revoked, dropped calls, kills and restarts |
| `window` | `ReportAfterState`, `ReadsOfThisConnection`, `WaitsAreAnswered` | a report never overtakes its effect, a late read is not shown for a later connection, and no control stays locked |
| `remote_port` | `SameAnswer`, `RefusedMeansNotDone`, `StreamReadsAlike` | every call of the port, `save_configuration` included, with every kind of value, error, id, credential and timing reads as it would in the process, or has one of the causes `SameError` names: a refused credential, one revoked during a wait, too large a body, no place for a stream, a configuration that changed meanwhile or cannot be one, another contract version, a server out of time |
| `configuration` | `WindowMatchesFile`, `KeptBeforeReplaced`, `NoEditLost` | the window, the command line, two PUTs, dropped anywhere, and a hand edit on one file |

`session_stall` contradicts a comment of the code; the finding quotes it.
Lifecycle events wait for room in the event channel, and the actor reads no
event while it awaits an answer. After as many failed reconnects as there are
places, transport and actor wait for each other.

### Counterexamples kept beside the runs

Each of these configurations states something one could expect of the code, and
TLC finds it violated. They document limits of what the runs above say.

| Configuration | Module | Property | What TLC finds |
|---|---|---|---|
| `OperationGateLog.cfg` | `MCOperationGate` | `LogSaysWhatWasTold` | `run_operation` ends a request it cannot judge with `inner.finish` and logs `rejected` whatever `finish` answered: a cancel that won is logged as a rejection |
| `ReceiverSessionAbort.cfg` | `MCReceiverSession` | `AbortHonest` | a close that waited its 250 ms stops the actor; the caller of the operation it ran is told `NotDispatched`, also when the write was made |
| `ReceiverSessionAuthority.cfg` | `MCReceiverSession` | `Authority` | a dispatch is not tied to the connection it was judged on: it waits in the request channel and is made on the next |
| `ReceiverSessionEvidence.cfg` | `MCReceiverSession` | `EvidenceBelongs` | `query_and_reduce` reads the generation after the answer arrived, so the answer can carry the epoch of a later connection |
| `ConnectionPoolDropped.cfg` | `MCConnectionPool` | `OneConnection` | `lease_as`, dropped at its synchronize, drops the new session without closing it, and the next lease opens another while the first is still up |
| `TokenStoreDropped.cfg` | `TokenStore` | `RevokedForGood` | a call dropped at its time limit frees the writing lock while its thread goes on; the thread renames an older list over a newer one, and a revoked token is back after a restart |
| `AuditJsonlSeq.cfg` | `AuditJsonl` | `SeqRises` | an append that fails at its sync leaves its whole line in the file and the counter as it was: the next record has the same number (`AckedSeqRises` counts acknowledged records only) |
| `ConfigurationOverlap.cfg` | `MCConfiguration` | `KeepsEverything` | the window's two savers each read the file and write the whole of it; the one that renames last undoes the other |
| `ConfigurationDropped.cfg` | `MCConfiguration` | `NoEditLostToDrops` | a PUT dropped during its rename frees `config_lock`, and the rename goes on: it overwrites what another PUT wrote, or comes between that one's comparison and its rename |

### Bounds

* Gate: the interesting cases need two operations (a retry and its original, an
  eviction and the operation that causes it, a write that counts while another
  is judged), two principals, one key, a retention limit of one (so that an
  eviction happens) and one panic. `Retained = 1` and `UnfinishedLimit = 1`
  reach both limits. The liveness run gives one agent two requests, so that two
  tasks run side by side.
* Session: one reconnect is enough for old and new evidence to meet, one failed
  attempt for a second `disconnected` of the same generation, one knob for a
  line that is older than an answer; an event channel of two overflows with them.
  The liveness run has a channel of one: lines are dropped, a line waits behind
  an answer, and the stall is reachable, so that `CloseReturns` is checked in it.
  `session_stall` uses three places and three failed attempts.
* Pool: two clients, one of them an operation, race for the lock, the idle timer
  of the first with the lease of the second, and one save with both. The safety
  invariants were also checked with three clients (1.7 million states) and with
  two savers (1.1 million).
* Ledger: two operations and two runs put a write before and after a restart, or
  two side by side; a window of one minute, time up to two and a clock set back by
  one put an entry inside, at the edge of and outside the window, where it is
  pruned. The policy allows the volume and asks for approval of a rise over two
  half steps; to the target 4 the level 2 is within it and 0 beyond it. The
  invariants were also checked with targets 0 and 4 and a window of two minutes
  (5.4 million states).
* Audit log: two lines to a file and two files, so that the third record rotates
  and the deletion of a file happens within the four; two faults, because the
  second finds what the first left.
* Server: two processes for the lock, two starts, two callers that wait for one
  another. One blocking thread: a second can only begin where `overlapped` is set,
  after which `TokensKept` says nothing (`TokenStoreDropped.cfg` has two). One
  stream: its properties are about each stream alone, and another touches it only
  through the principal's places; for any number of streams the invariants are
  proved.
* Window: two receivers to select between, two requests, two epochs, three
  sessions and one disturbance, a channel of three (a state and two answers): a
  reselection, a reconnect and a late answer fit in (782 000 states). The three
  invariants were also checked with one receiver, two sessions, a channel of two
  and two disturbances (3.0 million states); for every instance they are proved.
* Remote port: for each call at least one answer with its optional parts and one
  without, a time that is not a whole millisecond and one before 1970, every
  status and error; ids with a slash and with the reserved prefix; lines ended by
  LF or CR LF, cut anywhere; two events and three revisions. A body that arrives
  slowly gets a 408 after `body_timeout`, which is the client's own limit: its
  caller has given up, as after any answer that does not come in time.
* Configuration: three beginnings among all writers, two backups (so that they
  run out), files of both schemas, a blank, a torn, a later and an inconsistent
  one.

`CHECK_DEADLOCK FALSE`: in the pool every client leases once, and in the modules
from the ledger on the environment is bounded (operations, records, starts,
requests), a call is made once, or a closed window ends; the system may come to
rest there. The gate and the session have an explicit `Stopped` step after
shutdown and close, and otherwise may not deadlock.

### Fairness

* Gate: tokio runs every task and every begun call; a session answers each call.
  Submits, cancels, panics, writes and the start of a shutdown need not happen.
  That a session answers is `EveryCallEnds` of `ReceiverSession`, and so rests
  on the event channel having room.
* Session: both tasks run, timers fire, the receiver handles what arrives. The
  actor's `select!` chooses at random among ready branches, so a branch that is
  ready again and again is taken: strong fairness for events, commands and
  timers. Nothing is assumed of clients, knobs, failures of the link, and
  nothing of `Close`: `CloseReturns` follows from its timeout. `EveryCallEnds`
  and `Converges` have the premise `[]<>~AwaitsRoom`, that the transport is
  not left waiting for room for a lifecycle event: `session_stall` shows that
  the code does not guarantee it.
* Pool: every task runs and the tokio mutex is fair to its waiters (strong
  fairness). A reader may keep its lease for ever; an operation ends, which is
  `EveryOperationEnds` of the gate.
* Server: the pump's task and the steps of a shutdown run (weak fairness).
  Nothing is assumed of clients, of the receiver's changes, or of signals.
* The other modules state safety only, over every schedule.

## 4. Proofs

Every theorem holds for all values of the constants that the `ASSUME`s named
below admit, and so for any number of clients, operations, faults and restarts;
TLC evaluates the assumptions of each instance, and has checked every inductive
invariant on the run's instance (those of the window with one receiver and one
control). A theorem `Spec => []P` about a property that a run checks is listed with
`P` in parentheses.

### Gate

`OperationGateProofs` proves, for any sets of clients, agents,
requests and keys, any limits and any numbers of operations and panics:

* `TypeCorrect`: `Spec => []TypeOK`.
* `CancelsWin`: an operation a client was told is cancelled is never handed to
  the session.
* `EndsAreHonest`: an operation that ended `not_dispatched` has not written, and
  does not later, also when its task panicked and left a call behind.
* `LedgerCovers`: every write that reached the receiver has its place in the
  ledger.
* `KeysAlwaysResolve`: every idempotency key leads to an entry of the table, the
  one admitted with it. (`admit` indexes the table by it and would panic.)
* `IdenticalRunOnce`: identical requests of one principal never run side by side.
* `InFlightIsExact`: the count shutdown waits for is exact, on every path.
* `ReservationsAreReleased` (`ReservationReleased`): a task that ended in order
  without calling the session left no place in the ledger.
* `EndsAreAnnounced` (`EndAnnounced`): once a task is over, the end of its
  operation was published before shutdown ended the streams, or is about to be by
  the client that cancelled it.
* `GateImplementsLifecycle`: the gate implements `OperationLifecycle`. Initial
  states map to initial states, and each step to a step or a stutter: an
  admission to `Admit`, a task's `finish` to `Refuse`, `EndBefore` or
  `EndInSession`, `begin_session` to `EnterSession`, and so on.

The only assumption is `GateAssumption`: the Operator is no agent, every client
has a principal, `NoKey` is not a key, the outcomes are ones the session's type
allows, and the bounds are natural numbers.

`CancelWins`, `HonestEnd` and `LedgerCoversWrites` are not inductive:
`wrote \subseteq counted`, for one, is
kept by `SessionWrites` only if a pending call implies a reservation, which in
turn depends on where the task is. `GateInv` adds this: `OpInv` ties, for each
operation, the place of its task to its status, its call, its reservation and
what its client was told, and `ClientInv` says what a client in the middle of a
cancel knows of its operation. `GateInvariant` proves it with one step per
action, and the theorems above follow. `KeysAlwaysResolve` needs only the types
beside itself: an admission drops exactly the keys of the entries it evicts.
`ReservationInv` follows a place in the ledger from `reserve` or `judge` to
`finish`, and `EndInv` an end from its change to its publication.
The refinement needs `RefInv` in addition: an agent's operation is not allowed
before it was judged, and a task about to end its operation carries a resolution
that fits what the operation went through.

### Pool

`ConnectionPoolProofs` proves, for any numbers of clients, operations, savers and
addresses: `PoolTypeCorrect`,
`OneSessionAtATime`, `OperationsKeepTheirSession`, `SubscribersAreTold`,
`StatusIsTrue`, `SavedAddressUsed` and `ShutdownIsFinal`. `PoolAssumption` says
that the clients are finitely many, the operations among them, and that `None`
is neither a client nor a host. The inductive invariant `PoolInv` has these
parts, each checked by TLC before it was proved:

* `CountInv`: `operations` and `leases` are the numbers of leases of their kind
  (without it, "drained" would say nothing about the leases);
* `LockInv`: the lock's holder is the one task between taking and giving it back;
* `SlotInv`: a session that is up is in the slot, or is what the lock's holder is
  opening or closing, and never two of these at once;
* `LeaseInv`, `UseInv`: an operation's lease is on the session in the slot, any
  other on that one or on one whose end was told;
* `ShutInv`: after the drain no operation runs, and once shutdown has had the
  lock nobody connects;
* `AddressInv`: while a session to an outdated address is in the slot or on its
  way, the saver of the present address has not finished;
* `StatusTrue` itself.

### Session

`ReceiverSessionProofs`, from `SessionAssumption` (the values and bounds have
their types, `None` is no value and `"close"`, which waits in the queue with the
operations, is none of them):

* `NeverReplayed` (`NoReplay`): no command is written twice, whatever fails and
  however often the transport reconnects;
* `OutcomesAreHonest` (`HonestOutcome`): an outcome that denies a write follows
  none, unless a close aborted that operation, and one that admits a write follows
  an attempt;
* `EpochIsQuiescent` (`QuiescentEpoch`): once every notification is handled, the
  published epoch is that of the connection in use.

That the actor has one request out at a time, which is in the channel, with the
transport or answered (`RequestInv`), decides where a write can still come from;
`ActorInv` and `QueueInv` tie each call to the actor or to one place in the
queue; `SendInv` then counts the writes of each operation. For the epoch
`EpochInv` adds what the feed shows of the generation (`FeedInv`), why an epoch is
missing (`LossInv`), and that no reconnect of this connection is notified after
its loss (`OrderInv`).

### Ledger

`AgentLedgerProofs`:

* `BudgetsHold` (`BudgetHolds`): an agent's rise over the level its session last
  read stays within every budget that binds it, measured over real time, across
  restarts, appends that fail or land late, and a clock that is set back;
* `ReadyLedgersCount` (`ReadyCountsWrites`): a ledger that is ready counts every
  agent's write of the retention time;
* `WritesAreOnRecord` (`WriteIsOnRecord`): no agent's write without its
  `Dispatching` record on disk.

`LedgerAssumption`: entries are kept for the widest window, levels and targets
are volumes, and the clock does not reach its beginning. `PolicyFilesAssumption`:
policy files have the form serde gives them; a rule has at most one budget, and
its rise is a span. Which budgets bind is not assumed but proved: those of files
that `validate` accepts (`ValidBudget`). `IInv` has a part for each place that
knows of a change: who reserved or wrote it (`OpInv`, `WriteInv`), the ledger's
entry, dated no earlier than the clock was behind (`LedgerInv`), the record
(`RecordInv`), and a rebuild that has read records but not merged them yet
(`HeldInv`). `BudgetInv` is the decision made durable: a change that was allowed
stays within its budgets against everything that was reserved before it, since
whatever is reserved later cannot come into its window.

### Audit log

`AuditJsonlProofs`, from `AuditAssumption` (a file has room for a line, one file
is kept, the other constants are naturals):

* `SyncedRecordsAreKept` (`SyncedKept`), `AckedNumbersRise` (`AckedSeqRises`) and
  `SinceIsComplete` (`SinceComplete`), for any sizes and numbers of files, any
  margin, and any number of records, failures, kills and crashes.

`AuditInv` compares lines by place. An acknowledged line is whole and starts on a
line of its own (`LinesOk`); of two lines the later was appended later, and has
the higher number if the earlier was acknowledged (`PairsOk`): unacknowledged
lines may share a number (`SeqRises` is violated), and still `highest_seq`, worked
out from the newest file alone, is above every acknowledged one (`HighestSeq`).
A line's date is at most the file's plus the margin, because the two are read from
one clock (`ceiling`). While a rotation is under way there is no moved file just
above one that is still to be moved (`RotationInv`), so no rename overwrites, and
the file that is deleted is the oldest. Steps are handled by what they do to the
files: all but a write carry lines over (`Carried`, `CarriedOk`), a write or its
remains add one (`Grown`, `GrownOk`).

### Tokens and server

`ApiServerProofs`, from `TokenStoreAssumption` (the two marks are distinct from
what they stand beside) and `ApiServerAssumption`:

* `ServerServesAlone` (`ServesAlone`), by `ProcessInv`: the lock names the one
  process that is not off;
* `TokensAreKept` (`TokensKept`), by `StoreInv`. Types and each caller's place
  (`CallInv`) are invariant whatever is dropped. The rest, `Sound`, holds until
  `overlapped`, that is until a write or a start begins while a thread still
  writes: the file is whole and keeps what was told (`FileInv`), the one thread at
  work has the temporary file to itself and renames a content that keeps it too
  (`ThreadInv`), and the file has as revoked what memory has (`MemoryInv`) -- it
  need not be the memory, because the thread of a dropped call changes the one and
  not the other. With `overlapped` the code promises none of it;
* `OneEventIsTheLast` (`OneEventAfterRevocation`), by `StreamInv`.

`TypeOK` of the gate and of the pool, `InFlightExact`, `KeysResolve` and
`StatusTrue` are proved for every instance and are in no run.

### Configuration

`ConfigurationProofs`, from `ConfigurationAssumption`: `MaxBackups` is a number,
the file is there or not, and a text that loads has finite favourites lists.
Lemmas about the operators come first: what is read is tidy (`DecodedShape`), what
is written is read back as it was, less the blank texts (`WrittenReadsBack`), and
equal tags are equal configurations (`SameTag`, since the list of a finite set
holds the set: `ListOfSet`). `OneWriterMoves` says that a step moves one writer or
none.

* `BackupsComeFirst` (`KeptBeforeReplaced`), by `SaveInv`: backups are numbered
  from 0 without a gap, so the number taken is free, and a save at `install` has
  found nothing to keep or has kept it;
* `EditsAreNotLost` (`NoEditLost`), by `LockInv`: a PUT that saves and whose client
  still waits holds the lock, and while the server was the last to write, the file
  reads as what its client read. What dropped PUTs left behind holds no lock and
  counts, when it renames, as a writer outside the server (`DropsAside`). It needs `ConfigInv`, that all that is held is a configuration, since only
  of those do tags tell;
* `WindowIsSaved` (`WindowMatchesFile`), by `WindowInv`: one favourites save at a
  time and at most one click behind it, what it saves has the receivers shown
  (`Carries`), and each saver wants what the window shows or will show.

### Window

`WindowProofs`, from `WindowAssumption` (controls and capabilities are among
those of the code, the channel to the window has room for a state and an answer,
the bounds are naturals):

* `WindowIsTyped`, and `SelectionsAndSessions`: selections on their way are
  numbered in order behind the one the bridge serves, and its subscription is to
  the open session of its receiver or to one that ended;
* `WaitsEnd` (`WaitsAreAnswered`): what the window waits for is on its way;
* `ReportsFollowStates` (`ReportAfterState`): a report comes after the state that
  includes its effect;
* `ReadsAreOfThisConnection` (`ReadsOfThisConnection`): a read is not shown in a
  later connection of its session.

The actions are first sorted into eleven kinds of step by what they do to the
window, the channels and the sessions (`StepsAre`: `Quiet`, `Reselect`,
`Listens`, `Selects`, `Resubscribes`, `Dispatches`, `Forwards`, `Finishes`,
`Publishes`, `Ends`, `TakesEffect`); the lemmas before it say what each operator
of the reducer keeps (`Keeps`, `Asks`, `Followed`). The invariants are then proved
kind by kind.

* `Numbered`, `SessionsInv` and `Waits` make up `Basics`. `Waits` is
  `WaitsAreAnswered` with its place on the way spelled out; it is kept because no
  selection behind a command can be older than the window's, so what is dropped on
  the way is never what the window waits for.
* `Reporting` adds `EffectsInv` (a completed control is in the state its session
  last published, or kept), `ForwardedInv` (what the loop noted as forwarded is
  what was told last) and `ReportsInv` (each report under way or told has a state
  ahead of it that includes it, and all later ones of the session do).
* `Reading` is for the reads. A read is recognised by its generation, which is the
  epoch while the window is connected and counts up from it when a connection is
  lost: numbers of two origins that can coincide. That a late answer is
  nevertheless of the connection shown depends on all the bridge can send, so
  the window, the events under way and the bridge are taken as one stream of
  places. `StreamInv`: along it sessions only rise, a session's end is told before
  the next one's first state, and epochs do not go back in a session. `PastInv`:
  whatever was seen of a session is not later than its newest epoch, so that what
  is sent next is not behind it. `ReadsInv`: a read under way was asked for in the
  connection shown, or under a generation below the window's, and no state on its
  way goes behind it; what is shown fits.

The proof corrected the model: `ReadsInv` failed at a reselection, because the
history field `connection` kept the old session's name, and TLC found
`ReadsOfThisConnection` violated with three requests, where the run has two.

### A call of the port

`RefusalsAreTrue` (`RefusedMeansNotDone`) of `RemotePort` is at the end of
`ConfigurationProofs`, over an instance of the module, and needs no assumption. By
`CallInv` the service has not been asked to change anything while a request is on
its way (the first request of `save_configuration` only reads), an answer that is
not a success comes from the pipeline or from the service's own error, and
the client's limit for a changing call is shorter than the server's: a 408, which
the client reads as `invalid_request` although the handler may have finished, never
reaches one.

### Only model-checked

* Liveness, of the gate, the session, the pool and the server: the prover handles
  neither fairness nor `ENABLED`.
* `SameAnswer` and `StreamReadsAlike` of `RemotePort`. Taking a path apart into the
  segments it was put together from, and reading a stream back from chunks cut
  anywhere, are folds over sequences of any length: induction over data, which the
  prover's library cannot be used for.

## 5. Plan

Done: the gate, the pool, the session, the ledger with the policy, the audit log,
the tokens and the server, the window, the configuration, the contract and its
client, each with its proofs. What could follow, in this order:

1. An abstract session that `ReceiverSession` implements and that
   `OperationGate` and `AgentLedger` use, in place of the informal link from
   `HonestOutcome` and `NeverUnderOperation` to `SessionAnswers`.
2. The deadlines of the synchronization debt on a clock; the fields a
   precondition names one by one.
3. What the Operator is shown of a policy that failed to load; the refusal throttle.

## 6. Not modelled

* Protocol encoding (the receiver's text, XML, HEOS) and the JSON of the API:
  pure conversions of characters. What the API's conversions do to values is in
  `ApiContract`; the text itself is serde's.
* Discovery (SSDP), HTTP inspection and the choice of the data directory:
  one-shot, no state of their own. What they return crosses the wire in
  `RemotePort`.
* The refusal throttle: which refused accesses are logged and how many were
  suppressed. Its only effect is a number in a log line.
* Views, dashboard, design, layout, arguments, output, log files and diagnostic
  probes of the delivery programs: no protocol state.
* What the Operator is shown of the policy: `AgentLedger` reads any policy, or
  none, at any moment. A faulty file puts none in force (`load_policy`), so which
  files were in force before does not matter.
* Over-long lines of an event stream and a token in a query string: single
  checks without state.
* The second save of a receiver that the window can start while one is under way
  (section 2, Configuration). Dropped requests are modelled where the code leaves
  something behind: in `TokenStore` and `ApiServer`, `ConnectionPool`,
  `Configuration` and, for the answer, `RemotePort`. What they break is in the
  counterexamples of section 3.
* The session's per-field details (fields that behave alike), deadlines in
  milliseconds, and the contents of messages are abstracted as section 2 says.
