--------------------------- MODULE OperationGate ---------------------------
(***************************************************************************)
(* The Operation Gate of the control service: the table of operations      *)
(* (service/operations.rs), the task that runs one admitted operation      *)
(* (service.rs, run_operation and its guard OperationTask), the agent's     *)
(* decision procedure as far as the gate sees it (agent/decision.rs), and  *)
(* submit, cancel and shutdown.                                            *)
(*                                                                         *)
(* Every step below is one critical section of `operations` (or of the     *)
(* ledger): what lies between two lock acquisitions, an await or a         *)
(* publication included, is where other clients and tasks interleave.      *)
(*                                                                         *)
(* The service modelled is the one ControlService::start builds, with an   *)
(* agent path and an audit log. A request stands for a receiver and an     *)
(* intent, compared only for equality; every request is a volume change,   *)
(* so every one takes a place in the budget ledger.                        *)
(***************************************************************************)
EXTENDS Integers, FiniteSets

CONSTANTS
  Operator,         \* the Operator principal
  Agents,           \* the agents' labels
  Clients,          \* the connections that call the port
  PrincipalOf,      \* the principal each client's handle is bound to
  Requests,         \* receiver and intent
  Keys, NoKey,      \* idempotency keys; None
  Outcomes,         \* the outcomes of a session explored
  Retained,         \* ServiceConfig::retained_operations
  UnfinishedLimit,  \* AgentLimits::unfinished_operations
  MaxOps,           \* bound of the model: operations admitted
  MaxPanics         \* bound of the model: tasks that panic

Principals == Agents \cup {Operator}
Ids == 1..MaxOps

\* OperationStatus. The approval states exist in the type, and is_cancellable
\* lists them, but no code enters them.
Pending == {"submitted", "allowed"}
Ended == {"denied", "approval_unavailable", "cancelled", "completed",
          "already_in_state", "rejected", "superseded", "indeterminate"}
Statuses == Pending \cup {"in_session"} \cup Ended

\* DispatchCertainty.
Certainties == {"not_dispatched", "complete_write", "unknown"}
Resolutions == [status : Ended, dispatch : Certainties]

\* OperationOutcome, as a session may report it.
SessionOutcomes ==
  { [kind |-> "ObservedRequestedValue", dispatch |-> "complete_write"],
    [kind |-> "ObservedRequestedValue", dispatch |-> "unknown"],
    [kind |-> "AlreadyObserved", dispatch |-> "not_dispatched"],
    [kind |-> "RejectedBeforeDispatch", dispatch |-> "not_dispatched"],
    [kind |-> "Cancelled", dispatch |-> "not_dispatched"],
    [kind |-> "SupersededBeforeDispatch", dispatch |-> "not_dispatched"],
    [kind |-> "Indeterminate", dispatch |-> "not_dispatched"],
    [kind |-> "Indeterminate", dispatch |-> "complete_write"],
    [kind |-> "Indeterminate", dispatch |-> "unknown"] }

ASSUME GateAssumption ==
  /\ Operator \notin Agents
  /\ PrincipalOf \in [Clients -> Principals]
  /\ NoKey \notin Keys
  /\ Outcomes \subseteq SessionOutcomes
  /\ Retained \in Nat /\ UnfinishedLimit \in Nat
  /\ MaxOps \in Nat /\ MaxPanics \in Nat

VARIABLES
  \* the table, under the lock of `operations`
  next_id,    \* ids allocated so far
  table,      \* the ids of `entries`
  sub,        \* owner, key and request of each entry
  status,     \* the snapshot's status ...
  dispatch,   \* ... and dispatch certainty
  keys,       \* (owner, key) -> id, 0 when absent
  phase,      \* "open", "closing" (closed is set), "closed" (shutdown returned)
  in_flight,  \* operations whose task has not ended
  \* one task per operation
  pc,         \* where run_operation is
  res,        \* the resolution it is about to report
  unsent,     \* tasks that ended their operation and have not published it
  \* one call at a time per client
  cpc, cid,   \* what the client is doing, and to which operation
  \* the session, the ledger and the log
  call,       \* the call into the session's operate
  wrote,      \* operations whose command reached the receiver
  counted,    \* operations with a place in the budget ledger
  log,        \* the status of the Finished record
  \* history
  told,       \* operations a client was told are cancelled
  announced,  \* operations whose end was published
  died        \* operations whose task panicked

PCs == {"none", "start", "refused", "lease", "reserve", "judge", "allow",
        "decided", "dispatching", "begin", "withdrawn", "session", "finish",
        "record", "exit", "done"}

tableVars == <<next_id, table, sub, keys>>
taskVars == <<pc, res, unsent>>
clientVars == <<cpc, cid>>
snapshot == <<status, dispatch>>
outside == <<call, wrote>>
history == <<told, announced, died>>
vars == <<next_id, table, sub, status, dispatch, keys, phase, in_flight,
          pc, res, unsent, cpc, cid, call, wrote, counted, log, told, announced,
          died>>

NoSub == [owner |-> Operator, key |-> NoKey, request |-> "none"]
NoRes == [status |-> "rejected", dispatch |-> "not_dispatched"]

Init ==
  /\ next_id = 0 /\ table = {} /\ phase = "open" /\ in_flight = 0
  /\ sub = [id \in Ids |-> NoSub]
  /\ status = [id \in Ids |-> "none"]
  /\ dispatch = [id \in Ids |-> "not_dispatched"]
  /\ keys = [ok \in Principals \X Keys |-> 0]
  /\ pc = [id \in Ids |-> "none"]
  /\ res = [id \in Ids |-> NoRes]
  /\ cpc = [c \in Clients |-> "idle"] /\ cid = [c \in Clients |-> 0]
  /\ call = [id \in Ids |-> "none"]
  /\ log = [id \in Ids |-> "none"]
  /\ unsent = {} /\ wrote = {} /\ counted = {}
  /\ told = {} /\ announced = {} /\ died = {}

-----------------------------------------------------------------------------
(* The table: admission, retention, transitions.                           *)

is_terminal(s) == s \in Ended
is_cancellable(s) == s \in Pending
Running(id) == id \in table /\ ~is_terminal(status[id])

\* The task of an operation is at a place, with nothing left to publish.
At(id, where) == pc[id] = where /\ id \notin unsent
Go(id, where) == pc' = [pc EXCEPT ![id] = where]
IsAgent(id) == sub[id].owner \in Agents

\* How a session's outcome reads to clients.
resolve(outcome) ==
  [status |-> CASE outcome.kind = "ObservedRequestedValue" -> "completed"
                [] outcome.kind = "AlreadyObserved" -> "already_in_state"
                [] outcome.kind = "RejectedBeforeDispatch" -> "rejected"
                [] outcome.kind = "Cancelled" -> "cancelled"
                [] outcome.kind = "SupersededBeforeDispatch" -> "superseded"
                [] outcome.kind = "Indeterminate" -> "indeterminate",
   dispatch |-> outcome.dispatch]

not_dispatched(s) == [status |-> s, dispatch |-> "not_dispatched"]

\* Mutated form: an identical request still running is not looked for.
Existing_KeyOnly(owner, key, request) ==
  key \in Keys /\ keys[<<owner, key>>] # 0

\* A retry finds what exists: by its key, or as the same request still running.
Existing(owner, key, request) ==
  \/ key \in Keys /\ keys[<<owner, key>>] # 0
  \/ \E id \in table : /\ Running(id)
                       /\ sub[id].owner = owner /\ sub[id].request = request

\* An agent's new write must fit its cap on unfinished operations; the
\* Operator's always does. The cap on writes a minute only refuses more.
admit_write(owner) ==
  owner \in Agents =>
    Cardinality({id \in table : Running(id) /\ sub[id].owner = owner})
      < UnfinishedLimit

\* How many entries must go so that one more fits (saturating subtraction).
Excess ==
  LET keep == IF Retained = 0 THEN 0 ELSE Retained - 1
  IN IF Cardinality(table) > keep THEN Cardinality(table) - keep ELSE 0

\* The oldest finished operations beyond the retention limit. Ids grow with
\* admission order, so the oldest are the smallest.
evict_finished ==
  LET finished == {id \in table : is_terminal(status[id])}
  IN {id \in finished : Cardinality({j \in finished : j < id}) < Excess}

\* The keys of evicted entries go; the new entry's key, if any, points to it.
KeysAfter(evicted, owner, key, id) ==
  [ok \in Principals \X Keys |->
     IF ok = <<owner, key>> THEN id
     ELSE IF \E e \in evicted : <<sub[e].owner, sub[e].key>> = ok THEN 0
     ELSE keys[ok]]

TakeId == next_id' = next_id + 1

\* submit, up to the end of admit's critical section. Every refusal, and a
\* retry that finds what exists, changes nothing.
Submit(c, request, key) ==
  LET owner == PrincipalOf[c]
      id == next_id + 1
      evicted == evict_finished
  IN /\ cpc[c] = "idle"
     /\ phase = "open"
     /\ ~Existing(owner, key, request)
     /\ admit_write(owner)
     /\ next_id < MaxOps
     /\ TakeId
     /\ table' = (table \ evicted) \cup {id}
     /\ sub' = [sub EXCEPT ![id] = [owner |-> owner, key |-> key,
                                    request |-> request]]
     /\ status' = [status EXCEPT ![id] = IF owner = Operator THEN "allowed"
                                         ELSE "submitted"]
     /\ keys' = KeysAfter(evicted, owner, key, id)
     /\ in_flight' = in_flight + 1
     /\ cpc' = [cpc EXCEPT ![c] = "spawn"] /\ cid' = [cid EXCEPT ![c] = id]
     /\ UNCHANGED <<dispatch, phase, taskVars, outside, counted, log, history>>

\* A client's call returns.
Return(c) ==
  cpc' = [cpc EXCEPT ![c] = "idle"] /\ cid' = [cid EXCEPT ![c] = 0]

\* submit publishes the first snapshot and spawns the operation's task.
Spawn(c) ==
  /\ cpc[c] = "spawn"
  /\ Go(cid[c], IF IsAgent(cid[c]) THEN "start" ELSE "lease")
  /\ Return(c)
  /\ UNCHANGED <<tableVars, snapshot, phase, in_flight, res, unsent, outside,
                 counted, log, history>>

-----------------------------------------------------------------------------
(* Cancel: a read, then a change under the lock, then the publication.     *)

CancelRead(c, id) ==
  /\ cpc[c] = "idle"
  /\ id \in table
  /\ PrincipalOf[c] = Operator \/ sub[id].owner = PrincipalOf[c]
  /\ is_cancellable(status[id])
  /\ cpc' = [cpc EXCEPT ![c] = "cancel"] /\ cid' = [cid EXCEPT ![c] = id]
  /\ UNCHANGED <<tableVars, snapshot, phase, in_flight, taskVars, outside,
                 counted, log, history>>

\* An operation that moved on, or is gone, answers TooLate or NotFound.
CancelChange(c) ==
  /\ cpc[c] = "cancel"
  /\ IF cid[c] \in table /\ is_cancellable(status[cid[c]])
     THEN /\ status' = [status EXCEPT ![cid[c]] = "cancelled"]
          /\ cpc' = [cpc EXCEPT ![c] = "cancelled"]
          /\ UNCHANGED cid
     ELSE /\ Return(c)
          /\ UNCHANGED status
  /\ UNCHANGED <<tableVars, dispatch, phase, in_flight, taskVars, outside,
                 counted, log, history>>

\* The event goes to whoever still listens; then the client has its answer.
CancelAnswer(c) ==
  /\ cpc[c] = "cancelled"
  /\ announced' = IF phase = "closed" THEN announced
                  ELSE announced \cup {cid[c]}
  /\ told' = told \cup {cid[c]}
  /\ Return(c)
  /\ UNCHANGED <<tableVars, snapshot, phase, in_flight, taskVars, outside,
                 counted, log, died>>

-----------------------------------------------------------------------------
(* The operation's task.                                                   *)

\* Mutated form: a reservation is never released.
settle_Kept(id, dispatched) == UNCHANGED counted

\* `settle`: a write that did not go out gives its place in the ledger back.
settle(id, dispatched) ==
  counted' = IF dispatched THEN counted ELSE counted \ {id}

\* Mutated form: what is over already is ended again.
finish_Again(id, resolution) ==
  /\ status' = [status EXCEPT ![id] = resolution.status]
  /\ dispatch' = [dispatch EXCEPT ![id] = resolution.dispatch]
  /\ unsent' = unsent \cup {id}

\* `finish`: end the operation unless it is over or gone. The publication
\* follows outside the lock.
finish(id, resolution) ==
  IF Running(id)
  THEN /\ status' = [status EXCEPT ![id] = resolution.status]
       /\ dispatch' = [dispatch EXCEPT ![id] = resolution.dispatch]
       /\ unsent' = unsent \cup {id}
  ELSE UNCHANGED <<snapshot, unsent>>

\* `publish`, from the task that made the change.
Publish(id) ==
  /\ id \in unsent
  /\ unsent' = unsent \ {id}
  /\ announced' = IF phase = "closed" THEN announced ELSE announced \cup {id}
  /\ UNCHANGED <<tableVars, snapshot, phase, in_flight, pc, res, clientVars,
                 outside, counted, log, told, died>>

\* An agent's request needs a policy and a ledger before the receiver is
\* opened; without them it is refused at once.
Precheck(id) ==
  /\ At(id, "start")
  /\ \/ /\ Go(id, "lease")
        /\ UNCHANGED <<snapshot, res, unsent>>
     \/ /\ finish(id, not_dispatched("rejected"))
        /\ res' = [res EXCEPT ![id] = not_dispatched("rejected")]
        /\ Go(id, "refused")
  /\ UNCHANGED <<tableVars, phase, in_flight, clientVars, outside, counted,
                 log, history>>

\* record_finished: the append may fail or time out, which is not reported.
Record(id, s) == log' = [log EXCEPT ![id] = s] \/ UNCHANGED log

\* record_refused: written once a minute, so perhaps not this one.
RecordRefused(id) ==
  /\ At(id, "refused")
  /\ Record(id, res[id].status)
  /\ Go(id, "exit")
  /\ UNCHANGED <<tableVars, snapshot, phase, in_flight, res, unsent,
                 clientVars, outside, counted, history>>

\* lease_as: a receiver out of reach ends the operation. The Operator's is not
\* recorded, an agent's is.
Lease(id) ==
  /\ At(id, "lease")
  /\ \/ /\ Go(id, IF IsAgent(id) THEN "judge" ELSE "reserve")
        /\ UNCHANGED <<snapshot, res, unsent>>
     \/ /\ IsAgent(id)
        /\ res' = [res EXCEPT ![id] = not_dispatched("rejected")]
        /\ Go(id, "finish")
        /\ UNCHANGED <<snapshot, unsent>>
     \/ /\ ~IsAgent(id)
        /\ finish(id, not_dispatched("rejected"))
        /\ Go(id, "exit")
        /\ UNCHANGED res
  /\ UNCHANGED <<tableVars, phase, in_flight, clientVars, outside, counted,
                 log, history>>

\* begin_operator_write: the Operator's write is counted, never limited.
Reserve(id) ==
  /\ At(id, "reserve")
  /\ counted' = counted \cup {id}
  /\ Go(id, "begin")
  /\ UNCHANGED <<tableVars, snapshot, phase, in_flight, res, unsent,
                 clientVars, outside, log, history>>

\* decide, up to judge: the policy refuses, holds or allows; an allowed write
\* takes its place in the ledger in the same step.
Judge(id) ==
  /\ At(id, "judge")
  /\ \/ /\ counted' = counted \cup {id}
        /\ Go(id, "allow")
        /\ UNCHANGED res
     \/ /\ \E s \in {"denied", "approval_unavailable", "rejected"} :
             res' = [res EXCEPT ![id] = not_dispatched(s)]
        /\ Go(id, "finish")
        /\ UNCHANGED counted
  /\ UNCHANGED <<tableVars, snapshot, phase, in_flight, unsent, clientVars,
                 outside, log, history>>

\* decide gives up: what was reserved is released.
Stop(id, s) ==
  /\ settle(id, FALSE)
  /\ res' = [res EXCEPT ![id] = not_dispatched(s)]
  /\ Go(id, "finish")

\* submitted becomes allowed, unless a cancel already won.
Allow(id) ==
  /\ At(id, "allow")
  /\ IF id \in table /\ status[id] = "submitted"
     THEN /\ status' = [status EXCEPT ![id] = "allowed"]
          /\ Go(id, "decided")
          /\ UNCHANGED <<counted, res>>
     ELSE /\ Stop(id, "cancelled")
          /\ UNCHANGED status
  /\ UNCHANGED <<tableVars, dispatch, phase, in_flight, unsent, clientVars,
                 outside, log, history>>

\* The Decided record is appended, or cannot be. A cancel during the append
\* stops the request.
AppendDecided(id) ==
  /\ At(id, "decided")
  /\ \/ Stop(id, "rejected")
     \/ IF id \in table /\ status[id] = "allowed"
        THEN Go(id, "dispatching") /\ UNCHANGED <<counted, res>>
        ELSE Stop(id, "cancelled")
  /\ UNCHANGED <<tableVars, snapshot, phase, in_flight, unsent, clientVars,
                 outside, log, history>>

\* The Dispatching record is on disk before the write, or there is no write.
AppendDispatching(id) ==
  /\ At(id, "dispatching")
  /\ \/ Go(id, "begin") /\ UNCHANGED <<counted, res>>
     \/ Stop(id, "rejected")
  /\ UNCHANGED <<tableVars, snapshot, phase, in_flight, unsent, clientVars,
                 outside, log, history>>

\* Mutated form: only an operation already there is kept out.
MayEnter_NotChecked(id) == id \in table /\ status[id] # "in_session"

MayEnter(id) == id \in table /\ status[id] = "allowed"

\* begin_session: into the session, unless it was withdrawn first.
BeginSession(id) ==
  /\ At(id, "begin")
  /\ IF MayEnter(id)
     THEN /\ status' = [status EXCEPT ![id] = "in_session"]
          /\ call' = [call EXCEPT ![id] = "pending"]
          /\ Go(id, "session")
     ELSE /\ Go(id, "withdrawn")
          /\ UNCHANGED <<status, call>>
  /\ UNCHANGED <<tableVars, dispatch, phase, in_flight, res, unsent,
                 clientVars, wrote, counted, log, history>>

\* Withdrawn: nothing was dispatched, so nothing stays counted, and the record
\* says cancelled.
Withdrawn(id) ==
  /\ At(id, "withdrawn")
  /\ settle(id, FALSE)
  /\ Record(id, "cancelled")
  /\ Go(id, "exit")
  /\ UNCHANGED <<tableVars, snapshot, phase, in_flight, res, unsent,
                 clientVars, outside, history>>

\* Mutated form: only a write known to be complete counts.
MayHaveWritten_Complete(certainty) == certainty = "complete_write"

MayHaveWritten(certainty) == certainty # "not_dispatched"

\* The session's answer, and settle by it, before the operation reads as
\* finished.
SessionAnswers(id) ==
  /\ At(id, "session")
  /\ \E o \in Outcomes :
       /\ id \in wrote => o.dispatch # "not_dispatched"
       /\ res' = [res EXCEPT ![id] = resolve(o)]
       /\ settle(id, MayHaveWritten(o.dispatch))
  /\ call' = [call EXCEPT ![id] = "answered"]
  /\ Go(id, "finish")
  /\ UNCHANGED <<tableVars, snapshot, phase, in_flight, unsent, clientVars,
                 wrote, log, history>>

\* The session, external to the gate: the command reaches the receiver. A task
\* that panicked leaves its call behind, which may still write.
SessionWrites(id) ==
  /\ call[id] = "pending" /\ id \notin wrote
  /\ wrote' = wrote \cup {id}
  /\ UNCHANGED <<tableVars, snapshot, phase, in_flight, taskVars, clientVars,
                 call, counted, log, history>>

\* finish_agent: end the operation ...
FinishAgent(id) ==
  /\ At(id, "finish")
  /\ finish(id, res[id])
  /\ Go(id, "record")
  /\ UNCHANGED <<tableVars, phase, in_flight, res, clientVars, outside,
                 counted, log, history>>

\* ... and record it, as the gate resolved it or, when a cancel won, as the
\* operation ended, if it is still there.
RecordFinished(id) ==
  /\ At(id, "record")
  /\ Record(id, IF id \in table THEN status[id] ELSE res[id].status)
  /\ Go(id, "exit")
  /\ UNCHANGED <<tableVars, snapshot, phase, in_flight, res, unsent,
                 clientVars, outside, counted, history>>

\* A panic anywhere in the task unwinds to its guard.
Panic(id) ==
  /\ pc[id] \notin {"none", "exit", "done"} /\ id \notin unsent
  /\ Cardinality(died) < MaxPanics
  /\ Go(id, "exit")
  /\ died' = died \cup {id}
  /\ UNCHANGED <<tableVars, snapshot, phase, in_flight, res, unsent,
                 clientVars, outside, counted, log, told, announced>>

\* Mutated form: a task that did not finish is taken not to have written.
Unresolved_NotDispatched(id) == not_dispatched("rejected")

\* How the guard ends an operation that its task left unresolved.
Unresolved(id) ==
  IF status[id] = "in_session"
  THEN [status |-> "indeterminate", dispatch |-> "unknown"]
  ELSE not_dispatched("rejected")

\* Mutated form: only what is in the session is resolved.
LeftRunning_InSession(id) == id \in table /\ status[id] = "in_session"

LeftRunning(id) == Running(id)

\* Mutated form: the task is not counted out.
CountOut_Forgotten == UNCHANGED in_flight

CountOut == in_flight' = in_flight - 1

\* OperationTask::drop: resolve honestly what was left running, then count out.
DropGuard(id) ==
  /\ At(id, "exit")
  /\ IF LeftRunning(id)
     THEN /\ finish(id, Unresolved(id))
          /\ UNCHANGED <<pc, in_flight, res>>
     ELSE /\ CountOut
          /\ Go(id, "done")
          /\ res' = [res EXCEPT ![id] = NoRes]
          /\ UNCHANGED <<snapshot, unsent>>
  /\ UNCHANGED <<tableVars, phase, clientVars, outside, counted, log, history>>

-----------------------------------------------------------------------------
(* Shutdown.                                                               *)

ShutdownBegin ==
  /\ phase = "open"
  /\ phase' = "closing"
  /\ UNCHANGED <<tableVars, snapshot, in_flight, taskVars, clientVars,
                 outside, counted, log, history>>

\* Mutated form: shutdown waits for nothing.
NoneInFlight_NotAwaited == TRUE

NoneInFlight == in_flight = 0

\* No operation in flight: the sessions are closed and the event streams end.
ShutdownEnd ==
  /\ phase = "closing"
  /\ NoneInFlight
  /\ phase' = "closed"
  /\ UNCHANGED <<tableVars, snapshot, in_flight, taskVars, clientVars,
                 outside, counted, log, history>>

\* After shutdown nothing need happen.
Stopped == phase = "closed" /\ UNCHANGED vars

-----------------------------------------------------------------------------
Task(id) ==
  \/ Precheck(id) \/ RecordRefused(id) \/ Lease(id) \/ Reserve(id) \/ Judge(id)
  \/ Allow(id) \/ AppendDecided(id) \/ AppendDispatching(id)
  \/ BeginSession(id) \/ Withdrawn(id) \/ SessionAnswers(id)
  \/ FinishAgent(id) \/ RecordFinished(id) \/ DropGuard(id) \/ Publish(id)

Client(c) == Spawn(c) \/ CancelChange(c) \/ CancelAnswer(c)

Next ==
  \/ \E c \in Clients, request \in Requests, key \in Keys \cup {NoKey} :
       Submit(c, request, key)
  \/ \E c \in Clients : Client(c)
  \/ \E c \in Clients, id \in Ids : CancelRead(c, id)
  \/ \E id \in Ids : Task(id) \/ Panic(id) \/ SessionWrites(id)
  \/ ShutdownBegin \/ ShutdownEnd \/ Stopped

Spec == Init /\ [][Next]_vars

\* Tasks run on the service's runtime, a call once begun goes on, and shutdown
\* goes on once begun. A session answers every call. Submits, cancels, panics,
\* writes and the start of a shutdown need never happen.
Fairness ==
  /\ \A id \in Ids : WF_vars(Task(id))
  /\ \A c \in Clients : WF_vars(Client(c))
  /\ WF_vars(ShutdownEnd)

FairSpec == Spec /\ Fairness

-----------------------------------------------------------------------------
(* Properties.                                                             *)

\* The values the variables range over.
TypeOK ==
  /\ next_id \in 0..MaxOps
  /\ table \subseteq 1..next_id
  /\ sub \in [Ids -> [owner : Principals, key : Keys \cup {NoKey},
                      request : Requests \cup {"none"}]]
  /\ status \in [Ids -> Statuses \cup {"none"}]
  /\ dispatch \in [Ids -> Certainties]
  /\ keys \in [Principals \X Keys -> 0..MaxOps]
  /\ phase \in {"open", "closing", "closed"}
  /\ in_flight \in Int
  /\ pc \in [Ids -> PCs]
  /\ res \in [Ids -> Resolutions]
  /\ cpc \in [Clients -> {"idle", "spawn", "cancel", "cancelled"}]
  /\ cid \in [Clients -> 0..MaxOps]
  /\ \A c \in Clients : cpc[c] # "idle" => cid[c] \in 1..next_id
  /\ call \in [Ids -> {"none", "pending", "answered"}]
  /\ log \in [Ids -> Statuses \cup {"none"}]
  /\ unsent \subseteq Ids /\ wrote \subseteq Ids /\ counted \subseteq Ids
  /\ told \subseteq Ids /\ announced \subseteq Ids /\ died \subseteq Ids

\* Shutdown waits for in_flight to be zero: it counts exactly the operations
\* admitted whose task has not ended, those not spawned yet included, so it
\* never underflows and never reaches zero early.
InFlightExact ==
  in_flight = Cardinality({id \in 1..next_id : pc[id] # "done"})

\* admit indexes `entries` with the id a key maps to, which panics under the
\* lock if the entry is gone. Every key leads to an entry, and to the entry
\* that was admitted with it.
KeysResolve ==
  \A ok \in Principals \X Keys :
    keys[ok] # 0 => /\ keys[ok] \in table
                    /\ <<sub[keys[ok]].owner, sub[keys[ok]].key>> = ok

\* Identical requests of one principal run once: no two unfinished entries
\* share owner and request.
NoTwins ==
  \A i, j \in table :
    /\ Running(i) /\ Running(j)
    /\ sub[i].owner = sub[j].owner /\ sub[i].request = sub[j].request
    => i = j

\* "A cancel either wins before the session is called or is told it is too
\* late": an operation a client was told is cancelled is never handed to the
\* session, then or later.
CancelWins == \A id \in told : call[id] = "none"

\* An operation that ended `not_dispatched` did not write to the receiver,
\* whichever of the task, a cancel, or the guard of a panicked task ended it,
\* and whatever a call left behind by that task still does.
HonestEnd ==
  \A id \in wrote : is_terminal(status[id]) => dispatch[id] # "not_dispatched"

\* A write that reached the receiver has its place in the budget ledger from
\* before the write on.
LedgerCoversWrites == wrote \subseteq counted

\* "Nothing was dispatched, so nothing stays counted": a task that ended in
\* order without calling the session left no reservation behind.
ReservationReleased ==
  \A id \in counted \ died : pc[id] \in {"exit", "done"} => call[id] # "none"

\* Whoever follows the events learns every end: when an operation's task is
\* over its end was published, before shutdown ended the streams, or is about
\* to be by the client that cancelled it.
EndAnnounced ==
  \A id \in Ids :
    pc[id] = "done" => \/ id \in announced
                       \/ status[id] = "cancelled" /\ phase = "closed"
                       \/ \E c \in Clients : cpc[c] = "cancelled" /\ cid[c] = id

\* What the audit log says of an operation is what its client was told
\* (finish_agent: "The log says what the client was told, not what the gate
\* would have said"). It does not hold: RecordRefused logs a rejection whatever finish
\* answered.
LogSaysWhatWasTold ==
  \A id \in told : log[id] \in {"none", "cancelled"}

\* The gate implements the lifecycle its clients are promised.
Lifecycle ==
  INSTANCE OperationLifecycle
    WITH called <- {id \in Ids : call[id] # "none"}

ImplementsLifecycle == Lifecycle!Spec

\* Every operation admitted comes to an end, by its task, a cancel, or the
\* guard of a panicked task.
EveryOperationEnds ==
  \A id \in Ids : (id \in table) ~> is_terminal(status[id])

\* Shutdown waits for operations in flight and is never left waiting.
ShutdownReturns == (phase = "closing") ~> (phase = "closed")
=============================================================================
