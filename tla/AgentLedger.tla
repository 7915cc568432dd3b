---------------------------- MODULE AgentLedger ----------------------------
(***************************************************************************)
(* The budget of agent volume writes across time, restarts and a failing   *)
(* log (crates/application: ledger.rs, service/agent.rs and agent/*.rs).   *)
(*                                                                         *)
(* One receiver.  Time passes in ticks of a minute; the service reads a    *)
(* clock that can be set back.  Its ledger of volume changes is memory and *)
(* is rebuilt after a restart from the audit log, whose appends can fail,  *)
(* or time out and land later.  A session's operate reads the volume again *)
(* and compares it with what the decision read, then writes at most once;  *)
(* the volume may be turned between the two (ReceiverSession has the       *)
(* session itself).                                                        *)
(*                                                                         *)
(* Three things can change at any moment and are chosen where they are     *)
(* read instead of kept: the policy in force (the file is edited and       *)
(* loaded again), the volume (it is turned at the receiver) with what the  *)
(* session last saw of it, and the health of the log.                      *)
(***************************************************************************)
EXTENDS PolicyEngine

CONSTANTS
    Ids,          \* operation ids of one run
    Targets,      \* the levels asked for
    Levels,       \* the levels found at the receiver
    ShownVolume,  \* what the session can show of the volume
    PolicyFiles,  \* what the policy file can hold: rule lists that load
    RETENTION,    \* how long entries are kept, in ticks
    MaxTime, MaxSetBack, MaxRuns, MaxOps

StartClock == 100

(* The clock never comes to its own beginning. *)
ASSUME LedgerAssumption ==
    /\ RETENTION = MAX_WINDOW_MINUTES
    /\ Levels \cup Targets \subseteq LOWEST .. HIGHEST
    /\ ShownVolume \subseteq {None} \cup {Some(l) : l \in Levels}
    /\ MaxSetBack \in 0 .. StartClock - 1

(* A rule has at most one budget, whose rise is a span. *)
Budgeted(rule) ==
    \A b \in rule.conditions.budget :
      rule.conditions.budget = Some(b) /\ b.rise \in 0 .. WIDEST_SPAN

ASSUME PolicyFilesAssumption ==
    \A rules \in PolicyFiles :
      PolicyConfig(rules) /\ \A i \in DOMAIN rules : Budgeted(rules[i])

VARIABLES
    time,      \* ticks that really passed
    behind,    \* how far the clock was set back
    run,       \* when this service started: names its operation ids
    ledger,    \* entries [key, at, before, target]
    ready,     \* the ledger was rebuilt from the log
    rebuilding,\* who holds the rebuild, with what it read
    log,       \* the records on disk, Dispatching ones synced
    late,      \* records whose append timed out and can still land
    op,        \* the operations of this run
    turn,      \* operations submitted and reservations made so far
    runs,      \* start times used so far
    writes     \* history: what operations wrote

vars == <<time, behind, run, ledger, ready, rebuilding, log, late, op, turn, runs, writes>>
books == <<ledger, ready, rebuilding>>
disk == <<log, late>>
clockvars == <<time, behind, run, runs>>

clock == StartClock + time - behind

Boot == 0
Callers == Ids \cup {Boot}

Idle == [pc |-> "idle"]

key(id) == <<run, id>>

(***************************************************************************)
(* The ledger.                                                             *)
(***************************************************************************)
saturating_sub(at, span) == IF at > span THEN at - span ELSE 0

recent(entries, now, window) ==
    {e \in entries : e.at > saturating_sub(now, window)}

prune(entries, now) == {e \in entries : e.at >= saturating_sub(now, RETENTION)}

settle(entries, k, dispatched) ==
    IF dispatched THEN entries ELSE {e \in entries : e.key # k}

(* An operation both hold is counted once, as the first one has it. *)
merge(held, other) ==
    held \cup {e \in other : \A existing \in held : existing.key # e.key}

level_or_lowest(steps) == IF steps \in LOWEST .. HIGHEST THEN steps ELSE LOWEST

\* Mutated form: only records of this run of the program count.
rebuild_ThisRun(records, now) ==
    prune({[key |-> r.key, at |-> r.at, before |-> r.before, target |-> r.target] :
           r \in {d \in records : d.event = "Dispatching" /\ d.key[1] = run}}, now)

(* Every Dispatching record counts unless its operation is known not to    *)
(* have dispatched; one without a Finished record may have been written.   *)
rebuild(records, now) ==
    LET not_dispatched ==
            {r.key : r \in {f \in records : f.event = "Finished" /\ ~f.dispatched}}
        counted ==
            {r \in records : r.event = "Dispatching" /\ r.key \notin not_dispatched}
    IN  prune({[key |-> r.key, at |-> r.at,
                before |-> {level_or_lowest(b) : b \in r.before},
                target |-> level_or_lowest(r.target)] : r \in counted}, now)

(* The log's answer to since. *)
since(from) == {r \in log : r.at >= from}

(***************************************************************************)
(* Records and appends.  An append that fails or times out is the audit    *)
(* health until one succeeds; a timed-out one may land at any later time.  *)
(* Of the records only those a rebuild tells apart are kept.               *)
(***************************************************************************)
Dispatching(id) ==
    [event |-> "Dispatching", key |-> key(id), at |-> clock,
     before |-> op[id].before, target |-> op[id].target]
Finished(id, dispatched) ==
    [event |-> "Finished", key |-> key(id), at |-> clock, dispatched |-> dispatched]

Kept(record) ==
    \/ record.event = "Dispatching"
    \/ /\ record.event = "Finished" /\ ~record.dispatched
       /\ \E r \in log \cup late : r.key = record.key

append_within(record, ok) ==
    IF ~Kept(record) THEN UNCHANGED disk
    ELSE IF ok THEN log' = log \cup {record} /\ late' = late
    ELSE log' = log /\ late' \in {late, late \cup {record}}

LandLate ==
    \E record \in late :
      /\ log' = log \cup {record}
      /\ late' = late \ {record}
      /\ UNCHANGED <<op, turn, writes, books, clockvars>>

(* load_policy puts what it loaded in force, and nothing when that failed. *)
load_policy == {None} \cup {Some(rules) : rules \in PolicyFiles}

(***************************************************************************)
(* Reading the history: one caller at a time, the read and the merge apart.*)
(***************************************************************************)
Goto(id, pc) == op' = [op EXCEPT ![id].pc = pc]
At(id, pc) == op' = [op EXCEPT ![id] = [pc |-> pc]]

Submit(id, agent) ==
    /\ id # Boot /\ op[Boot].pc = "done" /\ op[id] = Idle
    /\ \A other \in Ids : other < id => op[other] # Idle
    /\ turn.submitted < MaxOps
    /\ turn' = [turn EXCEPT !.submitted = @ + 1]
    /\ op' = [op EXCEPT ![id] = [pc |-> IF agent THEN "precheck" ELSE "leased",
                                 agent |-> agent]]
    /\ UNCHANGED <<writes, books, disk, clockvars>>

(* There may be no policy in force.  The record of a refusal that comes    *)
(* before a Dispatching record is not one a rebuild reads: it is left out. *)
PrecheckRefuses(id) ==
    /\ op[id].pc = "precheck" /\ id # Boot
    /\ At(id, "done")
    /\ UNCHANGED <<turn, writes, books, disk, clockvars>>

PrecheckPasses(id) ==
    /\ op[id].pc = "precheck"
    /\ ready
    /\ Goto(id, IF id = Boot THEN "done" ELSE "leased")
    /\ UNCHANGED <<turn, writes, books, disk, clockvars>>

ReadHistory(id) ==
    /\ op[id].pc = "precheck"
    /\ ~ready /\ rebuilding = None
    /\ rebuilding' = Some([by |-> id, now |-> clock,
                           records |-> since(saturating_sub(clock, RETENTION))])
    /\ Goto(id, "merging")
    /\ UNCHANGED <<ledger, ready, turn, writes, disk, clockvars>>

(* The log cannot be read, or not within REBUILD_TIMEOUT. *)
ReadFails(id) ==
    /\ op[id].pc = "precheck"
    /\ ~ready /\ rebuilding = None
    /\ At(id, "done")
    /\ UNCHANGED <<turn, writes, books, disk, clockvars>>

MergeHistory(id) ==
    /\ op[id].pc = "merging"
    /\ \E held \in rebuilding :
         /\ held.by = id
         /\ ledger' = merge(rebuild(held.records, held.now), ledger)
    /\ ready' = TRUE
    /\ rebuilding' = None
    /\ Goto(id, IF id = Boot THEN "done" ELSE "leased")
    /\ UNCHANGED <<turn, writes, disk, clockvars>>

(***************************************************************************)
(* Judging and reserving.  The policy and the shown state are read first;  *)
(* the ledger is read, the request decided and its change reserved in one  *)
(* step under the ledger lock.                                             *)
(***************************************************************************)
Look(id) ==
    /\ op[id].pc = "leased"
    /\ \E policy \in load_policy, shown \in ShownVolume, target \in Targets :
         op' = [op EXCEPT ![id] =
                  IF op[id].agent /\ policy = None THEN [pc |-> "done"]
                  ELSE [pc |-> "looked", agent |-> op[id].agent, target |-> target,
                        before |-> shown, policy |-> IF op[id].agent THEN policy ELSE None]]
    /\ UNCHANGED <<turn, writes, books, disk, clockvars>>

PolicyInput(id, rules) ==
    [agent |-> "agent", receiver |-> "receiver",
     intent |-> [kind |-> "volume",
                 arg |-> IF op[id].target = LOWEST THEN Minimum ELSE Some(op[id].target)],
     volume |-> op[id].before, now |-> clock,
     recent |-> recent(ledger, clock, longest_window(rules))]

reserve(id, next, baseline) ==
    /\ turn' = [turn EXCEPT !.reserved = @ + 1]
    /\ ledger' = prune(ledger, clock) \cup
                   {[key |-> key(id), at |-> clock,
                     before |-> op[id].before, target |-> op[id].target]}
    /\ op' = [op EXCEPT ![id] =
                 [pc |-> next, agent |-> @.agent, target |-> @.target, before |-> @.before,
                  policy |-> @.policy, at |-> time, turn |-> turn.reserved,
                  baseline |-> baseline, seen |-> None]]

(* Denied or held for approval, or allowed with no epoch to bind it to: a  *)
(* best-effort Decided record and the end.                                 *)
JudgeRefuses(id) ==
    /\ op[id].pc = "looked" /\ op[id].agent
    /\ At(id, "done")
    /\ UNCHANGED <<turn, writes, books, disk, clockvars>>

\* Mutated form: other operations count only once they have ended.
judge_Finished(id) ==
    /\ op[id].pc = "looked" /\ op[id].agent
    /\ \E rules \in op[id].policy :
         LET decision == evaluate([PolicyInput(id, rules) EXCEPT !.recent =
                             {e \in @ : \A other \in Ids :
                                 e.key = key(other) => op[other].pc = "done"}], rules)
         IN  decision.effect = "allow" /\ reserve(id, "allowed", decision.baseline)
    /\ UNCHANGED <<ready, rebuilding, writes, disk, clockvars>>

judge(id) ==
    /\ op[id].pc = "looked" /\ op[id].agent
    /\ \E rules \in op[id].policy :
         LET decision == evaluate(PolicyInput(id, rules), rules)
         IN  decision.effect = "allow" /\ reserve(id, "allowed", decision.baseline)
    /\ UNCHANGED <<ready, rebuilding, writes, disk, clockvars>>

(* An Operator is counted and never limited; with a log known to be        *)
(* failing its two records are skipped.                                    *)
OperatorReserves(id) ==
    /\ op[id].pc = "looked" /\ ~op[id].agent
    /\ \E next \in {"allowed", "dispatch"} : reserve(id, next, {})
    /\ UNCHANGED <<ready, rebuilding, writes, disk, clockvars>>

(***************************************************************************)
(* The two records before the write.  An agent without them is refused; an *)
(* Operator goes ahead.  A cancel withdraws what was not called yet.       *)
(***************************************************************************)
Release(id) == ledger' = settle(ledger, key(id), FALSE)

AppendDecided(id) ==
    /\ op[id].pc = "allowed"
    /\ \E ok \in BOOLEAN :
         IF ok THEN Goto(id, "decided") /\ UNCHANGED ledger
         ELSE IF op[id].agent THEN At(id, "done") /\ Release(id)
         ELSE Goto(id, "dispatch") /\ UNCHANGED ledger
    /\ UNCHANGED <<ready, rebuilding, turn, writes, disk, clockvars>>

\* Mutated form: a failed append is ignored.
AppendDispatching_Ignored(id) ==
    /\ op[id].pc = "decided"
    /\ \E ok \in BOOLEAN : append_within(Dispatching(id), ok)
    /\ Goto(id, "dispatch")
    /\ UNCHANGED <<books, turn, writes, clockvars>>

AppendDispatching(id) ==
    /\ op[id].pc = "decided"
    /\ \E ok \in BOOLEAN :
         /\ append_within(Dispatching(id), ok)
         /\ IF ok \/ ~op[id].agent THEN Goto(id, "dispatch") /\ UNCHANGED ledger
            ELSE At(id, "refused") /\ Release(id)
    /\ UNCHANGED <<ready, rebuilding, turn, writes, clockvars>>

Withdrawn(id) ==
    /\ op[id].pc \in {"decided", "dispatch"}
    /\ At(id, "refused")
    /\ Release(id)
    /\ UNCHANGED <<ready, rebuilding, turn, writes, disk, clockvars>>

(***************************************************************************)
(* The session's operate and the settling of its answer.                   *)
(***************************************************************************)
(* The preflight fails, the precondition does not hold any more, or the    *)
(* target is there already: nothing is written.                            *)
OperateRefuses(id) ==
    /\ op[id].pc \in {"dispatch", "compared"}
    /\ At(id, "refused")
    /\ Release(id)
    /\ UNCHANGED <<ready, rebuilding, turn, writes, disk, clockvars>>

(* What the preflight reads is what the decision was bound to. *)
Holds(id, seen) == "volume" \in op[id].baseline => op[id].before = seen

Compare(id) ==
    /\ op[id].pc = "dispatch" /\ op[id].agent
    /\ \E level \in Levels :
         /\ Holds(id, Some(level))
         /\ op' = [op EXCEPT ![id].pc = "compared", ![id].seen = Some(level)]
    /\ UNCHANGED <<turn, writes, books, disk, clockvars>>

(* Written, or perhaps written: the answer does not tell them apart here.  *)
(* Nothing is compared any more, and an Operator's request never was.      *)
Operate(id) ==
    /\ \/ op[id].pc = "compared"
       \/ op[id].pc = "dispatch" /\ ~op[id].agent
    /\ writes' = writes \cup
         {[key |-> key(id), agent |-> op[id].agent, at |-> op[id].at,
           turn |-> op[id].turn, seen |-> op[id].seen, before |-> op[id].before,
           target |-> op[id].target, policy |-> op[id].policy]}
    /\ ledger' = settle(ledger, key(id), TRUE)
    /\ At(id, "written")
    /\ UNCHANGED <<ready, rebuilding, turn, disk, clockvars>>

RecordFinished(id) ==
    /\ op[id].pc \in {"refused", "written"}
    /\ \E ok \in BOOLEAN : append_within(Finished(id, op[id].pc = "written"), ok)
    /\ At(id, "done")
    /\ UNCHANGED <<turn, writes, books, clockvars>>

(***************************************************************************)
(* Time passes, the clock is set back, and the service stops at any point  *)
(* and starts again; records that were not synced may be lost then.        *)
(***************************************************************************)
Tick ==
    /\ time < MaxTime
    /\ time' = time + 1
    /\ UNCHANGED <<behind, run, runs, op, turn, writes, books, disk>>

SetBack ==
    /\ behind < MaxSetBack
    /\ behind' = behind + 1
    /\ UNCHANGED <<time, run, runs, op, turn, writes, books, disk>>

Fresh == [id \in Callers |-> IF id = Boot THEN [pc |-> "precheck"] ELSE Idle]

Restart ==
    /\ Cardinality(runs) < MaxRuns
    /\ clock \notin runs
    /\ run' = clock
    /\ runs' = runs \cup {clock}
    /\ ledger' = {} /\ ready' = FALSE /\ rebuilding' = None
    /\ late' = {}
    /\ log' \in {(log \ lost) : lost \in SUBSET {r \in log : r.event # "Dispatching"}}
    /\ op' = Fresh
    /\ UNCHANGED <<time, behind, turn, writes>>

Init ==
    /\ time = 0 /\ behind = 0 /\ run = StartClock /\ runs = {StartClock}
    /\ ledger = {} /\ ready = FALSE /\ rebuilding = None
    /\ log = {} /\ late = {}
    /\ op = Fresh
    /\ turn = [submitted |-> 0, reserved |-> 0] /\ writes = {}

Step(id) ==
    \/ \E agent \in BOOLEAN : Submit(id, agent)
    \/ PrecheckRefuses(id) \/ PrecheckPasses(id)
    \/ ReadHistory(id) \/ ReadFails(id) \/ MergeHistory(id)
    \/ Look(id) \/ JudgeRefuses(id) \/ judge(id) \/ OperatorReserves(id)
    \/ AppendDecided(id) \/ AppendDispatching(id) \/ Withdrawn(id)
    \/ OperateRefuses(id) \/ Compare(id) \/ Operate(id) \/ RecordFinished(id)

Next ==
    \/ \E id \in Callers : Step(id)
    \/ LandLate \/ Tick \/ SetBack \/ Restart

Spec == Init /\ [][Next]_vars

(***************************************************************************)
(* Properties.                                                             *)
(***************************************************************************)
(* A rule whose budget every volume change of the agent has to keep: it    *)
(* bears on agent and receiver, and nothing but the budget is asked of it. *)
Binds(rule) ==
    LET c == rule.conditions
    IN  /\ scope_matches(rule, "agent", "receiver")
        /\ c.target_above = None /\ c.increase_over_baseline = None
        /\ c.baseline_volume_above = None

(* The budget over real time: a rise an agent's write asks for, from the   *)
(* level the session last read, ends no further than the allowed rise      *)
(* above that level and above every level another counted change of the    *)
(* window started from or asked for, whatever was restarted, timed out,    *)
(* set back or turned at the receiver meanwhile.  An Operator's change is  *)
(* counted within its run.  The receiver itself may have been turned since *)
(* that read: the rise it makes is not bounded (Authority of               *)
(* ReceiverSession has such a write).                                      *)
BudgetHolds ==
    \A w \in writes : w.agent => \A level \in w.seen : w.target > level =>
      \A rules \in w.policy : \A i \in {k \in DOMAIN rules : Binds(rules[k])} :
      \A b \in rules[i].conditions.budget :
        /\ w.target - level <= b.rise
        /\ \A v \in writes :
             /\ v.turn < w.turn /\ v.at > w.at - b.window
             /\ v.agent \/ v.key[1] = w.key[1]
             => \A l \in v.before \cup {v.target} : w.target - l <= b.rise

(* A ledger that calls itself ready counts every agent write of the last   *)
(* RETENTION, those of earlier runs included (ensure_ledger, rebuild).     *)
ReadyCountsWrites ==
    ready => \A w \in writes :
      w.agent /\ w.at > time - RETENTION => \E e \in ledger : e.key = w.key

(* No agent write without its Dispatching record on disk (decide): the log *)
(* a restart reads knows of every write that may have been made.           *)
WriteIsOnRecord ==
    \A w \in writes : w.agent =>
      \E r \in log : r.event = "Dispatching" /\ r.key = w.key /\ r.target = w.target
=============================================================================
