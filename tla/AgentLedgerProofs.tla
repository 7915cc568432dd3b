------------------------- MODULE AgentLedgerProofs -------------------------
(***************************************************************************)
(* Proofs about the budget of agent writes, for every set of policy files, *)
(* levels and ids, and for any number of runs, operations and ticks.       *)
(***************************************************************************)
EXTENDS AgentLedger, WellFoundedInduction, TLAPS

-----------------------------------------------------------------------------
(* Least and greatest numbers.                                             *)

\* A set of integers with a lower bound has a least one.
LEMMA LeastExists ==
  ASSUME NEW a \in Int, NEW S \in SUBSET Int, S # {}, \A x \in S : a <= x
  PROVE  \E x \in S : \A y \in S : x <= y
<1> DEFINE T == {x - a : x \in S}
<1>1. T \subseteq Nat /\ T # {}
  <2>1. \A x \in S : x - a \in Nat
    OBVIOUS
  <2>2. QED  BY <2>1
<1>2. PICK n \in T : \A m \in T : <<m, n>> \notin OpToRel(<, Nat)
  BY <1>1, NatLessThanWellFounded, WFMin
<1>3. \A m \in T : ~(m < n)
  BY <1>1, <1>2 DEF OpToRel
<1>4. PICK x \in S : n = x - a
  OBVIOUS
<1>5. ASSUME NEW y \in S  PROVE x <= y
  <2>1. y - a \in T
    OBVIOUS
  <2>2. ~(y - a < x - a)
    BY <1>3, <1>4, <2>1
  <2>3. x \in Int /\ y \in Int
    OBVIOUS
  <2>4. QED  BY <2>2, <2>3
<1>6. QED  BY <1>5

\* A set of integers with an upper bound has a greatest one.
LEMMA GreatestExists ==
  ASSUME NEW a \in Int, NEW S \in SUBSET Int, S # {}, \A x \in S : x <= a
  PROVE  \E x \in S : \A y \in S : y <= x
<1> DEFINE T == {-x : x \in S}
<1>1. T \in SUBSET Int /\ T # {} /\ \A t \in T : -a <= t
  <2>1. \A x \in S : -x \in Int /\ -a <= -x
    OBVIOUS
  <2>2. QED  BY <2>1
<1>2. PICK t \in T : \A u \in T : t <= u
  <2> HIDE DEF T
  <2>1. -a \in Int
    OBVIOUS
  <2>2. QED  BY <1>1, <2>1, LeastExists
<1>3. PICK x \in S : t = -x
  OBVIOUS
<1>4. ASSUME NEW y \in S  PROVE y <= x
  <2>1. -y \in T
    OBVIOUS
  <2>2. QED  BY <1>2, <1>3, <2>1
<1>5. QED  BY <1>4

-----------------------------------------------------------------------------
(* The policy.                                                             *)

Volumes == LOWEST .. HIGHEST

\* A list of faults answers "ok" only when none of them holds.
LEMMA FirstFaultOk ==
  ASSUME NEW n \in Nat, NEW F, DOMAIN F = 1 .. n, \A i \in 1 .. n : F[i][2] # "ok",
         FirstFault(F) = "ok"
  PROVE  \A i \in 1 .. n : ~F[i][1]
<1> SUFFICES ASSUME \E i \in 1 .. n : F[i][1]  PROVE FALSE
  OBVIOUS
<1> DEFINE S == {i \in 1 .. n : F[i][1]}
<1>1. S \in SUBSET Int /\ S # {} /\ \A i \in S : 1 <= i
  OBVIOUS
<1>2. PICK m \in S : \A j \in S : m <= j
  <2> HIDE DEF S
  <2>1. 1 \in Int
    OBVIOUS
  <2>2. QED  BY <1>1, <2>1, LeastExists
<1>3. F[m][1] /\ \A j \in 1 .. (m - 1) : ~F[j][1]
  BY <1>2
<1> DEFINE k == CHOOSE i \in DOMAIN F : F[i][1] /\ \A j \in 1 .. (i - 1) : ~F[j][1]
<1>4. k \in 1 .. n
  BY <1>2, <1>3
<1>5. FirstFault(F) = F[k][2]
  BY DEF FirstFault
<1>6. QED  BY <1>4, <1>5

\* What validation says of a rule with a budget: it does not allow, names volume
\* changes with no value, and its window is one the ledger keeps.
LEMMA ValidBudget ==
  ASSUME NEW rule, validate(rule) = "ok", rule.conditions.budget # None
  PROVE  /\ rule.effect # "allow"
         /\ \A a \in rule.alternatives : a.value \subseteq accepts(a.kind)
         /\ {a.kind : a \in rule.alternatives} = {"volume"}
         /\ \A b \in rule.conditions.budget : b.window \in 1 .. MAX_WINDOW_MINUTES
<1> DEFINE c == rule.conditions
           kinds == {a.kind : a \in rule.alternatives}
           F == <<
          <<rule.id = EmptyId, "EmptyRuleId">>,
          <<{} \in rule.agents \cup rule.receivers, "EmptyScopeList">>,
          <<\E set \in rule.agents : ~(set \subseteq WellFormedLabels),
            "AgentLabelNotWellFormed">>,
          <<\E a \in rule.alternatives : ~(a.value \subseteq accepts(a.kind)),
            "ValueNotValidForIntent">>,
          <<rule.effect = "allow" /\ ~is_empty(c), "AllowWithCondition">>,
          <<rule.effect = "allow" /\ kinds = {}, "AllowNamesNoIntent">>,
          <<about_a_volume_target(c) /\ kinds # {"volume"}, "VolumeConditionOnOtherIntent">>,
          <<\E b \in c.budget : b.window \notin 1 .. MAX_WINDOW_MINUTES, "WindowOutOfRange">> >>
<1>1. FirstFault(F) = "ok"
  BY DEF validate
<1>2. DOMAIN F = 1 .. 8 /\ \A i \in 1 .. 8 : F[i][2] # "ok"
  OBVIOUS
<1>3. /\ F[4][1] = (\E a \in rule.alternatives : ~(a.value \subseteq accepts(a.kind)))
      /\ F[5][1] = (rule.effect = "allow" /\ ~is_empty(c))
      /\ F[7][1] = (about_a_volume_target(c) /\ kinds # {"volume"})
      /\ F[8][1] = (\E b \in c.budget : b.window \notin 1 .. MAX_WINDOW_MINUTES)
  OBVIOUS
<1>4. \A i \in 1 .. 8 : ~F[i][1]
  <2> HIDE DEF F
  <2>1. QED  BY <1>1, <1>2, FirstFaultOk
<1>5. ~F[4][1] /\ ~F[5][1] /\ ~F[7][1] /\ ~F[8][1]
  <2> HIDE DEF F
  <2>1. QED  BY <1>4
<1>6. ~is_empty(c)
  BY DEF is_empty, NoConditions
<1>7. about_a_volume_target(c)
  BY DEF about_a_volume_target
<1>8. QED
  BY <1>3, <1>5, <1>6, <1>7

\* A request to set the volume, as judge puts it to the policy.
Asking(input, t) ==
  /\ input.agent = "agent" /\ input.receiver = "receiver"
  /\ input.intent.kind = "volume" /\ Target(input) = {t}
  /\ input.volume = None \/ \E o \in Volumes : input.volume = {o}
  /\ \A c \in input.recent : c.before \subseteq Volumes /\ c.target \in Volumes

\* What the floor of a window is: no level of a change inside it lies lower.
LEMMA FloorFacts ==
  ASSUME NEW o \in Volumes, NEW changes, NEW now, NEW window,
         \A c \in changes : c.before \subseteq Volumes /\ c.target \in Volumes
  PROVE  LET f == floor_in_window(o, changes, now, window)
         IN  /\ f \in Volumes /\ f <= o
             /\ \A c \in InWindow(changes, now, window) :
                  \A l \in c.before \cup {c.target} : f <= l
<1> DEFINE levels == {o} \cup UNION {c.before \cup {c.target} : c \in InWindow(changes, now, window)}
<1>1. levels \subseteq Volumes /\ o \in levels
  BY DEF InWindow
<1>2. \A c \in InWindow(changes, now, window) : \A l \in c.before \cup {c.target} : l \in levels
  OBVIOUS
<1>3. floor_in_window(o, changes, now, window) = CHOOSE l \in levels : \A m \in levels : l <= m
  BY DEF floor_in_window
<1> HIDE DEF levels
<1>4. \E l \in levels : \A m \in levels : l <= m
  <2>1. levels \in SUBSET Int /\ levels # {} /\ LOWEST \in Int /\ \A l \in levels : LOWEST <= l
    BY <1>1 DEF Volumes, LOWEST, HIGHEST
  <2>2. QED  BY <2>1, LeastExists
<1>5. LET f == floor_in_window(o, changes, now, window)
      IN  f \in levels /\ \A m \in levels : f <= m
  BY <1>3, <1>4
<1>6. QED  BY <1>1, <1>2, <1>5

\* A rule that has a budget has just that one, and its rise is a span.
LEMMA OneBudget ==
  ASSUME NEW rule, Budgeted(rule), NEW b \in rule.conditions.budget
  PROVE  rule.conditions.budget = {b} /\ b.rise \in 0 .. WIDEST_SPAN
BY DEF Budgeted, Some

\* A change the policy allows stays within every budget that binds it, was judged
\* on a volume that was shown, and rests on it.
LEMMA AllowedFacts ==
  ASSUME NEW rules \in PolicyFiles, NEW input, NEW t \in Int, Asking(input, t),
         evaluate(input, rules).effect = "allow",
         NEW i \in DOMAIN rules, Binds(rules[i]), NEW b \in rules[i].conditions.budget
  PROVE  /\ "volume" \in evaluate(input, rules).baseline
         /\ \E o \in Volumes :
              /\ input.volume = {o}
              /\ t > o => /\ t - o <= b.rise
                          /\ \A c \in InWindow(input.recent, input.now, b.window) :
                               \A l \in c.before \cup {c.target} : t - l <= b.rise
<1> PICK rule : rule = rules[i]
  OBVIOUS
<1>1. PolicyConfig(rules) /\ Budgeted(rule)
  BY PolicyFilesAssumption
<1>2. /\ validate(rule) = "ok" /\ rule.conditions.budget = {b}
      /\ rule.conditions.budget # None /\ b.rise \in Int
  <2>1. validate(rule) = "ok"
    BY <1>1 DEF PolicyConfig
  <2>2. rule.conditions.budget = {b} /\ b.rise \in 0 .. WIDEST_SPAN
    BY <1>1, OneBudget
  <2>3. QED  BY <2>1, <2>2 DEF None
<1>3. /\ rule.effect # "allow" /\ {a.kind : a \in rule.alternatives} = {"volume"}
      /\ \A a \in rule.alternatives : a.value \subseteq accepts(a.kind)
  BY <1>1, <1>2, ValidBudget
<1>4. EffectOf(rules, input) = "allow" /\ evaluate(input, rules).baseline = Baseline(rules, input)
  BY DEF evaluate
<1>5. ~Matched(rule, input)
  <2>1. MatchedRules(rules, input) = {}
    BY <1>4 DEF EffectOf
  <2>2. QED  BY <2>1 DEF MatchedRules
<1>6. PICK a \in rule.alternatives : a.kind = "volume"
  BY <1>3
<1>7. a.value = None
  BY <1>3, <1>6 DEF accepts, None
<1>8. Considered(rule, input)
  <2>1. NamesIt(rule, input)
    BY <1>6, <1>7 DEF NamesIt, covers, None, Asking
  <2>2. Applies(rule, input)
    BY DEF Applies, Binds, Asking
  <2>3. QED  BY <2>1, <2>2 DEF Considered
<1>9. ~test(rule, input)
  BY <1>3, <1>5, <1>8 DEF Matched
<1>10. "volume" \in Baseline(rules, input)
  BY <1>2, <1>8 DEF Baseline, reads_volume
<1>11. ~\A o \in input.volume :
          /\ t > o
          /\ above(t, floor_in_window(o, input.recent, input.now, b.window)) > b.rise
  <2>1. /\ rule.conditions.target_above = {} /\ rule.conditions.increase_over_baseline = {}
        /\ rule.conditions.baseline_volume_above = {}
    BY DEF Binds, None
  <2>2. Target(input) = {t}
    BY DEF Asking
  <2>3. SUFFICES ASSUME \A o \in input.volume :
                          /\ t > o
                          /\ above(t, floor_in_window(o, input.recent, input.now, b.window))
                               > b.rise
                 PROVE  test(rule, input)
    BY <1>9
  <2>4. QED  BY <1>2, <2>1, <2>2, <2>3 DEF test
<1>12. PICK o \in Volumes : input.volume = {o}
  BY <1>11 DEF Asking, None
<1> DEFINE f == floor_in_window(o, input.recent, input.now, b.window)
<1>13. t > o => ~(t - f > b.rise)
  BY <1>11, <1>12 DEF above
<1>14. /\ f \in Volumes /\ f <= o
       /\ \A c \in InWindow(input.recent, input.now, b.window) :
            \A l \in c.before \cup {c.target} : f <= l /\ l \in Volumes
  <2>1. \A c \in input.recent : c.before \subseteq Volumes /\ c.target \in Volumes
    BY DEF Asking
  <2>2. QED  BY <2>1, FloorFacts DEF InWindow
<1> HIDE DEF f
<1>15. t > o => /\ t - o <= b.rise
                /\ \A c \in InWindow(input.recent, input.now, b.window) :
                     \A l \in c.before \cup {c.target} : t - l <= b.rise
  <2>1. Volumes \subseteq Int
    BY DEF Volumes
  <2>2. \A l \in Int : t > o /\ f <= l => t - l <= b.rise
    <3>1. f \in Int /\ o \in Int
      BY <1>14, <2>1
    <3>2. t > o => t - f <= b.rise
      BY <1>13, <1>2, <3>1
    <3>3. QED  BY <1>2, <3>1, <3>2
  <2>3. QED  BY <1>14, <2>1, <2>2
<1>16. QED  BY <1>4, <1>10, <1>12, <1>15

-----------------------------------------------------------------------------
(* The inductive invariant.                                                *)

(* What an operation is at each point of its life. *)
Plain(id) ==
  [pc: IF id = Boot THEN {"precheck", "merging", "done"}
                    ELSE {"idle", "done", "refused", "written"}]
Asked == [pc: {"precheck", "merging", "leased"}, agent: BOOLEAN]
Looked == [pc: {"looked"}, agent: BOOLEAN, target: Targets, before: ShownVolume,
           policy: load_policy]
Baselines == {{}, {"volume"}}
Sending == {"dispatch", "compared"}
Dispatched == Sending \cup {"refused", "written", "done"}
Seen == {None} \cup {Some(l) : l \in Levels}
Reserving == {"allowed", "decided", "dispatch", "compared"}
Reserved == [pc: Reserving, agent: BOOLEAN, target: Targets, before: ShownVolume,
             policy: load_policy, at: Nat, turn: Nat, baseline: Baselines, seen: Seen]

ClockInv ==
  /\ time \in Nat /\ behind \in 0 .. MaxSetBack
  /\ run \in runs /\ runs \subseteq Nat
  /\ turn.reserved \in Nat /\ turn \in [submitted: Nat, reserved: Nat]

OpInv ==
  /\ op \in [Callers -> (UNION {Plain(id) : id \in Callers}) \cup Asked \cup Looked \cup Reserved]
  /\ \A id \in Callers :
       /\ \/ op[id] \in Plain(id)
          \/ id # Boot /\ op[id] \in Asked \cup Looked \cup Reserved
       /\ op[id] \in Asked \cup Looked \cup Reserved /\ op[id].agent
            => ready \/ op[id].pc \in {"precheck", "merging"}
       /\ op[id] \in Asked /\ op[id].pc # "leased" => op[id].agent

(* The changes that count: what was written, and what is reserved. *)
Bare(w) ==
  [key |-> w.key, agent |-> w.agent, at |-> w.at, turn |-> w.turn,
   before |-> w.before, target |-> w.target, policy |-> w.policy]
Pending(id) ==
  [key |-> key(id), agent |-> op[id].agent, at |-> op[id].at, turn |-> op[id].turn,
   before |-> op[id].before, target |-> op[id].target, policy |-> op[id].policy]
Changes ==
  {Bare(w) : w \in writes} \cup {Pending(id) : id \in {c \in Callers : op[c].pc \in Reserving}}

Write ==
  [key: Nat \X Callers, agent: BOOLEAN, at: Nat, turn: Nat, seen: Seen,
   before: ShownVolume, target: Targets, policy: load_policy]

WriteInv ==
  /\ writes \subseteq Write
  /\ \A w \in writes : /\ w.key[1] \in runs
                       /\ w.key[1] = run => op[w.key[2]].pc \in {"written", "done"}
  /\ \A v \in Changes : v.at <= time /\ v.turn < turn.reserved

(* Every change of the last RETENTION is in the ledger, dated no earlier   *)
(* than the clock can have read when it was reserved: an Operator's of     *)
(* this run, and an agent's once the ledger is ready.                      *)
Counted(v) == IF v.agent THEN ready ELSE v.key[1] = run

Dated(at, v) == at >= StartClock + v.at - behind

LedgerInv ==
  /\ \A e \in ledger : e.at \in Nat /\ e.before \subseteq Volumes /\ e.target \in Volumes
  /\ \A v \in Changes : Counted(v) /\ v.at > time - RETENTION =>
       \E e \in ledger : /\ e.key = v.key /\ e.before = v.before /\ e.target = v.target
                        /\ Dated(e.at, v)

(* What the records say of the changes. *)
DispatchingRecord ==
  [event: {"Dispatching"}, key: Nat \X Callers, at: Nat, before: ShownVolume, target: Targets]
FinishedRecord ==
  [event: {"Finished"}, key: Nat \X Callers, at: Nat, dispatched: {FALSE}]

RecordOk(r) ==
  /\ r \in DispatchingRecord \cup FinishedRecord
  /\ r.key[1] \in runs
  /\ r.event = "Dispatching" =>
       /\ r.key[1] = run => op[r.key[2]].pc \in Dispatched
       /\ \A v \in Changes : v.key = r.key =>
            v.before = r.before /\ v.target = r.target /\ Dated(r.at, v)
  /\ r.event = "Finished" =>
       /\ r.key[1] = run => op[r.key[2]].pc = "done"
       /\ \A w \in writes : w.key # r.key

OnRecord(k) == \E r \in log : r.event = "Dispatching" /\ r.key = k

RecordInv ==
  /\ \A r \in log \cup late : RecordOk(r)
  /\ \A id \in Callers : op[id].pc \in Sending /\ op[id].agent => OnRecord(key(id))
  /\ \A w \in writes : w.agent => OnRecord(w.key)

(* Who rebuilds has read every record of an agent's write that counts. *)
HeldInv ==
  \A held \in rebuilding :
    /\ ~ready /\ rebuilding = {held}
    /\ held.records \subseteq log /\ held.now \in Nat
    /\ \A w \in writes : w.agent /\ w.at > time - RETENTION =>
         \E r \in held.records : /\ r.event = "Dispatching" /\ r.key = w.key
                                /\ r.at >= saturating_sub(held.now, RETENTION)

(* A reserved change of an agent is within every budget that binds it. *)
Budgets(v) ==
  UNION {UNION {rules[i].conditions.budget : i \in {k \in DOMAIN rules : Binds(rules[k])}} :
           rules \in v.policy}

Within(w, o, b) ==
  w.target > o =>
    /\ w.target - o <= b.rise
    /\ \A v \in Changes : /\ v.turn < w.turn /\ v.at > w.at - b.window
                          /\ v.agent \/ v.key[1] = w.key[1]
                          => \A l \in v.before \cup {v.target} : w.target - l <= b.rise

(* A change that was compared is bound to the level the session read. *)
Bound(o) == o.agent /\ ("volume" \in o.baseline => o.before = o.seen)

BudgetInv ==
  /\ \A w \in Changes : w.agent => \A b \in Budgets(w) :
       \E o \in Volumes : w.before = {o} /\ Within(w, o, b)
  /\ \A id \in Callers : op[id].pc \in Reserving /\ op[id].agent /\ Budgets(op[id]) # {} =>
       "volume" \in op[id].baseline
  /\ \A id \in Callers : op[id].pc = "compared" => Bound(op[id])
  /\ \A w \in writes : w.agent /\ Budgets(w) # {} => w.before = w.seen

IInv ==
  ClockInv /\ OpInv /\ WriteInv /\ LedgerInv /\ RecordInv /\ HeldInv /\ BudgetInv

-----------------------------------------------------------------------------
(* What the state of an operation tells.                                   *)

\* Targets and shown levels are levels.
LEMMA LevelFacts ==
  /\ Targets \subseteq Volumes /\ Volumes \subseteq Int
  /\ \A s \in ShownVolume : s \subseteq Volumes /\ (s = {} \/ \E o \in Volumes : s = {o})
<1>1. Targets \subseteq Volumes /\ Levels \subseteq Volumes /\ Volumes \subseteq Int
  BY LedgerAssumption DEF Volumes
<1>2. ASSUME NEW s \in ShownVolume
      PROVE  s = {} \/ \E o \in Volumes : s = {o}
  BY <1>1, LedgerAssumption DEF None, Some
<1>3. QED  BY <1>1, <1>2

\* The point of its life fixes the shape of an operation.
LEMMA OpFacts ==
  ASSUME OpInv, NEW id \in Callers
  PROVE  /\ op[id].pc = "idle" => id # Boot
         /\ op[id].pc \in {"precheck", "merging"} =>
              \/ op[id] = [pc |-> op[id].pc] /\ id = Boot
              \/ op[id] \in Asked /\ id # Boot /\ op[id].agent
         /\ op[id].pc = "leased" => op[id] \in Asked /\ id # Boot
         /\ op[id].pc = "looked" => op[id] \in Looked /\ id # Boot
         /\ op[id].pc \in Reserving => op[id] \in Reserved /\ id # Boot
         /\ op[id].pc \in {"refused", "written"} => id # Boot
         /\ op[id].pc \in Reserving \cup {"leased", "looked"} /\ op[id].agent => ready
<1>1. PICK o : o = op[id]
  OBVIOUS
<1>2. \/ o \in Plain(id)
      \/ id # Boot /\ o \in Asked \cup Looked \cup Reserved
  BY <1>1 DEF OpInv
<1>3. /\ o \in Asked \cup Looked \cup Reserved /\ o.agent => ready \/ o.pc \in {"precheck", "merging"}
      /\ o \in Asked /\ o.pc # "leased" => o.agent
  BY <1>1 DEF OpInv
<1>4. CASE o \in Plain(id)
  BY <1>1, <1>4 DEF Plain, Reserving
<1>5. CASE o \in Asked /\ id # Boot
  BY <1>1, <1>3, <1>5 DEF Asked, Reserving
<1>6. CASE o \in Looked /\ id # Boot
  BY <1>1, <1>3, <1>6 DEF Looked, Reserving
<1>7. CASE o \in Reserved /\ id # Boot
  BY <1>1, <1>3, <1>7 DEF Reserved, Reserving
<1>8. QED  BY <1>2, <1>4, <1>5, <1>6, <1>7

\* A counted change is typed, of a run of the past or of an operation that has one.
LEMMA ChangeFacts ==
  ASSUME OpInv, WriteInv, ClockInv, NEW v \in Changes
  PROVE  /\ v.key \in Nat \X Callers /\ v.key[1] \in runs
         /\ v.key[1] = run => op[v.key[2]].pc \in Reserving \cup {"written", "done"}
         /\ v.agent \in BOOLEAN /\ v.at \in Nat /\ v.turn \in Nat
         /\ v.before \in ShownVolume /\ v.target \in Targets /\ v.policy \in load_policy
         /\ v.at <= time /\ v.turn < turn.reserved
<1>1. v.at <= time /\ v.turn < turn.reserved
  BY DEF WriteInv
<1>2. CASE \E w \in writes : v = Bare(w)
  <2>1. PICK w \in writes : v = Bare(w)
    BY <1>2
  <2>2. w \in Write /\ w.key[1] \in runs /\ (w.key[1] = run => op[w.key[2]].pc \in {"written", "done"})
    BY DEF WriteInv
  <2>3. QED  BY <1>1, <2>1, <2>2 DEF Bare, Write
<1>3. CASE \E id \in Callers : op[id].pc \in Reserving /\ v = Pending(id)
  <2>1. PICK id \in Callers : op[id].pc \in Reserving /\ v = Pending(id)
    BY <1>3
  <2>2. PICK o : o = op[id]
    OBVIOUS
  <2>3. o \in Reserved
    BY <2>1, <2>2, OpFacts
  <2>4. /\ v.key = <<run, id>> /\ v.agent = o.agent /\ v.at = o.at /\ v.turn = o.turn
        /\ v.before = o.before /\ v.target = o.target /\ v.policy = o.policy
    BY <2>1, <2>2 DEF Pending, key
  <2>5. run \in runs /\ run \in Nat
    BY DEF ClockInv
  <2>6. QED  BY <1>1, <2>1, <2>2, <2>3, <2>4, <2>5 DEF Reserved
<1>4. QED  BY <1>2, <1>3 DEF Changes

-----------------------------------------------------------------------------
(* Steps of one operation.                                                 *)

\* Nothing about a reserved change moves but the point its operation is at.
SameChange(n, o) ==
  /\ o.pc \in Reserving
  /\ n.agent = o.agent /\ n.at = o.at /\ n.turn = o.turn /\ n.before = o.before
  /\ n.target = o.target /\ n.policy = o.policy /\ n.baseline = o.baseline

\* An operation that reserves nothing adds no change.
LEMMA NoNewChange ==
  ASSUME OpInv, NEW id \in Callers, NEW n, op' = [op EXCEPT ![id] = n],
         run' = run, writes' = writes, n.pc \in Reserving => SameChange(n, op[id])
  PROVE  Changes' \subseteq Changes
<1> SUFFICES ASSUME NEW v \in Changes'  PROVE v \in Changes
  OBVIOUS
<1>1. CASE \E w \in writes : v = Bare(w)
  BY <1>1 DEF Changes
<1>2. CASE \E c \in Callers : op'[c].pc \in Reserving /\ v = Pending(c)'
  <2>1. PICK c \in Callers : op'[c].pc \in Reserving /\ v = Pending(c)'
    BY <1>2
  <2>2. op'[c] = IF c = id THEN n ELSE op[c]
    BY DEF OpInv
  <2>3. op[c].pc \in Reserving /\ v = Pending(c)
    BY <2>1, <2>2 DEF SameChange, Pending, key
  <2>4. QED  BY <2>3 DEF Changes
<1>3. QED  BY <1>1, <1>2 DEF Changes, Bare

\* The ledger goes on counting what it counted.
LEMMA LedgerStep ==
  ASSUME OpInv, WriteInv, ClockInv, LedgerInv, Changes' \subseteq Changes,
         time' \in Int, time <= time', behind' \in Int, behind <= behind',
         \A v \in Changes' : Counted(v)' =>
            Counted(v) /\ \A e \in ledger : e.key = v.key => e \in ledger',
         ledger' \subseteq ledger
  PROVE  LedgerInv'
<1>1. \A e \in ledger' : e.at \in Nat /\ e.before \subseteq Volumes /\ e.target \in Volumes
  BY DEF LedgerInv
<1>2. ASSUME NEW v \in Changes', Counted(v)', v.at > time' - RETENTION
      PROVE  \E e \in ledger' : /\ e.key = v.key /\ e.before = v.before /\ e.target = v.target
                                /\ Dated(e.at, v)'
  <2>1. v \in Changes /\ v.at \in Nat
    BY ChangeFacts
  <2>2. v.at > time - RETENTION
    BY <1>2, <2>1, PolicyAssumption, LedgerAssumption DEF ClockInv
  <2>3. PICK e \in ledger : /\ e.key = v.key /\ e.before = v.before /\ e.target = v.target
                            /\ Dated(e.at, v)
    BY <1>2, <2>1, <2>2 DEF LedgerInv
  <2>4. e \in ledger'
    BY <1>2, <2>1, <2>3
  <2>5. Dated(e.at, v)'
    <3>1. e.at \in Nat
      BY DEF LedgerInv
    <3>2. e.at >= StartClock + v.at - behind
      BY <2>3 DEF Dated
    <3>3. e.at >= StartClock + v.at - behind'
      BY <2>1, <3>1, <3>2 DEF ClockInv, StartClock
    <3>4. QED  BY <3>3 DEF Dated
  <2>6. QED  BY <2>3, <2>4, <2>5
<1>3. QED  BY <1>1, <1>2 DEF LedgerInv

\* What operations wrote and reserved stays true of them.
LEMMA WriteStep ==
  ASSUME OpInv, WriteInv, ClockInv, Changes' \subseteq Changes, writes' = writes,
         time' \in Int, time <= time', runs \subseteq runs', turn'.reserved = turn.reserved,
         NEW id \in Callers, NEW n, op' = [op EXCEPT ![id] = n], run' = run,
         op[id].pc \in {"written", "done"} => n.pc \in {"written", "done"}
  PROVE  WriteInv'
<1>1. writes' \subseteq Write
  BY DEF WriteInv
<1>2. ASSUME NEW w \in writes'
      PROVE  /\ w.key[1] \in runs'
             /\ w.key[1] = run' => op'[w.key[2]].pc \in {"written", "done"}
  <2>1. /\ w \in Write /\ w.key[1] \in runs
        /\ w.key[1] = run => op[w.key[2]].pc \in {"written", "done"}
    BY DEF WriteInv
  <2>2. w.key[2] \in Callers
    BY <2>1 DEF Write
  <2>3. \A c \in Callers : op'[c] = IF c = id THEN n ELSE op[c]
    BY DEF OpInv
  <2>4. QED  BY <2>1, <2>2, <2>3
<1>3. ASSUME NEW v \in Changes'  PROVE v.at <= time' /\ v.turn < turn'.reserved
  <2>1. v.at <= time /\ v.turn < turn.reserved /\ v.at \in Nat
    BY ChangeFacts
  <2>2. QED  BY <2>1 DEF ClockInv
<1>4. QED  BY <1>1, <1>2, <1>3 DEF WriteInv

\* A record goes on being true of the changes when one operation moves.
LEMMA OldRecord ==
  ASSUME OpInv, WriteInv, ClockInv, RecordInv, Changes' \subseteq Changes,
         writes' = writes, runs \subseteq runs', run' = run,
         behind' \in Int, behind <= behind',
         NEW id \in Callers, NEW n, op' = [op EXCEPT ![id] = n],
         op[id].pc \in Dispatched =>
           n.pc \in Dispatched,
         op[id].pc = "done" => n.pc = "done",
         NEW r \in log \cup late
  PROVE  RecordOk(r)'
<1>1. RecordOk(r)
  BY DEF RecordInv
<1>2. r.key \in Nat \X Callers /\ r.key[2] \in Callers
  BY <1>1 DEF RecordOk, DispatchingRecord, FinishedRecord
<1>3. \A c \in Callers : op'[c] = IF c = id THEN n ELSE op[c]
  BY DEF OpInv
<1>4. r.event = "Dispatching" => r.at \in Nat
  BY <1>1 DEF RecordOk, DispatchingRecord, FinishedRecord
<1>5. ASSUME r.event = "Dispatching", NEW v \in Changes', v.key = r.key
      PROVE  v.before = r.before /\ v.target = r.target /\ Dated(r.at, v)'
  <2>1. v \in Changes /\ v.at \in Nat
    BY ChangeFacts
  <2>2. v.before = r.before /\ v.target = r.target /\ Dated(r.at, v)
    BY <1>1, <1>5, <2>1 DEF RecordOk
  <2>3. r.at >= StartClock + v.at - behind'
    BY <1>4, <1>5, <2>1, <2>2 DEF Dated, ClockInv, StartClock
  <2>4. QED  BY <2>2, <2>3 DEF Dated
<1>6. r.event = "Dispatching" /\ r.key[1] = run' =>
        op'[r.key[2]].pc \in Dispatched
  BY <1>1, <1>2, <1>3 DEF RecordOk
<1>7. r.event = "Finished" => /\ r.key[1] = run' => op'[r.key[2]].pc = "done"
                              /\ \A w \in writes' : w.key # r.key
  BY <1>1, <1>2, <1>3 DEF RecordOk
<1>8. r \in DispatchingRecord \cup FinishedRecord /\ r.key[1] \in runs'
  BY <1>1 DEF RecordOk
<1>9. QED  BY <1>5, <1>6, <1>7, <1>8 DEF RecordOk

\* What is on record stays there.
LEMMA OnRecordStep ==
  ASSUME \A r \in log : r.event = "Dispatching" => r \in log', NEW k, OnRecord(k)
  PROVE  OnRecord(k)'
BY DEF OnRecord

\* The same of all records, when those that are added are true too.
LEMMA RecordStep ==
  ASSUME OpInv, WriteInv, ClockInv, RecordInv, Changes' \subseteq Changes,
         writes' = writes, runs \subseteq runs', run' = run,
         behind' \in Int, behind <= behind',
         NEW id \in Callers, NEW n, op' = [op EXCEPT ![id] = n],
         op[id].pc \in Dispatched =>
           n.pc \in Dispatched,
         op[id].pc = "done" => n.pc = "done",
         n.pc \in Sending /\ n.agent =>
           \/ op[id].pc \in Sending /\ op[id].agent
           \/ OnRecord(<<run, id>>)',
         \A r \in log : r.event = "Dispatching" => r \in log',
         \A r \in log' \cup late' : r \in log \cup late \/ RecordOk(r)'
  PROVE  RecordInv'
<1>1. \A r \in log' \cup late' : RecordOk(r)'
  BY OldRecord
<1>2. \A c \in Callers : op'[c] = IF c = id THEN n ELSE op[c]
  BY DEF OpInv
<1>3. ASSUME NEW c \in Callers, op'[c].pc \in Sending, op'[c].agent
      PROVE  OnRecord(key(c))'
  <2>1. PICK k : k = <<run, c>>
    OBVIOUS
  <2>2. key(c) = k /\ key(c)' = k
    BY <2>1 DEF key
  <2>3. CASE op[c].pc \in Sending /\ op[c].agent
    <3>1. OnRecord(k)
      BY <2>2, <2>3 DEF RecordInv
    <3>2. OnRecord(k)'
      BY <3>1, OnRecordStep
    <3>3. QED  BY <2>2, <3>2 DEF OnRecord
  <2>4. CASE OnRecord(<<run, id>>)' /\ c = id
    BY <2>4 DEF OnRecord, key
  <2>5. QED  BY <1>2, <1>3, <2>3, <2>4
<1>4. ASSUME NEW w \in writes', w.agent  PROVE OnRecord(w.key)'
  BY <1>4, OnRecordStep DEF RecordInv
<1>5. QED  BY <1>1, <1>3, <1>4 DEF RecordInv

\* Who rebuilds goes on holding what it read.
LEMMA HeldStep ==
  ASSUME HeldInv, WriteInv, ClockInv, rebuilding' = rebuilding, ready' = ready,
         writes' = writes, log \subseteq log', time' \in Int, time <= time'
  PROVE  HeldInv'
<1> SUFFICES ASSUME NEW held \in rebuilding
             PROVE  /\ ~ready' /\ rebuilding' = {held}
                    /\ held.records \subseteq log' /\ held.now \in Nat
                    /\ \A w \in writes' : w.agent /\ w.at > time' - RETENTION =>
                         \E r \in held.records : /\ r.event = "Dispatching" /\ r.key = w.key
                                                 /\ r.at >= saturating_sub(held.now, RETENTION)
  BY DEF HeldInv
<1>1. ~ready /\ rebuilding = {held} /\ held.records \subseteq log /\ held.now \in Nat
  BY DEF HeldInv
<1>2. ASSUME NEW w \in writes, w.agent, w.at > time' - RETENTION
      PROVE  w.at > time - RETENTION
  <2>1. w.at \in Nat
    BY DEF WriteInv, Write
  <2>2. QED  BY <1>2, <2>1, PolicyAssumption, LedgerAssumption DEF ClockInv
<1>3. QED  BY <1>1, <1>2 DEF HeldInv

\* Fewer changes are within every budget the more of them were.
LEMMA BudgetStep ==
  ASSUME OpInv, BudgetInv, Changes' \subseteq Changes, writes' = writes,
         NEW id \in Callers, NEW n, op' = [op EXCEPT ![id] = n],
         n.pc \in Reserving => SameChange(n, op[id]), n.pc = "compared" => Bound(n)
  PROVE  BudgetInv'
<1>1. ASSUME NEW w \in Changes', w.agent, NEW b \in Budgets(w)
      PROVE  \E o \in Volumes : w.before = {o} /\ Within(w, o, b)'
  <2>1. PICK o \in Volumes : w.before = {o} /\ Within(w, o, b)
    BY <1>1 DEF BudgetInv
  <2>2. QED  BY <2>1 DEF Within
<1>2. \A c \in Callers : op'[c] = IF c = id THEN n ELSE op[c]
  BY DEF OpInv
<1>3. ASSUME NEW c \in Callers, op'[c].pc \in Reserving, op'[c].agent, Budgets(op'[c]) # {}
      PROVE  "volume" \in op'[c].baseline
  <2>1. /\ op[c].pc \in Reserving /\ op[c].agent = op'[c].agent /\ op[c].policy = op'[c].policy
        /\ op[c].baseline = op'[c].baseline
    BY <1>2, <1>3 DEF SameChange
  <2>2. Budgets(op[c]) # {}
    BY <1>3, <2>1 DEF Budgets
  <2>3. QED  BY <1>3, <2>1, <2>2 DEF BudgetInv
<1>4. \A w \in writes' : w.agent /\ Budgets(w) # {} => w.before = w.seen
  BY DEF BudgetInv
<1>5. ASSUME NEW c \in Callers, op'[c].pc = "compared"  PROVE Bound(op'[c])
  BY <1>2, <1>5 DEF BudgetInv
<1>6. QED  BY <1>1, <1>3, <1>4, <1>5 DEF BudgetInv, Budgets, Bound

\* What an operation may be.
OpOk(id, o, counting) ==
  /\ \/ o \in Plain(id)
     \/ id # Boot /\ o \in Asked \cup Looked \cup Reserved
  /\ o \in Asked \cup Looked \cup Reserved /\ o.agent
       => counting \/ o.pc \in {"precheck", "merging"}
  /\ o \in Asked /\ o.pc # "leased" => o.agent

\* The other operations stay what they are while the ledger stays ready.
LEMMA OpStep ==
  ASSUME OpInv, NEW id \in Callers, NEW n, op' = [op EXCEPT ![id] = n], OpOk(id, n, ready'),
         ready => ready'
  PROVE  OpInv'
<1>1. \A c \in Callers : op'[c] = IF c = id THEN n ELSE op[c]
  BY DEF OpInv
<1>2. n \in (UNION {Plain(c) : c \in Callers}) \cup Asked \cup Looked \cup Reserved
  <2>1. n \in Plain(id) \/ n \in Asked \cup Looked \cup Reserved
    BY DEF OpOk
  <2>2. Plain(id) \in {Plain(c) : c \in Callers}
    OBVIOUS
  <2>3. QED
    <3> DEFINE all == UNION {Plain(c) : c \in Callers}
    <3>1. \A x \in Plain(id) : x \in all
      BY <2>2
    <3>2. QED  BY <2>1, <3>1
<1>3. op' \in [Callers -> (UNION {Plain(c) : c \in Callers}) \cup Asked \cup Looked \cup Reserved]
  BY <1>2 DEF OpInv
<1>4. \A c \in Callers : OpOk(c, op[c], ready)
  BY DEF OpInv, OpOk
<1>5. \A c \in Callers : OpOk(c, op'[c], ready')
  BY <1>1, <1>4 DEF OpOk
<1>6. QED  BY <1>3, <1>5 DEF OpInv, OpOk

\* An operation that is past its reservation without a write is not counted.
LEMMA NotCounted ==
  ASSUME OpInv, WriteInv, NEW id \in Callers, NEW n, op' = [op EXCEPT ![id] = n],
         run' = run, writes' = writes, op[id].pc \notin {"written", "done"}, n.pc \notin Reserving
  PROVE  \A v \in Changes' : v.key # key(id)
<1> SUFFICES ASSUME NEW v \in Changes', v.key = key(id)  PROVE FALSE
  OBVIOUS
<1>1. ASSUME NEW w \in writes, v = Bare(w)  PROVE FALSE
  <2>1. w.key[1] = run /\ w.key[2] = id
    BY <1>1 DEF Bare, key
  <2>2. QED  BY <2>1 DEF WriteInv
<1>2. ASSUME NEW c \in Callers, op'[c].pc \in Reserving, v = Pending(c)'  PROVE FALSE
  <2>1. op'[c] = IF c = id THEN n ELSE op[c]
    BY DEF OpInv
  <2>2. c = id
    BY <1>2 DEF Pending, key
  <2>3. QED  BY <1>2, <2>1, <2>2
<1>3. QED  BY <1>1, <1>2 DEF Changes, Bare

\* A move of one operation that reserves and writes nothing: what it adds to the
\* records is true, and an agent comes to dispatch with its record.
Move(id, n) ==
  /\ op' = [op EXCEPT ![id] = n]
  /\ OpOk(id, n, ready')
  /\ op[id].pc \in {"refused", "written", "done"} => n.pc = "done"
  /\ op[id].pc \in Sending => n.pc \in {"compared", "refused"}
  /\ n.pc \in Sending /\ n.agent => OnRecord(<<run, id>>)'
  /\ n.pc = "compared" => Bound(n)
  /\ n.pc \in Reserving => SameChange(n, op[id])
  /\ turn' \in [submitted: Nat, reserved: Nat] /\ turn'.reserved = turn.reserved
  /\ log \subseteq log' /\ \A r \in log' \cup late' : r \in log \cup late \/ RecordOk(r)'
  /\ UNCHANGED <<writes, clockvars>>

LEMMA MoveStep ==
  ASSUME IInv, NEW id \in Callers, NEW n, Move(id, n), ready => ready',
         ready' # ready \/ rebuilding' # rebuilding => HeldInv',
         \/ ready' = ready /\ ledger' = ledger
         \/ /\ ready' = ready /\ ledger' = settle(ledger, key(id), FALSE)
            /\ n.pc \notin Reserving /\ op[id].pc \notin {"written", "done"}
         \/ LedgerInv'
  PROVE  IInv'
<1>0. ClockInv /\ OpInv /\ WriteInv /\ LedgerInv /\ RecordInv /\ HeldInv /\ BudgetInv
  BY DEF IInv
<1>1. UNCHANGED <<writes, time, behind, run, runs>>
  BY DEF Move, clockvars
<1>2. ClockInv'
  BY <1>0, <1>1 DEF ClockInv, Move
<1>3. OpInv'
  BY <1>0, OpStep DEF Move
<1>4. Changes' \subseteq Changes
  BY <1>0, <1>1, NoNewChange DEF Move
<1>5. /\ time' \in Int /\ time <= time' /\ behind' \in Int /\ behind <= behind'
      /\ runs \subseteq runs' /\ turn'.reserved = turn.reserved /\ log \subseteq log'
  BY <1>0, <1>1 DEF ClockInv, Move
<1>6. WriteInv'
  BY <1>0, <1>1, <1>4, <1>5, WriteStep DEF Move
<1>7. RecordInv'
  <2>1. op[id].pc \in Dispatched =>
           n.pc \in Dispatched
    BY DEF Move, Dispatched, Sending
  <2>2. QED  BY <1>0, <1>1, <1>4, <1>5, <2>1, RecordStep DEF Move
<1>8. BudgetInv'
  BY <1>0, <1>1, <1>4, BudgetStep DEF Move
<1>9. HeldInv'
  BY <1>0, <1>1, <1>5, HeldStep
<1>10. ASSUME ready' = ready, ledger' = ledger  PROVE LedgerInv'
  <2>1. \A v \in Changes' : Counted(v)' =>
            Counted(v) /\ \A e \in ledger : e.key = v.key => e \in ledger'
    BY <1>1, <1>10 DEF Counted
  <2>2. ledger' \subseteq ledger
    BY <1>10
  <2>3. QED  BY <1>0, <1>4, <1>5, <2>1, <2>2, LedgerStep DEF Counted
<1>11. ASSUME ready' = ready, ledger' = settle(ledger, key(id), FALSE), n.pc \notin Reserving,
              op[id].pc \notin {"written", "done"}
       PROVE  LedgerInv'
  <2>1. \A v \in Changes' : v.key # key(id)
    BY <1>0, <1>1, <1>11, NotCounted DEF Move
  <2>2. \A v \in Changes' : Counted(v)' =>
            Counted(v) /\ \A e \in ledger : e.key = v.key => e \in ledger'
    BY <1>0, <1>1, <1>11, <2>1 DEF Counted, settle
  <2>3. ledger' \subseteq ledger
    BY <1>0, <1>11 DEF settle
  <2>4. QED  BY <1>0, <1>4, <1>5, <2>2, <2>3, LedgerStep DEF Counted
<1>12. LedgerInv'
  BY <1>0, <1>10, <1>11
<1>13. QED  BY <1>2, <1>3, <1>6, <1>7, <1>8, <1>9, <1>12 DEF IInv

\* The most of them do not touch the disk either.
Quiet(id, n) ==
  /\ op' = [op EXCEPT ![id] = n]
  /\ OpOk(id, n, ready')
  /\ op[id].pc \notin {"refused", "written", "done"}
  /\ op[id].pc \in Sending => n.pc = "refused"
  /\ n.pc # "compared" /\ (n.pc = "dispatch" => ~n.agent)
  /\ n.pc \in Reserving => SameChange(n, op[id])
  /\ turn' \in [submitted: Nat, reserved: Nat] /\ turn'.reserved = turn.reserved
  /\ UNCHANGED <<writes, disk, clockvars>>

LEMMA QuietStep ==
  ASSUME IInv, NEW id \in Callers, NEW n, Quiet(id, n), ready => ready',
         ready' # ready \/ rebuilding' # rebuilding => HeldInv',
         \/ ready' = ready /\ ledger' = ledger
         \/ ready' = ready /\ ledger' = settle(ledger, key(id), FALSE) /\ n.pc \notin Reserving
         \/ LedgerInv'
  PROVE  IInv'
<1>1. Move(id, n) /\ op[id].pc \notin {"written", "done"}
  BY DEF Quiet, Move, disk, Sending
<1>2. QED  BY <1>1, MoveStep

\* An operation that goes on keeps all but the point it is at.
LEMMA GotoFacts ==
  ASSUME OpInv, NEW id \in Callers, NEW pc, Goto(id, pc)
  PROVE  \E n : /\ op' = [op EXCEPT ![id] = n] /\ n = [op[id] EXCEPT !.pc = pc]
                /\ op[id] = [pc |-> op[id].pc] => n = [pc |-> pc]
                /\ op[id] \in Asked /\ pc \in {"precheck", "merging", "leased"} =>
                     n \in Asked /\ n.pc = pc /\ n.agent = op[id].agent
                /\ op[id] \in Reserved /\ pc \in Reserving =>
                     n \in Reserved /\ n.pc = pc /\ SameChange(n, op[id])
<1>1. PICK n : n = [op[id] EXCEPT !.pc = pc]
  OBVIOUS
<1>2. PICK o : o = op[id]
  OBVIOUS
<1>3. op' = [op EXCEPT ![id] = n]
  BY <1>1 DEF Goto, OpInv
<1>4. n = [o EXCEPT !.pc = pc]
  BY <1>1, <1>2
<1>5. o = [pc |-> o.pc] => n = [pc |-> pc]
  BY <1>4
<1>6. o \in Asked /\ pc \in {"precheck", "merging", "leased"} =>
        n \in Asked /\ n.pc = pc /\ n.agent = o.agent
  BY <1>4 DEF Asked
<1>7. o \in Reserved /\ pc \in Reserving =>
        n \in Reserved /\ n.pc = pc /\ SameChange(n, o)
  BY <1>4 DEF Reserved, SameChange
<1>8. QED  BY <1>1, <1>2, <1>3, <1>5, <1>6, <1>7

\* An operation that ends without a write withdraws what it reserved.
LEMMA EndStep ==
  ASSUME IInv, NEW id \in Callers, NEW pc \in {"done", "refused"}, At(id, pc),
         pc = "refused" => id # Boot,
         op[id].pc \notin {"refused", "written", "done"},
         op[id].pc \in Sending => pc = "refused",
         UNCHANGED <<ready, rebuilding, turn, writes, disk, clockvars>>,
         ledger' = ledger \/ Release(id)
  PROVE  IInv'
<1>1. PICK n : n = [pc |-> pc]
  OBVIOUS
<1>2. n.pc = pc /\ n \in Plain(id) /\ n.pc \notin Reserving \cup Sending
  BY <1>1 DEF Plain, Reserving, Sending
<1>3. OpOk(id, n, ready')
  <2>1. n \notin Asked \cup Looked \cup Reserved
    BY <1>2 DEF Asked, Looked, Reserved, Reserving
  <2>2. QED  BY <1>2, <2>1 DEF OpOk
<1>4. ClockInv
  BY DEF IInv
<1>5. Quiet(id, n)
  BY <1>1, <1>2, <1>3, <1>4 DEF Quiet, At, ClockInv, Sending
<1>6. \/ ready' = ready /\ ledger' = ledger
      \/ ready' = ready /\ ledger' = settle(ledger, key(id), FALSE) /\ n.pc \notin Reserving
  BY <1>2 DEF Release
<1>7. QED  BY <1>5, <1>6, QuietStep

\* A move on.
LEMMA GoStep ==
  ASSUME IInv, NEW id \in Callers, NEW n, Quiet(id, n),
         UNCHANGED <<ledger, ready, rebuilding>>
  PROVE  IInv'
BY QuietStep

\* The steps before a change is reserved.
LEMMA SubmitStep ==
  ASSUME IInv, NEW id \in Callers, NEW agent \in BOOLEAN, Submit(id, agent)
  PROVE  IInv'
<1>1. PICK n : n = [pc |-> IF agent THEN "precheck" ELSE "leased", agent |-> agent]
  OBVIOUS
<1>2. /\ n \in Asked /\ n.pc \in {"precheck", "leased"} /\ n.agent = agent
      /\ (n.agent => n.pc = "precheck") /\ (~n.agent => n.pc = "leased")
  BY <1>1 DEF Asked
<1>3. OpOk(id, n, ready')
  BY <1>2 DEF OpOk, Submit
<1>4. op[id].pc = "idle"
  BY DEF Submit, Idle
<1>5. turn' \in [submitted: Nat, reserved: Nat] /\ turn'.reserved = turn.reserved
  BY DEF Submit, ClockInv, IInv
<1>6. Quiet(id, n)
  BY <1>1, <1>2, <1>3, <1>4, <1>5 DEF Quiet, Submit, Reserving, Sending
<1>7. QED  BY <1>6, GoStep DEF Submit, books

LEMMA PrecheckRefusesStep ==
  ASSUME IInv, NEW id \in Callers, PrecheckRefuses(id)
  PROVE  IInv'
BY EndStep DEF PrecheckRefuses, books, Sending

LEMMA ReadFailsStep ==
  ASSUME IInv, NEW id \in Callers, ReadFails(id)
  PROVE  IInv'
BY EndStep DEF ReadFails, books, Sending

LEMMA JudgeRefusesStep ==
  ASSUME IInv, NEW id \in Callers, JudgeRefuses(id)
  PROVE  IInv'
BY EndStep DEF JudgeRefuses, books, Sending

\* Who passed the check of the history has its lease.
Leased(id) == IF id = Boot THEN "done" ELSE "leased"

LEMMA LeaseFacts ==
  ASSUME IInv, NEW id \in Callers, op[id].pc \in {"precheck", "merging"},
         NEW to, to \in {"merging", Leased(id)}, Goto(id, to), to = "merging" \/ ready',
         UNCHANGED <<turn, writes, disk, clockvars>>
  PROVE  \E n : Quiet(id, n) /\ n.pc \notin Reserving
<1>1. OpInv /\ ClockInv
  BY DEF IInv
<1>2. PICK n : /\ op' = [op EXCEPT ![id] = n]
               /\ op[id] = [pc |-> op[id].pc] => n = [pc |-> to]
               /\ op[id] \in Asked /\ to \in {"precheck", "merging", "leased"} =>
                    n \in Asked /\ n.pc = to /\ n.agent = op[id].agent
  BY <1>1, GotoFacts
<1>3. \/ op[id] = [pc |-> op[id].pc] /\ id = Boot
      \/ op[id] \in Asked /\ id # Boot /\ op[id].agent
  BY <1>1, OpFacts
<1>4. CASE op[id] = [pc |-> op[id].pc] /\ id = Boot
  <2>1. n = [pc |-> to] /\ to \in {"merging", "done"}
    BY <1>2, <1>4 DEF Leased
  <2>2. n.pc = to /\ n \in Plain(id) /\ n \notin Asked \cup Looked \cup Reserved
    BY <1>4, <2>1 DEF Plain, Asked, Looked, Reserved, Reserving
  <2>3. OpOk(id, n, ready')
    BY <2>2 DEF OpOk
  <2>4. QED  BY <1>1, <1>2, <2>1, <2>2, <2>3 DEF Quiet, Reserving, ClockInv, Sending
<1>5. CASE op[id] \in Asked /\ id # Boot /\ op[id].agent
  <2>1. n \in Asked /\ n.pc = to /\ n.agent /\ to \in {"merging", "leased"}
    BY <1>2, <1>5 DEF Leased
  <2>2. OpOk(id, n, ready')
    BY <1>5, <2>1 DEF OpOk
  <2>3. QED  BY <1>1, <1>2, <2>1, <2>2 DEF Quiet, Reserving, ClockInv, Sending
<1>6. QED  BY <1>3, <1>4, <1>5

LEMMA PrecheckPassesStep ==
  ASSUME IInv, NEW id \in Callers, PrecheckPasses(id)
  PROVE  IInv'
<1>1. PICK n : Quiet(id, n)
  BY LeaseFacts DEF PrecheckPasses, Leased, books
<1>2. QED  BY <1>1, GoStep DEF PrecheckPasses, books

\* The clock is a number, and never at its beginning.
LEMMA ClockFacts ==
  ASSUME ClockInv
  PROVE  clock \in Nat /\ clock > 0 /\ clock = StartClock + time - behind
<1>1. time \in Nat /\ behind \in 0 .. MaxSetBack /\ MaxSetBack \in 0 .. 99
  BY LedgerAssumption DEF ClockInv, StartClock
<1>2. QED  BY <1>1 DEF clock, StartClock

\* What is written is a change, and its record says when at the earliest it was made.
LEMMA WriteOnRecord ==
  ASSUME OpInv, WriteInv, ClockInv, RecordInv, NEW w \in writes,
         NEW r \in log \cup late, r.event = "Dispatching", r.key = w.key
  PROVE  /\ r \in DispatchingRecord
         /\ r.before = w.before /\ r.target = w.target /\ Dated(r.at, w)
<1>1. RecordOk(r)
  BY DEF RecordInv
<1>2. r \in DispatchingRecord
  BY <1>1 DEF RecordOk, FinishedRecord
<1>3. PICK v \in Changes : v = Bare(w)
  BY DEF Changes
<1>4. v.key = w.key /\ v.before = w.before /\ v.target = w.target /\ v.at = w.at
  BY <1>3 DEF Bare
<1>5. v.before = r.before /\ v.target = r.target /\ Dated(r.at, v)
  BY <1>1, <1>4 DEF RecordOk
<1>6. QED  BY <1>2, <1>4, <1>5 DEF Dated

\* Who reads the history reads the records of every agent's write that counts.
LEMMA ReadHistoryStep ==
  ASSUME IInv, NEW id \in Callers, ReadHistory(id)
  PROVE  IInv'
<1>1. OpInv /\ WriteInv /\ ClockInv /\ RecordInv
  BY DEF IInv
<1>2. PICK n : Quiet(id, n)
  BY LeaseFacts DEF ReadHistory
<1>3. PICK held : held = [by |-> id, now |-> clock,
                          records |-> since(saturating_sub(clock, RETENTION))]
  OBVIOUS
<1>4. rebuilding' = {held} /\ ~ready' /\ log' = log /\ writes' = writes /\ time' = time
  BY <1>3 DEF ReadHistory, Some, disk, clockvars
<1>5. held.now = clock /\ held.records = since(saturating_sub(clock, RETENTION))
  BY <1>3
<1>6. held.records \subseteq log /\ held.now \in Nat
  BY <1>1, <1>5, ClockFacts DEF since
<1>7. ASSUME NEW w \in writes, w.agent, w.at > time - RETENTION
      PROVE  \E r \in held.records : /\ r.event = "Dispatching" /\ r.key = w.key
                                     /\ r.at >= saturating_sub(held.now, RETENTION)
  <2>1. PICK r \in log : r.event = "Dispatching" /\ r.key = w.key
    BY <1>1, <1>7 DEF RecordInv, OnRecord
  <2>2. r \in DispatchingRecord /\ Dated(r.at, w)
    BY <1>1, <2>1, WriteOnRecord
  <2>3. r.at \in Nat /\ r.at >= StartClock + w.at - behind
    BY <2>2 DEF DispatchingRecord, Dated
  <2>4. w.at \in Nat
    BY <1>1 DEF WriteInv, Write
  <2>5. r.at >= saturating_sub(clock, RETENTION)
    BY <1>1, <1>7, <2>3, <2>4, ClockFacts, PolicyAssumption, LedgerAssumption
    DEF saturating_sub, ClockInv, StartClock
  <2>6. QED  BY <1>5, <2>1, <2>5 DEF since
<1>8. HeldInv'
  BY <1>4, <1>6, <1>7 DEF HeldInv
<1>9. QED  BY <1>2, <1>8, QuietStep DEF ReadHistory

\* A rebuild counts records as they are, and every one that a write is known by.
LEMMA RebuildFacts ==
  ASSUME OpInv, WriteInv, ClockInv, RecordInv, NEW records \in SUBSET log, NEW now
  PROVE  /\ \A e \in rebuild(records, now) : \E r \in log :
              /\ r.event = "Dispatching" /\ r \in DispatchingRecord /\ e.key = r.key
              /\ e.at = r.at /\ e.before = r.before /\ e.target = r.target
         /\ \A w \in writes, r \in records :
              /\ r.event = "Dispatching" /\ r.key = w.key
              /\ r.at >= saturating_sub(now, RETENTION)
              => \E e \in rebuild(records, now) :
                   /\ e.key = r.key /\ e.at = r.at /\ e.before = r.before /\ e.target = r.target
<1> DEFINE not_dispatched == {r.key : r \in {f \in records : f.event = "Finished" /\ ~f.dispatched}}
           counted == {r \in records : r.event = "Dispatching" /\ r.key \notin not_dispatched}
           entry(r) == [key |-> r.key, at |-> r.at,
                        before |-> {level_or_lowest(b) : b \in r.before},
                        target |-> level_or_lowest(r.target)]
<1>1. rebuild(records, now) = prune({entry(r) : r \in counted}, now)
  BY DEF rebuild
<1>2. \A r \in counted : r \in log /\ RecordOk(r) /\ r \in DispatchingRecord
  <2> SUFFICES ASSUME NEW r \in records, r.event = "Dispatching"
               PROVE  r \in log /\ RecordOk(r) /\ r \in DispatchingRecord
    OBVIOUS
  <2>1. RecordOk(r)
    BY DEF RecordInv
  <2>2. QED  BY <2>1 DEF RecordOk, FinishedRecord
<1>3. ASSUME NEW r \in counted
      PROVE  /\ entry(r).key = r.key /\ entry(r).at = r.at /\ entry(r).before = r.before
             /\ entry(r).target = r.target
  <2>1. r.before \subseteq Volumes /\ r.target \in Volumes
    BY <1>2, LevelFacts DEF DispatchingRecord
  <2>2. \A t \in Volumes : level_or_lowest(t) = t
    BY DEF level_or_lowest, Volumes
  <2>3. {level_or_lowest(b) : b \in r.before} = r.before
    BY <2>1, <2>2
  <2>4. QED  BY <2>1, <2>2, <2>3
<1>4. ASSUME NEW e \in rebuild(records, now)
      PROVE  \E r \in log :
               /\ r.event = "Dispatching" /\ r \in DispatchingRecord /\ e.key = r.key
               /\ e.at = r.at /\ e.before = r.before /\ e.target = r.target
  <2>1. PICK r \in counted : e = entry(r)
    BY <1>1 DEF prune
  <2>2. QED  BY <1>2, <1>3, <2>1
<1>5. ASSUME NEW w \in writes, NEW r \in records, r.event = "Dispatching", r.key = w.key,
             r.at >= saturating_sub(now, RETENTION)
      PROVE  \E e \in rebuild(records, now) :
               /\ e.key = r.key /\ e.at = r.at /\ e.before = r.before /\ e.target = r.target
  <2>1. r.key \notin not_dispatched
    <3> SUFFICES ASSUME NEW f \in records, f.event = "Finished", f.key = w.key  PROVE FALSE
      BY <1>5
    <3>1. RecordOk(f)
      BY DEF RecordInv
    <3>2. QED  BY <3>1 DEF RecordOk
  <2>2. r \in counted
    BY <1>5, <2>1
  <2>3. entry(r) \in rebuild(records, now)
    BY <1>1, <1>3, <1>5, <2>2 DEF prune
  <2>4. QED  BY <1>3, <2>2, <2>3
<1>6. QED  BY <1>4, <1>5

\* The merged ledger counts what it did, and every agent's write besides.
LEMMA MergeHistoryStep ==
  ASSUME IInv, NEW id \in Callers, MergeHistory(id)
  PROVE  IInv'
<1>1. /\ OpInv /\ WriteInv /\ ClockInv /\ RecordInv /\ LedgerInv /\ HeldInv
  BY DEF IInv
<1>2. /\ UNCHANGED <<turn, writes, disk, clockvars>> /\ ready' /\ rebuilding' = None
      /\ Goto(id, Leased(id)) /\ op[id].pc = "merging"
  BY DEF MergeHistory, Leased
<1>3. PICK n : Quiet(id, n) /\ n.pc \notin Reserving
  BY <1>2, LeaseFacts
<1>4. PICK held \in rebuilding : ledger' = merge(rebuild(held.records, held.now), ledger)
  BY DEF MergeHistory
<1>5. PICK R : R = rebuild(held.records, held.now)
  OBVIOUS
<1>6. ~ready /\ held.records \in SUBSET log
  BY <1>1 DEF HeldInv
<1>7. /\ R \subseteq ledger'
      /\ \A e \in ledger' : e \in R \cup ledger
      /\ \A e \in ledger : e \in ledger' \/ \E existing \in R : existing.key = e.key
  BY <1>4, <1>5 DEF merge
<1>8. /\ \A e \in R : \E r \in log :
           /\ r.event = "Dispatching" /\ r \in DispatchingRecord /\ e.key = r.key
           /\ e.at = r.at /\ e.before = r.before /\ e.target = r.target
      /\ \A w \in writes, r \in held.records :
           /\ r.event = "Dispatching" /\ r.key = w.key
           /\ r.at >= saturating_sub(held.now, RETENTION)
           => \E e \in R : e.key = r.key /\ e.at = r.at /\ e.before = r.before /\ e.target = r.target
  BY <1>1, <1>5, <1>6, RebuildFacts
<1>9. Changes' \subseteq Changes
  <2>1. writes' = writes /\ run' = run
    BY <1>2 DEF clockvars
  <2>2. QED  BY <1>1, <1>3, <2>1, NoNewChange DEF Quiet
<1>10. UNCHANGED <<time, behind, run>>
  BY <1>2 DEF clockvars
<1>11. ASSUME NEW v \in Changes, NEW e \in R, e.key = v.key
       PROVE  e \in ledger' /\ e.before = v.before /\ e.target = v.target /\ Dated(e.at, v)'
  <2>1. PICK r \in log : /\ r.event = "Dispatching" /\ r \in DispatchingRecord /\ e.key = r.key
                         /\ e.at = r.at /\ e.before = r.before /\ e.target = r.target
    BY <1>8
  <2>2. RecordOk(r)
    BY <1>1 DEF RecordInv
  <2>3. v.before = r.before /\ v.target = r.target /\ Dated(r.at, v)
    BY <1>11, <2>1, <2>2 DEF RecordOk
  <2>4. QED  BY <1>7, <1>10, <2>1, <2>3 DEF Dated
<1>12. ASSUME NEW v \in Changes, ~v.agent, v.key[1] = run, v.at > time - RETENTION
       PROVE  \E e \in ledger' : /\ e.key = v.key /\ e.before = v.before /\ e.target = v.target
                                 /\ Dated(e.at, v)'
  <2>1. PICK e \in ledger : /\ e.key = v.key /\ e.before = v.before /\ e.target = v.target
                            /\ Dated(e.at, v)
    BY <1>1, <1>12 DEF LedgerInv, Counted
  <2>2. Dated(e.at, v)'
    BY <1>10, <2>1 DEF Dated
  <2>3. CASE e \in ledger'
    BY <2>1, <2>2, <2>3
  <2>4. CASE \E existing \in R : existing.key = e.key
    BY <1>11, <2>1, <2>4
  <2>5. QED  BY <1>7, <2>3, <2>4
<1>13. ASSUME NEW v \in Changes, v.agent, v.at > time - RETENTION
       PROVE  \E e \in ledger' : /\ e.key = v.key /\ e.before = v.before /\ e.target = v.target
                                 /\ Dated(e.at, v)'
  <2>1. PICK w \in writes : v = Bare(w)
    <3>1. ASSUME NEW c \in Callers, op[c].pc \in Reserving, v = Pending(c)  PROVE FALSE
      <4>1. op[c].agent
        BY <1>13, <3>1 DEF Pending
      <4>2. QED  BY <1>1, <1>6, <3>1, <4>1, OpFacts
    <3>2. QED  BY <3>1 DEF Changes
  <2>2. w.agent /\ w.at = v.at /\ w.key = v.key
    BY <1>13, <2>1 DEF Bare
  <2>3. PICK r \in held.records : /\ r.event = "Dispatching" /\ r.key = w.key
                                  /\ r.at >= saturating_sub(held.now, RETENTION)
    BY <1>1, <1>13, <2>2 DEF HeldInv
  <2>4. PICK e \in R : e.key = r.key
    BY <1>8, <2>3
  <2>5. QED  BY <1>11, <2>2, <2>3, <2>4
<1>14. \A e \in ledger' : e.at \in Nat /\ e.before \subseteq Volumes /\ e.target \in Volumes
  <2> SUFFICES ASSUME NEW e \in R
               PROVE  e.at \in Nat /\ e.before \subseteq Volumes /\ e.target \in Volumes
    BY <1>1, <1>7 DEF LedgerInv
  <2>1. PICK r \in DispatchingRecord : e.at = r.at /\ e.before = r.before /\ e.target = r.target
    BY <1>8
  <2>2. QED  BY <2>1, LevelFacts DEF DispatchingRecord
<1>15. LedgerInv'
  <2>1. ASSUME NEW v \in Changes', Counted(v)', v.at > time' - RETENTION
        PROVE  \E e \in ledger' : /\ e.key = v.key /\ e.before = v.before /\ e.target = v.target
                                  /\ Dated(e.at, v)'
    <3>1. v \in Changes /\ v.agent \in BOOLEAN
      BY <1>1, <1>9, ChangeFacts
    <3>2. v.agent \/ v.key[1] = run
      BY <1>10, <2>1 DEF Counted
    <3>3. QED  BY <1>10, <1>12, <1>13, <2>1, <3>1, <3>2
  <2>2. QED  BY <1>14, <2>1 DEF LedgerInv
<1>16. HeldInv'
  BY <1>2 DEF HeldInv, None
<1>17. QED  BY <1>2, <1>3, <1>15, <1>16, QuietStep

\* What is asked and read at the start is kept for the decision.
LEMMA LookStep ==
  ASSUME IInv, NEW id \in Callers, Look(id)
  PROVE  IInv'
<1>1. PICK policy \in load_policy, shown \in ShownVolume, target \in Targets :
         op' = [op EXCEPT ![id] =
                  IF op[id].agent /\ policy = None THEN [pc |-> "done"]
                  ELSE [pc |-> "looked", agent |-> op[id].agent, target |-> target,
                        before |-> shown, policy |-> IF op[id].agent THEN policy ELSE None]]
  BY DEF Look
<1>2. op[id].pc = "leased" /\ UNCHANGED <<turn, writes, ledger, ready, rebuilding, disk, clockvars>>
  BY DEF Look, books
<1>3. CASE op[id].agent /\ policy = None
  <2>1. At(id, "done")
    BY <1>1, <1>3 DEF At
  <2>2. QED  BY <1>2, <2>1, EndStep DEF Sending
<1>4. CASE ~(op[id].agent /\ policy = None)
  <2>1. PICK n : n = [pc |-> "looked", agent |-> op[id].agent, target |-> target,
                      before |-> shown, policy |-> IF op[id].agent THEN policy ELSE None]
    OBVIOUS
  <2>2. op' = [op EXCEPT ![id] = n]
    BY <1>1, <1>4, <2>1
  <2>3. /\ op[id] \in Asked /\ id # Boot
        /\ op[id].agent => ready
    BY <1>2, OpFacts DEF IInv
  <2>4. op[id].agent \in BOOLEAN
    BY <2>3 DEF Asked
  <2>5. n \in Looked /\ n.pc = "looked" /\ n.agent = op[id].agent
    BY <2>1, <2>4 DEF Looked, load_policy
  <2>6. OpOk(id, n, ready')
    BY <1>2, <2>3, <2>5 DEF OpOk, Asked
  <2>7. Quiet(id, n)
    BY <1>2, <2>2, <2>5, <2>6 DEF Quiet, Reserving, ClockInv, IInv, Sending
  <2>8. QED  BY <1>2, <2>7, GoStep
<1>5. QED  BY <1>3, <1>4

\* The Decided record lets an agent go on; an Operator goes on without it.
LEMMA AppendDecidedStep ==
  ASSUME IInv, NEW id \in Callers, AppendDecided(id)
  PROVE  IInv'
<1>1. op[id].pc = "allowed" /\ UNCHANGED <<ready, rebuilding, turn, writes, disk, clockvars>>
  BY DEF AppendDecided
<1>2. CASE At(id, "done") /\ Release(id)
  BY <1>1, <1>2, EndStep DEF Sending
<1>3. ASSUME NEW to \in {"decided", "dispatch"}, Goto(id, to), ledger' = ledger,
             to = "dispatch" => ~op[id].agent
      PROVE  IInv'
  <2>1. OpInv /\ op[id] \in Reserved /\ id # Boot /\ (op[id].agent => ready)
    BY <1>1, OpFacts DEF IInv, Reserving
  <2>2. PICK n : /\ op' = [op EXCEPT ![id] = n]
                 /\ n \in Reserved /\ n.pc = to /\ SameChange(n, op[id])
    <3>1. to \in Reserving
      BY DEF Reserving
    <3>2. QED  BY <1>3, <2>1, <3>1, GotoFacts
  <2>3. OpOk(id, n, ready')
    BY <1>1, <2>1, <2>2 DEF OpOk, SameChange, Asked
  <2>4. Quiet(id, n)
    BY <1>1, <1>3, <2>2, <2>3 DEF Quiet, SameChange, Sending, ClockInv, IInv
  <2>5. QED  BY <1>1, <1>3, <2>4, GoStep
<1>4. QED  BY <1>2, <1>3 DEF AppendDecided

LEMMA WithdrawnStep ==
  ASSUME IInv, NEW id \in Callers, Withdrawn(id) \/ OperateRefuses(id)
  PROVE  IInv'
<1>1. op[id].pc \in Reserving /\ id # Boot
  BY OpFacts DEF Withdrawn, OperateRefuses, Reserving, IInv
<1>2. QED  BY <1>1, EndStep DEF Withdrawn, OperateRefuses, Reserving, Sending

\* The change of an operation that reserved one and has not written is its own.
LEMMA OwnChange ==
  ASSUME OpInv, WriteInv, NEW id \in Callers, op[id].pc \in Reserving \cup {"refused"},
         NEW v \in Changes, v.key = key(id)
  PROVE  op[id].pc \in Reserving /\ v = Pending(id)
<1>1. ASSUME NEW w \in writes, v = Bare(w)  PROVE FALSE
  <2>1. w.key[1] = run /\ w.key[2] = id
    BY <1>1 DEF Bare, key
  <2>2. op[id].pc \in {"written", "done"}
    BY <2>1 DEF WriteInv
  <2>3. QED  BY <2>2 DEF Reserving
<1>2. ASSUME NEW c \in Callers, op[c].pc \in Reserving, v = Pending(c)
      PROVE  op[id].pc \in Reserving /\ v = Pending(id)
  <2>1. c = id
    BY <1>2 DEF Pending, key
  <2>2. QED  BY <1>2, <2>1
<1>3. QED  BY <1>1, <1>2 DEF Changes

\* The record of a dispatch says what was reserved, and comes no earlier.
LEMMA AppendDispatchingStep ==
  ASSUME IInv, NEW id \in Callers, AppendDispatching(id)
  PROVE  IInv'
<1>1. OpInv /\ WriteInv /\ ClockInv
  BY DEF IInv
<1>2. op[id].pc = "decided" /\ UNCHANGED <<ready, rebuilding, turn, writes, clockvars>>
  BY DEF AppendDispatching
<1>3. PICK ok \in BOOLEAN :
        /\ append_within(Dispatching(id), ok)
        /\ IF ok \/ ~op[id].agent THEN Goto(id, "dispatch") /\ UNCHANGED ledger
           ELSE At(id, "refused") /\ Release(id)
  BY DEF AppendDispatching
<1>4. op[id] \in Reserved /\ id # Boot /\ (op[id].agent => ready)
  BY <1>1, <1>2, OpFacts DEF Reserving
<1>5. PICK r : r = Dispatching(id)
  OBVIOUS
<1>6. /\ r.event = "Dispatching" /\ r.key = <<run, id>> /\ r.at = clock
      /\ r.before = op[id].before /\ r.target = op[id].target
      /\ r = [event |-> r.event, key |-> r.key, at |-> r.at, before |-> r.before,
              target |-> r.target]
  BY <1>5 DEF Dispatching, key
<1>7. /\ log \subseteq log' /\ log' \cup late' \subseteq log \cup late \cup {r}
      /\ ok => r \in log'
  BY <1>3, <1>5, <1>6 DEF append_within, Kept
<1>8. PICK n : /\ op' = [op EXCEPT ![id] = n] /\ OpOk(id, n, ready')
               /\ n.pc \in {"dispatch", "refused"}
               /\ n.pc \in Reserving => SameChange(n, op[id])
               /\ n.pc = "dispatch" /\ n.agent => ok
               /\ n.pc = "refused" => n.pc \notin Reserving
               /\ \/ ledger' = ledger
                  \/ n.pc = "refused" /\ ledger' = settle(ledger, key(id), FALSE)
  <2>1. CASE ok \/ ~op[id].agent
    <3>1. PICK n : /\ op' = [op EXCEPT ![id] = n]
                   /\ n \in Reserved /\ n.pc = "dispatch" /\ SameChange(n, op[id])
      BY <1>1, <1>3, <1>4, <2>1, GotoFacts DEF Reserving
    <3>2. OpOk(id, n, ready')
      BY <1>2, <1>4, <3>1 DEF OpOk, SameChange, Asked
    <3>3. QED  BY <1>3, <2>1, <3>1, <3>2 DEF SameChange
  <2>2. CASE ~(ok \/ ~op[id].agent)
    <3>1. PICK n : n = [pc |-> "refused"]
      OBVIOUS
    <3>2. n \in Plain(id) /\ n.pc = "refused" /\ n.pc \notin Reserving
      BY <1>4, <3>1 DEF Plain, Reserving
    <3>3. n \notin Asked \cup Looked \cup Reserved
      BY <3>2 DEF Asked, Looked, Reserved, Reserving
    <3>4. OpOk(id, n, ready')
      BY <3>2, <3>3 DEF OpOk
    <3>5. QED  BY <1>3, <2>2, <3>1, <3>2, <3>4 DEF At, Release
  <2>3. QED  BY <2>1, <2>2
<1>9. UNCHANGED <<time, behind, run, runs>>
  BY <1>2 DEF clockvars
<1>10. Changes' \subseteq Changes
  BY <1>1, <1>2, <1>8, <1>9, NoNewChange
<1>11. RecordOk(r)'
  <2>1. r \in DispatchingRecord
    <3>1. run \in Nat /\ clock \in Nat
      BY <1>1, ClockFacts DEF ClockInv
    <3>2. r.key \in Nat \X Callers /\ op[id].before \in ShownVolume /\ op[id].target \in Targets
      BY <1>4, <1>6, <3>1 DEF Reserved
    <3>3. QED  BY <1>6, <3>1, <3>2 DEF DispatchingRecord
  <2>2. r.key[1] \in runs' /\ r.key[2] = id
    BY <1>1, <1>6, <1>9 DEF ClockInv
  <2>3. op'[id].pc \in Dispatched
    BY <1>1, <1>8 DEF OpInv, Dispatched, Sending
  <2>4. ASSUME NEW v \in Changes', v.key = r.key
        PROVE  v.before = r.before /\ v.target = r.target /\ Dated(r.at, v)'
    <3>1. v = Pending(id)
      BY <1>1, <1>2, <1>6, <1>10, <2>4, OwnChange DEF Reserving, key
    <3>2. v.before = r.before /\ v.target = r.target
      BY <1>6, <3>1 DEF Pending
    <3>3. v.at \in Nat /\ v.at <= time
      BY <1>1, <1>10, ChangeFacts
    <3>4. Dated(r.at, v)
      BY <1>1, <1>6, <3>3, ClockFacts DEF Dated, ClockInv, StartClock
    <3>5. QED  BY <1>9, <3>2, <3>4 DEF Dated
  <2>5. QED  BY <1>6, <2>1, <2>2, <2>3, <2>4 DEF RecordOk
<1>12. n.pc \in Sending /\ n.agent => OnRecord(<<run, id>>)'
  BY <1>6, <1>7, <1>8, <1>9 DEF OnRecord, Sending
<1>13. Move(id, n)
  <2>1. turn' \in [submitted: Nat, reserved: Nat] /\ turn'.reserved = turn.reserved
    BY <1>1, <1>2 DEF ClockInv
  <2>2. \A x \in log' \cup late' : x \in log \cup late \/ RecordOk(x)'
    BY <1>7, <1>11
  <2>3. QED  BY <1>2, <1>7, <1>8, <1>12, <2>1, <2>2 DEF Move, Sending
<1>14. QED  BY <1>2, <1>8, <1>13, MoveStep

\* The record of an end without a write is about no write.
LEMMA RecordFinishedStep ==
  ASSUME IInv, NEW id \in Callers, RecordFinished(id)
  PROVE  IInv'
<1>1. OpInv /\ WriteInv /\ ClockInv
  BY DEF IInv
<1>2. /\ op[id].pc \in {"refused", "written"} /\ At(id, "done") /\ id # Boot
      /\ UNCHANGED <<turn, writes, ledger, ready, rebuilding, clockvars>>
  BY <1>1, OpFacts DEF RecordFinished, books
<1>3. PICK f : f = Finished(id, op[id].pc = "written")
  OBVIOUS
<1>4. /\ f.event = "Finished" /\ f.key = <<run, id>> /\ f.dispatched = (op[id].pc = "written")
      /\ f = [event |-> f.event, key |-> f.key, at |-> f.at, dispatched |-> f.dispatched]
      /\ f.at = clock
  BY <1>3 DEF Finished, key
<1>5. /\ log \subseteq log' /\ log' \cup late' \subseteq log \cup late \cup {f}
      /\ op[id].pc = "written" => log' \cup late' \subseteq log \cup late
  <2>1. PICK ok \in BOOLEAN : append_within(f, ok)
    BY <1>3 DEF RecordFinished
  <2>2. op[id].pc = "written" => ~Kept(f)
    BY <1>4 DEF Kept
  <2>3. QED  BY <2>1, <2>2 DEF append_within, disk
<1>6. PICK n : n = [pc |-> "done"]
  OBVIOUS
<1>7. n.pc = "done" /\ n \in Plain(id) /\ n.pc \notin Reserving
  BY <1>2, <1>6 DEF Plain, Reserving
<1>8. op' = [op EXCEPT ![id] = n] /\ op'[id].pc = "done"
  BY <1>1, <1>2, <1>6 DEF At, OpInv
<1>9. UNCHANGED <<time, behind, run, runs>>
  BY <1>2 DEF clockvars
<1>10. ASSUME op[id].pc = "refused"  PROVE RecordOk(f)'
  <2>1. f \in FinishedRecord
    <3>1. run \in Nat /\ clock \in Nat
      BY <1>1, ClockFacts DEF ClockInv
    <3>2. f.dispatched = FALSE
      BY <1>4, <1>10
    <3>3. f.key \in Nat \X Callers
      BY <1>4, <3>1
    <3>4. QED  BY <1>4, <3>1, <3>2, <3>3 DEF FinishedRecord
  <2>2. f.key[1] \in runs' /\ f.key[2] = id
    BY <1>1, <1>4, <1>9 DEF ClockInv
  <2>3. \A w \in writes' : w.key # f.key
    BY <1>1, <1>2, <1>4, <1>10 DEF WriteInv
  <2>4. QED  BY <1>4, <1>8, <2>1, <2>2, <2>3 DEF RecordOk
<1>11. OpOk(id, n, ready')
  <2>1. n \notin Asked \cup Looked \cup Reserved
    BY <1>7 DEF Asked, Looked, Reserved, Reserving
  <2>2. QED  BY <1>7, <2>1 DEF OpOk
<1>12. Move(id, n)
  <2>1. turn' \in [submitted: Nat, reserved: Nat] /\ turn'.reserved = turn.reserved
    BY <1>1, <1>2 DEF ClockInv
  <2>2. \A x \in log' \cup late' : x \in log \cup late \/ RecordOk(x)'
    BY <1>2, <1>5, <1>10
  <2>3. QED  BY <1>2, <1>5, <1>7, <1>8, <1>11, <2>1, <2>2 DEF Move, Sending, Dispatched
<1>13. QED  BY <1>2, <1>12, MoveStep

-----------------------------------------------------------------------------
(* Reserving and writing.                                                  *)

\* A reserved change joins the others, and none of it was recorded before.
LEMMA ReserveStep ==
  ASSUME IInv, NEW id \in Callers, op[id].pc = "looked",
         NEW next \in {"allowed", "dispatch"}, NEW baseline \in Baselines,
         reserve(id, next, baseline), UNCHANGED <<ready, rebuilding, writes, disk, clockvars>>,
         op[id].agent => next = "allowed",
         op[id].agent => \A b \in Budgets(op[id]) :
           /\ "volume" \in baseline
           /\ \E o \in Volumes :
                /\ op[id].before = {o}
                /\ op[id].target > o =>
                     /\ op[id].target - o <= b.rise
                     /\ \A v \in Changes : v.at > time - b.window /\ (v.agent \/ v.key[1] = run)
                          => \A l \in v.before \cup {v.target} : op[id].target - l <= b.rise
  PROVE  IInv'
<1> DEFINE o == op[id]
<1>1. OpInv /\ WriteInv /\ ClockInv /\ LedgerInv /\ RecordInv /\ HeldInv /\ BudgetInv
  BY DEF IInv
<1>2. o \in Looked /\ id # Boot /\ (o.agent => ready)
  BY <1>1, OpFacts
<1>3. PICK n : n = [pc |-> next, agent |-> o.agent, target |-> o.target,
                    before |-> o.before, policy |-> o.policy,
                    at |-> time, turn |-> turn.reserved, baseline |-> baseline, seen |-> None]
  OBVIOUS
<1>4. /\ n.pc = next /\ n.agent = o.agent /\ n.target = o.target /\ n.before = o.before
      /\ n.policy = o.policy /\ n.at = time /\ n.turn = turn.reserved /\ n.baseline = baseline
  BY <1>3
<1>5. op' = [op EXCEPT ![id] = n] /\ \A c \in Callers : op'[c] = IF c = id THEN n ELSE op[c]
  BY <1>1, <1>3 DEF reserve, OpInv
<1>6. UNCHANGED <<time, behind, run, runs, log, late, writes>>
  BY DEF clockvars, disk
<1>7. n \in Reserved
  BY <1>1, <1>2, <1>3 DEF Reserved, Reserving, Looked, ClockInv, Seen
<1>8. turn' \in [submitted: Nat, reserved: Nat] /\ turn'.reserved = turn.reserved + 1
  BY <1>1 DEF reserve, ClockInv
<1>9. ClockInv'
  BY <1>1, <1>6, <1>8 DEF ClockInv
<1>10. OpInv'
  <2>1. OpOk(id, n, ready')
    BY <1>2, <1>4, <1>7 DEF OpOk, Asked, Reserved
  <2>2. QED  BY <1>1, <1>5, <2>1, OpStep
<1>11. PICK c : c = Pending(id)'
  OBVIOUS
<1>12. /\ c.key = <<run, id>> /\ c.agent = o.agent /\ c.at = time /\ c.turn = turn.reserved
       /\ c.before = o.before /\ c.target = o.target /\ c.policy = o.policy
  BY <1>4, <1>5, <1>6, <1>11 DEF Pending, key
<1>13. \A v \in Changes' : v \in Changes \/ v = c
  <2> SUFFICES ASSUME NEW x \in Callers, op'[x].pc \in Reserving, x # id
               PROVE  Pending(x)' \in Changes
    BY <1>6, <1>11 DEF Changes, Bare
  <2>1. op'[x] = op[x]
    BY <1>5
  <2>2. Pending(x)' = Pending(x) /\ op[x].pc \in Reserving
    BY <1>6, <2>1 DEF Pending, key
  <2>3. QED  BY <2>2 DEF Changes
<1> HIDE DEF o
<1>14. WriteInv'
  <2>1. ASSUME NEW w \in writes
        PROVE  w.key[1] \in runs /\ (w.key[1] = run => op'[w.key[2]].pc \in {"written", "done"})
    <3>1. /\ w \in Write /\ w.key[1] \in runs
          /\ w.key[1] = run => op[w.key[2]].pc \in {"written", "done"}
      BY <1>1 DEF WriteInv
    <3>2. w.key[2] \in Callers
      BY <3>1 DEF Write
    <3>3. QED  BY <1>5, <3>1, <3>2
  <2>2. ASSUME NEW v \in Changes'  PROVE v.at <= time /\ v.turn < turn.reserved + 1
    <3>1. v \in Changes => v.at <= time /\ v.turn < turn.reserved /\ v.turn \in Nat
      BY <1>1, ChangeFacts
    <3>2. QED  BY <1>1, <1>12, <1>13, <3>1 DEF ClockInv
  <2>3. QED  BY <1>1, <1>6, <1>8, <2>1, <2>2 DEF WriteInv
<1>15. HeldInv'
  <2>1. log \subseteq log' /\ time' \in Int /\ time <= time'
    BY <1>1, <1>6 DEF ClockInv
  <2>2. QED  BY <1>1, <1>6, <2>1, HeldStep
<1>16. LedgerInv'
  <2>1. PICK e0 : e0 = [key |-> <<run, id>>, at |-> clock, before |-> op[id].before,
                        target |-> op[id].target]
    OBVIOUS
  <2>2. /\ ledger' = prune(ledger, clock) \cup {e0} /\ e0.key = c.key /\ e0.at = clock
        /\ e0.before = c.before /\ e0.target = c.target
    BY <1>12, <2>1 DEF reserve, key, o
  <2>3. \A e \in ledger' : e.at \in Nat /\ e.before \subseteq Volumes /\ e.target \in Volumes
    <3>1. c.before \in ShownVolume /\ c.target \in Targets
      BY <1>2, <1>12 DEF Looked
    <3>2. QED  BY <1>1, <2>2, <3>1, LevelFacts, ClockFacts DEF LedgerInv, prune
  <2>4. Dated(e0.at, c)'
    BY <1>1, <1>6, <1>12, <2>2, ClockFacts DEF Dated
  <2>5. ASSUME NEW v \in Changes, Counted(v), v.at > time - RETENTION
        PROVE  \E e \in ledger' : /\ e.key = v.key /\ e.before = v.before /\ e.target = v.target
                                  /\ Dated(e.at, v)'
    <3>1. PICK e \in ledger : /\ e.key = v.key /\ e.before = v.before /\ e.target = v.target
                              /\ Dated(e.at, v)
      BY <1>1, <2>5 DEF LedgerInv
    <3>2. e.at \in Nat /\ v.at \in Nat
      BY <1>1, ChangeFacts DEF LedgerInv
    <3>3. e.at >= saturating_sub(clock, RETENTION)
      BY <1>1, <2>5, <3>1, <3>2, ClockFacts, PolicyAssumption, LedgerAssumption
      DEF Dated, saturating_sub, ClockInv, StartClock
    <3>4. e \in ledger'
      BY <2>2, <3>3 DEF prune
    <3>5. Dated(e.at, v)'
      BY <1>6, <3>1 DEF Dated
    <3>6. QED  BY <3>1, <3>4, <3>5
  <2>6. ready' = ready
    OBVIOUS
  <2>7. QED  BY <1>6, <1>13, <2>2, <2>3, <2>4, <2>5, <2>6 DEF LedgerInv, Counted
<1>17. RecordInv'
  <2>1. ASSUME NEW r \in log \cup late  PROVE RecordOk(r)'
    <3>1. RecordOk(r)
      BY <1>1 DEF RecordInv
    <3>2. r.key \in Nat \X Callers /\ r.key[2] \in Callers
      BY <3>1 DEF RecordOk, DispatchingRecord, FinishedRecord
    <3>3. r.event \in {"Dispatching", "Finished"}
      BY <3>1 DEF RecordOk, DispatchingRecord, FinishedRecord
    <3>4. ~(r.key[1] = run /\ r.key[2] = id)
      BY <3>1, <3>3 DEF RecordOk, Sending, Dispatched
    <3>5. r.key # c.key
      BY <1>12, <3>4
    <3>6. r.key[1] = run => op'[r.key[2]] = op[r.key[2]]
      BY <1>5, <3>2, <3>4
    <3>7. \A v \in Changes' : v.key = r.key => v \in Changes
      BY <1>13, <3>5
    <3>8. \A v \in Changes : Dated(r.at, v)' <=> Dated(r.at, v)
      BY <1>6 DEF Dated
    <3>9. r \in DispatchingRecord \cup FinishedRecord /\ r.key[1] \in runs'
      BY <1>6, <3>1 DEF RecordOk
    <3>10. r.event = "Dispatching" =>
             /\ r.key[1] = run' => op'[r.key[2]].pc \in Dispatched
             /\ \A v \in Changes' : v.key = r.key =>
                  v.before = r.before /\ v.target = r.target /\ Dated(r.at, v)'
      BY <1>6, <3>1, <3>6, <3>7, <3>8 DEF RecordOk
    <3>11. r.event = "Finished" => /\ r.key[1] = run' => op'[r.key[2]].pc = "done"
                                   /\ \A w \in writes' : w.key # r.key
      BY <1>6, <3>1, <3>6 DEF RecordOk
    <3>12. QED  BY <3>9, <3>10, <3>11 DEF RecordOk
  <2>2. ASSUME NEW x \in Callers, op'[x].pc \in Sending, op'[x].agent
        PROVE  OnRecord(key(x))'
    <3>1. x # id
      BY <1>4, <1>5, <2>2 DEF o, Sending
    <3>2. OnRecord(key(x))
      BY <1>1, <1>5, <2>2, <3>1 DEF RecordInv
    <3>3. QED  BY <1>6, <3>2 DEF OnRecord, key
  <2>3. \A w \in writes' : w.agent => OnRecord(w.key)'
    BY <1>1, <1>6 DEF RecordInv, OnRecord
  <2>4. QED  BY <1>6, <2>1, <2>2, <2>3 DEF RecordInv
<1>18. BudgetInv'
  <2>1. Budgets(c) = Budgets(op[id]) /\ Budgets(n) = Budgets(op[id])
    BY <1>4, <1>12 DEF Budgets, o
  <2>2. \A v \in Changes' : v.turn < c.turn => v \in Changes
    BY <1>1, <1>12, <1>13 DEF ClockInv
  <2>3. ASSUME c.agent, NEW b \in Budgets(c)
        PROVE  \E x \in Volumes : c.before = {x} /\ Within(c, x, b)'
    <3>1. PICK x \in Volumes :
            /\ op[id].before = {x}
            /\ op[id].target > x =>
                 /\ op[id].target - x <= b.rise
                 /\ \A v \in Changes : v.at > time - b.window /\ (v.agent \/ v.key[1] = run)
                      => \A l \in v.before \cup {v.target} : op[id].target - l <= b.rise
      BY <1>12, <2>1, <2>3 DEF o
    <3>2. c.before = {x} /\ c.target = op[id].target /\ c.at = time /\ c.key[1] = run
      BY <1>12, <3>1 DEF o
    <3>3. QED  BY <2>2, <3>1, <3>2 DEF Within
  <2>4. ASSUME NEW w \in Changes, w.agent, NEW b \in Budgets(w)
        PROVE  \E x \in Volumes : w.before = {x} /\ Within(w, x, b)'
    <3>1. PICK x \in Volumes : w.before = {x} /\ Within(w, x, b)
      BY <1>1, <2>4 DEF BudgetInv
    <3>2. w.turn \in Nat /\ w.turn < turn.reserved
      BY <1>1, ChangeFacts
    <3>3. \A v \in Changes' : v.turn < w.turn => v \in Changes
      BY <1>1, <1>12, <1>13, <3>2 DEF ClockInv
    <3>4. QED  BY <3>1, <3>3 DEF Within
  <2>5. ASSUME NEW x \in Callers, op'[x].pc \in Reserving, op'[x].agent, Budgets(op'[x]) # {}
        PROVE  "volume" \in op'[x].baseline
    <3>1. CASE x = id
      BY <1>4, <1>5, <2>1, <2>5, <3>1 DEF o
    <3>2. CASE x # id
      BY <1>1, <1>5, <2>5, <3>2 DEF BudgetInv
    <3>3. QED  BY <3>1, <3>2
  <2>6. \A w \in writes' : w.agent /\ Budgets(w) # {} => w.before = w.seen
    BY <1>1, <1>6 DEF BudgetInv
  <2>7. ASSUME NEW w \in Changes', w.agent, NEW b \in Budgets(w)
        PROVE  \E x \in Volumes : w.before = {x} /\ Within(w, x, b)'
    BY <1>13, <2>3, <2>4, <2>7
  <2>8. ASSUME NEW x \in Callers, op'[x].pc = "compared"  PROVE Bound(op'[x])
    BY <1>1, <1>4, <1>5, <2>8 DEF BudgetInv
  <2>9. QED  BY <2>5, <2>6, <2>7, <2>8 DEF BudgetInv, Budgets, Bound
<1>19. QED  BY <1>9, <1>10, <1>14, <1>15, <1>16, <1>17, <1>18 DEF IInv

\* The longest window of a policy covers that of every budget, and the ledger keeps it.
LEMMA WindowFacts ==
  ASSUME NEW rules \in PolicyFiles, NEW i \in DOMAIN rules, NEW b \in rules[i].conditions.budget
  PROVE  /\ longest_window(rules) \in Nat /\ b.window <= longest_window(rules)
         /\ b.window \in Nat /\ b.window <= RETENTION
<1> DEFINE windows == UNION {{x.window : x \in rules[j].conditions.budget} : j \in DOMAIN rules}
<1>1. ASSUME NEW j \in DOMAIN rules, NEW x \in rules[j].conditions.budget
      PROVE  x.window \in 1 .. MAX_WINDOW_MINUTES
  <2>1. PICK rule : rule = rules[j]
    OBVIOUS
  <2>2. validate(rule) = "ok"
    BY <2>1, PolicyFilesAssumption DEF PolicyConfig
  <2>3. rule.conditions.budget # None /\ x \in rule.conditions.budget
    BY <2>1 DEF None
  <2>4. QED  BY <2>2, <2>3, ValidBudget
<1>2. windows \subseteq 1 .. MAX_WINDOW_MINUTES /\ b.window \in windows
  BY <1>1
<1>3. longest_window(rules) = CHOOSE w \in windows : \A v \in windows : w >= v
  BY <1>2 DEF longest_window
<1> HIDE DEF windows
<1>4. PICK w \in windows : \A v \in windows : v <= w
  <2>1. windows \in SUBSET Int /\ windows # {} /\ MAX_WINDOW_MINUTES \in Int
        /\ \A v \in windows : v <= MAX_WINDOW_MINUTES
    BY <1>2, PolicyAssumption
  <2>2. QED  BY <2>1, GreatestExists
<1>5. longest_window(rules) \in windows /\ \A v \in windows : longest_window(rules) >= v
  <2>1. \A v \in windows : w >= v
    BY <1>2, <1>4
  <2>2. QED  BY <1>3, <2>1
<1>6. longest_window(rules) \in 1 .. MAX_WINDOW_MINUTES /\ b.window \in 1 .. MAX_WINDOW_MINUTES
      /\ longest_window(rules) >= b.window /\ RETENTION = MAX_WINDOW_MINUTES
  BY <1>2, <1>5, LedgerAssumption
<1>7. QED  BY <1>6, PolicyAssumption

\* An agent's change is reserved only within every budget that binds it.
LEMMA JudgeStep ==
  ASSUME IInv, NEW id \in Callers, judge(id)
  PROVE  IInv'
<1>1. OpInv /\ WriteInv /\ ClockInv /\ LedgerInv
  BY DEF IInv
<1>2. /\ op[id].pc = "looked" /\ op[id].agent
      /\ UNCHANGED <<ready, rebuilding, writes, disk, clockvars>>
  BY DEF judge
<1>3. PICK rules \in op[id].policy :
        LET decision == evaluate(PolicyInput(id, rules), rules)
        IN  decision.effect = "allow" /\ reserve(id, "allowed", decision.baseline)
  BY DEF judge
<1>4. PICK input : input = PolicyInput(id, rules)
  OBVIOUS
<1>5. PICK t : t = op[id].target
  OBVIOUS
<1>6. op[id] \in Looked /\ ready
  BY <1>1, <1>2, OpFacts
<1>7. rules \in PolicyFiles /\ op[id].policy = {rules} /\ t \in Volumes /\ op[id].before \in ShownVolume
  <2>1. /\ op[id].policy \in load_policy /\ op[id].target \in Targets
        /\ op[id].before \in ShownVolume
    BY <1>6 DEF Looked
  <2>2. rules \in PolicyFiles /\ op[id].policy = {rules}
    BY <1>3, <2>1 DEF load_policy, None, Some
  <2>3. QED  BY <1>5, <2>1, <2>2, LevelFacts
<1>8. /\ input.agent = "agent" /\ input.receiver = "receiver"
      /\ input.intent.kind = "volume"
      /\ input.intent.arg = (IF t = LOWEST THEN Minimum ELSE Some(t))
      /\ input.volume = op[id].before /\ input.now = clock
      /\ input.recent = recent(ledger, clock, longest_window(rules))
  BY <1>4, <1>5 DEF PolicyInput
<1>9. Asking(input, t)
  <2>1. Level_of(IF t = LOWEST THEN Minimum ELSE Some(t)) = t
    BY DEF Level_of, Minimum, Some, None
  <2>2. Target(input) = {t}
    BY <1>8, <2>1 DEF Target, Some
  <2>3. input.volume = None \/ \E o \in Volumes : input.volume = {o}
    BY <1>7, <1>8, LevelFacts DEF None
  <2>4. \A e \in input.recent : e.before \subseteq Volumes /\ e.target \in Volumes
    BY <1>1, <1>8 DEF recent, LedgerInv
  <2>5. QED  BY <1>8, <2>2, <2>3, <2>4 DEF Asking
<1>10. evaluate(input, rules).effect = "allow" /\ reserve(id, "allowed", evaluate(input, rules).baseline)
  BY <1>3, <1>4
<1>11. evaluate(input, rules).baseline \in Baselines
  BY DEF evaluate, Baseline, Baselines
<1>12. ASSUME NEW b \in Budgets(op[id])
       PROVE  /\ "volume" \in evaluate(input, rules).baseline
              /\ \E o \in Volumes :
                   /\ op[id].before = {o}
                   /\ t > o =>
                        /\ t - o <= b.rise
                        /\ \A v \in Changes : v.at > time - b.window /\ (v.agent \/ v.key[1] = run)
                             => \A l \in v.before \cup {v.target} : t - l <= b.rise
  <2>1. PICK i \in DOMAIN rules : Binds(rules[i]) /\ b \in rules[i].conditions.budget
    BY <1>7 DEF Budgets
  <2>2. t \in Int
    BY <1>7, LevelFacts
  <2>3. /\ "volume" \in evaluate(input, rules).baseline
        /\ \E o \in Volumes :
             /\ input.volume = {o}
             /\ t > o => /\ t - o <= b.rise
                         /\ \A c \in InWindow(input.recent, input.now, b.window) :
                              \A l \in c.before \cup {c.target} : t - l <= b.rise
    BY <1>7, <1>9, <1>10, <2>1, <2>2, AllowedFacts
  <2>4. /\ longest_window(rules) \in Nat /\ b.window <= longest_window(rules)
        /\ b.window \in Nat /\ b.window <= RETENTION
    BY <1>7, <2>1, WindowFacts
  <2>5. ASSUME NEW v \in Changes, v.at > time - b.window, v.agent \/ v.key[1] = run
        PROVE  \E c \in InWindow(input.recent, input.now, b.window) :
                 c.before = v.before /\ c.target = v.target
    <3>1. v.at \in Nat /\ RETENTION \in Nat
      BY <1>1, ChangeFacts, LedgerAssumption, PolicyAssumption
    <3>2. Counted(v) /\ v.at > time - RETENTION
      BY <1>1, <1>6, <2>4, <2>5, <3>1 DEF Counted, ClockInv
    <3>3. PICK e \in ledger : e.before = v.before /\ e.target = v.target /\ Dated(e.at, v)
      BY <1>1, <3>2 DEF LedgerInv
    <3>4. e.at \in Nat /\ e.at >= StartClock + v.at - behind
      BY <1>1, <3>3 DEF LedgerInv, Dated
    <3>5. e.at > clock - b.window /\ e.at > 0
      <4>1. MaxSetBack < StartClock /\ MaxSetBack \in Nat
        BY LedgerAssumption DEF StartClock
      <4>2. QED  BY <1>1, <2>4, <2>5, <3>1, <3>4, <4>1, ClockFacts DEF ClockInv, StartClock
    <3>6. e.at > saturating_sub(clock, longest_window(rules))
      BY <1>1, <2>4, <3>4, <3>5, ClockFacts DEF saturating_sub
    <3>7. e \in input.recent
      BY <1>8, <3>6 DEF recent
    <3>8. e \in InWindow(input.recent, input.now, b.window)
      BY <1>8, <3>5, <3>7 DEF InWindow
    <3>9. QED  BY <3>3, <3>8
  <2>6. QED  BY <1>8, <2>3, <2>5
<1>13. QED  BY <1>2, <1>5, <1>10, <1>11, <1>12, ReserveStep

\* An Operator's change is reserved whatever the budgets say.
LEMMA OperatorStep ==
  ASSUME IInv, NEW id \in Callers, OperatorReserves(id)
  PROVE  IInv'
<1>1. {} \in Baselines
  BY DEF Baselines
<1>2. QED  BY <1>1, ReserveStep DEF OperatorReserves

\* Comparing binds the change to the level the session read, and changes nothing else.
LEMMA CompareStep ==
  ASSUME IInv, NEW id \in Callers, Compare(id)
  PROVE  IInv'
<1>1. OpInv /\ ClockInv /\ RecordInv
  BY DEF IInv
<1>2. /\ op[id].pc = "dispatch" /\ op[id].agent
      /\ UNCHANGED <<turn, writes, books, disk, clockvars>>
  BY DEF Compare
<1>3. PICK level \in Levels :
        /\ Holds(id, Some(level))
        /\ op' = [op EXCEPT ![id].pc = "compared", ![id].seen = Some(level)]
  BY DEF Compare
<1>4. PICK o : o = op[id]
  OBVIOUS
<1>5. o \in Reserved /\ id # Boot /\ ready
  BY <1>1, <1>2, <1>4, OpFacts DEF Reserving
<1>6. PICK n : n = [o EXCEPT !.pc = "compared", !.seen = Some(level)]
  OBVIOUS
<1>7. op' = [op EXCEPT ![id] = n]
  <2>1. op[id] \in Reserved
    BY <1>4, <1>5
  <2>2. QED  BY <1>1, <1>3, <1>4, <1>6, <2>1 DEF OpInv, Reserved
<1>8. n \in Reserved /\ n.pc = "compared" /\ n.seen = Some(level) /\ SameChange(n, o)
  BY <1>5, <1>6 DEF Reserved, Reserving, Seen, SameChange
<1>9. OpOk(id, n, ready')
  BY <1>2, <1>5, <1>8 DEF OpOk, Asked, books
<1>10. Bound(n)
  BY <1>2, <1>3, <1>4, <1>8 DEF Bound, Holds, SameChange
<1>11. OnRecord(<<run, id>>)'
  <2>1. OnRecord(key(id))
    BY <1>1, <1>2 DEF RecordInv, Sending
  <2>2. QED  BY <1>2, <2>1 DEF OnRecord, key, disk, clockvars
<1>12. Move(id, n)
  BY <1>1, <1>2, <1>4, <1>7, <1>8, <1>9, <1>10, <1>11 DEF Move, disk, ClockInv
<1>13. QED  BY <1>2, <1>12, MoveStep DEF books

\* A write is the change that was reserved, on the level its budget was judged on.
LEMMA OperateStep ==
  ASSUME IInv, NEW id \in Callers, Operate(id)
  PROVE  IInv'
<1>1. OpInv /\ WriteInv /\ ClockInv /\ LedgerInv /\ RecordInv /\ HeldInv /\ BudgetInv
  BY DEF IInv
<1>2. /\ op[id].pc \in Sending /\ At(id, "written") /\ ledger' = ledger
      /\ op[id].agent => op[id].pc = "compared"
      /\ UNCHANGED <<ready, rebuilding, turn, disk, clockvars>>
  BY DEF Operate, settle, Sending
<1>3. PICK w :
        /\ writes' = writes \cup {w}
        /\ w = [key |-> key(id), agent |-> op[id].agent, at |-> op[id].at,
                turn |-> op[id].turn, seen |-> op[id].seen, before |-> op[id].before,
                target |-> op[id].target, policy |-> op[id].policy]
  BY DEF Operate
<1>4. UNCHANGED <<time, behind, run, runs, log, late>>
  BY <1>2 DEF clockvars, disk
<1>5. op[id] \in Reserved /\ id # Boot /\ (op[id].agent => ready)
  BY <1>1, <1>2, OpFacts DEF Reserving, Sending
<1>6. /\ w.key = <<run, id>> /\ w.agent = op[id].agent /\ w.at = op[id].at
      /\ w.turn = op[id].turn /\ w.before = op[id].before /\ w.target = op[id].target
      /\ w.policy = op[id].policy /\ w.seen = op[id].seen
      /\ Bare(w) = Pending(id)
  BY <1>3 DEF key, Bare, Pending
<1>7. w \in Write
  <2>1. run \in Nat
    BY <1>1 DEF ClockInv
  <2>2. w = [key |-> w.key, agent |-> w.agent, at |-> w.at, turn |-> w.turn, seen |-> w.seen,
             before |-> w.before, target |-> w.target, policy |-> w.policy]
    BY <1>3
  <2>3. /\ w.key \in Nat \X Callers /\ w.agent \in BOOLEAN /\ w.at \in Nat /\ w.turn \in Nat
        /\ w.before \in ShownVolume /\ w.target \in Targets /\ w.policy \in load_policy
        /\ w.seen \in Seen
    BY <1>5, <1>6, <2>1 DEF Reserved
  <2>4. QED  BY <2>2, <2>3 DEF Write
<1>8. PICK n : n = [pc |-> "written"]
  OBVIOUS
<1>9. n.pc = "written" /\ n \in Plain(id) /\ n.pc \notin Reserving
  BY <1>5, <1>8 DEF Plain, Reserving
<1>10. op' = [op EXCEPT ![id] = n] /\ \A c \in Callers : op'[c] = IF c = id THEN n ELSE op[c]
  BY <1>1, <1>2, <1>8 DEF At, OpInv
<1>11. ClockInv'
  BY <1>1, <1>2, <1>4 DEF ClockInv
<1>12. OpInv'
  <2>1. n \notin Asked \cup Looked \cup Reserved
    BY <1>9 DEF Asked, Looked, Reserved, Reserving
  <2>2. OpOk(id, n, ready')
    BY <1>9, <2>1 DEF OpOk
  <2>3. QED  BY <1>1, <1>2, <1>10, <2>2, OpStep
<1>13. Changes' \subseteq Changes
  <2>1. Pending(id) \in Changes
    BY <1>2 DEF Changes, Reserving, Sending
  <2>2. ASSUME NEW x \in writes'  PROVE Bare(x) \in Changes
    BY <1>3, <1>6, <2>1 DEF Changes
  <2>3. ASSUME NEW c \in Callers, op'[c].pc \in Reserving  PROVE Pending(c)' \in Changes
    <3>1. op'[c] = op[c]
      BY <1>9, <1>10, <2>3
    <3>2. Pending(c)' = Pending(c)
      BY <1>4, <3>1 DEF Pending, key
    <3>3. QED  BY <2>3, <3>1, <3>2 DEF Changes
  <2>4. QED  BY <2>2, <2>3 DEF Changes, Bare
<1>14. WriteInv'
  <2>1. ASSUME NEW x \in writes'
        PROVE  /\ x \in Write /\ x.key[1] \in runs
               /\ x.key[1] = run => op'[x.key[2]].pc \in {"written", "done"}
    <3>1. CASE x = w
      BY <1>1, <1>6, <1>7, <1>9, <1>10, <3>1 DEF ClockInv
    <3>2. CASE x \in writes
      <4>1. /\ x \in Write /\ x.key[1] \in runs
            /\ x.key[1] = run => op[x.key[2]].pc \in {"written", "done"}
        BY <1>1, <3>2 DEF WriteInv
      <4>2. x.key[2] \in Callers
        BY <4>1 DEF Write
      <4>3. QED  BY <1>9, <1>10, <4>1, <4>2
    <3>3. QED  BY <1>3, <3>1, <3>2
  <2>2. \A v \in Changes' : v.at <= time' /\ v.turn < turn'.reserved
    BY <1>1, <1>2, <1>4, <1>13 DEF WriteInv
  <2>3. QED  BY <1>4, <2>1, <2>2 DEF WriteInv
<1>15. LedgerInv'
  <2>1. time' \in Int /\ time <= time' /\ behind' \in Int /\ behind <= behind' /\ ledger' \subseteq ledger
    BY <1>1, <1>2, <1>4 DEF ClockInv
  <2>2. \A v \in Changes' : Counted(v)' =>
          Counted(v) /\ \A e \in ledger : e.key = v.key => e \in ledger'
    BY <1>2, <1>4 DEF Counted
  <2>3. QED  BY <1>1, <1>13, <2>1, <2>2, LedgerStep DEF Counted
<1>16. RecordInv'
  <2>1. ASSUME NEW r \in log \cup late  PROVE RecordOk(r)'
    <3>1. RecordOk(r)
      BY <1>1 DEF RecordInv
    <3>2. r.key[2] \in Callers
      BY <3>1 DEF RecordOk, DispatchingRecord, FinishedRecord
    <3>3. \A v \in Changes : Dated(r.at, v)' <=> Dated(r.at, v)
      BY <1>4 DEF Dated
    <3>4. r \in DispatchingRecord \cup FinishedRecord /\ r.key[1] \in runs'
      BY <1>4, <3>1 DEF RecordOk
    <3>5. r.event = "Dispatching" =>
            /\ r.key[1] = run' => op'[r.key[2]].pc \in Dispatched
            /\ \A v \in Changes' : v.key = r.key =>
                 v.before = r.before /\ v.target = r.target /\ Dated(r.at, v)'
      BY <1>4, <1>9, <1>10, <1>13, <3>1, <3>2, <3>3 DEF RecordOk, Dispatched
    <3>6. r.event = "Finished" => r.key # w.key
      BY <1>2, <1>6, <3>1 DEF RecordOk, Sending
    <3>7. r.event = "Finished" => /\ r.key[1] = run' => op'[r.key[2]].pc = "done"
                                  /\ \A x \in writes' : x.key # r.key
      BY <1>2, <1>3, <1>4, <1>9, <1>10, <3>1, <3>2, <3>6 DEF RecordOk, Sending
    <3>8. QED  BY <3>4, <3>5, <3>7 DEF RecordOk
  <2>2. ASSUME NEW x \in Callers, op'[x].pc \in Sending, op'[x].agent
        PROVE  OnRecord(key(x))'
    <3>1. OnRecord(key(x))
      BY <1>1, <1>9, <1>10, <2>2 DEF RecordInv, Sending
    <3>2. QED  BY <1>4, <3>1 DEF OnRecord, key
  <2>3. ASSUME NEW x \in writes', x.agent  PROVE OnRecord(x.key)'
    <3>1. CASE x = w
      <4>1. OnRecord(key(id))
        BY <1>1, <1>2, <1>6, <2>3, <3>1 DEF RecordInv
      <4>2. QED  BY <1>4, <1>6, <3>1, <4>1 DEF OnRecord, key
    <3>2. CASE x \in writes
      BY <1>1, <1>4, <2>3, <3>2 DEF RecordInv, OnRecord
    <3>3. QED  BY <1>3, <3>1, <3>2
  <2>4. QED  BY <1>4, <2>1, <2>2, <2>3 DEF RecordInv
<1>17. HeldInv'
  <2> SUFFICES ASSUME NEW held \in rebuilding
               PROVE  /\ ~ready' /\ rebuilding' = {held}
                      /\ held.records \subseteq log' /\ held.now \in Nat
                      /\ \A x \in writes' : x.agent /\ x.at > time' - RETENTION =>
                           \E r \in held.records : /\ r.event = "Dispatching" /\ r.key = x.key
                                                   /\ r.at >= saturating_sub(held.now, RETENTION)
    BY <1>2 DEF HeldInv
  <2>1. ~ready
    BY <1>1 DEF HeldInv
  <2>2. \A x \in writes' : x.agent => x \in writes
    BY <1>3, <1>5, <1>6, <2>1
  <2>3. QED  BY <1>1, <1>2, <1>4, <2>2 DEF HeldInv
<1>18. BudgetInv'
  <2>1. ASSUME NEW v \in Changes', v.agent, NEW b \in Budgets(v)
        PROVE  \E o \in Volumes : v.before = {o} /\ Within(v, o, b)'
    <3>1. PICK o \in Volumes : v.before = {o} /\ Within(v, o, b)
      BY <1>1, <1>13, <2>1 DEF BudgetInv
    <3>2. QED  BY <1>13, <3>1 DEF Within
  <2>2. \A c \in Callers : op'[c].pc \in Reserving => op'[c] = op[c]
    BY <1>9, <1>10
  <2>3. ASSUME NEW c \in Callers, op'[c].pc \in Reserving, op'[c].agent, Budgets(op'[c]) # {}
        PROVE  "volume" \in op'[c].baseline
    BY <1>1, <2>2, <2>3 DEF BudgetInv
  <2>4. ASSUME NEW x \in writes', x.agent, Budgets(x) # {}  PROVE x.before = x.seen
    <3>1. CASE x = w
      <4>1. Budgets(op[id]) # {}
        BY <1>6, <2>4, <3>1 DEF Budgets
      <4>2. "volume" \in op[id].baseline
        BY <1>1, <1>2, <1>6, <2>4, <3>1, <4>1 DEF BudgetInv, Reserving, Sending
      <4>3. Bound(op[id])
        BY <1>1, <1>2, <1>6, <2>4, <3>1 DEF BudgetInv
      <4>4. QED  BY <1>6, <3>1, <4>2, <4>3 DEF Bound
    <3>2. CASE x \in writes
      BY <1>1, <2>4, <3>2 DEF BudgetInv
    <3>3. QED  BY <1>3, <3>1, <3>2
  <2>5. ASSUME NEW c \in Callers, op'[c].pc = "compared"  PROVE Bound(op'[c])
    BY <1>1, <1>9, <1>10, <2>5 DEF BudgetInv
  <2>6. QED  BY <2>1, <2>3, <2>4, <2>5 DEF BudgetInv, Budgets, Bound
<1>19. QED  BY <1>11, <1>12, <1>14, <1>15, <1>16, <1>17, <1>18 DEF IInv

-----------------------------------------------------------------------------
(* What happens around the operations.                                     *)

\* Time, the clock and a record that lands change nothing the operations hold.
LEMMA AroundStep ==
  ASSUME IInv, UNCHANGED <<run, runs, op, turn, writes, books>>,
         time' \in Nat, time <= time', behind' \in 0 .. MaxSetBack, behind <= behind',
         log \subseteq log', log' \cup late' \subseteq log \cup late
  PROVE  IInv'
<1>1. OpInv /\ WriteInv /\ ClockInv /\ LedgerInv /\ RecordInv /\ HeldInv /\ BudgetInv
  BY DEF IInv
<1>2. UNCHANGED <<ledger, ready, rebuilding>>
  BY DEF books
<1>3. PICK id \in Callers : TRUE
  BY DEF Callers
<1>4. op' = [op EXCEPT ![id] = op[id]]
  BY <1>1 DEF OpInv
<1>5. op[id].pc \in Reserving => SameChange(op[id], op[id])
  BY DEF SameChange
<1>6. ClockInv'
  BY <1>1 DEF ClockInv
<1>7. OpInv'
  BY <1>1, <1>2 DEF OpInv
<1>8. Changes' \subseteq Changes
  BY <1>1, <1>4, <1>5, NoNewChange
<1>9. time' \in Int /\ behind' \in Int /\ runs \subseteq runs' /\ turn'.reserved = turn.reserved
  OBVIOUS
<1>10. WriteInv'
  BY <1>1, <1>4, <1>8, <1>9, WriteStep
<1>11. LedgerInv'
  <2>1. \A v \in Changes' : Counted(v)' =>
          Counted(v) /\ \A e \in ledger : e.key = v.key => e \in ledger'
    BY <1>2 DEF Counted
  <2>2. ledger' \subseteq ledger
    BY <1>2
  <2>3. QED  BY <1>1, <1>8, <1>9, <2>1, <2>2, LedgerStep DEF Counted
<1>12. RecordInv'
  <2>1. \A r \in log' \cup late' : r \in log \cup late \/ RecordOk(r)'
    OBVIOUS
  <2>2. QED  BY <1>1, <1>4, <1>8, <1>9, <2>1, RecordStep
<1>13. HeldInv'
  BY <1>1, <1>2, <1>9, HeldStep
<1>14. BudgetInv'
  <2>1. op[id].pc = "compared" => Bound(op[id])
    BY <1>1 DEF BudgetInv
  <2>2. QED  BY <1>1, <1>4, <1>5, <1>8, <2>1, BudgetStep
<1>15. QED  BY <1>6, <1>7, <1>10, <1>11, <1>12, <1>13, <1>14 DEF IInv

LEMMA EnvironmentStep ==
  ASSUME IInv, LandLate \/ Tick \/ SetBack
  PROVE  IInv'
<1>1. time \in Nat /\ behind \in 0 .. MaxSetBack /\ MaxSetBack \in Nat
  BY LedgerAssumption DEF IInv, ClockInv, StartClock
<1>2. CASE LandLate
  BY <1>1, <1>2, AroundStep DEF LandLate, clockvars
<1>3. CASE Tick
  BY <1>1, <1>3, AroundStep DEF Tick, disk
<1>4. CASE SetBack
  BY <1>1, <1>4, AroundStep DEF SetBack, disk
<1>5. QED  BY <1>2, <1>3, <1>4

\* A start of the service has nothing but what is on disk.
LEMMA RestartStep ==
  ASSUME IInv, Restart
  PROVE  IInv'
<1>1. OpInv /\ WriteInv /\ ClockInv /\ LedgerInv /\ RecordInv /\ HeldInv /\ BudgetInv
  BY DEF IInv
<1>2. /\ clock \notin runs /\ run' = clock /\ runs' = runs \cup {clock}
      /\ ledger' = {} /\ ready' = FALSE /\ rebuilding' = None /\ late' = {}
      /\ op' = Fresh /\ UNCHANGED <<time, behind, turn, writes>>
  BY DEF Restart
<1>3. log' \subseteq log /\ \A r \in log : r.event = "Dispatching" => r \in log'
  BY DEF Restart
<1>4. ClockInv'
  BY <1>1, <1>2, ClockFacts DEF ClockInv
<1>5. \A c \in Callers : /\ op'[c] \in Plain(c) /\ op'[c].pc \notin Reserving
                         /\ op'[c].pc \in {"idle", "precheck"}
  BY <1>2 DEF Fresh, Plain, Idle, Reserving
<1>6. OpInv'
  <2>1. op' \in [Callers -> UNION {Plain(c) : c \in Callers}]
    <3>1. \A c \in Callers : op'[c] \in UNION {Plain(x) : x \in Callers}
      BY <1>5
    <3>2. op' = [c \in Callers |-> op'[c]]
      BY <1>2 DEF Fresh
    <3>3. QED  BY <3>1, <3>2
  <2>2. \A c \in Callers : op'[c] \notin Asked \cup Looked \cup Reserved
    <3>1. ASSUME NEW c \in Callers  PROVE op'[c] \notin Asked \cup Looked \cup Reserved
      <4>1. op'[c] = Idle \/ op'[c] = [pc |-> "precheck"]
        BY <1>2 DEF Fresh
      <4>2. DOMAIN op'[c] = {"pc"}
        BY <4>1 DEF Idle
      <4>3. \A x \in Asked \cup Looked \cup Reserved : "agent" \in DOMAIN x
        BY DEF Asked, Looked, Reserved
      <4>4. QED  BY <4>2, <4>3
    <3>2. QED  BY <3>1
  <2>3. QED  BY <1>5, <2>1, <2>2 DEF OpInv
<1>7. Changes' \subseteq Changes
  BY <1>2, <1>5 DEF Changes, Bare
<1>8. \A w \in writes : w \in Write /\ w.key[1] \in runs /\ w.key[1] # run'
  BY <1>1, <1>2 DEF WriteInv
<1>9. WriteInv'
  BY <1>1, <1>2, <1>7, <1>8 DEF WriteInv
<1>10. \A v \in Changes' : ~Counted(v)'
  <2>1. \A v \in Changes' : v.agent \in BOOLEAN /\ v.key[1] \in runs
    BY <1>1, <1>7, ChangeFacts
  <2>2. ASSUME NEW v \in Changes', Counted(v)'  PROVE FALSE
    <3>1. IF v.agent THEN ready' ELSE v.key[1] = run'
      BY <2>2 DEF Counted
    <3>2. QED  BY <1>2, <2>1, <3>1
  <2>3. QED  BY <2>2
<1>11. LedgerInv'
  BY <1>2, <1>10 DEF LedgerInv
<1>12. RecordInv'
  <2>1. ASSUME NEW r \in log'  PROVE RecordOk(r)'
    <3>1. RecordOk(r)
      BY <1>1, <1>3 DEF RecordInv
    <3>2. r.key[1] \in runs /\ r.key[1] # run'
      BY <1>2, <3>1 DEF RecordOk
    <3>3. \A v \in Changes : Dated(r.at, v)' <=> Dated(r.at, v)
      BY <1>2 DEF Dated
    <3>4. QED  BY <1>2, <1>7, <3>1, <3>2, <3>3 DEF RecordOk
  <2>2. \A w \in writes' : w.agent => OnRecord(w.key)'
    BY <1>1, <1>2, <1>3 DEF RecordInv, OnRecord
  <2>3. QED  BY <1>2, <1>5, <2>1, <2>2 DEF RecordInv, Sending
<1>13. HeldInv'
  BY <1>2 DEF HeldInv, None
<1>14. BudgetInv'
  <2>1. ASSUME NEW v \in Changes', v.agent, NEW b \in Budgets(v)
        PROVE  \E o \in Volumes : v.before = {o} /\ Within(v, o, b)'
    <3>1. PICK o \in Volumes : v.before = {o} /\ Within(v, o, b)
      BY <1>1, <1>7, <2>1 DEF BudgetInv
    <3>2. QED  BY <1>7, <3>1 DEF Within
  <2>2. QED  BY <1>1, <1>2, <1>5, <2>1 DEF BudgetInv, Budgets
<1>15. QED  BY <1>4, <1>6, <1>9, <1>11, <1>12, <1>13, <1>14 DEF IInv

-----------------------------------------------------------------------------
(* The theorems.                                                           *)

\* The ledger, the records and the changes agree, whatever is restarted, timed out
\* or set back (crates/application: ledger.rs, service/agent.rs).
THEOREM LedgerInvariant == Spec => []IInv
<1>1. Init => IInv
  <2> SUFFICES ASSUME Init  PROVE IInv
    OBVIOUS
  <2>1. /\ time = 0 /\ behind = 0 /\ run = StartClock /\ runs = {StartClock}
        /\ ledger = {} /\ ready = FALSE /\ rebuilding = None /\ log = {} /\ late = {}
        /\ op = Fresh /\ turn = [submitted |-> 0, reserved |-> 0] /\ writes = {}
    BY DEF Init
  <2>2. \A c \in Callers : /\ op[c] \in Plain(c) /\ op[c].pc \in {"idle", "precheck"}
                           /\ op[c] \notin Asked \cup Looked \cup Reserved
    <3>1. ASSUME NEW c \in Callers
          PROVE  /\ op[c] \in Plain(c) /\ op[c].pc \in {"idle", "precheck"}
                 /\ DOMAIN op[c] = {"pc"}
      BY <2>1 DEF Fresh, Plain, Idle
    <3>2. \A x \in Asked \cup Looked \cup Reserved : "agent" \in DOMAIN x
      BY DEF Asked, Looked, Reserved
    <3>3. QED  BY <3>1, <3>2
  <2>3. OpInv
    <3>1. \A c \in Callers : op[c] \in UNION {Plain(x) : x \in Callers}
      BY <2>2
    <3>2. op = [c \in Callers |-> op[c]]
      BY <2>1 DEF Fresh
    <3>3. op \in [Callers -> UNION {Plain(c) : c \in Callers}]
      BY <3>1, <3>2
    <3>4. QED  BY <2>2, <3>3 DEF OpInv
  <2>4. ClockInv
    BY <2>1, LedgerAssumption DEF ClockInv, StartClock
  <2>5. Changes = {}
    BY <2>1, <2>2 DEF Changes, Reserving
  <2>6. WriteInv /\ LedgerInv /\ HeldInv
    BY <2>1, <2>5 DEF WriteInv, LedgerInv, HeldInv, None
  <2>7. RecordInv
    BY <2>1, <2>2 DEF RecordInv, Sending
  <2>8. BudgetInv
    BY <2>1, <2>2, <2>5 DEF BudgetInv, Reserving
  <2>9. QED  BY <2>3, <2>4, <2>6, <2>7, <2>8 DEF IInv
<1>2. IInv /\ [Next]_vars => IInv'
  <2> SUFFICES ASSUME IInv, [Next]_vars  PROVE IInv'
    OBVIOUS
  <2>1. ASSUME NEW id \in Callers, Step(id)  PROVE IInv'
    <3>1. ASSUME NEW agent \in BOOLEAN, Submit(id, agent)  PROVE IInv'
      BY <3>1, SubmitStep
    <3>2. CASE PrecheckRefuses(id)  BY <3>2, PrecheckRefusesStep
    <3>3. CASE PrecheckPasses(id)   BY <3>3, PrecheckPassesStep
    <3>4. CASE ReadHistory(id)      BY <3>4, ReadHistoryStep
    <3>5. CASE ReadFails(id)        BY <3>5, ReadFailsStep
    <3>6. CASE MergeHistory(id)     BY <3>6, MergeHistoryStep
    <3>7. CASE Look(id)             BY <3>7, LookStep
    <3>8. CASE JudgeRefuses(id)     BY <3>8, JudgeRefusesStep
    <3>9. CASE judge(id)            BY <3>9, JudgeStep
    <3>10. CASE OperatorReserves(id)   BY <3>10, OperatorStep
    <3>11. CASE AppendDecided(id)      BY <3>11, AppendDecidedStep
    <3>12. CASE AppendDispatching(id)  BY <3>12, AppendDispatchingStep
    <3>13. CASE Withdrawn(id) \/ OperateRefuses(id)  BY <3>13, WithdrawnStep
    <3>14. CASE Operate(id)         BY <3>14, OperateStep
    <3>15. CASE RecordFinished(id)  BY <3>15, RecordFinishedStep
    <3>16. CASE Compare(id)         BY <3>16, CompareStep
    <3>17. QED
      BY <2>1, <3>1, <3>2, <3>3, <3>4, <3>5, <3>6, <3>7, <3>8, <3>9, <3>10, <3>11,
         <3>12, <3>13, <3>14, <3>15, <3>16 DEF Step
  <2>2. CASE LandLate \/ Tick \/ SetBack  BY <2>2, EnvironmentStep
  <2>3. CASE Restart                      BY <2>3, RestartStep
  <2>4. CASE UNCHANGED vars
    <3>1. UNCHANGED <<run, runs, op, turn, writes, books, time, behind, log, late>>
      BY <2>4 DEF vars, books
    <3>2. time \in Nat /\ behind \in 0 .. MaxSetBack /\ MaxSetBack \in Nat
      BY LedgerAssumption DEF IInv, ClockInv, StartClock
    <3>3. QED  BY <3>1, <3>2, AroundStep
  <2>5. QED  BY <2>1, <2>2, <2>3, <2>4 DEF Next
<1>3. QED  BY <1>1, <1>2, PTL DEF Spec

\* An agent's raise, from the level its session last read, stays within every budget that
\* binds it, over real time and every restart, whatever the volume is turned to after that
\* read: WriteInv's changes with BudgetInv (judge, ledger.rs, operate.rs).
THEOREM BudgetsHold == Spec => []BudgetHolds
<1>1. IInv => BudgetHolds
  <2> SUFFICES ASSUME IInv, NEW w \in writes, w.agent, NEW level \in w.seen, w.target > level,
                      NEW rules \in w.policy, NEW i \in DOMAIN rules, Binds(rules[i]),
                      NEW b \in rules[i].conditions.budget
               PROVE  /\ w.target - level <= b.rise
                      /\ \A v \in writes :
                           /\ v.turn < w.turn /\ v.at > w.at - b.window
                           /\ v.agent \/ v.key[1] = w.key[1]
                           => \A l \in v.before \cup {v.target} : w.target - l <= b.rise
    BY DEF BudgetHolds
  <2>1. PICK c : c = Bare(w)
    OBVIOUS
  <2>2. /\ c.key = w.key /\ c.agent = w.agent /\ c.at = w.at /\ c.turn = w.turn
        /\ c.before = w.before /\ c.target = w.target /\ c.policy = w.policy
    BY <2>1 DEF Bare
  <2>3. c \in Changes
    BY <2>1 DEF Changes
  <2>4. b \in Budgets(c) /\ b \in Budgets(w)
    BY <2>2 DEF Budgets
  <2>5. PICK o \in Volumes : c.before = {o} /\ Within(c, o, b)
    BY <2>2, <2>3, <2>4 DEF IInv, BudgetInv
  <2>6. o = level
    <3>1. w.before = w.seen
      BY <2>4 DEF IInv, BudgetInv
    <3>2. w.seen = {o} /\ level \in w.seen
      BY <2>2, <2>5, <3>1
    <3>3. QED  BY <3>2
  <2>7. /\ w.target - level <= b.rise
        /\ \A v \in Changes : /\ v.turn < w.turn /\ v.at > w.at - b.window
                              /\ v.agent \/ v.key[1] = w.key[1]
                              => \A l \in v.before \cup {v.target} : w.target - l <= b.rise
    BY <2>2, <2>5, <2>6 DEF Within
  <2>8. ASSUME NEW v \in writes, v.turn < w.turn, v.at > w.at - b.window,
               v.agent \/ v.key[1] = w.key[1]
        PROVE  \A l \in v.before \cup {v.target} : w.target - l <= b.rise
    <3>1. PICK d \in Changes : d = Bare(v)
      BY DEF Changes
    <3>2. /\ d.key = v.key /\ d.agent = v.agent /\ d.at = v.at /\ d.turn = v.turn
          /\ d.before = v.before /\ d.target = v.target
      BY <3>1 DEF Bare
    <3>3. QED  BY <2>7, <2>8, <3>2
  <2>9. QED  BY <2>7, <2>8
<1>2. QED  BY <1>1, LedgerInvariant, PTL

\* A ledger that is ready counts every agent's write of the last RETENTION, also those
\* of an earlier run, and those whose record landed late (ensure_ledger, rebuild).
THEOREM ReadyLedgersCount == Spec => []ReadyCountsWrites
<1>1. IInv => ReadyCountsWrites
  <2> SUFFICES ASSUME IInv, ready, NEW w \in writes, w.agent, w.at > time - RETENTION
               PROVE  \E e \in ledger : e.key = w.key
    BY DEF ReadyCountsWrites
  <2>1. PICK c \in Changes : c = Bare(w)
    BY DEF Changes
  <2>2. c.key = w.key /\ c.agent = w.agent /\ c.at = w.at
    BY <2>1 DEF Bare
  <2>3. Counted(c)
    BY <2>2 DEF Counted
  <2>4. QED  BY <2>2, <2>3 DEF IInv, LedgerInv
<1>2. QED  BY <1>1, LedgerInvariant, PTL

\* No agent's write without its Dispatching record on disk, with the target it had
\* (decide, append_within).
THEOREM WritesAreOnRecord == Spec => []WriteIsOnRecord
<1>1. IInv => WriteIsOnRecord
  <2> SUFFICES ASSUME IInv, NEW w \in writes, w.agent
               PROVE  \E r \in log : r.event = "Dispatching" /\ r.key = w.key /\ r.target = w.target
    BY DEF WriteIsOnRecord
  <2>1. PICK r \in log : r.event = "Dispatching" /\ r.key = w.key
    BY DEF IInv, RecordInv, OnRecord
  <2>2. QED  BY <2>1, WriteOnRecord DEF IInv
<1>2. QED  BY <1>1, LedgerInvariant, PTL
=============================================================================
