---------------------------- MODULE PolicyEngine ----------------------------
(***************************************************************************)
(* The policy (crates/policy): levels, the rules and their validation, and *)
(* the decision on one request; and the shape of the policy file           *)
(* (policy_yaml.rs) that becomes a list of rules.                          *)
(*                                                                         *)
(* A request is [agent, receiver, intent, volume, recent, now]: volume is  *)
(* the observed level or None, recent the volume changes of the ledger.    *)
(***************************************************************************)
EXTENDS ReceiverDomain

(***************************************************************************)
(* Levels in half decibels.  Minimum lies half a decibel under the scale.  *)
(***************************************************************************)
LOWEST == -160
HIGHEST == 36
WIDEST_SPAN == HIGHEST - LOWEST

Level_of(volume) == IF volume = Minimum THEN LOWEST ELSE CHOOSE h \in volume : TRUE

Level_from_half_steps(steps) == IF steps \in LOWEST .. HIGHEST THEN Some(steps) ELSE None
Span_from_half_steps(steps) == IF steps \in 0 .. WIDEST_SPAN THEN Some(steps) ELSE None

(* A limit written in decibels, given here in quarter decibels so that one *)
(* off the half-decibel grid exists.  Error or the number of half steps.   *)
NotFinite == 1000000
grid(quarters) ==
    CASE quarters = NotFinite -> "OutOfRange"
      [] quarters # NotFinite /\ (quarters > 2000 \/ quarters < -2000) -> "OutOfRange"
      [] quarters \in -2000 .. 2000 /\ quarters % 2 # 0 -> "OffGrid"
      [] OTHER -> "OnGrid"
Level_from_db(quarters) ==
    IF grid(quarters) = "OnGrid" THEN Level_from_half_steps(quarters \div 2) ELSE None
Span_from_db(quarters) ==
    IF grid(quarters) = "OnGrid" THEN Span_from_half_steps(quarters \div 2) ELSE None

above(level, floor) == level - floor

(***************************************************************************)
(* Rules.                                                                  *)
(***************************************************************************)
Effect == {"allow", "require_approval", "deny"}

scope_matches(rule, agent, receiver) ==
    /\ \A set \in rule.agents : agent \in set
    /\ \A set \in rule.receivers : receiver \in set

covers(alternative, kind, value) ==
    /\ alternative.kind = kind
    /\ \A named \in alternative.value : value = Some(named)

NoConditions ==
    [target_above |-> None, increase_over_baseline |-> None,
     budget |-> None, baseline_volume_above |-> None]

is_empty(c) == c = NoConditions
about_a_volume_target(c) ==
    c.target_above # None \/ c.increase_over_baseline # None \/ c.budget # None
reads_volume(c) ==
    c.increase_over_baseline # None \/ c.budget # None \/ c.baseline_volume_above # None

Rule(id, effect) ==
    [id |-> id, effect |-> effect, agents |-> None, receivers |-> None,
     alternatives |-> {}, conditions |-> NoConditions]

longest_window(rules) ==
    LET windows == UNION {{b.window : b \in rules[i].conditions.budget} : i \in DOMAIN rules}
    IN  IF windows = {} THEN 0 ELSE CHOOSE w \in windows : \A v \in windows : w >= v

(***************************************************************************)
(* Validation: the first fault found, in the order of the code.            *)
(* WellFormedLabels are the agent labels a token could carry.              *)
(***************************************************************************)
CONSTANTS WellFormedLabels, EmptyId, MAX_WINDOW_MINUTES

ASSUME PolicyAssumption == MAX_WINDOW_MINUTES \in Nat \ {0}

FirstFault(faults) ==
    IF \E i \in DOMAIN faults : faults[i][1]
    THEN faults[CHOOSE i \in DOMAIN faults :
                    faults[i][1] /\ \A j \in 1 .. (i - 1) : ~faults[j][1]][2]
    ELSE "ok"

validate(rule) ==
    LET c == rule.conditions
        kinds == {a.kind : a \in rule.alternatives}
    IN  FirstFault(<<
          <<rule.id = EmptyId, "EmptyRuleId">>,
          <<{} \in rule.agents \cup rule.receivers, "EmptyScopeList">>,
          <<\E set \in rule.agents : ~(set \subseteq WellFormedLabels),
            "AgentLabelNotWellFormed">>,
          <<\E a \in rule.alternatives : ~(a.value \subseteq accepts(a.kind)),
            "ValueNotValidForIntent">>,
          <<rule.effect = "allow" /\ ~is_empty(c), "AllowWithCondition">>,
          <<rule.effect = "allow" /\ kinds = {}, "AllowNamesNoIntent">>,
          <<about_a_volume_target(c) /\ kinds # {"volume"}, "VolumeConditionOnOtherIntent">>,
          <<\E b \in c.budget : b.window \notin 1 .. MAX_WINDOW_MINUTES, "WindowOutOfRange">> >>)

(* A policy is its rules in order, valid and with ids used once. *)
PolicyConfig(rules) ==
    /\ \A i \in DOMAIN rules : validate(rules[i]) = "ok"
    /\ \A i, j \in DOMAIN rules : rules[i].id = rules[j].id => i = j

(***************************************************************************)
(* The decision.                                                           *)
(***************************************************************************)
Target(input) ==
    IF input.intent.kind = "volume" THEN Some(Level_of(input.intent.arg)) ELSE None

(* The lowest of the observed level and of what each change inside the     *)
(* window started from and asked for.  A change dated after now is inside. *)
InWindow(recent, now, window) ==
    {c \in recent : c.at > (IF now > window THEN now - window ELSE 0)}

floor_in_window(observed, recent, now, window) ==
    LET levels == {observed} \cup
                  UNION {c.before \cup {c.target} : c \in InWindow(recent, now, window)}
    IN  CHOOSE l \in levels : \A m \in levels : l <= m

(* Whether every condition of a rule holds.  One that needs the observed   *)
(* volume holds when there is none.                                        *)
test(rule, input) ==
    LET c == rule.conditions
        target == Target(input)
        observed == input.volume
    IN  /\ \A limit \in c.target_above : \E t \in target : t > limit
        /\ \A limit \in c.increase_over_baseline : \E t \in target :
              \A o \in observed : above(t, o) > limit
        /\ \A b \in c.budget : \E t \in target : \A o \in observed :
              /\ t > o
              /\ above(t, floor_in_window(o, input.recent, input.now, b.window)) > b.rise
        /\ \A limit \in c.baseline_volume_above : \A o \in observed : o > limit

Applies(rule, input) == scope_matches(rule, input.agent, input.receiver)

NamesIt(rule, input) ==
    \E a \in rule.alternatives : covers(a, input.intent.kind, value_of(input.intent))

(* The rule bears on the intent: it names it, or names none at all. *)
Considered(rule, input) ==
    Applies(rule, input) /\ (rule.alternatives = {} \/ NamesIt(rule, input))

Matched(rule, input) ==
    Considered(rule, input) /\ rule.effect # "allow" /\ test(rule, input)

Classified(rules, input) ==
    \E i \in DOMAIN rules : Applies(rules[i], input) /\ NamesIt(rules[i], input)

(* Every field a considered rule reads, matched or not. *)
Baseline(rules, input) ==
    IF \E i \in DOMAIN rules :
         Considered(rules[i], input) /\ reads_volume(rules[i].conditions)
    THEN {"volume"} ELSE {}

MatchedRules(rules, input) == {i \in DOMAIN rules : Matched(rules[i], input)}

EffectOf(rules, input) ==
    LET matched == MatchedRules(rules, input)
    IN  IF \E i \in matched : rules[i].effect = "deny" THEN "deny"
        ELSE IF matched # {} \/ ~Classified(rules, input) THEN "require_approval"
        ELSE "allow"

(* A denial is final and rests on nothing; the others name what they read. *)
evaluate(input, rules) ==
    [effect |-> EffectOf(rules, input),
     rules |-> {rules[i].id : i \in MatchedRules(rules, input)},
     baseline |-> IF EffectOf(rules, input) = "deny" THEN {} ELSE Baseline(rules, input)]

observed_volume(s) == {Level_of(v) : v \in FieldBaseline(s, "volume")}

(***************************************************************************)
(* The policy file.  A when-clause names an intent or a list of them, and  *)
(* its limits are decibels; convert_rule is the rule or the fault.         *)
(***************************************************************************)
KnownKinds == IntentKind
name_intent(a) == a.intent \in KnownKinds /\ a.value \subseteq IntentValue

convert_fault(file) ==
    FirstFault(<<
      <<file.intent # None /\ file.any # None, "both intent and any">>,
      <<file.intent = None /\ file.value # None, "value but no intent">>,
      <<\E i \in file.intent : ~name_intent([intent |-> i, value |-> file.value]), "unknown">>,
      <<{} \in file.any, "any lists no intents">>,
      <<\E list \in file.any : \E a \in list : ~name_intent(a), "unknown">>,
      <<\E q \in file.target_above_db : Level_from_db(q) = None, "level">>,
      <<\E q \in file.increase_over_baseline_db : Span_from_db(q) = None, "distance">>,
      <<(file.rise_over_window_db = None) # (file.window_minutes = None), "budget needs both">>,
      <<\E m \in file.window_minutes : m > 65535, "window">>,
      <<\E q \in file.rise_over_window_db : Span_from_db(q) = None, "distance">>,
      <<\E b \in file.baseline_volume : b.or_unknown = Some(FALSE), "or_unknown">>,
      <<\E b \in file.baseline_volume : Level_from_db(b.above_db) = None, "level">> >>)

convert_rule(file) ==
    [id |-> file.id, effect |-> file.then, agents |-> file.agents, receivers |-> file.receivers,
     alternatives |->
        {[kind |-> i, value |-> file.value] : i \in file.intent} \cup
        UNION {{[kind |-> a.intent, value |-> a.value] : a \in list} : list \in file.any},
     conditions |->
        [target_above |-> UNION {Level_from_db(q) : q \in file.target_above_db},
         increase_over_baseline |-> UNION {Span_from_db(q) : q \in file.increase_over_baseline_db},
         budget |-> {[rise |-> r, window |-> m] :
                        r \in UNION {Span_from_db(q) : q \in file.rise_over_window_db},
                        m \in file.window_minutes},
         baseline_volume_above |-> UNION {Level_from_db(b.above_db) : b \in file.baseline_volume}]]

(* What load makes of a file: missing, unreadable, invalid, or a policy.   *)
(* size is in bytes, text whether it is UTF-8, shape whether every key is  *)
(* known, unclassified what the file says of requests no rule names.       *)
MAX_POLICY_BYTES == 262144
MAX_APPROVAL_MINUTES == 1440

parse(file) ==
    /\ file.shape
    /\ file.unclassified \subseteq {"require_approval"}
    /\ \A m \in file.approval : m \in 1 .. MAX_APPROVAL_MINUTES
    /\ \A i \in DOMAIN file.rules : convert_fault(file.rules[i]) = "ok"
    /\ PolicyConfig([i \in DOMAIN file.rules |-> convert_rule(file.rules[i])])

load(file) ==
    CASE ~file.exists -> "Missing"
      [] file.exists /\ ~file.readable -> "Unreadable"
      [] file.exists /\ file.readable /\
         ~(file.size <= MAX_POLICY_BYTES /\ file.text /\ parse(file)) -> "Invalid"
      [] OTHER -> "Loaded"
=============================================================================
