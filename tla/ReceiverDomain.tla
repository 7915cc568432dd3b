--------------------------- MODULE ReceiverDomain ---------------------------
(***************************************************************************)
(* The receiver's domain values (crates/domain): volumes, intents, the     *)
(* canonical state with one record per core field, the precondition a      *)
(* write is bound to and the synchronization debt.  Pure operators; other  *)
(* modules hold the variables.  An Option is a set of at most one element. *)
(***************************************************************************)
EXTENDS Integers, Sequences, FiniteSets

None == {}
Some(x) == {x}

(***************************************************************************)
(* Volume.  MasterVolume is Minimum (no half steps) or a number of half    *)
(* decibels.                                                               *)
(***************************************************************************)
LOWEST_HALF_STEP == -159
HIGHEST_HALF_STEP == 36

Minimum == None
db_half_steps(value) ==
    IF value \in LOWEST_HALF_STEP .. HIGHEST_HALF_STEP
    THEN Some(Some(value)) ELSE None
MasterVolume == {Minimum} \cup {Some(h) : h \in LOWEST_HALF_STEP .. HIGHEST_HALF_STEP}

(***************************************************************************)
(* Fields, intents and frames.  A frame or an intent names its field by    *)
(* its kind; the volume has the extra frame that says there is none.       *)
(***************************************************************************)
CoreField == {"system_power", "main_zone_power", "zone2_power", "source",
              "volume", "mute", "sound_mode"}

IntentKind == CoreField
IntentValue == {"on", "off", "standby"}

(* What a power or mute intent of a kind may carry. *)
accepts(kind) ==
    CASE kind = "system_power" -> {"on", "standby"}
      [] kind \in {"main_zone_power", "zone2_power", "mute"} -> {"on", "off"}
      [] OTHER -> {}

(* The value of an intent, for the kinds that have one. *)
value_of(intent) ==
    IF accepts(intent.kind) = {} THEN None ELSE Some(intent.arg)

field(frame) == IF frame.kind = "volume_unavailable" THEN "volume" ELSE frame.kind

(***************************************************************************)
(* One field: the last observation, how far it may be trusted, the mark of *)
(* the reconciliation it waits for and whether an issue is shown.          *)
(***************************************************************************)
Unknown == [kind |-> "unknown"]
Current(until) == [kind |-> "current", valid_until |-> until]
Stale(reason) == [kind |-> "stale", reason |-> reason]
Unavailable == [kind |-> "unavailable"]

NewField ==
    [last_good |-> None, validity |-> Unknown, sync |-> "not_started", issue |-> FALSE]

observe(f, observation, valid_until) ==
    [f EXCEPT !.last_good = Some(observation),
              !.validity = Current(valid_until), !.issue = FALSE]

stale(f, reason) == [f EXCEPT !.validity = Stale(reason), !.issue = TRUE]

is_due(f, now) == f.validity.kind = "current" /\ now >= f.validity.valid_until
expire_if_due(f, now) == IF is_due(f, now) THEN stale(f, "expired") ELSE f

stale_if_observed(f) == IF f.last_good # None THEN stale(f, "disconnected") ELSE f

mark_failed(f) ==
    IF f.last_good # None THEN stale(f, "query_failed") ELSE [f EXCEPT !.issue = TRUE]

(***************************************************************************)
(* The canonical state.  MAX_DIAGNOSTICS lines of unknown frames are kept. *)
(***************************************************************************)
MAX_DIAGNOSTICS == 32

NewState(receiver) ==
    [receiver |-> receiver, revision |-> 0, epoch |-> None,
     fields |-> [c \in CoreField |-> NewField], diagnostics |-> 0]

Bump(s) == [s EXCEPT !.revision = @ + 1]

record_diagnostic(s) ==
    Bump([s EXCEPT !.diagnostics =
              IF @ + 1 > MAX_DIAGNOSTICS THEN MAX_DIAGNOSTICS ELSE @ + 1])

mark_disconnected(s) ==
    Bump([s EXCEPT !.fields = [c \in CoreField |-> stale_if_observed(s.fields[c])],
                   !.epoch = None])

expire_fields(s, now) ==
    IF \E c \in CoreField : is_due(s.fields[c], now)
    THEN Bump([s EXCEPT !.fields = [c \in CoreField |-> expire_if_due(s.fields[c], now)]])
    ELSE s

(* A later epoch only; the flag the code returns says whether it was taken. *)
Establishes(s, epoch) == \A current \in s.epoch : epoch > current
establish_epoch(s, epoch) ==
    IF Establishes(s, epoch) THEN Bump([s EXCEPT !.epoch = Some(epoch)]) ELSE s

mark_converging(s, c) == Bump([s EXCEPT !.fields[c].sync = "converging"])
mark_settled(s, c) == Bump([s EXCEPT !.fields[c].sync = "settled"])
mark_query_failed(s, c) == Bump([s EXCEPT !.fields[c] = mark_failed(@)])

(* Evidence of another receiver or of another connection changes nothing. *)
Belongs(s, receiver, epoch) == s.receiver = receiver /\ s.epoch = Some(epoch)

reduce(s, receiver, epoch, valid_until, frame) ==
    IF ~Belongs(s, receiver, epoch) THEN s
    ELSE IF frame.kind = "volume_unavailable"
    THEN Bump([s EXCEPT !.fields["volume"].validity = Unavailable])
    ELSE Bump([s EXCEPT !.fields[field(frame)] =
                  observe(@, [epoch |-> epoch, value |-> frame.arg], valid_until)])

(***************************************************************************)
(* The baseline of a decision (precondition.rs).  A field is captured as   *)
(* its value when it is current, and as having none otherwise.             *)
(***************************************************************************)
usable(f) ==
    IF f.validity.kind = "current" THEN {o.value : o \in f.last_good} ELSE None

FieldBaseline(s, c) == usable(s.fields[c])
holds_in(baseline, s, c) == baseline = FieldBaseline(s, c)

capture(s, fields) ==
    {[epoch |-> e, fields |-> [c \in fields |-> FieldBaseline(s, c)]] : e \in s.epoch}

(* What no longer holds: the epoch before any field. *)
mismatch(p, s) ==
    IF s.epoch # Some(p.epoch) THEN {"epoch"}
    ELSE {c \in DOMAIN p.fields : ~holds_in(p.fields[c], s, c)}

(***************************************************************************)
(* Synchronization debt: which fields await a reconciliation, and when the *)
(* quick and the final one fall due.                                       *)
(***************************************************************************)
QUIET_MS == 250

NewDebt(epoch, c, cause, now) ==
    [epoch |-> epoch, fields |-> {c}, causes |-> {cause}, activity_seq |-> 0,
     quick_reconcile_at |-> now + QUIET_MS, final_reconcile_at |-> None]

debt_merge(d, fields, cause) ==
    [d EXCEPT !.fields = @ \cup fields, !.causes = @ \cup {cause}]
note_activity(d, now) ==
    [d EXCEPT !.activity_seq = @ + 1, !.quick_reconcile_at = now + QUIET_MS]
defer_final_until(d, at) ==
    [d EXCEPT !.final_reconcile_at =
         IF \E current \in @ : current > at THEN @ ELSE Some(at)]
defer_quick_until(d, at) == [d EXCEPT !.quick_reconcile_at = at]
quick_due(d, now) == now >= d.quick_reconcile_at
final_due(d, now) == \E deadline \in d.final_reconcile_at : now >= deadline
is_for(d, epoch) == d.epoch = epoch
settle_field(d, c) == [d EXCEPT !.fields = @ \ {c}]
settled(d) == d.fields = {}
=============================================================================
