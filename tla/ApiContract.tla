---------------------------- MODULE ApiContract ----------------------------
(***************************************************************************)
(* The Control API on the wire (crates/api-contract): for each value that  *)
(* crosses it, the form the server writes and what a client reads back.    *)
(* Pure operators.  A reading is an Option: None is an answer that could   *)
(* not be read.  An enumeration goes by its snake_case name and a name     *)
(* that is not in it is refused, as serde does; what is modelled beside    *)
(* that is everything a conversion drops, adds, rounds or checks.  A text  *)
(* is a string, blank when empty; a receiver id is a sequence of parts, so *)
(* that a path can be taken apart again.                                   *)
(***************************************************************************)
EXTENDS ReceiverDomain, SequencesExt

The(option) == CHOOSE x \in option : TRUE

(* Every reading of a sequence or a record, or none when one failed. *)
collect(readings) ==
    IF \E i \in DOMAIN readings : readings[i] = None THEN None
    ELSE Some([i \in DOMAIN readings |-> The(readings[i])])

named(names, text) == IF text \in names THEN Some(text) ELSE None

(* The constructors that refuse a blank text: SourceId, AgentLabel, TokenId, *)
(* IdempotencyKey, QuickSelectName, SoundModeFavorite.                       *)
checked(text) == IF text = "" THEN None ELSE Some(text)

(***************************************************************************)
(* Values.                                                                 *)
(***************************************************************************)
SystemPowerDto == {"on", "standby"}
ZonePowerDto == {"on", "off"}
MuteDto == {"on", "off"}

VolumeDto(volume) ==
    IF volume = Minimum THEN [kind |-> "minimum"]
    ELSE [kind |-> "half_steps", steps |-> The(volume)]
volume_of(dto) ==
    IF dto.kind = "minimum" THEN Some(Minimum) ELSE db_half_steps(dto.steps)

SoundModes == {"auto", "direct", "pure_direct", "stereo",
               "recall_movie", "recall_music", "recall_game"}
SoundModeDto(mode) ==
    IF mode.select = None THEN [kind |-> mode.name]
    ELSE [kind |-> "select", select |-> The(mode.select)]
sound_mode_of(dto) ==
    IF dto.kind = "select" THEN Some([name |-> "select", select |-> Some(dto.select)])
    ELSE {[name |-> n, select |-> None] : n \in named(SoundModes, dto.kind)}

(* A moment before 1970 has no wire form, and the wire keeps whole           *)
(* milliseconds; TicksPerMs is the clock's finer resolution.                 *)
TicksPerMs == 2
system_time_ms(at) == {t \div TicksPerMs : t \in {u \in at : u >= 0}}
\* Mutated form: the milliseconds are taken for ticks of the clock.
system_time_from_ms_Raw(millis) == millis
system_time_from_ms(millis) == {m * TicksPerMs : m \in millis}

(***************************************************************************)
(* Receiver ids: a saved receiver's name, or the reserved prefix and the   *)
(* address the receiver was chosen by.                                     *)
(***************************************************************************)
AD_HOC_PREFIX == "adhoc:"
is_reserved_name(id) == id # <<>> /\ id[1] = AD_HOC_PREFIX
ad_hoc(host) == IF host = <<>> THEN None ELSE Some(<<AD_HOC_PREFIX>> \o host)
parse_receiver_id(id) ==
    IF is_reserved_name(id) THEN ad_hoc(Tail(id))
    ELSE IF id = <<>> THEN None ELSE Some(id)

(***************************************************************************)
(* The receiver's state, as two views.  The agent's has no place for text. *)
(***************************************************************************)
NoText == << >>
FieldText(c, f) ==
    [issue |-> f.issue, evidence |-> f.validity = Unavailable,
     raw |-> IF c = "sound_mode" THEN {o.value.raw : o \in f.last_good} ELSE None]
about(audience, c, f) == IF audience = "agent" THEN NoText ELSE FieldText(c, f)

ValidityDto == {"current", "stale", "unknown", "unavailable"}
ReasonDto == {"disconnected", "query_failed", "expired", "receiver_changed"}

FieldDto(c, value) ==
    CASE c = "volume" -> VolumeDto(value)
      [] c = "sound_mode" -> [id |-> value.id]
      [] OTHER -> value

view(audience, c, f) ==
    [value |-> {FieldDto(c, o.value) : o \in f.last_good},
     validity |-> f.validity.kind,
     reason |-> IF f.validity.kind = "stale" THEN Some(f.validity.reason) ELSE None,
     text |-> about(audience, c, f)]

StateView(audience, s) ==
    [receiver |-> s.receiver, revision |-> s.revision, epoch |-> s.epoch,
     fields |-> [c \in CoreField |-> view(audience, c, s.fields[c])],
     extras |-> IF audience = "agent" THEN NoText ELSE [diagnostics |-> s.diagnostics]]

(* What a field's wire value is read as.  Without the text the receiver's    *)
(* own name of a sound mode is taken to be its id.                           *)
field_value(c, dto, text) ==
    CASE c = "volume" -> volume_of(dto)
      [] c = "sound_mode" ->
             Some([id |-> dto.id,
                   raw |-> IF text # NoText /\ text.raw # None THEN The(text.raw) ELSE dto.id])
      [] c = "source" -> checked(dto)
      [] c = "system_power" -> named(SystemPowerDto, dto)
      [] c = "mute" -> named(MuteDto, dto)
      [] OTHER -> named(ZonePowerDto, dto)

(* The wire has no stamps: a rebuilt observation is of the state's epoch,    *)
(* and a current field never expires here.                                   *)
Forever == 2^16
rebuild(epoch, c, v) ==
    LET good == IF v.value = None THEN Some(None)
                ELSE {Some([epoch |-> epoch, value |-> x])
                          : x \in field_value(c, The(v.value), v.text)}
        validity == CASE v.validity = "current" -> Some(Current(Forever))
                      [] v.validity = "stale" ->
                             {Stale(r) : r \in {q \in v.reason : q \in ReasonDto}}
                      [] v.validity = "unknown" -> Some(Unknown)
                      [] v.validity = "unavailable" -> Some(Unavailable)
                      [] OTHER -> None
    IN {[last_good |-> g, validity |-> w, sync |-> "not_started",
         issue |-> v.text # NoText /\ v.text.issue] : g \in good, w \in validity}

into_state(v) ==
    LET epoch == IF v.epoch = None THEN 0 ELSE The(v.epoch)
    IN {[receiver |-> r, revision |-> v.revision, epoch |-> v.epoch, fields |-> fields,
         diagnostics |-> IF v.extras = NoText THEN 0 ELSE v.extras.diagnostics]
            : r \in parse_receiver_id(v.receiver),
              fields \in collect([c \in CoreField |-> rebuild(epoch, c, v.fields[c])])}

(***************************************************************************)
(* The source catalog, also as two views, and the Quick Select names.      *)
(***************************************************************************)
VisibilityDto == {"shown", "hidden", "unknown"}
FreshnessDto == {"unknown", "live", "partial", "invalidated"}
CatalogEvidenceDto ==
    {"complete", "partial", "unsupported", "malformed", "timeout", "disconnected"}

SourcesView(audience, o) ==
    [entries |-> o.entries, freshness |-> o.freshness, generation |-> o.generation,
     observed_at_ms |-> system_time_ms(o.observed_at), response |-> o.response,
     extra |-> IF audience = "agent" THEN NoText
               ELSE [raw_response |-> o.raw_response, error |-> o.error]]

source_entry(dto) ==
    {[id |-> id, display_name |-> dto.display_name, visibility |-> shown]
         : id \in checked(dto.id), shown \in named(VisibilityDto, dto.visibility)}

into_observation(v) ==
    {[entries |-> entries, freshness |-> fresh, generation |-> v.generation,
      observed_at |-> system_time_from_ms(v.observed_at_ms), response |-> response,
      raw_response |-> IF v.extra = NoText THEN "" ELSE v.extra.raw_response,
      error |-> IF v.extra = NoText THEN None ELSE v.extra.error]
         : entries \in collect([i \in DOMAIN v.entries |-> source_entry(v.entries[i])]),
           fresh \in named(FreshnessDto, v.freshness),
           response \in named(CatalogEvidenceDto, v.response)}

Slots == 4
QuickSelectNamesDto(o) ==
    [names |-> o.names, sources |-> o.sources, freshness |-> o.freshness,
     generation |-> o.generation, observed_at_ms |-> system_time_ms(o.observed_at),
     error |-> o.error, raw_response |-> o.raw_response, response |-> o.response]

optional_name(name) == IF name = None THEN Some(None)
                       ELSE {Some(n) : n \in checked(The(name))}
quick_select_names_of(dto) ==
    {[names |-> names, sources |-> dto.sources, freshness |-> fresh,
      generation |-> dto.generation,
      observed_at |-> system_time_from_ms(dto.observed_at_ms),
      error |-> dto.error, raw_response |-> dto.raw_response, response |-> response]
         : names \in IF Len(dto.names) = Slots /\ Len(dto.sources) = Slots
                     THEN collect([i \in 1 .. Slots |-> optional_name(dto.names[i])])
                     ELSE None,
           fresh \in named(FreshnessDto, dto.freshness),
           response \in named(CatalogEvidenceDto, dto.response)}

(***************************************************************************)
(* The HTTP information: slots of channels and texts, each a value or the  *)
(* reason there is none, and readiness.                                    *)
(***************************************************************************)
FieldErrorKindDto == {"unsupported", "timeout", "disconnected", "malformed", "unavailable"}
SlotStateDto == {"active", "available", "absent", "unknown"}

FieldStatusDto(status) ==
    IF status.is = "value" THEN [tag |-> "value", value |-> status.value]
    ELSE [tag |-> "unavailable", kind |-> status.kind, message |-> status.message]
unavailable_of(dto) ==
    {[is |-> "unavailable", kind |-> k, message |-> dto.message]
         : k \in named(FieldErrorKindDto, dto.kind)}
field_status_of(dto) ==
    IF dto.tag = "value" THEN Some([is |-> "value", value |-> dto.value])
    ELSE unavailable_of(dto)

channel_slot(dto) ==
    {[label |-> dto.label, state |-> q] : q \in named(SlotStateDto, dto.state)}
slots_of(dto) ==
    IF dto.tag # "value" THEN unavailable_of(dto)
    ELSE {[is |-> "value", value |-> slots]
              : slots \in collect([i \in DOMAIN dto.value |-> channel_slot(dto.value[i])])}

AudioTexts == {"input_mode", "output", "signal", "sound", "sample_rate"}
VideoTexts == {"monitor", "hdmi_input", "hdmi_output"}
AudysseyTexts == {"multeq", "dynamic_eq", "dynamic_volume"}
InformationTexts == AudioTexts \cup VideoTexts \cup AudysseyTexts

HttpInformationDto(info) ==
    [input_slots |-> FieldStatusDto(info.input_slots),
     output_slots |-> FieldStatusDto(info.output_slots),
     texts |-> [t \in InformationTexts |-> FieldStatusDto(info.texts[t])],
     freshness |-> info.freshness, generation |-> info.generation,
     observed_at_ms |-> system_time_ms(info.observed_at), error |-> info.error]
http_information_of(dto) ==
    {[input_slots |-> in, output_slots |-> out, texts |-> texts, freshness |-> fresh,
      generation |-> dto.generation,
      observed_at |-> system_time_from_ms(dto.observed_at_ms), error |-> dto.error]
         : in \in slots_of(dto.input_slots), out \in slots_of(dto.output_slots),
           texts \in collect([t \in InformationTexts |-> field_status_of(dto.texts[t])]),
           fresh \in named(FreshnessDto, dto.freshness)}

(***************************************************************************)
(* Intents, operations and dry runs.                                       *)
(***************************************************************************)
IntentDto(intent) ==
    [kind |-> intent.kind,
     content |-> CASE intent.kind = "volume" -> VolumeDto(intent.arg)
                   [] intent.kind = "sound_mode" -> SoundModeDto(intent.arg)
                   [] OTHER -> intent.arg]
intent_of(dto) ==
    {[kind |-> dto.kind, arg |-> a]
         : a \in CASE dto.kind = "volume" -> volume_of(dto.content)
                   [] dto.kind = "sound_mode" -> sound_mode_of(dto.content)
                   [] dto.kind = "source" -> checked(dto.content)
                   [] OTHER -> named(accepts(dto.kind), dto.content)}

StatusDto == {"submitted", "allowed", "awaiting_approval", "approved", "in_session",
              "denied", "approval_unavailable", "approval_rejected", "expired",
              "cancelled", "completed", "already_in_state", "rejected", "superseded",
              "indeterminate"}
DispatchDto == {"not_dispatched", "possibly_dispatched", "complete_write", "unknown"}

(* Only a superseded operation has a successor, and it always has one. *)
OperationDto(o) ==
    [id |-> o.id, receiver |-> o.receiver, intent |-> IntentDto(o.intent),
     status |-> o.status.name,
     superseded_by |-> IF o.status.name = "superseded" THEN Some(o.status.by) ELSE None,
     dispatch |-> o.dispatch, confirmed |-> o.confirmed,
     reason |-> o.reason, observation |-> o.observation]
status_of(dto) ==
    IF dto.status = "superseded"
    THEN {[name |-> "superseded", by |-> b] : b \in dto.superseded_by}
    ELSE {[name |-> n] : n \in named(StatusDto, dto.status)}
operation_of(dto) ==
    {[id |-> dto.id, receiver |-> r, intent |-> i, status |-> q, dispatch |-> d,
      confirmed |-> dto.confirmed, reason |-> dto.reason, observation |-> dto.observation]
         : r \in parse_receiver_id(dto.receiver), i \in intent_of(dto.intent),
           q \in status_of(dto), d \in named(DispatchDto, dto.dispatch)}

SubmitRequest(intent, key) == [intent |-> IntentDto(intent), idempotency_key |-> key]
into_submission(request) ==
    {[intent |-> i, idempotency_key |-> k]
         : i \in intent_of(request.intent), k \in optional_name(request.idempotency_key)}

DecisionDto == {"allow", "require_approval", "deny", "unavailable"}
RuleIds(audience, rules) == IF audience = "agent" THEN NoText ELSE rules
DryRunView(audience, d) ==
    [decision |-> d.decision,
     reasons |-> IF d.decision \in {"require_approval", "deny"} THEN d.reasons ELSE <<>>,
     reason |-> IF d.decision = "unavailable" THEN Some(d.reason) ELSE None,
     policy_digest |-> d.policy,
     rules |-> RuleIds(audience, IF d.decision \in {"require_approval", "deny"}
                                 THEN d.rules ELSE <<>>)]
into_dry_run(v) ==
    {[decision |-> d, policy |-> digest,
      reasons |-> IF d \in {"require_approval", "deny"} THEN v.reasons ELSE <<>>,
      rules |-> IF d \in {"require_approval", "deny"} THEN v.rules ELSE <<>>,
      reason |-> IF d = "unavailable" /\ v.reason # None THEN The(v.reason) ELSE ""]
         : d \in named(DecisionDto, v.decision), digest \in optional_name(v.policy_digest)}

(***************************************************************************)
(* Receivers and health.                                                   *)
(***************************************************************************)
ConnectionDto == {"released", "connecting", "connected"}
CapabilitiesDto(c) ==
    [writable |-> c.writable, zone2_power |-> c.zone2_power,
     source_catalog_read |-> c.source_catalog_read,
     inputs |-> c.inputs, surround_modes |-> c.surround_modes]
ReceiverSummaryDto(r) ==
    [id |-> r.id, model |-> r.model, capabilities |-> CapabilitiesDto(r.capabilities),
     connection |-> r.connection]
receiver_summary_of(dto) ==
    {[id |-> id, model |-> dto.model, capabilities |-> CapabilitiesDto(dto.capabilities),
      connection |-> c]
         : id \in parse_receiver_id(dto.id), c \in named(ConnectionDto, dto.connection)}

CONTRACT_VERSION == 1
PolicyHealthDto == {"not_configured", "active", "unavailable"}
AuditDto == {"not_configured", "ok", "failing"}
(* Only the Operator's answer says how the server itself is. *)
HealthDto(audience, contract, h) ==
    [contract |-> contract, policy |-> h.policy, audit |-> h.audit,
     ledger_ready |-> h.ledger_ready, approval |-> "unavailable",
     server |-> IF audience = "operator" THEN Some("server") ELSE None]
service_health(dto) ==
    {[policy |-> p, audit |-> a, ledger_ready |-> dto.ledger_ready, approval |-> "unavailable"]
         : p \in named(PolicyHealthDto, dto.policy), a \in named(AuditDto, dto.audit)}

(***************************************************************************)
(* The Operator's values: the audit log, the configuration, discovery,     *)
(* tokens and the policy in force.                                         *)
(***************************************************************************)
EndpointKind == {"operator", "agent"}
RefusalReason == {"peer_not_admitted", "no_credential", "unknown_credential",
                  "operator_token_on_agent_endpoint", "agent_token_on_operator_endpoint",
                  "resource_not_served"}

(* A field name the reader does not know is dropped: it is informational. *)
fields_of(names) == SelectSeq(names, LAMBDA n : n \in CoreField)

AuditEventKinds == {"decided", "dispatching", "finished", "policy_loaded",
                    "policy_load_failed", "access_refused", "token_issued", "token_revoked"}
AuditEventDto(e) == [kind |-> e.kind, content |-> e.content]
audit_event_of(dto) ==
    LET c == dto.content
        read == CASE dto.kind = "decided" ->
                         {[c EXCEPT !.baseline = fields_of(@)] : p \in optional_name(c.policy)}
                  [] dto.kind = "dispatching" ->
                         Some([c EXCEPT !.precondition_fields = fields_of(@)])
                  [] dto.kind = "finished" -> {c : d \in named(DispatchDto, c.dispatch)}
                  [] dto.kind = "policy_loaded" -> {c : d \in checked(c.digest)}
                  [] dto.kind = "policy_load_failed" -> Some(c)
                  [] dto.kind = "access_refused" ->
                         {c : e \in named(EndpointKind, c.endpoint),
                              r \in named(RefusalReason, c.reason)}
                  [] dto.kind \in {"token_issued", "token_revoked"} ->
                         {c : i \in checked(c.id), l \in checked(c.label)}
                  [] OTHER -> None
    IN {[kind |-> dto.kind, content |-> x] : x \in read}

PrincipalDto(p) == IF p = "operator" THEN [operator |-> TRUE] ELSE [agent |-> p]
principal_of(dto) == IF "operator" \in DOMAIN dto THEN Some("operator") ELSE checked(dto.agent)
Optional(Reading(_), option) ==
    IF option = None THEN Some(None) ELSE {Some(x) : x \in Reading(The(option))}

AuditEntryDto(entry) ==
    [seq |-> entry.seq, at_ms |-> entry.at, operation |-> entry.operation,
     principal |-> {PrincipalDto(p) : p \in entry.principal},
     receiver |-> entry.receiver, event |-> AuditEventDto(entry.event)]
audit_entry_of(dto) ==
    {[seq |-> dto.seq, at |-> dto.at_ms, operation |-> dto.operation, principal |-> p,
      receiver |-> r, event |-> e]
         : p \in Optional(principal_of, dto.principal),
           r \in Optional(parse_receiver_id, dto.receiver), e \in audit_event_of(dto.event)}
AuditPageDto(page) ==
    [entries |-> [i \in DOMAIN page.entries |-> AuditEntryDto(page.entries[i])],
     next |-> page.next]
audit_page_of(dto) ==
    {[entries |-> es, next |-> dto.next]
         : es \in collect([i \in DOMAIN dto.entries |-> audit_entry_of(dto.entries[i])])}

(* The favourites are a set and are sent as a list; a blank one is refused. *)
ConfigDto(c) ==
    [current |-> c.current, receivers |-> c.receivers,
     sound_mode_favorites |->
         [n \in DOMAIN c.favorites |-> SetToSeq(c.favorites[n])]]
favorites_of(modes) ==
    {Range(list) : list \in collect([i \in DOMAIN modes |-> checked(modes[i])])}
config_of(dto) ==
    {[current |-> dto.current, receivers |-> dto.receivers, favorites |-> f]
         : f \in collect([n \in DOMAIN dto.sound_mode_favorites |->
                              favorites_of(dto.sound_mode_favorites[n])])}

DiscoveredDto(found) ==
    [host |-> found.address.host, port |-> found.address.port, location |-> found.location,
     server |-> found.server, model |-> found.model, search_target |-> found.search_target,
     unique_service_name |-> found.unique_service_name]
discovered_of(dto) ==
    Some([address |-> [host |-> dto.host, port |-> dto.port], location |-> dto.location,
          server |-> dto.server, model |-> dto.model, search_target |-> dto.search_target,
          unique_service_name |-> dto.unique_service_name])

TokenDto(t) == [id |-> t.id, label |-> t.label, created_ms |-> t.created, revoked_ms |-> t.revoked]
token_of(dto) ==
    {[id |-> i, label |-> l, created |-> dto.created_ms, revoked |-> dto.revoked_ms]
         : i \in checked(dto.id), l \in checked(dto.label)}
IssuedTokenDto(issued) == [token |-> TokenDto(issued.record), secret |-> issued.secret]
issued_of(dto) == {[record |-> r, secret |-> dto.secret] : r \in token_of(dto.token)}

PolicyDto(v) == [digest |-> v.digest, loaded_at_ms |-> v.loaded_at, text |-> v.text, error |-> v.error]
policy_of(dto) ==
    {[digest |-> d, loaded_at |-> dto.loaded_at_ms, text |-> dto.text, error |-> dto.error]
         : d \in optional_name(dto.digest)}

(***************************************************************************)
(* Errors.  The port's error, the status and body it is sent as, and what  *)
(* a client reads an error response as.  TicksPerSecond is how finely a    *)
(* retry time is known before it is rounded up to seconds.                 *)
(***************************************************************************)
NOT_FOUND_WORDS == {"receiver", "operation", "token"}
KindNames == {"configuration", "discovery", "invalid_selection", "connection", "timeout",
              "disconnected", "malformed", "unavailable", "unsupported", "stopped", "conflict"}
TicksPerSecond == 2

whole_seconds_rounded_up(ticks) ==
    ticks \div TicksPerSecond + (IF ticks % TicksPerSecond > 0 THEN 1 ELSE 0)

ErrorDetail(code) ==
    [code |-> code, what |-> None, kind |-> None, retry_after_secs |-> None, operation |-> None]
server_error(status, code) == [status |-> status, error |-> ErrorDetail(code)]
unauthenticated == server_error(401, "unauthenticated")

ApiError(e) ==
    CASE e.kind = "not_found" ->
             [status |-> 404, error |-> [ErrorDetail("not_found") EXCEPT !.what = Some(e.what)]]
      [] e.kind = "forbidden" -> server_error(403, "forbidden")
      [] e.kind = "invalid_request" -> server_error(400, "invalid_request")
      [] e.kind = "unavailable" -> server_error(503, "unavailable")
      [] e.kind = "too_late" ->
             [status |-> 409,
              error |-> [ErrorDetail("too_late") EXCEPT !.operation = Some(OperationDto(e.operation))]]
      [] e.kind = "rate_limited" ->
             [status |-> 429,
              error |-> [ErrorDetail("rate_limited") EXCEPT
                  !.retry_after_secs = {whole_seconds_rounded_up(t) : t \in e.retry_after}]]
      [] e.kind = "receiver" ->
             [status |-> 502,
              error |-> [ErrorDetail("receiver_error") EXCEPT !.kind = Some(e.error)]]

Fault(kind) == [kind |-> kind]
NotFound(what) == [kind |-> "not_found", what |-> what]
RateLimited(detail) ==
    [kind |-> "rate_limited",
     retry_after |-> {n * TicksPerSecond : n \in detail.retry_after_secs}]

(* Codes the server adds outside the port are read by their status. *)
by_status(status, detail) ==
    CASE status \in {401, 403} -> Fault("forbidden")
      [] status = 404 -> NotFound("resource")
      [] status = 429 -> RateLimited(detail)
      [] status \in 500 .. 599 -> Fault("unavailable")
      [] OTHER -> Fault("invalid_request")

into_control_error(status, detail) ==
    CASE detail.code = "not_found" ->
             NotFound(IF detail.what # None /\ The(detail.what) \in NOT_FOUND_WORDS
                      THEN The(detail.what) ELSE "resource")
      [] detail.code \in {"forbidden", "unauthenticated"} -> Fault("forbidden")
      [] detail.code = "invalid_request" -> Fault("invalid_request")
      [] detail.code \in {"unavailable", "shutting_down"} -> Fault("unavailable")
      [] detail.code = "too_late" ->
             (LET read == UNION {operation_of(dto) : dto \in detail.operation}
              IN IF read = None THEN Fault("unavailable")
                 ELSE [kind |-> "too_late", operation |-> The(read)])
      [] detail.code \in {"rate_limited", "too_many_streams"} -> RateLimited(detail)
      [] detail.code = "receiver_error" ->
             [kind |-> "receiver",
              error |-> IF detail.kind # None /\ The(detail.kind) \in KindNames
                        THEN The(detail.kind) ELSE "unavailable"]
      [] OTHER -> by_status(status, detail)
=============================================================================
