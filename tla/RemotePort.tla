---------------------------- MODULE RemotePort -----------------------------
(***************************************************************************)
(* The control-service port over a socket: a call of ApiClient becomes a   *)
(* request, passes the server's pipeline and one of its routes, reaches    *)
(* the service, and the answer is read back; a state or operation stream   *)
(* is written as server-sent events, arrives in chunks cut anywhere and is *)
(* parsed, decoded and pumped to the subscriber.  Each request has its own *)
(* connection (crates/api-client), so one call at a time is all there is   *)
(* to see of it; the receiver's state goes on changing meanwhile, and      *)
(* another client may save the configuration.                              *)
(***************************************************************************)
EXTENDS ApiContract

CONSTANTS
    Receivers,       \* receiver ids a caller may name, as sequences of parts
    OkValues(_),     \* what the service may answer a port call with
    Faults,          \* the port errors it may answer with
    Submissions,     \* intents with or without an idempotency key, to submit
    Frames,          \* what the receiver may report
    LineEnds,        \* how a line of an event stream may end
    EndReasons,      \* why the server may end a stream
    MaxRevision, MaxEvents   \* bounds on the state's changes and a stream's length

VARIABLES
    audience,        \* which endpoint the client talks to
    credential,      \* what the server makes of the token it presents
    call,            \* the port call: its place, request, answer and result
    served,          \* the service calls made for it, and what they returned
    state,           \* the receiver's state as the service holds it
    sent,            \* events the server has written to the stream
    pending,         \* written and not yet read by the client
    parser, queue,   \* the client's reader
    taken,           \* events the subscriber's side has taken from it
    latest, ended    \* what the subscriber sees

streamvars == <<state, sent, pending, parser, queue, taken, latest, ended>>
vars == <<audience, credential, call, served, streamvars>>

(***************************************************************************)
(* Paths and routes.                                                       *)
(***************************************************************************)
Escapes == [c \in {"/", "?", "adhoc:"} |->
               CASE c = "/" -> "%2F" [] c = "?" -> "%3F" [] OTHER -> "adhoc%3A"]
encode_segment(text) ==
    [i \in DOMAIN text |-> IF text[i] \in DOMAIN Escapes THEN Escapes[text[i]] ELSE text[i]]
decode_segment(text) ==
    [i \in DOMAIN text |->
        IF \E c \in DOMAIN Escapes : Escapes[c] = text[i]
        THEN CHOOSE c \in DOMAIN Escapes : Escapes[c] = text[i] ELSE text[i]]

Row(method, pattern, who) == [method |-> method, pattern |-> pattern, audience |-> who]
TABLE ==
    [Health |-> Row("GET", <<"health">>, "both"),
     Receivers |-> Row("GET", <<"receivers">>, "both"),
     State |-> Row("GET", <<"receivers", "{id}", "state">>, "both"),
     Sources |-> Row("GET", <<"receivers", "{id}", "sources">>, "both"),
     StateEvents |-> Row("GET", <<"receivers", "{id}", "events">>, "both"),
     OperationEvents |-> Row("GET", <<"operations", "events">>, "both"),
     Submit |-> Row("POST", <<"receivers", "{id}", "operations">>, "both"),
     DryRun |-> Row("POST", <<"receivers", "{id}", "operations", "dry-run">>, "both"),
     Operation |-> Row("GET", <<"operations", "{id}">>, "both"),
     Cancel |-> Row("POST", <<"operations", "{id}", "cancel">>, "both"),
     Discover |-> Row("POST", <<"receivers", "discover">>, "operator"),
     AdHoc |-> Row("POST", <<"receivers", "ad-hoc">>, "operator"),
     ConfigGet |-> Row("GET", <<"config">>, "operator"),
     ConfigPut |-> Row("PUT", <<"config">>, "operator"),
     QuickSelectNames |-> Row("GET", <<"receivers", "{id}", "quick-select-names">>, "operator"),
     HttpInformation |-> Row("GET", <<"receivers", "{id}", "http-information">>, "operator"),
     Refresh |-> Row("POST", <<"receivers", "{id}", "refresh">>, "operator"),
     PolicyGet |-> Row("GET", <<"policy">>, "operator"),
     PolicyReload |-> Row("POST", <<"policy", "reload">>, "operator"),
     Audit |-> Row("GET", <<"audit">>, "operator"),
     TokenIssue |-> Row("POST", <<"tokens">>, "operator"),
     TokenList |-> Row("GET", <<"tokens">>, "operator"),
     TokenRevoke |-> Row("DELETE", <<"tokens", "{id}">>, "operator")]

served_to(who) == {r \in DOMAIN TABLE : who = "operator" \/ TABLE[r].audience = "both"}

(* What each call of the port asks for, and who may make it at all. *)
PortRoute ==
    [receivers |-> "Receivers", state |-> "StateEvents", source_catalog |-> "Sources",
     health |-> "Health", submit |-> "Submit", operation |-> "Operation", cancel |-> "Cancel",
     operation_events |-> "OperationEvents", dry_run |-> "DryRun", discover |-> "Discover",
     register_ad_hoc |-> "AdHoc", configuration |-> "ConfigGet", save_configuration |-> "ConfigPut",
     quick_select_names |-> "QuickSelectNames", http_information |-> "HttpInformation",
     refresh |-> "Refresh", dry_run_as |-> "DryRun", policy |-> "PolicyGet",
     reload_policy |-> "PolicyReload", audit |-> "Audit", issue_token |-> "TokenIssue",
     tokens |-> "TokenList", revoke_token |-> "TokenRevoke"]
Ports == DOMAIN PortRoute
OperatorAdmin == {"discover", "register_ad_hoc", "configuration", "save_configuration",
                  "quick_select_names", "http_information", "refresh", "dry_run_as", "policy", "reload_policy",
                  "audit", "issue_token", "tokens", "revoke_token"}
Governance == {"policy", "reload_policy", "audit", "issue_token", "tokens", "revoke_token"}
Streaming == {"state", "operation_events"}

(* The path as it is sent: one flat text, in which the id was escaped. *)
request_path(route, id) ==
    FlattenSeq([i \in DOMAIN TABLE[route].pattern |->
        LET segment == TABLE[route].pattern[i]
        IN <<"/">> \o (IF segment = "{id}" THEN encode_segment(id) ELSE <<segment>>)])

segments(path) ==
    Tail(FoldLeft(LAMBDA acc, c : IF c = "/" THEN Append(acc, <<>>)
                                  ELSE [acc EXCEPT ![Len(acc)] = Append(@, c)],
                  <<<<>>>>, path))
fits(pattern, segs) ==
    Len(pattern) = Len(segs)
    /\ \A i \in DOMAIN pattern : \/ pattern[i] = "{id}" /\ segs[i] # <<>>
                                 \/ segs[i] = <<pattern[i]>>

(* The row the router picks: a literal segment before a placeholder. *)
routed(who, method, path) ==
    LET fitting == {r \in served_to(who) : /\ TABLE[r].method = method
                                           /\ fits(TABLE[r].pattern, segments(path))}
        literal == {r \in fitting : "{id}" \notin Range(TABLE[r].pattern)}
    IN IF literal # {} THEN literal ELSE fitting
routed_id(route, path) ==
    LET at == {i \in DOMAIN TABLE[route].pattern : TABLE[route].pattern[i] = "{id}"}
    IN {decode_segment(segments(path)[i]) : i \in at}

(***************************************************************************)
(* The answer to each call, as it is written and as it is read.            *)
(***************************************************************************)
WrittenToBoth(port, value) ==
    CASE port = "receivers" -> [i \in DOMAIN value |-> ReceiverSummaryDto(value[i])]
      [] port = "source_catalog" -> SourcesView(audience, value)
      [] port = "health" -> HealthDto(audience, value.contract, value)
      [] port \in {"submit", "operation", "cancel"} -> OperationDto(value)
      [] port = "dry_run" -> DryRunView(audience, value)
      [] port \in Streaming -> value
WrittenToOperator(port, value) ==
    CASE port = "dry_run_as" -> DryRunView(audience, value)
      [] port = "discover" -> [i \in DOMAIN value |-> DiscoveredDto(value[i])]
      [] port = "configuration" -> ConfigDto(value)
      [] port = "quick_select_names" -> QuickSelectNamesDto(value)
      [] port = "http_information" -> HttpInformationDto(value)
      [] OTHER -> value
WrittenByGovernance(port, value) ==
    CASE port \in {"policy", "reload_policy"} -> PolicyDto(value)
      [] port = "audit" -> AuditPageDto(value)
      [] port = "issue_token" -> IssuedTokenDto(value)
      [] port = "tokens" -> [i \in DOMAIN value |-> TokenDto(value[i])]
      [] port = "revoke_token" -> TokenDto(value)
Written(port, value) ==
    CASE port \notin OperatorAdmin -> WrittenToBoth(port, value)
      [] port \in Governance -> WrittenByGovernance(port, value)
      [] OTHER -> WrittenToOperator(port, value)

ReadByBoth(port, dto) ==
    CASE port = "receivers" -> collect([i \in DOMAIN dto |-> receiver_summary_of(dto[i])])
      [] port = "source_catalog" -> into_observation(dto)
      [] port = "health" ->
             IF dto.contract = CONTRACT_VERSION THEN service_health(dto) ELSE None
      [] port \in {"submit", "operation", "cancel"} -> operation_of(dto)
      [] port = "dry_run" -> into_dry_run(dto)
ReadByOperator(port, dto) ==
    CASE port = "dry_run_as" -> into_dry_run(dto)
      [] port = "discover" -> collect([i \in DOMAIN dto |-> discovered_of(dto[i])])
      [] port = "register_ad_hoc" -> parse_receiver_id(dto)
      [] port = "configuration" -> config_of(dto)
      [] port = "save_configuration" -> Some("saved")
      [] port = "quick_select_names" -> quick_select_names_of(dto)
      [] port = "http_information" -> http_information_of(dto)
      [] OTHER -> Some(dto)
ReadFromGovernance(port, dto) ==
    CASE port \in {"policy", "reload_policy"} -> policy_of(dto)
      [] port = "audit" -> audit_page_of(dto)
      [] port = "issue_token" -> issued_of(dto)
      [] port = "tokens" -> collect([i \in DOMAIN dto |-> token_of(dto[i])])
      [] port = "revoke_token" -> token_of(dto)
Reading(port, dto) ==
    CASE port \notin OperatorAdmin -> ReadByBoth(port, dto)
      [] port \in Governance -> ReadFromGovernance(port, dto)
      [] OTHER -> ReadByOperator(port, dto)

(***************************************************************************)
(* A call.  Seconds: the client gives up after REQUEST_TIMEOUT, and after  *)
(* the wait it asked for on top; the server answers 408 after its own      *)
(* request_timeout.  The client's clock starts first.                      *)
(***************************************************************************)
\* Mutated form: the client waits longer than the server.
REQUEST_TIMEOUT_Longer == 40
REQUEST_TIMEOUT == 10
request_timeout == 35
MAX_WAIT == 30

Waits(port) == IF port \in {"operation", "discover"} THEN {0, MAX_WAIT} ELSE {0}
Ids(port) ==
    CASE "{id}" \notin Range(TABLE[PortRoute[port]].pattern) -> {<<>>}
      [] TABLE[PortRoute[port]].pattern[1] = "receivers" -> Receivers
      [] OTHER -> {<<"7">>}
Asks(port) == IF port = "submit" THEN {Some(s) : s \in Submissions} ELSE {None}
Bodies(port) == IF port \in {"submit", "save_configuration", "issue_token"} THEN {"small", "over"} ELSE {"small"}

Idle == [at |-> "idle"]
Done(result) == call' = [call EXCEPT !.at = "done", !.result = result]
Failed(kind) == [err |-> Fault(kind)]

require_operator(port) == audience = "operator" \/ port \notin OperatorAdmin

(* A save of the configuration asks for the one in force first, for its tag. *)
FirstRoute(port) == IF port = "save_configuration" THEN "ConfigGet" ELSE PortRoute[port]

(* An agent's client does not send what it knows will be refused. *)
Ask(port) ==
    /\ call = Idle
    /\ \E id \in Ids(port), wait \in Waits(port), body \in Bodies(port), ask \in Asks(port) :
          LET asked == [port |-> port, id |-> id, body |-> body, ask |-> ask,
                        request |-> {SubmitRequest(s.intent, s.idempotency_key) : s \in ask},
                        limit |-> REQUEST_TIMEOUT + wait,
                        method |-> TABLE[FirstRoute(port)].method,
                        path |-> request_path(PortRoute[port], id), answer |-> None,
                        line_end |-> <<>>, recorded |-> None,
                        at |-> "sent", result |-> [none |-> TRUE]]
          IN call' = IF require_operator(port) THEN asked
                     ELSE [asked EXCEPT !.at = "done", !.result = Failed("forbidden")]
    /\ UNCHANGED <<audience, credential, served, streamvars>>

(* The pipeline, before a handler is reached. *)
authenticated ==
    \/ audience = "operator" /\ credential = "operator_token"
    \/ audience = "agent" /\ credential = "agent_token"
Matched == routed(audience, call.method, call.path)
TooLong == call.body = "over" /\ call.method # "GET"
Refusal ==
    CASE ~authenticated -> Some(unauthenticated)
      [] authenticated /\ TooLong -> Some(server_error(413, "payload_too_large"))
      [] authenticated /\ ~TooLong /\ Matched = {} -> Some(server_error(404, "not_found"))
      [] OTHER -> None

(* Turned away for its credential, or by the agent endpoint for a resource   *)
(* it does not serve, a request is reported to the service for the audit.    *)
RefusedFor ==
    CASE credential = "unknown" -> Some("unknown_credential")
      [] audience = "agent" /\ credential = "operator_token" ->
             Some("operator_token_on_agent_endpoint")
      [] audience = "operator" /\ credential = "agent_token" ->
             Some("agent_token_on_operator_endpoint")
      [] OTHER -> IF audience = "agent" /\ ~TooLong /\ Matched = {}
                  THEN Some("resource_not_served") ELSE None

Refuse ==
    /\ call.at = "sent" /\ Refusal # None
    /\ call' = [call EXCEPT !.at = "answered", !.answer = Refusal, !.recorded = RefusedFor]
    /\ UNCHANGED <<audience, credential, served, streamvars>>

(* Reading or saving the configuration fails as the file does; a save may    *)
(* also be of one that is not valid.                                         *)
FaultsOf(port) ==
    CASE port = "configuration" -> {e \in Faults : e.kind = "receiver"}
      [] port = "save_configuration" ->
             {e \in Faults : e.kind \in {"receiver", "invalid_request"}}
      [] OTHER -> Faults
Outcomes(port) == {[ok |-> v] : v \in OkValues(port)} \cup {[err |-> e] : e \in FaultsOf(port)}

Handler == CHOOSE r \in Matched : TRUE
Reached(port, outcome) ==
    [port |-> port, route |-> Handler, id |-> routed_id(Handler, call.path),
     submission |-> UNION {into_submission(r) : r \in call.request}, outcome |-> outcome]

(* A handler makes one call of the service and answers with what it returns. *)
Answer(port, outcome) ==
    IF "ok" \in DOMAIN outcome THEN [status |-> 200, body |-> Written(port, outcome.ok)]
    ELSE ApiError(outcome.err)
Run(port, outcome) == [did |-> {Reached(port, outcome)}, answer |-> Answer(port, outcome)]

(* config_put alone makes three: it reads the configuration and compares its *)
(* tag with the one the client was given, which another save may have made   *)
(* stale, saves, and reads again what it answers with.                       *)
NotCompared ==
    {r \in {Run("configuration", o) : o \in Outcomes("configuration")} : r.answer.status # 200}
NotTaken ==
    {[did |-> {}, answer |-> server_error(412, "precondition_failed")],
     [did |-> {}, answer |-> server_error(400, "invalid_request")]}
NotSaved == {Run("save_configuration", [err |-> e]) : e \in FaultsOf("save_configuration")}
ReadAgain(saved, o) ==
    [did |-> {Reached("save_configuration", [ok |-> saved]), Reached("configuration", o)},
     answer |-> Answer("configuration", o)]
PutRuns ==
    NotCompared \cup NotTaken \cup NotSaved
        \cup {ReadAgain(v, o) : v \in OkValues("save_configuration"), o \in Outcomes("configuration")}
Runs ==
    CASE call.port # "save_configuration" -> {Run(call.port, o) : o \in Outcomes(call.port)}
      [] call.port = "save_configuration" /\ call.method = "GET" ->
             {Run("configuration", o) : o \in Outcomes("configuration")}
      [] OTHER -> PutRuns

(***************************************************************************)
(* Event streams.  A line is a field, a value and the line's end.          *)
(***************************************************************************)
F(name) == [t |-> "field", v |-> name]
V(value) == [t |-> "value", v |-> value]
Lines(e) == LET nl == call.line_end
            IN <<F("event"), V(e.name)>> \o nl \o <<F("data"), V(e.data)>> \o nl \o nl

(* What an event carries on the wire. *)
Event(name, of) ==
    [name |-> name, of |-> of,
     data |-> CASE name = "state" -> StateView(audience, of)
                [] name = "operation" -> OperationDto(of)
                [] OTHER -> of]

EventName == {"state", "operation", "missed", "end"}
NewParser == [line |-> <<>>, after_cr |-> FALSE, name |-> None, data |-> <<>>]

dispatch(p) ==
    [parser |-> [p EXCEPT !.name = None, !.data = <<>>],
     events |-> IF p.data = <<>> \/ p.name = None \/ ~(p.name \subseteq EventName) THEN <<>>
                ELSE <<[name |-> The(p.name), data |-> p.data[1]]>>]

end_line(p) ==
    LET rest == [p EXCEPT !.line = <<>>]
        keep(q) == [parser |-> q, events |-> <<>>]
    IN CASE p.line = <<>> -> dispatch(rest)
         [] p.line # <<>> /\ p.line[1].v = "event" -> keep([rest EXCEPT !.name = Some(p.line[2].v)])
         [] p.line # <<>> /\ p.line[1].v = "data" -> keep([rest EXCEPT !.data = Append(@, p.line[2].v)])
         [] OTHER -> keep(rest)

\* Mutated form: CR LF is taken for two line ends.
push_NoPair(p, byte) ==
    IF byte.t \in {"lf", "cr"} THEN end_line([p EXCEPT !.after_cr = byte.t = "cr"])
    ELSE [parser |-> [p EXCEPT !.after_cr = FALSE, !.line = Append(@, byte)], events |-> <<>>]
push(p, byte) ==
    CASE byte.t = "lf" /\ p.after_cr -> [parser |-> [p EXCEPT !.after_cr = FALSE], events |-> <<>>]
      [] byte.t \in {"lf", "cr"} /\ ~(byte.t = "lf" /\ p.after_cr) ->
             end_line([p EXCEPT !.after_cr = byte.t = "cr"])
      [] OTHER -> [parser |-> [p EXCEPT !.after_cr = FALSE, !.line = Append(@, byte)],
                   events |-> <<>>]

push_all(p, chunk) ==
    FoldLeft(LAMBDA acc, byte :
                 LET next == push(acc.parser, byte)
                 IN [parser |-> next.parser, events |-> acc.events \o next.events],
             [parser |-> p, events |-> <<>>], chunk)

(* The server's side of a stream: state_stream sends what it holds at once   *)
(* and then each change, operation_stream each update; both end with an end. *)
Write(e) == sent' = Append(sent, e) /\ pending' = pending \o Lines(e)
Ending == sent # <<>> /\ Last(sent).name = "end"
Open == call.at \in {"opening", "open"} /\ ~ended
Room == Open /\ ~Ending /\ Len(sent) < MaxEvents
OnStream == UNCHANGED <<audience, credential, call, served, parser, queue, taken, latest, ended>>

SendState ==
    /\ Room /\ call.port = "state"
    /\ Last(sent).of # state
    /\ Write(Event("state", state)) /\ UNCHANGED state /\ OnStream
SendOperation ==
    /\ Room /\ call.port = "operation_events"
    /\ \/ \E o \in OkValues("operation") : Write(Event("operation", o))
       \/ Write(Event("missed", "missed"))
    /\ UNCHANGED state /\ OnStream
SendEnd ==
    /\ Open /\ ~Ending
    /\ \E reason \in EndReasons :
          Write(Event("end", reason))
    /\ UNCHANGED state /\ OnStream
KeepAlive ==
    /\ Open /\ ~Ending /\ pending = <<>>
    /\ pending' = <<F("")>> \o call.line_end
    /\ UNCHANGED <<state, sent>> /\ OnStream

(* The receiver goes on: frames, expiry, a failed query, a disconnect and a  *)
(* reconnect, and frames nobody understands.                                 *)
ReceiverMoves ==
    /\ Open /\ call.port = "state" /\ state.revision < MaxRevision
    /\ \/ \E f \in Frames, e \in state.epoch : state' = reduce(state, state.receiver, e, 2, f)
       \/ state' = expire_fields(state, 2)
       \/ state' = mark_query_failed(state, "volume")
       \/ state' = record_diagnostic(state)
       \/ state.epoch # None /\ state' = mark_disconnected(state)
       \/ state.epoch = None /\ state' = establish_epoch(state, 2)
    /\ UNCHANGED <<audience, credential, call, served, sent, pending, parser, queue, taken, latest, ended>>

(***************************************************************************)
(* A handler, once the pipeline lets a request through: it calls the port  *)
(* in process and writes what that returns.  A stream needs a place first, *)
(* as each principal may hold only so many; its answer is its head, and    *)
(* the state stream's first event follows at once.                         *)
(***************************************************************************)
Abandoned == call.at = "lost" /\ call.answer = None

ServeOnly(answer) ==
    /\ call' = IF Abandoned THEN call
               ELSE [call EXCEPT !.at = "answered", !.answer = Some(answer)]
    /\ UNCHANGED streamvars

ServeStream(answer) ==
    IF Abandoned \/ answer.status # 200 THEN ServeOnly(answer)
    ELSE /\ \E nl \in LineEnds :
               /\ call' = [call EXCEPT !.at = IF call.port = "state" THEN "opening" ELSE "open",
                                       !.line_end = nl,
                                       !.result = IF call.port = "state" THEN @ ELSE [ok |-> "events"]]
               /\ IF call.port = "state"
                  THEN LET e == Event("state", state)
                       IN /\ sent' = <<e>>
                          /\ pending' = <<F("event"), V(e.name)>> \o nl
                                           \o <<F("data"), V(e.data)>> \o nl \o nl
                  ELSE UNCHANGED <<sent, pending>>
         /\ UNCHANGED <<state, parser, queue, taken, latest, ended>>

NoPlace ==
    /\ call.at = "sent" /\ Refusal = None /\ call.port \in Streaming
    /\ ServeOnly(server_error(429, "too_many_streams"))
    /\ UNCHANGED <<audience, credential, served>>

Serve ==
    /\ call.at = "sent" \/ Abandoned
    /\ Refusal = None /\ \A s \in served : s.route # Handler
    /\ \E run \in Runs :
          /\ served' = served \cup run.did
          /\ IF call.port \in Streaming THEN ServeStream(run.answer) ELSE ServeOnly(run.answer)
    /\ UNCHANGED <<audience, credential>>

(* The token is revoked while an agent waits for its operation: the wait     *)
(* ends, and nothing is written to the audit for it.                         *)
WaitRevoked ==
    /\ call.at = "sent" /\ Refusal = None
    /\ call.port = "operation" /\ audience = "agent"
    /\ credential' = "unknown" /\ ServeOnly(unauthenticated)
    /\ UNCHANGED <<audience, served>>

(* The handler is dropped where it is: the service may or may not have       *)
(* finished the call.                                                        *)
ServerTimesOut ==
    /\ call.at = "sent" /\ Refusal = None /\ call.port \notin Streaming
    /\ call.limit > request_timeout
    /\ served' \in {served} \cup {served \cup run.did : run \in Runs}
    /\ call' = [call EXCEPT !.at = "answered", !.answer = Some(server_error(408, "request_timeout"))]
    /\ UNCHANGED <<audience, credential, streamvars>>

(* No connection, or the answer broke off or did not come in time.  What     *)
(* was sent may still be served.                                             *)
Unreachable ==
    /\ call.at \in {"sent", "answered", "opening"}
    /\ call' = [call EXCEPT !.at = "lost", !.result = Failed("unavailable")]
    /\ pending' = <<>> /\ parser' = NewParser
    /\ UNCHANGED <<audience, credential, served, state, sent, queue, taken, latest, ended>>

(* A success that is not what the contract describes is Unavailable. *)
json(port, body) ==
    LET reading == Reading(port, body)
    IN IF reading = None THEN Failed("unavailable") ELSE [ok |-> The(reading)]

(* A save that was told the tag in force sends the new configuration under   *)
(* it, a request of its own with a time limit of its own.                    *)
TagRead == call.port = "save_configuration" /\ call.method = "GET"
SendPut ==
    /\ call.at = "answered" /\ TagRead /\ \E a \in call.answer : a.status = 200
    /\ call' = [call EXCEPT !.at = "sent", !.method = TABLE.ConfigPut.method, !.answer = None]
    /\ UNCHANGED <<audience, credential, served, streamvars>>

Receive ==
    /\ call.at = "answered" /\ (TagRead => \A a \in call.answer : a.status # 200)
    /\ \E a \in call.answer :
          Done(IF a.status = 200 THEN json(call.port, a.body)
               ELSE [err |-> into_control_error(a.status, a.error)])
    /\ UNCHANGED <<audience, credential, served, streamvars>>

(***************************************************************************)
(* The client's reader.  Bytes come in chunks cut anywhere; Take is        *)
(* EventReader::next handing on an event to state(), the pump it spawned   *)
(* or RemoteOperationEvents::next.                                         *)
(***************************************************************************)
Attached == call.at \in {"opening", "open"} /\ ~ended

Arrive ==
    /\ Attached /\ queue = <<>> /\ pending # <<>>
    /\ \E n \in 1 .. Len(pending) :
          LET got == push_all(parser, SubSeq(pending, 1, n))
          IN /\ parser' = got.parser /\ queue' = queue \o got.events
             /\ pending' = SubSeq(pending, n + 1, Len(pending))
    /\ UNCHANGED <<audience, credential, call, served, state, sent, taken, latest, ended>>

Over == ended' = TRUE /\ UNCHANGED latest

(* state() waits for the first event: an end there is an error, and so is    *)
(* anything that is not a state.                                             *)
TakeFirst(e) ==
    LET states == IF e.name = "state" THEN into_state(e.data) ELSE None
    IN IF states # None
       THEN /\ call' = [call EXCEPT !.at = "open", !.result = [ok |-> "subscription"]]
            /\ latest' = states /\ UNCHANGED ended
       ELSE /\ Done(IF e.name = "end" /\ e.data = "revoked" THEN Failed("forbidden")
                    ELSE Failed("unavailable"))
            /\ Over

(* Every way the pump ends is the same to the subscriber. *)
Pump(e) ==
    /\ CASE e.name = "state" /\ into_state(e.data) # None ->
                latest' = into_state(e.data) /\ UNCHANGED ended
         [] e.name = "end" \/ (e.name = "state" /\ into_state(e.data) = None) -> Over
         [] OTHER -> UNCHANGED <<latest, ended>>
    /\ UNCHANGED call

(* An operation event that cannot be read ends the stream. *)
NextOperation(e) ==
    /\ IF e.name = "end" \/ (e.name = "operation" /\ operation_of(e.data) = None) THEN Over
       ELSE UNCHANGED <<latest, ended>>
    /\ UNCHANGED call

Take ==
    /\ Attached /\ queue # <<>>
    /\ LET e == Head(queue)
       IN /\ CASE call.at = "opening" -> TakeFirst(e)
                [] call.at = "open" /\ call.port = "state" -> Pump(e)
                [] OTHER -> NextOperation(e)
          /\ taken' = Append(taken, e)
    /\ queue' = Tail(queue)
    /\ UNCHANGED <<audience, credential, served, state, sent, pending, parser>>

(* The connection breaks: what was on its way is gone. *)
Break ==
    /\ Attached /\ queue = <<>>
    /\ pending' = <<>> /\ parser' = NewParser /\ Over
    /\ IF call.at = "opening" THEN Done(Failed("unavailable")) ELSE UNCHANGED call
    /\ UNCHANGED <<audience, credential, served, state, sent, queue, taken>>

Init ==
    /\ audience \in {"operator", "agent"}
    /\ credential \in {"operator_token", "agent_token", "unknown"}
    /\ call = Idle /\ served = {}
    /\ state = establish_epoch(NewState(CHOOSE r \in Receivers : TRUE), 1)
    /\ sent = <<>> /\ pending = <<>> /\ parser = NewParser /\ queue = <<>> /\ taken = <<>>
    /\ latest = None /\ ended = FALSE

Next ==
    \/ \E port \in Ports : Ask(port)
    \/ Unreachable \/ Refuse \/ NoPlace \/ Serve \/ WaitRevoked \/ ServerTimesOut
    \/ SendPut \/ Receive
    \/ SendState \/ SendOperation \/ SendEnd \/ KeepAlive \/ ReceiverMoves
    \/ Arrive \/ Take \/ Break

Spec == Init /\ [][Next]_vars
-----------------------------------------------------------------------------
(* What an in-process caller would have read, less what the wire does not    *)
(* carry: the fraction of a millisecond, times before 1970, the texts an     *)
(* agent is not shown and the contract's own version.                        *)
WholeMs(at) == {t - (t % TicksPerMs) : t \in {u \in at : u >= 0}}
AsRead(port, v) ==
    CASE port \in {"quick_select_names", "http_information"} ->
             [v EXCEPT !.observed_at = WholeMs(@)]
      [] port = "source_catalog" ->
             IF audience = "operator" THEN [v EXCEPT !.observed_at = WholeMs(@)]
             ELSE [v EXCEPT !.observed_at = WholeMs(@), !.raw_response = "", !.error = None]
      [] port = "dry_run" /\ audience = "agent" -> [v EXCEPT !.rules = <<>>]
      [] port = "health" -> [k \in DOMAIN v \ {"contract"} |-> v[k]]
      [] OTHER -> v

Answered == call.at = "done" /\ call.answer # None

(* A value that came back is the one the service returned to the handler of  *)
(* that very call, id and submission: every success is read back whole.      *)
SameValue ==
    (Answered /\ "ok" \in DOMAIN call.result) =>
        \E s \in served : /\ s.port = call.port /\ s.route = PortRoute[call.port]
                          /\ call.id = <<>> \/ s.id = {call.id}
                          /\ s.submission = call.ask
                          /\ "ok" \in DOMAIN s.outcome
                          /\ call.result.ok = AsRead(call.port, s.outcome.ok)

(* An error that came back is the service's own, a time to wait never made   *)
(* shorter and never longer by a second, or it has a cause the caller can    *)
(* name: a refused credential, one revoked during a wait included; too large *)
(* a body; no place for one more stream; a configuration that changed after  *)
(* the save read its tag, or cannot be one; another contract version; or a   *)
(* server that took too long.  A save's own error may also be that of the    *)
(* configuration's read before or after it.                                  *)
Alike(seen, e) ==
    IF e.kind # "rate_limited" \/ e.retry_after = None THEN seen = e
    ELSE /\ seen.kind = "rate_limited" /\ seen.retry_after # None
         /\ The(seen.retry_after) - The(e.retry_after) \in 0 .. TicksPerSecond - 1
SameError ==
    (Answered /\ "err" \in DOMAIN call.result) =>
        \/ \E s \in served : "err" \in DOMAIN s.outcome /\ Alike(call.result.err, s.outcome.err)
        \/ ~authenticated /\ call.result.err = Fault("forbidden")
        \/ call.body = "over" /\ call.result.err = Fault("invalid_request")
        \/ /\ call.port \in Streaming
           /\ call.answer = Some(server_error(429, "too_many_streams"))
           /\ call.result.err = [kind |-> "rate_limited", retry_after |-> None]
        \/ /\ call.port = "save_configuration" /\ \A s \in served : s.port # call.port
           /\ call.result.err = Fault("invalid_request")
        \/ \E s \in served : /\ call.port = "health" /\ "ok" \in DOMAIN s.outcome
                              /\ s.outcome.ok.contract # CONTRACT_VERSION
                              /\ call.result.err = Fault("unavailable")
        \/ call.answer = Some(server_error(408, "request_timeout"))

(* The caller of the port cannot tell the socket from the service but by the *)
(* causes named: the same value and the same typed error come back either    *)
(* way (ApiClient, routes.rs and the contract's conversions together).       *)
SameAnswer == SameValue /\ SameError

(* When a call that changes something comes back as refused (forbidden, not  *)
(* found, not valid, or rate limited), it was not done, and will not be: a   *)
(* 408, which reads as not valid, never reaches one, and every other way of  *)
(* not knowing reads as Unavailable or as the receiver's own error.          *)
Changing == {"submit", "cancel", "register_ad_hoc", "save_configuration", "refresh",
             "reload_policy", "issue_token", "revoke_token"}
RefusedMeansNotDone ==
    (/\ call.at = "done" /\ "err" \in DOMAIN call.result /\ call.port \in Changing
     /\ call.result.err.kind \in {"forbidden", "not_found", "invalid_request", "rate_limited"})
        => \A s \in served : s.port = call.port => "err" \in DOMAIN s.outcome

(* However the stream's bytes are cut and whichever way its lines end, the   *)
(* reader hands on the events the server wrote, in order, none twice, none   *)
(* lost, and what the subscriber holds reads as the last state it was sent:  *)
(* each field's class and usable value, the epoch a precondition is bound    *)
(* to, and for the Operator whether the field has an issue.                  *)
Seen(s, c) ==
    [kind |-> s.fields[c].validity.kind,
     value |-> IF c = "sound_mode" THEN {v.id : v \in FieldBaseline(s, c)} ELSE FieldBaseline(s, c),
     issue |-> audience = "operator" /\ s.fields[c].issue]
Handed == [i \in DOMAIN (taken \o queue) |-> (taken \o queue)[i].name]
StatesTaken == SelectSeq(SubSeq(sent, 1, Len(taken)), LAMBDA e : e.name = "state")
StreamReadsAlike ==
    /\ Len(Handed) <= Len(sent)
    /\ \A i \in DOMAIN Handed : (taken \o queue)[i].data = sent[i].data
    /\ (Attached /\ pending = <<>>) => Len(Handed) = Len(sent)
    /\ \A seen \in latest :
          LET s == Last(StatesTaken).of
          IN seen.epoch = s.epoch /\ \A c \in CoreField : Seen(seen, c) = Seen(s, c)
=============================================================================
