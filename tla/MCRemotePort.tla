--------------------------- MODULE MCRemotePort ----------------------------
(***************************************************************************)
(* Values for the remote port: for every port call at least one answer     *)
(* with its optional parts present and one with them absent, a time that   *)
(* is not a whole millisecond and one before 1970, every status and error. *)
(***************************************************************************)
EXTENDS RemotePort

MCReceivers == {<<"den">>, <<"a", "/", "b">>, <<"adhoc:", "host">>}
MCLineEnds == {<<[t |-> "lf", v |-> ""]>>, <<[t |-> "cr", v |-> ""], [t |-> "lf", v |-> ""]>>}
MCFrames ==
    {[kind |-> "volume", arg |-> Some(-71)], [kind |-> "volume_unavailable", arg |-> ""],
     [kind |-> "sound_mode", arg |-> [id |-> "stereo", raw |-> "STEREO"]]}

Den == <<"den">>
Volume(v) == [kind |-> "volume", arg |-> v]
MCIntents ==
    {Volume(Minimum), Volume(Some(-71)), [kind |-> "mute", arg |-> "on"],
     [kind |-> "source", arg |-> "CD"], [kind |-> "system_power", arg |-> "standby"],
     [kind |-> "sound_mode", arg |-> [name |-> "select", select |-> Some("AURO3D")]],
     [kind |-> "sound_mode", arg |-> [name |-> "stereo", select |-> None]]}
MCSubmissions ==
    {[intent |-> i, idempotency_key |-> None] : i \in MCIntents}
        \cup {[intent |-> Volume(Some(-71)), idempotency_key |-> Some("k")]}

Operation(intent, status) ==
    [id |-> 7, receiver |-> Den, intent |-> intent, status |-> status,
     dispatch |-> "not_dispatched", confirmed |-> FALSE,
     reason |-> None, observation |-> Some("seen")]
Statuses == {[name |-> n] : n \in StatusDto \ {"superseded"}}
                \cup {[name |-> "superseded", by |-> 8]}
MCOperations ==
    {Operation(i, [name |-> "submitted"]) : i \in MCIntents}
        \cup {Operation(Volume(Minimum), q) : q \in Statuses}
FewOperations ==
    {Operation(Volume(Minimum), [name |-> "in_session"]),
     Operation(Volume(Some(36)), [name |-> "superseded", by |-> 8])}

Times == {None, Some(-1), Some(3)}
Catalog(at, error) ==
    [entries |-> <<[id |-> "CD", display_name |-> None, visibility |-> "hidden"],
                   [id |-> "TV", display_name |-> Some("Tv"), visibility |-> "shown"]>>,
     freshness |-> "live", generation |-> 1, observed_at |-> at, error |-> error,
     raw_response |-> "xml", response |-> "complete"]
Names(at) ==
    [names |-> <<Some("Movie"), None, None, Some("Game")>>,
     sources |-> <<Some("CD"), None, None, None>>, freshness |-> "partial", generation |-> 2,
     observed_at |-> at, error |-> None, raw_response |-> "xml", response |-> "partial"]
Missing == [is |-> "unavailable", kind |-> "timeout", message |-> "late"]
Information(at, slots) ==
    [input_slots |-> slots, output_slots |-> Missing,
     texts |-> [t \in InformationTexts |->
                   IF t = "sound" THEN Missing ELSE [is |-> "value", value |-> "x"]],
     freshness |-> "live", generation |-> 1, observed_at |-> at, error |-> None]
ChannelSlots == [is |-> "value", value |-> <<[label |-> "FL", state |-> "active"]>>]

DryRuns ==
    {[decision |-> d, policy |-> p,
      reasons |-> IF d \in {"deny", "require_approval"} THEN <<"too loud">> ELSE <<>>,
      rules |-> IF d \in {"deny", "require_approval"} THEN <<"cap">> ELSE <<>>,
      reason |-> IF d = "unavailable" THEN "no policy" ELSE ""]
         : d \in DecisionDto, p \in {None, Some("digest")}}

Contents ==
    [decided |-> [intent |-> "volume", decision |-> "deny", reasons |-> <<"r">>,
                  rules |-> <<"cap">>, baseline |-> <<"volume", "mute">>, policy |-> None],
     dispatching |-> [intent |-> "volume", before |-> None, target |-> Some(-71),
                      precondition_fields |-> <<"volume">>],
     finished |-> [status |-> "completed", dispatch |-> "complete_write",
                   confirmed |-> TRUE, reason |-> None],
     policy_loaded |-> [digest |-> "digest"], policy_load_failed |-> [error |-> "e"],
     access_refused |-> [endpoint |-> "agent", reason |-> "no_credential", peer_uid |-> None,
                         resource |-> None, suppressed |-> 2],
     token_issued |-> [id |-> "t", label |-> "claude"],
     token_revoked |-> [id |-> "t", label |-> "claude"]]
Entry(kind) ==
    [seq |-> 1, at |-> 5, operation |-> Some(7),
     principal |-> IF kind = "decided" THEN Some("claude")
                   ELSE IF kind = "finished" THEN Some("operator") ELSE None,
     receiver |-> Some(Den), event |-> [kind |-> kind, content |-> Contents[kind]]]

Token(revoked) == [id |-> "t", label |-> "claude", created |-> 5, revoked |-> revoked]
Found == [address |-> [host |-> "h", port |-> 23], location |-> Some("l"), server |-> None,
          model |-> Some("m"), search_target |-> None, unique_service_name |-> None]
Summary(id) ==
    [id |-> id, model |-> None, connection |-> "released",
     capabilities |-> [writable |-> TRUE, zone2_power |-> TRUE, source_catalog_read |-> TRUE,
                       inputs |-> <<"CD">>, surround_modes |-> <<"STEREO">>]]
Config == [current |-> Some("den"), receivers |-> [den |-> [host |-> "h"]],
           favorites |-> [den |-> {"STEREO", "AURO3D"}]]

MCOkValues(port) ==
    CASE port = "receivers" -> {<<>>, <<Summary(Den), Summary(<<"a", "/", "b">>)>>}
      [] port = "source_catalog" -> {Catalog(at, e) : at \in Times, e \in {None, Some("e")}}
      [] port = "health" ->
             {[policy |-> "active", audit |-> "failing", ledger_ready |-> TRUE,
               approval |-> "unavailable", contract |-> v] : v \in {CONTRACT_VERSION, 2}}
      [] port = "operation" -> FewOperations
      [] port = "submit" -> FewOperations
      [] port = "cancel" -> MCOperations
      [] port \in {"dry_run", "dry_run_as"} -> DryRuns
      [] port = "discover" -> {<<>>, <<Found>>}
      [] port = "register_ad_hoc" -> {<<"adhoc:", "host">>}
      [] port = "configuration" -> {Config}
      [] port = "save_configuration" -> {"saved"}
      [] port = "quick_select_names" -> {Names(at) : at \in Times}
      [] port = "http_information" ->
             {Information(at, slots) : at \in Times, slots \in {Missing, ChannelSlots}}
      [] port = "refresh" -> {[ready |-> TRUE, degraded |-> FALSE, detail |-> "d"]}
      [] port \in {"policy", "reload_policy"} ->
             {[digest |-> d, loaded_at |-> None, text |-> None, error |-> Some("e")]
                  : d \in {None, Some("digest")}}
      [] port = "audit" -> {[entries |-> <<Entry(k)>>, next |-> Some(1)] : k \in AuditEventKinds}
      [] port = "issue_token" -> {[record |-> Token(None), secret |-> "s"]}
      [] port = "tokens" -> {<<Token(None), Token(Some(6))>>}
      [] port = "revoke_token" -> {Token(Some(6))}
      [] OTHER -> {"stream"}

MCFaults ==
    {NotFound(w) : w \in NOT_FOUND_WORDS}
        \cup {Fault(k) : k \in {"forbidden", "invalid_request", "unavailable"}}
        \cup {[kind |-> "rate_limited", retry_after |-> r] : r \in {None, Some(0), Some(3), Some(4)}}
        \cup {[kind |-> "receiver", error |-> k] : k \in KindNames}
        \cup {[kind |-> "too_late", operation |-> o] : o \in FewOperations}
=============================================================================
