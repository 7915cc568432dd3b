------------------------------- MODULE Window -------------------------------
(***************************************************************************)
(* The desktop window and the bridge between it and the control service    *)
(* (crates/gui-lib).                                                       *)
(*                                                                         *)
(* The window is a reducer: each message changes its state and leaves      *)
(* commands for the bridge.  The bridge is one loop that owns the          *)
(* subscription to the selected receiver; controls, refreshes and reads    *)
(* run as tasks that hand their result to the loop.  The service is seen   *)
(* through its port: a receiver has at most one open session, which        *)
(* publishes a state, loses and regains its connection, and can be closed  *)
(* under its subscribers.                                                  *)
(*                                                                         *)
(* Options are sets of at most one element.  Only the request ids of       *)
(* selections and controls are kept: nothing compares those of reads.      *)
(***************************************************************************)
EXTENDS Naturals, Sequences, FiniteSets

CONSTANTS
    Receivers,
    Controls,     \* the controls the user touches
    Capabilities, \* what the model of the receivers can be read for
    EventCap,     \* room in the channel to the window
    MaxRequests, MaxEpoch, MaxSessions, MaxTurns

ASSUME WindowAssumption ==
    /\ Controls \subseteq {"Volume", "SoundMode", "Power", "Input", "Mute"}
    /\ Capabilities \subseteq {"source_catalog_read", "quick_select_names"}
    /\ EventCap >= 2
    /\ {MaxRequests, MaxEpoch, MaxSessions, MaxTurns} \subseteq Nat

VARIABLES
    win,         \* the window
    commands,    \* the channel to the bridge
    selected, active, forwarded,   \* the bridge
    tasks,       \* spawned by the bridge and running
    events,      \* the channel to the window
    svc,         \* each receiver's session
    sessions,    \* sessions opened so far
    turns,       \* disturbances so far: losses, ends, knobs, ticks, closing
    reported     \* history: controls the window was told completed

vars == <<win, commands, selected, active, forwarded, tasks, events,
          svc, sessions, turns, reported>>
bridge == <<selected, active, forwarded>>
service == <<svc, sessions, turns>>

None == {}
Some(x) == {x}
The(option) == CHOOSE x \in option : TRUE

(***************************************************************************)
(* The service.  A published state names its session, which the program    *)
(* does not: the properties compare it, and the window's `connection` and  *)
(* a read's `from` repeat it.  `shows` holds the controls whose            *)
(* effect the state includes.                                              *)
(***************************************************************************)
Fields == {"power", "volume", "mode", "input", "mute"}
Other(v) ==
    CASE v = "On" -> "Standby" [] v = "Standby" -> "On" [] v = "low" -> "high"
      [] v = "high" -> "low" [] v = "stereo" -> "movie" [] v = "movie" -> "stereo"
      [] v = "cd" -> "game" [] v = "game" -> "cd" [] v = "muted" -> "audible"
      [] v = "audible" -> "muted"

FieldOf(control) ==
    CASE control = "Volume" -> "volume" [] control = "SoundMode" -> "mode"
      [] control = "Power" -> "power" [] control = "Input" -> "input"
      [] control = "Mute" -> "mute"

Usual == [power |-> "On", volume |-> "low", mode |-> "stereo", input |-> "cd",
          mute |-> "audible"]

NewSession(session) ==
    [open |-> TRUE, last |-> 1,
     state |-> [session |-> session, epoch |-> 1, current |-> TRUE,
                values |-> Usual, shows |-> {}]]

NoSession == [open |-> FALSE, last |-> 0,
              state |-> [session |-> 0, epoch |-> 0, current |-> FALSE,
                         values |-> Usual, shows |-> {}]]

Publish(r, state) ==
    svc' = [svc EXCEPT ![r].state = state,
                       ![r].last = IF state.epoch = 0 THEN @ ELSE state.epoch]

usable(state, field) == IF state.current THEN Some(state.values[field]) ELSE None

\* Things that just happen, a bounded number of them.
Disturb == turns < MaxTurns /\ turns' = turns + 1

Others(r) == UNCHANGED <<win, commands, bridge, tasks, events, sessions, reported>>

\* mark_disconnected: the epoch goes, the fields are stale.
LoseConnection(r) ==
    /\ svc[r].open /\ svc[r].state.epoch # 0
    /\ Publish(r, [svc[r].state EXCEPT !.epoch = 0, !.current = FALSE])
    /\ Disturb /\ Others(r)

Reconnect(r) ==
    /\ svc[r].open /\ svc[r].state.epoch = 0 /\ svc[r].last < MaxEpoch
    /\ Publish(r, [svc[r].state EXCEPT !.epoch = svc[r].last + 1])
    /\ UNCHANGED turns /\ Others(r)

\* The session reads every field by itself.
ReadAgain(r) ==
    /\ svc[r].open /\ svc[r].state.epoch # 0 /\ ~svc[r].state.current
    /\ Publish(r, [svc[r].state EXCEPT !.current = TRUE])
    /\ UNCHANGED turns /\ Others(r)

\* Somebody turns a knob, and the session sees it.
TurnKnob(r) ==
    /\ svc[r].open /\ svc[r].state.current
    /\ \E c \in Controls :
         Publish(r, [svc[r].state EXCEPT !.values[FieldOf(c)] = Other(@)])
    /\ Disturb /\ Others(r)

\* The service closes the session: its entry changed, or nothing holds it. A
\* subscription keeps the last state.
EndSession(r) ==
    /\ svc[r].open
    /\ svc' = [svc EXCEPT ![r].open = FALSE]
    /\ active' = {IF a.session = svc[r].state.session THEN [a EXCEPT !.last = Some(svc[r].state)]
                  ELSE a : a \in active}
    /\ Disturb
    /\ UNCHANGED <<win, commands, selected, forwarded, tasks, events, sessions, reported>>

\* What a call finds that needs the receiver's session: the open one, or a new
\* one, which is connected and synchronized before it is handed out.
Opened(r) ==
    IF svc[r].open THEN {svc[r]}
    ELSE IF sessions < MaxSessions THEN {NewSession(sessions + 1)} ELSE {}

TakeSession(r, entry) ==
    sessions' = IF svc[r].open THEN sessions ELSE sessions + 1

(***************************************************************************)
(* The window.  `out` collects the commands a message leaves.              *)
(***************************************************************************)
NotQueried == [f \in Fields |-> None]
Forgotten(freshness, generation) ==
    [freshness |-> freshness, generation |-> generation, from |-> None]

\* No state seen since the selection.
Unconnected == [session |-> 0, epoch |-> 0]

new ==
    [selection |-> None, lifecycle |-> "NoReceiver", generation |-> 0, subscription |-> 0,
     state |-> None, snapshot |-> NotQueried, requests |-> 0,
     connection |-> Unconnected,
     information |-> Forgotten("Unknown", 0), catalog |-> Forgotten("Unknown", 0),
     names |-> Forgotten("Unknown", 0),
     http_read_in_flight |-> FALSE, http_read_again |-> FALSE,
     catalog_read_in_flight |-> FALSE, names_read_in_flight |-> FALSE,
     catalog_auto_generation |-> None,
     volume |-> None, sound_mode |-> None,
     launch_ready |-> FALSE, loaded |-> FALSE, closing |-> FALSE, closed |-> FALSE,
     out |-> <<>>]

Leave(w, command) == [w EXCEPT !.out = Append(@, command)]

project(state) == [f \in Fields |-> usable(state, f)]

reset_pending_controls(w) == [w EXCEPT !.volume = None, !.sound_mode = None]

invalidate_supplemental(w) ==
    [w EXCEPT !.names = Forgotten("Invalidated", w.generation),
              !.catalog = Forgotten("Invalidated", w.generation),
              !.information = Forgotten("Invalidated", w.generation)]

\* Mutated form: the generation stays.
connection_lost_SameGeneration(w) ==
    reset_pending_controls(invalidate_supplemental(
        [w EXCEPT !.lifecycle = "Reconnecting", !.snapshot = NotQueried]))

connection_lost(w) ==
    reset_pending_controls(invalidate_supplemental(
        [w EXCEPT !.generation = @ + 1, !.lifecycle = "Reconnecting",
                  !.snapshot = NotQueried]))

Read(kind, w) == [kind |-> kind, generation |-> w.generation, from |-> w.connection]

\* One read at a time; a request during one runs once more after it.
request_http_information(w) ==
    IF w.selection = None THEN w
    ELSE IF w.snapshot.power # Some("On")
    THEN [w EXCEPT !.information = Forgotten("Invalidated", w.generation)]
    ELSE IF w.http_read_in_flight THEN [w EXCEPT !.http_read_again = TRUE]
    ELSE Leave([w EXCEPT !.http_read_in_flight = TRUE], Read("ReadHttpInformation", w))

request_source_catalog(w) ==
    IF \/ w.selection = None \/ w.catalog_read_in_flight
       \/ "source_catalog_read" \notin Capabilities
    THEN w
    ELSE Leave([w EXCEPT !.catalog_read_in_flight = TRUE], Read("ReadSourceCatalog", w))

request_quick_select_names(w) ==
    IF \/ w.selection = None \/ w.names_read_in_flight
       \/ "quick_select_names" \notin Capabilities
    THEN w
    ELSE Leave([w EXCEPT !.names_read_in_flight = TRUE], Read("ReadQuickSelectNames", w))

\* The connection as the newest state tells it. The channel coalesces: a lost
\* connection and the next one can arrive as one step to a higher epoch.
FollowEpoch(w, epoch) ==
    LET was_connected == w.lifecycle = "Connected"
        was_reconnecting == w.lifecycle = "Reconnecting"
        reconnected == was_reconnecting \/ (was_connected /\ w.generation # 0 /\ epoch > w.generation)
        lost == IF reconnected /\ was_connected THEN connection_lost(w) ELSE w
    IN IF epoch = 0 THEN IF was_reconnecting THEN w ELSE connection_lost(w)
       ELSE IF ~was_connected \/ reconnected
       THEN request_quick_select_names([lost EXCEPT !.generation = epoch, !.lifecycle = "Connected"])
       ELSE lost

complete_launch_if_ready(w) ==
    [w EXCEPT !.launch_ready = @ \/ (w.selection # None /\ w.lifecycle = "Connected")]

Unread(cache) == cache.freshness \in {"Unknown", "Invalidated"}

\* Once per connection.
ReadCatalogOnce(w) ==
    IF /\ w.launch_ready /\ "source_catalog_read" \in Capabilities /\ Unread(w.catalog) /\ w.snapshot.power # None
       /\ w.catalog_auto_generation # Some(w.generation)
    THEN request_source_catalog([w EXCEPT !.catalog_auto_generation = Some(w.generation)])
    ELSE w

apply_state(w, state) ==
    LET followed == FollowEpoch([w EXCEPT !.connection = [session |-> state.session, epoch |-> state.epoch]],
                                state.epoch)
        previous == followed.snapshot
        shown == project(state)
        taken == complete_launch_if_ready(
                   [followed EXCEPT
                      !.snapshot = shown, !.state = Some(state),
                      !.information = IF shown.power = Some("Standby")
                                      THEN Forgotten("Invalidated", 0) ELSE @])
        changed(f) == shown[f] # None /\ shown[f] # previous[f]
        read == IF (changed("power") /\ shown.power = Some("On")) \/ changed("mode") \/ changed("input")
                THEN request_http_information(taken) ELSE taken
    IN ReadCatalogOnce(read)

\* merge_refresh and apply_names: a failed read keeps what this connection
\* already showed.
Merge(cache, generation, event) ==
    IF event.ok THEN [freshness |-> "Live", generation |-> generation, from |-> Some(event.from)]
    ELSE [cache EXCEPT !.generation = generation,
                       !.freshness = IF cache.from # None THEN "Partial" ELSE "Unknown"]

MergeCatalog(cache, generation, event) ==
    IF event.ok \/ cache.generation = generation
    THEN [Merge(cache, generation, event) EXCEPT !.freshness = IF event.ok THEN @ ELSE "Partial"]
    ELSE Forgotten("Unknown", generation)

MergeNames(cache, generation, event) == IF event.ok THEN Merge(cache, generation, event) ELSE cache

Fits(w, event) == event.generation = w.generation

on_catalog(w, event) ==
    LET landed == [w EXCEPT !.catalog_read_in_flight = FALSE]
    IN IF Fits(w, event)
       THEN [landed EXCEPT !.catalog = MergeCatalog(@, event.generation, event)] ELSE landed

on_names(w, event) ==
    LET landed == [w EXCEPT !.names_read_in_flight = FALSE]
    IN IF Fits(w, event)
       THEN [landed EXCEPT !.names = MergeNames(@, event.generation, event)] ELSE landed

on_http_information(w, event) ==
    LET landed == [w EXCEPT !.http_read_in_flight = FALSE, !.http_read_again = FALSE]
        merged == IF Fits(w, event)
                  THEN [landed EXCEPT !.information = Merge(@, event.generation, event)] ELSE landed
    IN IF w.http_read_again THEN request_http_information(merged) ELSE merged

connect_failed(w) ==
    reset_pending_controls(invalidate_supplemental(
        [w EXCEPT !.lifecycle = "Disconnected", !.state = None, !.snapshot = NotQueried,
                  !.launch_ready = TRUE]))

intent_may_have_changed(intent) ==
    \/ intent.control \in {"SoundMode", "Input"}
    \/ intent.control = "Power" /\ intent.value = "On"

on_control(w, event) ==
    LET ended == [w EXCEPT !.volume = @ \ {event.id}, !.sound_mode = @ \ {event.id}]
    IN IF event.report = "Completed" /\ intent_may_have_changed(event.intent)
       THEN request_http_information(ended) ELSE ended

\* What a receiver the user has left reports is not news, nor what a closing
\* connection does.
on_bridge(w, event) ==
    IF event.subscription # w.subscription \/ w.closing THEN w
    ELSE CASE event.kind = "State" -> apply_state(w, event.state)
           [] event.kind = "SessionEnded" -> connection_lost(w)
           [] event.kind = "ConnectFailed" -> connect_failed(w)
           [] event.kind = "Refreshed" -> w
           [] event.kind = "Control" -> on_control(w, event)
           [] event.kind = "ReadSourceCatalog" -> on_catalog(w, event)
           [] event.kind = "ReadQuickSelectNames" -> on_names(w, event)
           [] event.kind = "ReadHttpInformation" -> on_http_information(w, event)
           [] event.kind = "Failed" -> reset_pending_controls(w)

\* The window takes a message: its new state, its commands in the channel.
Update(w) ==
    /\ win' = [w EXCEPT !.out = <<>>]
    /\ commands' = commands \o w.out

UserStep == UNCHANGED <<bridge, tasks, events, service, reported>>
Timely == Disturb /\ UNCHANGED <<bridge, tasks, events, svc, sessions, reported>>

TakeEvent ==
    /\ events # <<>>
    /\ Update(on_bridge(win, Head(events)))
    /\ events' = Tail(events)
    /\ reported' = reported \cup
         {[id |-> e.id, in |-> e.in, subscription |-> e.subscription] :
            e \in {x \in {Head(events)} : /\ x.kind = "Control" /\ x.report = "Completed"
                                           /\ x.subscription = win.subscription /\ ~win.closing}}
    /\ UNCHANGED <<bridge, tasks, service>>

\* The launch screen has no controls.
MayAsk == win.loaded /\ win.requests < MaxRequests
next_request(w) == [w EXCEPT !.requests = @ + 1]

connect_to(w, r) ==
    LET id == w.requests + 1
    IN Leave([next_request(w) EXCEPT
                !.subscription = id, !.state = None, !.generation = 0, !.lifecycle = "Selected",
                !.connection = Unconnected,
                !.http_read_in_flight = FALSE, !.http_read_again = FALSE,
                !.catalog_read_in_flight = FALSE, !.names_read_in_flight = FALSE,
                !.catalog_auto_generation = None],
             [kind |-> "Select", id |-> id, receiver |-> r])

\* The saved receiver, if there is one; or the file could not be read.
ConfigLoaded ==
    /\ ~win.loaded
    /\ \/ \E r \in Receivers :
            Update(connect_to([win EXCEPT !.loaded = TRUE, !.selection = Some(r)], r))
       \/ Update([win EXCEPT !.loaded = TRUE, !.launch_ready = TRUE])
    /\ UserStep

Select ==
    /\ MayAsk
    /\ \E r \in Receivers :
         Update(connect_to(reset_pending_controls(invalidate_supplemental(
                  [win EXCEPT !.selection = Some(r), !.snapshot = NotQueried])), r))
    /\ UserStep

Refresh ==
    /\ MayAsk
    /\ Update(Leave([next_request(win) EXCEPT
                       !.lifecycle = IF @ = "Disconnected" THEN "Connecting" ELSE @],
                    [kind |-> "Refresh", id |-> win.requests + 1]))
    /\ UserStep

HttpTick ==
    /\ win.state # None /\ win.lifecycle = "Connected"
    /\ Update(request_http_information(win))
    /\ Timely

OpenSourcePicker ==
    /\ "source_catalog_read" \in Capabilities /\ Unread(win.catalog)
    /\ Update(request_source_catalog(win))
    /\ Timely

RefreshSourceCatalog ==
    /\ Update(request_source_catalog(win))
    /\ Timely

\* Power states an absolute target, so it carries no guard.
guard_for(w, c) ==
    IF c = "Power" THEN None
    ELSE {usable(state, FieldOf(c)) : state \in w.state}

submit(w, id, c, value) ==
    Leave(w, [kind |-> "Control", id |-> id, guard |-> guard_for(w, c),
              intent |-> [control |-> c, value |-> value]])

submit_volume(w, value) ==
    submit([next_request(w) EXCEPT !.volume = Some(w.requests + 1)], w.requests + 1,
           "Volume", value)

control_sound_mode(w, value) ==
    submit([next_request(w) EXCEPT !.sound_mode = Some(w.requests + 1)], w.requests + 1,
           "SoundMode", value)

volume_is_interactive(w) ==
    w.selection # None /\ w.snapshot.volume # None /\ w.volume = None

AdjustVolume ==
    /\ "Volume" \in Controls /\ MayAsk
    /\ win.selection # None /\ win.volume = None
    /\ Update(submit_volume(win, "high"))
    /\ UserStep

CommitVolume ==
    /\ "Volume" \in Controls /\ MayAsk
    /\ volume_is_interactive(win)
    /\ Update(submit_volume(win, "high"))
    /\ UserStep

SelectSoundMode ==
    /\ "SoundMode" \in Controls /\ MayAsk
    /\ win.sound_mode = None
    /\ Update(control_sound_mode(win, "movie"))
    /\ UserStep

SoundModeControlTimedOut ==
    /\ win.sound_mode # None
    /\ Update([win EXCEPT !.sound_mode = None])
    /\ UserStep

\* An input or the mute: nothing waits for its end.
control ==
    /\ MayAsk
    /\ \E c \in Controls \cap {"Input", "Mute"} :
         Update(submit(next_request(win), win.requests + 1, c, Other(Usual[FieldOf(c)])))
    /\ UserStep

toggle_main_zone_power ==
    /\ "Power" \in Controls /\ MayAsk
    /\ \E shown \in win.snapshot.power :
         Update(submit(next_request(win), win.requests + 1, "Power", Other(shown)))
    /\ UserStep

\* The first request closes the connection first, a second one does not wait.
CloseRequested ==
    \/ win.closing /\ Update([win EXCEPT !.closed = TRUE]) /\ UserStep
    \/ ~win.closing /\ Update([win EXCEPT !.closing = TRUE]) /\ Timely

ShutdownFinished ==
    /\ win.closing
    /\ Update([win EXCEPT !.closed = TRUE])
    /\ UserStep

(***************************************************************************)
(* The bridge.                                                             *)
(***************************************************************************)
\* The epoch and the revision, which moves with every change of the rest.
stamp(state) ==
    [epoch |-> state.epoch, current |-> state.current, values |-> state.values,
     shows |-> state.shows]

\* borrow: the newest state of the session subscribed to, the last of one that
\* ended.
latest ==
    LET a == The(active)
    IN IF a.last # None THEN The(a.last) ELSE svc[The(selected).receiver].state

Event(kind, subscription) == [kind |-> kind, subscription |-> subscription]
StateEvent(chosen, state) ==
    [kind |-> "State", subscription |-> chosen.subscription, state |-> state]

Room(n) == Len(events) + n <= EventCap

\* Connects and synchronizes first; `before` is what was sent ahead of it.
subscribe(chosen, before) ==
    \/ /\ events' = events \o before \o <<Event("ConnectFailed", chosen.subscription)>>
       /\ active' = None /\ forwarded' = None
       /\ UNCHANGED <<svc, sessions>>
    \/ \E entry \in Opened(chosen.receiver) :
         /\ svc' = [svc EXCEPT ![chosen.receiver] = entry]
         /\ TakeSession(chosen.receiver, entry)
         /\ events' = events \o before \o <<StateEvent(chosen, entry.state)>>
         /\ active' = Some([session |-> entry.state.session, last |-> None])
         /\ forwarded' = Some(stamp(entry.state))

BridgeStep == UNCHANGED <<win, turns, reported>>

Spawn(task) == tasks' = tasks \cup {task}

Handle_Select(command) ==
    LET chosen == [receiver |-> command.receiver, subscription |-> command.id]
    IN /\ selected' = Some(chosen)
       /\ subscribe(chosen, <<>>)
       /\ UNCHANGED tasks

NoReceiver ==
    /\ selected = None
    /\ events' = Append(events, Event("Failed", 0))
    /\ UNCHANGED <<bridge, tasks, svc, sessions>>

\* The connection failed or ended: retrying is connecting again.
Handle_Refresh(command) ==
    \/ NoReceiver
    \/ \E chosen \in selected :
         IF active = None
         THEN subscribe(chosen, <<>>) /\ UNCHANGED <<selected, tasks>>
         ELSE /\ Spawn([kind |-> "Refresh", subscription |-> chosen.subscription])
              /\ UNCHANGED <<bridge, events, svc, sessions>>

\* Mutated form: a refused control is not answered.
Conflict_Silent(chosen, command) == UNCHANGED events

Conflict(chosen, command) ==
    events' = Append(events, [kind |-> "Control", subscription |-> chosen.subscription,
                              id |-> command.id, report |-> "Conflict", in |-> 0,
                              intent |-> command.intent])

Refused(command) ==
    /\ active # None
    /\ \E baseline \in command.guard : baseline # usable(latest, FieldOf(command.intent.control))

Handle_Control(command) ==
    \/ NoReceiver
    \/ \E chosen \in selected :
         /\ IF Refused(command)
            THEN Conflict(chosen, command) /\ UNCHANGED tasks
            ELSE /\ Spawn([kind |-> "Control", subscription |-> chosen.subscription,
                           receiver |-> chosen.receiver, id |-> command.id,
                           intent |-> command.intent, report |-> "running", in |-> 0])
                 /\ UNCHANGED events
         /\ UNCHANGED <<bridge, svc, sessions>>

spawn_read(command) ==
    /\ \E chosen \in selected :
         Spawn([kind |-> command.kind, subscription |-> chosen.subscription,
                generation |-> command.generation, from |-> command.from])
    /\ UNCHANGED <<bridge, events, svc, sessions>>

TakeCommand ==
    /\ commands # <<>> /\ Room(1)
    /\ LET command == Head(commands)
       IN CASE command.kind = "Select" -> Handle_Select(command)
            [] command.kind = "Refresh" -> Handle_Refresh(command)
            [] command.kind = "Control" -> Handle_Control(command)
            [] OTHER -> spawn_read(command)
    /\ commands' = Tail(commands)
    /\ BridgeStep

\* A newer state; the same one is never sent twice.
TakeState ==
    /\ active # None /\ Room(1)
    /\ The(active).last = None
    /\ forwarded # Some(stamp(latest))
    /\ events' = Append(events, StateEvent(The(selected), latest))
    /\ forwarded' = Some(stamp(latest))
    /\ UNCHANGED <<commands, selected, active, tasks, svc, sessions>>
    /\ BridgeStep

\* The session closed under the subscription: subscribe again.
TakeEnd ==
    /\ active # None /\ Room(2)
    /\ The(active).last # None
    /\ LET chosen == The(selected)
       IN subscribe(chosen, <<Event("SessionEnded", chosen.subscription)>>)
    /\ UNCHANGED <<commands, selected, tasks>>
    /\ BridgeStep

\* Mutated form: a report is sent as it comes.
StateFirst_Never == <<>>

\* Whatever the task did is in the state by now: the state goes first.
StateFirst ==
    IF active # None /\ forwarded # Some(stamp(latest))
    THEN <<StateEvent(The(selected), latest)>> ELSE <<>>

\* Step::Done. A task that has not finished and one whose result waits in the
\* channel are not told apart.
TakeDone(task, event) ==
    /\ Room(2)
    /\ tasks' = tasks \ {task}
    /\ events' = events \o StateFirst \o <<event>>
    /\ forwarded' = IF StateFirst # <<>> THEN Some(stamp(latest)) ELSE forwarded
    /\ UNCHANGED <<commands, selected, active, svc, sessions>>
    /\ BridgeStep

(***************************************************************************)
(* The tasks.                                                              *)
(***************************************************************************)
RefreshEnds(task) ==
    /\ task.kind = "Refresh"
    /\ \E kind \in {"Refreshed", "Failed"} :
         TakeDone(task, Event(kind, task.subscription))

ReadEnds(task) ==
    /\ task.kind \notin {"Refresh", "Control"}
    /\ \E ok \in BOOLEAN :
         TakeDone(task, [kind |-> task.kind, subscription |-> task.subscription,
                         generation |-> task.generation, ok |-> ok, from |-> task.from])

\* The operation is confirmed: its effect is in the state it is matched with.
ControlTakesEffect(task) ==
    /\ task.kind = "Control" /\ task.report = "running"
    /\ \E entry \in Opened(task.receiver) :
         /\ entry.state.epoch # 0
         /\ svc' = [svc EXCEPT ![task.receiver] =
                      [entry EXCEPT
                         !.state.current = TRUE,
                         !.state.values[FieldOf(task.intent.control)] = task.intent.value,
                         !.state.shows = @ \cup {task.id}]]
         /\ TakeSession(task.receiver, entry)
         /\ tasks' = (tasks \ {task}) \cup
              {[task EXCEPT !.report = "Completed", !.in = entry.state.session]}
    /\ UNCHANGED <<win, commands, bridge, events, turns, reported>>

\* run_control: what the service resolved, another end, or two waits went by.
ControlEnds(task) ==
    /\ task.kind = "Control"
    /\ TakeDone(task, [task EXCEPT !.report = IF @ = "running" THEN "OtherEnd" ELSE @])

(***************************************************************************)
(* The specification.                                                      *)
(***************************************************************************)
Init ==
    /\ win = new /\ commands = <<>>
    /\ selected = None /\ active = None /\ forwarded = None
    /\ tasks = {} /\ events = <<>>
    /\ svc = [r \in Receivers |-> NoSession] /\ sessions = 0 /\ turns = 0
    /\ reported = {}

Running ==
    \/ TakeEvent \/ ConfigLoaded \/ Select \/ Refresh \/ HttpTick
    \/ OpenSourcePicker \/ RefreshSourceCatalog
    \/ AdjustVolume \/ CommitVolume \/ SelectSoundMode \/ SoundModeControlTimedOut
    \/ control \/ toggle_main_zone_power
    \/ TakeCommand \/ TakeState \/ TakeEnd
    \/ \E task \in tasks : \/ RefreshEnds(task) \/ ReadEnds(task)
                           \/ ControlTakesEffect(task) \/ ControlEnds(task)
    \/ \E r \in Receivers : \/ LoseConnection(r) \/ Reconnect(r) \/ ReadAgain(r)
                            \/ TurnKnob(r) \/ EndSession(r)

\* A closing window drops what it is told, so nothing else is followed then; the
\* process ends with its window.
Next ==
    /\ ~win.closed
    /\ \/ CloseRequested \/ ShutdownFinished
       \/ ~win.closing /\ Running

Spec == Init /\ [][Next]_vars

(***************************************************************************)
(* Properties.                                                             *)
(***************************************************************************)
\* bridge.rs, the loop: a window that was told a control completed shows a state
\* that includes it, whatever the order in which the state and the task's
\* result reached the loop, as long as it still shows the session that did it.
ReportAfterState ==
    \A e \in reported : \A state \in win.state :
        state.session = e.in /\ e.subscription = win.subscription => e.id \in state.shows

\* session.rs, on_bridge: what was asked for over HTTP in one connection is not
\* shown in a later one of the same session, however late it arrives and however
\* many states the channel dropped in between.
ReadsOfThisConnection ==
    \A cache \in {win.information, win.names, win.catalog} :
        \A from \in cache.from :
           from.session = win.connection.session => from.epoch \in {0, win.connection.epoch}

\* controls.rs and supplemental.rs: while the window waits for a volume command
\* or for a read, and refuses to send another, its command, its task or its
\* result is still on its way to the window under the selection it shows: no
\* refusal, reselection, lost connection or ended session leaves a control
\* locked or a read never asked for again.
WaitsAreAnswered ==
    LET Coming(kind, id) ==
          \/ \E i \in 1 .. Len(commands) :
               /\ commands[i].kind = kind /\ (id # None => commands[i].id \in id)
               /\ \A j \in i .. Len(commands) : commands[j].kind # "Select"
          \/ \E m \in tasks \cup {events[i] : i \in 1 .. Len(events)} :
               /\ m.kind = kind /\ (id # None => m.id \in id)
               /\ m.subscription = win.subscription
    IN win.closing
       \/ /\ win.volume # None => Coming("Control", win.volume)
          /\ win.http_read_in_flight => Coming("ReadHttpInformation", None)
          /\ win.catalog_read_in_flight => Coming("ReadSourceCatalog", None)
          /\ win.names_read_in_flight => Coming("ReadQuickSelectNames", None)

=============================================================================
