--------------------------- MODULE ReceiverSession ---------------------------
(***************************************************************************)
(* One receiver session: the transport task that owns the socket           *)
(* (avr_session.rs, run_session), the actor that owns the state            *)
(* (x3800h_session/actor.rs, operate.rs, reduce.rs) and the handle clients *)
(* call (x3800h_session.rs), with the receiver and the network they face.  *)
(*                                                                         *)
(* The two tasks share two channels, one of requests and one of events,    *)
(* and the connection generation. The actor awaits the answer to every     *)
(* request it makes, so the request channel never holds more than one.     *)
(*                                                                         *)
(* The state is abstracted to one field: synchronize, a targeted query and *)
(* the debt's reconciliation all read it. Time is abstracted: a timer may  *)
(* fire whenever it is armed.                                              *)
(***************************************************************************)
EXTENDS Integers, Sequences

CONSTANTS
  Ops,           \* operations submitted to the session
  Judged,        \* the operations with a precondition (an agent's)
  Values,        \* the values of the field
  Target,        \* the value each operation asks for
  Initially,     \* the receiver's value at first
  None,          \* no value
  EventCap,      \* capacity of the event channel (32)
  CommandCap,    \* capacity of the command channel (32)
  MaxGen,        \* bound of the model: reconnects
  MaxKnobs,      \* bound of the model: changes made at the receiver
  MaxFails,      \* bound of the model: failed attempts to reconnect
  MaxRechecks    \* rechecks that fit in the confirmation window

ASSUME SessionAssumption ==
  /\ Judged \subseteq Ops /\ "close" \notin Ops
  /\ Target \in [Ops -> Values] /\ Initially \in Values /\ None \notin Values
  /\ EventCap \in Nat \ {0} /\ CommandCap \in Nat \ {0}
  /\ MaxGen \in Nat /\ MaxKnobs \in Nat /\ MaxFails \in Nat
  /\ MaxRechecks \in Nat

VARIABLES
  \* the transport task
  tpc,          \* where run_session is
  treq,         \* the request it is serving
  generation,   \* connections made after the first
  \* the channels between the tasks
  req,          \* the request not yet taken
  answer,       \* its answer, sent but not yet received
  events,       \* the event channel
  \* the actor
  apc, why,     \* where it is, and what for
  aop,          \* the operation it runs, or ran when it was aborted
  rechecks,     \* rechecks of the confirmation window
  feed_epoch,   \* Feed::epoch
  epoch,        \* the published state's epoch, 0 for None
  field,        \* the published field
  \* the handle and its clients
  commands,     \* the command channel
  calls,        \* what became of each call of operate
  gone,         \* calls whose caller went away
  pre,          \* the precondition each operation carries
  closing,      \* where close is: "no", "called", "sent", "done"
  \* the network and the receiver
  up,           \* the socket works
  inbound,      \* commands written that the receiver has not handled
  wire,         \* lines the receiver sent that were not read
  value,        \* the receiver's value, None when it reports no usable one
  knobs, fails, \* the environment's steps so far
  \* history
  sends         \* the connections each operation's command was written on

transportVars == <<tpc, treq, generation>>
channelVars == <<req, answer, events>>
stateVars == <<feed_epoch, epoch, field>>
actorVars == <<apc, why, aop, rechecks>>
clientVars == <<commands, calls, gone, pre, closing>>
netVars == <<up, inbound, wire, value, knobs, fails>>
vars == <<transportVars, channelVars, stateVars, actorVars, clientVars, netVars,
          sends>>

Query == [kind |-> "query", op |-> None]
Dispatch(o) == [kind |-> "dispatch", op |-> o]
NoReq == [kind |-> "none", op |-> None]

NoAnswer == [kind |-> "none", value |-> None, gen |-> 0, reply |-> TRUE]
Failed == [kind |-> "error", value |-> None, gen |-> 0, reply |-> TRUE]
Written == [kind |-> "written", value |-> None, gen |-> 0, reply |-> TRUE]

\* A line, with the connection it came on and whether it replies to a query.
Line(v, g, r) == [value |-> v, gen |-> g, reply |-> r]

NoPre == [epoch |-> 0, baseline |-> None, reads |-> FALSE]

Init ==
  /\ tpc = "connected" /\ treq = NoReq /\ generation = 0
  /\ req = NoReq /\ answer = NoAnswer /\ events = <<>>
  /\ apc = "ask" /\ why = "sync" /\ aop = None /\ rechecks = 0
  /\ feed_epoch = 1 /\ epoch = 1
  /\ field = [validity |-> "unknown", value |-> None, epoch |-> 0, gen |-> 0]
  /\ commands = <<>> /\ calls = [o \in Ops |-> "idle"] /\ gone = {}
  /\ pre = [o \in Ops |-> NoPre] /\ closing = "no"
  /\ up = TRUE /\ inbound = <<>> /\ wire = <<>> /\ value = Initially
  /\ knobs = 0 /\ fails = 0
  /\ sends = [o \in Ops |-> <<>>]

-----------------------------------------------------------------------------
(* The transport.                                                          *)

HasRoom == Len(events) < EventCap

\* publish_event of a lifecycle event: lossless, so it waits for room.
PublishLifecycle(event) ==
  /\ HasRoom
  /\ events' = Append(events, event)

\* publish_event of a line: dropped when there is no room.
PublishLine(line) ==
  events' = IF HasRoom
            THEN Append(events, [kind |-> "line", value |-> line.value,
                                 gen |-> line.gen])
            ELSE events

Lifecycle(kind) == [kind |-> kind, value |-> None, gen |-> generation]

\* The task's first event.
PublishConnected ==
  /\ tpc = "connected"
  /\ PublishLifecycle(Lifecycle("connected"))
  /\ tpc' = "idle"
  /\ UNCHANGED <<treq, generation, req, answer, stateVars, actorVars,
                 clientVars, netVars, sends>>

\* next_request: a request ...
TakeRequest ==
  /\ tpc = "idle" /\ req # NoReq
  /\ treq' = req /\ req' = NoReq
  /\ tpc' = "write"
  /\ UNCHANGED <<generation, answer, events, stateVars, actorVars, clientVars,
                 netVars, sends>>

\* ... or a line, or the end of the socket.
ReadLine ==
  /\ tpc = "idle" /\ wire # <<>>
  /\ PublishLine(Head(wire))
  /\ wire' = Tail(wire)
  /\ UNCHANGED <<transportVars, req, answer, stateVars, actorVars, clientVars,
                 up, inbound, value, knobs, fails, sends>>

\* A read fails at the end of the socket, and on a frame too long or malformed,
\* behind which other lines may be lost.
ReadMayFail == up \/ wire # <<>> => generation < MaxGen

ReadFails ==
  /\ tpc = "idle" /\ ReadMayFail
  /\ tpc' = "lost"
  /\ UNCHANGED <<treq, generation, channelVars, stateVars, actorVars,
                 clientVars, netVars, sends>>

\* The requester learns that its request failed before the reconnect begins.
TellFailure == answer' = Failed

Sent(r) ==
  sends' = IF r.kind = "dispatch"
           THEN [sends EXCEPT ![r.op] = Append(@, generation)]
           ELSE sends

\* A write that completes locally. On a socket that is gone it reaches nobody.
WriteCompletes ==
  /\ tpc = "write"
  /\ Sent(treq)
  /\ inbound' = IF up THEN Append(inbound, treq) ELSE inbound
  /\ IF treq.kind = "dispatch"
     THEN tpc' = "idle" /\ answer' = Written /\ treq' = NoReq
     ELSE tpc' = "read" /\ UNCHANGED <<answer, treq>>
  /\ UNCHANGED <<generation, req, events, stateVars, actorVars, clientVars,
                 up, wire, value, knobs, fails>>

\* A write that times out or fails: it may have reached the receiver all the
\* same. The caller is told, then the connection is given up.
WriteFails ==
  /\ tpc = "write" /\ generation < MaxGen
  /\ Sent(treq)
  /\ \/ up /\ inbound' = Append(inbound, treq)
     \/ UNCHANGED inbound
  /\ TellFailure /\ treq' = NoReq /\ tpc' = "lost"
  /\ UNCHANGED <<generation, req, events, stateVars, actorVars, clientVars,
                 up, wire, value, knobs, fails>>

\* read_response: the first line of the command's family is the response.
ReadResponse ==
  /\ tpc = "read" /\ wire # <<>>
  /\ answer' = [kind |-> "line", value |-> Head(wire).value,
                gen |-> Head(wire).gen, reply |-> Head(wire).reply]
  /\ wire' = Tail(wire)
  /\ treq' = NoReq /\ tpc' = "idle"
  /\ UNCHANGED <<generation, req, events, stateVars, actorVars, clientVars,
                 up, inbound, value, knobs, fails, sends>>

\* No response in time, or a failed read.
ResponseFails ==
  /\ tpc = "read" /\ ReadMayFail
  /\ TellFailure /\ treq' = NoReq /\ tpc' = "lost"
  /\ UNCHANGED <<generation, req, events, stateVars, actorVars, clientVars,
                 netVars, sends>>

\* The connection was lost, or an attempt to replace it failed.
PublishDisconnected ==
  /\ tpc = "lost"
  /\ PublishLifecycle(Lifecycle("disconnected"))
  /\ tpc' = "reconnect"
  /\ UNCHANGED <<treq, generation, req, answer, stateVars, actorVars,
                 clientVars, netVars, sends>>

\* reconnect, indefinitely.
ConnectFails ==
  /\ tpc = "reconnect" /\ fails < MaxFails
  /\ fails' = fails + 1
  /\ tpc' = "lost"
  /\ UNCHANGED <<treq, generation, channelVars, stateVars, actorVars,
                 clientVars, up, inbound, wire, value, knobs, sends>>

ConnectSucceeds ==
  /\ tpc = "reconnect"
  /\ generation' = generation + 1
  /\ up' = TRUE /\ inbound' = <<>> /\ wire' = <<>>
  /\ tpc' = "reconnected"
  /\ UNCHANGED <<treq, channelVars, stateVars, actorVars, clientVars, value,
                 knobs, fails, sends>>

PublishReconnected ==
  /\ tpc = "reconnected"
  /\ PublishLifecycle(Lifecycle("reconnected"))
  /\ tpc' = "idle"
  /\ UNCHANGED <<treq, generation, req, answer, stateVars, actorVars,
                 clientVars, netVars, sends>>

-----------------------------------------------------------------------------
(* The published state (domain/receiver_state.rs) and the reducer. A       *)
(* state is the record of the three variables.                             *)

State == [feed |-> feed_epoch, epoch |-> epoch, field |-> field]

Install(s) == feed_epoch' = s.feed /\ epoch' = s.epoch /\ field' = s.field

\* stale_if_observed, and mark_query_failed, which does the same.
stale(f) == IF f.value # None THEN [f EXCEPT !.validity = "stale"] ELSE f

expire_if_due(f) == IF f.validity = "current" THEN stale(f) ELSE f

mark_query_failed(s) == [s EXCEPT !.field = stale(@)]

\* Mutated form: the epoch is not cleared.
mark_disconnected_EpochKept(s) == [s EXCEPT !.field = stale(@)]

\* Evidence of the old connection is kept, as stale.
mark_disconnected(s) == [s EXCEPT !.epoch = 0, !.field = stale(@)]

establish_epoch(s, e) ==
  IF s.epoch # 0 /\ e <= s.epoch THEN s ELSE [s EXCEPT !.epoch = e]

\* The state moves to the transport's connection, if it is not there already.
synchronize_generation(s) ==
  LET observed == generation + 1
  IN IF observed = s.feed THEN s
     ELSE [establish_epoch(IF s.epoch # 0 THEN mark_disconnected(s) ELSE s, observed)
           EXCEPT !.feed = observed]

\* Evidence counts for the established epoch only. A status that reports no
\* usable value leaves the last good one in place.
reduce(s, line) ==
  IF s.epoch # s.feed THEN s
  ELSE IF line.value = None THEN [s EXCEPT !.field.validity = "unavailable"]
  ELSE [s EXCEPT !.field = [validity |-> "current", value |-> line.value,
                            epoch |-> s.feed, gen |-> line.gen]]

\* A disconnect of a connection already replaced.
IsOld(event) == event.gen + 1 < feed_epoch

apply_event(event) ==
  CASE event.kind = "line" -> reduce(State, event)
    [] event.kind = "connected" -> State
    [] event.kind = "disconnected" ->
         IF IsOld(event) THEN State ELSE mark_disconnected(State)
    [] event.kind = "reconnected" ->
         [establish_epoch(mark_disconnected(State), feed_epoch + 1)
          EXCEPT !.feed = feed_epoch + 1]

-----------------------------------------------------------------------------
(* The actor. `why` says what a query is for: the background's "sync", or a *)
(* step of the operation `aop`.                                            *)

\* query_and_reduce, up to its await.
Ask ==
  /\ apc = "ask"
  /\ Install(synchronize_generation(State))
  /\ req' = Query
  /\ apc' = "wait"
  /\ UNCHANGED <<transportVars, answer, events, why, aop, rechecks, clientVars,
                 netVars, sends>>

Continue(purpose) == apc' = "ask" /\ why' = purpose

\* A timer is due: the sweep, which expires what was not refreshed, or the
\* debt. A client's observe and synchronize do the same work.
Background ==
  /\ apc = "loop"
  /\ field' \in {field, expire_if_due(field)}
  /\ Continue("sync")
  /\ UNCHANGED <<transportVars, channelVars, feed_epoch, epoch, aop, rechecks,
                 clientVars, netVars, sends>>

\* Mutated form: a new connection is left to the next sweep.
ReadsAtOnce_Never(event) == FALSE

ReadsAtOnce(event) == event.kind = "reconnected"

\* An event, in the loop or in the confirmation window. The loop reads a new
\* connection at once; the window queries again whatever the event was.
Event ==
  /\ apc \in {"loop", "pause"} /\ events # <<>>
  /\ Install(apply_event(Head(events)))
  /\ events' = Tail(events)
  /\ CASE apc = "pause" -> Continue("confirm")
       [] apc = "loop" /\ ReadsAtOnce(Head(events)) -> Continue("sync")
       [] OTHER -> UNCHANGED <<apc, why>>
  /\ UNCHANGED <<transportVars, req, answer, aop, rechecks, clientVars,
                 netVars, sends>>

\* The recheck interval of the confirmation window passes.
Recheck ==
  /\ apc = "pause"
  /\ Continue("confirm")
  /\ UNCHANGED <<transportVars, channelVars, stateVars, aop, rechecks,
                 clientVars, netVars, sends>>

\* The call is answered and the actor returns to its loop.
Reply(o, outcome) ==
  /\ calls' = [calls EXCEPT ![o] = outcome]
  /\ apc' = "loop" /\ why' = "none" /\ aop' = None /\ rechecks' = 0

\* Operate is received: a call nobody waits for and an unsupported intent end
\* here; otherwise the target is read first.
Operate ==
  /\ apc = "loop" /\ commands # <<>> /\ Head(commands) \in Ops
  /\ LET o == Head(commands)
     IN IF o \in gone THEN Reply(o, "cancelled")
        ELSE \/ Reply(o, "rejected")
             \/ /\ calls' = [calls EXCEPT ![o] = "running"]
                /\ aop' = o /\ Continue("preflight")
                /\ UNCHANGED rechecks
  /\ commands' = Tail(commands)
  /\ UNCHANGED <<transportVars, channelVars, stateVars, gone, pre, closing,
                 netVars, sends>>

\* What a precondition records of the field.
capture(f) == IF f.validity = "current" THEN f.value ELSE None

mismatch(o, s) ==
  /\ o \in Judged
  /\ \/ pre[o].epoch # s.epoch
     \/ pre[o].reads /\ pre[o].baseline # capture(s.field)

state_matches(o, s) == s.field.validity = "current" /\ s.field.value = Target[o]

Received ==
  /\ answer' = NoAnswer
  /\ UNCHANGED <<transportVars, events, commands, gone, pre, closing, netVars, sends>>

\* The end of query_and_reduce: the line is reduced under the connection of this
\* moment, which need not be the one it came on.
Reduced == reduce(synchronize_generation(State), answer)

SyncAnswered ==
  /\ apc = "wait" /\ why = "sync" /\ answer # NoAnswer
  /\ Install(IF answer = Failed THEN mark_query_failed(State) ELSE Reduced)
  /\ apc' = "loop" /\ why' = "none"
  /\ Received
  /\ UNCHANGED <<req, aop, rechecks, calls>>

\* The checks before the write, in their order, then the write is requested.
PreflightAnswered ==
  /\ apc = "wait" /\ why = "preflight" /\ answer # NoAnswer
  /\ IF answer = Failed
     THEN /\ Install(mark_query_failed(State))
          /\ Reply(aop, "rejected") /\ UNCHANGED req
     ELSE /\ Install(Reduced)
          /\ IF mismatch(aop, Reduced)
             THEN Reply(aop, "rejected") /\ UNCHANGED req
             ELSE IF state_matches(aop, Reduced)
             THEN Reply(aop, "already") /\ UNCHANGED req
             ELSE IF aop \in gone
             THEN Reply(aop, "cancelled") /\ UNCHANGED req
             ELSE /\ req' = Dispatch(aop) /\ why' = "dispatch"
                  /\ UNCHANGED <<apc, aop, rechecks, calls>>
  /\ Received

\* Mutated form: a failed write is tried again.
AfterFailedWrite_Retry ==
  req' = Dispatch(aop) /\ UNCHANGED <<apc, why, aop, rechecks, calls>>

\* Mutated form: a failed write is reported as no write.
AfterFailedWrite_Rejected == Reply(aop, "rejected") /\ UNCHANGED req

\* A failed write is never replayed; a query may still prove it arrived.
AfterFailedWrite ==
  Continue("ambiguous") /\ UNCHANGED <<req, aop, rechecks, calls>>

DispatchAnswered ==
  /\ apc = "wait" /\ why = "dispatch" /\ answer # NoAnswer
  /\ IF answer = Failed THEN AfterFailedWrite
     ELSE Continue("confirm") /\ UNCHANGED <<req, aop, rechecks, calls>>
  /\ Received
  /\ UNCHANGED stateVars

\* The query after a failed write.
AmbiguousAnswered ==
  /\ apc = "wait" /\ why = "ambiguous" /\ answer # NoAnswer
  /\ Install(IF answer = Failed THEN State ELSE Reduced)
  /\ Reply(aop, IF answer # Failed /\ state_matches(aop, Reduced)
                THEN "observed_unknown" ELSE "indeterminate_unknown")
  /\ Received /\ UNCHANGED req

\* A query of the confirmation window: it ends with the value observed, with a
\* failure or with the deadline, and otherwise waits for an event or a recheck.
ConfirmAnswered ==
  /\ apc = "wait" /\ why = "confirm" /\ answer # NoAnswer
  /\ Install(IF answer = Failed THEN mark_query_failed(State) ELSE Reduced)
  /\ IF answer # Failed /\ state_matches(aop, Reduced)
     THEN Reply(aop, "observed_complete")
     ELSE \/ Reply(aop, "indeterminate_complete")
          \/ /\ answer # Failed /\ rechecks < MaxRechecks
             /\ rechecks' = rechecks + 1
             /\ apc' = "pause"
             /\ UNCHANGED <<why, aop, calls>>
  /\ Received /\ UNCHANGED req

-----------------------------------------------------------------------------
(* The handle and its clients.                                             *)

\* operate: an agent's request binds to the state it was judged on, and to the
\* field if the policy read it.
Submit(o) ==
  /\ calls[o] = "idle" /\ apc # "stopped" /\ Len(commands) < CommandCap
  /\ IF o \in Judged
     THEN /\ epoch # 0
          /\ \E reads \in BOOLEAN :
               pre' = [pre EXCEPT ![o] = [epoch |-> epoch, reads |-> reads,
                                          baseline |-> capture(field)]]
     ELSE UNCHANGED pre
  /\ commands' = Append(commands, o)
  /\ calls' = [calls EXCEPT ![o] = "queued"]
  /\ UNCHANGED <<transportVars, channelVars, stateVars, actorVars, gone, closing,
                 netVars, sends>>

\* operate of a stopped session: the command channel is closed.
SubmitStopped(o) ==
  /\ calls[o] = "idle" /\ apc = "stopped"
  /\ calls' = [calls EXCEPT ![o] = "indeterminate_none"]
  /\ UNCHANGED <<transportVars, channelVars, stateVars, actorVars, commands, gone,
                 pre, closing, netVars, sends>>

\* The caller's future is dropped.
Abandon(o) ==
  /\ calls[o] \in {"queued", "running"} /\ o \notin gone
  /\ gone' = gone \cup {o}
  /\ UNCHANGED <<transportVars, channelVars, stateVars, actorVars, commands,
                 calls, pre, closing, netVars, sends>>

\* close, once: its command waits for room in the channel.
CloseCall ==
  /\ closing = "no"
  /\ closing' = "called"
  /\ UNCHANGED <<transportVars, channelVars, stateVars, actorVars, commands,
                 calls, gone, pre, netVars, sends>>

CloseSend ==
  /\ closing = "called" /\ Len(commands) < CommandCap
  /\ commands' = Append(commands, "close")
  /\ closing' = "sent"
  /\ UNCHANGED <<transportVars, channelVars, stateVars, actorVars, calls, gone,
                 pre, netVars, sends>>

\* Mutated form: only the call under way is told.
StopTasks_QueueDropped ==
  /\ tpc' = "stopped" /\ treq' = NoReq /\ UNCHANGED generation
  /\ req' = NoReq /\ answer' = NoAnswer /\ events' = <<>>
  /\ apc' = "stopped" /\ why' = "none" /\ UNCHANGED <<aop, rechecks>>
  /\ commands' = <<>>
  /\ calls' = [o \in Ops |-> IF calls[o] = "running" THEN "indeterminate_none"
                             ELSE calls[o]]
  /\ closing' = "done"
  /\ UNCHANGED <<stateVars, gone, pre, netVars, sends>>

\* Both tasks end and drop the replies they owe: whoever still waits is told that
\* the session stopped and nothing was dispatched, whatever the actor was doing.
StopTasks ==
  /\ tpc' = "stopped" /\ treq' = NoReq /\ UNCHANGED generation
  /\ req' = NoReq /\ answer' = NoAnswer /\ events' = <<>>
  /\ apc' = "stopped" /\ why' = "none" /\ UNCHANGED <<aop, rechecks>>
  /\ commands' = <<>>
  /\ calls' = [o \in Ops |-> IF calls[o] \in {"queued", "running"}
                             THEN "indeterminate_none" ELSE calls[o]]
  /\ closing' = "done"
  /\ UNCHANGED <<stateVars, gone, pre, netVars, sends>>

\* Close is received in the loop.
Close ==
  /\ apc = "loop" /\ commands # <<>> /\ Head(commands) = "close"
  /\ StopTasks

\* Mutated form: close waits for the actor.
CloseTimeout_None == FALSE

\* Close was not handled in 250 ms: the actor is aborted where it is.
CloseTimeout ==
  /\ closing = "sent"
  /\ StopTasks

-----------------------------------------------------------------------------
(* The network and the receiver.                                           *)

\* The receiver handles a command. It may decline to act on one.
ReceiverHandles ==
  /\ up /\ inbound # <<>>
  /\ LET r == Head(inbound)
     IN IF r.kind = "query"
        THEN /\ wire' = Append(wire, Line(value, generation, TRUE))
             /\ UNCHANGED value
        ELSE \/ /\ value' = Target[r.op]
                /\ wire' = Append(wire, Line(Target[r.op], generation, FALSE))
             \/ UNCHANGED <<value, wire>>
  /\ inbound' = Tail(inbound)
  /\ UNCHANGED <<transportVars, channelVars, stateVars, actorVars, clientVars,
                 up, knobs, fails, sends>>

\* Somebody changes the field at the receiver, which reports it.
Knob ==
  /\ knobs < MaxKnobs
  /\ \E v \in (Values \cup {None}) \ {value} :
       /\ value' = v
       /\ wire' = IF up THEN Append(wire, Line(v, generation, FALSE)) ELSE wire
  /\ knobs' = knobs + 1
  /\ UNCHANGED <<transportVars, channelVars, stateVars, actorVars, clientVars,
                 up, inbound, fails, sends>>

\* The connection breaks; what was on its way to the receiver is lost.
LinkFails ==
  /\ up /\ generation < MaxGen /\ tpc \notin {"lost", "reconnect", "stopped"}
  /\ up' = FALSE /\ inbound' = <<>>
  /\ UNCHANGED <<transportVars, channelVars, stateVars, actorVars, clientVars,
                 wire, value, knobs, fails, sends>>

\* A closed session.
Stopped ==
  /\ closing = "done"
  /\ UNCHANGED vars

Transport ==
  \/ PublishConnected \/ TakeRequest \/ ReadLine \/ ReadFails
  \/ WriteCompletes \/ WriteFails \/ ReadResponse \/ ResponseFails
  \/ PublishDisconnected \/ ConnectFails \/ ConnectSucceeds
  \/ PublishReconnected

\* The steps of the actor that wait for nothing but a timer or their answer.
Actor ==
  \/ Ask \/ Recheck \/ SyncAnswered \/ PreflightAnswered \/ DispatchAnswered
  \/ AmbiguousAnswered \/ ConfirmAnswered

Next ==
  \/ Transport \/ Actor \/ Background \/ Event \/ Operate \/ Close
  \/ \E o \in Ops : Submit(o) \/ SubmitStopped(o) \/ Abandon(o)
  \/ CloseCall \/ CloseSend \/ CloseTimeout
  \/ ReceiverHandles \/ Knob \/ LinkFails
  \/ Stopped

Spec == Init /\ [][Next]_vars

\* Both tasks run, their timers fire and the receiver handles what reaches it.
\* The actor's select! picks at random among the branches that are ready, so a
\* branch ready again and again is taken.
Fairness ==
  /\ WF_vars(Transport) /\ WF_vars(Actor)
  /\ SF_vars(Background) /\ SF_vars(Event) /\ SF_vars(Operate)
  /\ WF_vars(CloseSend) /\ WF_vars(CloseTimeout)
  /\ WF_vars(ReceiverHandles)

LiveSpec == Spec /\ Fairness

-----------------------------------------------------------------------------
(* Properties.                                                             *)

\* The outcomes that say nothing was written: RejectedBeforeDispatch,
\* AlreadyObserved, Cancelled, and Indeterminate with NotDispatched.
Denials == {"already", "rejected", "cancelled", "indeterminate_none"}

\* Those that say the write was completed, or may have been.
Admissions == {"observed_complete", "observed_unknown", "indeterminate_complete",
               "indeterminate_unknown"}

\* No command is ever written twice, whatever fails and however often the
\* transport reconnects ("A failed write is never replayed", operate.rs).
NoReplay == \A o \in Ops : Len(sends[o]) <= 1

\* The operation the actor was running when a close aborted it.
Aborted(o) == apc = "stopped" /\ aop = o

\* What a caller is told of the write is true: an outcome that says nothing was
\* written means no byte was, also after a failed write, a reconnect or a close,
\* and one that says the write was completed, or may have been, follows an
\* attempt. The one exception is the operation a close aborted, see AbortHonest.
HonestOutcome ==
  \A o \in Ops :
    /\ calls[o] \in Denials /\ ~Aborted(o) => sends[o] = <<>>
    /\ calls[o] \in Admissions => sends[o] # <<>>

\* The same of the operation a close aborted ("receiver session stopped before
\* operation completion", NotDispatched, x3800h_session.rs). It does not hold: the
\* actor may be aborted after the write.
AbortHonest ==
  \A o \in Ops : calls[o] \in Denials /\ Aborted(o) => sends[o] = <<>>

\* Once every notification has been handled, the published epoch is the one of
\* the connection in use, although the actor learns of a reconnect twice: from
\* the generation and from the event.
QuiescentEpoch ==
  apc = "loop" /\ events = <<>> =>
    /\ tpc \in {"idle", "write", "read"} => epoch = generation + 1
    /\ tpc = "reconnect" => epoch = 0

\* The transport waits for room for a lifecycle event.
AwaitsRoom == tpc \in {"connected", "lost", "reconnected"} /\ ~HasRoom

\* Every call of operate is answered, unless the transport waits for room in the
\* event channel for ever: then the actor waits for the transport in turn.
EveryCallEnds ==
  []<>~AwaitsRoom =>
    \A o \in Ops : calls[o] = "queued" ~> calls[o] \in Denials \cup Admissions

\* The published state comes to show what the receiver shows, although line
\* events are dropped, delayed and reduced after newer answers, unless the
\* transport waits for room for ever.
Converges ==
  []<>~AwaitsRoom =>
    []<>(\/ apc = "stopped"
         \/ value = None /\ field.validity = "unavailable"
         \/ value # None /\ field.validity = "current" /\ field.value = value)

\* close returns, whatever the actor and the transport are waiting for, each
\* other included, once the command channel has taken its command.
CloseReturns == closing = "called" ~> closing = "done"

\* The actor always comes back to its loop: "A temporary connection refusal is
\* degraded evidence, never a reason to silently stop monitoring"
\* (x3800h_session.rs).
MonitoringGoesOn == []<>(apc \in {"loop", "stopped"})

\* A write judged under an epoch is made on that epoch's connection: "authority
\* from the old connection ends with the old epoch" (ARCHITECTURE.md). It does
\* not hold: the write may wait in the request channel through a reconnect.
Authority ==
  \A o \in Judged : sends[o] # <<>> => sends[o][1] + 1 = pre[o].epoch

\* Evidence is stamped with the epoch of the connection it came on: "Bind every
\* reduced response to its actual socket generation" (reduce.rs). It does not
\* hold: the generation is read again after the answer has come.
EvidenceBelongs == field.validity = "current" => field.gen + 1 = field.epoch
=============================================================================
