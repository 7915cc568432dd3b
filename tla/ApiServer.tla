----------------------------- MODULE ApiServer ------------------------------
(***************************************************************************)
(* The Control API server (apps/api-server): processes that start under    *)
(* one lock, bind one socket and shut down (start.rs, main.rs), and the    *)
(* event streams they serve (endpoint.rs, events.rs, the stream routes),   *)
(* over the token store the lock protects.                                 *)
(*                                                                         *)
(* A stream is a handler that authenticates, takes one of its principal's  *)
(* places and subscribes, and then a task that pumps: it polls, in order,  *)
(* the client's end, shutdown, the revocation of its token, its age and    *)
(* the next state, and hands each state to a channel of one item.          *)
(***************************************************************************)
EXTENDS TokenStore

CONSTANTS Servers, Streams, streams_per_principal, Foreign, MaxStarts

ASSUME ApiServerAssumption ==
    /\ streams_per_principal \in Nat \ {0} /\ MaxStarts \in Nat
    /\ NoOne \notin Servers

VARIABLES phase,      \* each process: off, locked, serving, stopping, draining, closed, cleared
          lock,       \* the process that holds the lock file
          socket,     \* who bound what is at the socket path
          agent_on,   \* the Agent endpoint exists
          stream, full, gone, open_streams,
          starts

pvars == <<phase, lock, socket, agent_on, starts>>
tvars == <<stream, full, gone, open_streams>>
vars == <<svars, pvars, tvars>>

Operator == "operator"
Principals == Labels \cup {Operator}

NoStream == [at |-> "none"]

(* The subscription, and with it the lease on the receiver, is the pump's; *)
(* the place is kept until the closing event was handed over or given up.  *)
Pumping == {"first", "select", "watching", "looked", "send"}
HasLease(s) == stream[s].at \in Pumping

(***************************************************************************)
(* The processes.                                                          *)
(***************************************************************************)
Running == {p \in Servers : phase[p] # "off"}
Stopping == \E p \in Servers : phase[p] \in {"stopping", "draining", "closed", "cleared"}
Serving == \E p \in Servers : phase[p] = "serving"

StreamsGone ==
    /\ stream' = [s \in Streams |-> NoStream]
    /\ full' = [s \in Streams |-> FALSE]
    /\ gone' = [s \in Streams |-> FALSE]
    /\ open_streams' = [k \in Principals |-> 0]

(* InstanceLock::acquire; a process that finds it held ends there. *)
acquire(p) ==
    /\ phase[p] = "off" /\ lock = NoOne /\ starts < MaxStarts
    /\ lock' = p
    /\ phase' = [phase EXCEPT ![p] = "locked"]
    /\ starts' = starts + 1
    /\ UNCHANGED <<svars, socket, agent_on, tvars>>

OpenStore ==
    /\ \E p \in Servers : phase[p] = "locked"
    /\ operator_digest \/ operator_write \/ open
    /\ UNCHANGED <<pvars, tvars>>

(* The process ends and the operating system frees the lock. *)
Off(p) ==
    /\ phase' = [phase EXCEPT ![p] = "off"]
    /\ lock' = IF lock = p THEN NoOne ELSE lock
    /\ agent_on' = FALSE
    /\ StreamsGone

Exit(p) == Off(p) /\ Crash

(* start_locked: what is at the path is removed only if it is a socket of  *)
(* this account's; then the bind.  The Agent endpoint exists when it is    *)
(* configured, nothing about it is wrong and the store can be used.        *)
remove_stale == socket # Foreign

start_locked(p) ==
    /\ phase[p] = "locked" /\ up
    /\ IF remove_stale
       THEN /\ socket' = p
            /\ phase' = [phase EXCEPT ![p] = "serving"]
            /\ agent_on' \in (IF fault THEN {FALSE} ELSE BOOLEAN)
            /\ UNCHANGED <<svars, lock, starts, tvars>>
       ELSE Exit(p) /\ UNCHANGED <<socket, starts>>

Signal(p) ==
    /\ phase[p] = "serving"
    /\ phase' = [phase EXCEPT ![p] = "stopping"]
    /\ UNCHANGED <<svars, lock, socket, agent_on, starts, tvars>>

(* RunningServer::shutdown: the accept loops end, the connections finish   *)
(* or their time is up (what is left is dropped), the service closes every *)
(* session, the sockets go, and the lock last.                             *)
AcceptsEnd(p) ==
    /\ phase[p] = "stopping"
    /\ phase' = [phase EXCEPT ![p] = "draining"]
    /\ UNCHANGED <<svars, lock, socket, agent_on, starts, tvars>>

Quiet == (\A s \in Streams : stream[s] = NoStream) /\ (\A c \in Callers : call[c] = NoCall)

DropAllCalls ==
    /\ call' = [c \in Callers |-> NoCall]
    /\ writing' = NoOne
    /\ UNCHANGED <<up, entries, fault, revocations, thread, agent_file, temporary,
                   operator_file, told, overlapped>>

\* Mutated form: the lock is given up before the sockets go.
Drained_Unlocks(p) ==
    /\ phase[p] = "draining"
    /\ phase' = [phase EXCEPT ![p] = "closed"]
    /\ IF Quiet THEN UNCHANGED <<svars, tvars>> ELSE DropAllCalls /\ StreamsGone
    /\ lock' = NoOne
    /\ UNCHANGED <<socket, agent_on, starts>>

Drained(p) ==
    /\ phase[p] = "draining"
    /\ phase' = [phase EXCEPT ![p] = "closed"]
    /\ IF Quiet THEN UNCHANGED <<svars, tvars>> ELSE DropAllCalls /\ StreamsGone
    /\ UNCHANGED <<lock, socket, agent_on, starts>>

remove_sockets(p) ==
    /\ phase[p] = "closed"
    /\ socket' = NoOne
    /\ phase' = [phase EXCEPT ![p] = "cleared"]
    /\ UNCHANGED <<svars, lock, agent_on, starts, tvars>>

(* The lock goes before the process does: a thread that writes is not waited *)
(* for (main.rs, shutdown_background).                                       *)
Released(p) ==
    /\ phase[p] = "cleared"
    /\ Off(p) /\ Release /\ UNCHANGED <<socket, starts>>

(* Killed, or a second signal: the socket stays where it is. *)
Kill(p) ==
    /\ phase[p] # "off"
    /\ Exit(p) /\ UNCHANGED <<socket, starts>>

(* Someone puts another file where the socket goes, or takes it away. *)
Obstructed ==
    /\ Running = {}
    /\ socket' \in {Foreign, NoOne} \ {socket}
    /\ UNCHANGED <<svars, phase, lock, agent_on, starts, tvars>>

(* The store's calls come in through the Operator's endpoint, go on while  *)
(* the server drains, and are dropped at their time limit or with their    *)
(* client; the threads go on whatever becomes of call and process.         *)
Asks == \/ \E c \in Callers, label \in Labels : AskIssue(c, label)
        \/ \E c \in Callers, id \in Ids : AskRevoke(c, id)
Works == \/ \E c \in Callers : Answer(c) \/ DropCall(c)
         \/ \E c \in Callers, w \in Writers :
              issue(c, w) \/ revoke(c, w) \/ AfterWrite(c, w) \/ AfterFailure(c, w)
         \/ \E w \in Writers :
              \/ RemoveLeftover(w) \/ CreateTemporary(w) \/ WriteAndSync(w) \/ Rename(w)
              \/ Fails(w) \/ ThreadForgotten(w)

Calls ==
    /\ (Serving /\ Asks) \/ Works
    /\ UNCHANGED <<pvars, tvars>>

(***************************************************************************)
(* Streams: the handler.                                                   *)
(***************************************************************************)
Move(s, at) == stream' = [stream EXCEPT ![s].at = at]
Others == UNCHANGED <<svars, pvars>>

(* The Agent endpoint serves an active Agent's token, the Operator's the   *)
(* Operator's (pipeline::authenticate).  The handler then takes one of the *)
(* principal's places before it opens the receiver, or answers 429.        *)
Admitted(s, token, key) ==
    /\ open_streams[key] < streams_per_principal
    /\ stream' = [stream EXCEPT ![s] =
                     [at |-> "subscribing", token |-> token, key |-> key, after |-> 0]]
    /\ open_streams' = [open_streams EXCEPT ![key] = @ + 1]

open_stream(s) ==
    /\ Serving /\ stream[s] = NoStream
    /\ \/ \E t \in entries :
            /\ agent_on /\ authenticate([prefix |-> "agent", id |-> t.id]) = "agent"
            /\ Admitted(s, t.id, t.label)
       \/ /\ authenticate([prefix |-> "operator", genuine |-> TRUE]) = "operator"
          /\ Admitted(s, NoOne, Operator)
    /\ UNCHANGED <<full, gone>> /\ Others

(* The slot is dropped and the stream is no more. *)
FreePlace(s) == open_streams' = [open_streams EXCEPT ![stream[s].key] = @ - 1]
Finish(s) ==
    /\ stream' = [stream EXCEPT ![s] = NoStream]
    /\ full' = [full EXCEPT ![s] = FALSE]
    /\ gone' = [gone EXCEPT ![s] = FALSE]
    /\ FreePlace(s)

Subscribed(s) ==
    /\ stream[s].at = "subscribing"
    /\ \/ Move(s, "first") /\ UNCHANGED <<full, gone, open_streams>>
       \/ Finish(s)
    /\ Others

(* The client closes its end; a handler that has not answered is dropped. *)
ClientLeaves(s) ==
    /\ stream[s] # NoStream /\ ~gone[s]
    /\ IF stream[s].at = "subscribing" THEN Finish(s)
       ELSE /\ gone' = [gone EXCEPT ![s] = TRUE]
            /\ full' = [full EXCEPT ![s] = FALSE]
            /\ UNCHANGED <<stream, open_streams>>
    /\ Others

ClientTakes(s) ==
    /\ full[s] /\ ~gone[s]
    /\ full' = [full EXCEPT ![s] = FALSE]
    /\ UNCHANGED <<stream, gone, open_streams>> /\ Others

(***************************************************************************)
(* Streams: the pump.                                                      *)
(***************************************************************************)
Revoked(s) == stream[s].token # NoOne /\ ~is_active(stream[s].token)
AtMost2(n) == IF n > 2 THEN 2 ELSE n

(* send: the channel takes the event, or the client is gone or too slow.   *)
send(s) ==
    /\ stream[s].at \in {"first", "send"} /\ ~gone[s] /\ ~full[s]
    /\ full' = [full EXCEPT ![s] = TRUE]
    /\ stream' = [stream EXCEPT ![s].at = "select",
                      ![s].after = IF Revoked(s) THEN AtMost2(@ + 1) ELSE @]
    /\ UNCHANGED <<gone, open_streams>> /\ Others

SendFails(s) ==
    /\ stream[s].at \in {"first", "send"} /\ (gone[s] \/ full[s])
    /\ Finish(s) /\ Others

(* The pump returns: the subscription is dropped, then the end is told. *)
End(s) == Move(s, "ending") /\ UNCHANGED <<full, gone, open_streams>>

SeesClosed(s) ==
    /\ stream[s].at \in {"select", "looked"} /\ gone[s]
    /\ Finish(s) /\ Others

SeesShutdown(s) ==
    /\ stream[s].at \in {"select", "looked"} /\ ~gone[s] /\ Stopping
    /\ End(s) /\ Others

\* Mutated form: the token is not looked at again before the next event.
Watch_NotAgain(s) ==
    /\ stream[s].at = "select" /\ ~gone[s] /\ ~Stopping
    /\ stream' = [stream EXCEPT ![s] =
                     [at |-> "looked", token |-> stream[s].token, key |-> stream[s].key,
                      after |-> stream[s].after, seen |-> revocations]]
    /\ UNCHANGED <<full, gone, open_streams>> /\ Others

(* revoked: it subscribes to the counter, looks, and sleeps until the      *)
(* counter has moved from what it was when it subscribed.                  *)
Watch(s) ==
    /\ stream[s].at = "select" /\ ~gone[s] /\ ~Stopping
    /\ IF stream[s].token = NoOne THEN Move(s, "looked")
       ELSE stream' = [stream EXCEPT ![s] =
                         [at |-> "watching", token |-> stream[s].token, key |-> stream[s].key,
                          after |-> stream[s].after, seen |-> revocations]]
    /\ UNCHANGED <<full, gone, open_streams>> /\ Others

\* Mutated form: the token is looked at before the subscription to the counter.
Look_ThenSubscribes(s) ==
    /\ stream[s].at = "watching"
    /\ IF Revoked(s) /\ stream[s].seen = revocations THEN End(s)
       ELSE /\ stream' = [stream EXCEPT ![s].at = "looked", ![s].seen = revocations]
            /\ UNCHANGED <<full, gone, open_streams>>
    /\ Others

Look(s) ==
    /\ stream[s].at = "watching"
    /\ IF Revoked(s) THEN End(s)
       ELSE Move(s, "looked") /\ UNCHANGED <<full, gone, open_streams>>
    /\ Others

Moved(s) == stream[s].token # NoOne /\ stream[s].seen # revocations
Wakes(s) ==
    /\ stream[s].at = "looked" /\ Moved(s)
    /\ Move(s, "select")
    /\ UNCHANGED <<full, gone, open_streams>> /\ Others

(* Only an Agent's stream has a maximum age. *)
Age(s) ==
    /\ stream[s].at = "looked" /\ stream[s].token # NoOne
    /\ End(s) /\ Others

Changed(s) ==
    /\ stream[s].at = "looked"
    /\ Move(s, "send")
    /\ UNCHANGED <<full, gone, open_streams>> /\ Others

SessionClosed(s) ==
    /\ stream[s].at = "looked"
    /\ End(s) /\ Others

(* The closing event, handed over or given up; the place is freed. *)
Ended(s) == stream[s].at = "ending" /\ Finish(s) /\ Others

Pump(s) ==
    \/ send(s) \/ SendFails(s) \/ SeesClosed(s) \/ SeesShutdown(s)
    \/ Watch(s) \/ Look(s) \/ Wakes(s) \/ Ended(s)

(***************************************************************************)
(* The specification.  The pump's task is polled again while it can go on, *)
(* its send has a time limit, and shutdown has one for what it waits for.  *)
(***************************************************************************)
Init ==
    /\ StoreInit
    /\ phase = [p \in Servers |-> "off"] /\ lock = NoOne /\ socket = NoOne
    /\ agent_on = FALSE /\ starts = 0
    /\ stream = [s \in Streams |-> NoStream]
    /\ full = [s \in Streams |-> FALSE] /\ gone = [s \in Streams |-> FALSE]
    /\ open_streams = [k \in Principals |-> 0]

Next ==
    \/ OpenStore \/ Obstructed \/ Calls
    \/ OperatorDeletes /\ Running = {} /\ UNCHANGED <<pvars, tvars>>
    \/ \E p \in Servers :
         \/ acquire(p) \/ start_locked(p) \/ Signal(p) \/ AcceptsEnd(p) \/ Drained(p)
         \/ remove_sockets(p) \/ Released(p) \/ Kill(p)
    \/ \E s \in Streams :
         \/ open_stream(s) \/ Subscribed(s) \/ ClientLeaves(s) \/ ClientTakes(s)
         \/ Age(s) \/ Changed(s) \/ SessionClosed(s) \/ Pump(s)

Fairness ==
    /\ \A s \in Streams : WF_vars(Pump(s))
    /\ \A p \in Servers :
         WF_vars(AcceptsEnd(p) \/ Drained(p) \/ remove_sockets(p) \/ Released(p))

Spec == Init /\ [][Next]_vars /\ Fairness

(***************************************************************************)
(* Properties.                                                             *)
(***************************************************************************)
(* A server from the moment it serves until its sockets are gone is what   *)
(* is at the socket path and holds the lock, whatever other processes      *)
(* start, stop or are killed meanwhile (start.rs: the lock, remove_stale,  *)
(* the order of shutdown).                                                 *)
ServesAlone ==
    \A p \in Servers :
        phase[p] \in {"serving", "stopping", "draining", "closed"} => socket = p /\ lock = p

(* What a client was told of a token survives every crash and every call   *)
(* that was dropped: a revoked one stays revoked, one issued is known      *)
(* until someone asks to revoke it, and the file is never half written     *)
(* (token_store.rs, write_atomically) -- as long as no write and no start  *)
(* has begun while the thread of a dropped call, or of a process that had  *)
(* released its lock, was still writing.  The code does not prevent that,  *)
(* and then none of it holds (RevokedForGood in TokenStoreDropped.cfg).    *)
TokensKept ==
    overlapped \/
      /\ ~fault /\ ~read_entries.fault
      /\ RevokedForGood
      /\ told.issued \subseteq read_entries.tokens
      /\ up => told.issued \subseteq entries

(* After its token is revoked a stream hands over at most the one event it *)
(* was already handing over (events.rs, pump_state).                       *)
OneEventAfterRevocation ==
    \A s \in Streams : stream[s] # NoStream => stream[s].after <= 1

(* A stream whose token is revoked lets go of its receiver, whether or not *)
(* its client reads and the receiver changes (events.rs, revoked).         *)
RevokedStreamEnds ==
    \A s \in Streams : (HasLease(s) /\ Revoked(s)) ~> ~HasLease(s)
=============================================================================
