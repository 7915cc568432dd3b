---------------------------- MODULE ConnectionPool ----------------------------
(***************************************************************************)
(* One receiver's slot of the connection pool (service/connections.rs):    *)
(* the slot lock, the leases that keep its session open, connecting on     *)
(* demand, the idle release, the retirement after a saved change           *)
(* (ports.rs, save_configuration) and the service's shutdown (service.rs). *)
(*                                                                         *)
(* A caller may be dropped at any await: the API server drops a request    *)
(* that takes too long or whose client went away. Operations run in tasks  *)
(* of their own and are not dropped.                                       *)
(*                                                                         *)
(* A session is named after the client whose lease opened it. The saved    *)
(* configuration is the receiver's host, None when it has no entry.        *)
(***************************************************************************)
EXTENDS Integers, FiniteSets

CONSTANTS
  Clients,      \* callers of lease_as, once each
  Operations,   \* the ones whose lease is an operation's
  Savers,       \* callers of save_configuration
  Hosts,        \* addresses
  Initially,    \* the host saved at first
  None          \* no host, no session

ASSUME PoolAssumption ==
  /\ Operations \subseteq Clients
  /\ IsFiniteSet(Clients)
  /\ Initially \in Hosts /\ None \notin Hosts \cup Clients

VARIABLES
  cpc,          \* where each client is
  using,        \* the session of each client's lease
  host,         \* the identity each session was opened with
  sess,         \* what became of each session's connection
  ended,        \* sessions whose subscribers were told they are over
  tpc,          \* the idle timer each client's drop armed
  armed_at,     \* the activity it saw
  spc, config,  \* where each saver is, and what it saves
  shut,         \* where shutdown is
  saved,        \* the file
  slot,         \* the slot exists
  lock,         \* the task that holds the slot lock
  held,         \* the session in the slot
  victim,       \* the session the lock's holder is closing
  status,       \* the published ConnectionStatus
  leases, operations, activity,
  closed        \* the service is shut down

clientVars == <<cpc, using, host>>
timerVars == <<tpc, armed_at>>
saverVars == <<spc, config, saved>>
sessionVars == <<sess, ended>>
slotVars == <<slot, lock, held, victim, status>>
countVars == <<leases, operations, activity>>
vars == <<clientVars, timerVars, saverVars, sessionVars, slotVars, countVars,
          shut, closed>>

Free == <<"nobody", None>>

Init ==
  /\ cpc = [c \in Clients |-> "idle"] /\ using = [c \in Clients |-> None]
  /\ host = [c \in Clients |-> None]
  /\ sess = [c \in Clients |-> "none"] /\ ended = {}
  /\ tpc = [c \in Clients |-> "none"] /\ armed_at = [c \in Clients |-> 0]
  /\ spc = [s \in Savers |-> "idle"] /\ config = [s \in Savers |-> None]
  /\ shut = "no" /\ saved = Initially
  /\ slot = FALSE /\ lock = Free /\ held = None /\ victim = None
  /\ status = "released"
  /\ leases = 0 /\ operations = 0 /\ activity = 0 /\ closed = FALSE

-----------------------------------------------------------------------------
(* The slot.                                                               *)

Goto(c, pc) == cpc' = [cpc EXCEPT ![c] = pc]

\* Mutated form: the subscribers are not told.
Tell_Nobody(s) == UNCHANGED ended

Tell(s) == ended' = ended \cup {s}

\* Mutated form: the lock is released before the session is closed.
CloseBegin_Unlocked(task) ==
  /\ lock' = Free
  /\ held' = None /\ victim' = held
  /\ Tell(held)
  /\ sess' = [sess EXCEPT ![held] = "closing"]
  /\ UNCHANGED <<slot, status>>

\* close_held up to its await, by the task that holds the lock: the session is
\* taken out of the slot and its subscribers are told.
CloseBegin(task) ==
  /\ lock' = task
  /\ held' = None /\ victim' = held
  /\ Tell(held)
  /\ sess' = [sess EXCEPT ![held] = "closing"]
  /\ UNCHANGED <<slot, status>>

\* The rest of it, and the end of the lock.
CloseEnd ==
  /\ sess' = [sess EXCEPT ![victim] = "closed"]
  /\ victim' = None /\ status' = "released" /\ lock' = Free
  /\ UNCHANGED <<ended, slot, held>>

-----------------------------------------------------------------------------
(* lease_as and the lease.                                                 *)

\* A request arrives. The service admits no operation once it is closed.
Arrive(c) ==
  /\ cpc[c] = "idle"
  /\ c \in Operations => ~closed
  /\ Goto(c, "start")
  /\ UNCHANGED <<using, host, timerVars, saverVars, sessionVars, slotVars,
                 countVars, shut, closed>>

LeaseStart(c) ==
  /\ cpc[c] = "start"
  /\ Goto(c, IF closed THEN "done" ELSE IF slot THEN "lock" ELSE "lookup")
  /\ UNCHANGED <<using, host, timerVars, saverVars, sessionVars, slotVars,
                 countVars, shut, closed>>

\* Only receivers that exist get a slot.
LookUp(c) ==
  /\ cpc[c] = "lookup"
  /\ IF saved = None THEN Goto(c, "done") /\ UNCHANGED slot
     ELSE Goto(c, "lock") /\ slot' = TRUE
  /\ UNCHANGED <<using, host, timerVars, saverVars, sessionVars, lock, held,
                 victim, status, countVars, shut, closed>>

\* The lease is counted while the lock is held.
Take(c, session) ==
  /\ Goto(c, "leased")
  /\ using' = [using EXCEPT ![c] = session]
  /\ leases' = leases + 1
  /\ operations' = IF c \in Operations THEN operations + 1 ELSE operations
  /\ activity' = activity + 1

\* Mutated form: closed is not read again under the lock.
StillOpen_NotRead == TRUE

StillOpen == ~closed

\* The lock is taken: the caller is refused, shares the session, or connects.
Acquire(c) ==
  /\ cpc[c] = "lock" /\ lock = Free
  /\ \/ /\ ~StillOpen
        /\ Goto(c, "done")
        /\ UNCHANGED <<using, lock, status, countVars>>
     \/ /\ StillOpen /\ held # None
        /\ Take(c, held)
        /\ UNCHANGED <<lock, status>>
     \/ /\ StillOpen /\ held = None
        /\ Goto(c, "identity")
        /\ lock' = <<"client", c>> /\ status' = "connecting"
        /\ UNCHANGED <<using, countVars>>
  /\ UNCHANGED <<host, timerVars, saverVars, sessionVars, slot, held, victim,
                 shut, closed>>

\* The attempt is over without a session.
GiveUp(c) ==
  /\ Goto(c, "done")
  /\ lock' = Free /\ status' = "released"

\* connect reads the address under the lock.
Identity(c) ==
  /\ cpc[c] = "identity"
  /\ IF saved = None
     THEN GiveUp(c) /\ UNCHANGED host
     ELSE /\ Goto(c, "connect")
          /\ host' = [host EXCEPT ![c] = saved]
          /\ UNCHANGED <<lock, status>>
  /\ UNCHANGED <<using, timerVars, saverVars, sessionVars, slot, held, victim,
                 countVars, shut, closed>>

Connect(c) ==
  /\ cpc[c] = "connect"
  /\ \/ /\ sess' = [sess EXCEPT ![c] = "open"]
        /\ Goto(c, "sync")
        /\ UNCHANGED <<lock, status>>
     \/ GiveUp(c) /\ UNCHANGED sess
  /\ UNCHANGED <<using, host, timerVars, saverVars, ended, slot, held, victim,
                 countVars, shut, closed>>

\* The first synchronization succeeds and the session goes into the slot ...
Synchronized(c) ==
  /\ cpc[c] = "sync"
  /\ held' = c /\ status' = "connected" /\ lock' = Free
  /\ Take(c, c)
  /\ UNCHANGED <<host, timerVars, saverVars, sessionVars, slot, victim, shut,
                 closed>>

\* ... or it fails and the session is closed.
SyncFails(c) ==
  /\ cpc[c] = "sync"
  /\ sess' = [sess EXCEPT ![c] = "closing"]
  /\ victim' = c
  /\ Goto(c, "close")
  /\ UNCHANGED <<using, host, timerVars, saverVars, ended, slot, lock, held,
                 status, countVars, shut, closed>>

AttemptClosed(c) ==
  /\ cpc[c] = "close"
  /\ CloseEnd
  /\ Goto(c, "done")
  /\ UNCHANGED <<using, host, timerVars, saverVars, countVars, shut, closed>>

OperationsDropped(c) == IF c \in Operations THEN 1 ELSE 0

\* Lease::drop, whose counters other threads see one after the other.
Drop(c) ==
  /\ cpc[c] = "leased"
  /\ Goto(c, "drop")
  /\ operations' = operations - OperationsDropped(c)
  /\ activity' = activity + 1
  /\ UNCHANGED <<using, host, timerVars, saverVars, sessionVars, slotVars,
                 leases, shut, closed>>

\* Mutated form: the drop of a lease never starts the idle clock.
IsLast_Never == FALSE

IsLast == leases = 1

DropLease(c) ==
  /\ cpc[c] = "drop"
  /\ leases' = leases - 1
  /\ Goto(c, IF IsLast THEN "arm" ELSE "done")
  /\ UNCHANGED <<using, host, timerVars, saverVars, sessionVars, slotVars,
                 operations, activity, shut, closed>>

\* arm_idle_timer.
Arm(c) ==
  /\ cpc[c] = "arm"
  /\ Goto(c, "done")
  /\ tpc' = [tpc EXCEPT ![c] = "sleep"]
  /\ armed_at' = [armed_at EXCEPT ![c] = activity]
  /\ UNCHANGED <<using, host, saverVars, sessionVars, slotVars, countVars,
                 shut, closed>>

\* The caller is dropped at an await. A session still connecting is dropped
\* without a close: its actor ends it when it next looks at its commands.
AbandonLease(c) ==
  /\ c \notin Operations
  /\ cpc[c] \in {"start", "lookup", "lock", "identity", "connect", "sync", "close"}
  /\ IF cpc[c] \in {"start", "lookup", "lock"}
     THEN Goto(c, "done") /\ UNCHANGED <<lock, status>>
     ELSE GiveUp(c)
  /\ sess' = IF cpc[c] \in {"sync", "close"}
             THEN [sess EXCEPT ![c] = "lingering"] ELSE sess
  /\ victim' = IF cpc[c] = "close" THEN None ELSE victim
  /\ UNCHANGED <<using, host, timerVars, saverVars, ended, slot, held, countVars,
                 shut, closed>>

\* A session nobody owns comes to its end.
LingererEnds(c) ==
  /\ sess[c] = "lingering"
  /\ sess' = [sess EXCEPT ![c] = "closed"]
  /\ UNCHANGED <<clientVars, timerVars, saverVars, ended, slotVars, countVars,
                 shut, closed>>

-----------------------------------------------------------------------------
(* release_if_idle.                                                        *)

Wake(c) ==
  /\ tpc[c] = "sleep"
  /\ tpc' = [tpc EXCEPT ![c] = "lock"]
  /\ UNCHANGED <<clientVars, armed_at, saverVars, sessionVars, slotVars,
                 countVars, shut, closed>>

InUse(c) == leases # 0 \/ activity # armed_at[c]

Release(c) ==
  /\ tpc[c] = "lock" /\ lock = Free
  /\ IF InUse(c) \/ held = None
     THEN /\ tpc' = [tpc EXCEPT ![c] = "done"]
          /\ UNCHANGED <<sessionVars, slotVars>>
     ELSE /\ tpc' = [tpc EXCEPT ![c] = "closing"]
          /\ CloseBegin(<<"timer", c>>)
  /\ UNCHANGED <<clientVars, armed_at, saverVars, countVars, shut, closed>>

Released(c) ==
  /\ tpc[c] = "closing"
  /\ CloseEnd
  /\ tpc' = [tpc EXCEPT ![c] = "done"]
  /\ UNCHANGED <<clientVars, armed_at, saverVars, countVars, shut, closed>>

-----------------------------------------------------------------------------
(* save_configuration and retire_changed.                                  *)

SGoto(s, pc) == spc' = [spc EXCEPT ![s] = pc]

Save(s) ==
  /\ spc[s] = "idle"
  /\ \E h \in Hosts \cup {None} :
       saved' = h /\ config' = [config EXCEPT ![s] = h]
  /\ SGoto(s, "collect")
  /\ UNCHANGED <<clientVars, timerVars, sessionVars, slotVars, countVars, shut,
                 closed>>

\* The slots that exist now.
Collect(s) ==
  /\ spc[s] = "collect"
  /\ SGoto(s, IF slot THEN "lock" ELSE "done")
  /\ UNCHANGED <<clientVars, timerVars, config, saved, sessionVars, slotVars,
                 countVars, shut, closed>>

\* Mutated form: every open session is taken for one to the saved address.
unchanged_Always(s) == TRUE

unchanged(s) == held = None \/ host[held] = config[s]

RetireLock(s) ==
  /\ spc[s] = "lock" /\ lock = Free
  /\ IF unchanged(s) THEN SGoto(s, "done") /\ UNCHANGED lock
     ELSE SGoto(s, "drain") /\ lock' = <<"saver", s>>
  /\ UNCHANGED <<clientVars, timerVars, config, saved, sessionVars, slot, held,
                 victim, status, countVars, shut, closed>>

\* Mutated form: operations in flight are not waited for.
Drained_NotAwaited == TRUE

Drained == operations = 0

Retire(s) ==
  /\ spc[s] = "drain" /\ Drained
  /\ SGoto(s, "closing")
  /\ CloseBegin(<<"saver", s>>)
  /\ UNCHANGED <<clientVars, timerVars, config, saved, countVars, shut, closed>>

Retired(s) ==
  /\ spc[s] = "closing"
  /\ CloseEnd
  /\ SGoto(s, "done")
  /\ UNCHANGED <<clientVars, timerVars, config, saved, countVars, shut, closed>>

\* The caller is dropped: what it has not done stays undone.
AbandonSave(s) ==
  /\ spc[s] \in {"collect", "lock", "drain", "closing"}
  /\ SGoto(s, "dropped")
  /\ lock' = IF spc[s] \in {"drain", "closing"} THEN Free ELSE lock
  /\ IF spc[s] = "closing"
     THEN sess' = [sess EXCEPT ![victim] = "lingering"] /\ victim' = None
     ELSE UNCHANGED <<sess, victim>>
  /\ UNCHANGED <<clientVars, timerVars, config, saved, ended, slot, held, status,
                 countVars, shut, closed>>

-----------------------------------------------------------------------------
(* shutdown.                                                               *)

ShutdownBegin ==
  /\ shut = "no"
  /\ closed' = TRUE /\ shut' = "drain"
  /\ UNCHANGED <<clientVars, timerVars, saverVars, sessionVars, slotVars, countVars>>

\* No operation is in flight; the slots are collected.
ShutdownDrained ==
  /\ shut = "drain"
  /\ \A c \in Operations : cpc[c] \in {"idle", "done"}
  /\ shut' = IF slot THEN "lock" ELSE "done"
  /\ UNCHANGED <<clientVars, timerVars, saverVars, sessionVars, slotVars,
                 countVars, closed>>

ShutdownLock ==
  /\ shut = "lock" /\ lock = Free
  /\ IF held = None
     THEN shut' = "done" /\ UNCHANGED <<sessionVars, slotVars>>
     ELSE shut' = "closing" /\ CloseBegin(<<"shutdown", None>>)
  /\ UNCHANGED <<clientVars, timerVars, saverVars, countVars, closed>>

ShutdownClosed ==
  /\ shut = "closing"
  /\ CloseEnd
  /\ shut' = "done"
  /\ UNCHANGED <<clientVars, timerVars, saverVars, countVars, closed>>

-----------------------------------------------------------------------------

\* A client's way to its lease and out of it, once it has arrived.
Client(c) ==
  \/ LeaseStart(c) \/ LookUp(c) \/ Acquire(c) \/ Identity(c) \/ Connect(c)
  \/ Synchronized(c) \/ SyncFails(c) \/ AttemptClosed(c)
  \/ DropLease(c) \/ Arm(c)

Timer(c) == Wake(c) \/ Release(c) \/ Released(c)

Saver(s) == Collect(s) \/ RetireLock(s) \/ Retire(s) \/ Retired(s)

Shutdown == ShutdownDrained \/ ShutdownLock \/ ShutdownClosed

Next ==
  \/ \E c \in Clients :
       Arrive(c) \/ Client(c) \/ Drop(c) \/ AbandonLease(c) \/ LingererEnds(c)
         \/ Timer(c)
  \/ \E s \in Savers : Save(s) \/ Saver(s) \/ AbandonSave(s)
  \/ ShutdownBegin \/ Shutdown

Spec == Init /\ [][Next]_vars

\* Every task that can run does, and the slot lock goes to waiters in turn, so
\* one that waits for it gets it. An operation ends (EveryOperationEnds of
\* OperationGate); a reader may hold its lease for ever.
Fairness ==
  /\ \A c \in Clients : SF_vars(Client(c)) /\ SF_vars(Timer(c))
  /\ \A c \in Operations : WF_vars(Drop(c))
  /\ \A s \in Savers : SF_vars(Saver(s))
  /\ SF_vars(Shutdown)

LiveSpec == Spec /\ Fairness

-----------------------------------------------------------------------------
(* Properties.                                                             *)

ClientPlaces == {"idle", "start", "lookup", "lock", "identity", "connect", "sync",
                 "close", "leased", "drop", "arm", "done"}
SaverPlaces == {"idle", "collect", "lock", "drain", "closing", "done", "dropped"}
Owners == {Free, <<"shutdown", None>>} \cup ({"client", "timer"} \X Clients)
            \cup ({"saver"} \X Savers)

\* The variables have the types of the code's; in particular no count goes
\* below zero.
TypeOK ==
  /\ cpc \in [Clients -> ClientPlaces]
  /\ using \in [Clients -> Clients \cup {None}]
  /\ host \in [Clients -> Hosts \cup {None}]
  /\ sess \in [Clients -> {"none", "open", "closing", "lingering", "closed"}]
  /\ ended \subseteq Clients
  /\ tpc \in [Clients -> {"none", "sleep", "lock", "closing", "done"}]
  /\ armed_at \in [Clients -> Nat]
  /\ spc \in [Savers -> SaverPlaces] /\ config \in [Savers -> Hosts \cup {None}]
  /\ shut \in {"no", "drain", "lock", "closing", "done"}
  /\ saved \in Hosts \cup {None}
  /\ slot \in BOOLEAN /\ lock \in Owners
  /\ held \in Clients \cup {None} /\ victim \in Clients \cup {None}
  /\ status \in {"released", "connecting", "connected"}
  /\ leases \in Nat /\ operations \in Nat /\ activity \in Nat
  /\ closed \in BOOLEAN

\* The service has at most one session to the receiver that it has opened and
\* not finished closing, attempts whose caller was dropped aside.
OneSession ==
  \A c, d \in Clients :
    sess[c] \in {"open", "closing"} /\ sess[d] \in {"open", "closing"} => c = d

\* No session is closed under an operation: neither the idle release nor a
\* retirement nor shutdown takes away the session of an operation in flight.
NeverUnderOperation ==
  \A c \in Operations : cpc[c] = "leased" => sess[using[c]] = "open"

\* Whoever still holds a lease on a session that is over was told so.
SubscribersTold ==
  \A c \in Clients :
    cpc[c] = "leased" /\ sess[using[c]] # "open" => using[c] \in ended

\* While nobody is connecting or closing, the published status says whether the
\* service holds a session, unless a save was dropped in the middle of a close.
StatusTrue ==
  lock = Free /\ (\A s \in Savers : spc[s] # "dropped") =>
    status = IF held = None THEN "released" ELSE "connected"

\* Once every save has finished its retirement, the session in the slot is one
\* to the address in the file, however connects and saves interleaved.
AddressInFile ==
  held # None /\ lock = Free /\ (\A s \in Savers : spc[s] \in {"idle", "done"})
    => host[held] = saved

\* After shutdown no session is left and none is opened, also not by a request
\* that was under way when shutdown began.
ShutdownLeavesNone ==
  shut = "done" => held = None /\ \A c \in Clients : sess[c] # "open"

\* A session no lease keeps is closed or used again.
IdleReleased == held # None /\ leases = 0 ~> held = None \/ leases # 0

\* The receiver, which accepts a single control connection, never sees two:
\* "Never two connections for one receiver" (docs/v4,
\* phase-2-gui-on-port-architecture.md). It does not hold: a lease dropped in
\* its first synchronization leaves its connection up beside the next one.
OneConnection ==
  \A c, d \in Clients :
    /\ sess[c] \in {"open", "closing", "lingering"}
    /\ sess[d] \in {"open", "closing", "lingering"}
    => c = d
=============================================================================
