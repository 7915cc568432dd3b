------------------------ MODULE OperationGateProofs ------------------------
(***************************************************************************)
(* Proofs about the Operation Gate, for any number of agents, clients,     *)
(* requests, keys and operations, and for every retention limit and cap.   *)
(***************************************************************************)
EXTENDS OperationGate, FiniteSetTheorems, TLAPS

\* Eviction takes finished entries only.
LEMMA EvictedAreFinished ==
  /\ evict_finished \subseteq table
  /\ \A id \in evict_finished : is_terminal(status[id])
BY DEF evict_finished

\* What a session's outcome resolves to is a resolution.
LEMMA ResolveType ==
  \A o \in SessionOutcomes : /\ resolve(o) \in Resolutions
                             /\ resolve(o).dispatch = o.dispatch
BY DEF SessionOutcomes, resolve, Resolutions, Ended, Certainties

\* So is an end before the session.
LEMMA NotDispatchedType ==
  \A s \in Ended : /\ not_dispatched(s) \in Resolutions
                   /\ not_dispatched(s).status = s
                   /\ not_dispatched(s).dispatch = "not_dispatched"
BY DEF not_dispatched, Resolutions, Certainties

\* The parts of a resolution are a final status and a certainty.
LEMMA ResolutionParts ==
  \A r \in Resolutions : /\ r.status \in Ended
                         /\ r.status \in Statuses \cup {"none"}
                         /\ r.dispatch \in Certainties
BY DEF Resolutions, Statuses

\* `finish` leaves the snapshots well typed.
LEMMA FinishType ==
  ASSUME TypeOK, NEW id \in Ids, NEW r \in Resolutions, finish(id, r)
  PROVE  /\ status' \in [Ids -> Statuses \cup {"none"}]
         /\ dispatch' \in [Ids -> Certainties]
         /\ unsent' \subseteq Ids
<1>1. CASE Running(id)
  BY <1>1, ResolutionParts DEF TypeOK, finish
<1>2. CASE ~Running(id)
  BY <1>2 DEF TypeOK, finish, snapshot
<1>3. QED
  BY <1>1, <1>2

\* The gate's table, tasks and clients keep their types through every step.
THEOREM TypeCorrect == Spec => []TypeOK
<1>1. Init => TypeOK
  BY GateAssumption DEF Ids, Principals, Init, TypeOK, NoSub, NoRes, Resolutions, Ended, Certainties, Statuses, PCs
<1>2. TypeOK /\ [Next]_vars => TypeOK'
  <2> SUFFICES ASSUME TypeOK, [Next]_vars
               PROVE  TypeOK'
    OBVIOUS
  <2> USE DEF TypeOK, tableVars, taskVars, clientVars, snapshot, outside, history
  <2>1. ASSUME NEW c \in Clients, NEW request \in Requests,
               NEW key \in Keys \cup {NoKey}, Submit(c, request, key)
        PROVE  TypeOK'
    <3> USE GateAssumption DEF Ids, Principals
    <3> DEFINE id == next_id + 1
    <3>1. /\ next_id' = id /\ id \in Ids
          /\ table' \subseteq 1..id
          /\ PrincipalOf[c] \in Principals
      BY <2>1, EvictedAreFinished DEF Submit, TakeId
    <3>2. sub' \in [Ids -> [owner : Principals, key : Keys \cup {NoKey},
                            request : Requests \cup {"none"}]]
      BY <2>1, <3>1 DEF Submit
    <3>3. keys' \in [Principals \X Keys -> 0..MaxOps]
      BY <2>1, <3>1 DEF Submit, KeysAfter
    <3>4. status' \in [Ids -> Statuses \cup {"none"}]
      BY <2>1, <3>1 DEF Submit, Statuses, Pending
    <3>5. /\ cpc' \in [Clients -> {"idle", "spawn", "cancel", "cancelled"}]
          /\ cid' \in [Clients -> 0..MaxOps]
          /\ \A d \in Clients : cpc'[d] # "idle" => cid'[d] \in 1..next_id'
      BY <2>1, <3>1 DEF Submit
    <3>6. QED
      BY <2>1, <3>1, <3>2, <3>3, <3>4, <3>5 DEF Submit
  <2>2. ASSUME NEW c \in Clients, Client(c)
        PROVE  TypeOK'
    <3>0. /\ cpc[c] # "idle" => cid[c] \in Ids
          /\ 0 \in 0..MaxOps
      BY GateAssumption DEF Ids
    <3>1. CASE Spawn(c)
      BY <3>0, <3>1 DEF Spawn, Return, Go, PCs
    <3>2. CASE CancelChange(c)
      <4>1. "cancelled" \in Statuses
        BY DEF Statuses, Ended
      <4>2. status' \in [Ids -> Statuses \cup {"none"}]
        BY <3>0, <3>2, <4>1 DEF CancelChange
      <4>3. QED
        BY <3>0, <3>2, <4>2 DEF CancelChange, Return
    <3>3. CASE CancelAnswer(c)
      BY <3>0, <3>3 DEF CancelAnswer, Return
    <3>4. QED
      BY <2>2, <3>1, <3>2, <3>3 DEF Client
  <2>3. ASSUME NEW c \in Clients, NEW id \in Ids, CancelRead(c, id)
        PROVE  TypeOK'
    BY <2>3, GateAssumption DEF CancelRead, Ids
  <2>4. ASSUME NEW id \in Ids, Task(id)
        PROVE  TypeOK'
    <3> USE DEF Task, Precheck, RecordRefused, Lease, Reserve, Judge, Allow,
                AppendDecided, AppendDispatching, BeginSession, Withdrawn, SessionAnswers,
                FinishAgent, RecordFinished, DropGuard, Publish, Stop
    <3>1. UNCHANGED <<next_id, table, sub, keys, phase, cpc, cid, wrote, told, died>>
      BY <2>4
    <3>2. pc' \in [Ids -> PCs]
      <4>1. pc' = pc \/ \E p \in PCs : pc' = [pc EXCEPT ![id] = p]
        BY <2>4 DEF PCs, Go
      <4>2. QED  BY <4>1
    <3>3. counted' \subseteq Ids /\ announced' \subseteq Ids
      BY <2>4 DEF settle
    <3>4. in_flight' \in Int
      <4>1. in_flight' = in_flight \/ in_flight' = in_flight - 1
        BY <2>4 DEF CountOut
      <4>2. QED  BY <4>1
    <3>5. call' \in [Ids -> {"none", "pending", "answered"}]
      <4>1. CASE BeginSession(id)
        <5>1. \/ call' = call
              \/ call' = [call EXCEPT ![id] = "pending"]
          BY <4>1
        <5>2. QED  BY <5>1
      <4>2. CASE SessionAnswers(id)  BY <4>2
      <4>3. CASE ~BeginSession(id) /\ ~SessionAnswers(id)
        <5>1. call' = call  BY <2>4, <4>3
        <5>2. QED  BY <5>1
      <4>4. QED  BY <4>1, <4>2, <4>3
    <3>6. log' \in [Ids -> Statuses \cup {"none"}]
      <4> USE DEF Record
      <4>1. "cancelled" \in Statuses
        BY DEF Statuses, Ended
      <4>2. res[id].status \in Statuses \cup {"none"}
        BY ResolutionParts
      <4>3. \/ log' = log
            \/ \E s \in Statuses \cup {"none"} : log' = [log EXCEPT ![id] = s]
        <5>1. CASE RecordRefused(id)  BY <4>2, <5>1
        <5>2. CASE RecordFinished(id)  BY <4>2, <5>2
        <5>3. CASE Withdrawn(id)  BY <4>1, <5>3
        <5>4. CASE ~RecordRefused(id) /\ ~RecordFinished(id) /\ ~Withdrawn(id)
          BY <2>4, <5>4
        <5>5. QED  BY <5>1, <5>2, <5>3, <5>4
      <4>4. QED
        BY <4>3
    <3>7. res' \in [Ids -> Resolutions]
      <4>1. NoRes \in Resolutions
        BY DEF NoRes, Resolutions, Ended, Certainties
      <4>2. \A s \in {"denied", "approval_unavailable", "rejected", "cancelled"} :
              not_dispatched(s) \in Resolutions
        BY NotDispatchedType DEF Ended
      <4>3. \A o \in Outcomes : resolve(o) \in Resolutions
        BY ResolveType, GateAssumption
      <4>4. \/ res' = res
            \/ \E r \in Resolutions : res' = [res EXCEPT ![id] = r]
        <5>1. CASE Precheck(id) \/ Lease(id) \/ Judge(id) \/ Allow(id)
          BY <4>2, <5>1
        <5>2. CASE AppendDecided(id) \/ AppendDispatching(id)
          BY <4>2, <5>2
        <5>3. CASE SessionAnswers(id)  BY <4>3, <5>3
        <5>4. CASE DropGuard(id)  BY <4>1, <5>4
        <5>5. CASE \/ RecordRefused(id) \/ Reserve(id) \/ BeginSession(id)
                  \/ Withdrawn(id) \/ FinishAgent(id) \/ RecordFinished(id) \/ Publish(id)
          BY <5>5
        <5>6. QED  BY <2>4, <5>1, <5>2, <5>3, <5>4, <5>5
      <4>5. QED
        BY <4>4
    <3>8. /\ status' \in [Ids -> Statuses \cup {"none"}]
          /\ dispatch' \in [Ids -> Certainties]
          /\ unsent' \subseteq Ids
      <4>1. {"allowed", "in_session"} \subseteq Statuses
        BY DEF Statuses, Pending
      <4>2. CASE Precheck(id) \/ Lease(id)
        <5>1. not_dispatched("rejected") \in Resolutions
          BY NotDispatchedType DEF Ended
        <5>2. QED
          BY <4>2, <5>1, FinishType
      <4>3. CASE Allow(id) \/ BeginSession(id)
        <5>1. /\ \/ status' = status
                 \/ \E s \in Statuses : status' = [status EXCEPT ![id] = s]
              /\ UNCHANGED <<dispatch, unsent>>
          BY <4>1, <4>3
        <5>2. QED  BY <5>1
      <4>4. CASE FinishAgent(id)
        BY <4>4, FinishType
      <4>5. CASE DropGuard(id)
        <5>1. Unresolved(id) \in Resolutions
          BY DEF Unresolved, not_dispatched, Resolutions, Ended, Certainties
        <5>2. QED
          BY <4>5, <5>1, FinishType
      <4>6. CASE \/ RecordRefused(id) \/ Reserve(id) \/ Judge(id)
                \/ AppendDecided(id) \/ AppendDispatching(id)
                \/ Withdrawn(id) \/ SessionAnswers(id) \/ RecordFinished(id)
                \/ Publish(id)
        BY <4>6
      <4>7. QED
        BY <2>4, <4>2, <4>3, <4>4, <4>5, <4>6
    <3>9. QED
      BY <3>1, <3>2, <3>3, <3>4, <3>5, <3>6, <3>7, <3>8
  <2>5. ASSUME NEW id \in Ids, Panic(id) \/ SessionWrites(id)
        PROVE  TypeOK'
    BY <2>5 DEF Panic, SessionWrites, Go, PCs
  <2>6. CASE ShutdownBegin \/ ShutdownEnd \/ Stopped \/ UNCHANGED vars
    BY <2>6 DEF ShutdownBegin, ShutdownEnd, Stopped, vars
  <2>7. QED
    BY <2>1, <2>2, <2>3, <2>4, <2>5, <2>6 DEF Next
<1>3. QED
  BY <1>1, <1>2, PTL DEF Spec

-----------------------------------------------------------------------------
(* The inductive invariant that ties an operation's status to its task, to *)
(* the call into the session and to what the session did with it.          *)

\* Where a task is before it may have called the session.
Early == {"none", "start", "refused", "lease", "reserve", "judge", "allow",
          "decided", "dispatching", "begin", "withdrawn"}

\* The session is called once, from `begin`, on a status no cancel has left;
\* whatever may still write is neither cancelled nor ended "not_dispatched".
OpInv(id) ==
  /\ id > next_id => status[id] = "none" /\ pc[id] = "none"
  /\ status[id] \in Pending \cup {"none"} => call[id] = "none"
  /\ pc[id] \in Early => call[id] = "none"
  /\ pc[id] = "session" => call[id] = "pending"
  /\ pc[id] \in {"finish", "record"} => call[id] # "pending"
  /\ id \in wrote => call[id] # "none"
  /\ pc[id] = "finish" /\ id \in wrote => res[id].dispatch # "not_dispatched"
  /\ is_terminal(status[id]) /\ (id \in wrote \/ call[id] = "pending")
       => dispatch[id] # "not_dispatched"
  /\ id \in told => status[id] = "cancelled" /\ call[id] = "none"
  /\ id \in wrote \/ call[id] = "pending" => id \in counted
  /\ pc[id] \in {"allow", "decided", "dispatching", "begin"} => id \in counted

\* A client about to answer a cancel has won it; a client about to spawn a task
\* is alone in that.
ClientInv(c) ==
  /\ cpc[c] = "cancelled" => /\ status[cid[c]] = "cancelled"
                             /\ call[cid[c]] = "none"
  /\ cpc[c] = "spawn" => /\ pc[cid[c]] = "none"
                         /\ \A d \in Clients : cpc[d] = "spawn" /\ cid[d] = cid[c]
                                               => d = c

GateInv ==
  /\ \A id \in Ids : OpInv(id)
  /\ \A c \in Clients : ClientInv(c)

\* It holds before any operation is admitted.
LEMMA GateInvInit == Init => GateInv
BY DEF Init, GateInv, OpInv, ClientInv, Pending, is_terminal, Ended

\* A step of an operation's task keeps the invariant.
LEMMA GateInvTask ==
  ASSUME TypeOK, TypeOK', GateInv, NEW id \in Ids, Task(id)
  PROVE  GateInv'
<1> USE DEF TypeOK, tableVars, taskVars, clientVars, snapshot, outside, history
<1> DEFINE Same(j) == /\ status'[j] = status[j] /\ dispatch'[j] = dispatch[j]
                      /\ pc'[j] = pc[j] /\ res'[j] = res[j] /\ call'[j] = call[j]
                      /\ (j \in counted') = (j \in counted)
<1>1. UNCHANGED <<next_id, cpc, cid, wrote, told>>
  BY DEF Task, Precheck, RecordRefused, Lease, Reserve, Judge, Allow, AppendDecided,
     AppendDispatching, BeginSession, Withdrawn, SessionAnswers, FinishAgent, RecordFinished,
     DropGuard, Publish
<1>2. \A j \in Ids \ {id} : Same(j)
  <2> SUFFICES ASSUME NEW j \in Ids \ {id}  PROVE Same(j)
    OBVIOUS
  <2> USE DEF Go, finish, settle, Stop
  <2>1. CASE Precheck(id)  BY <2>1 DEF Precheck
  <2>2. CASE RecordRefused(id)  BY <2>2 DEF RecordRefused
  <2>3. CASE Lease(id)  BY <2>3 DEF Lease
  <2>4. CASE Reserve(id)  BY <2>4 DEF Reserve
  <2>5. CASE Judge(id)  BY <2>5 DEF Judge
  <2>6. CASE Allow(id)  BY <2>6 DEF Allow
  <2>7. CASE AppendDecided(id)  BY <2>7 DEF AppendDecided
  <2>8. CASE AppendDispatching(id)  BY <2>8 DEF AppendDispatching
  <2>9. CASE BeginSession(id)  BY <2>9 DEF BeginSession
  <2>10. CASE SessionAnswers(id)  BY <2>10 DEF SessionAnswers
  <2>11. CASE FinishAgent(id)  BY <2>11 DEF FinishAgent
  <2>12. CASE RecordFinished(id)  BY <2>12 DEF RecordFinished
  <2>13. CASE DropGuard(id)  BY <2>13 DEF DropGuard
  <2>14. CASE Publish(id)  BY <2>14 DEF Publish
  <2>15. CASE Withdrawn(id)  BY <2>15 DEF Withdrawn
  <2>16. QED
    BY <2>1, <2>2, <2>3, <2>4, <2>5, <2>6, <2>7, <2>8, <2>9, <2>10, <2>11, <2>12,
       <2>13, <2>14, <2>15 DEF Task
<1>3. OpInv(id)'
  <2>0. OpInv(id)  BY DEF GateInv
  <2> USE <1>1, <2>0 DEF OpInv, Go, At, Early, is_terminal
  <2>n. \A s \in Ended : not_dispatched(s).status = s
    BY NotDispatchedType
  <2>1. CASE Precheck(id)
    BY <2>1, NotDispatchedType DEF Precheck, finish, Running, Ended, Pending
  <2>2. CASE RecordRefused(id)  BY <2>2 DEF RecordRefused
  <2>3. CASE Lease(id)
    BY <2>3, NotDispatchedType DEF Lease, finish, Running, Ended, Pending
  <2>4. CASE Reserve(id)  BY <2>4 DEF Reserve
  <2>5. CASE Judge(id)  BY <2>5 DEF Judge
  <2>6. CASE Allow(id)  BY <2>6 DEF Allow, Stop, settle, Pending, Ended
  <2>7. CASE AppendDecided(id)  BY <2>7 DEF AppendDecided, Stop, settle
  <2>8. CASE AppendDispatching(id)  BY <2>8 DEF AppendDispatching, Stop, settle
  <2>9. CASE BeginSession(id)
    BY <2>9 DEF BeginSession, MayEnter, settle, Pending, Ended
  <2>10. CASE SessionAnswers(id)
    BY <2>10, ResolveType, GateAssumption DEF SessionAnswers, settle, MayHaveWritten
  <2>11. CASE FinishAgent(id)
    <3>1. /\ res[id].status \in Ended
          /\ Ended \cap (Pending \cup {"none"}) = {}
          /\ "cancelled" \in Ended
      BY ResolutionParts DEF Ended, Pending
    <3>2. CASE Running(id)
      BY <2>11, <3>1, <3>2 DEF FinishAgent, finish, Running
    <3>3. CASE ~Running(id)
      BY <2>11, <3>3 DEF FinishAgent, finish
    <3>4. QED  BY <3>2, <3>3
  <2>12. CASE RecordFinished(id)  BY <2>12 DEF RecordFinished
  <2>13. CASE DropGuard(id)
    <3>1. CASE Running(id) /\ status[id] = "in_session"
      <4>1. /\ status' = [status EXCEPT ![id] = "indeterminate"]
            /\ dispatch' = [dispatch EXCEPT ![id] = "unknown"]
            /\ UNCHANGED <<pc, res, call, counted>>
        BY <2>13, <3>1 DEF DropGuard, finish, LeftRunning, Unresolved
      <4>2. QED
        BY <3>1, <4>1 DEF Ended, Pending
    <3>2. CASE Running(id) /\ status[id] # "in_session"
      <4>1. /\ status' = [status EXCEPT ![id] = "rejected"]
            /\ dispatch' = [dispatch EXCEPT ![id] = "not_dispatched"]
            /\ UNCHANGED <<pc, res, call, counted>>
        BY <2>13, <3>2 DEF DropGuard, finish, LeftRunning, Unresolved, not_dispatched
      <4>2. call[id] = "none"
        BY <3>2 DEF Running, Statuses
      <4>3. QED
        BY <3>2, <4>1, <4>2 DEF Ended, Pending, Running
    <3>3. CASE ~Running(id)
      BY <2>13, <3>3 DEF DropGuard, LeftRunning
    <3>4. QED  BY <3>1, <3>2, <3>3
  <2>14. CASE Publish(id)  BY <2>14 DEF Publish
  <2>15. CASE Withdrawn(id)  BY <2>15 DEF Withdrawn, settle
  <2>16. QED
    BY <2>1, <2>2, <2>3, <2>4, <2>5, <2>6, <2>7, <2>8, <2>9, <2>10, <2>11, <2>12,
       <2>13, <2>14, <2>15 DEF Task
<1>4. \A j \in Ids \ {id} : OpInv(j)'
  BY <1>1, <1>2 DEF GateInv, OpInv
<1>5. /\ pc[id] = "none" => pc'[id] = "none"
      /\ status[id] = "cancelled" => status'[id] = "cancelled"
  BY DEF Task, At, Precheck, RecordRefused, Lease, Reserve, Judge, Allow,
     AppendDecided, AppendDispatching, BeginSession, MayEnter, Withdrawn, SessionAnswers,
     FinishAgent, RecordFinished, DropGuard, Publish, finish, Running, is_terminal,
     Ended
<1>c. status[id] = "cancelled" /\ call[id] = "none" => call'[id] = "none"
  <2>1. CASE SessionAnswers(id)
    BY <2>1 DEF GateInv, OpInv, SessionAnswers, At
  <2>2. CASE BeginSession(id)
    BY <2>2 DEF BeginSession, MayEnter
  <2>3. CASE ~SessionAnswers(id) /\ ~BeginSession(id)
    BY <2>3 DEF Task, Precheck, RecordRefused, Lease, Reserve, Judge, Allow,
       AppendDecided, AppendDispatching, Withdrawn, FinishAgent, RecordFinished,
       DropGuard, Publish
  <2>4. QED  BY <2>1, <2>2, <2>3
<1>6. \A c \in Clients : ClientInv(c)'
  <2> SUFFICES ASSUME NEW c \in Clients  PROVE ClientInv(c)'
    OBVIOUS
  <2>1. cpc[c] # "idle" => cid[c] \in Ids
    BY GateAssumption DEF Ids
  <2>2. cpc[c] = "cancelled" => /\ status'[cid[c]] = "cancelled"
                                /\ call'[cid[c]] = "none"
    BY <1>2, <1>5, <1>c, <2>1 DEF GateInv, ClientInv
  <2>3. cpc[c] = "spawn" => pc'[cid[c]] = "none"
    BY <1>2, <1>5, <2>1 DEF GateInv, ClientInv
  <2>4. QED
    BY <1>1, <2>2, <2>3 DEF GateInv, ClientInv
<1>7. QED
  BY <1>3, <1>4, <1>6 DEF GateInv

\* So does a step of a client.
LEMMA GateInvClient ==
  ASSUME TypeOK, TypeOK', GateInv, NEW c \in Clients, Client(c)
  PROVE  GateInv'
<1> USE DEF TypeOK, tableVars, taskVars, clientVars, snapshot, outside, history
<1>0. /\ cid[c] \in Ids
      /\ cpc[c] # "idle"
      /\ OpInv(cid[c]) /\ ClientInv(c)
  BY GateAssumption DEF Client, Spawn, CancelChange, CancelAnswer, GateInv, Ids
<1>1. CASE Spawn(c)
  <2>1. /\ \E w \in {"start", "lease"} : pc' = [pc EXCEPT ![cid[c]] = w]
        /\ cpc' = [cpc EXCEPT ![c] = "idle"] /\ cid' = [cid EXCEPT ![c] = 0]
        /\ cpc[c] = "spawn"
        /\ UNCHANGED <<next_id, status, dispatch, res, call, wrote, counted, told>>
    BY <1>1 DEF Spawn, Go, Return
  <2>2. \A id \in Ids : OpInv(id)'
    <3> SUFFICES ASSUME NEW id \in Ids  PROVE OpInv(id)'
      OBVIOUS
    <3>1. OpInv(id)  BY DEF GateInv
    <3>2. CASE id = cid[c]
      BY <1>0, <2>1, <3>1, <3>2 DEF OpInv, ClientInv, Early
    <3>3. CASE id # cid[c]
      <4>1. pc'[id] = pc[id]  BY <1>0, <2>1, <3>3
      <4>2. QED  BY <2>1, <3>1, <4>1 DEF OpInv
    <3>4. QED  BY <3>2, <3>3
  <2>3. \A d \in Clients : ClientInv(d)'
    BY <1>0, <2>1 DEF GateInv, ClientInv
  <2>4. QED  BY <2>2, <2>3 DEF GateInv
<1>2. CASE CancelChange(c)
  <2>0. UNCHANGED <<next_id, pc, dispatch, res, call, wrote, counted, told>>
    BY <1>2 DEF CancelChange
  <2>1. CASE status[cid[c]] \in Pending /\ cid[c] \in table
    <3>1. /\ status' = [status EXCEPT ![cid[c]] = "cancelled"]
          /\ cpc' = [cpc EXCEPT ![c] = "cancelled"] /\ cid' = cid
      BY <1>2, <2>1 DEF CancelChange, is_cancellable
    <3>2. \A id \in Ids : OpInv(id)'
      BY <1>0, <2>0, <2>1, <3>1 DEF GateInv, OpInv, Early, is_terminal, Pending, Ended
    <3>3. \A d \in Clients : ClientInv(d)'
      BY <1>0, <2>0, <2>1, <3>1 DEF GateInv, ClientInv, OpInv, Pending
    <3>4. QED  BY <3>2, <3>3 DEF GateInv
  <2>2. CASE ~(status[cid[c]] \in Pending /\ cid[c] \in table)
    <3>1. /\ status' = status
          /\ cpc' = [cpc EXCEPT ![c] = "idle"] /\ cid' = [cid EXCEPT ![c] = 0]
      BY <1>2, <2>2 DEF CancelChange, is_cancellable, Return
    <3>2. QED
      BY <2>0, <3>1 DEF GateInv, OpInv, ClientInv
  <2>3. QED  BY <2>1, <2>2
<1>3. CASE CancelAnswer(c)
  <2>1. /\ told' = told \cup {cid[c]}
        /\ cpc' = [cpc EXCEPT ![c] = "idle"] /\ cid' = [cid EXCEPT ![c] = 0]
        /\ cpc[c] = "cancelled"
        /\ UNCHANGED <<next_id, status, dispatch, pc, res, call, wrote, counted>>
    BY <1>3 DEF CancelAnswer, Return
  <2>2. \A id \in Ids : OpInv(id)'
    BY <1>0, <2>1 DEF GateInv, OpInv, ClientInv
  <2>3. \A d \in Clients : ClientInv(d)'
    BY <2>1 DEF GateInv, ClientInv
  <2>4. QED  BY <2>2, <2>3 DEF GateInv
<1>4. QED
  BY <1>1, <1>2, <1>3 DEF Client

\* So does every other step.
LEMMA GateInvNext ==
  ASSUME TypeOK, TypeOK', GateInv, [Next]_vars
  PROVE  GateInv'
<1> USE DEF TypeOK, tableVars, taskVars, clientVars, snapshot, outside, history
<1>1. ASSUME NEW c \in Clients, NEW request \in Requests,
             NEW key \in Keys \cup {NoKey}, Submit(c, request, key)
      PROVE  GateInv'
  <2> DEFINE id == next_id + 1
  <2>1. /\ next_id' = id /\ id \in Ids /\ id > next_id
        /\ \E s \in Pending : status' = [status EXCEPT ![id] = s]
        /\ cpc' = [cpc EXCEPT ![c] = "spawn"] /\ cid' = [cid EXCEPT ![c] = id]
        /\ UNCHANGED <<dispatch, pc, res, call, wrote, counted, told>>
    <3>1. next_id' = id /\ next_id < MaxOps
      BY <1>1 DEF Submit, TakeId
    <3>2. id \in Ids /\ id > next_id
      BY <3>1, GateAssumption DEF Ids
    <3>3. \E s \in Pending : status' = [status EXCEPT ![id] = s]
      BY <1>1 DEF Submit, Pending
    <3>4. cpc' = [cpc EXCEPT ![c] = "spawn"] /\ cid' = [cid EXCEPT ![c] = id]
      BY <1>1 DEF Submit
    <3>5. UNCHANGED <<dispatch, pc, res, call, wrote, counted, told>>
      BY <1>1 DEF Submit
    <3>6. QED  BY <3>1, <3>2, <3>3, <3>4, <3>5
  <2>2. \A j \in Ids : OpInv(j)'
    BY <2>1, GateAssumption DEF GateInv, OpInv, is_terminal, Pending, Ended, Ids
  <2>3. \A d \in Clients : ClientInv(d)'
    <3>1. \A d \in Clients : cpc[d] # "idle" => cid[d] \in Ids /\ cid[d] # id
      BY GateAssumption DEF Ids
    <3>2. OpInv(id)  BY <2>1 DEF GateInv
    <3>3. QED
      BY <2>1, <3>1, <3>2 DEF GateInv, ClientInv, OpInv
  <2>4. QED  BY <2>2, <2>3 DEF GateInv
<1>2. ASSUME NEW c \in Clients, NEW id \in Ids, CancelRead(c, id)
      PROVE  GateInv'
  BY <1>2 DEF CancelRead, GateInv, OpInv, ClientInv
<1>3. ASSUME NEW id \in Ids, Panic(id)
      PROVE  GateInv'
  BY <1>3 DEF Panic, Go, GateInv, OpInv, ClientInv, Early
<1>4. ASSUME NEW id \in Ids, SessionWrites(id)
      PROVE  GateInv'
  BY <1>4 DEF SessionWrites, GateInv, OpInv, ClientInv
<1>5. CASE ShutdownBegin \/ ShutdownEnd \/ Stopped \/ UNCHANGED vars
  BY <1>5 DEF ShutdownBegin, ShutdownEnd, Stopped, vars, GateInv, OpInv, ClientInv
<1>6. QED
  BY <1>1, <1>2, <1>3, <1>4, <1>5, GateInvTask, GateInvClient DEF Next

\* Every state of the gate satisfies the inductive invariant.
THEOREM GateInvariant == Spec => []GateInv
<1>1. TypeOK /\ TypeOK' /\ GateInv /\ [Next]_vars => GateInv'
  BY GateInvNext
<1>2. QED
  BY <1>1, GateInvInit, TypeCorrect, PTL DEF Spec

\* An operation a client was told is cancelled never reaches the session
\* (begin_session and cancel are decided under one lock).
THEOREM CancelsWin == Spec => []CancelWins
<1>1. TypeOK /\ GateInv => CancelWins
  BY DEF GateInv, OpInv, CancelWins, TypeOK
<1>2. QED
  BY <1>1, TypeCorrect, GateInvariant, PTL

\* An operation that wrote to the receiver never ends "not_dispatched", even
\* when its task panicked (OperationTask::drop).
THEOREM EndsAreHonest == Spec => []HonestEnd
<1>1. TypeOK /\ GateInv => HonestEnd
  BY DEF GateInv, OpInv, HonestEnd, TypeOK
<1>2. QED
  BY <1>1, TypeCorrect, GateInvariant, PTL

\* Every write has its place in the budget ledger (judge, begin_operator_write
\* and settle).
THEOREM LedgerCovers == Spec => []LedgerCoversWrites
<1>1. TypeOK /\ GateInv => LedgerCoversWrites
  BY DEF GateInv, OpInv, LedgerCoversWrites, TypeOK
<1>2. QED
  BY <1>1, TypeCorrect, GateInvariant, PTL

-----------------------------------------------------------------------------
(* The table's own invariants.                                             *)

\* Every idempotency key leads to the entry admitted with it, so admit's lookup
\* never fails.
THEOREM KeysAlwaysResolve == Spec => []KeysResolve
<1>1. Init => KeysResolve
  BY DEF Init, KeysResolve
<1>2. TypeOK /\ KeysResolve /\ [Next]_vars => KeysResolve'
  <2> SUFFICES ASSUME TypeOK, KeysResolve, [Next]_vars
               PROVE  KeysResolve'
    OBVIOUS
  <2> USE DEF TypeOK, tableVars
  <2>1. ASSUME NEW c \in Clients, NEW request \in Requests,
               NEW key \in Keys \cup {NoKey}, Submit(c, request, key)
        PROVE  KeysResolve'
    <3> DEFINE id == next_id + 1
               owner == PrincipalOf[c]
    <3>1. /\ id \in Ids /\ id \notin table
          /\ table' = (table \ evict_finished) \cup {id}
          /\ sub' = [sub EXCEPT ![id] = [owner |-> owner, key |-> key,
                                         request |-> request]]
          /\ keys' = KeysAfter(evict_finished, owner, key, id)
      BY <2>1, GateAssumption DEF Submit, Ids
    <3>2. SUFFICES ASSUME NEW ok \in Principals \X Keys, keys'[ok] # 0
                   PROVE  /\ keys'[ok] \in table'
                          /\ <<sub'[keys'[ok]].owner, sub'[keys'[ok]].key>> = ok
      BY DEF KeysResolve
    <3>3. CASE ok = <<owner, key>>
      BY <3>1, <3>3 DEF KeysAfter
    <3>4. CASE ok # <<owner, key>>
      <4>1. /\ keys'[ok] = keys[ok]
            /\ \A e \in evict_finished : <<sub[e].owner, sub[e].key>> # ok
        BY <3>1, <3>2, <3>4 DEF KeysAfter
      <4>2. /\ keys[ok] \in table
            /\ <<sub[keys[ok]].owner, sub[keys[ok]].key>> = ok
        BY <3>2, <4>1 DEF KeysResolve
      <4>3. keys[ok] \notin evict_finished /\ keys[ok] # id
        BY <3>1, <4>1, <4>2
      <4>4. sub'[keys[ok]] = sub[keys[ok]]
        BY <3>1, <4>2, <4>3, GateAssumption DEF Ids
      <4>5. QED
        BY <3>1, <4>1, <4>2, <4>3, <4>4
    <3>5. QED  BY <3>3, <3>4
  <2>2. CASE UNCHANGED <<table, sub, keys>>
    BY <2>2 DEF KeysResolve
  <2>3. QED
    BY <2>1, <2>2 DEF Next, Client, Spawn, CancelRead, CancelChange, CancelAnswer,
       Task, Precheck, RecordRefused, Lease, Reserve, Judge, Allow, AppendDecided,
       AppendDispatching, BeginSession, Withdrawn, SessionAnswers, FinishAgent,
       RecordFinished, DropGuard, Publish, Panic, SessionWrites, ShutdownBegin,
       ShutdownEnd, Stopped, vars
<1>3. QED
  BY <1>1, <1>2, TypeCorrect, PTL DEF Spec

-----------------------------------------------------------------------------
(***************************************************************************)
(* The table and the count of operations in flight.                        *)
(***************************************************************************)

\* No step brings a finished operation back, nor, other than an admission,
\* adds an entry or changes what was submitted.
LEMMA OnlySubmitAdds ==
  ASSUME TypeOK, [Next]_vars,
         ~ \E c \in Clients, request \in Requests, key \in Keys \cup {NoKey} :
             Submit(c, request, key)
  PROVE  /\ UNCHANGED <<table, sub>>
         /\ \A id \in Ids : is_terminal(status[id]) => status'[id] = status[id]
<1> USE DEF TypeOK, tableVars, snapshot, is_terminal
<1>1. UNCHANGED <<table, sub>>
  BY DEF Next, Client, Spawn, CancelRead, CancelChange, CancelAnswer, Task, Precheck,
     RecordRefused, Lease, Reserve, Judge, Allow, AppendDecided, AppendDispatching,
     BeginSession, Withdrawn, SessionAnswers, FinishAgent, RecordFinished, DropGuard,
     Publish, Panic, SessionWrites, ShutdownBegin, ShutdownEnd, Stopped, vars
<1>2. ASSUME NEW id \in Ids, NEW r, finish(id, r), NEW j \in Ids, status[j] \in Ended
      PROVE  status'[j] = status[j]
  BY <1>2 DEF finish, Running
<1>3. SUFFICES ASSUME NEW j \in Ids, status[j] \in Ended
               PROVE  status'[j] = status[j]
  BY <1>1
<1>4. ASSUME NEW id \in Ids, Task(id)
      PROVE  status'[j] = status[j]
  <2>1. CASE Precheck(id) \/ Lease(id) \/ FinishAgent(id) \/ DropGuard(id)
    BY <1>2, <1>3, <2>1 DEF Precheck, Lease, FinishAgent, DropGuard
  <2>2. CASE Allow(id) \/ BeginSession(id)
    BY <1>3, <2>2 DEF Allow, BeginSession, MayEnter, Ended
  <2>3. CASE UNCHANGED status
    BY <2>3
  <2>4. QED
    BY <1>4, <2>1, <2>2, <2>3 DEF Task, RecordRefused, Reserve, Judge, AppendDecided,
       AppendDispatching, Withdrawn, SessionAnswers, RecordFinished, Publish
<1>5. ASSUME NEW c \in Clients, CancelChange(c)
      PROVE  status'[j] = status[j]
  BY <1>3, <1>5 DEF CancelChange, is_cancellable, Pending, Ended
<1>6. CASE UNCHANGED status
  BY <1>6
<1>7. QED
  BY <1>4, <1>5, <1>6 DEF Next, Client, Spawn, CancelRead, CancelAnswer, Panic,
     SessionWrites, ShutdownBegin, ShutdownEnd, Stopped, vars

\* Identical requests of one principal run once (admit finds the one that runs).
THEOREM IdenticalRunOnce == Spec => []NoTwins
<1>1. Init => NoTwins
  BY DEF Init, NoTwins
<1>2. TypeOK /\ NoTwins /\ [Next]_vars => NoTwins'
  <2> SUFFICES ASSUME TypeOK, NoTwins, [Next]_vars
               PROVE  NoTwins'
    OBVIOUS
  <2> USE DEF TypeOK, Running, is_terminal
  <2>0. table \subseteq Ids
    BY GateAssumption DEF Ids
  <2>1. ASSUME NEW c \in Clients, NEW request \in Requests,
               NEW key \in Keys \cup {NoKey}, Submit(c, request, key)
        PROVE  NoTwins'
    <3> DEFINE id == next_id + 1
               owner == PrincipalOf[c]
    <3>1. /\ id \in Ids /\ id \notin table
          /\ table' \subseteq table \cup {id}
          /\ sub' = [sub EXCEPT ![id] = [owner |-> owner, key |-> key,
                                         request |-> request]]
          /\ \E s \in Pending : status' = [status EXCEPT ![id] = s]
      <4>1. id \in Ids /\ id \notin table
        BY <2>1, GateAssumption DEF Submit, Ids
      <4>2. \E s \in Pending : status' = [status EXCEPT ![id] = s]
        BY <2>1 DEF Submit, Pending
      <4>3. QED
        BY <2>1, <4>1, <4>2 DEF Submit
    <3>2. ~ \E j \in table : /\ Running(j)
                             /\ sub[j].owner = owner /\ sub[j].request = request
      BY <2>1 DEF Submit, Existing
    <3>3. \A j \in table : status'[j] = status[j] /\ sub'[j] = sub[j]
      BY <2>0, <3>1
    <3>4. sub'[id].owner = owner /\ sub'[id].request = request
      BY <3>1
    <3>5. QED
      BY <3>1, <3>2, <3>3, <3>4 DEF NoTwins
  <2>2. CASE ~ \E c \in Clients, request \in Requests, key \in Keys \cup {NoKey} :
                 Submit(c, request, key)
    BY <2>0, <2>2, OnlySubmitAdds DEF NoTwins
  <2>3. QED
    BY <2>1, <2>2
<1>3. QED
  BY <1>1, <1>2, TypeCorrect, PTL DEF Spec

\* The operations that count as in flight.
InFlight == {id \in 1..next_id : pc[id] # "done"}

\* Counting in an admission, and counting out a task, keep the number exact.
LEMMA InFlightNext ==
  ASSUME TypeOK, GateInv, InFlightExact, [Next]_vars
  PROVE  InFlightExact'
<1> USE DEF TypeOK, tableVars, taskVars
<1>0. IsFiniteSet(InFlight) /\ Cardinality(InFlight) \in Nat
  <2>1. IsFiniteSet(1..next_id)
    BY FS_Interval
  <2>2. InFlight \in SUBSET (1..next_id)
    BY DEF InFlight
  <2>3. QED
    BY <2>1, <2>2, FS_Subset, FS_CardinalityType
<1>e. InFlightExact <=> in_flight = Cardinality(InFlight)
  BY DEF InFlightExact, InFlight
<1>f. InFlightExact' <=> in_flight' = Cardinality(InFlight')
  BY DEF InFlightExact, InFlight
<1>1. ASSUME NEW c \in Clients, NEW request \in Requests,
             NEW key \in Keys \cup {NoKey}, Submit(c, request, key)
      PROVE  InFlightExact'
  <2> DEFINE id == next_id + 1
  <2>1. /\ next_id' = id /\ id \in Ids /\ UNCHANGED pc
        /\ in_flight' = in_flight + 1
    BY <1>1, GateAssumption DEF Submit, TakeId, Ids
  <2>2. pc[id] = "none"
    BY <2>1 DEF GateInv, OpInv
  <2>3. InFlight' = InFlight \cup {id} /\ id \notin InFlight
    <3>1. 1..next_id' = (1..next_id) \cup {id} /\ id \notin 1..next_id
      <4>1. next_id \in Nat /\ next_id' = next_id + 1
        BY <2>1, GateAssumption
      <4>2. QED
        BY <4>1
    <3>2. QED
      BY <2>1, <2>2, <3>1 DEF InFlight
  <2>4. QED
    BY <1>0, <1>e, <1>f, <2>1, <2>3, FS_AddElement
<1>2. ASSUME NEW id \in Ids, DropGuard(id)
      PROVE  InFlightExact'
  <2>1. CASE LeftRunning(id)
    <3>1. UNCHANGED <<next_id, pc, in_flight>>
      BY <1>2, <2>1 DEF DropGuard
    <3>2. QED
      BY <3>1 DEF InFlightExact
  <2>2. CASE ~LeftRunning(id)
    <3>1. /\ pc[id] = "exit" /\ pc' = [pc EXCEPT ![id] = "done"]
          /\ in_flight' = in_flight - 1 /\ UNCHANGED next_id
      BY <1>2, <2>2 DEF DropGuard, At, Go, CountOut
    <3>2. id \in 1..next_id
      BY <3>1, GateAssumption DEF GateInv, OpInv, Ids
    <3>3. InFlight' = InFlight \ {id} /\ id \in InFlight
      BY <3>1, <3>2, GateAssumption DEF InFlight, Ids
    <3>4. QED
      BY <1>0, <1>e, <1>f, <3>1, <3>3, FS_RemoveElement
  <2>3. QED
    BY <2>1, <2>2
<1>3. CASE /\ UNCHANGED <<next_id, in_flight>>
           /\ \A id \in Ids : pc'[id] = "done" <=> pc[id] = "done"
  <2>1. InFlight' = InFlight
    BY <1>3, GateAssumption DEF InFlight, Ids
  <2>2. QED
    BY <1>3, <1>e, <1>f, <2>1
<1>4. ASSUME NEW id \in Ids, Task(id), ~DropGuard(id)
      PROVE  InFlightExact'
  <2> USE DEF At, Go, Stop
  <2>1. CASE Precheck(id) \/ RecordRefused(id) \/ Lease(id) \/ Reserve(id)
    BY <1>3, <2>1 DEF Precheck, RecordRefused, Lease, Reserve
  <2>2. CASE Judge(id) \/ Allow(id) \/ AppendDecided(id) \/ AppendDispatching(id)
    BY <1>3, <2>2 DEF Judge, Allow, AppendDecided, AppendDispatching
  <2>3. CASE BeginSession(id) \/ Withdrawn(id) \/ SessionAnswers(id)
    BY <1>3, <2>3 DEF BeginSession, Withdrawn, SessionAnswers
  <2>4. CASE FinishAgent(id) \/ RecordFinished(id) \/ Publish(id)
    BY <1>3, <2>4 DEF FinishAgent, RecordFinished, Publish
  <2>5. QED
    BY <1>4, <2>1, <2>2, <2>3, <2>4 DEF Task
<1>5. ASSUME NEW c \in Clients, Spawn(c)
      PROVE  InFlightExact'
  <2>1. pc[cid[c]] = "none" /\ cid[c] \in Ids
    BY <1>5, GateAssumption DEF Spawn, GateInv, ClientInv, Ids
  <2>2. QED
    BY <1>3, <1>5, <2>1 DEF Spawn, Go
<1>6. ASSUME NEW id \in Ids, Panic(id)
      PROVE  InFlightExact'
  BY <1>3, <1>6 DEF Panic, Go
<1>7. CASE UNCHANGED <<next_id, in_flight, pc>>
  BY <1>3, <1>7
<1>8. QED
  BY <1>1, <1>2, <1>4, <1>5, <1>6, <1>7 DEF Next, Client, CancelRead, CancelChange,
     CancelAnswer, SessionWrites, ShutdownBegin, ShutdownEnd, Stopped, vars

\* What shutdown waits for is exact: in_flight counts every admitted operation
\* whose task has not ended, and never goes below zero.
THEOREM InFlightIsExact == Spec => []InFlightExact
<1>1. Init => InFlightExact
  <2>1. Init => {id \in 1..next_id : pc[id] # "done"} = {}
    BY DEF Init
  <2>2. QED
    BY <2>1, FS_EmptySet DEF Init, InFlightExact
<1>2. TypeOK /\ GateInv /\ InFlightExact /\ [Next]_vars => InFlightExact'
  BY InFlightNext
<1>3. QED
  BY <1>1, <1>2, TypeCorrect, GateInvariant, PTL DEF Spec

-----------------------------------------------------------------------------
(* Reservations in the budget ledger.                                      *)

\* Where a task is before it has asked for a place in the ledger.
Unreserved == {"none", "start", "refused", "lease", "reserve", "judge"}

\* Where a task that ended in order without calling the session has settled.
Settled == {"finish", "record", "exit", "done"}

\* A place is taken after `reserve` or `judge`, and is given back on the way to
\* `finish` unless the session was called.
ReservationInv ==
  \A id \in Ids :
    /\ pc[id] \in Unreserved => id \notin counted
    /\ pc[id] \in Settled /\ call[id] = "none" /\ id \notin died
         => id \notin counted

\* Every step keeps what is known of the reservations.
LEMMA ReservationNext ==
  ASSUME TypeOK, GateInv, ReservationInv, [Next]_vars
  PROVE  ReservationInv'
<1> USE DEF TypeOK, tableVars, taskVars, clientVars, snapshot, outside, history
<1>1. ASSUME NEW id \in Ids, Task(id)
      PROVE  ReservationInv'
  <2> DEFINE Known(i) == /\ pc[i] \in Unreserved => i \notin counted
                         /\ pc[i] \in Settled /\ call[i] = "none" /\ i \notin died
                              => i \notin counted
  <2>0. Known(id) /\ OpInv(id)
    BY DEF ReservationInv, GateInv
  <2>1. /\ UNCHANGED died
        /\ \A i \in Ids \ {id} : /\ pc'[i] = pc[i] /\ call'[i] = call[i]
                                 /\ i \in counted' <=> i \in counted
    <3> USE DEF Go, settle, Stop
    <3>1. CASE Precheck(id) \/ RecordRefused(id) \/ Lease(id) \/ Reserve(id)
      BY <3>1 DEF Precheck, RecordRefused, Lease, Reserve
    <3>2. CASE Judge(id) \/ Allow(id) \/ AppendDecided(id)
      BY <3>2 DEF Judge, Allow, AppendDecided
    <3>3. CASE AppendDispatching(id) \/ BeginSession(id) \/ Withdrawn(id)
      BY <3>3 DEF AppendDispatching, BeginSession, Withdrawn
    <3>4. CASE SessionAnswers(id) \/ FinishAgent(id) \/ RecordFinished(id)
      BY <3>4 DEF SessionAnswers, FinishAgent, RecordFinished
    <3>5. CASE DropGuard(id) \/ Publish(id)
      BY <3>5 DEF DropGuard, Publish
    <3>6. QED
      BY <1>1, <3>1, <3>2, <3>3, <3>4, <3>5 DEF Task
  <2>2. Known(id)'
    <3> USE <2>0, <2>1 DEF Go, settle, Stop, At, Unreserved, Settled
    <3>1. CASE Precheck(id)  BY <3>1 DEF Precheck
    <3>2. CASE RecordRefused(id)  BY <3>2 DEF RecordRefused
    <3>3. CASE Lease(id)  BY <3>3 DEF Lease
    <3>4. CASE Reserve(id)  BY <3>4 DEF Reserve
    <3>5. CASE Judge(id)  BY <3>5 DEF Judge
    <3>6. CASE Allow(id)  BY <3>6 DEF Allow
    <3>7. CASE AppendDecided(id)  BY <3>7 DEF AppendDecided
    <3>8. CASE AppendDispatching(id)  BY <3>8 DEF AppendDispatching
    <3>9. CASE BeginSession(id)  BY <3>9 DEF BeginSession
    <3>10. CASE Withdrawn(id)  BY <3>10 DEF Withdrawn
    <3>11. CASE SessionAnswers(id)  BY <3>11 DEF SessionAnswers
    <3>12. CASE FinishAgent(id)  BY <3>12 DEF FinishAgent
    <3>13. CASE RecordFinished(id)  BY <3>13 DEF RecordFinished
    <3>14. CASE DropGuard(id)  BY <3>14 DEF DropGuard
    <3>15. CASE Publish(id)  BY <3>15 DEF Publish
    <3>16. QED
      BY <1>1, <3>1, <3>2, <3>3, <3>4, <3>5, <3>6, <3>7, <3>8, <3>9, <3>10,
         <3>11, <3>12, <3>13, <3>14, <3>15 DEF Task
  <2>3. QED
    BY <2>1, <2>2 DEF ReservationInv
<1>2. ASSUME NEW id \in Ids, Panic(id)
      PROVE  ReservationInv'
  BY <1>2 DEF Panic, Go, ReservationInv, Unreserved
<1>3. ASSUME NEW c \in Clients, Spawn(c)
      PROVE  ReservationInv'
  <2>1. pc[cid[c]] = "none" /\ cid[c] \in Ids
    BY <1>3, GateAssumption DEF Spawn, GateInv, ClientInv, Ids
  <2>2. /\ \E w \in {"start", "lease"} : pc' = [pc EXCEPT ![cid[c]] = w]
        /\ UNCHANGED <<call, counted, died>>
    BY <1>3 DEF Spawn, Go
  <2>3. QED
    BY <2>1, <2>2 DEF ReservationInv, Unreserved, Settled
<1>4. CASE UNCHANGED <<pc, call, counted, died>>
  BY <1>4 DEF ReservationInv
<1>5. QED
  BY <1>1, <1>2, <1>3, <1>4 DEF Next, Client, Submit, CancelRead, CancelChange,
     CancelAnswer, SessionWrites, ShutdownBegin, ShutdownEnd, Stopped, vars

\* A task that ended in order without calling the session left no reservation
\* behind (settle in decide, in the withdrawn branch and after the session).
THEOREM ReservationsAreReleased == Spec => []ReservationReleased
<1>1. Init => ReservationInv
  BY DEF Init, ReservationInv
<1>2. TypeOK /\ GateInv /\ ReservationInv /\ [Next]_vars => ReservationInv'
  BY ReservationNext
<1>3. TypeOK /\ ReservationInv => ReservationReleased
  BY DEF TypeOK, ReservationInv, ReservationReleased, Settled
<1>4. QED
  BY <1>1, <1>2, <1>3, TypeCorrect, GateInvariant, PTL DEF Spec

-----------------------------------------------------------------------------
(* The announcement of an operation's end.                                 *)

\* Someone has announced an operation's end, is about to, or lost the race of
\* a cancel with the end of the event streams.
Heard(id) ==
  \/ id \in announced \cup unsent
  \/ status[id] = "cancelled" /\ phase = "closed"
  \/ \E c \in Clients : cpc[c] = "cancelled" /\ cid[c] = id

\* Only what ended leaves the table or outlives its task; a task publishes
\* before it moves on, and no task is left when the streams end.
EndInv ==
  /\ \A id \in Ids :
       /\ is_terminal(status[id]) => Heard(id)
       /\ id <= next_id /\ id \notin table => is_terminal(status[id])
       /\ pc[id] = "done" => is_terminal(status[id])
       /\ id \in unsent => pc[id] \notin {"none", "done"}
  /\ phase = "closed" => \A id \in 1..next_id : pc[id] = "done"

\* A step of an operation's task keeps it.
LEMMA EndInvTask ==
  ASSUME TypeOK, GateInv, EndInv, NEW id \in Ids, Task(id)
  PROVE  EndInv'
<1> USE DEF TypeOK, tableVars, taskVars, clientVars, snapshot, outside, history,
            is_terminal
<1>1. UNCHANGED <<next_id, table, phase, cpc, cid>>
  BY DEF Task, Precheck, RecordRefused, Lease, Reserve, Judge, Allow, AppendDecided,
     AppendDispatching, BeginSession, Withdrawn, SessionAnswers, FinishAgent,
     RecordFinished, DropGuard, Publish
<1>2. pc[id] \notin {"none", "done"} /\ id <= next_id /\ id \in 1..next_id
  <2>1. pc[id] \notin {"none", "done"}
    BY DEF Task, At, Precheck, RecordRefused, Lease, Reserve, Judge, Allow,
       AppendDecided, AppendDispatching, BeginSession, Withdrawn, SessionAnswers,
       FinishAgent, RecordFinished, DropGuard, Publish, EndInv
  <2>2. next_id \in Nat /\ id \in Nat \ {0}
    BY GateAssumption DEF Ids
  <2>3. QED
    BY <2>1, <2>2 DEF GateInv, OpInv
<1>3. phase # "closed"
  BY <1>2 DEF EndInv, Ids
<1>4. ASSUME NEW r \in Resolutions, finish(id, r), id \notin unsent,
             \E p \in PCs : p \notin {"none", "done"} /\ pc' = [pc EXCEPT ![id] = p],
             announced' = announced
      PROVE  EndInv'
  <2>1. CASE Running(id)
    <3>1. /\ \E s \in Ended : status' = [status EXCEPT ![id] = s]
          /\ unsent' = unsent \cup {id}
      BY <1>4, <2>1, ResolutionParts DEF finish
    <3>2. QED
      BY <1>1, <1>2, <1>3, <1>4, <3>1 DEF EndInv, Heard
  <2>2. CASE ~Running(id)
    BY <1>1, <1>2, <1>3, <1>4, <2>2 DEF finish, EndInv, Heard
  <2>3. QED  BY <2>1, <2>2
<1>5. ASSUME UNCHANGED <<status, unsent, announced>>, id \notin unsent,
             \E p \in PCs : p \notin {"none", "done"} /\ pc' = [pc EXCEPT ![id] = p]
      PROVE  EndInv'
  BY <1>1, <1>2, <1>3, <1>5 DEF EndInv, Heard
<1>6. ASSUME \E s \in {"allowed", "in_session"} : status' = [status EXCEPT ![id] = s],
             status[id] \in Pending, id \in table, id \notin unsent,
             UNCHANGED <<unsent, announced>>,
             \E p \in PCs : p \notin {"none", "done"} /\ pc' = [pc EXCEPT ![id] = p]
      PROVE  EndInv'
  BY <1>1, <1>2, <1>3, <1>6 DEF EndInv, Heard, Pending, Ended
<1>r. not_dispatched("rejected") \in Resolutions
  BY NotDispatchedType DEF Ended
<1> USE DEF At, Go, PCs
<1>7. CASE Precheck(id)
  BY <1>4, <1>5, <1>7, <1>r DEF Precheck
<1>8. CASE Lease(id)
  BY <1>4, <1>5, <1>8, <1>r DEF Lease
<1>9. CASE RecordRefused(id) \/ Reserve(id) \/ Judge(id)
  BY <1>5, <1>9 DEF RecordRefused, Reserve, Judge
<1>10. CASE Allow(id)
  BY <1>5, <1>6, <1>10 DEF Allow, Stop, Pending
<1>11. CASE AppendDecided(id) \/ AppendDispatching(id)
  BY <1>5, <1>11 DEF AppendDecided, AppendDispatching, Stop
<1>12. CASE BeginSession(id)
  BY <1>5, <1>6, <1>12 DEF BeginSession, MayEnter, Pending
<1>13. CASE Withdrawn(id) \/ SessionAnswers(id) \/ RecordFinished(id)
  BY <1>5, <1>13 DEF Withdrawn, SessionAnswers, RecordFinished
<1>14. CASE FinishAgent(id)
  BY <1>4, <1>14 DEF FinishAgent
<1>15. CASE DropGuard(id)
  <2>1. CASE LeftRunning(id)
    <3>1. Unresolved(id) \in Resolutions
      BY DEF Unresolved, not_dispatched, Resolutions, Ended, Certainties
    <3>2. pc' = [pc EXCEPT ![id] = "exit"]
      BY <1>15, <2>1 DEF DropGuard
    <3>3. QED
      BY <1>4, <1>15, <2>1, <3>1, <3>2 DEF DropGuard
  <2>2. CASE ~LeftRunning(id)
    <3>1. /\ pc' = [pc EXCEPT ![id] = "done"]
          /\ UNCHANGED <<status, unsent, announced>>
          /\ id \notin unsent
      BY <1>15, <2>2 DEF DropGuard
    <3>2. is_terminal(status[id])
      BY <1>2, <2>2 DEF LeftRunning, Running, EndInv
    <3>3. QED
      BY <1>1, <1>2, <1>3, <3>1, <3>2 DEF EndInv, Heard
  <2>3. QED  BY <2>1, <2>2
<1>16. CASE Publish(id)
  <2>1. /\ announced' = announced \cup {id} /\ unsent' = unsent \ {id}
        /\ UNCHANGED <<status, pc>>
    BY <1>3, <1>16 DEF Publish
  <2>2. QED
    BY <1>1, <1>3, <2>1 DEF EndInv, Heard
<1>17. QED
  BY <1>7, <1>8, <1>9, <1>10, <1>11, <1>12, <1>13, <1>14, <1>15, <1>16 DEF Task

\* So does a step of a client.
LEMMA EndInvClient ==
  ASSUME TypeOK, GateInv, EndInv, NEW c \in Clients, Client(c)
  PROVE  EndInv'
<1> USE DEF TypeOK, tableVars, taskVars, clientVars, snapshot, outside, history,
            is_terminal
<1>0. cid[c] \in Ids /\ cid[c] \in 1..next_id /\ ClientInv(c)
  BY GateAssumption DEF Client, Spawn, CancelChange, CancelAnswer, GateInv, Ids
<1>1. CASE Spawn(c)
  <2>1. /\ \E w \in {"start", "lease"} : pc' = [pc EXCEPT ![cid[c]] = w]
        /\ cpc' = [cpc EXCEPT ![c] = "idle"] /\ cid' = [cid EXCEPT ![c] = 0]
        /\ cpc[c] = "spawn"
        /\ UNCHANGED <<next_id, table, status, phase, announced, unsent>>
    BY <1>1 DEF Spawn, Go, Return
  <2>2. pc[cid[c]] = "none" /\ phase # "closed"
    BY <1>0, <2>1 DEF ClientInv, EndInv
  <2>3. \A id \in Ids : Heard(id) => Heard(id)'
    BY <2>1 DEF Heard
  <2>4. QED
    BY <1>0, <2>1, <2>2, <2>3 DEF EndInv
<1>2. CASE CancelChange(c)
  <2>0. UNCHANGED <<next_id, table, phase, pc, announced, unsent>>
    BY <1>2 DEF CancelChange
  <2>1. CASE status[cid[c]] \in Pending /\ cid[c] \in table
    <3>1. /\ status' = [status EXCEPT ![cid[c]] = "cancelled"]
          /\ cpc' = [cpc EXCEPT ![c] = "cancelled"] /\ cid' = cid
      BY <1>2, <2>1 DEF CancelChange, is_cancellable
    <3>2. Heard(cid[c])'
      BY <3>1 DEF Heard
    <3>3. \A id \in Ids \ {cid[c]} : status'[id] = status[id] /\ (Heard(id) => Heard(id)')
      BY <1>2, <2>0, <3>1 DEF Heard, CancelChange
    <3>4. status'[cid[c]] = "cancelled" /\ "cancelled" \in Ended
      BY <1>0, <3>1 DEF Ended
    <3>5. \A id \in Ids : is_terminal(status[id]) => is_terminal(status'[id])
      BY <3>3, <3>4
    <3>6. \A id \in Ids : is_terminal(status'[id]) => Heard(id)'
      BY <3>1, <3>2, <3>3 DEF EndInv, Heard
    <3>7. QED
      BY <2>0, <3>5, <3>6 DEF EndInv
  <2>2. CASE ~(status[cid[c]] \in Pending /\ cid[c] \in table)
    <3>1. /\ status' = status /\ cpc[c] = "cancel"
          /\ cpc' = [cpc EXCEPT ![c] = "idle"] /\ cid' = [cid EXCEPT ![c] = 0]
      BY <1>2, <2>2 DEF CancelChange, is_cancellable, Return
    <3>2. \A id \in Ids : Heard(id) => Heard(id)'
      BY <2>0, <3>1 DEF Heard
    <3>3. QED
      BY <2>0, <3>1, <3>2 DEF EndInv
  <2>3. QED  BY <2>1, <2>2
<1>3. CASE CancelAnswer(c)
  <2>1. /\ announced' = IF phase = "closed" THEN announced
                        ELSE announced \cup {cid[c]}
        /\ cpc' = [cpc EXCEPT ![c] = "idle"] /\ cid' = [cid EXCEPT ![c] = 0]
        /\ cpc[c] = "cancelled"
        /\ UNCHANGED <<next_id, table, status, phase, pc, unsent>>
    BY <1>3 DEF CancelAnswer, Return
  <2>2. \A id \in Ids : Heard(id) => Heard(id)'
    BY <1>0, <2>1 DEF Heard, ClientInv
  <2>3. QED
    BY <2>1, <2>2 DEF EndInv
<1>4. QED
  BY <1>1, <1>2, <1>3 DEF Client

\* So does every other step; that no task is left when the streams end is what
\* the exact count of the operations in flight is for.
LEMMA EndInvNext ==
  ASSUME TypeOK, GateInv, InFlightExact, EndInv, [Next]_vars
  PROVE  EndInv'
<1> USE DEF TypeOK, tableVars, taskVars, clientVars, snapshot, outside, history,
            is_terminal
<1>1. ASSUME NEW c \in Clients, NEW request \in Requests,
             NEW key \in Keys \cup {NoKey}, Submit(c, request, key)
      PROVE  EndInv'
  <2> DEFINE id == next_id + 1
  <2>1. /\ next_id' = id /\ id \in Ids /\ id > next_id
        /\ table' = (table \ evict_finished) \cup {id}
    BY <1>1, GateAssumption DEF Submit, TakeId, Ids
  <2>2. \E s \in Pending : status' = [status EXCEPT ![id] = s]
    BY <1>1 DEF Submit, Pending
  <2>3. /\ cpc[c] = "idle" /\ phase = "open"
        /\ cpc' = [cpc EXCEPT ![c] = "spawn"] /\ cid' = [cid EXCEPT ![c] = id]
        /\ UNCHANGED <<phase, pc, announced, unsent>>
    BY <1>1 DEF Submit
  <2>4. pc[id] = "none" /\ status[id] = "none"
    BY <2>1 DEF GateInv, OpInv
  <2>5. \A j \in Ids \ {id} : status'[j] = status[j] /\ (Heard(j) => Heard(j)')
    BY <2>2, <2>3 DEF Heard
  <2>6. status'[id] \in Pending /\ Pending \cap Ended = {}
    BY <2>1, <2>2 DEF Pending, Ended
  <2>7. \A j \in Ids : j <= id => j = id \/ j <= next_id
    BY GateAssumption DEF Ids
  <2>8. \A j \in Ids \ {id} : j <= next_id' /\ j \notin table' => status[j] \in Ended
    <3>1. \A j \in evict_finished : status[j] \in Ended
      BY EvictedAreFinished
    <3>2. QED
      BY <2>1, <2>7, <3>1 DEF EndInv
  <2>9. QED
    BY <2>1, <2>3, <2>4, <2>5, <2>6, <2>8 DEF EndInv
<1>2. ASSUME NEW c \in Clients, NEW id \in Ids, CancelRead(c, id)
      PROVE  EndInv'
  <2>1. /\ cpc[c] = "idle"
        /\ cpc' = [cpc EXCEPT ![c] = "cancel"] /\ cid' = [cid EXCEPT ![c] = id]
        /\ UNCHANGED <<next_id, table, status, phase, pc, announced, unsent>>
    BY <1>2 DEF CancelRead
  <2>2. \A j \in Ids : Heard(j) => Heard(j)'
    BY <2>1 DEF Heard
  <2>3. QED
    BY <2>1, <2>2 DEF EndInv
<1>3. ASSUME NEW id \in Ids, Panic(id)
      PROVE  EndInv'
  <2>1. /\ pc' = [pc EXCEPT ![id] = "exit"]
        /\ pc[id] \notin {"none", "done"} /\ id \notin unsent
        /\ UNCHANGED <<next_id, table, status, phase, cpc, cid, announced, unsent>>
    BY <1>3 DEF Panic, Go
  <2>2. id <= next_id
    BY <2>1 DEF GateInv, OpInv, Ids
  <2>3. phase # "closed"
    BY <2>1, <2>2 DEF EndInv, Ids
  <2>4. QED
    BY <2>1, <2>3 DEF EndInv, Heard
<1>4. CASE ShutdownEnd
  <2>1. in_flight = 0 /\ phase' = "closed" /\ phase # "closed"
        /\ UNCHANGED <<next_id, table, status, pc, cpc, cid, announced, unsent>>
    BY <1>4 DEF ShutdownEnd, NoneInFlight
  <2>2. InFlight = {}
    <3>1. IsFiniteSet(1..next_id)
      BY FS_Interval
    <3>2. IsFiniteSet(InFlight)
      BY <3>1, FS_Subset DEF InFlight
    <3>3. Cardinality(InFlight) = 0
      BY <2>1 DEF InFlightExact, InFlight
    <3>4. QED
      BY <3>2, <3>3, FS_EmptySet
  <2>3. QED
    BY <2>1, <2>2 DEF EndInv, Heard, InFlight
<1>5. CASE ShutdownBegin \/ Stopped \/ UNCHANGED vars
  BY <1>5 DEF ShutdownBegin, Stopped, vars, EndInv, Heard
<1>6. ASSUME NEW id \in Ids, SessionWrites(id)
      PROVE  EndInv'
  BY <1>6 DEF SessionWrites, EndInv, Heard
<1>7. QED
  BY <1>1, <1>2, <1>3, <1>4, <1>5, <1>6, EndInvTask, EndInvClient DEF Next

\* When an operation's task is over, its end was published, or is about to be
\* by the client that cancelled it, unless shutdown ended the streams first
\* (publish in finish, cancel and OperationTask::drop, and shutdown's wait).
THEOREM EndsAreAnnounced == Spec => []EndAnnounced
<1>1. Init => EndInv
  BY GateAssumption DEF Init, EndInv, is_terminal, Ended, Ids
<1>2. /\ TypeOK /\ GateInv /\ InFlightExact /\ EndInv /\ [Next]_vars
      => EndInv'
  BY EndInvNext
<1>3. EndInv => EndAnnounced
  BY DEF EndInv, EndAnnounced, Heard
<1>4. QED
  BY <1>1, <1>2, <1>3, TypeCorrect, GateInvariant, InFlightIsExact, PTL DEF Spec

-----------------------------------------------------------------------------
(***************************************************************************)
(* The gate implements OperationLifecycle: every step of a client, a task, *)
(* a panicked task's guard or shutdown is a step of the lifecycle or none. *)
(***************************************************************************)
\* How a session ends an operation.
SessionEnds == {"completed", "already_in_state", "rejected", "cancelled",
                "superseded", "indeterminate"}

\* A resolution that the lifecycle allows for an operation in the session.
FromSession(r) ==
  /\ r.status \in SessionEnds
  /\ r.status = "completed" => r.dispatch # "not_dispatched"
  /\ r.status \notin {"completed", "indeterminate"} => r.dispatch = "not_dispatched"

\* One that it allows for an operation that was not called, whose status is s.
BeforeSession(r, s) ==
  /\ r.dispatch = "not_dispatched"
  /\ r.status \in {"denied", "approval_unavailable", "rejected", "cancelled"}
  /\ r.status \in {"denied", "approval_unavailable"} =>
       s \in {"none", "submitted"} \cup Ended

\* What the refinement needs beyond GateInv: an agent's operation is not allowed
\* before it was judged, and a task about to end its operation has a resolution
\* that fits what the operation went through.
RefInv(id) ==
  /\ id \in table => status[id] # "none"
  /\ status[id] \notin Ended => dispatch[id] = "not_dispatched"
  /\ status[id] = "in_session" => call[id] # "none"
  /\ IsAgent(id) /\ pc[id] \in {"none", "start", "lease", "judge"}
       => status[id] \in {"none", "submitted"} \cup Ended
  /\ pc[id] \in {"start", "judge"} => IsAgent(id)
  /\ pc[id] = "finish" /\ call[id] = "none" => BeforeSession(res[id], status[id])
  /\ pc[id] = "finish" /\ call[id] # "none" => FromSession(res[id])

\* What a session may answer resolves to what the lifecycle allows.
LEMMA AnswersFit == \A o \in SessionOutcomes : FromSession(resolve(o))
BY DEF SessionOutcomes, resolve, FromSession, SessionEnds

\* What a task gives up with, and what the policy refuses with, fits as well.
LEMMA RefusalsFit ==
  /\ \A s : /\ BeforeSession(not_dispatched("rejected"), s)
           /\ BeforeSession(not_dispatched("cancelled"), s)
  /\ \A s \in {"none", "submitted"} \cup Ended,
        r \in {"denied", "approval_unavailable", "rejected"} :
       BeforeSession(not_dispatched(r), s)
BY DEF BeforeSession, not_dispatched

\* A step of an operation's task keeps RefInv.
LEMMA RefInvTask ==
  ASSUME TypeOK, GateInv, \A j \in Ids : RefInv(j), NEW id \in Ids, Task(id)
  PROVE  \A j \in Ids : RefInv(j)'
<1> USE DEF TypeOK, tableVars, taskVars, clientVars, snapshot, outside, history
<1>1. UNCHANGED <<sub, table>>
  BY DEF Task, Precheck, RecordRefused, Lease, Reserve, Judge, Allow, AppendDecided,
     AppendDispatching, BeginSession, Withdrawn, SessionAnswers, FinishAgent,
     RecordFinished, DropGuard, Publish
<1>2. \A j \in Ids \ {id} : /\ status'[j] = status[j] /\ dispatch'[j] = dispatch[j]
                            /\ pc'[j] = pc[j] /\ res'[j] = res[j]
                            /\ call'[j] = call[j]
  <2> USE DEF Go, finish, settle, Stop
  <2>1. CASE Precheck(id) \/ RecordRefused(id) \/ Lease(id) \/ Reserve(id)
    BY <2>1 DEF Precheck, RecordRefused, Lease, Reserve
  <2>2. CASE Judge(id) \/ Allow(id) \/ AppendDecided(id) \/ AppendDispatching(id)
    BY <2>2 DEF Judge, Allow, AppendDecided, AppendDispatching
  <2>3. CASE BeginSession(id) \/ Withdrawn(id) \/ SessionAnswers(id)
    BY <2>3 DEF BeginSession, Withdrawn, SessionAnswers
  <2>4. CASE FinishAgent(id) \/ RecordFinished(id) \/ DropGuard(id) \/ Publish(id)
    BY <2>4 DEF FinishAgent, RecordFinished, DropGuard, Publish
  <2>5. QED
    BY <2>1, <2>2, <2>3, <2>4 DEF Task
<1>3. RefInv(id)'
  <2>1. OpInv(id) /\ RefInv(id)
    BY DEF GateInv
  <2> USE <1>1, <2>1 DEF OpInv, RefInv, Early, IsAgent, Go, At
  <2>2. CASE Precheck(id)
    BY <2>2, NotDispatchedType DEF Precheck, finish, Running, is_terminal, Ended
  <2>3. CASE RecordRefused(id) \/ Reserve(id) \/ Withdrawn(id) \/ RecordFinished(id)
             \/ Publish(id)
    BY <2>3 DEF RecordRefused, Reserve, Withdrawn, RecordFinished, Publish
  <2>4. CASE Lease(id)
    BY <2>4, NotDispatchedType
       DEF Lease, finish, Running, is_terminal, Ended, BeforeSession
  <2>n. ASSUME pc[id] \in Early, pc'[id] = "finish", UNCHANGED <<status, dispatch, call>>,
               BeforeSession(res'[id], status[id])
        PROVE  RefInv(id)'
    BY <2>n
  <2>5. CASE Judge(id)
    <3>1. CASE \E s \in {"denied", "approval_unavailable", "rejected"} :
                 res'[id] = not_dispatched(s)
      <4>1. status[id] \in {"none", "submitted"} \cup Ended
        BY <2>5 DEF Judge
      <4>2. BeforeSession(res'[id], status[id])
        <5>1. PICK r \in {"denied", "approval_unavailable", "rejected"} :
                res'[id] = not_dispatched(r)
          BY <3>1
        <5>2. BeforeSession(not_dispatched(r), status[id])
          BY ONLY <4>1, RefusalsFit
        <5>3. QED
          BY <5>1, <5>2
      <4>3. QED
        BY <2>5, <2>n, <3>1, <4>2 DEF Judge
    <3>2. CASE pc'[id] = "allow"
      BY <2>5, <3>2 DEF Judge
    <3>3. QED
      BY <2>5, <3>1, <3>2 DEF Judge
  <2>6. CASE Allow(id)
    <3>1. CASE ~(id \in table /\ status[id] = "submitted")
      <4>1. /\ UNCHANGED <<status, dispatch, call>> /\ pc'[id] = "finish"
            /\ res'[id] = not_dispatched("cancelled") /\ pc[id] \in Early
        BY <2>6, <3>1 DEF Allow, Stop
      <4>2. BeforeSession(res'[id], status[id])
        BY <4>1, RefusalsFit
      <4>3. QED
        BY <2>n, <4>1, <4>2
    <3>2. CASE id \in table /\ status[id] = "submitted"
      BY <2>6, <3>2 DEF Allow, Ended
    <3>3. QED
      BY <3>1, <3>2
  <2>7. CASE AppendDecided(id) \/ AppendDispatching(id)
    <3>1. CASE \E s \in {"cancelled", "rejected"} : Stop(id, s)
      <4>1. BeforeSession(res'[id], status[id])
        BY <3>1, RefusalsFit DEF Stop
      <4>2. QED
        BY <2>7, <2>n, <3>1, <4>1 DEF AppendDecided, AppendDispatching, Stop
    <3>2. CASE pc'[id] \in {"dispatching", "begin"} /\ UNCHANGED res
      BY <2>7, <3>2 DEF AppendDecided, AppendDispatching
    <3>3. QED
      BY <2>7, <3>1, <3>2 DEF AppendDecided, AppendDispatching
  <2>8. CASE BeginSession(id)
    BY <2>8 DEF BeginSession, MayEnter, Ended
  <2>9. CASE SessionAnswers(id)
    BY <2>9, AnswersFit, GateAssumption DEF SessionAnswers
  <2>10. CASE FinishAgent(id)
    BY <2>10, ResolutionParts DEF FinishAgent, finish, Running, is_terminal, Ended
  <2>11. CASE DropGuard(id)
    BY <2>11, NotDispatchedType DEF DropGuard, finish, Unresolved, Running,
       is_terminal, Ended
  <2>12. QED
    BY <2>2, <2>3, <2>4, <2>5, <2>6, <2>7, <2>8, <2>9, <2>10, <2>11 DEF Task
<1>4. QED
  <2>1. SUFFICES ASSUME NEW j \in Ids \ {id}
                 PROVE  RefInv(j)'
    BY <1>3
  <2>2. QED
    BY <1>1, <1>2 DEF RefInv, IsAgent

\* So does every other step.
LEMMA RefInvNext ==
  ASSUME TypeOK, GateInv, \A id \in Ids : RefInv(id), [Next]_vars
  PROVE  \A id \in Ids : RefInv(id)'
<1> USE DEF TypeOK, tableVars, taskVars, clientVars, snapshot, outside, history
<1>1. ASSUME NEW c \in Clients, NEW request \in Requests,
             NEW key \in Keys \cup {NoKey}, Submit(c, request, key)
      PROVE  \A id \in Ids : RefInv(id)'
  <2>1. PICK new \in Ids : new = next_id + 1
    BY <1>1, GateAssumption DEF Submit, Ids
  <2>2. /\ UNCHANGED <<dispatch, pc, res, call>>
        /\ table' \subseteq table \cup {new}
        /\ \A j \in Ids \ {new} : status'[j] = status[j] /\ sub'[j] = sub[j]
    BY <1>1, <2>1 DEF Submit
  <2>3. /\ status'[new] = IF PrincipalOf[c] = Operator THEN "allowed" ELSE "submitted"
        /\ sub'[new].owner = PrincipalOf[c]
    BY <1>1, <2>1 DEF Submit
  <2>4. pc[new] = "none" /\ status[new] = "none"
    BY <2>1 DEF GateInv, OpInv
  <2>5. RefInv(new)
    OBVIOUS
  <2>6. RefInv(new)'
    BY <2>2, <2>3, <2>4, <2>5, GateAssumption DEF RefInv, IsAgent, Ended
  <2>7. ASSUME NEW j \in Ids \ {new}
        PROVE  RefInv(j)'
    BY <2>2, <2>7 DEF RefInv, IsAgent
  <2>8. QED
    BY <2>6, <2>7
<1>2. ASSUME NEW c \in Clients, Spawn(c)
      PROVE  \A id \in Ids : RefInv(id)'
  <2>1. pc[cid[c]] = "none" /\ cid[c] \in Ids
    BY <1>2, GateAssumption DEF Spawn, GateInv, ClientInv, Ids
  <2>2. QED
    BY <1>2, <2>1 DEF Spawn, Go, RefInv, IsAgent
<1>3. ASSUME NEW c \in Clients, CancelChange(c)
      PROVE  \A id \in Ids : RefInv(id)'
  BY <1>3 DEF CancelChange, RefInv, IsAgent, BeforeSession, is_cancellable, Pending,
     Ended
<1>4. ASSUME NEW id \in Ids, Panic(id)
      PROVE  \A j \in Ids : RefInv(j)'
  BY <1>4 DEF Panic, Go, RefInv, IsAgent
<1>5. CASE UNCHANGED <<status, dispatch, pc, res, call, sub, table>>
  BY <1>5 DEF RefInv, IsAgent
<1>6. QED
  BY <1>1, <1>2, <1>3, <1>4, <1>5, RefInvTask DEF Next, Client, CancelRead,
     CancelAnswer, SessionWrites, ShutdownBegin, ShutdownEnd, Stopped, vars

\* A task that ends its operation takes a step of the lifecycle.
LEMMA FinishMaps ==
  ASSUME TypeOK, NEW id \in Ids, NEW r \in Resolutions, finish(id, r),
         OpInv(id), RefInv(id), UNCHANGED <<call, told>>,
         IF call[id] = "none" THEN BeforeSession(r, status[id]) ELSE FromSession(r)
  PROVE  Lifecycle!Next \/ UNCHANGED Lifecycle!vars
<1> USE DEF TypeOK, Lifecycle!vars
<1>1. CASE ~Running(id)
  BY <1>1 DEF finish, snapshot
<1>2. CASE Running(id)
  <2>1. /\ status' = [status EXCEPT ![id] = r.status]
        /\ dispatch' = [dispatch EXCEPT ![id] = r.dispatch]
        /\ status[id] \in Pending \cup {"in_session"}
    BY <1>2 DEF finish, Running, is_terminal, RefInv, Statuses
  <2>2. CASE call[id] = "none"
    <3>1. /\ status[id] \in Pending /\ dispatch' = dispatch
          /\ BeforeSession(r, status[id])
      BY <2>1, <2>2 DEF RefInv, BeforeSession, Pending, Ended
    <3>2. CASE r.status \in {"rejected", "cancelled"}
      <4>1. Lifecycle!EndBefore(id)
        BY <2>1, <3>1, <3>2 DEF Lifecycle!EndBefore, Lifecycle!Pending, Pending
      <4>2. QED
        BY <4>1 DEF Lifecycle!Next
    <3>3. CASE r.status \in {"denied", "approval_unavailable"}
      <4>1. status[id] = "submitted"
        BY <3>1, <3>3 DEF BeforeSession, Pending, Ended
      <4>2. Lifecycle!Refuse(id)
        BY <2>1, <3>1, <3>3, <4>1 DEF Lifecycle!Refuse
      <4>3. QED
        BY <4>2 DEF Lifecycle!Next
    <3>4. QED
      BY <3>1, <3>2, <3>3 DEF BeforeSession
  <2>3. CASE call[id] # "none"
    <3>1. status[id] = "in_session" /\ FromSession(r)
      BY <2>1, <2>3 DEF OpInv
    <3>2. r.status \in SessionEnds /\ r.dispatch \in Certainties
      BY <3>1, ResolutionParts DEF FromSession
    <3>3. Lifecycle!EndInSession(id)
      BY <2>1, <3>1, <3>2
         DEF FromSession, SessionEnds, Certainties, Lifecycle!EndInSession
    <3>4. QED
      BY <3>3 DEF Lifecycle!Next
  <2>4. QED
    BY <2>2, <2>3
<1>3. QED
  BY <1>1, <1>2

\* Every step of a task is a step of the lifecycle, or none.
LEMMA TaskMaps ==
  ASSUME TypeOK, GateInv, \A j \in Ids : RefInv(j), NEW id \in Ids, Task(id)
  PROVE  Lifecycle!Next \/ UNCHANGED Lifecycle!vars
<1> USE DEF TypeOK, tableVars, taskVars, clientVars, snapshot, outside, history
<1>0. OpInv(id) /\ RefInv(id)
  BY DEF GateInv
<1>1. /\ not_dispatched("rejected") \in Resolutions
      /\ BeforeSession(not_dispatched("rejected"), status[id])
  BY NotDispatchedType, RefusalsFit DEF Ended
<1>2. CASE /\ UNCHANGED <<status, dispatch, told>>
           /\ {i \in Ids : call'[i] # "none"} = {i \in Ids : call[i] # "none"}
  BY <1>2 DEF Lifecycle!vars
<1>3. CASE Precheck(id)
  <2>1. call[id] = "none" /\ UNCHANGED <<call, told>>
    BY <1>0, <1>3 DEF Precheck, At, OpInv, Early
  <2>2. finish(id, not_dispatched("rejected")) \/ UNCHANGED <<status, dispatch>>
    BY <1>3 DEF Precheck
  <2>3. QED
    BY <1>0, <1>1, <1>2, <2>1, <2>2, FinishMaps
<1>4. CASE Lease(id)
  <2>1. call[id] = "none" /\ UNCHANGED <<call, told>>
    BY <1>0, <1>4 DEF Lease, At, OpInv, Early
  <2>2. finish(id, not_dispatched("rejected")) \/ UNCHANGED <<status, dispatch>>
    BY <1>4 DEF Lease
  <2>3. QED
    BY <1>0, <1>1, <1>2, <2>1, <2>2, FinishMaps
<1>5. CASE Allow(id)
  <2>1. CASE id \in table /\ status[id] = "submitted"
    <3>1. Lifecycle!Allow(id)
      BY <1>5, <2>1 DEF Allow, Lifecycle!Allow
    <3>2. QED
      BY <3>1 DEF Lifecycle!Next
  <2>2. CASE ~(id \in table /\ status[id] = "submitted")
    BY <1>2, <1>5, <2>2 DEF Allow
  <2>3. QED
    BY <2>1, <2>2
<1>6. CASE BeginSession(id)
  <2>1. CASE MayEnter(id)
    <3>1. call[id] = "none"
      BY <1>0, <2>1 DEF OpInv, MayEnter, Pending
    <3>2. {i \in Ids : call'[i] # "none"} = {i \in Ids : call[i] # "none"} \cup {id}
      BY <1>6, <2>1 DEF BeginSession
    <3>3. Lifecycle!EnterSession(id)
      BY <1>6, <2>1, <3>1, <3>2 DEF BeginSession, MayEnter, Lifecycle!EnterSession
    <3>4. QED
      BY <3>3 DEF Lifecycle!Next
  <2>2. CASE ~MayEnter(id)
    BY <1>2, <1>6, <2>2 DEF BeginSession
  <2>3. QED
    BY <2>1, <2>2
<1>7. CASE SessionAnswers(id)
  <2>1. call[id] = "pending"
    BY <1>0, <1>7 DEF SessionAnswers, At, OpInv
  <2>2. QED
    BY <1>2, <1>7, <2>1 DEF SessionAnswers
<1>8. CASE FinishAgent(id)
  <2>1. /\ finish(id, res[id]) /\ res[id] \in Resolutions /\ UNCHANGED <<call, told>>
        /\ pc[id] = "finish"
    BY <1>8 DEF FinishAgent, At
  <2>2. IF call[id] = "none" THEN BeforeSession(res[id], status[id])
        ELSE FromSession(res[id])
    BY <1>0, <2>1 DEF RefInv
  <2>3. QED
    BY <1>0, <2>1, <2>2, FinishMaps
<1>9. CASE DropGuard(id)
  <2>1. CASE LeftRunning(id)
    <3>1. finish(id, Unresolved(id)) /\ UNCHANGED <<call, told>>
      BY <1>9, <2>1 DEF DropGuard
    <3>2. CASE status[id] = "in_session"
      <4>1. Unresolved(id) = [status |-> "indeterminate", dispatch |-> "unknown"]
        BY <3>2 DEF Unresolved
      <4>2. Unresolved(id) \in Resolutions /\ FromSession(Unresolved(id))
        BY <4>1 DEF Resolutions, Ended, Certainties, FromSession, SessionEnds
      <4>3. call[id] # "none"
        BY <1>0, <3>2 DEF RefInv
      <4>4. QED
        BY <1>0, <3>1, <4>2, <4>3, FinishMaps
    <3>3. CASE status[id] # "in_session"
      <4>1. status[id] \in Pending
        BY <1>0, <2>1, <3>3 DEF LeftRunning, Running, is_terminal, RefInv, Statuses
      <4>2. call[id] = "none" /\ Unresolved(id) = not_dispatched("rejected")
        BY <1>0, <3>3, <4>1 DEF OpInv, Unresolved
      <4>3. QED
        BY <1>0, <1>1, <3>1, <4>2, FinishMaps
    <3>4. QED
      BY <3>2, <3>3
  <2>2. CASE ~LeftRunning(id)
    BY <1>2, <1>9, <2>2 DEF DropGuard
  <2>3. QED
    BY <2>1, <2>2
<1>10. CASE \/ RecordRefused(id) \/ Reserve(id) \/ Judge(id) \/ AppendDecided(id)
            \/ AppendDispatching(id) \/ Withdrawn(id) \/ RecordFinished(id)
            \/ Publish(id)
  BY <1>2, <1>10 DEF RecordRefused, Reserve, Judge, AppendDecided,
     AppendDispatching, Withdrawn, RecordFinished, Publish
<1>11. QED
  BY <1>3, <1>4, <1>5, <1>6, <1>7, <1>8, <1>9, <1>10 DEF Task

\* So is every other step.
LEMMA NextMaps ==
  ASSUME TypeOK, GateInv, \A id \in Ids : RefInv(id), [Next]_vars
  PROVE  Lifecycle!Next \/ UNCHANGED Lifecycle!vars
<1> USE DEF TypeOK, tableVars, taskVars, clientVars, snapshot, outside, history
<1>1. ASSUME NEW c \in Clients, NEW request \in Requests,
             NEW key \in Keys \cup {NoKey}, Submit(c, request, key)
      PROVE  Lifecycle!Next
  <2>1. PICK new \in Ids : new = next_id + 1
    BY <1>1, GateAssumption DEF Submit, Ids
  <2>2. status[new] = "none"
    BY <2>1 DEF GateInv, OpInv
  <2>3. /\ \E s \in Pending : status' = [status EXCEPT ![new] = s]
        /\ UNCHANGED <<dispatch, call, told>>
    BY <1>1, <2>1 DEF Submit, Pending
  <2>4. Lifecycle!Admit(new)
    BY <2>2, <2>3 DEF Lifecycle!Admit, Lifecycle!Pending, Pending
  <2>5. QED
    BY <2>4 DEF Lifecycle!Next
<1>2. ASSUME NEW c \in Clients, CancelChange(c)
      PROVE  Lifecycle!Next \/ UNCHANGED Lifecycle!vars
  <2>1. cid[c] \in Ids /\ UNCHANGED <<dispatch, call, told>>
    BY <1>2, GateAssumption DEF CancelChange, Ids
  <2>2. CASE cid[c] \in table /\ is_cancellable(status[cid[c]])
    <3>1. Lifecycle!EndBefore(cid[c])
      BY <1>2, <2>1, <2>2 DEF CancelChange, is_cancellable, Lifecycle!EndBefore,
         Lifecycle!Pending, Pending
    <3>2. QED
      BY <2>1, <3>1 DEF Lifecycle!Next
  <2>3. CASE ~(cid[c] \in table /\ is_cancellable(status[cid[c]]))
    BY <1>2, <2>1, <2>3 DEF CancelChange, Lifecycle!vars
  <2>4. QED
    BY <2>2, <2>3
<1>3. ASSUME NEW c \in Clients, CancelAnswer(c)
      PROVE  Lifecycle!Next
  <2>1. /\ cid[c] \in Ids /\ status[cid[c]] = "cancelled" /\ call[cid[c]] = "none"
        /\ told' = told \cup {cid[c]} /\ UNCHANGED <<status, dispatch, call>>
    BY <1>3, GateAssumption DEF CancelAnswer, GateInv, ClientInv, Ids
  <2>2. Lifecycle!TellCancelled(cid[c])
    BY <2>1 DEF Lifecycle!TellCancelled
  <2>3. QED
    BY <2>1, <2>2 DEF Lifecycle!Next
<1>4. CASE UNCHANGED <<status, dispatch, call, told>>
  BY <1>4 DEF Lifecycle!vars
<1>5. QED
  BY <1>1, <1>2, <1>3, <1>4, TaskMaps DEF Next, Client, Spawn, CancelRead, Panic,
     SessionWrites, ShutdownBegin, ShutdownEnd, Stopped, vars

\* The gate implements the lifecycle that control.rs promises its clients.
THEOREM GateImplementsLifecycle == Spec => ImplementsLifecycle
<1> DEFINE AllRef == \A id \in Ids : RefInv(id)
<1>1. Init => AllRef /\ Lifecycle!Init
  BY DEF Init, RefInv, Lifecycle!Init, IsAgent
<1>2. TypeOK /\ GateInv /\ AllRef /\ [Next]_vars => AllRef'
  BY RefInvNext
<1>3. TypeOK /\ GateInv /\ AllRef /\ [Next]_vars => [Lifecycle!Next]_(Lifecycle!vars)
  BY NextMaps
<1> HIDE DEF AllRef
<1>4. QED
  BY <1>1, <1>2, <1>3, TypeCorrect, GateInvariant, PTL
     DEF Spec, ImplementsLifecycle, Lifecycle!Spec
=============================================================================
