------------------------ MODULE ConnectionPoolProofs ------------------------
(***************************************************************************)
(* Theorems about ConnectionPool: types, one session at a time, and no     *)
(* session closed under an operation, for any numbers of clients,          *)
(* operations and savers.                                                  *)
(***************************************************************************)
EXTENDS ConnectionPool, FiniteSetTheorems, TLAPS

\* The leases of operations, and all that count.
LeasedOperations == {c \in Operations : cpc[c] = "leased"}
LeaseHolders == {c \in Clients : cpc[c] \in {"leased", "drop"}}

\* The two counters count the leases: the one of operations exactly those in
\* use, the one of leases also those whose drop is half done.
CountInv ==
  /\ operations = Cardinality(LeasedOperations)
  /\ leases = Cardinality(LeaseHolders)

\* Where a client is while it holds the slot lock.
Connecting == {"identity", "connect", "sync", "close"}

\* The lock's holder is the one task between taking and giving it back. (A timer
\* runs after the client that armed it.)
LockInv ==
  /\ \A c \in Clients : cpc[c] \in Connecting <=> lock = <<"client", c>>
  /\ \A c \in Clients : tpc[c] = "closing" <=> lock = <<"timer", c>>
  /\ \A c \in Clients : tpc[c] # "none" => cpc[c] = "done"
  /\ \A s \in Savers : spc[s] \in {"drain", "closing"} <=> lock = <<"saver", s>>
  /\ shut = "closing" <=> lock = <<"shutdown", None>>

\* A session that is up is the one in the slot, or the one the lock's holder is
\* opening or closing.
SlotInv ==
  /\ \A c \in Clients :
       sess[c] \in {"open", "closing"} => c \in {held, victim} \/ cpc[c] = "sync"
  /\ held # None => sess[held] = "open" /\ victim = None
  /\ \A c \in Clients : lock = <<"client", c>> => held = None
  /\ \A c \in Clients : /\ cpc[c] = "sync" => sess[c] = "open"
                        /\ cpc[c] = "close" => victim = c
  /\ victim # None =>
       /\ sess[victim] = "closing" /\ lock # Free
       /\ \A c \in Clients : cpc[c] \notin {"identity", "connect", "sync"}
       /\ \A s \in Savers : spc[s] # "drain"
  /\ \A c \in Clients : tpc[c] = "closing" => victim # None
  /\ \A s \in Savers : /\ spc[s] = "closing" => victim # None
                       /\ spc[s] = "drain" => held # None
  /\ shut = "closing" => victim # None

\* An operation's lease is on the session in the slot.
LeaseInv ==
  \A c \in Operations : cpc[c] = "leased" => held # None /\ using[c] = held

\* Every other lease is on that session too, or on one whose end was told.
UseInv ==
  \A c \in Clients :
    cpc[c] = "leased" => using[c] # None /\ (using[c] = held \/ using[c] \in ended)

\* From the moment shutdown has drained the operations none runs, and once it
\* has had the lock nobody connects. Whoever wants the lock has made the slot.
ShutInv ==
  /\ closed <=> shut # "no"
  /\ \A c \in Clients : cpc[c] \in {"lock"} \cup Connecting => slot
  /\ held # None => slot
  /\ shut \notin {"no", "drain"} =>
       \A c \in Operations : cpc[c] \in {"idle", "done"}
  /\ shut \in {"closing", "done"} =>
       held = None /\ \A c \in Clients : cpc[c] \notin {"identity", "connect", "sync"}

\* A session to another address than the saved one, in the slot or on its way.
Outdated ==
  \/ held # None /\ host[held] # saved
  \/ \E c \in Clients : cpc[c] \in {"connect", "sync"} /\ host[c] # saved

\* While there is one, the saver of the present address has not finished.
AddressInv ==
  Outdated => \E s \in Savers :
                config[s] = saved /\ spc[s] \notin {"idle", "done"}

-----------------------------------------------------------------------------
(* The counters.                                                           *)

\* The leases are finitely many, so that they can be counted.
LEMMA LeasesFinite ==
  /\ IsFiniteSet(LeasedOperations) /\ Cardinality(LeasedOperations) \in Nat
  /\ IsFiniteSet(LeaseHolders) /\ Cardinality(LeaseHolders) \in Nat
<1>1. LeasedOperations \in SUBSET Clients /\ LeaseHolders \in SUBSET Clients
  BY PoolAssumption DEF LeasedOperations, LeaseHolders
<1>2. QED
  BY <1>1, PoolAssumption, FS_Subset, FS_CardinalityType

\* A counter at zero means that no lease of its kind is there.
LEMMA ZeroMeansNone ==
  ASSUME CountInv
  PROVE  /\ operations = 0 => \A c \in Operations : cpc[c] # "leased"
         /\ leases = 0 => \A c \in Operations : cpc[c] # "leased"
<1>1. operations = 0 => LeasedOperations = {}
  BY LeasesFinite, FS_EmptySet DEF CountInv
<1>2. leases = 0 => LeaseHolders = {}
  BY LeasesFinite, FS_EmptySet DEF CountInv
<1>3. QED
  BY <1>1, <1>2, PoolAssumption DEF LeasedOperations, LeaseHolders

\* A lease that is taken adds its holder to the ones counted.
LEMMA TakeCounts ==
  ASSUME TypeOK, CountInv, NEW c \in Clients, NEW s, Take(c, s),
         cpc[c] \notin {"leased", "drop"}
  PROVE  CountInv'
<1> USE DEF TypeOK, Take, Goto
<1>1. LeaseHolders' = LeaseHolders \cup {c} /\ c \notin LeaseHolders
  BY DEF LeaseHolders
<1>2. Cardinality(LeaseHolders') = Cardinality(LeaseHolders) + 1
  BY <1>1, LeasesFinite, FS_AddElement
<1>3. CASE c \in Operations
  <2>1. LeasedOperations' = LeasedOperations \cup {c} /\ c \notin LeasedOperations
    BY <1>3, PoolAssumption DEF LeasedOperations
  <2>2. Cardinality(LeasedOperations') = Cardinality(LeasedOperations) + 1
    BY <2>1, LeasesFinite, FS_AddElement
  <2>3. QED
    BY <1>2, <1>3, <2>2 DEF CountInv
<1>4. CASE c \notin Operations
  <2>1. LeasedOperations' = LeasedOperations
    BY <1>4, PoolAssumption DEF LeasedOperations
  <2>2. QED
    BY <1>2, <1>4, <2>1 DEF CountInv
<1>5. QED
  BY <1>3, <1>4

\* The counters keep counting the leases.
LEMMA CountNext ==
  ASSUME TypeOK, CountInv, [Next]_vars
  PROVE  CountInv'
<1> USE DEF TypeOK, Goto
<1>1. ASSUME NEW c \in Clients, Acquire(c) \/ Synchronized(c)
      PROVE  CountInv'
  <2>1. CASE Take(c, held) /\ cpc[c] = "lock"
    BY <2>1, TakeCounts
  <2>2. CASE Take(c, c) /\ cpc[c] = "sync"
    BY <2>2, TakeCounts
  <2>3. CASE /\ cpc[c] = "lock" /\ UNCHANGED countVars
             /\ \E pc \in {"done", "identity"} : Goto(c, pc)
    <3>1. LeaseHolders' = LeaseHolders /\ LeasedOperations' = LeasedOperations
      BY <2>3, PoolAssumption DEF LeaseHolders, LeasedOperations
    <3>2. QED
      BY <2>3, <3>1 DEF CountInv, countVars
  <2>4. QED
    BY <1>1, <2>1, <2>2, <2>3 DEF Acquire, Synchronized
<1>2. ASSUME NEW c \in Clients, Drop(c)
      PROVE  CountInv'
  <2>1. LeaseHolders' = LeaseHolders
    BY <1>2 DEF Drop, LeaseHolders
  <2>2. CASE c \in Operations
    <3>1. LeasedOperations' = LeasedOperations \ {c} /\ c \in LeasedOperations
      BY <1>2, <2>2, PoolAssumption DEF Drop, LeasedOperations
    <3>2. Cardinality(LeasedOperations') = Cardinality(LeasedOperations) - 1
      BY <3>1, LeasesFinite, FS_RemoveElement
    <3>3. QED
      BY <1>2, <2>1, <2>2, <3>2 DEF Drop, OperationsDropped, CountInv
  <2>3. CASE c \notin Operations
    <3>1. LeasedOperations' = LeasedOperations
      BY <1>2, <2>3, PoolAssumption DEF Drop, LeasedOperations
    <3>2. QED
      BY <1>2, <2>1, <2>3, <3>1 DEF Drop, OperationsDropped, CountInv
  <2>4. QED
    BY <2>2, <2>3
<1>3. ASSUME NEW c \in Clients, DropLease(c)
      PROVE  CountInv'
  <2>1. /\ LeaseHolders' = LeaseHolders \ {c} /\ c \in LeaseHolders
        /\ LeasedOperations' = LeasedOperations
    BY <1>3, PoolAssumption DEF DropLease, LeaseHolders, LeasedOperations
  <2>2. Cardinality(LeaseHolders') = Cardinality(LeaseHolders) - 1
    BY <2>1, LeasesFinite, FS_RemoveElement
  <2>3. QED
    BY <1>3, <2>1, <2>2 DEF DropLease, CountInv
<1>4. CASE /\ UNCHANGED <<leases, operations>>
           /\ \/ UNCHANGED cpc
              \/ \E c \in Clients :
                   /\ cpc[c] \notin {"leased", "drop"}
                   /\ \E pc \in ClientPlaces \ {"leased", "drop"} : Goto(c, pc)
  <2>1. LeaseHolders' = LeaseHolders /\ LeasedOperations' = LeasedOperations
    BY <1>4, PoolAssumption DEF LeaseHolders, LeasedOperations
  <2>2. QED
    BY <1>4, <2>1 DEF CountInv
<1>5. ASSUME NEW c \in Clients,
             Arrive(c) \/ LeaseStart(c) \/ LookUp(c) \/ Identity(c) \/ Connect(c)
               \/ SyncFails(c) \/ AttemptClosed(c) \/ Arm(c) \/ AbandonLease(c)
      PROVE  CountInv'
  BY <1>4, <1>5 DEF Arrive, LeaseStart, LookUp, Identity, Connect, SyncFails,
     AttemptClosed, Arm, AbandonLease, GiveUp, ClientPlaces, countVars
<1>6. ASSUME NEW c \in Clients, LingererEnds(c) \/ Timer(c)
      PROVE  CountInv'
  BY <1>4, <1>6 DEF LingererEnds, Timer, Wake, Release, Released, clientVars,
     countVars
<1>7. ASSUME NEW s \in Savers, Save(s) \/ Saver(s) \/ AbandonSave(s)
      PROVE  CountInv'
  BY <1>4, <1>7 DEF Save, Saver, Collect, RetireLock, Retire, Retired,
     AbandonSave, clientVars, countVars
<1>8. CASE ShutdownBegin \/ Shutdown \/ UNCHANGED vars
  BY <1>4, <1>8 DEF ShutdownBegin, Shutdown, ShutdownDrained, ShutdownLock,
     ShutdownClosed, clientVars, countVars, vars
<1>9. QED
  BY <1>1, <1>2, <1>3, <1>5, <1>6, <1>7, <1>8 DEF Next, Client

-----------------------------------------------------------------------------
(* The lock, the slot and the leases.                                      *)

\* At the start nobody holds anything.
LEMMA PoolInit == Init => TypeOK /\ CountInv /\ LockInv /\ SlotInv /\ LeaseInv
<1> SUFFICES ASSUME Init
             PROVE  TypeOK /\ CountInv /\ LockInv /\ SlotInv /\ LeaseInv
  OBVIOUS
<1> USE PoolAssumption DEF Init
<1>1. TypeOK
  BY DEF TypeOK, ClientPlaces, SaverPlaces, Owners
<1>2. LeasedOperations = {} /\ LeaseHolders = {}
  BY DEF LeasedOperations, LeaseHolders
<1>3. CountInv
  BY <1>2, FS_EmptySet DEF CountInv
<1>4. LockInv /\ SlotInv /\ LeaseInv
  BY DEF LockInv, SlotInv, LeaseInv, Free, Connecting
<1>5. QED
  BY <1>1, <1>3, <1>4

\* A client's steps keep the lock with its holder, the slot in order and
\* every operation's lease on the session in the slot.
LEMMA ClientKeeps ==
  ASSUME TypeOK, LockInv, SlotInv, LeaseInv, NEW c \in Clients,
         \/ Arrive(c) \/ Client(c) \/ Drop(c) \/ AbandonLease(c)
         \/ LingererEnds(c)
  PROVE  LockInv' /\ SlotInv' /\ LeaseInv'
<1> USE PoolAssumption
    DEF TypeOK, Goto, LockInv, SlotInv, LeaseInv, Connecting, Free
<1>1. CASE Arrive(c)
  BY <1>1 DEF Arrive, timerVars, saverVars, sessionVars, slotVars
<1>2. CASE LeaseStart(c)
  BY <1>2 DEF LeaseStart, timerVars, saverVars, sessionVars, slotVars
<1>3. CASE LookUp(c)
  BY <1>3 DEF LookUp, timerVars, saverVars, sessionVars
<1>4. CASE Acquire(c)
  BY <1>4 DEF Acquire, Take, timerVars, saverVars, sessionVars
<1>5. CASE Identity(c)
  BY <1>5 DEF Identity, GiveUp, timerVars, saverVars, sessionVars
<1>6. CASE Connect(c)
  BY <1>6 DEF Connect, GiveUp, timerVars, saverVars, sessionVars
<1>7. CASE Synchronized(c)
  BY <1>7 DEF Synchronized, Take, timerVars, saverVars, sessionVars
<1>8. CASE SyncFails(c)
  BY <1>8 DEF SyncFails, timerVars, saverVars
<1>9. CASE AttemptClosed(c)
  BY <1>9 DEF AttemptClosed, CloseEnd, timerVars, saverVars
<1>10. CASE Drop(c)
  BY <1>10 DEF Drop, timerVars, saverVars, sessionVars, slotVars
<1>11. CASE DropLease(c)
  BY <1>11 DEF DropLease, timerVars, saverVars, sessionVars, slotVars
<1>12. CASE Arm(c)
  BY <1>12 DEF Arm, saverVars, sessionVars, slotVars
<1>13. CASE AbandonLease(c)
  BY <1>13 DEF AbandonLease, GiveUp, timerVars, saverVars
<1>14. CASE LingererEnds(c)
  BY <1>14 DEF LingererEnds, clientVars, timerVars, saverVars, slotVars
<1>15. QED
  BY <1>1, <1>2, <1>3, <1>4, <1>5, <1>6, <1>7, <1>8, <1>9, <1>10, <1>11, <1>12,
     <1>13, <1>14 DEF Client

\* The idle timer closes only when no lease is there.
LEMMA TimerKeeps ==
  ASSUME TypeOK, CountInv, LockInv, SlotInv, LeaseInv, NEW c \in Clients, Timer(c)
  PROVE  LockInv' /\ SlotInv' /\ LeaseInv'
<1> USE PoolAssumption
    DEF TypeOK, LockInv, SlotInv, LeaseInv, Connecting, Free, clientVars, saverVars
<1>1. CASE Wake(c)
  BY <1>1 DEF Wake, sessionVars, slotVars
<1>2. CASE Release(c)
  BY <1>2, ZeroMeansNone DEF Release, InUse, CloseBegin, sessionVars, slotVars
<1>3. CASE Released(c)
  BY <1>3 DEF Released, CloseEnd
<1>4. QED
  BY <1>1, <1>2, <1>3 DEF Timer

\* A retirement closes only when no operation has a lease.
LEMMA SaverKeeps ==
  ASSUME TypeOK, CountInv, LockInv, SlotInv, LeaseInv, NEW s \in Savers,
         Save(s) \/ Saver(s) \/ AbandonSave(s)
  PROVE  LockInv' /\ SlotInv' /\ LeaseInv'
<1> USE PoolAssumption
    DEF TypeOK, SGoto, LockInv, SlotInv, LeaseInv, Connecting, Free, clientVars,
        timerVars
<1>1. CASE Save(s)
  BY <1>1 DEF Save, sessionVars, slotVars
<1>2. CASE Collect(s)
  BY <1>2 DEF Collect, sessionVars, slotVars
<1>3. CASE RetireLock(s)
  BY <1>3 DEF RetireLock, unchanged, sessionVars
<1>4. CASE Retire(s)
  BY <1>4, ZeroMeansNone DEF Retire, Drained, CloseBegin
<1>5. CASE Retired(s)
  BY <1>5 DEF Retired, CloseEnd
<1>6. CASE AbandonSave(s)
  BY <1>6 DEF AbandonSave
<1>7. QED
  BY <1>1, <1>2, <1>3, <1>4, <1>5, <1>6 DEF Saver

\* Shutdown closes only when every operation has ended, and no operation begins
\* once the service is closed.
LEMMA ShutdownKeeps ==
  ASSUME TypeOK, LockInv, SlotInv, LeaseInv, ShutInv, ShutdownBegin \/ Shutdown
  PROVE  LockInv' /\ SlotInv' /\ LeaseInv'
<1> USE PoolAssumption
    DEF TypeOK, LockInv, SlotInv, LeaseInv, Connecting, Free, clientVars, timerVars,
        saverVars
<1>1. CASE ShutdownBegin
  BY <1>1 DEF ShutdownBegin, sessionVars, slotVars
<1>2. CASE ShutdownDrained
  BY <1>2 DEF ShutdownDrained, sessionVars, slotVars
<1>3. CASE ShutdownLock
  BY <1>3 DEF ShutdownLock, CloseBegin, ShutInv, sessionVars, slotVars
<1>4. CASE ShutdownClosed
  BY <1>4 DEF ShutdownClosed, CloseEnd
<1>5. QED
  BY <1>1, <1>2, <1>3, <1>4 DEF Shutdown

\* What the leases, shutdown and the addresses need is kept by every step.
LEMMA RestKeeps ==
  ASSUME TypeOK, LockInv, SlotInv, UseInv, ShutInv, AddressInv, [Next]_vars
  PROVE  UseInv' /\ ShutInv' /\ AddressInv'
<1> USE PoolAssumption
    DEF TypeOK, Goto, SGoto, LockInv, SlotInv, UseInv, ShutInv, AddressInv,
        Outdated, Connecting, Free
<1>1. ASSUME NEW c \in Clients, Arrive(c)
      PROVE  UseInv' /\ ShutInv' /\ AddressInv'
  BY <1>1 DEF Arrive, timerVars, saverVars, sessionVars, slotVars
<1>2. ASSUME NEW c \in Clients, LeaseStart(c)
      PROVE  UseInv' /\ ShutInv' /\ AddressInv'
  BY <1>2 DEF LeaseStart, timerVars, saverVars, sessionVars, slotVars
<1>3. ASSUME NEW c \in Clients, LookUp(c)
      PROVE  UseInv' /\ ShutInv' /\ AddressInv'
  BY <1>3 DEF LookUp, timerVars, saverVars, sessionVars
<1>4. ASSUME NEW c \in Clients, Acquire(c)
      PROVE  UseInv' /\ ShutInv' /\ AddressInv'
  BY <1>4 DEF Acquire, Take, StillOpen, timerVars, saverVars, sessionVars
<1>5. ASSUME NEW c \in Clients, Identity(c)
      PROVE  UseInv' /\ ShutInv' /\ AddressInv'
  BY <1>5 DEF Identity, GiveUp, timerVars, saverVars, sessionVars
<1>6. ASSUME NEW c \in Clients, Connect(c)
      PROVE  UseInv' /\ ShutInv' /\ AddressInv'
  BY <1>6 DEF Connect, GiveUp, timerVars, saverVars, sessionVars
<1>7. ASSUME NEW c \in Clients, Synchronized(c)
      PROVE  UseInv' /\ ShutInv' /\ AddressInv'
  BY <1>7 DEF Synchronized, Take, timerVars, saverVars, sessionVars
<1>8. ASSUME NEW c \in Clients, SyncFails(c)
      PROVE  UseInv' /\ ShutInv' /\ AddressInv'
  BY <1>8 DEF SyncFails, timerVars, saverVars
<1>9. ASSUME NEW c \in Clients, AttemptClosed(c)
      PROVE  UseInv' /\ ShutInv' /\ AddressInv'
  BY <1>9 DEF AttemptClosed, CloseEnd, timerVars, saverVars
<1>10. ASSUME NEW c \in Clients, Drop(c) \/ DropLease(c) \/ Arm(c)
       PROVE  UseInv' /\ ShutInv' /\ AddressInv'
  BY <1>10 DEF Drop, DropLease, Arm, timerVars, saverVars, sessionVars, slotVars
<1>11. ASSUME NEW c \in Clients, AbandonLease(c)
       PROVE  UseInv' /\ ShutInv' /\ AddressInv'
  BY <1>11 DEF AbandonLease, GiveUp, timerVars, saverVars
<1>12. ASSUME NEW c \in Clients, LingererEnds(c)
       PROVE  UseInv' /\ ShutInv' /\ AddressInv'
  BY <1>12 DEF LingererEnds, clientVars, timerVars, saverVars, slotVars
<1>13. ASSUME NEW c \in Clients, Timer(c)
       PROVE  UseInv' /\ ShutInv' /\ AddressInv'
  BY <1>13 DEF Timer, Wake, Release, Released, CloseBegin, CloseEnd, Tell,
     clientVars, saverVars, sessionVars, slotVars
<1>14. ASSUME NEW s \in Savers, Save(s) \/ Collect(s) \/ RetireLock(s)
       PROVE  UseInv' /\ ShutInv' /\ AddressInv'
  BY <1>14 DEF Save, Collect, RetireLock, unchanged, clientVars, timerVars,
     sessionVars, slotVars
<1>15. ASSUME NEW s \in Savers, Retire(s) \/ Retired(s) \/ AbandonSave(s)
       PROVE  UseInv' /\ ShutInv' /\ AddressInv'
  BY <1>15 DEF Retire, Retired, AbandonSave, CloseBegin, CloseEnd, Tell,
     clientVars, timerVars
<1>16. CASE ShutdownBegin \/ Shutdown
  BY <1>16 DEF ShutdownBegin, Shutdown, ShutdownDrained, ShutdownLock,
     ShutdownClosed, CloseBegin, CloseEnd, Tell, clientVars, timerVars, saverVars,
     sessionVars, slotVars
<1>17. CASE UNCHANGED vars
  BY <1>17 DEF vars, clientVars, timerVars, saverVars, sessionVars, slotVars
<1>18. QED
  BY <1>1, <1>2, <1>3, <1>4, <1>5, <1>6, <1>7, <1>8, <1>9, <1>10, <1>11, <1>12,
     <1>13, <1>14, <1>15, <1>16, <1>17 DEF Next, Client, Saver

\* The types are kept: the counters stay natural numbers because they count,
\* and what is closed is a session.
LEMMA TypeKeeps ==
  ASSUME TypeOK, CountInv, SlotInv, [Next]_vars
  PROVE  TypeOK'
<1>1. leases' \in Nat /\ operations' \in Nat
  <2>1. CountInv'
    BY CountNext
  <2>2. /\ LeasedOperations' \in SUBSET Clients
        /\ LeaseHolders' \in SUBSET Clients
    BY PoolAssumption DEF LeasedOperations, LeaseHolders
  <2>3. /\ Cardinality(LeasedOperations') \in Nat
        /\ Cardinality(LeaseHolders') \in Nat
    BY <2>2, PoolAssumption, FS_Subset, FS_CardinalityType
  <2>4. QED
    BY <2>1, <2>3 DEF CountInv
<1> USE PoolAssumption
    DEF TypeOK, ClientPlaces, SaverPlaces, Owners, Goto, SGoto, Free
<1>2. ASSUME NEW c \in Clients,
             Arrive(c) \/ LeaseStart(c) \/ LookUp(c) \/ Acquire(c) \/ Identity(c)
      PROVE  TypeOK'
  <2>1. CASE Arrive(c) \/ LeaseStart(c)
    BY <2>1 DEF Arrive, LeaseStart, timerVars, saverVars, sessionVars, slotVars,
       countVars
  <2>2. CASE LookUp(c)
    <3>1. slot' \in BOOLEAN
      BY <2>2, Zenon DEF LookUp
    <3>2. QED
      BY <2>2, <3>1 DEF LookUp, timerVars, saverVars, sessionVars, countVars
  <2>3. CASE Acquire(c)
    BY <1>1, <2>3 DEF Acquire, Take, timerVars, saverVars, sessionVars, countVars
  <2>4. CASE Identity(c)
    BY <2>4 DEF Identity, GiveUp, timerVars, saverVars, sessionVars, countVars
  <2>5. QED
    BY <1>2, <2>1, <2>2, <2>3, <2>4
<1>3. ASSUME NEW c \in Clients,
             Connect(c) \/ Synchronized(c) \/ SyncFails(c) \/ AttemptClosed(c)
      PROVE  TypeOK'
  BY <1>1, <1>3 DEF Connect, Synchronized, Take, SyncFails, AttemptClosed, GiveUp,
     CloseEnd, timerVars, saverVars, sessionVars, countVars
<1>4. ASSUME NEW c \in Clients,
             \/ Drop(c) \/ DropLease(c) \/ Arm(c) \/ AbandonLease(c)
             \/ LingererEnds(c)
      PROVE  TypeOK'
  BY <1>1, <1>4 DEF Drop, DropLease, Arm, AbandonLease, GiveUp, LingererEnds,
     clientVars, timerVars, saverVars, sessionVars, slotVars, countVars
<1>5. ASSUME NEW c \in Clients, Timer(c)
      PROVE  TypeOK'
  BY <1>5 DEF Timer, Wake, Release, Released, CloseBegin, CloseEnd, Tell,
     clientVars, saverVars, sessionVars, slotVars, countVars
<1>6. ASSUME NEW s \in Savers, Save(s) \/ Saver(s) \/ AbandonSave(s)
      PROVE  TypeOK'
  BY <1>6 DEF Save, Saver, Collect, RetireLock, Retire, Retired, AbandonSave,
     CloseBegin, CloseEnd, Tell, SlotInv, clientVars, timerVars, sessionVars,
     slotVars, countVars
<1>7. CASE ShutdownBegin \/ ShutdownDrained \/ ShutdownLock
  <2>1. closed' \in BOOLEAN
    BY <1>7, Zenon DEF ShutdownBegin, ShutdownDrained, ShutdownLock
  <2>2. QED
    BY <1>7, <2>1 DEF ShutdownBegin, ShutdownDrained, ShutdownLock, CloseBegin,
       Tell, clientVars, timerVars, saverVars, sessionVars, slotVars, countVars
<1>8. CASE ShutdownClosed \/ UNCHANGED vars
  BY <1>8 DEF ShutdownClosed, CloseEnd, vars, clientVars, timerVars, saverVars,
     sessionVars, slotVars, countVars
<1>9. QED
  BY <1>2, <1>3, <1>4, <1>5, <1>6, <1>7, <1>8 DEF Next, Client, Shutdown

\* The published status is kept true.
LEMMA StatusKeeps ==
  ASSUME TypeOK, LockInv, SlotInv, StatusTrue, [Next]_vars
  PROVE  StatusTrue'
<1> USE PoolAssumption DEF TypeOK, SGoto, LockInv, SlotInv, StatusTrue, Free, Connecting
<1>1. ASSUME NEW c \in Clients,
             \/ Arrive(c) \/ Client(c) \/ Drop(c) \/ AbandonLease(c)
             \/ LingererEnds(c) \/ Timer(c)
      PROVE  StatusTrue'
  BY <1>1 DEF Arrive, Client, LeaseStart, LookUp, Acquire, Identity, Connect,
     Synchronized, SyncFails, AttemptClosed, Drop, DropLease, Arm, AbandonLease,
     GiveUp, LingererEnds, Timer, Wake, Release, Released, CloseBegin, CloseEnd,
     saverVars, slotVars
<1>2. ASSUME NEW s \in Savers, Save(s) \/ Saver(s) \/ AbandonSave(s)
      PROVE  StatusTrue'
  BY <1>2 DEF Save, Saver, Collect, RetireLock, Retire, Retired, AbandonSave,
     CloseBegin, CloseEnd, slotVars
<1>3. CASE ShutdownBegin \/ Shutdown \/ UNCHANGED vars
  BY <1>3 DEF ShutdownBegin, Shutdown, ShutdownDrained, ShutdownLock,
     ShutdownClosed, CloseBegin, CloseEnd, vars, saverVars, slotVars
<1>4. QED
  BY <1>1, <1>2, <1>3 DEF Next

-----------------------------------------------------------------------------
(* The theorems.                                                           *)

\* The inductive invariant.
PoolInv ==
  /\ TypeOK /\ CountInv /\ LockInv /\ SlotInv /\ LeaseInv
  /\ UseInv /\ ShutInv /\ AddressInv /\ StatusTrue

\* Every state of the pool satisfies the inductive invariant: connections.rs
\* keeps its counters, its lock and its slot in step with one another.
THEOREM PoolInvariant == Spec => []PoolInv
<1>1. Init => PoolInv
  <2>1. Init => UseInv /\ ShutInv /\ AddressInv /\ StatusTrue
    BY PoolAssumption DEF Init, UseInv, ShutInv, AddressInv, Outdated, StatusTrue,
       Connecting
  <2>2. QED
    BY <2>1, PoolInit DEF PoolInv
<1>2. PoolInv /\ [Next]_vars => PoolInv'
  <2> SUFFICES ASSUME PoolInv, [Next]_vars
               PROVE  PoolInv'
    OBVIOUS
  <2> USE DEF PoolInv
  <2>1. TypeOK' /\ CountInv' /\ StatusTrue'
    BY TypeKeeps, CountNext, StatusKeeps
  <2>2. UseInv' /\ ShutInv' /\ AddressInv'
    BY RestKeeps
  <2>3. LockInv' /\ SlotInv' /\ LeaseInv'
    <3>1. CASE UNCHANGED vars
      BY <3>1 DEF vars, clientVars, timerVars, saverVars, sessionVars, slotVars,
         LockInv, SlotInv, LeaseInv
    <3>2. QED
      BY <3>1, ClientKeeps, TimerKeeps, SaverKeeps, ShutdownKeeps DEF Next
  <2>4. QED
    BY <2>1, <2>2, <2>3
<1>3. QED
  BY <1>1, <1>2, PTL DEF Spec

\* The variables keep their types; no counter of the slot goes below zero.
THEOREM PoolTypeCorrect == Spec => []TypeOK
<1>1. PoolInv => TypeOK
  BY DEF PoolInv
<1>2. QED
  BY <1>1, PoolInvariant, PTL

\* The service never has two sessions to the receiver that it owns.
THEOREM OneSessionAtATime == Spec => []OneSession
<1>1. PoolInv => OneSession
  BY PoolAssumption DEF PoolInv, OneSession, SlotInv, LockInv, Connecting
<1>2. QED
  BY <1>1, PoolInvariant, PTL

\* No session is closed under an operation that uses it.
THEOREM OperationsKeepTheirSession == Spec => []NeverUnderOperation
<1>1. PoolInv => NeverUnderOperation
  BY DEF PoolInv, NeverUnderOperation, SlotInv, LeaseInv
<1>2. QED
  BY <1>1, PoolInvariant, PTL

\* Every lease on a session that is over was told so.
THEOREM SubscribersAreTold == Spec => []SubscribersTold
<1>1. PoolInv => SubscribersTold
  BY DEF PoolInv, SubscribersTold, SlotInv, UseInv
<1>2. QED
  BY <1>1, PoolInvariant, PTL

\* The published status says whether the slot holds a session.
THEOREM StatusIsTrue == Spec => []StatusTrue
<1>1. PoolInv => StatusTrue
  BY DEF PoolInv
<1>2. QED
  BY <1>1, PoolInvariant, PTL

\* When the saves are over, the session in the slot is to the saved address.
THEOREM SavedAddressUsed == Spec => []AddressInFile
<1>1. PoolInv => AddressInFile
  BY DEF PoolInv, AddressInFile, AddressInv, Outdated, TypeOK
<1>2. QED
  BY <1>1, PoolInvariant, PTL

\* Shutdown leaves no session open and lets none be opened.
THEOREM ShutdownIsFinal == Spec => []ShutdownLeavesNone
<1>1. PoolInv => ShutdownLeavesNone
  <2> SUFFICES ASSUME PoolInv, shut = "done", NEW c \in Clients
               PROVE  held = None /\ sess[c] # "open"
    BY DEF ShutdownLeavesNone, PoolInv, ShutInv
  <2>1. held = None /\ cpc[c] # "sync"
    BY DEF PoolInv, ShutInv
  <2>2. c = victim => sess[c] = "closing"
    BY PoolAssumption DEF PoolInv, SlotInv
  <2>3. QED
    BY <2>1, <2>2, PoolAssumption DEF PoolInv, SlotInv
<1>2. QED
  BY <1>1, PoolInvariant, PTL
=============================================================================
