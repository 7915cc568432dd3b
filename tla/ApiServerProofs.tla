-------------------------- MODULE ApiServerProofs --------------------------
(***************************************************************************)
(* Proofs about the API server, for any number of processes, streams,      *)
(* callers, threads, token ids and labels, and for any number of starts.   *)
(***************************************************************************)
EXTENDS ApiServer, TLAPS

-----------------------------------------------------------------------------
(* The processes.                                                          *)

\* A process that serves, or has served and not ended yet.
Bound == {"serving", "stopping", "draining", "closed"}
Started == Bound \cup {"cleared"}

\* The lock names the one process that runs; its socket is at the path until it
\* removes it, and its store is open from the bind on.
ProcessInv ==
  /\ phase \in [Servers -> Started \cup {"off", "locked"}]
  /\ \A p \in Servers : /\ phase[p] # "off" => lock = p
                        /\ phase[p] \in Bound => socket = p
                        /\ phase[p] \in Started => up

\* No process runs at first.
LEMMA ProcessInvInit == Init => ProcessInv
BY DEF Init, ProcessInv, Bound, Started

\* No step lets two processes run or takes the socket from under one.
LEMMA ProcessInvNext ==
  ASSUME ProcessInv, [Next]_vars
  PROVE  ProcessInv'
<1> USE ApiServerAssumption DEF ProcessInv, pvars, tvars, Bound, Started
<1>1. CASE UNCHANGED <<phase, lock, socket, up>>
  BY <1>1
<1>2. CASE OpenStore
  <2>1. UNCHANGED <<phase, lock, socket>> /\ (up => up')
    BY <1>2 DEF OpenStore, operator_digest, operator_write, open
  <2>2. QED  BY <2>1
<1>3. CASE Obstructed
  BY <1>3 DEF Obstructed, Running, svars
<1>4. CASE Calls
  <2>1. UNCHANGED <<phase, lock, socket, up>>
    BY <1>4 DEF Calls, Asks, Works, AskIssue, AskRevoke, Answer, issue, revoke, Start,
       DropCall, AfterWrite, AfterFailure, RemoveLeftover, CreateTemporary, WriteAndSync,
       Rename, Fails, ThreadForgotten, ElseUnchanged
  <2>2. QED  BY <1>1, <2>1
<1>5. CASE OperatorDeletes /\ Running = {} /\ UNCHANGED <<pvars, tvars>>
  BY <1>1, <1>5 DEF OperatorDeletes
<1>6. ASSUME NEW p \in Servers, Off(p), phase[p] # "off", UNCHANGED socket
      PROVE  ProcessInv'
  <2>1. phase' = [phase EXCEPT ![p] = "off"] /\ lock = p
    BY <1>6 DEF Off
  <2>2. \A q \in Servers : phase'[q] = "off"
    BY <2>1
  <2>3. QED  BY <2>1, <2>2
<1>7. ASSUME NEW p \in Servers, acquire(p)
      PROVE  ProcessInv'
  BY <1>7 DEF acquire, svars
<1>8. ASSUME NEW p \in Servers, start_locked(p)
      PROVE  ProcessInv'
  BY <1>6, <1>8 DEF start_locked, Exit, svars
<1>9. ASSUME NEW p \in Servers, Signal(p) \/ AcceptsEnd(p) \/ remove_sockets(p)
      PROVE  ProcessInv'
  BY <1>9 DEF Signal, AcceptsEnd, remove_sockets, svars
<1>10. ASSUME NEW p \in Servers, Drained(p)
       PROVE  ProcessInv'
  <2>1. up' = up
    BY <1>10 DEF Drained, DropAllCalls, svars
  <2>2. QED  BY <1>10, <2>1 DEF Drained
<1>11. ASSUME NEW p \in Servers, Released(p) \/ Kill(p)
       PROVE  ProcessInv'
  BY <1>6, <1>11 DEF Released, Kill, Exit
<1>12. ASSUME NEW s \in Streams,
              \/ open_stream(s) \/ Subscribed(s) \/ ClientLeaves(s) \/ ClientTakes(s)
              \/ Age(s) \/ Changed(s) \/ SessionClosed(s) \/ Pump(s)
       PROVE  ProcessInv'
  <2>1. Others
    BY <1>12 DEF open_stream, Subscribed, ClientLeaves, ClientTakes, Age, Changed,
       SessionClosed, Pump, send, SendFails, SeesClosed, SeesShutdown, Watch, Look,
       Wakes, Ended
  <2>2. QED  BY <1>1, <2>1 DEF Others, svars
<1>13. CASE UNCHANGED vars
  BY <1>1, <1>13 DEF vars, svars
<1>14. QED
  BY <1>2, <1>3, <1>4, <1>5, <1>7, <1>8, <1>9, <1>10, <1>11, <1>12, <1>13 DEF Next

\* Every state of the server satisfies it.
THEOREM ProcessInvariant == Spec => []ProcessInv
<1>1. ProcessInv /\ [Next]_vars => ProcessInv'
  BY ProcessInvNext
<1>2. QED
  BY <1>1, ProcessInvInit, PTL DEF Spec

\* A server from the moment it serves until its sockets are gone is what is at
\* the socket path and holds the lock (start.rs: the lock, remove_stale and the
\* order of shutdown).
THEOREM ServerServesAlone == Spec => []ServesAlone
<1>1. ProcessInv => ServesAlone
  BY DEF ProcessInv, ServesAlone, Bound
<1>2. QED
  BY <1>1, ProcessInvariant, PTL

-----------------------------------------------------------------------------
(* The tokens: what is in memory, what is in the file, and what the thread *)
(* that writes it holds.                                                   *)

Tokens == [id : Ids, label : Labels, revoked : BOOLEAN]
Contents == SUBSET Tokens

Waiting == [at : {"waiting"}, op : {"issue"}, label : Labels]
           \cup [at : {"waiting"}, op : {"revoke"}, id : Ids]
Writing == [at : {"writing"}, op : {"issue", "revoke"}, id : Ids, by : Writers]

Places == {"remove", "create", "write", "rename", "renamed", "failed"}
Names == {"temporary", "agent_file", NoOne}
Awake == [at : Places, content : Contents, fd : Names, left : BOOLEAN]
Files == Contents \cup {Half, NoOne}

StoreType ==
  /\ up \in BOOLEAN /\ entries \in Contents
  /\ writing \in Callers \cup {NoOne}
  /\ call \in [Callers -> {NoCall} \cup Waiting \cup Writing]
  /\ thread \in [Writers -> {Sleeping} \cup Awake]
  /\ agent_file \in Files /\ temporary \in Files
  /\ told \in [issued : Contents, revoked : SUBSET Ids]

\* A call that writes holds the lock and has a thread write what memory will
\* become.
CallInv ==
  /\ writing # NoOne => call[writing].at = "writing"
  /\ \A c \in Callers : call[c].at = "writing" =>
       /\ writing = c
       /\ thread[call[c].by] # Sleeping
       /\ thread[call[c].by].content = Applied(c, call[c].by)
       /\ call[c].op = "issue" => \A t \in entries : t.id # call[c].id
       /\ call[c].op = "revoke" => \E t \in entries : t.id = call[c].id

\* A store that is closed knows nothing and serves nobody.
ClosedInv ==
  ~up => /\ entries = {} /\ writing = NoOne
         /\ \A c \in Callers : call[c] = NoCall

\* What a later start would read.
InFile == read_entries.tokens

\* Tokens that agree with all a client was told, and tokens among which a
\* record that memory has as revoked is there and revoked.
Keeps(tokens) ==
  /\ told.issued \subseteq tokens
  /\ \A id \in told.revoked : /\ \E t \in tokens : t.id = id
                              /\ \A t \in tokens : t.id = id => t.revoked
Follows(tokens) ==
  \A t \in entries : t.revoked => /\ \E u \in tokens : u.id = t.id
                                  /\ \A u \in tokens : u.id = t.id => u.revoked

\* The file is whole.
FileInv ==
  /\ ~fault
  /\ agent_file # NoOne => agent_file # Half /\ WellFormed(agent_file)
  /\ Keeps(InFile)

\* One thread writes at a time, a content that agrees with what was told; it
\* has the temporary file to itself, and that content is the file afterwards.
ThreadInv ==
  \A w \in Writers : thread[w] # Sleeping =>
    /\ \A v \in Writers : thread[v] # Sleeping => v = w
    /\ WellFormed(thread[w].content) /\ Keeps(thread[w].content)
    /\ up => Follows(thread[w].content)
    /\ thread[w].at = "write" => thread[w].fd = "temporary"
    /\ thread[w].at = "rename" => temporary = thread[w].content
    /\ thread[w].at = "renamed" => InFile = thread[w].content

\* The file need not be the memory: the thread of a dropped call changes the
\* one and not the other.  It has what memory has as revoked.
MemoryInv ==
  up => WellFormed(entries) /\ Keeps(entries) /\ Follows(InFile)

\* The last three hold until a write or a start begins while a thread writes.
Sound == FileInv /\ ThreadInv /\ MemoryInv
StoreInv == StoreType /\ CallInv /\ ClosedInv /\ (overlapped \/ Sound)

\* What is in the file, when it is whole.
LEMMA FileFacts ==
  ASSUME StoreType, FileInv
  PROVE  /\ ~read_entries.fault
         /\ InFile = IF agent_file = NoOne THEN {} ELSE agent_file
         /\ InFile \in Contents /\ WellFormed(InFile)
<1>1. WellFormed({})
  BY DEF WellFormed
<1>2. CASE agent_file = NoOne
  <2>1. read_entries = [tokens |-> {}, fault |-> FALSE]
    BY <1>2 DEF read_entries
  <2>2. InFile = {}
    BY <2>1 DEF InFile
  <2>3. QED  BY <1>1, <1>2, <2>1, <2>2 DEF Contents
<1>3. CASE agent_file # NoOne
  <2>1. agent_file # Half /\ WellFormed(agent_file)
    BY <1>3 DEF FileInv
  <2>2. agent_file \in Contents
    BY <1>3, <2>1 DEF StoreType, Files
  <2>3. read_entries = [tokens |-> agent_file, fault |-> FALSE]
    BY <1>3, <2>1 DEF read_entries
  <2>4. InFile = agent_file
    BY <2>3 DEF InFile
  <2>5. WellFormed(InFile)
    BY <2>1, <2>4
  <2>6. QED  BY <1>3, <2>2, <2>3, <2>4, <2>5
<1>4. QED  BY <1>2, <1>3

\* The records that WithToken makes of the ones in memory.
LEMMA IssueFacts ==
  ASSUME entries \in Contents,
         NEW id \in fresh_id, NEW label \in Labels, ~LabelInUse(label)
  PROVE  /\ id \in Ids /\ Issued(id, label) \in Tokens /\ Issued(id, label).id = id
         /\ WithToken(id, label) \in Contents
         /\ WellFormed(entries) => WellFormed(WithToken(id, label))
         /\ \A t \in entries : t.id # id
<1>1. id \in Ids /\ \A t \in entries : t.id # id
  BY DEF fresh_id
<1>2. \A t \in entries : t.label = label => t.revoked
  <2>1. \A t \in entries : t.revoked \in BOOLEAN
    BY DEF Tokens, Contents
  <2>2. QED  BY <2>1 DEF LabelInUse
<1>3. /\ Issued(id, label) \in Tokens
      /\ Issued(id, label).id = id /\ Issued(id, label).label = label
  BY <1>1 DEF Tokens, Issued
<1>4. WithToken(id, label) \in Contents
  BY <1>3 DEF WithToken, Contents
<1>5. WellFormed(entries) => WellFormed(WithToken(id, label))
  <2> SUFFICES ASSUME WellFormed(entries),
                      NEW t \in WithToken(id, label), NEW u \in WithToken(id, label)
               PROVE  /\ t.id = u.id => t = u
                      /\ t.label = u.label /\ ~t.revoked /\ ~u.revoked => t = u
    BY DEF WellFormed
  <2>1. CASE t \in entries /\ u \in entries
    BY <2>1 DEF WellFormed
  <2>2. CASE t = Issued(id, label) /\ u \in entries
    BY <1>1, <1>2, <1>3, <2>2
  <2>3. CASE u = Issued(id, label) /\ t \in entries
    BY <1>1, <1>2, <1>3, <2>3
  <2>4. CASE t = Issued(id, label) /\ u = Issued(id, label)
    BY <2>4
  <2>5. QED  BY <2>1, <2>2, <2>3, <2>4 DEF WithToken
<1>6. QED  BY <1>1, <1>3, <1>4, <1>5

\* What WithRevoked makes of one record.
AsRevoked(id, t) == IF t.id = id THEN [t EXCEPT !.revoked = TRUE] ELSE t

LEMMA AsRevokedFacts ==
  ASSUME NEW id, NEW t \in Tokens
  PROVE  /\ AsRevoked(id, t) \in Tokens
         /\ AsRevoked(id, t).id = t.id /\ AsRevoked(id, t).label = t.label
         /\ t.id # id => AsRevoked(id, t) = t
         /\ t.id = id => AsRevoked(id, t).revoked
         /\ t.revoked => AsRevoked(id, t).revoked
<1>1. CASE t.id # id
  BY <1>1 DEF AsRevoked
<1>2. CASE t.id = id
  <2>1. AsRevoked(id, t) = [t EXCEPT !.revoked = TRUE]
    BY <1>2 DEF AsRevoked
  <2>2. AsRevoked(id, t) = [id |-> t.id, label |-> t.label, revoked |-> TRUE]
    BY <2>1 DEF Tokens
  <2>3. t.id \in Ids /\ t.label \in Labels
    BY DEF Tokens
  <2>4. AsRevoked(id, t) \in Tokens
    BY <2>2, <2>3 DEF Tokens
  <2>5. QED  BY <1>2, <2>2, <2>4
<1>3. QED  BY <1>1, <1>2

\* Revoking keeps every id, every other record, and what was revoked already.
LEMMA RevokeFacts ==
  ASSUME entries \in Contents, NEW id
  PROVE  /\ WithRevoked(id) \in Contents
         /\ WellFormed(entries) => WellFormed(WithRevoked(id))
         /\ \A t \in entries : /\ \E u \in WithRevoked(id) : u.id = t.id
                               /\ t.id # id => t \in WithRevoked(id)
         /\ \A u \in WithRevoked(id) :
              /\ u.id = id => u.revoked
              /\ \E t \in entries : /\ u.id = t.id
                                    /\ t.revoked => u.revoked
<1>1. WithRevoked(id) = {AsRevoked(id, t) : t \in entries}
  BY DEF WithRevoked, AsRevoked
<1>2. \A t \in entries : /\ AsRevoked(id, t) \in Tokens
                         /\ AsRevoked(id, t).id = t.id /\ AsRevoked(id, t).label = t.label
                         /\ t.id # id => AsRevoked(id, t) = t
                         /\ t.id = id => AsRevoked(id, t).revoked
                         /\ t.revoked => AsRevoked(id, t).revoked
  BY AsRevokedFacts DEF Contents
<1>3. \A u \in WithRevoked(id) : \E t \in entries : u = AsRevoked(id, t)
  BY <1>1
<1>4. \A t \in entries : AsRevoked(id, t) \in WithRevoked(id)
  BY <1>1
<1>5. WithRevoked(id) \in Contents
  BY <1>2, <1>3 DEF Contents
<1>6. WellFormed(entries) => WellFormed(WithRevoked(id))
  <2> SUFFICES ASSUME WellFormed(entries),
                      NEW u \in WithRevoked(id), NEW v \in WithRevoked(id)
               PROVE  /\ u.id = v.id => u = v
                      /\ u.label = v.label /\ ~u.revoked /\ ~v.revoked => u = v
    BY DEF WellFormed
  <2>1. PICK t \in entries : u = AsRevoked(id, t)
    BY <1>3
  <2>2. PICK w \in entries : v = AsRevoked(id, w)
    BY <1>3
  <2>3. t.id = w.id => t = w
    BY DEF WellFormed
  <2>4. t.label = w.label /\ ~t.revoked /\ ~w.revoked => t = w
    BY DEF WellFormed
  <2>5. QED  BY <1>2, <2>1, <2>2, <2>3, <2>4
<1>7. \A t \in entries : /\ \E u \in WithRevoked(id) : u.id = t.id
                         /\ t.id # id => t \in WithRevoked(id)
  BY <1>2, <1>4
<1>8. \A u \in WithRevoked(id) :
        /\ u.id = id => u.revoked
        /\ \E t \in entries : /\ u.id = t.id
                              /\ t.revoked => u.revoked
  BY <1>2, <1>3
<1>9. QED  BY <1>5, <1>6, <1>7, <1>8

\* The kinds of calls are told apart by where they are.
LEMMA CallFacts ==
  ASSUME StoreType, NEW c \in Callers
  PROVE  /\ call[c].at = "waiting" => call[c] \in Waiting /\ call[c] # NoCall
         /\ call[c].at = "writing" => /\ call[c] \in Writing /\ call[c] # NoCall
                                      /\ call[c].by \in Writers /\ call[c].id \in Ids
         /\ call[c] # NoCall => call[c].at \in {"waiting", "writing"}
         /\ NoCall.at = "idle"
BY DEF StoreType, Waiting, Writing, NoCall

\* A thread that writes is at one of its places.
LEMMA AwakeFacts ==
  ASSUME StoreType, NEW w \in Writers
  PROVE  /\ thread[w] # Sleeping <=> thread[w] \in Awake
         /\ thread[w].at \in Places => thread[w] \in Awake
         /\ thread[w] \in Awake => /\ thread[w].at \in Places
                                   /\ thread[w].content \in Contents
                                   /\ thread[w].fd \in Names
                                   /\ thread[w].left \in BOOLEAN
BY DEF StoreType, Awake, Places, Sleeping

\* The file is the same when nothing was renamed to it.
LEMMA SameFile ==
  ASSUME UNCHANGED agent_file
  PROVE  InFile' = InFile
BY DEF InFile, read_entries, WellFormed

\* Calls that write and go on writing.
LEMMA CallFrame ==
  ASSUME StoreType, CallInv,
         writing' # NoOne => call'[writing'].at = "writing",
         \A c \in Callers : call'[c].at = "writing" =>
           /\ call'[c] = call[c] /\ writing' = writing /\ entries' = entries
           /\ thread'[call[c].by] # Sleeping
           /\ thread'[call[c].by].content = thread[call[c].by].content
  PROVE  CallInv'
<1> SUFFICES ASSUME NEW c \in Callers, call'[c].at = "writing"
             PROVE  /\ writing' = c
                    /\ thread'[call'[c].by] # Sleeping
                    /\ thread'[call'[c].by].content = Applied(c, call[c].by)'
                    /\ call'[c].op = "issue" => \A t \in entries' : t.id # call'[c].id
                    /\ call'[c].op = "revoke" => \E t \in entries' : t.id = call'[c].id
  BY DEF CallInv
<1>1. /\ call'[c] = call[c] /\ writing' = writing /\ entries' = entries
      /\ thread'[call[c].by] # Sleeping
      /\ thread'[call[c].by].content = thread[call[c].by].content
  OBVIOUS
<1>2. call[c].at = "writing"
  BY <1>1
<1>3. /\ writing = c
      /\ thread[call[c].by].content = Applied(c, call[c].by)
      /\ call[c].op = "issue" => \A t \in entries : t.id # call[c].id
      /\ call[c].op = "revoke" => \E t \in entries : t.id = call[c].id
  BY <1>2 DEF CallInv
<1>4. Applied(c, call[c].by)' = Applied(c, call[c].by)
  BY <1>1 DEF Applied, WithRevoked
<1>5. QED  BY <1>1, <1>3, <1>4

\* A step that writes nothing and tells nobody anything: threads may end or fail,
\* the store may close.
LEMMA SoundFrame ==
  ASSUME Sound, UNCHANGED <<agent_file, temporary, told>>, ~fault',
         up' => up /\ entries' = entries,
         \A v \in Writers : thread'[v] # Sleeping =>
           /\ thread[v] # Sleeping /\ thread'[v].content = thread[v].content
           /\ \/ thread'[v].at = "failed"
              \/ thread'[v].at = thread[v].at /\ thread'[v].fd = thread[v].fd
  PROVE  Sound'
<1> USE DEF Sound
<1>1. InFile' = InFile
  BY SameFile
<1>2. FileInv'
  <2>1. Keeps(InFile)'
    BY <1>1 DEF FileInv, Keeps
  <2>2. QED  BY <2>1 DEF FileInv, WellFormed
<1>3. ThreadInv'
  <2> SUFFICES ASSUME NEW v \in Writers, thread'[v] # Sleeping
               PROVE  /\ \A u \in Writers : thread'[u] # Sleeping => u = v
                      /\ WellFormed(thread[v].content)' /\ Keeps(thread[v].content)'
                      /\ up' => Follows(thread[v].content)'
                      /\ thread'[v].at = "write" => thread'[v].fd = "temporary"
                      /\ thread'[v].at = "rename" => temporary' = thread'[v].content
                      /\ thread'[v].at = "renamed" => InFile' = thread'[v].content
    BY DEF ThreadInv
  <2>1. /\ \A u \in Writers : thread[u] # Sleeping => u = v
        /\ WellFormed(thread[v].content) /\ Keeps(thread[v].content)
        /\ up => Follows(thread[v].content)
        /\ thread[v].at = "write" => thread[v].fd = "temporary"
        /\ thread[v].at = "rename" => temporary = thread[v].content
        /\ thread[v].at = "renamed" => InFile = thread[v].content
        /\ thread'[v].content = thread[v].content
    BY DEF ThreadInv
  <2>2. WellFormed(thread[v].content)' /\ Keeps(thread[v].content)'
    BY <2>1 DEF WellFormed, Keeps
  <2>3. up' => Follows(thread[v].content)'
    BY <2>1 DEF Follows
  <2>4. QED  BY <1>1, <2>1, <2>2, <2>3
<1>4. MemoryInv'
  BY <1>1 DEF MemoryInv, WellFormed, Keeps, Follows
<1>5. QED  BY <1>2, <1>3, <1>4

\* The variables the invariant of the store speaks of.
kept == <<up, entries, fault, writing, call, thread, agent_file, temporary, told,
          overlapped>>

\* A step that changes nothing of the store.
LEMMA StoreUnchanged ==
  ASSUME StoreInv, UNCHANGED kept
  PROVE  StoreInv'
<1> USE DEF kept, StoreInv
<1>1. StoreType'
  BY DEF StoreType
<1>2. CallInv'
  BY DEF CallInv, Applied, WithRevoked
<1>3. ClosedInv'
  BY DEF ClosedInv
<1>4. overlapped' \/ Sound'
  <2> SUFFICES ASSUME Sound  PROVE Sound'
    OBVIOUS
  <2>1. ~fault'
    BY DEF Sound, FileInv
  <2>2. QED  BY <2>1, SoundFrame
<1>5. QED  BY <1>1, <1>2, <1>3, <1>4

\* One thread moves on, from what it does to the files.
LEMMA ThreadStep ==
  ASSUME StoreInv, NEW w \in Writers, thread[w] # Sleeping,
         thread' \in [Writers -> {Sleeping} \cup Awake],
         \A v \in Writers : thread[v] # Sleeping =>
           thread'[v] # Sleeping /\ thread'[v].content = thread[v].content,
         \A v \in Writers : thread[v] = Sleeping => thread'[v] = Sleeping,
         UNCHANGED <<up, entries, fault, writing, call, told, overlapped>>,
         agent_file' \in Files, temporary' \in Files,
         Sound => /\ InFile' \in {InFile, thread[w].content}
                  /\ agent_file' # NoOne => agent_file' # Half /\ WellFormed(agent_file)'
                  /\ thread'[w].at = "write" => thread'[w].fd = "temporary"
                  /\ thread'[w].at = "rename" => temporary' = thread[w].content
                  /\ thread'[w].at = "renamed" => InFile' = thread[w].content
  PROVE  StoreInv'
<1> USE DEF StoreInv
<1>1. StoreType'
  BY DEF StoreType
<1>2. CallInv'
  <2>1. \A c \in Callers : call[c].at = "writing" =>
          /\ thread'[call[c].by] # Sleeping
          /\ thread'[call[c].by].content = thread[call[c].by].content
    <3> TAKE c \in Callers
    <3> HAVE call[c].at = "writing"
    <3>1. thread[call[c].by] # Sleeping /\ call[c].by \in Writers
      BY CallFacts DEF CallInv
    <3>2. QED  BY <3>1
  <2>2. writing' # NoOne => call'[writing'].at = "writing"
    BY DEF CallInv
  <2>3. QED  BY <2>1, <2>2, CallFrame
<1>3. ClosedInv'
  BY DEF ClosedInv
<1>4. overlapped' \/ Sound'
  <2> SUFFICES ASSUME Sound  PROVE Sound'
    OBVIOUS
  <2>1. /\ \A v \in Writers : thread[v] # Sleeping => v = w
        /\ WellFormed(thread[w].content) /\ Keeps(thread[w].content)
        /\ up => Follows(thread[w].content)
        /\ up => WellFormed(entries) /\ Keeps(entries) /\ Follows(InFile)
        /\ ~fault /\ Keeps(InFile)
    BY DEF Sound, ThreadInv, FileInv, MemoryInv
  <2>2. /\ Keeps(thread[w].content)' /\ Keeps(InFile)'
        /\ up => Keeps(entries)' /\ Follows(InFile)' /\ Follows(thread[w].content)'
        /\ thread'[w].content = thread[w].content
    BY <2>1 DEF Keeps, Follows
  <2>3. FileInv'
    BY <2>1, <2>2 DEF FileInv
  <2>4. WellFormed(thread[w].content)' /\ (up => WellFormed(entries)')
    BY <2>1, <2>2 DEF WellFormed
  <2>5. ThreadInv'
    <3> SUFFICES ASSUME NEW v \in Writers, thread'[v] # Sleeping
                 PROVE  /\ \A u \in Writers : thread'[u] # Sleeping => u = v
                        /\ WellFormed(thread[v].content)' /\ Keeps(thread[v].content)'
                        /\ up' => Follows(thread[v].content)'
                        /\ thread'[v].at = "write" => thread'[v].fd = "temporary"
                        /\ thread'[v].at = "rename" => temporary' = thread'[v].content
                        /\ thread'[v].at = "renamed" => InFile' = thread'[v].content
      BY DEF ThreadInv
    <3>1. v = w /\ \A u \in Writers : thread'[u] # Sleeping => u = v
      BY <2>1
    <3>2. QED  BY <2>2, <2>4, <3>1
  <2>6. MemoryInv'
    BY <2>2, <2>4 DEF MemoryInv
  <2>7. QED  BY <2>3, <2>5, <2>6 DEF Sound
<1>5. QED  BY <1>1, <1>2, <1>3, <1>4

\* A file that a thread has open is renamed or removed: the threads go on with it.
LEMMA FollowFacts ==
  ASSUME StoreType, NEW names, DOMAIN names \subseteq {"temporary", "agent_file"},
         \A n \in DOMAIN names : names[n] \in Names
  PROVE  /\ Follow(names) \in [Writers -> {Sleeping} \cup Awake]
         /\ \A v \in Writers :
              IF thread[v] = Sleeping THEN Follow(names)[v] = Sleeping
              ELSE Follow(names)[v] \in Awake /\ Follow(names)[v].content = thread[v].content
<1>1. ASSUME NEW v \in Writers, thread[v] # Sleeping, thread[v].fd \in DOMAIN names
      PROVE  /\ [thread[v] EXCEPT !.fd = names[thread[v].fd]] \in Awake
             /\ [thread[v] EXCEPT !.fd = names[thread[v].fd]].content = thread[v].content
  <2>1. thread[v] \in Awake /\ names[thread[v].fd] \in Names
    BY <1>1, AwakeFacts
  <2>2. QED  BY <2>1 DEF Awake
<1>2. ASSUME NEW v \in Writers
      PROVE  IF thread[v] = Sleeping THEN Follow(names)[v] = Sleeping
             ELSE Follow(names)[v] \in Awake /\ Follow(names)[v].content = thread[v].content
  <2>1. Follow(names)[v] = IF thread[v] # Sleeping /\ thread[v].fd \in DOMAIN names
                           THEN [thread[v] EXCEPT !.fd = names[thread[v].fd]] ELSE thread[v]
    BY DEF Follow
  <2>2. thread[v] # Sleeping => thread[v] \in Awake
    BY AwakeFacts
  <2>3. QED  BY <1>1, <2>1, <2>2
<1>3. Follow(names) = [v \in Writers |-> Follow(names)[v]]
  BY DEF Follow
<1>4. QED  BY <1>2, <1>3

\* A thread's record with another place, and with another open file.
LEMMA PlaceFacts ==
  ASSUME NEW t \in Awake, NEW p \in Places, NEW f \in Names
  PROVE  /\ [t EXCEPT !.at = p] \in Awake /\ [t EXCEPT !.at = p, !.fd = f] \in Awake
         /\ [t EXCEPT !.at = p].at = p /\ [t EXCEPT !.at = p, !.fd = f].at = p
         /\ [t EXCEPT !.at = p, !.fd = f].fd = f
         /\ [t EXCEPT !.at = p].content = t.content
         /\ [t EXCEPT !.at = p, !.fd = f].content = t.content
BY DEF Awake

\* The operations of write_atomically, one of which may fail.
LEMMA WriteSteps ==
  ASSUME StoreInv, NEW w \in Writers,
         \/ RemoveLeftover(w) \/ CreateTemporary(w) \/ WriteAndSync(w) \/ Rename(w)
         \/ Fails(w)
  PROVE  StoreInv'
<1> USE DEF ElseUnchanged, Thread
<1>1. /\ thread[w] # Sleeping /\ thread[w] \in Awake /\ thread[w].content \in Contents
      /\ thread[w].fd \in Names
  BY AwakeFacts DEF RemoveLeftover, CreateTemporary, WriteAndSync, Rename, Fails, Places,
     StoreInv
<1>2. /\ StoreType /\ thread \in [Writers -> {Sleeping} \cup Awake]
      /\ agent_file \in Files /\ temporary \in Files
      /\ \A v \in Writers : thread[v] # Sleeping => thread[v] \in Awake
      /\ Sleeping \notin Awake
  BY AwakeFacts DEF StoreInv, StoreType, Awake, Sleeping
<1>3. Sound => /\ agent_file # NoOne => agent_file # Half /\ WellFormed(agent_file)
               /\ thread[w].at = "write" => thread[w].fd = "temporary"
               /\ thread[w].at = "rename" => temporary = thread[w].content
               /\ WellFormed(thread[w].content)
  BY <1>1 DEF Sound, FileInv, ThreadInv
<1>4. thread[w].content # Half /\ thread[w].content # NoOne
  BY <1>1, TokenStoreAssumption DEF Contents, Tokens
<1>5. UNCHANGED <<up, entries, fault, writing, call, told, overlapped>>
  BY DEF RemoveLeftover, CreateTemporary, WriteAndSync, Rename, Fails
<1>6. ASSUME UNCHANGED agent_file
      PROVE  Sound => /\ InFile' \in {InFile, thread[w].content}
                      /\ agent_file' # NoOne => agent_file' # Half /\ WellFormed(agent_file)'
  <2>1. InFile' = InFile
    BY <1>6, SameFile
  <2>2. Sound => (agent_file # NoOne => WellFormed(agent_file)')
    BY <1>3, <1>6 DEF WellFormed
  <2>3. QED  BY <1>3, <1>6, <2>1, <2>2
<1>7. ASSUME NEW g \in [Writers -> {Sleeping} \cup Awake],
             \A v \in Writers :
               IF thread[v] = Sleeping THEN g[v] = Sleeping
               ELSE g[v] \in Awake /\ g[v].content = thread[v].content,
             NEW r \in Awake, r.content = thread[w].content, thread' = [g EXCEPT ![w] = r]
      PROVE  /\ thread' \in [Writers -> {Sleeping} \cup Awake] /\ thread'[w] = r
             /\ \A v \in Writers : thread[v] # Sleeping =>
                  thread'[v] # Sleeping /\ thread'[v].content = thread[v].content
             /\ \A v \in Writers : thread[v] = Sleeping => thread'[v] = Sleeping
  <2>1. /\ thread' \in [Writers -> {Sleeping} \cup Awake] /\ thread'[w] = r
        /\ \A v \in Writers : v # w => thread'[v] = g[v]
    BY <1>7
  <2>2. QED  BY <1>1, <1>2, <1>7, <2>1
<1>8. ASSUME NEW p \in Places, Goto(w, p), agent_file' = agent_file, temporary' = temporary,
             p \notin {"write", "rename", "renamed"}
      PROVE  StoreInv'
  <2> PICK r : r = [thread[w] EXCEPT !.at = p]
    OBVIOUS
  <2>1. r \in Awake /\ r.at = p /\ r.content = thread[w].content
    BY <1>1, PlaceFacts
  <2>2. thread' = [thread EXCEPT ![w] = r]
    BY <1>8 DEF Goto
  <2>3. QED  BY <1>1, <1>2, <1>5, <1>6, <1>7, <1>8, <2>1, <2>2, ThreadStep
<1>9. CASE RemoveLeftover(w)
  <2> DEFINE g == Follow([temporary |-> NoOne])
  <2>1. /\ g \in [Writers -> {Sleeping} \cup Awake]
        /\ \A v \in Writers : IF thread[v] = Sleeping THEN g[v] = Sleeping
                              ELSE g[v] \in Awake /\ g[v].content = thread[v].content
    BY <1>2, FollowFacts DEF Names
  <2>2. thread' = [g EXCEPT ![w].at = "create"] /\ agent_file' = agent_file
        /\ temporary' = NoOne
    BY <1>9 DEF RemoveLeftover
  <2> HIDE DEF g
  <2> PICK r : r = [g[w] EXCEPT !.at = "create"]
    OBVIOUS
  <2>3. r \in Awake /\ r.at = "create" /\ r.content = thread[w].content
    <3>1. g[w] \in Awake /\ g[w].content = thread[w].content /\ NoOne \in Names
      BY <1>1, <2>1 DEF Names
    <3>2. "create" \in Places
      BY DEF Places
    <3>3. QED  BY <3>1, <3>2, PlaceFacts
  <2>4. thread' = [g EXCEPT ![w] = r]
    BY <2>2
  <2>5. temporary' \in Files
    BY <2>2 DEF Files
  <2>6. QED  BY <1>1, <1>2, <1>5, <1>6, <1>7, <2>1, <2>2, <2>3, <2>4, <2>5, ThreadStep
<1>10. CASE CreateTemporary(w) /\ temporary = NoOne
  <2> PICK r : r = [thread[w] EXCEPT !.at = "write", !.fd = "temporary"]
    OBVIOUS
  <2>1. /\ r \in Awake /\ r.at = "write" /\ r.fd = "temporary"
        /\ r.content = thread[w].content
    BY <1>1 DEF Awake, Places, Names
  <2>2. thread' = [thread EXCEPT ![w] = r] /\ agent_file' = agent_file /\ temporary' = Half
    BY <1>2, <1>10 DEF CreateTemporary
  <2>3. temporary' \in Files
    BY <2>2 DEF Files
  <2>4. QED  BY <1>1, <1>2, <1>5, <1>6, <1>7, <2>1, <2>2, <2>3, ThreadStep
<1>11. CASE CreateTemporary(w) /\ temporary # NoOne
  BY <1>8, <1>11 DEF CreateTemporary, Places
<1>12. CASE WriteAndSync(w)
  <2> PICK r : r = [thread[w] EXCEPT !.at = "rename", !.fd = NoOne]
    OBVIOUS
  <2>1. r \in Awake /\ r.at = "rename" /\ r.content = thread[w].content
    BY <1>1, PlaceFacts DEF Places, Names
  <2>2. /\ thread' = [thread EXCEPT ![w] = r] /\ thread[w].at = "write"
        /\ temporary' = IF thread[w].fd = "temporary" THEN thread[w].content ELSE temporary
        /\ agent_file' = IF thread[w].fd = "agent_file" THEN thread[w].content ELSE agent_file
    BY <1>2, <1>12 DEF WriteAndSync
  <2>3. agent_file' \in Files /\ temporary' \in Files
    BY <1>1, <1>2, <2>2 DEF Files
  <2>4. Sound => UNCHANGED agent_file /\ temporary' = thread[w].content
    BY <1>3, <2>2
  <2>5. QED  BY <1>1, <1>2, <1>5, <1>6, <1>7, <2>1, <2>2, <2>3, <2>4, ThreadStep
<1>13. CASE Rename(w) /\ temporary # NoOne
  <2> DEFINE g == Follow([temporary |-> "agent_file", agent_file |-> NoOne])
  <2>1. /\ g \in [Writers -> {Sleeping} \cup Awake]
        /\ \A v \in Writers : IF thread[v] = Sleeping THEN g[v] = Sleeping
                              ELSE g[v] \in Awake /\ g[v].content = thread[v].content
    BY <1>2, FollowFacts DEF Names
  <2>2. /\ thread' = [g EXCEPT ![w].at = "renamed"] /\ thread[w].at = "rename"
        /\ agent_file' = temporary /\ temporary' = NoOne
    BY <1>13 DEF Rename
  <2> HIDE DEF g
  <2> PICK r : r = [g[w] EXCEPT !.at = "renamed"]
    OBVIOUS
  <2>3. r \in Awake /\ r.at = "renamed" /\ r.content = thread[w].content
    <3>1. g[w] \in Awake /\ g[w].content = thread[w].content /\ NoOne \in Names
      BY <1>1, <2>1 DEF Names
    <3>2. "renamed" \in Places
      BY DEF Places
    <3>3. QED  BY <3>1, <3>2, PlaceFacts
  <2>4. thread' = [g EXCEPT ![w] = r]
    BY <2>2
  <2>5. temporary' \in Files /\ agent_file' \in Files
    BY <1>2, <2>2 DEF Files
  <2>6. Sound => /\ InFile' = thread[w].content
                 /\ agent_file' # Half /\ WellFormed(agent_file)'
    <3> SUFFICES ASSUME Sound
                 PROVE  /\ InFile' = thread[w].content
                        /\ agent_file' # Half /\ WellFormed(agent_file)'
      OBVIOUS
    <3>1. agent_file' = thread[w].content /\ WellFormed(thread[w].content)
      BY <1>3, <2>2
    <3>2. WellFormed(agent_file)'
      BY <3>1 DEF WellFormed
    <3>3. read_entries' = [tokens |-> thread[w].content, fault |-> FALSE]
      BY <1>4, <3>1, <3>2 DEF read_entries
    <3>4. QED  BY <1>4, <3>1, <3>2, <3>3 DEF InFile
  <2>7. QED  BY <1>1, <1>2, <1>5, <1>7, <2>1, <2>2, <2>3, <2>4, <2>5, <2>6, ThreadStep
<1>14. CASE Rename(w) /\ temporary = NoOne
  BY <1>8, <1>14 DEF Rename, Places
<1>15. CASE Fails(w)
  <2> PICK r : r = [thread[w] EXCEPT !.at = "failed", !.fd = NoOne]
    OBVIOUS
  <2>1. r \in Awake /\ r.at = "failed" /\ r.content = thread[w].content
    BY <1>1, PlaceFacts DEF Places, Names
  <2>2. thread' = [thread EXCEPT ![w] = r] /\ UNCHANGED <<agent_file, temporary>>
    BY <1>2, <1>15 DEF Fails
  <2>3. QED  BY <1>1, <1>2, <1>5, <1>6, <1>7, <2>1, <2>2, ThreadStep
<1>16. QED
  BY <1>9, <1>10, <1>11, <1>12, <1>13, <1>14, <1>15

\* A call that waits finds the store open and no call that writes.
LEMMA WaitingFacts ==
  ASSUME StoreInv, NEW c \in Callers, call[c].at = "waiting", writing = NoOne
  PROVE  /\ up /\ call[c] \in Waiting /\ entries \in Contents
         /\ \A d \in Callers : call[d].at # "writing"
<1>1. call[c] # NoCall /\ call[c] \in Waiting
  BY CallFacts DEF StoreInv
<1>2. up
  BY <1>1 DEF StoreInv, ClosedInv
<1>3. \A d \in Callers : call[d].at # "writing"
  BY TokenStoreAssumption DEF StoreInv, CallInv
<1>4. QED  BY <1>1, <1>2, <1>3 DEF StoreInv, StoreType

\* A call starts a thread with what the file is to hold.
LEMMA StartStep ==
  ASSUME StoreInv, NEW c \in Callers, NEW w \in Writers,
         NEW id \in Ids, NEW next \in Contents, Start(c, w, id, next),
         WellFormed(entries) => WellFormed(next), call[c].op \in {"issue", "revoke"},
         next = IF call[c].op = "issue" THEN entries \cup {t \in next : t.id = id}
                                        ELSE WithRevoked(id),
         \A t \in entries : t.id # id => t \in next,
         \A t \in entries : \E u \in next : u.id = t.id,
         \A u \in next : (\E t \in entries : t.id = u.id) =>
                            \E t \in entries : t.id = u.id /\ (t.revoked => u.revoked),
         call[c].op = "issue" => \A t \in entries : t.id # id,
         call[c].op = "revoke" => \E t \in entries : t.id = id
  PROVE  StoreInv'
<1> PICK op : op = call[c].op
  OBVIOUS
<1> DEFINE r == [at |-> "remove", content |-> next, fd |-> NoOne, left |-> FALSE]
           k == [at |-> "writing", op |-> op, id |-> id, by |-> w]
<1>1. /\ call[c].at = "waiting" /\ writing = NoOne /\ writing' = c
      /\ call' = [call EXCEPT ![c] = k] /\ thread' = [thread EXCEPT ![w] = r]
      /\ told' = [told EXCEPT !.issued = {t \in told.issued : t.id # id}]
      /\ overlapped' = (overlapped \/ ~NoneAwake)
      /\ UNCHANGED <<up, entries, fault, agent_file, temporary>>
  BY DEF Start
<1>2. up /\ \A d \in Callers : call[d].at # "writing"
  BY <1>1, WaitingFacts
<1>3. r \in Awake /\ k \in Writing
  BY DEF Awake, Writing, Places, Names
<1>4. /\ r.at = "remove" /\ r.content = next /\ r # Sleeping
      /\ k.at = "writing" /\ k.op = op /\ k.id = id /\ k.by = w
  BY DEF Sleeping
<1> HIDE DEF r, k
<1>5. /\ told'.issued = {t \in told.issued : t.id # id} /\ told'.revoked = told.revoked
      /\ told' \in [issued : Contents, revoked : SUBSET Ids]
  BY <1>1 DEF StoreInv, StoreType, Contents
<1>6. /\ thread'[w] = r /\ \A v \in Writers : v # w => thread'[v] = thread[v]
      /\ call'[c] = k /\ \A d \in Callers : d # c => call'[d] = call[d]
  BY <1>1 DEF StoreInv, StoreType
<1>7. StoreType'
  <2>1. /\ call' \in [Callers -> {NoCall} \cup Waiting \cup Writing]
        /\ thread' \in [Writers -> {Sleeping} \cup Awake]
    BY <1>1, <1>3 DEF StoreInv, StoreType
  <2>2. QED  BY <1>1, <1>5, <2>1 DEF StoreInv, StoreType
<1>8. CallInv'
  <2>1. /\ writing' = c /\ call'[c].at = "writing"
        /\ \A d \in Callers : d # c => call'[d].at # "writing"
    BY <1>1, <1>2, <1>4, <1>6
  <2>2. Applied(c, w)' = next
    BY <1>1, <1>4, <1>6 DEF Applied, WithRevoked
  <2>3. Applied(c, call[c].by)' = next
    BY <1>4, <1>6, <2>2 DEF Applied
  <2>4. thread'[call'[c].by] = r
    BY <1>4, <1>6
  <2>5. QED  BY <1>1, <1>4, <1>6, <2>1, <2>3, <2>4 DEF CallInv
<1>9. ClosedInv'
  BY <1>1, <1>2 DEF ClosedInv
<1>10. overlapped' \/ Sound'
  <2> SUFFICES ASSUME ~overlapped'  PROVE Sound'
    OBVIOUS
  <2>1. Sound /\ \A v \in Writers : thread[v] = Sleeping
    BY <1>1 DEF StoreInv, NoneAwake
  <2>2. /\ WellFormed(entries) /\ Keeps(entries) /\ Follows(InFile)
        /\ ~fault /\ Keeps(InFile)
        /\ agent_file # NoOne => agent_file # Half /\ WellFormed(agent_file)
    BY <1>2, <2>1 DEF Sound, FileInv, MemoryInv
  <2>3. InFile' = InFile
    BY <1>1, SameFile
  <2>4. Keeps(entries)' /\ Keeps(InFile)'
    BY <1>1, <1>5, <2>2, <2>3 DEF Keeps
  <2>5. Keeps(next)'
    <3>1. told'.issued \subseteq next
      BY <1>5, <2>2 DEF Keeps
    <3>2. ASSUME NEW i \in told.revoked
          PROVE  (\E t \in next : t.id = i) /\ (\A t \in next : t.id = i => t.revoked)
      BY <2>2 DEF Keeps
    <3>3. QED  BY <1>5, <3>1, <3>2 DEF Keeps
  <2>6. Follows(next)'
    <3> SUFFICES ASSUME NEW t \in entries, t.revoked
                 PROVE  /\ \E u \in next : u.id = t.id
                        /\ \A u \in next : u.id = t.id => u.revoked
      BY <1>1 DEF Follows
    <3>1. \A s \in entries : s.id = t.id => s = t
      BY <2>2 DEF WellFormed
    <3>2. QED  BY <3>1
  <2>7. FileInv'
    BY <1>1, <2>2, <2>4 DEF FileInv, WellFormed
  <2>8. ThreadInv'
    <3> SUFFICES ASSUME NEW v \in Writers, thread'[v] # Sleeping
                 PROVE  /\ \A u \in Writers : thread'[u] # Sleeping => u = v
                        /\ WellFormed(thread[v].content)' /\ Keeps(thread[v].content)'
                        /\ Follows(thread[v].content)'
                        /\ thread'[v].at = "remove"
      BY DEF ThreadInv
    <3>1. v = w /\ thread'[v].content = next
      BY <1>4, <1>6, <2>1
    <3>2. /\ WellFormed(thread[v].content)' /\ Keeps(thread[v].content)'
          /\ Follows(thread[v].content)'
      BY <2>2, <2>5, <2>6, <3>1 DEF WellFormed, Keeps, Follows
    <3>3. QED  BY <1>4, <1>6, <2>1, <3>1, <3>2
  <2>9. MemoryInv'
    <3>1. WellFormed(entries)' /\ Follows(InFile)'
      BY <1>1, <2>2, <2>3 DEF WellFormed, Follows
    <3>2. QED  BY <2>4, <3>1 DEF MemoryInv
  <2>10. QED  BY <2>7, <2>8, <2>9 DEF Sound
<1>11. QED  BY <1>7, <1>8, <1>9, <1>10 DEF StoreInv

\* The calls that start a thread.
LEMMA StartSteps ==
  ASSUME StoreInv, NEW c \in Callers, NEW w \in Writers, issue(c, w) \/ revoke(c, w)
  PROVE  StoreInv'
<1>1. CASE issue(c, w)
  <2>1. PICK id \in fresh_id : Start(c, w, id, WithToken(id, call[c].label))
    BY <1>1 DEF issue
  <2>2. call[c].at = "waiting" /\ writing = NoOne /\ call[c].op = "issue" /\ ~Refused(call[c])
    BY <1>1, <2>1 DEF issue, Start
  <2>3. entries \in Contents /\ call[c] \in Waiting
    BY <2>2, WaitingFacts
  <2> PICK label : label = call[c].label
    OBVIOUS
  <2>4. label \in Labels
    BY <2>2, <2>3 DEF Waiting
  <2>5. ~LabelInUse(label)
    BY <2>2 DEF Refused
  <2> DEFINE next == WithToken(id, label)
  <2>6. /\ id \in Ids /\ Issued(id, label) \in Tokens /\ Issued(id, label).id = id
        /\ next \in Contents /\ (WellFormed(entries) => WellFormed(next))
        /\ \A t \in entries : t.id # id
    BY <2>3, <2>4, <2>5, IssueFacts
  <2>7. next = entries \cup {Issued(id, label)}
    BY DEF WithToken
  <2>8. next = entries \cup {t \in next : t.id = id}
    BY <2>6, <2>7
  <2>9. Start(c, w, id, next)
    BY <2>1
  <2> HIDE DEF next
  <2>10. /\ \A t \in entries : t.id # id => t \in next
         /\ \A t \in entries : \E u \in next : u.id = t.id
         /\ \A u \in next : (\E t \in entries : t.id = u.id) =>
                               \E t \in entries : t.id = u.id /\ (t.revoked => u.revoked)
    <3>1. entries \subseteq next
      BY <2>7
    <3>2. ASSUME NEW u \in next, NEW t \in entries, t.id = u.id
          PROVE  u \in entries
      BY <2>6, <2>7, <3>2
    <3>3. QED  BY <3>1, <3>2
  <2>11. next = IF call[c].op = "issue" THEN entries \cup {t \in next : t.id = id}
                                        ELSE WithRevoked(id)
    BY <2>2, <2>8
  <2>12. QED
    BY <2>2, <2>6, <2>9, <2>10, <2>11, StartStep
<1>2. CASE revoke(c, w)
  <2> PICK id : id = call[c].id
    OBVIOUS
  <2>1. Start(c, w, id, WithRevoked(id)) /\ call[c].at = "waiting" /\ call[c].op = "revoke"
    BY <1>2 DEF revoke
  <2>2. writing = NoOne /\ ~Refused(call[c])
    BY <2>1 DEF Start
  <2>3. entries \in Contents /\ call[c] \in Waiting
    BY <2>1, <2>2, WaitingFacts
  <2>4. id \in Ids
    BY <2>1, <2>3 DEF Waiting
  <2>5. \E t \in entries : t.id = id
    BY <2>1, <2>2 DEF Refused
  <2> DEFINE next == WithRevoked(id)
  <2>6. /\ next \in Contents /\ (WellFormed(entries) => WellFormed(next))
        /\ \A t \in entries : /\ \E u \in next : u.id = t.id
                              /\ t.id # id => t \in next
        /\ \A u \in next : \E t \in entries : u.id = t.id /\ (t.revoked => u.revoked)
    BY <2>3, RevokeFacts
  <2>7. next = IF call[c].op = "issue" THEN entries \cup {t \in next : t.id = id}
                                       ELSE WithRevoked(id)
    BY <2>1
  <2> HIDE DEF next
  <2>8. QED
    BY <2>1, <2>4, <2>5, <2>6, <2>7, StartStep DEF next
<1>3. QED  BY <1>1, <1>2

\* The call goes on once its thread has written, or failed.
LEMMA AfterSteps ==
  ASSUME StoreInv, NEW c \in Callers, NEW w \in Writers,
         AfterWrite(c, w) \/ AfterFailure(c, w)
  PROVE  StoreInv'
<1>1. call[c].at = "writing" /\ call[c].by = w
  BY DEF AfterWrite, AfterFailure, Waits
<1>2. /\ call' = [call EXCEPT ![c] = NoCall] /\ writing' = NoOne
      /\ thread' = [thread EXCEPT ![w] = Sleeping]
      /\ UNCHANGED <<up, fault, agent_file, temporary, overlapped>>
  BY DEF AfterWrite, AfterFailure
<1>3. /\ \A d \in Callers : call[d].at = "writing" => d = c
      /\ thread[w] # Sleeping /\ thread[w].content = Applied(c, w)
      /\ call[c].op = "revoke" => \E t \in entries : t.id = call[c].id
  BY <1>1 DEF StoreInv, CallInv
<1>4. thread[w].content \in Contents /\ call[c].id \in Ids /\ call[c].op \in {"issue", "revoke"}
  BY <1>1, <1>3, AwakeFacts, CallFacts DEF StoreInv, Writing
<1>5. up
  BY <1>1, CallFacts DEF StoreInv, ClosedInv
<1>6. /\ call' \in [Callers -> {NoCall} \cup Waiting \cup Writing]
      /\ thread' \in [Writers -> {Sleeping} \cup Awake]
      /\ \A d \in Callers : call'[d].at # "writing"
      /\ thread'[w] = Sleeping /\ \A v \in Writers : v # w => thread'[v] = thread[v]
  BY <1>2, <1>3 DEF StoreInv, StoreType, NoCall
<1> PICK content, id : content = thread[w].content /\ id = call[c].id
  OBVIOUS
<1>7. AfterWrite(c, w) =>
        /\ entries' = content
        /\ told'.issued = IF call[c].op = "issue"
                          THEN told.issued \cup {t \in content : t.id = id} ELSE told.issued
        /\ told'.revoked = IF call[c].op = "issue" THEN told.revoked
                           ELSE told.revoked \cup {id}
        /\ told' \in [issued : Contents, revoked : SUBSET Ids]
  <2> SUFFICES ASSUME AfterWrite(c, w)
               PROVE  /\ entries' = content
                      /\ told'.issued = IF call[c].op = "issue"
                                        THEN told.issued \cup {t \in content : t.id = id}
                                        ELSE told.issued
                      /\ told'.revoked = IF call[c].op = "issue" THEN told.revoked
                                         ELSE told.revoked \cup {id}
                      /\ told' \in [issued : Contents, revoked : SUBSET Ids]
    OBVIOUS
  <2>1. entries' = content
    BY <1>3 DEF AfterWrite
  <2>2. told \in [issued : Contents, revoked : SUBSET Ids]
    BY DEF StoreInv, StoreType
  <2>3. CASE call[c].op = "issue"
    <3>1. told' = [told EXCEPT !.issued = told.issued \cup {t \in content : t.id = id}]
      BY <2>3 DEF AfterWrite
    <3>2. QED  BY <1>4, <2>1, <2>2, <2>3, <3>1 DEF Contents
  <2>4. CASE call[c].op = "revoke"
    <3>1. told' = [told EXCEPT !.revoked = told.revoked \cup {id}]
      BY <2>4 DEF AfterWrite
    <3>2. QED  BY <1>4, <2>1, <2>2, <2>4, <3>1
  <2>5. QED  BY <1>4, <2>3, <2>4
<1>8. AfterFailure(c, w) => UNCHANGED <<entries, told>>
  BY DEF AfterFailure
<1>9. StoreType'
  BY <1>2, <1>4, <1>6, <1>7, <1>8, TokenStoreAssumption DEF StoreInv, StoreType
<1>10. CallInv'
  BY <1>2, <1>6, CallFrame DEF StoreInv
<1>11. ClosedInv'
  BY <1>2, <1>5 DEF ClosedInv
<1>12. overlapped' \/ Sound'
  <2> SUFFICES ASSUME Sound  PROVE Sound'
    BY <1>2 DEF StoreInv
  <2>1. ~fault
    BY DEF Sound, FileInv
  <2>2. CASE AfterFailure(c, w)
    BY <1>2, <1>5, <1>6, <1>8, <2>1, <2>2, SoundFrame
  <2>3. CASE AfterWrite(c, w)
    <3>1. /\ \A v \in Writers : thread'[v] = Sleeping
          /\ WellFormed(content) /\ Keeps(content) /\ InFile = content
          /\ agent_file # NoOne => agent_file # Half /\ WellFormed(agent_file)
      BY <1>3, <1>6, <2>3 DEF Sound, FileInv, ThreadInv, AfterWrite, Thread
    <3>2. InFile' = content /\ entries' = content
      BY <1>2, <1>7, <2>3, <3>1, SameFile
    <3>3. Keeps(InFile)' /\ Keeps(entries)'
      <4>1. CASE call[c].op = "issue"
        BY <1>7, <2>3, <3>1, <3>2, <4>1 DEF Keeps
      <4>2. CASE call[c].op = "revoke"
        <5>1. content = WithRevoked(id)
          BY <1>3, <4>2 DEF Applied
        <5>2. /\ \A t \in entries : \E u \in content : u.id = t.id
              /\ \A u \in content : u.id = id => u.revoked
          BY <5>1, RevokeFacts DEF StoreInv, StoreType
        <5>3. \E t \in entries : t.id = id
          BY <1>3, <4>2
        <5>4. QED  BY <1>7, <2>3, <3>1, <3>2, <4>2, <5>2, <5>3 DEF Keeps
      <4>3. QED  BY <1>4, <4>1, <4>2
    <3>4. FileInv'
      BY <1>2, <2>1, <3>1, <3>3 DEF FileInv, WellFormed
    <3>5. ThreadInv'
      BY <3>1 DEF ThreadInv
    <3>6. WellFormed(entries)' /\ Follows(InFile)'
      BY <3>1, <3>2 DEF WellFormed, Follows
    <3>7. QED  BY <3>3, <3>4, <3>5, <3>6 DEF Sound, MemoryInv
  <2>4. QED  BY <2>2, <2>3
<1>13. QED  BY <1>9, <1>10, <1>11, <1>12 DEF StoreInv

\* A thread whose call is gone ends.
LEMMA ForgottenStep ==
  ASSUME StoreInv, NEW w \in Writers, ThreadForgotten(w)
  PROVE  StoreInv'
<1>1. /\ \A c \in Callers : ~Waits(c, w)
      /\ thread' = [thread EXCEPT ![w] = Sleeping]
      /\ UNCHANGED <<up, entries, fault, writing, call, agent_file, temporary, told,
                     overlapped>>
  BY DEF ThreadForgotten
<1>2. /\ thread' \in [Writers -> {Sleeping} \cup Awake]
      /\ thread'[w] = Sleeping /\ \A v \in Writers : v # w => thread'[v] = thread[v]
  BY <1>1 DEF StoreInv, StoreType
<1>3. StoreType' /\ ClosedInv'
  BY <1>1, <1>2 DEF StoreInv, StoreType, ClosedInv
<1>4. CallInv'
  <2>1. \A c \in Callers : call[c].at = "writing" =>
          /\ thread'[call[c].by] # Sleeping
          /\ thread'[call[c].by].content = thread[call[c].by].content
    BY <1>1, <1>2, CallFacts DEF StoreInv, CallInv, Waits
  <2>2. writing' # NoOne => call'[writing'].at = "writing"
    BY <1>1 DEF StoreInv, CallInv
  <2>3. QED  BY <1>1, <2>1, <2>2, CallFrame DEF StoreInv
<1>5. overlapped' \/ Sound'
  <2> SUFFICES ASSUME Sound  PROVE Sound'
    BY <1>1 DEF StoreInv
  <2>1. ~fault'
    BY <1>1 DEF Sound, FileInv
  <2>2. QED  BY <1>1, <1>2, <2>1, SoundFrame
<1>6. QED  BY <1>3, <1>4, <1>5 DEF StoreInv

\* A call is dropped, and a thread that writes for it goes on.
LEMMA DropStep ==
  ASSUME StoreInv, (\E c \in Callers : DropCall(c)) \/ DropAllCalls
  PROVE  StoreInv'
<1>1. UNCHANGED <<up, entries, fault, thread, agent_file, temporary, told, overlapped>>
  BY DEF DropCall, DropAllCalls
<1>2. /\ call' \in [Callers -> {NoCall} \cup Waiting \cup Writing]
      /\ \A d \in Callers : call'[d] # NoCall =>
           call'[d] = call[d] /\ (writing' = writing \/ writing # d)
      /\ writing' \in {NoOne, writing}
      /\ writing' # NoOne => call'[writing'] = call[writing]
  <2>1. CASE DropAllCalls
    BY <2>1 DEF DropAllCalls, StoreInv, StoreType
  <2>2. ASSUME NEW c \in Callers, DropCall(c)
        PROVE  /\ call' \in [Callers -> {NoCall} \cup Waiting \cup Writing]
               /\ \A d \in Callers : call'[d] # NoCall =>
                    call'[d] = call[d] /\ (writing' = writing \/ writing # d)
               /\ writing' \in {NoOne, writing}
               /\ writing' # NoOne => call'[writing'] = call[writing]
    BY <2>2 DEF DropCall, StoreInv, StoreType
  <2>3. QED  BY <2>1, <2>2
<1>3. StoreType'
  BY <1>1, <1>2 DEF StoreInv, StoreType
<1>4. CallInv'
  <2>1. \A d \in Callers : call'[d].at = "writing" =>
          /\ call'[d] = call[d] /\ writing' = writing
          /\ thread[call[d].by] # Sleeping
    BY <1>2 DEF StoreInv, CallInv, NoCall
  <2>2. writing' # NoOne => call'[writing'].at = "writing"
    BY <1>2 DEF StoreInv, CallInv
  <2>3. QED  BY <1>1, <2>1, <2>2, CallFrame DEF StoreInv
<1>5. ClosedInv'
  BY <1>1, <1>2 DEF StoreInv, ClosedInv
<1>6. overlapped' \/ Sound'
  <2> SUFFICES ASSUME Sound  PROVE Sound'
    BY <1>1 DEF StoreInv
  <2>1. ~fault'
    BY <1>1 DEF Sound, FileInv
  <2>2. QED  BY <1>1, <2>1, SoundFrame
<1>7. QED  BY <1>3, <1>4, <1>5, <1>6 DEF StoreInv

\* A call that is answered as it is: refused, or revoked already.
LEMMA AnswerStep ==
  ASSUME StoreInv, NEW c \in Callers, Answer(c)
  PROVE  StoreInv'
<1>1. /\ call[c].at = "waiting" /\ writing = NoOne
      /\ call' = [call EXCEPT ![c] = NoCall]
      /\ UNCHANGED <<up, entries, fault, writing, thread, agent_file, temporary, overlapped>>
      /\ told' = IF RevokedAlready(call[c])
                 THEN [told EXCEPT !.revoked = told.revoked \cup {call[c].id}] ELSE told
  BY DEF Answer
<1>2. up /\ call[c] \in Waiting /\ \A d \in Callers : call[d].at # "writing"
  BY <1>1, WaitingFacts
<1>3. /\ call' \in [Callers -> {NoCall} \cup Waiting \cup Writing]
      /\ \A d \in Callers : call'[d].at # "writing"
  BY <1>1, <1>2 DEF StoreInv, StoreType, NoCall
<1> PICK id : id = call[c].id
  OBVIOUS
<1>4. RevokedAlready(call[c]) => id \in Ids /\ \E t \in entries : t.id = id /\ t.revoked
  BY <1>2 DEF RevokedAlready, Waiting
<1>5. /\ told' \in [issued : Contents, revoked : SUBSET Ids] /\ told'.issued = told.issued
      /\ told'.revoked = IF RevokedAlready(call[c]) THEN told.revoked \cup {id}
                                                    ELSE told.revoked
  <2>1. told \in [issued : Contents, revoked : SUBSET Ids]
    BY DEF StoreInv, StoreType
  <2>2. QED  BY <1>1, <1>4, <2>1
<1>6. StoreType' /\ ClosedInv'
  BY <1>1, <1>2, <1>3, <1>5 DEF StoreInv, StoreType, ClosedInv
<1>7. CallInv'
  BY <1>1, <1>3, CallFrame DEF StoreInv
<1>8. overlapped' \/ Sound'
  <2> SUFFICES ASSUME Sound  PROVE Sound'
    BY <1>1 DEF StoreInv
  <2>1. /\ ~fault /\ WellFormed(entries) /\ Keeps(entries) /\ Keeps(InFile)
        /\ Follows(InFile)
        /\ agent_file # NoOne => agent_file # Half /\ WellFormed(agent_file)
    BY <1>2 DEF Sound, FileInv, MemoryInv
  <2>2. InFile' = InFile
    BY <1>1, SameFile
  <2>3. ASSUME NEW S, Keeps(S), Follows(S)
        PROVE  Keeps(S)'
    <3>1. RevokedAlready(call[c]) =>
            (\E u \in S : u.id = id) /\ (\A u \in S : u.id = id => u.revoked)
      BY <1>4, <2>3 DEF Follows
    <3>2. QED  BY <1>5, <2>3, <3>1 DEF Keeps
  <2>4. Follows(entries)
    BY <2>1 DEF WellFormed, Follows
  <2>5. Keeps(InFile)' /\ Keeps(entries)'
    <3>1. ASSUME NEW S, S = InFile
          PROVE  Keeps(S)'
      BY <2>1, <2>3, <3>1
    <3>2. ASSUME NEW S, S = entries
          PROVE  Keeps(S)'
      BY <2>1, <2>3, <2>4, <3>2
    <3>3. QED  BY <1>1, <2>2, <3>1, <3>2 DEF Keeps
  <2>6. FileInv'
    BY <1>1, <2>1, <2>5 DEF FileInv, WellFormed
  <2>7. ThreadInv'
    <3> SUFFICES ASSUME NEW v \in Writers, thread[v] # Sleeping
                 PROVE  /\ \A u \in Writers : thread[u] # Sleeping => u = v
                        /\ WellFormed(thread[v].content)' /\ Keeps(thread[v].content)'
                        /\ Follows(thread[v].content)'
                        /\ thread[v].at = "write" => thread[v].fd = "temporary"
                        /\ thread[v].at = "rename" => temporary = thread[v].content
                        /\ thread[v].at = "renamed" => InFile = thread[v].content
      BY <1>1, <2>2 DEF ThreadInv
    <3>1. /\ \A u \in Writers : thread[u] # Sleeping => u = v
          /\ WellFormed(thread[v].content) /\ Keeps(thread[v].content)
          /\ Follows(thread[v].content)
          /\ thread[v].at = "write" => thread[v].fd = "temporary"
          /\ thread[v].at = "rename" => temporary = thread[v].content
          /\ thread[v].at = "renamed" => InFile = thread[v].content
      BY <1>2 DEF Sound, ThreadInv
    <3>2. ASSUME NEW S, S = thread[v].content
          PROVE  Keeps(S)'
      BY <2>3, <3>1, <3>2
    <3>3. Keeps(thread[v].content)'
      BY <1>1, <3>2 DEF Keeps
    <3>4. WellFormed(thread[v].content)' /\ Follows(thread[v].content)'
      BY <1>1, <3>1 DEF WellFormed, Follows
    <3>5. QED  BY <3>1, <3>3, <3>4
  <2>8. MemoryInv'
    <3>1. WellFormed(entries)' /\ Follows(InFile)'
      BY <1>1, <2>1, <2>2 DEF WellFormed, Follows
    <3>2. QED  BY <2>5, <3>1 DEF MemoryInv
  <2>9. QED  BY <2>6, <2>7, <2>8 DEF Sound
<1>9. QED  BY <1>6, <1>7, <1>8 DEF StoreInv

\* A call comes in.
LEMMA AskSteps ==
  ASSUME StoreInv, Asks
  PROVE  StoreInv'
<1>1. PICK c \in Callers, k \in Waiting :
        /\ up /\ call[c] = NoCall /\ call' = [call EXCEPT ![c] = k]
        /\ UNCHANGED <<up, entries, fault, writing, thread, agent_file, temporary, told,
                       overlapped>>
  <2>1. ASSUME NEW c \in Callers, NEW label \in Labels, AskIssue(c, label)
        PROVE  \E k \in Waiting : call' = [call EXCEPT ![c] = k]
    <3>1. [at |-> "waiting", op |-> "issue", label |-> label] \in Waiting
      BY DEF Waiting
    <3>2. QED  BY <2>1, <3>1 DEF AskIssue
  <2>2. ASSUME NEW c \in Callers, NEW id \in Ids, AskRevoke(c, id)
        PROVE  \E k \in Waiting : call' = [call EXCEPT ![c] = k]
    <3>1. [at |-> "waiting", op |-> "revoke", id |-> id] \in Waiting
      BY DEF Waiting
    <3>2. QED  BY <2>2, <3>1 DEF AskRevoke
  <2>3. QED  BY <2>1, <2>2 DEF Asks, AskIssue, AskRevoke, Idle
<1>2. k.at = "waiting" /\ NoCall.at = "idle"
  BY DEF Waiting, NoCall
<1>3. /\ call'[c] = k /\ \A d \in Callers : d # c => call'[d] = call[d]
      /\ call' \in [Callers -> {NoCall} \cup Waiting \cup Writing]
  BY <1>1 DEF StoreInv, StoreType
<1>4. StoreType' /\ ClosedInv'
  BY <1>1, <1>3 DEF StoreInv, StoreType, ClosedInv
<1>5. CallInv'
  <2>1. \A d \in Callers : call'[d].at = "writing" =>
          call'[d] = call[d] /\ thread[call[d].by] # Sleeping
    BY <1>2, <1>3 DEF StoreInv, CallInv
  <2>2. writing' # NoOne => call'[writing'].at = "writing"
    BY <1>1, <1>2, <1>3 DEF StoreInv, StoreType, CallInv
  <2>3. QED  BY <1>1, <2>1, <2>2, CallFrame DEF StoreInv
<1>6. overlapped' \/ Sound'
  <2> SUFFICES ASSUME Sound  PROVE Sound'
    BY <1>1 DEF StoreInv
  <2>1. ~fault'
    BY <1>1 DEF Sound, FileInv
  <2>2. QED  BY <1>1, <2>1, SoundFrame
<1>7. QED  BY <1>4, <1>5, <1>6 DEF StoreInv

\* A start reads the file that is there.
LEMMA OpenStep ==
  ASSUME StoreInv, operator_digest \/ operator_write \/ open
  PROVE  StoreInv'
<1>1. CASE operator_digest \/ operator_write
  BY <1>1, StoreUnchanged DEF operator_digest, operator_write, kept
<1>2. CASE open
  <2>1. /\ ~up /\ up' = TRUE /\ entries' = InFile /\ fault' = read_entries.fault
        /\ overlapped' = (overlapped \/ ~NoneAwake)
        /\ UNCHANGED <<writing, call, thread, agent_file, temporary, told>>
    BY <1>2 DEF open, InFile
  <2>2. writing = NoOne /\ \A c \in Callers : call[c] = NoCall
    BY <2>1 DEF StoreInv, ClosedInv
  <2>3. InFile \in Contents
    <3>1. CASE read_entries.tokens = {}
      BY <3>1 DEF InFile, Contents
    <3>2. CASE read_entries.tokens # {}
      <4>1. agent_file # NoOne /\ agent_file # Half /\ read_entries.tokens = agent_file
        BY <3>2 DEF read_entries
      <4>2. QED  BY <4>1 DEF InFile, StoreInv, StoreType, Files
    <3>3. QED  BY <3>1, <3>2
  <2>4. StoreType' /\ ClosedInv'
    BY <2>1, <2>3 DEF StoreInv, StoreType, ClosedInv
  <2>5. CallInv'
    BY <2>1, <2>2 DEF CallInv, NoCall
  <2>6. overlapped' \/ Sound'
    <3> SUFFICES ASSUME ~overlapped'  PROVE Sound'
      OBVIOUS
    <3>1. Sound /\ \A w \in Writers : thread[w] = Sleeping
      BY <2>1 DEF StoreInv, NoneAwake
    <3>2. ~read_entries.fault /\ WellFormed(InFile)
      BY <3>1, FileFacts DEF Sound, StoreInv
    <3>3. /\ Keeps(InFile) /\ InFile' = InFile
          /\ agent_file # NoOne => agent_file # Half /\ WellFormed(agent_file)
      BY <2>1, <3>1, SameFile DEF Sound, FileInv
    <3>4. Keeps(InFile)' /\ Keeps(entries)'
      BY <2>1, <3>3 DEF Keeps
    <3>5. FileInv'
      BY <2>1, <3>2, <3>3, <3>4 DEF FileInv, WellFormed
    <3>6. ThreadInv'
      BY <2>1, <3>1 DEF ThreadInv
    <3>7. WellFormed(entries)' /\ Follows(InFile)'
      BY <2>1, <3>2, <3>3 DEF WellFormed, Follows
    <3>8. QED  BY <3>4, <3>5, <3>6, <3>7 DEF Sound, MemoryInv
  <2>7. QED  BY <2>4, <2>5, <2>6 DEF StoreInv
<1>3. QED  BY <1>1, <1>2

\* The process ends, or lets go of everything but its threads; the files stay.
LEMMA EndStep ==
  ASSUME StoreInv, Crash \/ Release
  PROVE  StoreInv'
<1>1. /\ up' = FALSE /\ entries' = {} /\ fault' = FALSE /\ writing' = NoOne
      /\ call' = [c \in Callers |-> NoCall]
      /\ UNCHANGED <<agent_file, temporary, told, overlapped>>
  BY DEF Crash, Release, Ends
<1>2. /\ thread' \in [Writers -> {Sleeping} \cup Awake]
      /\ \A v \in Writers : thread'[v] # Sleeping =>
           /\ thread[v] # Sleeping /\ thread'[v].content = thread[v].content
           /\ thread'[v].at = thread[v].at /\ thread'[v].fd = thread[v].fd
  <2>1. CASE Crash
    BY <2>1 DEF Crash, LeftBehind, StoreInv, StoreType
  <2>2. CASE Release
    <3>1. \A v \in Writers : thread[v] # Sleeping =>
            /\ [thread[v] EXCEPT !.left = TRUE] \in Awake
            /\ [thread[v] EXCEPT !.left = TRUE].at = thread[v].at
            /\ [thread[v] EXCEPT !.left = TRUE].fd = thread[v].fd
            /\ [thread[v] EXCEPT !.left = TRUE].content = thread[v].content
      <4> TAKE v \in Writers
      <4> HAVE thread[v] # Sleeping
      <4>1. thread[v] \in Awake
        BY AwakeFacts DEF StoreInv
      <4>2. QED  BY <4>1 DEF Awake
    <3>2. QED  BY <2>2, <3>1 DEF Release
  <2>3. QED  BY <2>1, <2>2
<1>3. StoreType' /\ ClosedInv'
  BY <1>1, <1>2 DEF StoreInv, StoreType, ClosedInv, Contents
<1>4. CallInv'
  BY <1>1 DEF CallInv, NoCall
<1>5. overlapped' \/ Sound'
  <2> SUFFICES ASSUME Sound  PROVE Sound'
    BY <1>1 DEF StoreInv
  <2>1. QED  BY <1>1, <1>2, SoundFrame
<1>6. QED  BY <1>3, <1>4, <1>5 DEF StoreInv

\* Nothing is known and nothing was told at first.
LEMMA StoreInvInit == Init => StoreInv
<1> SUFFICES ASSUME Init  PROVE StoreInv
  OBVIOUS
<1>1. /\ up = FALSE /\ entries = {} /\ fault = FALSE /\ writing = NoOne
      /\ call = [c \in Callers |-> NoCall] /\ thread = [w \in Writers |-> Sleeping]
      /\ agent_file = NoOne /\ temporary = NoOne
      /\ told = [issued |-> {}, revoked |-> {}]
  BY DEF Init, StoreInit, Closed
<1>2. InFile = {}
  <2>1. read_entries = [tokens |-> {}, fault |-> FALSE]
    BY <1>1 DEF read_entries
  <2>2. QED  BY <2>1 DEF InFile
<1>3. StoreType
  BY <1>1 DEF StoreType, Contents, Files
<1>4. FileInv
  BY <1>1, <1>2 DEF FileInv, Keeps
<1>5. ThreadInv /\ CallInv /\ ClosedInv /\ MemoryInv
  BY <1>1 DEF ThreadInv, CallInv, ClosedInv, MemoryInv, NoCall
<1>6. QED  BY <1>3, <1>4, <1>5 DEF StoreInv, Sound

\* No step of the server loses what a client was told, unless a write or a start
\* began while a thread wrote.
LEMMA StoreInvNext ==
  ASSUME StoreInv, [Next]_vars
  PROVE  StoreInv'
<1>1. CASE UNCHANGED kept
  BY <1>1, StoreUnchanged
<1>2. CASE OpenStore
  BY <1>2, OpenStep DEF OpenStore
<1>3. CASE Obstructed
  BY <1>1, <1>3 DEF Obstructed, svars, kept
<1>4. CASE Calls
  <2>1. CASE Asks
    BY <2>1, AskSteps
  <2>2. CASE Works
    BY <2>2, AnswerStep, DropStep, StartSteps, AfterSteps, WriteSteps, ForgottenStep
    DEF Works
  <2>3. QED  BY <1>4, <2>1, <2>2 DEF Calls
<1>5. CASE OperatorDeletes
  BY <1>1, <1>5 DEF OperatorDeletes, kept
<1>6. ASSUME NEW p \in Servers,
             acquire(p) \/ Signal(p) \/ AcceptsEnd(p) \/ remove_sockets(p)
      PROVE  StoreInv'
  BY <1>1, <1>6 DEF acquire, Signal, AcceptsEnd, remove_sockets, svars, kept
<1>7. ASSUME NEW p \in Servers, start_locked(p) \/ Released(p) \/ Kill(p)
      PROVE  StoreInv'
  BY <1>1, <1>7, EndStep DEF start_locked, Released, Kill, Exit, svars, kept
<1>8. ASSUME NEW p \in Servers, Drained(p)
      PROVE  StoreInv'
  BY <1>1, <1>8, DropStep DEF Drained, svars, kept
<1>9. ASSUME NEW s \in Streams,
             \/ open_stream(s) \/ Subscribed(s) \/ ClientLeaves(s) \/ ClientTakes(s)
             \/ Age(s) \/ Changed(s) \/ SessionClosed(s) \/ Pump(s)
      PROVE  StoreInv'
  <2>1. Others
    BY <1>9 DEF open_stream, Subscribed, ClientLeaves, ClientTakes, Age, Changed,
       SessionClosed, Pump, send, SendFails, SeesClosed, SeesShutdown, Watch, Look,
       Wakes, Ended
  <2>2. QED  BY <1>1, <2>1 DEF Others, svars, kept
<1>10. CASE UNCHANGED vars
  BY <1>1, <1>10 DEF vars, svars, kept
<1>11. QED
  BY <1>2, <1>3, <1>4, <1>5, <1>6, <1>7, <1>8, <1>9, <1>10 DEF Next

\* Every state of the server satisfies it: a call that writes holds the lock, and
\* until a write or a start begins while a thread writes there is one thread, a
\* whole file, and in memory and in the file what clients were told.
THEOREM StoreInvariant == Spec => []StoreInv
<1>1. StoreInv /\ [Next]_vars => StoreInv'
  BY StoreInvNext
<1>2. QED
  BY <1>1, StoreInvInit, PTL DEF Spec

\* What a client was told of a token survives every crash and every dropped call:
\* a revoked one stays revoked, one issued is known until someone asks to revoke
\* it, and the file is never half written (token_store.rs, write_atomically) --
\* until a write or a start begins while the thread of a dropped call, or of a
\* process that had released its lock, is still writing, which nothing prevents.
THEOREM TokensAreKept == Spec => []TokensKept
<1>1. StoreInv => TokensKept
  <2> SUFFICES ASSUME StoreInv, ~overlapped  PROVE TokensKept
    BY DEF TokensKept
  <2>1. Sound
    BY DEF StoreInv
  <2>2. ~fault /\ ~read_entries.fault /\ Keeps(InFile)
    BY <2>1, FileFacts DEF Sound, FileInv, StoreInv
  <2>3. up => Keeps(entries)
    BY <2>1 DEF Sound, MemoryInv
  <2>4. ~up => entries = {}
    BY DEF StoreInv, ClosedInv
  <2>5. RevokedForGood
    BY <2>2, <2>3, <2>4 DEF RevokedForGood, is_active, Keeps, InFile
  <2>6. QED  BY <2>2, <2>3, <2>5 DEF TokensKept, Keeps, InFile
<1>2. QED
  BY <1>1, StoreInvariant, PTL

-----------------------------------------------------------------------------
(* The streams.                                                            *)

Ats == {"subscribing", "first", "select", "watching", "looked", "send", "ending"}
Handled == [at : Ats, token : Ids \cup {NoOne}, key : Principals, after : Nat]
Watched == [at : Ats, token : Ids \cup {NoOne}, key : Principals, after : Nat, seen : Nat]
Open == Handled \cup Watched

\* A stream's token stays a record of the store.  An event was handed over after
\* its revocation only where the pump has not looked at the token since.
StreamKept(s) ==
  stream[s] # NoStream =>
    /\ up
    /\ stream[s].token # NoOne => \E t \in entries : t.id = stream[s].token
    /\ stream[s].after # 0 => /\ stream[s].after = 1 /\ Revoked(s)
                              /\ stream[s].at \in {"select", "watching", "ending"}

StreamInv ==
  /\ revocations \in Nat
  /\ stream \in [Streams -> {NoStream} \cup Open]
  /\ \A s \in Streams : StreamKept(s)

\* The record of a stream that moves on, and of one that hands an event over.
LEMMA MoveFacts ==
  ASSUME NEW r \in Open, NEW a \in Ats
  PROVE  /\ [r EXCEPT !.at = a] \in Open /\ [r EXCEPT !.at = a].at = a
         /\ [r EXCEPT !.at = a].token = r.token /\ [r EXCEPT !.at = a].after = r.after
<1>1. CASE r \in Handled
  BY <1>1 DEF Open, Handled
<1>2. CASE r \in Watched
  BY <1>2 DEF Open, Watched
<1>3. QED  BY <1>1, <1>2 DEF Open

LEMMA AfterFacts ==
  ASSUME NEW r \in Open, NEW n \in Nat
  PROVE  /\ [r EXCEPT !.after = n] \in Open /\ [r EXCEPT !.after = n].at = r.at
         /\ [r EXCEPT !.after = n].token = r.token /\ [r EXCEPT !.after = n].after = n
<1>1. CASE r \in Handled
  BY <1>1 DEF Open, Handled
<1>2. CASE r \in Watched
  BY <1>2 DEF Open, Watched
<1>3. QED  BY <1>1, <1>2 DEF Open

\* A stream that is at one of its places is open.
LEMMA OpenFacts ==
  ASSUME StreamInv, NEW s \in Streams
  PROVE  /\ stream[s] # NoStream <=> stream[s] \in Open
         /\ stream[s].at \in Ats => stream[s] \in Open
         /\ stream[s] \in Open => /\ stream[s].at \in Ats /\ stream[s].after \in Nat
                                  /\ stream[s].token \in Ids \cup {NoOne}
                                  /\ stream[s].key \in Principals
BY DEF StreamInv, Open, Handled, Watched, NoStream, Ats

\* A step of one stream, from what becomes of it.
LEMMA StreamStep ==
  ASSUME StreamInv, NEW s \in Streams, NEW r \in {NoStream} \cup Open,
         stream' = [stream EXCEPT ![s] = r], UNCHANGED <<up, entries, revocations>>,
         r # NoStream =>
           /\ up
           /\ r.token # NoOne => \E t \in entries : t.id = r.token
           /\ r.after # 0 => /\ r.after = 1 /\ r.token # NoOne /\ ~is_active(r.token)
                             /\ r.at \in {"select", "watching", "ending"}
  PROVE  StreamInv'
<1>1. stream' \in [Streams -> {NoStream} \cup Open] /\ revocations' \in Nat
  BY DEF StreamInv
<1>2. stream'[s] = r /\ \A q \in Streams : q # s => stream'[q] = stream[q]
  BY DEF StreamInv
<1>3. StreamKept(s)'
  BY <1>2 DEF StreamKept, Revoked, is_active
<1>4. ASSUME NEW q \in Streams, q # s
      PROVE  StreamKept(q)'
  BY <1>2, <1>4 DEF StreamInv, StreamKept, Revoked, is_active
<1>5. QED  BY <1>1, <1>3, <1>4 DEF StreamInv

\* A step of the store, from what it keeps of the tokens it knows.
LEMMA StreamFrame ==
  ASSUME StreamInv, UNCHANGED stream, revocations' \in Nat, up => up',
         up => \A id \in Ids : (\E t \in entries : t.id = id) =>
                  (\E t \in entries' : t.id = id) /\ (~is_active(id) => ~is_active(id)')
  PROVE  StreamInv'
<1>1. ASSUME NEW s \in Streams, stream[s] # NoStream
      PROVE  StreamKept(s)'
  <2> PICK r : r = stream[s]
    OBVIOUS
  <2>1. r \in Open /\ r.token \in Ids \cup {NoOne} /\ stream'[s] = r
    BY <1>1, OpenFacts
  <2>2. /\ up
        /\ r.token # NoOne => \E t \in entries : t.id = r.token
        /\ r.after # 0 => /\ r.after = 1 /\ r.token # NoOne /\ ~is_active(r.token)
                          /\ r.at \in {"select", "watching", "ending"}
    BY <1>1 DEF StreamInv, StreamKept, Revoked
  <2>3. r.token # NoOne => /\ \E t \in entries' : t.id = r.token
                           /\ ~is_active(r.token) => ~is_active(r.token)'
    BY <2>1, <2>2
  <2>4. QED  BY <2>1, <2>2, <2>3 DEF StreamKept, Revoked, is_active
<1>2. ASSUME NEW s \in Streams, stream[s] = NoStream
      PROVE  StreamKept(s)'
  BY <1>2 DEF StreamKept
<1>3. QED  BY <1>1, <1>2 DEF StreamInv

\* What a call writes keeps the tokens memory knows, and the revoked ones revoked.
LEMMA KnownTokens ==
  ASSUME StoreInv, NEW c \in Callers, NEW w \in Writers, AfterWrite(c, w),
         NEW id, \E t \in entries : t.id = id
  PROVE  (\E t \in entries' : t.id = id) /\ (~is_active(id) => ~is_active(id)')
<1>1. entries' = Applied(c, w) /\ call[c].at = "writing" /\ entries \in Contents
  BY DEF AfterWrite, Waits, StoreInv, StoreType
<1>2. CASE call[c].op = "issue"
  <2>1. entries' = entries \cup {t \in thread[w].content : t.id = call[c].id}
    BY <1>1, <1>2 DEF Applied
  <2>2. \A t \in entries : t.id # call[c].id
    BY <1>1, <1>2 DEF StoreInv, CallInv
  <2>3. QED  BY <2>1, <2>2 DEF is_active
<1>3. CASE call[c].op # "issue"
  <2>1. entries' = WithRevoked(call[c].id)
    BY <1>1, <1>3 DEF Applied
  <2>2. /\ \A t \in entries : \E u \in entries' : u.id = t.id
        /\ \A u \in entries' : \E t \in entries : u.id = t.id /\ (t.revoked => u.revoked)
    BY <1>1, <2>1, RevokeFacts
  <2>3. QED  BY <2>2 DEF is_active
<1>4. QED  BY <1>2, <1>3

\* A step of a stream's handler or pump.
LEMMA StreamSteps ==
  ASSUME StreamInv, NEW s \in Streams,
         \/ Subscribed(s) \/ ClientLeaves(s) \/ ClientTakes(s)
         \/ Age(s) \/ Changed(s) \/ SessionClosed(s) \/ Pump(s)
  PROVE  StreamInv'
<1>1. Others
  BY DEF Subscribed, ClientLeaves, ClientTakes, Age, Changed, SessionClosed, Pump, send,
     SendFails, SeesClosed, SeesShutdown, Watch, Look, Wakes, Ended
<1>2. UNCHANGED <<up, entries, revocations>>
  BY <1>1 DEF Others, svars
<1> PICK r : r = stream[s]
  OBVIOUS
<1>3. r \in Open =>
        /\ r.at \in Ats /\ r.after \in Nat /\ r.token \in Ids \cup {NoOne}
        /\ r.key \in Principals /\ up
        /\ r.token # NoOne => \E t \in entries : t.id = r.token
        /\ r.after # 0 => /\ r.after = 1 /\ r.token # NoOne /\ ~is_active(r.token)
                          /\ r.at \in {"select", "watching", "ending"}
  BY OpenFacts DEF StreamInv, StreamKept, Revoked
<1>4. stream \in [Streams -> {NoStream} \cup Open] /\ (r.at \in Ats => r \in Open)
  BY OpenFacts DEF StreamInv
<1>5. CASE UNCHANGED stream
  BY <1>2, <1>5, StreamFrame DEF StreamInv, is_active
<1>6. CASE Finish(s)
  BY <1>2, <1>6, StreamStep DEF Finish
<1>7. ASSUME NEW a \in Ats, r.at \in Ats, Move(s, a),
             r.after # 0 => a \in {"select", "watching", "ending"}
      PROVE  StreamInv'
  <2> PICK n : n = [r EXCEPT !.at = a]
    OBVIOUS
  <2>1. n \in Open /\ n.at = a /\ n.token = r.token /\ n.after = r.after
    BY <1>4, <1>7, MoveFacts
  <2>2. stream' = [stream EXCEPT ![s] = n]
    BY <1>4, <1>7 DEF Move
  <2>3. QED  BY <1>2, <1>3, <1>4, <1>7, <2>1, <2>2, StreamStep
<1>8. CASE Subscribed(s)
  BY <1>3, <1>4, <1>6, <1>7, <1>8 DEF Subscribed, Ats
<1>9. CASE ClientLeaves(s) \/ ClientTakes(s)
  BY <1>5, <1>6, <1>9 DEF ClientLeaves, ClientTakes
<1>10. CASE Age(s) \/ Changed(s) \/ SessionClosed(s)
  BY <1>3, <1>4, <1>7, <1>10 DEF Age, Changed, SessionClosed, End, Ats
<1>11. CASE send(s)
  <2>1. r.at \in {"first", "send"} /\ r \in Open /\ r.after = 0
    BY <1>3, <1>4, <1>11 DEF send, Ats
  <2> PICK k : k = IF Revoked(s) THEN 1 ELSE 0
    OBVIOUS
  <2>2. (IF Revoked(s) THEN AtMost2(r.after + 1) ELSE r.after) = k /\ k \in Nat
    BY <2>1 DEF AtMost2
  <2> PICK m : m = [r EXCEPT !.at = "select"]
    OBVIOUS
  <2> PICK n : n = [m EXCEPT !.after = k]
    OBVIOUS
  <2>3. n \in Open /\ n.at = "select" /\ n.token = r.token /\ n.after = k
    <3>1. m \in Open /\ m.at = "select" /\ m.token = r.token
      BY <2>1, MoveFacts DEF Ats
    <3>2. QED  BY <2>2, <3>1, AfterFacts
  <2>4. stream' = [stream EXCEPT ![s] = n]
    <3>1. stream' = [stream EXCEPT ![s].at = "select",
                         ![s].after = IF Revoked(s) THEN AtMost2(@ + 1) ELSE @]
      BY <1>11 DEF send
    <3>2. m.after = r.after
      BY <2>1, MoveFacts DEF Ats
    <3>3. (IF Revoked(s) THEN AtMost2(m.after + 1) ELSE m.after) = k
      BY <2>2, <3>2
    <3>4. stream' = [[stream EXCEPT ![s] = m] EXCEPT
                         ![s].after = IF Revoked(s) THEN AtMost2(@ + 1) ELSE @]
      BY <1>4, <3>1
    <3>5. QED  BY <1>4, <3>3, <3>4
  <2>5. QED  BY <1>2, <1>3, <2>1, <2>3, <2>4, StreamStep DEF Revoked
<1>12. CASE SendFails(s) \/ SeesClosed(s) \/ Ended(s)
  BY <1>6, <1>12 DEF SendFails, SeesClosed, Ended
<1>13. CASE SeesShutdown(s)
  BY <1>7, <1>13 DEF SeesShutdown, End, Ats
<1>14. CASE Watch(s)
  <2>1. r.at = "select" /\ r \in Open
    BY <1>4, <1>14 DEF Watch, Ats
  <2>2. CASE r.token = NoOne
    BY <1>3, <1>7, <1>14, <2>1, <2>2 DEF Watch, Ats
  <2>3. CASE r.token # NoOne
    <3> PICK n : n = [at |-> "watching", token |-> r.token, key |-> r.key,
                      after |-> r.after, seen |-> revocations]
      OBVIOUS
    <3>1. n \in Open /\ n.at = "watching" /\ n.token = r.token /\ n.after = r.after
      BY <1>3, <2>1 DEF Open, Watched, Ats, StreamInv
    <3>2. stream' = [stream EXCEPT ![s] = n]
      BY <1>14, <2>3 DEF Watch
    <3>3. QED  BY <1>2, <1>3, <2>1, <3>1, <3>2, StreamStep
  <2>4. QED  BY <2>2, <2>3
<1>15. CASE Look(s)
  <2>1. r.at = "watching" /\ r \in Open
    BY <1>4, <1>15 DEF Look, Ats
  <2>2. CASE Revoked(s)
    BY <1>7, <1>15, <2>1, <2>2 DEF Look, End, Ats
  <2>3. CASE ~Revoked(s)
    <3>1. r.after = 0
      BY <1>3, <2>1, <2>3 DEF Revoked
    <3>2. QED  BY <1>7, <1>15, <2>1, <2>3, <3>1 DEF Look, Ats
  <2>4. QED  BY <2>2, <2>3
<1>16. CASE Wakes(s)
  BY <1>7, <1>16 DEF Wakes, Ats
<1>17. QED
  BY <1>8, <1>9, <1>10, <1>11, <1>12, <1>13, <1>14, <1>15, <1>16 DEF Pump

\* A step of the handler that admits a stream.
LEMMA OpenStreamStep ==
  ASSUME StreamInv, StoreInv, ProcessInv, NEW s \in Streams, open_stream(s)
  PROVE  StreamInv'
<1>1. UNCHANGED <<up, entries, revocations>>
  BY DEF open_stream, Others, svars
<1>2. up
  BY DEF open_stream, Serving, ProcessInv, Started, Bound
<1>3. ASSUME NEW token \in Ids \cup {NoOne}, NEW key \in Principals, Admitted(s, token, key),
             token # NoOne => \E t \in entries : t.id = token
      PROVE  StreamInv'
  <2> PICK n : n = [at |-> "subscribing", token |-> token, key |-> key, after |-> 0]
    OBVIOUS
  <2>1. n \in Open /\ n.token = token /\ n.after = 0
    BY DEF Open, Handled, Ats
  <2>2. stream' = [stream EXCEPT ![s] = n]
    BY <1>3 DEF Admitted
  <2>3. QED  BY <1>1, <1>2, <1>3, <2>1, <2>2, StreamStep
<1>4. \A t \in entries : t.id \in Ids /\ t.label \in Principals
  BY DEF StoreInv, StoreType, Contents, Tokens, Principals
<1>5. Operator \in Principals
  BY DEF Principals
<1>6. QED  BY <1>3, <1>4, <1>5 DEF open_stream

\* No step lets a stream hand over a second event after its revocation.
LEMMA StreamInvNext ==
  ASSUME StreamInv, StoreInv, ProcessInv, [Next]_vars
  PROVE  StreamInv'
<1>1. CASE stream' = [s \in Streams |-> NoStream] /\ revocations' \in Nat
  BY <1>1 DEF StreamInv, StreamKept
<1>2. CASE UNCHANGED <<stream, up, entries, revocations>>
  BY <1>2, StreamFrame DEF StreamInv, is_active
<1>3. ASSUME NEW p \in Servers, Off(p), Ends
      PROVE  StreamInv'
  BY <1>1, <1>3 DEF Off, StreamsGone, Ends
<1>4. CASE OpenStore
  <2>1. ~up /\ UNCHANGED <<stream, revocations>>
    BY <1>4 DEF OpenStore, operator_digest, operator_write, open, tvars
  <2>2. QED  BY <2>1, StreamFrame DEF StreamInv
<1>5. CASE Obstructed
  BY <1>2, <1>5 DEF Obstructed, svars, tvars
<1>6. CASE Calls
  <2>1. UNCHANGED stream
    BY <1>6 DEF Calls, tvars
  <2>2. ASSUME NEW c \in Callers, NEW w \in Writers, AfterWrite(c, w)
        PROVE  StreamInv'
    <3>1. revocations' \in Nat /\ UNCHANGED up
      BY <2>2 DEF AfterWrite, StreamInv
    <3>2. QED  BY <2>1, <2>2, <3>1, KnownTokens, StreamFrame
  <2>3. CASE UNCHANGED <<up, entries, revocations>>
    BY <1>2, <2>1, <2>3
  <2>4. QED
    BY <1>6, <2>2, <2>3 DEF Calls, Asks, Works, AskIssue, AskRevoke, Answer, issue, revoke,
       Start, DropCall, AfterFailure, RemoveLeftover, CreateTemporary, WriteAndSync, Rename,
       Fails, ThreadForgotten, ElseUnchanged
<1>7. CASE OperatorDeletes /\ UNCHANGED <<pvars, tvars>>
  BY <1>2, <1>7 DEF OperatorDeletes, tvars
<1>8. ASSUME NEW p \in Servers,
             \/ acquire(p) \/ start_locked(p) \/ Signal(p) \/ AcceptsEnd(p)
             \/ remove_sockets(p) \/ Released(p) \/ Kill(p)
      PROVE  StreamInv'
  BY <1>2, <1>3, <1>8 DEF acquire, start_locked, Signal, AcceptsEnd, remove_sockets,
     Released, Kill, Exit, Crash, Release, svars, tvars
<1>9. ASSUME NEW p \in Servers, Drained(p)
      PROVE  StreamInv'
  BY <1>1, <1>2, <1>9 DEF Drained, DropAllCalls, StreamsGone, svars, tvars, StreamInv
<1>10. ASSUME NEW s \in Streams, open_stream(s)
       PROVE  StreamInv'
  BY <1>10, OpenStreamStep
<1>11. ASSUME NEW s \in Streams,
              \/ Subscribed(s) \/ ClientLeaves(s) \/ ClientTakes(s)
              \/ Age(s) \/ Changed(s) \/ SessionClosed(s) \/ Pump(s)
       PROVE  StreamInv'
  BY <1>11, StreamSteps
<1>12. CASE UNCHANGED vars
  BY <1>2, <1>12 DEF vars, svars, tvars
<1>13. QED
  BY <1>4, <1>5, <1>6, <1>7, <1>8, <1>9, <1>10, <1>11, <1>12 DEF Next

\* After its token is revoked a stream hands over at most the one event it was
\* already handing over (events.rs, pump_state).
THEOREM OneEventIsTheLast == Spec => []OneEventAfterRevocation
<1>1. Init => StreamInv
  BY DEF Init, StoreInit, Closed, StreamInv, StreamKept
<1>2. StreamInv /\ StoreInv /\ ProcessInv /\ [Next]_vars => StreamInv'
  BY StreamInvNext
<1>3. StreamInv => OneEventAfterRevocation
  <2> SUFFICES ASSUME StreamInv, NEW s \in Streams, stream[s] # NoStream
               PROVE  stream[s].after <= 1
    BY DEF OneEventAfterRevocation
  <2>1. stream[s].after \in Nat /\ (stream[s].after # 0 => stream[s].after = 1)
    BY OpenFacts DEF StreamInv, StreamKept
  <2>2. QED  BY <2>1
<1>4. QED
  BY <1>1, <1>2, <1>3, StoreInvariant, ProcessInvariant, PTL DEF Spec
=============================================================================
