----------------------------- MODULE TokenStore -----------------------------
(***************************************************************************)
(* The tokens (token_store.rs, tokens.rs): the records in memory, the file *)
(* they are kept in, and the calls that issue and revoke.  A call waits    *)
(* for the writing lock, computes the next file from memory, has a thread  *)
(* write it, and only then changes memory.  The thread is not the call: it *)
(* goes on when the call is dropped, and for a while when the process has  *)
(* given up its lock.  Two threads, or a thread and an open, then overlap. *)
(*                                                                         *)
(* The temporary name is one for all writers.  A file is Half until its    *)
(* content is synced.                                                      *)
(***************************************************************************)
EXTENDS Integers, FiniteSets

CONSTANTS Ids, Labels,      \* token ids, agent labels
          Callers,          \* the requests that issue and revoke
          Writers,          \* the blocking threads
          NoOne, Half

ASSUME TokenStoreAssumption ==
    /\ NoOne \notin Callers /\ Half # NoOne
    /\ \A tokens \in SUBSET [id : Ids, label : Labels, revoked : BOOLEAN] :
          tokens \notin {Half, NoOne}

VARIABLES up,         \* the store is open
          entries,    \* the records in memory
          fault,      \* the agent file could not be read
          revocations,\* the counter streams watch
          writing,    \* the holder of the writing lock
          call,       \* each caller's request and where it is
          thread,     \* each blocking writer
          agent_file, temporary,    \* the two files: NoOne for none
          operator_file,            \* "none", "writing", "empty" or "token"
          told,       \* what clients were told: records issued and ids revoked
          overlapped  \* history: a write or an open began while a thread wrote

svars == <<up, entries, fault, revocations, writing, call, thread,
           agent_file, temporary, operator_file, told, overlapped>>

NoCall == [at |-> "idle"]
Sleeping == [at |-> "sleeping"]

(***************************************************************************)
(* Reading.                                                                *)
(***************************************************************************)
is_active(id) == \E t \in entries : t.id = id /\ ~t.revoked

(* Whose token it is: an active Agent's label, the Operator, or unknown.   *)
(* A presented string is [prefix, id]: the id stands for the digest.       *)
authenticate(presented) ==
    CASE presented.prefix = "operator" /\ presented.genuine -> "operator"
      [] presented.prefix = "agent" /\ is_active(presented.id) -> "agent"
      [] OTHER -> "unknown"

(* What read_entries accepts of a complete file. *)
WellFormed(tokens) ==
    /\ \A t, u \in tokens : t.id = u.id => t = u
    /\ \A t, u \in tokens : t.label = u.label /\ ~t.revoked /\ ~u.revoked => t = u

read_entries ==
    IF agent_file = NoOne THEN [tokens |-> {}, fault |-> FALSE]
    ELSE IF agent_file # Half /\ WellFormed(agent_file)
    THEN [tokens |-> agent_file, fault |-> FALSE]
    ELSE [tokens |-> {}, fault |-> TRUE]

(***************************************************************************)
(* Opening.  A first start makes the Operator's token in two steps; a file *)
(* that an earlier start left empty is refused.                            *)
(***************************************************************************)
NoneAwake == \A w \in Writers : thread[w] = Sleeping

Closed ==
    /\ up = FALSE /\ entries = {} /\ fault = FALSE /\ revocations = 0
    /\ writing = NoOne
    /\ call = [c \in Callers |-> NoCall]
    /\ thread = [w \in Writers |-> Sleeping]

StoreInit ==
    /\ Closed
    /\ agent_file = NoOne /\ temporary = NoOne
    /\ operator_file = "none"
    /\ told = [issued |-> {}, revoked |-> {}] /\ overlapped = FALSE

operator_digest ==
    /\ ~up /\ operator_file = "none"
    /\ operator_file' = "writing"
    /\ UNCHANGED <<up, entries, fault, revocations, writing, call, thread,
                   agent_file, temporary, told, overlapped>>

operator_write ==
    /\ ~up /\ operator_file = "writing"
    /\ operator_file' = "token"
    /\ UNCHANGED <<up, entries, fault, revocations, writing, call, thread,
                   agent_file, temporary, told, overlapped>>

open ==
    /\ ~up /\ operator_file = "token"
    /\ up' = TRUE
    /\ entries' = read_entries.tokens
    /\ fault' = read_entries.fault
    /\ overlapped' = (overlapped \/ ~NoneAwake)
    /\ UNCHANGED <<revocations, writing, call, thread, agent_file, temporary,
                   operator_file, told>>

(* The Operator removes a token file that holds none, as the error asks. *)
OperatorDeletes ==
    /\ ~up /\ operator_file = "empty"
    /\ operator_file' = "none"
    /\ UNCHANGED <<up, entries, fault, revocations, writing, call, thread,
                   agent_file, temporary, told, overlapped>>

(***************************************************************************)
(* Issuing and revoking.                                                   *)
(***************************************************************************)
Idle(c) == up /\ call[c] = NoCall

(* A label the store can use, or a token id, as the routes hand it on.  With *)
(* a fault the store refuses both at once.                                   *)
AskIssue(c, label) ==
    /\ Idle(c) /\ ~fault
    /\ call' = [call EXCEPT ![c] = [at |-> "waiting", op |-> "issue", label |-> label]]
    /\ UNCHANGED <<up, entries, fault, revocations, writing, thread,
                   agent_file, temporary, operator_file, told, overlapped>>

AskRevoke(c, id) ==
    /\ Idle(c) /\ ~fault
    /\ call' = [call EXCEPT ![c] = [at |-> "waiting", op |-> "revoke", id |-> id]]
    /\ UNCHANGED <<up, entries, fault, revocations, writing, thread,
                   agent_file, temporary, operator_file, told, overlapped>>

(* Under the lock: refused, answered as it is, or what to write. *)
LabelInUse(label) == \E t \in entries : t.label = label /\ ~t.revoked

Refused(request) ==
    IF request.op = "issue" THEN LabelInUse(request.label)
    ELSE ~\E t \in entries : t.id = request.id

RevokedAlready(request) ==
    request.op = "revoke" /\ \E t \in entries : t.id = request.id /\ t.revoked

fresh_id == {id \in Ids : \A t \in entries : t.id # id}

Issued(id, label) == [id |-> id, label |-> label, revoked |-> FALSE]
WithToken(id, label) == entries \cup {Issued(id, label)}
WithRevoked(id) ==
    {IF t.id = id THEN [t EXCEPT !.revoked = TRUE] ELSE t : t \in entries}

Answer(c) ==
    /\ call[c].at = "waiting" /\ writing = NoOne
    /\ Refused(call[c]) \/ RevokedAlready(call[c])
    /\ call' = [call EXCEPT ![c] = NoCall]
    /\ told' = IF RevokedAlready(call[c])
               THEN [told EXCEPT !.revoked = @ \cup {call[c].id}] ELSE told
    /\ UNCHANGED <<up, entries, fault, revocations, writing, thread,
                   agent_file, temporary, operator_file, overlapped>>

(* write: the lock is held, the content computed and a thread started. *)
Start(c, w, id, next) ==
    /\ call[c].at = "waiting" /\ writing = NoOne
    /\ ~Refused(call[c]) /\ ~RevokedAlready(call[c])
    /\ thread[w] = Sleeping
    /\ writing' = c
    /\ call' = [call EXCEPT ![c] = [at |-> "writing", op |-> call[c].op, id |-> id, by |-> w]]
    /\ thread' = [thread EXCEPT ![w] =
                     [at |-> "remove", content |-> next, fd |-> NoOne, left |-> FALSE]]
    /\ overlapped' = (overlapped \/ ~NoneAwake)
    /\ told' = [told EXCEPT !.issued = {t \in @ : t.id # id}]
    /\ UNCHANGED <<up, entries, fault, revocations, agent_file, temporary,
                   operator_file>>

issue(c, w) ==
    /\ call[c].at = "waiting" /\ call[c].op = "issue"
    /\ \E id \in fresh_id : Start(c, w, id, WithToken(id, call[c].label))

revoke(c, w) ==
    /\ call[c].at = "waiting" /\ call[c].op = "revoke"
    /\ Start(c, w, call[c].id, WithRevoked(call[c].id))

(***************************************************************************)
(* write_atomically, one file operation at a time.                         *)
(***************************************************************************)
Thread(w, at) == thread[w].at = at
Goto(w, at) == thread' = [thread EXCEPT ![w].at = at]
ElseUnchanged ==
    UNCHANGED <<up, entries, fault, revocations, writing, call, operator_file, told,
                overlapped>>

(* fd: the name that the file a thread has open goes by, NoOne for no name. *)
(* It follows the file when that is renamed or removed.                     *)
Follow(names) ==
    [v \in Writers |->
       IF thread[v] # Sleeping /\ thread[v].fd \in DOMAIN names
       THEN [thread[v] EXCEPT !.fd = names[@]] ELSE thread[v]]

\* Mutated form: the file is written in place.
RemoveLeftover_InPlace(w) ==
    /\ Thread(w, "remove")
    /\ agent_file' = Half /\ temporary' = NoOne
    /\ thread' = [thread EXCEPT ![w].at = "write", ![w].fd = "agent_file"]
    /\ ElseUnchanged

RemoveLeftover(w) ==
    /\ Thread(w, "remove")
    /\ temporary' = NoOne
    /\ thread' = [Follow([temporary |-> NoOne]) EXCEPT ![w].at = "create"]
    /\ UNCHANGED agent_file /\ ElseUnchanged

(* create_private refuses a name that exists, also one that was not removed. *)
CreateTemporary(w) ==
    /\ Thread(w, "create")
    /\ IF temporary = NoOne
       THEN /\ temporary' = Half
            /\ thread' = [thread EXCEPT ![w].at = "write", ![w].fd = "temporary"]
       ELSE /\ Goto(w, "failed")
            /\ UNCHANGED temporary
    /\ UNCHANGED agent_file /\ ElseUnchanged

WriteAndSync(w) ==
    /\ Thread(w, "write")
    /\ temporary' = IF thread[w].fd = "temporary" THEN thread[w].content ELSE temporary
    /\ agent_file' = IF thread[w].fd = "agent_file" THEN thread[w].content ELSE agent_file
    /\ thread' = [thread EXCEPT ![w].at = "rename", ![w].fd = NoOne]
    /\ ElseUnchanged

(* Whatever has the temporary name at that moment becomes the file. *)
Rename(w) ==
    /\ Thread(w, "rename")
    /\ IF temporary # NoOne
       THEN /\ agent_file' = temporary /\ temporary' = NoOne
            /\ thread' = [Follow([temporary |-> "agent_file", agent_file |-> NoOne])
                           EXCEPT ![w].at = "renamed"]
       ELSE /\ Goto(w, "failed")
            /\ UNCHANGED <<agent_file, temporary>>
    /\ ElseUnchanged

(* A file operation fails, or the thread stops where it is. *)
Fails(w) ==
    /\ thread[w].at \in {"remove", "create", "write", "rename"}
    /\ thread' = [thread EXCEPT ![w].at = "failed", ![w].fd = NoOne]
    /\ UNCHANGED <<agent_file, temporary>> /\ ElseUnchanged

(***************************************************************************)
(* The call goes on: memory, then the revocation counter, then the answer. *)
(***************************************************************************)
Waits(c, w) == call[c].at = "writing" /\ call[c].by = w

Applied(c, w) ==
    IF call[c].op = "issue"
    THEN entries \cup {t \in thread[w].content : t.id = call[c].id}
    ELSE WithRevoked(call[c].id)

AfterWrite(c, w) ==
    /\ Waits(c, w) /\ Thread(w, "renamed")
    /\ entries' = Applied(c, w)
    /\ revocations' = IF call[c].op = "revoke" THEN revocations + 1 ELSE revocations
    /\ told' = IF call[c].op = "revoke"
               THEN [told EXCEPT !.revoked = @ \cup {call[c].id}]
               ELSE [told EXCEPT !.issued = @ \cup {t \in thread[w].content : t.id = call[c].id}]
    /\ call' = [call EXCEPT ![c] = NoCall]
    /\ writing' = NoOne
    /\ thread' = [thread EXCEPT ![w] = Sleeping]
    /\ UNCHANGED <<up, fault, agent_file, temporary, operator_file, overlapped>>

AfterFailure(c, w) ==
    /\ Waits(c, w) /\ Thread(w, "failed")
    /\ call' = [call EXCEPT ![c] = NoCall]
    /\ writing' = NoOne
    /\ thread' = [thread EXCEPT ![w] = Sleeping]
    /\ UNCHANGED <<up, entries, fault, revocations, agent_file, temporary,
                   operator_file, told, overlapped>>

(* The request's time is up or its client is gone: the future is dropped   *)
(* and with it the lock; the thread is not told.                           *)
DropCall(c) ==
    /\ call[c] # NoCall
    /\ call' = [call EXCEPT ![c] = NoCall]
    /\ writing' = IF writing = c THEN NoOne ELSE writing
    /\ UNCHANGED <<up, entries, fault, revocations, thread, agent_file, temporary,
                   operator_file, told, overlapped>>

ThreadForgotten(w) ==
    /\ thread[w].at \in {"renamed", "failed"}
    /\ \A c \in Callers : ~Waits(c, w)
    /\ thread' = [thread EXCEPT ![w] = Sleeping]
    /\ UNCHANGED <<up, entries, fault, revocations, writing, call, agent_file,
                   temporary, operator_file, told, overlapped>>

(* The process ends, wherever it is; the files stay.  A thread of a process *)
(* before it, left behind by its release, is not this one's to end.         *)
Ends ==
    /\ up' = FALSE /\ entries' = {} /\ fault' = FALSE /\ revocations' = 0
    /\ writing' = NoOne
    /\ call' = [c \in Callers |-> NoCall]
    /\ operator_file' = IF operator_file = "writing" THEN "empty" ELSE operator_file
    /\ UNCHANGED <<agent_file, temporary, told, overlapped>>

LeftBehind(w) == thread[w] # Sleeping /\ thread[w].left

Crash ==
    /\ Ends
    /\ thread' = [w \in Writers |-> IF LeftBehind(w) THEN thread[w] ELSE Sleeping]

(* The process has let go of everything but its threads. *)
Release ==
    /\ Ends
    /\ thread' = [w \in Writers |->
                     IF thread[w] = Sleeping THEN Sleeping ELSE [thread[w] EXCEPT !.left = TRUE]]

StoreStep ==
    \/ \E c \in Callers, label \in Labels : AskIssue(c, label)
    \/ \E c \in Callers, id \in Ids : AskRevoke(c, id)
    \/ \E c \in Callers : Answer(c) \/ DropCall(c)
    \/ \E c \in Callers, w \in Writers :
          issue(c, w) \/ revoke(c, w) \/ AfterWrite(c, w) \/ AfterFailure(c, w)
    \/ \E w \in Writers :
          \/ RemoveLeftover(w) \/ CreateTemporary(w) \/ WriteAndSync(w) \/ Rename(w)
          \/ Fails(w) \/ ThreadForgotten(w)

StoreNext ==
    \/ operator_digest \/ operator_write \/ open \/ OperatorDeletes
    \/ StoreStep
    \/ (up \/ operator_file = "writing") /\ Crash
    \/ up /\ Release

StoreSpec == StoreInit /\ [][StoreNext]_svars

(***************************************************************************)
(* Properties.                                                             *)
(***************************************************************************)
(* A token whose revocation was answered never authenticates again: not in *)
(* memory, and not from the file a later start would read.                 *)
RevokedForGood ==
    \A id \in told.revoked :
        /\ ~is_active(id)
        /\ \A t \in read_entries.tokens : t.id = id => t.revoked
=============================================================================
