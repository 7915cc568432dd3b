------------------------- MODULE OperationLifecycle -------------------------
(***************************************************************************)
(* What the control port promises of an operation (control.rs,             *)
(* OperationStatus and OperationSnapshot, and the lifecycle tables of      *)
(* ARCHITECTURE.md): the states an operation passes through, whatever      *)
(* tasks, locks, retention and panics lie underneath.                      *)
(***************************************************************************)
CONSTANT Ids

VARIABLES
  status,    \* the status a reader of the operation sees
  dispatch,  \* and the dispatch certainty
  called,    \* operations handed to the session
  told       \* operations a client was told are cancelled

vars == <<status, dispatch, called, told>>

Pending == {"submitted", "allowed"}

Init ==
  /\ status = [id \in Ids |-> "none"]
  /\ dispatch = [id \in Ids |-> "not_dispatched"]
  /\ called = {} /\ told = {}

Admit(id) ==
  /\ status[id] = "none"
  /\ \E s \in Pending : status' = [status EXCEPT ![id] = s]
  /\ UNCHANGED <<dispatch, called, told>>

Allow(id) ==
  /\ status[id] = "submitted"
  /\ status' = [status EXCEPT ![id] = "allowed"]
  /\ UNCHANGED <<dispatch, called, told>>

\* Only what was not yet allowed is denied or held.
Refuse(id) ==
  /\ status[id] = "submitted"
  /\ \E s \in {"denied", "approval_unavailable"} :
       status' = [status EXCEPT ![id] = s]
  /\ UNCHANGED <<dispatch, called, told>>

\* Ended before the session: nothing was dispatched.
EndBefore(id) ==
  /\ status[id] \in Pending
  /\ \E s \in {"rejected", "cancelled"} : status' = [status EXCEPT ![id] = s]
  /\ UNCHANGED <<dispatch, called, told>>

\* "The only call that can write to the receiver, made exactly once."
EnterSession(id) ==
  /\ status[id] = "allowed" /\ id \notin called
  /\ status' = [status EXCEPT ![id] = "in_session"]
  /\ called' = called \cup {id}
  /\ UNCHANGED <<dispatch, told>>

\* The session's report; what completed has a write behind it.
EndInSession(id) ==
  /\ status[id] = "in_session"
  /\ \E s \in {"completed", "already_in_state", "rejected", "cancelled",
               "superseded", "indeterminate"},
        d \in {"not_dispatched", "complete_write", "unknown"} :
       /\ s = "completed" => d # "not_dispatched"
       /\ s \notin {"completed", "indeterminate"} => d = "not_dispatched"
       /\ status' = [status EXCEPT ![id] = s]
       /\ dispatch' = [dispatch EXCEPT ![id] = d]
  /\ UNCHANGED <<called, told>>

\* A client is told of a cancel only when it kept the session from being called.
TellCancelled(id) ==
  /\ status[id] = "cancelled" /\ id \notin called
  /\ told' = told \cup {id}
  /\ UNCHANGED <<status, dispatch, called>>

Next ==
  \E id \in Ids :
    \/ Admit(id) \/ Allow(id) \/ Refuse(id) \/ EndBefore(id)
    \/ EnterSession(id) \/ EndInSession(id) \/ TellCancelled(id)

Spec == Init /\ [][Next]_vars
=============================================================================
