-------------------------- MODULE MCOperationGate --------------------------
(***************************************************************************)
(* Instances of OperationGate for TLC.                                     *)
(***************************************************************************)
EXTENDS OperationGate, TLC

CONSTANTS a1, gui, agent

\* One client of the Operator and one of an agent.
MCPrincipalOf == gui :> Operator @@ agent :> a1

\* A write of which only the effect was seen, and none. An operation that ends
\* indeterminate comes from a panic in the session.
MCOutcomes ==
  { [kind |-> "ObservedRequestedValue", dispatch |-> "unknown"],
    [kind |-> "RejectedBeforeDispatch", dispatch |-> "not_dispatched"] }

\* One agent alone, with two requests at a time.
MCLivePrincipalOf == agent :> a1

\* Whether an operation ends does not depend on how: one outcome is enough.
MCLiveOutcomes == { [kind |-> "Indeterminate", dispatch |-> "unknown"] }
=============================================================================
