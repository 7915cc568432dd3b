--------------------------- MODULE MCAgentLedger ---------------------------
(***************************************************************************)
(* An instance of AgentLedger for TLC: two operations to a run, two runs.  *)
(***************************************************************************)
EXTENDS AgentLedger

AnyVolume == {[kind |-> "volume", value |-> None]}

\* Volume changes are allowed, and a rise of more than 2 half steps within the
\* window needs approval.
Budget(window) ==
    << [Rule("volume", "allow") EXCEPT !.alternatives = AnyVolume],
       [Rule("rise", "require_approval") EXCEPT
          !.alternatives = AnyVolume,
          !.conditions.budget = Some([rise |-> 2, window |-> window])] >>

MCShownVolume == {Some(0), Some(2)}

MCPolicyFiles == {Budget(MAX_WINDOW_MINUTES)}
=============================================================================
