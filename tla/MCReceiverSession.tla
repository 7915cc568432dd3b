-------------------------- MODULE MCReceiverSession --------------------------
(* Instances of ReceiverSession for TLC.                                   *)
EXTENDS ReceiverSession

CONSTANTS o1, o2, low, high

\* Both operations ask for the value the receiver does not show at first.
MCTarget == [o \in Ops |-> high]
=============================================================================
