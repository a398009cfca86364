--------------------------- MODULE MC_CommandPath ---------------------------
(* Instances of CommandPath for TLC.                                       *)
EXTENDS CommandPath

\* All joints on one CAN bus: with two protocols on it, or two groups.
OneBus == [j \in 1..NumJoints |-> "can0"]
=============================================================================
