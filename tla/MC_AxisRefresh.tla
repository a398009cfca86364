-------------------------- MODULE MC_AxisRefresh --------------------------
(* One axis that is asked for one kind of feedback and for its error flag. *)
EXTENDS AxisRefresh

OneFeedback == <<"State">>
=============================================================================
