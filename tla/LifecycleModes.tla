--------------------------- MODULE LifecycleModes ---------------------------
(***************************************************************************)
(* What the lifecycle promises, free of threads, mutexes and motors: the   *)
(* machine of SystemOpMode with at most one service request in progress.   *)
(* A request may begin only in the modes its RequestXxx allows, shows its  *)
(* transient mode while it works, and ends by storing its target or by     *)
(* giving up.  Feedback may pull Armed and Running down to Faulted at any  *)
(* moment, also in the middle of a request.                                *)
(***************************************************************************)

VARIABLES mode,   \* SystemOpMode
          busy    \* the request in progress, or "none"

mvars == <<mode, busy>>

Modes == {"Inactive", "Configured", "Standby", "Armed", "Running",
          "Faulted", "Recovering", "ShuttingDown"}

Requests == {"Init", "Enable", "Disable", "Release", "Halt",
             "Recover", "Shutdown"}

\* The first argument each RequestXxx passes to DoTransition.
AllowedFrom ==
    [Init     |-> {"Configured"},
     Enable   |-> {"Standby"},
     Disable  |-> {"Standby", "Armed", "Running"},
     Release  |-> {"Armed"},
     Halt     |-> {"Running"},
     Recover  |-> {"Faulted"},
     Shutdown |-> Modes]

\* The second argument: the mode stored when the action succeeds.
Target ==
    [Init     |-> "Standby",
     Enable   |-> "Armed",
     Disable  |-> "Standby",
     Release  |-> "Running",
     Halt     |-> "Armed",
     Recover  |-> "Standby",
     Shutdown |-> "Configured"]

\* The mode a request stores before it calls the driver.
During(r, m) ==
    IF r = "Recover" THEN "Recovering"
    ELSE IF r = "Shutdown" THEN "ShuttingDown" ELSE m

\* The mode a failed request leaves behind, m being the mode it finds then.
GivenUp(r, m) ==
    IF r = "Recover" THEN "Faulted"
    ELSE IF r = "Shutdown" THEN "Configured" ELSE m

AutoFaultModes == {"Armed", "Running"}
-----------------------------------------------------------------------------
Init ==
    /\ mode = "Inactive"
    /\ busy = "none"

Configure ==
    /\ mode = "Inactive"
    /\ mode' = "Configured"
    /\ UNCHANGED busy

Begin(r) ==
    /\ busy = "none"
    /\ mode \in AllowedFrom[r]
    /\ busy' = r
    /\ mode' = During(r, mode)

Finish(r) ==
    /\ busy = r
    /\ busy' = "none"
    /\ mode' = Target[r]

GiveUp(r) ==
    /\ busy = r
    /\ busy' = "none"
    /\ mode' = GivenUp(r, mode)

AutoFault ==
    /\ mode \in AutoFaultModes
    /\ mode' = "Faulted"
    /\ UNCHANGED busy

Next ==
    \/ Configure
    \/ AutoFault
    \/ \E r \in Requests : Begin(r) \/ Finish(r) \/ GiveUp(r)

Spec == Init /\ [][Next]_mvars
=============================================================================
