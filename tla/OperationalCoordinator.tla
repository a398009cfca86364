----------------------- MODULE OperationalCoordinator -----------------------
(***************************************************************************)
(* can_driver::OperationalCoordinator under the threads that use it.       *)
(*                                                                         *)
(* The service callbacks run on the threads of the AsyncSpinner (Threads). *)
(* A request locks transitionMutex_, checks the mode, runs its action (the *)
(* calls into DriverOps, one step each) and stores the target mode.  The   *)
(* control loop and the state publisher (Observers) judge the health of    *)
(* the axes and call UpdateFromFeedback, which takes no lock: it loads the *)
(* mode and compare-exchanges it to Faulted.                               *)
(*                                                                         *)
(* A driver call only counts by its result here.  hold_commands and        *)
(* arm_fresh_command_latch cannot fail and do not touch the mode; what     *)
(* they do to the commands is in module CommandPath.                       *)
(***************************************************************************)
EXTENDS Naturals, Sequences

CONSTANTS Threads,     \* service threads
          Writers,     \* the control loop, in write()
          Publishers,  \* the state timer, in publishMotorStates()
          NoThread     \* transitionMutex_ is free

ASSUME ThreadsAssumption == NoThread \notin Threads

VARIABLES mode,    \* mode_
          active,  \* active_, the driver-wide flag of CanDriverRuntime
          sick,    \* some axis reports a fault (with a valid status)
          owner,   \* holder of transitionMutex_
          req,     \* request each service thread serves
          pc,      \* where each service thread is
          at,      \* index of the next driver call of its action
          from,    \* DoTransition's local `current`
          opc,     \* where each observer is in UpdateFromFeedback
          loaded   \* its local `current`

Observers == Writers \cup Publishers

vars == <<mode, active, sick, owner, req, pc, at, from, opc, loaded>>

Acting(t) == pc[t] = "act"

\* The request that is changing the mode, as the abstract machine sees it.
BusyRequest ==
    IF owner # NoThread /\ Acting(owner) THEN req[owner] ELSE "none"

M == INSTANCE LifecycleModes WITH busy <- BusyRequest

Modes == M!Modes
Requests == M!Requests

\* The driver calls of each request's action, in the order of the code.
Script ==
    [Init     |-> <<"init_device", "hold_commands", "arm_latch">>,
     Enable   |-> <<"enable_healthy", "enable_all", "hold_commands", "arm_latch">>,
     Disable  |-> <<"hold_commands", "disable_all">>,
     Release  |-> <<"motion_healthy", "arm_latch">>,
     Halt     |-> <<"hold_commands", "halt_all">>,
     Recover  |-> <<"recover_all", "hold_commands", "arm_latch">>,
     Shutdown |-> <<"shutdown_all">>]

MaxScript == 4

InfallibleCalls == {"hold_commands", "arm_latch"}

\* Calls that verify the axes: they can only succeed on healthy ones.
VerifyingCalls == {"enable_healthy", "motion_healthy", "recover_all"}

HasCall(t) == Acting(t) /\ at[t] <= Len(Script[req[t]])
CurrentCall(t) == Script[req[t]][at[t]]
-----------------------------------------------------------------------------
Init ==
    /\ mode = "Inactive"
    /\ active = FALSE
    /\ sick = FALSE
    /\ owner = NoThread
    /\ req = [t \in Threads |-> "Shutdown"]
    /\ pc = [t \in Threads |-> "idle"]
    /\ at = [t \in Threads |-> 1]
    /\ from = [t \in Threads |-> "Inactive"]
    /\ opc = [o \in Observers |-> "idle"]
    /\ loaded = [o \in Observers |-> "Inactive"]

\* The callback of t returns; its locals, dead from now on, take their initial
\* values again.
Return(t) ==
    /\ pc' = [pc EXCEPT ![t] = "idle"]
    /\ req' = [req EXCEPT ![t] = "Shutdown"]
    /\ at' = [at EXCEPT ![t] = 1]
    /\ from' = [from EXCEPT ![t] = "Inactive"]

\* CanDriverHW::init ends with SetConfigured(), before any service exists.
Configure ==
    /\ mode = "Inactive"
    /\ mode' = "Configured"
    /\ UNCHANGED <<active, sick, owner, req, pc, at, from, opc, loaded>>

\* A service callback starts.  RequestEnable first looks at the mode without
\* the lock: an Armed system is revalidated instead of enabled.
Call(t, r) ==
    /\ mode # "Inactive"
    /\ pc[t] = "idle"
    /\ req' = [req EXCEPT ![t] = r]
    /\ pc' = [pc EXCEPT ![t] =
                 IF r = "Enable" /\ mode = "Armed" THEN "armed?" ELSE "called"]
    /\ UNCHANGED <<mode, active, sick, owner, at, from, opc, loaded>>

\* The re-check of RequestEnable under the lock.
LockArmed(t) ==
    /\ pc[t] = "armed?"
    /\ owner = NoThread
    /\ IF mode = "Armed"
       THEN /\ owner' = t
            /\ pc' = [pc EXCEPT ![t] = "revalidate"]
       ELSE /\ pc' = [pc EXCEPT ![t] = "called"]
            /\ UNCHANGED owner
    /\ UNCHANGED <<mode, active, sick, req, at, from, opc, loaded>>

\* RevalidateArmedEnable: motion_healthy decides the answer, the mode stays.
Revalidate(t) ==
    /\ pc[t] = "revalidate"
    /\ owner' = NoThread
    /\ Return(t)
    /\ UNCHANGED <<mode, active, sick, opc, loaded>>

\* DoTransition takes the lock in a mode the request is not allowed in:
\* "already ..." or "cannot transition", and nothing happens.
Refuse(t) ==
    /\ pc[t] = "called"
    /\ owner = NoThread
    /\ mode \notin M!AllowedFrom[req[t]]
    /\ Return(t)
    /\ UNCHANGED <<mode, active, sick, owner, opc, loaded>>

\* Seeded fault: the lock is dropped before the action runs.
StartUnlocked(t) ==
    /\ pc[t] = "called"
    /\ owner = NoThread
    /\ mode \in M!AllowedFrom[req[t]]
    /\ from' = [from EXCEPT ![t] = mode]
    /\ mode' = M!During(req[t], mode)
    /\ pc' = [pc EXCEPT ![t] = "act"]
    /\ at' = [at EXCEPT ![t] = 1]
    /\ UNCHANGED <<owner, active, sick, req, opc, loaded>>

\* DoTransition takes the lock and starts the action; Recover and Shutdown
\* store their transient mode first.
Start(t) ==
    /\ pc[t] = "called"
    /\ owner = NoThread
    /\ mode \in M!AllowedFrom[req[t]]
    /\ owner' = t
    /\ from' = [from EXCEPT ![t] = mode]
    /\ mode' = M!During(req[t], mode)
    /\ pc' = [pc EXCEPT ![t] = "act"]
    /\ at' = [at EXCEPT ![t] = 1]
    /\ UNCHANGED <<active, sick, req, opc, loaded>>

\* Seeded fault: a failed recover_all leaves the driver inactive.
ActiveOnlyOnSuccess(call, ok) ==
    IF call \in {"init_device", "recover_all"} THEN ok
    ELSE call # "shutdown_all" /\ active

\* shutdownLifecycleDriver clears active_ before it stops the devices;
\* init_device and recover_all set it when they have succeeded.
ActiveAfter(call, ok) ==
    IF ok /\ call \in {"init_device", "recover_all"} THEN TRUE
    ELSE call # "shutdown_all" /\ active

\* Seeded fault: the action never notices that its last call is done.
CallSucceedsForever(t) ==
    /\ Acting(t)
    /\ active' = active
    /\ at' = [at EXCEPT ![t] = @ + 1]
    /\ UNCHANGED <<mode, sick, owner, req, pc, from, opc, loaded>>

CallSucceeds(t) ==
    /\ HasCall(t)
    /\ CurrentCall(t) \in VerifyingCalls => ~sick
    /\ active' = ActiveAfter(CurrentCall(t), TRUE)
    /\ at' = [at EXCEPT ![t] = @ + 1]
    /\ UNCHANGED <<mode, sick, owner, req, pc, from, opc, loaded>>

\* Seeded fault: a failed recover keeps the transient mode.
CallFailsSilently(t) ==
    /\ HasCall(t)
    /\ CurrentCall(t) \notin InfallibleCalls
    /\ active' = ActiveAfter(CurrentCall(t), FALSE)
    /\ owner' = NoThread
    /\ Return(t)
    /\ UNCHANGED <<mode, sick, opc, loaded>>

\* Seeded fault: an early return keeps the mutex locked.
CallFailsLocked(t) ==
    /\ HasCall(t)
    /\ CurrentCall(t) \notin InfallibleCalls
    /\ active' = ActiveAfter(CurrentCall(t), FALSE)
    /\ mode' = M!GivenUp(req[t], mode)
    /\ Return(t)
    /\ UNCHANGED <<owner, sick, opc, loaded>>

\* A failing call ends the action; Recover restores Faulted, Shutdown stores
\* Configured, the others leave the mode as they find it.
CallFails(t) ==
    /\ HasCall(t)
    /\ CurrentCall(t) \notin InfallibleCalls
    /\ active' = ActiveAfter(CurrentCall(t), FALSE)
    /\ mode' = M!GivenUp(req[t], mode)
    /\ owner' = NoThread
    /\ Return(t)
    /\ UNCHANGED <<sick, opc, loaded>>

\* Seeded fault: a finished Enable releases motion at once.
CommitTooFar(t) ==
    /\ Acting(t)
    /\ at[t] > Len(Script[req[t]])
    /\ mode' = IF req[t] = "Enable" THEN "Running" ELSE M!Target[req[t]]
    /\ owner' = NoThread
    /\ Return(t)
    /\ UNCHANGED <<active, sick, opc, loaded>>

\* The action has returned true: mode_.store(to), whatever the mode is now.
Commit(t) ==
    /\ Acting(t)
    /\ at[t] > Len(Script[req[t]])
    /\ mode' = M!Target[req[t]]
    /\ owner' = NoThread
    /\ Return(t)
    /\ UNCHANGED <<active, sick, opc, loaded>>
-----------------------------------------------------------------------------
\* write() and publishMotorStates() up to UpdateFromFeedback(true): skipped
\* while inactive, and write() returns early outside Running.  The publisher
\* looks at the fault bit of every axis, in every mode.  The health check that
\* both make in Armed and Running also finds axes that are not ready, not
\* enabled or in the wrong mode, so a report may come without a sick axis.
Judge(o) ==
    /\ active
    /\ opc[o] = "idle"
    /\ mode = "Running" \/ (o \in Publishers /\ (sick \/ mode = "Armed"))
    /\ opc' = [opc EXCEPT ![o] = "load"]
    /\ UNCHANGED <<mode, active, sick, owner, req, pc, at, from, loaded>>

\* Seeded fault: only Running is downgraded.
LoadRunningOnly(o) ==
    /\ opc[o] = "load"
    /\ IF mode = "Running"
       THEN /\ loaded' = [loaded EXCEPT ![o] = mode]
            /\ opc' = [opc EXCEPT ![o] = "cas"]
       ELSE /\ opc' = [opc EXCEPT ![o] = "idle"]
            /\ UNCHANGED loaded
    /\ UNCHANGED <<mode, active, sick, owner, req, pc, at, from>>

\* UpdateFromFeedback(true): only Armed and Running are downgraded.
Load(o) ==
    /\ opc[o] = "load"
    /\ IF mode \in M!AutoFaultModes
       THEN /\ loaded' = [loaded EXCEPT ![o] = mode]
            /\ opc' = [opc EXCEPT ![o] = "cas"]
       ELSE /\ opc' = [opc EXCEPT ![o] = "idle"]
            /\ UNCHANGED loaded
    /\ UNCHANGED <<mode, active, sick, owner, req, pc, at, from>>

\* Seeded fault: a plain store instead of the compare-exchange.
StoreFaulted(o) ==
    /\ opc[o] = "cas"
    /\ mode' = "Faulted"
    /\ opc' = [opc EXCEPT ![o] = "idle"]
    /\ loaded' = [loaded EXCEPT ![o] = "Inactive"]
    /\ UNCHANGED <<active, sick, owner, req, pc, at, from>>

CompareExchange(o) ==
    /\ opc[o] = "cas"
    /\ mode' = IF mode = loaded[o] THEN "Faulted" ELSE mode
    /\ opc' = [opc EXCEPT ![o] = "idle"]
    /\ loaded' = [loaded EXCEPT ![o] = "Inactive"]
    /\ UNCHANGED <<active, sick, owner, req, pc, at, from>>

\* External: a motor or its link fails or recovers.
AxisHealthChanges ==
    /\ sick' = ~sick
    /\ UNCHANGED <<mode, active, owner, req, pc, at, from, opc, loaded>>

ServiceStep(t) ==
    \/ LockArmed(t)
    \/ Revalidate(t)
    \/ Refuse(t)
    \/ Start(t)
    \/ CallSucceeds(t)
    \/ CallFails(t)
    \/ Commit(t)

ObserverStep(o) == Judge(o) \/ Load(o) \/ CompareExchange(o)

Next ==
    \/ Configure
    \/ AxisHealthChanges
    \/ \E t \in Threads : ServiceStep(t)
    \/ \E t \in Threads : \E r \in Requests : Call(t, r)
    \/ \E o \in Observers : ObserverStep(o)

Spec == Init /\ [][Next]_vars

\* A driver call always returns (its waits have deadlines), a started report is
\* finished, and the publisher's timer is periodic: it does not overlook the
\* fault bit of an axis for ever.  Nobody has to call a service, no axis has to
\* heal, and nothing is assumed of the health check (its detail is dropped when
\* the first bad axis is merely stale, so it may miss a later one for ever).
Fairness ==
    /\ \A t \in Threads : /\ WF_vars(CallSucceeds(t) \/ CallFails(t))
                          /\ WF_vars(Commit(t))
                          /\ WF_vars(Revalidate(t))
    /\ \A o \in Observers : WF_vars(Load(o) \/ CompareExchange(o))
    /\ \A o \in Publishers : WF_vars(sick /\ Judge(o))

FairSpec == Spec /\ Fairness
-----------------------------------------------------------------------------
\* Every variable keeps the type of the C++ object it stands for.
TypeOK ==
    /\ mode \in Modes
    /\ active \in BOOLEAN
    /\ sick \in BOOLEAN
    /\ owner \in Threads \cup {NoThread}
    /\ req \in [Threads -> Requests]
    /\ pc \in [Threads -> {"idle", "armed?", "called", "revalidate", "act"}]
    /\ at \in [Threads -> 1..(MaxScript + 1)]
    /\ from \in [Threads -> Modes]
    /\ opc \in [Observers -> {"idle", "load", "cas"}]
    /\ loaded \in [Observers -> Modes]

\* transitionMutex_ is held exactly by the thread that runs an action or a
\* revalidation, so two actions never overlap.
MutexHeld ==
    \A t \in Threads : (pc[t] \in {"act", "revalidate"}) <=> (owner = t)

\* Nobody moves the mode under a running action except a downgrade from
\* Armed or Running: it is still what the action set it to at the start.
StableUnderAction ==
    \A t \in Threads : Acting(t) =>
        \/ mode = M!During(req[t], from[t])
        \/ mode = "Faulted" /\ M!During(req[t], from[t]) \in M!AutoFaultModes

\* Recovering and ShuttingDown are shown only while the request that stores
\* them holds the mutex: no interleaving with feedback or other requests
\* strands the system in a mode no request accepts.
TransientModesOwned ==
    /\ mode = "Recovering" =>
          \E t \in Threads : owner = t /\ Acting(t) /\ req[t] = "Recover"
    /\ mode = "ShuttingDown" =>
          \E t \in Threads : owner = t /\ Acting(t) /\ req[t] = "Shutdown"

\* The control loop and the publisher only work while active_: the flag is up
\* in every mode with devices behind it, so a downgrade is never missed
\* because the flag and the mode disagree.
ActiveWhenUp ==
    mode \in {"Standby", "Armed", "Running", "Faulted"} => active

\* Motion is only ever released from Armed, by Release, after a successful
\* health check: no other request, failure path or late compare-exchange
\* brings the system into Running.
RunningOnlyByRelease ==
    [][(mode' = "Running" /\ mode # "Running") =>
          \E t \in Threads : /\ owner = t
                             /\ req[t] = "Release"
                             /\ from[t] = "Armed"
                             /\ at[t] > 1]_vars

\* A fault that stays is noticed: while some axis keeps reporting a fault the
\* system does not stay in Armed or Running, however requests interleave with
\* the two observers.
PersistentFaultNoticed ==
    (sick /\ mode \in M!AutoFaultModes)
        ~> (~sick \/ mode \notin M!AutoFaultModes)

\* A request that holds the transition mutex gives it back.
TransitionEnds == (owner # NoThread) ~> (owner = NoThread)

\* Once Faulted, the system leaves that mode only through the recover or the
\* shutdown request (docs: "use the formal recover flow").
FaultLeftOnlyByRecovery ==
    [][(mode = "Faulted" /\ mode' # "Faulted") =>
          mode' \in {"Recovering", "ShuttingDown"}]_vars

\* The coordinator with its threads, mutex and lock-free feedback path
\* implements the mode machine of LifecycleModes.
ImplementsLifecycleModes == M!Spec
=============================================================================
