---------------------------- MODULE CommandPath ----------------------------
(***************************************************************************)
(* The way of a motion command from the controllers to the drives, and the *)
(* lifecycle requests, the device supervision and the state publisher that *)
(* run beside it.                                                          *)
(*                                                                         *)
(* The control thread runs write(): mode check, fresh-command latch,       *)
(* PrepareCommands, DispatchPreparedCommands (joint after joint, each under *)
(* its device's mutex) and the health check.  A service thread runs one    *)
(* lifecycle request (the mode machine of LifecycleModes, which            *)
(* OperationalCoordinator implements).  Commands arrive on any thread.     *)
(*                                                                         *)
(* A command is abstracted to "hold" (zero velocity, or a position target  *)
(* at the actual position) and "go" (one that makes the axis move).  Every *)
(* joint is a dispatch group of its own.  The driver has been initialised  *)
(* and is not shut down; the safety_* parameters have their default, true. *)
(***************************************************************************)
EXTENDS Naturals, Sequences, FiniteSets

CONSTANTS NumJoints,   \* joints, in configuration order
          DeviceOf,    \* the CAN device of each joint
          MayFault,    \* a drive may report a fault
          MayReject,   \* a protocol call may be rejected
          MayLoseLink  \* a CAN device may become unready and ready again

ASSUME CommandPathAssumption ==
    /\ NumJoints \in Nat \ {0}
    /\ MayFault \in BOOLEAN
    /\ MayReject \in BOOLEAN
    /\ MayLoseLink \in BOOLEAN

Joints == 1..NumJoints
Devices == {DeviceOf[j] : j \in Joints}
Commands == {"hold", "go"}

VARIABLES
    mode, busy,        \* lifecycle mode and the request in progress
    at,                \* its next step (index into Program)
    next,              \* the next joint of its batch
    done,              \* succeededTargets of the batch, or joints re-prepared
    failures,          \* BatchResult::failures: targets whose call failed
    locking,           \* execute() has found the device of next ready
    undoing,           \* enableAll is rolling back
    cmd,               \* selected command of each joint
    latch, baselines,  \* CommandGate: freshCommandRequired_, baselines_
    lastReady,         \* CommandGate: lastDeviceReadyState_
    wpc, wj,           \* control thread: where it is, and on which joint
    snapshot,          \* local of consumeFreshCommandLatchIfSatisfied
    prepared,          \* prepared and still valid command, or "none"
    seen,              \* feedback snapshot of the joint: "ok", "off", "fault"
    sending,           \* the raw command of the protocol call being made
    anyFault,          \* anyFaultObserved of this cycle
    heldSince,         \* a hold came after this cycle's PrepareCommands (history)
    stopIssued,        \* stopIssuedOnFault of each joint
    verdict,           \* publisher: it is about to report unhealthy
    ready,             \* isDeviceReady of each device
    gone,              \* devices that a failed re-initialisation shut down
    enabled, moving, fault  \* the drives, and what they report

lifecycle == <<mode, busy, at, next, done, failures, locking, undoing>>
gate == <<latch, baselines, lastReady>>
writer == <<wpc, wj, snapshot, prepared, seen, sending, anyFault, heldSince>>
drives == <<enabled, moving, fault>>
links == <<ready, gone>>
vars == <<lifecycle, cmd, gate, writer, stopIssued, verdict, links, drives>>

M == INSTANCE LifecycleModes

AllJoints(v) == [j \in Joints |-> v]

\* The steps of each request: calls of DriverOps, with enable_all and
\* recover_all split into their batch and their confirmation, and recover_all
\* preceded by the re-initialisation of the devices.
Program ==
    [Enable  |-> <<"healthy", "batch", "confirm", "hold", "arm">>,
     Disable |-> <<"hold", "batch">>,
     Release |-> <<"healthy", "arm">>,
     Halt    |-> <<"hold", "batch">>,
     Recover |-> <<"prepare", "batch", "confirm", "hold", "arm">>]

Requests == DOMAIN Program

Doing(s) ==
    /\ busy # "none"
    /\ ~undoing
    /\ at <= Len(Program[busy])
    /\ Program[busy][at] = s

\* enableHealthy / motionHealthy: every axis is ready and free of faults, and
\* for motion also enabled.  The feedback of an axis is fresh here: a stale
\* one fails the request as a timeout would, and never triggers a fault.
EnableHealthy == \A j \in Joints : ready[DeviceOf[j]] /\ ~fault[j]
MotionHealthy == EnableHealthy /\ \A j \in Joints : enabled[j]

\* lifecycleHealthHealthy
LifecycleHealthy ==
    /\ mode = "Armed" => EnableHealthy
    /\ mode = "Running" => MotionHealthy

\* The mutex of a device is held by write() while it is in a protocol call.
DeviceLocked(d) == wpc = "call" /\ DeviceOf[wj] = d
-----------------------------------------------------------------------------
\* After RequestInit.
Init ==
    /\ mode = "Standby"
    /\ busy = "none"
    /\ at = 1 /\ next = 1 /\ done = {} /\ failures = {}
    /\ locking = FALSE /\ undoing = FALSE
    /\ cmd = AllJoints("hold")
    /\ latch = TRUE
    /\ baselines = AllJoints("hold")
    /\ lastReady = [d \in Devices |-> "unknown"]
    /\ wpc = "idle" /\ wj = 1
    /\ snapshot = AllJoints("hold")
    /\ prepared = AllJoints("none")
    /\ seen = "ok"
    /\ sending = "hold"
    /\ anyFault = FALSE
    /\ heldSince = FALSE
    /\ stopIssued = AllJoints(FALSE)
    /\ verdict = FALSE
    /\ ready = [d \in Devices |-> TRUE]
    /\ gone = {}
    /\ enabled = AllJoints(FALSE)
    /\ moving = AllJoints(FALSE)
    /\ fault = AllJoints(FALSE)

\* A controller (cm.update) or a direct command topic writes a command; the same
\* again changes nothing.
NewCommand(j, c) ==
    /\ c # cmd[j]
    /\ cmd' = [cmd EXCEPT ![j] = c]
    /\ UNCHANGED <<lifecycle, gate, writer, stopIssued, verdict, links, drives>>
-----------------------------------------------------------------------------
(* holdCommandsForLifecycleTransition and armFreshCommandLatch.            *)

\* Seeded fault: the commands already prepared for dispatch stay valid.
HoldKeepsPrepared ==
    /\ cmd' = AllJoints("hold")
    /\ heldSince' = (wpc \in {"observe", "rearm", "check", "call"})
    /\ prepared' = prepared

\* The targets go back to the actual state and the valid buffer is cleared.
HoldCommands ==
    /\ cmd' = AllJoints("hold")
    /\ heldSince' = (wpc \in {"observe", "rearm", "check", "call"})
    /\ prepared' = AllJoints("none")

\* armFreshCommandLatch captures the selected commands and stores them as the
\* baseline; no other thread depends on a command in between.
ArmLatch ==
    /\ latch' = TRUE
    /\ baselines' = cmd
-----------------------------------------------------------------------------
(* The control thread: CanDriverHW::write.                                 *)

\* A local is dead once write() has returned and takes its initial value.
EndCycle ==
    /\ wpc' = "idle"
    /\ wj' = 1
    /\ snapshot' = AllJoints("hold")
    /\ prepared' = AllJoints("none")
    /\ seen' = "ok"
    /\ sending' = "hold"
    /\ anyFault' = FALSE
    /\ heldSince' = FALSE

\* Only in Running the cycle goes on.  In any other mode write() clears the
\* valid buffer, which is empty between two cycles: a stuttering step.
CheckMode ==
    /\ wpc = "idle"
    /\ mode = "Running"
    /\ wpc' = "gate"
    /\ UNCHANGED <<lifecycle, cmd, gate, wj, snapshot, prepared, seen,
                   sending, anyFault, heldSince, stopIssued, verdict, links, drives>>

\* consumeFreshCommandLatchIfSatisfied, up to the snapshot it takes without
\* the lock of the gate.
ReadLatch ==
    /\ wpc = "gate"
    /\ IF latch
       THEN /\ snapshot' = cmd
            /\ wpc' = "compare"
       ELSE /\ wpc' = "prepare"
            /\ UNCHANGED snapshot
    /\ UNCHANGED <<lifecycle, cmd, gate, wj, prepared, seen, sending,
                   anyFault, heldSince, stopIssued, verdict, links, drives>>

\* The latch opens for all joints as soon as one of them has a changed
\* command or one that is near the actual state.
Satisfied == \E j \in Joints : snapshot[j] # baselines[j] \/ snapshot[j] = "hold"

ConsumeLatch ==
    /\ wpc = "compare"
    /\ Satisfied
    /\ latch' = FALSE
    /\ baselines' = AllJoints("hold")   \* dead until the latch is armed again
    /\ snapshot' = AllJoints("hold")
    /\ wpc' = "prepare"
    /\ UNCHANGED <<lifecycle, cmd, lastReady, wj, prepared, seen, sending, anyFault,
                   heldSince, stopIssued, verdict, links, drives>>

KeepLatch ==
    /\ wpc = "compare"
    /\ ~Satisfied
    /\ EndCycle
    /\ UNCHANGED <<lifecycle, cmd, gate, stopIssued, verdict, links, drives>>

\* PrepareCommands.  A joint may have no usable command: only other joints
\* have a direct command, it waits for alignment, the value is not finite.
PrepareCommands ==
    /\ wpc = "prepare"
    /\ \E usable \in SUBSET Joints :
          prepared' = [j \in Joints |-> IF j \in usable THEN cmd[j] ELSE "none"]
    /\ wpc' = "observe"
    /\ UNCHANGED <<lifecycle, cmd, gate, wj, snapshot, seen, sending,
                   anyFault, heldSince, stopIssued, verdict, links, drives>>

\* Seeded fault: the loop over the joints runs past the last one.
NextJointPastEnd ==
    /\ prepared' = [prepared EXCEPT ![wj] = "none"]
    /\ IF wj <= NumJoints
       THEN wpc' = "observe" /\ wj' = wj + 1
       ELSE wpc' = "health" /\ wj' = 1

\* The control thread goes on with the next joint, or to the health check;
\* the command of the joint it has served is dead.
NextJoint ==
    /\ prepared' = [prepared EXCEPT ![wj] = "none"]
    /\ IF wj < NumJoints
       THEN wpc' = "observe" /\ wj' = wj + 1
       ELSE wpc' = "health" /\ wj' = 1

\* observeDeviceReady
Recovered(d) == lastReady[d] = "no" /\ ready[d]

\* Device not ready: clearGroupCommands.
SkipUnready ==
    /\ wpc = "observe"
    /\ ~ready[DeviceOf[wj]]
    /\ lastReady' = [lastReady EXCEPT ![DeviceOf[wj]] = "no"]
    /\ cmd' = [cmd EXCEPT ![wj] = "hold"]
    /\ stopIssued' = [stopIssued EXCEPT ![wj] = FALSE]
    /\ NextJoint
    /\ UNCHANGED <<lifecycle, latch, baselines, snapshot, seen, sending,
                   anyFault, heldSince, verdict, links, drives>>

\* Device back again: hold all joints ...
HoldRecovered ==
    /\ wpc = "observe"
    /\ Recovered(DeviceOf[wj])
    /\ lastReady' = [lastReady EXCEPT ![DeviceOf[wj]] = "yes"]
    /\ HoldCommands
    /\ wpc' = "rearm"
    /\ UNCHANGED <<lifecycle, latch, baselines, wj, snapshot, seen, sending,
                   anyFault, stopIssued, verdict, links, drives>>

\* ... and require a fresh command.
RearmRecovered ==
    /\ wpc = "rearm"
    /\ ArmLatch
    /\ NextJoint
    /\ UNCHANGED <<lifecycle, cmd, lastReady, snapshot, seen,
                   sending, anyFault, heldSince, stopIssued, verdict, links, drives>>

\* observeDeviceReady found nothing new; the feedback is copied before the
\* device mutex is taken.
SnapshotFeedback ==
    /\ wpc = "observe"
    /\ ready[DeviceOf[wj]]
    /\ ~Recovered(DeviceOf[wj])
    /\ lastReady' = [lastReady EXCEPT ![DeviceOf[wj]] = "yes"]
    /\ seen' = IF fault[wj] THEN "fault" ELSE IF enabled[wj] THEN "ok" ELSE "off"
    /\ wpc' = "check"
    /\ UNCHANGED <<lifecycle, cmd, latch, baselines, wj, snapshot, prepared,
                   sending, anyFault, heldSince, stopIssued, verdict, links, drives>>

\* No valid command (any more) for this joint.
SkipInvalid ==
    /\ wpc = "check"
    /\ prepared[wj] = "none"
    /\ NextJoint
    /\ seen' = "ok"
    /\ UNCHANGED <<lifecycle, cmd, gate, snapshot, sending,
                   anyFault, heldSince, stopIssued, verdict, links, drives>>

\* safety_stop_on_fault: one Stop per fault episode, and no motion.
StopOnFault ==
    /\ wpc = "check"
    /\ prepared[wj] # "none"
    /\ seen = "fault"
    /\ anyFault' = TRUE
    /\ stopIssued' = [stopIssued EXCEPT ![wj] = TRUE]
    /\ \/ /\ ~stopIssued[wj]
          /\ moving' = [moving EXCEPT ![wj] = FALSE]
       \/ /\ stopIssued[wj] \/ MayReject
          /\ UNCHANGED moving
    /\ NextJoint
    /\ seen' = "ok"
    /\ UNCHANGED <<lifecycle, cmd, gate, snapshot, sending, heldSince,
                   verdict, links, enabled, fault>>

\* Seeded fault: the flag of an earlier fault is not taken back.
ClearStopIssuedNever == stopIssued

ClearStopIssued == [stopIssued EXCEPT ![wj] = FALSE]

\* safety_require_enabled_for_motion
BlockDisabled ==
    /\ wpc = "check"
    /\ prepared[wj] # "none"
    /\ seen = "off"
    /\ stopIssued' = ClearStopIssued
    /\ NextJoint
    /\ seen' = "ok"
    /\ UNCHANGED <<lifecycle, cmd, gate, snapshot, sending,
                   anyFault, heldSince, verdict, links, drives>>

\* The checks have passed: the protocol call begins, under the device mutex.
BeginCall ==
    /\ wpc = "check"
    /\ prepared[wj] # "none"
    /\ seen = "ok"
    /\ stopIssued' = ClearStopIssued
    /\ sending' = prepared[wj]
    /\ wpc' = "call"
    /\ UNCHANGED <<lifecycle, cmd, gate, wj, snapshot, prepared, seen,
                   anyFault, heldSince, verdict, links, drives>>

\* setVelocity, quickSetPosition or setPosition; a drive that is not enabled
\* or has tripped ignores it.  A rejected call changes nothing.
EndCall ==
    /\ wpc = "call"
    /\ \/ moving' = [moving EXCEPT ![wj] = sending = "go" /\ enabled[wj] /\ ~fault[wj]]
       \/ MayReject /\ UNCHANGED moving
    /\ NextJoint
    /\ sending' = "hold"
    /\ UNCHANGED <<lifecycle, cmd, gate, snapshot, seen, anyFault,
                   heldSince, stopIssued, verdict, links, enabled, fault>>

\* The health check that ends the cycle.
JudgeCycle ==
    /\ wpc = "health"
    /\ IF anyFault \/ ~LifecycleHealthy
       THEN /\ wpc' = "report"
            /\ UNCHANGED <<wj, snapshot, prepared, seen, sending, anyFault, heldSince>>
       ELSE EndCycle
    /\ UNCHANGED <<lifecycle, cmd, gate, stopIssued, verdict, links, drives>>

\* UpdateFromFeedback(true)
DowngradeMode ==
    /\ mode' = IF mode \in M!AutoFaultModes THEN "Faulted" ELSE mode
    /\ UNCHANGED <<busy, at, next, done, failures, locking, undoing>>

ReportCycle ==
    /\ wpc = "report"
    /\ DowngradeMode
    /\ EndCycle
    /\ UNCHANGED <<cmd, gate, stopIssued, verdict, links, drives>>

WriterStep ==
    \/ CheckMode
    \/ ReadLatch
    \/ ConsumeLatch
    \/ KeepLatch
    \/ PrepareCommands
    \/ SkipUnready
    \/ HoldRecovered
    \/ RearmRecovered
    \/ SnapshotFeedback
    \/ SkipInvalid
    \/ StopOnFault
    \/ BlockDisabled
    \/ BeginCall
    \/ EndCall
    \/ JudgeCycle
    \/ ReportCycle
-----------------------------------------------------------------------------
(* The state publisher: publishMotorStates.                                *)

JudgePublish ==
    /\ ~verdict
    /\ ~LifecycleHealthy \/ \E j \in Joints : fault[j]
    /\ verdict' = TRUE
    /\ UNCHANGED <<lifecycle, cmd, gate, writer, stopIssued, links, drives>>

ReportPublish ==
    /\ verdict
    /\ DowngradeMode
    /\ verdict' = FALSE
    /\ UNCHANGED <<cmd, gate, writer, stopIssued, links, drives>>
-----------------------------------------------------------------------------
(* The service thread: one lifecycle request at a time.                    *)

\* A request starts or ends with an empty batch.
NoBatch ==
    /\ at' = 1
    /\ next' = 1
    /\ done' = {}
    /\ failures' = {}
    /\ locking' = FALSE
    /\ undoing' = FALSE

Begin(r) ==
    /\ M!Begin(r)
    /\ NoBatch
    /\ UNCHANGED <<cmd, gate, writer, stopIssued, verdict, links, drives>>

Finish ==
    /\ busy # "none"
    /\ at > Len(Program[busy])
    /\ M!Finish(busy)
    /\ NoBatch
    /\ UNCHANGED <<cmd, gate, writer, stopIssued, verdict, links, drives>>

\* The step has succeeded and the request goes on.
NextStep ==
    /\ at' = at + 1
    /\ next' = 1
    /\ UNCHANGED <<mode, busy, done, failures, locking, undoing>>

GiveUp == M!GiveUp(busy) /\ NoBatch

\* enable_healthy and motion_healthy.
CheckHealthy ==
    /\ Doing("healthy")
    /\ IF IF busy = "Enable" THEN EnableHealthy ELSE MotionHealthy
       THEN NextStep
       ELSE GiveUp
    /\ UNCHANGED <<cmd, gate, writer, stopIssued, verdict, links, drives>>

Hold ==
    /\ Doing("hold")
    /\ HoldCommands
    /\ NextStep
    /\ UNCHANGED <<gate, wpc, wj, snapshot, seen, sending, anyFault, stopIssued,
                   verdict, links, drives>>

Arm ==
    /\ Doing("arm")
    /\ ArmLatch
    /\ NextStep
    /\ UNCHANGED <<cmd, lastReady, writer, stopIssued, verdict, links, drives>>

\* syncStartupPositionAndCommands has fresh feedback of the device's joints: their
\* commands follow the actual state and their fault episode is forgotten.  What
\* the control cycle has prepared already stays valid.
SyncCommands(js) ==
    /\ cmd' = [j \in Joints |-> IF j \in js THEN "hold" ELSE cmd[j]]
    /\ stopIssued' = [j \in Joints |-> stopIssued[j] /\ j \notin js]

JointsOn(d) == {j \in Joints : DeviceOf[j] = d}

\* prepareLifecycleDeviceForStandby: the device is built anew and its joints
\* are synchronised and configured.
PrepareDevice(d) ==
    /\ Doing("prepare")
    /\ JointsOn(d) \cap done = {}
    /\ done' = done \cup JointsOn(d)
    /\ SyncCommands(JointsOn(d))
    /\ ready' = [ready EXCEPT ![d] = TRUE]
    /\ gone' = gone \ {d}
    /\ UNCHANGED <<mode, busy, at, next, failures, locking, undoing, gate, writer, verdict,
                   drives>>

\* One of its steps fails (no feedback, a rejected configuration), before or
\* after the synchronisation: the device is shut down and the recover ends.
PrepareFails(d) ==
    /\ Doing("prepare")
    /\ JointsOn(d) \cap done = {}
    /\ MayReject \/ MayLoseLink
    /\ SyncCommands(JointsOn(d)) \/ UNCHANGED <<cmd, stopIssued>>
    /\ ready' = [ready EXCEPT ![d] = FALSE]
    /\ gone' = gone \cup {d}
    /\ GiveUp
    /\ UNCHANGED <<gate, writer, verdict, drives>>

\* All devices are prepared: recoverAll begins.
EndPrepare ==
    /\ Doing("prepare")
    /\ done = Joints
    /\ at' = at + 1
    /\ done' = {}
    /\ UNCHANGED <<mode, busy, next, failures, locking, undoing, cmd, gate, writer,
                   stopIssued, verdict, links, drives>>

\* What Enable, Disable, Stop and ResetFault do to a drive that accepts them.
Apply(r, j) ==
    /\ enabled' = [enabled EXCEPT ![j] =
                      (r = "Enable" /\ ~fault[j]) \/ (@ /\ r # "Disable")]
    /\ moving' = [moving EXCEPT ![j] = @ /\ r \notin {"Disable", "Halt"}]
    /\ fault' = [fault EXCEPT ![j] = @ /\ r # "Recover"]

\* executeBatch has targets left: all joints, and in a rollback those that were
\* enabled.
Executing == Doing("batch") \/ undoing

\* The rollback passes over a joint that is no target of it.
SkipTarget ==
    /\ Executing /\ next <= NumJoints /\ ~locking
    /\ undoing /\ next \notin done
    /\ next' = next + 1
    /\ UNCHANGED <<mode, busy, at, done, failures, locking, undoing, cmd, gate, writer,
                   stopIssued, verdict, links, drives>>

\* MotorActionExecutor::execute looks at the readiness of the device before it
\* takes its mutex.  A failure is noted and the batch goes on.
CheckTarget ==
    /\ Executing /\ next <= NumJoints /\ ~locking
    /\ undoing => next \in done
    /\ IF ready[DeviceOf[next]]
       THEN locking' = TRUE /\ UNCHANGED <<next, failures>>
       ELSE next' = next + 1 /\ failures' = failures \cup {next} /\ UNCHANGED locking
    /\ UNCHANGED <<mode, busy, at, done, undoing, cmd, gate, writer, stopIssued,
                   verdict, links, drives>>

\* The protocol call, under the device mutex.  One that fails may have reached
\* the drive: DamiaoCan's Enable and Disable send their frame and then wait for
\* feedback that may not come in time.
ExecuteTarget ==
    /\ Executing /\ locking
    /\ ~DeviceLocked(DeviceOf[next])
    /\ next' = next + 1
    /\ locking' = FALSE
    /\ \/ /\ Apply(IF undoing THEN "Disable" ELSE busy, next)
          /\ done' = done \cup {next}
          /\ UNCHANGED failures
       \/ /\ MayReject
          /\ Apply(IF undoing THEN "Disable" ELSE busy, next) \/ UNCHANGED drives
          /\ failures' = failures \cup {next}
          /\ UNCHANGED done
    /\ UNCHANGED <<mode, busy, at, undoing, cmd, gate, writer, stopIssued,
                   verdict, links>>

\* Seeded fault: a partly failed Enable just reports the failure.
StartUndoNever ==
    /\ GiveUp

\* enableAll takes back what it has enabled.
StartUndo ==
    /\ undoing' = TRUE
    /\ next' = 1
    /\ UNCHANGED <<mode, busy, at, done, failures, locking>>

\* The result of the batch: Recover needs one success, the others all.
EndBatch ==
    /\ Doing("batch")
    /\ next > NumJoints
    /\ IF failures = {} \/ (busy = "Recover" /\ done # {}) THEN NextStep
       ELSE IF busy = "Enable" /\ done # {} THEN StartUndo
       ELSE GiveUp
    /\ UNCHANGED <<cmd, gate, writer, stopIssued, verdict, links, drives>>

\* waitForEnabledTargets, and the verification loop of recoverAll.
Confirm ==
    /\ Doing("confirm")
    /\ EnableHealthy
    /\ busy = "Enable" => \A j \in Joints : enabled[j]
    /\ NextStep
    /\ UNCHANGED <<cmd, gate, writer, stopIssued, verdict, links, drives>>

\* Their deadline has passed.
ConfirmTimeout ==
    /\ Doing("confirm")
    /\ IF busy = "Enable" THEN StartUndo ELSE GiveUp
    /\ UNCHANGED <<cmd, gate, writer, stopIssued, verdict, links, drives>>

\* The rollback is over, with or without failures of its own.
EndUndo ==
    /\ undoing
    /\ next > NumJoints
    /\ GiveUp
    /\ UNCHANGED <<cmd, gate, writer, stopIssued, verdict, links, drives>>

ServiceStep ==
    \/ Finish
    \/ CheckHealthy
    \/ Hold
    \/ Arm
    \/ \E d \in Devices : PrepareDevice(d) \/ PrepareFails(d)
    \/ EndPrepare
    \/ SkipTarget
    \/ CheckTarget
    \/ ExecuteTarget
    \/ EndBatch
    \/ Confirm
    \/ ConfirmTimeout
    \/ EndUndo
-----------------------------------------------------------------------------
(* External: the drives and the CAN links.                                 *)

\* A drive reports a fault; some faults also switch it off.
FaultOccurs(j) ==
    /\ MayFault
    /\ ~fault[j]
    /\ fault' = [fault EXCEPT ![j] = TRUE]
    /\ \/ UNCHANGED <<enabled, moving>>
       \/ /\ enabled' = [enabled EXCEPT ![j] = FALSE]
          /\ moving' = [moving EXCEPT ![j] = FALSE]
    /\ UNCHANGED <<lifecycle, cmd, gate, writer, stopIssued, verdict, links>>

LinkChanges(d) ==
    /\ MayLoseLink
    /\ d \notin gone
    /\ ready' = [ready EXCEPT ![d] = ~@]
    /\ UNCHANGED <<lifecycle, cmd, gate, writer, stopIssued, verdict, gone, drives>>

Next ==
    \/ WriterStep
    \/ JudgePublish
    \/ ReportPublish
    \/ ServiceStep
    \/ \E r \in Requests : Begin(r)
    \/ \E j \in Joints, c \in Commands : NewCommand(j, c)
    \/ \E j \in Joints : FaultOccurs(j)
    \/ \E d \in Devices : LinkChanges(d)

Spec == Init /\ [][Next]_vars

\* The control loop and the publisher are periodic, and the calls of a
\* request return.
Fairness ==
    /\ WF_vars(WriterStep)
    /\ WF_vars(JudgePublish \/ ReportPublish)
    /\ WF_vars(ServiceStep)

FairSpec == Spec /\ Fairness
-----------------------------------------------------------------------------
\* Every variable keeps the type of the C++ object it stands for.
TypeOK ==
    /\ mode \in {"Standby", "Armed", "Running", "Faulted", "Recovering"}
    /\ busy \in Requests \cup {"none"}
    /\ at \in 1..6
    /\ next \in 1..(NumJoints + 1)
    /\ done \subseteq Joints
    /\ failures \subseteq Joints
    /\ locking \in BOOLEAN
    /\ undoing \in BOOLEAN
    /\ cmd \in [Joints -> Commands]
    /\ latch \in BOOLEAN
    /\ baselines \in [Joints -> Commands]
    /\ lastReady \in [Devices -> {"unknown", "yes", "no"}]
    /\ wpc \in {"idle", "gate", "compare", "prepare", "observe", "rearm",
                "check", "call", "health", "report"}
    /\ wj \in Joints
    /\ snapshot \in [Joints -> Commands]
    /\ prepared \in [Joints -> Commands \cup {"none"}]
    /\ seen \in {"ok", "off", "fault"}
    /\ sending \in Commands
    /\ anyFault \in BOOLEAN
    /\ heldSince \in BOOLEAN
    /\ stopIssued \in [Joints -> BOOLEAN]
    /\ verdict \in BOOLEAN
    /\ ready \in [Devices -> BOOLEAN]
    /\ gone \subseteq Devices
    /\ enabled \in [Joints -> BOOLEAN]
    /\ moving \in [Joints -> BOOLEAN]
    /\ fault \in [Joints -> BOOLEAN]

StartsMoving(j) == ~moving[j] /\ moving'[j]

\* No replay: a hold (of a lifecycle request or of a recovered device) takes
\* back the commands the control cycle in flight has already prepared, for
\* every joint of every device.  Only the one protocol call that was being
\* made when the hold came may still set its joint moving (its command is no
\* longer prepared when it returns); and a Halt or a Disable does not count
\* that joint as done: its Stop or Disable waits for the device mutex, or has
\* failed because the device was not ready and is reported so.
NoReplayAfterHold ==
    [][\A j \in Joints :
          StartsMoving(j) /\ heldSince =>
             /\ prepared[j] = "none"
             /\ busy \in {"Halt", "Disable"} => j \notin done]_vars

\* The flag that suppresses a second automatic Stop is only up while the
\* joint stands still, as long as drives accept their Stop: no path through
\* recovery, mode changes or a lost device lets a joint move with the flag
\* left over from an earlier fault, which would silence the next Stop.
StopFlagMeansStopped ==
    \A j \in Joints : stopIssued[j] => ~moving[j]

\* An Enable that fails leaves no drive enabled but one whose own call failed:
\* its Enable, which may have reached the drive all the same and is not taken
\* back, or its Disable in the rollback.
FailedEnableUndone ==
    [][busy = "Enable" /\ busy' = "none" /\ mode' = "Standby" /\ at > 1 =>
          \A j \in Joints : enabled[j] => j \in failures]_vars

\* Motion commands are dispatched only in Running (docs/ECB).
MotionOnlyInRunning ==
    [][\A j \in Joints : StartsMoving(j) => mode = "Running"]_vars

\* In Standby the drives are not enabled (docs/ECB).
StandbyNotEnabled ==
    mode = "Standby" /\ busy = "none" => \A j \in Joints : ~enabled[j]

\* A joint that reports a fault while it moves is sent a Stop
\* (safety_stop_on_fault in the configuration guide under docs).
FaultedJointStopped ==
    \A j \in Joints :
        (fault[j] /\ moving[j] /\ mode = "Running") ~> ~(fault[j] /\ moving[j])
=============================================================================
