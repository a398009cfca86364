------------------------- MODULE CommandPathProofs -------------------------
(***************************************************************************)
(* Proofs about CommandPath, for any number of joints on any devices and    *)
(* whatever faults, rejected calls and lost links there are.                *)
(*                                                                         *)
(* None of the three properties is inductive.  NoReplayAfterHold needs to   *)
(* know that a hold empties the prepared commands of the cycle in flight    *)
(* (HoldEmpties) and that the batch of a Halt or a Disable does not do the  *)
(* joint of the call being made, whose device is locked                     *)
(* (BatchWaitsForCall).                                                     *)
(* StopFlagMeansStopped needs the flag to be down during a protocol call    *)
(* (FlagDownInCall), since its end may set the joint moving.                *)
(* FailedEnableUndone needs that the batch leaves no joint out              *)
(* (BatchCovers) and what the rollback has done so far (RollbackDone).      *)
(*                                                                         *)
(* The lemmas XxxOwners say which actions change a part of the state; every *)
(* step lemma looks at these only.                                          *)
(***************************************************************************)
EXTENDS CommandPath, TLAPS

\* TypeOK by owner: the lifecycle request, ...
LifecycleTypes ==
    /\ mode \in {"Standby", "Armed", "Running", "Faulted", "Recovering"}
    /\ busy \in Requests \cup {"none"}
    /\ at \in 1..6
    /\ next \in 1..(NumJoints + 1)
    /\ done \subseteq Joints
    /\ failures \subseteq Joints
    /\ locking \in BOOLEAN
    /\ undoing \in BOOLEAN

\* ... the selected commands and the gate, ...
CommandTypes ==
    /\ cmd \in [Joints -> Commands]
    /\ latch \in BOOLEAN
    /\ baselines \in [Joints -> Commands]
    /\ lastReady \in [Devices -> {"unknown", "yes", "no"}]
    /\ stopIssued \in [Joints -> BOOLEAN]
    /\ verdict \in BOOLEAN

\* ... the control thread, ...
WriterTypes ==
    /\ wpc \in {"idle", "gate", "compare", "prepare", "observe", "rearm",
                "check", "call", "health", "report"}
    /\ wj \in Joints
    /\ snapshot \in [Joints -> Commands]
    /\ prepared \in [Joints -> Commands \cup {"none"}]
    /\ seen \in {"ok", "off", "fault"}
    /\ sending \in Commands
    /\ anyFault \in BOOLEAN
    /\ heldSince \in BOOLEAN

\* ... and the devices with their drives.
DriveTypes ==
    /\ ready \in [Devices -> BOOLEAN]
    /\ gone \subseteq Devices
    /\ enabled \in [Joints -> BOOLEAN]
    /\ moving \in [Joints -> BOOLEAN]
    /\ fault \in [Joints -> BOOLEAN]

\* A batch only waits for the mutex of a joint it has.
LockingFits == locking => next <= NumJoints

\* The batch of an Enable leaves no joint out: the call of each has succeeded or
\* has failed.
BatchCovers ==
    /\ busy = "Enable" /\ at = 2 /\ ~undoing =>
          \A j \in Joints : j < next => j \in done \cup failures
    /\ busy = "Enable" /\ (undoing \/ at > 2) =>
          \A j \in Joints : j \in done \cup failures

\* Only an Enable is rolled back, and the joints the rollback has passed are disabled
\* or have had a call that failed.
RollbackDone ==
    /\ undoing => busy = "Enable"
    /\ undoing => \A j \in Joints : j < next => (enabled[j] => j \in failures)

\* A hold takes back what the cycle in flight has prepared, ...
HoldEmpties ==
    heldSince => /\ wpc \in {"observe", "rearm", "check", "call", "health", "report"}
                 /\ \A j \in Joints : prepared[j] = "none"

\* ... and the batch of a Halt or a Disable has not done the joint of the call that
\* was being made when it came.
BatchWaitsForCall ==
    /\ busy \in {"Halt", "Disable"} /\ at = 1 => done = {}
    /\ wpc = "call" /\ heldSince /\ busy \in {"Halt", "Disable"} => wj \notin done

\* The flag is down during a protocol call, and up only on a joint that stands.
FlagDownInCall == wpc = "call" => ~stopIssued[wj]
StoppedIfAccepted == ~MayReject => StopFlagMeansStopped

\* The inductive invariant.
IInv == /\ TypeOK /\ LockingFits /\ BatchCovers /\ RollbackDone /\ HoldEmpties
        /\ BatchWaitsForCall /\ FlagDownInCall /\ StoppedIfAccepted

-----------------------------------------------------------------------------
\* There is at least one joint.
LEMMA JointsFacts == NumJoints \in Nat /\ NumJoints >= 1
  BY CommandPathAssumption

\* The requests and the lengths of their programs.
LEMMA RequestsFacts ==
    /\ Requests = {"Enable", "Disable", "Release", "Halt", "Recover"}
    /\ \A r \in Requests : Len(Program[r]) \in 1 .. 5
  BY DEF Requests, Program

\* The parts make up the type invariant.
LEMMA Parts == TypeOK <=> LifecycleTypes /\ CommandTypes /\ WriterTypes /\ DriveTypes
  BY DEF TypeOK, LifecycleTypes, CommandTypes, WriterTypes, DriveTypes

\* Who changes the lifecycle.
LEMMA LifecycleOwners ==
    ASSUME [Next]_vars
    PROVE  \/ UNCHANGED lifecycle
           \/ DowngradeMode
           \/ ServiceStep
           \/ \E r \in Requests : Begin(r)
  BY DEF Next, WriterStep, CheckMode, ReadLatch, ConsumeLatch, KeepLatch, PrepareCommands,
         SkipUnready, HoldRecovered, RearmRecovered, SnapshotFeedback, SkipInvalid, StopOnFault,
         BlockDisabled, BeginCall, EndCall, JudgeCycle, ReportCycle, JudgePublish, ReportPublish,
         NewCommand, FaultOccurs, LinkChanges, vars

\* Who changes the locals of the control thread.
LEMMA WriterOwners ==
    ASSUME [Next]_vars
    PROVE  \/ UNCHANGED writer
           \/ WriterStep
           \/ Hold
  BY DEF Next, JudgePublish, ReportPublish, ServiceStep, Begin, Finish, CheckHealthy, Arm,
         PrepareDevice, PrepareFails, EndPrepare, SkipTarget, CheckTarget, ExecuteTarget, EndBatch,
         Confirm, ConfirmTimeout, EndUndo, NewCommand, FaultOccurs, LinkChanges, vars

\* Who changes commands, gate, flags and verdict.
LEMMA CommandOwners ==
    ASSUME [Next]_vars
    PROVE  \/ UNCHANGED <<cmd, gate, stopIssued, verdict>>
           \/ JudgePublish \/ ReportPublish \/ Hold \/ Arm \/ RearmRecovered
           \/ \E d \in Devices : PrepareDevice(d) \/ PrepareFails(d)
           \/ ConsumeLatch \/ SkipUnready \/ HoldRecovered \/ SnapshotFeedback
           \/ StopOnFault \/ BlockDisabled \/ BeginCall
           \/ \E j \in Joints, c \in Commands : NewCommand(j, c)
  BY DEF Next, WriterStep, CheckMode, ReadLatch, KeepLatch, PrepareCommands, SkipInvalid,
         EndCall, JudgeCycle, ReportCycle, ServiceStep, Finish, CheckHealthy, EndPrepare,
         SkipTarget, CheckTarget, ExecuteTarget, EndBatch, Confirm, ConfirmTimeout, EndUndo,
         Begin,
         FaultOccurs, LinkChanges, vars

\* Who changes devices and drives.
LEMMA DriveOwners ==
    ASSUME [Next]_vars
    PROVE  \/ UNCHANGED <<links, drives>>
           \/ StopOnFault \/ EndCall \/ ExecuteTarget
           \/ \E d \in Devices : PrepareDevice(d) \/ PrepareFails(d)
           \/ \E j \in Joints : FaultOccurs(j)
           \/ \E d \in Devices : LinkChanges(d)
  BY DEF Next, WriterStep, CheckMode, ReadLatch, ConsumeLatch, KeepLatch, PrepareCommands,
         SkipUnready, HoldRecovered, RearmRecovered, SnapshotFeedback, SkipInvalid,
         BlockDisabled, BeginCall, JudgeCycle, ReportCycle, JudgePublish, ReportPublish,
         ServiceStep, Finish, CheckHealthy, Hold, Arm, EndPrepare, SkipTarget, CheckTarget,
         EndBatch, Confirm,
         ConfirmTimeout, EndUndo, Begin, NewCommand, vars

\* An empty batch is in its type ...
LEMMA NoBatchType ==
    ASSUME NoBatch
    PROVE  /\ at' \in 1..6 /\ next' \in 1..(NumJoints + 1) /\ done' \subseteq Joints
           /\ failures' \subseteq Joints /\ locking' \in BOOLEAN /\ undoing' \in BOOLEAN
  <1>1. at' \in 1..6 /\ next' \in 1..(NumJoints + 1) /\ done' \subseteq Joints
    BY JointsFacts DEF NoBatch
  <1>2. failures' \subseteq Joints /\ locking' \in BOOLEAN /\ undoing' \in BOOLEAN
    BY DEF NoBatch
  <1> QED
    BY <1>1, <1>2

\* ... and so is the lifecycle when a request gives up, ...
LEMMA GiveUpType ==
    ASSUME LifecycleTypes, GiveUp
    PROVE  LifecycleTypes'
  BY NoBatchType, RequestsFacts DEF GiveUp, M!GiveUp, M!GivenUp, LifecycleTypes

\* ... goes on to its next step ...
LEMMA NextStepType ==
    ASSUME LifecycleTypes, at + 1 \in 1..6, NextStep
    PROVE  LifecycleTypes'
  <1>1. next' \in 1..(NumJoints + 1)
    BY JointsFacts DEF NextStep
  <1> QED
    BY <1>1 DEF NextStep, LifecycleTypes

\* ... or begins its rollback.
LEMMA StartUndoType ==
    ASSUME LifecycleTypes, StartUndo
    PROVE  LifecycleTypes'
  <1>1. next' \in 1..(NumJoints + 1)
    BY JointsFacts DEF StartUndo
  <1> QED
    BY <1>1 DEF StartUndo, LifecycleTypes

\* A step of a program belongs to a request and has a position behind it.
LEMMA DoingFacts ==
    ASSUME LifecycleTypes, NEW s, Doing(s)
    PROVE  busy \in Requests /\ at + 1 \in 1..6 /\ ~undoing
  BY RequestsFacts DEF Doing, LifecycleTypes

\* Only a Recover prepares devices.
LEMMA PrepareIsRecover ==
    ASSUME TypeOK, Doing("prepare")
    PROVE  busy = "Recover"
  <1>1. at \in 1..6 /\ busy \in Requests
    BY Parts, DoingFacts DEF LifecycleTypes
  <1>2. at \in 1 .. Len(Program[busy]) /\ Program[busy][at] = "prepare"
    BY <1>1, RequestsFacts DEF Doing
  <1>3. busy # "Enable"
    <2>1. SUFFICES ASSUME busy = "Enable" PROVE FALSE
      OBVIOUS
    <2>2. Program[busy] = <<"healthy", "batch", "confirm", "hold", "arm">>
      BY <2>1 DEF Program
    <2>3. at \in 1..5
      BY <1>2, <2>2
    <2> QED
      BY <1>2, <2>2, <2>3
  <1>4. busy # "Disable" /\ busy # "Halt"
    BY <1>2 DEF Program
  <1>5. busy # "Release"
    <2>1. SUFFICES ASSUME busy = "Release" PROVE FALSE
      OBVIOUS
    <2>2. Program[busy] = <<"healthy", "arm">>
      BY <2>1 DEF Program
    <2>3. at \in 1..2
      BY <1>2, <2>2
    <2> QED
      BY <1>2, <2>2, <2>3
  <1> QED
    BY <1>1, <1>3, <1>4, <1>5, RequestsFacts

\* The batch of an Enable is its second step ...
LEMMA BatchAtTwo ==
    ASSUME TypeOK, busy = "Enable", Doing("batch")
    PROVE  at = 2
  <1>1. Program[busy] = <<"healthy", "batch", "confirm", "hold", "arm">>
    BY DEF Program
  <1>2. at \in 1..5 /\ Program[busy][at] = "batch"
    BY <1>1, Parts DEF Doing, LifecycleTypes
  <1> QED
    BY <1>1, <1>2

\* ... its confirmation the third, ...
LEMMA ConfirmAtThree ==
    ASSUME TypeOK, busy = "Enable", Doing("confirm")
    PROVE  at = 3
  <1>1. Program[busy] = <<"healthy", "batch", "confirm", "hold", "arm">>
    BY DEF Program
  <1>2. at \in 1..5 /\ Program[busy][at] = "confirm"
    BY <1>1, Parts DEF Doing, LifecycleTypes
  <1> QED
    BY <1>1, <1>2

\* ... and only the end of the batch leads from its second step to the third.
LEMMA AtTwo ==
    ASSUME TypeOK, busy = "Enable", at = 2, at' = 3,
           CheckHealthy \/ Hold \/ Arm \/ Confirm \/ EndBatch \/ ConfirmTimeout
    PROVE  EndBatch
  <1>1. Program[busy][at] = "batch"
    BY DEF Program
  <1> QED
    BY <1>1 DEF CheckHealthy, Hold, Arm, Confirm, ConfirmTimeout, Doing

\* Halt and Disable hold the commands first and execute their batch then.
LEMMA HoldAtOne ==
    ASSUME TypeOK, busy \in {"Halt", "Disable"}, Doing("hold")
    PROVE  at = 1
  <1>1. Program[busy] = <<"hold", "batch">>
    BY DEF Program
  <1>2. at \in 1..2 /\ Program[busy][at] = "hold"
    BY <1>1, Parts DEF Doing, LifecycleTypes
  <1> QED
    BY <1>1, <1>2

LEMMA BatchAfterHold ==
    ASSUME TypeOK, busy \in {"Halt", "Disable"}, Doing("batch")
    PROVE  at # 1
  BY DEF Doing, Program

\* The types of the lifecycle are preserved.
LEMMA LifecycleTypesStep ==
    ASSUME TypeOK, LockingFits, [Next]_vars
    PROVE  LifecycleTypes'
  <1> USE Parts
  <1>1. CASE UNCHANGED lifecycle
    BY <1>1 DEF LifecycleTypes, lifecycle
  <1>2. CASE DowngradeMode
    BY <1>2 DEF DowngradeMode, LifecycleTypes
  <1>3. CASE \E r \in Requests : Begin(r)
    BY <1>3, NoBatchType, RequestsFacts DEF Begin, M!Begin, M!During, LifecycleTypes
  <1>4. CASE Finish
    BY <1>4, NoBatchType, RequestsFacts DEF Finish, M!Finish, M!Target, LifecycleTypes
  <1>5. CASE CheckHealthy
    BY <1>5, DoingFacts, NextStepType, GiveUpType DEF CheckHealthy
  <1>6. CASE Hold \/ Arm \/ Confirm
    BY <1>6, DoingFacts, NextStepType DEF Hold, Arm, Confirm
  <1>7. CASE \E d \in Devices : PrepareDevice(d)
    BY <1>7 DEF PrepareDevice, JointsOn, LifecycleTypes
  <1>8. CASE \E d \in Devices : PrepareFails(d)
    BY <1>8, DoingFacts, GiveUpType DEF PrepareFails
  <1>9. CASE EndPrepare
    BY <1>9, DoingFacts DEF EndPrepare, LifecycleTypes
  <1>10. CASE SkipTarget \/ CheckTarget \/ ExecuteTarget
    <2>1. next' \in 1..(NumJoints + 1) /\ next \in Joints
      <3>1. next <= NumJoints /\ (next' = next \/ next' = next + 1)
        BY <1>10 DEF SkipTarget, CheckTarget, ExecuteTarget, LockingFits
      <3> QED
        BY <3>1, JointsFacts DEF LifecycleTypes, Joints
    <2> QED
      BY <1>10, <2>1 DEF SkipTarget, CheckTarget, ExecuteTarget, LifecycleTypes
  <1>11. CASE EndBatch \/ ConfirmTimeout
    BY <1>11, DoingFacts, NextStepType, GiveUpType, StartUndoType DEF EndBatch, ConfirmTimeout
  <1>12. CASE EndUndo
    BY <1>12, GiveUpType DEF EndUndo
  <1> QED
    BY <1>1, <1>2, <1>3, <1>4, <1>5, <1>6, <1>7, <1>8, <1>9, <1>10, <1>11, <1>12,
       LifecycleOwners DEF ServiceStep

\* The control thread goes on with a joint or to the health check.
LEMMA NextJointType ==
    ASSUME WriterTypes, NextJoint
    PROVE  /\ wpc' \in {"observe", "health"} /\ wj' \in Joints
           /\ prepared' \in [Joints -> Commands \cup {"none"}]
  <1>1. wpc' \in {"observe", "health"} /\ wj' \in Joints
    BY JointsFacts DEF WriterTypes, NextJoint, Joints
  <1> QED
    BY <1>1 DEF WriterTypes, NextJoint

\* The end of a cycle resets the locals to their types.
LEMMA EndCycleType == EndCycle => WriterTypes'
  <1>1. EndCycle => wj' \in Joints
    BY JointsFacts DEF EndCycle, Joints
  <1> QED
    BY <1>1 DEF EndCycle, WriterTypes, AllJoints, Commands

\* The types of the control thread are preserved.
LEMMA WriterTypesStep ==
    ASSUME TypeOK, [Next]_vars
    PROVE  WriterTypes'
  <1> USE Parts
  <1>1. CASE UNCHANGED writer
    BY <1>1 DEF WriterTypes, writer
  <1>2. CASE Hold
    BY <1>2 DEF Hold, HoldCommands, AllJoints, WriterTypes
  <1>3. CASE CheckMode \/ ReadLatch
    BY <1>3 DEF CheckMode, ReadLatch, WriterTypes, CommandTypes
  <1>4. CASE ConsumeLatch
    BY <1>4 DEF ConsumeLatch, WriterTypes, AllJoints, Commands
  <1>5. CASE PrepareCommands
    BY <1>5 DEF PrepareCommands, WriterTypes, CommandTypes
  <1>6. CASE SkipUnready
    BY <1>6, NextJointType DEF SkipUnready, WriterTypes
  <1>7. CASE HoldRecovered
    BY <1>7 DEF HoldRecovered, HoldCommands, AllJoints, WriterTypes
  <1>8. CASE RearmRecovered
    BY <1>8, NextJointType DEF RearmRecovered, WriterTypes
  <1>9. CASE SnapshotFeedback
    BY <1>9 DEF SnapshotFeedback, WriterTypes
  <1>10. CASE SkipInvalid
    BY <1>10, NextJointType DEF SkipInvalid, WriterTypes
  <1>11. CASE StopOnFault
    BY <1>11, NextJointType DEF StopOnFault, WriterTypes
  <1>12. CASE BlockDisabled
    BY <1>12, NextJointType DEF BlockDisabled, WriterTypes
  <1>13. CASE BeginCall
    BY <1>13 DEF BeginCall, WriterTypes, Commands
  <1>14. CASE EndCall
    BY <1>14, NextJointType DEF EndCall, WriterTypes, Commands
  <1>15. CASE KeepLatch \/ JudgeCycle \/ ReportCycle
    BY <1>15, EndCycleType DEF KeepLatch, JudgeCycle, ReportCycle, WriterTypes
  <1> QED
    BY <1>1, <1>2, <1>3, <1>4, <1>5, <1>6, <1>7, <1>8, <1>9, <1>10, <1>11, <1>12, <1>13, <1>14,
       <1>15, WriterOwners DEF WriterStep

\* Holding the commands leaves them in their type.
LEMMA HoldType == HoldCommands => cmd' \in [Joints -> Commands]
  BY DEF HoldCommands, AllJoints, Commands

\* Synchronising some joints leaves commands and flags in their type.
LEMMA SyncType ==
    ASSUME CommandTypes, NEW js, SyncCommands(js)
    PROVE  cmd' \in [Joints -> Commands] /\ stopIssued' \in [Joints -> BOOLEAN]
  BY DEF SyncCommands, CommandTypes, Commands

\* The types of commands, gate, flags and verdict are preserved.
LEMMA CommandTypesStep ==
    ASSUME TypeOK, [Next]_vars
    PROVE  CommandTypes'
  <1> USE Parts
  <1>1. CASE UNCHANGED <<cmd, gate, stopIssued, verdict>>
    BY <1>1 DEF CommandTypes, gate
  <1>2. CASE JudgePublish \/ ReportPublish
    BY <1>2 DEF JudgePublish, ReportPublish, CommandTypes, gate
  <1>3. CASE Hold
    BY <1>3, HoldType DEF Hold, CommandTypes, gate
  <1>4. CASE Arm \/ RearmRecovered
    BY <1>4 DEF Arm, RearmRecovered, ArmLatch, CommandTypes
  <1>5. CASE \E d \in Devices : PrepareDevice(d) \/ PrepareFails(d)
    BY <1>5, SyncType DEF PrepareDevice, PrepareFails, CommandTypes, gate
  <1>6. CASE ConsumeLatch
    BY <1>6 DEF ConsumeLatch, AllJoints, Commands, CommandTypes
  <1>7. CASE SkipUnready
    BY <1>7 DEF SkipUnready, Commands, CommandTypes
  <1>8. CASE HoldRecovered
    BY <1>8, HoldType DEF HoldRecovered, CommandTypes
  <1>9. CASE SnapshotFeedback
    BY <1>9 DEF SnapshotFeedback, CommandTypes
  <1>10. CASE StopOnFault
    BY <1>10 DEF StopOnFault, CommandTypes, gate
  <1>11. CASE BlockDisabled \/ BeginCall
    BY <1>11 DEF BlockDisabled, BeginCall, ClearStopIssued, CommandTypes, gate
  <1>12. CASE \E j \in Joints, c \in Commands : NewCommand(j, c)
    BY <1>12 DEF NewCommand, CommandTypes, gate
  <1> QED
    BY <1>1, <1>2, <1>3, <1>4, <1>5, <1>6, <1>7, <1>8, <1>9, <1>10, <1>11, <1>12, CommandOwners

\* The target of a call is a joint.
LEMMA TargetIsJoint ==
    ASSUME TypeOK, LockingFits, ExecuteTarget
    PROVE  next \in Joints
  <1>1. next \in 1..(NumJoints + 1) /\ next <= NumJoints
    BY Parts DEF ExecuteTarget, LockingFits, LifecycleTypes
  <1> QED
    BY <1>1, JointsFacts DEF Joints

\* What a call does to a drive leaves it in its type.
LEMMA ApplyType ==
    ASSUME DriveTypes, NEW r, NEW j \in Joints, Apply(r, j)
    PROVE  enabled' \in [Joints -> BOOLEAN] /\ moving' \in [Joints -> BOOLEAN]
           /\ fault' \in [Joints -> BOOLEAN]
  BY DEF Apply, DriveTypes

\* The types of devices and drives are preserved.
LEMMA DriveTypesStep ==
    ASSUME TypeOK, LockingFits, [Next]_vars
    PROVE  DriveTypes'
  <1> USE Parts
  <1>1. CASE UNCHANGED <<links, drives>>
    BY <1>1 DEF DriveTypes, links, drives
  <1>2. CASE StopOnFault
    BY <1>2 DEF StopOnFault, DriveTypes, links
  <1>3. CASE EndCall
    BY <1>3 DEF EndCall, DriveTypes, links
  <1>4. CASE \E d \in Devices : PrepareDevice(d) \/ PrepareFails(d)
    BY <1>4 DEF PrepareDevice, PrepareFails, DriveTypes, drives
  <1>5. CASE ExecuteTarget
    BY <1>5, TargetIsJoint, ApplyType DEF ExecuteTarget, DriveTypes, links, drives
  <1>7. CASE \E j \in Joints : FaultOccurs(j)
    BY <1>7 DEF FaultOccurs, DriveTypes, links
  <1>8. CASE \E d \in Devices : LinkChanges(d)
    BY <1>8 DEF LinkChanges, DriveTypes, drives
  <1> QED
    BY <1>1, <1>2, <1>3, <1>4, <1>5, <1>7, <1>8, DriveOwners

\* The type invariant is inductive.
LEMMA TypeStep ==
    ASSUME TypeOK, LockingFits, [Next]_vars
    PROVE  TypeOK'
  <1>1. LifecycleTypes' /\ CommandTypes' /\ WriterTypes' /\ DriveTypes'
    BY LifecycleTypesStep, CommandTypesStep, WriterTypesStep, DriveTypesStep
  <1> QED
    BY <1>1 DEF TypeOK, LifecycleTypes, CommandTypes, WriterTypes, DriveTypes

-----------------------------------------------------------------------------
\* Only the batch of a request enables a drive.
LEMMA EnabledByBatch ==
    ASSUME TypeOK, LockingFits, [Next]_vars, NEW j \in Joints, enabled'[j], ~enabled[j]
    PROVE  ExecuteTarget /\ ~undoing
  <1>1. ~\E d \in Devices : PrepareDevice(d) \/ PrepareFails(d)
    BY DEF PrepareDevice, PrepareFails, drives
  <1>2. ~\E d \in Devices : LinkChanges(d)
    BY DEF LinkChanges, drives
  <1>3. ~\E i \in Joints : FaultOccurs(i)
    BY Parts DEF FaultOccurs, DriveTypes
  <1>4. ~StopOnFault /\ ~EndCall
    BY DEF StopOnFault, EndCall
  <1>5. ~UNCHANGED <<links, drives>>
    BY DEF links, drives
  <1>6. ExecuteTarget
    BY <1>1, <1>2, <1>3, <1>4, <1>5, DriveOwners
  <1>7. ~undoing
    <2>1. SUFFICES ASSUME undoing PROVE FALSE
      OBVIOUS
    <2> QED
      BY <1>6, <2>1, TargetIsJoint, Parts DEF ExecuteTarget, Apply, DriveTypes, drives
  <1> QED
    BY <1>6, <1>7

\* A batch passes a joint when its call has succeeded or failed, and a rollback also when
\* the joint is no target of it, because its call in the batch has failed.
LEMMA TargetPassed ==
    ASSUME IInv, SkipTarget \/ CheckTarget \/ ExecuteTarget
    PROVE  /\ UNCHANGED <<busy, at, undoing>> /\ done \subseteq done' /\ failures \subseteq failures'
           /\ next \in Joints
           /\ \/ next' = next
              \/ next' = next + 1 /\ next \in done' \cup failures'
  <1> USE Parts DEF IInv
  <1>1. UNCHANGED <<busy, at, undoing>> /\ done \subseteq done' /\ failures \subseteq failures'
    BY DEF SkipTarget, CheckTarget, ExecuteTarget
  <1>2. next \in Joints
    <2>1. next \in 1..(NumJoints + 1) /\ next <= NumJoints
      BY DEF SkipTarget, CheckTarget, ExecuteTarget, LockingFits, LifecycleTypes
    <2> QED
      BY <2>1, JointsFacts DEF Joints
  <1>3. CASE SkipTarget
    <2>1. undoing /\ next \notin done /\ next' = next + 1
      BY <1>3 DEF SkipTarget
    <2>2. next \in failures
      BY <1>2, <2>1 DEF BatchCovers, RollbackDone
    <2> QED
      BY <1>1, <1>2, <2>1, <2>2
  <1>4. CASE CheckTarget
    <2>1. next' = next \/ (next' = next + 1 /\ next \in failures')
      BY <1>4 DEF CheckTarget
    <2> QED
      BY <1>1, <1>2, <2>1
  <1>5. CASE ExecuteTarget
    <2>1. next' = next + 1 /\ next \in done' \cup failures'
      BY <1>5 DEF ExecuteTarget
    <2> QED
      BY <1>1, <1>2, <2>1
  <1> QED
    BY <1>3, <1>4, <1>5

\* A joint before the next one is one before this one, or this one.
LEMMA Before ==
    ASSUME IInv, next \in Joints
    PROVE  \A j \in Joints : j < next + 1 => j < next \/ j = next
  BY JointsFacts DEF Joints

\* A batch that is over has passed every joint.
LEMMA BeforeEnd ==
    ASSUME IInv, next > NumJoints
    PROVE  \A j \in Joints : j < next
  BY JointsFacts, Parts DEF IInv, LifecycleTypes, Joints

\* LockingFits is preserved.
LEMMA LockingStep ==
    ASSUME IInv, [Next]_vars
    PROVE  LockingFits'
  <1> USE Parts DEF IInv
  <1>1. SUFFICES ASSUME locking' PROVE next' <= NumJoints
    BY DEF LockingFits
  <1>2. CASE UNCHANGED <<next, locking>>
    BY <1>1, <1>2 DEF LockingFits
  <1>3. CASE next' = 1
    BY <1>3, JointsFacts
  <1>4. CASE UNCHANGED lifecycle \/ DowngradeMode
    BY <1>2, <1>4 DEF lifecycle, DowngradeMode
  <1>5. CASE \E r \in Requests : Begin(r)
    BY <1>3, <1>5 DEF Begin, NoBatch
  <1>6. CASE Finish \/ EndUndo \/ \E d \in Devices : PrepareFails(d)
    BY <1>3, <1>6 DEF Finish, EndUndo, PrepareFails, GiveUp, NoBatch
  <1>7. CASE CheckHealthy \/ Hold \/ Arm \/ Confirm
    BY <1>3, <1>7 DEF CheckHealthy, Hold, Arm, Confirm, NextStep, GiveUp, NoBatch
  <1>8. CASE EndBatch \/ ConfirmTimeout
    BY <1>3, <1>8 DEF EndBatch, ConfirmTimeout, NextStep, StartUndo, GiveUp, NoBatch
  <1>9. CASE (\E d \in Devices : PrepareDevice(d)) \/ EndPrepare
    BY <1>2, <1>9 DEF PrepareDevice, EndPrepare
  <1>10. CASE SkipTarget \/ ExecuteTarget
    BY <1>1, <1>10 DEF SkipTarget, ExecuteTarget
  <1>11. CASE CheckTarget
    BY <1>1, <1>11 DEF CheckTarget
  <1> QED
    BY <1>4, <1>5, <1>6, <1>7, <1>8, <1>9, <1>10, <1>11, LifecycleOwners DEF ServiceStep

\* BatchCovers is preserved: the batch goes from joint to joint, and it ends when none
\* is left.
LEMMA BatchCoversStep ==
    ASSUME IInv, [Next]_vars
    PROVE  BatchCovers'
  <1> USE Parts DEF IInv
  <1>1. SUFFICES ASSUME busy' = "Enable" PROVE BatchCovers'
    BY DEF BatchCovers
  <1>2. CASE UNCHANGED <<busy, at, next, done, failures, undoing>>
    BY <1>2 DEF BatchCovers
  <1>3. CASE at' = 1 /\ ~undoing'
    BY <1>3 DEF BatchCovers
  <1>4. CASE UNCHANGED lifecycle \/ DowngradeMode
    BY <1>2, <1>4 DEF lifecycle, DowngradeMode
  <1>5. CASE \E r \in Requests : Begin(r)
    BY <1>3, <1>5 DEF Begin, NoBatch
  <1>6. CASE Finish \/ EndUndo \/ \E d \in Devices : PrepareFails(d)
    BY <1>3, <1>6 DEF Finish, EndUndo, PrepareFails, GiveUp, NoBatch
  <1>7. CASE (\E d \in Devices : PrepareDevice(d)) \/ EndPrepare
    BY <1>1, <1>7, PrepareIsRecover DEF PrepareDevice, EndPrepare
  <1>8. CASE SkipTarget \/ CheckTarget \/ ExecuteTarget
    <2>1. \A j \in Joints : j \in done \cup failures => j \in done' \cup failures'
      BY <1>8, TargetPassed
    <2>2. ASSUME at = 2, ~undoing, NEW j \in Joints, j < next'
          PROVE  j \in done' \cup failures'
      <3>1. j < next \/ (j = next /\ j \in done' \cup failures')
        BY <1>8, <2>2, TargetPassed, Before
      <3> QED
        BY <1>1, <1>8, <2>1, <2>2, <3>1, TargetPassed DEF BatchCovers
    <2>3. ASSUME undoing \/ at > 2, NEW j \in Joints
          PROVE  j \in done' \cup failures'
      BY <1>1, <1>8, <2>1, <2>3, TargetPassed DEF BatchCovers
    <2>4. UNCHANGED <<busy, at, undoing>>
      BY <1>8, TargetPassed
    <2> QED
      BY <2>2, <2>3, <2>4 DEF BatchCovers
  <1>9. CASE NextStep /\ (CheckHealthy \/ Hold \/ Arm \/ Confirm \/ EndBatch \/ ConfirmTimeout)
    <2>1. UNCHANGED <<busy, done, failures, undoing>> /\ at' = at + 1 /\ at \in 1..6 /\ next' = 1
      BY <1>9 DEF NextStep, LifecycleTypes
    <2>2. \A j \in Joints : ~(j < 1)
      BY JointsFacts DEF Joints
    <2>3. undoing \/ at > 2 => BatchCovers'
      BY <1>1, <2>1, <2>2 DEF BatchCovers
    <2>4. at = 1 => BatchCovers'
      BY <2>1, <2>2, <2>3 DEF BatchCovers
    <2>5. at = 2 /\ ~undoing => BatchCovers'
      <3>1. SUFFICES ASSUME at = 2, ~undoing PROVE \A j \in Joints : j \in done \cup failures
        BY <2>1, <2>2 DEF BatchCovers
      <3>2. EndBatch
        BY <1>1, <1>9, <2>1, <3>1, AtTwo
      <3>3. \A j \in Joints : j < next
        BY <3>2, BeforeEnd DEF EndBatch
      <3> QED
        BY <1>1, <2>1, <3>1, <3>3 DEF BatchCovers
    <2> QED
      BY <2>1, <2>3, <2>4, <2>5
  <1>10. CASE CheckHealthy \/ Hold \/ Arm \/ Confirm
    BY <1>3, <1>9, <1>10 DEF CheckHealthy, Hold, Arm, Confirm, GiveUp, NoBatch
  <1>11. CASE StartUndo /\ (EndBatch \/ ConfirmTimeout)
    <2>1. UNCHANGED <<busy, at, done, failures>> /\ undoing'
      BY <1>11 DEF StartUndo
    <2>2. \A j \in Joints : j \in done \cup failures
      <3>1. CASE EndBatch
        <4>1. \A j \in Joints : j < next
          BY <3>1, BeforeEnd DEF EndBatch
        <4>2. at = 2 \/ at > 2
          BY <1>1, <2>1, <3>1, BatchAtTwo DEF EndBatch
        <4> QED
          BY <1>1, <2>1, <3>1, <4>1, <4>2 DEF BatchCovers
      <3>2. CASE ConfirmTimeout
        BY <1>1, <2>1, <3>2, ConfirmAtThree DEF ConfirmTimeout, BatchCovers
      <3> QED
        BY <1>11, <3>1, <3>2
    <2> QED
      BY <2>1, <2>2 DEF BatchCovers
  <1>12. CASE EndBatch \/ ConfirmTimeout
    BY <1>3, <1>9, <1>11, <1>12 DEF EndBatch, ConfirmTimeout, GiveUp, NoBatch
  <1> QED
    BY <1>4, <1>5, <1>6, <1>7, <1>8, <1>10, <1>12, LifecycleOwners DEF ServiceStep

\* RollbackDone is preserved: only the batch of an Enable raises enabled, and it
\* does not run during a rollback.
LEMMA RollbackStep ==
    ASSUME IInv, [Next]_vars
    PROVE  RollbackDone'
  <1> USE DEF IInv
  <1> DEFINE NoneEnabled == \A j \in Joints : enabled'[j] => enabled[j]
  <1>1. undoing => NoneEnabled
    BY EnabledByBatch
  <1>2. CASE ~undoing'
    BY <1>2 DEF RollbackDone
  <1>3. CASE UNCHANGED <<busy, next, failures, undoing>>
    BY <1>1, <1>3 DEF RollbackDone
  <1>4. CASE StartUndo /\ busy = "Enable"
    <2>1. \A j \in Joints : ~(j < 1)
      BY JointsFacts DEF Joints
    <2> QED
      BY <1>4, <2>1 DEF StartUndo, RollbackDone
  <1>5. CASE undoing /\ (SkipTarget \/ CheckTarget \/ ExecuteTarget)
    <2>1. UNCHANGED <<busy, undoing>> /\ failures \subseteq failures' /\ next \in Joints
      BY <1>5, TargetPassed
    <2>2. \A j \in Joints : j < next => (enabled'[j] => j \in failures')
      BY <1>1, <1>5, <2>1 DEF RollbackDone
    <2>3. next' = next \/ (next' = next + 1 /\ (enabled'[next] => next \in failures'))
      <3>1. CASE SkipTarget
        BY <1>5, <2>1, <3>1 DEF SkipTarget, BatchCovers, RollbackDone
      <3>2. CASE CheckTarget
        BY <3>2 DEF CheckTarget
      <3>3. CASE ExecuteTarget
        BY <1>5, <2>1, <3>3, Parts DEF ExecuteTarget, Apply, DriveTypes
      <3> QED
        BY <1>5, <3>1, <3>2, <3>3
    <2>4. \A j \in Joints : j < next' => (enabled'[j] => j \in failures')
      BY <2>1, <2>2, <2>3, Before
    <2> QED
      BY <1>5, <2>1, <2>4 DEF RollbackDone
  <1>6. CASE UNCHANGED lifecycle \/ DowngradeMode
    BY <1>3, <1>6 DEF lifecycle, DowngradeMode
  <1>7. CASE \E r \in Requests : Begin(r)
    BY <1>2, <1>7 DEF Begin, NoBatch
  <1>8. CASE ServiceStep
    <2>1. CASE Finish \/ EndUndo
      BY <1>2, <2>1 DEF Finish, EndUndo, GiveUp, NoBatch
    <2>2. CASE CheckHealthy \/ Hold \/ Arm \/ Confirm
      BY <1>2, <2>2 DEF CheckHealthy, Hold, Arm, Confirm, Doing, NextStep, GiveUp, NoBatch
    <2>3. CASE \E d \in Devices : PrepareDevice(d) \/ PrepareFails(d)
      BY <1>2, <2>3 DEF PrepareDevice, PrepareFails, Doing, GiveUp, NoBatch
    <2>4. CASE EndPrepare
      BY <1>2, <2>4 DEF EndPrepare, Doing
    <2>5. CASE EndBatch \/ ConfirmTimeout
      BY <1>2, <1>4, <2>5 DEF EndBatch, ConfirmTimeout, Doing, NextStep, GiveUp, NoBatch
    <2>6. CASE SkipTarget \/ CheckTarget \/ ExecuteTarget
      BY <1>2, <1>5, <2>6 DEF SkipTarget, CheckTarget, ExecuteTarget
    <2> QED
      BY <1>8, <2>1, <2>2, <2>3, <2>4, <2>5, <2>6 DEF ServiceStep
  <1> QED
    BY <1>6, <1>7, <1>8, LifecycleOwners

\* HoldEmpties is preserved: PrepareCommands comes before the points that a hold
\* takes note of, and every later step only empties.
LEMMA HoldEmptiesStep ==
    ASSUME IInv, [Next]_vars
    PROVE  HoldEmpties'
  <1> USE Parts DEF IInv
  <1>1. CASE UNCHANGED writer
    BY <1>1 DEF writer, HoldEmpties
  <1>2. CASE Hold
    BY <1>2 DEF Hold, HoldCommands, AllJoints, HoldEmpties
  <1>3. CASE HoldRecovered
    BY <1>3 DEF HoldRecovered, HoldCommands, AllJoints, HoldEmpties
  <1>4. CASE CheckMode \/ ReadLatch \/ ConsumeLatch \/ PrepareCommands
    BY <1>4 DEF CheckMode, ReadLatch, ConsumeLatch, PrepareCommands, HoldEmpties
  <1>5. CASE SnapshotFeedback \/ BeginCall
    BY <1>5 DEF SnapshotFeedback, BeginCall, HoldEmpties
  <1>6. CASE NextJoint /\ UNCHANGED heldSince
    BY <1>6, NextJointType DEF NextJoint, WriterTypes, HoldEmpties
  <1>7. CASE EndCycle
    BY <1>7 DEF EndCycle, HoldEmpties
  <1>8. CASE JudgeCycle
    BY <1>7, <1>8 DEF JudgeCycle, HoldEmpties
  <1>9. CASE KeepLatch \/ ReportCycle
    BY <1>7, <1>9 DEF KeepLatch, ReportCycle
  <1>10. CASE SkipUnready \/ RearmRecovered \/ SkipInvalid \/ StopOnFault \/ BlockDisabled \/ EndCall
    BY <1>6, <1>10 DEF SkipUnready, RearmRecovered, SkipInvalid, StopOnFault, BlockDisabled, EndCall
  <1> QED
    BY <1>1, <1>2, <1>3, <1>4, <1>5, <1>8, <1>9, <1>10, WriterOwners DEF WriterStep

\* A protocol call is begun only by BeginCall, and not after a hold.
LEMMA CallBegins ==
    ASSUME IInv, [Next]_vars, wpc' = "call"
    PROVE  \/ BeginCall /\ ~heldSince'
           \/ UNCHANGED <<wpc, wj>> /\ (UNCHANGED heldSince \/ Hold)
  <1> USE Parts DEF IInv
  <1>1. CASE UNCHANGED writer
    BY <1>1 DEF writer
  <1>2. CASE Hold
    BY <1>2 DEF Hold
  <1>3. CASE BeginCall
    BY <1>3 DEF BeginCall, HoldEmpties, WriterTypes
  <1>4. CASE WriterStep /\ ~BeginCall
    <2>1. ~NextJoint /\ ~EndCycle
      BY NextJointType DEF EndCycle
    <2> QED
      BY <1>4, <2>1 DEF WriterStep, CheckMode, ReadLatch, ConsumeLatch, KeepLatch, PrepareCommands,
           SkipUnready, HoldRecovered, RearmRecovered, SnapshotFeedback, SkipInvalid, StopOnFault,
           BlockDisabled, EndCall, JudgeCycle, ReportCycle
  <1> QED
    BY <1>1, <1>2, <1>3, <1>4, WriterOwners

\* BatchWaitsForCall is preserved: the joint whose device is locked is not called.
LEMMA BatchWaitsStep ==
    ASSUME IInv, [Next]_vars
    PROVE  BatchWaitsForCall'
  <1> USE Parts DEF IInv
  <1>1. SUFFICES ASSUME busy' \in {"Halt", "Disable"} PROVE BatchWaitsForCall'
    BY DEF BatchWaitsForCall
  <1>2. wpc' = "call" /\ heldSince' =>
            UNCHANGED <<wpc, wj>> /\ wj \in Joints /\ (UNCHANGED heldSince \/ Hold)
    BY CallBegins DEF WriterTypes
  <1>3. CASE done' = {}
    BY <1>3 DEF BatchWaitsForCall
  <1>4. CASE UNCHANGED <<busy, at, done>> /\ ~Hold
    BY <1>2, <1>4 DEF BatchWaitsForCall
  <1>5. CASE NextStep /\ ~Hold
    <2>1. UNCHANGED <<busy, done>> /\ at \in 1..6 /\ at' = at + 1
      BY <1>5 DEF NextStep, LifecycleTypes
    <2> QED
      BY <1>2, <1>5, <2>1 DEF BatchWaitsForCall
  <1>6. CASE Hold
    <2>1. UNCHANGED <<busy, done>> /\ Doing("hold")
      BY <1>6 DEF Hold, NextStep
    <2>2. at = 1
      BY <1>1, <2>1, HoldAtOne
    <2> QED
      BY <1>1, <1>3, <2>1, <2>2 DEF BatchWaitsForCall
  <1>7. CASE ExecuteTarget
    <2>1. UNCHANGED <<busy, at, heldSince, wpc, wj>> /\ Executing
      BY <1>7 DEF ExecuteTarget, writer
    <2>2. done' \subseteq done \cup {next} /\ (wpc = "call" => next # wj)
      BY <1>7 DEF ExecuteTarget, DeviceLocked
    <2>3. at # 1
      BY <1>1, <2>1, BatchAfterHold DEF Executing, RollbackDone
    <2> QED
      BY <1>1, <2>1, <2>2, <2>3 DEF BatchWaitsForCall
  <1>8. CASE SkipTarget \/ CheckTarget
    <2>1. UNCHANGED <<busy, at, done>>
      BY <1>8 DEF SkipTarget, CheckTarget
    <2> QED
      BY <1>4, <1>6, <2>1
  <1>9. CASE (\E d \in Devices : PrepareDevice(d)) \/ EndPrepare
    BY <1>1, <1>9, PrepareIsRecover DEF PrepareDevice, EndPrepare
  <1>10. CASE (UNCHANGED lifecycle \/ DowngradeMode) /\ ~Hold
    BY <1>4, <1>10 DEF lifecycle, DowngradeMode
  <1>11. CASE \E r \in Requests : Begin(r)
    BY <1>3, <1>11 DEF Begin, NoBatch
  <1>12. CASE Finish \/ EndUndo \/ \E d \in Devices : PrepareFails(d)
    BY <1>3, <1>12 DEF Finish, EndUndo, PrepareFails, GiveUp, NoBatch
  <1>13. CASE (CheckHealthy \/ Arm \/ Confirm) /\ ~Hold
    BY <1>3, <1>5, <1>13 DEF CheckHealthy, Arm, Confirm, GiveUp, NoBatch
  <1>14. CASE (EndBatch \/ ConfirmTimeout) /\ ~Hold
    BY <1>3, <1>4, <1>5, <1>14 DEF EndBatch, ConfirmTimeout, StartUndo, GiveUp, NoBatch
  <1> QED
    BY <1>6, <1>7, <1>8, <1>9, <1>10, <1>11, <1>12, <1>13, <1>14, LifecycleOwners DEF ServiceStep

\* Only StopOnFault raises a flag.
LEMMA FlagRaised ==
    ASSUME TypeOK, [Next]_vars, NEW j \in Joints, stopIssued'[j], ~stopIssued[j]
    PROVE  StopOnFault /\ j = wj
  <1> USE Parts
  <1>1. StopOnFault
    <2>1. ~UNCHANGED stopIssued
      OBVIOUS
    <2>2. ~SkipUnready
      BY DEF SkipUnready, CommandTypes, WriterTypes
    <2>3. ~BlockDisabled /\ ~BeginCall
      BY DEF BlockDisabled, BeginCall, ClearStopIssued, CommandTypes, WriterTypes
    <2>4. ~\E d \in Devices : PrepareDevice(d) \/ PrepareFails(d)
      BY DEF PrepareDevice, PrepareFails, SyncCommands, CommandTypes
    <2> QED
      BY <2>1, <2>2, <2>3, <2>4, CommandOwners
      DEF JudgePublish, ReportPublish, Hold, Arm, RearmRecovered, ConsumeLatch, HoldRecovered,
          SnapshotFeedback, NewCommand
  <1> QED
    BY <1>1 DEF StopOnFault, CommandTypes, WriterTypes

\* FlagDownInCall is preserved.
LEMMA FlagDownStep ==
    ASSUME IInv, [Next]_vars
    PROVE  FlagDownInCall'
  <1> USE Parts DEF IInv
  <1>1. SUFFICES ASSUME wpc' = "call" PROVE ~stopIssued'[wj']
    BY DEF FlagDownInCall
  <1>2. CASE BeginCall
    BY <1>2 DEF BeginCall, ClearStopIssued, CommandTypes, WriterTypes
  <1>3. CASE UNCHANGED <<wpc, wj>>
    <2>1. wj \in Joints /\ ~stopIssued[wj] /\ ~StopOnFault
      BY <1>1, <1>3 DEF FlagDownInCall, StopOnFault, WriterTypes
    <2> QED
      BY <1>3, <2>1, FlagRaised
  <1> QED
    BY <1>1, <1>2, <1>3, CallBegins

\* Only the end of a protocol call sets a joint moving.
LEMMA MovingByCall ==
    ASSUME TypeOK, LockingFits, [Next]_vars, NEW j \in Joints, StartsMoving(j)
    PROVE  EndCall /\ j = wj
  <1> USE Parts DEF StartsMoving
  <1>1. EndCall
    <2>1. ~UNCHANGED moving
      OBVIOUS
    <2>2. ~StopOnFault
      BY DEF StopOnFault, DriveTypes, WriterTypes
    <2>3. ~ExecuteTarget
      <3>1. SUFFICES ASSUME ExecuteTarget PROVE FALSE
        OBVIOUS
      <3> QED
        BY <3>1, TargetIsJoint DEF ExecuteTarget, Apply, DriveTypes, drives
    <2>4. ~\E i \in Joints : FaultOccurs(i)
      BY DEF FaultOccurs, DriveTypes
    <2> QED
      BY <2>1, <2>2, <2>3, <2>4, DriveOwners DEF PrepareDevice, PrepareFails, LinkChanges, drives
  <1> QED
    BY <1>1 DEF EndCall, DriveTypes, WriterTypes

\* StoppedIfAccepted is preserved.
LEMMA StoppedStep ==
    ASSUME IInv, [Next]_vars
    PROVE  StoppedIfAccepted'
  <1> USE Parts DEF IInv
  <1>1. SUFFICES ASSUME ~MayReject, NEW j \in Joints, stopIssued'[j], moving'[j]
                 PROVE  FALSE
    BY DEF StoppedIfAccepted, StopFlagMeansStopped
  <1>2. CASE StopOnFault /\ j = wj
    BY <1>1, <1>2 DEF StopOnFault, StoppedIfAccepted, StopFlagMeansStopped, DriveTypes,
         CommandTypes, WriterTypes
  <1>3. CASE EndCall /\ j = wj
    BY <1>1, <1>3 DEF EndCall, FlagDownInCall
  <1>4. ~(stopIssued[j] /\ moving[j])
    BY <1>1 DEF StoppedIfAccepted, StopFlagMeansStopped
  <1> QED
    BY <1>1, <1>2, <1>3, <1>4, FlagRaised, MovingByCall DEF StartsMoving

-----------------------------------------------------------------------------
\* The invariant holds initially.
LEMMA InitIInv == Init => IInv
  <1> SUFFICES ASSUME Init PROVE IInv
    OBVIOUS
  <1>1. at \in 1..6 /\ next \in 1..(NumJoints + 1) /\ wj \in Joints
    BY JointsFacts DEF Init, Joints
  <1>2. LifecycleTypes /\ CommandTypes
    BY <1>1 DEF Init, LifecycleTypes, CommandTypes, AllJoints, Commands
  <1>3. WriterTypes /\ DriveTypes
    BY <1>1 DEF Init, WriterTypes, DriveTypes, AllJoints, Commands
  <1>4. RollbackDone /\ HoldEmpties /\ BatchWaitsForCall /\ FlagDownInCall /\ LockingFits
        /\ BatchCovers
    BY DEF Init, RollbackDone, HoldEmpties, BatchWaitsForCall, FlagDownInCall, LockingFits,
           BatchCovers
  <1>5. StoppedIfAccepted
    BY DEF Init, StoppedIfAccepted, StopFlagMeansStopped, AllJoints
  <1> QED
    BY <1>2, <1>3, <1>4, <1>5, Parts DEF IInv

\* Every step preserves the invariant.
LEMMA NextIInv == IInv /\ [Next]_vars => IInv'
  <1> SUFFICES ASSUME IInv, [Next]_vars PROVE IInv'
    OBVIOUS
  <1>1. TypeOK'
    BY TypeStep DEF IInv
  <1> QED
    BY <1>1, LockingStep, BatchCoversStep, RollbackStep, HoldEmptiesStep, BatchWaitsStep,
       FlagDownStep, StoppedStep DEF IInv

\* What can end an Enable without success.
LEMMA EnableEnds ==
    ASSUME IInv, [Next]_vars, busy = "Enable", busy' = "none", mode' = "Standby", at > 1
    PROVE  \A j \in Joints : enabled[j] => j \in failures
  <1> USE Parts DEF IInv
  <1>1. CASE EndUndo
    BY <1>1, BeforeEnd DEF EndUndo, RollbackDone
  <1>2. CASE EndBatch
    <2>1. Doing("batch") /\ next > NumJoints /\ ~undoing
      BY <1>2 DEF EndBatch, Doing
    <2>2. at = 2
      BY <2>1, BatchAtTwo
    <2>3. \A j \in Joints : j \in done \cup failures
      BY <2>1, <2>2, BeforeEnd DEF BatchCovers
    <2>4. done = {}
      BY <1>2 DEF EndBatch, NextStep, StartUndo
    <2> QED
      BY <2>3, <2>4
  <1>3. ~CheckHealthy
    <2>1. at \in 1..6
      BY DEF LifecycleTypes
    <2> QED
      BY <2>1 DEF CheckHealthy, Doing, Program
  <1>4. ~Finish
    BY DEF Finish, M!Finish, M!Target
  <1>5. ~(UNCHANGED lifecycle) /\ ~DowngradeMode /\ ~\E r \in Requests : Begin(r)
    BY DEF lifecycle, DowngradeMode, Begin, M!Begin
  <1>6. ~\E d \in Devices : PrepareDevice(d) \/ PrepareFails(d)
    BY PrepareIsRecover DEF PrepareDevice, PrepareFails
  <1> QED
    BY <1>1, <1>2, <1>3, <1>4, <1>5, <1>6, LifecycleOwners
    DEF ServiceStep, Hold, Arm, EndPrepare, SkipTarget, CheckTarget, ExecuteTarget, Confirm,
        ConfirmTimeout, NextStep, StartUndo

-----------------------------------------------------------------------------
\* The inductive invariant holds in every reachable state.
THEOREM Invariant == Spec => []IInv
  <1> QED
    BY InitIInv, NextIInv, PTL DEF Spec

\* Every variable keeps its type, whatever the joints, their devices and the
\* faults they are exposed to.
THEOREM TypeCorrect == Spec => []TypeOK
  <1>1. IInv => TypeOK
    BY DEF IInv
  <1> QED
    BY <1>1, Invariant, PTL

\* The flag that suppresses a second Stop is up only on a joint that stands, if
\* drives accept their Stop (dispatchPreparedCommand, clearGroupCommands,
\* syncStartupPositionAndCommands).
THEOREM StopIsNeverSilenced ==
    ASSUME ~MayReject
    PROVE  Spec => []StopFlagMeansStopped
  <1>1. IInv => StopFlagMeansStopped
    BY DEF IInv, StoppedIfAccepted
  <1> QED
    BY <1>1, Invariant, PTL

\* After a hold only the protocol call that was being made may set a joint moving,
\* and a Halt or a Disable has not done that joint: its Stop or Disable comes later, or
\* has failed (HoldCommands, write, MotorActionExecutor::execute).
THEOREM HeldCommandsAreNotReplayed == Spec => NoReplayAfterHold
  <1>1. IInv /\ [Next]_vars =>
            [\A j \in Joints :
                StartsMoving(j) /\ heldSince =>
                   /\ prepared[j] = "none"
                   /\ busy \in {"Halt", "Disable"} => j \notin done]_vars
    <2> SUFFICES ASSUME IInv, [Next]_vars, NEW j \in Joints, StartsMoving(j), heldSince
                 PROVE  /\ prepared[j] = "none"
                        /\ busy \in {"Halt", "Disable"} => j \notin done
      OBVIOUS
    <2>1. wpc = "call" /\ j = wj
      BY MovingByCall DEF EndCall, IInv
    <2>2. prepared[j] = "none"
      BY DEF IInv, HoldEmpties
    <2>3. busy \in {"Halt", "Disable"} => j \notin done
      BY <2>1 DEF IInv, BatchWaitsForCall
    <2> QED
      BY <2>2, <2>3
  <1> QED
    BY <1>1, Invariant, PTL DEF Spec, NoReplayAfterHold

\* An Enable that fails leaves no drive enabled, but one that a failed call of its own
\* may have reached or failed to reach: every joint is either done, and then the rollback
\* disables it, or has failed (enableAll, executeBatch).
THEOREM EnableIsUndone == Spec => FailedEnableUndone
  <1>1. IInv /\ [Next]_vars =>
            [busy = "Enable" /\ busy' = "none" /\ mode' = "Standby" /\ at > 1 =>
                \A j \in Joints : enabled[j] => j \in failures]_vars
    BY EnableEnds
  <1> QED
    BY <1>1, Invariant, PTL DEF Spec, FailedEnableUndone
=============================================================================
