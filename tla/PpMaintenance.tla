--------------------------- MODULE PpMaintenance ---------------------------
(***************************************************************************)
(* MotorMaintenanceService on one PP axis: the services that switch its     *)
(* mode, set its zero and apply its limits, beside the threads that enable, *)
(* disable and move it.                                                     *)
(*                                                                         *)
(* A service reads SharedDriverState and the drive's offset without the     *)
(* command mutex of the device, takes it for its writes, and holds it while *)
(* it waits for their acknowledgements.  set_zero_limit is a set_zero and   *)
(* an apply_limits in a row.  One maintenance request runs at a time.       *)
(* Requests with apply_to_motor are modelled, and set_zero without it; the  *)
(* file of local offsets (off by default) is not.                           *)
(***************************************************************************)
EXTENDS PpDrive

CONSTANTS
    Zeros,       \* offsets that a set_zero may ask for, whether they fit or not
    Switches,    \* modes that a mode switch may ask for
    Persist,     \* persistZeroOffsetOnApplyToMotor_
    MaxSaves,    \* kPersistWriteAckRetries (3 in the code)
    MaxCalls     \* bound: requests and commands

ASSUME RequestsAssumption == Zeros \subseteq Int /\ Switches \subseteq Modes
ASSUME CallsAssumption == MaxCalls \in Nat
ASSUME SavesAssumption == Persist \in BOOLEAN /\ MaxSaves \in Nat \ {0}

VARIABLES
    job,      \* the request being served
    calls,    \* requests and commands so far
    joint,    \* the joint: its mode and its local zero offset
    excused,  \* history: when the axis was last found disabled an Enable was on
              \* its way, or one was called since
    claim     \* history: what the last set_zero told its caller of the offset

vars == <<driveVars, job, calls, joint, excused, claim>>

\* value: the mode or the offset to set, before that the position an automatic
\* zero starts from; prev: the offset to go back to; sure: it was read from the
\* drive; undo: the request goes back to it; saves: attempts to save; stray: an
\* answer to an earlier exchange may be mistaken for one to this.
Idle == [op |-> "none", pc |-> "idle", value |-> 0, prev |-> 0, auto |-> FALSE,
         sure |-> FALSE, undo |-> FALSE, saves |-> 0, stray |-> FALSE]
NoClaim == [kind |-> "none", offset |-> 0]

TypeOK ==
    /\ DriveTypeOK
    /\ job \in [op : {"none", "mode", "zero", "limits"},
                pc : {"idle", "offset", "check", "act", "confirm", "preload", "ack", "serial", "save"},
                value : Int, prev : Raw, auto : BOOLEAN,
                sure : BOOLEAN, undo : BOOLEAN, saves : 0 .. MaxSaves, stray : BOOLEAN]
    /\ calls \in 0 .. MaxCalls
    /\ joint \in [mode : Modes, offset : Int]
    /\ excused \in BOOLEAN
    /\ claim \in [kind : {"none", "written", "zeroed", "undone"}, offset : Int]

Init ==
    /\ DriveInit
    /\ job = Idle
    /\ calls = 0
    /\ joint = [mode |-> Position, offset |-> 0]
    /\ excused = TRUE
    /\ claim = NoClaim

-----------------------------------------------------------------------------
(* Requests *)

Call == calls < MaxCalls /\ calls' = calls + 1

Return(c) ==
    /\ job' = Idle
    /\ claim' = c
    /\ EndWait

\* A request fails before it has written anything.
Fail == Return(claim) /\ UNCHANGED <<drive, bus, known, shared, unseen, calls, joint, excused>>

\* SetModeByMotorId
BeginSetMode(m) ==
    /\ Call /\ job = Idle
    /\ job' = [Idle EXCEPT !.op = "mode", !.pc = "check", !.value = m]
    /\ UNCHANGED <<driveVars, joint, excused, claim>>

\* resolveCurrentZeroOffset: the offset is asked for, whoever holds the device.
AskOffset(j) ==
    /\ Call /\ job = Idle /\ joint.mode = Position
    /\ job' = [j EXCEPT !.pc = "offset", !.stray = Leftover("read", "Offset")]
    /\ ReadAndWait("Offset")
    /\ UNCHANGED <<drive, write, hand, answers, known, shared, unseen, joint, excused>>

BeginSetZero(z) ==
    /\ AskOffset([Idle EXCEPT !.op = "zero", !.value = z])
    /\ claim' = NoClaim

\* The frame is queued, or in the worker's hand.
Pending(f) == write = <<f>> \/ hand = <<f>>

\* An offset from an earlier request is still on its way.
OffsetPending == \E o \in Raw : Pending(<<"Offset", o>>)

\* use_current_position_as_zero, from the position of the joint.  It is of use
\* when it was measured with the offset that the drive has, and keeps (sure).
BeginAutoZero ==
    /\ \E p \in shared.position :
           AskOffset([Idle EXCEPT !.op = "zero", !.auto = TRUE, !.value = p + joint.offset,
                                  !.sure = (p = Physical + drive.offset) /\ ~OffsetPending])
    /\ claim' = NoClaim

\* ApplyLimitsByMotorId
BeginApplyLimits ==
    /\ AskOffset([Idle EXCEPT !.op = "limits"])
    /\ UNCHANGED claim

\* set_zero without apply_to_motor changes the joint only.
SetLocalZero(z) ==
    /\ Call /\ job = Idle /\ joint.mode = Position
    /\ joint' = [joint EXCEPT !.offset = z]
    /\ claim' = NoClaim
    /\ UNCHANGED <<driveVars, job, excused>>

\* Seeded fault: values that do not fit are not clamped.
ClampNot(v) == v

\* scaleAndClampToInt32
Clamp(v) == IF v > MaxRaw THEN MaxRaw ELSE IF v < -MaxRaw THEN -MaxRaw ELSE v

\* The offset before, and the one to be set, which the caller is told: an
\* automatic zero takes back the position that is left when the old offset is
\* taken out of it.
Resolve(prev, sure) ==
    /\ job' = [job EXCEPT !.pc = "check", !.prev = Clamp(prev),
                          !.value = IF job.auto THEN prev - @ ELSE @,
                          !.sure = sure /\ (job.auto => @)]
    /\ EndWait
    /\ UNCHANGED <<drive, bus, known, shared, unseen, calls, joint, excused, claim>>

OffsetRead == job.pc = "offset" /\ \E v \in reply : Resolve(v, TRUE)

\* The read was not issued or its time is up: the local offset stands in for it.
OffsetNotRead == job.pc = "offset" /\ reply = {} /\ Resolve(joint.offset, FALSE)

\* requireAxisDisabledForConfiguration
CheckDisabled ==
    /\ job.pc = "check" /\ shared.enabled = {0}
    /\ job' = [job EXCEPT !.pc = "act"]
    /\ excused' = (unseen \/ Pending(<<"Enable", 1>>))
    /\ UNCHANGED <<driveVars, calls, joint, claim>>

\* The axis is not published as disabled, or its feedback is too old; there are no
\* such limits, or the axis stands outside them.
CheckFails == job.pc = "check" /\ Fail

\* The executor finds the device not ready or gone, or the joint is not found, or
\* the offset is not a number.
Unavailable == job.pc \in {"act", "preload"} /\ Fail

-----------------------------------------------------------------------------
(* Switching the mode *)

\* setMode replaces the mode that was read by the one that is asked for.
SetMode ==
    /\ job.pc = "act" /\ job.op = "mode"
    /\ known' = [known EXCEPT !.mode = IF @ = {} THEN {} ELSE {job.value}]
    /\ Submit("Mode", job.value)
    /\ job' = [job EXCEPT !.pc = "confirm"]
    /\ UNCHANGED <<drive, hand, reads, answers, shared, awaited, reply, unseen, calls, joint,
                   excused, claim>>

\* waitForPpModeConfirmation: ask, look, and try again ...
Confirm ==
    /\ job.pc = "confirm"
    /\ Request("Mode")
    /\ \E pc \in {"confirm"} \cup (IF shared.mode = {job.value} THEN {"preload"} ELSE {}) :
           job' = [job EXCEPT !.pc = pc]
    /\ UNCHANGED <<drive, write, hand, answers, known, shared, awaited, reply, unseen, calls,
                   joint, excused, claim>>

\* ... until the time is up.
ConfirmTimeout == job.pc = "confirm" /\ Fail

\* The set point of the new mode is where the axis stands; commitModeSwitch.
Preload ==
    /\ job.pc = "preload"
    /\ job.value = Velocity \/ shared.position # {}
    /\ Submit("Motion", 0)
    /\ joint' = [joint EXCEPT !.mode = job.value]
    /\ Return(claim)
    /\ UNCHANGED <<drive, hand, reads, answers, known, shared, unseen, calls, excused>>

-----------------------------------------------------------------------------
(* Writing the limits and the offset *)

\* configurePositionLimits, three writes in a row, and commitLimits.
ApplyLimits ==
    /\ job.pc = "act" /\ job.op = "limits"
    /\ Submit("Motion", 0)
    /\ joint' = [joint EXCEPT !.offset = 0]
    /\ Return(claim)
    /\ UNCHANGED <<drive, hand, reads, answers, known, shared, unseen, calls, excused>>

\* setPositionOffset; the command mutex is held from here on.
WriteOffset(j, v) ==
    /\ WriteAndWait("Offset", v)
    /\ job' = [j EXCEPT !.pc = "ack", !.saves = 0, !.stray = @ \/ Leftover("ack", "Offset")]
    /\ UNCHANGED <<drive, hand, reads, answers, known, shared, unseen, calls, joint, excused, claim>>

\* What is written is made to fit, without a word to the caller.
SetOffset == job.pc = "act" /\ job.op = "zero" /\ WriteOffset(job, Clamp(job.value))

\* Seeded fault: the joint keeps the offset that is in the drive as well.
CommitZeroTwice(offset) == joint' = [joint EXCEPT !.offset = offset]

\* commitZero: an offset in the drive replaces the local one.
CommitZero(offset) == joint' = [joint EXCEPT !.offset = 0]

\* The offset is written, and saved if it should be.
Written ==
    /\ IF job.undo
       THEN /\ Return(IF job.sure /\ ~job.stray
                      THEN [kind |-> "undone", offset |-> job.prev] ELSE NoClaim)
            /\ UNCHANGED joint
       ELSE /\ Return(IF job.stray THEN NoClaim
                      ELSE [kind |-> IF job.auto /\ job.sure /\ joint.offset = 0
                                     THEN "zeroed" ELSE "written",
                            offset |-> job.value])
            /\ CommitZero(job.value)
    /\ UNCHANGED <<drive, bus, known, shared, unseen, calls, excused>>

\* One of the writes failed: the old offset is written, once.  Of the new one, and
\* how it was found, nothing is needed any more.
GoBack ==
    IF job.undo
    THEN Return(NoClaim) /\ UNCHANGED <<drive, bus, known, shared, unseen, calls, joint, excused>>
    ELSE WriteOffset([job EXCEPT !.undo = TRUE, !.value = job.prev, !.auto = FALSE,
                                 !.sure = @ /\ ~job.auto], job.prev)

\* persistParameters begins with the serial number of the drive.
AskSerial ==
    /\ job' = [job EXCEPT !.pc = "serial"]
    /\ ReadAndWait("Serial")
    /\ UNCHANGED <<drive, write, hand, answers, known, shared, unseen, calls, joint, excused, claim>>

OffsetAcknowledged ==
    /\ job.pc = "ack" /\ reply = {1}
    /\ IF Persist THEN AskSerial ELSE Written

\* A write that is refused, or not acknowledged in time.
OffsetRefused == job.pc = "ack" /\ reply # {1} /\ GoBack

Save ==
    /\ WriteAndWait("Save", 0)
    /\ job' = [job EXCEPT !.pc = "save", !.saves = @ + 1,
                          !.stray = @ \/ (job.saves = 0 /\ Leftover("ack", "Save"))]
    /\ UNCHANGED <<drive, hand, reads, answers, known, shared, unseen, calls, joint, excused, claim>>

SerialRead == job.pc = "serial" /\ reply # {} /\ Save

SerialNotRead == job.pc = "serial" /\ reply = {} /\ GoBack

Saved == job.pc = "save" /\ reply = {1} /\ Written

SaveAgain == job.pc = "save" /\ reply # {1} /\ job.saves < MaxSaves /\ Save

SaveFails == job.pc = "save" /\ reply # {1} /\ job.saves = MaxSaves /\ GoBack

-----------------------------------------------------------------------------
\* The command mutex of the device is held by the request.
Locked == job.pc \in {"ack", "serial", "save"}

EnableAxis ==
    /\ Call /\ ~Locked /\ Enable
    /\ excused' = TRUE
    /\ UNCHANGED <<job, joint, claim>>

OtherCommand ==
    /\ Call /\ ~Locked /\ (Disable \/ Move)
    /\ UNCHANGED <<job, joint, excused, claim>>

MaintenanceStep ==
    \/ OffsetRead \/ OffsetNotRead \/ CheckDisabled \/ CheckFails
    \/ Unavailable
    \/ SetMode \/ Confirm \/ ConfirmTimeout \/ Preload
    \/ ApplyLimits \/ SetOffset \/ OffsetAcknowledged \/ OffsetRefused
    \/ SerialRead \/ SerialNotRead \/ Saved \/ SaveAgain \/ SaveFails

DriveStep ==
    /\ RuntimeStep \/ ReceiverStep \/ LoseAnswer \/ \E q \in Refreshed : Refresh(q)
    /\ UNCHANGED <<job, calls, joint, excused, claim>>

Next ==
    \/ DriveStep \/ MaintenanceStep \/ EnableAxis \/ OtherCommand
    \/ \E m \in Switches : BeginSetMode(m)
    \/ \E z \in Zeros : BeginSetZero(z) \/ SetLocalZero(z)
    \/ BeginAutoZero \/ BeginApplyLimits

Spec == Init /\ [][Next]_vars

\* The worker and the receive thread run on, the refresh worker comes to the enabled
\* state again, and a bus on which it keeps being read does not lose all of it.
FairSpec ==
    /\ Spec
    /\ WF_vars(RuntimeStep /\ UNCHANGED <<job, calls, joint, excused, claim>>)
    /\ WF_vars((ReceiverStep \/ LoseAnswer) /\ UNCHANGED <<job, calls, joint, excused, claim>>)
    /\ SF_vars(Refresh("Enable") /\ UNCHANGED <<job, calls, joint, excused, claim>>)
    /\ SF_vars(SendRead("Enable") /\ UNCHANGED <<job, calls, joint, excused, claim>>)
    /\ SF_vars(HandleRead("Enable") /\ UNCHANGED <<job, calls, joint, excused, claim>>)

-----------------------------------------------------------------------------
(* Properties *)

\* The mode and the offset of an enabled drive are never changed, unless it was
\* enabled after the check, or just before and had not yet told so: the check
\* reads what was published, and the write is sent later, under another lock,
\* from a queue in which writes replace each other
\* (requireAxisDisabledForConfiguration, handleSetModeRequest,
\* SetZeroByMotorId, Disable).
ConfiguredDisabled ==
    [][drive.enabled = 1 /\ (drive'.mode # drive.mode \/ drive'.offset # drive.offset)
          => excused]_vars

\* What a set_zero tells its caller is true of the drive and its flash memory,
\* over lost writes, lost answers, refusals and repeated saves: the new offset
\* after a success, as far as it fits the register (the caller is told the value
\* before it is clamped), the old one after a roll-back if it could be read
\* before, and after an automatic zero a position of zero.  The drive's answer
\* "corrected" counts as a success, so that the drive may have another offset then;
\* what is in the flash memory is what it has all the same.  Three things are
\* outside its reach: an answer to an earlier exchange that timed out (stray), a
\* position measured under an older offset and a local offset that was not zero
\* (SetZeroByMotorId, writePositionOffset, commitZero, persistParameters).
ZeroAsTold ==
    claim.kind # "none" =>
        /\ Persist => drive.saved = drive.offset
        /\ ~drive.corrected =>
              /\ drive.offset = Clamp(claim.offset)
              /\ claim.kind = "zeroed" => Physical + drive.offset + joint.offset = 0

\* Once Enable and Disable are not called any more, the published state of the
\* axis becomes and stays that of the drive, although each of them made it
\* unknown and writes, reads and answers are lost (Enable, Disable,
\* handleResponse, onReadDispatchResult).
EnableStateCatchesUp ==
    <>[][~Enable /\ ~Disable]_vars => <>[](shared.enabled = {drive.enabled})
=============================================================================
