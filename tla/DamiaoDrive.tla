---------------------------- MODULE DamiaoDrive ----------------------------
(***************************************************************************)
(* One Damiao (DM) axis: DamiaoCan between its callers, the refresh worker  *)
(* that keeps the drive alive, the device's transmit queues and the drive.  *)
(*                                                                         *)
(* The operations of the protocol are called under the device's command     *)
(* mutex, so one operation runs at a time; the keepalive of the refresh     *)
(* worker and the receive thread run beside it, and the three meet in       *)
(* motorStates_, in the axis intent of SharedDriverState and in the queues. *)
(* Every locked access is a step of its own.                                *)
(*                                                                         *)
(* Every frame to the drive but a register write has the same CAN id, so    *)
(* DeviceRuntime keeps only the newest control frame.  A keepalive is a     *)
(* speed frame in the Query queue.  The drive is external: it obeys the     *)
(* frames and acknowledges a register write.  It keeps its mode register    *)
(* while the driver runs.  The state it reports with every other answer, and *)
(* whether Enable and Disable return true, decide nothing here: left out.   *)
(***************************************************************************)
EXTENDS Naturals, Sequences

CONSTANTS
    Velocities,    \* raw velocities, zero among them
    MaxDepth,      \* bound: frames in the Recover, Config and Query queues
    MaxAnswers     \* bound: acknowledgements not yet read

ASSUME VelocitiesAssumption == Velocities \subseteq Nat /\ 0 \in Velocities
ASSUME BoundsAssumption == MaxDepth \in Nat \ {0} /\ MaxAnswers \in Nat \ {0}

VARIABLES
    call,        \* the operation being executed, "none" between two
    todo,        \* the steps it has yet to take
    target,      \* its velocity argument
    commanded,   \* MotorState::commandedVelocity
    configured,  \* MotorState::velocityModeConfigured
    ack,         \* the entry of pendingRegisterAcks_
    intent,      \* the axis intent in SharedDriverState
    keeper,      \* where the refresh worker stands with this axis
    held,        \* the velocity the keepalive has read
    queue,       \* the queues of the device's DeviceRuntime
    hand,        \* the frame its worker has popped and not sent yet, or <<>>
    drive,       \* the drive: powered, faulted, in velocity mode, its speed
    answers,     \* acknowledgements on their way to the receive thread
    power,       \* history: the last power command put into the queue
    late         \* history: Disable was queued while an Enable was in the hand

caller == <<call, todo, target>>
state == <<commanded, configured, ack, intent>>
worker == <<keeper, held>>
history == <<power, late>>
vars == <<caller, state, worker, queue, hand, drive, answers, history>>

Calls == {"setMode", "setVelocity", "Enable", "Disable", "Stop", "ResetFault"}
\* Enable, Disable and ResetFault ask for keepalives just like Hold, and nobody
\* tells their intents apart.
Intents == {"None", "Hold", "Run", "Other"}
Categories == {"Control", "Recover", "Config", "Query"}
Steps == {"write", "ack", "store", "intend", "neutral", "send", "await"}

Frame == [kind : {"speed", "enable", "disable", "clear", "register"}, speed : Velocities]
Speed(v) == [kind |-> "speed", speed |-> v]
Command(k) == [kind |-> k, speed |-> 0]

TypeOK ==
    /\ call \in Calls \cup {"none"}
    /\ todo \in Seq(Steps)
    /\ target \in Velocities
    /\ commanded \in Velocities
    /\ configured \in BOOLEAN
    /\ ack \in {"none", "waiting", "received"}
    /\ intent \in Intents
    /\ keeper \in {"idle", "due", "holds"}
    /\ held \in Velocities
    /\ queue \in [Categories -> Seq(Frame)]
    /\ \A c \in Categories : Len(queue[c]) <= MaxDepth
    /\ hand \in {<<>>} \cup {<<f>> : f \in Frame}
    /\ drive \in [on : BOOLEAN, fault : BOOLEAN, mode : BOOLEAN, speed : Velocities]
    /\ answers \in 0..MaxAnswers
    /\ power \in {"Enable", "Disable"}
    /\ late \in BOOLEAN

\* The drive stands, not yet switched to velocity mode.
Init ==
    /\ call = "none" /\ todo = <<>> /\ target = 0
    /\ commanded = 0 /\ configured = FALSE
    /\ ack = "none" /\ intent = "None"
    /\ keeper = "idle" /\ held = 0
    /\ queue = [c \in Categories |-> <<>>]
    /\ hand = <<>>
    /\ drive = [on |-> FALSE, fault |-> FALSE, mode |-> FALSE, speed |-> 0]
    /\ answers = 0
    /\ power = "Disable"
    /\ late = FALSE

-----------------------------------------------------------------------------
(* submit() of the device's runtime *)

\* Seeded fault: the frame that is queued stays and the new one is given up.
EnqueueControlOldest(q, f) == IF q = <<>> THEN <<f>> ELSE q

\* enqueueControlLocked: the control frames of the axis share one id, so the
\* newest takes the place of the one that waits.
EnqueueControl(q, f) == <<f>>

\* Seeded fault: a queue without a limit.
EnqueueUnbounded(q, f) == Append(q, f)

\* A frame of another category is dropped when its queue is full; the protocol
\* is not told (submitTx ignores what submit() returns).
Enqueue(q, f) == IF Len(q) < MaxDepth THEN Append(q, f) ELSE q

Submit(c, f) ==
    queue' = [queue EXCEPT ![c] = IF c = "Control" THEN EnqueueControl(@, f) ELSE Enqueue(@, f)]

-----------------------------------------------------------------------------
(* The operations *)

\* The steps of each operation once the velocity mode is configured.
Program ==
    [setMode     |-> <<>>,
     setVelocity |-> <<"store", "intend", "send">>,
     Enable      |-> <<"intend", "send", "neutral", "await">>,
     Disable     |-> <<"store", "intend", "neutral", "send", "await">>,
     Stop        |-> <<"store", "intend", "neutral">>,
     ResetFault  |-> <<"intend", "send">>]

\* ensureVelocityModeConfigured: nothing to do, or a register write to be
\* acknowledged.
ConfigSteps(c) ==
    IF c \in {"setMode", "setVelocity", "Enable"} /\ ~configured
    THEN <<"write", "ack">> ELSE <<>>

Begin(c, v) ==
    /\ call = "none"
    /\ c # "setVelocity" => v = 0
    /\ ConfigSteps(c) \o Program[c] # <<>>
    /\ call' = c
    /\ todo' = ConfigSteps(c) \o Program[c]
    /\ target' = v
    /\ UNCHANGED <<state, worker, queue, hand, drive, answers, history>>

At(step) == todo # <<>> /\ Head(todo) = step

\* The operation is over.
Return == call' = "none" /\ todo' = <<>> /\ target' = 0

\* A step is done; after the last one the operation returns true.
Done ==
    IF Len(todo) = 1 THEN Return
    ELSE todo' = Tail(todo) /\ UNCHANGED <<call, target>>

\* writeRegisterAndWaitForAck: a new entry, then the Config frame.
WriteRegister ==
    /\ At("write")
    /\ ack' = "waiting"
    /\ Submit("Config", Command("register"))
    /\ Done
    /\ UNCHANGED <<commanded, configured, intent, worker, hand, drive, answers, history>>

\* Seeded fault: the wait's outcome is ignored.
AckArrivedOrNot ==
    /\ At("ack")
    /\ ack' = "none" /\ configured' = TRUE
    /\ Done
    /\ UNCHANGED <<commanded, intent, worker, queue, hand, drive, answers, history>>

AckArrived ==
    /\ At("ack") /\ ack = "received"
    /\ ack' = "none" /\ configured' = TRUE
    /\ Done
    /\ UNCHANGED <<commanded, intent, worker, queue, hand, drive, answers, history>>

AckTimeout ==
    /\ At("ack") /\ ack = "waiting"
    /\ ack' = "none"
    /\ Return
    /\ UNCHANGED <<commanded, configured, intent, worker, queue, hand, drive, answers, history>>

\* Seeded fault: only setVelocity stores the velocity.
StoreVelocityOnly ==
    /\ At("store")
    /\ commanded' = IF call = "setVelocity" THEN target ELSE commanded
    /\ Done
    /\ UNCHANGED <<configured, ack, intent, worker, queue, hand, drive, answers, history>>

\* The velocity that keepalives repeat, zero for Stop and Disable.
Store ==
    /\ At("store")
    /\ commanded' = target
    /\ Done
    /\ UNCHANGED <<configured, ack, intent, worker, queue, hand, drive, answers, history>>

IntentOf ==
    [setVelocity |-> "Run", Enable |-> "Other", Disable |-> "Other",
     Stop |-> "Hold", ResetFault |-> "Other"]

Intend ==
    /\ At("intend")
    /\ intent' = IntentOf[call]
    /\ Done
    /\ UNCHANGED <<commanded, configured, ack, worker, queue, hand, drive, answers, history>>

\* The zero speed that follows Enable, comes before Disable and is all of Stop.
SendNeutral ==
    /\ At("neutral")
    /\ Submit("Control", Speed(0))
    /\ Done
    /\ UNCHANGED <<state, worker, hand, drive, answers, history>>

CommandOf ==
    [setVelocity |-> Speed(target), Enable |-> Command("enable"),
     Disable |-> Command("disable"), ResetFault |-> Command("clear")]

HandEnables == hand # <<>> /\ hand[1].kind = "enable"

Send ==
    /\ At("send")
    /\ Submit(IF call = "ResetFault" THEN "Recover" ELSE "Control", CommandOf[call])
    /\ power' = IF call \in {"Enable", "Disable"} THEN call ELSE power
    /\ late' = (late \/ (call = "Disable" /\ HandEnables))
    /\ Done
    /\ UNCHANGED <<state, worker, hand, drive, answers>>

\* waitForFeedbackState, in vain or not: the operation is over.
AwaitFeedback ==
    /\ At("await")
    /\ Return
    /\ UNCHANGED <<state, worker, queue, hand, drive, answers, history>>

-----------------------------------------------------------------------------
(* The refresh worker *)

NeedsDmKeepalive == intent \notin {"None", "Run"}

\* The plan is built from a snapshot of the intent; the period and the pacing
\* are left to the scheduler's choice of the moment.
PlanKeepalive ==
    /\ keeper = "idle" /\ NeedsDmKeepalive
    /\ keeper' = "due"
    /\ UNCHANGED <<caller, state, held, queue, hand, drive, answers, history>>

\* issueRefreshQuery reads the commanded velocity under stateMutex_ ...
ReadCommanded ==
    /\ keeper = "due"
    /\ keeper' = "holds" /\ held' = commanded
    /\ UNCHANGED <<caller, state, queue, hand, drive, answers, history>>

\* ... and submits it after the lock was released.
SubmitKeepalive ==
    /\ keeper = "holds"
    /\ Submit("Query", Speed(held))
    /\ keeper' = "idle" /\ held' = 0
    /\ UNCHANGED <<caller, state, hand, drive, answers, history>>

-----------------------------------------------------------------------------
(* The worker of DeviceRuntime and the drive *)

Higher(c) ==
    IF c = "Control" THEN {}
    ELSE IF c = "Recover" THEN {"Control"}
    ELSE IF c = "Config" THEN {"Control", "Recover"}
    ELSE {"Control", "Recover", "Config"}

Front(c) == queue[c] # <<>> /\ \A h \in Higher(c) : queue[h] = <<>>

\* What the drive does with a frame.
Obey(d, f) ==
    [speed    |-> [d EXCEPT !.speed = IF d.on THEN f.speed ELSE 0],
     enable   |-> [d EXCEPT !.on = ~d.fault],
     disable  |-> [d EXCEPT !.on = FALSE, !.speed = 0],
     clear    |-> [d EXCEPT !.fault = FALSE],
     register |-> [d EXCEPT !.mode = TRUE]][f.kind]

\* The worker pops the next frame under the queue's mutex; it sends the frame
\* without, and a newer one no longer takes its place.
Take(c) ==
    /\ hand = <<>>
    /\ Front(c)
    /\ hand' = <<Head(queue[c])>>
    /\ queue' = [queue EXCEPT ![c] = Tail(@)]
    /\ UNCHANGED <<caller, state, worker, drive, answers, history>>

\* The frame is out of the hand.
EmptyHand == hand # <<>> /\ hand' = <<>> /\ late' = FALSE

\* The frame reaches the drive, which acknowledges a register write; an answer
\* that finds no room is lost.
Transmit ==
    /\ EmptyHand
    /\ drive' = Obey(drive, hand[1])
    /\ answers' = IF hand[1].kind = "register" /\ answers < MaxAnswers
                  THEN answers + 1 ELSE answers
    /\ UNCHANGED <<caller, state, worker, queue, power>>

\* Backpressure, a link that is down or another error: the frame is gone.
LoseFrame ==
    /\ EmptyHand
    /\ UNCHANGED <<caller, state, worker, queue, drive, answers, power>>

DriveFaults ==
    /\ drive' = [drive EXCEPT !.fault = TRUE, !.on = FALSE, !.speed = 0]
    /\ UNCHANGED <<caller, state, worker, queue, hand, answers, history>>

LoseAnswer ==
    /\ answers > 0
    /\ answers' = answers - 1
    /\ UNCHANGED <<caller, state, worker, queue, hand, drive, history>>

\* handleResponse.  An acknowledgement that nobody waits for any more falls
\* through and is decoded as feedback.
HandleResponse ==
    /\ answers > 0
    /\ answers' = answers - 1
    /\ ack' = IF ack # "none" THEN "received" ELSE ack
    /\ UNCHANGED <<caller, commanded, configured, intent, worker, queue, hand, drive,
                   history>>

-----------------------------------------------------------------------------
CallerStep ==
    \/ WriteRegister \/ AckArrived \/ AckTimeout
    \/ Store \/ Intend \/ SendNeutral \/ Send
    \/ AwaitFeedback

KeeperStep == PlanKeepalive \/ ReadCommanded \/ SubmitKeepalive

Next ==
    \/ \E c \in Calls, v \in Velocities : Begin(c, v)
    \/ CallerStep
    \/ KeeperStep
    \/ \E c \in Categories : Take(c)
    \/ Transmit \/ LoseFrame \/ DriveFaults \/ LoseAnswer \/ HandleResponse

Spec == Init /\ [][Next]_vars

\* The refresh worker and the runtime's worker go on for ever, and a bus on which
\* frames keep being sent does not lose all of them.
FairSpec ==
    /\ Spec
    /\ WF_vars(KeeperStep)
    /\ WF_vars(\E c \in Categories : Take(c))
    /\ SF_vars(Transmit)

-----------------------------------------------------------------------------
(* Properties *)

\* The axis moves only in velocity mode: the protocol believes in the mode only
\* when the drive has it, over acknowledgements that are late, lost or left
\* over from a write that timed out (ensureVelocityModeConfigured).
ModeBeforeMotion ==
    /\ configured => drive.mode
    /\ drive.speed # 0 => drive.mode

\* A drive is powered only by the last power command: an Enable whose frame is
\* still queued never reaches the drive once Disable has queued its own.  Only
\* one that the worker had in its hand at that moment is sent all the same, in
\* front of the Disable (enqueueControlLocked, workerLoop, Disable).
NoLateEnable == [][~drive.on /\ drive'.on => power = "Enable" \/ late]_vars

Held == call = "none" /\ intent = "Hold"

\* After a Stop the drive comes to rest and stays so, although its frame may be
\* lost and a keepalive that read the old velocity before may be sent after it:
\* the keepalives that follow repeat the zero (Stop, issueRefreshQuery).
StopPrevails == <>[]Held => <>[](drive.speed = 0)
=============================================================================
