---------------------------- MODULE AxisRefresh ----------------------------
(***************************************************************************)
(* How the state of MT (RMD) axes reaches the rest of the driver: the       *)
(* refresh worker of DeviceManager asks, one query a tick, MtCan keeps the  *)
(* books of its reads, DeviceRuntime sends them, the receive thread handles *)
(* the answers and publishes a snapshot in SharedDriverState, and beside    *)
(* them a caller (under the device's command mutex) commands the axes.      *)
(*                                                                         *)
(* A read is sent and completed in two steps, so its answer may be handled  *)
(* before its completion; a snapshot is taken under stateMutex and          *)
(* published after the lock was released, so two threads may publish theirs *)
(* in the other order.  There is no clock: a time limit is over when a step *)
(* of TimePasses says so.                                                   *)
(***************************************************************************)
EXTENDS Naturals, Sequences, FiniteSets

CONSTANTS
    Motors,       \* number of axes: they are 1 .. Motors, in refresh order
    Feedback,     \* the queries but for the error flag, in the order of the
                  \* plan (<<"State", "MultiTurnAngle">> in the code)
    TimeoutCap,   \* at which consecutiveTimeouts stays (8 in the code)
    DegradedAt,   \* kDefaultFeedbackDegradedTimeoutThreshold
    MaxDepth,     \* bound: frames in the Query queue
    MaxAnswers    \* bound: answers not yet read

ASSUME MotorsAssumption == Motors \in Nat \ {0}
ASSUME FeedbackAssumption == Feedback \in Seq(STRING) /\ Feedback # <<>>
ASSUME TimeoutAssumption == TimeoutCap \in Nat /\ DegradedAt \in 1 .. TimeoutCap
ASSUME BoundsAssumption == MaxDepth \in Nat \ {0} /\ MaxAnswers \in Nat \ {0}

VARIABLES
    read,      \* pendingReadRequests_: of each axis and query
    sent,      \* history: reads sent since the last answer was noted, at most
               \* TimeoutCap - 1
    worker,    \* the refresh worker's tick: what it has yet to try, the count of a
               \* timeout it has yet to publish
    cursor,    \* mtMotorCursor
    cycle,     \* mtScheduleCycleCount, modulo the length of Feedback
    pending,   \* pendingRefresh: the axis waited for, 0 when inactive
    queue,     \* the Query queue of DeviceRuntime
    sending,   \* reads sent whose completion has not run (at most one)
    answers,   \* answers on their way to the receive thread
    receiver,  \* snapshots the receive thread has yet to publish (at most one)
    caller,    \* snapshots the caller has yet to publish (at most one)
    shared     \* the axis feedback in SharedDriverState: degraded or not, fresh
               \* and equal to MotorState or not

protocol == <<read, sent>>
refresh == <<worker, cursor, cycle, pending>>
bus == <<queue, sending, answers>>
vars == <<protocol, refresh, bus, receiver, caller, shared>>

Axes == 1 .. Motors
Queries == {Feedback[i] : i \in 1 .. Len(Feedback)} \cup {"Error"}
Phases == {"idle", "queued", "flight", "expired"}

TypeOK ==
    /\ read \in [Axes -> [Queries ->
           [phase : Phases, backoff : BOOLEAN, timeouts : 0 .. TimeoutCap]]]
    /\ sent \in [Axes -> [Queries -> 0 .. TimeoutCap - 1]]
    /\ worker.plan \in Seq(Axes \X Queries) /\ worker.late \in 0 .. TimeoutCap
    /\ cursor \in Axes /\ cycle \in 0 .. Len(Feedback) - 1
    /\ pending \in 0 .. Motors
    /\ queue \in Seq(Axes \X Queries) /\ Len(queue) <= MaxDepth
    /\ sending \subseteq (Axes \X Queries) /\ Cardinality(sending) <= 1
    /\ answers \in Seq(Axes \X Queries)
    /\ receiver \subseteq [axis : Axes, current : BOOLEAN] /\ Cardinality(receiver) <= 1
    /\ caller \subseteq [axis : Axes, current : BOOLEAN] /\ Cardinality(caller) <= 1
    /\ shared \in [Axes -> [degraded : BOOLEAN, current : BOOLEAN]]

NoRead == [phase |-> "idle", backoff |-> FALSE, timeouts |-> 0]
Idle == [plan |-> <<>>, late |-> 0]

\* initializeMotorRefresh: the axes are registered, nothing was read.
Init ==
    /\ read = [m \in Axes |-> [q \in Queries |-> NoRead]]
    /\ sent = [m \in Axes |-> [q \in Queries |-> 0]]
    /\ worker = Idle
    /\ cursor = 1 /\ cycle = 0
    /\ pending = 0
    /\ queue = <<>> /\ sending = {} /\ answers = <<>>
    /\ receiver = {} /\ caller = {}
    /\ shared = [m \in Axes |-> [degraded |-> FALSE, current |-> FALSE]]

-----------------------------------------------------------------------------
(* The books of MtCan *)

AtMost(n, cap) == IF n < cap THEN n ELSE cap

\* Seeded fault: a counter without a limit.
GiveUpUncapped(r) == [phase |-> "idle", backoff |-> TRUE, timeouts |-> r.timeouts + 1]

\* What tryIssueReadCommand does with a read whose wait is over: it is given
\* up, counted and held back for a while ...
GiveUp(r) == [phase |-> "idle", backoff |-> TRUE, timeouts |-> AtMost(r.timeouts + 1, TimeoutCap)]

\* ... and with one that may be sent.
Claim(r) == [r EXCEPT !.phase = "queued", !.backoff = FALSE]

Blocked(r) == r.backoff \/ r.phase \in {"queued", "flight"}
Late(r) == ~r.backoff /\ r.phase = "expired"
Free(r) == ~r.backoff /\ r.phase = "idle"

\* Seeded fault: a read that was not sent stays queued in the books.
CompletedIfSent(r, ok) == IF ok THEN [r EXCEPT !.phase = "flight"] ELSE r

\* onReadDispatchResult.
Completed(r, ok) == [r EXCEPT !.phase = IF ok THEN "flight" ELSE "idle"]

\* Seeded fault: an answer does not reset the count.
AnsweredKeepingCount(r) == [r EXCEPT !.phase = "idle", !.backoff = FALSE]

\* markReadResponseReceived.
Answered(r) == NoRead

Mark(m, q) ==
    /\ read' = [read EXCEPT ![m][q] = Answered(@)]
    /\ sent' = [sent EXCEPT ![m][q] = 0]

\* request*(): the read is booked and submitted; a full queue drops it, which
\* completes it at once.  The caller is told that it was issued either way.
Book(m, q, r) ==
    IF Len(queue) < MaxDepth
    THEN /\ read' = [read EXCEPT ![m][q] = Claim(r)]
         /\ queue' = Append(queue, <<m, q>>)
    ELSE /\ read' = [read EXCEPT ![m][q] = Completed(Claim(r), FALSE)]
         /\ UNCHANGED queue

\* noteSharedTimeout: the count of one read, over whatever was published.
NoteSharedTimeout(m, n) == shared' = [shared EXCEPT ![m].degraded = n >= DegradedAt]

\* MotorState of the axis changes: a snapshot taken before is out of date.
Outdated(snapshots, m) ==
    {[s EXCEPT !.current = @ /\ s.axis # m] : s \in snapshots}

\* syncSharedFeedback.  It ends the worker's wait for the axis.
Publish(m, current) ==
    /\ shared' = [shared EXCEPT ![m] = [degraded |-> FALSE, current |-> current]]
    /\ pending' = IF pending = m THEN 0 ELSE pending

-----------------------------------------------------------------------------
(* The refresh worker *)

\* Under pressure the axis is asked for one kind of feedback only, in turn.
BuildMtRefreshPlan(m, pressed) ==
    IF pressed
    THEN <<Feedback[((cycle + m - 1) % Len(Feedback)) + 1], "Error">>
    ELSE Append(Feedback, "Error")

\* What a tick tries in turn: the axes from the cursor on, each with its plan.
Attempts(pressed) ==
    LET size == IF pressed THEN 2 ELSE Len(Feedback) + 1
        axis(i) == ((cursor - 1 + ((i - 1) \div size)) % Motors) + 1
    IN  [i \in 1 .. Motors * size |->
            <<axis(i), BuildMtRefreshPlan(axis(i), pressed)[((i - 1) % size) + 1]>>]

\* What is left of the tick under way, or all of one that begins, which it does
\* when no answer is waited for.  Backpressure seen in the last cycles (pressed)
\* shortens the plan.
Plans(plan) ==
    \/ /\ worker = Idle /\ pending = 0
       /\ \E pressed \in BOOLEAN : plan = Attempts(pressed)
       /\ cycle' = (cycle + 1) % Len(Feedback)
    \/ /\ worker # Idle /\ worker.late = 0
       /\ plan = worker.plan
       /\ UNCHANGED cycle

\* The first attempt that tryIssueReadCommand does not refuse at once.
Reaches(plan, i) ==
    LET r(k) == read[plan[k][1]][plan[k][2]]
    IN  ~Blocked(r(i)) /\ \A k \in 1 .. i - 1 : Blocked(r(k))

\* The tick issues nothing.
AllBlocked(plan) ==
    /\ \A i \in 1 .. Len(plan) : ~Reaches(plan, i)
    /\ worker' = Idle
    /\ UNCHANGED <<protocol, cursor, pending, bus, receiver, caller, shared>>

\* It ends with the first read it issues.
Issue(plan, i) ==
    LET m == plan[i][1]
        q == plan[i][2]
    IN  /\ Reaches(plan, i) /\ Free(read[m][q])
        /\ Book(m, q, read[m][q])
        /\ cursor' = (m % Motors) + 1
        /\ pending' = m
        /\ worker' = Idle
        /\ UNCHANGED <<sent, sending, answers, receiver, caller, shared>>

\* A read that is late is given up, and the tick goes on ...
Expire(plan, i) ==
    LET m == plan[i][1]
        q == plan[i][2]
    IN  /\ Reaches(plan, i) /\ Late(read[m][q])
        /\ read' = [read EXCEPT ![m][q] = GiveUp(@)]
        /\ worker' = [plan |-> SubSeq(plan, i, Len(plan)), late |-> GiveUp(read[m][q]).timeouts]
        /\ UNCHANGED <<sent, cursor, pending, bus, receiver, caller, shared>>

Tick ==
    \E plan \in {Attempts(FALSE), Attempts(TRUE), worker.plan} :
        /\ Plans(plan)
        /\ AllBlocked(plan) \/ \E i \in 1 .. Len(plan) : Issue(plan, i) \/ Expire(plan, i)

\* ... once it has published the timeout, after the books were unlocked.
NoteTimeout ==
    /\ worker.late # 0
    /\ NoteSharedTimeout(worker.plan[1][1], worker.late)
    /\ worker' = [plan |-> Tail(worker.plan), late |-> 0]
    /\ UNCHANGED <<protocol, cursor, cycle, pending, bus, receiver, caller>>

-----------------------------------------------------------------------------
(* The worker of DeviceRuntime, the bus and the drives *)

\* send() succeeds and the drive answers; an answer that finds no room is lost.
SendQuery ==
    /\ sending = {} /\ queue # <<>>
    /\ LET m == queue[1][1]
           q == queue[1][2]
       IN  /\ sending' = {<<m, q>>}
           /\ answers' = IF Len(answers) < MaxAnswers THEN Append(answers, <<m, q>>) ELSE answers
           /\ sent' = [sent EXCEPT ![m][q] = AtMost(@ + 1, TimeoutCap - 1)]
    /\ queue' = Tail(queue)
    /\ UNCHANGED <<read, refresh, receiver, caller, shared>>

\* The completion, run by the worker after send() returned.
Complete ==
    /\ \E s \in sending : read' = [read EXCEPT ![s[1]][s[2]] = Completed(@, TRUE)]
    /\ sending' = {}
    /\ UNCHANGED <<sent, refresh, queue, answers, receiver, caller, shared>>

\* Backpressure, a link that is down or another error: the frame is lost.
LoseQuery ==
    /\ sending = {} /\ queue # <<>>
    /\ read' = [read EXCEPT ![queue[1][1]][queue[1][2]] = Completed(@, FALSE)]
    /\ queue' = Tail(queue)
    /\ UNCHANGED <<sent, refresh, sending, answers, receiver, caller, shared>>

LoseAnswer ==
    /\ answers # <<>>
    /\ answers' = Tail(answers)
    /\ UNCHANGED <<protocol, refresh, queue, sending, receiver, caller, shared>>

-----------------------------------------------------------------------------
(* The receive thread *)

\* handleResponse: the answer to a read is noted in the books, MotorState takes
\* the values over, and a snapshot is taken.
HandleResponse ==
    /\ receiver = {} /\ answers # <<>>
    /\ LET m == answers[1][1]
       IN  /\ Mark(m, answers[1][2])
           /\ receiver' = {[axis |-> m, current |-> TRUE]}
           /\ caller' = Outdated(caller, m)
           /\ shared' = [shared EXCEPT ![m].current = FALSE]
    /\ answers' = Tail(answers)
    /\ UNCHANGED <<refresh, queue, sending>>

\* Seeded fault: the snapshot is dropped.
PublishSnapshotNever ==
    /\ receiver # {} /\ receiver' = {}
    /\ UNCHANGED <<protocol, refresh, bus, caller, shared>>

\* It is published once the lock is released.
PublishSnapshot ==
    /\ \E r \in receiver : Publish(r.axis, r.current)
    /\ receiver' = {}
    /\ UNCHANGED <<protocol, worker, cursor, cycle, bus, caller>>

-----------------------------------------------------------------------------
(* The caller *)

\* There is no enable command: Enable and Disable note the state they were asked
\* for and take a snapshot of all that is known of the axis ...
SetEnabled(m) ==
    /\ caller = {}
    /\ caller' = {[axis |-> m, current |-> TRUE]}
    /\ receiver' = Outdated(receiver, m)
    /\ shared' = [shared EXCEPT ![m].current = FALSE]
    /\ UNCHANGED <<protocol, refresh, bus>>

\* ... and publish it as if it were feedback.
PublishEnabled ==
    /\ \E c \in caller : Publish(c.axis, c.current)
    /\ caller' = {}
    /\ UNCHANGED <<protocol, worker, cursor, cycle, bus, receiver>>

\* The outstanding read of the error flag is forgotten, to ask for it again at
\* once.  (The reset frame goes through the Recover queue and is not answered.)
ResetFault(m) ==
    /\ caller = {}
    /\ sent' = [sent EXCEPT ![m]["Error"] = 0]
    /\ Book(m, "Error", Answered(read[m]["Error"]))
    /\ UNCHANGED <<refresh, sending, answers, receiver, caller, shared>>

-----------------------------------------------------------------------------
(* Time *)

\* readRequestTimeout after the read was sent.
ReadExpires(m, q) ==
    /\ read[m][q].phase = "flight"
    /\ read' = [read EXCEPT ![m][q].phase = "expired"]
    /\ UNCHANGED <<sent, refresh, bus, receiver, caller, shared>>

\* nextEligibleSend has come.
BackoffEnds(m, q) ==
    /\ read[m][q].backoff
    /\ read' = [read EXCEPT ![m][q].backoff = FALSE]
    /\ UNCHANGED <<sent, refresh, bus, receiver, caller, shared>>

\* pendingRefresh.deadline.
WaitEnds ==
    /\ pending # 0
    /\ pending' = 0
    /\ UNCHANGED <<protocol, worker, cursor, cycle, bus, receiver, caller, shared>>

\* What was published is older than the freshness limit.
FeedbackAges(m) ==
    /\ shared[m].current
    /\ shared' = [shared EXCEPT ![m].current = FALSE]
    /\ UNCHANGED <<protocol, refresh, bus, receiver, caller>>

TimePasses == WaitEnds \/ \E m \in Axes, q \in Queries : ReadExpires(m, q) \/ BackoffEnds(m, q)

-----------------------------------------------------------------------------
WorkerStep == Tick \/ NoteTimeout

RuntimeStep == SendQuery \/ Complete \/ LoseQuery

ReceiverStep == HandleResponse \/ PublishSnapshot

Next ==
    \/ WorkerStep \/ RuntimeStep \/ ReceiverStep \/ TimePasses
    \/ LoseAnswer
    \/ \E m \in Axes : FeedbackAges(m) \/ SetEnabled(m) \/ ResetFault(m)
    \/ PublishEnabled

Spec == Init /\ [][Next]_vars

\* The driver's threads run on and time passes; a bus on which reads keep being
\* sent does not lose all of them, nor all the answers.
FairSpec ==
    /\ Spec
    /\ WF_vars(WorkerStep) /\ WF_vars(RuntimeStep) /\ WF_vars(PublishSnapshot)
    /\ SF_vars(SendQuery) /\ SF_vars(HandleResponse)
    /\ WF_vars(TimePasses)

-----------------------------------------------------------------------------
(* Properties *)

\* A read that is booked as queued has a frame that will complete it: else the
\* axis would never be asked again.  The books are written by the refresh
\* worker, the caller, the receive thread and the runtime's worker
\* (tryIssueReadCommand, onReadDispatchResult, completeDropped).
QueuedHasFrame ==
    \A m \in Axes, q \in Queries :
        read[m][q].phase = "queued" =>
            \/ \E i \in 1 .. Len(queue) : queue[i] = <<m, q>>
            \/ <<m, q>> \in sending

\* A timeout that is counted stands for a read that went unanswered, but for
\* one: an answer handled before the completion of its read leaves the read in
\* flight, and it is counted though it was answered (onReadDispatchResult).
RaceCostsOne == \A m \in Axes, q \in Queries : read[m][q].timeouts <= sent[m][q] + 1

\* On a lossy bus every axis still has fresh feedback again and again, and once
\* Enable and Disable are not called any more this feedback is what the protocol
\* knows: although timeouts are counted wrongly and published late, and an older
\* snapshot may overwrite a newer one (syncSharedFeedback, noteSharedTimeout,
\* Enable, handleResponse; FeedbackReady of AxisReadinessEvaluator).
AxisComesBack ==
    <>[](caller = {}) => \A m \in Axes : []<>(~shared[m].degraded /\ shared[m].current)
=============================================================================
