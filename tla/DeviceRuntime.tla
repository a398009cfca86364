--------------------------- MODULE DeviceRuntime ---------------------------
(***************************************************************************)
(* The transmit side of one CAN device: DeviceRuntime owns four bounded     *)
(* queues and a worker thread that drains them onto the bus by priority.    *)
(* Every protocol on the device submits to the same runtime: the control    *)
(* loop and the services submit Control, Recover and Config frames, the     *)
(* refresh threads submit Query frames.  Only Query frames carry a          *)
(* completion callback (MtCan and EyouCan, whose read tracking believes a   *)
(* read is queued until that callback has run).                             *)
(*                                                                         *)
(* The locked regions of mutex_ are the atomic steps; what the worker does  *)
(* between two of them (send, completion, counters) is one step, since only *)
(* the worker touches that state.  A control frame is its id and the        *)
(* position at which submit() accepted it; of the other frames only the     *)
(* category matters.  The condition variables only carry wake-ups whose     *)
(* predicate is the guard of the woken step.                                *)
(***************************************************************************)
EXTENDS Naturals, Sequences, FiniteSets

CONSTANTS
    Senders,                \* threads that call submit()
    Ids,                    \* CAN identifiers of the frames
    MaxDepth,               \* options_.max*QueueDepth, per category
    MaxBackpressureRetries, \* options_.maxBackpressureRetries
    MaxCalls                \* bound: calls of submit() in one behaviour

\* In the order in which popNextLocked looks for work.
Categories == {"Control", "Recover", "Config", "Query"}

\* SendResult of the transport; all but Ok lose the frame.
SendResults == {"Ok", "Backpressure", "LinkDown", "Error"}

\* The depths are positive (256, 128, 128 and 64 by default, never configured).
ASSUME DepthAssumption == MaxDepth \in [Categories -> Nat \ {0}]
ASSUME IdsAssumption == Ids # {}
ASSUME RetriesAssumption == MaxBackpressureRetries \in Nat \ {0}
ASSUME CallsAssumption == MaxCalls \in Nat

VARIABLES
    queue,          \* controlQueue_, recoverQueue_, configQueue_, queryQueue_
    stopRequested,  \* stopRequested_
    started,        \* started_
    sending,        \* sending_
    worker,         \* where the worker thread stands
    request,        \* the worker's local request
    backpressure,   \* the worker's local consecutiveBackpressure
    sender,         \* per sender: "Idle", or the category submit() just refused
    submitted,      \* submittedCount_
    evicted,        \* evictedControlCount_
    dropped,        \* the four dropped*Count_, summed
    sent,           \* sentCount_
    failed,         \* sendBackpressureCount_ + sendLinkDownCount_ + sendErrorCount_
    reported,       \* failures added to the SharedDriverState health counters
    reads,          \* history: submit() calls that carried a completion
    completions,    \* history: completion callbacks that have run
    newest          \* history: per id, the last control frame put on the bus

queues == <<queue, sender, submitted, evicted, dropped, reads>>
flags == <<stopRequested, started>>
counters == <<sent, failed, reported, completions, newest>>
vars == <<queues, flags, counters, sending, worker, request, backpressure>>

WorkerStates ==
    {"Waiting", "Sending", "Noting", "Looking", "Coalescing", "Gap", "Exited"}

Request == [cat : Categories, id : Ids, stamp : Nat]

\* A frame of which only the category matters.
Plain(c) == [cat |-> c, id |-> CHOOSE i \in Ids : TRUE, stamp |-> 0]

TypeOK ==
    /\ queue \in [Categories -> Seq(Request)]
    /\ \A c \in Categories : Len(queue[c]) <= MaxDepth[c]
    /\ stopRequested \in BOOLEAN
    /\ started \in BOOLEAN
    /\ sending \in BOOLEAN
    /\ worker \in WorkerStates
    /\ request \in Request
    /\ backpressure \in 0..(MaxBackpressureRetries - 1)
    /\ sender \in [Senders -> Categories \cup {"Idle"}]
    /\ submitted \in Nat /\ evicted \in Nat /\ dropped \in Nat
    /\ sent \in Nat /\ failed \in Nat /\ reported \in Nat
    /\ reads \in Nat /\ completions \in Nat
    /\ newest \in [Ids -> Nat]

\* DeviceManager builds the runtime with autostart, so the worker is running.
Init ==
    /\ queue = [c \in Categories |-> <<>>]
    /\ stopRequested = FALSE /\ started = TRUE /\ sending = FALSE
    /\ worker = "Waiting"
    /\ request = Plain("Control")
    /\ backpressure = 0
    /\ sender = [s \in Senders |-> "Idle"]
    /\ submitted = 0 /\ evicted = 0 /\ dropped = 0
    /\ sent = 0 /\ failed = 0 /\ reported = 0
    /\ reads = 0 /\ completions = 0
    /\ newest = [i \in Ids |-> 0]

-----------------------------------------------------------------------------
(* submit() *)

IsQuery(c) == IF c = "Query" THEN 1 ELSE 0

\* A frame for an id that is already queued takes its place.
Replace(q, r) ==
    [i \in 1..Len(q) |->
        IF /\ q[i].id = r.id
           /\ \A j \in 1..(i - 1) : q[j].id # r.id
        THEN r ELSE q[i]]

Queued(q, id) == \E i \in 1..Len(q) : q[i].id = id

\* Seeded fault: the queue grows instead of evicting.
EnqueueControlUnbounded(q, r) == IF Queued(q, r.id) THEN Replace(q, r) ELSE Append(q, r)

\* Seeded fault: no replacement by id.
EnqueueControlAlways(q, r) ==
    Append(IF Len(q) >= MaxDepth["Control"] THEN Tail(q) ELSE q, r)

\* enqueueControlLocked: replace the frame of the same id, else make room by
\* giving up the oldest one.
EnqueueControl(q, r) ==
    IF Queued(q, r.id) THEN Replace(q, r)
    ELSE IF Len(q) >= MaxDepth["Control"] THEN Append(Tail(q), r)
    ELSE Append(q, r)

\* Seeded fault: only a replacement is counted as an eviction.
EvictsOnReplace(q, r) == Queued(q, r.id)

\* Whether enqueueing r gives up a control frame that was queued.
Evicts(q, r) == Queued(q, r.id) \/ Len(q) >= MaxDepth["Control"]

Refused(c) ==
    stopRequested \/ (c # "Control" /\ Len(queue[c]) >= MaxDepth[c])

\* submit() of a control frame.
AcceptControl(s, id) ==
    LET r == [cat |-> "Control", id |-> id, stamp |-> submitted + 1] IN
    /\ sender[s] = "Idle"
    /\ submitted + dropped < MaxCalls
    /\ ~Refused("Control")
    /\ submitted' = submitted + 1
    /\ queue' = [queue EXCEPT !["Control"] = EnqueueControl(@, r)]
    /\ evicted' = evicted + (IF Evicts(queue["Control"], r) THEN 1 ELSE 0)
    /\ UNCHANGED <<reads, sender, dropped, flags, counters, sending, worker, request,
                   backpressure>>

\* submit() of another frame that its queue has room for.
AcceptPlain(s, c) ==
    /\ c # "Control"
    /\ sender[s] = "Idle"
    /\ submitted + dropped < MaxCalls
    /\ ~Refused(c)
    /\ submitted' = submitted + 1
    /\ reads' = reads + IsQuery(c)
    /\ queue' = [queue EXCEPT ![c] = Append(@, Plain(c))]
    /\ evicted' = evicted
    /\ UNCHANGED <<sender, dropped, flags, counters, sending, worker, request, backpressure>>

\* submit() of a frame that is dropped; the lock is released before the
\* completion runs.
Refuse(s, c) ==
    /\ sender[s] = "Idle"
    /\ submitted + dropped < MaxCalls
    /\ Refused(c)
    /\ dropped' = dropped + 1
    /\ reads' = reads + IsQuery(c)
    /\ sender' = [sender EXCEPT ![s] = c]
    /\ UNCHANGED <<queue, submitted, evicted, flags, counters, sending, worker,
                   request, backpressure>>

\* Seeded fault: a refused frame's completion is forgotten.
CompleteDroppedSilently(s) ==
    /\ sender[s] # "Idle"
    /\ sender' = [sender EXCEPT ![s] = "Idle"]
    /\ UNCHANGED <<queue, submitted, evicted, dropped, reads, flags, counters, sending,
                   worker, request, backpressure>>

\* completeDropped: completion(false, Error, now).
CompleteDropped(s) ==
    /\ sender[s] # "Idle"
    /\ completions' = completions + IsQuery(sender[s])
    /\ sender' = [sender EXCEPT ![s] = "Idle"]
    /\ UNCHANGED <<queue, submitted, evicted, dropped, reads, flags, sent, failed,
                   reported, newest, sending, worker, request, backpressure>>

-----------------------------------------------------------------------------
(* workerLoop() *)

AllQueuesEmpty == \A c \in Categories : queue[c] = <<>>

\* popNextLocked takes the first non-empty queue in priority order.
Higher(c) ==
    IF c = "Control" THEN {}
    ELSE IF c = "Recover" THEN {"Control"}
    ELSE IF c = "Config" THEN {"Control", "Recover"}
    ELSE {"Control", "Recover", "Config"}

Take(c) ==
    /\ queue[c] # <<>>
    /\ request' = Head(queue[c])
    /\ queue' = [queue EXCEPT ![c] = Tail(@)]
    /\ worker' = "Sending"
    /\ UNCHANGED <<sender, submitted, evicted, dropped, reads, flags, counters, backpressure>>

\* Seeded fault: sending_ is not set when the worker takes a frame.
PopUnmarked(c) ==
    /\ worker = "Waiting"
    /\ \A h \in Higher(c) : queue[h] = <<>>
    /\ Take(c)
    /\ UNCHANGED sending

Pop(c) ==
    /\ worker = "Waiting"
    /\ \A h \in Higher(c) : queue[h] = <<>>
    /\ Take(c)
    /\ sending' = TRUE

\* Seeded fault: a stop ends the loop whatever is queued.
ExitAtOnce ==
    /\ worker = "Waiting"
    /\ stopRequested
    /\ sending' = FALSE
    /\ worker' = "Exited"
    /\ UNCHANGED <<queues, flags, counters, request, backpressure>>

\* The outer wait ends with nothing left to do and a stop requested.
Exit ==
    /\ worker = "Waiting"
    /\ stopRequested /\ AllQueuesEmpty
    /\ sending' = FALSE
    /\ worker' = "Exited"
    /\ UNCHANGED <<queues, flags, counters, request, backpressure>>

\* After MaxBackpressureRetries in a row the worker sleeps and starts over.
NextBackpressure(result) ==
    IF result = "Backpressure" /\ backpressure + 1 < MaxBackpressureRetries
    THEN backpressure + 1 ELSE 0

\* Seeded fault: a control frame that met backpressure goes to the back of the queue.
SendRetrying(result) ==
    /\ worker = "Sending"
    /\ IF result = "Backpressure" /\ request.cat = "Control"
       THEN /\ queue' = [queue EXCEPT !["Control"] = Append(@, request)]
            /\ UNCHANGED newest
       ELSE /\ newest' = IF request.cat = "Control"
                         THEN [newest EXCEPT ![request.id] = request.stamp] ELSE newest
            /\ UNCHANGED queue
    /\ sent' = sent + 1
    /\ worker' = "Looking"
    /\ UNCHANGED <<sender, submitted, evicted, dropped, reads, flags, failed, reported,
                   completions, sending, request, backpressure>>

\* transport_->send, the completion callback and the counters.  Of the frame
\* only the category is looked at afterwards.
Send(result) ==
    /\ worker = "Sending"
    /\ completions' = completions + IsQuery(request.cat)
    /\ IF result = "Ok" THEN sent' = sent + 1 /\ failed' = failed
                        ELSE failed' = failed + 1 /\ sent' = sent
    /\ backpressure' = NextBackpressure(result)
    /\ newest' = IF request.cat = "Control"
                 THEN [newest EXCEPT ![request.id] = request.stamp] ELSE newest
    /\ worker' = IF result = "Ok" THEN "Looking" ELSE "Noting"
    /\ request' = Plain(request.cat)
    /\ UNCHANGED <<queues, flags, reported, sending>>

\* noteSharedSendResult for a failed send.
Note ==
    /\ worker = "Noting"
    /\ reported' = reported + 1
    /\ worker' = "Looking"
    /\ UNCHANGED <<queues, flags, sent, failed, completions, newest, sending, request,
                   backpressure>>

\* The worker has the lock again, with no control frame left to send after a
\* control frame: it waits a moment (the lock released) for the burst's rest.
AwaitBurst ==
    /\ worker = "Looking"
    /\ queue["Control"] = <<>> /\ request.cat = "Control"
    /\ worker' = "Coalescing"
    /\ UNCHANGED <<queues, flags, counters, sending, request, backpressure>>

\* Where the worker goes on: straight away, or when the burst wait ended (by a
\* timeout, a stop or a new control frame).
Resumes ==
    \/ worker = "Coalescing"
    \/ worker = "Looking" /\ ~(queue["Control"] = <<>> /\ request.cat = "Control")

\* No control frame: back to the outer loop.
EndBurst ==
    /\ Resumes
    /\ queue["Control"] = <<>>
    /\ sending' = FALSE
    /\ worker' = "Waiting"
    /\ UNCHANGED <<queues, flags, counters, request, backpressure>>

\* Between two control frames the lock is released for controlInterFrameGapUs
\* (set at any time by setControlInterFrameGapUs, so it may be zero or not).
BeginGap ==
    /\ Resumes
    /\ queue["Control"] # <<>> /\ request.cat = "Control"
    /\ worker' = "Gap"
    /\ UNCHANGED <<queues, flags, counters, sending, request, backpressure>>

\* front() and pop_front() of the control queue, without looking at it again
\* after the gap.
NextControl ==
    /\ worker = "Gap" \/ (Resumes /\ queue["Control"] # <<>>)
    /\ Take("Control")
    /\ UNCHANGED sending

-----------------------------------------------------------------------------
(* start() and shutdown(), called by the owner of the device *)

\* Seeded fault: a stop throws the control queue away.
RequestStopClearing ==
    /\ started /\ ~stopRequested
    /\ stopRequested' = TRUE
    /\ queue' = [queue EXCEPT !["Control"] = <<>>]
    /\ UNCHANGED <<sender, submitted, evicted, dropped, reads, counters, started, sending,
                   worker, request, backpressure>>

\* shutdown(): set the flag under the lock, then join the worker.
RequestStop ==
    /\ started /\ ~stopRequested
    /\ stopRequested' = TRUE
    /\ UNCHANGED <<queues, counters, started, sending, worker, request, backpressure>>

\* Seeded fault: started_ is not reset.
FinishShutdownStarted ==
    /\ started /\ stopRequested
    /\ worker = "Exited"
    /\ sending' = FALSE
    /\ UNCHANGED <<queues, counters, started, stopRequested, worker, request, backpressure>>

\* The join returned; the last locked region of shutdown().
FinishShutdown ==
    /\ started /\ stopRequested
    /\ worker = "Exited"
    /\ started' = FALSE
    /\ sending' = FALSE
    /\ UNCHANGED <<queues, counters, stopRequested, worker, request, backpressure>>

\* start() after a shutdown: a new thread with a new backpressure count.
Start ==
    /\ ~started
    /\ stopRequested' = FALSE
    /\ started' = TRUE
    /\ worker' = "Waiting"
    /\ backpressure' = 0
    /\ UNCHANGED <<queues, counters, sending, request>>

-----------------------------------------------------------------------------
Submit(s) ==
    \/ \E id \in Ids : AcceptControl(s, id)
    \/ \E c \in Categories : AcceptPlain(s, c) \/ Refuse(s, c)

WorkerStep ==
    \/ \E c \in Categories : Pop(c)
    \/ Exit
    \/ \E result \in SendResults : Send(result)
    \/ Note
    \/ AwaitBurst
    \/ EndBurst
    \/ BeginGap
    \/ NextControl

OwnerStep == RequestStop \/ FinishShutdown \/ Start

Next ==
    \/ \E s \in Senders : Submit(s) \/ CompleteDropped(s)
    \/ WorkerStep
    \/ OwnerStep

Spec == Init /\ [][Next]_vars

\* The worker thread is scheduled and the transport's send returns; shutdown()
\* runs on once the worker was joined.
FairSpec == Spec /\ WF_vars(WorkerStep) /\ WF_vars(FinishShutdown)

-----------------------------------------------------------------------------
(* Properties *)

Pending == Len(queue["Control"]) + Len(queue["Recover"])
           + Len(queue["Config"]) + Len(queue["Query"])

\* The worker holds a frame that it has not yet handed to the transport.
Holding == IF worker = "Sending" THEN 1 ELSE 0

\* No frame is lost or counted twice: every accepted frame is queued, in the
\* worker's hand, sent, failed or evicted, and every failed send but the one
\* in hand was reported to the device's shared health (enqueueLocked,
\* workerLoop, noteSharedSendResult).
StatsConserved ==
    /\ submitted = Pending + Holding + sent + failed + evicted
    /\ failed = reported + (IF worker = "Noting" THEN 1 ELSE 0)

\* The control queue holds at most one frame per CAN id (enqueueControlLocked).
OneFramePerId ==
    \A i, j \in 1..Len(queue["Control"]) :
        queue["Control"][i].id = queue["Control"][j].id => i = j

\* An older control frame never reaches the bus after a newer one of the same
\* id, whatever was replaced, evicted or in the worker's hand.
NewestControlWins ==
    /\ \A i \in 1..Len(queue["Control"]) :
          LET r == queue["Control"][i] IN
          /\ newest[r.id] < r.stamp
          /\ worker = "Sending" /\ request.cat = "Control" /\ request.id = r.id
                => request.stamp < r.stamp
    /\ worker = "Sending" /\ request.cat = "Control"
          => newest[request.id] < request.stamp

\* After the inter-frame gap the worker takes the front of the control queue
\* unchecked: the queue cannot have become empty while the lock was released.
GapHasFrame == worker = "Gap" => queue["Control"] # <<>>

\* Once the worker has exited nothing is left behind: no queued frame survives
\* shutdown() to be sent by a later start(), and no completion can run after
\* the protocol that owns it joined the runtime in its destructor.
DrainedAtExit == worker = "Exited" => AllQueuesEmpty

\* waitUntilIdleFor's condition (all queues empty and sending_ false) really
\* means that no frame is on its way to the transport.
IdleMeansDone == AllQueuesEmpty /\ ~sending => worker \in {"Waiting", "Exited"}

RefusedReads == Cardinality({s \in Senders : sender[s] = "Query"})

\* Every read's completion runs exactly once: the reads submitted are the
\* completions plus the reads queued, in the worker's hand or just refused.  A
\* completion that never ran would leave the read marked queued for ever.
ReadsComplete ==
    reads = completions + Len(queue["Query"]) + RefusedReads
            + (IF worker = "Sending" THEN IsQuery(request.cat) ELSE 0)

\* shutdown() returns: the worker drains the queues and is joined.
ShutdownReturns == stopRequested ~> ~started
=============================================================================
