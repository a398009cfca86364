------------------------ MODULE DeviceRuntimeProofs ------------------------
(***************************************************************************)
(* Proofs about DeviceRuntime, for every number of senders, every set of    *)
(* CAN ids, all queue depths and every number of submit() calls.            *)
(*                                                                         *)
(* The invariant that carries the proof adds to the properties: the frames  *)
(* of a queue have the queue's category; every stamp is one that submit()   *)
(* has already given out; sending_ is exactly "the worker is inside the     *)
(* inner loop"; and a worker that has exited was asked to stop, so that     *)
(* submit() refuses whatever comes after it.                                *)
(***************************************************************************)
EXTENDS DeviceRuntime, Integers, SequenceTheorems, FiniteSetTheorems, TLAPS

Control == queue["Control"]

InnerLoop == {"Sending", "Noting", "Looking", "Coalescing", "Gap"}

\* The frames in a queue have its category.
CategoriesMatch ==
    \A c \in Categories : \A i \in 1..Len(queue[c]) : queue[c][i].cat = c

\* Stamps are those of accepted frames.
StampsGiven ==
    /\ \A i \in 1..Len(Control) : Control[i].stamp <= submitted
    /\ \A id \in Ids : newest[id] <= submitted
    /\ worker = "Sending" /\ request.cat = "Control" => request.stamp <= submitted

SendingIsInner == sending <=> worker \in InnerLoop

ExitedWasStopped ==
    /\ worker = "Exited" => stopRequested
    /\ ~started => worker = "Exited"

IndInv ==
    /\ TypeOK
    /\ StatsConserved
    /\ OneFramePerId
    /\ NewestControlWins
    /\ GapHasFrame
    /\ DrainedAtExit
    /\ CategoriesMatch
    /\ StampsGiven
    /\ SendingIsInner
    /\ ExitedWasStopped

-----------------------------------------------------------------------------
(* The operations on the queues *)

\* A plain frame is a frame.
LEMMA PlainFrame == \A c \in Categories : Plain(c) \in Request /\ Plain(c).cat = c
  BY IdsAssumption DEF Plain, Request

\* Replacing by id keeps the queue's length and the id at every position, and
\* each position keeps its frame or gets the new one.
LEMMA ReplaceFacts ==
  ASSUME NEW q \in Seq(Request), NEW r \in Request
  PROVE  /\ Replace(q, r) \in Seq(Request)
         /\ Len(Replace(q, r)) = Len(q)
         /\ \A i \in 1..Len(q) : /\ Replace(q, r)[i] \in {q[i], r}
                                 /\ Replace(q, r)[i].id = q[i].id
  <1> DEFINE e(i) == IF /\ q[i].id = r.id
                        /\ \A j \in 1..(i - 1) : q[j].id # r.id
                     THEN r ELSE q[i]
  <1>1. Len(q) \in Nat /\ \A i \in 1..Len(q) : q[i] \in Request
    BY ElementOfSeq, LenProperties
  <1>2. \A i \in 1..Len(q) : e(i) \in Request /\ e(i) \in {q[i], r} /\ e(i).id = q[i].id
    BY <1>1
  <1>3. Replace(q, r) = [i \in 1..Len(q) |-> e(i)]
    BY DEF Replace
  <1>4. Replace(q, r) \in [1..Len(q) -> Request]
    BY <1>2, <1>3
  <1>5. Replace(q, r) \in Seq(Request)
    BY <1>4, <1>1, SeqDef
  <1>6. Len(Replace(q, r)) = Len(q)
    BY <1>4, <1>5, <1>1, LenProperties
  <1>7. \A i \in 1..Len(q) : Replace(q, r)[i] = e(i)
    BY <1>3
  <1> QED BY <1>2, <1>5, <1>6, <1>7

\* What enqueueControlLocked does to a queue with one frame per id: the new
\* frame is in it, the rest was in it, ids stay unique, the depth is kept and
\* the length grows by one for every frame not given up.
LEMMA EnqueueControlFacts ==
  ASSUME NEW q \in Seq(Request), NEW r \in Request,
         Len(q) <= MaxDepth["Control"],
         \A i, j \in 1..Len(q) : q[i].id = q[j].id => i = j
  PROVE  LET p == EnqueueControl(q, r) IN
         /\ p \in Seq(Request)
         /\ p # <<>>
         /\ Len(p) <= MaxDepth["Control"]
         /\ Len(p) + (IF Evicts(q, r) THEN 1 ELSE 0) = Len(q) + 1
         /\ \A i \in 1..Len(p) : p[i] = r \/ \E j \in 1..Len(q) : p[i] = q[j]
         /\ \A i, j \in 1..Len(p) : p[i].id = p[j].id => i = j
  <1> DEFINE p == EnqueueControl(q, r)
  <1>0. MaxDepth["Control"] \in Nat \ {0} /\ Len(q) \in Nat
    BY DepthAssumption, LenProperties DEF Categories
  <1>1. CASE Queued(q, r.id)
    <2>1. p = Replace(q, r) /\ Evicts(q, r)
      BY <1>1 DEF EnqueueControl, Evicts
    <2>2. Len(q) # 0
      BY <1>1, <1>0 DEF Queued
    <2> HIDE DEF p
    <2>3. p \in Seq(Request) /\ Len(p) = Len(q)
      BY <2>1, ReplaceFacts
    <2>a. \A i \in 1..Len(q) : /\ Replace(q, r)[i] \in {q[i], r}
                               /\ Replace(q, r)[i].id = q[i].id
      BY ReplaceFacts
    <2>4. \A i \in 1..Len(q) : p[i] \in {q[i], r} /\ p[i].id = q[i].id
      BY <2>1, <2>a
    <2>5. p # <<>>
      BY <2>2, <2>3, EmptySeq
    <2>6. \A i, j \in 1..Len(p) : p[i].id = p[j].id => i = j
      BY <2>3, <2>4
    <2>7. \A i \in 1..Len(p) : p[i] = r \/ \E j \in 1..Len(q) : p[i] = q[j]
      BY <2>3, <2>4
    <2>8. Len(p) + (IF Evicts(q, r) THEN 1 ELSE 0) = Len(q) + 1
      BY <2>1, <2>3, <1>0
    <2>9. Len(p) <= MaxDepth["Control"]
      BY <2>3
    <2> QED BY <2>3, <2>5, <2>6, <2>7, <2>8, <2>9 DEF p
  <1>2. CASE ~Queued(q, r.id) /\ Len(q) >= MaxDepth["Control"]
    <2> DEFINE t == Tail(q)
    <2>1. p = Append(t, r) /\ Evicts(q, r)
      BY <1>2 DEF EnqueueControl, Evicts
    <2>2. q # <<>> /\ Len(q) # 0
      BY <1>0, <1>2, EmptySeq
    <2>3. /\ t \in Seq(Request) /\ Len(t) = Len(q) - 1
          /\ \A i \in 1..Len(t) : t[i] = q[i + 1]
      BY <2>2, HeadTailProperties
    <2>4. \A i \in 1..Len(q) : q[i].id # r.id
      BY <1>2 DEF Queued
    <2> HIDE DEF t
    <2>5. /\ p \in Seq(Request) /\ p # <<>> /\ Len(p) = Len(t) + 1
          /\ \A i \in 1..Len(t) : p[i] = t[i]
          /\ p[Len(t) + 1] = r
      BY <2>1, <2>3, AppendProperties
    <2> HIDE DEF p
    <2>6. Len(p) = Len(q)
      BY <2>3, <2>5, <1>0
    <2>7. \A i \in 1..Len(p) : (i < Len(q) /\ i + 1 \in 1..Len(q) /\ p[i] = q[i + 1])
                               \/ (i = Len(q) /\ p[i] = r)
      BY <2>3, <2>5, <2>6, <1>0
    <2>8. \A i \in 1..Len(p) : p[i] = r \/ \E j \in 1..Len(q) : p[i] = q[j]
      BY <2>7
    <2>9. \A i, j \in 1..Len(p) : p[i].id = p[j].id => i = j
      <3> SUFFICES ASSUME NEW i \in 1..Len(p), NEW j \in 1..Len(p), p[i].id = p[j].id
                   PROVE  i = j
        OBVIOUS
      <3>1. CASE i < Len(q) /\ j < Len(q)
        <4>1. i + 1 \in 1..Len(q) /\ j + 1 \in 1..Len(q) /\ q[i + 1].id = q[j + 1].id
          BY <3>1, <2>7
        <4>2. i + 1 = j + 1
          BY <4>1
        <4> QED BY <4>2
      <3>2. CASE i < Len(q) /\ j = Len(q)
        BY <3>2, <2>7, <2>4
      <3>3. CASE i = Len(q) /\ j < Len(q)
        BY <3>3, <2>7, <2>4
      <3> QED BY <3>1, <3>2, <3>3, <2>7
    <2>10. Len(p) + (IF Evicts(q, r) THEN 1 ELSE 0) = Len(q) + 1
      BY <2>1, <2>6, <1>0
    <2>11. Len(p) <= MaxDepth["Control"]
      BY <2>6
    <2> QED BY <2>5, <2>8, <2>9, <2>10, <2>11 DEF p
  <1>3. CASE ~Queued(q, r.id) /\ ~(Len(q) >= MaxDepth["Control"])
    <2>1. p = Append(q, r) /\ ~Evicts(q, r)
      BY <1>3 DEF EnqueueControl, Evicts
    <2>4. \A i \in 1..Len(q) : q[i].id # r.id
      BY <1>3 DEF Queued
    <2>5. /\ p \in Seq(Request) /\ p # <<>> /\ Len(p) = Len(q) + 1
          /\ \A i \in 1..Len(q) : p[i] = q[i]
          /\ p[Len(q) + 1] = r
      BY <2>1, AppendProperties
    <2> HIDE DEF p
    <2>7. \A i \in 1..Len(p) : (i \in 1..Len(q) /\ p[i] = q[i])
                               \/ (i = Len(q) + 1 /\ p[i] = r)
      BY <2>5, <1>0
    <2>8. \A i \in 1..Len(p) : p[i] = r \/ \E j \in 1..Len(q) : p[i] = q[j]
      BY <2>7
    <2>9. \A i, j \in 1..Len(p) : p[i].id = p[j].id => i = j
      <3> SUFFICES ASSUME NEW i \in 1..Len(p), NEW j \in 1..Len(p), p[i].id = p[j].id
                   PROVE  i = j
        OBVIOUS
      <3> QED BY <2>7, <2>4
    <2>10. Len(p) + (IF Evicts(q, r) THEN 1 ELSE 0) = Len(q) + 1
      BY <2>1, <2>5, <1>0
    <2>11. Len(p) <= MaxDepth["Control"]
      BY <2>5, <1>3, <1>0
    <2> QED BY <2>5, <2>8, <2>9, <2>10, <2>11 DEF p
  <1> QED BY <1>1, <1>2, <1>3

-----------------------------------------------------------------------------
(* The inductive invariant *)

\* Initially the queues are empty and nothing was counted.
LEMMA InitIndInv == Init => IndInv
  <1> SUFFICES ASSUME Init PROVE IndInv
    OBVIOUS
  <1>1. \A c \in Categories : queue[c] = <<>> /\ Len(queue[c]) = 0
    BY EmptySeq DEF Init
  <1>2. queue \in [Categories -> Seq(Request)]
    BY EmptySeq DEF Init
  <1>3. Plain("Control") \in Request
    BY PlainFrame DEF Categories
  <1>4. TypeOK
    <2>1. \A c \in Categories : Len(queue[c]) <= MaxDepth[c]
      BY <1>1, DepthAssumption
    <2>2. stopRequested \in BOOLEAN /\ started \in BOOLEAN /\ sending \in BOOLEAN
      BY Zenon DEF Init
    <2>3. backpressure \in 0..(MaxBackpressureRetries - 1)
      BY RetriesAssumption DEF Init
    <2> QED BY <1>2, <1>3, <2>1, <2>2, <2>3 DEF Init, TypeOK, WorkerStates
  <1>5. Control = <<>> /\ Len(Control) = 0
    BY <1>1 DEF Control, Categories
  <1>6. StatsConserved
    BY <1>1 DEF Init, StatsConserved, Pending, Holding, Categories
  <1>7. OneFramePerId /\ NewestControlWins /\ GapHasFrame /\ DrainedAtExit
    BY <1>5 DEF Init, OneFramePerId, NewestControlWins, GapHasFrame, DrainedAtExit, Control
  <1>8. CategoriesMatch
    BY <1>1 DEF CategoriesMatch
  <1>9. StampsGiven
    BY <1>5 DEF Init, StampsGiven
  <1>10. SendingIsInner /\ ExitedWasStopped
    <2>1. worker = "Waiting" /\ "Waiting" \notin InnerLoop /\ worker # "Exited"
      BY DEF Init, InnerLoop
    <2> QED BY <2>1, Zenon DEF Init, SendingIsInner, ExitedWasStopped
  <1> QED BY <1>4, <1>6, <1>7, <1>8, <1>9, <1>10 DEF IndInv

\* What taking the front of a queue does.
LEMMA TakeFacts ==
  ASSUME TypeOK, NEW c \in Categories, Take(c)
  PROVE  /\ queue' \in [Categories -> Seq(Request)]
         /\ request' \in Request
         /\ 1 \in 1..Len(queue[c]) /\ request' = queue[c][1]
         /\ Len(queue'[c]) = Len(queue[c]) - 1
         /\ \A i \in 1..Len(queue'[c]) :
               i + 1 \in 1..Len(queue[c]) /\ queue'[c][i] = queue[c][i + 1]
         /\ \A d \in Categories \ {c} : queue'[d] = queue[d]
  <1> DEFINE q == queue[c]
  <1>1. q \in Seq(Request) /\ q # <<>> /\ request' = Head(q)
    BY DEF Take, TypeOK
  <1>2. queue' = [queue EXCEPT ![c] = Tail(q)]
    BY DEF Take
  <1>3. /\ Head(q) \in Request /\ Tail(q) \in Seq(Request) /\ Len(Tail(q)) = Len(q) - 1
        /\ \A i \in 1..Len(Tail(q)) : Tail(q)[i] = q[i + 1]
    BY <1>1, HeadTailProperties
  <1>4. Len(q) \in Nat \ {0}
    BY <1>1, EmptySeq
  <1>5. queue'[c] = Tail(q) /\ \A d \in Categories \ {c} : queue'[d] = queue[d]
    BY <1>2 DEF TypeOK
  <1>6. queue' \in [Categories -> Seq(Request)]
    BY <1>2, <1>3 DEF TypeOK
  <1>7. Head(q) = q[1]
    BY <1>1, <1>4
  <1>8. \A i \in 1..Len(Tail(q)) : i + 1 \in 1..Len(q)
    BY <1>3, <1>4
  <1> HIDE DEF q
  <1> QED BY <1>1, <1>3, <1>4, <1>5, <1>6, <1>7, <1>8 DEF q

\* The sum of four numbers is a number.
LEMMA SumOfFour == \A k, l, m, n \in Nat : k + l + m + n \in Nat
  OBVIOUS

\* The queues' lengths are numbers, so that sums of them can be compared.
LEMMA Lengths ==
  ASSUME TypeOK
  PROVE  /\ \A c \in Categories : queue[c] \in Seq(Request) /\ Len(queue[c]) \in Nat
         /\ Len(queue["Control"]) \in Nat /\ Len(queue["Recover"]) \in Nat
         /\ Len(queue["Config"]) \in Nat /\ Len(queue["Query"]) \in Nat
         /\ Pending \in Nat
  <1>1. \A c \in Categories : queue[c] \in Seq(Request) /\ Len(queue[c]) \in Nat
    BY LenProperties DEF TypeOK
  <1>2. /\ Len(queue["Control"]) \in Nat /\ Len(queue["Recover"]) \in Nat
        /\ Len(queue["Config"]) \in Nat /\ Len(queue["Query"]) \in Nat
    BY <1>1, Zenon DEF Categories
  <1>3. Pending \in Nat
    BY <1>2, SumOfFour, Zenon DEF Pending
  <1> QED BY <1>1, <1>2, <1>3, Zenon

\* When one queue changes its length by x, so does their sum.
LEMMA PendingGrows ==
  ASSUME TypeOK, NEW c \in Categories, NEW x \in Int,
         Len(queue'[c]) = Len(queue[c]) + x,
         \A d \in Categories \ {c} : queue'[d] = queue[d]
  PROVE  Pending' = Pending + x
  <1> DEFINE k == Len(queue["Control"])
             l == Len(queue["Recover"])
             m == Len(queue["Config"])
             n == Len(queue["Query"])
  <1>1. k \in Nat /\ l \in Nat /\ m \in Nat /\ n \in Nat
    BY Lengths, Zenon
  <1>2. Pending = k + l + m + n /\ Pending' = k' + l' + m' + n'
    BY Zenon DEF Pending
  <1>3. \/ k' = k + x /\ l' = l /\ m' = m /\ n' = n
        \/ k' = k /\ l' = l + x /\ m' = m /\ n' = n
        \/ k' = k /\ l' = l /\ m' = m + x /\ n' = n
        \/ k' = k /\ l' = l /\ m' = m /\ n' = n + x
    BY DEF Categories
  <1> HIDE DEF k, l, m, n
  <1> QED BY <1>1, <1>2, <1>3

\* Taking a frame from any queue, at a point where the worker holds none.
LEMMA StepTake ==
  ASSUME IndInv, NEW c \in Categories, Take(c),
         worker \in {"Waiting", "Looking", "Coalescing", "Gap"},
         sending' = TRUE
  PROVE  IndInv'
  <1>0. /\ TypeOK /\ StatsConserved /\ OneFramePerId /\ NewestControlWins /\ CategoriesMatch
        /\ StampsGiven /\ ExitedWasStopped
    BY DEF IndInv
  <1>a. /\ queue' \in [Categories -> Seq(Request)]
        /\ request' \in Request
        /\ 1 \in 1..Len(queue[c]) /\ request' = queue[c][1]
        /\ Len(queue'[c]) = Len(queue[c]) - 1
        /\ \A i \in 1..Len(queue'[c]) :
              i + 1 \in 1..Len(queue[c]) /\ queue'[c][i] = queue[c][i + 1]
        /\ \A d \in Categories \ {c} : queue'[d] = queue[d]
    BY <1>0, TakeFacts
  <1>b. /\ worker' = "Sending"
        /\ UNCHANGED <<sender, submitted, evicted, dropped, reads, stopRequested, started,
                       sent, failed, reported, completions, newest, backpressure>>
    BY DEF Take, flags, counters
  <1>c. \A d \in Categories : Len(queue[d]) \in Nat
    BY <1>0, Lengths
  <1>2. TypeOK'
    <2>1. ASSUME NEW d \in Categories PROVE Len(queue'[d]) <= MaxDepth[d]
      <3>1. MaxDepth[d] \in Nat /\ Len(queue[d]) \in Nat /\ Len(queue[d]) <= MaxDepth[d]
        BY <1>0, <1>c, DepthAssumption DEF TypeOK
      <3> QED BY <3>1, <1>a
    <2>2. stopRequested' \in BOOLEAN /\ started' \in BOOLEAN /\ sending' \in BOOLEAN
      BY <1>0, <1>b, Zenon DEF TypeOK
    <2> QED BY <2>1, <2>2, <1>0, <1>a, <1>b DEF TypeOK, WorkerStates
  <1>3. StatsConserved'
    <2>1. Pending' = Pending + -1
      <3>1. Len(queue'[c]) = Len(queue[c]) + -1
        BY <1>a, <1>c
      <3> QED BY <3>1, <1>a, <1>0, PendingGrows
    <2>2. Pending \in Nat
      BY <1>0, Lengths
    <2>3. Holding = 0 /\ Holding' = 1
      BY <1>b DEF Holding
    <2> HIDE DEF Pending
    <2> QED BY <2>1, <2>2, <2>3, <1>0, <1>b DEF StatsConserved, TypeOK
  <1>4. CategoriesMatch'
    <2> SUFFICES ASSUME NEW d \in Categories, NEW i \in 1..Len(queue'[d])
                 PROVE  queue'[d][i].cat = d
      BY DEF CategoriesMatch
    <2>1. CASE d = c
      BY <2>1, <1>0, <1>a DEF CategoriesMatch
    <2>2. CASE d # c
      BY <2>2, <1>0, <1>a DEF CategoriesMatch
    <2> QED BY <2>1, <2>2
  <1>5. request'.cat = c
    BY <1>0, <1>a DEF CategoriesMatch
  <1>6. OneFramePerId' /\ NewestControlWins' /\ StampsGiven'
    <2>1. CASE c = "Control"
      <3>1. /\ Len(Control') = Len(Control) - 1
            /\ request' = Control[1] /\ 1 \in 1..Len(Control)
            /\ \A i \in 1..Len(Control') :
                  i + 1 \in 1..Len(Control) /\ Control'[i] = Control[i + 1]
        BY <2>1, <1>a DEF Control
      <3>2. Len(Control) \in Nat /\ Len(Control') \in Nat
        BY <1>0, <3>1, Lengths DEF Control
      <3>3. OneFramePerId'
        <4> SUFFICES ASSUME NEW i \in 1..Len(Control'), NEW j \in 1..Len(Control'),
                            Control'[i].id = Control'[j].id
                     PROVE  i = j
          BY DEF OneFramePerId, Control
        <4>1. i + 1 = j + 1
          BY <3>1, <1>0 DEF OneFramePerId, Control
        <4> QED BY <4>1, <3>2
      <3>4. \A i \in 1..Len(Control') : request'.id # Control'[i].id
        BY <3>1, <3>2, <1>0 DEF OneFramePerId, Control
      <3>5. NewestControlWins'
        BY <3>1, <3>4, <1>0, <1>b DEF NewestControlWins, Control
      <3>6. StampsGiven'
        BY <3>1, <1>0, <1>b DEF StampsGiven
      <3> QED BY <3>3, <3>5, <3>6
    <2>2. CASE c # "Control"
      <3>1. UNCHANGED Control
        BY <2>2, <1>a DEF Control, Categories
      <3>2. OneFramePerId'
        BY <3>1, <1>0 DEF OneFramePerId, Control
      <3>3. NewestControlWins'
        BY <3>1, <1>0, <1>5, <1>b, <2>2 DEF NewestControlWins, Control
      <3>4. StampsGiven'
        BY <3>1, <1>0, <1>5, <1>b, <2>2 DEF StampsGiven
      <3> QED BY <3>2, <3>3, <3>4
    <2> QED BY <2>1, <2>2
  <1>7. GapHasFrame' /\ DrainedAtExit'
    BY <1>b DEF GapHasFrame, DrainedAtExit
  <1>8. SendingIsInner'
    BY <1>b DEF SendingIsInner, InnerLoop
  <1>9. ExitedWasStopped'
    <2>1. started
      BY <1>0, Zenon DEF ExitedWasStopped
    <2> QED BY <2>1, <1>b DEF ExitedWasStopped
  <1> QED BY <1>2, <1>3, <1>4, <1>6, <1>7, <1>8, <1>9 DEF IndInv

\* submit() of a control frame.
LEMMA StepAcceptControl ==
  ASSUME IndInv, NEW s \in Senders, NEW id \in Ids, AcceptControl(s, id)
  PROVE  IndInv'
  <1> DEFINE r == [cat |-> "Control", id |-> id, stamp |-> submitted + 1]
  <1>0. /\ TypeOK /\ StatsConserved /\ OneFramePerId /\ NewestControlWins /\ CategoriesMatch
        /\ StampsGiven /\ SendingIsInner /\ ExitedWasStopped
    BY DEF IndInv
  <1>a. /\ queue' = [queue EXCEPT !["Control"] = EnqueueControl(queue["Control"], r)]
        /\ evicted' = evicted + (IF Evicts(queue["Control"], r) THEN 1 ELSE 0)
        /\ submitted' = submitted + 1
        /\ ~stopRequested
        /\ UNCHANGED <<reads, sender, dropped, stopRequested, started, sent, failed, reported,
                       completions, newest, sending, worker, request, backpressure>>
    BY DEF AcceptControl, flags, counters, Refused
  <1>b. "Control" \in Categories /\ r \in Request /\ submitted \in Nat
    BY <1>0 DEF Categories, Request, TypeOK
  <1>c. /\ Control \in Seq(Request) /\ Len(Control) <= MaxDepth["Control"]
        /\ \A i, j \in 1..Len(Control) : Control[i].id = Control[j].id => i = j
    BY <1>0, <1>b DEF TypeOK, OneFramePerId, Control
  <1>d. /\ Control' = EnqueueControl(Control, r)
        /\ \A d \in Categories \ {"Control"} : queue'[d] = queue[d]
    BY <1>a, <1>0, <1>b DEF TypeOK, Control
  <1> HIDE DEF r
  <1>e. /\ Control' \in Seq(Request)
        /\ Control' # <<>>
        /\ Len(Control') <= MaxDepth["Control"]
        /\ Len(Control') + (IF Evicts(Control, r) THEN 1 ELSE 0) = Len(Control) + 1
        /\ \A i \in 1..Len(Control') :
              Control'[i] = r \/ \E j \in 1..Len(Control) : Control'[i] = Control[j]
        /\ \A i, j \in 1..Len(Control') : Control'[i].id = Control'[j].id => i = j
    <2> DEFINE q == Control
               p == EnqueueControl(q, r)
    <2>1. /\ q \in Seq(Request) /\ r \in Request /\ Len(q) <= MaxDepth["Control"]
          /\ \A i, j \in 1..Len(q) : q[i].id = q[j].id => i = j
      BY <1>b, <1>c
    <2> HIDE DEF q
    <2>2. /\ p \in Seq(Request)
          /\ p # <<>>
          /\ Len(p) <= MaxDepth["Control"]
          /\ Len(p) + (IF Evicts(q, r) THEN 1 ELSE 0) = Len(q) + 1
          /\ \A i \in 1..Len(p) : p[i] = r \/ \E j \in 1..Len(q) : p[i] = q[j]
          /\ \A i, j \in 1..Len(p) : p[i].id = p[j].id => i = j
      BY <2>1, EnqueueControlFacts
    <2>3. Control' = p
      BY <1>d DEF q
    <2> HIDE DEF p
    <2> QED BY <2>2, <2>3 DEF q
  <1>f. r.cat = "Control" /\ r.id = id /\ r.stamp = submitted + 1
    BY DEF r
  <1>1. TypeOK'
    <2>1. queue' \in [Categories -> Seq(Request)]
      BY <1>0, <1>a, <1>d, <1>e DEF TypeOK, Control
    <2>2. ASSUME NEW d \in Categories PROVE Len(queue'[d]) <= MaxDepth[d]
      BY <1>0, <1>d, <1>e DEF TypeOK, Control
    <2>3. stopRequested' \in BOOLEAN /\ started' \in BOOLEAN /\ sending' \in BOOLEAN
      BY <1>0, <1>a, Zenon DEF TypeOK
    <2>4. evicted' \in Nat /\ submitted' \in Nat
      BY <1>0, <1>a DEF TypeOK
    <2> QED BY <2>1, <2>2, <2>3, <2>4, <1>0, <1>a DEF TypeOK
  <1>2. StatsConserved'
    <2> DEFINE e == IF Evicts(Control, r) THEN 1 ELSE 0
    <2>1. e \in {0, 1} /\ evicted' = evicted + e
      BY <1>a DEF Control
    <2> HIDE DEF e
    <2>2. Len(Control) \in Nat /\ Len(Control') \in Nat
      BY <1>c, <1>e, LenProperties
    <2>3. Len(Control') = Len(Control) + (1 - e)
      <3>1. Len(Control') + e = Len(Control) + 1
        BY <1>e DEF e
      <3> QED BY <2>1, <2>2, <3>1
    <2>4. Pending' = Pending + (1 - e)
      <3>1. 1 - e \in Int
        BY <2>1
      <3>2. Len(queue'["Control"]) = Len(queue["Control"]) + (1 - e)
        BY <2>3 DEF Control
      <3> QED BY <3>1, <3>2, <1>0, <1>b, <1>d, PendingGrows
    <2>5. Pending \in Nat
      BY <1>0, Lengths
    <2>6. Holding' = Holding /\ Holding \in {0, 1}
      BY <1>a DEF Holding
    <2> QED BY <2>1, <2>4, <2>5, <2>6, <1>0, <1>a DEF StatsConserved, TypeOK
  <1>3. OneFramePerId'
    BY <1>e DEF OneFramePerId, Control
  <1>4. NewestControlWins'
    <2>1. ASSUME NEW i \in 1..Len(Control')
          PROVE  /\ newest'[Control'[i].id] < Control'[i].stamp
                 /\ worker' = "Sending" /\ request'.cat = "Control"
                       /\ request'.id = Control'[i].id
                       => request'.stamp < Control'[i].stamp
      <3>1. CASE Control'[i] = r
        <4>1. newest[id] <= submitted /\ newest[id] \in Nat
          BY <1>0 DEF StampsGiven, TypeOK
        <4>2. worker = "Sending" /\ request.cat = "Control" => request.stamp <= submitted
          BY <1>0 DEF StampsGiven
        <4>3. request.stamp \in Nat
          BY <1>0 DEF TypeOK, Request
        <4> QED BY <3>1, <4>1, <4>2, <4>3, <1>a, <1>b, <1>f
      <3>2. CASE \E j \in 1..Len(Control) : Control'[i] = Control[j]
        BY <3>2, <1>0, <1>a DEF NewestControlWins, Control
      <3> QED BY <3>1, <3>2, <1>e
    <2> QED BY <2>1, <1>0, <1>a DEF NewestControlWins, Control
  <1>5. StampsGiven'
    <2>1. ASSUME NEW i \in 1..Len(Control') PROVE Control'[i].stamp <= submitted'
      <3>1. CASE Control'[i] = r
        BY <3>1, <1>a, <1>b, <1>f
      <3>2. CASE \E j \in 1..Len(Control) : Control'[i] = Control[j]
        <4>1. PICK j \in 1..Len(Control) : Control'[i] = Control[j]
          BY <3>2
        <4>a. Control[j] \in Request
          BY <1>c, ElementOfSeq
        <4>2. Control[j].stamp \in Nat /\ Control[j].stamp <= submitted
          BY <4>a, <1>0 DEF StampsGiven, Request
        <4> QED BY <4>1, <4>2, <1>a, <1>b
      <3> QED BY <3>1, <3>2, <1>e
    <2>2. ASSUME NEW k \in Ids PROVE newest'[k] <= submitted'
      BY <1>0, <1>a, <1>b DEF StampsGiven, TypeOK
    <2>3. worker' = "Sending" /\ request'.cat = "Control" => request'.stamp <= submitted'
      <3>1. request.stamp \in Nat
        BY <1>0 DEF TypeOK, Request
      <3> QED BY <3>1, <1>0, <1>a, <1>b DEF StampsGiven
    <2> QED BY <2>1, <2>2, <2>3 DEF StampsGiven
  <1>6. CategoriesMatch'
    <2> SUFFICES ASSUME NEW d \in Categories, NEW i \in 1..Len(queue'[d])
                 PROVE  queue'[d][i].cat = d
      BY DEF CategoriesMatch
    <2>1. CASE d = "Control"
      BY <2>1, <1>0, <1>b, <1>e, <1>f DEF CategoriesMatch, Control
    <2>2. CASE d # "Control"
      BY <2>2, <1>0, <1>d DEF CategoriesMatch
    <2> QED BY <2>1, <2>2
  <1>7. GapHasFrame'
    BY <1>e DEF GapHasFrame, Control
  <1>8. DrainedAtExit'
    BY <1>0, <1>a DEF DrainedAtExit, ExitedWasStopped
  <1>9. SendingIsInner' /\ ExitedWasStopped'
    BY <1>0, <1>a DEF SendingIsInner, ExitedWasStopped
  <1> QED BY <1>1, <1>2, <1>3, <1>4, <1>5, <1>6, <1>7, <1>8, <1>9 DEF IndInv

\* submit() of another frame.
LEMMA StepAcceptPlain ==
  ASSUME IndInv, NEW s \in Senders, NEW c \in Categories, AcceptPlain(s, c)
  PROVE  IndInv'
  <1>0. /\ TypeOK /\ StatsConserved /\ OneFramePerId /\ NewestControlWins /\ CategoriesMatch
        /\ GapHasFrame /\ StampsGiven /\ SendingIsInner /\ ExitedWasStopped
    BY DEF IndInv
  <1>a. /\ c # "Control"
        /\ queue' = [queue EXCEPT ![c] = Append(queue[c], Plain(c))]
        /\ submitted' = submitted + 1 /\ evicted' = evicted
        /\ reads' = reads + IsQuery(c)
        /\ ~stopRequested /\ ~(Len(queue[c]) >= MaxDepth[c])
        /\ UNCHANGED <<sender, dropped, stopRequested, started, sent, failed, reported,
                       completions, newest, sending, worker, request, backpressure>>
    BY DEF AcceptPlain, flags, counters, Refused
  <1>b. Plain(c) \in Request /\ Plain(c).cat = c
    BY PlainFrame
  <1>c. queue[c] \in Seq(Request) /\ Len(queue[c]) \in Nat /\ MaxDepth[c] \in Nat
    BY <1>0, Lengths, DepthAssumption
  <1>d. /\ queue'[c] = Append(queue[c], Plain(c))
        /\ \A d \in Categories \ {c} : queue'[d] = queue[d]
    BY <1>a, <1>0 DEF TypeOK
  <1>e. /\ queue'[c] \in Seq(Request) /\ Len(queue'[c]) = Len(queue[c]) + 1
        /\ \A i \in 1..Len(queue[c]) : queue'[c][i] = queue[c][i]
        /\ queue'[c][Len(queue[c]) + 1] = Plain(c)
    BY <1>b, <1>c, <1>d, AppendProperties
  <1>f. UNCHANGED Control
    BY <1>a, <1>d DEF Control, Categories
  <1>1. TypeOK'
    <2>1. queue' \in [Categories -> Seq(Request)]
      BY <1>0, <1>a, <1>d, <1>e DEF TypeOK
    <2>2. ASSUME NEW d \in Categories PROVE Len(queue'[d]) <= MaxDepth[d]
      BY <1>0, <1>a, <1>c, <1>d, <1>e DEF TypeOK
    <2>3. stopRequested' \in BOOLEAN /\ started' \in BOOLEAN /\ sending' \in BOOLEAN
      BY <1>0, <1>a, Zenon DEF TypeOK
    <2>4. reads' \in Nat /\ submitted' \in Nat
      BY <1>0, <1>a DEF TypeOK, IsQuery
    <2> QED BY <2>1, <2>2, <2>3, <2>4, <1>0, <1>a DEF TypeOK
  <1>2. StatsConserved'
    <2>1. Pending' = Pending + 1
      BY <1>0, <1>d, <1>e, PendingGrows
    <2>2. Pending \in Nat
      BY <1>0, Lengths
    <2>3. Holding' = Holding /\ Holding \in {0, 1}
      BY <1>a DEF Holding
    <2> QED BY <2>1, <2>2, <2>3, <1>0, <1>a DEF StatsConserved, TypeOK
  <1>3. OneFramePerId' /\ NewestControlWins' /\ GapHasFrame'
    BY <1>0, <1>a, <1>f DEF OneFramePerId, NewestControlWins, GapHasFrame, Control
  <1>4. StampsGiven'
    <2>1. ASSUME NEW i \in 1..Len(Control) PROVE Control[i].stamp <= submitted'
      <3>1. Control \in Seq(Request)
        BY <1>0 DEF TypeOK, Control, Categories
      <3>a. Control[i] \in Request
        BY <3>1, ElementOfSeq
      <3>2. Control[i].stamp \in Nat /\ Control[i].stamp <= submitted
        BY <3>a, <1>0 DEF StampsGiven, Request
      <3> QED BY <3>2, <1>a, <1>0 DEF TypeOK
    <2>2. ASSUME NEW k \in Ids PROVE newest'[k] <= submitted'
      BY <1>0, <1>a DEF StampsGiven, TypeOK
    <2>3. worker' = "Sending" /\ request'.cat = "Control" => request'.stamp <= submitted'
      <3>1. request.stamp \in Nat /\ submitted \in Nat
        BY <1>0 DEF TypeOK, Request
      <3> QED BY <3>1, <1>0, <1>a DEF StampsGiven
    <2> QED BY <2>1, <2>2, <2>3, <1>f DEF StampsGiven
  <1>5. CategoriesMatch'
    <2> SUFFICES ASSUME NEW d \in Categories, NEW i \in 1..Len(queue'[d])
                 PROVE  queue'[d][i].cat = d
      BY DEF CategoriesMatch
    <2>1. CASE d = c
      <3>1. CASE i \in 1..Len(queue[c])
        BY <3>1, <2>1, <1>0, <1>e DEF CategoriesMatch
      <3>2. CASE i = Len(queue[c]) + 1
        BY <3>2, <2>1, <1>b, <1>e
      <3> QED BY <3>1, <3>2, <2>1, <1>c, <1>e
    <2>2. CASE d # c
      BY <2>2, <1>0, <1>d DEF CategoriesMatch
    <2> QED BY <2>1, <2>2
  <1>6. DrainedAtExit'
    BY <1>0, <1>a DEF DrainedAtExit, ExitedWasStopped
  <1>7. SendingIsInner' /\ ExitedWasStopped'
    BY <1>0, <1>a DEF SendingIsInner, ExitedWasStopped
  <1> QED BY <1>1, <1>2, <1>3, <1>4, <1>5, <1>6, <1>7 DEF IndInv

\* Steps that leave the queues, the counts of accepted and evicted frames, the
\* worker's position and the frame in its hand alone.
LEMMA StepAside ==
  ASSUME IndInv, TypeOK',
         UNCHANGED <<queue, submitted, evicted, sent, failed, reported, newest, worker,
                     request, sending>>,
         ExitedWasStopped'
  PROVE  IndInv'
  <1>1. StatsConserved' /\ OneFramePerId' /\ NewestControlWins'
    BY DEF IndInv, StatsConserved, Pending, Holding, OneFramePerId, NewestControlWins
  <1>2. GapHasFrame' /\ DrainedAtExit' /\ CategoriesMatch' /\ StampsGiven' /\ SendingIsInner'
    BY DEF IndInv, GapHasFrame, DrainedAtExit, AllQueuesEmpty, CategoriesMatch, StampsGiven,
           Control, SendingIsInner
  <1> QED BY <1>1, <1>2 DEF IndInv

\* submit() of a frame that is dropped, and its completion.
LEMMA StepDropped ==
  ASSUME IndInv, NEW s \in Senders,
         (\E c \in Categories : Refuse(s, c)) \/ CompleteDropped(s)
  PROVE  IndInv'
  <1>0. TypeOK /\ ExitedWasStopped
    BY DEF IndInv
  <1>1. CASE \E c \in Categories : Refuse(s, c)
    <2>1. PICK c \in Categories : Refuse(s, c)
      BY <1>1
    <2>2. /\ UNCHANGED <<queue, submitted, evicted, sent, failed, reported, newest, worker,
                         request, sending, stopRequested, started, completions, backpressure>>
          /\ dropped' = dropped + 1 /\ reads' = reads + IsQuery(c)
          /\ sender' = [sender EXCEPT ![s] = c]
      BY <2>1 DEF Refuse, flags, counters
    <2>3. stopRequested' \in BOOLEAN /\ started' \in BOOLEAN /\ sending' \in BOOLEAN
      BY <1>0, <2>2, Zenon DEF TypeOK
    <2>4. TypeOK'
      BY <1>0, <2>2, <2>3 DEF TypeOK, IsQuery
    <2>5. ExitedWasStopped'
      BY <1>0, <2>2 DEF ExitedWasStopped
    <2> QED BY <2>2, <2>4, <2>5, StepAside
  <1>2. CASE CompleteDropped(s)
    <2>2. /\ UNCHANGED <<queue, submitted, evicted, sent, failed, reported, newest, worker,
                         request, sending, stopRequested, started, dropped, reads, backpressure>>
          /\ completions' = completions + IsQuery(sender[s])
          /\ sender' = [sender EXCEPT ![s] = "Idle"]
      BY <1>2 DEF CompleteDropped, flags
    <2>3. stopRequested' \in BOOLEAN /\ started' \in BOOLEAN /\ sending' \in BOOLEAN
      BY <1>0, <2>2, Zenon DEF TypeOK
    <2>4. TypeOK'
      BY <1>0, <2>2, <2>3 DEF TypeOK, IsQuery
    <2>5. ExitedWasStopped'
      BY <1>0, <2>2 DEF ExitedWasStopped
    <2> QED BY <2>2, <2>4, <2>5, StepAside
  <1> QED BY <1>1, <1>2

\* start() and shutdown().
LEMMA StepOwner ==
  ASSUME IndInv, OwnerStep
  PROVE  IndInv'
  <1>0. TypeOK /\ ExitedWasStopped /\ SendingIsInner
    BY DEF IndInv
  <1>1. CASE RequestStop
    <2>1. /\ UNCHANGED <<queues, sent, failed, reported, completions, newest, started, sending,
                         worker, request, backpressure>>
          /\ stopRequested'
      BY <1>1 DEF RequestStop, counters
    <2>2. TypeOK'
      <3>1. stopRequested' \in BOOLEAN /\ started' \in BOOLEAN /\ sending' \in BOOLEAN
        BY <1>0, <1>1, Zenon DEF TypeOK, RequestStop
      <3> QED BY <1>0, <2>1, <3>1 DEF TypeOK, queues
    <2>3. ExitedWasStopped'
      BY <1>0, <2>1 DEF ExitedWasStopped
    <2> QED BY <2>1, <2>2, <2>3, StepAside DEF queues
  <1>2. CASE FinishShutdown
    <2>1. /\ UNCHANGED <<queues, sent, failed, reported, completions, newest, stopRequested,
                         worker, request, backpressure>>
          /\ worker = "Exited"
      BY <1>2 DEF FinishShutdown, counters
    <2>2. started' = FALSE /\ sending' = FALSE /\ stopRequested
      BY <1>2 DEF FinishShutdown
    <2>3. TypeOK'
      <3>1. stopRequested' \in BOOLEAN /\ started' \in BOOLEAN /\ sending' \in BOOLEAN
        BY <1>0, <2>1, <2>2, Zenon DEF TypeOK
      <3> QED BY <1>0, <2>1, <3>1 DEF TypeOK, queues
    <2>4. ExitedWasStopped'
      BY <2>1, <2>2 DEF ExitedWasStopped
    <2>5. ~sending
      BY <1>0, <2>1 DEF SendingIsInner, InnerLoop
    <2>6. sending' = sending
      BY <2>2, <2>5, <1>0, Zenon DEF TypeOK
    <2> QED BY <2>1, <2>3, <2>4, <2>6, StepAside DEF queues
  <1>3. CASE Start
    <2>1. /\ UNCHANGED <<queues, sent, failed, reported, completions, newest, sending, request>>
          /\ worker' = "Waiting" /\ backpressure' = 0
      BY <1>3 DEF Start, counters
    <2>2. started' = TRUE /\ stopRequested' = FALSE /\ ~started
      BY <1>3 DEF Start
    <2>3. worker = "Exited"
      BY <1>0, <2>2 DEF ExitedWasStopped
    <2>4. TypeOK'
      <3>1. stopRequested' \in BOOLEAN /\ started' \in BOOLEAN /\ sending' \in BOOLEAN
        BY <1>0, <2>1, <2>2, Zenon DEF TypeOK
      <3>2. backpressure' \in 0..(MaxBackpressureRetries - 1)
        BY <2>1, RetriesAssumption
      <3> QED BY <1>0, <2>1, <3>1, <3>2 DEF TypeOK, queues, WorkerStates
    <2>5. StatsConserved'
      BY <2>1, <2>3 DEF IndInv, StatsConserved, Pending, Holding, queues
    <2>6. OneFramePerId' /\ NewestControlWins' /\ GapHasFrame' /\ DrainedAtExit'
      BY <2>1, <2>3 DEF IndInv, OneFramePerId, NewestControlWins, GapHasFrame, DrainedAtExit,
                        queues
    <2>7. CategoriesMatch' /\ StampsGiven'
      BY <2>1, <2>3 DEF IndInv, CategoriesMatch, StampsGiven, Control, queues
    <2>8. SendingIsInner' /\ ExitedWasStopped'
      BY <1>0, <2>1, <2>2, <2>3 DEF SendingIsInner, ExitedWasStopped, InnerLoop
    <2> QED BY <2>4, <2>5, <2>6, <2>7, <2>8 DEF IndInv
  <1> QED BY <1>1, <1>2, <1>3 DEF OwnerStep

\* Steps of the worker that only move it: none ends holding a frame or owing a
\* report.
LEMMA StepMove ==
  ASSUME IndInv, Exit \/ AwaitBurst \/ EndBurst \/ BeginGap
  PROVE  IndInv'
  <1>0. TypeOK /\ ExitedWasStopped /\ SendingIsInner
    BY DEF IndInv
  <1>1. /\ UNCHANGED <<queues, stopRequested, started, sent, failed, reported, completions,
                       newest, request, backpressure>>
        /\ worker \in {"Waiting", "Looking", "Coalescing"}
        /\ worker' \in {"Exited", "Coalescing", "Waiting", "Gap"}
        /\ worker' = "Gap" => queue["Control"] # <<>>
        /\ worker' = "Exited" => stopRequested /\ AllQueuesEmpty
    BY DEF Exit, AwaitBurst, EndBurst, BeginGap, Resumes, flags, counters
  <1>2. SendingIsInner' /\ sending' \in BOOLEAN
    <2>1. CASE Exit
      BY <2>1 DEF Exit, SendingIsInner, InnerLoop
    <2>2. CASE EndBurst
      BY <2>2 DEF EndBurst, SendingIsInner, InnerLoop
    <2>3. CASE AwaitBurst
      <3>1. worker \in InnerLoop /\ worker' \in InnerLoop /\ sending' = sending
        BY <2>3 DEF AwaitBurst, InnerLoop
      <3> QED BY <3>1, <1>0, Zenon DEF SendingIsInner, TypeOK
    <2>4. CASE BeginGap
      <3>1. worker \in InnerLoop /\ worker' \in InnerLoop /\ sending' = sending
        BY <2>4 DEF BeginGap, Resumes, InnerLoop
      <3> QED BY <3>1, <1>0, Zenon DEF SendingIsInner, TypeOK
    <2> QED BY <2>1, <2>2, <2>3, <2>4
  <1>3. TypeOK'
    <2>1. stopRequested' \in BOOLEAN /\ started' \in BOOLEAN
      BY <1>0, <1>1, Zenon DEF TypeOK
    <2> QED BY <1>0, <1>1, <1>2, <2>1 DEF TypeOK, queues, WorkerStates
  <1>4. StatsConserved'
    BY <1>1 DEF IndInv, StatsConserved, Pending, Holding, queues
  <1>5. OneFramePerId' /\ NewestControlWins' /\ GapHasFrame' /\ DrainedAtExit'
    BY <1>1 DEF IndInv, OneFramePerId, NewestControlWins, GapHasFrame, DrainedAtExit,
                AllQueuesEmpty, queues
  <1>6. CategoriesMatch' /\ StampsGiven'
    BY <1>1 DEF IndInv, CategoriesMatch, StampsGiven, Control, queues
  <1>7. ExitedWasStopped'
    BY <1>0, <1>1 DEF ExitedWasStopped
  <1> QED BY <1>2, <1>3, <1>4, <1>5, <1>6, <1>7 DEF IndInv

\* The frame in the worker's hand goes out: its stamp becomes the newest of its
\* id, and every queued frame of that id is newer still.
LEMMA StepSend ==
  ASSUME IndInv, NEW result \in SendResults, Send(result)
  PROVE  IndInv'
  <1>0. /\ TypeOK /\ StatsConserved /\ OneFramePerId /\ NewestControlWins /\ CategoriesMatch
        /\ StampsGiven /\ SendingIsInner /\ ExitedWasStopped
    BY DEF IndInv
  <1>1. /\ worker = "Sending" /\ worker' \in {"Looking", "Noting"}
        /\ \/ worker' = "Looking" /\ sent' = sent + 1 /\ failed' = failed
           \/ worker' = "Noting" /\ failed' = failed + 1 /\ sent' = sent
        /\ completions' = completions + IsQuery(request.cat)
        /\ backpressure' = NextBackpressure(result)
        /\ newest' = IF request.cat = "Control"
                     THEN [newest EXCEPT ![request.id] = request.stamp] ELSE newest
        /\ request' = Plain(request.cat)
        /\ UNCHANGED <<queue, sender, submitted, evicted, dropped, reads, stopRequested, started,
                       reported, sending>>
    BY DEF Send, queues, flags
  <1>2. request.cat \in Categories /\ request.id \in Ids /\ request.stamp \in Nat
    BY <1>0 DEF TypeOK, Request
  <1>3. TypeOK'
    <2>1. stopRequested' \in BOOLEAN /\ started' \in BOOLEAN /\ sending' \in BOOLEAN
      BY <1>0, <1>1, Zenon DEF TypeOK
    <2>2. request' \in Request
      BY <1>1, <1>2, PlainFrame
    <2>3. backpressure' \in 0..(MaxBackpressureRetries - 1)
      BY <1>0, <1>1, RetriesAssumption DEF TypeOK, NextBackpressure
    <2>4. newest' \in [Ids -> Nat]
      BY <1>0, <1>1, <1>2 DEF TypeOK
    <2>5. sent' \in Nat /\ failed' \in Nat /\ completions' \in Nat
      BY <1>0, <1>1 DEF TypeOK, IsQuery
    <2> QED BY <1>0, <1>1, <2>1, <2>2, <2>3, <2>4, <2>5 DEF TypeOK, WorkerStates
  <1>4. StatsConserved'
    <2>1. Pending' = Pending /\ Pending \in Nat
      BY <1>0, <1>1, Lengths DEF Pending
    <2>2. Holding = 1 /\ Holding' = 0
      BY <1>1 DEF Holding
    <2> QED BY <1>0, <1>1, <2>1, <2>2 DEF StatsConserved, TypeOK
  <1>5. OneFramePerId' /\ CategoriesMatch'
    BY <1>0, <1>1 DEF OneFramePerId, CategoriesMatch
  <1>6. NewestControlWins'
    <2>1. ASSUME NEW i \in 1..Len(Control) PROVE newest'[Control[i].id] < Control[i].stamp
      <3>1. newest[Control[i].id] < Control[i].stamp
        BY <1>0 DEF NewestControlWins, Control
      <3>2. request.cat = "Control" /\ request.id = Control[i].id
            => request.stamp < Control[i].stamp
        BY <1>0, <1>1 DEF NewestControlWins, Control
      <3>3. Control \in Seq(Request)
        BY <1>0 DEF TypeOK, Control, Categories
      <3>a. Control[i] \in Request
        BY <3>3, ElementOfSeq
      <3>4. Control[i].id \in Ids /\ Control[i].stamp \in Nat
        BY <3>a DEF Request
      <3> QED BY <3>1, <3>2, <3>4, <1>0, <1>1, <1>2 DEF TypeOK
    <2> QED BY <2>1, <1>1 DEF NewestControlWins, Control
  <1>7. StampsGiven'
    <2>1. ASSUME NEW k \in Ids PROVE newest'[k] <= submitted
      BY <1>0, <1>1, <1>2 DEF StampsGiven, TypeOK
    <2> QED BY <1>0, <1>1, <2>1 DEF StampsGiven, Control
  <1>8. GapHasFrame' /\ DrainedAtExit' /\ ExitedWasStopped'
    BY <1>0, <1>1 DEF GapHasFrame, DrainedAtExit, ExitedWasStopped
  <1>9. SendingIsInner'
    <2>1. worker \in InnerLoop /\ worker' \in InnerLoop
      BY <1>1 DEF InnerLoop
    <2> QED BY <2>1, <1>0, <1>1, Zenon DEF SendingIsInner
  <1> QED BY <1>3, <1>4, <1>5, <1>6, <1>7, <1>8, <1>9 DEF IndInv

\* A failure is reported to the shared health.
LEMMA StepNote ==
  ASSUME IndInv, Note
  PROVE  IndInv'
  <1>0. /\ TypeOK /\ StatsConserved /\ OneFramePerId /\ NewestControlWins /\ CategoriesMatch
        /\ StampsGiven /\ SendingIsInner /\ ExitedWasStopped
    BY DEF IndInv
  <1>1. /\ worker = "Noting" /\ worker' = "Looking" /\ reported' = reported + 1
        /\ UNCHANGED <<queue, sender, submitted, evicted, dropped, reads, stopRequested, started,
                       sent, failed, completions, newest, sending, request, backpressure>>
    BY DEF Note, queues, flags
  <1>2. TypeOK'
    <2>1. stopRequested' \in BOOLEAN /\ started' \in BOOLEAN /\ sending' \in BOOLEAN
      BY <1>0, <1>1, Zenon DEF TypeOK
    <2> QED BY <1>0, <1>1, <2>1 DEF TypeOK, WorkerStates
  <1>3. StatsConserved'
    <2>1. Pending' = Pending /\ Pending \in Nat
      BY <1>0, <1>1, Lengths DEF Pending
    <2>2. Holding = 0 /\ Holding' = 0
      BY <1>1 DEF Holding
    <2> QED BY <1>0, <1>1, <2>1, <2>2 DEF StatsConserved, TypeOK
  <1>4. OneFramePerId' /\ CategoriesMatch' /\ NewestControlWins' /\ StampsGiven'
    BY <1>0, <1>1 DEF OneFramePerId, CategoriesMatch, NewestControlWins, StampsGiven, Control
  <1>5. GapHasFrame' /\ DrainedAtExit' /\ ExitedWasStopped'
    BY <1>0, <1>1 DEF GapHasFrame, DrainedAtExit, ExitedWasStopped
  <1>6. SendingIsInner'
    <2>1. worker \in InnerLoop /\ worker' \in InnerLoop
      BY <1>1 DEF InnerLoop
    <2> QED BY <2>1, <1>0, <1>1, Zenon DEF SendingIsInner
  <1> QED BY <1>2, <1>3, <1>4, <1>5, <1>6 DEF IndInv

\* Every step keeps the invariant.
LEMMA StepIndInv == IndInv /\ [Next]_vars => IndInv'
  <1> SUFFICES ASSUME IndInv, [Next]_vars PROVE IndInv'
    OBVIOUS
  <1>1. ASSUME NEW s \in Senders, Submit(s) PROVE IndInv'
    BY <1>1, StepAcceptControl, StepAcceptPlain, StepDropped DEF Submit
  <1>2. ASSUME NEW s \in Senders, CompleteDropped(s) PROVE IndInv'
    BY <1>2, StepDropped
  <1>3. ASSUME NEW c \in Categories, Pop(c) PROVE IndInv'
    BY <1>3, StepTake DEF Pop
  <1>4. ASSUME NEW result \in SendResults, Send(result) PROVE IndInv'
    BY <1>4, StepSend
  <1>5. CASE Note
    BY <1>5, StepNote
  <1>6. CASE Exit \/ AwaitBurst \/ EndBurst \/ BeginGap
    BY <1>6, StepMove
  <1>7. CASE NextControl
    <2>1. worker \in {"Looking", "Coalescing", "Gap"} /\ Take("Control") /\ sending' = sending
      BY <1>7 DEF NextControl, Resumes
    <2>2. sending' = TRUE
      <3>1. worker \in InnerLoop
        BY <2>1 DEF InnerLoop
      <3> QED BY <2>1, <3>1, Zenon DEF IndInv, SendingIsInner, TypeOK
    <2> QED BY <2>1, <2>2, StepTake DEF Categories
  <1>8. CASE OwnerStep
    BY <1>8, StepOwner
  <1>9. CASE UNCHANGED vars
    <2>1. UNCHANGED <<queue, submitted, evicted, sent, failed, reported, newest, worker, request,
                      sending, stopRequested, started, sender, dropped, reads, completions,
                      backpressure>>
      BY <1>9 DEF vars, queues, flags, counters
    <2>2. TypeOK' /\ ExitedWasStopped'
      BY <2>1 DEF IndInv, TypeOK, ExitedWasStopped
    <2> QED BY <2>1, <2>2, StepAside
  <1> QED BY <1>1, <1>2, <1>3, <1>4, <1>5, <1>6, <1>7, <1>8, <1>9 DEF Next, WorkerStep

-----------------------------------------------------------------------------
(* The completions of reads *)

RefusedQueries == {s \in Senders : sender[s] = "Query"}

\* The read in the worker's hand.
InHand == IF worker = "Sending" THEN IsQuery(request.cat) ELSE 0

\* The senders that were refused a read can be counted, also when there are
\* infinitely many senders.
ReadsInv == IsFiniteSet(RefusedQueries) /\ ReadsComplete

\* The terms of ReadsComplete are numbers.
LEMMA ReadsTypes ==
  ASSUME IndInv, ReadsInv
  PROVE  /\ Len(queue["Query"]) \in Nat /\ Cardinality(RefusedQueries) \in Nat
         /\ InHand \in Nat /\ reads \in Nat /\ completions \in Nat
         /\ reads = completions + Len(queue["Query"]) + Cardinality(RefusedQueries) + InHand
  <1>1. Len(queue["Query"]) \in Nat
    BY DEF IndInv, TypeOK, Categories
  <1>2. Cardinality(RefusedQueries) \in Nat
    BY FS_CardinalityType DEF ReadsInv
  <1> QED BY <1>1, <1>2 DEF IndInv, TypeOK, ReadsInv, ReadsComplete, RefusedReads, RefusedQueries,
                            InHand, IsQuery

\* A number less in one term and one more in another.
LEMMA MoveOne == \A k, l, m \in Nat : k + (l - 1) + m + 1 = k + l + m + 0
  OBVIOUS

\* How the equation is shown for the next state.
LEMMA ReadsNext ==
  ASSUME IsFiniteSet(RefusedQueries'),
         reads' = completions' + Len(queue'["Query"]) + Cardinality(RefusedQueries') + InHand'
  PROVE  ReadsInv'
  BY DEF ReadsInv, ReadsComplete, RefusedReads, RefusedQueries, InHand

\* Nothing is read yet.
LEMMA InitReads == Init => ReadsInv
  <1> SUFFICES ASSUME Init PROVE ReadsInv
    OBVIOUS
  <1>1. RefusedQueries = {}
    BY DEF Init, RefusedQueries
  <1>2. IsFiniteSet(RefusedQueries) /\ Cardinality(RefusedQueries) = 0
    BY <1>1, FS_EmptySet
  <1>3. Len(queue["Query"]) = 0
    BY DEF Init, Categories
  <1> QED BY <1>2, <1>3 DEF Init, ReadsInv, ReadsComplete, RefusedReads, RefusedQueries

\* A step that touches none of the reads.
LEMMA ReadsAside ==
  ASSUME IndInv, ReadsInv, UNCHANGED <<reads, completions, sender>>,
         queue'["Query"] = queue["Query"], InHand' = InHand
  PROVE  ReadsInv'
  <1>1. RefusedQueries' = RefusedQueries
    BY DEF RefusedQueries
  <1> QED BY <1>1, ReadsTypes, ReadsNext DEF ReadsInv

\* submit() of a frame that is accepted.
LEMMA ReadsAccept ==
  ASSUME IndInv, ReadsInv, NEW s \in Senders,
         \/ \E id \in Ids : AcceptControl(s, id)
         \/ \E c \in Categories : AcceptPlain(s, c)
  PROVE  ReadsInv'
  <1>0. queue \in [Categories -> Seq(Request)]
    BY DEF IndInv, TypeOK
  <1>1. CASE \E id \in Ids : AcceptControl(s, id)
    <2>1. /\ UNCHANGED <<reads, completions, sender, worker, request>>
          /\ \E q : queue' = [queue EXCEPT !["Control"] = q]
      BY <1>1 DEF AcceptControl, counters
    <2>2. queue'["Query"] = queue["Query"]
      BY <1>0, <2>1 DEF Categories
    <2>3. InHand' = InHand
      BY <2>1 DEF InHand
    <2> QED BY <2>1, <2>2, <2>3, ReadsAside
  <1>2. CASE \E c \in Categories : AcceptPlain(s, c)
    <2>1. PICK c \in Categories : AcceptPlain(s, c)
      BY <1>2
    <2>2. /\ UNCHANGED <<completions, sender, worker, request>>
          /\ reads' = reads + IsQuery(c)
          /\ queue' = [queue EXCEPT ![c] = Append(queue[c], Plain(c))]
      BY <2>1 DEF AcceptPlain, counters
    <2>3. InHand' = InHand
      BY <2>2 DEF InHand
    <2>4. CASE c = "Query"
      <3>1. Len(queue'["Query"]) = Len(queue["Query"]) + 1
        <4>1. queue["Query"] \in Seq(Request) /\ Plain("Query") \in Request
          BY <1>0, PlainFrame DEF Categories
        <4>2. queue'["Query"] = Append(queue["Query"], Plain("Query"))
          BY <1>0, <2>2, <2>4
        <4> QED BY <4>1, <4>2
      <3>2. RefusedQueries' = RefusedQueries
        BY <2>2 DEF RefusedQueries
      <3>3. reads' = reads + 1
        BY <2>2, <2>4 DEF IsQuery
      <3> QED BY <2>2, <2>3, <3>1, <3>2, <3>3, ReadsTypes, ReadsNext DEF ReadsInv
    <2>5. CASE c # "Query"
      <3>1. queue'["Query"] = queue["Query"]
        BY <1>0, <2>2, <2>5 DEF Categories
      <3>2. reads' = reads
        BY <2>2, <2>5 DEF IsQuery, IndInv, TypeOK
      <3> QED BY <2>2, <2>3, <3>1, <3>2, ReadsAside
    <2> QED BY <2>4, <2>5
  <1> QED BY <1>1, <1>2

\* submit() of a frame that is refused, and its completion.
LEMMA ReadsDropped ==
  ASSUME IndInv, ReadsInv, NEW s \in Senders,
         (\E c \in Categories : Refuse(s, c)) \/ CompleteDropped(s)
  PROVE  ReadsInv'
  <1>0. sender \in [Senders -> Categories \cup {"Idle"}] /\ "Idle" # "Query"
    BY DEF IndInv, TypeOK
  <1>1. CASE \E c \in Categories : Refuse(s, c)
    <2>1. PICK c \in Categories : Refuse(s, c)
      BY <1>1
    <2>2. /\ UNCHANGED <<completions, queue, worker, request>>
          /\ reads' = reads + IsQuery(c) /\ sender[s] = "Idle"
          /\ sender' = [sender EXCEPT ![s] = c]
      BY <2>1 DEF Refuse, counters
    <2>3. InHand' = InHand
      BY <2>2 DEF InHand
    <2>4. s \notin RefusedQueries
      BY <2>2 DEF RefusedQueries
    <2>5. CASE c = "Query"
      <3>1. RefusedQueries' = RefusedQueries \cup {s}
        BY <1>0, <2>2, <2>5 DEF RefusedQueries
      <3>2. IsFiniteSet(RefusedQueries') /\ Cardinality(RefusedQueries') = Cardinality(RefusedQueries) + 1
        BY <2>4, <3>1, FS_AddElement DEF ReadsInv
      <3>3. reads' = reads + 1
        BY <2>2, <2>5 DEF IsQuery
      <3> QED BY <2>2, <2>3, <3>2, <3>3, ReadsTypes, ReadsNext
    <2>6. CASE c # "Query"
      <3>1. RefusedQueries' = RefusedQueries
        BY <1>0, <2>2, <2>4, <2>6 DEF RefusedQueries
      <3>2. reads' = reads
        BY <2>2, <2>6 DEF IsQuery, IndInv, TypeOK
      <3> QED BY <2>2, <2>3, <3>1, <3>2, ReadsTypes, ReadsNext DEF ReadsInv
    <2> QED BY <2>5, <2>6
  <1>2. CASE CompleteDropped(s)
    <2>2. /\ UNCHANGED <<reads, queue, worker, request>>
          /\ completions' = completions + IsQuery(sender[s])
          /\ sender' = [sender EXCEPT ![s] = "Idle"]
      BY <1>2 DEF CompleteDropped
    <2>3. InHand' = InHand
      BY <2>2 DEF InHand
    <2>5. CASE sender[s] = "Query"
      <3>1. RefusedQueries' = RefusedQueries \ {s} /\ s \in RefusedQueries
        BY <1>0, <2>2, <2>5 DEF RefusedQueries
      <3>2. IsFiniteSet(RefusedQueries') /\ Cardinality(RefusedQueries') = Cardinality(RefusedQueries) - 1
        BY <3>1, FS_RemoveElement DEF ReadsInv
      <3>3. completions' = completions + 1
        BY <2>2, <2>5 DEF IsQuery
      <3>4. reads = (completions + 1) + Len(queue["Query"]) + (Cardinality(RefusedQueries) - 1) + InHand
        <4>1. /\ Len(queue["Query"]) \in Nat /\ Cardinality(RefusedQueries) \in Nat
              /\ InHand \in Nat /\ completions \in Nat
              /\ reads = completions + Len(queue["Query"]) + Cardinality(RefusedQueries) + InHand
          BY ReadsTypes
        <4>2. PICK k, l, m, n \in Nat : /\ k = completions /\ l = Len(queue["Query"])
                                        /\ m = Cardinality(RefusedQueries) /\ n = InHand
          BY <4>1
        <4>3. (k + 1) + l + (m - 1) + n = k + l + m + n
          OBVIOUS
        <4> QED BY <4>1, <4>2, <4>3
      <3> QED BY <2>2, <2>3, <3>2, <3>3, <3>4, ReadsNext
    <2>6. CASE sender[s] # "Query"
      <3>1. RefusedQueries' = RefusedQueries
        BY <1>0, <2>2, <2>6 DEF RefusedQueries
      <3>2. completions' = completions
        BY <2>2, <2>6 DEF IsQuery, IndInv, TypeOK
      <3> QED BY <2>2, <2>3, <3>1, <3>2, ReadsTypes, ReadsNext DEF ReadsInv
    <2> QED BY <2>5, <2>6
  <1> QED BY <1>1, <1>2

\* The worker takes a frame.
LEMMA ReadsTake ==
  ASSUME IndInv, ReadsInv, NEW c \in Categories, Take(c), worker # "Sending"
  PROVE  ReadsInv'
  <1>1. /\ 1 \in 1..Len(queue[c]) /\ request' = queue[c][1]
        /\ Len(queue'[c]) = Len(queue[c]) - 1
        /\ \A d \in Categories \ {c} : queue'[d] = queue[d]
    BY TakeFacts DEF IndInv
  <1>2. request'.cat = c
    BY <1>1 DEF IndInv, CategoriesMatch
  <1>3. UNCHANGED <<reads, completions, sender>> /\ worker' = "Sending"
    BY DEF Take, counters
  <1>4. InHand = 0 /\ InHand' = IsQuery(c)
    BY <1>2, <1>3 DEF InHand
  <1>5. CASE c = "Query"
    <2>1. RefusedQueries' = RefusedQueries
      BY <1>3 DEF RefusedQueries
    <2>2. InHand' = 1
      BY <1>4, <1>5 DEF IsQuery
    <2>3. reads = completions + (Len(queue["Query"]) - 1) + Cardinality(RefusedQueries) + 1
      BY <1>4, ReadsTypes, MoveOne
    <2> QED BY <1>1, <1>3, <1>5, <2>1, <2>2, <2>3, ReadsNext DEF ReadsInv
  <1>6. CASE c # "Query"
    <2>1. queue'["Query"] = queue["Query"]
      BY <1>1, <1>6 DEF Categories
    <2>2. InHand' = InHand
      BY <1>4, <1>6 DEF IsQuery
    <2> QED BY <1>3, <2>1, <2>2, ReadsAside
  <1> QED BY <1>5, <1>6

\* The worker sends it, and runs its completion.
LEMMA ReadsSend ==
  ASSUME IndInv, ReadsInv, NEW result \in SendResults, Send(result)
  PROVE  ReadsInv'
  <1>1. /\ worker = "Sending" /\ worker' # "Sending"
        /\ completions' = completions + IsQuery(request.cat)
        /\ UNCHANGED <<reads, queue, sender>>
    BY DEF Send, queues
  <1>2. InHand = IsQuery(request.cat) /\ InHand' = 0
    BY <1>1 DEF InHand
  <1>3. RefusedQueries' = RefusedQueries
    BY <1>1 DEF RefusedQueries
  <1> QED BY <1>1, <1>2, <1>3, ReadsTypes, ReadsNext DEF ReadsInv

\* Every step keeps the account of the reads.
LEMMA StepReads == IndInv /\ ReadsInv /\ [Next]_vars => ReadsInv'
  <1> SUFFICES ASSUME IndInv, ReadsInv, [Next]_vars PROVE ReadsInv'
    OBVIOUS
  <1>1. ASSUME NEW s \in Senders, Submit(s) PROVE ReadsInv'
    BY <1>1, ReadsAccept, ReadsDropped DEF Submit
  <1>2. ASSUME NEW s \in Senders, CompleteDropped(s) PROVE ReadsInv'
    BY <1>2, ReadsDropped
  <1>3. ASSUME NEW c \in Categories, Pop(c) PROVE ReadsInv'
    BY <1>3, ReadsTake DEF Pop
  <1>4. ASSUME NEW result \in SendResults, Send(result) PROVE ReadsInv'
    BY <1>4, ReadsSend
  <1>5. CASE NextControl
    <2>1. worker # "Sending" /\ Take("Control")
      BY <1>5 DEF NextControl, Resumes
    <2> QED BY <2>1, ReadsTake DEF Categories
  <1>6. CASE Note \/ Exit \/ AwaitBurst \/ EndBurst \/ BeginGap \/ FinishShutdown \/ Start
    <2>1. /\ UNCHANGED <<reads, completions, sender, queue>>
          /\ worker # "Sending" /\ worker' # "Sending"
      BY <1>6 DEF Note, Exit, AwaitBurst, EndBurst, BeginGap, Resumes, FinishShutdown, Start,
                  queues, counters, IndInv, ExitedWasStopped
    <2>2. InHand' = InHand
      BY <2>1 DEF InHand
    <2> QED BY <2>1, <2>2, ReadsAside
  <1>7. CASE RequestStop \/ UNCHANGED vars
    <2>1. UNCHANGED <<reads, completions, sender, queue, worker, request>>
      BY <1>7 DEF RequestStop, vars, queues, counters
    <2>2. InHand' = InHand
      BY <2>1 DEF InHand
    <2> QED BY <2>1, <2>2, ReadsAside
  <1> QED BY <1>1, <1>2, <1>3, <1>4, <1>5, <1>6, <1>7 DEF Next, WorkerStep, OwnerStep

-----------------------------------------------------------------------------
(* Theorems *)

\* The invariant holds in every reachable state.
THEOREM Inductive == Spec => []IndInv
  BY InitIndInv, StepIndInv, PTL DEF Spec

\* Type correctness, with every queue within its depth.
THEOREM TypeCorrect == Spec => []TypeOK
  <1>1. IndInv => TypeOK
    BY DEF IndInv
  <1> QED BY <1>1, Inductive, PTL

\* The runtime's counters account for every accepted frame.
THEOREM FramesConserved == Spec => []StatsConserved
  <1>1. IndInv => StatsConserved
    BY DEF IndInv
  <1> QED BY <1>1, Inductive, PTL

\* The control queue holds at most one frame per id.
THEOREM OneFrameQueued == Spec => []OneFramePerId
  <1>1. IndInv => OneFramePerId
    BY DEF IndInv
  <1> QED BY <1>1, Inductive, PTL

\* An older control frame never goes on the bus after a newer one of its id.
THEOREM LatestCommandOnly == Spec => []NewestControlWins
  <1>1. IndInv => NewestControlWins
    BY DEF IndInv
  <1> QED BY <1>1, Inductive, PTL

\* The unchecked front() after the gap is safe.
THEOREM FrontIsSafe == Spec => []GapHasFrame
  <1>1. IndInv => GapHasFrame
    BY DEF IndInv
  <1> QED BY <1>1, Inductive, PTL

\* A worker that exited left empty queues behind.
THEOREM NothingLeftBehind == Spec => []DrainedAtExit
  <1>1. IndInv => DrainedAtExit
    BY DEF IndInv
  <1> QED BY <1>1, Inductive, PTL

\* The idle condition of waitUntilIdleFor is right.
THEOREM IdleIsIdle == Spec => []IdleMeansDone
  <1>1. IndInv => IdleMeansDone
    BY DEF IndInv, TypeOK, WorkerStates, SendingIsInner, InnerLoop, IdleMeansDone
  <1> QED BY <1>1, Inductive, PTL

\* Every read's completion runs exactly once, whether its frame was sent, lost,
\* refused or drained at shutdown (completeDropped, workerLoop).
THEOREM EveryReadCompletes == Spec => []ReadsComplete
  <1>1. Init => IndInv /\ ReadsInv
    BY InitIndInv, InitReads
  <1>2. (IndInv /\ ReadsInv) /\ [Next]_vars => (IndInv /\ ReadsInv)'
    BY StepIndInv, StepReads
  <1>3. IndInv /\ ReadsInv => ReadsComplete
    BY DEF ReadsInv
  <1> QED BY <1>1, <1>2, <1>3, PTL DEF Spec
=============================================================================
