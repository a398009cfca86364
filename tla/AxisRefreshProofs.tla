------------------------- MODULE AxisRefreshProofs -------------------------
(***************************************************************************)
(* Proofs about AxisRefresh, for any number of axes, kinds of feedback,     *)
(* depth of the queue and cap of the timeout counter.                       *)
(*                                                                         *)
(* QueuedHasFrame is inductive together with the fact that one read at most *)
(* is between its sending and its completion.  RaceCostsOne is not: a read  *)
(* that is in flight or expired will be counted when it is given up, so it  *)
(* counts already (Open), and one that was sent and is not yet completed    *)
(* leaves room for that (Counted).                                          *)
(***************************************************************************)
EXTENDS AxisRefresh, TLAPS, SequenceTheorems, FiniteSetTheorems

\* What the modulus returns.
LEMMA ModRange ==
    ASSUME NEW a \in Int, NEW n \in Nat \ {0}
    PROVE  a % n \in 0 .. n - 1
  OBVIOUS

\* What the division of natural numbers returns.
LEMMA DivNat ==
    ASSUME NEW a \in Nat, NEW n \in Nat \ {0}
    PROVE  a \div n \in Nat
  OBVIOUS

\* The feedback kinds and the error flag are queries.
LEMMA FeedbackQueries ==
    /\ Len(Feedback) \in Nat \ {0}
    /\ "Error" \in Queries
    /\ \A i \in 1 .. Len(Feedback) : Feedback[i] \in Queries
  BY FeedbackAssumption DEF Queries

\* The plan of an axis (BuildMtRefreshPlan) consists of queries.
LEMMA PlanType ==
    ASSUME cycle \in 0 .. Len(Feedback) - 1, NEW m \in Axes, NEW pressed \in BOOLEAN,
           NEW k \in 1 .. (IF pressed THEN 2 ELSE Len(Feedback) + 1)
    PROVE  BuildMtRefreshPlan(m, pressed)[k] \in Queries
  <1>1. CASE pressed
    <2> DEFINE j == ((cycle + m - 1) % Len(Feedback)) + 1
    <2>1. j \in 1 .. Len(Feedback)
      <3>1. cycle + m - 1 \in Int
        BY MotorsAssumption, FeedbackQueries DEF Axes
      <3>2. (cycle + m - 1) % Len(Feedback) \in 0 .. Len(Feedback) - 1
        BY <3>1, ModRange, FeedbackQueries
      <3> QED
        BY <3>2, FeedbackQueries
    <2>2. Feedback[j] \in Queries
      BY <2>1, FeedbackQueries
    <2>3. k = 1 \/ k = 2
      BY <1>1
    <2> QED
      BY <1>1, <2>2, <2>3, FeedbackQueries DEF BuildMtRefreshPlan
  <1>2. CASE ~pressed
    <2>1. k \in 1 .. Len(Feedback) + 1
      BY <1>2
    <2>2. Append(Feedback, "Error")[k] \in Queries
      BY <2>1, FeedbackQueries, FeedbackAssumption
    <2> QED
      BY <1>2, <2>2 DEF BuildMtRefreshPlan
  <1> QED
    BY <1>1, <1>2

\* What a tick may try is a sequence of axes and queries.
LEMMA AttemptsType ==
    ASSUME cycle \in 0 .. Len(Feedback) - 1, cursor \in Axes, NEW pressed \in BOOLEAN
    PROVE  Attempts(pressed) \in Seq(Axes \X Queries)
  <1> DEFINE size == IF pressed THEN 2 ELSE Len(Feedback) + 1
             axis(i) == ((cursor - 1 + ((i - 1) \div size)) % Motors) + 1
             try(i) == <<axis(i), BuildMtRefreshPlan(axis(i), pressed)[((i - 1) % size) + 1]>>
  <1>1. size \in Nat \ {0}
    BY FeedbackQueries
  <1>2. Motors * size \in Nat
    BY <1>1, MotorsAssumption
  <1>3. ASSUME NEW i \in 1 .. Motors * size
        PROVE  try(i) \in Axes \X Queries
    <2> HIDE DEF size
    <2>1. i - 1 \in Nat
      BY <1>2
    <2>2. (i - 1) \div size \in Nat
      BY <2>1, <1>1, DivNat
    <2>3. cursor - 1 + ((i - 1) \div size) \in Int
      BY <2>2, MotorsAssumption DEF Axes
    <2>4. axis(i) \in Axes
      <3>1. (cursor - 1 + ((i - 1) \div size)) % Motors \in 0 .. Motors - 1
        BY <2>3, ModRange, MotorsAssumption
      <3> QED
        BY <3>1, MotorsAssumption DEF Axes
    <2>5. ((i - 1) % size) + 1 \in 1 .. size
      <3>1. (i - 1) % size \in 0 .. size - 1
        <4>1. i - 1 \in Int
          BY <2>1
        <4> QED
          BY <4>1, <1>1, ModRange
      <3> QED
        BY <3>1, <1>1
    <2>6. BuildMtRefreshPlan(axis(i), pressed)[((i - 1) % size) + 1] \in Queries
      <3> HIDE DEF axis
      <3> QED
        BY <2>4, <2>5, PlanType DEF size
    <2> HIDE DEF axis
    <2> QED
      BY <2>4, <2>6
  <1>4. Attempts(pressed) = [i \in 1 .. Motors * size |-> try(i)]
    BY DEF Attempts
  <1> HIDE DEF size, try
  <1> QED
    BY <1>2, <1>3, <1>4

-----------------------------------------------------------------------------
\* An entry of the books.
Reads == [phase : Phases, backoff : BOOLEAN, timeouts : 0 .. TimeoutCap]

\* At most one read is being completed, one snapshot is held by each thread, and
\* a timeout that waits to be published is of the first entry of the plan.
Shape ==
    /\ \A x, y \in sending : x = y
    /\ \A x, y \in receiver : x = y
    /\ \A x, y \in caller : x = y
    /\ worker.late # 0 => worker.plan # <<>>

\* One if the read will be counted, should it be given up.
Open(r) == IF r.phase \in {"flight", "expired"} THEN 1 ELSE 0

\* The count of a read r that was sent n times since its last answer.
CountedAt(r, n, f, S) ==
    \/ n = TimeoutCap - 1
    \/ /\ r.timeouts + Open(r) <= n + 1
       /\ f \in S => r.timeouts + Open(r) <= n

\* ... of every read.
Counted ==
    \A m \in Axes, q \in Queries :
        CountedAt(read[m][q], sent[m][q], <<m, q>>, sending)

\* The inductive invariant.
IInv == TypeOK /\ Shape /\ QueuedHasFrame /\ Counted

\* A set without two elements has a cardinality of at most one.
LEMMA OneElement ==
    ASSUME NEW S, \A x, y \in S : x = y
    PROVE  Cardinality(S) <= 1
  <1>1. CASE S = {}
    BY <1>1, FS_EmptySet
  <1>2. CASE S # {}
    <2>1. PICK x : x \in S
      BY <1>2
    <2>2. S = {x}
      BY <2>1
    <2> QED
      BY <2>2, FS_Singleton
  <1> QED
    BY <1>1, <1>2

\* What MtCan does to an entry of its books leaves one.
LEMMA ReadTypes ==
    ASSUME NEW r \in Reads
    PROVE  /\ GiveUp(r) \in Reads /\ GiveUp(r).timeouts # 0
           /\ Claim(r) \in Reads
           /\ \A ok \in BOOLEAN : Completed(r, ok) \in Reads
           /\ Answered(r) \in Reads
  <1>1. AtMost(r.timeouts + 1, TimeoutCap) \in 1 .. TimeoutCap
    BY TimeoutAssumption DEF Reads, AtMost
  <1>2. GiveUp(r) \in Reads /\ GiveUp(r).timeouts # 0
    BY <1>1 DEF Reads, Phases, GiveUp
  <1>3. Claim(r) \in Reads
    BY DEF Reads, Phases, Claim
  <1>4. ASSUME NEW ok \in BOOLEAN PROVE Completed(r, ok) \in Reads
    BY DEF Reads, Phases, Completed
  <1>5. Answered(r) \in Reads
    BY TimeoutAssumption DEF Reads, Phases, Answered, NoRead
  <1> QED
    BY <1>2, <1>3, <1>4, <1>5

\* An entry that counts no more than before is counted.
LEMMA CountKept ==
    ASSUME NEW r \in Reads, NEW r2 \in Reads, NEW n \in 0 .. TimeoutCap - 1, NEW f, NEW S, NEW S2,
           CountedAt(r, n, f, S), f \in S2 => f \in S,
           r2.timeouts + Open(r2) <= r.timeouts + Open(r)
    PROVE  CountedAt(r2, n, f, S2)
  <1>1. Open(r) \in Int /\ Open(r2) \in Int /\ r.timeouts \in Int /\ r2.timeouts \in Int
    BY DEF Open, Reads
  <1> QED
    BY <1>1 DEF CountedAt

\* So is one that was answered.
LEMMA CountReset ==
    ASSUME NEW r, NEW f, NEW S, r.timeouts = 0, Open(r) = 0
    PROVE  CountedAt(r, 0, f, S)
  BY DEF CountedAt

\* A read that is sent leaves room for its timeout ...
LEMMA CountSent ==
    ASSUME NEW r \in Reads, NEW n \in 0 .. TimeoutCap - 1, NEW f, NEW S, NEW S2, CountedAt(r, n, f, S)
    PROVE  /\ AtMost(n + 1, TimeoutCap - 1) \in 0 .. TimeoutCap - 1
           /\ CountedAt(r, AtMost(n + 1, TimeoutCap - 1), f, S2)
  <1>1. Open(r) \in Int /\ r.timeouts \in Int
    BY DEF Open, Reads
  <1> QED
    BY <1>1, TimeoutAssumption DEF CountedAt, AtMost

\* ... which its completion uses up.
LEMMA CountCompleted ==
    ASSUME NEW r \in Reads, NEW r2, NEW n \in 0 .. TimeoutCap - 1, NEW f, NEW S,
           CountedAt(r, n, f, S), f \in S, r2.timeouts = r.timeouts, Open(r2) = 1
    PROVE  CountedAt(r2, n, f, {})
  <1>1. Open(r) \in {0, 1} /\ r.timeouts \in Int
    BY DEF Open, Reads
  <1> QED
    BY <1>1 DEF CountedAt

\* The invariant holds at first.
LEMMA InitIInv == Init => IInv
  <1> SUFFICES ASSUME Init PROVE IInv
    OBVIOUS
  <1>1. TypeOK
    <2>1. read \in [Axes -> [Queries -> [phase : Phases, backoff : BOOLEAN, timeouts : 0 .. TimeoutCap]]]
      BY TimeoutAssumption DEF Init, NoRead, Phases
    <2>2. sent \in [Axes -> [Queries -> 0 .. TimeoutCap - 1]]
      BY TimeoutAssumption DEF Init
    <2>3. Cardinality(sending) <= 1 /\ Cardinality(receiver) <= 1 /\ Cardinality(caller) <= 1
      BY OneElement DEF Init
    <2> QED
      BY <2>1, <2>2, <2>3, MotorsAssumption, TimeoutAssumption, BoundsAssumption, FeedbackQueries
      DEF Init, TypeOK, Idle, Axes
  <1>2. Shape
    BY DEF Init, Shape, Idle
  <1>3. QueuedHasFrame
    BY DEF Init, QueuedHasFrame, NoRead
  <1>4. Counted
    BY TimeoutAssumption DEF Init, Counted, CountedAt, NoRead, Open
  <1> QED
    BY <1>1, <1>2, <1>3, <1>4 DEF IInv

\* A read that is booked is queued with a frame, or is not queued; other reads and
\* the frames before it stay.
LEMMA BookStep ==
    ASSUME TypeOK, NEW m \in Axes, NEW q \in Queries, NEW r \in Reads, Book(m, q, r)
    PROVE  /\ read' \in [Axes -> [Queries -> Reads]]
           /\ queue' \in Seq(Axes \X Queries) /\ Len(queue') <= MaxDepth
           /\ Open(read'[m][q]) = 0 /\ read'[m][q].timeouts = r.timeouts
           /\ read'[m][q].phase = "queued" => \E i \in 1 .. Len(queue') : queue'[i] = <<m, q>>
           /\ \A i \in 1 .. Len(queue) : i \in 1 .. Len(queue') /\ queue'[i] = queue[i]
           /\ \A n \in Axes, p \in Queries : <<n, p>> # <<m, q>> => read'[n][p] = read[n][p]
  <1> <<m, q>> \in Axes \X Queries
    OBVIOUS
  <1> queue \in Seq(Axes \X Queries) /\ Len(queue) <= MaxDepth
    BY DEF TypeOK
  <1>1. CASE Len(queue) < MaxDepth
    <2>1. read' = [read EXCEPT ![m][q] = Claim(r)] /\ queue' = Append(queue, <<m, q>>)
      BY <1>1 DEF Book
    <2>2. Claim(r) \in Reads
      BY ReadTypes
    <2>3. /\ read' \in [Axes -> [Queries -> Reads]]
          /\ read'[m][q] = Claim(r)
          /\ \A n \in Axes, p \in Queries : <<n, p>> # <<m, q>> => read'[n][p] = read[n][p]
      BY <2>1, <2>2 DEF TypeOK, Reads
    <2>4. Open(Claim(r)) = 0 /\ Claim(r).timeouts = r.timeouts
      BY DEF Claim, Open, Reads
    <2>5. /\ queue' \in Seq(Axes \X Queries) /\ Len(queue') = Len(queue) + 1
          /\ queue'[Len(queue')] = <<m, q>>
          /\ \A i \in 1 .. Len(queue) : queue'[i] = queue[i]
      BY <2>1
    <2>6. Len(queue') \in 1 .. Len(queue') /\ Len(queue') <= MaxDepth
      BY <2>5, <1>1, BoundsAssumption
    <2>7. \A i \in 1 .. Len(queue) : i \in 1 .. Len(queue')
      BY <2>5
    <2> QED
      BY <2>3, <2>4, <2>5, <2>6, <2>7
  <1>2. CASE ~(Len(queue) < MaxDepth)
    <2>1. read' = [read EXCEPT ![m][q] = Completed(Claim(r), FALSE)] /\ queue' = queue
      BY <1>2 DEF Book
    <2>2. Completed(Claim(r), FALSE) \in Reads
      BY ReadTypes
    <2>3. /\ read' \in [Axes -> [Queries -> Reads]]
          /\ read'[m][q] = Completed(Claim(r), FALSE)
          /\ \A n \in Axes, p \in Queries : <<n, p>> # <<m, q>> => read'[n][p] = read[n][p]
      BY <2>1, <2>2 DEF TypeOK, Reads
    <2>4. LET c == Completed(Claim(r), FALSE)
          IN  Open(c) = 0 /\ c.timeouts = r.timeouts /\ c.phase # "queued"
      BY DEF Claim, Completed, Open, Reads
    <2> QED
      BY <2>1, <2>3, <2>4
  <1> QED
    BY <1>1, <1>2

-----------------------------------------------------------------------------
\* Issuing a read keeps the invariant.
LEMMA IssueStep ==
    ASSUME IInv, NEW plan \in Seq(Axes \X Queries), NEW i \in 1 .. Len(plan),
           Issue(plan, i), cycle' \in 0 .. Len(Feedback) - 1
    PROVE  IInv'
  <1> DEFINE m == plan[i][1]
             q == plan[i][2]
  <1>1. m \in Axes /\ q \in Queries
    OBVIOUS
  <1>2. /\ Book(m, q, read[m][q]) /\ Free(read[m][q])
        /\ cursor' = (m % Motors) + 1 /\ pending' = m /\ worker' = Idle
        /\ UNCHANGED <<sent, sending, answers, receiver, caller, shared>>
    BY DEF Issue
  <1> HIDE DEF m, q
  <1>3. read[m][q] \in Reads
    BY <1>1 DEF IInv, TypeOK, Reads
  <1>4. /\ read' \in [Axes -> [Queries -> Reads]]
        /\ queue' \in Seq(Axes \X Queries) /\ Len(queue') <= MaxDepth
        /\ Open(read'[m][q]) = 0 /\ read'[m][q].timeouts = read[m][q].timeouts
        /\ read'[m][q].phase = "queued" => \E k \in 1 .. Len(queue') : queue'[k] = <<m, q>>
        /\ \A k \in 1 .. Len(queue) : k \in 1 .. Len(queue') /\ queue'[k] = queue[k]
        /\ \A n \in Axes, p \in Queries : <<n, p>> # <<m, q>> => read'[n][p] = read[n][p]
    BY <1>1, <1>2, <1>3, BookStep DEF IInv
  <1>5. cursor' \in Axes /\ pending' \in 0 .. Motors
    <2>1. m % Motors \in 0 .. Motors - 1
      <3>1. m \in Int
        BY <1>1 DEF Axes
      <3> QED
        BY <3>1, ModRange, MotorsAssumption
    <2> QED
      BY <2>1, <1>1, <1>2, MotorsAssumption DEF Axes
  <1>6. worker'.plan \in Seq(Axes \X Queries) /\ worker'.late \in 0 .. TimeoutCap /\ worker'.late = 0
    BY <1>2, TimeoutAssumption DEF Idle
  <1>7. TypeOK'
    BY <1>2, <1>4, <1>5, <1>6 DEF IInv, TypeOK, Reads
  <1>8. Shape'
    BY <1>2, <1>6 DEF IInv, Shape
  <1>9. QueuedHasFrame'
    <2> SUFFICES ASSUME NEW n \in Axes, NEW p \in Queries, read'[n][p].phase = "queued"
                 PROVE  (\E k \in 1 .. Len(queue') : queue'[k] = <<n, p>>) \/ <<n, p>> \in sending'
      BY DEF QueuedHasFrame
    <2>1. CASE <<n, p>> = <<m, q>>
      BY <2>1, <1>4
    <2>2. CASE <<n, p>> # <<m, q>>
      BY <2>2, <1>2, <1>4 DEF IInv, QueuedHasFrame
    <2> QED
      BY <2>1, <2>2
  <1>10. Counted'
    <2> SUFFICES ASSUME NEW n \in Axes, NEW p \in Queries
                 PROVE  CountedAt(read'[n][p], sent'[n][p], <<n, p>>, sending')
      BY DEF Counted
    <2>1. /\ CountedAt(read[n][p], sent[n][p], <<n, p>>, sending)
          /\ read[n][p] \in Reads /\ sent[n][p] \in 0 .. TimeoutCap - 1
      BY DEF IInv, Counted, TypeOK, Reads
    <2>2. sent'[n][p] = sent[n][p] /\ sending' = sending /\ read'[n][p] \in Reads
      BY <1>2, <1>4
    <2>3. Open(read[n][p]) \in {0, 1} /\ read[n][p].timeouts \in Int
      BY <2>1 DEF Open, Reads
    <2>4. read'[n][p].timeouts + Open(read'[n][p]) <= read[n][p].timeouts + Open(read[n][p])
      <3>1. CASE n = m /\ p = q
        BY <3>1, <2>3, <1>4
      <3>2. CASE ~(n = m /\ p = q)
        <4>1. read'[n][p] = read[n][p]
          BY <3>2, <1>4
        <4> QED
          BY <4>1, <2>3
      <3> QED
        BY <3>1, <3>2
    <2> QED
      BY <2>1, <2>2, <2>4, CountKept
  <1> QED
    BY <1>7, <1>8, <1>9, <1>10 DEF IInv

\* Giving up a late read keeps it: its count grows by what was open.
LEMMA ExpireStep ==
    ASSUME IInv, NEW plan \in Seq(Axes \X Queries), NEW i \in 1 .. Len(plan),
           Expire(plan, i), cycle' \in 0 .. Len(Feedback) - 1
    PROVE  IInv'
  <1> DEFINE m == plan[i][1]
             q == plan[i][2]
             rest == SubSeq(plan, i, Len(plan))
  <1>1. m \in Axes /\ q \in Queries
    OBVIOUS
  <1>2. rest \in Seq(Axes \X Queries) /\ rest # <<>>
    <2>1. i \in Int /\ Len(plan) \in Int /\ i <= Len(plan)
      OBVIOUS
    <2>2. \A k \in i .. Len(plan) : plan[k] \in Axes \X Queries
      OBVIOUS
    <2>3. rest \in Seq(Axes \X Queries) /\ Len(rest) = Len(plan) - i + 1
      BY <2>1, <2>2, SubSeqProperties
    <2> HIDE DEF rest
    <2> QED
      BY <2>1, <2>3
  <1>3. /\ Late(read[m][q])
        /\ read' = [read EXCEPT ![m][q] = GiveUp(read[m][q])]
        /\ worker' = [plan |-> rest, late |-> GiveUp(read[m][q]).timeouts]
        /\ UNCHANGED <<sent, cursor, pending, queue, sending, answers, receiver, caller, shared>>
    BY DEF Expire, bus
  <1> HIDE DEF m, q, rest
  <1>4. read[m][q] \in Reads
    BY <1>1 DEF IInv, TypeOK, Reads
  <1>5. GiveUp(read[m][q]) \in Reads /\ GiveUp(read[m][q]).timeouts # 0
    BY <1>4, ReadTypes
  <1>6. /\ read' \in [Axes -> [Queries -> Reads]]
        /\ read'[m][q] = GiveUp(read[m][q])
        /\ \A n \in Axes, p \in Queries : ~(n = m /\ p = q) => read'[n][p] = read[n][p]
    BY <1>1, <1>3, <1>5 DEF IInv, TypeOK, Reads
  <1>7. TypeOK'
    <2>1. worker'.plan \in Seq(Axes \X Queries) /\ worker'.late \in 0 .. TimeoutCap
      BY <1>2, <1>3, <1>5 DEF Reads
    <2> QED
      BY <2>1, <1>3, <1>6 DEF IInv, TypeOK, Reads
  <1>8. Shape'
    BY <1>2, <1>3 DEF IInv, Shape
  <1>9. QueuedHasFrame'
    <2>1. read'[m][q].phase # "queued"
      BY <1>6 DEF GiveUp
    <2> QED
      BY <2>1, <1>1, <1>3, <1>6 DEF IInv, QueuedHasFrame
  <1>10. Counted'
    <2> SUFFICES ASSUME NEW n \in Axes, NEW p \in Queries
                 PROVE  CountedAt(read'[n][p], sent'[n][p], <<n, p>>, sending')
      BY DEF Counted
    <2>1. /\ CountedAt(read[n][p], sent[n][p], <<n, p>>, sending)
          /\ read[n][p] \in Reads /\ sent[n][p] \in 0 .. TimeoutCap - 1
      BY DEF IInv, Counted, TypeOK, Reads
    <2>2. sent'[n][p] = sent[n][p] /\ sending' = sending /\ read'[n][p] \in Reads
      BY <1>3, <1>6
    <2>3. Open(read[n][p]) \in {0, 1} /\ read[n][p].timeouts \in 0 .. TimeoutCap
      BY <2>1 DEF Open, Reads
    <2>4. read'[n][p].timeouts + Open(read'[n][p]) <= read[n][p].timeouts + Open(read[n][p])
      <3>1. CASE n = m /\ p = q
        <4>1. Open(read[n][p]) = 1
          BY <3>1, <1>3 DEF Late, Open
        <4>2. Open(read'[n][p]) = 0 /\ read'[n][p].timeouts = AtMost(read[n][p].timeouts + 1, TimeoutCap)
          BY <3>1, <1>6 DEF GiveUp, Open
        <4> QED
          BY <4>1, <4>2, <2>3, TimeoutAssumption DEF AtMost
      <3>2. CASE ~(n = m /\ p = q)
        <4>1. read'[n][p] = read[n][p]
          BY <3>2, <1>6
        <4> QED
          BY <4>1, <2>3
      <3> QED
        BY <3>1, <3>2
    <2> QED
      BY <2>1, <2>2, <2>4, CountKept
  <1> QED
    BY <1>7, <1>8, <1>9, <1>10 DEF IInv

\* A tick of the refresh worker keeps it.
LEMMA TickStep ==
    ASSUME IInv, Tick
    PROVE  IInv'
  <1>1. PICK plan \in {Attempts(FALSE), Attempts(TRUE), worker.plan} :
          /\ Plans(plan)
          /\ AllBlocked(plan) \/ \E i \in 1 .. Len(plan) : Issue(plan, i) \/ Expire(plan, i)
    BY DEF Tick
  <1>2. plan \in Seq(Axes \X Queries)
    <2>1. cycle \in 0 .. Len(Feedback) - 1 /\ cursor \in Axes /\ worker.plan \in Seq(Axes \X Queries)
      BY DEF IInv, TypeOK
    <2>2. Attempts(FALSE) \in Seq(Axes \X Queries) /\ Attempts(TRUE) \in Seq(Axes \X Queries)
      BY <2>1, AttemptsType
    <2> QED
      BY <2>1, <2>2
  <1>3. cycle' \in 0 .. Len(Feedback) - 1
    <2>1. cycle \in 0 .. Len(Feedback) - 1
      BY DEF IInv, TypeOK
    <2>2. cycle + 1 \in Int
      BY <2>1, FeedbackQueries
    <2>3. (cycle + 1) % Len(Feedback) \in 0 .. Len(Feedback) - 1
      BY <2>2, FeedbackQueries, ModRange
    <2> QED
      BY <2>1, <2>3, <1>1 DEF Plans
  <1>4. CASE AllBlocked(plan)
    <2>1. /\ worker' = Idle
          /\ UNCHANGED <<read, sent, cursor, pending, queue, sending, answers, receiver, caller, shared>>
      BY <1>4 DEF AllBlocked, protocol, bus
    <2>2. TypeOK'
      BY <2>1, <1>3, TimeoutAssumption DEF IInv, TypeOK, Idle
    <2>3. Shape' /\ QueuedHasFrame' /\ Counted'
      BY <2>1 DEF IInv, Shape, QueuedHasFrame, Counted, Idle
    <2> QED
      BY <2>2, <2>3 DEF IInv
  <1>5. ASSUME NEW i \in 1 .. Len(plan), Issue(plan, i) \/ Expire(plan, i)
        PROVE  IInv'
    BY <1>2, <1>3, <1>5, IssueStep, ExpireStep
  <1> QED
    BY <1>1, <1>4, <1>5

\* Publishing a timeout keeps it.
LEMMA NoteTimeoutStep ==
    ASSUME IInv, NoteTimeout
    PROVE  IInv'
  <1>0. shared' = [shared EXCEPT ![worker.plan[1][1]].degraded = worker.late >= DegradedAt]
    BY DEF NoteTimeout, NoteSharedTimeout
  <1>1. worker.late # 0 /\ worker' = [plan |-> Tail(worker.plan), late |-> 0]
    BY DEF NoteTimeout
  <1>2. worker.plan \in Seq(Axes \X Queries) /\ worker.plan # <<>>
    BY <1>1 DEF IInv, TypeOK, Shape
  <1>3. worker'.plan \in Seq(Axes \X Queries) /\ worker'.late = 0
    BY <1>1, <1>2, HeadTailProperties
  <1>4. shared' \in [Axes -> [degraded : BOOLEAN, current : BOOLEAN]]
    <2>1. (worker.late >= DegradedAt) \in BOOLEAN
      OBVIOUS
    <2> QED
      BY <1>0, <2>1 DEF IInv, TypeOK
  <1>5. UNCHANGED <<read, sent, cursor, cycle, pending, queue, sending, answers, receiver, caller>>
    BY DEF NoteTimeout, protocol, bus
  <1>6. TypeOK'
    BY <1>3, <1>4, <1>5, TimeoutAssumption DEF IInv, TypeOK
  <1>7. Shape' /\ QueuedHasFrame' /\ Counted'
    BY <1>3, <1>5 DEF IInv, Shape, QueuedHasFrame, Counted
  <1> QED
    BY <1>6, <1>7 DEF IInv

\* Sending keeps it: the frame moves from the queue to the completion.
LEMMA SendQueryStep ==
    ASSUME IInv, SendQuery
    PROVE  IInv'
  <1> DEFINE m == queue[1][1]
             q == queue[1][2]
             k == AtMost(sent[m][q] + 1, TimeoutCap - 1)
  <1>1. /\ queue \in Seq(Axes \X Queries) /\ queue # <<>> /\ Len(queue) <= MaxDepth
        /\ answers \in Seq(Axes \X Queries)
    BY DEF IInv, TypeOK, SendQuery
  <1>2. m \in Axes /\ q \in Queries /\ queue[1] = <<m, q>>
    BY <1>1
  <1>3. /\ sending = {} /\ sending' = {<<m, q>>}
        /\ answers' = IF Len(answers) < MaxAnswers THEN Append(answers, <<m, q>>) ELSE answers
        /\ sent' = [sent EXCEPT ![m][q] = k]
        /\ queue' = Tail(queue)
        /\ UNCHANGED <<read, worker, cursor, cycle, pending, receiver, caller, shared>>
    BY DEF SendQuery, refresh
  <1>4. /\ queue' \in Seq(Axes \X Queries) /\ Len(queue') = Len(queue) - 1
        /\ \A i \in 1 .. Len(queue') : queue'[i] = queue[i + 1]
    BY <1>1, <1>3, HeadTailProperties
  <1> HIDE DEF m, q, k
  <1>5. answers' \in Seq(Axes \X Queries)
    BY <1>1, <1>2, <1>3
  <1>6. /\ read[m][q] \in Reads /\ sent[m][q] \in 0 .. TimeoutCap - 1
        /\ CountedAt(read[m][q], sent[m][q], <<m, q>>, sending)
    BY <1>2 DEF IInv, TypeOK, Reads, Counted
  <1>7. k \in 0 .. TimeoutCap - 1 /\ CountedAt(read[m][q], k, <<m, q>>, sending')
    BY <1>6, CountSent DEF k
  <1>8. /\ sent' \in [Axes -> [Queries -> 0 .. TimeoutCap - 1]]
        /\ sent'[m][q] = k
        /\ \A n \in Axes, p \in Queries : ~(n = m /\ p = q) => sent'[n][p] = sent[n][p]
    BY <1>2, <1>3, <1>7 DEF IInv, TypeOK
  <1>9. \A x, y \in sending' : x = y
    BY <1>3
  <1>10. TypeOK'
    <2>1. Cardinality(sending') <= 1
      BY <1>9, OneElement
    <2>2. sending' \subseteq Axes \X Queries
      BY <1>2, <1>3
    <2>3. Len(queue') <= MaxDepth
      BY <1>1, <1>4, BoundsAssumption
    <2> QED
      BY <2>1, <2>2, <2>3, <1>3, <1>4, <1>5, <1>8 DEF IInv, TypeOK
  <1>11. Shape'
    BY <1>3, <1>9 DEF IInv, Shape
  <1>12. QueuedHasFrame'
    <2> SUFFICES ASSUME NEW n \in Axes, NEW p \in Queries, read[n][p].phase = "queued",
                        <<n, p>> # <<m, q>>
                 PROVE  \E i \in 1 .. Len(queue') : queue'[i] = <<n, p>>
      BY <1>3 DEF QueuedHasFrame
    <2>1. PICK i \in 1 .. Len(queue) : queue[i] = <<n, p>>
      BY <1>3 DEF IInv, QueuedHasFrame
    <2>2. i # 1
      BY <2>1, <1>2
    <2>3. i - 1 \in 1 .. Len(queue') /\ queue'[i - 1] = queue[i]
      <3>1. i - 1 \in 1 .. Len(queue')
        BY <2>2, <1>1, <1>4
      <3>2. queue'[i - 1] = queue[(i - 1) + 1]
        BY <3>1, <1>4
      <3> QED
        BY <3>1, <3>2
    <2> QED
      BY <2>1, <2>3
  <1>13. Counted'
    <2> SUFFICES ASSUME NEW n \in Axes, NEW p \in Queries
                 PROVE  CountedAt(read[n][p], sent'[n][p], <<n, p>>, sending')
      BY <1>3 DEF Counted
    <2>1. CASE n = m /\ p = q
      BY <2>1, <1>7, <1>8
    <2>2. CASE ~(n = m /\ p = q)
      <3>1. /\ CountedAt(read[n][p], sent[n][p], <<n, p>>, sending)
            /\ read[n][p] \in Reads /\ sent[n][p] \in 0 .. TimeoutCap - 1
        BY DEF IInv, Counted, TypeOK, Reads
      <3>2. sent'[n][p] = sent[n][p] /\ <<n, p>> \notin sending'
        BY <2>2, <1>3, <1>8
      <3>3. read[n][p].timeouts + Open(read[n][p]) <= read[n][p].timeouts + Open(read[n][p])
        BY <3>1 DEF Reads, Open
      <3> QED
        BY <3>1, <3>2, <3>3, CountKept
    <2> QED
      BY <2>1, <2>2
  <1> QED
    BY <1>10, <1>11, <1>12, <1>13 DEF IInv

\* A completion keeps it, even one that comes after the answer.
LEMMA CompleteStep ==
    ASSUME IInv, Complete
    PROVE  IInv'
  <1>1. PICK s \in sending : read' = [read EXCEPT ![s[1]][s[2]] = Completed(read[s[1]][s[2]], TRUE)]
    BY DEF Complete
  <1>2. /\ sending' = {}
        /\ UNCHANGED <<sent, worker, cursor, cycle, pending, queue, answers, receiver, caller, shared>>
    BY DEF Complete, refresh
  <1> DEFINE m == s[1]
             q == s[2]
             c == Completed(read[m][q], TRUE)
  <1>3. m \in Axes /\ q \in Queries /\ s = <<m, q>>
    BY DEF IInv, TypeOK
  <1>4. \A f \in sending : f = <<m, q>>
    BY <1>3 DEF IInv, Shape
  <1>5. read' = [read EXCEPT ![m][q] = c]
    BY <1>1
  <1> HIDE DEF m, q, c
  <1>6. /\ read[m][q] \in Reads /\ sent[m][q] \in 0 .. TimeoutCap - 1
        /\ CountedAt(read[m][q], sent[m][q], <<m, q>>, sending)
    BY <1>3 DEF IInv, TypeOK, Reads, Counted
  <1>7. c \in Reads /\ c.phase = "flight" /\ c.timeouts = read[m][q].timeouts /\ Open(c) = 1
    BY <1>6, ReadTypes DEF c, Completed, Reads, Open
  <1>8. /\ read' \in [Axes -> [Queries -> Reads]]
        /\ read'[m][q] = c
        /\ \A n \in Axes, p \in Queries : ~(n = m /\ p = q) => read'[n][p] = read[n][p]
    BY <1>3, <1>5, <1>7 DEF IInv, TypeOK, Reads
  <1>9. TypeOK'
    <2>1. Cardinality(sending') <= 1
      BY <1>2, OneElement
    <2> QED
      BY <2>1, <1>2, <1>8 DEF IInv, TypeOK, Reads
  <1>10. Shape'
    BY <1>2 DEF IInv, Shape
  <1>11. QueuedHasFrame'
    <2> SUFFICES ASSUME NEW n \in Axes, NEW p \in Queries, read'[n][p].phase = "queued"
                 PROVE  \E i \in 1 .. Len(queue) : queue[i] = <<n, p>>
      BY <1>2 DEF QueuedHasFrame
    <2>1. ~(n = m /\ p = q)
      BY <1>7, <1>8
    <2>2. read[n][p].phase = "queued" /\ <<n, p>> \notin sending
      BY <2>1, <1>4, <1>8
    <2> QED
      BY <2>2 DEF IInv, QueuedHasFrame
  <1>12. Counted'
    <2> SUFFICES ASSUME NEW n \in Axes, NEW p \in Queries
                 PROVE  CountedAt(read'[n][p], sent[n][p], <<n, p>>, {})
      BY <1>2 DEF Counted
    <2>1. CASE n = m /\ p = q
      <3>1. CountedAt(c, sent[m][q], <<m, q>>, {})
        <4>1. <<m, q>> \in sending
          BY <1>3
        <4> QED
          BY <4>1, <1>6, <1>7, CountCompleted
      <3> QED
        BY <2>1, <3>1, <1>8
    <2>2. CASE ~(n = m /\ p = q)
      <3>1. /\ CountedAt(read[n][p], sent[n][p], <<n, p>>, sending)
            /\ read[n][p] \in Reads /\ sent[n][p] \in 0 .. TimeoutCap - 1
        BY DEF IInv, Counted, TypeOK, Reads
      <3>2. read'[n][p] = read[n][p]
        BY <2>2, <1>8
      <3>3. read[n][p].timeouts + Open(read[n][p]) <= read[n][p].timeouts + Open(read[n][p])
        BY <3>1 DEF Reads, Open
      <3> QED
        BY <3>1, <3>2, <3>3, CountKept
    <2> QED
      BY <2>1, <2>2
  <1> QED
    BY <1>9, <1>10, <1>11, <1>12 DEF IInv

\* A frame that is lost keeps it: its read is not queued any more.
LEMMA LoseQueryStep ==
    ASSUME IInv, LoseQuery
    PROVE  IInv'
  <1> DEFINE m == queue[1][1]
             q == queue[1][2]
             c == Completed(read[m][q], FALSE)
  <1>1. queue \in Seq(Axes \X Queries) /\ queue # <<>> /\ Len(queue) <= MaxDepth
    BY DEF IInv, TypeOK, LoseQuery
  <1>2. m \in Axes /\ q \in Queries /\ queue[1] = <<m, q>>
    BY <1>1
  <1>3. /\ read' = [read EXCEPT ![m][q] = c]
        /\ queue' = Tail(queue)
        /\ UNCHANGED <<sent, worker, cursor, cycle, pending, sending, answers, receiver, caller, shared>>
    BY DEF LoseQuery, refresh
  <1>4. /\ queue' \in Seq(Axes \X Queries) /\ Len(queue') = Len(queue) - 1
        /\ \A i \in 1 .. Len(queue') : queue'[i] = queue[i + 1]
    BY <1>1, <1>3, HeadTailProperties
  <1> HIDE DEF m, q, c
  <1>5. read[m][q] \in Reads
    BY <1>2 DEF IInv, TypeOK, Reads
  <1>6. c \in Reads /\ c.phase = "idle" /\ c.timeouts = read[m][q].timeouts /\ Open(c) = 0
    BY <1>5, ReadTypes DEF c, Completed, Reads, Open
  <1>7. /\ read' \in [Axes -> [Queries -> Reads]]
        /\ read'[m][q] = c
        /\ \A n \in Axes, p \in Queries : ~(n = m /\ p = q) => read'[n][p] = read[n][p]
    BY <1>2, <1>3, <1>6 DEF IInv, TypeOK, Reads
  <1>8. TypeOK'
    <2>1. Len(queue') <= MaxDepth
      BY <1>1, <1>4, BoundsAssumption
    <2> QED
      BY <2>1, <1>3, <1>4, <1>7 DEF IInv, TypeOK, Reads
  <1>9. Shape'
    BY <1>3 DEF IInv, Shape
  <1>10. QueuedHasFrame'
    <2> SUFFICES ASSUME NEW n \in Axes, NEW p \in Queries, read'[n][p].phase = "queued",
                        <<n, p>> \notin sending
                 PROVE  \E i \in 1 .. Len(queue') : queue'[i] = <<n, p>>
      BY <1>3 DEF QueuedHasFrame
    <2>1. ~(n = m /\ p = q)
      BY <1>6, <1>7
    <2>2. PICK i \in 1 .. Len(queue) : queue[i] = <<n, p>>
      BY <2>1, <1>7 DEF IInv, QueuedHasFrame
    <2>3. i # 1
      BY <2>1, <2>2, <1>2
    <2>4. i - 1 \in 1 .. Len(queue')
      BY <2>3, <1>1, <1>4
    <2>5. queue'[i - 1] = queue[(i - 1) + 1]
      BY <2>4, <1>4
    <2>6. (i - 1) + 1 = i
      OBVIOUS
    <2> QED
      BY <2>2, <2>4, <2>5, <2>6
  <1>11. Counted'
    <2> SUFFICES ASSUME NEW n \in Axes, NEW p \in Queries
                 PROVE  CountedAt(read'[n][p], sent[n][p], <<n, p>>, sending)
      BY <1>3 DEF Counted
    <2>1. /\ CountedAt(read[n][p], sent[n][p], <<n, p>>, sending)
          /\ read[n][p] \in Reads /\ sent[n][p] \in 0 .. TimeoutCap - 1
      BY DEF IInv, Counted, TypeOK, Reads
    <2>2. Open(read[n][p]) \in {0, 1} /\ read[n][p].timeouts \in Int /\ read'[n][p] \in Reads
      BY <2>1, <1>7 DEF Open, Reads
    <2>3. read'[n][p].timeouts + Open(read'[n][p]) <= read[n][p].timeouts + Open(read[n][p])
      <3>1. CASE n = m /\ p = q
        BY <3>1, <2>2, <1>6, <1>7
      <3>2. CASE ~(n = m /\ p = q)
        <4>1. read'[n][p] = read[n][p]
          BY <3>2, <1>7
        <4> QED
          BY <4>1, <2>2
      <3> QED
        BY <3>1, <3>2
    <2> QED
      BY <2>1, <2>2, <2>3, CountKept
  <1> QED
    BY <1>8, <1>9, <1>10, <1>11 DEF IInv

\* Outdating snapshots leaves snapshots, and not more of them.
LEMMA OutdatedType ==
    ASSUME NEW S, S \subseteq [axis : Axes, current : BOOLEAN], \A x, y \in S : x = y,
           NEW m \in Axes
    PROVE  /\ Outdated(S, m) \subseteq [axis : Axes, current : BOOLEAN]
           /\ \A x, y \in Outdated(S, m) : x = y
  <1>1. ASSUME NEW s \in S
        PROVE  [s EXCEPT !.current = s.current /\ s.axis # m] \in [axis : Axes, current : BOOLEAN]
    <2> DEFINE b == s.current /\ s.axis # m
    <2>1. b \in BOOLEAN
      OBVIOUS
    <2> HIDE DEF b
    <2>2. [s EXCEPT !.current = b] \in [axis : Axes, current : BOOLEAN]
      BY <2>1
    <2> QED
      BY <2>2 DEF b
  <1> QED
    BY <1>1 DEF Outdated

\* Handling an answer keeps it.
LEMMA HandleResponseStep ==
    ASSUME IInv, HandleResponse
    PROVE  IInv'
  <1> DEFINE m == answers[1][1]
             q == answers[1][2]
             a == Answered(read[m][q])
  <1>1. answers \in Seq(Axes \X Queries) /\ answers # <<>>
    BY DEF IInv, TypeOK, HandleResponse
  <1>2. m \in Axes /\ q \in Queries
    BY <1>1
  <1>3. /\ read' = [read EXCEPT ![m][q] = a]
        /\ sent' = [sent EXCEPT ![m][q] = 0]
        /\ receiver' = {[axis |-> m, current |-> TRUE]}
        /\ caller' = Outdated(caller, m)
        /\ shared' = [shared EXCEPT ![m].current = FALSE]
        /\ answers' = Tail(answers)
    BY DEF HandleResponse, Mark
  <1>4. UNCHANGED <<worker, cursor, cycle, pending, queue, sending>>
    BY DEF HandleResponse, refresh
  <1>5. answers' \in Seq(Axes \X Queries)
    BY <1>1, <1>3, HeadTailProperties
  <1> HIDE DEF m, q, a
  <1>6. a \in Reads /\ a.phase = "idle" /\ a.timeouts = 0 /\ Open(a) = 0
    <2>1. read[m][q] \in Reads
      BY <1>2 DEF IInv, TypeOK, Reads
    <2> QED
      BY <2>1, ReadTypes DEF a, Answered, NoRead, Open
  <1>7. /\ read' \in [Axes -> [Queries -> Reads]]
        /\ read'[m][q] = a
        /\ \A n \in Axes, p \in Queries : ~(n = m /\ p = q) => read'[n][p] = read[n][p]
    BY <1>2, <1>3, <1>6 DEF IInv, TypeOK, Reads
  <1>8. /\ sent' \in [Axes -> [Queries -> 0 .. TimeoutCap - 1]]
        /\ sent'[m][q] = 0
        /\ \A n \in Axes, p \in Queries : ~(n = m /\ p = q) => sent'[n][p] = sent[n][p]
    BY <1>2, <1>3, TimeoutAssumption DEF IInv, TypeOK
  <1>9. (\A x, y \in receiver' : x = y) /\ (\A x, y \in caller' : x = y)
    BY <1>2, <1>3, OutdatedType DEF IInv, TypeOK, Shape
  <1>10. TypeOK'
    <2>1. Cardinality(receiver') <= 1 /\ Cardinality(caller') <= 1
      BY <1>9, OneElement
    <2>2. receiver' \subseteq [axis : Axes, current : BOOLEAN]
      BY <1>2, <1>3
    <2>3. caller' \subseteq [axis : Axes, current : BOOLEAN]
      BY <1>2, <1>3, OutdatedType DEF IInv, TypeOK, Shape
    <2>4. shared' \in [Axes -> [degraded : BOOLEAN, current : BOOLEAN]]
      BY <1>3 DEF IInv, TypeOK
    <2> QED
      BY <2>1, <2>2, <2>3, <2>4, <1>4, <1>5, <1>7, <1>8 DEF IInv, TypeOK, Reads
  <1>11. Shape'
    BY <1>4, <1>9 DEF IInv, Shape
  <1>12. QueuedHasFrame'
    BY <1>4, <1>6, <1>7 DEF IInv, QueuedHasFrame
  <1>13. Counted'
    <2> SUFFICES ASSUME NEW n \in Axes, NEW p \in Queries
                 PROVE  CountedAt(read'[n][p], sent'[n][p], <<n, p>>, sending)
      BY <1>4 DEF Counted
    <2>1. CASE n = m /\ p = q
      <3>1. CountedAt(a, 0, <<m, q>>, sending)
        BY <1>6, CountReset
      <3> QED
        BY <2>1, <3>1, <1>7, <1>8
    <2>2. CASE ~(n = m /\ p = q)
      BY <2>2, <1>7, <1>8 DEF IInv, Counted
    <2> QED
      BY <2>1, <2>2
  <1> QED
    BY <1>10, <1>11, <1>12, <1>13 DEF IInv

\* Publishing a snapshot keeps it.
LEMMA PublishStep ==
    ASSUME IInv, PublishSnapshot \/ PublishEnabled
    PROVE  IInv'
  <1>1. PICK r \in receiver \cup caller : Publish(r.axis, r.current)
    BY DEF PublishSnapshot, PublishEnabled
  <1>2. /\ UNCHANGED <<read, sent, worker, cursor, cycle, queue, sending, answers>>
        /\ receiver' = {} \/ receiver' = receiver
        /\ caller' = {} \/ caller' = caller
    BY DEF PublishSnapshot, PublishEnabled, protocol, bus
  <1>3. r.axis \in Axes /\ r.current \in BOOLEAN
    BY DEF IInv, TypeOK
  <1>4. shared' \in [Axes -> [degraded : BOOLEAN, current : BOOLEAN]]
    BY <1>1, <1>3 DEF Publish, IInv, TypeOK
  <1>5. pending' \in 0 .. Motors
    BY <1>1, MotorsAssumption DEF Publish, IInv, TypeOK
  <1>6. (\A x, y \in receiver' : x = y) /\ (\A x, y \in caller' : x = y)
    BY <1>2 DEF IInv, Shape
  <1>7. TypeOK'
    <2>1. Cardinality(receiver') <= 1 /\ Cardinality(caller') <= 1
      BY <1>6, OneElement
    <2>2. /\ receiver' \subseteq [axis : Axes, current : BOOLEAN]
          /\ caller' \subseteq [axis : Axes, current : BOOLEAN]
      BY <1>2 DEF IInv, TypeOK
    <2> QED
      BY <2>1, <2>2, <1>2, <1>4, <1>5 DEF IInv, TypeOK
  <1>8. Shape' /\ QueuedHasFrame' /\ Counted'
    BY <1>2, <1>6 DEF IInv, Shape, QueuedHasFrame, Counted
  <1> QED
    BY <1>7, <1>8 DEF IInv

\* Enable and Disable keep it.
LEMMA SetEnabledStep ==
    ASSUME IInv, NEW m \in Axes, SetEnabled(m)
    PROVE  IInv'
  <1>1. /\ caller' = {[axis |-> m, current |-> TRUE]}
        /\ receiver' = Outdated(receiver, m)
        /\ shared' = [shared EXCEPT ![m].current = FALSE]
    BY DEF SetEnabled
  <1>2. UNCHANGED <<read, sent, worker, cursor, cycle, pending, queue, sending, answers>>
    BY DEF SetEnabled, protocol, refresh, bus
  <1>3. (\A x, y \in receiver' : x = y) /\ (\A x, y \in caller' : x = y)
    BY <1>1, OutdatedType DEF IInv, TypeOK, Shape
  <1>4. TypeOK'
    <2>1. Cardinality(receiver') <= 1 /\ Cardinality(caller') <= 1
      BY <1>3, OneElement
    <2>2. receiver' \subseteq [axis : Axes, current : BOOLEAN]
      BY <1>1, OutdatedType DEF IInv, TypeOK, Shape
    <2>3. caller' \subseteq [axis : Axes, current : BOOLEAN]
      BY <1>1
    <2>4. shared' \in [Axes -> [degraded : BOOLEAN, current : BOOLEAN]]
      BY <1>1 DEF IInv, TypeOK
    <2> QED
      BY <2>1, <2>2, <2>3, <2>4, <1>2 DEF IInv, TypeOK
  <1>5. Shape' /\ QueuedHasFrame' /\ Counted'
    BY <1>2, <1>3 DEF IInv, Shape, QueuedHasFrame, Counted
  <1> QED
    BY <1>4, <1>5 DEF IInv

\* ResetFault keeps it, although it forgets a read that may be queued.
LEMMA ResetFaultStep ==
    ASSUME IInv, NEW m \in Axes, ResetFault(m)
    PROVE  IInv'
  <1> DEFINE q == "Error"
             a == Answered(read[m][q])
  <1>1. q \in Queries
    BY FeedbackQueries
  <1>2. /\ sent' = [sent EXCEPT ![m][q] = 0]
        /\ Book(m, q, a)
        /\ UNCHANGED <<worker, cursor, cycle, pending, sending, answers, receiver, caller, shared>>
    BY DEF ResetFault, refresh
  <1> HIDE DEF q, a
  <1>3. a \in Reads /\ a.timeouts = 0
    <2>1. read[m][q] \in Reads
      BY <1>1 DEF IInv, TypeOK, Reads
    <2> QED
      BY <2>1, ReadTypes DEF a, Answered, NoRead
  <1>4. /\ read' \in [Axes -> [Queries -> Reads]]
        /\ queue' \in Seq(Axes \X Queries) /\ Len(queue') <= MaxDepth
        /\ Open(read'[m][q]) = 0 /\ read'[m][q].timeouts = a.timeouts
        /\ read'[m][q].phase = "queued" => \E k \in 1 .. Len(queue') : queue'[k] = <<m, q>>
        /\ \A k \in 1 .. Len(queue) : k \in 1 .. Len(queue') /\ queue'[k] = queue[k]
        /\ \A n \in Axes, p \in Queries : <<n, p>> # <<m, q>> => read'[n][p] = read[n][p]
    BY <1>1, <1>2, <1>3, BookStep DEF IInv
  <1>5. /\ sent' \in [Axes -> [Queries -> 0 .. TimeoutCap - 1]]
        /\ sent'[m][q] = 0
        /\ \A n \in Axes, p \in Queries : ~(n = m /\ p = q) => sent'[n][p] = sent[n][p]
    BY <1>1, <1>2, TimeoutAssumption DEF IInv, TypeOK
  <1>6. TypeOK'
    BY <1>2, <1>4, <1>5 DEF IInv, TypeOK, Reads
  <1>7. Shape'
    BY <1>2 DEF IInv, Shape
  <1>8. QueuedHasFrame'
    <2> SUFFICES ASSUME NEW n \in Axes, NEW p \in Queries, read'[n][p].phase = "queued"
                 PROVE  (\E k \in 1 .. Len(queue') : queue'[k] = <<n, p>>) \/ <<n, p>> \in sending'
      BY DEF QueuedHasFrame
    <2>1. CASE <<n, p>> = <<m, q>>
      BY <2>1, <1>4
    <2>2. CASE <<n, p>> # <<m, q>>
      BY <2>2, <1>2, <1>4 DEF IInv, QueuedHasFrame
    <2> QED
      BY <2>1, <2>2
  <1>9. Counted'
    <2> SUFFICES ASSUME NEW n \in Axes, NEW p \in Queries
                 PROVE  CountedAt(read'[n][p], sent'[n][p], <<n, p>>, sending)
      BY <1>2 DEF Counted
    <2>1. CASE n = m /\ p = q
      <3>1. CountedAt(read'[m][q], 0, <<m, q>>, sending)
        BY <1>3, <1>4, CountReset
      <3> QED
        BY <2>1, <3>1, <1>5
    <2>2. CASE ~(n = m /\ p = q)
      <3>1. read'[n][p] = read[n][p] /\ sent'[n][p] = sent[n][p]
        BY <2>2, <1>4, <1>5
      <3> QED
        BY <3>1 DEF IInv, Counted
    <2> QED
      BY <2>1, <2>2
  <1> QED
    BY <1>6, <1>7, <1>8, <1>9 DEF IInv

\* The passing of a read's time limits keeps it.
LEMMA ClockStep ==
    ASSUME IInv, NEW m \in Axes, NEW q \in Queries, ReadExpires(m, q) \/ BackoffEnds(m, q)
    PROVE  IInv'
  <1>1. UNCHANGED <<sent, worker, cursor, cycle, pending, queue, sending, answers, receiver, caller, shared>>
    BY DEF ReadExpires, BackoffEnds, refresh, bus
  <1>2. read[m][q] \in Reads
    BY DEF IInv, TypeOK, Reads
  <1>3. PICK r \in Reads :
          /\ read' = [read EXCEPT ![m][q] = r]
          /\ r.timeouts = read[m][q].timeouts /\ Open(r) = Open(read[m][q])
          /\ r.phase = "queued" => read[m][q].phase = "queued"
    <2>1. CASE ReadExpires(m, q)
      <3> DEFINE r == [read[m][q] EXCEPT !.phase = "expired"]
      <3>1. read' = [read EXCEPT ![m][q] = r] /\ read[m][q].phase = "flight"
        BY <2>1 DEF ReadExpires
      <3>2. /\ r \in Reads /\ r.timeouts = read[m][q].timeouts
            /\ Open(r) = Open(read[m][q]) /\ r.phase # "queued"
        BY <3>1, <1>2 DEF Reads, Phases, Open
      <3> HIDE DEF r
      <3> QED
        BY <3>1, <3>2
    <2>2. CASE BackoffEnds(m, q)
      <3> DEFINE r == [read[m][q] EXCEPT !.backoff = FALSE]
      <3>1. read' = [read EXCEPT ![m][q] = r]
        BY <2>2 DEF BackoffEnds
      <3>2. /\ r \in Reads /\ r.timeouts = read[m][q].timeouts
            /\ Open(r) = Open(read[m][q]) /\ r.phase = read[m][q].phase
        BY <1>2 DEF Reads, Phases, Open
      <3> HIDE DEF r
      <3> QED
        BY <3>1, <3>2
    <2> QED
      BY <2>1, <2>2
  <1>4. /\ read' \in [Axes -> [Queries -> Reads]]
        /\ read'[m][q] = r
        /\ \A n \in Axes, p \in Queries : ~(n = m /\ p = q) => read'[n][p] = read[n][p]
    BY <1>3 DEF IInv, TypeOK, Reads
  <1>5. TypeOK'
    BY <1>1, <1>4 DEF IInv, TypeOK, Reads
  <1>6. Shape'
    BY <1>1 DEF IInv, Shape
  <1>7. QueuedHasFrame'
    BY <1>1, <1>3, <1>4 DEF IInv, QueuedHasFrame
  <1>8. Counted'
    <2> SUFFICES ASSUME NEW n \in Axes, NEW p \in Queries
                 PROVE  CountedAt(read'[n][p], sent[n][p], <<n, p>>, sending)
      BY <1>1 DEF Counted
    <2>1. CountedAt(read[n][p], sent[n][p], <<n, p>>, sending)
      BY DEF IInv, Counted
    <2>2. read'[n][p].timeouts = read[n][p].timeouts /\ Open(read'[n][p]) = Open(read[n][p])
      BY <1>3, <1>4
    <2> QED
      BY <2>1, <2>2 DEF CountedAt
  <1> QED
    BY <1>5, <1>6, <1>7, <1>8 DEF IInv

\* So do the steps that leave the books alone.
LEMMA SideStep ==
    ASSUME IInv, LoseAnswer \/ WaitEnds \/ (\E m \in Axes : FeedbackAges(m)) \/ UNCHANGED vars
    PROVE  IInv'
  <1>1. UNCHANGED <<read, sent, worker, cursor, cycle, queue, sending, receiver, caller>>
    BY DEF LoseAnswer, WaitEnds, FeedbackAges, vars, protocol, refresh, bus
  <1>2. answers' \in Seq(Axes \X Queries)
    <2>1. answers \in Seq(Axes \X Queries)
      BY DEF IInv, TypeOK
    <2>2. answers' = answers \/ (answers # <<>> /\ answers' = Tail(answers))
      BY DEF LoseAnswer, WaitEnds, FeedbackAges, vars, bus
    <2> QED
      BY <2>1, <2>2, HeadTailProperties
  <1>3. pending' \in 0 .. Motors
    BY MotorsAssumption DEF LoseAnswer, WaitEnds, FeedbackAges, vars, refresh, IInv, TypeOK
  <1>4. shared' \in [Axes -> [degraded : BOOLEAN, current : BOOLEAN]]
    BY DEF LoseAnswer, WaitEnds, FeedbackAges, vars, IInv, TypeOK
  <1>5. TypeOK'
    BY <1>1, <1>2, <1>3, <1>4 DEF IInv, TypeOK
  <1>6. Shape' /\ QueuedHasFrame' /\ Counted'
    BY <1>1 DEF IInv, Shape, QueuedHasFrame, Counted
  <1> QED
    BY <1>5, <1>6 DEF IInv

\* Every step keeps the invariant.
LEMMA NextIInv == IInv /\ [Next]_vars => IInv'
  <1> SUFFICES ASSUME IInv, [Next]_vars PROVE IInv'
    OBVIOUS
  <1>1. CASE WorkerStep
    BY <1>1, TickStep, NoteTimeoutStep DEF WorkerStep
  <1>2. CASE RuntimeStep
    BY <1>2, SendQueryStep, CompleteStep, LoseQueryStep DEF RuntimeStep
  <1>3. CASE ReceiverStep
    BY <1>3, HandleResponseStep, PublishStep DEF ReceiverStep
  <1>4. CASE TimePasses
    BY <1>4, ClockStep, SideStep DEF TimePasses
  <1>5. CASE LoseAnswer \/ UNCHANGED vars
    BY <1>5, SideStep
  <1>6. ASSUME NEW m \in Axes, FeedbackAges(m) \/ SetEnabled(m) \/ ResetFault(m)
        PROVE  IInv'
    BY <1>6, SideStep, SetEnabledStep, ResetFaultStep
  <1>7. CASE PublishEnabled
    BY <1>7, PublishStep
  <1> QED
    BY <1>1, <1>2, <1>3, <1>4, <1>5, <1>6, <1>7 DEF Next

\* The inductive invariant holds always.
THEOREM Invariant == Spec => []IInv
  BY InitIInv, NextIInv, PTL DEF Spec

\* The books, the queue and the published feedback keep their types and bounds
\* (MtCan, DeviceManager, SharedDriverState).
THEOREM TypeCorrect == Spec => []TypeOK
  BY Invariant, PTL DEF IInv

\* A read booked as queued has a frame that will complete it, whatever the order
\* of ticks, resets, answers and completions (tryIssueReadCommand,
\* onReadDispatchResult, markReadResponseReceived).
THEOREM ReadsAreNeverStuck == Spec => []QueuedHasFrame
  BY Invariant, PTL DEF IInv

\* An answer that overtakes its completion costs one wrongly counted timeout at
\* most (onReadDispatchResult).
THEOREM RaceIsBounded == Spec => []RaceCostsOne
  <1>1. IInv => RaceCostsOne
    <2> SUFFICES ASSUME IInv, NEW m \in Axes, NEW q \in Queries
                 PROVE  read[m][q].timeouts <= sent[m][q] + 1
      BY DEF RaceCostsOne
    <2>1. /\ CountedAt(read[m][q], sent[m][q], <<m, q>>, sending)
          /\ read[m][q] \in Reads /\ sent[m][q] \in 0 .. TimeoutCap - 1
      BY DEF IInv, Counted, TypeOK, Reads
    <2>2. Open(read[m][q]) \in {0, 1} /\ read[m][q].timeouts \in 0 .. TimeoutCap
      BY <2>1 DEF Open, Reads
    <2> QED
      BY <2>1, <2>2, TimeoutAssumption DEF CountedAt
  <1> QED
    BY <1>1, Invariant, PTL
=============================================================================
