------------------------- MODULE DamiaoDriveProofs -------------------------
(***************************************************************************)
(* Proofs about DamiaoDrive, for every set of velocities and every bound on *)
(* the queues and the answers.                                              *)
(*                                                                         *)
(* ModeBeforeMotion is not inductive: the mode register is written several  *)
(* steps before the protocol believes in it, and a speed is stored, read by *)
(* the keepalive, queued and taken by the worker several steps before the   *)
(* drive obeys it.  AckMeansMode follows the acknowledgement back to the drive, and          *)
(* SpeedConfigured follows a speed from the call to the queues.             *)
(* NoLateEnable needs to know where a frame that enables can be (PowerLast).*)
(***************************************************************************)
EXTENDS DamiaoDrive, TLAPS

\* An acknowledgement on its way, or noted, comes from a drive that has the mode.
AckMeansMode ==
    /\ ack = "received" => drive.mode
    /\ answers > 0 => drive.mode

\* The steps of an operation are known to the tables of intents and commands.
StepsFit ==
    /\ call = "none" => todo = <<>>
    /\ \A i \in 1 .. Len(todo) :
           /\ todo[i] = "intend" => call \in {"setVelocity", "Enable", "Disable", "Stop", "ResetFault"}
           /\ todo[i] = "send" => call \in {"setVelocity", "Enable", "Disable", "ResetFault"}

\* The acknowledgement is still ahead of the operation.
Unconfigured ==
    /\ Len(todo) > 0
    /\ todo[1] = "ack" \/ (todo[1] = "write" /\ Len(todo) > 1 /\ todo[2] = "ack")

\* A speed other than zero is known only after the mode was configured, but for
\* the argument of a call that is about to configure it.
SpeedConfigured ==
    /\ target # 0 => configured \/ Unconfigured
    /\ commanded # 0 => configured
    /\ held # 0 => configured
    /\ \A c \in Categories : \A i \in 1 .. Len(queue[c]) :
           queue[c][i].speed # 0 => configured

\* A queued frame that enables is a control frame, and no Disable was queued
\* after it.
PowerLast ==
    \A c \in Categories : \A i \in 1 .. Len(queue[c]) :
        queue[c][i].kind = "enable" => c = "Control" /\ power = "Enable"

\* The same of the frame in the worker's hand, but a Disable may have been queued
\* since it was taken.
HandFits ==
    hand # <<>> => /\ hand[1].speed # 0 => configured
                   /\ hand[1].kind = "enable" => power = "Enable" \/ late

\* The inductive invariant.
IInv == /\ TypeOK /\ ModeBeforeMotion /\ AckMeansMode /\ StepsFit /\ SpeedConfigured
        /\ PowerLast /\ HandFits

-----------------------------------------------------------------------------
\* The bounds are positive.
LEMMA Bounds == MaxDepth \in Nat /\ MaxDepth >= 1 /\ MaxAnswers \in Nat
  BY BoundsAssumption

\* The frames that the operations send.
LEMMA FrameTypes ==
    /\ \A v \in Velocities : Speed(v) \in Frame /\ Speed(v).kind = "speed" /\ Speed(v).speed = v
    /\ \A k \in {"enable", "disable", "clear", "register"} :
           Command(k) \in Frame /\ Command(k).kind = k /\ Command(k).speed = 0
  BY VelocitiesAssumption DEF Speed, Command, Frame

\* A submitted frame is in its queue or not, and nothing else comes into any.
LEMMA SubmitFacts ==
    ASSUME TypeOK, NEW c \in Categories, NEW f \in Frame, Submit(c, f)
    PROVE  /\ queue' \in [Categories -> Seq(Frame)]
           /\ \A d \in Categories : Len(queue'[d]) <= MaxDepth
           /\ \A d \in Categories : \A i \in 1 .. Len(queue'[d]) :
                 \/ d = c /\ queue'[d][i] = f
                 \/ i \in 1 .. Len(queue[d]) /\ queue'[d][i] = queue[d][i] /\ ~(c = "Control" /\ d = c)
  <1> DEFINE q == IF c = "Control" THEN <<f>> ELSE IF Len(queue[c]) < MaxDepth THEN Append(queue[c], f) ELSE queue[c]
  <1>1. queue[c] \in Seq(Frame) /\ Len(queue[c]) <= MaxDepth
    BY DEF TypeOK
  <1>2. queue' = [queue EXCEPT ![c] = q]
    BY DEF Submit, EnqueueControl, Enqueue
  <1>3. q \in Seq(Frame) /\ Len(q) <= MaxDepth
    BY <1>1, Bounds
  <1>4. \A i \in 1 .. Len(q) :
            \/ q[i] = f
            \/ i \in 1 .. Len(queue[c]) /\ q[i] = queue[c][i] /\ c # "Control"
    BY <1>1, Bounds
  <1> HIDE DEF q
  <1>5. queue'[c] = q /\ \A d \in Categories \ {c} : queue'[d] = queue[d]
    BY <1>2 DEF TypeOK
  <1> QED
    BY <1>2, <1>3, <1>4, <1>5 DEF TypeOK

\* The first frame of a queue is taken out.
LEMMA TakeFacts ==
    ASSUME TypeOK, NEW c \in Categories, queue[c] # <<>>,
           queue' = [queue EXCEPT ![c] = Tail(@)]
    PROVE  /\ queue' \in [Categories -> Seq(Frame)]
           /\ \A d \in Categories : Len(queue'[d]) <= MaxDepth
           /\ \A d \in Categories : \A i \in 1 .. Len(queue'[d]) :
                 \E j \in 1 .. Len(queue[d]) : queue'[d][i] = queue[d][j]
           /\ Head(queue[c]) = queue[c][1] /\ Head(queue[c]) \in Frame /\ 1 \in 1 .. Len(queue[c])
  <1>1. queue[c] \in Seq(Frame) /\ Len(queue[c]) <= MaxDepth
    BY DEF TypeOK
  <1>2. /\ Tail(queue[c]) \in Seq(Frame) /\ Len(Tail(queue[c])) = Len(queue[c]) - 1
        /\ \A i \in 1 .. Len(Tail(queue[c])) : i + 1 \in 1 .. Len(queue[c]) /\ Tail(queue[c])[i] = queue[c][i + 1]
    BY <1>1
  <1>3. queue'[c] = Tail(queue[c]) /\ \A d \in Categories \ {c} : queue'[d] = queue[d]
    BY DEF TypeOK
  <1>4. Len(queue[c]) \in Nat /\ Len(queue[c]) > 0
    BY <1>1
  <1>5. queue' \in [Categories -> Seq(Frame)]
    BY <1>2 DEF TypeOK
  <1>6. \A d \in Categories : Len(queue'[d]) <= MaxDepth
    BY <1>1, <1>2, <1>3, <1>4, Bounds DEF TypeOK
  <1>7. \A d \in Categories : \A i \in 1 .. Len(queue'[d]) :
            \E j \in 1 .. Len(queue[d]) : queue'[d][i] = queue[d][j]
    BY <1>2, <1>3
  <1>8. Head(queue[c]) = queue[c][1] /\ Head(queue[c]) \in Frame /\ 1 \in 1 .. Len(queue[c])
    BY <1>1, <1>4
  <1> QED
    BY <1>5, <1>6, <1>7, <1>8

\* A step of an operation is done, and the rest of its steps remains.
LEMMA DoneFacts ==
    ASSUME TypeOK, StepsFit, todo # <<>>, Done
    PROVE  /\ call' \in Calls \cup {"none"} /\ todo' \in Seq(Steps) /\ target' \in Velocities
           /\ StepsFit'
           /\ target' # 0 => target' = target /\ Len(todo) > 1 /\ todo' = Tail(todo)
  <1>1. todo \in Seq(Steps) /\ Len(todo) \in Nat /\ Len(todo) > 0
    BY DEF TypeOK
  <1>2. CASE Len(todo) = 1
    BY <1>1, <1>2, VelocitiesAssumption DEF Done, Return, StepsFit, TypeOK
  <1>3. CASE Len(todo) # 1
    <2>1. todo' = Tail(todo) /\ call' = call /\ target' = target
      BY <1>3 DEF Done
    <2>2. /\ Tail(todo) \in Seq(Steps) /\ Len(Tail(todo)) = Len(todo) - 1
          /\ \A i \in 1 .. Len(Tail(todo)) : i + 1 \in 1 .. Len(todo) /\ Tail(todo)[i] = todo[i + 1]
      BY <1>1
    <2>3. call # "none"
      BY DEF StepsFit
    <2>4. StepsFit'
      BY <2>1, <2>2, <2>3 DEF StepsFit
    <2> QED
      BY <1>1, <1>3, <2>1, <2>2, <2>4 DEF TypeOK
  <1> QED
    BY <1>2, <1>3

\* Returning leaves no step behind.
LEMMA ReturnFacts ==
    ASSUME Return
    PROVE  /\ call' \in Calls \cup {"none"} /\ todo' \in Seq(Steps) /\ target' \in Velocities
           /\ StepsFit' /\ target' = 0
  BY VelocitiesAssumption DEF Return, StepsFit

\* A step other than those that configure the mode keeps what its call knows.
LEMMA OrdinaryStep ==
    ASSUME IInv, NEW s \in Steps \ {"write", "ack"}, At(s), Done
    PROVE  /\ call' \in Calls \cup {"none"} /\ todo' \in Seq(Steps) /\ target' \in Velocities
           /\ StepsFit'
           /\ target' # 0 => configured
           /\ target # 0 => configured
  <1>1. todo # <<>> /\ todo \in Seq(Steps) /\ todo[1] = s
    BY DEF IInv, TypeOK, At
  <1>2. ~Unconfigured
    BY <1>1 DEF Unconfigured, Steps
  <1>3. target # 0 => configured
    BY <1>2 DEF IInv, SpeedConfigured
  <1> QED
    BY <1>1, <1>3, DoneFacts DEF IInv

\* A frame stays in the hand, and the history of its power command stays.
LEMMA HandKept ==
    ASSUME HandFits, configured => configured', UNCHANGED <<hand, power, late>>
    PROVE  HandFits'
  BY DEF HandFits

-----------------------------------------------------------------------------
\* The initial state.
LEMMA InitIInv == Init => IInv
  <1> SUFFICES ASSUME Init PROVE IInv
    OBVIOUS
  <1>1. TypeOK
    <2>1. todo \in Seq(Steps) /\ queue \in [Categories -> Seq(Frame)]
      BY DEF Init
    <2>2. \A c \in Categories : Len(queue[c]) <= MaxDepth
      BY Bounds DEF Init
    <2>3. answers \in 0..MaxAnswers
      BY Bounds DEF Init
    <2> QED
      BY <2>1, <2>2, <2>3, VelocitiesAssumption DEF Init, TypeOK, Intents
  <1>2. ModeBeforeMotion /\ AckMeansMode /\ StepsFit /\ SpeedConfigured /\ PowerLast
        /\ HandFits
    BY DEF Init, HandFits, ModeBeforeMotion, AckMeansMode, StepsFit, SpeedConfigured, PowerLast
  <1> QED
    BY <1>1, <1>2 DEF IInv

\* The steps of an operation that is configured.
LEMMA ProgramFacts ==
    ASSUME NEW c \in Calls, NEW p, p = Program[c]
    PROVE  /\ p \in Seq(Steps)
           /\ \A i \in 1 .. Len(p) :
                 /\ p[i] = "intend" => c \in {"setVelocity", "Enable", "Disable", "Stop", "ResetFault"}
                 /\ p[i] = "send" => c \in {"setVelocity", "Enable", "Disable", "ResetFault"}
  <1>1. CASE c = "setMode"
    BY <1>1 DEF Program, Steps
  <1>2. CASE c = "setVelocity"
    BY <1>2 DEF Program, Steps
  <1>3. CASE c = "Enable"
    BY <1>3 DEF Program, Steps
  <1>4. CASE c = "Disable"
    BY <1>4 DEF Program, Steps
  <1>5. CASE c = "Stop"
    BY <1>5 DEF Program, Steps
  <1>6. CASE c = "ResetFault"
    BY <1>6 DEF Program, Steps
  <1> QED
    BY <1>1, <1>2, <1>3, <1>4, <1>5, <1>6 DEF Calls

\* The steps of an operation, with and without the configuration.
LEMMA OperationFacts ==
    ASSUME NEW c \in Calls, NEW p, p = ConfigSteps(c) \o Program[c]
    PROVE  /\ p \in Seq(Steps)
           /\ \A i \in 1 .. Len(p) :
                 /\ p[i] = "intend" => c \in {"setVelocity", "Enable", "Disable", "Stop", "ResetFault"}
                 /\ p[i] = "send" => c \in {"setVelocity", "Enable", "Disable", "ResetFault"}
           /\ c = "setVelocity" /\ ~configured => p[1] = "write" /\ Len(p) > 1 /\ p[2] = "ack"
  <1> DEFINE a == ConfigSteps(c)
             b == Program[c]
  <1>1. /\ a \in Seq(Steps)
        /\ \A i \in 1 .. Len(a) : a[i] \in {"write", "ack"}
        /\ c = "setVelocity" /\ ~configured => Len(a) = 2 /\ a[1] = "write" /\ a[2] = "ack"
    <2>1. CASE c \in {"setMode", "setVelocity", "Enable"} /\ ~configured
      <3>1. a = <<"write", "ack">>
        BY <2>1 DEF ConfigSteps
      <3> HIDE DEF a
      <3> QED
        BY <3>1 DEF Steps
    <2>2. CASE ~(c \in {"setMode", "setVelocity", "Enable"} /\ ~configured)
      <3>1. a = <<>>
        BY <2>2 DEF ConfigSteps
      <3> HIDE DEF a
      <3> QED
        BY <2>2, <3>1
    <2> QED
      BY <2>1, <2>2
  <1>2. /\ b \in Seq(Steps)
        /\ \A i \in 1 .. Len(b) :
              /\ b[i] = "intend" => c \in {"setVelocity", "Enable", "Disable", "Stop", "ResetFault"}
              /\ b[i] = "send" => c \in {"setVelocity", "Enable", "Disable", "ResetFault"}
    BY ProgramFacts
  <1>3. p = a \o b
    OBVIOUS
  <1> HIDE DEF a, b
  <1>4. /\ p \in Seq(Steps) /\ Len(p) = Len(a) + Len(b) /\ Len(a) \in Nat /\ Len(b) \in Nat
        /\ \A i \in 1 .. Len(p) : p[i] = IF i <= Len(a) THEN a[i] ELSE b[i - Len(a)]
    BY <1>1, <1>2, <1>3
  <1>5. \A i \in 1 .. Len(p) :
            /\ p[i] = "intend" => c \in {"setVelocity", "Enable", "Disable", "Stop", "ResetFault"}
            /\ p[i] = "send" => c \in {"setVelocity", "Enable", "Disable", "ResetFault"}
    <2> SUFFICES ASSUME NEW i \in 1 .. Len(p)
                 PROVE  /\ p[i] = "intend" => c \in {"setVelocity", "Enable", "Disable", "Stop", "ResetFault"}
                        /\ p[i] = "send" => c \in {"setVelocity", "Enable", "Disable", "ResetFault"}
      OBVIOUS
    <2>1. CASE i <= Len(a)
      <3>1. i \in 1 .. Len(a) /\ p[i] = a[i]
        BY <1>4, <2>1
      <3> QED
        BY <1>1, <3>1
    <2>2. CASE ~(i <= Len(a))
      <3>1. i - Len(a) \in 1 .. Len(b) /\ p[i] = b[i - Len(a)]
        BY <1>4, <2>2
      <3> QED
        BY <1>2, <3>1
    <2> QED
      BY <2>1, <2>2
  <1>6. ASSUME c = "setVelocity", ~configured
        PROVE  p[1] = "write" /\ Len(p) > 1 /\ p[2] = "ack"
    <2>1. Len(a) = 2 /\ a[1] = "write" /\ a[2] = "ack"
      BY <1>1, <1>6
    <2>2. Len(p) > 1 /\ 1 \in 1 .. Len(p) /\ 2 \in 1 .. Len(p)
      BY <1>4, <2>1
    <2>3. p[1] = a[1] /\ p[2] = a[2]
      BY <1>4, <2>1, <2>2
    <2> QED
      BY <2>1, <2>2, <2>3
  <1> QED
    BY <1>4, <1>5, <1>6

\* An operation is called.
LEMMA BeginStep ==
    ASSUME IInv, NEW c \in Calls, NEW v \in Velocities, Begin(c, v)
    PROVE  IInv'
  <1> DEFINE p == ConfigSteps(c) \o Program[c]
  <1>1. /\ p \in Seq(Steps)
        /\ \A i \in 1 .. Len(p) :
              /\ p[i] = "intend" => c \in {"setVelocity", "Enable", "Disable", "Stop", "ResetFault"}
              /\ p[i] = "send" => c \in {"setVelocity", "Enable", "Disable", "ResetFault"}
        /\ c = "setVelocity" /\ ~configured => p[1] = "write" /\ Len(p) > 1 /\ p[2] = "ack"
    BY OperationFacts
  <1>2. /\ call' = c /\ todo' = p /\ target' = v /\ p # <<>>
        /\ c # "setVelocity" => v = 0
        /\ UNCHANGED <<state, worker, queue, hand, drive, answers, power, late>>
    BY DEF Begin, history
  <1> HIDE DEF p
  <1>3. TypeOK'
    BY <1>1, <1>2 DEF IInv, TypeOK, state, worker
  <1>4. ModeBeforeMotion' /\ AckMeansMode' /\ PowerLast'
    BY <1>2 DEF IInv, ModeBeforeMotion, AckMeansMode, PowerLast, state
  <1>5. StepsFit'
    BY <1>1, <1>2 DEF StepsFit, Calls
  <1>6. SpeedConfigured'
    BY <1>1, <1>2 DEF IInv, SpeedConfigured, Unconfigured, state, worker
  <1>7. HandFits'
    BY <1>2, HandKept DEF IInv, state
  <1> QED
    BY <1>3, <1>4, <1>5, <1>6, <1>7 DEF IInv

\* The mode register is written.
LEMMA WriteRegisterStep ==
    ASSUME IInv, WriteRegister
    PROVE  IInv'
  <1>1. /\ todo # <<>> /\ todo \in Seq(Steps) /\ todo[1] = "write" /\ Done
        /\ ack' = "waiting"
        /\ Submit("Config", Command("register"))
        /\ UNCHANGED <<commanded, configured, intent, worker, hand, drive, answers, power, late>>
    BY DEF IInv, TypeOK, WriteRegister, At, history
  <1>2. Command("register") \in Frame /\ Command("register").kind = "register" /\ Command("register").speed = 0
    BY FrameTypes
  <1>3. "Config" \in Categories
    BY DEF Categories
  <1>4. /\ queue' \in [Categories -> Seq(Frame)]
        /\ \A d \in Categories : Len(queue'[d]) <= MaxDepth
        /\ \A d \in Categories : \A i \in 1 .. Len(queue'[d]) :
              \/ queue'[d][i] = Command("register")
              \/ i \in 1 .. Len(queue[d]) /\ queue'[d][i] = queue[d][i]
    BY <1>1, <1>2, <1>3, SubmitFacts DEF IInv
  <1>5. /\ call' \in Calls \cup {"none"} /\ todo' \in Seq(Steps) /\ target' \in Velocities
        /\ StepsFit'
        /\ target' # 0 => target' = target /\ Len(todo) > 1 /\ todo' = Tail(todo)
    BY <1>1, DoneFacts DEF IInv
  <1>6. TypeOK'
    BY <1>1, <1>4, <1>5 DEF IInv, TypeOK, worker
  <1>7. ModeBeforeMotion' /\ AckMeansMode'
    BY <1>1 DEF IInv, ModeBeforeMotion, AckMeansMode
  <1>8. target' # 0 => configured' \/ Unconfigured'
    <2> SUFFICES ASSUME target' # 0, ~configured PROVE Unconfigured'
      BY <1>1
    <2>1. target # 0 /\ Len(todo) > 1 /\ todo' = Tail(todo)
      BY <1>5
    <2>2. todo[2] = "ack"
      BY <1>1, <2>1 DEF IInv, SpeedConfigured, Unconfigured
    <2>3. Len(Tail(todo)) > 0 /\ Tail(todo)[1] = "ack"
      <3>1. Len(todo) \in Nat /\ Len(Tail(todo)) = Len(todo) - 1
        BY <1>1
      <3>2. Len(Tail(todo)) > 0 /\ 1 \in 1 .. Len(Tail(todo))
        BY <2>1, <3>1
      <3>3. Tail(todo)[1] = todo[2]
        BY <1>1, <3>1, <3>2
      <3> QED
        BY <2>2, <3>2, <3>3
    <2> QED
      BY <2>1, <2>3 DEF Unconfigured
  <1>9. SpeedConfigured'
    BY <1>1, <1>2, <1>4, <1>8 DEF IInv, SpeedConfigured, worker
  <1>10. PowerLast'
    BY <1>1, <1>2, <1>4 DEF IInv, PowerLast
  <1>11. HandFits'
    BY <1>1, HandKept DEF IInv
  <1> QED
    BY <1>5, <1>6, <1>7, <1>9, <1>10, <1>11 DEF IInv

\* Its acknowledgement has arrived.
LEMMA AckArrivedStep ==
    ASSUME IInv, AckArrived
    PROVE  IInv'
  <1>1. /\ todo # <<>> /\ Done /\ ack = "received" /\ ack' = "none" /\ configured' = TRUE
        /\ UNCHANGED <<commanded, intent, worker, queue, hand, drive, answers, power, late>>
    BY DEF AckArrived, At, history
  <1>2. /\ call' \in Calls \cup {"none"} /\ todo' \in Seq(Steps) /\ target' \in Velocities
        /\ StepsFit'
    BY <1>1, DoneFacts DEF IInv
  <1>3. TypeOK'
    BY <1>1, <1>2 DEF IInv, TypeOK, worker
  <1>4. drive.mode
    BY <1>1 DEF IInv, AckMeansMode
  <1>5. ModeBeforeMotion' /\ AckMeansMode'
    BY <1>1, <1>4 DEF IInv, ModeBeforeMotion, AckMeansMode
  <1>6. SpeedConfigured' /\ PowerLast'
    BY <1>1 DEF IInv, SpeedConfigured, PowerLast
  <1>7. HandFits'
    BY <1>1, HandKept DEF IInv
  <1> QED
    BY <1>2, <1>3, <1>5, <1>6, <1>7 DEF IInv

\* An operation ends: no acknowledgement in time, or the wait for feedback is over.
LEMMA TimeoutStep ==
    ASSUME IInv, AckTimeout \/ AwaitFeedback
    PROVE  IInv'
  <1>1. /\ Return /\ ack' \in {ack, "none"}
        /\ UNCHANGED <<commanded, configured, intent, worker, queue, hand, drive, answers, power, late>>
    BY DEF AckTimeout, AwaitFeedback, state, history
  <1>2. /\ call' \in Calls \cup {"none"} /\ todo' \in Seq(Steps) /\ target' \in Velocities
        /\ StepsFit' /\ target' = 0
    BY <1>1, ReturnFacts
  <1>3. TypeOK'
    BY <1>1, <1>2 DEF IInv, TypeOK, worker
  <1>4. ModeBeforeMotion' /\ AckMeansMode'
    BY <1>1 DEF IInv, ModeBeforeMotion, AckMeansMode
  <1>5. SpeedConfigured' /\ PowerLast'
    BY <1>1, <1>2 DEF IInv, SpeedConfigured, PowerLast, worker
  <1>6. HandFits'
    BY <1>1, HandKept DEF IInv, state
  <1> QED
    BY <1>2, <1>3, <1>4, <1>5, <1>6 DEF IInv

\* A step that stores the velocity or the intent.
LEMMA QuietStep ==
    ASSUME IInv, Store \/ Intend
    PROVE  IInv'
  <1>1. /\ \E s \in Steps \ {"write", "ack"} : At(s)
        /\ Done
        /\ UNCHANGED <<configured, ack, worker, queue, hand, drive, answers, power, late>>
    BY DEF Store, Intend, state, Steps, history
  <1>2. /\ call' \in Calls \cup {"none"} /\ todo' \in Seq(Steps) /\ target' \in Velocities
        /\ StepsFit'
        /\ target' # 0 => configured
        /\ target # 0 => configured
    BY <1>1, OrdinaryStep
  <1>3. commanded' \in {commanded, target}
    BY DEF Store, Intend, state
  <1>4. intent' \in Intents
    <2>1. CASE Intend
      <3>1. todo # <<>> /\ todo \in Seq(Steps) /\ todo[1] = "intend"
        BY <2>1 DEF Intend, At, IInv, TypeOK
      <3>2. call \in {"setVelocity", "Enable", "Disable", "Stop", "ResetFault"}
        BY <3>1 DEF IInv, StepsFit
      <3> QED
        BY <2>1, <3>2 DEF Intend, IntentOf, Intents
    <2>2. CASE Store
      BY <2>2 DEF Store, state, IInv, TypeOK
    <2> QED
      BY <2>1, <2>2
  <1>5. TypeOK'
    BY <1>1, <1>2, <1>3, <1>4 DEF IInv, TypeOK, worker
  <1>6. ModeBeforeMotion' /\ AckMeansMode' /\ PowerLast'
    BY <1>1 DEF IInv, ModeBeforeMotion, AckMeansMode, PowerLast
  <1>7. SpeedConfigured'
    BY <1>1, <1>2, <1>3 DEF IInv, SpeedConfigured, worker
  <1>8. HandFits'
    BY <1>1, HandKept DEF IInv, state
  <1> QED
    BY <1>2, <1>5, <1>6, <1>7, <1>8 DEF IInv

\* A neutral speed is queued.
LEMMA SendNeutralStep ==
    ASSUME IInv, SendNeutral
    PROVE  IInv'
  <1>1. /\ "neutral" \in Steps \ {"write", "ack"} /\ At("neutral") /\ Done
        /\ Submit("Control", Speed(0)) /\ "Control" \in Categories
        /\ UNCHANGED <<state, worker, hand, drive, answers, power, late>>
    BY DEF SendNeutral, Steps, Categories, history
  <1>2. Speed(0) \in Frame /\ Speed(0).kind = "speed" /\ Speed(0).speed = 0
    BY FrameTypes, VelocitiesAssumption
  <1>3. /\ queue' \in [Categories -> Seq(Frame)]
        /\ \A d \in Categories : Len(queue'[d]) <= MaxDepth
        /\ \A d \in Categories : \A i \in 1 .. Len(queue'[d]) :
              \/ queue'[d][i] = Speed(0)
              \/ i \in 1 .. Len(queue[d]) /\ queue'[d][i] = queue[d][i]
    BY <1>1, <1>2, SubmitFacts DEF IInv
  <1>4. /\ call' \in Calls \cup {"none"} /\ todo' \in Seq(Steps) /\ target' \in Velocities
        /\ StepsFit'
        /\ target' # 0 => configured
    BY <1>1, OrdinaryStep
  <1>5. TypeOK'
    BY <1>1, <1>3, <1>4 DEF IInv, TypeOK, state, worker
  <1>6. ModeBeforeMotion' /\ AckMeansMode'
    BY <1>1 DEF IInv, ModeBeforeMotion, AckMeansMode, state
  <1>7. SpeedConfigured'
    BY <1>1, <1>2, <1>3, <1>4 DEF IInv, SpeedConfigured, state, worker
  <1>8. PowerLast'
    BY <1>1, <1>2, <1>3 DEF IInv, PowerLast
  <1>9. HandFits'
    BY <1>1, HandKept DEF IInv, state
  <1> QED
    BY <1>4, <1>5, <1>6, <1>7, <1>8, <1>9 DEF IInv

\* The command of an operation is queued: a speed, a power command or a reset.
LEMMA SendStep ==
    ASSUME IInv, Send
    PROVE  IInv'
  <1> DEFINE f == CommandOf[call]
             c == IF call = "ResetFault" THEN "Recover" ELSE "Control"
  <1>1. /\ "send" \in Steps \ {"write", "ack"} /\ At("send") /\ Done
        /\ Submit(c, f) /\ c \in Categories
        /\ power' = IF call \in {"Enable", "Disable"} THEN call ELSE power
        /\ UNCHANGED <<state, worker, hand, drive, answers>>
    BY DEF Send, Steps, Categories
  <1>2. late' \in BOOLEAN /\ (late' <=> late \/ (call = "Disable" /\ HandEnables))
    BY DEF Send, IInv, TypeOK
  <1>3. /\ call' \in Calls \cup {"none"} /\ todo' \in Seq(Steps) /\ target' \in Velocities
        /\ StepsFit'
        /\ target' # 0 => configured
        /\ target # 0 => configured
    BY <1>1, OrdinaryStep
  <1>4. call \in {"setVelocity", "Enable", "Disable", "ResetFault"}
    <2>1. todo # <<>> /\ todo \in Seq(Steps) /\ todo[1] = "send"
      BY <1>1 DEF At, IInv, TypeOK
    <2> QED
      BY <2>1 DEF IInv, StepsFit
  <1>5. /\ f \in Frame
        /\ f.speed # 0 => configured
        /\ f.kind = "enable" <=> call = "Enable"
    <2>0. target \in Velocities
      BY DEF IInv, TypeOK
    <2>1. CASE call = "setVelocity"
      BY <1>3, <2>0, <2>1, FrameTypes DEF CommandOf
    <2>2. CASE call = "Enable"
      BY <2>2, FrameTypes DEF CommandOf
    <2>3. CASE call = "Disable"
      BY <2>3, FrameTypes DEF CommandOf
    <2>4. CASE call = "ResetFault"
      BY <2>4, FrameTypes DEF CommandOf
    <2> QED
      BY <1>4, <2>1, <2>2, <2>3, <2>4
  <1>6. c = "Control" <=> call # "ResetFault"
    OBVIOUS
  <1> HIDE DEF f, c
  <1>7. /\ queue' \in [Categories -> Seq(Frame)]
        /\ \A d \in Categories : Len(queue'[d]) <= MaxDepth
        /\ \A d \in Categories : \A i \in 1 .. Len(queue'[d]) :
              \/ d = c /\ queue'[d][i] = f
              \/ i \in 1 .. Len(queue[d]) /\ queue'[d][i] = queue[d][i] /\ ~(c = "Control" /\ d = c)
    BY <1>1, <1>5, SubmitFacts DEF IInv
  <1>8. TypeOK'
    BY <1>1, <1>3, <1>7, <1>2 DEF IInv, TypeOK, state, worker
  <1>9. ModeBeforeMotion' /\ AckMeansMode'
    BY <1>1 DEF IInv, ModeBeforeMotion, AckMeansMode, state
  <1>10. SpeedConfigured'
    <2>1. \A d \in Categories : \A i \in 1 .. Len(queue'[d]) : queue'[d][i].speed # 0 => configured'
      BY <1>1, <1>5, <1>7 DEF IInv, SpeedConfigured, state
    <2>2. target' # 0 => configured'
      BY <1>1, <1>3 DEF state
    <2> QED
      BY <1>1, <2>1, <2>2 DEF IInv, SpeedConfigured, state, worker
  <1>11. PowerLast'
    <2> SUFFICES ASSUME NEW d \in Categories, NEW i \in 1 .. Len(queue'[d]),
                        queue'[d][i].kind = "enable"
                 PROVE  d = "Control" /\ power' = "Enable"
      BY DEF PowerLast
    <2>1. CASE d = c /\ queue'[d][i] = f
      BY <1>1, <1>5, <1>6, <2>1
    <2>2. CASE i \in 1 .. Len(queue[d]) /\ queue'[d][i] = queue[d][i] /\ ~(c = "Control" /\ d = c)
      <3>1. d = "Control" /\ power = "Enable"
        BY <2>2 DEF IInv, PowerLast
      <3>2. call = "ResetFault"
        BY <1>6, <2>2, <3>1
      <3> QED
        BY <1>1, <3>1, <3>2
    <2> QED
      BY <1>7, <2>1, <2>2
  <1>12. HandFits'
    <2>1. ASSUME hand # <<>>, hand[1].kind = "enable" PROVE power' = "Enable" \/ late'
      <3>1. power = "Enable" \/ late
        BY <2>1 DEF IInv, HandFits
      <3> QED
        BY <1>1, <1>4, <1>2, <2>1, <3>1 DEF HandEnables
    <2> QED
      BY <1>1, <2>1 DEF IInv, HandFits, state
  <1> QED
    BY <1>3, <1>8, <1>9, <1>10, <1>11, <1>12 DEF IInv

\* The refresh worker plans a keepalive and reads the velocity.
LEMMA PlanStep ==
    ASSUME IInv, PlanKeepalive \/ ReadCommanded
    PROVE  IInv'
  <1>1. /\ keeper' \in {"due", "holds"} /\ held' \in {held, commanded}
        /\ UNCHANGED <<caller, state, queue, hand, drive, answers, power, late>>
    BY DEF PlanKeepalive, ReadCommanded, history
  <1>2. TypeOK'
    BY <1>1 DEF IInv, TypeOK, caller, state
  <1>3. ModeBeforeMotion' /\ AckMeansMode' /\ StepsFit' /\ PowerLast'
    BY <1>1 DEF IInv, ModeBeforeMotion, AckMeansMode, StepsFit, PowerLast, caller, state
  <1>4. SpeedConfigured'
    BY <1>1 DEF IInv, SpeedConfigured, Unconfigured, caller, state
  <1>5. HandFits'
    BY <1>1, HandKept DEF IInv, state
  <1> QED
    BY <1>2, <1>3, <1>4, <1>5 DEF IInv

\* ... and queues it.
LEMMA KeepaliveStep ==
    ASSUME IInv, SubmitKeepalive
    PROVE  IInv'
  <1> DEFINE f == Speed(held)
  <1>1. /\ Submit("Query", f) /\ "Query" \in Categories
        /\ keeper' = "idle" /\ held' = 0
        /\ UNCHANGED <<caller, state, hand, drive, answers, power, late>>
    BY DEF SubmitKeepalive, Categories, history
  <1>2. held \in Velocities
    BY DEF IInv, TypeOK
  <1>3. f \in Frame /\ f.kind = "speed" /\ f.speed = held
    BY <1>2, FrameTypes
  <1> HIDE DEF f
  <1>4. /\ queue' \in [Categories -> Seq(Frame)]
        /\ \A d \in Categories : Len(queue'[d]) <= MaxDepth
        /\ \A d \in Categories : \A i \in 1 .. Len(queue'[d]) :
              \/ queue'[d][i] = f
              \/ i \in 1 .. Len(queue[d]) /\ queue'[d][i] = queue[d][i]
    BY <1>1, <1>3, SubmitFacts DEF IInv
  <1>5. TypeOK'
    BY <1>1, <1>4, VelocitiesAssumption DEF IInv, TypeOK, caller, state
  <1>6. ModeBeforeMotion' /\ AckMeansMode' /\ StepsFit'
    BY <1>1 DEF IInv, ModeBeforeMotion, AckMeansMode, StepsFit, caller, state
  <1>7. SpeedConfigured'
    <2>1. \A d \in Categories : \A i \in 1 .. Len(queue'[d]) : queue'[d][i].speed # 0 => configured'
      BY <1>1, <1>3, <1>4 DEF IInv, SpeedConfigured, state
    <2>2. (target # 0 => configured \/ Unconfigured)'
      BY <1>1 DEF IInv, SpeedConfigured, Unconfigured, caller, state
    <2> QED
      BY <1>1, <2>1, <2>2 DEF IInv, SpeedConfigured, state
  <1>8. PowerLast'
    BY <1>1, <1>3, <1>4 DEF IInv, PowerLast
  <1>9. HandFits'
    BY <1>1, HandKept DEF IInv, state
  <1> QED
    BY <1>5, <1>6, <1>7, <1>8, <1>9 DEF IInv

\* What a frame does to the drive.
LEMMA ObeyFacts ==
    ASSUME TypeOK, NEW f \in Frame
    PROVE  /\ Obey(drive, f) \in [on : BOOLEAN, fault : BOOLEAN, mode : BOOLEAN, speed : Velocities]
           /\ drive.mode \/ f.kind = "register" => Obey(drive, f).mode
           /\ Obey(drive, f).speed \in {0, drive.speed, f.speed}
           /\ Obey(drive, f).on => drive.on \/ f.kind = "enable"
  <1>1. drive \in [on : BOOLEAN, fault : BOOLEAN, mode : BOOLEAN, speed : Velocities]
    BY DEF TypeOK
  <1>2. f.speed \in Velocities /\ f.kind \in {"speed", "enable", "disable", "clear", "register"} /\ 0 \in Velocities
    BY VelocitiesAssumption DEF Frame
  <1>3. CASE f.kind = "speed"
    <2>1. Obey(drive, f) = [drive EXCEPT !.speed = IF drive.on THEN f.speed ELSE 0]
      BY <1>3 DEF Obey
    <2> QED
      BY <1>1, <1>2, <1>3, <2>1
  <1>4. CASE f.kind = "enable"
    <2>1. Obey(drive, f) = [drive EXCEPT !.on = ~drive.fault]
      BY <1>4 DEF Obey
    <2> QED
      BY <1>1, <1>2, <1>4, <2>1
  <1>5. CASE f.kind = "disable"
    <2>1. Obey(drive, f) = [drive EXCEPT !.on = FALSE, !.speed = 0]
      BY <1>5 DEF Obey
    <2> QED
      BY <1>1, <1>2, <1>5, <2>1
  <1>6. CASE f.kind = "clear"
    <2>1. Obey(drive, f) = [drive EXCEPT !.fault = FALSE]
      BY <1>6 DEF Obey
    <2> QED
      BY <1>1, <1>2, <1>6, <2>1
  <1>7. CASE f.kind = "register"
    <2>1. Obey(drive, f) = [drive EXCEPT !.mode = TRUE]
      BY <1>7 DEF Obey
    <2> QED
      BY <1>1, <1>2, <1>7, <2>1
  <1> QED
    BY <1>2, <1>3, <1>4, <1>5, <1>6, <1>7

\* The worker takes a frame.
LEMMA TakeStep ==
    ASSUME IInv, NEW c \in Categories, Take(c)
    PROVE  IInv'
  <1>1. /\ queue[c] # <<>> /\ queue' = [queue EXCEPT ![c] = Tail(@)]
        /\ hand' = <<Head(queue[c])>>
        /\ UNCHANGED <<caller, state, worker, drive, answers, power, late>>
    BY DEF Take, Front, history
  <1>2. /\ queue' \in [Categories -> Seq(Frame)]
        /\ \A d \in Categories : Len(queue'[d]) <= MaxDepth
        /\ \A d \in Categories : \A i \in 1 .. Len(queue'[d]) :
              \E j \in 1 .. Len(queue[d]) : queue'[d][i] = queue[d][j]
        /\ Head(queue[c]) = queue[c][1] /\ Head(queue[c]) \in Frame /\ 1 \in 1 .. Len(queue[c])
    BY <1>1, TakeFacts DEF IInv
  <1>3. TypeOK'
    BY <1>1, <1>2 DEF IInv, TypeOK, caller, state, worker
  <1>4. ModeBeforeMotion' /\ AckMeansMode' /\ StepsFit'
    BY <1>1 DEF IInv, ModeBeforeMotion, AckMeansMode, StepsFit, caller, state
  <1>5. SpeedConfigured'
    BY <1>1, <1>2 DEF IInv, SpeedConfigured, Unconfigured, caller, state, worker
  <1>6. PowerLast'
    BY <1>1, <1>2 DEF IInv, PowerLast
  <1>7. HandFits'
    <2>1. hand'[1] = queue[c][1]
      BY <1>1, <1>2
    <2> QED
      BY <1>1, <1>2, <2>1 DEF IInv, SpeedConfigured, PowerLast, HandFits, state
  <1> QED
    BY <1>3, <1>4, <1>5, <1>6, <1>7 DEF IInv

\* The frame in the hand has its type.
LEMMA HandFrame ==
    ASSUME TypeOK, hand # <<>>
    PROVE  hand[1] \in Frame
  BY DEF TypeOK

\* A frame reaches the drive.
LEMMA TransmitStep ==
    ASSUME IInv, Transmit
    PROVE  IInv'
  <1> DEFINE f == hand[1]
  <1>1. /\ hand # <<>> /\ hand' = <<>> /\ late' = FALSE
        /\ drive' = Obey(drive, f)
        /\ answers' = answers \/ (f.kind = "register" /\ answers < MaxAnswers /\ answers' = answers + 1)
        /\ UNCHANGED <<caller, state, worker, queue, power>>
    BY DEF Transmit, EmptyHand
  <1>2. f \in Frame
    BY <1>1, HandFrame DEF IInv
  <1>3. f.speed # 0 => configured
    BY <1>1 DEF IInv, HandFits
  <1> HIDE DEF f
  <1>4. /\ drive' \in [on : BOOLEAN, fault : BOOLEAN, mode : BOOLEAN, speed : Velocities]
        /\ drive.mode \/ f.kind = "register" => drive'.mode
        /\ drive'.speed \in {0, drive.speed, f.speed}
    BY <1>1, <1>2, ObeyFacts DEF IInv
  <1>5. answers' \in 0..MaxAnswers /\ (answers' > 0 => answers > 0 \/ f.kind = "register")
    BY <1>1, Bounds DEF IInv, TypeOK
  <1>6. TypeOK'
    BY <1>1, <1>4, <1>5 DEF IInv, TypeOK, caller, state, worker
  <1>7. ModeBeforeMotion'
    BY <1>1, <1>3, <1>4 DEF IInv, ModeBeforeMotion, state
  <1>8. AckMeansMode'
    BY <1>1, <1>4, <1>5 DEF IInv, AckMeansMode, state
  <1>9. StepsFit' /\ PowerLast' /\ HandFits'
    BY <1>1 DEF IInv, StepsFit, PowerLast, HandFits, caller
  <1>10. SpeedConfigured'
    BY <1>1 DEF IInv, SpeedConfigured, Unconfigured, caller, state, worker
  <1> QED
    BY <1>6, <1>7, <1>8, <1>9, <1>10 DEF IInv

\* A frame is lost.
LEMMA LoseFrameStep ==
    ASSUME IInv, LoseFrame
    PROVE  IInv'
  <1>1. /\ hand' = <<>> /\ late' = FALSE
        /\ UNCHANGED <<caller, state, worker, queue, drive, answers, power>>
    BY DEF LoseFrame, EmptyHand
  <1>2. TypeOK'
    BY <1>1 DEF IInv, TypeOK, caller, state, worker
  <1>3. ModeBeforeMotion' /\ AckMeansMode' /\ StepsFit' /\ PowerLast' /\ HandFits'
    BY <1>1 DEF IInv, ModeBeforeMotion, AckMeansMode, StepsFit, PowerLast, HandFits, caller, state
  <1>4. SpeedConfigured'
    BY <1>1 DEF IInv, SpeedConfigured, Unconfigured, caller, state, worker
  <1> QED
    BY <1>2, <1>3, <1>4 DEF IInv

\* The drive faults.
LEMMA DriveFaultsStep ==
    ASSUME IInv, DriveFaults
    PROVE  IInv'
  <1>1. /\ drive' = [drive EXCEPT !.fault = TRUE, !.on = FALSE, !.speed = 0]
        /\ UNCHANGED <<caller, state, worker, queue, hand, answers, power, late>>
    BY DEF DriveFaults, history
  <1>2. /\ drive' \in [on : BOOLEAN, fault : BOOLEAN, mode : BOOLEAN, speed : Velocities]
        /\ drive'.mode = drive.mode /\ drive'.speed = 0
    BY <1>1, VelocitiesAssumption DEF IInv, TypeOK
  <1>3. TypeOK'
    BY <1>1, <1>2 DEF IInv, TypeOK, caller, state, worker
  <1>4. ModeBeforeMotion' /\ AckMeansMode' /\ StepsFit'
    BY <1>1, <1>2 DEF IInv, ModeBeforeMotion, AckMeansMode, StepsFit, caller, state
  <1>5. SpeedConfigured' /\ PowerLast'
    BY <1>1 DEF IInv, SpeedConfigured, PowerLast, Unconfigured, caller, state, worker
  <1>6. HandFits'
    BY <1>1, HandKept DEF IInv, state
  <1> QED
    BY <1>3, <1>4, <1>5, <1>6 DEF IInv

\* An acknowledgement is handled or lost.
LEMMA AnswerStep ==
    ASSUME IInv, LoseAnswer \/ HandleResponse
    PROVE  IInv'
  <1>1. /\ answers > 0 /\ answers' = answers - 1
        /\ ack' \in {ack, "received"}
        /\ UNCHANGED <<caller, commanded, configured, intent, worker, queue, hand, drive,
                       power, late>>
    BY DEF LoseAnswer, HandleResponse, state, history
  <1>2. answers' \in 0..MaxAnswers
    BY <1>1, Bounds DEF IInv, TypeOK
  <1>3. TypeOK'
    BY <1>1, <1>2 DEF IInv, TypeOK, caller, worker
  <1>4. ModeBeforeMotion' /\ StepsFit' /\ PowerLast' /\ HandFits'
    BY <1>1 DEF IInv, ModeBeforeMotion, StepsFit, PowerLast, HandFits, caller
  <1>5. AckMeansMode'
    BY <1>1 DEF IInv, AckMeansMode
  <1>6. SpeedConfigured'
    BY <1>1 DEF IInv, SpeedConfigured, Unconfigured, caller, worker
  <1> QED
    BY <1>3, <1>4, <1>5, <1>6 DEF IInv

-----------------------------------------------------------------------------
\* Every step preserves the invariant.
LEMMA NextIInv == IInv /\ [Next]_vars => IInv'
  <1> SUFFICES ASSUME IInv, [Next]_vars PROVE IInv'
    OBVIOUS
  <1>1. CASE \E c \in Calls, v \in Velocities : Begin(c, v)
    BY <1>1, BeginStep
  <1>2. CASE CallerStep
    BY <1>2, WriteRegisterStep, AckArrivedStep, TimeoutStep, QuietStep, SendNeutralStep, SendStep
    DEF CallerStep
  <1>3. CASE KeeperStep
    BY <1>3, PlanStep, KeepaliveStep DEF KeeperStep
  <1>4. CASE Transmit \/ LoseFrame \/ \E c \in Categories : Take(c)
    BY <1>4, TakeStep, TransmitStep, LoseFrameStep
  <1>5. CASE DriveFaults \/ LoseAnswer \/ HandleResponse
    BY <1>5, DriveFaultsStep, AnswerStep
  <1>6. CASE UNCHANGED vars
    BY <1>6 DEF vars, caller, state, worker, history, HandFits, IInv, TypeOK, ModeBeforeMotion, AckMeansMode,
                StepsFit, SpeedConfigured, Unconfigured, PowerLast
  <1> QED
    BY <1>1, <1>2, <1>3, <1>4, <1>5, <1>6 DEF Next

\* Only a transmitted frame powers the drive.
LEMMA PowerStep ==
    ASSUME IInv, [Next]_vars, ~drive.on, drive'.on
    PROVE  power = "Enable" \/ late
  <1>1. Transmit
    <2>1. drive' # drive
      OBVIOUS
    <2>2. ~DriveFaults
      BY DEF DriveFaults, IInv, TypeOK
    <2> QED
      BY <2>1, <2>2
      DEF Next, Begin, CallerStep, WriteRegister, AckArrived, AckTimeout, Store, Intend,
          SendNeutral, Send, AwaitFeedback, KeeperStep, PlanKeepalive, ReadCommanded,
          SubmitKeepalive, Take, LoseFrame, LoseAnswer, HandleResponse, vars
  <1>2. hand # <<>> /\ drive' = Obey(drive, hand[1])
    BY <1>1 DEF Transmit, EmptyHand
  <1>3. hand[1].kind = "enable"
    BY <1>2, HandFrame, ObeyFacts DEF IInv
  <1> QED
    BY <1>2, <1>3 DEF IInv, HandFits

\* The inductive invariant holds in every reachable state.
THEOREM Invariant == Spec => []IInv
  <1> QED
    BY InitIInv, NextIInv, PTL DEF Spec

\* The variables of the axis and its queues keep their types and bounds.
THEOREM TypeCorrect == Spec => []TypeOK
  <1>1. IInv => TypeOK
    BY DEF IInv
  <1> QED
    BY <1>1, Invariant, PTL

\* The axis moves only in velocity mode, whatever happens to the register write
\* and to its acknowledgement (ensureVelocityModeConfigured).
THEOREM MotionIsConfigured == Spec => []ModeBeforeMotion
  <1>1. IInv => ModeBeforeMotion
    BY DEF IInv
  <1> QED
    BY <1>1, Invariant, PTL

\* An Enable never reaches the drive after a later Disable was queued, unless the
\* worker had it in its hand then (enqueueControlLocked, workerLoop, Disable).
THEOREM DisableIsFinal == Spec => NoLateEnable
  <1>1. IInv /\ [Next]_vars => [~drive.on /\ drive'.on => power = "Enable" \/ late]_vars
    BY PowerStep
  <1> QED
    BY <1>1, Invariant, PTL DEF Spec, NoLateEnable
=============================================================================
