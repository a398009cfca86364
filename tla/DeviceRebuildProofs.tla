------------------------ MODULE DeviceRebuildProofs ------------------------
(***************************************************************************)
(* Proofs about DeviceRebuild, for every set of devices, every number of    *)
(* callers and every number of rebuilds.                                    *)
(*                                                                         *)
(* What makes a rebuild safe is the order of its steps, so the invariant    *)
(* first says what the sequence todo looks like: each step follows the one  *)
(* before it, and the last one is "erase" or "hooks" (IsPlan).  The other   *)
(* parts say what is true in front of each step: the worker has ended, the  *)
(* transport is closed, the protocols are gone.  From these follows that    *)
(* handlers, the copies the receive thread calls and the protocols of a     *)
(* tick are always the protocols in use (HeldByThreads), that objects kept  *)
(* by callers are of earlier builds and so shut down only runtimes nobody   *)
(* uses (Earlier), and that a caller whose object is of the current opening *)
(* of the device has the command mutex of that opening (HeldByCallers).     *)
(***************************************************************************)
EXTENDS DeviceRebuild, FiniteSetTheorems, SequenceTheorems, TLAPS

-----------------------------------------------------------------------------
(* The plan of the lifecycle thread *)

\* The steps that may follow one another.
Follows(a, b) ==
    \/ a = "stopWorker" /\ b = "joinWorker"
    \/ a = "joinWorker" /\ b = "stopRx"
    \/ a = "stopRx" /\ b = "joinRx"
    \/ a = "joinRx" /\ b = "drop"
    \/ a = "drop" /\ b \in {"erase", "reopen"}
    \/ a \in {"open", "reopen"} /\ b = "runtime"
    \/ a = "runtime" /\ b \in {"MT", "PP", "DM", "start"}
    \/ a = "MT" /\ b \in {"PP", "DM", "start"}
    \/ a = "PP" /\ b \in {"DM", "start"}
    \/ a = "DM" /\ b = "start"
    \/ a = "start" /\ b = "hooks"

\* The last step of a plan.
Ends == {"erase", "hooks"}

\* A plan for the device: only initDevice, whose last step is "hooks", opens the
\* transport.
IsPlan(s) ==
    /\ s \in Seq(ManagerSteps)
    /\ \A i \in 1 .. Len(s) - 1 : Follows(s[i], s[i + 1])
    /\ s # <<>> => s[Len(s)] \in Ends
    /\ \A i \in 1 .. Len(s) : s[i] \in {"open", "reopen"} => s[Len(s)] = "hooks"

\* The next step is one of S.
Ahead(S) == todo # <<>> /\ Head(todo) \in S

\* The steps that take the device down, and those that make its protocols.
Tearing == {"stopWorker", "joinWorker", "stopRx", "joinRx", "drop"}
Building == {"MT", "PP", "DM"}

\* The manager does not know the device.
Unknown == todo = <<>> /\ ~present

\* A call of initDevice has yet to open the transport.
OpenAhead ==
    todo # <<>> /\ todo[Len(todo)] = "hooks" /\ Head(todo) \in Tearing \cup {"open", "reopen"}

\* ... and has yet to make its runtime.
RuntimeAhead == OpenAhead \/ Ahead({"runtime"})

-----------------------------------------------------------------------------
(* The inductive invariant *)

\* The manager knows the device from its opening to the end of its shutdown, and
\* its command mutex is the one of that opening.
Presence ==
    /\ Ahead({"open"}) => ~present
    /\ Ahead({"runtime", "start", "hooks"} \cup Building) => present
    /\ present <=> mutex # 0
    /\ mutex # 0 => mutex = opened
    /\ opened <= build
    /\ OpenAhead => opened < build

\* The worker has ended before the transport is closed and is started last.
WorkerGone ==
    /\ Unknown \/ Ahead({"stopRx", "joinRx", "drop", "erase", "open", "reopen", "runtime", "start"}
                        \cup Building) => worker = "off"
    /\ worker # "ticking" => borrowed = {}

\* The transport is closed before the protocols are dropped.
Closed ==
    /\ Unknown \/ Ahead({"drop", "erase", "open", "reopen"}) =>
           rx = "off" /\ ~up /\ handlers = {} /\ nextId = 1
    /\ rx # "calling" => rxCalls = {}
    /\ Ahead({"joinRx"}) => ~up

\* The protocols are made one after the other, each once.
Cleared ==
    /\ Unknown \/ Ahead({"erase", "open", "reopen", "runtime"}) =>
           (\A t \in types : current[t] = None) /\ dispatcher = 0
    /\ Ahead({"MT"}) => \A t \in types : current[t] = None
    /\ Ahead({"PP"}) => \A t \in types \ {"MT"} : current[t] = None
    /\ Ahead({"DM"}) => \A t \in types \ {"MT", "PP"} : current[t] = None
    /\ Ahead(Building) => dispatcher = build
    /\ Ahead({"runtime"} \cup Building) =>
           nextId = 1 + Cardinality({t \in types : current[t] # None})

\* o is the protocol of its type.
IsCurrent(o) == o.type \in types /\ o = current[o.type]

\* What the threads of the device hold are the protocols in use.
HeldByThreads ==
    /\ \A h \in handlers : IsCurrent(h[2]) /\ h[1] = h[2].id
    /\ \A o \in rxCalls : IsCurrent(o)
    /\ \A o \in borrowed : IsCurrent(o)

\* The protocols in use exist and have the runtime of the manager, which runs.
InUse ==
    \A t \in types : current[t] # None =>
        /\ current[t] \in alive /\ current[t].type = t
        /\ current[t].runtime = dispatcher /\ dispatcher \notin halted

\* Other protocols, and the runtimes that were shut down, are of earlier builds.
Earlier ==
    /\ dispatcher <= build
    /\ \A o \in alive : /\ o.type \in types /\ o.runtime <= build /\ o.opened <= opened
                        /\ dispatcher # 0 /\ o # current[o.type] => o.runtime < dispatcher
    /\ \A r \in halted : r <= build /\ (dispatcher # 0 => r < dispatcher)
    /\ RuntimeAhead => /\ dispatcher < build
                       /\ \A o \in alive : o.runtime < build
                       /\ \A r \in halted : r < build

\* A caller holds an object that exists, and the command mutex that belongs to it.
HeldByCallers ==
    \A c \in Callers :
        /\ caller[c].pc # "idle" => caller[c].object \in alive
        /\ caller[c].pc = "idle" => caller[c] = Idle
        /\ caller[c].pc = "fetched" => caller[c].mutex = 0
        /\ caller[c].pc = "using" => caller[c].mutex # 0
        /\ caller[c].mutex # 0 /\ caller[c].object.opened = opened => caller[c].mutex = opened

\* A command mutex is held by one caller.
MutexExcludes ==
    \A c, d \in Callers :
        caller[c].pc = "using" /\ caller[d].pc = "using" /\ c # d => caller[c].mutex # caller[d].mutex

\* The inductive invariant.
IInv ==
    /\ TypeOK /\ IsPlan(todo)
    /\ Presence /\ WorkerGone /\ Closed /\ Cleared
    /\ HeldByThreads /\ InUse /\ Earlier /\ HeldByCallers /\ MutexExcludes

-----------------------------------------------------------------------------
(* TypeOK by owner *)

\* The types of what the manager, the objects, the threads and the callers own.
ManagerTypes ==
    /\ device \in Devices
    /\ todo \in Seq(ManagerSteps)
    /\ build \in 0..MaxBuilds
    /\ present \in BOOLEAN
    /\ mutex \in 0..MaxBuilds /\ dispatcher \in 0..MaxBuilds
    /\ current \in [types -> Objects \cup {None}]
    /\ opened \in 0..MaxBuilds

ObjectTypes ==
    /\ alive \subseteq Objects
    /\ halted \subseteq Builds
    /\ handlers \subseteq (1..Cardinality(types)) \X Objects
    /\ nextId \in 1..(Cardinality(types) + 1)

ThreadTypes ==
    /\ up \in BOOLEAN
    /\ latest \in {"none", "loss", "reception"}
    /\ rx \in {"off", "idle", "calling"}
    /\ rxCalls \subseteq Objects
    /\ worker \in {"off", "idle", "ticking"}
    /\ borrowed \subseteq Objects
    /\ stop \in [{"rx", "worker"} -> BOOLEAN]
    /\ keepalive \in BOOLEAN /\ link \in BOOLEAN /\ answer \in BOOLEAN

CallerTypes ==
    caller \in [Callers -> [pc : {"idle", "fetched", "waiting", "using"},
                            object : Objects \cup {None}, mutex : 0..MaxBuilds]]

-----------------------------------------------------------------------------
(* Plans *)

\* A part of a plan.
IsPart(s) ==
    /\ s \in Seq(ManagerSteps) /\ s # <<>>
    /\ \A i \in 1 .. Len(s) - 1 : Follows(s[i], s[i + 1])

\* Two parts make a part when the second may follow the first.
LEMMA JoinParts ==
    ASSUME NEW a, NEW b, IsPart(a), IsPart(b), Follows(a[Len(a)], b[1])
    PROVE  IsPart(a \o b) /\ (a \o b)[1] = a[1] /\ (a \o b)[Len(a \o b)] = b[Len(b)]
  <1>1. a \in Seq(ManagerSteps) /\ b \in Seq(ManagerSteps) /\ Len(a) >= 1 /\ Len(b) >= 1
    BY DEF IsPart
  <1>2. a \o b \in Seq(ManagerSteps) /\ a \o b # <<>> /\ Len(a \o b) = Len(a) + Len(b)
    BY <1>1
  <1>3. \A i \in 1 .. Len(a) : (a \o b)[i] = a[i]
    BY <1>1
  <1>4. \A i \in Len(a) + 1 .. Len(a) + Len(b) : (a \o b)[i] = b[i - Len(a)]
    BY <1>1
  <1>5. ASSUME NEW i \in 1 .. Len(a \o b) - 1
        PROVE  Follows((a \o b)[i], (a \o b)[i + 1])
    <2>1. CASE i < Len(a)
      BY <1>1, <1>2, <1>3, <2>1 DEF IsPart
    <2>2. CASE i = Len(a)
      <3>1. (a \o b)[i] = a[Len(a)] /\ (a \o b)[i + 1] = b[1]
        BY <1>1, <1>2, <1>3, <1>4, <2>2
      <3> QED
        BY <3>1
    <2>3. CASE i > Len(a)
      <3>1. i - Len(a) \in 1 .. Len(b) - 1
        BY <1>1, <1>2, <2>3
      <3>2. (a \o b)[i] = b[i - Len(a)] /\ (a \o b)[i + 1] = b[(i - Len(a)) + 1]
        BY <1>1, <1>2, <1>4, <2>3
      <3> QED
        BY <3>1, <3>2 DEF IsPart
    <2> QED
      BY <1>1, <1>2, <2>1, <2>2, <2>3
  <1> QED
    BY <1>1, <1>2, <1>3, <1>4, <1>5 DEF IsPart

\* One more constructor.
LEMMA JoinIfUsed ==
    ASSUME NEW a, IsPart(a), NEW t \in ManagerSteps, Follows(a[Len(a)], t)
    PROVE  LET b == a \o IfUsed(t) IN
           IsPart(b) /\ b[1] = a[1] /\ b[Len(b)] \in {a[Len(a)], t}
  <1>1. CASE t \in types
    <2> DEFINE b == <<t>>
    <2>1. IfUsed(t) = b
      BY <1>1 DEF IfUsed
    <2>2. IsPart(b) /\ b[1] = t /\ b[Len(b)] = t
      BY DEF IsPart
    <2> HIDE DEF b
    <2>3. IsPart(a \o b) /\ (a \o b)[1] = a[1] /\ (a \o b)[Len(a \o b)] = t
      BY <2>2, JoinParts
    <2> QED
      BY <2>1, <2>3
  <1>2. CASE t \notin types
    <2>1. IfUsed(t) = <<>> /\ a \in Seq(ManagerSteps)
      BY <1>2 DEF IfUsed, IsPart
    <2>2. a \o IfUsed(t) = a
      BY <2>1, ConcatEmptySeq
    <2> QED
      BY <2>2
  <1> QED
    BY <1>1, <1>2

\* The steps of initDevice from its runtime on.
LEMMA BuildPlan ==
    IsPart(BuildSteps) /\ BuildSteps[1] = "runtime" /\ BuildSteps[Len(BuildSteps)] = "hooks"
  <1> DEFINE r == <<"runtime">>
             m == r \o IfUsed("MT")
             p == m \o IfUsed("PP")
             d == p \o IfUsed("DM")
             e == <<"start", "hooks">>
  <1>1. IsPart(r) /\ r[1] = "runtime" /\ r[Len(r)] = "runtime"
    BY DEF IsPart, ManagerSteps
  <1>2. IsPart(e) /\ e[1] = "start" /\ e[Len(e)] = "hooks"
    BY DEF IsPart, ManagerSteps, Follows
  <1>3. "MT" \in ManagerSteps /\ "PP" \in ManagerSteps /\ "DM" \in ManagerSteps
    BY DEF ManagerSteps
  <1> HIDE DEF r, e
  <1>4. IsPart(m) /\ m[1] = "runtime" /\ m[Len(m)] \in {"runtime", "MT"}
    <2>1. Follows(r[Len(r)], "MT")
      BY <1>1 DEF Follows
    <2> QED
      BY <1>1, <1>3, <2>1, JoinIfUsed
  <1> HIDE DEF m
  <1>5. IsPart(p) /\ p[1] = "runtime" /\ p[Len(p)] \in {"runtime", "MT", "PP"}
    <2>1. Follows(m[Len(m)], "PP")
      BY <1>4 DEF Follows
    <2> QED
      BY <1>3, <1>4, <2>1, JoinIfUsed
  <1> HIDE DEF p
  <1>6. IsPart(d) /\ d[1] = "runtime" /\ d[Len(d)] \in {"runtime", "MT", "PP", "DM"}
    <2>1. Follows(p[Len(p)], "DM")
      BY <1>5 DEF Follows
    <2> QED
      BY <1>3, <1>5, <2>1, JoinIfUsed
  <1> HIDE DEF d
  <1>7. Follows(d[Len(d)], e[1])
    BY <1>2, <1>6 DEF Follows
  <1>8. BuildSteps = d \o e
    BY DEF BuildSteps, d, p, m, r, e
  <1> QED
    BY <1>2, <1>6, <1>7, <1>8, JoinParts

\* The steps that take the device down.
LEMMA TeardownPart ==
    IsPart(Teardown) /\ Teardown[1] = "stopWorker" /\ Teardown[Len(Teardown)] = "drop"
  BY DEF Teardown, IsPart, ManagerSteps, Follows

\* The three plans, by their first and last steps.
LEMMA Plans ==
    /\ LET s == Teardown \o <<"erase">> IN
       IsPlan(s) /\ s # <<>> /\ Head(s) = "stopWorker" /\ s[Len(s)] = "erase"
    /\ LET s == Teardown \o <<"reopen">> \o BuildSteps IN
       IsPlan(s) /\ s # <<>> /\ Head(s) = "stopWorker" /\ s[Len(s)] = "hooks"
    /\ LET s == <<"open">> \o BuildSteps IN
       IsPlan(s) /\ s # <<>> /\ Head(s) = "open" /\ s[Len(s)] = "hooks"
  <1>1. \A x \in {"erase", "reopen", "open"} :
            IsPart(<<x>>) /\ <<x>>[1] = x /\ <<x>>[Len(<<x>>)] = x
    BY DEF IsPart, ManagerSteps
  <1>2. ASSUME NEW s, IsPart(s), s[Len(s)] = "hooks"
        PROVE  IsPlan(s) /\ s # <<>> /\ Head(s) = s[1]
    BY <1>2 DEF IsPart, IsPlan, Ends
  <1>3. Follows("drop", "erase") /\ Follows("drop", "reopen") /\ Follows("reopen", "runtime")
        /\ Follows("open", "runtime")
    BY DEF Follows
  <1>4. LET s == Teardown \o <<"erase">> IN
        IsPart(s) /\ s[1] = "stopWorker" /\ s[Len(s)] = "erase"
    BY <1>1, <1>3, TeardownPart, JoinParts
  <1>5. LET s == Teardown \o <<"reopen">> IN
        IsPart(s) /\ s[1] = "stopWorker" /\ s[Len(s)] = "reopen"
    BY <1>1, <1>3, TeardownPart, JoinParts
  <1>6. LET s == Teardown \o <<"reopen">> \o BuildSteps IN
        IsPart(s) /\ s[1] = "stopWorker" /\ s[Len(s)] = "hooks"
    BY <1>3, <1>5, BuildPlan, JoinParts
  <1>7. LET s == <<"open">> \o BuildSteps IN
        IsPart(s) /\ s[1] = "open" /\ s[Len(s)] = "hooks"
    BY <1>1, <1>3, BuildPlan, JoinParts
  <1>8. LET s == Teardown \o <<"erase">> IN
        IsPlan(s) /\ s # <<>> /\ Head(s) = "stopWorker"
    <2> DEFINE e == <<"erase">>
               s == Teardown \o e
    <2>1. Teardown \in Seq(ManagerSteps) /\ Len(Teardown) = 5
          /\ \A i \in 1 .. 5 : Teardown[i] \notin {"open", "reopen"}
      BY DEF Teardown, ManagerSteps
    <2>2. e \in Seq(ManagerSteps) /\ Len(e) = 1 /\ e[1] = "erase"
      BY DEF ManagerSteps
    <2> HIDE DEF e
    <2>3. /\ s \in Seq(ManagerSteps) /\ Len(s) = 6
          /\ \A i \in 1 .. 6 : s[i] = IF i <= 5 THEN Teardown[i] ELSE e[i - 5]
      <3> DEFINE T == Teardown
      <3>1. T \in Seq(ManagerSteps) /\ Len(T) = 5
        BY <2>1
      <3> HIDE DEF T
      <3>2. /\ T \o e \in Seq(ManagerSteps) /\ Len(T \o e) = Len(T) + Len(e)
            /\ \A i \in 1 .. Len(T) + Len(e) : (T \o e)[i] = IF i <= Len(T) THEN T[i] ELSE e[i - Len(T)]
        BY <2>2, <3>1, ConcatProperties
      <3>3. Len(T) + Len(e) = 6
        BY <2>2, <3>1
      <3> QED
        BY <3>1, <3>2, <3>3 DEF T
    <2> HIDE DEF s
    <2>4. ASSUME NEW i \in 1 .. 6 PROVE s[i] \notin {"open", "reopen"}
      <3>1. CASE i <= 5
        BY <2>1, <2>3, <3>1
      <3>2. CASE i = 6
        BY <2>2, <2>3, <3>2
      <3> QED
        BY <3>1, <3>2
    <2> QED
      BY <1>4, <2>3, <2>4 DEF s, e, IsPart, IsPlan, Ends
  <1> QED
    BY <1>2, <1>4, <1>6, <1>7, <1>8

\* A step is taken: the next one follows it, or the plan ends.
LEMMA Advance ==
    ASSUME IsPlan(todo), todo # <<>>, todo' = Tail(todo)
    PROVE  /\ IsPlan(todo)'
           /\ IF Head(todo) \in Ends THEN todo' = <<>>
              ELSE /\ todo' # <<>>
                   /\ Follows(Head(todo), Head(todo'))
                   /\ todo'[Len(todo')] = todo[Len(todo)]
  <1>1. todo \in Seq(ManagerSteps) /\ Len(todo) >= 1 /\ Head(todo) = todo[1]
    BY DEF IsPlan
  <1>2. todo' \in Seq(ManagerSteps) /\ Len(todo') = Len(todo) - 1
    BY <1>1
  <1>3. \A i \in 1 .. Len(todo') : todo'[i] = todo[i + 1]
    BY <1>1
  <1>4. \A i \in 1 .. Len(todo') - 1 : Follows(todo'[i], todo'[i + 1])
    BY <1>1, <1>2, <1>3 DEF IsPlan
  <1>5. CASE todo' = <<>>
    <2>1. Len(todo') = 0
      BY <1>2, <1>5, EmptySeq
    <2>2. Len(todo) = 1
      BY <1>1, <1>2, <2>1
    <2>3. Head(todo) \in Ends
      BY <1>1, <2>2 DEF IsPlan
    <2>4. IsPlan(todo)'
      BY <1>2, <1>4, <1>5 DEF IsPlan
    <2> QED
      BY <1>5, <2>3, <2>4
  <1>6. CASE todo' # <<>>
    <2>1. Len(todo') >= 1 /\ Head(todo') = todo'[1]
      BY <1>2, <1>6
    <2>2. todo'[Len(todo')] = todo[Len(todo)]
      <3>1. Len(todo') \in 1 .. Len(todo') /\ Len(todo') + 1 = Len(todo)
        BY <1>1, <1>2, <2>1
      <3> QED
        BY <1>3, <3>1
    <2>3. Follows(Head(todo), Head(todo'))
      <3>1. 1 \in 1 .. Len(todo) - 1 /\ todo'[1] = todo[1 + 1]
        BY <1>1, <1>2, <1>3, <2>1
      <3> QED
        BY <1>1, <2>1, <3>1 DEF IsPlan
    <2>4. Head(todo) \notin Ends
      BY <2>3 DEF Follows, Ends
    <2>5. \A i \in 1 .. Len(todo') : todo'[i] \in {"open", "reopen"} => todo'[Len(todo')] = "hooks"
      BY <1>1, <1>2, <1>3, <2>2 DEF IsPlan
    <2> QED
      BY <1>2, <1>4, <1>6, <2>2, <2>3, <2>4, <2>5 DEF IsPlan
  <1> QED
    BY <1>5, <1>6

-----------------------------------------------------------------------------
(* Steps *)

\* IsPlan depends on these variables only.
LEMMA PlanKept ==
    ASSUME IsPlan(todo), UNCHANGED todo
    PROVE  IsPlan(todo)'
  BY DEF IsPlan

\* ManagerTypes depends on these variables only.
LEMMA ManagerTypesKept ==
    ASSUME ManagerTypes, UNCHANGED <<device, todo, build, present, mutex, dispatcher, current, opened>>
    PROVE  ManagerTypes'
  BY DEF ManagerTypes, types

\* ObjectTypes depends on these variables only.
LEMMA ObjectTypesKept ==
    ASSUME ObjectTypes, UNCHANGED <<device, alive, halted, handlers, nextId>>
    PROVE  ObjectTypes'
  BY DEF ObjectTypes, types

\* ThreadTypes depends on these variables only.
LEMMA ThreadTypesKept ==
    ASSUME ThreadTypes, UNCHANGED <<up, latest, rx, rxCalls, worker, borrowed, stop, keepalive, link,
                                    answer>>
    PROVE  ThreadTypes'
  BY DEF ThreadTypes

\* CallerTypes depends on these variables only.
LEMMA CallerTypesKept ==
    ASSUME CallerTypes, UNCHANGED caller
    PROVE  CallerTypes'
  BY DEF CallerTypes

\* Presence depends on these variables only.
LEMMA PresenceKept ==
    ASSUME Presence, UNCHANGED <<todo, present, mutex, opened, build>>
    PROVE  Presence'
  BY DEF Presence, Ahead, OpenAhead

\* WorkerGone depends on these variables only.
LEMMA WorkerGoneKept ==
    ASSUME WorkerGone, UNCHANGED <<todo, present, worker, borrowed>>
    PROVE  WorkerGone'
  BY DEF WorkerGone, Ahead, Unknown

\* Closed depends on these variables only.
LEMMA ClosedKept ==
    ASSUME Closed, UNCHANGED <<todo, present, rx, up, handlers, nextId, rxCalls>>
    PROVE  Closed'
  BY DEF Closed, Ahead, Unknown

\* Cleared depends on these variables only.
LEMMA ClearedKept ==
    ASSUME Cleared, UNCHANGED <<device, todo, present, current, dispatcher, build, nextId>>
    PROVE  Cleared'
  BY DEF Cleared, Ahead, Unknown, types

\* HeldByThreads depends on these variables only.
LEMMA HeldByThreadsKept ==
    ASSUME HeldByThreads, UNCHANGED <<device, handlers, rxCalls, borrowed, current>>
    PROVE  HeldByThreads'
  BY DEF HeldByThreads, IsCurrent, types

\* InUse depends on these variables only.
LEMMA InUseKept ==
    ASSUME InUse, UNCHANGED <<device, current, alive, dispatcher, halted>>
    PROVE  InUse'
  BY DEF InUse, types

\* Earlier depends on these variables only.
LEMMA EarlierKept ==
    ASSUME Earlier, UNCHANGED <<device, todo, dispatcher, build, alive, opened, current, halted>>
    PROVE  Earlier'
  BY DEF Earlier, types, RuntimeAhead, OpenAhead, Ahead

\* HeldByCallers depends on these variables only.
LEMMA HeldByCallersKept ==
    ASSUME HeldByCallers, UNCHANGED <<caller, alive, opened>>
    PROVE  HeldByCallers'
  BY DEF HeldByCallers

\* MutexExcludes depends on these variables only.
LEMMA MutexExcludesKept ==
    ASSUME MutexExcludes, UNCHANGED caller
    PROVE  MutexExcludes'
  BY DEF MutexExcludes

\* The types are the same in every state, and few.
LEMMA TypesFacts ==
    ASSUME device \in Devices
    PROVE  /\ types \subseteq {"MT", "PP", "DM"}
           /\ IsFiniteSet(types) /\ Cardinality(types) \in 0 .. 3
  <1>1. types \subseteq {"MT", "PP", "DM"}
    BY DevicesAssumption DEF types
  <1>2. IsFiniteSet({"MT"}) /\ Cardinality({"MT"}) = 1
    BY FS_Singleton
  <1>3. IsFiniteSet({"MT"} \cup {"PP"}) /\ Cardinality({"MT"} \cup {"PP"}) = 2
    BY <1>2, FS_AddElement
  <1>4. IsFiniteSet(({"MT"} \cup {"PP"}) \cup {"DM"})
        /\ Cardinality(({"MT"} \cup {"PP"}) \cup {"DM"}) = 3
    BY <1>3, FS_AddElement
  <1>5. ({"MT"} \cup {"PP"}) \cup {"DM"} = {"MT", "PP", "DM"}
    OBVIOUS
  <1>6. IsFiniteSet({"MT", "PP", "DM"}) /\ Cardinality({"MT", "PP", "DM"}) = 3
    BY <1>4, <1>5
  <1>7. IsFiniteSet(types) /\ Cardinality(types) <= 3
    BY <1>1, <1>6, FS_Subset
  <1> QED
    BY <1>1, <1>7, FS_CardinalityType

\* Builds are numbered from 1.
LEMMA BuildsFacts == MaxBuilds \in Nat /\ MaxBuilds >= 1 /\ Builds = 1 .. MaxBuilds
  BY MaxBuildsAssumption DEF Builds

\* None is not an object.
LEMMA NoneFacts == None \notin Objects /\ Idle.object = None /\ Idle.pc = "idle" /\ Idle.mutex = 0
  BY DEF None, Objects, Idle

\* The type invariant is the conjunction of its parts.
LEMMA TypeParts == TypeOK <=> ManagerTypes /\ ObjectTypes /\ ThreadTypes /\ CallerTypes
  BY DEF TypeOK, ManagerTypes, ObjectTypes, ThreadTypes, CallerTypes

\* All parts of the invariant.
LEMMA IInvParts ==
    IInv <=> /\ IsPlan(todo) /\ ManagerTypes /\ ObjectTypes /\ ThreadTypes /\ CallerTypes
             /\ Presence /\ WorkerGone /\ Closed /\ Cleared
             /\ HeldByThreads /\ InUse /\ Earlier /\ HeldByCallers /\ MutexExcludes
  BY TypeParts DEF IInv

\* ... and of the next state.
LEMMA IInvNext ==
    ASSUME IsPlan(todo)', ManagerTypes', ObjectTypes', ThreadTypes', CallerTypes',
           Presence', WorkerGone', Closed', Cleared',
           HeldByThreads', InUse', Earlier', HeldByCallers', MutexExcludes'
    PROVE  IInv'
  <1>1. TypeOK'
    BY DEF TypeOK, ManagerTypes, ObjectTypes, ThreadTypes, CallerTypes
  <1> QED
    BY <1>1 DEF IInv

\* What a send may change keeps its type.
LEMMA SendType ==
    ASSUME ThreadTypes, NEW r, Send(r)
    PROVE  answer' \in BOOLEAN /\ latest' \in {"none", "loss", "reception"}
  BY DEF Send, ThreadTypes

\* LinkChanges preserves the invariant.
LEMMA LinkChangesStep ==
    ASSUME IInv, LinkChanges
    PROVE  IInv'
  <1> USE IInvParts
  <1>p1. ThreadTypes'
    BY DEF LinkChanges, ThreadTypes, threads, transport
  <1>u. UNCHANGED <<todo, device, build, present, mutex, dispatcher, current, opened, alive, halted,
                    handlers, nextId, caller, worker, borrowed, rx, up, rxCalls>>
    BY DEF LinkChanges, manager, transport, threads, bus
  <1>r. IsPlan(todo)' /\ ManagerTypes' /\ ObjectTypes' /\ CallerTypes' /\ Presence' /\ WorkerGone'
        /\ Closed' /\ Cleared' /\ HeldByThreads' /\ InUse' /\ Earlier' /\ HeldByCallers'
        /\ MutexExcludes'
    BY <1>u, PlanKept, ManagerTypesKept, ObjectTypesKept, CallerTypesKept, PresenceKept,
       WorkerGoneKept, ClosedKept, ClearedKept, HeldByThreadsKept, InUseKept, EarlierKept,
       HeldByCallersKept, MutexExcludesKept
  <1> QED
    BY <1>p1, <1>r, IInvNext

\* Tick preserves the invariant.
LEMMA TickStep ==
    ASSUME IInv, Tick
    PROVE  IInv'
  <1> USE IInvParts
  <1>p1. ThreadTypes'
    BY DEF Tick, ThreadTypes, ManagerTypes, transport, bus
  <1>p2. WorkerGone'
    BY DEF Tick, WorkerGone, Ahead, Unknown, manager
  <1>p3. HeldByThreads'
    BY DEF Tick, HeldByThreads, IsCurrent, InUse, types, manager, transport
  <1>u. UNCHANGED <<todo, device, build, present, mutex, dispatcher, current, opened, alive, halted,
                    handlers, nextId, caller, rx, up, rxCalls>>
    BY DEF Tick, manager, transport, threads, bus
  <1>r. IsPlan(todo)' /\ ManagerTypes' /\ ObjectTypes' /\ CallerTypes' /\ Presence' /\ Closed'
        /\ Cleared' /\ InUse' /\ Earlier' /\ HeldByCallers' /\ MutexExcludes'
    BY <1>u, PlanKept, ManagerTypesKept, ObjectTypesKept, CallerTypesKept, PresenceKept, ClosedKept,
       ClearedKept, InUseKept, EarlierKept, HeldByCallersKept, MutexExcludesKept
  <1> QED
    BY <1>p1, <1>p2, <1>p3, <1>r, IInvNext

\* TickEnds preserves the invariant.
LEMMA TickEndsStep ==
    ASSUME IInv, TickEnds
    PROVE  IInv'
  <1> USE IInvParts
  <1>q. UNCHANGED <<alive, handlers, halted>>
    <2>1. {o \in borrowed : o # current[o.type] /\ Holders(o) = {}} = {}
      BY DEF HeldByThreads, IsCurrent
    <2>2. Destroy({})
      BY <2>1 DEF TickEnds
    <2> QED
      BY <2>2 DEF Destroy, RuntimesShutBy
  <1>p1. ThreadTypes'
    BY SendType DEF TickEnds, ThreadTypes
  <1>p2. WorkerGone'
    BY DEF TickEnds, WorkerGone, Ahead, Unknown, manager
  <1>p3. HeldByThreads'
    BY <1>q DEF TickEnds, HeldByThreads, IsCurrent, types, manager
  <1>u. UNCHANGED <<todo, device, build, present, mutex, dispatcher, current, opened, alive, halted,
                    handlers, nextId, caller, rx, up, rxCalls>>
    BY <1>q DEF TickEnds, manager, transport, threads, bus
  <1>r. IsPlan(todo)' /\ ManagerTypes' /\ ObjectTypes' /\ CallerTypes' /\ Presence' /\ Closed'
        /\ Cleared' /\ InUse' /\ Earlier' /\ HeldByCallers' /\ MutexExcludes'
    BY <1>u, PlanKept, ManagerTypesKept, ObjectTypesKept, CallerTypesKept, PresenceKept, ClosedKept,
       ClearedKept, InUseKept, EarlierKept, HeldByCallersKept, MutexExcludesKept
  <1> QED
    BY <1>p1, <1>p2, <1>p3, <1>r, IInvNext

\* WorkerExits preserves the invariant.
LEMMA WorkerExitsStep ==
    ASSUME IInv, WorkerExits
    PROVE  IInv'
  <1> USE IInvParts
  <1>p1. ThreadTypes'
    BY DEF WorkerExits, ThreadTypes, transport, bus
  <1>p2. WorkerGone'
    BY DEF WorkerExits, WorkerGone, Ahead, Unknown, manager
  <1>u. UNCHANGED <<todo, device, build, present, mutex, dispatcher, current, opened, alive, halted,
                    handlers, nextId, caller, rx, up, rxCalls, borrowed>>
    BY DEF WorkerExits, manager, transport, threads, bus
  <1>r. IsPlan(todo)' /\ ManagerTypes' /\ ObjectTypes' /\ CallerTypes' /\ Presence' /\ Closed'
        /\ Cleared' /\ HeldByThreads' /\ InUse' /\ Earlier' /\ HeldByCallers' /\ MutexExcludes'
    BY <1>u, PlanKept, ManagerTypesKept, ObjectTypesKept, CallerTypesKept, PresenceKept, ClosedKept,
       ClearedKept, HeldByThreadsKept, InUseKept, EarlierKept, HeldByCallersKept, MutexExcludesKept
  <1> QED
    BY <1>p1, <1>p2, <1>r, IInvNext

\* Receive preserves the invariant.
LEMMA ReceiveStep ==
    ASSUME IInv, Receive
    PROVE  IInv'
  <1> USE IInvParts
  <1>p1. ThreadTypes'
    BY DEF Receive, NoteReception, ThreadTypes, ObjectTypes
  <1>p2. Closed'
    BY DEF Receive, Closed, Ahead, Unknown, manager
  <1>p3. HeldByThreads'
    BY DEF Receive, HeldByThreads, IsCurrent, types, manager
  <1>u. UNCHANGED <<todo, device, build, present, mutex, dispatcher, current, opened, alive, halted,
                    handlers, nextId, caller, worker, borrowed>>
    BY DEF Receive, manager, transport, threads, bus
  <1>r. IsPlan(todo)' /\ ManagerTypes' /\ ObjectTypes' /\ CallerTypes' /\ Presence' /\ WorkerGone'
        /\ Cleared' /\ InUse' /\ Earlier' /\ HeldByCallers' /\ MutexExcludes'
    BY <1>u, PlanKept, ManagerTypesKept, ObjectTypesKept, CallerTypesKept, PresenceKept,
       WorkerGoneKept, ClearedKept, InUseKept, EarlierKept, HeldByCallersKept, MutexExcludesKept
  <1> QED
    BY <1>p1, <1>p2, <1>p3, <1>r, IInvNext

\* CallHandler preserves the invariant.
LEMMA CallHandlerStep ==
    ASSUME IInv, NEW o, CallHandler(o)
    PROVE  IInv'
  <1> USE IInvParts
  <1>p1. ThreadTypes'
    BY DEF CallHandler, ThreadTypes, transport, bus
  <1>p2. Closed'
    BY DEF CallHandler, Closed, Ahead, Unknown, manager, transport
  <1>p3. HeldByThreads'
    BY DEF CallHandler, HeldByThreads, IsCurrent, types, manager, transport
  <1>u. UNCHANGED <<todo, device, build, present, mutex, dispatcher, current, opened, alive, halted,
                    handlers, nextId, caller, worker, borrowed>>
    BY DEF CallHandler, manager, transport, threads, bus
  <1>r. IsPlan(todo)' /\ ManagerTypes' /\ ObjectTypes' /\ CallerTypes' /\ Presence' /\ WorkerGone'
        /\ Cleared' /\ InUse' /\ Earlier' /\ HeldByCallers' /\ MutexExcludes'
    BY <1>u, PlanKept, ManagerTypesKept, ObjectTypesKept, CallerTypesKept, PresenceKept,
       WorkerGoneKept, ClearedKept, InUseKept, EarlierKept, HeldByCallersKept, MutexExcludesKept
  <1> QED
    BY <1>p1, <1>p2, <1>p3, <1>r, IInvNext

\* ReceiverExits preserves the invariant.
LEMMA ReceiverExitsStep ==
    ASSUME IInv, ReceiverExits
    PROVE  IInv'
  <1> USE IInvParts
  <1>p1. ThreadTypes'
    BY DEF ReceiverExits, ThreadTypes, transport, bus
  <1>p2. Closed'
    BY DEF ReceiverExits, Closed, Ahead, Unknown, manager, transport
  <1>u. UNCHANGED <<todo, device, build, present, mutex, dispatcher, current, opened, alive, halted,
                    handlers, nextId, caller, worker, borrowed, rxCalls>>
    BY DEF ReceiverExits, manager, transport, threads, bus
  <1>r. IsPlan(todo)' /\ ManagerTypes' /\ ObjectTypes' /\ CallerTypes' /\ Presence' /\ WorkerGone'
        /\ Cleared' /\ HeldByThreads' /\ InUse' /\ Earlier' /\ HeldByCallers' /\ MutexExcludes'
    BY <1>u, PlanKept, ManagerTypesKept, ObjectTypesKept, CallerTypesKept, PresenceKept,
       WorkerGoneKept, ClearedKept, HeldByThreadsKept, InUseKept, EarlierKept, HeldByCallersKept,
       MutexExcludesKept
  <1> QED
    BY <1>p1, <1>p2, <1>r, IInvNext

\* FetchProtocol preserves the invariant.
LEMMA FetchProtocolStep ==
    ASSUME IInv, NEW c \in Callers, NEW t, FetchProtocol(c, t)
    PROVE  IInv'
  <1> USE IInvParts
  <1>p1. CallerTypes'
    BY BuildsFacts DEF FetchProtocol, CallerTypes, ManagerTypes
  <1>p2. HeldByCallers'
    BY DEF FetchProtocol, HeldByCallers, CallerTypes, InUse, Idle
  <1>p3. MutexExcludes'
    BY DEF FetchProtocol, MutexExcludes, CallerTypes
  <1>u. UNCHANGED <<todo, device, build, present, mutex, dispatcher, current, opened, alive, halted,
                    handlers, nextId, up, latest, rx, rxCalls, worker, borrowed, stop, keepalive, link,
                    answer>>
    BY DEF FetchProtocol, manager, transport, threads, bus
  <1>r. IsPlan(todo)' /\ ManagerTypes' /\ ObjectTypes' /\ ThreadTypes' /\ Presence' /\ WorkerGone'
        /\ Closed' /\ Cleared' /\ HeldByThreads' /\ InUse' /\ Earlier'
    BY <1>u, PlanKept, ManagerTypesKept, ObjectTypesKept, ThreadTypesKept, PresenceKept,
       WorkerGoneKept, ClosedKept, ClearedKept, HeldByThreadsKept, InUseKept, EarlierKept
  <1> QED
    BY <1>p1, <1>p2, <1>p3, <1>r, IInvNext

\* FetchMutex preserves the invariant.
LEMMA FetchMutexStep ==
    ASSUME IInv, NEW c \in Callers, FetchMutex(c)
    PROVE  IInv'
  <1> USE IInvParts
  <1>p1. CallerTypes'
    BY DEF FetchMutex, CallerTypes, ManagerTypes
  <1>p2. HeldByCallers'
    BY DEF FetchMutex, HeldByCallers, CallerTypes, Presence, Idle
  <1>p3. MutexExcludes'
    BY DEF FetchMutex, MutexExcludes, CallerTypes
  <1>u. UNCHANGED <<todo, device, build, present, mutex, dispatcher, current, opened, alive, halted,
                    handlers, nextId, up, latest, rx, rxCalls, worker, borrowed, stop, keepalive, link,
                    answer>>
    BY DEF FetchMutex, manager, transport, threads, bus
  <1>r. IsPlan(todo)' /\ ManagerTypes' /\ ObjectTypes' /\ ThreadTypes' /\ Presence' /\ WorkerGone'
        /\ Closed' /\ Cleared' /\ HeldByThreads' /\ InUse' /\ Earlier'
    BY <1>u, PlanKept, ManagerTypesKept, ObjectTypesKept, ThreadTypesKept, PresenceKept,
       WorkerGoneKept, ClosedKept, ClearedKept, HeldByThreadsKept, InUseKept, EarlierKept
  <1> QED
    BY <1>p1, <1>p2, <1>p3, <1>r, IInvNext

\* Lock preserves the invariant.
LEMMA LockStep ==
    ASSUME IInv, NEW c \in Callers, Lock(c)
    PROVE  IInv'
  <1> USE IInvParts
  <1>p1. CallerTypes'
    BY DEF Lock, CallerTypes
  <1>p2. HeldByCallers'
    BY DEF Lock, HeldByCallers, CallerTypes, Idle
  <1>p3. MutexExcludes'
    BY DEF Lock, MutexExcludes, CallerTypes
  <1>u. UNCHANGED <<todo, device, build, present, mutex, dispatcher, current, opened, alive, halted,
                    handlers, nextId, up, latest, rx, rxCalls, worker, borrowed, stop, keepalive, link,
                    answer>>
    BY DEF Lock, manager, transport, threads, bus
  <1>r. IsPlan(todo)' /\ ManagerTypes' /\ ObjectTypes' /\ ThreadTypes' /\ Presence' /\ WorkerGone'
        /\ Closed' /\ Cleared' /\ HeldByThreads' /\ InUse' /\ Earlier'
    BY <1>u, PlanKept, ManagerTypesKept, ObjectTypesKept, ThreadTypesKept, PresenceKept,
       WorkerGoneKept, ClosedKept, ClearedKept, HeldByThreadsKept, InUseKept, EarlierKept
  <1> QED
    BY <1>p1, <1>p2, <1>p3, <1>r, IInvNext

\* Use preserves the invariant.
LEMMA UseStep ==
    ASSUME IInv, NEW c \in Callers, Use(c)
    PROVE  IInv'
  <1> USE IInvParts
  <1>p1. ThreadTypes'
    BY SendType DEF Use, ThreadTypes, threads
  <1>u. UNCHANGED <<todo, device, build, present, mutex, dispatcher, current, opened, alive, halted,
                    handlers, nextId, caller, worker, borrowed, rx, up, rxCalls>>
    BY DEF Use, manager, transport, threads, bus
  <1>r. IsPlan(todo)' /\ ManagerTypes' /\ ObjectTypes' /\ CallerTypes' /\ Presence' /\ WorkerGone'
        /\ Closed' /\ Cleared' /\ HeldByThreads' /\ InUse' /\ Earlier' /\ HeldByCallers'
        /\ MutexExcludes'
    BY <1>u, PlanKept, ManagerTypesKept, ObjectTypesKept, CallerTypesKept, PresenceKept,
       WorkerGoneKept, ClosedKept, ClearedKept, HeldByThreadsKept, InUseKept, EarlierKept,
       HeldByCallersKept, MutexExcludesKept
  <1> QED
    BY <1>p1, <1>r, IInvNext

\* Release preserves the invariant.
LEMMA ReleaseStep ==
    ASSUME IInv, NEW c \in Callers, Release(c)
    PROVE  IInv'
  <1> USE IInvParts
  <1> DEFINE o == caller[c].object
             S == IF o # current[o.type] /\ Holders(o) = {c} /\ o \notin borrowed THEN {o} ELSE {}
  <1>q1. o \in alive /\ o \in Objects /\ o.type \in types
    BY DEF Release, HeldByCallers, Earlier, ObjectTypes
  <1>q2. S \subseteq {o} /\ (o \in S => o # current[o.type] /\ Holders(o) = {c})
    OBVIOUS
  <1>q3. /\ alive' = alive \ S /\ handlers' \subseteq handlers
         /\ halted' = halted \cup {x.runtime : x \in S}
    BY DEF Release, Destroy, RuntimesShutBy
  <1> HIDE DEF S
  <1>p1. ObjectTypes'
    BY <1>q1, <1>q2, <1>q3 DEF ObjectTypes, types, Release, Objects
  <1>p2. CallerTypes'
    BY BuildsFacts DEF Release, CallerTypes, Idle
  <1>p3. Closed'
    BY <1>q3 DEF Release, Closed, Ahead, Unknown, manager, threads
  <1>p4. HeldByThreads'
    BY <1>q3 DEF Release, HeldByThreads, IsCurrent, types, manager, threads
  <1>p5. InUse'
    <2>1. SUFFICES ASSUME NEW t \in types, current[t] # None
                 PROVE  current[t] \in alive' /\ current[t].type = t /\ current[t].runtime = dispatcher
                        /\ dispatcher \notin halted'
      BY DEF Release, InUse, types, manager
    <2>2. current[t] \in alive /\ current[t].type = t /\ current[t].runtime = dispatcher
          /\ dispatcher \notin halted
      BY <2>1 DEF InUse
    <2>3. dispatcher \in 1 .. MaxBuilds
      BY <2>2, BuildsFacts DEF ObjectTypes, Objects
    <2>4. o \in S => o.runtime # dispatcher
      <3>1. o \in S => o.runtime < dispatcher
        BY <1>q1, <1>q2, <2>3 DEF Earlier
      <3>2. o.runtime \in 1 .. MaxBuilds
        BY <1>q1, BuildsFacts DEF Objects
      <3> QED
        BY <2>3, <3>1, <3>2, BuildsFacts
    <2>5. current[t] \notin S
      BY <1>q1, <1>q2, <2>2
    <2> QED
      BY <1>q2, <1>q3, <2>2, <2>4, <2>5
  <1>p6. Earlier'
    BY <1>q1, <1>q2, <1>q3 DEF Release, Earlier, types, RuntimeAhead, OpenAhead, Ahead, manager
  <1>p7. HeldByCallers'
    <2>1. ASSUME NEW d \in Callers, d # c
          PROVE  caller'[d] = caller[d] /\ (caller[d].pc # "idle" => caller[d].object \notin S)
      BY <1>q2, <2>1 DEF Release, CallerTypes, Holders
    <2>2. caller'[c] = Idle
      BY DEF Release, CallerTypes
    <2> QED
      BY <1>q3, <2>1, <2>2, NoneFacts DEF HeldByCallers, Release
  <1>p8. MutexExcludes'
    BY NoneFacts DEF Release, MutexExcludes, CallerTypes
  <1>u. UNCHANGED <<todo, device, build, present, mutex, dispatcher, current, opened, up, latest, rx,
                    rxCalls, worker, borrowed, stop, keepalive, link, answer, nextId>>
    BY DEF Release, manager, transport, threads, bus
  <1>r. IsPlan(todo)' /\ ManagerTypes' /\ ThreadTypes' /\ Presence' /\ WorkerGone' /\ Cleared'
    BY <1>u, PlanKept, ManagerTypesKept, ThreadTypesKept, PresenceKept, WorkerGoneKept, ClearedKept
  <1> QED
    BY <1>p1, <1>p2, <1>p3, <1>p4, <1>p5, <1>p6, <1>p7, <1>p8, <1>r, IInvNext

\* StopWorker preserves the invariant.
LEMMA StopWorkerStep ==
    ASSUME IInv, StopWorker
    PROVE  IInv'
  <1> USE IInvParts
  <1>a. /\ todo # <<>> /\ Head(todo) = "stopWorker" /\ IsPlan(todo)' /\ todo' # <<>>
        /\ Head(todo') = "joinWorker" /\ todo'[Len(todo')] = todo[Len(todo)]
    BY Advance DEF StopWorker, At, Ends, Follows
  <1>p1. IsPlan(todo)'
    BY <1>a
  <1>p2. ManagerTypes'
    BY <1>a DEF StopWorker, ManagerTypes, IsPlan, types, manager
  <1>p3. Presence'
    BY <1>a DEF StopWorker, Presence, Ahead, OpenAhead, Tearing, Building, manager
  <1>p4. WorkerGone'
    BY <1>a DEF StopWorker, WorkerGone, Ahead, Unknown, Building, manager, threads
  <1>p5. Closed'
    BY <1>a DEF StopWorker, Closed, Ahead, Unknown, manager, transport, threads
  <1>p6. Cleared'
    BY <1>a DEF StopWorker, Cleared, Ahead, Unknown, Building, types, manager, transport
  <1>p7. Earlier'
    BY <1>a DEF StopWorker, Earlier, RuntimeAhead, OpenAhead, Ahead, Tearing, types, manager
  <1>p8. ThreadTypes'
    BY DEF StopWorker, ThreadTypes, transport, bus
  <1>u. UNCHANGED <<device, alive, halted, handlers, nextId, caller, rxCalls, borrowed, current,
                    dispatcher, opened>>
    BY DEF StopWorker, manager, transport, threads, bus
  <1>r. ObjectTypes' /\ CallerTypes' /\ HeldByThreads' /\ InUse' /\ HeldByCallers' /\ MutexExcludes'
    BY <1>u, ObjectTypesKept, CallerTypesKept, HeldByThreadsKept, InUseKept, HeldByCallersKept,
       MutexExcludesKept
  <1> QED
    BY <1>p1, <1>p2, <1>p3, <1>p4, <1>p5, <1>p6, <1>p7, <1>p8, <1>r, IInvNext

\* JoinWorker preserves the invariant.
LEMMA JoinWorkerStep ==
    ASSUME IInv, JoinWorker
    PROVE  IInv'
  <1> USE IInvParts
  <1>a. /\ todo # <<>> /\ Head(todo) = "joinWorker" /\ IsPlan(todo)' /\ todo' # <<>>
        /\ Head(todo') = "stopRx" /\ todo'[Len(todo')] = todo[Len(todo)]
    BY Advance DEF JoinWorker, At, Ends, Follows
  <1>p1. IsPlan(todo)'
    BY <1>a
  <1>p2. ManagerTypes'
    BY <1>a DEF JoinWorker, ManagerTypes, IsPlan, types, manager
  <1>p3. Presence'
    BY <1>a DEF JoinWorker, Presence, Ahead, OpenAhead, Tearing, Building, manager
  <1>p4. WorkerGone'
    BY <1>a DEF JoinWorker, WorkerGone, Ahead, Unknown, Building, manager, threads
  <1>p5. Closed'
    BY <1>a DEF JoinWorker, Closed, Ahead, Unknown, manager, transport, threads
  <1>p6. Cleared'
    BY <1>a DEF JoinWorker, Cleared, Ahead, Unknown, Building, types, manager, transport
  <1>p7. Earlier'
    BY <1>a DEF JoinWorker, Earlier, RuntimeAhead, OpenAhead, Ahead, Tearing, types, manager
  <1>p8. ThreadTypes'
    BY DEF JoinWorker, ThreadTypes, transport, bus
  <1>u. UNCHANGED <<device, alive, halted, handlers, nextId, caller, rxCalls, borrowed, current,
                    dispatcher, opened>>
    BY DEF JoinWorker, manager, transport, threads, bus
  <1>r. ObjectTypes' /\ CallerTypes' /\ HeldByThreads' /\ InUse' /\ HeldByCallers' /\ MutexExcludes'
    BY <1>u, ObjectTypesKept, CallerTypesKept, HeldByThreadsKept, InUseKept, HeldByCallersKept,
       MutexExcludesKept
  <1> QED
    BY <1>p1, <1>p2, <1>p3, <1>p4, <1>p5, <1>p6, <1>p7, <1>p8, <1>r, IInvNext

\* StopReceiving preserves the invariant.
LEMMA StopReceivingStep ==
    ASSUME IInv, StopReceiving
    PROVE  IInv'
  <1> USE IInvParts
  <1>a. /\ todo # <<>> /\ Head(todo) = "stopRx" /\ IsPlan(todo)' /\ todo' # <<>>
        /\ Head(todo') = "joinRx" /\ todo'[Len(todo')] = todo[Len(todo)]
    BY Advance DEF StopReceiving, At, Ends, Follows
  <1>p1. IsPlan(todo)'
    BY <1>a
  <1>p2. ManagerTypes'
    BY <1>a DEF StopReceiving, ManagerTypes, IsPlan, types, manager
  <1>p3. Presence'
    BY <1>a DEF StopReceiving, Presence, Ahead, OpenAhead, Tearing, Building, manager
  <1>p4. WorkerGone'
    BY <1>a DEF StopReceiving, WorkerGone, Ahead, Unknown, Building, manager, threads
  <1>p5. Closed'
    BY <1>a DEF StopReceiving, Closed, Ahead, Unknown, manager, transport, threads
  <1>p6. Cleared'
    BY <1>a DEF StopReceiving, Cleared, Ahead, Unknown, Building, types, manager, transport
  <1>p7. Earlier'
    BY <1>a DEF StopReceiving, Earlier, RuntimeAhead, OpenAhead, Ahead, Tearing, types, manager
  <1>p8. ThreadTypes'
    BY DEF StopReceiving, ThreadTypes, bus
  <1>u. UNCHANGED <<device, alive, halted, handlers, nextId, caller, rxCalls, borrowed, current,
                    dispatcher, opened>>
    BY DEF StopReceiving, manager, transport, threads, bus
  <1>r. ObjectTypes' /\ CallerTypes' /\ HeldByThreads' /\ InUse' /\ HeldByCallers' /\ MutexExcludes'
    BY <1>u, ObjectTypesKept, CallerTypesKept, HeldByThreadsKept, InUseKept, HeldByCallersKept,
       MutexExcludesKept
  <1> QED
    BY <1>p1, <1>p2, <1>p3, <1>p4, <1>p5, <1>p6, <1>p7, <1>p8, <1>r, IInvNext

\* CloseTransport preserves the invariant.
LEMMA CloseTransportStep ==
    ASSUME IInv, CloseTransport
    PROVE  IInv'
  <1> USE IInvParts
  <1>a. /\ todo # <<>> /\ Head(todo) = "joinRx" /\ IsPlan(todo)' /\ todo' # <<>>
        /\ Head(todo') = "drop" /\ todo'[Len(todo')] = todo[Len(todo)]
    BY Advance DEF CloseTransport, At, Ends, Follows
  <1>p1. IsPlan(todo)'
    BY <1>a
  <1>p2. ManagerTypes'
    BY <1>a DEF CloseTransport, ManagerTypes, IsPlan, types, manager
  <1>p3. Presence'
    BY <1>a DEF CloseTransport, Presence, Ahead, OpenAhead, Tearing, Building, manager
  <1>p4. WorkerGone'
    BY <1>a DEF CloseTransport, WorkerGone, Ahead, Unknown, Building, manager, threads
  <1>p5. Closed'
    BY <1>a DEF CloseTransport, Closed, Ahead, Unknown, manager, transport, threads
  <1>p6. Cleared'
    BY <1>a DEF CloseTransport, Cleared, Ahead, Unknown, Building, types, manager, transport
  <1>p7. Earlier'
    BY <1>a DEF CloseTransport, Earlier, RuntimeAhead, OpenAhead, Ahead, Tearing, types, manager
  <1>p8. ThreadTypes'
    BY DEF CloseTransport, ThreadTypes
  <1>p9. ObjectTypes'
    BY TypesFacts DEF CloseTransport, ObjectTypes, ManagerTypes, types
  <1>p10. HeldByThreads'
    BY DEF CloseTransport, HeldByThreads, IsCurrent, types, manager
  <1>u. UNCHANGED <<caller, device, current, alive, dispatcher, halted, opened>>
    BY DEF CloseTransport, manager, transport, threads, bus
  <1>r. CallerTypes' /\ InUse' /\ HeldByCallers' /\ MutexExcludes'
    BY <1>u, CallerTypesKept, InUseKept, HeldByCallersKept, MutexExcludesKept
  <1> QED
    BY <1>p1, <1>p2, <1>p3, <1>p4, <1>p5, <1>p6, <1>p7, <1>p8, <1>p9, <1>p10, <1>r, IInvNext

\* DropProtocols preserves the invariant.
LEMMA DropProtocolsStep ==
    ASSUME IInv, DropProtocols
    PROVE  IInv'
  <1> USE IInvParts
  <1>a. /\ todo # <<>> /\ Head(todo) = "drop" /\ IsPlan(todo)' /\ todo' # <<>>
        /\ (Head(todo') = "erase" \/ Head(todo') = "reopen") /\ todo'[Len(todo')] = todo[Len(todo)]
    BY Advance DEF DropProtocols, At, Ends, Follows
  <1> DEFINE S == {o \in alive : o = current[o.type] /\ Holders(o) = {} /\ o \notin borrowed}
  <1>b. /\ S \subseteq alive /\ alive' = alive \ S /\ handlers' \subseteq handlers
        /\ halted' = halted \cup {x.runtime : x \in S} /\ \A o \in S : Holders(o) = {}
    BY DEF DropProtocols, Destroy, RuntimesShutBy
  <1> HIDE DEF S
  <1>p1. IsPlan(todo)'
    BY <1>a
  <1>p2. ManagerTypes'
    BY <1>a, BuildsFacts DEF DropProtocols, ManagerTypes, IsPlan, types
  <1>p3. Presence'
    BY <1>a DEF DropProtocols, Presence, Ahead, OpenAhead, Tearing, Building, manager
  <1>p4. WorkerGone'
    BY <1>a DEF DropProtocols, WorkerGone, Ahead, Unknown, Building, manager, threads
  <1>p5. Closed'
    BY <1>a, <1>b DEF DropProtocols, Closed, Ahead, Unknown, threads
  <1>p6. Cleared'
    BY <1>a DEF DropProtocols, Cleared, Ahead, Unknown, Building, types, manager, transport
  <1>p7. Earlier'
    <2>1. RuntimeAhead' => RuntimeAhead
      BY <1>a DEF RuntimeAhead, OpenAhead, Ahead, Tearing
    <2>2. build \in Nat /\ dispatcher \in Nat
      BY BuildsFacts DEF ManagerTypes
    <2> QED
      BY <1>b, <2>1, <2>2 DEF DropProtocols, Earlier, types
  <1>p8. ObjectTypes'
    BY <1>b DEF DropProtocols, ObjectTypes, types, Objects
  <1>p9. HeldByThreads'
    BY <1>a, <1>b DEF DropProtocols, HeldByThreads, WorkerGone, Closed, Ahead, threads
  <1>p10. InUse'
    BY DEF DropProtocols, InUse, types
  <1>p11. HeldByCallers'
    BY <1>b DEF DropProtocols, HeldByCallers, Holders
  <1>u. UNCHANGED <<up, latest, rx, rxCalls, worker, borrowed, stop, keepalive, link, answer, caller>>
    BY DEF DropProtocols, manager, transport, threads, bus
  <1>r. ThreadTypes' /\ CallerTypes' /\ MutexExcludes'
    BY <1>u, ThreadTypesKept, CallerTypesKept, MutexExcludesKept
  <1> QED
    BY <1>p1, <1>p2, <1>p3, <1>p4, <1>p5, <1>p6, <1>p7, <1>p8, <1>p9, <1>p10, <1>p11, <1>r, IInvNext

\* Erase preserves the invariant.
LEMMA EraseStep ==
    ASSUME IInv, Erase
    PROVE  IInv'
  <1> USE IInvParts
  <1>a. todo # <<>> /\ Head(todo) = "erase" /\ IsPlan(todo)' /\ todo' = <<>>
    BY Advance DEF Erase, At, Ends
  <1>p1. IsPlan(todo)'
    BY <1>a
  <1>p2. ManagerTypes'
    <2>1. mutex' = 0 /\ mutex' \in 0 .. MaxBuilds
      BY BuildsFacts DEF Erase
    <2>2. present' \in BOOLEAN
      BY DEF Erase
    <2> QED
      BY <1>a, <2>1, <2>2 DEF Erase, ManagerTypes, IsPlan, types
  <1>p3. Presence'
    <2>1. present' = FALSE /\ mutex' = 0 /\ UNCHANGED <<opened, build>>
      BY DEF Erase
    <2>2. \A S : ~Ahead(S)'
      BY <1>a DEF Ahead
    <2>3. ~OpenAhead'
      BY <1>a DEF OpenAhead
    <2>4. (opened <= build)'
      BY <2>1 DEF Presence
    <2> QED
      BY <2>1, <2>2, <2>3, <2>4 DEF Presence
  <1>p4. WorkerGone'
    BY <1>a DEF Erase, WorkerGone, Ahead, Unknown, Building, manager, threads
  <1>p5. Closed'
    BY <1>a DEF Erase, Closed, Ahead, Unknown, manager, transport, threads
  <1>p6. Cleared'
    BY <1>a DEF Erase, Cleared, Ahead, Unknown, Building, types, manager, transport
  <1>p7. Earlier'
    BY <1>a DEF Erase, Earlier, RuntimeAhead, OpenAhead, Ahead, Tearing, types, manager
  <1>u. UNCHANGED <<device, alive, halted, handlers, nextId, up, latest, rx, rxCalls, worker, borrowed,
                    stop, keepalive, link, answer, caller, current, dispatcher, opened>>
    BY DEF Erase, manager, transport, threads, bus
  <1>r. ObjectTypes' /\ ThreadTypes' /\ CallerTypes' /\ HeldByThreads' /\ InUse' /\ HeldByCallers'
        /\ MutexExcludes'
    BY <1>u, ObjectTypesKept, ThreadTypesKept, CallerTypesKept, HeldByThreadsKept, InUseKept,
       HeldByCallersKept, MutexExcludesKept
  <1> QED
    BY <1>p1, <1>p2, <1>p3, <1>p4, <1>p5, <1>p6, <1>p7, <1>r, IInvNext

\* StartWorker preserves the invariant.
LEMMA StartWorkerStep ==
    ASSUME IInv, StartWorker
    PROVE  IInv'
  <1> USE IInvParts
  <1>a. /\ todo # <<>> /\ Head(todo) = "start" /\ IsPlan(todo)' /\ todo' # <<>>
        /\ Head(todo') = "hooks" /\ todo'[Len(todo')] = todo[Len(todo)]
    BY Advance DEF StartWorker, At, Ends, Follows
  <1>p1. IsPlan(todo)'
    BY <1>a
  <1>p2. ManagerTypes'
    BY <1>a DEF StartWorker, ManagerTypes, IsPlan, types, manager
  <1>p3. Presence'
    BY <1>a DEF StartWorker, Presence, Ahead, OpenAhead, Tearing, Building, manager
  <1>p4. WorkerGone'
    BY <1>a DEF StartWorker, WorkerGone, Ahead, Unknown, Building, manager, threads
  <1>p5. Closed'
    BY <1>a DEF StartWorker, Closed, Ahead, Unknown, manager, transport, threads
  <1>p6. Cleared'
    BY <1>a DEF StartWorker, Cleared, Ahead, Unknown, Building, types, manager, transport
  <1>p7. Earlier'
    BY <1>a DEF StartWorker, Earlier, RuntimeAhead, OpenAhead, Ahead, Tearing, types, manager
  <1>p8. ThreadTypes'
    BY DEF StartWorker, ThreadTypes, transport, bus
  <1>u. UNCHANGED <<device, alive, halted, handlers, nextId, caller, rxCalls, borrowed, current,
                    dispatcher, opened>>
    BY DEF StartWorker, manager, transport, threads, bus
  <1>r. ObjectTypes' /\ CallerTypes' /\ HeldByThreads' /\ InUse' /\ HeldByCallers' /\ MutexExcludes'
    BY <1>u, ObjectTypesKept, CallerTypesKept, HeldByThreadsKept, InUseKept, HeldByCallersKept,
       MutexExcludesKept
  <1> QED
    BY <1>p1, <1>p2, <1>p3, <1>p4, <1>p5, <1>p6, <1>p7, <1>p8, <1>r, IInvNext

\* MakeRuntime preserves the invariant.
LEMMA MakeRuntimeStep ==
    ASSUME IInv, MakeRuntime
    PROVE  IInv'
  <1> USE IInvParts
  <1>a. /\ todo # <<>> /\ Head(todo) = "runtime" /\ IsPlan(todo)' /\ todo' # <<>>
        /\ (Head(todo') = "MT" \/ Head(todo') = "PP" \/ Head(todo') = "DM" \/ Head(todo') = "start")
        /\ todo'[Len(todo')] = todo[Len(todo)]
    BY Advance DEF MakeRuntime, At, Ends, Follows
  <1>p1. IsPlan(todo)'
    BY <1>a
  <1>p2. ManagerTypes'
    BY <1>a DEF MakeRuntime, ManagerTypes, IsPlan, types, manager
  <1>p3. Presence'
    BY <1>a DEF MakeRuntime, Presence, Ahead, OpenAhead, Tearing, Building, manager
  <1>p4. WorkerGone'
    BY <1>a DEF MakeRuntime, WorkerGone, Ahead, Unknown, Building, manager, threads
  <1>p5. Closed'
    BY <1>a DEF MakeRuntime, Closed, Ahead, Unknown, manager, transport, threads
  <1>p6. Cleared'
    BY <1>a DEF MakeRuntime, Cleared, Ahead, Unknown, Building, types, manager, transport
  <1>p7. Earlier'
    <2>1. RuntimeAhead /\ ~RuntimeAhead'
      BY <1>a DEF RuntimeAhead, OpenAhead, Ahead, Tearing
    <2>2. dispatcher' = build /\ build \in Nat /\ UNCHANGED <<build, alive, halted, opened, current,
                                                              device>>
      BY BuildsFacts DEF MakeRuntime, ManagerTypes
    <2> QED
      BY <2>1, <2>2 DEF Earlier, types
  <1>p8. InUse'
    BY <1>a DEF MakeRuntime, InUse, Cleared, Ahead, types
  <1>u. UNCHANGED <<device, alive, halted, handlers, nextId, up, latest, rx, rxCalls, worker, borrowed,
                    stop, keepalive, link, answer, caller, current, opened>>
    BY DEF MakeRuntime, manager, transport, threads, bus
  <1>r. ObjectTypes' /\ ThreadTypes' /\ CallerTypes' /\ HeldByThreads' /\ HeldByCallers'
        /\ MutexExcludes'
    BY <1>u, ObjectTypesKept, ThreadTypesKept, CallerTypesKept, HeldByThreadsKept, HeldByCallersKept,
       MutexExcludesKept
  <1> QED
    BY <1>p1, <1>p2, <1>p3, <1>p4, <1>p5, <1>p6, <1>p7, <1>p8, <1>r, IInvNext

\* OpenTransport preserves the invariant.
LEMMA OpenTransportStep ==
    ASSUME IInv, OpenTransport
    PROVE  IInv'
  <1> USE IInvParts
  <1>a. /\ todo # <<>> /\ Head(todo) \in {"open", "reopen"} /\ IsPlan(todo)' /\ todo' # <<>>
        /\ Head(todo') = "runtime" /\ todo'[Len(todo')] = todo[Len(todo)]
    BY Advance DEF OpenTransport, At, Ends, Follows
  <1>b. OpenAhead /\ opened \in Nat /\ build \in Nat /\ opened < build
    <2>1. todo \in Seq(ManagerSteps) /\ todo[1] = Head(todo) /\ 1 \in 1 .. Len(todo)
      BY <1>a DEF IsPlan
    <2>2. todo[Len(todo)] = "hooks"
      BY <1>a, <2>1 DEF IsPlan
    <2>3. OpenAhead
      BY <1>a, <2>2 DEF OpenAhead
    <2> QED
      BY <2>3, BuildsFacts DEF Presence, ManagerTypes
  <1>d. build # 0 /\ build \in 0 .. MaxBuilds
    BY <1>b DEF ManagerTypes
  <1>c. /\ opened' \in {opened, build} /\ opened' \in 0 .. MaxBuilds /\ mutex' \in 0 .. MaxBuilds
        /\ mutex' = opened' /\ opened' <= build /\ mutex' # 0
    <2>1. CASE present
      <3>1. mutex # 0 /\ mutex = opened /\ opened <= build
        BY <2>1 DEF Presence
      <3>2. mutex' = mutex /\ opened' = opened
        BY <2>1, <3>1 DEF OpenTransport, CommandMutex
      <3> QED
        BY <3>1, <3>2 DEF ManagerTypes
    <2>2. CASE ~present
      <3>1. mutex = 0
        BY <2>2 DEF Presence
      <3>2. mutex' = build /\ opened' = build
        BY <2>2, <3>1 DEF OpenTransport, CommandMutex
      <3> QED
        BY <1>b, <1>d, <3>2
    <2> QED
      BY <2>1, <2>2
  <1>p1. IsPlan(todo)'
    BY <1>a
  <1>p2. ManagerTypes'
    BY <1>a, <1>c DEF OpenTransport, ManagerTypes, IsPlan, types
  <1>p3. Presence'
    <2>1. OpenAhead' = FALSE /\ ~Ahead({"open"})'
      BY <1>a DEF OpenAhead, Ahead, Tearing
    <2>2. present' = TRUE /\ mutex' # 0
      BY <1>c, <1>d DEF OpenTransport
    <2>3. (present <=> mutex # 0)'
      BY <2>2
    <2>4. (mutex # 0 => mutex = opened)' /\ (opened <= build)'
      BY <1>c DEF OpenTransport
    <2> QED
      BY <2>1, <2>2, <2>3, <2>4 DEF Presence
  <1>p4. WorkerGone'
    BY <1>a DEF OpenTransport, WorkerGone, Ahead, Unknown, Building, manager, threads
  <1>p5. Closed'
    BY <1>a DEF OpenTransport, Closed, Ahead, Unknown, manager, transport, threads
  <1>p6. Cleared'
    <2>1. {t \in types : current[t] # None} = {} /\ nextId = 1 /\ dispatcher = 0
      BY <1>a DEF Cleared, Closed, Ahead
    <2>2. nextId = 1 + Cardinality({t \in types : current[t] # None})
      BY <2>1, FS_EmptySet
    <2> QED
      BY <1>a, <2>1, <2>2 DEF OpenTransport, Cleared, Ahead, Unknown, Building, types
  <1>p7. Earlier'
    <2>1. \A o \in alive : o.opened \in Nat
      BY BuildsFacts DEF ObjectTypes, Objects
    <2>2. RuntimeAhead
      BY <1>b DEF RuntimeAhead
    <2>3. \A o \in alive : o.opened <= opened'
      BY <1>b, <1>c, <2>1 DEF Earlier
    <2> QED
      BY <2>2, <2>3 DEF OpenTransport, Earlier, types
  <1>p8. ThreadTypes'
    BY DEF OpenTransport, ThreadTypes, bus
  <1>p9. HeldByCallers'
    <2>1. CASE opened' = opened
      BY <2>1 DEF OpenTransport, HeldByCallers
    <2>2. CASE opened' = build
      <3>1. \A o \in alive : o.opened # build
        <4>1. \A o \in alive : o.opened \in Nat /\ o.opened <= opened
          BY BuildsFacts DEF ObjectTypes, Objects, Earlier
        <4> QED
          BY <1>b, <4>1
      <3>2. \A c \in Callers : caller[c].mutex # 0 => caller[c].object \in alive
        BY NoneFacts DEF HeldByCallers
      <3> QED
        BY <2>2, <3>1, <3>2 DEF OpenTransport, HeldByCallers
    <2> QED
      BY <1>c, <2>1, <2>2
  <1>u. UNCHANGED <<device, alive, halted, handlers, nextId, caller, rxCalls, borrowed, current,
                    dispatcher>>
    BY DEF OpenTransport, manager, transport, threads, bus
  <1>r. ObjectTypes' /\ CallerTypes' /\ HeldByThreads' /\ InUse' /\ MutexExcludes'
    BY <1>u, ObjectTypesKept, CallerTypesKept, HeldByThreadsKept, InUseKept, MutexExcludesKept
  <1> QED
    BY <1>p1, <1>p2, <1>p3, <1>p4, <1>p5, <1>p6, <1>p7, <1>p8, <1>p9, <1>r, IInvNext

\* ShutdownDevice preserves the invariant.
LEMMA ShutdownDeviceStep ==
    ASSUME IInv, ShutdownDevice
    PROVE  IInv'
  <1> USE IInvParts
  <1>a. /\ todo = <<>> /\ present /\ IsPlan(todo)' /\ todo' # <<>> /\ Head(todo') = "stopWorker"
        /\ todo'[Len(todo')] = "erase"
    BY Plans DEF ShutdownDevice
  <1>p1. IsPlan(todo)'
    BY <1>a
  <1>p2. ManagerTypes'
    BY <1>a DEF ShutdownDevice, ManagerTypes, IsPlan, types, manager
  <1>p3. Presence'
    BY <1>a DEF ShutdownDevice, Presence, Ahead, OpenAhead, Tearing, Building, manager
  <1>p4. WorkerGone'
    BY <1>a DEF ShutdownDevice, WorkerGone, Ahead, Unknown, Building, manager, threads
  <1>p5. Closed'
    BY <1>a DEF ShutdownDevice, Closed, Ahead, Unknown, manager, transport, threads
  <1>p6. Cleared'
    BY <1>a DEF ShutdownDevice, Cleared, Ahead, Unknown, Building, types, manager, transport
  <1>p7. Earlier'
    BY <1>a DEF ShutdownDevice, Earlier, RuntimeAhead, OpenAhead, Ahead, Tearing, types, manager
  <1>u. UNCHANGED <<device, alive, halted, handlers, nextId, up, latest, rx, rxCalls, worker, borrowed,
                    stop, keepalive, link, answer, caller, current, dispatcher, opened>>
    BY DEF ShutdownDevice, manager, transport, threads, bus
  <1>r. ObjectTypes' /\ ThreadTypes' /\ CallerTypes' /\ HeldByThreads' /\ InUse' /\ HeldByCallers'
        /\ MutexExcludes'
    BY <1>u, ObjectTypesKept, ThreadTypesKept, CallerTypesKept, HeldByThreadsKept, InUseKept,
       HeldByCallersKept, MutexExcludesKept
  <1> QED
    BY <1>p1, <1>p2, <1>p3, <1>p4, <1>p5, <1>p6, <1>p7, <1>r, IInvNext

\* Hooks preserves the invariant.
LEMMA HooksStep ==
    ASSUME IInv, NEW ok \in BOOLEAN, Hooks(ok)
    PROVE  IInv'
  <1> USE IInvParts
  <1>a. /\ todo # <<>> /\ Head(todo) = "hooks" /\ present /\ IsPlan(todo)'
        /\ \/ todo' = <<>>
           \/ todo' # <<>> /\ Head(todo') = "stopWorker" /\ todo'[Len(todo')] = "erase"
    <2>1. IsPlan(<<>>)
      BY DEF IsPlan
    <2> QED
      BY <2>1, Plans DEF Hooks, At, Presence, Ahead
  <1>p1. IsPlan(todo)'
    BY <1>a
  <1>p2. ManagerTypes'
    BY <1>a DEF Hooks, ManagerTypes, IsPlan, types, manager
  <1>p3. Presence'
    BY <1>a DEF Hooks, Presence, Ahead, OpenAhead, Tearing, Building, manager
  <1>p4. WorkerGone'
    BY <1>a DEF Hooks, WorkerGone, Ahead, Unknown, Building, manager, threads
  <1>p5. Closed'
    BY <1>a DEF Hooks, Closed, Ahead, Unknown, manager, transport, threads
  <1>p6. Cleared'
    BY <1>a DEF Hooks, Cleared, Ahead, Unknown, Building, types, manager, transport
  <1>p7. Earlier'
    BY <1>a DEF Hooks, Earlier, RuntimeAhead, OpenAhead, Ahead, Tearing, types, manager
  <1>u. UNCHANGED <<device, alive, halted, handlers, nextId, up, latest, rx, rxCalls, worker, borrowed,
                    stop, keepalive, link, answer, caller, current, dispatcher, opened>>
    BY DEF Hooks, manager, transport, threads, bus
  <1>r. ObjectTypes' /\ ThreadTypes' /\ CallerTypes' /\ HeldByThreads' /\ InUse' /\ HeldByCallers'
        /\ MutexExcludes'
    BY <1>u, ObjectTypesKept, ThreadTypesKept, CallerTypesKept, HeldByThreadsKept, InUseKept,
       HeldByCallersKept, MutexExcludesKept
  <1> QED
    BY <1>p1, <1>p2, <1>p3, <1>p4, <1>p5, <1>p6, <1>p7, <1>r, IInvNext

\* OpenFails preserves the invariant.
LEMMA OpenFailsStep ==
    ASSUME IInv, OpenFails
    PROVE  IInv'
  <1> USE IInvParts
  <1>a. /\ todo # <<>> /\ IsPlan(todo)'
        /\ \/ Head(todo) = "open" /\ todo' = <<>>
           \/ /\ Head(todo) = "reopen" /\ todo' # <<>>
              /\ Head(todo') = "stopWorker" /\ todo'[Len(todo')] = "erase"
    <2>1. IsPlan(<<>>)
      BY DEF IsPlan
    <2> QED
      BY <2>1, Plans DEF OpenFails, At
  <1>p1. IsPlan(todo)'
    BY <1>a
  <1>p2. ManagerTypes'
    BY <1>a DEF OpenFails, ManagerTypes, IsPlan, types, manager
  <1>p3. Presence'
    BY <1>a DEF OpenFails, Presence, Ahead, OpenAhead, Tearing, Building, manager
  <1>p4. WorkerGone'
    BY <1>a DEF OpenFails, WorkerGone, Ahead, Unknown, Building, manager, threads
  <1>p5. Closed'
    BY <1>a DEF OpenFails, Closed, Ahead, Unknown, manager, transport, threads
  <1>p6. Cleared'
    BY <1>a DEF OpenFails, Cleared, Ahead, Unknown, Building, types, manager, transport
  <1>p7. Earlier'
    BY <1>a DEF OpenFails, Earlier, RuntimeAhead, OpenAhead, Ahead, Tearing, types, manager
  <1>u. UNCHANGED <<device, alive, halted, handlers, nextId, up, latest, rx, rxCalls, worker, borrowed,
                    stop, keepalive, link, answer, caller, current, dispatcher, opened>>
    BY DEF OpenFails, manager, transport, threads, bus
  <1>r. ObjectTypes' /\ ThreadTypes' /\ CallerTypes' /\ HeldByThreads' /\ InUse' /\ HeldByCallers'
        /\ MutexExcludes'
    BY <1>u, ObjectTypesKept, ThreadTypesKept, CallerTypesKept, HeldByThreadsKept, InUseKept,
       HeldByCallersKept, MutexExcludesKept
  <1> QED
    BY <1>p1, <1>p2, <1>p3, <1>p4, <1>p5, <1>p6, <1>p7, <1>r, IInvNext

\* InitDevice preserves the invariant.
LEMMA InitDeviceStep ==
    ASSUME IInv, InitDevice
    PROVE  IInv'
  <1> USE IInvParts
  <1>a. /\ todo = <<>> /\ IsPlan(todo)' /\ todo' # <<>> /\ todo'[Len(todo')] = "hooks"
        /\ (present /\ Head(todo') = "stopWorker") \/ (~present /\ Head(todo') = "open")
    <2>1. CASE present
      <3>1. todo = <<>> /\ todo' = Teardown \o <<"reopen">> \o BuildSteps
        BY <2>1 DEF InitDevice
      <3>2. IsPlan(todo') /\ todo' # <<>> /\ Head(todo') = "stopWorker" /\ todo'[Len(todo')] = "hooks"
        BY <3>1, Plans
      <3> QED
        BY <2>1, <3>1, <3>2 DEF IsPlan
    <2>2. CASE ~present
      BY <2>2, Plans DEF InitDevice
    <2> QED
      BY <2>1, <2>2
  <1>b. build' = build + 1 /\ build \in Nat /\ build' \in 0 .. MaxBuilds /\ dispatcher \in Nat
        /\ opened \in Nat
    BY BuildsFacts DEF InitDevice, ManagerTypes
  <1>p1. IsPlan(todo)'
    BY <1>a
  <1>p2. ManagerTypes'
    BY <1>a, <1>b DEF InitDevice, ManagerTypes, IsPlan, types, manager
  <1>p3. Presence'
    <2>1. UNCHANGED <<present, mutex, opened>>
      BY DEF InitDevice, manager
    <2>2. (opened <= build)' /\ (opened < build)'
      BY <1>b, <2>1 DEF Presence
    <2>3. Ahead({"open"})' => ~present
      BY <1>a DEF Ahead
    <2>4. ~Ahead({"runtime", "start", "hooks"} \cup Building)'
      BY <1>a DEF Ahead, Building
    <2> QED
      BY <2>1, <2>2, <2>3, <2>4 DEF Presence
  <1>p4. WorkerGone'
    BY <1>a DEF InitDevice, WorkerGone, Ahead, Unknown, Building, manager, threads
  <1>p5. Closed'
    BY <1>a DEF InitDevice, Closed, Ahead, Unknown, manager, transport, threads
  <1>p6. Cleared'
    <2>1. UNCHANGED <<device, present, current, dispatcher, nextId>>
      BY DEF InitDevice, manager, transport
    <2>2. ~Ahead({"MT"})' /\ ~Ahead({"PP"})' /\ ~Ahead({"DM"})' /\ ~Ahead(Building)'
          /\ ~Ahead({"runtime"} \cup Building)'
      BY <1>a DEF Ahead, Building
    <2>3. Unknown' \/ Ahead({"erase", "open", "reopen", "runtime"})' => Unknown
      BY <1>a DEF Unknown, Ahead
    <2> QED
      BY <2>1, <2>2, <2>3 DEF Cleared, types
  <1>p7. Earlier'
    <2>1. UNCHANGED <<device, dispatcher, alive, halted, opened, current>>
      BY DEF InitDevice, manager
    <2>2. \A o \in alive : o.runtime \in Nat
      BY BuildsFacts DEF ObjectTypes, Objects
    <2>3. \A r \in halted : r \in Nat
      BY BuildsFacts DEF ObjectTypes
    <2> QED
      BY <1>b, <2>1, <2>2, <2>3 DEF Earlier, types
  <1>u. UNCHANGED <<device, alive, halted, handlers, nextId, up, latest, rx, rxCalls, worker, borrowed,
                    stop, keepalive, link, answer, caller, current, dispatcher, opened>>
    BY DEF InitDevice, manager, transport, threads, bus
  <1>r. ObjectTypes' /\ ThreadTypes' /\ CallerTypes' /\ HeldByThreads' /\ InUse' /\ HeldByCallers'
        /\ MutexExcludes'
    BY <1>u, ObjectTypesKept, ThreadTypesKept, CallerTypesKept, HeldByThreadsKept, InUseKept,
       HeldByCallersKept, MutexExcludesKept
  <1> QED
    BY <1>p1, <1>p2, <1>p3, <1>p4, <1>p5, <1>p6, <1>p7, <1>r, IInvNext

\* MakeProtocol preserves the invariant.
LEMMA MakeProtocolStep ==
    ASSUME IInv, NEW t \in types, MakeProtocol(t)
    PROVE  IInv'
  <1> USE IInvParts
  <1>o. PICK o : o = [type |-> t, runtime |-> dispatcher, opened |-> opened, id |-> nextId]
    OBVIOUS
  <1> DEFINE X == {s \in types : current[s] # None}
  <1>h. t \in {"MT", "PP", "DM"}
    BY TypesFacts DEF ManagerTypes
  <1>a. /\ todo # <<>> /\ Head(todo) = t /\ IsPlan(todo)' /\ todo' # <<>>
        /\ \/ t = "MT" /\ Head(todo') \in {"PP", "DM", "start"}
           \/ t = "PP" /\ Head(todo') \in {"DM", "start"}
           \/ t = "DM" /\ Head(todo') = "start"
    BY <1>h, Advance DEF MakeProtocol, At, Ends, Follows
  <1>b. /\ present /\ current[t] = None /\ dispatcher = build /\ dispatcher # 0
        /\ build \in 1 .. MaxBuilds /\ opened \in 1 .. MaxBuilds /\ opened <= build
    <2>1. present /\ current[t] = None /\ dispatcher = build
      BY <1>a, <1>h DEF Presence, Cleared, Ahead, Building
    <2>2. opened # 0 /\ opened <= build
      BY <2>1 DEF Presence
    <2> QED
      BY <2>1, <2>2, BuildsFacts DEF ManagerTypes
  <1>d. nextId = 1 + Cardinality(X)
    BY <1>a, <1>h DEF Cleared, Ahead, Building
  <1>e. /\ nextId \in 1 .. Cardinality(types) /\ Cardinality(types) \in 0 .. 3
        /\ nextId + 1 = 1 + Cardinality(X \cup {t})
    <2>1. IsFiniteSet(types) /\ Cardinality(types) \in 0 .. 3
      BY TypesFacts DEF ManagerTypes
    <2>2. IsFiniteSet(X) /\ X \cup {t} \subseteq types /\ t \notin X
      BY <1>b, <2>1, FS_Subset
    <2>3. IsFiniteSet(X \cup {t}) /\ Cardinality(X \cup {t}) = Cardinality(X) + 1
      BY <2>2, FS_AddElement
    <2>4. Cardinality(X \cup {t}) <= Cardinality(types)
      BY <2>1, <2>2, FS_Subset
    <2>5. Cardinality(X) \in Nat
      BY <2>2, FS_CardinalityType
    <2> HIDE DEF X
    <2> QED
      BY <1>d, <2>1, <2>3, <2>4, <2>5
  <1>c. o \in Objects /\ o # None
    <2>1. nextId \in 1 .. 4
      BY <1>e
    <2>2. o \in Objects
      BY <1>b, <1>h, <1>o, <2>1, BuildsFacts DEF Objects
    <2> QED
      BY <2>2, NoneFacts
  <1>f. o.type = t /\ o.runtime = dispatcher /\ o.opened = opened /\ o.id = nextId
    BY <1>o
  <1>g. /\ device' = device /\ alive' = alive \cup {o} /\ handlers' = handlers \cup {<<nextId, o>>}
        /\ halted' = halted /\ nextId' = nextId + 1
        /\ current' = [current EXCEPT ![t] = o] /\ current'[t] = o
        /\ \A s \in types : s # t => current'[s] = current[s]
        /\ {s \in types : current'[s] # None} = X \cup {t}
        /\ o.type = t /\ o.runtime = dispatcher /\ o.opened = opened /\ dispatcher' = dispatcher
    <2>1. /\ device' = device /\ alive' = alive \cup {o} /\ handlers' = handlers \cup {<<nextId, o>>}
          /\ halted' = halted /\ nextId' = nextId + 1
          /\ current' = [current EXCEPT ![t] = o] /\ dispatcher' = dispatcher
      BY <1>o DEF MakeProtocol
    <2>2. current'[t] = o /\ \A s \in types : s # t => current'[s] = current[s]
      BY <2>1 DEF ManagerTypes
    <2>3. {s \in types : current'[s] # None} = X \cup {t}
      BY <1>c, <2>2
    <2> HIDE DEF X
    <2> QED
      BY <1>f, <2>1, <2>2, <2>3
  <1> HIDE DEF X
  <1>p1. IsPlan(todo)'
    BY <1>a
  <1>p2. ManagerTypes'
    BY <1>a, <1>c, <1>g DEF MakeProtocol, ManagerTypes, IsPlan, types
  <1>p3. ObjectTypes'
    BY <1>c, <1>e, <1>f, <1>g DEF ObjectTypes, types
  <1>p4. Presence'
    BY <1>a, <1>b DEF MakeProtocol, Presence, Ahead, OpenAhead, Tearing, Building
  <1>p5. WorkerGone'
    BY <1>a DEF MakeProtocol, WorkerGone, Ahead, Unknown, Building, threads
  <1>p6. Closed'
    <2>1. ~Unknown' /\ ~Ahead({"drop", "erase", "open", "reopen"})' /\ ~Ahead({"joinRx"})'
      BY <1>a DEF Ahead, Unknown
    <2> QED
      BY <2>1 DEF MakeProtocol, Closed, threads
  <1>p7. Cleared'
    <2>1. ~Unknown' /\ ~Ahead({"erase", "open", "reopen", "runtime"})' /\ ~Ahead({"MT"})'
      BY <1>a DEF Ahead, Unknown
    <2>2. Ahead({"PP"})' => t = "MT"
      BY <1>a DEF Ahead
    <2>3. Ahead({"DM"})' => t \in {"MT", "PP"}
      BY <1>a DEF Ahead
    <2>4. t = "MT" => \A s \in types \ {"MT"} : current'[s] = None
      BY <1>a, <1>g DEF Cleared, Ahead
    <2>5. t = "PP" => \A s \in types \ {"MT", "PP"} : current'[s] = None
      BY <1>a, <1>g DEF Cleared, Ahead
    <2>6. dispatcher' = build'
      BY <1>b DEF MakeProtocol
    <2>7. types' = types /\ (nextId = 1 + Cardinality({s \in types : current[s] # None}))'
      BY <1>e, <1>g DEF MakeProtocol, types
    <2> QED
      BY <2>1, <2>2, <2>3, <2>4, <2>5, <2>6, <2>7 DEF Cleared
  <1>p8. HeldByThreads'
    <2>1. ASSUME NEW x \in Objects, IsCurrent(x)
          PROVE  IsCurrent(x)'
      BY <1>b, <1>g, <2>1, NoneFacts DEF IsCurrent, types
    <2>2. IsCurrent(o)'
      BY <1>g DEF IsCurrent, types
    <2>3. \A h \in handlers : h[2] \in Objects
      BY DEF ObjectTypes
    <2>4. rxCalls \subseteq Objects /\ borrowed \subseteq Objects /\ UNCHANGED <<rxCalls, borrowed>>
      BY DEF ThreadTypes, MakeProtocol, threads
    <2>5. o.id = nextId
      BY <1>f
    <2>6. ASSUME NEW h \in handlers' PROVE IsCurrent(h[2])' /\ h[1] = h[2].id
      <3>1. CASE h \in handlers
        BY <2>1, <2>3, <3>1 DEF HeldByThreads
      <3>2. CASE h = <<nextId, o>>
        BY <2>2, <2>5, <3>2
      <3> QED
        BY <1>g, <3>1, <3>2
    <2> QED
      BY <2>1, <2>4, <2>6 DEF HeldByThreads
  <1>p9. InUse'
    <2>1. ASSUME NEW s \in types, current'[s] # None
          PROVE  /\ current'[s] \in alive' /\ current'[s].type = s
                 /\ current'[s].runtime = dispatcher /\ dispatcher \notin halted
      <3>1. dispatcher \notin halted
        BY <1>b DEF Earlier
      <3>2. CASE s = t
        BY <1>g, <3>1, <3>2
      <3>3. CASE s # t
        BY <1>g, <2>1, <3>3 DEF InUse
      <3> QED
        BY <3>2, <3>3
    <2> QED
      BY <1>g, <2>1 DEF InUse, types
  <1>p10. Earlier'
    <2>1. ~RuntimeAhead'
      BY <1>a DEF RuntimeAhead, OpenAhead, Ahead, Tearing
    <2>2. UNCHANGED <<device, dispatcher, build, halted, opened>>
      BY DEF MakeProtocol
    <2>3. ASSUME NEW x \in alive'
          PROVE  /\ x.type \in types /\ x.runtime <= build /\ x.opened <= opened
                 /\ x # current'[x.type] => x.runtime < dispatcher
      <3>1. CASE x = o
        BY <1>b, <1>g, <3>1
      <3>2. CASE x \in alive /\ x.type = t
        <4>1. x # current[t]
          BY <1>b, <3>2, NoneFacts DEF ObjectTypes
        <4> QED
          BY <1>b, <3>2, <4>1 DEF Earlier
      <3>3. CASE x \in alive /\ x.type # t
        BY <1>b, <1>g, <3>3 DEF Earlier
      <3> QED
        BY <1>g, <3>1, <3>2, <3>3
    <2> QED
      BY <2>1, <2>2, <2>3 DEF Earlier, types
  <1>p11. HeldByCallers'
    BY <1>g DEF MakeProtocol, HeldByCallers
  <1>u. UNCHANGED <<up, latest, rx, rxCalls, worker, borrowed, stop, keepalive, link, answer, caller>>
    BY DEF MakeProtocol, manager, transport, threads, bus
  <1>r. ThreadTypes' /\ CallerTypes' /\ MutexExcludes'
    BY <1>u, ThreadTypesKept, CallerTypesKept, MutexExcludesKept
  <1> QED
    BY <1>p1, <1>p2, <1>p3, <1>p4, <1>p5, <1>p6, <1>p7, <1>p8, <1>p9, <1>p10, <1>p11, <1>r, IInvNext

-----------------------------------------------------------------------------
(* The invariant *)

\* The invariant holds before the device is first initialised.
LEMMA InitIInv == Init => IInv
  <1> SUFFICES ASSUME Init
               PROVE  IInv
    OBVIOUS
  <1>1. device \in Devices /\ IsFiniteSet(types) /\ Cardinality(types) \in 0 .. 3
    BY TypesFacts DEF Init
  <1>2. todo = <<>> /\ IsPlan(todo) /\ (\A S : ~Ahead(S)) /\ ~OpenAhead /\ ~RuntimeAhead
    BY DEF Init, IsPlan, Ahead, OpenAhead, RuntimeAhead
  <1>3. ManagerTypes
    <2>1. build \in 0 .. MaxBuilds /\ mutex \in 0 .. MaxBuilds /\ dispatcher \in 0 .. MaxBuilds
          /\ opened \in 0 .. MaxBuilds
      BY BuildsFacts DEF Init
    <2>2. present \in BOOLEAN
      BY DEF Init
    <2> QED
      BY <1>1, <1>2, <2>1, <2>2 DEF Init, ManagerTypes, IsPlan
  <1>4. ObjectTypes
    BY <1>1 DEF Init, ObjectTypes
  <1>5. ThreadTypes
    BY DEF Init, ThreadTypes
  <1>6. CallerTypes
    BY BuildsFacts DEF Init, CallerTypes, Idle
  <1>7. Presence
    <2>1. present = FALSE /\ mutex = 0 /\ opened <= build
      BY DEF Init
    <2> QED
      BY <1>2, <2>1 DEF Presence
  <1>8. WorkerGone /\ Closed
    BY <1>2 DEF Init, WorkerGone, Closed
  <1>9. Cleared
    BY <1>2 DEF Init, Cleared
  <1>10. HeldByThreads /\ InUse
    BY DEF Init, HeldByThreads, InUse
  <1>11. Earlier
    BY <1>2 DEF Init, Earlier
  <1>12. HeldByCallers /\ MutexExcludes
    BY NoneFacts DEF Init, HeldByCallers, MutexExcludes
  <1> QED
    BY <1>2, <1>3, <1>4, <1>5, <1>6, <1>7, <1>8, <1>9, <1>10, <1>11, <1>12, IInvParts

\* Every step preserves the invariant.
LEMMA NextIInv == IInv /\ [Next]_vars => IInv'
  <1> SUFFICES ASSUME IInv, [Next]_vars
               PROVE  IInv'
    OBVIOUS
  <1>1. CASE InitDevice
    BY <1>1, InitDeviceStep
  <1>2. CASE ShutdownDevice
    BY <1>2, ShutdownDeviceStep
  <1>3. CASE LifecycleStep
    BY <1>3, StopWorkerStep, JoinWorkerStep, StopReceivingStep, CloseTransportStep,
       DropProtocolsStep, EraseStep, OpenTransportStep, OpenFailsStep, MakeRuntimeStep,
       StartWorkerStep, MakeProtocolStep, HooksStep DEF LifecycleStep
  <1>4. CASE LinkChanges
    BY <1>4, LinkChangesStep
  <1>5. CASE WorkerStep
    BY <1>5, TickStep, TickEndsStep, WorkerExitsStep DEF WorkerStep
  <1>6. CASE ReceiverStep
    BY <1>6, ReceiveStep, ReceiverExitsStep, CallHandlerStep DEF ReceiverStep
  <1>7. ASSUME NEW c \in Callers, CallerStep(c)
        PROVE  IInv'
    BY <1>7, FetchProtocolStep, FetchMutexStep, LockStep, UseStep, ReleaseStep DEF CallerStep
  <1>8. CASE UNCHANGED vars
    <2>1. UNCHANGED <<device, todo, build, present, mutex, dispatcher, current, alive, halted, up,
                      handlers, nextId, latest, rx, rxCalls, worker, borrowed, stop, keepalive,
                      link, answer, caller, opened>>
      BY <1>8 DEF vars, manager, transport, threads, bus
    <2> QED
      BY <2>1, IInvParts, PlanKept, ManagerTypesKept, ObjectTypesKept, ThreadTypesKept, CallerTypesKept,
         PresenceKept, WorkerGoneKept, ClosedKept, ClearedKept, HeldByThreadsKept, InUseKept,
         EarlierKept, HeldByCallersKept, MutexExcludesKept, IInvNext
  <1> QED
    BY <1>1, <1>2, <1>3, <1>4, <1>5, <1>6, <1>7, <1>8 DEF Next

-----------------------------------------------------------------------------
(* Theorems *)

\* The invariant holds in every state of the device, whatever its protocols,
\* the number of callers and of rebuilds.
THEOREM Invariant == Spec => []IInv
  BY InitIInv, NextIInv, PTL DEF Spec

\* Every variable keeps its type; among others the ids of the receive handlers
\* never exceed the number of protocols (nextHandlerId_ is reset by shutdown).
THEOREM TypeCorrect == Spec => []TypeOK
  <1>1. IInv => TypeOK
    BY DEF IInv
  <1> QED
    BY <1>1, Invariant, PTL

\* The receive thread calls into no protocol that was destroyed, and the runtime
\* of a protocol in use is never shut down by the destructor of an older one
\* (dispatchReceive, ~MtCan, resetDeviceRuntimeLocked).
THEOREM ReceiverCallsLiveProtocols == Spec => []SafeToCall
  <1>1. IInv => SafeToCall
    <2> SUFFICES ASSUME IInv
                 PROVE  SafeToCall
      OBVIOUS
    <2>1. ObjectTypes /\ ThreadTypes /\ HeldByThreads /\ InUse
      BY IInvParts
    <2>2. ASSUME NEW x \in Objects, IsCurrent(x)
          PROVE  x \in alive
      BY <2>1, <2>2, NoneFacts DEF IsCurrent, InUse
    <2>3. \A h \in handlers : h[2] \in Objects /\ IsCurrent(h[2])
      BY <2>1 DEF ObjectTypes, HeldByThreads
    <2>4. \A x \in rxCalls : x \in Objects /\ IsCurrent(x)
      BY <2>1 DEF ThreadTypes, HeldByThreads
    <2> QED
      BY <2>1, <2>2, <2>3, <2>4 DEF SafeToCall, InUse
  <1> QED
    BY <1>1, Invariant, PTL

\* Two callers are never inside protocols of the same opening of the device at
\* a time: the command mutex survives every rebuild (initializeTransportLocked,
\* getDeviceMutex).
THEOREM CallersAreSerialised == Spec => []Serialised
  <1>1. IInv => Serialised
    <2> SUFFICES ASSUME IInv, NEW c \in Callers, NEW d \in Callers,
                        caller[c].pc = "using", caller[d].pc = "using", c # d,
                        caller[c].object.opened = opened, caller[d].object.opened = opened
                 PROVE  FALSE
      BY DEF Serialised
    <2>1. HeldByCallers /\ MutexExcludes
      BY IInvParts
    <2>2. caller[c].mutex = opened /\ caller[d].mutex = opened
      BY <2>1 DEF HeldByCallers
    <2> QED
      BY <2>1, <2>2 DEF MutexExcludes
  <1> QED
    BY <1>1, Invariant, PTL

\* A step that takes handlers away from an open transport is the release of an
\* object by a caller.
LEMMA OnlyReleaseRemovesHandlers ==
    ASSUME IInv, Next, up, ~(handlers \subseteq handlers')
    PROVE  \E c \in Callers : Release(c)
  <1> USE IInvParts
  <1>1. ~CloseTransport
    BY DEF CloseTransport, At, Closed, Ahead
  <1>2. ~DropProtocols
    BY DEF DropProtocols, At, Closed, Ahead
  <1>3. ~TickEnds
    <2>1. {x \in borrowed : x # current[x.type] /\ Holders(x) = {}} = {}
      BY DEF HeldByThreads, IsCurrent
    <2>2. TickEnds => Destroy({})
      BY <2>1 DEF TickEnds
    <2>3. Destroy({}) => handlers' = handlers
      BY DEF Destroy
    <2> QED
      BY <2>2, <2>3
  <1>4. ~InitDevice /\ ~ShutdownDevice /\ ~LinkChanges
    BY DEF InitDevice, ShutdownDevice, LinkChanges, transport
  <1>5. ~LifecycleStep
    <2>1. ~StopWorker /\ ~JoinWorker /\ ~StopReceiving /\ ~Erase /\ ~OpenTransport
      BY DEF StopWorker, JoinWorker, StopReceiving, Erase, OpenTransport, transport
    <2>2. ~OpenFails /\ ~MakeRuntime /\ ~StartWorker
      BY DEF OpenFails, MakeRuntime, StartWorker, transport
    <2>3. \A t \in types : ~MakeProtocol(t)
      BY DEF MakeProtocol
    <2>4. \A ok \in BOOLEAN : ~Hooks(ok)
      BY DEF Hooks, transport
    <2> QED
      BY <1>1, <1>2, <2>1, <2>2, <2>3, <2>4 DEF LifecycleStep
  <1>6. ~WorkerStep
    BY <1>3 DEF WorkerStep, Tick, WorkerExits, transport
  <1>7. ~ReceiverStep
    BY DEF ReceiverStep, Receive, ReceiverExits, CallHandler, transport
  <1>8. ASSUME NEW c \in Callers, CallerStep(c)
        PROVE  Release(c)
    BY <1>8 DEF CallerStep, FetchProtocol, FetchMutex, Lock, Use, transport
  <1> QED
    BY <1>4, <1>5, <1>6, <1>7, <1>8 DEF Next

\* A protocol in use loses its receive handler only when a caller lets go of an
\* object it kept over a rebuild (removeReceiveHandler).
THEOREM OnlyKeptObjectsCutOff == Spec => CutOffOnlyByKeptObject
  <1>1. ASSUME IInv, Next, NEW t \in types,
               up, current[t] # None, current'[t] = current[t],
               Registered(current[t]), ~Registered(current[t])'
        PROVE  \E c \in Callers : /\ caller'[c] = Idle
                                  /\ caller[c].object \notin {current[t], None}
                                  /\ caller[c].object.id = current[t].id
    <2>1. PICK p : p = current[t]
      OBVIOUS
    <2>2. <<p.id, p>> \in handlers /\ <<p.id, p>> \notin handlers' /\ up
      BY <1>1, <2>1 DEF Registered
    <2>3. PICK c \in Callers : Release(c)
      BY <1>1, <2>2, OnlyReleaseRemovesHandlers
    <2>4. PICK o : o = caller[c].object
      OBVIOUS
    <2>5. caller'[c] = Idle
      BY <1>1, <2>3, IInvParts DEF Release, CallerTypes
    <2>6. o # current[o.type] /\ p.id = o.id
      <3> DEFINE S == IF o # current[o.type] /\ Holders(o) = {c} /\ o \notin borrowed THEN {o} ELSE {}
      <3>1. Destroy(S)
        BY <2>3, <2>4 DEF Release
      <3>2. handlers' = {h \in handlers : \A x \in S : h[1] # x.id}
        BY <3>1 DEF Destroy
      <3>3. PICK x \in S : p.id = x.id
        <4> HIDE DEF S
        <4> QED
          BY <2>2, <3>2
      <3>4. x = o /\ o # current[o.type]
        BY <3>3
      <3> QED
        BY <3>3, <3>4
    <2>7. o \in alive
      BY <1>1, <2>3, <2>4, IInvParts DEF Release, HeldByCallers
    <2>8. o # None /\ o # p
      <3>1. o # None
        BY <1>1, <2>7, IInvParts, NoneFacts DEF ObjectTypes
      <3>2. p.type = t
        BY <1>1, <2>1, IInvParts DEF InUse
      <3> QED
        BY <2>1, <2>6, <3>1, <3>2
    <2> QED
      BY <2>1, <2>4, <2>5, <2>6, <2>8
  <1>2. IInv /\ [Next]_vars =>
          [\A t \in types :
             up /\ current[t] # None /\ current'[t] = current[t]
             /\ Registered(current[t]) /\ ~Registered(current[t])' =>
                 \E c \in Callers : /\ caller'[c] = Idle
                                    /\ caller[c].object \notin {current[t], None}
                                    /\ caller[c].object.id = current[t].id]_vars
    BY <1>1
  <1> QED
    BY <1>2, Invariant, PTL DEF Spec, CutOffOnlyByKeptObject
=============================================================================
