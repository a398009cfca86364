------------------------ MODULE PpMaintenanceProofs ------------------------
(***************************************************************************)
(* Proofs about PpMaintenance, for every range of the register, every       *)
(* request (whether it fits the register or not), every number of           *)
(* calls and saves, and every number of reads and answers under way.        *)
(*                                                                         *)
(* A request spans many exchanges with the drive, so what it finally tells  *)
(* its caller rests on what is under way in between.  The invariant says,   *)
(* for each place a request can be at, what the queue of writes, the        *)
(* answers on the bus and the reply that was picked up say of the drive:    *)
(* the write may be queued or in the worker's hand, and an acknowledgement   *)
(* of the offset means that the drive has it or has corrected it            *)
(* (OffsetOnWay, OffsetArrived), one of a save that it is stored            *)
(* (SaveOnWay), an offset that was read is the one the position was         *)
(* measured with (PositionOfUse), so that the offset to be written makes    *)
(* that position the zero (ZeroFound).  The claim of a finished request     *)
(* stays true until the next one starts (ClaimKept).  For the checks that   *)
(* the drive is disabled, a drive that is enabled and was seen to be is not *)
(* reported disabled by anything known or under way (SeenEnabled), and a    *)
(* drive is enabled only after somebody asked for it (ExcuseNeeded).        *)
(***************************************************************************)
EXTENDS PpMaintenance, FiniteSetTheorems, SequenceTheorems, TLAPS

-----------------------------------------------------------------------------
(* The inductive invariant *)

\* The answers on their way.
Sent == {answers[i] : i \in 1 .. Len(answers)}

\* No answer of this kind is on its way.
NoneSent(kind, register) == \A a \in Sent : ~(a[1] = kind /\ a[2] = register)

\* A frame to the drive carries a value of its register.
IsWrite(f) ==
    /\ f[1] = "Mode" => f[2] \in Modes
    /\ f[1] = "Enable" => f[2] \in {0, 1}
    /\ f[1] = "Offset" => f[2] \in Raw

\* ... and so does an answer.
IsAnswer(a) ==
    /\ a[1] = "ack" => a[3] \in {0, 1}
    /\ a[1] = "read" /\ a[2] = "Mode" => a[3] \in Modes
    /\ a[1] = "read" /\ a[2] = "Enable" => a[3] \in {0, 1}

\* Every frame under way, in either direction, carries a value of its register.
FramesFit ==
    /\ write # <<>> => IsWrite(write[1])
    /\ hand # <<>> => IsWrite(hand[1])
    /\ \A a \in Sent : IsAnswer(a)

\* The value a request works with, and the answer it waits for.
JobFits ==
    /\ job.pc = "idle" => job = Idle
    /\ job.op = "none" => job.pc = "idle"
    /\ job.op = "mode" => job.value \in Modes
    /\ job.pc \in {"confirm", "preload"} => job.op = "mode"
    /\ job.pc \in {"offset", "ack", "serial", "save"} => job.op \in {"zero", "limits"}
    /\ IF Locked THEN job.op = "zero" ELSE ~job.undo
    /\ job.pc \in {"ack", "serial"} => job.saves = 0

\* The answer a request waits for is the one its place calls for, and nothing is
\* kept as a reply while nobody waits.
Waits ==
    /\ job.pc = "offset" => awaited \in {<<>>, <<"read", "Offset">>}
    /\ job.pc = "ack" => awaited = <<"ack", "Offset">>
    /\ job.pc = "serial" => awaited \in {<<>>, <<"read", "Serial">>}
    /\ job.pc = "save" => awaited = <<"ack", "Save">>
    /\ job.pc \notin {"offset", "ack", "serial", "save"} => awaited = <<>>
    /\ awaited = <<>> => reply = {}

\* A drive that is enabled and was seen to be is not reported disabled.
SeenEnabled ==
    drive.enabled = 1 /\ ~unseen =>
        known.enabled # {0} /\ shared.enabled # {0} /\ <<"read", "Enable", 0>> \notin Sent

\* Without an excuse the drive is disabled and stays so.
ExcuseNeeded == ~excused => drive.enabled = 0 /\ ~Pending(<<"Enable", 1>>)

\* The offset that a set_zero has to bring about.
Target == IF job.undo THEN job.prev ELSE Clamp(job.value)

\* The drive has it, or has corrected it.
Got == drive.corrected \/ drive.offset = Target

\* The worker has an offset in its hand.
HandOffset == hand # <<>> /\ hand[1][1] = "Offset"

\* The write of the offset, from the queue over the worker's hand: its
\* acknowledgement says that the drive has got it.
OffsetOnWay ==
    job.pc = "ack" /\ ~job.stray =>
        /\ write # <<>> => write = <<<<"Offset", Target>>>> /\ ~HandOffset
        /\ write = <<>> => hand \in {<<>>, <<<<"Offset", Target>>>>}
        /\ write # <<>> \/ hand # <<>> => reply = {} /\ NoneSent("ack", "Offset")
        /\ reply = {1} \/ <<"ack", "Offset", 1>> \in Sent => Got

\* The serial number is read between the write and the save: the drive has the offset.
OffsetArrived == job.pc = "serial" /\ ~job.stray => write = <<>> /\ hand = <<>> /\ Got

\* The saves: an acknowledgement of any of them says that the offset is saved.
SaveOnWay ==
    job.pc = "save" /\ ~job.stray =>
        /\ {write, hand} \subseteq {<<>>, <<<<"Save", 0>>>>}
        /\ Got
        /\ reply = {1} \/ <<"ack", "Save", 1>> \in Sent => drive.saved = drive.offset

\* An automatic zero from a position of use: the offset that is read is the one
\* the position was measured with ...
PositionOfUse ==
    job.op = "zero" /\ job.pc = "offset" /\ job.auto /\ job.sure =>
        /\ ~OffsetPending
        /\ job.value = Physical + drive.offset + joint.offset
        /\ ~job.stray => /\ reply \in {{}, {drive.offset}}
                         /\ \A a \in Sent : a[1] = "read" /\ a[2] = "Offset" => a[3] = drive.offset

\* ... and the offset to be set makes it the zero.
ZeroFound ==
    job.op = "zero" /\ job.pc # "offset" /\ job.auto /\ job.sure /\ ~job.stray =>
        job.value = -Physical - joint.offset

\* What was told stays true.
ClaimKept ==
    claim.kind # "none" =>
        /\ job.op # "zero" /\ ~OffsetPending
        /\ Persist => drive.saved = drive.offset
        /\ ~drive.corrected => drive.offset = Clamp(claim.offset)
        /\ claim.kind = "zeroed" => joint.offset = 0 /\ claim.offset = -Physical

\* The inductive invariant.
IInv ==
    /\ TypeOK /\ FramesFit /\ JobFits /\ Waits
    /\ SeenEnabled /\ ExcuseNeeded
    /\ OffsetOnWay /\ OffsetArrived /\ SaveOnWay
    /\ PositionOfUse /\ ZeroFound /\ ClaimKept

-----------------------------------------------------------------------------
(* Parts of the invariant *)

\* The type invariant, by owner.
Registers == [enabled : {0, 1}, mode : Modes, offset : Raw, saved : Raw, corrected : BOOLEAN]
RegisterTypes ==
    /\ drive \in Registers
    /\ unseen \in BOOLEAN

\* ... the queue of writes and the one in the worker's hand,
WriteTypes ==
    /\ write \in {<<>>} \cup {<<f>> : f \in Writable \X Values}
    /\ hand \in {<<>>} \cup {<<f>> : f \in Writable \X Values}

\* ... the reads in the refresh queue,
ReadTypes == reads \subseteq Readable /\ Cardinality(reads) <= MaxReads

\* ... the answers on the bus,
AnswerTypes ==
    /\ answers \in Seq({"read", "ack"} \X (Readable \cup Writable) \X Values)
    /\ Len(answers) <= MaxAnswers

\* ... what the protocol and the shared state hold of the drive,
ProtocolTypes ==
    /\ known \in [enabled : AtMostOne({0, 1}), mode : AtMostOne(Modes), position : AtMostOne(Values)]
    /\ shared \in [enabled : AtMostOne({0, 1}), mode : AtMostOne(Modes),
                   position : AtMostOne(Values)]
    /\ awaited \in {<<>>} \cup ({"read", "ack"} \X (Readable \cup Writable))
    /\ reply \in AtMostOne(Values)

\* ... the request,
Jobs == [op : {"none", "mode", "zero", "limits"},
         pc : {"idle", "offset", "check", "act", "confirm", "preload", "ack", "serial", "save"},
         value : Int, prev : Raw, auto : BOOLEAN,
         sure : BOOLEAN, undo : BOOLEAN, saves : 0 .. MaxSaves, stray : BOOLEAN]
JobTypes == job \in Jobs

\* ... and what the services and the history variables hold.
RestTypes ==
    /\ calls \in 0 .. MaxCalls
    /\ joint \in [mode : Modes, offset : Int]
    /\ excused \in BOOLEAN
    /\ claim \in [kind : {"none", "written", "zeroed", "undone"}, offset : Int]

\* The type invariant is the conjunction of its parts.
LEMMA TypeParts ==
    TypeOK <=> /\ RegisterTypes /\ WriteTypes /\ ReadTypes /\ AnswerTypes /\ ProtocolTypes
               /\ JobTypes /\ RestTypes
  BY DEF TypeOK, DriveTypeOK, RegisterTypes, WriteTypes, ReadTypes, AnswerTypes, ProtocolTypes,
         Registers, JobTypes, Jobs, RestTypes

\* All parts of the invariant.
LEMMA IInvParts ==
    IInv <=> /\ RegisterTypes /\ WriteTypes /\ ReadTypes /\ AnswerTypes /\ ProtocolTypes
             /\ JobTypes /\ RestTypes
             /\ FramesFit /\ JobFits /\ Waits /\ SeenEnabled /\ ExcuseNeeded
             /\ OffsetOnWay /\ OffsetArrived /\ SaveOnWay
             /\ PositionOfUse /\ ZeroFound /\ ClaimKept
  BY TypeParts DEF IInv

\* ... and of the next state.
LEMMA IInvNext ==
    ASSUME RegisterTypes', WriteTypes', ReadTypes', AnswerTypes', ProtocolTypes', JobTypes', RestTypes',
           FramesFit', JobFits', Waits', SeenEnabled', ExcuseNeeded',
           OffsetOnWay', OffsetArrived', SaveOnWay', PositionOfUse', ZeroFound', ClaimKept'
    PROVE  IInv'
  <1>1. TypeOK'
    BY DEF TypeOK, DriveTypeOK, RegisterTypes, WriteTypes, ReadTypes, AnswerTypes, ProtocolTypes,
           Registers, JobTypes, Jobs, RestTypes
  <1> QED
    BY <1>1 DEF IInv

\* RegisterTypes depends on these variables only.
LEMMA RegisterTypesKept ==
    ASSUME RegisterTypes, UNCHANGED <<drive, unseen>>
    PROVE  RegisterTypes'
  BY DEF RegisterTypes

\* WriteTypes depends on these variables only.
LEMMA WriteTypesKept ==
    ASSUME WriteTypes, UNCHANGED <<write, hand>>
    PROVE  WriteTypes'
  BY DEF WriteTypes

\* ReadTypes depends on these variables only.
LEMMA ReadTypesKept ==
    ASSUME ReadTypes, UNCHANGED reads
    PROVE  ReadTypes'
  BY DEF ReadTypes

\* AnswerTypes depends on these variables only.
LEMMA AnswerTypesKept ==
    ASSUME AnswerTypes, UNCHANGED answers
    PROVE  AnswerTypes'
  BY DEF AnswerTypes

\* ProtocolTypes depends on these variables only.
LEMMA ProtocolTypesKept ==
    ASSUME ProtocolTypes, UNCHANGED <<known, shared, awaited, reply>>
    PROVE  ProtocolTypes'
  BY DEF ProtocolTypes

\* JobTypes depends on these variables only.
LEMMA JobTypesKept ==
    ASSUME JobTypes, UNCHANGED job
    PROVE  JobTypes'
  BY DEF JobTypes

\* RestTypes depends on these variables only.
LEMMA RestTypesKept ==
    ASSUME RestTypes, UNCHANGED <<calls, joint, excused, claim>>
    PROVE  RestTypes'
  BY DEF RestTypes

\* FramesFit depends on these variables only.
LEMMA FramesFitKept ==
    ASSUME FramesFit, UNCHANGED <<write, hand, answers>>
    PROVE  FramesFit'
  BY DEF FramesFit, Sent

\* JobFits depends on these variables only.
LEMMA JobFitsKept ==
    ASSUME JobFits, UNCHANGED job
    PROVE  JobFits'
  BY DEF JobFits, Locked

\* Waits depends on these variables only.
LEMMA WaitsKept ==
    ASSUME Waits, UNCHANGED <<job, awaited, reply>>
    PROVE  Waits'
  BY DEF Waits

\* SeenEnabled depends on these variables only.
LEMMA SeenEnabledKept ==
    ASSUME SeenEnabled, UNCHANGED <<drive, unseen, known, shared, answers>>
    PROVE  SeenEnabled'
  BY DEF SeenEnabled, Sent

\* ExcuseNeeded depends on these variables only.
LEMMA ExcuseNeededKept ==
    ASSUME ExcuseNeeded, UNCHANGED <<excused, drive, write, hand>>
    PROVE  ExcuseNeeded'
  BY DEF ExcuseNeeded, Pending

\* OffsetOnWay depends on these variables only.
LEMMA OffsetOnWayKept ==
    ASSUME OffsetOnWay, UNCHANGED <<job, write, hand, reply, answers, drive>>
    PROVE  OffsetOnWay'
  BY DEF OffsetOnWay, Target, Got, HandOffset, NoneSent, Sent

\* OffsetArrived depends on these variables only.
LEMMA OffsetArrivedKept ==
    ASSUME OffsetArrived, UNCHANGED <<job, write, hand, drive>>
    PROVE  OffsetArrived'
  BY DEF OffsetArrived, Target, Got

\* SaveOnWay depends on these variables only.
LEMMA SaveOnWayKept ==
    ASSUME SaveOnWay, UNCHANGED <<job, write, hand, drive, reply, answers>>
    PROVE  SaveOnWay'
  BY DEF SaveOnWay, Target, Got, Sent

\* PositionOfUse depends on these variables only.
LEMMA PositionOfUseKept ==
    ASSUME PositionOfUse, UNCHANGED <<job, write, hand, drive, joint, reply, answers>>
    PROVE  PositionOfUse'
  BY DEF PositionOfUse, OffsetPending, Pending, Sent

\* ZeroFound depends on these variables only.
LEMMA ZeroFoundKept ==
    ASSUME ZeroFound, UNCHANGED <<job, joint>>
    PROVE  ZeroFound'
  BY DEF ZeroFound

\* ClaimKept depends on these variables only.
LEMMA ClaimKeptKept ==
    ASSUME ClaimKept, UNCHANGED <<claim, job, write, hand, drive, joint>>
    PROVE  ClaimKept'
  BY DEF ClaimKept, OffsetPending, Pending

-----------------------------------------------------------------------------
(* Values, frames and answers *)

\* Offsets, modes and positions are values, and values are integers.
LEMMA ValueFacts ==
    /\ Raw \subseteq Values /\ Modes \subseteq Values /\ 0 \in Values /\ 1 \in Values
    /\ Values \subseteq Int /\ Raw \subseteq Int /\ 0 \in Raw /\ -Physical \in Raw
    /\ Physical \in Int /\ \A v \in Raw : Physical + v \in Values
  BY RawAssumption DEF Values, Raw, Modes, Position, Velocity

\* A clamped value fits, and one that fits is not changed.
LEMMA ClampFacts == \A v \in Int : Clamp(v) \in Raw /\ (v \in Raw => Clamp(v) = v)
  BY RawAssumption DEF Clamp, Raw

\* The worker's hand holds at most one write.
LEMMA HandFacts ==
    ASSUME WriteTypes, hand # <<>>
    PROVE  \E r \in Writable, v \in Values :
               hand = <<<<r, v>>>> /\ hand[1] = <<r, v>> /\ hand[1][1] = r /\ hand[1][2] = v
  <1>1. PICK f \in Writable \X Values : hand = <<f>>
    BY DEF WriteTypes
  <1>2. PICK r \in Writable, v \in Values : f = <<r, v>>
    BY <1>1
  <1> QED
    BY <1>1, <1>2

\* A write that was submitted is of its type.
LEMMA SubmitType ==
    ASSUME NEW r \in Writable, NEW v \in Values, Submit(r, v), WriteTypes, UNCHANGED hand
    PROVE  WriteTypes' /\ write' = <<<<r, v>>>> /\ write'[1] = <<r, v>>
  BY DEF Submit, WriteTypes

\* The write in the worker's hand leaves it; nothing else comes under way.
LEMMA HandLeavesFacts ==
    ASSUME WriteTypes, HandLeaves, UNCHANGED write
    PROVE  /\ WriteTypes' /\ hand' = <<>> /\ hand # <<>> /\ CanAnswer
           /\ OffsetPending' => OffsetPending
           /\ Pending(<<"Enable", 1>>)' => Pending(<<"Enable", 1>>)
  <1>1. hand' = <<>> /\ hand # <<>> /\ CanAnswer
    BY DEF HandLeaves
  <1>2. WriteTypes'
    BY <1>1 DEF WriteTypes
  <1>3. OffsetPending' => OffsetPending
    BY <1>1 DEF OffsetPending, Pending
  <1>4. Pending(<<"Enable", 1>>)' => Pending(<<"Enable", 1>>)
    BY <1>1 DEF Pending
  <1> QED
    BY <1>1, <1>2, <1>3, <1>4

\* An answer on the bus has its type.
LEMMA SentTyped ==
    ASSUME AnswerTypes
    PROVE  \A a \in Sent : a \in {"read", "ack"} \X (Readable \cup Writable) \X Values
  BY DEF AnswerTypes, Sent

\* An answer more.
LEMMA SentAppend ==
    ASSUME AnswerTypes, CanAnswer, NEW a \in {"read", "ack"} \X (Readable \cup Writable) \X Values,
           answers' = Append(answers, a)
    PROVE  AnswerTypes' /\ Sent' = Sent \cup {a}
  <1>1. answers \in Seq({"read", "ack"} \X (Readable \cup Writable) \X Values) /\ Len(answers) \in Nat
    BY DEF AnswerTypes
  <1>2. /\ answers' \in Seq({"read", "ack"} \X (Readable \cup Writable) \X Values)
        /\ Len(answers') = Len(answers) + 1
    BY <1>1
  <1>3. answers'[Len(answers) + 1] = a /\ \A i \in 1 .. Len(answers) : answers'[i] = answers[i]
    BY <1>1
  <1>4. Sent' = Sent \cup {a}
    <2>1. \A i \in 1 .. Len(answers') : i \in 1 .. Len(answers) \/ i = Len(answers) + 1
      BY <1>1, <1>2
    <2>2. \A i \in 1 .. Len(answers) : i \in 1 .. Len(answers')
      BY <1>1, <1>2
    <2>3. Len(answers) + 1 \in 1 .. Len(answers')
      BY <1>1, <1>2
    <2> QED
      BY <1>3, <2>1, <2>2, <2>3 DEF Sent
  <1>5. Len(answers') <= MaxAnswers
    BY <1>1, <1>2, BoundsAssumption DEF CanAnswer
  <1> QED
    BY <1>2, <1>4, <1>5 DEF AnswerTypes

\* An answer less: the first one.
LEMMA SentTail ==
    ASSUME AnswerTypes, answers # <<>>, answers' = Tail(answers)
    PROVE  /\ AnswerTypes' /\ Sent' \subseteq Sent /\ Head(answers) \in Sent
           /\ ~OutdatedFollows => <<"read", "Enable", 0>> \notin Sent'
  <1>1. answers \in Seq({"read", "ack"} \X (Readable \cup Writable) \X Values) /\ Len(answers) \in Nat
        /\ Len(answers) >= 1 /\ Len(answers) <= MaxAnswers
    BY DEF AnswerTypes
  <1>2. /\ answers' \in Seq({"read", "ack"} \X (Readable \cup Writable) \X Values)
        /\ Len(answers') = Len(answers) - 1 /\ Head(answers) = answers[1]
    BY <1>1
  <1>3. \A i \in 1 .. Len(answers') : answers'[i] = answers[i + 1]
    BY <1>1
  <1>4. \A i \in 1 .. Len(answers') : i + 1 \in 1 .. Len(answers) /\ i + 1 \in 2 .. Len(answers)
    BY <1>1, <1>2
  <1>5. Sent' \subseteq Sent
    BY <1>3, <1>4 DEF Sent
  <1>6. Head(answers) \in Sent
    <2>1. 1 \in 1 .. Len(answers)
      BY <1>1
    <2> QED
      BY <1>2, <2>1 DEF Sent
  <1>7. ~OutdatedFollows => <<"read", "Enable", 0>> \notin Sent'
    BY <1>3, <1>4 DEF Sent, OutdatedFollows
  <1>8. Len(answers') <= MaxAnswers
    BY <1>1, <1>2, BoundsAssumption
  <1> QED
    BY <1>2, <1>5, <1>6, <1>7, <1>8 DEF AnswerTypes

\* Without a leftover no answer of the kind is under way.
LEMMA LeftoverSent ==
    ASSUME NEW k, NEW r
    PROVE  ~Leftover(k, r) => NoneSent(k, r) /\ (k = "ack" => hand = <<>> \/ hand[1][1] # r)
  BY DEF Leftover, NoneSent, Sent

\* There are finitely many registers to read.
LEMMA ReadableFinite == IsFiniteSet(Readable)
  <1>1. IsFiniteSet({"Position"})
    BY FS_Singleton
  <1>2. IsFiniteSet({"Position"} \cup {"Mode"})
    BY <1>1, FS_AddElement
  <1>3. IsFiniteSet(({"Position"} \cup {"Mode"}) \cup {"Enable"})
    BY <1>2, FS_AddElement
  <1>4. IsFiniteSet((({"Position"} \cup {"Mode"}) \cup {"Enable"}) \cup {"Offset"})
    BY <1>3, FS_AddElement
  <1>5. IsFiniteSet(((({"Position"} \cup {"Mode"}) \cup {"Enable"}) \cup {"Offset"}) \cup {"Serial"})
    BY <1>4, FS_AddElement
  <1>6. Readable = ((({"Position"} \cup {"Mode"}) \cup {"Enable"}) \cup {"Offset"}) \cup {"Serial"}
    BY DEF Readable
  <1> QED
    BY <1>5, <1>6

\* The Query queue stays within its bound.
LEMMA RequestType ==
    ASSUME ReadTypes, NEW r \in Readable, Request(r)
    PROVE  ReadTypes'
  <1>1. IsFiniteSet(Readable)
    BY ReadableFinite
  <1>2. IsFiniteSet(reads) /\ Cardinality(reads) \in Nat
    BY <1>1, FS_Subset, FS_CardinalityType DEF ReadTypes
  <1>3. Cardinality(reads \cup {r}) <= Cardinality(reads) + 1
    BY <1>2, FS_AddElement
  <1>4. IsFiniteSet(reads \cup {r}) /\ Cardinality(reads \cup {r}) \in Nat
    BY <1>2, FS_AddElement, FS_CardinalityType
  <1>5. CASE Cardinality(reads) < MaxReads
    <2>1. reads' = reads \cup {r}
      BY <1>5 DEF Request
    <2> QED
      BY <1>2, <1>3, <1>4, <1>5, <2>1, BoundsAssumption DEF ReadTypes
  <1>6. CASE ~(Cardinality(reads) < MaxReads)
    BY <1>6 DEF Request, ReadTypes
  <1> QED
    BY <1>5, <1>6

\* ... also when one has left it.
LEMMA RemoveType ==
    ASSUME ReadTypes, NEW r, reads' = reads \ {r}
    PROVE  ReadTypes'
  <1>1. IsFiniteSet(Readable)
    BY ReadableFinite
  <1>2. IsFiniteSet(reads)
    BY <1>1, FS_Subset DEF ReadTypes
  <1>3. Cardinality(reads') <= Cardinality(reads) /\ Cardinality(reads) \in Nat
        /\ Cardinality(reads') \in Nat
    BY <1>2, FS_Subset, FS_CardinalityType
  <1> QED
    BY <1>3, BoundsAssumption DEF ReadTypes

-----------------------------------------------------------------------------
(* Steps of the drive, the bus and the protocol *)

\* What a drive makes of a write.
LEMMA ObeyFacts ==
    ASSUME RegisterTypes, NEW r \in Writable, NEW v \in Values, IsWrite(<<r, v>>)
    PROVE  LET d == Obey(drive, <<r, v>>) IN
           /\ d \in Registers
           /\ d.enabled = IF r = "Enable" THEN v ELSE drive.enabled
           /\ d.offset = IF r = "Offset" THEN v ELSE drive.offset
           /\ r # "Offset" => d.corrected = drive.corrected
           /\ d.saved = IF r = "Save" THEN drive.offset ELSE drive.saved
  <1> DEFINE f == <<r, v>>
  <1>1. f[1] = r /\ f[2] = v
    OBVIOUS
  <1>2. /\ r = "Mode" => v \in Modes
        /\ r = "Enable" => v \in {0, 1}
        /\ r = "Offset" => v \in Raw
    BY DEF IsWrite
  <1> HIDE DEF f
  <1>3. CASE r = "Mode"
    BY <1>1, <1>2, <1>3 DEF Obey, RegisterTypes, Registers, f
  <1>4. CASE r = "Enable"
    BY <1>1, <1>2, <1>4 DEF Obey, RegisterTypes, Registers, f
  <1>5. CASE r = "Offset"
    BY <1>1, <1>2, <1>5 DEF Obey, RegisterTypes, Registers, f
  <1>6. CASE r = "Save"
    BY <1>1, <1>2, <1>6 DEF Obey, RegisterTypes, Registers, f
  <1>7. CASE r = "Motion"
    BY <1>1, <1>2, <1>7 DEF Obey, RegisterTypes, Registers, f
  <1> QED
    BY <1>3, <1>4, <1>5, <1>6, <1>7 DEF Writable

\* TakeWrite preserves the invariant: what is under way stays so.
LEMMA TakeWriteStep ==
    ASSUME IInv, TakeWrite, UNCHANGED <<job, calls, joint, excused, claim>>
    PROVE  IInv'
  <1> USE IInvParts
  <1>w. UNCHANGED <<job, joint, excused, claim, drive, unseen, known, shared, awaited, reply, answers>>
    BY DEF TakeWrite, protocol
  <1>a. hand = <<>> /\ write # <<>> /\ hand' = write /\ write' = <<>>
    BY DEF TakeWrite
  <1>c. OffsetPending' <=> OffsetPending
    BY <1>a DEF OffsetPending, Pending
  <1>p1. WriteTypes'
    BY <1>a DEF WriteTypes
  <1>p2. FramesFit'
    BY <1>a, <1>w DEF FramesFit, Sent
  <1>p3. ExcuseNeeded'
    BY <1>a, <1>w DEF ExcuseNeeded, Pending
  <1>p4. OffsetOnWay'
    BY <1>a, <1>w DEF OffsetOnWay, Target, Got, NoneSent, Sent
  <1>p5. OffsetArrived'
    BY <1>a, <1>w DEF OffsetArrived
  <1>p6. SaveOnWay'
    BY <1>a, <1>w DEF SaveOnWay, Target, Got, Sent
  <1>p7. PositionOfUse'
    BY <1>c, <1>w DEF PositionOfUse, Sent
  <1>p8. ClaimKept'
    BY <1>c, <1>w DEF ClaimKept
  <1>u. UNCHANGED <<drive, unseen, reads, answers, known, shared, awaited, reply, job, calls, joint,
                    excused, claim>>
    BY DEF TakeWrite, protocol
  <1>r. RegisterTypes' /\ ReadTypes' /\ AnswerTypes' /\ ProtocolTypes' /\ JobTypes' /\ RestTypes'
        /\ JobFits' /\ Waits' /\ SeenEnabled' /\ ZeroFound'
    BY <1>u, RegisterTypesKept, ReadTypesKept, AnswerTypesKept, ProtocolTypesKept, JobTypesKept,
       RestTypesKept, JobFitsKept, WaitsKept, SeenEnabledKept, ZeroFoundKept
  <1> QED
    BY <1>p1, <1>p2, <1>p3, <1>p4, <1>p5, <1>p6, <1>p7, <1>p8, <1>r, IInvNext

\* SendWrite preserves the invariant.
LEMMA SendWriteStep ==
    ASSUME IInv, SendWrite, UNCHANGED <<job, calls, joint, excused, claim>>
    PROVE  IInv'
  <1> USE IInvParts
  <1>u. UNCHANGED <<write, reads, known, shared, awaited, reply, job, calls, joint, excused, claim>>
    BY DEF SendWrite, protocol
  <1>b. /\ WriteTypes' /\ hand' = <<>> /\ hand # <<>> /\ CanAnswer
        /\ OffsetPending' => OffsetPending
        /\ Pending(<<"Enable", 1>>)' => Pending(<<"Enable", 1>>)
    BY <1>u, HandLeavesFacts DEF SendWrite
  <1>a. PICK r \in Writable, v \in Values :
            hand = <<<<r, v>>>> /\ hand[1] = <<r, v>> /\ hand[1][1] = r /\ hand[1][2] = v
    BY <1>b, HandFacts
  <1>d. IsWrite(<<r, v>>)
    BY <1>a, <1>b DEF FramesFit
  <1>c. /\ drive' \in Registers
        /\ drive'.enabled = IF r = "Enable" THEN v ELSE drive.enabled
        /\ drive'.offset = IF r = "Offset" THEN v ELSE drive.offset
        /\ r # "Offset" => drive'.corrected = drive.corrected
        /\ drive'.saved = IF r = "Save" THEN drive.offset ELSE drive.saved
    BY <1>a, <1>d, ObeyFacts DEF SendWrite
  <1>e. /\ unseen' = (drive'.enabled = 1 /\ (unseen \/ drive.enabled = 0)) /\ unseen' \in BOOLEAN
    BY DEF SendWrite
  <1>f. /\ AnswerTypes'
        /\ Sent' = Sent \/ Sent' = Sent \cup {<<"ack", r, 1>>}
    <2>1. CASE r \in {"Offset", "Save"}
      <3>1. answers' = Append(answers, <<"ack", r, 1>>)
        BY <1>a, <2>1 DEF SendWrite, Acknowledged
      <3> QED
        BY <1>b, <3>1, SentAppend, ValueFacts
    <2>2. CASE r \notin {"Offset", "Save"}
      BY <1>a, <2>2, AnswerTypesKept DEF SendWrite, Acknowledged, Sent
    <2> QED
      BY <2>1, <2>2
  <1>g. ~OffsetPending => r # "Offset"
    BY <1>a, <1>d DEF OffsetPending, Pending, IsWrite
  <1>h. r # "Offset" => drive'.offset = drive.offset /\ drive'.corrected = drive.corrected
    BY <1>c
  <1>p1. RegisterTypes'
    BY <1>c, <1>e DEF RegisterTypes
  <1>p2. WriteTypes'
    BY <1>b
  <1>p3. AnswerTypes'
    BY <1>f
  <1>p4. FramesFit'
    <2>1. \A a \in Sent' : IsAnswer(a)
      BY <1>f DEF FramesFit, IsAnswer
    <2> QED
      BY <1>b, <1>u, <2>1 DEF FramesFit
  <1>p5. SeenEnabled'
    <2>1. SUFFICES ASSUME drive'.enabled = 1, ~unseen'
                 PROVE  /\ known.enabled # {0} /\ shared.enabled # {0}
                        /\ <<"read", "Enable", 0>> \notin Sent'
      BY <1>u DEF SeenEnabled
    <2>2. ~unseen /\ drive.enabled # 0
      BY <1>e, <2>1
    <2>3. drive.enabled = 1
      BY <2>2 DEF RegisterTypes, Registers
    <2> QED
      BY <1>f, <2>2, <2>3 DEF SeenEnabled
  <1>p6. ExcuseNeeded'
    <2>1. SUFFICES ASSUME ~excused
                 PROVE  drive'.enabled = 0 /\ ~Pending(<<"Enable", 1>>)'
      BY <1>u DEF ExcuseNeeded
    <2>2. drive.enabled = 0 /\ ~Pending(<<"Enable", 1>>)
      BY <2>1 DEF ExcuseNeeded
    <2>3. r = "Enable" => v # 1
      BY <1>a, <2>2 DEF Pending
    <2>4. r = "Enable" => v = 0
      BY <1>d, <2>3 DEF IsWrite
    <2> QED
      BY <1>b, <1>c, <2>2, <2>4
  <1>p7. OffsetOnWay'
    <2>1. SUFFICES ASSUME job.pc = "ack", ~job.stray
                 PROVE  OffsetOnWay'
      BY <1>u DEF OffsetOnWay
    <2>2. CASE write = <<>>
      <3>1. r = "Offset" /\ v = Target
        BY <1>a, <2>1, <2>2 DEF OffsetOnWay
      <3>2. drive'.offset = Target /\ Target' = Target
        BY <1>c, <1>u, <3>1 DEF Target
      <3> QED
        BY <1>b, <1>u, <2>2, <3>2 DEF OffsetOnWay, Got
    <2>3. CASE write # <<>>
      <3>1. /\ r # "Offset" /\ write = <<<<"Offset", Target>>>> /\ reply = {}
            /\ NoneSent("ack", "Offset")
        BY <1>a, <2>1, <2>3 DEF OffsetOnWay, HandOffset
      <3>2. NoneSent("ack", "Offset")'
        BY <1>f, <3>1 DEF NoneSent
      <3>3. <<"ack", "Offset", 1>> \notin Sent' /\ reply' # {1} /\ Target' = Target /\ ~HandOffset'
        BY <1>b, <1>u, <3>1, <3>2 DEF NoneSent, Target, HandOffset
      <3> QED
        BY <1>u, <2>3, <3>1, <3>2, <3>3 DEF OffsetOnWay
    <2> QED
      BY <2>2, <2>3
  <1>p8. OffsetArrived'
    BY <1>b, <1>u DEF OffsetArrived
  <1>p9. SaveOnWay'
    <2>1. SUFFICES ASSUME job.pc = "save", ~job.stray
                 PROVE  SaveOnWay'
      BY <1>u DEF SaveOnWay
    <2>2. r = "Save" /\ Got /\ write \in {<<>>, <<<<"Save", 0>>>>}
      BY <1>a, <2>1 DEF SaveOnWay
    <2>3. drive'.saved = drive'.offset
      BY <1>c, <2>2
    <2>4. Got'
      BY <1>h, <1>u, <2>2 DEF Got, Target
    <2> QED
      BY <1>b, <1>u, <2>2, <2>3, <2>4 DEF SaveOnWay
  <1>p10. PositionOfUse'
    <2>1. SUFFICES ASSUME job.op = "zero", job.pc = "offset", job.auto, job.sure
                 PROVE  /\ ~OffsetPending'
                        /\ job.value = Physical + drive'.offset + joint.offset
                        /\ ~job.stray =>
                              /\ reply \in {{}, {drive'.offset}}
                              /\ \A a \in Sent' :
                                    a[1] = "read" /\ a[2] = "Offset" => a[3] = drive'.offset
      BY <1>u DEF PositionOfUse
    <2>2. ~OffsetPending
      BY <2>1 DEF PositionOfUse
    <2>3. drive'.offset = drive.offset
      BY <1>g, <1>h, <2>2
    <2>4. \A a \in Sent' : a[1] = "read" => a \in Sent
      BY <1>f
    <2> QED
      BY <1>b, <2>1, <2>2, <2>3, <2>4 DEF PositionOfUse
  <1>p11. ClaimKept'
    <2>1. SUFFICES ASSUME claim.kind # "none"
                 PROVE  ClaimKept'
      BY <1>u DEF ClaimKept
    <2>2. ~OffsetPending /\ (Persist => drive.saved = drive.offset)
      BY <2>1 DEF ClaimKept
    <2>3. drive'.offset = drive.offset /\ drive'.corrected = drive.corrected
      BY <1>g, <1>h, <2>2
    <2>4. Persist => drive'.saved = drive'.offset
      BY <1>c, <2>2, <2>3
    <2> QED
      BY <1>b, <1>u, <2>1, <2>2, <2>3, <2>4 DEF ClaimKept
  <1>r. ReadTypes' /\ ProtocolTypes' /\ JobTypes' /\ RestTypes' /\ JobFits' /\ Waits' /\ ZeroFound'
    BY <1>u, ReadTypesKept, ProtocolTypesKept, JobTypesKept, RestTypesKept, JobFitsKept, WaitsKept,
       ZeroFoundKept
  <1> QED
    BY <1>p1, <1>p2, <1>p3, <1>p4, <1>p5, <1>p6, <1>p7, <1>p8, <1>p9, <1>p10, <1>p11, <1>r, IInvNext

\* CorrectWrite preserves the invariant: an offset was under way, so that nothing
\* is claimed and no position is relied on.
LEMMA CorrectWriteStep ==
    ASSUME IInv, CorrectWrite, UNCHANGED <<job, calls, joint, excused, claim>>
    PROVE  IInv'
  <1> USE IInvParts
  <1>u. UNCHANGED <<unseen, write, reads, known, shared, awaited, reply, job, calls, joint, excused,
                    claim>>
    BY DEF CorrectWrite, protocol
  <1>b. /\ WriteTypes' /\ hand' = <<>> /\ hand # <<>> /\ CanAnswer
        /\ OffsetPending' => OffsetPending
        /\ Pending(<<"Enable", 1>>)' => Pending(<<"Enable", 1>>)
    BY <1>u, HandLeavesFacts DEF CorrectWrite
  <1>a. PICK v \in Values : hand = <<<<"Offset", v>>>> /\ hand[1] = <<"Offset", v>>
    BY <1>b, HandFacts DEF CorrectWrite
  <1>c. /\ drive' \in Registers /\ drive'.enabled = drive.enabled /\ drive'.corrected = TRUE
    <2>1. PICK o \in Corrections : drive' = [drive EXCEPT !.offset = o, !.corrected = TRUE]
      BY DEF CorrectWrite
    <2>2. o \in Raw
      BY CorrectionsAssumption DEF Raw
    <2> QED
      BY <2>1, <2>2 DEF RegisterTypes, Registers
  <1>d. OffsetPending /\ HandOffset
    <2>1. v \in Raw
      BY <1>a, <1>b DEF FramesFit, IsWrite
    <2> QED
      BY <1>a, <1>b, <2>1 DEF OffsetPending, Pending, HandOffset
  <1>f. AnswerTypes' /\ Sent' = Sent \cup {<<"ack", "Offset", 1>>}
    <2>1. answers' = Append(answers, <<"ack", "Offset", 1>>)
      BY <1>a DEF CorrectWrite, Acknowledged
    <2>2. "Offset" \in Readable
      BY DEF Readable
    <2> QED
      BY <1>b, <2>1, <2>2, SentAppend, ValueFacts
  <1>p1. RegisterTypes'
    BY <1>c, <1>u DEF RegisterTypes
  <1>p2. FramesFit'
    <2>1. \A a \in Sent' : IsAnswer(a)
      BY <1>f DEF FramesFit, IsAnswer
    <2> QED
      BY <1>b, <1>u, <2>1 DEF FramesFit
  <1>p3. SeenEnabled'
    BY <1>c, <1>f, <1>u DEF SeenEnabled
  <1>p4. ExcuseNeeded'
    BY <1>b, <1>c, <1>u DEF ExcuseNeeded
  <1>p5. OffsetOnWay'
    <2>1. SUFFICES ASSUME job.pc = "ack", ~job.stray
                 PROVE  OffsetOnWay'
      BY <1>u DEF OffsetOnWay
    <2>2. write = <<>>
      BY <1>d, <2>1 DEF OffsetOnWay
    <2> QED
      BY <1>b, <1>c, <1>u, <2>2 DEF OffsetOnWay, Got
  <1>p6. OffsetArrived'
    BY <1>b, <1>u DEF OffsetArrived
  <1>p7. SaveOnWay'
    BY <1>a, <1>u DEF SaveOnWay
  <1>p8. PositionOfUse'
    BY <1>d, <1>u DEF PositionOfUse
  <1>p9. ClaimKept'
    BY <1>d, <1>u DEF ClaimKept
  <1>r. ReadTypes' /\ ProtocolTypes' /\ JobTypes' /\ RestTypes' /\ JobFits' /\ Waits' /\ ZeroFound'
    BY <1>u, ReadTypesKept, ProtocolTypesKept, JobTypesKept, RestTypesKept, JobFitsKept, WaitsKept,
       ZeroFoundKept
  <1> QED
    BY <1>b, <1>f, <1>p1, <1>p2, <1>p3, <1>p4, <1>p5, <1>p6, <1>p7, <1>p8, <1>p9, <1>r, IInvNext

\* A write that does not reach the drive's registers leaves the invariant alone,
\* whether it is refused or lost.
LEMMA WriteFailsStep ==
    ASSUME IInv, HandLeaves, AnswerTypes', NEW r \in Writable, hand[1][1] = r,
           Sent' \subseteq Sent \cup {<<"ack", r, 0>>},
           UNCHANGED <<drive, unseen, write, reads, known, shared, awaited, reply, job, calls, joint,
                       excused, claim>>
    PROVE  IInv'
  <1> USE IInvParts
  <1>b. /\ WriteTypes' /\ hand' = <<>> /\ hand # <<>> /\ CanAnswer
        /\ OffsetPending' => OffsetPending
        /\ Pending(<<"Enable", 1>>)' => Pending(<<"Enable", 1>>)
    BY HandLeavesFacts
  <1>p1. FramesFit'
    <2>1. \A a \in Sent' : IsAnswer(a)
      BY DEF FramesFit, IsAnswer
    <2> QED
      BY <1>b, <2>1 DEF FramesFit
  <1>p2. SeenEnabled'
    BY DEF SeenEnabled
  <1>p3. ExcuseNeeded'
    BY <1>b DEF ExcuseNeeded
  <1>p4. OffsetOnWay'
    <2>1. SUFFICES ASSUME job.pc = "ack", ~job.stray
                 PROVE  OffsetOnWay'
      BY DEF OffsetOnWay
    <2>2. Target' = Target /\ (Got' <=> Got) /\ ~HandOffset'
      BY <1>b DEF Target, Got, HandOffset
    <2>3. write # <<>> => NoneSent("ack", "Offset")'
      BY <1>b, <2>1 DEF OffsetOnWay, HandOffset, NoneSent
    <2>4. <<"ack", "Offset", 1>> \in Sent' => <<"ack", "Offset", 1>> \in Sent
      OBVIOUS
    <2> QED
      BY <1>b, <2>1, <2>2, <2>3, <2>4 DEF OffsetOnWay
  <1>p5. OffsetArrived'
    BY <1>b DEF OffsetArrived
  <1>p6. SaveOnWay'
    <2>1. Got' <=> Got
      BY DEF Target, Got
    <2>2. <<"ack", "Save", 1>> \in Sent' => <<"ack", "Save", 1>> \in Sent
      OBVIOUS
    <2> QED
      BY <1>b, <2>1, <2>2 DEF SaveOnWay
  <1>p7. PositionOfUse'
    <2>1. \A a \in Sent' : a[1] = "read" => a \in Sent
      OBVIOUS
    <2> QED
      BY <1>b, <2>1 DEF PositionOfUse
  <1>p8. ClaimKept'
    BY <1>b DEF ClaimKept
  <1>r. RegisterTypes' /\ ReadTypes' /\ ProtocolTypes' /\ JobTypes' /\ RestTypes' /\ JobFits'
        /\ Waits' /\ ZeroFound'
    BY RegisterTypesKept, ReadTypesKept, ProtocolTypesKept, JobTypesKept, RestTypesKept,
       JobFitsKept, WaitsKept, ZeroFoundKept
  <1> QED
    BY <1>b, <1>p1, <1>p2, <1>p3, <1>p4, <1>p5, <1>p6, <1>p7, <1>p8, <1>r, IInvNext

\* RefuseWrite preserves the invariant.
LEMMA RefuseWriteStep ==
    ASSUME IInv, RefuseWrite, UNCHANGED <<job, calls, joint, excused, claim>>
    PROVE  IInv'
  <1>1. PICK r \in Writable : hand[1][1] = r
    BY IInvParts, HandFacts DEF RefuseWrite, HandLeaves
  <1>2. AnswerTypes' /\ Sent' = Sent \cup {<<"ack", r, 0>>}
    BY <1>1, IInvParts, SentAppend, ValueFacts DEF RefuseWrite, HandLeaves
  <1>3. HandLeaves /\ UNCHANGED <<drive, unseen, write, reads, known, shared, awaited, reply, job,
                                  calls, joint, excused, claim>>
    BY DEF RefuseWrite, protocol
  <1> QED
    BY <1>1, <1>2, <1>3, WriteFailsStep

\* LoseWrite preserves the invariant.
LEMMA LoseWriteStep ==
    ASSUME IInv, LoseWrite, UNCHANGED <<job, calls, joint, excused, claim>>
    PROVE  IInv'
  <1>1. PICK r \in Writable : hand[1][1] = r
    BY IInvParts, HandFacts DEF LoseWrite, HandLeaves
  <1>2. AnswerTypes' /\ Sent' = Sent
    BY IInvParts, AnswerTypesKept DEF LoseWrite, Sent
  <1>3. HandLeaves /\ UNCHANGED <<drive, unseen, write, reads, known, shared, awaited, reply, job,
                                  calls, joint, excused, claim>>
    BY DEF LoseWrite, protocol
  <1> QED
    BY <1>1, <1>2, <1>3, WriteFailsStep

\* SendRead preserves the invariant.
LEMMA SendReadStep ==
    ASSUME IInv, NEW q \in Readable, SendRead(q), UNCHANGED <<job, calls, joint, excused, claim>>
    PROVE  IInv'
  <1> USE IInvParts
  <1>w. UNCHANGED <<job, joint, excused, claim, drive, unseen, known, shared, awaited, reply>>
    BY DEF SendRead, protocol
  <1>b. write' = <<>> /\ write = <<>> /\ hand' = <<>> /\ hand = <<>>
    BY DEF SendRead
  <1>a. PICK v \in Values : /\ v = Content(q) /\ (q = "Enable" => v = drive.enabled)
                            /\ (q = "Mode" => v \in Modes) /\ (q = "Offset" => v = drive.offset)
                            /\ (q = "Enable" => v \in {0, 1})
    BY ValueFacts DEF Content, RegisterTypes, Registers, Readable
  <1>f. AnswerTypes' /\ Sent' = Sent \cup {<<"read", q, v>>}
    BY <1>a, SentAppend DEF SendRead
  <1>p1. ReadTypes'
    BY RemoveType DEF SendRead
  <1>p2. AnswerTypes'
    BY <1>f
  <1>p3. FramesFit'
    BY <1>a, <1>b, <1>f DEF FramesFit, IsAnswer
  <1>p4. SeenEnabled'
    BY <1>a, <1>f, <1>w DEF SeenEnabled
  <1>p5. OffsetOnWay'
    BY <1>b, <1>f, <1>w DEF OffsetOnWay, Target, Got
  <1>p6. SaveOnWay'
    BY <1>b, <1>f, <1>w DEF SaveOnWay, Target, Got
  <1>p7. PositionOfUse'
    <2>1. ~OffsetPending'
      BY <1>b DEF OffsetPending, Pending
    <2>2. ASSUME job.op = "zero", job.pc = "offset", job.auto, job.sure, ~job.stray, NEW a \in Sent',
                 a[1] = "read", a[2] = "Offset"
          PROVE  a[3] = drive.offset
      BY <1>a, <1>f, <2>2 DEF PositionOfUse
    <2> QED
      BY <1>w, <2>1, <2>2 DEF PositionOfUse
  <1>u. UNCHANGED <<drive, unseen, write, hand, known, shared, awaited, reply, job, calls, joint, excused,
                    claim>>
    BY DEF SendRead, protocol
  <1>r. RegisterTypes' /\ WriteTypes' /\ ProtocolTypes' /\ JobTypes' /\ RestTypes' /\ JobFits'
        /\ Waits' /\ ExcuseNeeded' /\ OffsetArrived' /\ ZeroFound' /\ ClaimKept'
    BY <1>u, RegisterTypesKept, WriteTypesKept, ProtocolTypesKept, JobTypesKept, RestTypesKept,
       JobFitsKept, WaitsKept, ExcuseNeededKept, OffsetArrivedKept, ZeroFoundKept, ClaimKeptKept
  <1> QED
    BY <1>p1, <1>p2, <1>p3, <1>p4, <1>p5, <1>p6, <1>p7, <1>r, IInvNext

\* LoseRead preserves the invariant.
LEMMA LoseReadStep ==
    ASSUME IInv, NEW q \in Readable, LoseRead(q), UNCHANGED <<job, calls, joint, excused, claim>>
    PROVE  IInv'
  <1> USE IInvParts
  <1>p1. ReadTypes'
    BY RemoveType DEF LoseRead
  <1>u. UNCHANGED <<drive, unseen, write, hand, answers, known, shared, awaited, reply, job, calls, joint,
                    excused, claim>>
    BY DEF LoseRead, protocol
  <1>r. RegisterTypes' /\ WriteTypes' /\ AnswerTypes' /\ ProtocolTypes' /\ JobTypes' /\ RestTypes'
        /\ FramesFit' /\ JobFits' /\ Waits' /\ SeenEnabled' /\ ExcuseNeeded' /\ OffsetOnWay'
        /\ OffsetArrived' /\ SaveOnWay' /\ PositionOfUse' /\ ZeroFound' /\ ClaimKept'
    BY <1>u, RegisterTypesKept, WriteTypesKept, AnswerTypesKept, ProtocolTypesKept, JobTypesKept,
       RestTypesKept, FramesFitKept, JobFitsKept, WaitsKept, SeenEnabledKept, ExcuseNeededKept,
       OffsetOnWayKept, OffsetArrivedKept, SaveOnWayKept, PositionOfUseKept, ZeroFoundKept,
       ClaimKeptKept
  <1> QED
    BY <1>p1, <1>r, IInvNext

\* LoseAnswer preserves the invariant.
LEMMA LoseAnswerStep ==
    ASSUME IInv, LoseAnswer, UNCHANGED <<job, calls, joint, excused, claim>>
    PROVE  IInv'
  <1> USE IInvParts
  <1>w. UNCHANGED <<job, joint, excused, claim, drive, unseen, known, shared, awaited, reply, write, hand>>
    BY DEF LoseAnswer, protocol
  <1>f. AnswerTypes' /\ Sent' \subseteq Sent
    BY SentTail DEF LoseAnswer
  <1>p1. AnswerTypes'
    BY <1>f
  <1>p2. FramesFit'
    BY <1>f, <1>w DEF FramesFit
  <1>p3. SeenEnabled'
    BY <1>f, <1>w DEF SeenEnabled
  <1>p4. OffsetOnWay'
    BY <1>f, <1>w DEF OffsetOnWay, Target, Got, HandOffset, NoneSent
  <1>p5. SaveOnWay'
    BY <1>f, <1>w DEF SaveOnWay, Target, Got
  <1>p6. PositionOfUse'
    BY <1>f, <1>w DEF PositionOfUse, OffsetPending, Pending
  <1>u. UNCHANGED <<drive, unseen, write, hand, reads, known, shared, awaited, reply, job, calls, joint,
                    excused, claim>>
    BY DEF LoseAnswer, protocol
  <1>r. RegisterTypes' /\ WriteTypes' /\ ReadTypes' /\ ProtocolTypes' /\ JobTypes' /\ RestTypes'
        /\ JobFits' /\ Waits' /\ ExcuseNeeded' /\ OffsetArrived' /\ ZeroFound' /\ ClaimKept'
    BY <1>u, RegisterTypesKept, WriteTypesKept, ReadTypesKept, ProtocolTypesKept, JobTypesKept,
       RestTypesKept, JobFitsKept, WaitsKept, ExcuseNeededKept, OffsetArrivedKept, ZeroFoundKept,
       ClaimKeptKept
  <1> QED
    BY <1>p1, <1>p2, <1>p3, <1>p4, <1>p5, <1>p6, <1>r, IInvNext

\* Refresh preserves the invariant.
LEMMA RefreshStep ==
    ASSUME IInv, NEW q \in Refreshed, Refresh(q), UNCHANGED <<job, calls, joint, excused, claim>>
    PROVE  IInv'
  <1> USE IInvParts
  <1>p1. ReadTypes'
    BY RequestType, RefreshedAssumption DEF Refresh, Readable
  <1>u. UNCHANGED <<drive, unseen, write, hand, answers, known, shared, awaited, reply, job, calls, joint,
                    excused, claim>>
    BY DEF Refresh, protocol
  <1>r. RegisterTypes' /\ WriteTypes' /\ AnswerTypes' /\ ProtocolTypes' /\ JobTypes' /\ RestTypes'
        /\ FramesFit' /\ JobFits' /\ Waits' /\ SeenEnabled' /\ ExcuseNeeded' /\ OffsetOnWay'
        /\ OffsetArrived' /\ SaveOnWay' /\ PositionOfUse' /\ ZeroFound' /\ ClaimKept'
    BY <1>u, RegisterTypesKept, WriteTypesKept, AnswerTypesKept, ProtocolTypesKept, JobTypesKept,
       RestTypesKept, FramesFitKept, JobFitsKept, WaitsKept, SeenEnabledKept, ExcuseNeededKept,
       OffsetOnWayKept, OffsetArrivedKept, SaveOnWayKept, PositionOfUseKept, ZeroFoundKept,
       ClaimKeptKept
  <1> QED
    BY <1>p1, <1>r, IInvNext

\* HandleAck preserves the invariant.
LEMMA HandleAckStep ==
    ASSUME IInv, HandleAck, UNCHANGED <<job, calls, joint, excused, claim>>
    PROVE  IInv'
  <1> USE IInvParts
  <1>w. UNCHANGED <<job, joint, excused, claim, drive, unseen, known, shared, awaited, write, hand>>
    BY DEF HandleAck, Deliver
  <1>f. AnswerTypes' /\ Sent' \subseteq Sent /\ Head(answers) \in Sent
    BY SentTail DEF HandleAck
  <1>a. PICK r \in Readable \cup Writable, v \in Values : Head(answers) = <<"ack", r, v>>
    BY <1>f, SentTyped DEF HandleAck
  <1>e. reply' = IF awaited = <<"ack", r>> THEN {v} ELSE reply
    <2>1. Head(answers)[2] = r /\ Head(answers)[3] = v
      BY <1>a
    <2>2. Deliver("ack", r, v)
      BY <2>1 DEF HandleAck
    <2> QED
      BY <2>2 DEF Deliver
  <1>p1. ReadTypes'
    <2>1. "Mode" \in Readable /\ "Enable" \in Readable
      BY DEF Readable
    <2> QED
      BY <2>1, RequestType, ReadTypesKept DEF HandleAck
  <1>p2. AnswerTypes'
    BY <1>f
  <1>p3. ProtocolTypes'
    BY <1>a, <1>e, <1>w DEF ProtocolTypes, AtMostOne
  <1>p4. FramesFit'
    BY <1>f, <1>w DEF FramesFit
  <1>p5. Waits'
    BY <1>e, <1>w DEF Waits
  <1>p6. SeenEnabled'
    BY <1>f, <1>w DEF SeenEnabled
  <1>p7. OffsetOnWay'
    <2>1. SUFFICES ASSUME job.pc = "ack", ~job.stray
                 PROVE  /\ write # <<>> \/ hand # <<>> => reply' = {} /\ NoneSent("ack", "Offset")'
                        /\ reply' = {1} \/ <<"ack", "Offset", 1>> \in Sent' => Got
      BY <1>w DEF OffsetOnWay, Target, Got, HandOffset
    <2>2. awaited = <<"ack", "Offset">>
      BY <2>1 DEF Waits
    <2>3. ASSUME write # <<>> \/ hand # <<>>
          PROVE  reply' = {} /\ NoneSent("ack", "Offset")'
      <3>1. reply = {} /\ NoneSent("ack", "Offset")
        BY <2>1, <2>3 DEF OffsetOnWay
      <3>2. r # "Offset"
        BY <1>a, <1>f, <3>1 DEF NoneSent
      <3> QED
        BY <1>e, <1>f, <2>2, <3>1, <3>2 DEF NoneSent
    <2>4. ASSUME reply' = {1}
          PROVE  Got
      <3>1. CASE awaited = <<"ack", r>>
        <4>1. r = "Offset" /\ v = 1
          BY <1>e, <2>2, <2>4, <3>1
        <4> QED
          BY <1>a, <1>f, <2>1, <4>1 DEF OffsetOnWay
      <3>2. CASE awaited # <<"ack", r>>
        BY <1>e, <2>1, <2>4, <3>2 DEF OffsetOnWay
      <3> QED
        BY <3>1, <3>2
    <2>5. <<"ack", "Offset", 1>> \in Sent' => Got
      BY <1>f, <2>1 DEF OffsetOnWay
    <2> QED
      BY <2>3, <2>4, <2>5
  <1>p8. SaveOnWay'
    <2>1. SUFFICES ASSUME job.pc = "save", ~job.stray
                 PROVE  reply' = {1} \/ <<"ack", "Save", 1>> \in Sent' => drive.saved = drive.offset
      BY <1>w DEF SaveOnWay, Target, Got
    <2>2. awaited = <<"ack", "Save">>
      BY <2>1 DEF Waits
    <2>3. ASSUME reply' = {1}
          PROVE  drive.saved = drive.offset
      <3>1. CASE awaited = <<"ack", r>>
        <4>1. r = "Save" /\ v = 1
          BY <1>e, <2>2, <2>3, <3>1
        <4> QED
          BY <1>a, <1>f, <2>1, <4>1 DEF SaveOnWay
      <3>2. CASE awaited # <<"ack", r>>
        BY <1>e, <2>1, <2>3, <3>2 DEF SaveOnWay
      <3> QED
        BY <3>1, <3>2
    <2> QED
      BY <1>f, <2>1, <2>3 DEF SaveOnWay
  <1>p9. PositionOfUse'
    <2>1. job.pc = "offset" => reply' = reply
      BY <1>e DEF Waits
    <2> QED
      BY <1>f, <1>w, <2>1 DEF PositionOfUse, OffsetPending, Pending
  <1>u. UNCHANGED <<drive, unseen, write, hand, job, calls, joint, excused, claim>>
    BY DEF HandleAck, Deliver
  <1>r. RegisterTypes' /\ WriteTypes' /\ JobTypes' /\ RestTypes' /\ JobFits' /\ ExcuseNeeded'
        /\ OffsetArrived' /\ ZeroFound' /\ ClaimKept'
    BY <1>u, RegisterTypesKept, WriteTypesKept, JobTypesKept, RestTypesKept, JobFitsKept,
       ExcuseNeededKept, OffsetArrivedKept, ZeroFoundKept, ClaimKeptKept
  <1> QED
    BY <1>p1, <1>p2, <1>p3, <1>p4, <1>p5, <1>p6, <1>p7, <1>p8, <1>p9, <1>r, IInvNext

\* HandleRead preserves the invariant.
LEMMA HandleReadStep ==
    ASSUME IInv, NEW q \in Readable, HandleRead(q), UNCHANGED <<job, calls, joint, excused, claim>>
    PROVE  IInv'
  <1> USE IInvParts
  <1>w. UNCHANGED <<job, joint, excused, claim, drive, awaited, write, hand>>
    BY DEF HandleRead, Deliver
  <1>f. /\ AnswerTypes' /\ Sent' \subseteq Sent /\ Head(answers) \in Sent
        /\ ~OutdatedFollows => <<"read", "Enable", 0>> \notin Sent'
    BY SentTail DEF HandleRead
  <1>a. PICK v \in Values : Head(answers) = <<"read", q, v>>
    BY <1>f, SentTyped DEF HandleRead
  <1>b. (q = "Mode" => v \in Modes) /\ (q = "Enable" => v \in {0, 1})
    BY <1>a, <1>f DEF FramesFit, IsAnswer
  <1>e. reply' = IF awaited = <<"read", q>> THEN {v} ELSE reply
    <2>1. Head(answers)[2] = q /\ Head(answers)[3] = v
      BY <1>a
    <2>2. Deliver("read", q, v)
      BY <2>1 DEF HandleRead
    <2> QED
      BY <2>2 DEF Deliver
  <1>k. /\ known' \in [enabled : AtMostOne({0, 1}), mode : AtMostOne(Modes), position : AtMostOne(Values)]
        /\ known'.enabled = IF q = "Enable" THEN {v} ELSE known.enabled
        /\ shared' \in [enabled : AtMostOne({0, 1}), mode : AtMostOne(Modes),
                        position : AtMostOne(Values)]
        /\ shared'.enabled = known'.enabled
    <2>1. known' = Learn(q, v)
      BY <1>a DEF HandleRead
    <2>2. /\ known' \in [enabled : AtMostOne({0, 1}), mode : AtMostOne(Modes), position : AtMostOne(Values)]
          /\ known'.enabled = IF q = "Enable" THEN {v} ELSE known.enabled
      BY <1>b, <2>1 DEF Learn, ProtocolTypes, AtMostOne, Readable
    <2> QED
      BY <2>2 DEF HandleRead
  <1>s. unseen' = (unseen /\ (shared'.enabled # {1} \/ OutdatedFollows)) /\ unseen' \in BOOLEAN
    BY DEF HandleRead, RegisterTypes
  <1>p1. RegisterTypes'
    BY <1>w, <1>s DEF RegisterTypes
  <1>p2. AnswerTypes'
    BY <1>f
  <1>p3. ProtocolTypes'
    <2>1. reply' \in AtMostOne(Values)
      BY <1>a, <1>e DEF ProtocolTypes, AtMostOne
    <2> QED
      BY <1>k, <1>w, <2>1 DEF ProtocolTypes
  <1>p4. FramesFit'
    BY <1>f, <1>w DEF FramesFit
  <1>p5. Waits'
    BY <1>e, <1>w DEF Waits
  <1>p6. SeenEnabled'
    <2>1. SUFFICES ASSUME drive.enabled = 1, ~unseen'
                 PROVE  known'.enabled # {0} /\ <<"read", "Enable", 0>> \notin Sent'
      BY <1>k, <1>w DEF SeenEnabled
    <2>2. CASE ~unseen
      <3>1. known.enabled # {0} /\ <<"read", "Enable", 0>> \notin Sent
        BY <2>1, <2>2 DEF SeenEnabled
      <3>2. q = "Enable" => v # 0
        BY <1>a, <1>f, <3>1
      <3> QED
        BY <1>f, <1>k, <3>1, <3>2
    <2>3. CASE unseen
      <3>1. shared'.enabled = {1} /\ ~OutdatedFollows
        BY <1>s, <2>1, <2>3
      <3> QED
        BY <1>f, <1>k, <3>1
    <2> QED
      BY <2>2, <2>3
  <1>p7. OffsetOnWay'
    <2>1. job.pc = "ack" => reply' = reply
      BY <1>e DEF Waits
    <2> QED
      BY <1>f, <1>w, <2>1 DEF OffsetOnWay, Target, Got, HandOffset, NoneSent
  <1>p8. SaveOnWay'
    <2>1. job.pc = "save" => reply' = reply
      BY <1>e DEF Waits
    <2> QED
      BY <1>f, <1>w, <2>1 DEF SaveOnWay, Target, Got
  <1>p9. PositionOfUse'
    <2>1. SUFFICES ASSUME job.op = "zero", job.pc = "offset", job.auto, job.sure, ~job.stray
                 PROVE  reply' \in {{}, {drive.offset}}
      BY <1>f, <1>w DEF PositionOfUse, OffsetPending, Pending
    <2>2. reply \in {{}, {drive.offset}}
      BY <2>1 DEF PositionOfUse
    <2>3. awaited = <<"read", q>> => v = drive.offset
      <3>1. SUFFICES ASSUME awaited = <<"read", q>>
                   PROVE  v = drive.offset
        OBVIOUS
      <3>2. q = "Offset"
        BY <2>1, <3>1 DEF Waits
      <3> QED
        BY <1>a, <1>f, <2>1, <3>2 DEF PositionOfUse
    <2> QED
      BY <1>e, <2>2, <2>3
  <1>u. UNCHANGED <<write, hand, reads, job, calls, joint, excused, claim, drive>>
    BY DEF HandleRead, Deliver
  <1>r. WriteTypes' /\ ReadTypes' /\ JobTypes' /\ RestTypes' /\ JobFits' /\ ExcuseNeeded'
        /\ OffsetArrived' /\ ZeroFound' /\ ClaimKept'
    BY <1>u, WriteTypesKept, ReadTypesKept, JobTypesKept, RestTypesKept, JobFitsKept, ExcuseNeededKept,
       OffsetArrivedKept, ZeroFoundKept, ClaimKeptKept
  <1> QED
    BY <1>p1, <1>p2, <1>p3, <1>p4, <1>p5, <1>p6, <1>p7, <1>p8, <1>p9, <1>r, IInvNext

-----------------------------------------------------------------------------
(* Steps of the maintenance service *)

\* The request that is none.
LEMMA IdleFacts ==
    /\ Idle \in Jobs
    /\ Idle.op = "none" /\ Idle.pc = "idle" /\ Idle.undo = FALSE
  BY ValueFacts, SavesAssumption DEF Idle, Jobs

\* The calls are counted.
LEMMA CallType ==
    ASSUME RestTypes, Call
    PROVE  calls' \in 0 .. MaxCalls
  <1>1. calls \in 0 .. MaxCalls
    BY DEF RestTypes
  <1> QED
    BY <1>1, CallsAssumption DEF Call

\* A write of another register brings no offset under way, and no Enable unless it
\* is one.
LEMMA SubmitOther ==
    ASSUME NEW r, r # "Offset", NEW v, Submit(r, v), UNCHANGED hand
    PROVE  /\ OffsetPending' => OffsetPending
           /\ r # "Enable" \/ v # 1 => (Pending(<<"Enable", 1>>)' => Pending(<<"Enable", 1>>))
  <1>1. write' = <<<<r, v>>>> /\ hand' = hand
    BY DEF Submit
  <1>2. OffsetPending' => OffsetPending
    BY <1>1 DEF OffsetPending, Pending
  <1>3. r # "Enable" \/ v # 1 => (Pending(<<"Enable", 1>>)' => Pending(<<"Enable", 1>>))
    BY <1>1 DEF Pending
  <1> QED
    BY <1>2, <1>3

\* The end of a request, whatever it tells its caller.
LEMMA ReturnFacts ==
    ASSUME NEW c, Return(c)
    PROVE  /\ JobTypes' /\ JobFits' /\ Waits'
           /\ OffsetOnWay' /\ OffsetArrived' /\ SaveOnWay' /\ PositionOfUse' /\ ZeroFound'
           /\ awaited' = <<>> /\ reply' = {} /\ claim' = c /\ job' = Idle
  <1>1. job' = Idle /\ claim' = c /\ awaited' = <<>> /\ reply' = {}
    BY DEF Return, EndWait
  <1>2. JobTypes'
    BY <1>1, IdleFacts DEF JobTypes
  <1>3. JobFits' /\ Waits'
    BY <1>1, IdleFacts DEF JobFits, Waits, Locked
  <1>4. OffsetOnWay' /\ OffsetArrived' /\ SaveOnWay' /\ PositionOfUse' /\ ZeroFound'
    BY <1>1, IdleFacts DEF OffsetOnWay, OffsetArrived, SaveOnWay, PositionOfUse, ZeroFound
  <1> QED
    BY <1>1, <1>2, <1>3, <1>4

\* A request that fails before it has written anything.
LEMMA FailStep ==
    ASSUME IInv, Fail
    PROVE  IInv'
  <1> USE IInvParts
  <1>a. /\ JobTypes' /\ JobFits' /\ Waits'
        /\ OffsetOnWay' /\ OffsetArrived' /\ SaveOnWay' /\ PositionOfUse' /\ ZeroFound'
        /\ awaited' = <<>> /\ reply' = {} /\ claim' = claim /\ job' = Idle
    BY ReturnFacts DEF Fail
  <1>p1. ProtocolTypes'
    BY <1>a DEF Fail, ProtocolTypes, AtMostOne
  <1>p2. JobTypes' /\ JobFits' /\ Waits' /\ OffsetOnWay' /\ OffsetArrived' /\ SaveOnWay'
         /\ PositionOfUse' /\ ZeroFound'
    BY <1>a
  <1>p3. RestTypes'
    BY <1>a DEF Fail, RestTypes
  <1>p4. ClaimKept'
    BY <1>a, IdleFacts DEF Fail, ClaimKept, OffsetPending, Pending, bus
  <1>u. UNCHANGED <<drive, unseen, write, hand, reads, answers, known, shared, excused>>
    BY DEF Fail, bus
  <1>r. RegisterTypes' /\ WriteTypes' /\ ReadTypes' /\ AnswerTypes' /\ FramesFit' /\ SeenEnabled'
        /\ ExcuseNeeded'
    BY <1>u, RegisterTypesKept, WriteTypesKept, ReadTypesKept, AnswerTypesKept, FramesFitKept,
       SeenEnabledKept, ExcuseNeededKept
  <1> QED
    BY <1>p1, <1>p2, <1>p3, <1>p4, <1>r, IInvNext

\* BeginSetMode preserves the invariant.
LEMMA BeginSetModeStep ==
    ASSUME IInv, NEW m \in Switches, BeginSetMode(m)
    PROVE  IInv'
  <1> USE IInvParts
  <1>w. UNCHANGED <<drive, write, hand, awaited, reply, joint, claim>>
    BY DEF BeginSetMode, driveVars, bus, protocol
  <1>b. m \in Modes /\ m \in Int
    BY RequestsAssumption, ValueFacts
  <1>a. /\ job.pc = "idle"
        /\ job' \in Jobs
        /\ job'.op = "mode" /\ job'.pc = "check" /\ job'.value = m /\ job'.undo = FALSE
    BY <1>b, IdleFacts DEF BeginSetMode, Jobs
  <1>p1. JobTypes'
    BY <1>a DEF JobTypes
  <1>p2. RestTypes'
    BY CallType DEF BeginSetMode, RestTypes
  <1>p3. JobFits'
    BY <1>a, <1>b DEF JobFits, Locked
  <1>p4. Waits'
    BY <1>a, <1>w DEF Waits
  <1>p5. OffsetOnWay' /\ OffsetArrived' /\ SaveOnWay' /\ PositionOfUse' /\ ZeroFound'
    BY <1>a DEF OffsetOnWay, OffsetArrived, SaveOnWay, PositionOfUse, ZeroFound
  <1>p6. ClaimKept'
    BY <1>a, <1>w DEF ClaimKept, OffsetPending, Pending
  <1>u. UNCHANGED <<drive, unseen, write, hand, reads, answers, known, shared, awaited, reply, excused>>
    BY DEF BeginSetMode, driveVars, bus, protocol
  <1>r. RegisterTypes' /\ WriteTypes' /\ ReadTypes' /\ AnswerTypes' /\ ProtocolTypes' /\ FramesFit'
        /\ SeenEnabled' /\ ExcuseNeeded'
    BY <1>u, RegisterTypesKept, WriteTypesKept, ReadTypesKept, AnswerTypesKept, ProtocolTypesKept,
       FramesFitKept, SeenEnabledKept, ExcuseNeededKept
  <1> QED
    BY <1>p1, <1>p2, <1>p3, <1>p4, <1>p5, <1>p6, <1>r, IInvNext

\* SetLocalZero preserves the invariant.
LEMMA SetLocalZeroStep ==
    ASSUME IInv, NEW z \in Zeros, SetLocalZero(z)
    PROVE  IInv'
  <1> USE IInvParts
  <1>a. job'.op = "none"
    BY IdleFacts DEF SetLocalZero
  <1>b. z \in Int
    BY RequestsAssumption
  <1>p1. RestTypes'
    BY <1>b, CallType, ValueFacts DEF SetLocalZero, RestTypes, NoClaim
  <1>p2. PositionOfUse'
    BY <1>a DEF PositionOfUse
  <1>p3. ZeroFound'
    BY <1>a DEF ZeroFound
  <1>p4. ClaimKept'
    BY DEF SetLocalZero, ClaimKept, NoClaim
  <1>u. UNCHANGED <<drive, unseen, write, hand, reads, answers, known, shared, awaited, reply, job, excused>>
    BY DEF SetLocalZero, driveVars, bus, protocol
  <1>r. RegisterTypes' /\ WriteTypes' /\ ReadTypes' /\ AnswerTypes' /\ ProtocolTypes' /\ JobTypes'
        /\ FramesFit' /\ JobFits' /\ Waits' /\ SeenEnabled' /\ ExcuseNeeded' /\ OffsetOnWay'
        /\ OffsetArrived' /\ SaveOnWay'
    BY <1>u, RegisterTypesKept, WriteTypesKept, ReadTypesKept, AnswerTypesKept, ProtocolTypesKept,
       JobTypesKept, FramesFitKept, JobFitsKept, WaitsKept, SeenEnabledKept, ExcuseNeededKept,
       OffsetOnWayKept, OffsetArrivedKept, SaveOnWayKept
  <1> QED
    BY <1>p1, <1>p2, <1>p3, <1>p4, <1>r, IInvNext

\* A request that begins by asking for the offset.
LEMMA AskOffsetStep ==
    ASSUME IInv, NEW j, AskOffset(j), j.op \in {"zero", "limits"}, ~j.undo,
           j \in Jobs,
           j.auto /\ j.sure => ~OffsetPending /\ j.value = Physical + drive.offset + joint.offset,
           claim' = NoClaim \/ (claim' = claim /\ j.op = "limits")
    PROVE  IInv'
  <1> USE IInvParts
  <1>w. UNCHANGED <<drive, write, hand, answers, known, shared, joint, excused>>
    BY DEF AskOffset
  <1>a. /\ job' \in Jobs
        /\ job'.op = j.op /\ job'.pc = "offset" /\ job'.value = j.value /\ job'.undo = j.undo
        /\ job'.auto = j.auto /\ job'.sure = j.sure /\ (job'.stray \/ ~Leftover("read", "Offset"))
    <2>1. PICK b \in BOOLEAN : b = Leftover("read", "Offset")
      BY DEF Leftover
    <2>2. job' = [j EXCEPT !.pc = "offset", !.stray = b]
      BY <2>1 DEF AskOffset
    <2> QED
      BY <2>1, <2>2 DEF Jobs
  <1>b. awaited' \in {<<>>, <<"read", "Offset">>} /\ reply' = {}
    BY DEF AskOffset, ReadAndWait
  <1>p1. ReadTypes'
    BY RequestType DEF AskOffset, ReadAndWait, Readable
  <1>p2. ProtocolTypes'
    <2>1. "Offset" \in Readable
      BY DEF Readable
    <2> QED
      BY <1>b, <1>w, <2>1 DEF ProtocolTypes, AtMostOne
  <1>p3. JobTypes'
    BY <1>a DEF JobTypes
  <1>p4. RestTypes'
    <2>1. NoClaim \in [kind : {"none", "written", "zeroed", "undone"}, offset : Int]
      BY ValueFacts DEF NoClaim
    <2>2. calls' \in 0 .. MaxCalls
      BY CallType DEF AskOffset
    <2> QED
      BY <1>w, <2>1, <2>2 DEF RestTypes
  <1>p5. JobFits'
    BY <1>a DEF JobFits, Locked
  <1>p6. Waits'
    BY <1>a, <1>b DEF Waits
  <1>p7. OffsetOnWay' /\ OffsetArrived' /\ SaveOnWay' /\ ZeroFound'
    BY <1>a DEF OffsetOnWay, OffsetArrived, SaveOnWay, ZeroFound
  <1>p8. PositionOfUse'
    <2>1. ~job'.stray => NoneSent("read", "Offset")
      BY <1>a, LeftoverSent
    <2> QED
      BY <1>a, <1>b, <1>w, <2>1 DEF PositionOfUse, NoneSent, Sent, OffsetPending, Pending
  <1>p9. ClaimKept'
    <2>1. CASE claim' = NoClaim
      BY <2>1 DEF ClaimKept, NoClaim
    <2>2. CASE claim' = claim /\ j.op = "limits"
      BY <1>a, <1>w, <2>2 DEF ClaimKept, OffsetPending, Pending
    <2> QED
      BY <2>1, <2>2
  <1>u. UNCHANGED <<drive, unseen, write, hand, answers, known, shared, excused>>
    BY DEF AskOffset
  <1>r. RegisterTypes' /\ WriteTypes' /\ AnswerTypes' /\ FramesFit' /\ SeenEnabled' /\ ExcuseNeeded'
    BY <1>u, RegisterTypesKept, WriteTypesKept, AnswerTypesKept, FramesFitKept, SeenEnabledKept,
       ExcuseNeededKept
  <1> QED
    BY <1>p1, <1>p2, <1>p3, <1>p4, <1>p5, <1>p6, <1>p7, <1>p8, <1>p9, <1>r, IInvNext

\* The offset before is known, or the local one stands in for it.
LEMMA ResolveStep ==
    ASSUME IInv, NEW v \in Int, NEW s \in BOOLEAN, Resolve(v, s), job.pc = "offset", s => v \in reply
    PROVE  IInv'
  <1> USE IInvParts
  <1>w. UNCHANGED <<drive, write, hand, answers, known, shared, joint,
                    claim>> /\ awaited' = <<>> /\ reply' = {}
    BY DEF Resolve, EndWait, bus
  <1>c. Clamp(v) \in Raw /\ job.value \in Int /\ v - job.value \in Int
    <2>1. job.value \in Int
      BY DEF JobTypes, Jobs
    <2> QED
      BY <2>1, ClampFacts
  <1>a. /\ job' \in Jobs
        /\ job'.op = job.op /\ job'.pc = "check" /\ job'.undo = job.undo
        /\ job'.auto = job.auto /\ job'.sure = (s /\ (job.auto => job.sure)) /\ job'.stray = job.stray
        /\ job'.value = IF job.auto THEN v - job.value ELSE job.value
    <2>1. PICK b \in BOOLEAN : b = (s /\ (job.auto => job.sure))
      OBVIOUS
    <2>2. PICK w \in Int : w = IF job.auto THEN v - job.value ELSE job.value
      BY <1>c
    <2>3. job' = [job EXCEPT !.pc = "check", !.prev = Clamp(v), !.value = w, !.sure = b]
      BY <2>1, <2>2 DEF Resolve
    <2>4. job \in Jobs
      BY DEF JobTypes
    <2>5. /\ job' \in Jobs
          /\ job'.op = job.op /\ job'.pc = "check" /\ job'.value = w /\ job'.undo = job.undo
          /\ job'.auto = job.auto /\ job'.sure = b /\ job'.stray = job.stray
      BY <1>c, <2>2, <2>3, <2>4 DEF Jobs
    <2> QED
      BY <2>1, <2>2, <2>5
  <1>p1. ProtocolTypes'
    BY <1>w DEF ProtocolTypes, AtMostOne
  <1>p2. JobTypes'
    BY <1>a DEF JobTypes
  <1>p3. JobFits'
    <2>1. job.op \in {"zero", "limits"} /\ ~job.undo
      BY DEF JobFits, Locked
    <2> QED
      BY <1>a, <2>1 DEF JobFits, Locked
  <1>p4. Waits'
    BY <1>a, <1>w DEF Waits
  <1>p5. OffsetOnWay' /\ OffsetArrived' /\ SaveOnWay' /\ PositionOfUse'
    BY <1>a DEF OffsetOnWay, OffsetArrived, SaveOnWay, PositionOfUse
  <1>p6. ZeroFound'
    <2>1. SUFFICES ASSUME job.op = "zero", job.auto, job.sure, s, ~job.stray
                 PROVE  v - job.value = -Physical - joint.offset
      BY <1>a, <1>w DEF ZeroFound
    <2>2. v = drive.offset /\ job.value = Physical + drive.offset + joint.offset
      BY <2>1 DEF PositionOfUse
    <2>3. drive.offset \in Int /\ joint.offset \in Int
      BY ValueFacts DEF RegisterTypes, Registers, RestTypes
    <2> QED
      BY <2>2, <2>3, ValueFacts
  <1>p7. ClaimKept'
    BY <1>a, <1>w DEF ClaimKept, OffsetPending, Pending
  <1>u. UNCHANGED <<drive, unseen, write, hand, reads, answers, calls, joint, excused, claim, known, shared>>
    BY DEF Resolve, EndWait, bus
  <1>r. RegisterTypes' /\ WriteTypes' /\ ReadTypes' /\ AnswerTypes' /\ RestTypes' /\ FramesFit'
        /\ SeenEnabled' /\ ExcuseNeeded'
    BY <1>u, RegisterTypesKept, WriteTypesKept, ReadTypesKept, AnswerTypesKept, RestTypesKept,
       FramesFitKept, SeenEnabledKept, ExcuseNeededKept
  <1> QED
    BY <1>p1, <1>p2, <1>p3, <1>p4, <1>p5, <1>p6, <1>p7, <1>r, IInvNext

\* CheckDisabled preserves the invariant.
LEMMA CheckDisabledStep ==
    ASSUME IInv, CheckDisabled
    PROVE  IInv'
  <1> USE IInvParts
  <1>w. UNCHANGED <<drive, write, hand, answers, known, shared, awaited, reply, unseen, calls, joint, claim>>
    BY DEF CheckDisabled, driveVars, bus, protocol
  <1>a. /\ job.pc = "check" /\ job' \in Jobs
        /\ job'.op = job.op /\ job'.pc = "act" /\ job'.value = job.value /\ job'.undo = job.undo
        /\ job'.auto = job.auto /\ job'.sure = job.sure /\ job'.stray = job.stray
    BY DEF CheckDisabled, JobTypes, Jobs
  <1>p1. JobTypes'
    BY <1>a DEF JobTypes
  <1>p2. RestTypes'
    <2>1. excused' \in BOOLEAN
      BY DEF CheckDisabled, Pending, RegisterTypes
    <2> QED
      BY <1>w, <2>1 DEF RestTypes
  <1>p3. JobFits'
    BY <1>a DEF JobFits, Locked
  <1>p4. Waits'
    BY <1>a, <1>w DEF Waits
  <1>p5. ExcuseNeeded'
    <2>1. SUFFICES ASSUME ~excused'
                 PROVE  drive.enabled = 0 /\ ~Pending(<<"Enable", 1>>)
      BY <1>w DEF ExcuseNeeded, Pending
    <2>2. ~unseen /\ ~Pending(<<"Enable", 1>>) /\ shared.enabled = {0}
      BY <2>1 DEF CheckDisabled
    <2>3. drive.enabled # 1
      BY <2>2 DEF SeenEnabled
    <2> QED
      BY <2>2, <2>3 DEF RegisterTypes, Registers
  <1>p6. OffsetOnWay' /\ OffsetArrived' /\ SaveOnWay' /\ PositionOfUse'
    BY <1>a DEF OffsetOnWay, OffsetArrived, SaveOnWay, PositionOfUse
  <1>p7. ZeroFound'
    BY <1>a, <1>w DEF ZeroFound
  <1>p8. ClaimKept'
    BY <1>a, <1>w DEF ClaimKept, OffsetPending, Pending
  <1>u. UNCHANGED <<drive, unseen, write, hand, reads, answers, known, shared, awaited, reply>>
    BY DEF CheckDisabled, driveVars, bus, protocol
  <1>r. RegisterTypes' /\ WriteTypes' /\ ReadTypes' /\ AnswerTypes' /\ ProtocolTypes' /\ FramesFit'
        /\ SeenEnabled'
    BY <1>u, RegisterTypesKept, WriteTypesKept, ReadTypesKept, AnswerTypesKept, ProtocolTypesKept,
       FramesFitKept, SeenEnabledKept
  <1> QED
    BY <1>p1, <1>p2, <1>p3, <1>p4, <1>p5, <1>p6, <1>p7, <1>p8, <1>r, IInvNext

\* SetMode preserves the invariant.
LEMMA SetModeStep ==
    ASSUME IInv, SetMode
    PROVE  IInv'
  <1> USE IInvParts
  <1>w. UNCHANGED <<hand, drive, answers, shared, awaited, reply, unseen, joint, excused, claim>>
    BY DEF SetMode
  <1>b. job.value \in Modes
    BY DEF SetMode, JobFits
  <1>a. /\ job.pc = "act" /\ job' \in Jobs
        /\ job'.op = "mode" /\ job'.pc = "confirm" /\ job'.value = job.value /\ job'.undo = job.undo
    BY DEF SetMode, JobTypes, Jobs
  <1>s. /\ WriteTypes' /\ write' # <<>> /\ write'[1] = <<"Mode", job.value>>
        /\ OffsetPending' => OffsetPending
        /\ Pending(<<"Enable", 1>>)' => Pending(<<"Enable", 1>>)
    <2>1. job.value \in Values /\ "Mode" \in Writable
      BY <1>b, ValueFacts DEF Writable
    <2>2. Submit("Mode", job.value)
      BY DEF SetMode
    <2> QED
      BY <1>w, <2>1, <2>2, SubmitType, SubmitOther
  <1>p1. WriteTypes'
    BY <1>s
  <1>p2. ProtocolTypes'
    <2>1. known' \in [enabled : AtMostOne({0, 1}), mode : AtMostOne(Modes), position : AtMostOne(Values)]
      BY <1>b DEF SetMode, ProtocolTypes, AtMostOne
    <2> QED
      BY <1>w, <2>1 DEF ProtocolTypes
  <1>p3. JobTypes'
    BY <1>a DEF JobTypes
  <1>p4. FramesFit'
    BY <1>b, <1>s, <1>w DEF FramesFit, IsWrite, Sent
  <1>p5. JobFits'
    BY <1>a, <1>b DEF JobFits, Locked
  <1>p6. Waits'
    BY <1>a, <1>w DEF Waits
  <1>p7. SeenEnabled'
    <2>1. known'.enabled = known.enabled
      BY DEF SetMode, ProtocolTypes
    <2> QED
      BY <1>w, <2>1 DEF SeenEnabled, Sent
  <1>p8. ExcuseNeeded'
    BY <1>s, <1>w DEF ExcuseNeeded
  <1>p9. OffsetOnWay' /\ OffsetArrived' /\ SaveOnWay' /\ PositionOfUse' /\ ZeroFound'
    BY <1>a DEF OffsetOnWay, OffsetArrived, SaveOnWay, PositionOfUse, ZeroFound
  <1>p10. ClaimKept'
    BY <1>a, <1>s, <1>w DEF ClaimKept
  <1>u. UNCHANGED <<drive, unseen, reads, answers, calls, joint, excused, claim>>
    BY DEF SetMode
  <1>r. RegisterTypes' /\ ReadTypes' /\ AnswerTypes' /\ RestTypes'
    BY <1>u, RegisterTypesKept, ReadTypesKept, AnswerTypesKept, RestTypesKept
  <1> QED
    BY <1>p1, <1>p2, <1>p3, <1>p4, <1>p5, <1>p6, <1>p7, <1>p8, <1>p9, <1>p10, <1>r, IInvNext

\* Confirm preserves the invariant.
LEMMA ConfirmStep ==
    ASSUME IInv, Confirm
    PROVE  IInv'
  <1> USE IInvParts
  <1>w. UNCHANGED <<drive, write, hand, awaited, reply, joint, claim>>
    BY DEF Confirm
  <1>a. /\ job.pc = "confirm" /\ job.op = "mode" /\ job' \in Jobs
        /\ job'.op = "mode" /\ job'.pc \in {"confirm", "preload"} /\ job'.value = job.value
        /\ job'.undo = job.undo
    <2>1. job.pc = "confirm" /\ job.op = "mode"
      BY DEF Confirm, JobFits
    <2>2. PICK c \in {"confirm", "preload"} : job' = [job EXCEPT !.pc = c]
      BY <2>1 DEF Confirm
    <2> QED
      BY <2>1, <2>2 DEF JobTypes, Jobs
  <1>p1. ReadTypes'
    <2>1. "Mode" \in Readable
      BY DEF Readable
    <2> QED
      BY <2>1, RequestType DEF Confirm
  <1>p2. JobTypes'
    BY <1>a DEF JobTypes
  <1>p3. JobFits'
    BY <1>a DEF JobFits, Locked
  <1>p4. Waits'
    BY <1>a, <1>w DEF Waits
  <1>p5. OffsetOnWay' /\ OffsetArrived' /\ SaveOnWay' /\ PositionOfUse' /\ ZeroFound'
    BY <1>a DEF OffsetOnWay, OffsetArrived, SaveOnWay, PositionOfUse, ZeroFound
  <1>p6. ClaimKept'
    BY <1>a, <1>w DEF ClaimKept, OffsetPending, Pending
  <1>u. UNCHANGED <<drive, unseen, write, hand, answers, known, shared, awaited, reply, calls, joint,
                    excused, claim>>
    BY DEF Confirm
  <1>r. RegisterTypes' /\ WriteTypes' /\ AnswerTypes' /\ ProtocolTypes' /\ RestTypes' /\ FramesFit'
        /\ SeenEnabled' /\ ExcuseNeeded'
    BY <1>u, RegisterTypesKept, WriteTypesKept, AnswerTypesKept, ProtocolTypesKept, RestTypesKept,
       FramesFitKept, SeenEnabledKept, ExcuseNeededKept
  <1> QED
    BY <1>p1, <1>p2, <1>p3, <1>p4, <1>p5, <1>p6, <1>r, IInvNext

\* Preload preserves the invariant.
LEMMA PreloadStep ==
    ASSUME IInv, Preload
    PROVE  IInv'
  <1> USE IInvParts
  <1>a. /\ JobTypes' /\ JobFits' /\ Waits'
        /\ OffsetOnWay' /\ OffsetArrived' /\ SaveOnWay' /\ PositionOfUse' /\ ZeroFound'
        /\ awaited' = <<>> /\ reply' = {} /\ claim' = claim /\ job' = Idle
    BY ReturnFacts DEF Preload
  <1>w. UNCHANGED <<hand, drive, reads, answers, known, shared, unseen, calls, excused>>
    BY DEF Preload
  <1>s. /\ WriteTypes' /\ write' # <<>> /\ write'[1] = <<"Motion", 0>>
        /\ OffsetPending' => OffsetPending
        /\ Pending(<<"Enable", 1>>)' => Pending(<<"Enable", 1>>)
    <2>1. 0 \in Values /\ "Motion" \in Writable
      BY ValueFacts DEF Writable
    <2>2. Submit("Motion", 0)
      BY DEF Preload
    <2> QED
      BY <1>w, <2>1, <2>2, SubmitType, SubmitOther
  <1>j. joint'.offset = joint.offset /\ joint' \in [mode : Modes, offset : Int]
    <2>1. job.value \in Modes
      BY DEF Preload, JobFits
    <2> QED
      BY <2>1 DEF Preload, RestTypes
  <1>p1. WriteTypes'
    BY <1>s
  <1>p2. ProtocolTypes'
    BY <1>a, <1>w DEF ProtocolTypes, AtMostOne
  <1>p3. JobTypes' /\ JobFits' /\ Waits' /\ OffsetOnWay' /\ OffsetArrived' /\ SaveOnWay'
         /\ PositionOfUse' /\ ZeroFound'
    BY <1>a
  <1>p4. RestTypes'
    BY <1>a, <1>j, <1>w DEF RestTypes
  <1>p5. FramesFit'
    BY <1>s, <1>w DEF FramesFit, IsWrite, Sent
  <1>p6. ExcuseNeeded'
    BY <1>s, <1>w DEF ExcuseNeeded
  <1>p7. ClaimKept'
    BY <1>a, <1>j, <1>s, <1>w, IdleFacts DEF ClaimKept
  <1>u. UNCHANGED <<drive, unseen, reads, answers, known, shared>>
    BY DEF Preload
  <1>r. RegisterTypes' /\ ReadTypes' /\ AnswerTypes' /\ SeenEnabled'
    BY <1>u, RegisterTypesKept, ReadTypesKept, AnswerTypesKept, SeenEnabledKept
  <1> QED
    BY <1>p1, <1>p2, <1>p3, <1>p4, <1>p5, <1>p6, <1>p7, <1>r, IInvNext

\* ApplyLimits preserves the invariant.
LEMMA ApplyLimitsStep ==
    ASSUME IInv, ApplyLimits
    PROVE  IInv'
  <1> USE IInvParts
  <1>a. /\ JobTypes' /\ JobFits' /\ Waits'
        /\ OffsetOnWay' /\ OffsetArrived' /\ SaveOnWay' /\ PositionOfUse' /\ ZeroFound'
        /\ awaited' = <<>> /\ reply' = {} /\ claim' = claim /\ job' = Idle
    BY ReturnFacts DEF ApplyLimits
  <1>w. UNCHANGED <<hand, drive, reads, answers, known, shared, unseen, calls, excused>>
    BY DEF ApplyLimits
  <1>s. /\ WriteTypes' /\ write' # <<>> /\ write'[1] = <<"Motion", 0>>
        /\ OffsetPending' => OffsetPending
        /\ Pending(<<"Enable", 1>>)' => Pending(<<"Enable", 1>>)
    <2>1. 0 \in Values /\ "Motion" \in Writable
      BY ValueFacts DEF Writable
    <2>2. Submit("Motion", 0)
      BY DEF ApplyLimits
    <2> QED
      BY <1>w, <2>1, <2>2, SubmitType, SubmitOther
  <1>j. joint'.offset = 0 /\ joint' \in [mode : Modes, offset : Int]
    BY ValueFacts DEF ApplyLimits, RestTypes
  <1>p1. WriteTypes'
    BY <1>s
  <1>p2. ProtocolTypes'
    BY <1>a, <1>w DEF ProtocolTypes, AtMostOne
  <1>p3. JobTypes' /\ JobFits' /\ Waits' /\ OffsetOnWay' /\ OffsetArrived' /\ SaveOnWay'
         /\ PositionOfUse' /\ ZeroFound'
    BY <1>a
  <1>p4. RestTypes'
    BY <1>a, <1>j, <1>w DEF RestTypes
  <1>p5. FramesFit'
    BY <1>s, <1>w DEF FramesFit, IsWrite, Sent
  <1>p6. ExcuseNeeded'
    BY <1>s, <1>w DEF ExcuseNeeded
  <1>p7. ClaimKept'
    BY <1>a, <1>j, <1>s, <1>w, IdleFacts DEF ClaimKept
  <1>u. UNCHANGED <<drive, unseen, reads, answers, known, shared>>
    BY DEF ApplyLimits
  <1>r. RegisterTypes' /\ ReadTypes' /\ AnswerTypes' /\ SeenEnabled'
    BY <1>u, RegisterTypesKept, ReadTypesKept, AnswerTypesKept, SeenEnabledKept
  <1> QED
    BY <1>p1, <1>p2, <1>p3, <1>p4, <1>p5, <1>p6, <1>p7, <1>r, IInvNext

\* The offset is written, or the old one again.
LEMMA WriteOffsetStep ==
    ASSUME IInv, NEW j, NEW v, WriteOffset(j, v), job.op = "zero",
           job.pc \in {"act", "ack", "serial", "save"},
           j \in Jobs, j.op = "zero", j = job \/ ~j.auto, v = IF j.undo THEN j.prev ELSE Clamp(j.value)
    PROVE  IInv'
  <1> USE IInvParts
  <1>w. /\ UNCHANGED <<hand, drive, reads, answers, known, shared, unseen, calls, joint, excused, claim>>
        /\ awaited' = <<"ack", "Offset">> /\ reply' = {}
    BY DEF WriteOffset, WriteAndWait
  <1>t. v \in Raw
    BY ClampFacts DEF Jobs
  <1>s. /\ WriteTypes' /\ write' = <<<<"Offset", v>>>> /\ write' # <<>> /\ write'[1] = <<"Offset", v>>
        /\ Pending(<<"Enable", 1>>)' => Pending(<<"Enable", 1>>)
    <2>1. v \in Values /\ "Offset" \in Writable
      BY <1>t, ValueFacts DEF Writable
    <2>2. Submit("Offset", v)
      BY DEF WriteOffset, WriteAndWait
    <2>3. WriteTypes' /\ write' = <<<<"Offset", v>>>> /\ write'[1] = <<"Offset", v>>
      BY <1>w, <2>1, <2>2, SubmitType
    <2>4. Pending(<<"Enable", 1>>)' => Pending(<<"Enable", 1>>)
      BY <1>w, <2>3 DEF Pending
    <2> QED
      BY <2>3, <2>4
  <1>a. /\ job' \in Jobs /\ job'.op = "zero" /\ job'.pc = "ack" /\ job'.value = j.value
        /\ job'.undo = j.undo
        /\ job'.prev = j.prev /\ job'.auto = j.auto /\ job'.sure = j.sure /\ job'.saves = 0
        /\ (~job'.stray => ~j.stray /\ ~Leftover("ack", "Offset"))
    <2>1. PICK b \in BOOLEAN : b = (j.stray \/ Leftover("ack", "Offset"))
      BY DEF Jobs
    <2>2. job' = [j EXCEPT !.pc = "ack", !.saves = 0, !.stray = b]
      BY <2>1 DEF WriteOffset
    <2>3. 0 \in 0 .. MaxSaves
      BY SavesAssumption
    <2>4. /\ job' \in Jobs /\ job'.op = "zero" /\ job'.pc = "ack" /\ job'.value = j.value
          /\ job'.undo = j.undo /\ job'.prev = j.prev /\ job'.auto = j.auto /\ job'.sure = j.sure
          /\ job'.saves = 0 /\ job'.stray = b
      BY <2>2, <2>3 DEF Jobs
    <2> QED
      BY <2>1, <2>4
  <1>p1. WriteTypes'
    BY <1>s
  <1>p2. ProtocolTypes'
    <2>1. "Offset" \in Writable
      BY DEF Writable
    <2> QED
      BY <1>w, <2>1 DEF ProtocolTypes, AtMostOne
  <1>p3. JobTypes'
    BY <1>a DEF JobTypes
  <1>p4. FramesFit'
    BY <1>s, <1>t, <1>w DEF FramesFit, IsWrite, Sent
  <1>p5. JobFits'
    BY <1>a DEF JobFits, Locked
  <1>p6. Waits'
    BY <1>a, <1>w DEF Waits
  <1>p7. ExcuseNeeded'
    BY <1>s, <1>w DEF ExcuseNeeded
  <1>p8. OffsetOnWay'
    <2>1. SUFFICES ASSUME ~job'.stray
                 PROVE  OffsetOnWay'
      BY DEF OffsetOnWay
    <2>2. Target' = v
      BY <1>a DEF Target
    <2>3. NoneSent("ack", "Offset") /\ ~HandOffset
      BY <1>a, <2>1, LeftoverSent DEF HandOffset
    <2>4. NoneSent("ack", "Offset")' /\ ~HandOffset'
      BY <1>w, <2>3 DEF NoneSent, Sent, HandOffset
    <2>5. <<"ack", "Offset", 1>> \notin Sent'
      BY <2>4 DEF NoneSent
    <2> QED
      BY <1>s, <1>w, <2>2, <2>4, <2>5 DEF OffsetOnWay
  <1>p9. OffsetArrived' /\ SaveOnWay' /\ PositionOfUse'
    BY <1>a DEF OffsetArrived, SaveOnWay, PositionOfUse
  <1>p10. ZeroFound'
    BY <1>a, <1>w DEF ZeroFound
  <1>p11. ClaimKept'
    BY <1>w DEF ClaimKept
  <1>u. UNCHANGED <<drive, unseen, reads, answers, calls, joint, excused, claim, known, shared>>
    BY DEF WriteOffset, WriteAndWait
  <1>r. RegisterTypes' /\ ReadTypes' /\ AnswerTypes' /\ RestTypes' /\ SeenEnabled'
    BY <1>u, RegisterTypesKept, ReadTypesKept, AnswerTypesKept, RestTypesKept, SeenEnabledKept
  <1> QED
    BY <1>p1, <1>p2, <1>p3, <1>p4, <1>p5, <1>p6, <1>p7, <1>p8, <1>p9, <1>p10, <1>p11, <1>r, IInvNext

\* AskSerial preserves the invariant.
LEMMA AskSerialStep ==
    ASSUME IInv, AskSerial, job.pc = "ack", reply = {1}
    PROVE  IInv'
  <1> USE IInvParts
  <1>w. UNCHANGED <<drive, write, hand, answers, known, shared, unseen, calls, joint, excused, claim>>
    BY DEF AskSerial
  <1>a. /\ job' \in Jobs /\ job'.op = job.op /\ job'.pc = "serial" /\ job'.value = job.value
        /\ job'.undo = job.undo /\ job'.prev = job.prev /\ job'.auto = job.auto /\ job'.sure = job.sure
        /\ job'.saves = job.saves /\ job'.stray = job.stray
    BY DEF AskSerial, JobTypes, Jobs
  <1>b. awaited' \in {<<>>, <<"read", "Serial">>} /\ reply' = {}
    BY DEF AskSerial, ReadAndWait
  <1>p1. ReadTypes'
    <2>1. "Serial" \in Readable
      BY DEF Readable
    <2> QED
      BY <2>1, RequestType DEF AskSerial, ReadAndWait
  <1>p2. ProtocolTypes'
    <2>1. "Serial" \in Readable
      BY DEF Readable
    <2> QED
      BY <1>b, <1>w, <2>1 DEF ProtocolTypes, AtMostOne
  <1>p3. JobTypes'
    BY <1>a DEF JobTypes
  <1>p4. JobFits'
    BY <1>a DEF JobFits, Locked
  <1>p5. Waits'
    BY <1>a, <1>b DEF Waits
  <1>p6. OffsetArrived'
    <2>1. SUFFICES ASSUME ~job.stray
                 PROVE  write = <<>> /\ hand = <<>> /\ Got
      BY <1>a, <1>w DEF OffsetArrived, Target, Got
    <2>2. reply # {}
      OBVIOUS
    <2> QED
      BY <2>1, <2>2 DEF OffsetOnWay
  <1>p7. OffsetOnWay' /\ SaveOnWay' /\ PositionOfUse'
    BY <1>a DEF OffsetOnWay, SaveOnWay, PositionOfUse
  <1>p8. ZeroFound'
    BY <1>a, <1>w DEF ZeroFound
  <1>p9. ClaimKept'
    BY <1>a, <1>w DEF ClaimKept, OffsetPending, Pending
  <1>u. UNCHANGED <<drive, unseen, write, hand, answers, calls, joint, excused, claim, known, shared>>
    BY DEF AskSerial
  <1>r. RegisterTypes' /\ WriteTypes' /\ AnswerTypes' /\ RestTypes' /\ FramesFit' /\ SeenEnabled'
        /\ ExcuseNeeded'
    BY <1>u, RegisterTypesKept, WriteTypesKept, AnswerTypesKept, RestTypesKept, FramesFitKept,
       SeenEnabledKept, ExcuseNeededKept
  <1> QED
    BY <1>p1, <1>p2, <1>p3, <1>p4, <1>p5, <1>p6, <1>p7, <1>p8, <1>p9, <1>r, IInvNext

\* Save preserves the invariant.
LEMMA SaveStep ==
    ASSUME IInv, Save, job.pc = "serial" \/ (job.pc = "save" /\ job.saves < MaxSaves)
    PROVE  IInv'
  <1> USE IInvParts
  <1>w. /\ UNCHANGED <<hand, drive, reads, answers, known, shared, unseen, calls, joint, excused, claim>>
        /\ awaited' = <<"ack", "Save">> /\ reply' = {}
    BY DEF Save, WriteAndWait
  <1>s. /\ WriteTypes' /\ write' = <<<<"Save", 0>>>> /\ write' # <<>> /\ write'[1] = <<"Save", 0>>
        /\ OffsetPending' => OffsetPending
        /\ Pending(<<"Enable", 1>>)' => Pending(<<"Enable", 1>>)
    <2>1. 0 \in Values /\ "Save" \in Writable
      BY ValueFacts DEF Writable
    <2>2. Submit("Save", 0)
      BY DEF Save, WriteAndWait
    <2> QED
      BY <1>w, <2>1, <2>2, SubmitType, SubmitOther
  <1>a. /\ job' \in Jobs /\ job'.op = job.op /\ job'.pc = "save" /\ job'.value = job.value
        /\ job'.undo = job.undo /\ job'.prev = job.prev /\ job'.auto = job.auto /\ job'.sure = job.sure
        /\ (~job'.stray => ~job.stray /\ (job.saves = 0 => ~Leftover("ack", "Save")))
    <2>1. PICK b \in BOOLEAN : b = (job.stray \/ (job.saves = 0 /\ Leftover("ack", "Save")))
      BY DEF JobTypes, Jobs
    <2>2. job.saves \in 0 .. MaxSaves
      BY DEF JobTypes, Jobs
    <2>3. job.saves + 1 \in 0 .. MaxSaves
      <3>1. job.pc = "serial" => job.saves = 0
        BY DEF JobFits
      <3> QED
        BY <2>2, <3>1, SavesAssumption
    <2>4. job' = [job EXCEPT !.pc = "save", !.saves = job.saves + 1, !.stray = b]
      BY <2>1 DEF Save
    <2>5. PICK n \in 0 .. MaxSaves : n = job.saves + 1
      BY <2>3
    <2>6. /\ job' \in Jobs /\ job'.op = job.op /\ job'.pc = "save" /\ job'.value = job.value
          /\ job'.undo = job.undo /\ job'.prev = job.prev /\ job'.auto = job.auto
          /\ job'.sure = job.sure
          /\ job'.stray = b
      BY <2>4, <2>5 DEF JobTypes, Jobs
    <2> QED
      BY <2>1, <2>6
  <1>p1. WriteTypes'
    BY <1>s
  <1>p2. ProtocolTypes'
    <2>1. "Save" \in Writable
      BY DEF Writable
    <2> QED
      BY <1>w, <2>1 DEF ProtocolTypes, AtMostOne
  <1>p3. JobTypes'
    BY <1>a DEF JobTypes
  <1>p4. FramesFit'
    BY <1>s, <1>w DEF FramesFit, IsWrite, Sent
  <1>p5. JobFits'
    BY <1>a DEF JobFits, Locked
  <1>p6. Waits'
    BY <1>a, <1>w DEF Waits
  <1>p7. ExcuseNeeded'
    BY <1>s, <1>w DEF ExcuseNeeded
  <1>p8. SaveOnWay'
    <2>1. SUFFICES ASSUME ~job'.stray
                 PROVE  /\ hand \in {<<>>, <<<<"Save", 0>>>>} /\ Got
                        /\ <<"ack", "Save", 1>> \in Sent => drive.saved = drive.offset
      BY <1>a, <1>s, <1>w DEF SaveOnWay, Target, Got, Sent
    <2>2. CASE job.pc = "serial"
      <3>1. job.saves = 0
        BY <2>2 DEF JobFits
      <3>2. NoneSent("ack", "Save")
        BY <1>a, <2>1, <3>1, LeftoverSent
      <3> QED
        BY <1>a, <2>1, <2>2, <3>2 DEF OffsetArrived, NoneSent
    <2>3. CASE job.pc = "save"
      BY <1>a, <2>1, <2>3 DEF SaveOnWay
    <2> QED
      BY <2>2, <2>3
  <1>p9. OffsetOnWay' /\ OffsetArrived' /\ PositionOfUse'
    BY <1>a DEF OffsetOnWay, OffsetArrived, PositionOfUse
  <1>p10. ZeroFound'
    BY <1>a, <1>w DEF ZeroFound
  <1>p11. ClaimKept'
    BY <1>a, <1>w, <1>s DEF ClaimKept
  <1>u. UNCHANGED <<drive, unseen, reads, answers, calls, joint, excused, claim, known, shared>>
    BY DEF Save, WriteAndWait
  <1>r. RegisterTypes' /\ ReadTypes' /\ AnswerTypes' /\ RestTypes' /\ SeenEnabled'
    BY <1>u, RegisterTypesKept, ReadTypesKept, AnswerTypesKept, RestTypesKept, SeenEnabledKept
  <1> QED
    BY <1>p1, <1>p2, <1>p3, <1>p4, <1>p5, <1>p6, <1>p7, <1>p8, <1>p9, <1>p10, <1>p11, <1>r, IInvNext

\* A set_zero, or its way back, has come to its end.
LEMMA WrittenStep ==
    ASSUME IInv, Written, job.op = "zero", job.pc \in {"ack", "save"},
           ~job.stray => /\ ~OffsetPending /\ Got
                         /\ Persist => drive.saved = drive.offset
    PROVE  IInv'
  <1> USE IInvParts
  <1>w. UNCHANGED <<drive, write, hand, reads, answers, known, shared, unseen, calls, excused>>
    BY DEF Written, bus
  <1>n. NoClaim.kind = "none" /\ NoClaim.offset = 0
    BY DEF NoClaim
  <1>v. job.prev \in Raw /\ job.prev \in Int /\ job.value \in Int
    BY ValueFacts DEF JobTypes, Jobs
  <1>c. PICK c : /\ Return(c)
                 /\ c.kind \in {"none", "written", "zeroed", "undone"} /\ c.offset \in Int
                 /\ c = NoClaim \/ c = [kind |-> c.kind, offset |-> c.offset]
                 /\ c.kind # "none" => ~job.stray /\ Target = Clamp(c.offset)
                 /\ c.kind = "zeroed" => /\ joint'.offset = 0 /\ joint.offset = 0
                                         /\ job.auto /\ job.sure
                                         /\ c.offset = job.value
    <2>j. ~job.undo => joint'.offset = 0
      BY DEF Written, CommitZero, RestTypes
    <2>1. CASE job.undo
      <3> DEFINE c == IF job.sure /\ ~job.stray
                      THEN [kind |-> "undone", offset |-> job.prev] ELSE NoClaim
      <3>1. Return(c)
        BY <2>1 DEF Written
      <3>2. Target = Clamp(job.prev)
        BY <1>v, <2>1, ClampFacts DEF Target
      <3>3. c = NoClaim \/ (~job.stray /\ c = [kind |-> "undone", offset |-> job.prev])
        OBVIOUS
      <3> HIDE DEF c
      <3> QED
        BY <1>n, <1>v, <3>1, <3>2, <3>3
    <2>2. CASE ~job.undo
      <3> DEFINE k == IF job.auto /\ job.sure /\ joint.offset = 0 THEN "zeroed" ELSE "written"
                 c == IF job.stray THEN NoClaim ELSE [kind |-> k, offset |-> job.value]
      <3>1. Return(c)
        BY <2>2 DEF Written
      <3>2. Target = Clamp(job.value)
        BY <2>2 DEF Target
      <3>3. /\ k \in {"zeroed", "written"}
            /\ k = "zeroed" => job.auto /\ job.sure /\ joint.offset = 0
        OBVIOUS
      <3> HIDE DEF k
      <3>4. c = NoClaim \/ (~job.stray /\ c = [kind |-> k, offset |-> job.value])
        OBVIOUS
      <3> HIDE DEF c
      <3> QED
        BY <1>n, <1>v, <2>2, <2>j, <3>1, <3>2, <3>3, <3>4
    <2> QED
      BY <2>1, <2>2
  <1>a. /\ JobTypes' /\ JobFits' /\ Waits'
        /\ OffsetOnWay' /\ OffsetArrived' /\ SaveOnWay' /\ PositionOfUse' /\ ZeroFound'
        /\ awaited' = <<>> /\ reply' = {} /\ claim' = c /\ job' = Idle
    BY <1>c, ReturnFacts
  <1>t. /\ c \in [kind : {"none", "written", "zeroed", "undone"}, offset : Int]
        /\ joint' \in [mode : Modes, offset : Int]
    <2>2. c \in [kind : {"none", "written", "zeroed", "undone"}, offset : Int]
      <3>1. CASE c = NoClaim
        BY <3>1 DEF NoClaim
      <3>2. ASSUME NEW k \in {"none", "written", "zeroed", "undone"}, NEW o \in Int,
                   c = [kind |-> k, offset |-> o]
            PROVE  c \in [kind : {"none", "written", "zeroed", "undone"}, offset : Int]
        BY <3>2
      <3> QED
        BY <1>c, <3>1, <3>2
    <2> QED
      BY <2>2, ValueFacts DEF Written, CommitZero, RestTypes
  <1>p1. ProtocolTypes'
    BY <1>a, <1>w DEF ProtocolTypes, AtMostOne
  <1>p2. JobTypes' /\ JobFits' /\ Waits' /\ OffsetOnWay' /\ OffsetArrived' /\ SaveOnWay'
         /\ PositionOfUse' /\ ZeroFound'
    BY <1>a
  <1>p3. RestTypes'
    BY <1>a, <1>t, <1>w DEF RestTypes
  <1>p4. ClaimKept'
    <2>1. SUFFICES ASSUME c.kind # "none"
                 PROVE  /\ ~OffsetPending /\ (Persist => drive.saved = drive.offset)
                        /\ ~drive.corrected => drive.offset = Clamp(c.offset)
                        /\ c.kind = "zeroed" => joint'.offset = 0 /\ c.offset = -Physical
      BY <1>a, <1>w, IdleFacts DEF ClaimKept, OffsetPending, Pending
    <2>2. ~job.stray /\ Target = Clamp(c.offset)
      BY <1>c, <2>1
    <2>3. ASSUME c.kind = "zeroed"
          PROVE  joint'.offset = 0 /\ c.offset = -Physical
      <3>1. joint'.offset = 0 /\ job.auto /\ job.sure /\ joint.offset = 0 /\ c.offset = job.value
        BY <1>c, <2>3
      <3>2. job.value = -Physical - joint.offset
        BY <2>2, <3>1 DEF ZeroFound
      <3> QED
        BY <3>1, <3>2, ValueFacts
    <2> QED
      BY <2>2, <2>3 DEF Got
  <1>u. UNCHANGED <<drive, unseen, write, hand, reads, answers, known, shared, excused>>
    BY DEF Written, bus
  <1>r. RegisterTypes' /\ WriteTypes' /\ ReadTypes' /\ AnswerTypes' /\ FramesFit' /\ SeenEnabled'
        /\ ExcuseNeeded'
    BY <1>u, RegisterTypesKept, WriteTypesKept, ReadTypesKept, AnswerTypesKept, FramesFitKept,
       SeenEnabledKept, ExcuseNeededKept
  <1> QED
    BY <1>p1, <1>p2, <1>p3, <1>p4, <1>r, IInvNext

-----------------------------------------------------------------------------
(* Commands of other threads *)

\* EnableAxis preserves the invariant.
LEMMA EnableAxisStep ==
    ASSUME IInv, EnableAxis
    PROVE  IInv'
  <1> USE IInvParts
  <1>w. /\ UNCHANGED <<hand, drive, answers, shared, awaited, reply, unseen, job, joint, claim>>
        /\ excused' = TRUE /\ ~Locked
    BY DEF Enable, EnableAxis, protocol
  <1>c. calls' \in 0 .. MaxCalls
    BY CallType DEF EnableAxis
  <1>s. /\ WriteTypes' /\ write' # <<>> /\ write'[1] = <<"Enable", 1>>
        /\ OffsetPending' => OffsetPending
    <2>1. 1 \in Values /\ "Enable" \in Writable
      BY ValueFacts DEF Writable
    <2>2. Submit("Enable", 1)
      BY DEF Enable, EnableAxis
    <2> QED
      BY <1>w, <2>1, <2>2, SubmitType, SubmitOther
  <1>p1. WriteTypes'
    BY <1>s
  <1>p2. ReadTypes'
    <2>1. "Enable" \in Readable
      BY DEF Readable
    <2> QED
      BY <2>1, RequestType DEF Enable, EnableAxis
  <1>p3. ProtocolTypes'
    <2>1. known' \in [enabled : AtMostOne({0, 1}), mode : AtMostOne(Modes), position : AtMostOne(Values)]
      BY DEF Enable, EnableAxis, ProtocolTypes, AtMostOne
    <2> QED
      BY <1>w, <2>1 DEF ProtocolTypes
  <1>p4. SeenEnabled'
    <2>1. known'.enabled = {}
      BY DEF Enable, EnableAxis, ProtocolTypes
    <2> QED
      BY <1>w, <2>1 DEF SeenEnabled, Sent
  <1>p5. RestTypes'
    BY <1>c, <1>w DEF RestTypes
  <1>p6. FramesFit'
    BY <1>s, <1>w DEF FramesFit, IsWrite, Sent
  <1>p7. ExcuseNeeded'
    BY <1>s, <1>w DEF ExcuseNeeded
  <1>p8. OffsetOnWay' /\ OffsetArrived' /\ SaveOnWay'
    BY <1>w DEF OffsetOnWay, OffsetArrived, SaveOnWay, Locked
  <1>p9. PositionOfUse'
    BY <1>s, <1>w DEF PositionOfUse, Sent
  <1>p10. ClaimKept'
    BY <1>s, <1>w DEF ClaimKept
  <1>u. UNCHANGED <<drive, unseen, answers, job, awaited, reply, joint>>
    BY DEF Enable, EnableAxis, protocol
  <1>r. RegisterTypes' /\ AnswerTypes' /\ JobTypes' /\ JobFits' /\ Waits' /\ ZeroFound'
    BY <1>u, RegisterTypesKept, AnswerTypesKept, JobTypesKept, JobFitsKept, WaitsKept, ZeroFoundKept
  <1> QED
    BY <1>p1, <1>p2, <1>p3, <1>p4, <1>p5, <1>p6, <1>p7, <1>p8, <1>p9, <1>p10, <1>r, IInvNext

\* A Disable preserves the invariant.
LEMMA DisableStep ==
    ASSUME IInv, Call, ~Locked, Disable, UNCHANGED <<job, joint, excused, claim>>
    PROVE  IInv'
  <1> USE IInvParts
  <1>w. /\ UNCHANGED <<hand, drive, answers, shared, awaited, reply, unseen, job, joint, claim>>
        /\ excused' = excused /\ ~Locked
    BY DEF Disable, protocol
  <1>c. calls' \in 0 .. MaxCalls
    BY CallType
  <1>s. /\ WriteTypes' /\ write' # <<>> /\ write'[1] = <<"Enable", 0>>
        /\ OffsetPending' => OffsetPending
        /\ Pending(<<"Enable", 1>>)' => Pending(<<"Enable", 1>>)
    <2>1. 0 \in Values /\ "Enable" \in Writable
      BY ValueFacts DEF Writable
    <2>2. Submit("Enable", 0)
      BY DEF Disable
    <2> QED
      BY <1>w, <2>1, <2>2, SubmitType, SubmitOther
  <1>p1. WriteTypes'
    BY <1>s
  <1>p2. ReadTypes'
    <2>1. "Enable" \in Readable
      BY DEF Readable
    <2> QED
      BY <2>1, RequestType DEF Disable
  <1>p3. ProtocolTypes'
    <2>1. known' \in [enabled : AtMostOne({0, 1}), mode : AtMostOne(Modes), position : AtMostOne(Values)]
      BY DEF Disable, ProtocolTypes, AtMostOne
    <2> QED
      BY <1>w, <2>1 DEF ProtocolTypes
  <1>p4. SeenEnabled'
    <2>1. known'.enabled = {}
      BY DEF Disable, ProtocolTypes
    <2> QED
      BY <1>w, <2>1 DEF SeenEnabled, Sent
  <1>p5. RestTypes'
    BY <1>c, <1>w DEF RestTypes
  <1>p6. FramesFit'
    BY <1>s, <1>w DEF FramesFit, IsWrite, Sent
  <1>p7. ExcuseNeeded'
    BY <1>s, <1>w DEF ExcuseNeeded
  <1>p8. OffsetOnWay' /\ OffsetArrived' /\ SaveOnWay'
    BY <1>w DEF OffsetOnWay, OffsetArrived, SaveOnWay, Locked
  <1>p9. PositionOfUse'
    BY <1>s, <1>w DEF PositionOfUse, Sent
  <1>p10. ClaimKept'
    BY <1>s, <1>w DEF ClaimKept
  <1>u. UNCHANGED <<drive, unseen, answers, job, awaited, reply, joint>>
    BY DEF Disable, protocol
  <1>r. RegisterTypes' /\ AnswerTypes' /\ JobTypes' /\ JobFits' /\ Waits' /\ ZeroFound'
    BY <1>u, RegisterTypesKept, AnswerTypesKept, JobTypesKept, JobFitsKept, WaitsKept, ZeroFoundKept
  <1> QED
    BY <1>p1, <1>p2, <1>p3, <1>p4, <1>p5, <1>p6, <1>p7, <1>p8, <1>p9, <1>p10, <1>r, IInvNext

\* A Move preserves the invariant.
LEMMA MoveStep ==
    ASSUME IInv, Call, ~Locked, Move, UNCHANGED <<job, joint, excused, claim>>
    PROVE  IInv'
  <1> USE IInvParts
  <1>w. /\ UNCHANGED <<hand, drive, reads, answers, known, shared, awaited, reply, unseen, job, joint, claim>>
        /\ excused' = excused /\ ~Locked
    BY DEF Move, protocol
  <1>c. calls' \in 0 .. MaxCalls
    BY CallType
  <1>s. /\ WriteTypes' /\ write' # <<>> /\ write'[1] = <<"Motion", 0>>
        /\ OffsetPending' => OffsetPending
        /\ Pending(<<"Enable", 1>>)' => Pending(<<"Enable", 1>>)
    <2>1. 0 \in Values /\ "Motion" \in Writable
      BY ValueFacts DEF Writable
    <2>2. Submit("Motion", 0)
      BY DEF Move
    <2> QED
      BY <1>w, <2>1, <2>2, SubmitType, SubmitOther
  <1>p1. WriteTypes'
    BY <1>s
  <1>p2. RestTypes'
    BY <1>c, <1>w DEF RestTypes
  <1>p3. FramesFit'
    BY <1>s, <1>w DEF FramesFit, IsWrite, Sent
  <1>p4. ExcuseNeeded'
    BY <1>s, <1>w DEF ExcuseNeeded
  <1>p5. OffsetOnWay' /\ OffsetArrived' /\ SaveOnWay'
    BY <1>w DEF OffsetOnWay, OffsetArrived, SaveOnWay, Locked
  <1>p6. PositionOfUse'
    BY <1>s, <1>w DEF PositionOfUse, Sent
  <1>p7. ClaimKept'
    BY <1>s, <1>w DEF ClaimKept
  <1>u. UNCHANGED <<drive, unseen, reads, answers, known, shared, awaited, reply, job, joint>>
    BY DEF Move, protocol
  <1>r. RegisterTypes' /\ ReadTypes' /\ AnswerTypes' /\ ProtocolTypes' /\ JobTypes' /\ JobFits'
        /\ Waits' /\ SeenEnabled' /\ ZeroFound'
    BY <1>u, RegisterTypesKept, ReadTypesKept, AnswerTypesKept, ProtocolTypesKept, JobTypesKept,
       JobFitsKept, WaitsKept, SeenEnabledKept, ZeroFoundKept
  <1> QED
    BY <1>p1, <1>p2, <1>p3, <1>p4, <1>p5, <1>p6, <1>p7, <1>r, IInvNext

-----------------------------------------------------------------------------
(* The invariant *)

\* The invariant holds before anything is known of the drive.
LEMMA InitIInv == Init => IInv
  <1> SUFFICES ASSUME Init
               PROVE  IInv
    OBVIOUS
  <1>1. /\ drive \in Registers
        /\ drive.enabled \in {0, 1}
    <2>1. PICK e \in {0, 1} : drive = [enabled |-> e, mode |-> Position, offset |-> 0, saved |-> 0,
                                       corrected |-> FALSE]
      BY DEF Init, DriveInit
    <2>2. 0 \in Raw /\ Position \in Modes
      BY ValueFacts DEF Modes
    <2> QED
      BY <2>1, <2>2 DEF Registers
  <1>2. unseen = (drive.enabled = 1) /\ unseen \in BOOLEAN
    BY DEF Init, DriveInit
  <1>3. RegisterTypes
    BY <1>1, <1>2 DEF RegisterTypes
  <1>4. write = <<>> /\ hand = <<>> /\ answers = <<>> /\ reads = {} /\ awaited = <<>> /\ reply = {}
    BY DEF Init, DriveInit
  <1>5. WriteTypes
    BY <1>4 DEF WriteTypes
  <1>6. ReadTypes
    BY <1>4, FS_EmptySet, BoundsAssumption DEF ReadTypes
  <1>7. AnswerTypes /\ Sent = {}
    BY <1>4, BoundsAssumption DEF AnswerTypes, Sent
  <1>8. ProtocolTypes
    BY <1>4 DEF Init, DriveInit, ProtocolTypes, AtMostOne
  <1>9. job = Idle /\ JobTypes
    BY IdleFacts DEF Init, JobTypes
  <1>10. RestTypes
    <2>1. calls \in 0 .. MaxCalls
      BY CallsAssumption DEF Init
    <2>2. joint \in [mode : Modes, offset : Int]
      BY ValueFacts DEF Init, Modes
    <2>3. claim \in [kind : {"none", "written", "zeroed", "undone"}, offset : Int]
      BY ValueFacts DEF Init, NoClaim
    <2>4. excused = TRUE
      BY DEF Init
    <2> QED
      BY <2>1, <2>2, <2>3, <2>4 DEF RestTypes
  <1>11. FramesFit
    BY <1>4, <1>7 DEF FramesFit
  <1>12. JobFits /\ Waits
    BY <1>4, <1>9, IdleFacts DEF JobFits, Waits, Locked
  <1>13. SeenEnabled
    BY <1>2 DEF SeenEnabled
  <1>14. ExcuseNeeded
    BY DEF Init, ExcuseNeeded
  <1>15. OffsetOnWay /\ OffsetArrived /\ SaveOnWay /\ PositionOfUse /\ ZeroFound
    BY <1>9, IdleFacts DEF OffsetOnWay, OffsetArrived, SaveOnWay, PositionOfUse, ZeroFound
  <1>16. ClaimKept
    BY DEF Init, NoClaim, ClaimKept
  <1> QED
    BY <1>3, <1>5, <1>6, <1>7, <1>8, <1>9, <1>10, <1>11, <1>12, <1>13, <1>14, <1>15, <1>16, IInvParts

\* A write that failed: the request goes back, or gives up going back.
LEMMA GoBackStep ==
    ASSUME IInv, GoBack, job.pc \in {"ack", "serial", "save"}
    PROVE  IInv'
  <1>1. job \in Jobs /\ job.op = "zero"
    BY IInvParts DEF JobTypes, JobFits, Locked
  <1>2. CASE job.undo
    <2>1. Return(NoClaim) /\ UNCHANGED <<drive, write, hand, reads, answers, known, shared, unseen, calls,
                                         joint, excused>>
      BY <1>2 DEF GoBack, bus
    <2>2. /\ JobTypes' /\ JobFits' /\ Waits'
          /\ OffsetOnWay' /\ OffsetArrived' /\ SaveOnWay' /\ PositionOfUse' /\ ZeroFound'
          /\ awaited' = <<>> /\ reply' = {} /\ claim' = NoClaim
      BY <2>1, ReturnFacts
    <2>3. ProtocolTypes'
      BY <2>1, <2>2, IInvParts DEF ProtocolTypes, AtMostOne
    <2>4. RestTypes'
      BY <2>1, <2>2, IInvParts, ValueFacts DEF RestTypes, NoClaim
    <2>5. ClaimKept'
      BY <2>2 DEF ClaimKept, NoClaim
    <2>6. RegisterTypes' /\ WriteTypes' /\ ReadTypes' /\ AnswerTypes' /\ FramesFit' /\ SeenEnabled'
          /\ ExcuseNeeded'
      BY <2>1, IInvParts, RegisterTypesKept, WriteTypesKept, ReadTypesKept, AnswerTypesKept,
         FramesFitKept, SeenEnabledKept, ExcuseNeededKept
    <2> QED
      BY <2>2, <2>3, <2>4, <2>5, <2>6, IInvNext
  <1>3. CASE ~job.undo
    <2>1. PICK b \in BOOLEAN : b = (job.sure /\ ~job.auto)
      OBVIOUS
    <2>2. PICK j : j = [job EXCEPT !.undo = TRUE, !.value = job.prev, !.auto = FALSE, !.sure = b]
      OBVIOUS
    <2>3. WriteOffset(j, job.prev)
      BY <1>3, <2>1, <2>2 DEF GoBack
    <2>4. j \in Jobs /\ j.op = "zero" /\ j.undo = TRUE /\ j.prev = job.prev /\ j.auto = FALSE
      BY <1>1, <2>2, ValueFacts DEF Jobs
    <2> QED
      BY <1>1, <2>3, <2>4, WriteOffsetStep
  <1> QED
    BY <1>2, <1>3

\* The steps of the drive, the bus and the protocol preserve the invariant.
LEMMA DriveStepStep ==
    ASSUME IInv, DriveStep
    PROVE  IInv'
  BY TakeWriteStep, SendWriteStep, CorrectWriteStep, RefuseWriteStep, LoseWriteStep, SendReadStep,
     LoseReadStep, LoseAnswerStep, RefreshStep, HandleAckStep, HandleReadStep DEF DriveStep, RuntimeStep, ReceiverStep

\* The steps of a request preserve the invariant.
LEMMA MaintenanceStepStep ==
    ASSUME IInv, MaintenanceStep
    PROVE  IInv'
  <1>1. CASE OffsetRead
    <2>1. PICK v \in reply : Resolve(v, TRUE)
      BY <1>1 DEF OffsetRead
    <2>2. reply \subseteq Values
      BY IInvParts DEF ProtocolTypes, AtMostOne
    <2>3. v \in Int
      BY <2>2, ValueFacts
    <2> QED
      BY <1>1, <2>1, <2>3, ResolveStep DEF OffsetRead
  <1>2. CASE OffsetNotRead
    <2>1. joint.offset \in Int
      BY IInvParts, ValueFacts DEF RestTypes
    <2> QED
      BY <1>2, <2>1, ResolveStep DEF OffsetNotRead
  <1>3. CASE CheckFails \/ Unavailable \/ ConfirmTimeout
    BY <1>3, FailStep DEF CheckFails, Unavailable, ConfirmTimeout
  <1>4. CASE CheckDisabled \/ SetMode \/ Confirm \/ Preload \/ ApplyLimits
    BY <1>4, CheckDisabledStep, SetModeStep, ConfirmStep, PreloadStep, ApplyLimitsStep
  <1>5. CASE SetOffset
    <2>1. ~job.undo /\ job \in Jobs
      BY <1>5, IInvParts DEF SetOffset, JobFits, JobTypes, Locked
    <2> QED
      BY <1>5, <2>1, WriteOffsetStep DEF SetOffset
  <1>6. CASE OffsetAcknowledged
    <2>1. CASE Persist
      BY <1>6, <2>1, AskSerialStep DEF OffsetAcknowledged
    <2>2. CASE ~Persist
      <3>1. job.pc = "ack" /\ reply = {1} /\ Written /\ job.op = "zero"
        BY <1>6, <2>2, IInvParts DEF OffsetAcknowledged, JobFits, Locked
      <3>2. reply # {}
        BY <3>1
      <3>3. ~job.stray => write = <<>> /\ hand = <<>> /\ Got
        BY <3>1, <3>2, IInvParts DEF OffsetOnWay
      <3>4. ~job.stray => ~OffsetPending
        BY <3>3 DEF OffsetPending, Pending
      <3> QED
        BY <2>2, <3>1, <3>3, <3>4, WrittenStep
    <2> QED
      BY <2>1, <2>2
  <1>7. CASE OffsetRefused \/ SerialNotRead \/ SaveFails
    BY <1>7, GoBackStep DEF OffsetRefused, SerialNotRead, SaveFails
  <1>8. CASE SerialRead \/ SaveAgain
    BY <1>8, SaveStep DEF SerialRead, SaveAgain
  <1>9. CASE Saved
    <2>1. job.pc = "save" /\ reply = {1} /\ Written /\ job.op = "zero"
      BY <1>9, IInvParts DEF Saved, JobFits, Locked
    <2>2. ~job.stray => /\ write \in {<<>>, <<<<"Save", 0>>>>} /\ hand \in {<<>>, <<<<"Save", 0>>>>}
                        /\ Got /\ drive.saved = drive.offset
      BY <2>1, IInvParts DEF SaveOnWay
    <2>3. ~job.stray => ~OffsetPending
      BY <2>2 DEF OffsetPending, Pending
    <2> QED
      BY <2>1, <2>2, <2>3, WrittenStep
  <1> QED
    BY <1>1, <1>2, <1>3, <1>4, <1>5, <1>6, <1>7, <1>8, <1>9 DEF MaintenanceStep

\* The beginnings of the requests preserve the invariant.
LEMMA BeginStep ==
    ASSUME IInv, \/ \E z \in Zeros : BeginSetZero(z)
                 \/ BeginAutoZero \/ BeginApplyLimits
    PROVE  IInv'
  <1>1. ASSUME NEW z \in Zeros, BeginSetZero(z)
        PROVE  IInv'
    <2>1. PICK j : j = [Idle EXCEPT !.op = "zero", !.value = z]
      OBVIOUS
    <2>2. z \in Int
      BY RequestsAssumption
    <2>3. /\ j \in Jobs /\ j.op = "zero" /\ j.value = z
      BY <2>1, <2>2, IdleFacts DEF Jobs
    <2>4. j.undo = FALSE /\ j.auto = FALSE
      BY <2>1 DEF Idle
    <2> QED
      BY <1>1, <2>1, <2>2, <2>3, <2>4, AskOffsetStep DEF BeginSetZero
  <1>2. CASE BeginAutoZero
    <2>1. PICK p \in shared.position :
              AskOffset([Idle EXCEPT !.op = "zero", !.auto = TRUE, !.value = p + joint.offset,
                                     !.sure = (p = Physical + drive.offset) /\ ~OffsetPending])
      BY <1>2 DEF BeginAutoZero
    <2>2. PICK b \in BOOLEAN : b = ((p = Physical + drive.offset) /\ ~OffsetPending)
      OBVIOUS
    <2>3. PICK v : v = p + joint.offset
      OBVIOUS
    <2>4. PICK j : j = [Idle EXCEPT !.op = "zero", !.auto = TRUE, !.value = v, !.sure = b]
      OBVIOUS
    <2>5. p \in Values /\ joint.offset \in Int
      BY IInvParts DEF ProtocolTypes, AtMostOne, RestTypes
    <2>6. v \in Int
      BY <2>3, <2>5, ValueFacts
    <2>7. j \in Jobs /\ j.op = "zero" /\ j.value = v
      BY <2>4, <2>6, IdleFacts DEF Jobs
    <2>8. j.undo = FALSE /\ j.auto = TRUE /\ j.sure = b
      BY <2>4 DEF Idle
    <2>9. AskOffset(j)
      BY <2>1, <2>2, <2>3, <2>4
    <2>10. b => ~OffsetPending /\ v = Physical + drive.offset + joint.offset
      BY <2>2, <2>3
    <2> QED
      BY <1>2, <2>7, <2>8, <2>9, <2>10, AskOffsetStep DEF BeginAutoZero
  <1>3. CASE BeginApplyLimits
    <2>1. PICK j : j = [Idle EXCEPT !.op = "limits"]
      OBVIOUS
    <2>2. j \in Jobs /\ j.op = "limits"
      BY <2>1, IdleFacts DEF Jobs
    <2>3. j.undo = FALSE /\ j.auto = FALSE /\ j.value = 0
      BY <2>1 DEF Idle
    <2> QED
      BY <1>3, <2>1, <2>2, <2>3, ValueFacts, AskOffsetStep DEF BeginApplyLimits
  <1> QED
    BY <1>1, <1>2, <1>3

\* Every step preserves the invariant.
LEMMA NextIInv == IInv /\ [Next]_vars => IInv'
  <1> SUFFICES ASSUME IInv, [Next]_vars
               PROVE  IInv'
    OBVIOUS
  <1>1. CASE DriveStep
    BY <1>1, DriveStepStep
  <1>2. CASE MaintenanceStep
    BY <1>2, MaintenanceStepStep
  <1>3. CASE EnableAxis
    BY <1>3, EnableAxisStep
  <1>4. CASE OtherCommand
    BY <1>4, DisableStep, MoveStep DEF OtherCommand
  <1>5. ASSUME NEW m \in Switches, BeginSetMode(m)
        PROVE  IInv'
    BY <1>5, BeginSetModeStep
  <1>6. ASSUME NEW z \in Zeros, BeginSetZero(z) \/ SetLocalZero(z)
        PROVE  IInv'
    BY <1>6, BeginStep, SetLocalZeroStep
  <1>7. CASE BeginAutoZero \/ BeginApplyLimits
    BY <1>7, BeginStep
  <1>8. CASE UNCHANGED vars
    <2>1. UNCHANGED <<drive, write, hand, reads, answers, known, awaited, reply, shared, unseen,
                      job, calls, joint, excused, claim>>
      BY <1>8 DEF vars, driveVars, bus, protocol
    <2> QED
      BY <2>1, IInvParts, RegisterTypesKept, WriteTypesKept, ReadTypesKept, AnswerTypesKept,
         ProtocolTypesKept, JobTypesKept, RestTypesKept, FramesFitKept, JobFitsKept, WaitsKept,
         SeenEnabledKept, ExcuseNeededKept, OffsetOnWayKept, OffsetArrivedKept, SaveOnWayKept,
         PositionOfUseKept, ZeroFoundKept, ClaimKeptKept, IInvNext
  <1> QED
    BY <1>1, <1>2, <1>3, <1>4, <1>5, <1>6, <1>7, <1>8 DEF Next

-----------------------------------------------------------------------------
(* Theorems *)

\* The invariant holds in every state, for every number of answers on their way,
\* of reads in the queue, of saves and of requests.
THEOREM Invariant == Spec => []IInv
  BY InitIInv, NextIInv, PTL DEF Spec

\* Every variable keeps its type: the offset that is written fits whatever
\* position and offset it is computed from (scaleAndClampToInt32), and the
\* queues stay within their bounds.
THEOREM TypeCorrect == Spec => []TypeOK
  <1>1. IInv => TypeOK
    BY DEF IInv
  <1> QED
    BY <1>1, Invariant, PTL

\* What a set_zero tells its caller is true of the drive, as far as the value
\* that was told fits the register and the drive has not corrected it; what the
\* drive has is in its flash memory.  It stays so until the next set_zero, for
\* every request and every correction (SetZeroByMotorId, writePositionOffset,
\* scaleAndClampToInt32, persistParameters, handleResponse).
THEOREM SetZeroTellsTheTruth == Spec => []ZeroAsTold
  <1>1. IInv => ZeroAsTold
    <2> SUFFICES ASSUME IInv, claim.kind # "none"
                 PROVE  /\ Persist => drive.saved = drive.offset
                        /\ ~drive.corrected =>
                              /\ drive.offset = Clamp(claim.offset)
                              /\ claim.kind = "zeroed" => Physical + drive.offset + joint.offset = 0
      BY DEF ZeroAsTold
    <2>1. /\ Persist => drive.saved = drive.offset
          /\ ~drive.corrected => drive.offset = Clamp(claim.offset)
          /\ claim.kind = "zeroed" => joint.offset = 0 /\ claim.offset = -Physical
      BY IInvParts DEF ClaimKept
    <2>2. Physical + (-Physical) + 0 = 0 /\ Clamp(-Physical) = -Physical
      BY ValueFacts, ClampFacts
    <2> QED
      BY <2>1, <2>2
  <1> QED
    BY <1>1, Invariant, PTL

\* The mode and the offset of an enabled drive are changed only within the
\* window of the check: an Enable was on its way, or not yet told, when the axis
\* was found disabled, or it was called since
\* (requireAxisDisabledForConfiguration).
THEOREM ConfiguredWhileDisabled == Spec => ConfiguredDisabled
  <1>1. IInv /\ [Next]_vars =>
            [drive.enabled = 1 /\ (drive'.mode # drive.mode \/ drive'.offset # drive.offset)
               => excused]_vars
    BY IInvParts DEF ExcuseNeeded
  <1> QED
    BY <1>1, Invariant, PTL DEF Spec, ConfiguredDisabled
=============================================================================
