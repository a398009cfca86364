------------------------------ MODULE PpDrive ------------------------------
(***************************************************************************)
(* One PP (Eyou) axis: the registers of its drive, EyouCan that reads and   *)
(* writes them, the queues of the device, the refresh worker that keeps     *)
(* asking and the receive thread.  PpMaintenance adds the thread that       *)
(* configures the axis.                                                     *)
(*                                                                         *)
(* All writes to the axis have the same CAN id, whatever the register, so   *)
(* the Control queue holds the newest one only; the one that the worker has *)
(* popped is sent all the same.  A read is asked for again only when its    *)
(* last frame was sent, so the Query queue is a set of registers.  Popping, *)
(* sending and completing a read are one step: no write reaches the drive   *)
(* in between, the answer may be as late as it likes, and a wait that is    *)
(* given up for the mark of the popped read is one that times out.          *)
(* An answer is handled and published in one step: only the receive thread  *)
(* publishes.  What was published may be found too old whenever it is       *)
(* looked at.  What an answer leaves for a waiting thread is kept only      *)
(* while there is one, since every wait begins by forgetting what came      *)
(* before.                                                                  *)
(*                                                                         *)
(* Left out: the fault register with its Recover queue, and fast writes,    *)
(* which are not acknowledged.  The axis stands.                            *)
(***************************************************************************)
EXTENDS Integers, Sequences, FiniteSets

CONSTANTS
    Physical,       \* the position of the axis, in raw units
    MaxRaw,         \* bound: offsets are clamped to -MaxRaw .. MaxRaw (32 bits
                    \* in the code)
    Corrections,    \* offsets that the drive may take over in place of another
    Refreshed,      \* the registers the refresh worker reads
    MaxReads,       \* bound: frames in the Query queue
    MaxAnswers      \* bound: answers not yet read

ASSUME RawAssumption == MaxRaw \in Nat /\ Physical \in -MaxRaw .. MaxRaw
ASSUME CorrectionsAssumption == Corrections \subseteq -MaxRaw .. MaxRaw
ASSUME RefreshedAssumption == Refreshed \subseteq {"Position", "Mode", "Enable"}
ASSUME BoundsAssumption == MaxReads \in Nat \ {0} /\ MaxAnswers \in Nat \ {0}

VARIABLES
    drive,    \* the drive's registers; saved is the offset in its flash memory;
              \* corrected: the offset is not the one that was written
    write,    \* the Control queue: at most one register write
    hand,     \* the write that the worker has popped and not sent yet, or <<>>
    reads,    \* the Query queue: the registers to be read
    answers,  \* answers on their way to the receive thread
    known,    \* MotorState: values that were read, empty sets for others
    shared,   \* the axis feedback in SharedDriverState
    awaited,  \* the answer that a thread waits for, <<>> when none does
    reply,    \* its value, once it has come
    unseen    \* history: the drive was enabled, and it was not published since or an
              \* older answer that says otherwise is still on its way

protocol == <<known, awaited, reply>>
bus == <<write, hand, reads, answers>>
driveVars == <<drive, bus, protocol, shared, unseen>>

Raw == -MaxRaw .. MaxRaw
Position == 1
Velocity == 3
Modes == {Position, Velocity}
Readable == {"Position", "Mode", "Enable", "Offset", "Serial"}
Writable == {"Mode", "Enable", "Offset", "Save", "Motion"}
Values == Raw \cup Modes \cup {Physical + o : o \in Raw} \cup {0, 1}
AtMostOne(S) == {{}} \cup {{x} : x \in S}

DriveTypeOK ==
    /\ drive \in [enabled : {0, 1}, mode : Modes, offset : Raw, saved : Raw,
                 corrected : BOOLEAN]
    /\ write \in {<<>>} \cup {<<f>> : f \in Writable \X Values}
    /\ hand \in {<<>>} \cup {<<f>> : f \in Writable \X Values}
    /\ reads \subseteq Readable /\ Cardinality(reads) <= MaxReads
    /\ answers \in Seq({"read", "ack"} \X (Readable \cup Writable) \X Values)
    /\ Len(answers) <= MaxAnswers
    /\ known \in [enabled : AtMostOne({0, 1}), mode : AtMostOne(Modes), position : AtMostOne(Values)]
    /\ shared \in [enabled : AtMostOne({0, 1}), mode : AtMostOne(Modes),
                   position : AtMostOne(Values)]
    /\ awaited \in {<<>>} \cup ({"read", "ack"} \X (Readable \cup Writable))
    /\ reply \in AtMostOne(Values)
    /\ unseen \in BOOLEAN

\* initializeMotorRefresh: nothing is known.  The drive may have been left
\* enabled, and has its offset from the flash memory.
DriveInit ==
    /\ drive \in {[enabled |-> e, mode |-> Position, offset |-> 0, saved |-> 0,
                   corrected |-> FALSE] : e \in {0, 1}}
    /\ write = <<>> /\ hand = <<>> /\ reads = {} /\ answers = <<>>
    /\ known = [enabled |-> {}, mode |-> {}, position |-> {}]
    /\ shared = [enabled |-> {}, mode |-> {}, position |-> {}]
    /\ awaited = <<>> /\ reply = {}
    /\ unseen = (drive.enabled = 1)

-----------------------------------------------------------------------------
(* Reads and writes *)

\* sendWriteCommand: the write takes the place of the one that waits.
Submit(register, value) == write' = <<<<register, value>>>>

\* tryIssueReadCommand; a full queue drops the read, and nobody is told.
Request(register) ==
    reads' = IF Cardinality(reads) < MaxReads THEN reads \cup {register} ELSE reads

\* A wait begins: for the acknowledgement of a write ...
WriteAndWait(register, value) ==
    /\ awaited' = <<"ack", register>> /\ reply' = {}
    /\ Submit(register, value)

\* ... or for a read, which is given up at once when one is marked as queued; a
\* late answer may have taken the mark from one that still is.
ReadAndWait(register) ==
    /\ awaited' \in {<<"read", register>>} \cup (IF register \in reads THEN {<<>>} ELSE {})
    /\ reply' = {}
    /\ Request(register)

EndWait == awaited' = <<>> /\ reply' = {}

\* An answer to an earlier exchange about the register is still on its way, or its
\* write is about to be sent.
Leftover(kind, register) ==
    \/ \E i \in 1 .. Len(answers) : answers[i][1] = kind /\ answers[i][2] = register
    \/ kind = "ack" /\ hand # <<>> /\ hand[1][1] = register

-----------------------------------------------------------------------------
(* Operations of other threads *)

Enable ==
    /\ known' = [known EXCEPT !.enabled = {}]
    /\ Submit("Enable", 1)
    /\ Request("Enable")
    /\ UNCHANGED <<drive, hand, answers, shared, awaited, reply, unseen>>

\* Seeded fault: the drive is taken to be disabled as soon as it is asked to be.
DisableOptimistic ==
    /\ known' = [known EXCEPT !.enabled = {0}]
    /\ Submit("Enable", 0)
    /\ Request("Enable")
    /\ UNCHANGED <<drive, hand, answers, shared, awaited, reply, unseen>>

Disable ==
    /\ known' = [known EXCEPT !.enabled = {}]
    /\ Submit("Enable", 0)
    /\ Request("Enable")
    /\ UNCHANGED <<drive, hand, answers, shared, awaited, reply, unseen>>

\* Stop, setVelocity, setPosition, quickSetPosition, setAcceleration,
\* setDeceleration: registers that are not told apart.
Move ==
    /\ Submit("Motion", 0)
    /\ UNCHANGED <<drive, hand, reads, answers, protocol, shared, unseen>>

-----------------------------------------------------------------------------
(* The refresh worker *)

\* One due query of the plan; the periods are left to the choice of the moment.
Refresh(q) ==
    /\ q \notin reads /\ Cardinality(reads) < MaxReads
    /\ Request(q)
    /\ UNCHANGED <<drive, write, hand, answers, protocol, shared, unseen>>

-----------------------------------------------------------------------------
(* The worker of DeviceRuntime, the bus and the drive *)

\* Frames are sent only while there is room for an answer.
CanAnswer == Len(answers) < MaxAnswers

Obey(d, f) ==
    CASE f[1] = "Mode"   -> [d EXCEPT !.mode = f[2]]
      [] f[1] = "Enable" -> [d EXCEPT !.enabled = f[2]]
      [] f[1] = "Offset" -> [d EXCEPT !.offset = f[2], !.corrected = FALSE]
      [] f[1] = "Save"   -> [d EXCEPT !.saved = d.offset]
      [] OTHER           -> d

Content(register) ==
    CASE register = "Position" -> Physical + drive.offset
      [] register = "Mode"     -> drive.mode
      [] register = "Enable"   -> drive.enabled
      [] register = "Offset"   -> drive.offset
      [] OTHER                 -> 0

\* The worker pops the write, which no newer one replaces any more ...
TakeWrite ==
    /\ hand = <<>> /\ write # <<>>
    /\ hand' = write
    /\ write' = <<>>
    /\ UNCHANGED <<drive, reads, answers, protocol, shared, unseen>>

\* ... and sends it without the lock.
HandLeaves == hand # <<>> /\ CanAnswer /\ hand' = <<>>

\* The answer to a write nobody waits for tells nothing and is left out.
Acknowledged(f) ==
    IF f[1] \in {"Offset", "Save"} THEN Append(answers, <<"ack", f[1], 1>>) ELSE answers

\* The drive takes the write over.
SendWrite ==
    /\ HandLeaves
    /\ drive' = Obey(drive, hand[1])
    /\ unseen' = (drive'.enabled = 1 /\ (unseen \/ drive.enabled = 0))
    /\ answers' = Acknowledged(hand[1])
    /\ UNCHANGED <<write, reads, protocol, shared>>

\* It takes another offset over and says so (state 0x05, "corrected"), which
\* writeCommandAndWaitForAck takes for a success like any other.
CorrectWrite ==
    /\ HandLeaves
    /\ hand[1][1] = "Offset"
    /\ \E o \in Corrections \ {hand[1][2]} : drive' = [drive EXCEPT !.offset = o, !.corrected = TRUE]
    /\ answers' = Acknowledged(hand[1])
    /\ UNCHANGED <<write, reads, protocol, shared, unseen>>

\* It answers that it does not.
RefuseWrite ==
    /\ HandLeaves
    /\ answers' = Append(answers, <<"ack", hand[1][1], 0>>)
    /\ UNCHANGED <<drive, write, reads, protocol, shared, unseen>>

LoseWrite ==
    /\ HandLeaves
    /\ UNCHANGED <<drive, write, reads, answers, protocol, shared, unseen>>

SendRead(r) ==
    /\ hand = <<>> /\ write = <<>> /\ r \in reads /\ CanAnswer
    /\ reads' = reads \ {r}
    /\ answers' = Append(answers, <<"read", r, Content(r)>>)
    /\ UNCHANGED <<drive, write, hand, protocol, shared, unseen>>

\* onReadDispatchResult after a failed send.
LoseRead(r) ==
    /\ hand = <<>> /\ write = <<>> /\ r \in reads /\ CanAnswer
    /\ reads' = reads \ {r}
    /\ UNCHANGED <<drive, write, hand, answers, protocol, shared, unseen>>

LoseAnswer ==
    /\ answers # <<>>
    /\ answers' = Tail(answers)
    /\ UNCHANGED <<drive, write, hand, reads, protocol, shared, unseen>>

-----------------------------------------------------------------------------
(* The receive thread *)

\* For the thread that waits for it.
Deliver(kind, register, value) ==
    /\ reply' = IF awaited = <<kind, register>> THEN {value} ELSE reply
    /\ UNCHANGED awaited

Learn(register, value) ==
    CASE register = "Position" -> [known EXCEPT !.position = {value}]
      [] register = "Mode"     -> [known EXCEPT !.mode = {value}]
      [] register = "Enable"   -> [known EXCEPT !.enabled = {value}]
      [] OTHER                 -> known

\* Seeded fault: what was read is not published.
HandleReadSilently(register) ==
    /\ answers # <<>> /\ Head(answers)[1] = "read" /\ Head(answers)[2] = register
    /\ known' = Learn(register, Head(answers)[3])
    /\ Deliver("read", register, Head(answers)[3])
    /\ answers' = Tail(answers)
    /\ UNCHANGED <<drive, write, hand, reads, shared, unseen>>

\* An answer from before the drive was enabled is behind the one being handled.
OutdatedFollows == \E i \in 2 .. Len(answers) : answers[i] = <<"read", "Enable", 0>>

\* A read response: all that is known is published, whatever was read.
HandleRead(register) ==
    /\ answers # <<>> /\ Head(answers)[1] = "read" /\ Head(answers)[2] = register
    /\ known' = Learn(register, Head(answers)[3])
    /\ shared' = [enabled |-> known'.enabled, mode |-> known'.mode,
                  position |-> known'.position]
    /\ unseen' = (unseen /\ (shared'.enabled # {1} \/ OutdatedFollows))
    /\ Deliver("read", register, Head(answers)[3])
    /\ answers' = Tail(answers)
    /\ UNCHANGED <<drive, write, hand, reads>>

\* A write acknowledgement; after a failed one the register is read again (that
\* of a motion register is left to Refresh).
HandleAck ==
    /\ answers # <<>> /\ Head(answers)[1] = "ack"
    /\ Deliver("ack", Head(answers)[2], Head(answers)[3])
    /\ IF Head(answers)[2] \in {"Mode", "Enable"} /\ Head(answers)[3] = 0
       THEN Request(Head(answers)[2]) ELSE UNCHANGED reads
    /\ answers' = Tail(answers)
    /\ UNCHANGED <<drive, write, hand, known, shared, unseen>>

RuntimeStep ==
    \/ TakeWrite \/ SendWrite \/ CorrectWrite \/ RefuseWrite \/ LoseWrite
    \/ \E r \in Readable : SendRead(r) \/ LoseRead(r)

ReceiverStep == HandleAck \/ \E r \in Readable : HandleRead(r)
=============================================================================
