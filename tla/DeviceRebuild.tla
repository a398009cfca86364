--------------------------- MODULE DeviceRebuild ---------------------------
(***************************************************************************)
(* One CAN or UDP device over its life in DeviceManager: it is initialised, *)
(* rebuilt by a recover and shut down, while other threads use it.          *)
(*                                                                         *)
(* The lifecycle thread works under mutex_.  It joins the refresh worker    *)
(* and the receive thread of the transport.  Callers (the control loop, the *)
(* motor actions) take a shared pointer to a protocol and the device's      *)
(* command mutex from the manager, each under mutex_, and then work without *)
(* mutex_: a rebuild does not wait for them, and the protocol they hold is  *)
(* destroyed when the last of them lets it go.                              *)
(*                                                                         *)
(* Command mutexes and runtimes are named by the build that made them.  The *)
(* queues of the runtime are the subject of DeviceRuntime: here a frame is  *)
(* on the bus as soon as it is submitted to a runtime that runs.            *)
(***************************************************************************)
EXTENDS Naturals, Sequences, FiniteSets

CONSTANTS
    Devices,    \* the devices to consider: a kind of transport, the protocols on it
    Callers,    \* threads that use the protocols
    MaxBuilds   \* bound: calls of initDevice

ASSUME DevicesAssumption ==
    Devices \subseteq [kind : {"socket", "udp"}, types : SUBSET {"MT", "PP", "DM"}]
ASSUME MaxBuildsAssumption == MaxBuilds \in Nat \ {0}

VARIABLES
    device,       \* the device
    todo,         \* the steps the lifecycle thread has yet to take
    build,        \* calls of initDevice so far
    present,      \* the manager has a transport of the device
    mutex,        \* deviceCmdMutexes_, 0 without an entry
    dispatcher,   \* txDispatchers_, 0 without an entry
    current,      \* mtProtocols_, eyouProtocols_ and damiaoProtocols_
    alive,        \* the protocol objects that exist
    halted,       \* runtimes that were shut down
    up,           \* the transport is open (initialized_)
    handlers,     \* its receive handlers: the pairs <<id, object>>
    nextId,       \* nextHandlerId_
    latest,       \* which of its time stamps is the later one: a loss or a reception
    rx, rxCalls,  \* the receive thread, and the handlers it has yet to call
    worker,       \* the refresh worker
    borrowed,     \* the protocols its tick has locked
    stop,         \* which of the two threads is asked to end
    keepalive,    \* the intent of the DM axes asks for keepalives
    link, answer, \* the bus works; an answer is waiting to be read
    caller,       \* the callers
    opened        \* history: the build that opened the device after its last shutdown

types == device.types
manager == <<present, mutex, dispatcher, current>>
transport == <<up, handlers, nextId, latest>>
threads == <<rx, rxCalls, worker, borrowed, stop>>
bus == <<link, answer>>
vars == <<device, todo, build, manager, alive, halted, transport, threads, keepalive, bus, caller, opened>>

Builds == 1..MaxBuilds

Objects == [type : {"MT", "PP", "DM"}, runtime : Builds, opened : Builds, id : 1..4]
None == [type |-> "none"]

ManagerSteps == {"stopWorker", "joinWorker", "stopRx", "joinRx", "drop", "erase",
                 "open", "reopen", "runtime", "MT", "PP", "DM", "start", "hooks"}
Idle == [pc |-> "idle", object |-> None, mutex |-> 0]

TypeOK ==
    /\ device \in Devices
    /\ todo \in Seq(ManagerSteps)
    /\ build \in 0..MaxBuilds
    /\ present \in BOOLEAN /\ up \in BOOLEAN
    /\ mutex \in 0..MaxBuilds /\ dispatcher \in 0..MaxBuilds
    /\ current \in [types -> Objects \cup {None}]
    /\ alive \subseteq Objects
    /\ halted \subseteq Builds
    /\ handlers \subseteq (1..Cardinality(types)) \X Objects
    /\ nextId \in 1..(Cardinality(types) + 1)
    /\ latest \in {"none", "loss", "reception"}
    /\ rx \in {"off", "idle", "calling"}
    /\ rxCalls \subseteq Objects
    /\ worker \in {"off", "idle", "ticking"}
    /\ borrowed \subseteq Objects
    /\ stop \in [{"rx", "worker"} -> BOOLEAN]
    /\ keepalive \in BOOLEAN /\ link \in BOOLEAN /\ answer \in BOOLEAN
    /\ opened \in 0..MaxBuilds
    /\ caller \in [Callers -> [pc : {"idle", "fetched", "waiting", "using"},
                               object : Objects \cup {None}, mutex : 0..MaxBuilds]]

Init ==
    /\ device \in Devices
    /\ todo = <<>> /\ build = 0
    /\ present = FALSE /\ mutex = 0 /\ dispatcher = 0
    /\ current = [t \in types |-> None]
    /\ alive = {} /\ halted = {}
    /\ up = FALSE /\ handlers = {} /\ nextId = 1 /\ latest = "none"
    /\ rx = "off" /\ rxCalls = {}
    /\ worker = "off" /\ borrowed = {}
    /\ stop = [t \in {"rx", "worker"} |-> FALSE]
    /\ keepalive = FALSE /\ link = TRUE /\ answer = FALSE
    /\ caller = [c \in Callers |-> Idle] /\ opened = 0

-----------------------------------------------------------------------------
(* References to protocol objects and their destruction *)

Holders(o) == {c \in Callers : caller[c].object = o}

\* The destructor of a protocol shuts down the runtime it was built with.
RuntimesShutBy(S) == {o.runtime : o \in S}

\* The destructors of the objects in S: each removes the handler that has its
\* id, whosever it is, and shuts down its runtime.  After a shutdown and a new
\* init an object from before has a transport of its own, on which it removes
\* nothing that is in use; the model lets it do so, which is more than the
\* code does.
Destroy(S) ==
    /\ alive' = alive \ S
    /\ handlers' = {h \in handlers : \A o \in S : h[1] # o.id}
    /\ halted' = halted \cup RuntimesShutBy(S)

-----------------------------------------------------------------------------
(* The lifecycle thread *)

\* Seeded fault: the protocols are released while frames are still received.
TeardownProtocolsFirst == <<"stopWorker", "joinWorker", "drop", "stopRx", "joinRx">>

\* Seeded fault: the refresh worker is not stopped.
TeardownWorkerRunning == <<"stopRx", "joinRx", "drop">>

\* Both initDevice and shutdownDeviceLocked stop the refresh worker, close the
\* transport and release the protocols, in this order.
Teardown == <<"stopWorker", "joinWorker", "stopRx", "joinRx", "drop">>

\* A protocol is made when it has motors on this device.
IfUsed(t) == IF t \in types THEN <<t>> ELSE <<>>

\* The rest of initDevice, in its order.
BuildSteps ==
    <<"runtime">> \o IfUsed("MT") \o IfUsed("PP") \o IfUsed("DM") \o <<"start", "hooks">>

\* initDevice, of a device the manager does not know or of one it rebuilds.
InitDevice ==
    /\ todo = <<>> /\ build < MaxBuilds
    /\ build' = build + 1
    /\ todo' = IF present THEN Teardown \o <<"reopen">> \o BuildSteps
               ELSE <<"open">> \o BuildSteps
    /\ UNCHANGED <<device, manager, alive, halted, transport, threads, keepalive, bus, caller, opened>>

ShutdownDevice ==
    /\ todo = <<>> /\ present
    /\ todo' = Teardown \o <<"erase">>
    /\ UNCHANGED <<device, build, manager, alive, halted, transport, threads, keepalive, bus, caller, opened>>

At(step) == todo # <<>> /\ Head(todo) = step

\* mutex_ is held but for the hooks of prepareLifecycleDeviceForStandby.
Locked == todo # <<>> /\ Head(todo) # "hooks"

StopWorker ==
    /\ At("stopWorker")
    /\ stop' = [stop EXCEPT !["worker"] = TRUE]
    /\ todo' = Tail(todo)
    /\ UNCHANGED <<device, build, manager, alive, halted, transport, rx, rxCalls, worker, borrowed,
                   keepalive, bus, caller, opened>>

JoinWorker ==
    /\ At("joinWorker") /\ worker = "off"
    /\ stop' = [stop EXCEPT !["worker"] = FALSE]
    /\ todo' = Tail(todo)
    /\ UNCHANGED <<device, build, manager, alive, halted, transport, rx, rxCalls, worker, borrowed,
                   keepalive, bus, caller, opened>>

\* Seeded fault: the transport closes without telling its thread to end.
StopReceivingUnasked ==
    /\ At("stopRx")
    /\ up' = FALSE
    /\ todo' = Tail(todo)
    /\ UNCHANGED <<device, build, manager, alive, halted, handlers, nextId, latest, threads,
                   keepalive, bus, caller, opened>>

\* shutdown() of the transport, up to the join.
StopReceiving ==
    /\ At("stopRx")
    /\ up' = FALSE
    /\ stop' = [stop EXCEPT !["rx"] = TRUE]
    /\ todo' = Tail(todo)
    /\ UNCHANGED <<device, build, manager, alive, halted, handlers, nextId, latest, rx, rxCalls,
                   worker, borrowed, keepalive, bus, caller, opened>>

\* Seeded fault: the counter of the handler ids is not reset.
CloseTransportKeepingIds ==
    /\ At("joinRx") /\ rx = "off"
    /\ stop' = [stop EXCEPT !["rx"] = FALSE]
    /\ handlers' = {} /\ latest' = "none"
    /\ answer' = FALSE
    /\ todo' = Tail(todo)
    /\ UNCHANGED <<device, build, manager, alive, halted, up, nextId, rx, rxCalls, worker, borrowed,
                   keepalive, link, caller, opened>>

\* ... and the rest: the handlers are cleared, their ids start at 1 again, and
\* the statistics are reset.
CloseTransport ==
    /\ At("joinRx") /\ rx = "off"
    /\ stop' = [stop EXCEPT !["rx"] = FALSE]
    /\ handlers' = {} /\ nextId' = 1 /\ latest' = "none"
    /\ answer' = FALSE
    /\ todo' = Tail(todo)
    /\ UNCHANGED <<device, build, manager, alive, halted, up, rx, rxCalls, worker, borrowed,
                   keepalive, link, caller, opened>>

\* resetDeviceRuntimeLocked: the objects nobody else holds are destroyed.
DropProtocols ==
    /\ At("drop")
    /\ current' = [t \in types |-> None]
    /\ dispatcher' = 0
    /\ Destroy({o \in alive : o = current[o.type] /\ Holders(o) = {} /\ o \notin borrowed})
    /\ todo' = Tail(todo)
    /\ UNCHANGED <<device, build, present, mutex, up, nextId, latest, threads, keepalive, bus, caller, opened>>

\* The end of shutdownDeviceLocked.
Erase ==
    /\ At("erase")
    /\ present' = FALSE /\ mutex' = 0
    /\ todo' = Tail(todo)
    /\ UNCHANGED <<device, build, dispatcher, current, alive, halted, transport, threads, keepalive,
                   bus, caller, opened>>

\* Seeded fault: every build has a command mutex of its own.
CommandMutexAlwaysNew == build

\* The command mutex of the device survives a rebuild.
CommandMutex == IF mutex # 0 THEN mutex ELSE build

\* initializeTransportLocked: the socket is bound and its thread started.
OpenTransport ==
    /\ At("open") \/ At("reopen")
    /\ up' = TRUE /\ present' = TRUE
    /\ rx' = "idle"
    /\ mutex' = CommandMutex
    /\ opened' = IF present THEN opened ELSE build
    /\ todo' = Tail(todo)
    /\ UNCHANGED <<device, build, dispatcher, current, alive, halted, handlers, nextId, latest,
                   rxCalls, worker, borrowed, stop, keepalive, bus, caller>>

\* The socket cannot be opened: a device that was known is shut down.
OpenFails ==
    /\ At("open") \/ At("reopen")
    /\ todo' = IF At("reopen") THEN Teardown \o <<"erase">> ELSE <<>>
    /\ UNCHANGED <<device, build, manager, alive, halted, transport, threads, keepalive, bus, caller, opened>>

MakeRuntime ==
    /\ At("runtime")
    /\ dispatcher' = build
    /\ todo' = Tail(todo)
    /\ UNCHANGED <<device, build, present, mutex, current, alive, halted, transport, threads,
                   keepalive, bus, caller, opened>>

\* The constructor of a protocol registers its receive handler.
MakeProtocol(t) ==
    LET o == [type |-> t, runtime |-> dispatcher, opened |-> opened, id |-> nextId] IN
    /\ At(t)
    /\ current' = [current EXCEPT ![t] = o]
    /\ alive' = alive \cup {o}
    /\ handlers' = handlers \cup {<<nextId, o>>}
    /\ nextId' = nextId + 1
    /\ todo' = Tail(todo)
    /\ UNCHANGED <<device, build, present, mutex, dispatcher, halted, up, latest, threads, keepalive,
                   bus, caller, opened>>

StartWorker ==
    /\ At("start")
    /\ worker' = "idle"
    /\ todo' = Tail(todo)
    /\ UNCHANGED <<device, build, manager, alive, halted, transport, rx, rxCalls, borrowed, stop,
                   keepalive, bus, caller, opened>>

\* The rest of prepareLifecycleDeviceForStandby; a hook that fails takes the
\* device down again.
Hooks(ok) ==
    /\ At("hooks")
    /\ todo' = IF ok THEN <<>> ELSE Teardown \o <<"erase">>
    /\ UNCHANGED <<device, build, manager, alive, halted, transport, threads, keepalive, bus, caller, opened>>

LifecycleStep ==
    \/ StopWorker \/ JoinWorker \/ StopReceiving \/ CloseTransport \/ DropProtocols \/ Erase
    \/ OpenTransport \/ OpenFails \/ MakeRuntime \/ StartWorker
    \/ \E t \in types : MakeProtocol(t)
    \/ \E ok \in BOOLEAN : Hooks(ok)

-----------------------------------------------------------------------------
(* Frames *)

\* send() of the transport: the drive answers, or the loss of the link is
\* noted, which only the SocketCAN transport does.
Send(runtime) ==
    IF ~up \/ runtime \in halted THEN UNCHANGED <<answer, latest>>
    ELSE /\ answer' = (answer \/ link)
         /\ latest' = IF ~link /\ device.kind = "socket" THEN "loss" ELSE latest

LinkChanges ==
    /\ link' = ~link
    /\ UNCHANGED <<device, todo, build, manager, alive, halted, transport, threads, keepalive, answer, caller, opened>>

\* MT and PP axes are polled for ever, DM axes by keepalives.
Polled(t) == t \in types /\ (t = "DM" => keepalive)

\* A tick locks the protocols it asks ...
Tick ==
    /\ worker = "idle" /\ ~stop["worker"]
    /\ worker' = "ticking"
    /\ borrowed' = {current[t] : t \in {s \in types : current[s] # None}}
    /\ UNCHANGED <<device, todo, build, manager, alive, halted, transport, rx, rxCalls, stop, keepalive,
                   bus, caller, opened>>

\* ... sends a query and lets them go.
TickEnds ==
    LET last == {o \in borrowed : o # current[o.type] /\ Holders(o) = {}} IN
    /\ worker = "ticking"
    /\ worker' = "idle" /\ borrowed' = {}
    /\ IF \E o \in borrowed : Polled(o.type)
       THEN Send((CHOOSE o \in borrowed : Polled(o.type)).runtime)
       ELSE UNCHANGED <<answer, latest>>
    /\ Destroy(last)
    /\ UNCHANGED <<device, todo, build, manager, up, nextId, rx, rxCalls, stop, keepalive, link, caller, opened>>

WorkerExits ==
    /\ worker = "idle" /\ stop["worker"]
    /\ worker' = "off"
    /\ UNCHANGED <<device, todo, build, manager, alive, halted, transport, rx, rxCalls, borrowed, stop,
                   keepalive, bus, caller, opened>>

WorkerStep == Tick \/ TickEnds \/ WorkerExits

\* Seeded fault: the reception leaves no time stamp.
NoteReceptionNever == UNCHANGED latest

NoteReception == latest' = "reception"

\* receiveLoop: a frame is read, perhaps after the stop flag was set, since the
\* thread looks at it before it waits for the frame; dispatchReceive copies the
\* handlers under handlerMutex_.
Receive ==
    /\ rx = "idle" /\ answer
    /\ answer' = FALSE
    /\ NoteReception
    /\ rxCalls' = {h[2] : h \in handlers}
    /\ rx' = IF handlers = {} THEN "idle" ELSE "calling"
    /\ UNCHANGED <<device, todo, build, manager, alive, halted, up, handlers, nextId, worker, borrowed,
                   stop, keepalive, link, caller, opened>>

\* The copied handlers are called outside the lock, one after the other.
CallHandler(o) ==
    /\ rx = "calling" /\ o \in rxCalls
    /\ rxCalls' = rxCalls \ {o}
    /\ rx' = IF rxCalls = {o} THEN "idle" ELSE "calling"
    /\ UNCHANGED <<device, todo, build, manager, alive, halted, transport, worker, borrowed, stop,
                   keepalive, bus, caller, opened>>

ReceiverExits ==
    /\ rx = "idle" /\ stop["rx"]
    /\ rx' = "off"
    /\ UNCHANGED <<device, todo, build, manager, alive, halted, transport, rxCalls, worker, borrowed,
                   stop, keepalive, bus, caller, opened>>

ReceiverStep ==
    Receive \/ ReceiverExits \/ \E o \in rxCalls : CallHandler(o)

-----------------------------------------------------------------------------
(* Callers *)

\* getProtocol
FetchProtocol(c, t) ==
    /\ caller[c].pc = "idle" /\ ~Locked /\ t \in types /\ current[t] # None
    /\ caller' = [caller EXCEPT ![c] = [pc |-> "fetched", object |-> current[t], mutex |-> 0]]
    /\ UNCHANGED <<device, todo, build, manager, alive, halted, transport, threads, keepalive, bus, opened>>

\* getDeviceMutex
FetchMutex(c) ==
    /\ caller[c].pc = "fetched" /\ ~Locked
    /\ caller' = [caller EXCEPT ![c].pc = "waiting", ![c].mutex = mutex]
    /\ UNCHANGED <<device, todo, build, manager, alive, halted, transport, threads, keepalive, bus, opened>>

Lock(c) ==
    /\ caller[c].pc = "waiting" /\ caller[c].mutex # 0
    /\ \A d \in Callers : caller[d].pc = "using" => caller[d].mutex # caller[c].mutex
    /\ caller' = [caller EXCEPT ![c].pc = "using"]
    /\ UNCHANGED <<device, todo, build, manager, alive, halted, transport, threads, keepalive, bus, opened>>

\* A command: a frame, and for a DM axis the intent.
Use(c) ==
    /\ caller[c].pc = "using"
    /\ Send(caller[c].object.runtime)
    /\ keepalive' \in IF caller[c].object.type = "DM" THEN BOOLEAN ELSE {keepalive}
    /\ UNCHANGED <<device, todo, build, manager, alive, halted, up, handlers, nextId, threads, link, caller, opened>>

\* The call is over, or there is no command mutex any more; the reference goes
\* and the object with it when it was the last one.
Release(c) ==
    LET o == caller[c].object
        last == o # current[o.type] /\ Holders(o) = {c} /\ o \notin borrowed
    IN
    /\ caller[c].pc = "using" \/ (caller[c].pc = "waiting" /\ caller[c].mutex = 0)
    /\ caller' = [caller EXCEPT ![c] = Idle]
    /\ Destroy(IF last THEN {o} ELSE {})
    /\ UNCHANGED <<device, todo, build, manager, up, nextId, latest, threads, keepalive, bus, opened>>

CallerStep(c) ==
    \/ \E t \in types : FetchProtocol(c, t)
    \/ FetchMutex(c) \/ Lock(c) \/ Use(c) \/ Release(c)

Next ==
    \/ InitDevice \/ ShutdownDevice \/ LifecycleStep
    \/ LinkChanges
    \/ WorkerStep \/ ReceiverStep
    \/ \E c \in Callers : CallerStep(c)

Spec == Init /\ [][Next]_vars

\* Threads that can run do run.
FairSpec == Spec /\ WF_vars(LifecycleStep) /\ WF_vars(WorkerStep) /\ WF_vars(ReceiverStep)

-----------------------------------------------------------------------------
(* Properties *)

\* The receive thread never calls into a protocol that was destroyed, although
\* it holds copies of raw handlers and calls them outside the lock; and a
\* runtime is shut down only after the protocols that use it were replaced,
\* however late an object of an earlier build dies (initDevice, ~MtCan).
SafeToCall ==
    /\ rxCalls \cup {h[2] : h \in handlers} \subseteq alive
    /\ \A t \in types : current[t] # None =>
           current[t] \in alive /\ current[t].runtime \notin halted

\* Two callers are never inside the protocols of this device at a time, not even
\* with objects of different builds, unless the device was shut down since one
\* of them was built: the command mutex outlives a rebuild (initDevice).
Serialised ==
    \A c, d \in Callers :
        caller[c].pc = "using" /\ caller[d].pc = "using" /\ c # d =>
            caller[c].object.opened # opened \/ caller[d].object.opened # opened

Registered(o) == <<o.id, o>> \in handlers

\* A protocol in use loses its receive handler in one way only: a caller lets go
\* of an object it kept over a rebuild, whose destructor removes the handler
\* with the same id.  The rebuild itself and the refresh worker never do it
\* (removeReceiveHandler, shutdown).
CutOffOnlyByKeptObject ==
    [][\A t \in types :
          up /\ current[t] # None /\ current'[t] = current[t]
          /\ Registered(current[t]) /\ ~Registered(current[t])' =>
              \E c \in Callers : /\ caller'[c] = Idle
                                 /\ caller[c].object \notin {current[t], None}
                                 /\ caller[c].object.id = current[t].id]_vars

\* Initialisation and shutdown end: the threads they join are told to stop and
\* wait for nothing the manager holds (shutdown, DeviceRefreshWorker::stop).
LifecycleEnds == []<>(todo = <<>>)

\* isDeviceReady
Ready == present /\ up /\ latest # "loss"

\* A device whose link works again is ready again, as long as something on it is
\* polled: readiness waits for a reception, and the queries that provoke one do
\* not wait for readiness (isDeviceReady, the refresh tick).
LinkRecovers ==
    <>[](link /\ todo = <<>> /\ worker # "off" /\ \E t \in types : Polled(t)) => <>[]Ready
=============================================================================
