# TLA+ models of can_driver

`can_driver` is a ROS 1 `ros_control` hardware interface for motors on CAN buses
(MT/RMD, PP/Eyou, Damiao) and Ethernet (Innfos ECB).  These modules model its
lifecycle, its command path, its transmit queues, the three CAN protocols with the
refresh of their axes, the rebuild of a device and the maintenance services.  TLC checks
them on small instances; TLAPS proves every safety property that a passing run checks.
Paths below are relative to the root of the repository.

## 1. The system

One process.  Threads:

| thread | runs | where |
|---|---|---|
| control loop | `read`, `cm.update`, `write` at a fixed rate | `can_driver_node.cpp` |
| two spinner threads | service callbacks, direct command topics, the state timer | `AsyncSpinner(2)` in `can_driver_node.cpp` |
| per CAN device | transmit worker | `DeviceRuntime::workerLoop` |
| per CAN device | refresh worker, issuing reads | `DeviceRefreshWorker.h` |
| per CAN device | receive thread, running protocol handlers | `SocketCanController.cpp` |

### Inventory

| component | state | operations | what makes it correct |
|---|---|---|---|
| `OperationalCoordinator` | `mode_` (atomic), `transitionMutex_` | `RequestInit/Enable/Disable/Release/Halt/Recover/Shutdown`, `UpdateFromFeedback` | requests are serialised; no mode is stranded; motion is released only by Release; a persistent fault is noticed |
| `CanDriverRuntime` | `active_`, loopback per device | init, recover and shutdown of devices | `active_` agrees with the mode; a failed preparation is rolled back |
| `CommandGate` | fresh-command latch, baselines, last device readiness | hold, arm, consume, observe | no command from before a hold is dispatched after it |
| `CanDriverHW::write`, `CanDriverIoRuntime` | command buffers, `stopIssuedOnFault` | prepare, dispatch, health check | motion only in Running; one Stop per fault episode |
| state timer (`publishMotorStates`) | - | build messages, judge health | a fault bit is never overlooked |
| `LifecycleDriverOps`, `MotorActionExecutor` | targets, recover trackers | enable/disable/halt/recover/shutdown all, health checks | partial failures are undone; confirmation uses fresh samples |
| `DeviceRuntime` | four queues, `sending_`, counters | submit, worker loop, start, shutdown | frames conserved; newest control frame wins; drained at shutdown |
| `DeviceManager` | transports, protocols, runtimes, workers per device | init, rebuild, shutdown, `isDeviceReady` | teardown order; readiness not stuck after a link loss |
| `SharedDriverState`, `AxisReadinessEvaluator` | feedback, health, command records | update, evaluate | freshness and degradation judged on consistent records |
| `MtCan`, `EyouCan`, `DamiaoCan` | pending reads, write acknowledgements, caches | command, read, handle answer | at most one outstanding read per key; no false time-out; no lost answer |
| `RefreshScheduler`, `DeviceRefreshWorker` | due times | choose the next read | every axis is refreshed |
| `SocketCanController`, `UdpCanTransport` | socket, receive handlers, statistics | send, add/remove handler, receive | a handler removed is not called; ids not confused |
| `MotorMaintenanceService` | - | `motor_command`, mode, zero and limits of one motor | an enabled drive is not configured; the answer is true of the drive |
| `JointConfigParser`, `SafeCommand`, `AxisCommandSemantics` | - | parse, scale, clamp | results in range |
| `lib/innfos-cpp-sdk`, scripts, UI | - | - | vendored or tooling, out of scope |

### Interaction

A service callback calls a `RequestXxx`, which holds `transitionMutex_` while it
calls into `CanDriverRuntime`/`LifecycleDriverOps`; these take a device's mutex for
each protocol call.  The control loop takes no part in that mutex: it reads the mode
once per cycle, copies the commands under `jointStateMutex_`, and calls the protocols
under the device mutexes.  Both it and the state timer report bad health through
`UpdateFromFeedback`, which is lock-free.  Protocols hand frames to the device's
`DeviceRuntime`; answers come back on the receive thread into `SharedDriverState`,
which all health checks read.

The hard behaviours are therefore: a mode read before and used after another thread's
change; the lock-free downgrade beside the locked transitions; partial failures of a
batch; a bus that disappears and returns in the middle of a cycle; queues at their
limit; answers that are lost, late or overtake their bookkeeping; register writes that
replace each other in a queue; objects replaced under the threads that use them; and
shutdown beside all of it.  `PROJECT.json` lists them line by line as
hazards.

## 2. Modules

| module | models | kind |
|---|---|---|
| `LifecycleModes` | what the lifecycle promises: the mode machine with one request in progress | abstract specification |
| `OperationalCoordinator` | the coordinator under its threads | refines `LifecycleModes` |
| `OperationalCoordinatorProofs` | its theorems | TLAPS |
| `CommandPath` | control cycle, command gate, lifecycle requests, publisher, drives | composition; uses the actions of `LifecycleModes` for the requests |
| `CommandPathProofs` | its theorems | TLAPS |
| `MC_CommandPath` | instances for TLC | |
| `DeviceRuntime` | the transmit side of one CAN device | |
| `DeviceRuntimeProofs` | its theorems | TLAPS |
| `MC_DeviceRuntime` | instances for TLC | |
| `DeviceRebuild`, `MC_DeviceRebuild` | init, rebuild and shutdown of a device under the threads that use it | |
| `DeviceRebuildProofs` | its theorems | TLAPS |
| `AxisRefresh`, `MC_AxisRefresh` | the reads of MT axes: refresh worker, books, bus, receive thread | |
| `AxisRefreshProofs` | its theorems | TLAPS |
| `DamiaoDrive` | one Damiao axis: operations, keepalive, queues, drive | |
| `DamiaoDriveProofs` | its theorems | TLAPS |
| `PpDrive` | one PP axis: registers, reads and writes, queues, refresh | |
| `PpMaintenance` | the maintenance services on it | extends `PpDrive` |
| `PpMaintenanceProofs` | their theorems | TLAPS |

`DeviceRuntime` is the full model of the transmit queues.  The protocol modules use what it
does to their frames (a newer control frame of the same id replaces the queued one, queries
are dropped when their queue is full, a send may fail) and keep its two steps where they
can be told apart: the worker pops a frame under `mutex_` and sends it after the unlock, so
a frame in its hand can no longer be replaced and reaches the drive after newer commands
were queued.  The inter-frame gap, the burst wait and the back-off are left out there.

Operators whose comment starts with "Seeded fault" are deliberately wrong variants of
the definition after them; they are used only to show that a property can fail.

### OperationalCoordinator

`mode` is `mode_`, `active` is `active_`, `owner` the holder of `transitionMutex_`.
Each service thread goes through `Call` (the request begins; Enable looks at the mode
without the lock), `LockArmed`/`Revalidate` (the Armed path of Enable),
`Refuse` or `Start` (`DoTransition` takes the lock and checks the mode), one
`CallSucceeds` or `CallFails` per driver call of the action, in the order of `Script`,
and `Commit` (the final, unconditional store).  An observer goes through `Judge`,
`Load` and `CompareExchange`.  `sick` says that some axis reports a fault; it changes
freely.

`LifecycleModes` forgets threads, mutex, `active` and health: its `busy` is the request
of the thread that holds the mutex and runs an action.

### CommandPath

The control thread is `wpc` with one action per region between two locks:
mode check, latch (split at the point where `consumeFreshCommandLatchIfSatisfied`
releases its lock), `PrepareCommands`, and for each joint readiness of the device,
copy of the feedback, checks, beginning and end of the protocol call, then the health
check and the report.  `Hold` and `Arm` of a request, and `HoldRecovered` and
`RearmRecovered` of the dispatch, are separate steps because the code does them under
separate locks.  A request runs the steps of `Program`: health check, batch, confirmation
with a deadline, hold, arm; Recover first rebuilds and synchronises every device
(`PrepareDevice`, `PrepareFails`).  A batch goes from drive to drive as
`MotorActionExecutor::execute` does: it looks whether the device is ready (`CheckTarget`;
an unready one is a failure and nobody waits), then waits for the device mutex, which the
control thread has during a call, and makes its own (`ExecuteTarget`).  A call that fails
may have reached the drive or not: `DamiaoCan::Enable` sends its frame and then returns
false when no feedback comes in time.  `done` and `failures` are the two lists of
`BatchResult`; the rollback of Enable goes over `done` only.

Data is abstracted: a command is `"hold"` (zero velocity, or a target at the actual
position) or `"go"`; feedback of a drive is `"ok"`, `"off"` or `"fault"`.  Feedback is
fresh.  The `safety_*` parameters have their default, true.  Every joint is a dispatch
group of its own.  The driver has been initialised, and Shutdown is not called.
`UpdateFromFeedback` is one step here; its interleaving is in `OperationalCoordinator`.
`heldSince` is a history variable of `NoReplayAfterHold`.

### DeviceRuntime

The locked regions of `mutex_` are the steps; between two of them only the worker
touches what it uses.  A control frame is its id and its position in the order of
acceptance; of the other frames only the category matters.  Condition variables are
the guards of the woken steps.  Only Query frames carry completions, as in `MtCan` and
`EyouCan`.  The burst wait is always on (its default is 500 us), the inter-frame gap may
be zero or not at any moment (`setControlInterFrameGapUs`).  `reported` counts the calls
of `noteSharedSendResult` for failed sends.  `newest`, `reads` and `completions` are
history variables.

### DeviceRebuild

`todo` is what the lifecycle thread has yet to do: `initDevice` of a new or known device
and `shutdownDevice` are sequences of the same steps (stop and join the refresh worker,
stop and join the receive thread, release the protocols, open, build the runtime and the
protocols, start the worker, run the hooks of `prepareLifecycleDeviceForStandby`), with
`OpenFails` and a failing hook turning into a shutdown.  A protocol object is its type,
the runtime it was built with and its handler id; `alive` are the objects that exist.
Callers fetch a protocol and then the command mutex, each under `mutex_`, lock, use and
release; the last reference destroys the object, which removes the handler *with its id*
and shuts its runtime down.  The time stamps behind `isDeviceReady` are compared only, so
`latest` says which of the two is later.

### AxisRefresh

`read` are the `pendingReadRequests_` of each axis and query: phase (idle, queued, in
flight, expired), back-off, count of timeouts.  `Tick` is one round of the refresh worker
(plan, cursor, first read that is not blocked); a late read is given up and its timeout
published in a second step, as the code does after it released the lock.  The transmit
worker sends and completes in two steps, so an answer may be handled in between.  A
snapshot is taken under the lock and published afterwards, by the receive thread and by a
caller's Enable or Disable.  There is no clock: `ReadExpires`, `BackoffEnds`, `WaitEnds`
and `FeedbackAges` say when a limit is over.  `sent` is a history variable.

### DamiaoDrive

An operation is the sequence of steps in `Program`, each a locked region or a wait with a
time limit; the mode register is written and acknowledged before the first motion.  The
refresh worker's keepalive (`PlanKeepalive`, `ReadCommanded`, `SubmitKeepalive`) and the
receive thread run between any two of them.  `hand` is the frame the transmit worker has
popped (`Take`) and not sent yet (`Transmit`, `LoseFrame`).  The drive is external: it obeys
a frame and acknowledges a register write.  What state it reports, and so whether the wait
at the end of Enable and Disable succeeds, changes nothing in this module: `AwaitFeedback`
ends the operation either way, and `CommandPath` has the call that fails although its frame
was sent.  `power` and `late` (a Disable was queued while an Enable was in the hand) are
history variables.

### PpDrive and PpMaintenance

A register write replaces the one in the queue (`Submit`) but not the one in the worker's
hand (`TakeWrite`); a read is asked for again only when the last one has left (`Request`).
The drive takes a write over, refuses it, or takes another offset over and answers 0x05
(`CorrectWrite`), which the code counts as success.  Published feedback may be too old at
any look, so `CheckFails` and a `Confirm` that goes on are always possible.  `known` is
`MotorState`, `shared` the published feedback; unknown values are empty sets.  One thread
at a time waits for one answer (`awaited`, `reply`); a wait that times out leaves a frame
or an answer behind, which `Leftover` recognises, also when its write is still in the
hand.  A maintenance request goes through its `pc`: read the offset, check that the axis is
disabled, write, wait, save up to `MaxSaves` times, and once more the same with the old
offset if something failed.  Requested offsets are any integers: the caller is told
`job.value` as computed, and the drive is sent `Clamp(job.value)`.  Enable, Disable and
motion run beside it except while it holds the command mutex (`Locked`).  `unseen`,
`excused`, `claim` and the fields `sure` and `stray` of a job are history variables.
`unseen` stays up while an answer "disabled" from before the drive was enabled is still
behind the answer being handled (`OutdatedFollows`).

## 3. What TLC checks

| run | module, cfg | size | shows |
|---|---|---|---|
| coordinator | `OperationalCoordinator`, `MC_Coordinator.cfg` | 37,710 states | two service threads, control loop and publisher: all properties and the refinement hold |
| lost_fault | same, `MC_LostFault.cfg` | violation | a request's final store overwrites a fault found while it ran |
| command_path | `MC_CommandPath`, `MC_CommandPath.cfg` | 4,754,560 states | two joints, unreliable link, calls that fail before or after they reached the drive: hold takes back prepared commands, a failed enable is undone but for drives whose own call failed |
| fault_stop | same, `MC_FaultStop.cfg` | 429,404 states | one joint with faults and an unreliable link: the Stop flag is never stale on a moving joint |
| late_motion | same, `MC_LateMotion.cfg` | violation | a command can leave after Running was left |
| standby_enabled | same, `MC_StandbyEnabled.cfg` | violation | recover leaves drives enabled in Standby |
| missed_stop | same, `MC_MissedStop.cfg` | violation | the automatic Stop can be skipped for ever |
| device_runtime | `MC_DeviceRuntime`, `MC_DeviceRuntime.cfg` | 700,400 states | all properties of the transmit runtime, and that shutdown returns |
| rebuild | `MC_DeviceRebuild`, `MC_DeviceRebuild.cfg` | 596,810 states | two callers over two builds of a SocketCAN or UDP device: no call into a destroyed object, joins that return, readiness that comes back |
| refresh | `MC_AxisRefresh`, `MC_AxisRefresh.cfg` | 310,082 states | reads lost, late or answered early: none is stuck, at most one false timeout, feedback comes back |
| damiao | `DamiaoDrive`, `MC_DamiaoDrive.cfg` | 932,986 states | lossy bus, late answers: motion only in velocity mode, no late Enable but from the worker's hand, Stop prevails |
| pp | `PpMaintenance`, `MC_PpMaintenance.cfg` | 523,441 states | maintenance beside commands on a bus that loses, refuses, corrects and delays: the answers are true up to clamping and correction, no enabled drive is configured beyond the window of the check, the published state catches up |

### Properties

*Coordinator.* `MutexHeld` (actions never overlap), `StableUnderAction` (only a
downgrade moves the mode under a running action), `TransientModesOwned` (Recovering and
ShuttingDown cannot be stranded), `ActiveWhenUp` (the observers are never blind),
`RunningOnlyByRelease`, `PersistentFaultNoticed`, `TransitionEnds`,
`ImplementsLifecycleModes`.

*Command path.* `NoReplayAfterHold`: after a hold, no command prepared before it moves
a joint, except that of the protocol call being made at that moment; and a Halt or Disable
has not counted that joint as done: its Stop or Disable waits for the device mutex, or has
failed because the device was not ready, and then the request fails.
`FailedEnableUndone`: an Enable that fails leaves no drive enabled but those whose own call
failed, be it the Enable (which may have reached the drive and is not taken back) or the
Disable of the rollback.
`StopFlagMeansStopped`: `stopIssuedOnFault` is never up on a moving joint.

*Transmit runtime.* `StatsConserved`, `OneFramePerId`, `NewestControlWins`,
`GapHasFrame` (the unchecked `front()`), `DrainedAtExit` (no completion after the
destructor joined), `IdleMeansDone`, `ReadsComplete`, `ShutdownReturns`.

*Rebuild.* `SafeToCall`: handlers registered or about to be called belong to living
objects, and the protocols in use have a running runtime.  `Serialised`: one caller at a
time is inside the protocols, also when they hold objects of different builds, as long as
the device was not shut down in between.  `CutOffOnlyByKeptObject`: the one way in which a
protocol in use loses its receive handler.  `LifecycleEnds`, `LinkRecovers`.

*Refresh.* `QueuedHasFrame`, `RaceCostsOne`, `AxisComesBack`: fresh feedback again and
again, whatever is lost, and it is what the protocol knows once nobody calls Enable or
Disable.

*Damiao.* `ModeBeforeMotion`; `NoLateEnable`: a queued Enable does not reach the drive once
a Disable is queued, only one that was in the worker's hand at that moment does, in front of
the Disable; `StopPrevails`.

*PP.* `ConfiguredDisabled`: mode and offset of an enabled drive are not changed, beyond
the window in which nobody could know: an Enable called after the check, or one that was
queued, in the worker's hand or not yet published at that moment.  `ZeroAsTold`: after
success and after a roll-back the drive has the offset that was told, as far as it fits the
register and unless the drive corrected it, and its flash memory has what the drive has.
`EnableStateCatchesUp`.

### Where the code and the documents disagree

Each is a run that TLC must find violated; the counterexample is its trace.

* *lost_fault.* Running, Halt is executing `halt_all`; the publisher sets Faulted;
  `DoTransition` stores Armed.  The fault is forgotten until it is reported again, and
  no recover takes place.
* *late_motion.* `write()` passes its mode check and prepares a command; the mode leaves
  Running; the dispatch goes on.  A Halt holds the commands first, so at most the call in
  progress gets out (`NoReplayAfterHold`); a downgrade to Faulted holds nothing, so the
  rest of the cycle does.
* *standby_enabled.* Recover rebuilds the devices and resets faults, never disables: a
  drive that never faulted is still enabled in Standby.
* *missed_stop.* The Stop is sent by the dispatch loop only, and after the downgrade
  `write()` returns before it.

### Weaknesses met while modelling

No document claims the contrary of these, so they are no findings; the properties above
are stated so that they hold beside them, and name the exception where there is one.

* *Rebuild.* The destructor of a protocol kept over a rebuild removes the handler of its
  successor (ids start at 1 again after `shutdown()`), which then hears nothing until the
  next rebuild (after a shutdown and a new init the transport is a new object and is not
  touched; `Destroy` of the model allows more there than the code does).  After a shutdown
  and a new init, a caller with an old object may run
  beside one with a new object: the command mutex was erased.  A device with nothing but
  Damiao axes that are not to be kept alive is never polled, so it is never ready again
  after a loss of the link.  MT and PP on one device share a runtime, which the first of
  the two destructors shuts down.
* *Refresh.* Every tick starts with the state query, so with a fast drive the multi-turn
  angle and the error flag wait long.  Enable and Disable of an MT axis publish what they
  assume with a new time stamp, as if it had been received.  An answer that overtakes its
  completion costs a timeout (`RaceCostsOne`).
* *Command path.* A drive whose Enable was sent but not confirmed within the protocol's time
  limit stays enabled: `enableAll` rolls back the succeeded targets only.  Halt and Disable
  pass over a device that is not ready, although the control thread may be in a call on it;
  they fail then, and the mode stays.
* *Damiao.* An Enable in the worker's hand when Disable is called is still sent; if the
  frame of the Disable is lost after it, the drive stays enabled.  A register
  acknowledgement that nobody waits for is decoded as feedback, and reads as "disabled".
  `waitForFeedbackState` accepts feedback from before the command. Enable keeps the old
  commanded velocity, which the next keepalive sends.  A drive that loses its power forgets
  the mode, and `velocityModeConfigured` stays.
* *PP.* Enable withdraws the enabled state in `MotorState` but not in the published
  feedback that the disabled check reads.  The mode confirmation finds its own request in
  `MotorState`, since `setMode` stores it there.  `configurePositionLimits` submits three
  writes under one CAN id, so the earlier ones are often replaced before they are sent.
  `set_zero` tells the offset before it is clamped to 32 bits, and a value that the drive
  corrected (0x05) is taken for the one that was written.
  The acknowledgement of an earlier write of the same register is accepted for the next
  one; a save that timed out may have been executed.  When the offset cannot be read, the
  local table stands in for it.  An automatic zero with a local offset in force, or right
  after another zero, is off by it.

### Bounds

* Two service threads: `AsyncSpinner(2)`.  One control loop and one state timer: as in
  the node.
* Two joints on one bus in `command_path`: enough for "some but not all", for a batch
  between two joints of a cycle, and for the device mutex to block a batch; with faults
  instead of rejected calls, one joint shows every path of the Stop flag.  The switches
  `MayFault`, `MayReject` and `MayLoseLink` keep each run within minutes.
* `DeviceRuntime`: three ids and a control queue of depth 2 so that replacement,
  eviction and insertion all happen; the other queues have depth 1, so that they refuse;
  `MaxCalls` = 4 calls of `submit` in a behaviour are enough for a full control queue
  with a frame in the worker's hand and one more; two backpressure retries so that the
  counter counts and wraps.  `MaxCalls` only bounds the model; the theorems hold for
  every value.
* `rebuild`: two builds, so that there is an old and a new object of everything, and two
  callers; one SocketCAN device with two protocols (handler ids 1 and 2), one with Damiao
  axes only, one UDP gateway.
* `refresh`: one axis, one kind of feedback and the error flag, a Query queue of depth 1
  that also refuses, counters capped at 2: the race needs one read and the degradation two
  timeouts.  The three invariants are proved for all values.
* `damiao`: one non-zero velocity, queues of depth 1, two acknowledgements on their way, so
  that one can be left over from a wait that timed out when the next comes.
* `pp`: two calls (a request beside a command, or two requests in a row, so that the first
  leaves something behind), two saves, a register from -1 to 1 with the axis at 1, a
  request for 2, which does not fit, and a drive that may correct an offset to 1; the
  refresh reads position and enabled state.  One answer is on its way at a time: with two,
  the check of `EnableStateCatchesUp` takes too long.  The three safety properties are
  proved for every number of answers.

### Fairness

* Coordinator: driver calls return (their waits have deadlines of at most seconds), a
  started report finishes, and the publisher's periodic timer looks at the fault bit.
  Nobody has to call a service and no axis has to heal.  Nothing is assumed of acquiring
  the mutex, nor of the control loop's or the timer's health check.
* Command path (`missed_stop` only): the control loop, the timer and the service thread
  keep taking steps.
* Transmit runtime: the worker is scheduled and `send` returns; `shutdown()` continues
  after the join.  Senders and the owner owe nothing.
* Rebuild: the lifecycle thread, the refresh worker and the receive thread take steps;
  callers owe nothing, they may keep an object for ever.
* Refresh: the threads take steps and time passes; of reads that are sent again and again
  not all are lost, nor all answers (strong fairness of `SendQuery`, `HandleResponse`).
  The back-off ends and the worker asks for ever, which the code does.
* Damiao: the keepalive period comes round, the transmit worker goes on, and not all frames
  are lost (strong fairness of `Transmit`).
* PP: the transmit worker and the receive thread take steps, the maintenance thread need
  not (its waits have time limits, but nothing depends on them), and strong fairness of
  refreshing, sending and handling the read of the enabled state: the plan comes to it
  again and a bus does not lose all of them.  The code gives that to a device with one PP
  axis; with several disabled axes its plan may pass over the query.

## 4. What TLAPS proves

For every set of threads and observers (`ThreadsAssumption`: the value for "mutex free"
is not a thread):

* `Inductive`: `IndInv` of `OperationalCoordinatorProofs`, the conjunction of the checked
  invariants with `ActionContext` (a request in progress was accepted in an allowed mode,
  and `active` is up during Recover and after the first call of Init) and
  `LoadedDowngradable` (an observer about to compare-exchange has loaded Armed or
  Running).  The first is needed because `ActiveWhenUp` after a commit depends on calls
  made several steps before; the second because a compare-exchange with a transient mode
  loaded would break `TransientModesOwned`.
* from it `TypeCorrect`, `OneActionAtATime`, `ActionsSerialised`,
  `TransientModesNeverStranded`, `FlagFollowsMode`, the action property
  `MotionOnlyReleased`, and `Refinement`: `Spec => LifecycleModes!Spec` under the mapping
  of `busy`.

For every number of senders, ids, positive queue depths and retry limit:

* `Inductive` of `DeviceRuntimeProofs`: the checked invariants with `CategoriesMatch`
  (a frame in a queue has the queue's category), `StampsGiven` (stamps were handed out
  by `submit`, so the next one is newer than all), `SendingIsInner` (`sending_` is up in
  every worker state between taking a frame and the outer wait) and `ExitedWasStopped`
  (a stop was requested before the worker exited, so that nothing can be queued after).
* from it `TypeCorrect` (with the queue bounds), `FramesConserved`, `OneFrameQueued`,
  `LatestCommandOnly`, `FrontIsSafe`, `NothingLeftBehind`, `IdleIsIdle`.  The lemmas
  `ReplaceFacts` and `EnqueueControlFacts` say what replacing and evicting do to a queue.
* `EveryReadCompletes`, by a second induction on top of the first: the senders that were
  just refused a read are a finite set (`ReadsInv`), which each refusal and completion
  changes by one, and the frame the worker takes from the Query queue is a read
  (`CategoriesMatch`).

For every number of axes, list of queries, queue depth, timeout cap and degradation
threshold:

* `Invariant` of `AxisRefreshProofs`: `IInv` is `TypeOK` with `Shape` (at most one read is
  between sending and completion and at most one snapshot is unpublished per thread, and a
  timeout yet to be published belongs to an attempt of the plan), `QueuedHasFrame` and
  `Counted`.  `RaceCostsOne` is not inductive: a read in flight or expired will be counted
  when it is given up, so `Counted` counts it already, and leaves room for one that was
  sent and has not completed.
* from it `TypeCorrect`, `ReadsAreNeverStuck`, `RaceIsBounded`.  `AttemptsType` shows that
  the index arithmetic of the plan stays within the axes and queries.

For every set of velocities and bounds of the queues and answers:

* `Invariant` of `DamiaoDriveProofs`: `ModeBeforeMotion` needs `AckMeansMode` (an
  acknowledgement, on its way or noted, comes from a drive that has the mode) and
  `SpeedConfigured` (a speed other than zero that is stored, read by the keepalive or
  queued was given after the mode was configured); `NoLateEnable` needs `PowerLast` (a
  queued frame that enables is a control frame and the last power command) and `HandFits`
  (the one in the worker's hand was so when it was taken, and `late` notes a Disable
  since).  `StepsFit` relates the steps left to the operation.
* from it `TypeCorrect`, `MotionIsConfigured` and the action property `DisableIsFinal`.

For every number of joints, on any devices, with or without faults, rejected calls and lost
links:

* `Invariant` of `CommandPathProofs`: `HoldEmpties` (once a hold has come, the cycle in
  flight has nothing prepared) and `BatchWaitsForCall` (the batch of a Halt or a Disable
  has not done the joint whose call holds the device mutex) carry `NoReplayAfterHold`;
  `FlagDownInCall` (the flag is down while a protocol call is made, whose end may set the
  joint moving) carries `StopFlagMeansStopped`; `BatchCovers` (every drive's Enable has
  succeeded or failed when the batch is over) and `RollbackDone` (the drives the rollback
  has passed are disabled or have had a call that failed) carry `FailedEnableUndone`.
* from it `TypeCorrect`, `StopIsNeverSilenced` and the action properties
  `HeldCommandsAreNotReplayed` and `EnableIsUndone`.  `StopIsNeverSilenced` assumes that
  drives do not reject calls (`~MayReject`, as in its run `fault_stop`): the flag is set
  whether or not the Stop was accepted, so without that it is false, which is one of the
  hazards listed.

For every device, number of callers and number of rebuilds:

* `Invariant` of `DeviceRebuildProofs`.  A rebuild is safe because of the order of its
  steps, so the first part, `IsPlan`, says what the steps left to do look like: each may
  follow the one before it (`Follows`), and the last is that of an init or of a shutdown.
  Over it, `Presence`, `WorkerGone`, `Closed` and `Cleared` say what holds in front of each
  step; `HeldByThreads` that handlers, copies of handlers and the protocols of a tick are
  the protocols in use; `InUse` that these exist and have the runtime that runs; `Earlier`
  and `HeldByCallers` that what callers keep beside them is of earlier builds;
  `MutexExcludes` that a command mutex has one holder.
* from it `TypeCorrect`, `ReceiverCallsLiveProtocols`, `CallersAreSerialised` and the action
  property `OnlyKeptObjectsCutOff`.

For every offset range and position in it, every set of corrections, of registers
refreshed, of requested offsets (in the range or not) and of modes, and every number of
reads, answers, saves and calls:

* `Invariant` of `PpMaintenanceProofs`.  What `set_zero` tells rests on exchanges that
  ended long before, so the invariant says for each place of a request what the queue, the
  worker's hand, the answers on the bus and the reply say of the drive: `OffsetOnWay`,
  `OffsetArrived`, `SaveOnWay` (an acknowledgement of this request's write means that the
  drive has, or has saved, the value sent or its own correction of it), `PositionOfUse` and
  `ZeroFound` (the offset read is the one the position was measured with, so that the
  offset computed from the two is the zero), `ClaimKept` (nothing can change the offset
  after the answer).  `SeenEnabled` and `ExcuseNeeded` are the argument for the disabled
  check: when it finds 0, an enabled drive is one whose state was not published yet.
  `FramesFit`, `JobFits` and `Waits` relate frames, values and waits to the place of the
  request.
* from it `TypeCorrect`, `SetZeroTellsTheTruth` and the action property
  `ConfiguredWhileDisabled`.

The attempt to prove the last one showed that the excuse for an Enable not yet published
had been stated for a bus with one answer on its way: with two, the drive may be enabled,
disabled and enabled again while "enabled" and "disabled" of the first two are on their
way; the first publishes the right state for the wrong reason, the second then makes the
check find an enabled drive disabled.  That window is now part of `unseen`.

The bounds of the runs (calls, builds, answers, saves) are constants of the modules, and
every theorem holds for all their values.  The numbers in TLC's instances therefore limit
nothing but the liveness runs.

Only model-checked: liveness under fairness, which is out of the prover's reach
(`PersistentFaultNoticed`, `TransitionEnds`, `ShutdownReturns`, `LifecycleEnds`,
`LinkRecovers`, `AxisComesBack`, `StopPrevails`, `EnableStateCatchesUp`), and the four
violations.

## 5. Not modelled

See `PROJECT.json` for every component.

* The recover confirmation by distinct fresh samples, and what a stale axis hides from the
  health check: `CommandPath` has fresh feedback only.
* Two maintenance requests at once.  `AsyncSpinner(2)` allows them; `PpMaintenance` serves
  one at a time, beside commands from the other thread.
* The fault register of PP drives with its Recover queue, fast writes, the file of local
  zero offsets (off by default).
* `shutdown_all` as a lifecycle request beside the command path (it disables no drive, it
  shuts the devices down, which `DeviceRebuild` has for one device), and
  `CanDriverRuntime::reset`, which sets the coordinator inactive when everything is torn
  down.
* Motion commands of MT axes: they queue a control frame, which is the subject of
  `DeviceRuntime`, and note the command.
* `ensureTransport`, `ensureProtocol` and `startRefresh` of the device manager, which only
  tests call; the choice between required and optional devices at the first init.
* Innfos ECB: it forwards to the vendored SDK, whose threads and packets are not part of
  this repository's own logic.
* Parameter parsing, floating-point scaling, message layout, socket options, scripts, UI.

## 6. Plan

1. Done: lifecycle, command path, transmit runtime, device rebuild, refresh of MT axes,
   Damiao axis, PP axis with the maintenance services.
2. Done: proofs of every invariant and action property of the passing runs.
3. Left: safety statements between the two levels that are worth a proof of their own, first
   the step properties on which the liveness runs rest (a read that is given up can be asked
   for again; every step of a lifecycle plan makes it shorter).
4. Left: axis health in the command path (stale axes, recover confirmation), and a second
   maintenance request.
