-------------------- MODULE OperationalCoordinatorProofs --------------------
(***************************************************************************)
(* Proofs about OperationalCoordinator, for any number of service threads  *)
(* and observers.                                                          *)
(*                                                                         *)
(* None of the safety invariants is inductive alone.  A failed or finished *)
(* request stores a mode that depends on the mode it started from and on   *)
(* the calls it has already made, so the invariants are proved together    *)
(* with ActionContext (what is known of a request in the middle of its     *)
(* action) and LoadedDowngradable (what an observer about to               *)
(* compare-exchange has loaded).                                           *)
(***************************************************************************)
EXTENDS OperationalCoordinator, TLAPS

\* A request in progress was accepted in a mode it is allowed in, and the
\* driver is active whenever its failure or success may show a live mode.
ActionContext ==
    \A t \in Threads : Acting(t) =>
        /\ from[t] \in M!AllowedFrom[req[t]]
        /\ req[t] = "Recover" => active
        /\ (req[t] = "Init" /\ at[t] > 1) => active

LoadedDowngradable ==
    \A o \in Observers : opc[o] = "cas" => loaded[o] \in M!AutoFaultModes

IndInv ==
    /\ TypeOK
    /\ MutexHeld
    /\ StableUnderAction
    /\ TransientModesOwned
    /\ ActiveWhenUp
    /\ ActionContext
    /\ LoadedDowngradable

\* Every script has between one and MaxScript calls; the ones of Init and
\* Release have the lengths, and the first call, that the argument about a
\* finished action needs.
LEMMA ScriptShape ==
    /\ \A r \in Requests : Len(Script[r]) \in 1..MaxScript
    /\ Len(Script["Init"]) = 3
    /\ Len(Script["Release"]) = 2
    /\ Script["Init"][1] = "init_device"
  BY DEF Requests, M!Requests, Script, MaxScript

\* Only Shutdown clears the active flag: its script is the only one that
\* calls shutdown_all.
LEMMA ShutdownCall ==
    ASSUME NEW r \in Requests, NEW i \in 1..Len(Script[r]),
           Script[r][i] = "shutdown_all"
    PROVE  r = "Shutdown"
  <1>1. CASE r = "Init" BY <1>1 DEF Script
  <1>2. CASE r = "Enable" BY <1>2 DEF Script
  <1>3. CASE r = "Disable" BY <1>3 DEF Script
  <1>4. CASE r = "Release" BY <1>4 DEF Script
  <1>5. CASE r = "Halt" BY <1>5 DEF Script
  <1>6. CASE r = "Recover" BY <1>6 DEF Script
  <1>7. QED BY <1>1, <1>2, <1>3, <1>4, <1>5, <1>6 DEF Requests, M!Requests

\* What the tables of the requests say about the modes they mention.
LEMMA RequestTables ==
    ASSUME NEW r \in Requests
    PROVE  /\ M!AllowedFrom[r] \subseteq Modes
           /\ M!Target[r] \in Modes \ {"Inactive", "Faulted", "Recovering", "ShuttingDown"}
           /\ M!Target[r] = "Running" => r = "Release"
           /\ M!Target[r] = "Configured" => r = "Shutdown"
           /\ r # "Shutdown" =>
                 M!AllowedFrom[r] \cap {"Inactive", "Recovering", "ShuttingDown"} = {}
           /\ r \notin {"Shutdown", "Init"} =>
                 M!AllowedFrom[r] \subseteq {"Standby", "Armed", "Running", "Faulted"}
  BY DEF Requests, M!Requests, Modes, M!Modes, M!AllowedFrom, M!Target

\* Init satisfies the inductive invariant: no thread is in a callback yet.
LEMMA InitIndInv == Init => IndInv
  <1>1. SUFFICES ASSUME Init PROVE IndInv OBVIOUS
  <1>2. active \in BOOLEAN /\ sick \in BOOLEAN BY <1>1, Zenon DEF Init
  <1>3. TypeOK
    BY <1>1, <1>2 DEF Init, TypeOK, Modes, M!Modes, Requests, M!Requests, MaxScript
  <1>4. MutexHeld BY <1>1, ThreadsAssumption DEF Init, MutexHeld
  <1>5. StableUnderAction /\ ActionContext
    BY <1>1 DEF Init, StableUnderAction, ActionContext, Acting
  <1>6. TransientModesOwned /\ ActiveWhenUp
    BY <1>1 DEF Init, TransientModesOwned, ActiveWhenUp
  <1>7. LoadedDowngradable BY <1>1 DEF Init, LoadedDowngradable
  <1>8. QED BY <1>3, <1>4, <1>5, <1>6, <1>7 DEF IndInv

\* The type invariant is preserved by every step.
LEMMA StepTypeOK == TypeOK /\ [Next]_vars => TypeOK'
  <1>1. SUFFICES ASSUME TypeOK, [Next]_vars PROVE TypeOK' OBVIOUS
  <1>2. CASE Configure BY <1>1, <1>2 DEF TypeOK, Configure, Modes, M!Modes
  <1>3. CASE AxisHealthChanges
    BY <1>1, <1>3 DEF TypeOK, AxisHealthChanges
  <1>4. ASSUME NEW t \in Threads, NEW r \in Requests, Call(t, r) PROVE TypeOK'
    BY <1>1, <1>4 DEF TypeOK, Call
  <1>5. ASSUME NEW t \in Threads, LockArmed(t) PROVE TypeOK'
    BY <1>1, <1>5 DEF TypeOK, LockArmed
  <1>6. ASSUME NEW t \in Threads, Revalidate(t) PROVE TypeOK'
    BY <1>1, <1>6 DEF TypeOK, Revalidate, Return, Requests, M!Requests, Modes,
                      M!Modes, MaxScript
  <1>7. ASSUME NEW t \in Threads, Refuse(t) PROVE TypeOK'
    BY <1>1, <1>7 DEF TypeOK, Refuse, Return, Requests, M!Requests, Modes,
                      M!Modes, MaxScript
  <1>8. ASSUME NEW t \in Threads, Start(t) PROVE TypeOK'
    <2>1. mode' \in Modes
      BY <1>1, <1>8 DEF TypeOK, Start, M!During, Modes, M!Modes
    <2>2. 1 \in 1..(MaxScript + 1) BY DEF MaxScript
    <2>3. QED BY <1>1, <1>8, <2>1, <2>2 DEF TypeOK, Start
  <1>9. ASSUME NEW t \in Threads, CallSucceeds(t) PROVE TypeOK'
    <2>1. active' \in BOOLEAN
      BY <1>1, <1>9, Zenon DEF TypeOK, CallSucceeds, ActiveAfter
    <2>2. at[t] + 1 \in 1..(MaxScript + 1)
      <3>1. PICK n \in 1..MaxScript : n = Len(Script[req[t]])
        BY <1>1, ScriptShape DEF TypeOK
      <3>2. at[t] \in 1..(MaxScript + 1) /\ at[t] <= n
        BY <1>1, <1>9, <3>1 DEF TypeOK, CallSucceeds, HasCall
      <3>3. QED BY <3>2 DEF MaxScript
    <2>3. QED BY <1>1, <1>9, <2>1, <2>2 DEF TypeOK, CallSucceeds
  <1>10. ASSUME NEW t \in Threads, CallFails(t) PROVE TypeOK'
    <2>1. active' \in BOOLEAN
      BY <1>1, <1>10, Zenon DEF TypeOK, CallFails, ActiveAfter
    <2>2. mode' \in Modes
      BY <1>1, <1>10 DEF TypeOK, CallFails, M!GivenUp, Modes, M!Modes
    <2>3. /\ "Shutdown" \in Requests
          /\ "Inactive" \in Modes
          /\ 1 \in 1..(MaxScript + 1)
      BY DEF Requests, M!Requests, Modes, M!Modes, MaxScript
    <2>4. QED
      BY <1>1, <1>10, <2>1, <2>2, <2>3 DEF TypeOK, CallFails, Return
  <1>11. ASSUME NEW t \in Threads, Commit(t) PROVE TypeOK'
    BY <1>1, <1>11, RequestTables
    DEF TypeOK, Commit, Return, Requests, M!Requests, Modes, M!Modes, MaxScript
  <1>12. ASSUME NEW o \in Observers, ObserverStep(o) PROVE TypeOK'
    BY <1>1, <1>12
    DEF TypeOK, ObserverStep, Judge, Load, CompareExchange, Modes, M!Modes
  <1>13. CASE UNCHANGED vars BY <1>1, <1>13 DEF TypeOK, vars
  <1>14. QED
    BY <1>1, <1>2, <1>3, <1>4, <1>5, <1>6, <1>7, <1>8, <1>9, <1>10, <1>11,
       <1>12, <1>13
    DEF Next, ServiceStep
\* What a driver call does to the active flag: only shutdown_all takes it
\* down, and a successful init_device leaves it up.
LEMMA ActiveFlag ==
    ASSUME NEW call, NEW ok \in BOOLEAN, active' = ActiveAfter(call, ok)
    PROVE  /\ call # "shutdown_all" /\ active => active'
           /\ call = "init_device" /\ ok = TRUE => active'
  BY Zenon DEF ActiveAfter

\* In the middle of an action other than Shutdown or Init the driver is up.
LEMMA ActiveInAction ==
    ASSUME IndInv, NEW t \in Threads, Acting(t),
           req[t] # "Shutdown", req[t] # "Init"
    PROVE  active
  <1>1. CASE req[t] = "Recover" BY <1>1 DEF IndInv, ActionContext
  <1>2. CASE req[t] # "Recover"
    <2>1. from[t] \in {"Standby", "Armed", "Running", "Faulted"}
      BY RequestTables DEF IndInv, TypeOK, ActionContext
    <2>2. mode = from[t] \/ mode = "Faulted"
      BY <1>2 DEF IndInv, StableUnderAction, M!During
    <2>3. QED BY <2>1, <2>2, Zenon DEF IndInv, ActiveWhenUp
  <1>3. QED BY <1>1, <1>2

\* The inductive invariant survives the start of a callback and the steps
\* that take or give back the lock without running an action.
LEMMA StepLockOnly ==
    ASSUME IndInv, TypeOK', NEW t \in Threads,
           \/ \E r \in Requests : Call(t, r)
           \/ LockArmed(t)
           \/ Revalidate(t)
           \/ Refuse(t)
    PROVE  IndInv'
  <1>1. /\ UNCHANGED <<mode, active, opc, loaded>>
        /\ pc[t] # "act" /\ pc'[t] # "act"
        /\ \A s \in Threads \ {t} :
              pc'[s] = pc[s] /\ req'[s] = req[s] /\ at'[s] = at[s] /\ from'[s] = from[s]
    BY DEF IndInv, TypeOK, Call, LockArmed, Revalidate, Refuse, Return
  <1>2. \A s \in Threads : Acting(s)' =>
          s # t /\ Acting(s) /\ req'[s] = req[s] /\ at'[s] = at[s] /\ from'[s] = from[s]
    BY <1>1 DEF Acting
  <1>3. MutexHeld'
    BY ThreadsAssumption
    DEF IndInv, TypeOK, MutexHeld, Call, LockArmed, Revalidate, Refuse, Return
  <1>4. StableUnderAction' BY <1>1, <1>2 DEF IndInv, StableUnderAction
  <1>5. ActionContext' BY <1>1, <1>2 DEF IndInv, ActionContext
  <1>6. TransientModesOwned'
    <2>1. ASSUME NEW s \in Threads, owner = s, Acting(s)
          PROVE  owner' = s /\ Acting(s)' /\ req'[s] = req[s]
      <3>1. s # t BY <1>1, <2>1 DEF Acting
      <3>2. pc'[s] = "act" /\ req'[s] = req[s] BY <1>1, <2>1, <3>1 DEF Acting
      <3>3. owner' = s BY <1>3, <3>2 DEF MutexHeld
      <3>4. QED BY <3>2, <3>3 DEF Acting
    <2>2. QED BY <1>1, <2>1 DEF IndInv, TransientModesOwned
  <1>7. ActiveWhenUp' /\ LoadedDowngradable'
    BY <1>1 DEF IndInv, ActiveWhenUp, LoadedDowngradable
  <1>8. QED BY <1>3, <1>4, <1>5, <1>6, <1>7 DEF IndInv

\* The inductive invariant survives a driver call that succeeds.
LEMMA StepCallSucceeds ==
    ASSUME IndInv, TypeOK', NEW t \in Threads, CallSucceeds(t)
    PROVE  IndInv'
  <1>1. UNCHANGED <<mode, owner, req, pc, from, opc, loaded>> /\ Acting(t)
    BY DEF CallSucceeds, HasCall
  <1>2. CurrentCall(t) = "shutdown_all" => mode = "ShuttingDown" /\ req[t] = "Shutdown"
    <2>1. at[t] \in 1..Len(Script[req[t]]) /\ req[t] \in Requests
      BY ScriptShape DEF IndInv, TypeOK, CallSucceeds, HasCall, MaxScript
    <2>2. CurrentCall(t) = "shutdown_all" => req[t] = "Shutdown"
      BY <2>1, ShutdownCall DEF CurrentCall
    <2>3. req[t] = "Shutdown" => mode = "ShuttingDown"
      BY <1>1 DEF IndInv, StableUnderAction, M!During, M!AutoFaultModes
    <2>4. QED BY <2>2, <2>3
  <1>3. active /\ mode # "ShuttingDown" => active'
    BY <1>2, ActiveFlag, Zenon DEF CallSucceeds
  <1>4. \A s \in Threads : Acting(s) => s = t
    BY <1>1 DEF IndInv, MutexHeld, Acting
  <1>5. MutexHeld' /\ StableUnderAction' /\ TransientModesOwned' /\ LoadedDowngradable'
    BY <1>1 DEF IndInv, MutexHeld, StableUnderAction, TransientModesOwned,
                LoadedDowngradable, Acting
  <1>6. ActiveWhenUp' BY <1>1, <1>3, Zenon DEF IndInv, ActiveWhenUp
  <1>7. ActionContext'
    <2>1. req[t] = "Recover" => active'
      <3>1. req[t] = "Recover" => mode = "Recovering" 
        BY <1>1 DEF IndInv, StableUnderAction, M!During, M!AutoFaultModes
      <3>2. QED BY <3>1, <1>1, <1>3, Zenon DEF IndInv, ActionContext
    <2>2. req[t] = "Init" => active'
      <3>1. CASE req[t] = "Init" /\ at[t] > 1
        <4>1. active /\ CurrentCall(t) # "shutdown_all"
          BY <1>1, <1>2, <3>1 DEF IndInv, ActionContext
        <4>2. QED BY <4>1, ActiveFlag, Zenon DEF CallSucceeds
      <3>2. CASE req[t] = "Init" /\ ~(at[t] > 1)
        <4>1. at[t] = 1 BY <3>2 DEF IndInv, TypeOK
        <4>2. CurrentCall(t) = "init_device"
          BY <3>2, <4>1, ScriptShape DEF CurrentCall
        <4>3. QED BY <4>2, ActiveFlag, Zenon DEF CallSucceeds
      <3>3. QED BY <3>1, <3>2
    <2>3. QED BY <1>1, <1>4, <2>1, <2>2 DEF IndInv, ActionContext, Acting
  <1>8. QED BY <1>5, <1>6, <1>7 DEF IndInv
\* While the lock is free nobody acts; while t acts nobody else does.
LEMMA OneActor ==
    ASSUME IndInv
    PROVE  /\ owner = NoThread => \A s \in Threads : ~Acting(s)
           /\ \A s, t \in Threads : Acting(s) /\ Acting(t) => s = t
           /\ \A t \in Threads : Acting(t) => owner = t
  BY ThreadsAssumption DEF IndInv, MutexHeld, Acting

\* The inductive invariant survives the start of an action.
LEMMA StepStart ==
    ASSUME IndInv, TypeOK', NEW t \in Threads, Start(t)
    PROVE  IndInv'
  <1>1. /\ UNCHANGED <<active, req, opc, loaded>>
        /\ owner = NoThread /\ owner' = t
        /\ pc'[t] = "act" /\ from'[t] = mode /\ at'[t] = 1
        /\ mode \in M!AllowedFrom[req[t]]
        /\ mode' = M!During(req[t], mode)
        /\ \A s \in Threads \ {t} : pc'[s] = pc[s] /\ pc[s] # "act" /\ pc[s] # "revalidate"
    BY ThreadsAssumption DEF IndInv, TypeOK, MutexHeld, Start
  <1>2. \A s \in Threads : Acting(s)' => s = t BY <1>1 DEF Acting
  <1>3. MutexHeld' BY <1>1 DEF MutexHeld
  <1>4. StableUnderAction' BY <1>1, <1>2 DEF StableUnderAction
  <1>5. mode \notin {"Recovering", "ShuttingDown"}
    BY <1>1, ThreadsAssumption DEF IndInv, TransientModesOwned
  <1>6. TransientModesOwned'
    BY <1>1, <1>5 DEF TransientModesOwned, Acting, M!During
  <1>7. ActiveWhenUp'
    BY <1>1 DEF IndInv, ActiveWhenUp, M!During
  <1>8. ActionContext'
    <2>1. req[t] = "Recover" => active
      <3>1. req[t] = "Recover" => mode = "Faulted" BY <1>1 DEF M!AllowedFrom
      <3>2. QED BY <3>1 DEF IndInv, ActiveWhenUp
    <2>2. QED BY <1>1, <1>2, <2>1 DEF ActionContext
  <1>9. LoadedDowngradable' BY <1>1 DEF IndInv, LoadedDowngradable
  <1>10. QED BY <1>3, <1>4, <1>6, <1>7, <1>8, <1>9 DEF IndInv

\* What holds after t has given up or finished: the lock is free, nobody
\* acts, and the rest of the invariant only depends on the mode stored.
LEMMA AfterReturn ==
    ASSUME IndInv, TypeOK', NEW t \in Threads, Acting(t), owner' = NoThread,
           Return(t), UNCHANGED <<opc, loaded>>,
           mode' \notin {"Recovering", "ShuttingDown"},
           ActiveWhenUp'
    PROVE  IndInv'
  <1>1. /\ pc'[t] = "idle"
        /\ \A s \in Threads \ {t} : pc'[s] = pc[s] /\ pc[s] # "act" /\ pc[s] # "revalidate"
    BY OneActor DEF IndInv, TypeOK, MutexHeld, Return, Acting
  <1>2. \A s \in Threads : ~Acting(s)' BY <1>1 DEF Acting
  <1>3. MutexHeld' BY <1>1, ThreadsAssumption DEF MutexHeld
  <1>4. StableUnderAction' /\ ActionContext'
    BY <1>2 DEF StableUnderAction, ActionContext
  <1>5. TransientModesOwned' BY DEF TransientModesOwned
  <1>6. LoadedDowngradable' BY DEF IndInv, LoadedDowngradable
  <1>7. QED BY <1>3, <1>4, <1>5, <1>6 DEF IndInv

\* The inductive invariant survives a driver call that fails.
LEMMA StepCallFails ==
    ASSUME IndInv, TypeOK', NEW t \in Threads, CallFails(t)
    PROVE  IndInv'
  <1>1. /\ Acting(t) /\ owner' = NoThread /\ Return(t)
        /\ UNCHANGED <<opc, loaded>>
        /\ mode' = M!GivenUp(req[t], mode)
        /\ req[t] \in Requests
    BY DEF CallFails, HasCall, IndInv, TypeOK
  <1>2. at[t] \in 1..Len(Script[req[t]])
    BY ScriptShape DEF IndInv, TypeOK, CallFails, HasCall, MaxScript
  <1>3. CASE req[t] = "Shutdown"
    <2>1. mode' = "Configured" BY <1>1, <1>3 DEF M!GivenUp
    <2>2. QED BY <1>1, <2>1, AfterReturn DEF ActiveWhenUp
  <1>4. CASE req[t] = "Init"
    <2>1. mode = "Configured"
      BY <1>1, <1>4
      DEF IndInv, ActionContext, StableUnderAction, M!During, M!AllowedFrom, M!AutoFaultModes
    <2>2. mode' = "Configured" BY <1>1, <1>4, <2>1 DEF M!GivenUp
    <2>3. QED BY <1>1, <2>2, AfterReturn DEF ActiveWhenUp
  <1>5. CASE req[t] \notin {"Shutdown", "Init"}
    <2>1. CurrentCall(t) # "shutdown_all"
      BY <1>1, <1>2, <1>5, ShutdownCall DEF CurrentCall
    <2>2. active BY <1>1, <1>5, ActiveInAction
    <2>3. active' BY <2>1, <2>2, ActiveFlag, Zenon DEF CallFails
    <2>4. from[t] \in {"Standby", "Armed", "Running", "Faulted"}
      BY <1>1, <1>5, RequestTables DEF IndInv, ActionContext
    <2>5. mode' \notin {"Recovering", "ShuttingDown"}
      BY <1>1, <1>5, <2>4 DEF IndInv, StableUnderAction, M!During, M!GivenUp
    <2>6. QED BY <1>1, <2>3, <2>5, AfterReturn DEF ActiveWhenUp
  <1>6. QED BY <1>3, <1>4, <1>5

\* The inductive invariant survives the store of the target mode.
LEMMA StepCommit ==
    ASSUME IndInv, TypeOK', NEW t \in Threads, Commit(t)
    PROVE  IndInv'
  <1>1. /\ Acting(t) /\ owner' = NoThread /\ Return(t)
        /\ UNCHANGED <<active, opc, loaded>>
        /\ mode' = M!Target[req[t]]
        /\ req[t] \in Requests
        /\ at[t] > Len(Script[req[t]])
    BY DEF Commit, IndInv, TypeOK
  <1>2. mode' \notin {"Recovering", "ShuttingDown", "Faulted"}
    BY <1>1, RequestTables
  <1>3. req[t] = "Shutdown" => mode' = "Configured"
    BY <1>1 DEF M!Target
  <1>4. req[t] # "Shutdown" => active
    <2>1. CASE req[t] = "Init"
      <3>1. at[t] > 1 BY <1>1, <2>1, ScriptShape DEF IndInv, TypeOK
      <3>2. QED BY <1>1, <2>1, <3>1 DEF IndInv, ActionContext
    <2>2. CASE req[t] # "Init" BY <1>1, <2>2, ActiveInAction
    <2>3. QED BY <2>1, <2>2
  <1>5. ActiveWhenUp' BY <1>1, <1>3, <1>4 DEF ActiveWhenUp
  <1>6. QED BY <1>1, <1>2, <1>5, AfterReturn

\* The inductive invariant survives an observer's step: a downgrade only
\* replaces Armed or Running, which no transient mode is.
LEMMA StepObserver ==
    ASSUME IndInv, TypeOK', NEW o \in Observers, ObserverStep(o)
    PROVE  IndInv'
  <1>1. UNCHANGED <<active, owner, req, pc, at, from>>
    BY DEF ObserverStep, Judge, Load, CompareExchange
  <1>2. mode' = mode \/ (mode \in M!AutoFaultModes /\ mode' = "Faulted")
    BY DEF ObserverStep, Judge, Load, CompareExchange, IndInv, LoadedDowngradable
  <1>3. LoadedDowngradable'
    BY DEF ObserverStep, Judge, Load, CompareExchange, IndInv, TypeOK,
           LoadedDowngradable
  <1>4. MutexHeld' /\ ActionContext'
    BY <1>1 DEF IndInv, MutexHeld, ActionContext, Acting
  <1>5. StableUnderAction'
    BY <1>1, <1>2 DEF IndInv, StableUnderAction, Acting, M!AutoFaultModes
  <1>6. TransientModesOwned'
    BY <1>1, <1>2 DEF IndInv, TransientModesOwned, Acting, M!AutoFaultModes
  <1>7. ActiveWhenUp'
    BY <1>1, <1>2 DEF IndInv, ActiveWhenUp, M!AutoFaultModes
  <1>8. QED BY <1>3, <1>4, <1>5, <1>6, <1>7 DEF IndInv

\* The inductive invariant survives SetConfigured: nobody acts in Inactive.
LEMMA StepConfigure ==
    ASSUME IndInv, TypeOK', Configure
    PROVE  IndInv'
  <1>1. \A t \in Threads : ~Acting(t)
    <2>1. SUFFICES ASSUME NEW t \in Threads, Acting(t) PROVE FALSE OBVIOUS
    <2>2. mode = "Inactive" BY DEF Configure
    <2>3. from[t] = "Inactive" /\ req[t] # "Shutdown"
      BY <2>1, <2>2 DEF IndInv, StableUnderAction, M!During, M!AutoFaultModes
    <2>4. QED BY <2>1, <2>3, RequestTables DEF IndInv, TypeOK, ActionContext
  <1>2. StableUnderAction' /\ ActionContext'
    BY <1>1 DEF StableUnderAction, ActionContext, Acting, Configure
  <1>3. MutexHeld' /\ LoadedDowngradable' /\ TransientModesOwned' /\ ActiveWhenUp'
    BY DEF IndInv, MutexHeld, LoadedDowngradable, TransientModesOwned,
           ActiveWhenUp, Configure
  <1>4. QED BY <1>2, <1>3 DEF IndInv

\* Every step preserves the inductive invariant.
LEMMA StepIndInv == IndInv /\ [Next]_vars => IndInv'
  <1>1. SUFFICES ASSUME IndInv, [Next]_vars PROVE IndInv' OBVIOUS
  <1>2. TypeOK' BY <1>1, StepTypeOK DEF IndInv
  <1>3. CASE Configure BY <1>1, <1>2, <1>3, StepConfigure
  <1>4. CASE AxisHealthChanges \/ UNCHANGED vars
    BY <1>1, <1>2, <1>4
    DEF AxisHealthChanges, vars, IndInv, MutexHeld, StableUnderAction,
        TransientModesOwned, ActiveWhenUp, ActionContext, LoadedDowngradable, Acting
  <1>5. ASSUME NEW t \in Threads, ServiceStep(t) PROVE IndInv'
    BY <1>1, <1>2, <1>5, StepLockOnly, StepStart, StepCallSucceeds,
       StepCallFails, StepCommit
    DEF ServiceStep
  <1>6. ASSUME NEW t \in Threads, NEW r \in Requests, Call(t, r) PROVE IndInv'
    BY <1>1, <1>2, <1>6, StepLockOnly
  <1>7. ASSUME NEW o \in Observers, ObserverStep(o) PROVE IndInv'
    BY <1>1, <1>2, <1>7, StepObserver
  <1>8. QED BY <1>1, <1>3, <1>4, <1>5, <1>6, <1>7 DEF Next
-----------------------------------------------------------------------------
\* The inductive invariant holds in every reachable state.
THEOREM Inductive == Spec => []IndInv
  BY InitIndInv, StepIndInv, PTL DEF Spec

\* Type correctness of the coordinator and its threads.
THEOREM TypeCorrect == Spec => []TypeOK
  <1>1. IndInv => TypeOK BY DEF IndInv
  <1>2. QED BY <1>1, Inductive, PTL

\* transitionMutex_ excludes overlapping actions.
THEOREM OneActionAtATime == Spec => []MutexHeld
  <1>1. IndInv => MutexHeld BY DEF IndInv
  <1>2. QED BY <1>1, Inductive, PTL

\* No feedback moves the mode under a running action except down from Armed or
\* Running.
THEOREM ActionsSerialised == Spec => []StableUnderAction
  <1>1. IndInv => StableUnderAction BY DEF IndInv
  <1>2. QED BY <1>1, Inductive, PTL

\* Recovering and ShuttingDown never outlive the request that stores them.
THEOREM TransientModesNeverStranded == Spec => []TransientModesOwned
  <1>1. IndInv => TransientModesOwned BY DEF IndInv
  <1>2. QED BY <1>1, Inductive, PTL

\* active_ and mode_, two separate atomics, never disagree in a live mode.
THEOREM FlagFollowsMode == Spec => []ActiveWhenUp
  <1>1. IndInv => ActiveWhenUp BY DEF IndInv
  <1>2. QED BY <1>1, Inductive, PTL

\* Running is only entered by a Release that has passed its health check.
THEOREM MotionOnlyReleased == Spec => RunningOnlyByRelease
  <1>1. ASSUME IndInv, [Next]_vars, mode' = "Running", mode # "Running"
        PROVE  \E t \in Threads : /\ owner = t
                                  /\ req[t] = "Release"
                                  /\ from[t] = "Armed"
                                  /\ at[t] > 1
    <2>1. PICK t \in Threads : Commit(t)
      <3>1. ASSUME NEW t \in Threads, ServiceStep(t), ~Commit(t) PROVE FALSE
        BY <1>1, <3>1
        DEF ServiceStep, LockArmed, Revalidate, Refuse, Start, CallSucceeds,
            CallFails, M!During, M!GivenUp
      <3>2. ASSUME NEW o \in Observers, ObserverStep(o) PROVE FALSE
        BY <1>1, <3>2 DEF ObserverStep, Judge, Load, CompareExchange
      <3>3. QED
        BY <1>1, <3>1, <3>2 DEF Next, Configure, AxisHealthChanges, Call, vars
    <2>2. req[t] = "Release" /\ Acting(t)
      BY <1>1, <2>1, RequestTables DEF IndInv, TypeOK, Commit
    <2>3. owner = t BY <1>1, <2>2, OneActor
    <2>4. from[t] = "Armed"
      BY <1>1, <2>2 DEF IndInv, ActionContext, M!AllowedFrom
    <2>5. at[t] > 1
      BY <1>1, <2>1, <2>2, ScriptShape DEF IndInv, TypeOK, Commit
    <2>6. QED BY <2>2, <2>3, <2>4, <2>5
  <1>2. IndInv /\ [Next]_vars =>
          [(mode' = "Running" /\ mode # "Running") =>
             \E t \in Threads : /\ owner = t
                                /\ req[t] = "Release"
                                /\ from[t] = "Armed"
                                /\ at[t] > 1]_vars
    BY <1>1
  <1>3. QED BY <1>2, Inductive, PTL DEF Spec, RunningOnlyByRelease
-----------------------------------------------------------------------------
\* The abstract machine starts in the initial state of the coordinator.
LEMMA RefineInit == Init => M!Init
  BY ThreadsAssumption DEF Init, M!Init, BusyRequest

\* As long as the acting thread, if any, keeps its request, the abstract
\* machine sees the same request in progress.
LEMMA BusyKept ==
    ASSUME IndInv, IndInv',
           \A s \in Threads : Acting(s)' <=> Acting(s),
           \A s \in Threads : Acting(s) => req'[s] = req[s]
    PROVE  BusyRequest' = BusyRequest
  <1>1. CASE \E s \in Threads : Acting(s)
    <2>1. PICK s \in Threads : Acting(s) BY <1>1
    <2>2. owner = s /\ owner' = s
      BY <2>1 DEF IndInv, MutexHeld, Acting
    <2>3. QED BY <2>1, <2>2, ThreadsAssumption DEF BusyRequest
  <1>2. CASE ~\E s \in Threads : Acting(s)
    <2>1. owner # NoThread => owner \in Threads BY DEF IndInv, TypeOK
    <2>2. owner' # NoThread => owner' \in Threads BY DEF IndInv, TypeOK
    <2>3. BusyRequest = "none" BY <1>2, <2>1 DEF BusyRequest
    <2>4. BusyRequest' = "none" BY <1>2, <2>2 DEF BusyRequest
    <2>5. QED BY <2>3, <2>4
  <1>3. QED BY <1>1, <1>2

\* Every step of the coordinator is a step of the mode machine or leaves it
\* unchanged.
LEMMA RefineStep == IndInv /\ IndInv' /\ [Next]_vars => [M!Next]_(M!mvars)
  <1>1. SUFFICES ASSUME IndInv, IndInv', [Next]_vars
                 PROVE  M!Next \/ (mode' = mode /\ BusyRequest' = BusyRequest)
    BY DEF M!mvars
  <1>2. CASE Configure
    <2>1. BusyRequest' = BusyRequest
      BY <1>2 DEF Configure, BusyRequest, Acting
    <2>2. QED BY <1>2, <2>1 DEF Configure, M!Configure, M!Next
  <1>3. CASE AxisHealthChanges \/ UNCHANGED vars
    BY <1>3 DEF AxisHealthChanges, vars, BusyRequest, Acting
  <1>4. ASSUME NEW t \in Threads,
               \/ \E r \in Requests : Call(t, r)
               \/ LockArmed(t) \/ Revalidate(t) \/ Refuse(t) \/ CallSucceeds(t)
        PROVE  mode' = mode /\ BusyRequest' = BusyRequest
    <2>1. /\ mode' = mode
          /\ \A s \in Threads : Acting(s)' <=> Acting(s)
          /\ \A s \in Threads : Acting(s) => req'[s] = req[s]
      BY <1>1, <1>4
      DEF IndInv, TypeOK, Call, LockArmed, Revalidate, Refuse, CallSucceeds,
          Return, Acting
    <2>2. QED BY <1>1, <2>1, BusyKept
  <1>5. ASSUME NEW t \in Threads, Start(t) PROVE M!Next
    <2>1. BusyRequest = "none" BY <1>5 DEF Start, BusyRequest
    <2>2. BusyRequest' = req[t]
      BY <1>1, <1>5, ThreadsAssumption DEF IndInv, TypeOK, Start, BusyRequest, Acting
    <2>3. M!Begin(req[t]) BY <1>5, <2>1, <2>2 DEF Start, M!Begin
    <2>4. QED BY <1>1, <2>3 DEF M!Next, IndInv, TypeOK, Requests
  <1>6. ASSUME NEW t \in Threads, CallFails(t) \/ Commit(t) PROVE M!Next
    <2>1. BusyRequest = req[t]
      BY <1>1, <1>6, OneActor, ThreadsAssumption
      DEF CallFails, Commit, HasCall, BusyRequest
    <2>2. BusyRequest' = "none" BY <1>6 DEF CallFails, Commit, BusyRequest
    <2>3. M!GiveUp(req[t]) \/ M!Finish(req[t])
      BY <1>6, <2>1, <2>2 DEF CallFails, Commit, M!GiveUp, M!Finish
    <2>4. QED BY <1>1, <2>3 DEF M!Next, IndInv, TypeOK, Requests
  <1>7. ASSUME NEW o \in Observers, ObserverStep(o)
        PROVE  M!AutoFault \/ (mode' = mode /\ BusyRequest' = BusyRequest)
    <2>1. BusyRequest' = BusyRequest
      BY <1>7 DEF ObserverStep, Judge, Load, CompareExchange, BusyRequest, Acting
    <2>2. mode' = mode \/ (mode \in M!AutoFaultModes /\ mode' = "Faulted")
      BY <1>1, <1>7
      DEF ObserverStep, Judge, Load, CompareExchange, IndInv, LoadedDowngradable
    <2>3. QED BY <2>1, <2>2 DEF M!AutoFault
  <1>8. QED
    BY <1>1, <1>2, <1>3, <1>4, <1>5, <1>6, <1>7 DEF Next, ServiceStep, M!Next

\* The coordinator with its threads, its mutex and its lock-free feedback
\* path implements the mode machine of LifecycleModes.
THEOREM Refinement == Spec => ImplementsLifecycleModes
  BY RefineInit, RefineStep, Inductive, PTL
  DEF Spec, M!Spec, ImplementsLifecycleModes
=============================================================================
