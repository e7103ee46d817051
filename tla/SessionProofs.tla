---------------------------- MODULE SessionProofs ----------------------------
(***************************************************************************)
(* Proofs about Session, for any number of Terminate and SubmitSecret      *)
(* calls: its type invariant, the four safety invariants of the run and    *)
(* the safety part of the refinement of SessionLifecycle, all from one     *)
(* inductive invariant.                                                    *)
(***************************************************************************)
EXTENDS Session, TLAPS

\* Where a SubmitSecret call is while it holds connectMu.
Submitting == {"decide", "dial", "attach", "write", "clear", "unlock", "finish"}

\* Who holds connectMu, read off where the goroutines are; and finishAwaiting
\* runs only for a holder that called it.
LockInv ==
  /\ connectMu = "timer" <=> timer \in {"check", "finish"}
  /\ \A t \in Terminators : connectMu = t <=> term[t] \in {"look", "finish"}
  /\ \A s \in Submitters : connectMu = s <=> sub[s] \in Submitting
  /\ connectMu = "free" => finish = "off"
  /\ timer = "check" => finish = "off"
  /\ \A t \in Terminators : term[t] = "look" => finish = "off"
  /\ \A s \in Submitters : sub[s] \in Submitting \ {"finish"} => finish = "off"

\* How far the session has got: creation, the dial, the attached process.
PhaseInv ==
  /\ creator \in {"new", "attach"} <=> status = "starting"
  /\ creator \in {"new", "attach"} => timer = "off" /\ ~attached /\ finish = "off"
  /\ creator = "new" => proc = "none"
  /\ creator = "attach" => proc # "none"
  /\ creator = "fire" => status \in Final
  /\ ~Registered => \A t \in Terminators : term[t] = "idle"
  /\ ~Registered => \A s \in Submitters : sub[s] = "idle"
  /\ attached => proc # "none" /\ status \in {"running"} \cup Final
  /\ status = "running" => attached
  /\ watcher = "off" <=> ~attached
  /\ \A s \in Submitters :
       /\ sub[s] = "dial" => status = "awaiting_password" /\ proc = "none"
       /\ sub[s] = "attach" => status = "awaiting_password" /\ proc # "none"
       /\ sub[s] \in {"write", "clear"} => attached
  /\ status = "awaiting_password" /\ proc # "none" =>
       connectMu \in Submitters /\ sub[connectMu] = "attach"
  /\ finish # "off" => proc = "none" /\ ~attached

\* Who ends the session: the exit watcher of an attached process, or
\* finishAwaiting for a session that never had one.
EndInv ==
  /\ exitOnce = "fresh" <=> status \notin Final
  /\ watcher \in {"wait", "status"} => status = "running"
  /\ watcher \in {"close", "call", "fire", "teardown", "done"} => status \in Final
  /\ watcher \notin {"off", "wait"} => proc = "dead"
  /\ finish = "status" => status = "awaiting_password"
  /\ finish \notin {"off", "status"} => status \in Final
  /\ teardown # "open" => status \in Final
  /\ attached /\ watcher # "done" => teardown = "open"
  /\ finish \in {"status", "close", "teardown"} => teardown = "open"
  /\ teardown # "panicked"
  /\ bufClosed => status \in Final
  /\ status \in Final => proc # "live"

IInv == TypeOK /\ LockInv /\ PhaseInv /\ EndInv /\ PromptOfAwaiting

-----------------------------------------------------------------------------
(* Every action preserves the invariant: one lemma per goroutine.          *)

\* Nothing can race with the creator before the session is registered; after
\* that it only sets the callback.
LEMMA CreationKeeps ==
  ASSUME IInv, CreatorStep
  PROVE  IInv'
<1> USE ActorAssumption DEF IInv, TypeOK, LockInv, PhaseInv, EndInv, PromptOfAwaiting,
        Registered, Final, Statuses, Submitting, state, hook, sync, workers, calls
<1>1. CASE NewProcess  BY <1>1 DEF NewProcess
<1>2. CASE NewAwaiting  BY <1>2 DEF NewAwaiting
<1>3. CASE AttachNew  BY <1>3 DEF AttachNew, Attach
<1>4. CASE StoreSession  BY <1>4 DEF StoreSession
<1>5. CASE SetOnExit  BY <1>5 DEF SetOnExit
<1>6. CASE FireLate  BY <1>6 DEF FireLate
<1>7. QED  BY <1>1, <1>2, <1>3, <1>4, <1>5, <1>6 DEF CreatorStep

\* The exit watcher finds the session running, so it is the one that ends it.
LEMMA WatcherKeeps ==
  ASSUME IInv, WatcherStep \/ CollectorDone
  PROVE  IInv'
<1> USE ActorAssumption DEF IInv, TypeOK, LockInv, PhaseInv, EndInv, PromptOfAwaiting,
        Registered, Final, Statuses, Submitting, state, hook, sync, workers, calls
<1>1. CASE WatchDone  BY <1>1 DEF WatchDone
<1>2. CASE WatchStatus  BY <1>2 DEF WatchStatus
<1>3. CASE WatchClose  BY <1>3 DEF WatchClose
<1>4. CASE WatchCall  BY <1>4 DEF WatchCall
<1>5. CASE WatchFire  BY <1>5 DEF WatchFire
<1>6. CASE WatchTeardown  BY <1>6 DEF WatchTeardown, CloseTeardown
<1>7. CASE CollectorDone  BY <1>7 DEF CollectorDone
<1>8. QED  BY <1>1, <1>2, <1>3, <1>4, <1>5, <1>6, <1>7 DEF WatcherStep

\* finishAwaiting runs for a session that was never attached, so no exit watcher
\* competes with it.
LEMMA FinishKeeps ==
  ASSUME IInv, FinishStep
  PROVE  IInv'
<1> USE ActorAssumption DEF IInv, TypeOK, LockInv, PhaseInv, EndInv, PromptOfAwaiting,
        Registered, Final, Statuses, Submitting, state, hook, sync, workers, calls
<1>1. CASE FinishStatus  BY <1>1 DEF FinishStatus
<1>2. CASE FinishClose  BY <1>2 DEF FinishClose
<1>3. CASE FinishTeardown  BY <1>3 DEF FinishTeardown, CloseTeardown
<1>4. CASE FinishCall  BY <1>4 DEF FinishCall
<1>5. CASE FinishFire  BY <1>5 DEF FinishFire
<1>6. QED  BY <1>1, <1>2, <1>3, <1>4, <1>5 DEF FinishStep

\* The deadline ends the session only if, under the lock, it still waits.
LEMMA TimerKeeps ==
  ASSUME IInv, TimerStep
  PROVE  IInv'
<1> USE ActorAssumption DEF IInv, TypeOK, LockInv, PhaseInv, EndInv, PromptOfAwaiting,
        Registered, Final, Statuses, Submitting, state, hook, sync, workers, calls
<1>1. CASE TimerFires  BY <1>1 DEF TimerFires
<1>2. CASE TimerDropped  BY <1>2 DEF TimerDropped
<1>3. CASE TimerLocks  BY <1>3 DEF TimerLocks, Lock
<1>4. CASE TimerChecks  BY <1>4 DEF TimerChecks, Unlock, BeginFinish
<1>5. CASE TimerFinished  BY <1>5 DEF TimerFinished, EndFinish, Unlock
<1>6. QED  BY <1>1, <1>2, <1>3, <1>4, <1>5 DEF TimerStep

\* So does Terminate.
LEMMA TerminateKeeps ==
  ASSUME NEW t \in Terminators, IInv, TerminateCall(t) \/ TerminateStep(t)
  PROVE  IInv'
<1> USE ActorAssumption DEF IInv, TypeOK, LockInv, PhaseInv, EndInv, PromptOfAwaiting,
        Registered, Final, Statuses, Submitting, state, hook, sync, workers, calls,
        Goto
<1>1. CASE TerminateCall(t)  BY <1>1 DEF TerminateCall
<1>2. CASE TerminateOnce(t)
  <2>1. CASE terminateOnce = "fresh"  BY <1>2, <2>1 DEF TerminateOnce
  <2>2. CASE terminateOnce # "fresh"  BY <1>2, <2>2 DEF TerminateOnce
  <2>3. QED  BY <2>1, <2>2
<1>3. CASE TerminateLocks(t)  BY <1>3 DEF TerminateLocks, Lock
<1>4. CASE TerminateLooks(t)  BY <1>4 DEF TerminateLooks, Unlock, BeginFinish
<1>5. CASE TerminateFinished(t)  BY <1>5 DEF TerminateFinished, EndFinish, Unlock
<1>6. CASE TerminateKills(t)  BY <1>6 DEF TerminateKills
<1>7. CASE TerminateKilled(t)  BY <1>7 DEF TerminateKilled
<1>8. CASE TerminateSeesEnd(t)  BY <1>8 DEF TerminateSeesEnd
<1>9. CASE TerminateReturns(t)  BY <1>9 DEF TerminateReturns
<1>10. CASE TerminateGivesUp(t)  BY <1>10 DEF TerminateGivesUp
<1>11. QED  BY <1>1, <1>2, <1>3, <1>4, <1>5, <1>6, <1>7, <1>8, <1>9, <1>10 DEF TerminateStep

\* A secret that is being dialed with holds the lock, so the session still waits
\* when its process is attached.
LEMMA SubmitKeeps ==
  ASSUME NEW s \in Submitters, IInv, SubmitCalls(s) \/ SubmitStep(s)
  PROVE  IInv'
<1> USE ActorAssumption DEF IInv, TypeOK, LockInv, PhaseInv, EndInv, PromptOfAwaiting,
        Registered, Final, Statuses, Submitting, state, hook, sync, workers, calls,
        Move
<1>1. CASE SubmitLocks(s)  BY <1>1 DEF SubmitLocks, Lock
<1>2. CASE SubmitDecides(s)  BY <1>2 DEF SubmitDecides
<1>3. CASE DialFails(s)  BY <1>3 DEF DialFails, BeginFinish
<1>4. CASE DialSucceeds(s)  BY <1>4 DEF DialSucceeds
<1>5. CASE SubmitAttaches(s)  BY <1>5 DEF SubmitAttaches, Attach
<1>6. CASE SubmitWrites(s)  BY <1>6 DEF SubmitWrites
<1>7. CASE SubmitClears(s)  BY <1>7 DEF SubmitClears
<1>8. CASE SubmitUnlocks(s)  BY <1>8 DEF SubmitUnlocks, Unlock
<1>9. CASE SubmitFinished(s)  BY <1>9 DEF SubmitFinished, EndFinish, Unlock
<1>10. CASE SubmitCalls(s)  BY <1>10 DEF SubmitCalls
<1>11. QED  BY <1>1, <1>2, <1>3, <1>4, <1>5, <1>6, <1>7, <1>8, <1>9, <1>10 DEF SubmitStep

\* The process only dies, and its output only changes a terminal prompt.
LEMMA ProcessKeeps ==
  ASSUME IInv, ProcessExits \/ ScanOutput
  PROVE  IInv'
<1> USE ActorAssumption DEF IInv, TypeOK, LockInv, PhaseInv, EndInv, PromptOfAwaiting,
        Registered, Final, Statuses, Submitting, state, hook, sync, workers, calls
<1>1. CASE ProcessExits  BY <1>1 DEF ProcessExits
<1>2. CASE ScanOutput  BY <1>2 DEF ScanOutput
<1>3. QED  BY <1>1, <1>2

\* The inductive invariant holds of every behaviour.
THEOREM SessionInvariant == Spec => []IInv
<1>1. Init => IInv
  BY ActorAssumption DEF Init, IInv, TypeOK, LockInv, PhaseInv, EndInv, PromptOfAwaiting,
    Registered, Final, Statuses, Submitting
<1>2. IInv /\ [Next]_vars => IInv'
  <2> SUFFICES ASSUME IInv, [Next]_vars PROVE IInv'
    OBVIOUS
  <2>1. CASE CreatorStep
    BY <2>1, CreationKeeps
  <2>2. CASE WatcherStep \/ CollectorDone
    BY <2>2, WatcherKeeps
  <2>3. CASE FinishStep
    BY <2>3, FinishKeeps
  <2>4. CASE TimerStep
    BY <2>4, TimerKeeps
  <2>5. CASE ProcessExits \/ ScanOutput
    BY <2>5, ProcessKeeps
  <2>6. CASE \E t \in Terminators : TerminateCall(t) \/ TerminateStep(t)
    BY <2>6, TerminateKeeps
  <2>7. CASE \E s \in Submitters : SubmitCalls(s) \/ SubmitStep(s)
    BY <2>7, SubmitKeeps
  <2>8. CASE Stopped \/ UNCHANGED vars
    BY <2>8 DEF Stopped, vars, state, hook, sync, workers, calls, IInv, TypeOK, LockInv,
      PhaseInv, EndInv, PromptOfAwaiting, Registered
  <2>9. QED
    BY <2>1, <2>2, <2>3, <2>4, <2>5, <2>6, <2>7, <2>8 DEF Next
<1>3. QED  BY <1>1, <1>2, PTL DEF Spec

-----------------------------------------------------------------------------
\* For any number of callers, every variable has its type.
THEOREM SessionTypeCorrect == Spec => []TypeOK
<1>1. IInv => TypeOK  BY DEF IInv
<1>2. QED  BY <1>1, SessionInvariant, PTL

\* The teardown channel is never closed a second time, which would panic.
THEOREM TeardownIsClosedOnce == Spec => []TeardownClosedOnce
<1>1. IInv => TeardownClosedOnce  BY DEF IInv, EndInv, TeardownClosedOnce
<1>2. QED  BY <1>1, SessionInvariant, PTL

\* Whoever sees end-of-file or the end of the teardown also sees a final status.
THEOREM FinalStatusFirst == Spec => []FinalBeforeEof
<1>1. IInv => FinalBeforeEof  BY DEF IInv, EndInv, FinalBeforeEof
<1>2. QED  BY <1>1, SessionInvariant, PTL

\* No interleaving of the deadline, Terminate and a dial leaves a live process
\* behind a session that has ended.
THEOREM NoProcessIsOrphaned == Spec => []NoOrphan
<1>1. IInv => NoOrphan  BY DEF IInv, EndInv, NoOrphan
<1>2. QED  BY <1>1, SessionInvariant, PTL

\* The password dialog is shown exactly while nothing was dialed.
THEOREM DialogIsShownWhileAwaiting == Spec => []PromptOfAwaiting
<1>1. IInv => PromptOfAwaiting  BY DEF IInv
<1>2. QED  BY <1>1, SessionInvariant, PTL

-----------------------------------------------------------------------------
(* The refinement of SessionLifecycle.                                     *)

\* Every step is a step of the lifecycle or leaves what it shows unchanged.
LEMMA StepRefines ==
  ASSUME IInv, [Next]_vars
  PROVE  [Lifecycle!Next]_(Lifecycle!lifecycleVars)
<1> USE DEF IInv, TypeOK, PhaseInv, EndInv, Final, state, hook, sync, workers, calls,
        Lifecycle!Next, Lifecycle!lifecycleVars, Lifecycle!Ended
<1>1. CASE CreatorStep
  <2>1. CASE NewProcess  BY <2>1 DEF NewProcess, Lifecycle!Spawn
  <2>2. CASE NewAwaiting  BY <2>2 DEF NewAwaiting, Lifecycle!AwaitPassword
  <2>3. CASE AttachNew  BY <2>3 DEF AttachNew, Attach, Lifecycle!Run
  <2>4. CASE StoreSession \/ SetOnExit  BY <2>4 DEF StoreSession, SetOnExit
  <2>5. CASE FireLate  BY <2>5 DEF FireLate, Lifecycle!Tell
  <2>6. QED  BY <1>1, <2>1, <2>2, <2>3, <2>4, <2>5 DEF CreatorStep
<1>2. CASE WatcherStep
  <2>1. CASE WatchDone \/ WatchCall \/ WatchTeardown
    BY <2>1 DEF WatchDone, WatchCall, WatchTeardown
  <2>2. CASE WatchStatus  BY <2>2 DEF WatchStatus, Lifecycle!End
  <2>3. CASE WatchClose  BY <2>3 DEF WatchClose, Lifecycle!CloseOutput
  <2>4. CASE WatchFire  BY <2>4 DEF WatchFire, Lifecycle!Tell
  <2>5. QED  BY <1>2, <2>1, <2>2, <2>3, <2>4 DEF WatcherStep
<1>3. CASE FinishStep
  <2>1. CASE FinishStatus  BY <2>1 DEF FinishStatus, Lifecycle!GiveUp
  <2>2. CASE FinishClose  BY <2>2 DEF FinishClose, Lifecycle!CloseOutput
  <2>3. CASE FinishTeardown \/ FinishCall  BY <2>3 DEF FinishTeardown, FinishCall
  <2>4. CASE FinishFire  BY <2>4 DEF FinishFire, Lifecycle!Tell
  <2>5. QED  BY <1>3, <2>1, <2>2, <2>3, <2>4 DEF FinishStep
<1>4. CASE ProcessExits  BY <1>4 DEF ProcessExits, Lifecycle!Die
<1>5. CASE ScanOutput \/ CollectorDone  BY <1>5 DEF ScanOutput, CollectorDone
<1>6. CASE TimerStep
  BY <1>6 DEF TimerStep, TimerFires, TimerDropped, TimerLocks, TimerChecks, TimerFinished
<1>7. CASE \E t \in Terminators : TerminateCall(t) \/ TerminateStep(t)
  BY <1>7 DEF TerminateStep, TerminateCall, TerminateOnce, TerminateLocks, TerminateLooks,
    TerminateFinished, TerminateKills, TerminateKilled, TerminateSeesEnd,
    TerminateReturns, TerminateGivesUp
<1>8. CASE \E s \in Submitters : SubmitCalls(s) \/ SubmitStep(s)
  <2>1. PICK s \in Submitters : SubmitCalls(s) \/ SubmitStep(s)
    BY <1>8
  <2>2. CASE DialSucceeds(s)  BY <2>2 DEF DialSucceeds, Lifecycle!Spawn
  <2>3. CASE SubmitAttaches(s)  BY <2>3 DEF SubmitAttaches, Attach, Lifecycle!Run
  <2>4. CASE SubmitCalls(s) \/ SubmitLocks(s) \/ SubmitDecides(s) \/ DialFails(s) \/ SubmitWrites(s)
               \/ SubmitClears(s) \/ SubmitUnlocks(s) \/ SubmitFinished(s)
    BY <2>4 DEF SubmitCalls, SubmitLocks, SubmitDecides, DialFails, SubmitWrites, SubmitClears,
      SubmitUnlocks, SubmitFinished
  <2>5. QED  BY <2>1, <2>2, <2>3, <2>4 DEF SubmitStep
<1>9. CASE Stopped \/ UNCHANGED vars
  BY <1>9 DEF Stopped, vars
<1>10. QED
  BY <1>1, <1>2, <1>3, <1>4, <1>5, <1>6, <1>7, <1>8, <1>9 DEF Next

\* For any number of callers, a session moves through the lifecycle its clients
\* know and in no other way: one process at most, end-of-file and the report
\* only after the end.
THEOREM SessionIsALifecycle == Spec => Lifecycle!Safety
<1>1. Init => Lifecycle!Init
  BY DEF Init, Lifecycle!Init
<1>2. IInv /\ [Next]_vars => [Lifecycle!Next]_(Lifecycle!lifecycleVars)
  BY StepRefines
<1>3. QED  BY <1>1, <1>2, SessionInvariant, PTL DEF Spec, Lifecycle!Safety
=============================================================================
