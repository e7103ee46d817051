------------------------------- MODULE Session -------------------------------
(***************************************************************************)
(* internal/session, one Session object: its creator, the exit watcher,    *)
(* the log collector, the password timer, and any number of concurrent     *)
(* Terminate and SubmitSecret calls.  A critical section of Session.mu is  *)
(* one action; connectMu, the two sync.Once and the channels are state.    *)
(***************************************************************************)

CONSTANTS
  Terminators,  \* goroutines that call Terminate, each once
  Submitters    \* goroutines that call SubmitSecret, each once

ASSUME ActorAssumption ==
  /\ Terminators \cap Submitters = {}
  /\ {"timer", "free"} \cap (Terminators \cup Submitters) = {}

VARIABLES
  status,       \* Session.Status
  prompt,       \* kind of Session.PendingPrompt, or "none"
  proc,         \* the process: "none" started, "live", or "dead" (Done closed)
  attached,     \* Session.proc is set
  killed,       \* the process was signalled by proc.Terminate
  bufClosed,    \* the output buffer is closed
  terminated,   \* the flag Terminate raises
  onExit,       \* the lifecycle callback is set
  told,         \* history: the callback ran after the final status was written
  teardown,     \* channel: "open", "closed", or "panicked" (closed twice)
  connectMu,    \* holder of the lock, or "free"
  exitOnce, terminateOnce,              \* sync.Once: "fresh", "busy", "done"
  creator, watcher, collector, timer,   \* where each goroutine is
  exitAs,       \* the status the exit watcher decided on
  finish,       \* where finishAwaiting is, run by the holder of connectMu
  finishAs,     \* its status argument
  term, sub     \* where each Terminate and SubmitSecret call is

state   == <<status, prompt, proc, attached, killed, bufClosed, terminated>>
hook    == <<onExit, told>>
sync    == <<teardown, connectMu, exitOnce, terminateOnce>>
workers == <<creator, watcher, collector, timer, exitAs>>
calls   == <<finish, finishAs, term, sub>>
vars    == <<state, hook, sync, workers, calls>>

Final    == {"exited", "terminated"}
Statuses == {"starting", "awaiting_password", "running"} \cup Final

-----------------------------------------------------------------------------
Init ==
  /\ status = "starting" /\ prompt = "none"
  /\ proc = "none" /\ attached = FALSE /\ killed = FALSE
  /\ bufClosed = FALSE /\ terminated = FALSE
  /\ onExit = FALSE /\ told = FALSE
  /\ teardown = "open" /\ connectMu = "free"
  /\ exitOnce = "fresh" /\ terminateOnce = "fresh"
  /\ creator = "new" /\ watcher = "off" /\ collector = "off" /\ timer = "off"
  /\ exitAs = "exited"
  /\ finish = "off" /\ finishAs = "exited"
  /\ term = [t \in Terminators |-> "idle"]
  /\ sub = [s \in Submitters |-> "idle"]

Lock(a)   == connectMu = "free" /\ connectMu' = a
Unlock(a) == connectMu = a /\ connectMu' = "free"

\* A second close of a channel panics.
CloseTeardown ==
  teardown' = IF teardown = "open" THEN "closed" ELSE "panicked"

\* The client calls reach the session once it is in the registry.
Registered == creator \in {"hook", "fire", "done"}

-----------------------------------------------------------------------------
(* Creation: New, then Manager.Create.                                     *)

\* newLocalProc, or a dial that needs no password from the page.
NewProcess ==
  /\ creator = "new"
  /\ proc' = "live"
  /\ creator' = "attach"
  /\ UNCHANGED <<status, prompt, attached, killed, bufClosed, terminated, hook,
                 sync, watcher, collector, timer, exitAs, calls>>

\* A mutated form of NewAwaiting: no deadline is started.
NewAwaitingForever ==
  /\ creator = "new"
  /\ status' = "awaiting_password"
  /\ prompt' = "ssh"
  /\ creator' = "store"
  /\ UNCHANGED <<proc, attached, killed, bufClosed, terminated, hook, sync,
                 watcher, collector, timer, exitAs, calls>>

\* awaitPassword: the profile stores no password, so nothing is dialed.
NewAwaiting ==
  /\ creator = "new"
  /\ status' = "awaiting_password"
  /\ prompt' = "ssh"
  /\ timer' = "armed"
  /\ creator' = "store"
  /\ UNCHANGED <<proc, attached, killed, bufClosed, terminated, hook, sync,
                 watcher, collector, exitAs, calls>>

\* A live process becomes the session's, and its two goroutines start.
Attach ==
  /\ attached' = TRUE
  /\ status' = "running"
  /\ watcher' = "wait"
  /\ collector' = "run"

AttachNew ==
  /\ creator = "attach"
  /\ Attach
  /\ creator' = "store"
  /\ UNCHANGED <<prompt, proc, killed, bufClosed, terminated, hook, sync, timer,
                 exitAs, calls>>

StoreSession ==
  /\ creator = "store"
  /\ creator' = "hook"
  /\ UNCHANGED <<state, hook, sync, watcher, collector, timer, exitAs, calls>>

\* A mutated form of SetOnExit: it does not look whether the session ended.
SetOnExitBlind ==
  /\ creator = "hook"
  /\ onExit' = TRUE
  /\ creator' = "done"
  /\ UNCHANGED <<state, told, sync, watcher, collector, timer, exitAs, calls>>

SetOnExit ==
  /\ creator = "hook"
  /\ onExit' = TRUE
  /\ creator' = IF status \in Final THEN "fire" ELSE "done"
  /\ UNCHANGED <<state, told, sync, watcher, collector, timer, exitAs, calls>>

FireLate ==
  /\ creator = "fire"
  /\ told' = TRUE
  /\ creator' = "done"
  /\ UNCHANGED <<state, onExit, sync, watcher, collector, timer, exitAs, calls>>

-----------------------------------------------------------------------------
(* The process and its output.                                             *)

ProcessExits ==
  /\ proc = "live"
  /\ proc' = "dead"
  /\ UNCHANGED <<status, prompt, attached, killed, bufClosed, terminated, hook,
                 sync, workers, calls>>

\* scanOutput: the screen starts or stops showing a password prompt.  The copies
\* of an SSH session may go on after Done (sshclient/client.go:184-189).
ScanOutput ==
  /\ proc # "none"
  /\ prompt' \in {"terminal", "none"}
  /\ prompt' # prompt
  /\ UNCHANGED <<status, proc, attached, killed, bufClosed, terminated, hook,
                 sync, workers, calls>>

-----------------------------------------------------------------------------
(* runExitWatcher.                                                         *)

\* A mutated form of WatchDone: the output is closed as soon as the process is gone.
WatchDoneClosesFirst ==
  /\ watcher = "wait" /\ proc = "dead"
  /\ exitAs' = IF terminated THEN "terminated" ELSE "exited"
  /\ bufClosed' = TRUE
  /\ watcher' = "status"
  /\ UNCHANGED <<status, prompt, proc, attached, killed, terminated, hook, sync,
                 creator, collector, timer, calls>>

WatchDone ==
  /\ watcher = "wait" /\ proc = "dead"
  /\ exitAs' = IF terminated THEN "terminated" ELSE "exited"
  /\ watcher' = "status"
  /\ UNCHANGED <<state, hook, sync, creator, collector, timer, calls>>

\* exitOnce.Do: write the final status, unless someone else has.
WatchStatus ==
  /\ watcher = "status" /\ exitOnce # "busy"
  /\ IF exitOnce = "fresh"
     THEN exitOnce' = "busy" /\ status' = exitAs /\ watcher' = "close"
     ELSE UNCHANGED <<exitOnce, status>> /\ watcher' = "call"
  /\ UNCHANGED <<prompt, proc, attached, killed, bufClosed, terminated, hook,
                 teardown, connectMu, terminateOnce, creator, collector, timer,
                 exitAs, calls>>

WatchClose ==
  /\ watcher = "close"
  /\ bufClosed' = TRUE
  /\ exitOnce' = "done"
  /\ watcher' = "call"
  /\ UNCHANGED <<status, prompt, proc, attached, killed, terminated, hook,
                 teardown, connectMu, terminateOnce, creator, collector, timer,
                 exitAs, calls>>

WatchCall ==
  /\ watcher = "call"
  /\ watcher' = IF onExit THEN "fire" ELSE "teardown"
  /\ UNCHANGED <<state, hook, sync, creator, collector, timer, exitAs, calls>>

WatchFire ==
  /\ watcher = "fire"
  /\ told' = TRUE
  /\ watcher' = "teardown"
  /\ UNCHANGED <<state, onExit, sync, creator, collector, timer, exitAs, calls>>

WatchTeardown ==
  /\ watcher = "teardown"
  /\ CloseTeardown
  /\ watcher' = "done"
  /\ UNCHANGED <<state, hook, connectMu, exitOnce, terminateOnce, creator,
                 collector, timer, exitAs, calls>>

\* runLogCollector: the log reader's end-of-file closes logDone.
CollectorDone ==
  /\ collector = "run" /\ bufClosed
  /\ collector' = "done"
  /\ UNCHANGED <<state, hook, sync, creator, watcher, timer, exitAs, calls>>

-----------------------------------------------------------------------------
(* finishAwaiting, called by the holder of connectMu.                      *)

\* A mutated form of BeginFinish: the status stays what it was.
BeginFinishUnchanged(as) == finish' = "status" /\ finishAs' = status

BeginFinish(as) == finish' = "status" /\ finishAs' = as

FinishStatus ==
  /\ finish = "status" /\ exitOnce # "busy"
  /\ IF exitOnce = "fresh"
     THEN /\ exitOnce' = "busy"
          /\ status' = finishAs
          /\ prompt' = "none"
          /\ finish' = "close"
     ELSE UNCHANGED <<exitOnce, status, prompt>> /\ finish' = "over"
  /\ UNCHANGED <<proc, attached, killed, bufClosed, terminated, hook, teardown,
                 connectMu, terminateOnce, workers, finishAs, term, sub>>

FinishClose ==
  /\ finish = "close"
  /\ bufClosed' = TRUE
  /\ finish' = "teardown"
  /\ UNCHANGED <<status, prompt, proc, attached, killed, terminated, hook, sync,
                 workers, finishAs, term, sub>>

FinishTeardown ==
  /\ finish = "teardown"
  /\ CloseTeardown
  /\ exitOnce' = "done"
  /\ finish' = "call"
  /\ UNCHANGED <<state, hook, connectMu, terminateOnce, workers, finishAs, term, sub>>

FinishCall ==
  /\ finish = "call"
  /\ finish' = IF onExit THEN "fire" ELSE "over"
  /\ UNCHANGED <<state, hook, sync, workers, finishAs, term, sub>>

FinishFire ==
  /\ finish = "fire"
  /\ told' = TRUE
  /\ finish' = "over"
  /\ UNCHANGED <<state, onExit, sync, workers, finishAs, term, sub>>

FinishStep == \/ FinishStatus \/ FinishClose \/ FinishTeardown
              \/ FinishCall \/ FinishFire

\* Back in the caller, which releases the lock.
EndFinish(a) == finish = "over" /\ finish' = "off" /\ Unlock(a)

-----------------------------------------------------------------------------
(* runPasswordTimeout.                                                     *)

TimerFires ==
  /\ timer = "armed"
  /\ timer' = "fired"
  /\ UNCHANGED <<state, hook, sync, creator, watcher, collector, exitAs, calls>>

TimerDropped ==
  /\ timer = "armed" /\ teardown # "open"
  /\ timer' = "done"
  /\ UNCHANGED <<state, hook, sync, creator, watcher, collector, exitAs, calls>>

TimerLocks ==
  /\ timer = "fired"
  /\ Lock("timer")
  /\ timer' = "check"
  /\ UNCHANGED <<state, hook, teardown, exitOnce, terminateOnce, creator, watcher,
                 collector, exitAs, calls>>

\* Mutated forms of TimerChecks: the deadline ends whatever session it finds;
\* the early return forgets the lock.
TimerEndsAny ==
  /\ timer = "check"
  /\ BeginFinish("terminated") /\ timer' = "finish"
  /\ UNCHANGED <<state, hook, sync, creator, watcher, collector, exitAs, term, sub>>

TimerKeepsLock ==
  /\ timer = "check"
  /\ IF status = "awaiting_password"
     THEN BeginFinish("terminated") /\ timer' = "finish"
     ELSE timer' = "done" /\ UNCHANGED <<finish, finishAs>>
  /\ UNCHANGED <<state, hook, sync, creator, watcher, collector, exitAs, term, sub>>

TimerChecks ==
  /\ timer = "check"
  /\ \/ /\ status = "awaiting_password"
        /\ BeginFinish("terminated") /\ timer' = "finish"
        /\ UNCHANGED connectMu
     \/ /\ status # "awaiting_password"
        /\ Unlock("timer") /\ timer' = "done"
        /\ UNCHANGED <<finish, finishAs>>
  /\ UNCHANGED <<state, hook, teardown, exitOnce, terminateOnce, creator, watcher,
                 collector, exitAs, term, sub>>

TimerFinished ==
  /\ timer = "finish"
  /\ EndFinish("timer")
  /\ timer' = "done"
  /\ UNCHANGED <<state, hook, teardown, exitOnce, terminateOnce, creator, watcher,
                 collector, exitAs, finishAs, term, sub>>

TimerStep == TimerFires \/ TimerDropped \/ TimerLocks \/ TimerChecks \/ TimerFinished

-----------------------------------------------------------------------------
(* Terminate.  The first caller runs the body of terminateOnce, the others *)
(* wait for it; all then poll for a final status.                          *)

Goto(t, where) == term' = [term EXCEPT ![t] = where]

TerminateCall(t) ==
  /\ term[t] = "idle" /\ Registered
  /\ Goto(t, "once")
  /\ UNCHANGED <<state, hook, sync, workers, finish, finishAs, sub>>

TerminateOnce(t) ==
  /\ term[t] = "once" /\ terminateOnce # "busy"
  /\ IF terminateOnce = "fresh"
     THEN terminateOnce' = "busy" /\ terminated' = TRUE /\ Goto(t, "lock")
     ELSE UNCHANGED <<terminateOnce, terminated>> /\ Goto(t, "poll")
  /\ UNCHANGED <<status, prompt, proc, attached, killed, bufClosed, hook, teardown,
                 connectMu, exitOnce, workers, finish, finishAs, sub>>

TerminateLocks(t) ==
  /\ term[t] = "lock"
  /\ Lock(t)
  /\ Goto(t, "look")
  /\ UNCHANGED <<state, hook, teardown, exitOnce, terminateOnce, workers, finish,
                 finishAs, sub>>

TerminateLooks(t) ==
  /\ term[t] = "look"
  /\ \/ /\ status = "awaiting_password"
        /\ BeginFinish("terminated") /\ Goto(t, "finish")
        /\ UNCHANGED <<connectMu, terminateOnce>>
     \/ /\ status # "awaiting_password"
        /\ Unlock(t)
        /\ IF attached
           THEN Goto(t, "kill") /\ UNCHANGED terminateOnce
           ELSE Goto(t, "poll") /\ terminateOnce' = "done"
        /\ UNCHANGED <<finish, finishAs>>
  /\ UNCHANGED <<state, hook, teardown, exitOnce, workers, sub>>

TerminateFinished(t) ==
  /\ term[t] = "finish"
  /\ EndFinish(t)
  /\ terminateOnce' = "done"
  /\ Goto(t, "poll")
  /\ UNCHANGED <<state, hook, teardown, exitOnce, workers, finishAs, sub>>

TerminateKills(t) ==
  /\ term[t] = "kill"
  /\ killed' = TRUE
  /\ Goto(t, "killed")
  /\ UNCHANGED <<status, prompt, proc, attached, bufClosed, terminated, hook, sync,
                 workers, finish, finishAs, sub>>

\* proc.Terminate returns when the process is gone or its wait times out.
TerminateKilled(t) ==
  /\ term[t] = "killed"
  /\ terminateOnce' = "done"
  /\ Goto(t, "poll")
  /\ UNCHANGED <<state, hook, teardown, connectMu, exitOnce, workers, finish,
                 finishAs, sub>>

TerminateSeesEnd(t) ==
  /\ term[t] = "poll" /\ status \in Final
  /\ Goto(t, "ended")
  /\ UNCHANGED <<state, hook, sync, workers, finish, finishAs, sub>>

TerminateReturns(t) ==
  /\ term[t] = "ended" /\ teardown # "open"
  /\ Goto(t, "returned")
  /\ UNCHANGED <<state, hook, sync, workers, finish, finishAs, sub>>

\* The deadline of the poll, or the two seconds for teardown, are over.
TerminateGivesUp(t) ==
  /\ term[t] \in {"poll", "ended"}
  /\ Goto(t, "gaveup")
  /\ UNCHANGED <<state, hook, sync, workers, finish, finishAs, sub>>

TerminateStep(t) ==
  \/ TerminateOnce(t) \/ TerminateLocks(t) \/ TerminateLooks(t)
  \/ TerminateFinished(t) \/ TerminateKills(t) \/ TerminateKilled(t)
  \/ TerminateSeesEnd(t) \/ TerminateReturns(t) \/ TerminateGivesUp(t)

-----------------------------------------------------------------------------
(* SubmitSecret, which holds connectMu from end to end.                    *)

Move(s, where) == sub' = [sub EXCEPT ![s] = where]

SubmitCalls(s) ==
  /\ sub[s] = "idle" /\ Registered
  /\ Move(s, "lock")
  /\ UNCHANGED <<state, hook, sync, workers, finish, finishAs, term>>

\* A mutated form of SubmitLocks: the secret is handed over without the lock.
SubmitUnserialized(s) ==
  /\ sub[s] = "lock"
  /\ Move(s, "decide")
  /\ UNCHANGED <<state, hook, sync, workers, finish, finishAs, term>>

SubmitLocks(s) ==
  /\ sub[s] = "lock"
  /\ Lock(s)
  /\ Move(s, "decide")
  /\ UNCHANGED <<state, hook, teardown, exitOnce, terminateOnce, workers, finish,
                 finishAs, term>>

SubmitDecides(s) ==
  /\ sub[s] = "decide"
  /\ Move(s, IF status = "awaiting_password" THEN "dial"
             ELSE IF status = "running" /\ prompt = "terminal" THEN "write"
             ELSE "unlock")
  /\ UNCHANGED <<state, hook, sync, workers, finish, finishAs, term>>

\* connectWithSecret: the profile is gone, or the dial fails.  Its timeout is that of
\* the TCP connection (sshclient/client.go:84-89): a server that accepts and says
\* nothing in the handshake, or to the requests after it, keeps the dial waiting.
DialFails(s) ==
  /\ sub[s] = "dial"
  /\ BeginFinish("exited")
  /\ Move(s, "finish")
  /\ UNCHANGED <<state, hook, sync, workers, term>>

DialSucceeds(s) ==
  /\ sub[s] = "dial"
  /\ proc' = "live"
  /\ Move(s, "attach")
  /\ UNCHANGED <<status, prompt, attached, killed, bufClosed, terminated, hook,
                 sync, workers, finish, finishAs, term>>

\* A mutated form of SubmitAttaches: the answered prompt stays.
SubmitAttachesKeepsPrompt(s) ==
  /\ sub[s] = "attach"
  /\ Attach
  /\ Move(s, "unlock")
  /\ UNCHANGED <<prompt, proc, killed, bufClosed, terminated, hook, sync, creator,
                 timer, exitAs, finish, finishAs, term>>

SubmitAttaches(s) ==
  /\ sub[s] = "attach"
  /\ Attach
  /\ prompt' = "none"
  /\ Move(s, "unlock")
  /\ UNCHANGED <<proc, killed, bufClosed, terminated, hook, sync, creator, timer,
                 exitAs, finish, finishAs, term>>

\* writeTerminalSecret: the write may fail, else the prompt is taken down.  A program
\* that does not read its input may keep it waiting.
SubmitWrites(s) ==
  /\ sub[s] = "write"
  /\ \E where \in {"clear", "unlock"} : Move(s, where)
  /\ UNCHANGED <<state, hook, sync, workers, finish, finishAs, term>>

SubmitClears(s) ==
  /\ sub[s] = "clear"
  /\ prompt' = "none"
  /\ Move(s, "unlock")
  /\ UNCHANGED <<status, proc, attached, killed, bufClosed, terminated, hook, sync,
                 workers, finish, finishAs, term>>

SubmitUnlocks(s) ==
  /\ sub[s] = "unlock"
  /\ Unlock(s)
  /\ Move(s, "done")
  /\ UNCHANGED <<state, hook, teardown, exitOnce, terminateOnce, workers, finish,
                 finishAs, term>>

SubmitFinished(s) ==
  /\ sub[s] = "finish"
  /\ EndFinish(s)
  /\ Move(s, "done")
  /\ UNCHANGED <<state, hook, teardown, exitOnce, terminateOnce, workers, finishAs,
                 term>>

SubmitStep(s) ==
  \/ SubmitLocks(s) \/ SubmitDecides(s) \/ DialFails(s) \/ DialSucceeds(s) \/ SubmitAttaches(s)
  \/ SubmitWrites(s) \/ SubmitClears(s) \/ SubmitUnlocks(s) \/ SubmitFinished(s)

-----------------------------------------------------------------------------
CreatorStep == NewProcess \/ NewAwaiting \/ AttachNew \/ StoreSession \/ SetOnExit \/ FireLate
WatcherStep == \/ WatchDone \/ WatchStatus \/ WatchClose \/ WatchCall \/ WatchFire
               \/ WatchTeardown

\* Nothing is left to do: every call returned and every goroutine ended.
AllDone ==
  /\ creator = "done" /\ watcher \in {"off", "done"} /\ collector \in {"off", "done"}
  /\ timer \in {"off", "done"} /\ finish = "off" /\ proc # "live"
  /\ \A t \in Terminators : term[t] \in {"returned", "gaveup"}
  /\ \A s \in Submitters : sub[s] = "done"

Stopped == AllDone /\ UNCHANGED vars

Next ==
  \/ CreatorStep \/ ProcessExits \/ ScanOutput \/ WatcherStep \/ CollectorDone
  \/ FinishStep \/ TimerStep
  \/ \E t \in Terminators : TerminateCall(t) \/ TerminateStep(t)
  \/ \E s \in Submitters : SubmitCalls(s) \/ SubmitStep(s)
  \/ Stopped

\* The steps of SubmitSecret that wait for nobody but the other goroutines here: a
\* write to a process that is gone returns too.
SubmitOwnStep(s) ==
  \/ SubmitLocks(s) \/ SubmitDecides(s) \/ SubmitAttaches(s) \/ SubmitClears(s)
  \/ SubmitUnlocks(s) \/ SubmitFinished(s) \/ (proc = "dead" /\ SubmitWrites(s))

\* Every goroutine that can take a step does, a timer fires, a signalled process
\* exits.  Nobody has to call, an unsignalled process may run forever, and neither the
\* dial of New nor that of a submission, nor the program a secret is written to, has
\* to answer.
Fairness ==
  /\ WF_vars(creator # "new" /\ CreatorStep) /\ WF_vars(WatcherStep) /\ WF_vars(CollectorDone)
  /\ WF_vars(FinishStep) /\ WF_vars(TimerStep)
  /\ WF_vars(killed /\ ProcessExits)
  /\ \A t \in Terminators : WF_vars(TerminateStep(t))
  /\ \A s \in Submitters : WF_vars(SubmitOwnStep(s))

Spec == Init /\ [][Next]_vars /\ Fairness

-----------------------------------------------------------------------------
\* Every variable has the shape the code gives it.
TypeOK ==
  /\ status \in Statuses /\ prompt \in {"none", "ssh", "terminal"}
  /\ proc \in {"none", "live", "dead"}
  /\ attached \in BOOLEAN /\ killed \in BOOLEAN /\ bufClosed \in BOOLEAN
  /\ terminated \in BOOLEAN /\ onExit \in BOOLEAN /\ told \in BOOLEAN
  /\ teardown \in {"open", "closed", "panicked"}
  /\ connectMu \in Terminators \cup Submitters \cup {"timer", "free"}
  /\ exitOnce \in {"fresh", "busy", "done"}
  /\ terminateOnce \in {"fresh", "busy", "done"}
  /\ creator \in {"new", "attach", "store", "hook", "fire", "done"}
  /\ watcher \in {"off", "wait", "status", "close", "call", "fire", "teardown", "done"}
  /\ collector \in {"off", "run", "done"}
  /\ timer \in {"off", "armed", "fired", "check", "finish", "done"}
  /\ exitAs \in Final /\ finishAs \in Final
  /\ finish \in {"off", "status", "close", "teardown", "call", "fire", "over"}
  /\ term \in [Terminators -> {"idle", "once", "lock", "look", "finish", "kill",
                               "killed", "poll", "ended", "returned", "gaveup"}]
  /\ sub \in [Submitters -> {"idle", "lock", "decide", "dial", "attach", "write", "clear",
                             "unlock", "finish", "done"}]

\* The teardown channel is closed by the exit watcher or by finishAwaiting,
\* never by both: a second close would bring the daemon down
\* (session.go:326, 714).
TeardownClosedOnce == teardown # "panicked"

\* Readers get end-of-file, and waiters are released, only when the final status
\* can already be seen (session.go:336-341, 707-714).
FinalBeforeEof == bufClosed \/ teardown = "closed" => status \in Final

\* A session that has ended has no live process: no dial can finish after the
\* timeout, a failed secret or Terminate ended the session (session.go:119-121).
NoOrphan == status \in Final => proc # "live"

\* The password dialog of an awaiting session is shown exactly while nothing was
\* dialed, and is never left behind by it (session.go:313, 660, 711).
PromptOfAwaiting ==
  /\ prompt = "ssh" => status = "awaiting_password"
  /\ status = "awaiting_password" /\ proc = "none" => prompt = "ssh"

\* The session implements the lifecycle its clients see, the report of the end
\* and the end-of-file included.
Lifecycle == INSTANCE SessionLifecycle WITH eof <- bufClosed
ImplementsLifecycle == Lifecycle!Spec

\* A submission waits, under connectMu, for a server or a program.
Stuck == \E s \in Submitters : sub[s] = "dial" \/ (sub[s] = "write" /\ proc # "dead")

\* A session does not wait for a password forever, and one that Terminate was called on
\* ends, unless a submission that holds connectMu waits for its peer for good: the
\* deadline and Terminate both wait for it then (session.go:447-487, 616-622, 728-754).
Ends ==
  /\ (status = "awaiting_password") ~> (status # "awaiting_password" \/ []Stuck)
  /\ terminated ~> ((status \in Final /\ teardown = "closed") \/ []Stuck)

\* Every call of Terminate and SubmitSecret comes back, the ones that wait for the lock
\* or the Once included, with the same exception (session.go:451-453, 620-621).
CallsReturn ==
  /\ \A t \in Terminators :
       (term[t] # "idle") ~> (term[t] \in {"returned", "gaveup"} \/ []Stuck)
  /\ \A s \in Submitters : (sub[s] # "idle") ~> (sub[s] = "done" \/ []Stuck)

\* What API.md says of pending_prompt: present only while the session waits for
\* a secret.  The exit watcher leaves a terminal prompt behind.
PromptOnlyWhileWaiting == status \in Final => prompt = "none"

\* What the comment of Terminate says of its return: the exit watcher and the log
\* collector have finished.
QuietAfterTerminate ==
  (\E t \in Terminators : term[t] = "returned")
    => watcher \in {"off", "done"} /\ collector \in {"off", "done"}
=============================================================================
