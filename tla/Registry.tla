------------------------------ MODULE Registry ------------------------------
(***************************************************************************)
(* internal/session/manager.go and internal/storage: the daemon's table of *)
(* sessions and sessions.json, which every change rewrites.  Clients       *)
(* create, terminate and delete sessions; the exit watcher of a session    *)
(* reports its end; each of them runs Manager.persist on its own.  The     *)
(* daemon may crash between any two steps and be started again.            *)
(*                                                                         *)
(* A session is here only what sessions.json tells apart: not created,     *)
(* live (starting, awaiting a password, running), or ended.                *)
(***************************************************************************)
EXTENDS Naturals

CONSTANTS
  Sessions,    \* session IDs, none of which is used twice
  Clients,     \* goroutines of API requests
  MaxCrashes,  \* bound: how often the daemon crashes
  MaxFailures  \* bound: how often a save fails

ASSUME RegistryAssumption ==
  /\ Sessions \cap Clients = {} /\ "free" \notin Sessions \cup Clients
  /\ MaxCrashes \in Nat /\ MaxFailures \in Nat

VARIABLES
  up,        \* the daemon runs
  registry,  \* Manager.sessions
  status,    \* of each session object; "lost" once a crash forgot the session
  hooked,    \* sessions with a lifecycle callback
  procs,     \* sessions whose process, and so whose exit watcher, this daemon started
  at,        \* where each goroutine is: a client, or a session's exit watcher
  target,    \* the session a client's request is about
  again,     \* the creator persists twice: for the callback and for Create
  left,      \* sessions ListAll has still to visit, per goroutine
  shot,      \* what ListAll has collected, per goroutine
  storeMu,   \* holder of Store.mu, or "free"
  disk,      \* sessions.json; "none" for a session it does not list
  recorded,  \* history: the session's end or removal has been saved since
  crashes, failures

memory  == <<registry, status, hooked, procs>>
request == <<target, again>>
saving  == <<left, shot, storeMu>>
file    == <<disk, recorded>>
bounds  == <<up, crashes, failures>>
vars    == <<memory, at, request, saving, file, bounds>>

Actors  == Clients \cup Sessions
Records == {"none", "live", "ended"}
Nothing == [s \in Sessions |-> "none"]

-----------------------------------------------------------------------------
\* storage.Init leaves an empty list, and Manager.Restore reads it.
Init ==
  /\ up = TRUE /\ crashes = 0 /\ failures = 0
  /\ registry = {} /\ hooked = {} /\ procs = {} /\ status = Nothing
  /\ at = [a \in Actors |-> "idle"]
  /\ target = [c \in Clients |-> "none"] /\ again = [c \in Clients |-> FALSE]
  /\ left = [a \in Actors |-> {}] /\ shot = [a \in Actors |-> Nothing]
  /\ storeMu = "free" /\ disk = Nothing /\ recorded = {}

Goto(a, where) == at' = [at EXCEPT ![a] = where]

\* Manager.persist starts by listing the table, one session at a time.
BeginPersist(a) ==
  /\ Goto(a, "list")
  /\ left' = [left EXCEPT ![a] = Sessions]
  /\ shot' = [shot EXCEPT ![a] = Nothing]

-----------------------------------------------------------------------------
(* Manager.Create, Terminate and Delete.                                   *)

Create(c) ==
  /\ up /\ at[c] = "idle"
  /\ \E s \in Sessions : /\ status[s] = "none"
                         /\ status' = [status EXCEPT ![s] = "live"]
                         /\ target' = [target EXCEPT ![c] = s]
                         /\ procs' = procs \cup {s}
  /\ Goto(c, "register")
  /\ UNCHANGED <<registry, hooked, again, saving, file, bounds>>

Register(c) ==
  /\ at[c] = "register"
  /\ registry' = registry \cup {target[c]}
  /\ Goto(c, "hook")
  /\ UNCHANGED <<status, hooked, procs, request, saving, file, bounds>>

\* A mutated form of Hook: it does not look whether the session ended, and Create
\* leaves every save to the callback.
HookBlind(c) ==
  /\ at[c] = "hook"
  /\ hooked' = hooked \cup {target[c]}
  /\ Goto(c, "idle")
  /\ UNCHANGED <<registry, status, procs, request, saving, file, bounds>>

\* setOnExit: a session that has already ended is reported by its creator.
Hook(c) ==
  /\ at[c] = "hook"
  /\ hooked' = hooked \cup {target[c]}
  /\ again' = [again EXCEPT ![c] = status[target[c]] = "ended"]
  /\ target' = [target EXCEPT ![c] = "none"]
  /\ BeginPersist(c)
  /\ UNCHANGED <<registry, status, procs, storeMu, file, bounds>>

\* Session.Terminate has returned, the session having ended or not.
Terminate(c) ==
  /\ up /\ at[c] = "idle"
  /\ registry # {}
  /\ BeginPersist(c)
  /\ UNCHANGED <<memory, request, storeMu, file, bounds>>

\* A mutated form of DeleteChecks: any session may go.
DeleteUnchecked(c) ==
  /\ up /\ at[c] = "idle"
  /\ \E s \in registry : target' = [target EXCEPT ![c] = s]
  /\ Goto(c, "delete")
  /\ UNCHANGED <<memory, again, saving, file, bounds>>

DeleteChecks(c) ==
  /\ up /\ at[c] = "idle"
  /\ \E s \in registry : /\ status[s] = "ended"
                         /\ target' = [target EXCEPT ![c] = s]
  /\ Goto(c, "delete")
  /\ UNCHANGED <<memory, again, saving, file, bounds>>

Delete(c) ==
  /\ at[c] = "delete"
  /\ registry' = registry \ {target[c]}
  /\ target' = [target EXCEPT ![c] = "none"]
  /\ BeginPersist(c)
  /\ UNCHANGED <<status, hooked, procs, again, storeMu, file, bounds>>

-----------------------------------------------------------------------------
(* The end of a session and its report.                                    *)

Exits(s) ==
  /\ s \in procs /\ status[s] = "live"
  /\ procs' = procs \ {s}
  /\ status' = [status EXCEPT ![s] = "ended"]
  /\ Goto(s, "report")
  /\ UNCHANGED <<registry, hooked, request, saving, file, bounds>>

Report(s) ==
  /\ at[s] = "report" /\ s \in hooked
  /\ BeginPersist(s)
  /\ UNCHANGED <<memory, request, storeMu, file, bounds>>

\* No callback yet: setOnExit will see the final status.
ReportLater(s) ==
  /\ at[s] = "report" /\ s \notin hooked
  /\ Goto(s, "idle")
  /\ UNCHANGED <<memory, request, saving, file, bounds>>

-----------------------------------------------------------------------------
(* Manager.persist: ListAll, then Store.SaveSessions.                      *)

\* A mutated form of Visit: a session that is still being created counts as ended.
VisitEarly(a, s) ==
  /\ at[a] = "list" /\ s \in left[a]
  /\ left' = [left EXCEPT ![a] = @ \ {s}]
  /\ shot' = [shot EXCEPT ![a][s] = IF s \notin registry THEN "none"
                                    ELSE IF s \notin hooked THEN "ended" ELSE status[s]]
  /\ UNCHANGED <<memory, at, request, storeMu, file, bounds>>

\* sync.Map.Range visits the sessions one by one, in no given order.
Visit(a, s) ==
  /\ at[a] = "list" /\ s \in left[a]
  /\ left' = [left EXCEPT ![a] = @ \ {s}]
  /\ shot' = [shot EXCEPT ![a][s] = IF s \in registry THEN status[s] ELSE "none"]
  /\ UNCHANGED <<memory, at, request, storeMu, file, bounds>>

SaveLocks(a) ==
  /\ at[a] = "list" /\ left[a] = {}
  /\ storeMu = "free" /\ storeMu' = a
  /\ Goto(a, "write")
  /\ UNCHANGED <<memory, request, left, shot, file, bounds>>

\* A mutated form of SaveWrites: sessions.json itself is written.
SaveWritesInPlace(a) ==
  /\ at[a] = "write"
  /\ disk' = [s \in Sessions |-> "torn"]
  /\ Goto(a, "rename")
  /\ UNCHANGED <<memory, request, saving, recorded, bounds>>

\* atomicWriteFile: the list goes into a temporary file, which is synced.
SaveWrites(a) ==
  /\ at[a] = "write"
  /\ Goto(a, "rename")
  /\ UNCHANGED <<memory, request, saving, file, bounds>>

\* The request, or the callback, is over; a creator may have to persist again.
Saved(a) ==
  /\ storeMu' = "free"
  /\ IF a \in Clients /\ again[a]
     THEN BeginPersist(a) /\ again' = [again EXCEPT ![a] = FALSE]
     ELSE Goto(a, "idle") /\ shot' = [shot EXCEPT ![a] = Nothing] /\ UNCHANGED <<left, again>>

SaveRenames(a) ==
  /\ at[a] = "rename"
  /\ disk' = shot[a]
  /\ recorded' = recorded \cup
       {s \in Sessions : \/ shot[a][s] = "ended"
                         \/ shot[a][s] = "none" /\ s \in hooked \ registry}
  /\ Saved(a)
  /\ UNCHANGED <<memory, target, bounds>>

\* An error of the write or of the rename is logged and nothing else.
SaveFails(a) ==
  /\ at[a] \in {"write", "rename"} /\ failures < MaxFailures
  /\ failures' = failures + 1
  /\ Saved(a)
  /\ UNCHANGED <<memory, target, file, up, crashes>>

PersistStep(a) ==
  \/ \E s \in Sessions : Visit(a, s)
  \/ SaveWrites(a) \/ SaveRenames(a) \/ SaveFails(a)

-----------------------------------------------------------------------------
(* A crash, or a shutdown, which ends no session either; then Restore.     *)

Crash ==
  /\ up /\ crashes < MaxCrashes
  /\ up' = FALSE /\ crashes' = crashes + 1
  /\ registry' = {} /\ hooked' = {} /\ procs' = {}
  /\ at' = [a \in Actors |-> "idle"] /\ again' = [c \in Clients |-> FALSE]
  /\ left' = [a \in Actors |-> {}] /\ shot' = [a \in Actors |-> Nothing]
  /\ storeMu' = "free"
  /\ target' = [c \in Clients |-> "none"]
  /\ UNCHANGED <<status, file, failures>>

\* A mutated form of Restore: the recorded status is taken as it is.
RestoreAsIs ==
  /\ ~up /\ up' = TRUE
  /\ registry' = {s \in Sessions : disk[s] # "none"}
  /\ status' = [s \in Sessions |-> IF disk[s] # "none" THEN disk[s]
                                   ELSE IF status[s] = "none" THEN "none" ELSE "lost"]
  /\ UNCHANGED <<hooked, procs, at, request, saving, file, crashes, failures>>

\* No process survives: what is recorded as live is restored as ended.
Restore ==
  /\ ~up /\ up' = TRUE
  /\ registry' = {s \in Sessions : disk[s] # "none"}
  /\ status' = [s \in Sessions |-> IF disk[s] # "none" THEN "ended"
                                   ELSE IF status[s] = "none" THEN "none" ELSE "lost"]
  /\ UNCHANGED <<hooked, procs, at, request, saving, file, crashes, failures>>

-----------------------------------------------------------------------------
ClientStep(c) == Register(c) \/ Hook(c) \/ Delete(c)
ReportStep(s) == Report(s) \/ ReportLater(s)

\* Between requests the daemon waits for the next one.
Quiet == up /\ \A a \in Actors : at[a] = "idle"
Idle  == Quiet /\ UNCHANGED vars

Next ==
  \/ \E c \in Clients : Create(c) \/ Terminate(c) \/ DeleteChecks(c) \/ ClientStep(c)
  \/ \E s \in Sessions : Exits(s) \/ ReportStep(s)
  \/ \E a \in Actors : PersistStep(a) \/ SaveLocks(a)
  \/ Crash \/ Restore \/ Idle

\* Every goroutine runs on, and Store.mu starves nobody: sync.RWMutex queues
\* its writers.  Nobody has to send a request, and no session has to end.
Fairness ==
  /\ \A c \in Clients : WF_vars(ClientStep(c))
  /\ \A s \in Sessions : WF_vars(ReportStep(s))
  /\ \A a \in Actors : WF_vars(PersistStep(a)) /\ SF_vars(SaveLocks(a))

Spec == Init /\ [][Next]_vars /\ Fairness

-----------------------------------------------------------------------------
\* Every variable has the shape the code gives it, and sessions.json is never
\* found half written.
TypeOK ==
  /\ up \in BOOLEAN /\ crashes \in 0..MaxCrashes /\ failures \in 0..MaxFailures
  /\ registry \subseteq Sessions /\ hooked \subseteq Sessions /\ procs \subseteq Sessions
  /\ recorded \subseteq Sessions
  /\ status \in [Sessions -> Records \cup {"lost"}]
  /\ at \in [Actors -> {"idle", "register", "hook", "delete", "report", "list",
                        "write", "rename"}]
  /\ target \in [Clients -> Sessions \cup {"none"}] /\ again \in [Clients -> BOOLEAN]
  /\ left \in [Actors -> SUBSET Sessions] /\ shot \in [Actors -> [Sessions -> Records]]
  /\ storeMu \in Actors \cup {"free"} /\ disk \in [Sessions -> Records]

\* A running session can always be reached: from its registration on it is in the
\* table of a daemon that runs, whatever is deleted meanwhile (manager.go:86, 149-152).
LiveIsReachable ==
  \A s \in Sessions :
    up /\ status[s] = "live" =>
      s \in registry \/ \E c \in Clients : at[c] = "register" /\ target[c] = s

\* What sessions.json, and a list that may still be saved, say of an end is true,
\* in this life of the daemon and in the next (manager.go:49-73, 164-171).
EndedIsTrue ==
  \A s \in Sessions :
    (disk[s] = "ended" \/ \E a \in Actors : shot[a][s] = "ended") => status[s] = "ended"

\* A session that is said to be live has a process and a watcher that will see
\* its end, after a restart too: it would otherwise be live forever
\* (manager.go:62-69, session.go:320-341).
LiveHasWatcher == \A s \in Sessions : up /\ status[s] = "live" => s \in procs

\* The end of a session gets to sessions.json whatever races with it, if the
\* daemon keeps running and no save fails (session.go:351-363, manager.go:85-89).
EndIsRecorded ==
  \A s \in Sessions :
    (at[s] = "report")
      ~> (s \in recorded \/ ~up \/ failures > 0)

\* What FileTree.md says of sessions.json, the session list: "atomic rewrite on
\* every change".  Once every request and callback is over it is the list.
FileIsCurrent ==
  Quiet => \A s \in Sessions : disk[s] = IF s \in registry THEN status[s] ELSE "none"
=============================================================================
