---------------------------- MODULE RegistryProofs ----------------------------
(***************************************************************************)
(* Proofs about Registry, for any number of sessions, clients, crashes and *)
(* failed saves: its type invariant and its three safety invariants.       *)
(***************************************************************************)
EXTENDS Registry, TLAPS

\* A goroutine in the middle of a request has a session, runs in a daemon that
\* is up, and a deletion under way was allowed.  What is in the table was created.
RequestInv ==
  /\ \A c \in Clients : at[c] \in {"register", "hook", "delete"} => target[c] \in Sessions
  /\ \A c \in Clients : at[c] = "register" => status[target[c]] \in {"live", "ended"}
  /\ \A s \in registry : status[s] \in {"live", "ended"}
  /\ \A c \in Clients : at[c] = "delete" => status[target[c]] = "ended"
  /\ \A a \in Actors : at[a] # "idle" => up
  /\ procs # {} => up
  /\ ~up => \A a \in Actors, s \in Sessions : shot[a][s] = "none"

IInv == TypeOK /\ RequestInv /\ LiveIsReachable /\ EndedIsTrue /\ LiveHasWatcher

\* Goroutine a goes to one of the given places with nothing collected.
Emptied(a, places) ==
  /\ \E where \in places : at' = [at EXCEPT ![a] = where]
  /\ left' \in [Actors -> SUBSET Sessions]
  /\ shot' \in [Actors -> [Sessions -> Records]]
  /\ \A b \in Actors, s \in Sessions :
       shot'[b][s] = IF b = a THEN "none" ELSE shot[b][s]

\* The list persist starts with is empty.
LEMMA BeginPersistFacts ==
  ASSUME TypeOK, NEW a \in Actors, BeginPersist(a)
  PROVE  Emptied(a, {"list"})
BY DEF BeginPersist, Emptied, Goto, TypeOK, Nothing, Records

\* A save ends with an empty list too.
LEMMA SavedFacts ==
  ASSUME TypeOK, NEW a \in Actors, Saved(a)
  PROVE  /\ Emptied(a, {"idle", "list"})
         /\ storeMu' = "free"
         /\ again' \in [Clients -> BOOLEAN]
<1>1. CASE a \in Clients /\ again[a]
  <2>1. storeMu' = "free" /\ BeginPersist(a) /\ again' = [again EXCEPT ![a] = FALSE]
    BY <1>1 DEF Saved
  <2>2. again' \in [Clients -> BOOLEAN]
    BY <2>1 DEF TypeOK
  <2>3. QED  BY <2>1, <2>2, BeginPersistFacts DEF Emptied
<1>2. CASE ~(a \in Clients /\ again[a])
  BY <1>2 DEF Saved, Emptied, Goto, TypeOK, Nothing, Records
<1>3. QED  BY <1>1, <1>2

\* Dropping a list adds no claim that a session ended.
LEMMA EmptiedKeepsEnds ==
  ASSUME EndedIsTrue, NEW a \in Actors, NEW places, Emptied(a, places), UNCHANGED <<disk, status>>
  PROVE  EndedIsTrue'
<1> SUFFICES ASSUME NEW s \in Sessions,
                    disk'[s] = "ended" \/ \E b \in Actors : shot'[b][s] = "ended"
             PROVE  status'[s] = "ended"
  BY DEF EndedIsTrue
<1>1. \A b \in Actors : shot'[b][s] = "ended" => shot[b][s] = "ended"
  BY DEF Emptied
<1>2. QED  BY <1>1 DEF EndedIsTrue

-----------------------------------------------------------------------------
(* Every action preserves the invariant.                                   *)

\* Requests: a session enters the table before anyone can delete it, and leaves
\* it only ended, which it stays.
LEMMA RequestKeeps ==
  ASSUME IInv, NEW c \in Clients,
         Create(c) \/ Terminate(c) \/ DeleteChecks(c) \/ ClientStep(c)
  PROVE  IInv'
<1> USE RegistryAssumption DEF IInv, TypeOK, RequestInv, LiveIsReachable, EndedIsTrue,
        LiveHasWatcher, Actors, Records, Goto, memory, request, saving, file, bounds
<1>1. CASE Create(c)
  <2>1. PICK s \in Sessions : /\ status[s] = "none"
                              /\ status' = [status EXCEPT ![s] = "live"]
                              /\ target' = [target EXCEPT ![c] = s]
                              /\ procs' = procs \cup {s}
    BY <1>1 DEF Create
  <2>2. TypeOK' /\ RequestInv'  BY <1>1, <2>1 DEF Create
  <2>3. LiveIsReachable' /\ EndedIsTrue' /\ LiveHasWatcher'  BY <1>1, <2>1 DEF Create
  <2>4. QED  BY <2>2, <2>3
<1>2. CASE Terminate(c)
  <2>1. Emptied(c, {"list"})
    BY <1>2, BeginPersistFacts DEF Terminate
  <2>2. TypeOK'  BY <1>2, <2>1 DEF Terminate, Emptied
  <2>3. RequestInv'  BY <1>2, <2>1 DEF Terminate, Emptied
  <2>4. LiveIsReachable'  BY <1>2, <2>1 DEF Terminate, Emptied
  <2>5. EndedIsTrue'  BY <1>2, <2>1 DEF Terminate, Emptied
  <2>6. LiveHasWatcher'  BY <1>2, <2>1 DEF Terminate, Emptied
  <2>7. QED  BY <2>2, <2>3, <2>4, <2>5, <2>6
<1>3. CASE DeleteChecks(c)  BY <1>3 DEF DeleteChecks
<1>4. CASE Register(c)  BY <1>4 DEF Register
<1>5. CASE Hook(c)
  <2>1. Emptied(c, {"list"})
    BY <1>5, BeginPersistFacts DEF Hook
  <2>2. TypeOK'
    <3>1. at' \in [Actors -> {"idle", "register", "hook", "delete", "report", "list",
                               "write", "rename"}]
      BY <2>1 DEF Emptied
    <3>2. hooked' \subseteq Sessions /\ target' \in [Clients -> Sessions \cup {"none"}]
      BY <1>5 DEF Hook
    <3>3. again' \in [Clients -> BOOLEAN]
      BY <1>5 DEF Hook
    <3>4. QED  BY <1>5, <2>1, <3>1, <3>2, <3>3 DEF Hook, Emptied
  <2>3. RequestInv'  BY <1>5, <2>1 DEF Hook, Emptied
  <2>4. LiveIsReachable'
    <3>1. \A d \in Clients : at[d] = "register" => at'[d] = "register" /\ target'[d] = target[d]
      BY <1>5, <2>1 DEF Hook, Emptied
    <3>2. QED  BY <1>5, <3>1 DEF Hook
  <2>5. EndedIsTrue'  BY <1>5, <2>1, EmptiedKeepsEnds DEF Hook
  <2>6. LiveHasWatcher'  BY <1>5, <2>1 DEF Hook, Emptied
  <2>7. QED  BY <2>2, <2>3, <2>4, <2>5, <2>6
<1>6. CASE Delete(c)
  <2>1. Emptied(c, {"list"})
    BY <1>6, BeginPersistFacts DEF Delete
  <2>2. TypeOK'
    <3>1. at' \in [Actors -> {"idle", "register", "hook", "delete", "report", "list",
                               "write", "rename"}]
      BY <2>1 DEF Emptied
    <3>2. registry' \subseteq Sessions /\ target' \in [Clients -> Sessions \cup {"none"}]
      BY <1>6 DEF Delete
    <3>3. QED  BY <1>6, <2>1, <3>1, <3>2 DEF Delete, Emptied
  <2>3. RequestInv'  BY <1>6, <2>1 DEF Delete, Emptied
  <2>4. LiveIsReachable'
    <3>1. \A d \in Clients : at[d] = "register" => at'[d] = "register" /\ target'[d] = target[d]
      BY <1>6, <2>1 DEF Delete, Emptied
    <3>2. \A s \in Sessions : status[s] = "live" /\ s \in registry => s \in registry'
      BY <1>6 DEF Delete
    <3>3. QED  BY <1>6, <3>1, <3>2 DEF Delete
  <2>5. EndedIsTrue'  BY <1>6, <2>1, EmptiedKeepsEnds DEF Delete
  <2>6. LiveHasWatcher'  BY <1>6, <2>1 DEF Delete, Emptied
  <2>7. QED  BY <2>2, <2>3, <2>4, <2>5, <2>6
<1>7. QED  BY <1>1, <1>2, <1>3, <1>4, <1>5, <1>6 DEF ClientStep

\* The end of a session: live turns into ended, and never back.
LEMMA ReportKeeps ==
  ASSUME IInv, NEW s \in Sessions, Exits(s) \/ ReportStep(s)
  PROVE  IInv'
<1> USE RegistryAssumption DEF IInv, TypeOK, RequestInv, LiveIsReachable, EndedIsTrue,
        LiveHasWatcher, Actors, Records, Goto, memory, request, saving, file, bounds
<1>1. CASE Exits(s)
  <2>1. TypeOK'  BY <1>1 DEF Exits
  <2>2. RequestInv'
    <3>1. /\ \A c \in Clients : at'[c] = at[c]
          /\ \A r \in Sessions : status'[r] = status[r] \/ status'[r] = "ended"
      BY <1>1 DEF Exits
    <3>2. up /\ \A a \in Actors : at'[a] # "idle" => up'
      BY <1>1 DEF Exits
    <3>3. QED  BY <1>1, <3>1, <3>2 DEF Exits
  <2>3. LiveIsReachable'  BY <1>1 DEF Exits
  <2>4. EndedIsTrue'  BY <1>1 DEF Exits
  <2>5. LiveHasWatcher'  BY <1>1 DEF Exits
  <2>6. QED  BY <2>1, <2>2, <2>3, <2>4, <2>5
<1>2. CASE Report(s)
  <2>1. Emptied(s, {"list"})
    BY <1>2, BeginPersistFacts DEF Report
  <2>2. TypeOK'  BY <1>2, <2>1 DEF Report, Emptied
  <2>3. RequestInv'  BY <1>2, <2>1 DEF Report, Emptied
  <2>4. LiveIsReachable'  BY <1>2, <2>1 DEF Report, Emptied
  <2>5. EndedIsTrue'  BY <1>2, <2>1, EmptiedKeepsEnds DEF Report
  <2>6. LiveHasWatcher'  BY <1>2, <2>1 DEF Report, Emptied
  <2>7. QED  BY <2>2, <2>3, <2>4, <2>5, <2>6
<1>3. CASE ReportLater(s)  BY <1>3 DEF ReportLater
<1>4. QED  BY <1>1, <1>2, <1>3 DEF ReportStep

\* Saving: what is collected and then published was true when it was read, and
\* of an end that means for good.
LEMMA PersistKeeps ==
  ASSUME IInv, NEW a \in Actors, PersistStep(a) \/ SaveLocks(a)
  PROVE  IInv'
<1> USE RegistryAssumption DEF IInv, TypeOK, RequestInv, LiveIsReachable, EndedIsTrue,
        LiveHasWatcher, Actors, Records, Goto, memory, request, saving, file, bounds
<1>1. CASE \E s \in Sessions : Visit(a, s)
  <2>1. PICK s \in Sessions : Visit(a, s)
    BY <1>1
  <2>2. TypeOK'
    <3>1. left' \in [Actors -> SUBSET Sessions]
      BY <2>1 DEF Visit
    <3>2. shot' \in [Actors -> [Sessions -> Records]]
      BY <2>1 DEF Visit
    <3>3. QED  BY <2>1, <3>1, <3>2 DEF Visit
  <2>3. RequestInv'  BY <2>1 DEF Visit
  <2>4. LiveIsReachable' /\ LiveHasWatcher'  BY <2>1 DEF Visit
  <2>5. EndedIsTrue'  BY <2>1 DEF Visit
  <2>6. QED  BY <2>2, <2>3, <2>4, <2>5
<1>2. CASE SaveLocks(a)  BY <1>2 DEF SaveLocks
<1>3. CASE SaveWrites(a)  BY <1>3 DEF SaveWrites
<1>4. CASE SaveRenames(a)
  <2>1. Emptied(a, {"idle", "list"}) /\ storeMu' = "free" /\ again' \in [Clients -> BOOLEAN]
    BY <1>4, SavedFacts DEF SaveRenames
  <2>2. TypeOK'  BY <1>4, <2>1 DEF SaveRenames, Emptied
  <2>3. RequestInv'  BY <1>4, <2>1 DEF SaveRenames, Emptied
  <2>4. LiveIsReachable'  BY <1>4, <2>1 DEF SaveRenames, Emptied
  <2>5. EndedIsTrue'  BY <1>4, <2>1 DEF SaveRenames, Emptied
  <2>6. LiveHasWatcher'  BY <1>4, <2>1 DEF SaveRenames, Emptied
  <2>7. QED  BY <2>2, <2>3, <2>4, <2>5, <2>6
<1>5. CASE SaveFails(a)
  <2>1. Emptied(a, {"idle", "list"}) /\ storeMu' = "free" /\ again' \in [Clients -> BOOLEAN]
    BY <1>5, SavedFacts DEF SaveFails
  <2>2. TypeOK'  BY <1>5, <2>1 DEF SaveFails, Emptied
  <2>3. RequestInv'  BY <1>5, <2>1 DEF SaveFails, Emptied
  <2>4. LiveIsReachable'  BY <1>5, <2>1 DEF SaveFails, Emptied
  <2>5. EndedIsTrue'  BY <1>5, <2>1 DEF SaveFails, Emptied
  <2>6. LiveHasWatcher'  BY <1>5, <2>1 DEF SaveFails, Emptied
  <2>7. QED  BY <2>2, <2>3, <2>4, <2>5, <2>6
<1>6. QED  BY <1>1, <1>2, <1>3, <1>4, <1>5 DEF PersistStep

\* A crash forgets every list under way, and Restore makes nothing live.
LEMMA RestartKeeps ==
  ASSUME IInv, Crash \/ Restore
  PROVE  IInv'
<1> USE RegistryAssumption DEF IInv, TypeOK, RequestInv, LiveIsReachable, EndedIsTrue,
        LiveHasWatcher, Actors, Records, Goto, memory, request, saving, file, bounds
<1>1. CASE Crash
  <2>1. TypeOK'
    <3>1. crashes' \in 0..MaxCrashes
      BY <1>1 DEF Crash
    <3>2. shot' \in [Actors -> [Sessions -> Records]]
      BY <1>1 DEF Crash, Nothing
    <3>3. QED  BY <1>1, <3>1, <3>2 DEF Crash
  <2>2. RequestInv'  BY <1>1 DEF Crash, Nothing
  <2>3. LiveIsReachable' /\ LiveHasWatcher'  BY <1>1 DEF Crash
  <2>4. EndedIsTrue'  BY <1>1 DEF Crash, Nothing
  <2>5. QED  BY <2>1, <2>2, <2>3, <2>4
<1>2. CASE Restore  BY <1>2 DEF Restore
<1>3. QED  BY <1>1, <1>2

\* The inductive invariant holds of every behaviour.
THEOREM RegistryInvariant == Spec => []IInv
<1>1. Init => IInv
  BY RegistryAssumption DEF Init, IInv, TypeOK, RequestInv, LiveIsReachable, EndedIsTrue,
    LiveHasWatcher, Actors, Records, Nothing
<1>2. IInv /\ [Next]_vars => IInv'
  <2> SUFFICES ASSUME IInv, [Next]_vars PROVE IInv'
    OBVIOUS
  <2>1. CASE \E c \in Clients : Create(c) \/ Terminate(c) \/ DeleteChecks(c) \/ ClientStep(c)
    BY <2>1, RequestKeeps
  <2>2. CASE \E s \in Sessions : Exits(s) \/ ReportStep(s)
    BY <2>2, ReportKeeps
  <2>3. CASE \E a \in Actors : PersistStep(a) \/ SaveLocks(a)
    BY <2>3, PersistKeeps
  <2>4. CASE Crash \/ Restore
    BY <2>4, RestartKeeps
  <2>5. CASE Idle \/ UNCHANGED vars
    BY <2>5 DEF Idle, vars, memory, request, saving, file, bounds, IInv, TypeOK,
      RequestInv, LiveIsReachable, EndedIsTrue, LiveHasWatcher, Actors
  <2>6. QED  BY <2>1, <2>2, <2>3, <2>4, <2>5 DEF Next
<1>3. QED  BY <1>1, <1>2, PTL DEF Spec

-----------------------------------------------------------------------------
\* For any number of sessions and clients, every variable has its type, and
\* sessions.json is a complete list.
THEOREM RegistryTypeCorrect == Spec => []TypeOK
<1>1. IInv => TypeOK  BY DEF IInv
<1>2. QED  BY <1>1, RegistryInvariant, PTL

\* No race of Create, Delete and a restart hides a running session.
THEOREM LiveSessionsAreReachable == Spec => []LiveIsReachable
<1>1. IInv => LiveIsReachable  BY DEF IInv
<1>2. QED  BY <1>1, RegistryInvariant, PTL

\* However saves overlap, fail or are cut off by a crash, sessions.json never says
\* of a session that it ended when it did not.
THEOREM RecordedEndsAreTrue == Spec => []EndedIsTrue
<1>1. IInv => EndedIsTrue  BY DEF IInv
<1>2. QED  BY <1>1, RegistryInvariant, PTL

\* A live session has a process of this daemon, after any number of restarts.
THEOREM LiveSessionsHaveWatchers == Spec => []LiveHasWatcher
<1>1. IInv => LiveHasWatcher  BY DEF IInv
<1>2. QED  BY <1>1, RegistryInvariant, PTL
=============================================================================
