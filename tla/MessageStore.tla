---------------------------- MODULE MessageStore ----------------------------
(***************************************************************************)
(* internal/message and the message files of internal/storage: what is     *)
(* recorded of a session.  The exit watcher, the log collector, SendInput  *)
(* and the goroutine that starts the session append to one log, which is   *)
(* a file for each message and an index that is replaced as a whole.       *)
(*                                                                         *)
(* The log is of one session; Manager.mu serializes the appends of all.    *)
(* Files may fail to be written, and the daemon may die between any two.   *)
(***************************************************************************)
EXTENDS Naturals, FiniteSets, SequencesExt

CONSTANTS
  Senders,    \* goroutines of requests that send input
  Listers,    \* goroutines that ask for the index
  MaxOutput,  \* bound: pieces of output
  MaxFaults   \* bound: failing files

Workers == {"starter", "watcher", "collector"}
Actors  == Workers \cup Senders \cup Listers

ASSUME MessageAssumption ==
  /\ {MaxOutput, MaxFaults} \subseteq Nat
  /\ Workers \cap Senders = {} /\ Workers \cap Listers = {} /\ Senders \cap Listers = {}
  /\ "nobody" \notin Senders \cup Listers

VARIABLES
  status,   \* of the session, "dead" when the daemon is
  output,   \* what the process has printed, a sequence of Glyphs
  reads,    \* where the log reader's Reads have ended
  files,    \* messages that have a file
  index,    \* index.json
  cache,    \* Manager.index of the session
  lock,     \* who holds Manager.mu
  job,      \* what each goroutine is doing
  lost,     \* history: messages whose Append has failed
  written   \* history: Senders whose input has reached the process

vars == <<status, output, reads, files, index, cache, lock, job, lost, written>>

\* "word" stands for visible text, "cr" and "lf" for what ends or rewrites a line.
Glyphs == {"word", "cr", "lf"}

\* A message: who appended it and the words of the output it holds.
Message(a, words) == [by |-> a, words |-> words]
NoMessage == Message("starter", {})

NewJob(where, msg) == [at |-> where, msg |-> msg, entries |-> <<>>]
Idle    == NewJob("idle", NoMessage)
At(a)   == job[a].at
Pos     == IF reads = {} THEN 0 ELSE Max(reads)
NoCache == [loaded |-> FALSE, entries |-> <<>>]

Init ==
  /\ status \in {"running", "awaiting_password"}
  /\ output = <<>> /\ reads = {} /\ files = {} /\ index = <<>>
  /\ cache = NoCache /\ lock = "nobody" /\ lost = {} /\ written = {}
  /\ job = [a \in Actors |-> IF status = "running" /\ a = "starter"
                             THEN NewJob("lock", NoMessage) ELSE Idle]

Goto(a, where) == job' = [job EXCEPT ![a].at = where]
Returns(a)     == job' = [job EXCEPT ![a] = NewJob("done", NoMessage)]
DiskStays      == UNCHANGED <<files, index, lost>>
SessionStays   == UNCHANGED <<status, output, reads, written>>

-----------------------------------------------------------------------------
(* Append, under Manager.mu.                                               *)

AppendLocks(a) ==
  /\ At(a) = "lock" /\ lock = "nobody" /\ lock' = a
  /\ Goto(a, "save") /\ DiskStays /\ SessionStays /\ UNCHANGED cache

\* SaveMessage, and the index that is cached unless this is the first message.
AppendSaves(a) ==
  /\ At(a) = "save"
  /\ files' = files \cup {job[a].msg}
  /\ job' = [job EXCEPT ![a].at = IF cache.loaded THEN "index" ELSE "load",
                        ![a].entries = cache.entries]
  /\ SessionStays /\ UNCHANGED <<index, lost, cache, lock>>

AppendLoads(a) ==
  /\ At(a) = "load"
  /\ job' = [job EXCEPT ![a].at = "index", ![a].entries = index]
  /\ DiskStays /\ SessionStays /\ UNCHANGED <<cache, lock>>

\* SaveMessageIndex, and only then the cache.
AppendIndexes(a) ==
  /\ At(a) = "index"
  /\ index' = Append(job[a].entries, job[a].msg)
  /\ cache' = [loaded |-> TRUE, entries |-> index'] /\ lock' = "nobody"
  /\ Returns(a) /\ SessionStays /\ UNCHANGED <<files, lost>>

\* A mutated form of AppendFails: the return does not unlock.
AppendFailsLocked(a) ==
  /\ At(a) \in {"save", "load", "index"} /\ Cardinality(lost) < MaxFaults
  /\ lost' = lost \cup {job[a].msg}
  /\ Returns(a) /\ SessionStays /\ UNCHANGED <<files, index, cache, lock>>

\* A file cannot be read or written: it is as it was, and the message is dropped.
AppendFails(a) ==
  /\ At(a) \in {"save", "load", "index"} /\ Cardinality(lost) < MaxFaults
  /\ lost' = lost \cup {job[a].msg} /\ lock' = "nobody"
  /\ Returns(a) /\ SessionStays /\ UNCHANGED <<files, index, cache>>

AppendStep(a) ==
  AppendLocks(a) \/ AppendSaves(a) \/ AppendLoads(a) \/ AppendIndexes(a) \/ AppendFails(a)

-----------------------------------------------------------------------------
(* Index caches what it has loaded, under the same lock.                   *)

\* A mutated form of IndexLocks: the lock is not held while the file is read.
IndexUnlocked(a) ==
  /\ a \in Listers /\ At(a) = "idle" /\ ~cache.loaded
  /\ job' = [job EXCEPT ![a].at = "list", ![a].entries = index]
  /\ DiskStays /\ SessionStays /\ UNCHANGED <<cache, lock>>

IndexLocks(a) ==
  /\ a \in Listers /\ At(a) = "idle" /\ lock = "nobody"
  /\ lock' = IF cache.loaded THEN "nobody" ELSE a
  /\ IF cache.loaded THEN Returns(a) ELSE job' = [job EXCEPT ![a].at = "list", ![a].entries = index]
  /\ DiskStays /\ SessionStays /\ UNCHANGED cache

\* If the file cannot be read nothing is cached.
IndexCaches(a) ==
  /\ At(a) = "list"
  /\ cache' \in {[loaded |-> TRUE, entries |-> job[a].entries], cache}
  /\ lock' = IF lock = a THEN "nobody" ELSE lock
  /\ Returns(a) /\ DiskStays /\ SessionStays

-----------------------------------------------------------------------------
(* Who appends.                                                            *)

AppendsNothing == UNCHANGED <<files, index, cache, lock, lost>>

\* New or connectWithSecret has set the process of the session: the watcher and the
\* collector run, and "Process started" is appended.
Attach ==
  /\ status = "awaiting_password" /\ status' = "running"
  /\ job' = [job EXCEPT !["starter"] = NewJob("lock", NoMessage)]
  /\ AppendsNothing /\ UNCHANGED <<output, reads, written>>

\* The session ends without a process or a collector: finishAwaiting appends the end.
Finish ==
  /\ status = "awaiting_password" /\ status' = "exited"
  /\ job' = [job EXCEPT !["watcher"] = NewJob("lock", Message("watcher", {})),
                       !["collector"] = NewJob("gone", NoMessage)]
  /\ AppendsNothing /\ UNCHANGED <<output, reads, written>>

Prints(g) ==
  /\ status = "running" /\ Len(output) < MaxOutput
  /\ output' = Append(output, g)
  /\ AppendsNothing /\ UNCHANGED <<status, reads, job, written>>

\* The watcher sets the final status, closes the buffer and appends the end.
Exits ==
  /\ status = "running" /\ status' = "exited"
  /\ job' = [job EXCEPT !["watcher"] = NewJob("lock", Message("watcher", {}))]
  /\ AppendsNothing /\ UNCHANGED <<output, reads, written>>

\* What Compact leaves of the words of output[from..to]: a carriage return erases
\* its line so far, unless a line feed follows it at once.
Kept(from, to) ==
  {i \in from..to : output[i] = "word" /\
     \A j \in i..to : output[j] = "cr" /\ (\A k \in i..j : output[k] # "lf")
       => j < to /\ output[j + 1] = "lf"}

\* A mutated form of Collects: the limit of a Read counts twice.
CollectsAhead ==
  /\ At("collector") \in {"idle", "done"} /\ status \in {"running", "exited"}
  /\ Pos < Len(output)
  /\ reads' = reads \cup {Len(output) + 1}
  /\ job' = [job EXCEPT !["collector"] = NewJob("lock", Message("collector", Kept(Pos + 1, Len(output))))]
  /\ AppendsNothing /\ UNCHANGED <<status, output, written>>

\* runLogCollector: a Read, of 64 KiB at the most, whose text is appended if any is left.
Collects ==
  /\ At("collector") \in {"idle", "done"} /\ status \in {"running", "exited"}
  /\ \E to \in Pos + 1 .. Len(output) : LET words == Kept(Pos + 1, to) IN
       /\ reads' = reads \cup {to}
       /\ job' = [job EXCEPT !["collector"] =
            IF words = {} THEN Idle ELSE NewJob("lock", Message("collector", words))]
  /\ AppendsNothing /\ UNCHANGED <<status, output, written>>

\* A mutated form of CollectorDone: end-of-file as soon as the buffer is closed.
CollectorDoneEarly ==
  /\ At("collector") \in {"idle", "done"} /\ status = "exited" /\ Goto("collector", "eof")
  /\ AppendsNothing /\ SessionStays

\* A Read that returns end-of-file.
CollectorDone ==
  /\ At("collector") \in {"idle", "done"} /\ status = "exited" /\ Pos = Len(output)
  /\ Goto("collector", "eof")
  /\ AppendsNothing /\ SessionStays

\* SendInput: the status is looked at, the text is written to the process, which may
\* refuse it, and is appended.
SendChecks(a) ==
  /\ a \in Senders /\ At(a) = "idle"
  /\ IF status = "running" THEN Goto(a, "write") ELSE Returns(a)
  /\ AppendsNothing /\ SessionStays
SendWrites(a) ==
  /\ At(a) = "write"
  /\ \/ /\ job' = [job EXCEPT ![a] = NewJob("lock", Message(a, {}))]
        /\ written' = written \cup {a}
     \/ Returns(a) /\ UNCHANGED written
  /\ AppendsNothing /\ UNCHANGED <<status, output, reads>>

\* The daemon dies.  The session is restored as one that has ended, and nobody but
\* the Listers of the new daemon looks at its log.
Crash ==
  /\ status # "dead" /\ status' = "dead"
  /\ cache' = NoCache /\ lock' = "nobody"
  /\ job' = [a \in Actors |-> IF a \in Listers THEN Idle ELSE NewJob("gone", NoMessage)]
  /\ DiskStays /\ UNCHANGED <<output, reads, written>>

-----------------------------------------------------------------------------
Step(a) == AppendStep(a) \/ IndexLocks(a) \/ IndexCaches(a) \/ SendChecks(a) \/ SendWrites(a)

Over == (\A a \in Actors : At(a) \in {"idle", "done", "gone", "eof"})
        /\ status \in {"exited", "dead"} /\ UNCHANGED vars

Next ==
  \/ \E a \in Actors : Step(a)
  \/ \E g \in Glyphs : Prints(g)
  \/ Attach \/ Finish \/ Exits \/ Collects \/ CollectorDone \/ Crash \/ Over

\* Goroutines run, and a mutex that is released is given to who waits for it.
Spec == Init /\ [][Next]_vars /\ \A a \in Actors : WF_vars(AppendStep(a) \/ IndexCaches(a))
             /\ WF_vars(Collects) /\ WF_vars(CollectorDone)

-----------------------------------------------------------------------------
\* Every variable has the shape the code gives it.
TypeOK ==
  /\ status \in {"awaiting_password", "running", "exited", "dead"}
  /\ output \in BoundedSeq(Glyphs, MaxOutput) /\ reads \subseteq 1..Len(output)
  /\ lock \in Actors \cup {"nobody"} /\ written \subseteq Senders
  /\ cache.loaded \in BOOLEAN /\ Len(cache.entries) <= Len(index)
  /\ lost \subseteq [by : Actors, words : SUBSET (1..MaxOutput)] /\ IsFiniteSet(files)
  /\ \A a \in Actors :
       At(a) \in {"idle", "lock", "save", "load", "index", "list", "write", "done", "gone", "eof"}

\* The index on disk changes only by one new message at its end, which has its file
\* by then, whatever fails and whenever the daemon dies (message.go:41-58).
IndexIsKept ==
  [][index' # index => \E msg \in files \ Range(index) : index' = Append(index, msg)]_vars

\* The words the log has, or has lost with the append that failed.
Logged == UNION {msg.words : msg \in Range(index) \cup lost}
\* A Read has ended between the carriage return and the line feed that end i's line.
Torn(i) == \E j \in reads : /\ i < j /\ j < Len(output)
                            /\ output[j] = "cr" /\ output[j + 1] = "lf"
                            /\ \A k \in i..j : output[k] # "lf"

\* When the collector is done the log has every line the whole output shows, in order,
\* but for the lines a Read has torn at their end (session.go:372-388, compact.go:28-34).
OutputIsLogged ==
  /\ At("collector") = "eof" => \A i \in Kept(1, Len(output)) : i \in Logged \/ Torn(i)
  /\ \A m, n \in 1..Len(index) : m < n => \A i \in index[m].words, j \in index[n].words : i < j

\* An end, and an input that has reached the process, is recorded in the end, unless the
\* daemon dies or its files fail (session.go:343-345, 423-426, 719-721).
EventsAreLogged ==
  \A a \in Senders \cup {"watcher"} :
    (IF a = "watcher" THEN status = "exited" ELSE a \in written)
      ~> (status = "dead" \/ Message(a, {}) \in Range(index) \cup lost)
=============================================================================
