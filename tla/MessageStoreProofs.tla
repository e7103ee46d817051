-------------------------- MODULE MessageStoreProofs --------------------------
(***************************************************************************)
(* Proofs about MessageStore, for any number of senders, listers, pieces   *)
(* of output and failures: the index of the log is never torn.             *)
(***************************************************************************)
EXTENDS MessageStore, FiniteSetTheorems, TLAPS

Msgs == [by : Actors, words : SUBSET Nat]

Places == {"idle", "lock", "save", "load", "index", "list", "write", "done", "gone", "eof"}

Jobs == [at : Places, msg : Msgs, entries : Seq(Msgs)]

Shape ==
  /\ job \in [Actors -> Jobs]
  /\ index \in Seq(Msgs) /\ cache \in [loaded : BOOLEAN, entries : Seq(Msgs)]
  /\ output \in Seq(Glyphs) /\ reads \subseteq Nat /\ files \subseteq Msgs

Appending(a) == At(a) \in {"lock", "save", "load", "index"}

\* Whoever is past the lock holds it, and has the index as it is.
LockInv ==
  /\ \A a \in Actors : At(a) \in {"save", "load", "index", "list"} => lock = a
  /\ \A a \in Actors : At(a) \in {"index", "list"} => job[a].entries = index
  /\ cache.loaded => cache.entries = index

\* A message under way is its goroutine's own, is not in the index, and has its file
\* once it was saved.
MessageInv ==
  /\ \A a \in Actors : Appending(a) => job[a].msg.by = a /\ job[a].msg \notin Range(index)
  /\ \A a \in Actors : At(a) \in {"load", "index"} => job[a].msg \in files

\* Nobody appends before it has something to: a sender its input, the starter a
\* process, the watcher an end.
BeforeInv ==
  /\ \A a \in Actors, m \in Range(index) :
       a \in Senders /\ At(a) \in {"idle", "write"} => m.by # a
  /\ status = "awaiting_password" =>
       ~Appending("starter") /\ \A m \in Range(index) : m.by # "starter"
  /\ status \in {"awaiting_password", "running"} =>
       ~Appending("watcher") /\ \A m \in Range(index) : m.by # "watcher"
  /\ \A a \in Actors : At(a) = "write" => a \in Senders

\* Its words were read: they are at or before the end of some Read.
WasRead(m) == m.words # {} /\ \A i \in m.words : \E r \in reads : i <= r

\* The collector appends what it has read, and Pos is the end of its last Read.
ReadInv ==
  /\ \A m \in Range(index) : m.by = "collector" => WasRead(m)
  /\ Appending("collector") => WasRead(job["collector"].msg)
  /\ reads = {} \/ \E r \in reads : \A y \in reads : r >= y

IInv == Shape /\ LockInv /\ MessageInv /\ BeforeInv /\ ReadInv

\* Appending to a sequence adds one element to its range.
LEMMA RangeOfAppend ==
  ASSUME NEW S, NEW q \in Seq(S), NEW e \in S
  PROVE  Append(q, e) \in Seq(S) /\ Range(Append(q, e)) = Range(q) \cup {e}
<1>1. Append(q, e) \in Seq(S) /\ Len(Append(q, e)) = Len(q) + 1 /\ Len(q) \in Nat
  OBVIOUS
<1>2. \A i \in 1..Len(q) : Append(q, e)[i] = q[i]
  OBVIOUS
<1>3. Append(q, e)[Len(q) + 1] = e
  OBVIOUS
<1>4. DOMAIN q = 1..Len(q) /\ DOMAIN Append(q, e) = 1..(Len(q) + 1)
  OBVIOUS
<1>5. \A i \in 1..(Len(q) + 1) : i \in 1..Len(q) \/ i = Len(q) + 1
  BY <1>1
<1>6. Range(Append(q, e)) \subseteq Range(q) \cup {e}
  BY <1>2, <1>3, <1>4, <1>5 DEF Range
<1>7. Range(q) \cup {e} \subseteq Range(Append(q, e))
  <2>1. \A i \in 1..Len(q) : i \in 1..(Len(q) + 1)
    BY <1>1
  <2>2. Len(q) + 1 \in 1..(Len(q) + 1)
    BY <1>1
  <2>3. QED  BY <1>2, <1>3, <1>4, <2>1, <2>2 DEF Range
<1>8. QED  BY <1>1, <1>6, <1>7

\* What Compact keeps are words it was given.
LEMMA KeptFacts ==
  ASSUME NEW from \in Nat, NEW to \in Nat
  PROVE  Kept(from, to) \in SUBSET Nat /\ \A i \in Kept(from, to) : from <= i /\ i <= to
BY DEF Kept

\* Pos is the end of the last Read.
LEMMA PosFacts ==
  ASSUME Shape, ReadInv
  PROVE  Pos \in Nat /\ \A r \in reads : r <= Pos
<1>1. CASE reads = {}
  BY <1>1 DEF Pos
<1>2. CASE \E r \in reads : \A y \in reads : r >= y
  BY <1>2 DEF Pos, Max, Shape
<1>3. QED  BY <1>1, <1>2 DEF ReadInv

\* A new job is one.
LEMMA NewJobType ==
  ASSUME NEW where \in Places, NEW msg \in Msgs
  PROVE  NewJob(where, msg) \in Jobs
<1>1. <<>> \in Seq(Msgs)
  OBVIOUS
<1>2. QED  BY <1>1 DEF NewJob, Jobs

\* The message of who has none is one.
LEMMA NoMessageType == NoMessage \in Msgs
BY DEF NoMessage, Message, Msgs, Actors, Workers

\* The log is empty before anything was appended to it.
LEMMA InitInv == Init => IInv
<1> SUFFICES ASSUME Init PROVE IInv
  OBVIOUS
<1>1. Range(index) = {}
  BY DEF Init, Range
<1>2. Shape
  <2>1. <<>> \in Seq(Msgs) /\ <<>> \in Seq(Glyphs)
    OBVIOUS
  <2>2. NewJob("lock", NoMessage) \in Jobs /\ NewJob("idle", NoMessage) \in Jobs
    BY NewJobType, NoMessageType DEF Places
  <2>3. job \in [Actors -> Jobs]
    BY <2>2 DEF Init, Idle
  <2>4. cache \in [loaded : BOOLEAN, entries : Seq(Msgs)]
    BY <2>1 DEF Init, NoCache
  <2>5. QED  BY <2>1, <2>3, <2>4 DEF Shape, Init
<1> USE MessageAssumption DEF Init, NewJob, Message, NoMessage, Idle, NoCache, At, Actors, Workers
<1>3. LockInv
  BY DEF LockInv
<1>4. MessageInv
  BY <1>1 DEF MessageInv, Appending
<1>5. BeforeInv
  BY <1>1 DEF BeforeInv, Appending
<1>6. ReadInv
  BY <1>1 DEF ReadInv, Appending
<1>7. QED  BY <1>2, <1>3, <1>4, <1>5, <1>6 DEF IInv

\* What a step that changes the job of a alone leaves.
JobNow(a, at, msg, entries) ==
  /\ job' \in [Actors -> Jobs]
  /\ \A b \in Actors : b # a => job'[b] = job[b]
  /\ job'[a].at = at /\ job'[a].msg = msg /\ job'[a].entries = entries

\* Replacing the job of a goroutine.
LEMMA JobFacts ==
  ASSUME Shape, NEW a \in Actors, NEW at \in Places, NEW msg \in Msgs, NEW entries \in Seq(Msgs),
         job' = [job EXCEPT ![a] = [at |-> at, msg |-> msg, entries |-> entries]]
  PROVE  JobNow(a, at, msg, entries)
BY DEF JobNow, Shape, Jobs

\* Going on to another place.
LEMMA GotoFacts ==
  ASSUME Shape, NEW a \in Actors, NEW where \in Places, Goto(a, where)
  PROVE  JobNow(a, where, job[a].msg, job[a].entries)
<1>1. job[a] \in Jobs
  BY DEF Shape
<1>2. [job[a] EXCEPT !.at = where] = [at |-> where, msg |-> job[a].msg, entries |-> job[a].entries]
  BY <1>1 DEF Jobs
<1>3. job' = [job EXCEPT ![a] = [at |-> where, msg |-> job[a].msg, entries |-> job[a].entries]]
  BY <1>2 DEF Goto
<1>4. job[a].msg \in Msgs /\ job[a].entries \in Seq(Msgs)
  BY <1>1 DEF Jobs
<1>5. QED  BY <1>3, <1>4, JobFacts

\* Going on with another list of entries.
LEMMA ListFacts ==
  ASSUME Shape, NEW a \in Actors, NEW where \in Places, NEW q \in Seq(Msgs),
         job' = [job EXCEPT ![a].at = where, ![a].entries = q]
  PROVE  JobNow(a, where, job[a].msg, q)
<1>1. job[a] \in Jobs /\ job[a].msg \in Msgs
  BY DEF Shape, Jobs
<1> DEFINE before == [at |-> where, msg |-> job[a].msg, entries |-> job[a].entries]
           after  == [at |-> where, msg |-> job[a].msg, entries |-> q]
<1>2. job' = [job EXCEPT ![a] = [[job[a] EXCEPT !.at = where] EXCEPT !.entries = q]]
  BY DEF Shape
<1>3. [job[a] EXCEPT !.at = where] = before
  BY <1>1 DEF Jobs
<1>4. [before EXCEPT !.entries = q] = after
  OBVIOUS
<1> HIDE DEF before, after
<1>5. job' = [job EXCEPT ![a] = after]
  BY <1>2, <1>3, <1>4
<1>6. QED  BY <1>1, <1>5, JobFacts DEF after

\* Starting anew.
LEMMA NewJobFacts ==
  ASSUME Shape, NEW a \in Actors, NEW where \in Places, NEW msg \in Msgs,
         job' = [job EXCEPT ![a] = NewJob(where, msg)]
  PROVE  JobNow(a, where, msg, <<>>)
<1>1. <<>> \in Seq(Msgs)
  OBVIOUS
<1>2. QED  BY <1>1, JobFacts DEF NewJob

\* A step of a alone that keeps the index on disk keeps the invariant, if what it
\* makes of a's own job does.
LEMMA StepInv ==
  ASSUME IInv, NEW a \in Actors, NEW at \in Places, NEW msg \in Msgs, NEW entries \in Seq(Msgs),
         JobNow(a, at, msg, entries),
         index' = index, output' \in Seq(Glyphs),
         reads \subseteq reads', reads' \subseteq Nat,
         reads' = {} \/ \E r \in reads' : \A y \in reads' : r >= y,
         files \subseteq files', files' \subseteq Msgs,
         cache' \in [loaded : BOOLEAN, entries : Seq(Msgs)],
         cache'.loaded => cache'.entries = index,
         lock' = lock \/ lock \in {a, "nobody"},
         at \in {"save", "load", "index", "list"} => lock' = a,
         at \in {"index", "list"} => entries = index,
         at \in {"lock", "save", "load", "index"} => msg.by = a /\ msg \notin Range(index),
         at \in {"load", "index"} => msg \in files',
         at \in {"idle", "write"} /\ a \in Senders => \A m \in Range(index) : m.by # a,
         at = "write" => a \in Senders,
         status' = "awaiting_password" =>
           /\ status = "awaiting_password"
           /\ a = "starter" => at \notin {"lock", "save", "load", "index"},
         status' \in {"awaiting_password", "running"} =>
           /\ status \in {"awaiting_password", "running"}
           /\ a = "watcher" => at \notin {"lock", "save", "load", "index"},
         at \in {"lock", "save", "load", "index"} /\ a = "collector" => WasRead(msg)'
  PROVE  IInv'
<1> USE DEF IInv
<1>1. \A b \in Actors : b # a => job'[b] = job[b]
  BY DEF JobNow
<1>2. job'[a].at = at /\ job'[a].msg = msg /\ job'[a].entries = entries
  BY DEF JobNow
<1>3. "nobody" \notin Actors
  BY MessageAssumption DEF Actors, Workers
<1>4. Shape'
  BY DEF Shape, JobNow
<1>5. LockInv'
  <2>1. \A b \in Actors : At(b)' \in {"save", "load", "index", "list"} => lock' = b
    BY <1>1, <1>2, <1>3 DEF LockInv, At
  <2>2. \A b \in Actors : At(b)' \in {"index", "list"} => job'[b].entries = index'
    BY <1>1, <1>2 DEF LockInv, At
  <2>3. QED  BY <2>1, <2>2 DEF LockInv, At
<1>6. MessageInv'
  BY <1>1, <1>2 DEF MessageInv, At, Appending
<1>7. BeforeInv'
  <2>1. "starter" \in Actors /\ "watcher" \in Actors
    BY DEF Actors, Workers
  <2>2. \A b \in Actors : Appending(b)' =>
          Appending(b) \/ (b = a /\ at \in {"lock", "save", "load", "index"})
    BY <1>1, <1>2 DEF At, Appending
  <2>3. \A b \in Actors, m \in Range(index') :
          b \in Senders /\ At(b)' \in {"idle", "write"} => m.by # b
    BY <1>1, <1>2 DEF BeforeInv, At
  <2>4. \A b \in Actors : At(b)' = "write" => b \in Senders
    BY <1>1, <1>2 DEF BeforeInv, At
  <2>5. status' = "awaiting_password" =>
          ~Appending("starter")' /\ \A m \in Range(index') : m.by # "starter"
    BY <2>1, <2>2 DEF BeforeInv
  <2>6. status' \in {"awaiting_password", "running"} =>
          ~Appending("watcher")' /\ \A m \in Range(index') : m.by # "watcher"
    BY <2>1, <2>2 DEF BeforeInv
  <2>7. QED  BY <2>3, <2>4, <2>5, <2>6 DEF BeforeInv, At
<1>8. ReadInv'
  <2>1. "collector" \in Actors
    BY DEF Actors, Workers
  <2>2. \A m : WasRead(m) => WasRead(m)'
    BY DEF WasRead
  <2>3. Appending("collector")' => WasRead(job["collector"].msg)'
    <3>1. CASE a = "collector"
      BY <3>1, <1>2 DEF WasRead, At, Appending
    <3>2. CASE a # "collector"
      BY <3>2, <2>1, <2>2, <1>1 DEF ReadInv, WasRead, At, Appending
    <3>3. QED  BY <3>1, <3>2
  <2>4. QED  BY <2>2, <2>3 DEF ReadInv
<1>9. QED  BY <1>4, <1>5, <1>6, <1>7, <1>8

\* What an action that leaves the reads has of them.
LEMMA ReadsStay ==
  ASSUME IInv, reads' = reads
  PROVE  /\ reads \subseteq reads' /\ reads' \subseteq Nat
         /\ reads' = {} \/ \E r \in reads' : \A y \in reads' : r >= y
         /\ \A m : WasRead(m) => WasRead(m)'
BY DEF IInv, Shape, ReadInv, WasRead

\* What the invariant says of the job of a goroutine.
LEMMA JobType ==
  ASSUME IInv, NEW a \in Actors
  PROVE  /\ job[a].at \in Places /\ job[a].msg \in Msgs /\ job[a].entries \in Seq(Msgs)
         /\ cache \in [loaded : BOOLEAN, entries : Seq(Msgs)] /\ cache.entries \in Seq(Msgs)
         /\ index \in Seq(Msgs) /\ output \in Seq(Glyphs) /\ files \subseteq Msgs
         /\ <<>> \in Seq(Msgs)
BY DEF IInv, Shape, Jobs

\* What the invariant says of a message under way.
LEMMA AppendingFacts ==
  ASSUME IInv, NEW a \in Actors, Appending(a)
  PROVE  /\ job[a].msg.by = a /\ job[a].msg \notin Range(index)
         /\ a = "collector" => WasRead(job[a].msg)
         /\ status = "awaiting_password" => a # "starter"
         /\ status \in {"awaiting_password", "running"} => a # "watcher"
BY DEF IInv, MessageInv, BeforeInv, ReadInv

\* What is cached is what is on disk.
LEMMA CacheFact == IInv => (cache.loaded => cache.entries = index)
BY DEF IInv, LockInv

\* Append under the lock, but for the step that replaces the index.
LEMMA AppendInv ==
  ASSUME IInv, NEW a \in Actors,
         AppendLocks(a) \/ AppendSaves(a) \/ AppendLoads(a) \/ AppendFails(a)
  PROVE  IInv'
<1> DEFINE msg == job[a].msg
<1>0. index' = index /\ reads' = reads /\ status' = status /\ output' = output /\ cache' = cache
  BY DEF AppendLocks, AppendSaves, AppendLoads, AppendFails, DiskStays, SessionStays
<1>1. /\ job[a].at \in Places /\ msg \in Msgs /\ job[a].entries \in Seq(Msgs)
      /\ cache \in [loaded : BOOLEAN, entries : Seq(Msgs)] /\ cache.entries \in Seq(Msgs)
      /\ index \in Seq(Msgs) /\ output \in Seq(Glyphs) /\ files \subseteq Msgs
      /\ cache.loaded => cache.entries = index
  BY JobType, CacheFact
<1>2. /\ reads \subseteq reads' /\ reads' \subseteq Nat
      /\ reads' = {} \/ \E r \in reads' : \A y \in reads' : r >= y
      /\ \A m : WasRead(m) => WasRead(m)'
  BY <1>0, ReadsStay
<1>3. CASE AppendLocks(a)
  <2>1. JobNow(a, "save", msg, job[a].entries)
    BY <1>1, <1>3, GotoFacts DEF AppendLocks, Places, IInv
  <2>2. Appending(a) /\ lock = "nobody" /\ lock' = a /\ files' = files
    BY <1>3 DEF AppendLocks, DiskStays, Appending
  <2>3. /\ msg.by = a /\ msg \notin Range(index) /\ (a = "collector" => WasRead(msg))
        /\ status = "awaiting_password" => a # "starter"
        /\ status \in {"awaiting_password", "running"} => a # "watcher"
    BY <2>2, AppendingFacts
  <2>4. QED
    BY <2>1, <2>2, <2>3, <1>0, <1>1, <1>2, StepInv, ZenonT(30) DEF Places
<1>4. CASE AppendSaves(a)
  <2>1. \/ JobNow(a, "index", msg, cache.entries) /\ cache.loaded
        \/ JobNow(a, "load", msg, cache.entries)
    BY <1>1, <1>4, ListFacts DEF AppendSaves, Places, IInv
  <2>2. At(a) = "save" /\ lock' = lock /\ files' = files \cup {msg} /\ Appending(a)
    BY <1>4 DEF AppendSaves, Appending
  <2>3. lock = a
    BY <2>2 DEF IInv, LockInv
  <2>4. files \subseteq files' /\ files' \subseteq Msgs /\ msg \in files'
    BY <2>2, <1>1
  <2>5. CASE JobNow(a, "index", msg, cache.entries) /\ cache.loaded
    BY <2>5, <2>2, <2>3, <2>4, <1>0, <1>1, <1>2, AppendingFacts, StepInv, ZenonT(30) DEF Places
  <2>6. CASE JobNow(a, "load", msg, cache.entries)
    BY <2>6, <2>2, <2>3, <2>4, <1>0, <1>1, <1>2, AppendingFacts, StepInv, ZenonT(30) DEF Places
  <2>7. QED  BY <2>1, <2>5, <2>6
<1>5. CASE AppendLoads(a)
  <2>1. JobNow(a, "index", msg, index)
    BY <1>1, <1>5, ListFacts DEF AppendLoads, Places, IInv
  <2>2. At(a) = "load" /\ lock' = lock /\ files' = files /\ Appending(a)
    BY <1>5 DEF AppendLoads, DiskStays, Appending
  <2>3. lock = a /\ msg \in files
    BY <2>2 DEF IInv, LockInv, MessageInv
  <2>4. QED
    BY <2>1, <2>2, <2>3, <1>0, <1>1, <1>2, AppendingFacts, StepInv, ZenonT(30) DEF Places
<1>6. CASE AppendFails(a)
  <2>1. JobNow(a, "done", NoMessage, <<>>)
    BY <1>6, NewJobFacts, NoMessageType DEF AppendFails, Returns, Places, IInv
  <2>2. lock' = "nobody" /\ files' = files /\ lock = a
    BY <1>6 DEF AppendFails, IInv, LockInv
  <2>3. QED
    BY <2>1, <2>2, <1>0, <1>1, <1>2, StepInv, ZenonT(30), NoMessageType, JobType DEF Places
<1>7. QED  BY <1>3, <1>4, <1>5, <1>6

\* Replacing the index: nobody else is past the lock, and the message is a new one.
LEMMA IndexesInv ==
  ASSUME IInv, NEW a \in Actors, AppendIndexes(a)
  PROVE  IInv' /\ job[a].msg \in files \ Range(index) /\ index' = Append(index, job[a].msg)
<1> DEFINE msg == job[a].msg
<1>1. /\ At(a) = "index" /\ lock = a /\ lock' = "nobody" /\ reads' = reads /\ files' = files
      /\ status' = status /\ output' = output /\ index' = Append(index, msg)
      /\ cache' = [loaded |-> TRUE, entries |-> index'] /\ Appending(a)
  BY DEF AppendIndexes, SessionStays, IInv, LockInv, Appending
<1>2. JobNow(a, "done", NoMessage, <<>>)
  BY NewJobFacts, NoMessageType DEF AppendIndexes, Returns, Places, IInv
<1>3. /\ \A b \in Actors : b # a => job'[b] = job[b]
      /\ job'[a].at = "done"
  BY <1>2 DEF JobNow
<1>4. msg \in Msgs /\ msg.by = a /\ msg \notin Range(index) /\ msg \in files
  BY <1>1, JobType DEF IInv, MessageInv
<1>5. index' \in Seq(Msgs) /\ Range(index') = Range(index) \cup {msg}
  BY <1>1, <1>4, JobType, RangeOfAppend
<1>6. "nobody" \notin Actors
  BY MessageAssumption DEF Actors, Workers
<1>7. Shape'
  BY <1>1, <1>2, <1>5 DEF IInv, Shape, JobNow
<1>8. LockInv'
  BY <1>1, <1>3, <1>6 DEF IInv, LockInv, At
<1>9. MessageInv'
  <2>1. \A b \in Actors : Appending(b)' => Appending(b) /\ b # a
    BY <1>3 DEF Appending, At
  <2>2. \A b \in Actors : Appending(b)' => job'[b].msg.by = b /\ job'[b].msg \notin Range(index')
    BY <2>1, <1>3, <1>4, <1>5 DEF IInv, MessageInv
  <2>3. \A b \in Actors : At(b)' \in {"load", "index"} => job'[b].msg \in files'
    BY <1>1, <1>3 DEF IInv, MessageInv, At
  <2>4. QED  BY <2>2, <2>3 DEF MessageInv
<1>10. BeforeInv'
  <2>1. \A b \in Actors : Appending(b)' => Appending(b) /\ b # a
    BY <1>3 DEF Appending, At
  <2>2. "starter" \in Actors /\ "watcher" \in Actors
    BY DEF Actors, Workers
  <2>3. \A b \in Actors, m \in Range(index') :
          b \in Senders /\ At(b)' \in {"idle", "write"} => m.by # b
    BY <1>3, <1>4, <1>5 DEF IInv, BeforeInv, At
  <2>4. \A b \in Actors : At(b)' = "write" => b \in Senders
    BY <1>3 DEF IInv, BeforeInv, At
  <2>5. status' = "awaiting_password" =>
          ~Appending("starter")' /\ \A m \in Range(index') : m.by # "starter"
    BY <2>1, <2>2, <1>1, <1>4, <1>5 DEF IInv, BeforeInv
  <2>6. status' \in {"awaiting_password", "running"} =>
          ~Appending("watcher")' /\ \A m \in Range(index') : m.by # "watcher"
    BY <2>1, <2>2, <1>1, <1>4, <1>5 DEF IInv, BeforeInv
  <2>7. QED  BY <2>3, <2>4, <2>5, <2>6 DEF BeforeInv, At
<1>11. ReadInv'
  <2>1. \A m : WasRead(m)' <=> WasRead(m)
    BY <1>1 DEF WasRead
  <2>2. Appending("collector")' => Appending("collector") /\ job'["collector"] = job["collector"]
    BY <1>3 DEF Appending, At, Actors, Workers
  <2>3. Appending("collector")' => WasRead(job["collector"].msg)'
    BY <2>1, <2>2 DEF IInv, ReadInv, WasRead
  <2>4. \A m \in Range(index') : m.by = "collector" => WasRead(m)'
    BY <2>1, <1>1, <1>4, <1>5 DEF IInv, ReadInv
  <2>5. QED  BY <2>3, <2>4, <1>1 DEF IInv, ReadInv
<1>12. QED
  BY <1>1, <1>4, <1>7, <1>8, <1>9, <1>10, <1>11 DEF IInv, LockInv
\* Index, which caches what is on disk.
LEMMA IndexInv ==
  ASSUME IInv, NEW a \in Actors, IndexLocks(a) \/ IndexCaches(a)
  PROVE  IInv'
<1>0. index' = index /\ reads' = reads /\ status' = status /\ output' = output /\ files' = files
  BY DEF IndexLocks, IndexCaches, DiskStays, SessionStays
<1>1. /\ reads \subseteq reads' /\ reads' \subseteq Nat
      /\ reads' = {} \/ \E r \in reads' : \A y \in reads' : r >= y
  BY <1>0, ReadsStay
<1>2. CASE IndexLocks(a) /\ cache.loaded
  <2>1. JobNow(a, "done", NoMessage, <<>>)
    BY <1>2, NewJobFacts, NoMessageType DEF IndexLocks, Returns, Places, IInv
  <2>2. lock' = lock /\ cache' = cache
    BY <1>2 DEF IndexLocks
  <2>3. QED
    BY <2>1, <2>2, <1>0, <1>1, JobType, NoMessageType, StepInv, ZenonT(30), CacheFact DEF Places
<1>3. CASE IndexLocks(a) /\ ~cache.loaded
  <2>1. JobNow(a, "list", job[a].msg, index)
    BY <1>3, ListFacts, JobType DEF IndexLocks, Places, IInv
  <2>2. lock = "nobody" /\ lock' = a /\ cache' = cache /\ a \in Listers
    BY <1>3 DEF IndexLocks
  <2>3. QED
    BY <2>1, <2>2, <1>0, <1>1, JobType, StepInv, ZenonT(30), CacheFact DEF Places
<1>4. CASE IndexCaches(a)
  <2>1. JobNow(a, "done", NoMessage, <<>>)
    BY <1>4, NewJobFacts, NoMessageType DEF IndexCaches, Returns, Places, IInv
  <2>2. /\ lock = a /\ lock' = "nobody"
        /\ cache' \in {[loaded |-> TRUE, entries |-> job[a].entries], cache} /\ job[a].entries = index
    BY <1>4 DEF IndexCaches, IInv, LockInv
  <2>3. CASE cache' = cache
    BY <2>1, <2>2, <2>3, <1>0, <1>1, JobType, NoMessageType, StepInv, ZenonT(30), CacheFact DEF Places
  <2>4. CASE cache' = [loaded |-> TRUE, entries |-> job[a].entries]
    BY <2>1, <2>2, <2>4, <1>0, <1>1, JobType, NoMessageType, StepInv, ZenonT(30), CacheFact DEF Places
  <2>5. QED  BY <2>2, <2>3, <2>4
<1>5. QED  BY <1>2, <1>3, <1>4

\* SendInput, up to its append.
LEMMA SendInv ==
  ASSUME IInv, NEW a \in Actors, SendChecks(a) \/ SendWrites(a)
  PROVE  IInv'
<1>0. /\ index' = index /\ reads' = reads /\ status' = status /\ output' = output
      /\ files' = files /\ lock' = lock /\ cache' = cache
  BY DEF SendChecks, SendWrites, AppendsNothing, SessionStays
<1>1. /\ reads \subseteq reads' /\ reads' \subseteq Nat
      /\ reads' = {} \/ \E r \in reads' : \A y \in reads' : r >= y
  BY <1>0, ReadsStay
<1>2. a \in Senders /\ a \notin Workers
  BY MessageAssumption DEF SendChecks, SendWrites, IInv, BeforeInv
<1>3. a # "starter" /\ a # "watcher" /\ a # "collector"
  BY <1>2 DEF Workers
<1>4. At(a) \in {"idle", "write"}
  BY DEF SendChecks, SendWrites
<1>5. \A m \in Range(index) : m.by # a
  BY <1>2, <1>4 DEF IInv, BeforeInv
<1>6. CASE JobNow(a, "write", job[a].msg, job[a].entries)
  BY <1>6, <1>0, <1>1, <1>2, <1>3, <1>5, JobType, StepInv, ZenonT(30), CacheFact DEF Places
<1>7. CASE JobNow(a, "done", NoMessage, <<>>)
  BY <1>7, <1>0, <1>1, <1>2, <1>3, <1>5, JobType, NoMessageType, StepInv, ZenonT(30), CacheFact
     DEF Places
<1>8. Message(a, {}) \in Msgs /\ Message(a, {}).by = a
  BY DEF Message, Msgs
<1>9. Message(a, {}) \notin Range(index)
  BY <1>5, <1>8
<1>10. CASE JobNow(a, "lock", Message(a, {}), <<>>)
  BY <1>10, <1>0, <1>1, <1>2, <1>3, <1>5, <1>8, <1>9, JobType, StepInv, ZenonT(30), CacheFact
     DEF Places
<1>11. \/ JobNow(a, "write", job[a].msg, job[a].entries)
       \/ JobNow(a, "done", NoMessage, <<>>)
       \/ JobNow(a, "lock", Message(a, {}), <<>>)
  BY <1>8, GotoFacts, NewJobFacts, NoMessageType
     DEF SendChecks, SendWrites, Returns, Places, IInv
<1>12. QED  BY <1>6, <1>7, <1>10, <1>11
\* An action that changes no job, no lock and no file.
LEMMA QuietInv ==
  ASSUME IInv, UNCHANGED <<status, reads, files, index, cache, lock, job>>, output' \in Seq(Glyphs)
  PROVE  IInv'
<1>1. /\ status' = status /\ reads' = reads /\ files' = files /\ index' = index
      /\ cache' = cache /\ lock' = lock /\ job' = job
  OBVIOUS
<1>2. Shape'
  BY <1>1 DEF IInv, Shape
<1>3. LockInv' /\ MessageInv'
  BY <1>1 DEF IInv, LockInv, MessageInv, At, Appending
<1>4. BeforeInv'
  BY <1>1 DEF IInv, BeforeInv, At, Appending
<1>5. ReadInv'
  BY <1>1 DEF IInv, ReadInv, WasRead, At, Appending
<1>6. QED  BY <1>2, <1>3, <1>4, <1>5 DEF IInv

\* The session starts, and the process prints and exits.
LEMMA SessionInv ==
  ASSUME IInv, Attach \/ Exits \/ \E g \in Glyphs : Prints(g)
  PROVE  IInv'
<1> DEFINE end == Message("watcher", {})
<1>1. /\ index' = index /\ reads' = reads /\ files' = files /\ lock' = lock /\ cache' = cache
  BY DEF Attach, Exits, Prints, AppendsNothing
<1>2. /\ reads \subseteq reads' /\ reads' \subseteq Nat
      /\ reads' = {} \/ \E r \in reads' : \A y \in reads' : r >= y
  BY <1>1, ReadsStay
<1>3. /\ "starter" \in Actors /\ "watcher" \in Actors /\ "collector" \in Actors
      /\ "starter" \notin Senders /\ "watcher" \notin Senders
  BY MessageAssumption DEF Actors, Workers
<1>4. CASE Attach
  <2>1. JobNow("starter", "lock", NoMessage, <<>>)
    BY <1>3, <1>4, NewJobFacts, NoMessageType DEF Attach, Places, IInv
  <2>2. status = "awaiting_password" /\ status' = "running" /\ output' = output
    BY <1>4 DEF Attach
  <2>3. NoMessage \notin Range(index) /\ NoMessage.by = "starter"
    BY <2>2 DEF IInv, BeforeInv, NoMessage, Message
  <2>4. QED
    BY <2>1, <2>2, <2>3, <1>1, <1>2, <1>3, JobType, NoMessageType, StepInv, ZenonT(30), CacheFact DEF Places
<1>5. CASE Exits
  <2>1. end \in Msgs /\ end.by = "watcher"
    BY <1>3 DEF Message, Msgs
  <2>2. JobNow("watcher", "lock", end, <<>>)
    BY <1>3, <1>5, <2>1, NewJobFacts DEF Exits, Places, IInv
  <2>3. status = "running" /\ status' = "exited" /\ output' = output
    BY <1>5 DEF Exits
  <2>4. end \notin Range(index)
    BY <2>1, <2>3 DEF IInv, BeforeInv
  <2>5. QED
    BY <2>1, <2>2, <2>3, <2>4, <1>1, <1>2, <1>3, JobType, StepInv, ZenonT(30), CacheFact DEF Places
<1>6. CASE \E g \in Glyphs : Prints(g)
  <2>1. output' \in Seq(Glyphs)
    BY <1>3, <1>6, JobType DEF Prints
  <2>2. QED  BY <2>1, <1>6, QuietInv DEF Prints, AppendsNothing
<1>7. QED  BY <1>4, <1>5, <1>6

\* What the collector reads is behind all it has appended.
LEMMA CollectInv ==
  ASSUME IInv, Collects \/ CollectorDone
  PROVE  IInv'
<1>1. /\ index' = index /\ files' = files /\ lock' = lock /\ cache' = cache
      /\ status' = status /\ output' = output
  BY DEF Collects, CollectorDone, AppendsNothing, SessionStays
<1>2. "collector" \in Actors /\ "collector" \notin Senders
  BY MessageAssumption DEF Actors, Workers
<1>3. CASE CollectorDone
  <2>1. JobNow("collector", "eof", job["collector"].msg, job["collector"].entries)
    BY <1>2, <1>3, GotoFacts DEF CollectorDone, Places, IInv
  <2>2. reads' = reads
    BY <1>3 DEF CollectorDone, SessionStays
  <2>3. QED
    BY <2>1, <1>1, <1>2, <2>2, ReadsStay, JobType, StepInv, ZenonT(30), CacheFact DEF Places
<1>4. CASE Collects
  <2>1. Pos \in Nat /\ \A r \in reads : r <= Pos
    BY PosFacts DEF IInv
  <2>2. PICK to \in Pos + 1 .. Len(output) :
          /\ reads' = reads \cup {to}
          /\ job' = [job EXCEPT !["collector"] = IF Kept(Pos + 1, to) = {} THEN Idle
                       ELSE NewJob("lock", Message("collector", Kept(Pos + 1, to)))]
    BY <1>4 DEF Collects
  <2> DEFINE words == Kept(Pos + 1, to)
             msg   == Message("collector", words)
  <2>3. to \in Nat /\ Pos + 1 \in Nat /\ Pos < to
    BY <2>1, JobType, <1>2
  <2>4. words \in SUBSET Nat /\ \A i \in words : Pos + 1 <= i /\ i <= to
    BY <2>3, KeptFacts
  <2>5. /\ reads \subseteq reads' /\ reads' \subseteq Nat
        /\ \E r \in reads' : \A y \in reads' : r >= y
    BY <2>1, <2>2, <2>3 DEF IInv, Shape
  <2>6. CASE words = {}
    <3>1. JobNow("collector", "idle", NoMessage, <<>>)
      BY <2>2, <2>6, <1>2, NewJobFacts, NoMessageType DEF Idle, Places, IInv
    <3>2. QED
      BY <3>1, <1>1, <1>2, <2>5, JobType, NoMessageType, StepInv, ZenonT(30), CacheFact DEF Places
  <2>7. CASE words # {}
    <3>1. msg \in Msgs /\ msg.by = "collector" /\ msg.words = words
      BY <2>4, <1>2 DEF Message, Msgs
    <3>2. JobNow("collector", "lock", msg, <<>>)
      BY <2>2, <2>7, <3>1, <1>2, NewJobFacts DEF Places, IInv
    <3>3. \A m \in Range(index) : m.by = "collector" => m # msg
      <4>1. SUFFICES ASSUME NEW m \in Range(index), m.by = "collector", m = msg PROVE FALSE
        OBVIOUS
      <4>2. PICK i \in words : TRUE
        BY <2>7
      <4>3. \E r \in reads : i <= r
        BY <4>1, <4>2, <3>1 DEF IInv, ReadInv, WasRead
      <4>4. QED  BY <4>3, <4>2, <2>1, <2>4 DEF IInv, Shape
    <3>4. msg \notin Range(index)
      BY <3>1, <3>3
    <3>5. \A m : m.words = words => WasRead(m)'
      BY <2>2, <2>4, <2>7 DEF WasRead
    <3>6. QED
      BY <3>1, <3>2, <3>4, <3>5, <1>1, <1>2, <2>5, JobType, StepInv, ZenonT(30), CacheFact DEF Places
  <2>8. QED  BY <2>6, <2>7
<1>5. QED  BY <1>3, <1>4
\* The end of a session that never ran: the watcher appends, and there is no collector.
LEMMA FinishInv ==
  ASSUME IInv, Finish
  PROVE  IInv'
<1> DEFINE end == Message("watcher", {})
<1>1. /\ index' = index /\ reads' = reads /\ files' = files /\ lock' = lock /\ cache' = cache
      /\ output' = output /\ status = "awaiting_password" /\ status' = "exited"
  BY DEF Finish, AppendsNothing
<1>2. /\ "watcher" \in Actors /\ "collector" \in Actors
      /\ "watcher" \notin Senders /\ "collector" \notin Senders
  BY MessageAssumption DEF Actors, Workers
<1>3. end \in Msgs /\ end.by = "watcher"
  BY <1>2 DEF Message, Msgs
<1>4. NewJob("lock", end) \in Jobs /\ NewJob("gone", NoMessage) \in Jobs
  BY <1>3, NewJobType, NoMessageType DEF Places
<1>5. job' \in [Actors -> Jobs]
  BY <1>4 DEF Finish, IInv, Shape
<1>6. /\ \A b \in Actors \ {"watcher", "collector"} : job'[b] = job[b]
      /\ job'["watcher"].at = "lock" /\ job'["watcher"].msg = end
      /\ job'["collector"].at = "gone"
  BY <1>2 DEF Finish, IInv, Shape, NewJob
<1>7. end \notin Range(index)
  BY <1>1, <1>3 DEF IInv, BeforeInv
<1>8. Shape'
  BY <1>1, <1>5 DEF IInv, Shape
<1>9. LockInv'
  BY <1>1, <1>6 DEF IInv, LockInv, At
<1>10. MessageInv'
  BY <1>1, <1>3, <1>6, <1>7 DEF IInv, MessageInv, At, Appending
<1>11. BeforeInv'
  BY <1>1, <1>2, <1>6 DEF IInv, BeforeInv, At, Appending
<1>12. ReadInv'
  BY <1>1, <1>6 DEF IInv, ReadInv, WasRead, At, Appending
<1>13. QED  BY <1>8, <1>9, <1>10, <1>11, <1>12 DEF IInv

\* The daemon dies: nobody has a message under way, nor the lock.
LEMMA CrashInv ==
  ASSUME IInv, Crash
  PROVE  IInv'
<1>1. /\ index' = index /\ reads' = reads /\ files' = files /\ output' = output
      /\ status' = "dead" /\ cache' = [loaded |-> FALSE, entries |-> <<>>]
  BY DEF Crash, DiskStays, NoCache
<1>2. /\ "starter" \in Actors /\ "watcher" \in Actors /\ "collector" \in Actors
      /\ Senders \cap Listers = {}
  BY MessageAssumption DEF Actors, Workers
<1>3. NewJob("idle", NoMessage) \in Jobs /\ NewJob("gone", NoMessage) \in Jobs
  BY NewJobType, NoMessageType DEF Places
<1>4. job' \in [Actors -> Jobs]
  BY <1>3 DEF Crash, Idle
<1>5. \A b \in Actors : job'[b].at = IF b \in Listers THEN "idle" ELSE "gone"
  BY DEF Crash, Idle, NewJob
<1>6. <<>> \in Seq(Msgs)
  OBVIOUS
<1>7. Shape'
  BY <1>1, <1>4, <1>6 DEF IInv, Shape
<1>8. LockInv' /\ MessageInv'
  BY <1>1, <1>5 DEF LockInv, MessageInv, At, Appending
<1>9. BeforeInv'
  BY <1>1, <1>2, <1>5 DEF BeforeInv, At, Appending
<1>10. ReadInv'
  BY <1>1, <1>2, <1>5 DEF IInv, ReadInv, WasRead, At, Appending
<1>11. QED  BY <1>7, <1>8, <1>9, <1>10 DEF IInv

\* Every step keeps the invariant.
LEMMA NextInv == IInv /\ [Next]_vars => IInv'
<1> SUFFICES ASSUME IInv, [Next]_vars PROVE IInv'
  OBVIOUS
<1>1. ASSUME NEW a \in Actors, Step(a) PROVE IInv'
  BY <1>1, AppendInv, IndexesInv, IndexInv, SendInv DEF Step, AppendStep
<1>2. CASE Attach \/ Exits \/ \E g \in Glyphs : Prints(g)
  BY <1>2, SessionInv
<1>3. CASE Finish
  BY <1>3, FinishInv
<1>4. CASE Collects \/ CollectorDone
  BY <1>4, CollectInv
<1>5. CASE Crash
  BY <1>5, CrashInv
<1>6. CASE UNCHANGED vars
  BY <1>6, QuietInv DEF vars, IInv, Shape
<1>7. QED  BY <1>1, <1>2, <1>3, <1>4, <1>5, <1>6 DEF Next, Over

\* Whoever is past Manager.mu has the index as it is on disk, and a message that is
\* under way is not in it yet, in every state (message.go:31-99).
THEOREM LogInvariant == Spec => []IInv
BY InitInv, NextInv, PTL DEF Spec

\* No step replaces the index but with one new message at its end.
LEMMA StepKeepsIndex ==
  ASSUME IInv, [Next]_vars
  PROVE  index' # index => \E msg \in files \ Range(index) : index' = Append(index, msg)
<1>1. ASSUME NEW a \in Actors, AppendIndexes(a)
      PROVE  \E msg \in files \ Range(index) : index' = Append(index, msg)
  BY <1>1, IndexesInv
<1>2. ASSUME NEW a \in Actors, Step(a), ~AppendIndexes(a) PROVE index' = index
  BY <1>2 DEF Step, AppendStep, AppendLocks, AppendSaves, AppendLoads, AppendFails, IndexLocks,
     IndexCaches, SendChecks, SendWrites, AppendsNothing, DiskStays
<1>3. ASSUME ~\E a \in Actors : Step(a) PROVE index' = index
  BY <1>3 DEF Next, Over, vars, Attach, Finish, Exits, Prints, Collects, CollectorDone, Crash,
     AppendsNothing, DiskStays
<1>4. QED  BY <1>1, <1>2, <1>3

\* The index on disk changes only by one new message at its end, which has its file by
\* then, whoever appends, whatever fails and whenever the daemon dies (message.go:41-58).
THEOREM IndexKept == Spec => IndexIsKept
<1>1. IInv /\ [Next]_vars =>
        [index' # index => \E msg \in files \ Range(index) : index' = Append(index, msg)]_vars
  BY StepKeepsIndex
<1>2. QED  BY <1>1, LogInvariant, PTL DEF Spec, IndexIsKept

-----------------------------------------------------------------------------
(* What the collector records of the output.                               *)

\* The words that are read and not appended yet.
Waiting == job["collector"].msg.words

\* Reads end in the output, and what else a step of the log relies on.
CountInv ==
  /\ status \in {"awaiting_password", "running", "exited", "dead"}
  /\ Len(output) <= MaxOutput /\ reads \subseteq 1..Len(output)
  /\ lock \in Actors \cup {"nobody"} /\ written \subseteq Senders
  /\ ~cache.loaded => cache.entries = <<>>
  /\ lost \subseteq [by : Actors, words : SUBSET (1..MaxOutput)] /\ IsFiniteSet(files)

\* Only the collector has words; they were read, and later than those of the index.
WordInv ==
  /\ \A a \in Actors \ {"collector"} : job[a].msg.words = {}
  /\ ~Appending("collector") => Waiting = {}
  /\ Waiting \subseteq 1..Pos
  /\ \A n \in 1..Len(index) : index[n].words \subseteq 1..Pos
  /\ \A n \in 1..Len(index) : \A i \in index[n].words, j \in Waiting : i < j
  /\ \A m, n \in 1..Len(index) : m < n => \A i \in index[m].words, j \in index[n].words : i < j

\* A carriage return has erased i's line: nothing of the line follows it in what was
\* read with it, or a line feed does not.
Erased(i) == \E j \in i..Pos :
  /\ output[j] = "cr" /\ \A k \in i..j : output[k] # "lf"
  /\ j \in reads \/ (j < Len(output) /\ output[j + 1] # "lf")

\* Whatever was read is in the log, on its way, lost, or was erased.
CoverInv ==
  /\ At("collector") # "gone" =>
       \A i \in 1..Pos : output[i] = "word" => i \in Logged \cup Waiting \/ Erased(i)
  /\ At("collector") = "eof" => status = "exited" /\ Pos = Len(output)

RecordInv == CountInv /\ WordInv /\ CoverInv

\* A word of the log is in a message of the index, or in one whose Append has failed.
LEMMA LoggedFacts ==
  ASSUME NEW i
  PROVE  i \in Logged <=> \E m \in Range(index) \cup lost : i \in m.words
BY DEF Logged

\* Words were read from the output that there is.
LEMMA WordFacts ==
  ASSUME IInv, RecordInv
  PROVE  /\ Pos \in Nat /\ Pos <= Len(output) /\ Len(output) \in Nat /\ MaxOutput \in Nat
         /\ \A a \in Actors : job[a].msg.words \subseteq 1..Pos
         /\ \A a \in Actors : job[a].msg.words \in SUBSET (1..MaxOutput)
<1>1. Pos \in Nat /\ Len(output) \in Nat /\ MaxOutput \in Nat
  BY PosFacts, JobType, MessageAssumption DEF IInv, Shape
<1>2. Pos <= Len(output)
  <2>1. Pos = 0 \/ Pos \in reads
    BY DEF Pos, Max, IInv, ReadInv
  <2>2. QED  BY <1>1, <2>1 DEF RecordInv, CountInv
<1>3. \A a \in Actors : job[a].msg.words \subseteq 1..Pos
  BY DEF RecordInv, WordInv, Waiting
<1>4. 1..Pos \subseteq 1..MaxOutput
  BY <1>1, <1>2 DEF RecordInv, CountInv
<1>5. QED  BY <1>1, <1>2, <1>3, <1>4

\* What was read stays where it is when only a goroutine that has no words goes on.
LEMMA RecordFrame ==
  ASSUME IInv, RecordInv, CountInv', UNCHANGED <<output, reads, index, lost>>,
         \A a \in Actors \ {"collector"} : job'[a].msg.words = {},
         job'["collector"] = job["collector"],
         At("collector") = "eof" => status' = status
  PROVE  RecordInv'
<1>1. Pos' = Pos /\ Waiting' = Waiting /\ Logged' = Logged /\ At("collector")' = At("collector")
      /\ Appending("collector")' = Appending("collector")
  BY DEF Pos, Waiting, Logged, At, Appending
<1>2. WordInv'
  BY <1>1 DEF RecordInv, WordInv
<1>3. \A i : Erased(i)' <=> Erased(i)
  BY <1>1 DEF Erased
<1>4. CoverInv'
  BY <1>1, <1>3 DEF RecordInv, CoverInv
<1>5. QED  BY <1>2, <1>4 DEF RecordInv

\* What a goroutine under or before the lock does to the log and to its own message.
StepOf(a, at, msg) ==
  /\ \A b \in Actors : b # a => job'[b] = job[b]
  /\ job'[a].at = at /\ job'[a].msg = msg /\ At(a) \notin {"gone", "eof"}
  /\ UNCHANGED <<status, output, reads>>
  /\ lost' \in {lost, lost \cup {job[a].msg}} /\ files' \in {files, files \cup {job[a].msg}}
  /\ index' \in {index, Append(index, job[a].msg)}
  /\ lock' \in {lock, a, "nobody"} /\ written' \subseteq written \cup Senders
  /\ ~cache'.loaded => cache' = cache
  /\ \/ msg = job[a].msg /\ index' = index
        /\ at \notin {"gone", "eof"} /\ (Appending(a) <=> at \in {"lock", "save", "load", "index"})
     \/ msg.words = {} /\ at \notin {"gone", "eof"} /\ index' = index
        /\ (Appending(a) => job[a].msg \in lost') /\ (at = "lock" => a \in Senders)
        /\ at \in {"lock", "done"}
     \/ msg.words = {} /\ at = "done" /\ index' = Append(index, job[a].msg)

\* Every step of a goroutine that appends, lists or sends is one of these.
LEMMA StepFacts ==
  ASSUME IInv, NEW a \in Actors, Step(a)
  PROVE  \E at, msg : StepOf(a, at, msg)
<1>1. NoMessage.words = {} /\ Message(a, {}).words = {} /\ Message(a, {}) \in Msgs
  BY DEF NoMessage, Message, Msgs
<1>2. CASE AppendLocks(a)
  <2>1. JobNow(a, "save", job[a].msg, job[a].entries)
    BY <1>2, GotoFacts DEF AppendLocks, Places, IInv
  <2>2. StepOf(a, "save", job[a].msg)
    BY <1>2, <2>1 DEF AppendLocks, JobNow, StepOf, Appending, DiskStays, SessionStays
  <2>3. QED  BY <2>2
<1>3. CASE AppendSaves(a)
  <2>1. \/ JobNow(a, "index", job[a].msg, cache.entries)
        \/ JobNow(a, "load", job[a].msg, cache.entries)
    BY <1>3, JobType, ListFacts DEF AppendSaves, Places, IInv
  <2>2. StepOf(a, "index", job[a].msg) \/ StepOf(a, "load", job[a].msg)
    BY <1>3, <2>1 DEF AppendSaves, JobNow, StepOf, Appending, SessionStays
  <2>3. QED  BY <2>2
<1>4. CASE AppendLoads(a)
  <2>1. JobNow(a, "index", job[a].msg, index)
    BY <1>4, JobType, ListFacts DEF AppendLoads, Places, IInv
  <2>2. StepOf(a, "index", job[a].msg)
    BY <1>4, <2>1 DEF AppendLoads, JobNow, StepOf, Appending, DiskStays, SessionStays
  <2>3. QED  BY <2>2
<1>5. CASE AppendIndexes(a)
  <2>1. JobNow(a, "done", NoMessage, <<>>)
    BY <1>5, NewJobFacts, NoMessageType DEF AppendIndexes, Returns, Places, IInv
  <2>2. index' = Append(index, job[a].msg)
    BY <1>5, IndexesInv
  <2>3. StepOf(a, "done", NoMessage)
    BY <1>1, <1>5, <2>1, <2>2 DEF AppendIndexes, JobNow, StepOf, Appending, SessionStays
  <2>4. QED  BY <2>3
<1>6. CASE AppendFails(a)
  <2>1. JobNow(a, "done", NoMessage, <<>>)
    BY <1>6, NewJobFacts, NoMessageType DEF AppendFails, Returns, Places, IInv
  <2>2. At(a) \notin {"gone", "eof"}
    BY <1>6 DEF AppendFails
  <2>3. StepOf(a, "done", NoMessage)
    BY <1>1, <1>6, <2>1, <2>2 DEF AppendFails, JobNow, StepOf, SessionStays
  <2>4. QED  BY <2>3
<1>7. CASE IndexLocks(a)
  <2>1. \/ JobNow(a, "done", NoMessage, <<>>)
        \/ JobNow(a, "list", job[a].msg, index)
    BY <1>7, JobType, NewJobFacts, NoMessageType, ListFacts DEF IndexLocks, Returns, Places, IInv
  <2>2. StepOf(a, "done", NoMessage) \/ StepOf(a, "list", job[a].msg)
    BY <1>1, <1>7, <2>1 DEF IndexLocks, JobNow, StepOf, Appending, DiskStays, SessionStays
  <2>3. QED  BY <2>2
<1>8. CASE IndexCaches(a)
  <2>1. JobNow(a, "done", NoMessage, <<>>)
    BY <1>8, NewJobFacts, NoMessageType DEF IndexCaches, Returns, Places, IInv
  <2>2. StepOf(a, "done", NoMessage)
    BY <1>1, <1>8, <2>1 DEF IndexCaches, JobNow, StepOf, Appending, DiskStays, SessionStays
  <2>3. QED  BY <2>2
<1>9. CASE SendChecks(a)
  <2>1. \/ JobNow(a, "write", job[a].msg, job[a].entries)
        \/ JobNow(a, "done", NoMessage, <<>>)
    BY <1>9, GotoFacts, NewJobFacts, NoMessageType DEF SendChecks, Returns, Places, IInv
  <2>2. StepOf(a, "write", job[a].msg) \/ StepOf(a, "done", NoMessage)
    BY <1>1, <1>9, <2>1 DEF SendChecks, JobNow, StepOf, Appending, AppendsNothing, SessionStays
  <2>3. QED  BY <2>2
<1>10. CASE SendWrites(a)
  <2>1. \/ JobNow(a, "lock", Message(a, {}), <<>>)
        \/ JobNow(a, "done", NoMessage, <<>>)
    BY <1>1, <1>10, NewJobFacts, NoMessageType DEF SendWrites, Returns, Places, IInv
  <2>2. a \in Senders
    BY <1>10 DEF SendWrites, IInv, BeforeInv
  <2>3. written' \subseteq written \cup Senders
    BY <1>10, <2>2 DEF SendWrites
  <2>4. /\ UNCHANGED <<status, output, reads, files, index, cache, lock, lost>>
        /\ ~Appending(a) /\ At(a) = "write"
    BY <1>10 DEF SendWrites, AppendsNothing, Appending
  <2>5. StepOf(a, "lock", Message(a, {})) \/ StepOf(a, "done", NoMessage)
    BY <1>1, <2>1, <2>2, <2>3, <2>4 DEF JobNow, StepOf
  <2>6. QED  BY <2>5
<1>11. QED
  BY <1>2, <1>3, <1>4, <1>5, <1>6, <1>7, <1>8, <1>9, <1>10 DEF Step, AppendStep

\* A step of a goroutine counts as before.
LEMMA StepCounts ==
  ASSUME IInv, IInv', RecordInv, NEW a \in Actors, NEW at, NEW msg, StepOf(a, at, msg)
  PROVE  CountInv'
<1>1. /\ UNCHANGED <<status, output, reads>> /\ written' \subseteq Senders
      /\ lock' \in Actors \cup {"nobody"} /\ (~cache'.loaded => cache'.entries = <<>>)
  BY DEF StepOf, RecordInv, CountInv
<1>2. lost' \subseteq [by : Actors, words : SUBSET (1..MaxOutput)]
  <2>1. CASE lost' = lost
    BY <2>1 DEF RecordInv, CountInv
  <2>2. CASE lost' = lost \cup {job[a].msg}
    <3>1. job[a].msg \in [by : Actors, words : SUBSET (1..MaxOutput)]
      BY JobType, WordFacts DEF Msgs
    <3>2. QED  BY <2>2, <3>1 DEF RecordInv, CountInv
  <2>3. QED  BY <2>1, <2>2 DEF StepOf
<1>3. IsFiniteSet(files')
  BY FS_AddElement DEF StepOf, RecordInv, CountInv
<1>4. QED  BY <1>1, <1>2, <1>3 DEF RecordInv, CountInv

\* The words of an index and of one with another message.
LEMMA IndexWords ==
  ASSUME IInv, NEW a \in Actors, index' \in {index, Append(index, job[a].msg)}
  PROVE  /\ Len(index) \in Nat
         /\ \/ index' = index
            \/ /\ index' = Append(index, job[a].msg) /\ Len(index') = Len(index) + 1
               /\ \A n \in 1..Len(index) : index'[n] = index[n]
               /\ index'[Len(index) + 1] = job[a].msg
               /\ \A n \in 1..Len(index') : n \in 1..Len(index) \/ n = Len(index) + 1
               /\ Range(index') = Range(index) \cup {job[a].msg}
<1>1. job[a].msg \in Msgs /\ index \in Seq(Msgs)
  BY JobType
<1>2. CASE index' = Append(index, job[a].msg)
  <2>1. Len(index') = Len(index) + 1 /\ Len(index) \in Nat
    BY <1>1, <1>2
  <2>2. (\A n \in 1..Len(index) : index'[n] = index[n]) /\ index'[Len(index) + 1] = job[a].msg
    BY <1>1, <1>2
  <2>3. Range(index') = Range(index) \cup {job[a].msg}
    BY <1>1, <1>2, RangeOfAppend
  <2>4. \A n \in 1..Len(index') : n \in 1..Len(index) \/ n = Len(index) + 1
    BY <2>1
  <2>5. QED  BY <1>2, <2>1, <2>2, <2>3, <2>4
<1>3. QED  BY <1>1, <1>2

\* The words stay in order: one goroutine has them, and appends before it reads on.
LEMMA StepOrders ==
  ASSUME IInv, RecordInv, NEW a \in Actors, NEW at, NEW msg, StepOf(a, at, msg)
  PROVE  WordInv' /\ Pos' = Pos
<1>1. Pos' = Pos /\ "collector" \in Actors /\ "collector" \notin Senders
  BY MessageAssumption DEF StepOf, Pos, Actors, Workers
<1>2. \A b \in Actors : b # a => job'[b] = job[b]
  BY DEF StepOf
<1>3. /\ msg.words = job[a].msg.words \/ msg.words = {}
      /\ job'[a].msg = msg /\ job'[a].at = at
  BY DEF StepOf
<1>4. \A b \in Actors \ {"collector"} : job'[b].msg.words = {}
  BY <1>2, <1>3 DEF RecordInv, WordInv
<1>5. (Waiting' = Waiting \/ Waiting' = {}) /\ Waiting \subseteq 1..Pos
  BY <1>1, <1>2, <1>3 DEF Waiting, RecordInv, WordInv
<1>6. ~Appending("collector")' => Waiting' = {}
  <2>1. CASE a # "collector"
    BY <1>1, <1>2, <2>1 DEF RecordInv, WordInv, Waiting, Appending, At
  <2>2. CASE a = "collector" /\ msg.words # {}
    <3>1. msg = job[a].msg /\ (Appending(a) <=> at \in {"lock", "save", "load", "index"})
      BY <2>2 DEF StepOf
    <3>2. Appending("collector")' <=> Appending("collector")
      BY <1>3, <2>2, <3>1 DEF Appending, At
    <3>3. QED  BY <1>5, <3>2 DEF RecordInv, WordInv
  <2>3. CASE a = "collector" /\ msg.words = {}
    BY <1>3, <2>3 DEF Waiting
  <2>4. QED  BY <2>1, <2>2, <2>3
<1>7. index' = index \/ (index' = Append(index, job[a].msg) /\ msg.words = {})
  BY DEF StepOf
<1>8. /\ \A n \in 1..Len(index') : index'[n].words \subseteq 1..Pos
      /\ \A n \in 1..Len(index') : \A i \in index'[n].words, j \in Waiting' : i < j
      /\ \A m, n \in 1..Len(index') : m < n => \A i \in index'[m].words, j \in index'[n].words : i < j
  <2>1. CASE index' = index
    BY <1>5, <2>1 DEF RecordInv, WordInv
  <2>2. CASE index' = Append(index, job[a].msg) /\ msg.words = {}
    <3>1. /\ Len(index) \in Nat /\ Len(index') = Len(index) + 1
          /\ \A n \in 1..Len(index) : index'[n] = index[n]
          /\ index'[Len(index) + 1] = job[a].msg
          /\ \A n \in 1..Len(index') : n \in 1..Len(index) \/ n = Len(index) + 1
      BY <2>2, IndexWords DEF StepOf
    <3>2. job[a].msg.words = {} \/ (a = "collector" /\ job[a].msg.words = Waiting)
      BY DEF RecordInv, WordInv, Waiting
    <3>3. a = "collector" => Waiting' = {}
      BY <1>3, <2>2 DEF Waiting
    <3>4. \A n \in 1..Len(index') : index'[n].words \subseteq 1..Pos
      BY <1>5, <3>1, <3>2 DEF RecordInv, WordInv
    <3>5. \A n \in 1..Len(index') : \A i \in index'[n].words, j \in Waiting' : i < j
      BY <1>5, <3>1, <3>2, <3>3 DEF RecordInv, WordInv
    <3>6. ASSUME NEW m \in 1..Len(index'), NEW n \in 1..Len(index'), m < n,
                 NEW i \in index'[m].words, NEW j \in index'[n].words
          PROVE  i < j
      <4>1. m \in 1..Len(index)
        BY <3>1, <3>6
      <4>2. CASE n \in 1..Len(index)
        BY <3>1, <3>6, <4>1, <4>2 DEF RecordInv, WordInv
      <4>3. CASE n = Len(index) + 1
        BY <3>1, <3>2, <3>6, <4>1, <4>3 DEF RecordInv, WordInv
      <4>4. QED  BY <3>1, <4>2, <4>3
    <3>7. QED  BY <3>4, <3>5, <3>6
  <2>3. QED  BY <1>7, <2>1, <2>2
<1>9. QED  BY <1>1, <1>4, <1>5, <1>6, <1>8 DEF WordInv

\* What was read is not forgotten: the collector's words move to the index, or are lost.
LEMMA StepCovers ==
  ASSUME IInv, RecordInv, NEW a \in Actors, NEW at, NEW msg, StepOf(a, at, msg)
  PROVE  CoverInv'
<1>1. Pos' = Pos /\ output' = output /\ reads' = reads /\ status' = status /\ "collector" \in Actors
  BY StepOrders DEF StepOf, Actors, Workers
<1>2. \A i : Erased(i)' <=> Erased(i)
  BY <1>1 DEF Erased
<1>3. Range(index) \cup lost \subseteq Range(index') \cup lost'
  BY IndexWords DEF StepOf
<1>4. \A i : i \in Logged => i \in Logged'
  BY <1>3, LoggedFacts DEF Logged
<1>5. \A i : i \in Waiting => i \in Logged' \/ i \in Waiting'
  <2>1. CASE a # "collector"
    BY <1>1, <2>1 DEF StepOf, Waiting
  <2>2. CASE a = "collector" /\ msg = job[a].msg
    BY <2>2 DEF StepOf, Waiting
  <2>3. CASE a = "collector" /\ Appending(a) /\ job[a].msg \in lost'
    BY <2>3 DEF Waiting, Logged
  <2>4. CASE a = "collector" /\ ~Appending(a)
    BY <2>4 DEF RecordInv, WordInv
  <2>5. CASE a = "collector" /\ index' = Append(index, job[a].msg)
    <3>1. job[a].msg \in Range(index')
      BY <2>5, JobType, RangeOfAppend
    <3>2. QED  BY <2>5, <3>1 DEF Waiting, Logged
  <2>6. QED  BY <2>1, <2>2, <2>3, <2>4, <2>5 DEF StepOf
<1>6. \/ At("collector")' = At("collector")
      \/ At("collector") # "gone" /\ At("collector")' \notin {"gone", "eof"}
  BY <1>1 DEF StepOf, At
<1>7. QED  BY <1>1, <1>2, <1>4, <1>5, <1>6 DEF RecordInv, CoverInv

\* A step of a goroutine.
LEMMA StepRecord ==
  ASSUME IInv, IInv', RecordInv, NEW a \in Actors, Step(a)
  PROVE  RecordInv'
<1>1. PICK at, msg : StepOf(a, at, msg)
  BY StepFacts
<1>2. QED  BY <1>1, StepCounts, StepOrders, StepCovers DEF RecordInv

\* The process prints: what was erased stays so.
LEMMA PrintsRecord ==
  ASSUME IInv, RecordInv, NEW g \in Glyphs, Prints(g)
  PROVE  RecordInv'
<1>1. /\ status = "running" /\ output \in Seq(Glyphs) /\ output' = Append(output, g)
      /\ Len(output') = Len(output) + 1 /\ Len(output) \in Nat /\ Len(output) < MaxOutput
      /\ UNCHANGED <<status, reads, job, written, files, index, cache, lock, lost>>
  BY DEF IInv, Shape, Prints, AppendsNothing
<1>2. Pos' = Pos /\ Waiting' = Waiting /\ Logged' = Logged /\ At("collector")' = At("collector")
      /\ Appending("collector")' = Appending("collector")
  BY <1>1 DEF Pos, Waiting, Logged, At, Appending
<1>3. Pos \in Nat /\ Pos <= Len(output) /\ MaxOutput \in Nat
  BY WordFacts
<1>4. CountInv'
  <2>1. Len(output') <= MaxOutput /\ 1..Len(output) \subseteq 1..Len(output')
    BY <1>1, <1>3
  <2>2. QED  BY <1>1, <2>1 DEF RecordInv, CountInv
<1>5. WordInv'
  BY <1>1, <1>2 DEF RecordInv, WordInv
<1>6. \A k \in 1..Len(output) : output'[k] = output[k]
  BY <1>1
<1>7. ASSUME NEW i \in 1..Pos, Erased(i) PROVE Erased(i)'
  <2>1. PICK j \in i..Pos : /\ output[j] = "cr" /\ \A k \in i..j : output[k] # "lf"
                            /\ j \in reads \/ (j < Len(output) /\ output[j + 1] # "lf")
    BY <1>7 DEF Erased
  <2>2. j \in 1..Len(output) /\ i..j \subseteq 1..Len(output)
    BY <1>1, <1>3
  <2>3. output'[j] = "cr" /\ \A k \in i..j : output'[k] # "lf"
    BY <1>6, <2>1, <2>2
  <2>4. j < Len(output) => j < Len(output') /\ output'[j + 1] = output[j + 1]
    BY <1>1, <1>6, <2>2
  <2>5. QED  BY <1>1, <1>2, <2>1, <2>3, <2>4 DEF Erased
<1>8. CoverInv'
  <2>1. At("collector") # "eof"
    BY <1>1 DEF RecordInv, CoverInv
  <2>2. \A i \in 1..Pos : output'[i] = output[i]
    BY <1>1, <1>3, <1>6
  <2>3. QED  BY <1>2, <1>7, <2>1, <2>2 DEF RecordInv, CoverInv
<1>9. QED  BY <1>4, <1>5, <1>8 DEF RecordInv

\* A Read moves the end of what was read on to its own end.
LEMMA PosMoves ==
  ASSUME IInv, RecordInv, NEW to \in Pos + 1 .. Len(output), reads' = reads \cup {to}
  PROVE  Pos' = to /\ to \in Nat /\ Pos < to /\ to <= Len(output)
<1>1. /\ Pos \in Nat /\ Len(output) \in Nat /\ (\A r \in reads : r <= Pos) /\ reads \subseteq Nat
  BY PosFacts, WordFacts DEF IInv, Shape
<1>2. to \in Nat /\ Pos < to /\ to <= Len(output)
  BY <1>1
<1>3. \A y \in reads' : to >= y
  BY <1>1, <1>2
<1>4. \A x \in reads' : (\A y \in reads' : x >= y) => x = to
  BY <1>1, <1>2, <1>3
<1>5. Max(reads') = to
  <2>1. to \in reads' /\ \A y \in reads' : to >= y
    BY <1>3
  <2>2. QED  BY <1>4, <2>1 DEF Max
<1>6. QED  BY <1>2, <1>5 DEF Pos

\* What a Read has and Compact does not keep is erased.
LEMMA KeptOrErased ==
  ASSUME IInv, RecordInv, NEW to \in Pos + 1 .. Len(output), reads' = reads \cup {to}, output' = output,
         NEW i \in Pos + 1 .. to, output[i] = "word"
  PROVE  i \in Kept(Pos + 1, to) \/ Erased(i)'
<1>1. Pos' = to /\ to \in Nat /\ to <= Len(output) /\ Pos \in Nat /\ Len(output) \in Nat
  BY PosMoves, WordFacts
<1>2. ASSUME i \notin Kept(Pos + 1, to) PROVE Erased(i)'
  <2>1. PICK j \in i..to : /\ output[j] = "cr" /\ \A k \in i..j : output[k] # "lf"
                           /\ ~(j < to /\ output[j + 1] = "lf")
    BY <1>2 DEF Kept
  <2>2. j = to \/ (j < Len(output) /\ output[j + 1] # "lf")
    BY <1>1, <2>1
  <2>3. QED  BY <1>1, <2>1, <2>2 DEF Erased
<1>3. QED  BY <1>2

\* The collector reads on.
LEMMA CollectsRecord ==
  ASSUME IInv, IInv', RecordInv, Collects
  PROVE  RecordInv'
<1>1. PICK to \in Pos + 1 .. Len(output) :
        /\ reads' = reads \cup {to}
        /\ job' = [job EXCEPT !["collector"] = IF Kept(Pos + 1, to) = {} THEN Idle
                     ELSE NewJob("lock", Message("collector", Kept(Pos + 1, to)))]
  BY DEF Collects
<1>2. /\ UNCHANGED <<status, output, written, files, index, cache, lock, lost>>
      /\ At("collector") \in {"idle", "done"} /\ "collector" \in Actors
  BY DEF Collects, AppendsNothing, Actors, Workers
<1>3. Pos' = to /\ to \in Nat /\ Pos < to /\ to <= Len(output) /\ Pos \in Nat /\ Len(output) \in Nat
  BY <1>1, PosMoves, WordFacts
<1>4. Waiting = {}
  BY <1>2 DEF RecordInv, WordInv, Appending
<1>5. /\ Waiting' = Kept(Pos + 1, to)
      /\ At("collector")' = IF Kept(Pos + 1, to) = {} THEN "idle" ELSE "lock"
      /\ \A a \in Actors \ {"collector"} : job'[a] = job[a]
  BY <1>1, <1>2 DEF Waiting, At, Idle, NewJob, Message, NoMessage, IInv, Shape
<1>6. Waiting' \subseteq Pos + 1 .. to
  BY <1>5 DEF Kept
<1>7. CountInv'
  <2>1. reads' \subseteq 1..Len(output')
    BY <1>1, <1>2, <1>3 DEF RecordInv, CountInv
  <2>2. QED  BY <1>2, <2>1 DEF RecordInv, CountInv
<1>8. WordInv'
  <2>1. \A n \in 1..Len(index) : index[n].words \subseteq 1..Pos
    BY DEF RecordInv, WordInv
  <2>2. 1..Pos \subseteq 1..to /\ Waiting' \subseteq 1..to
    BY <1>3, <1>6
  <2>3. \A n \in 1..Len(index) : \A i \in index[n].words, j \in Waiting' : i < j
    BY <1>3, <1>6, <2>1
  <2>4. ~Appending("collector")' => Waiting' = {}
    BY <1>5 DEF Appending
  <2>5. QED  BY <1>2, <1>3, <1>5, <2>1, <2>2, <2>3, <2>4 DEF RecordInv, WordInv
<1>9. CoverInv'
  <2>1. Logged' = Logged
    BY <1>2 DEF Logged
  <2>2. ASSUME NEW i \in 1..Pos', output'[i] = "word"
        PROVE  i \in Logged' \cup Waiting' \/ Erased(i)'
    <3>1. CASE i \in 1..Pos
      <4>1. i \in Logged \/ Erased(i)
        BY <1>2, <1>4, <2>2, <3>1 DEF RecordInv, CoverInv
      <4>2. Erased(i) => Erased(i)'
        <5>1. i..Pos \subseteq i..to
          BY <1>3, <3>1
        <5>2. QED  BY <1>1, <1>2, <1>3, <5>1 DEF Erased
      <4>3. QED  BY <2>1, <4>1, <4>2
    <3>2. CASE i \in Pos + 1 .. to
      BY <1>1, <1>2, <1>5, <2>2, <3>2, KeptOrErased
    <3>3. QED  BY <1>3, <2>2, <3>1, <3>2
  <2>3. At("collector")' # "eof"
    BY <1>5
  <2>4. QED  BY <2>2, <2>3 DEF CoverInv
<1>10. QED  BY <1>7, <1>8, <1>9 DEF RecordInv

\* End-of-file is read when everything is, and nothing is printed any more.
LEMMA DoneRecord ==
  ASSUME IInv, RecordInv, CollectorDone
  PROVE  RecordInv'
<1>1. /\ UNCHANGED <<status, output, reads, written, files, index, cache, lock, lost>>
      /\ At("collector") \in {"idle", "done"} /\ status = "exited" /\ Pos = Len(output)
      /\ "collector" \in Actors
  BY DEF CollectorDone, AppendsNothing, SessionStays, Actors, Workers
<1>2. JobNow("collector", "eof", job["collector"].msg, job["collector"].entries)
  BY <1>1, GotoFacts DEF CollectorDone, Places, IInv
<1>3. /\ Waiting' = Waiting /\ Waiting = {} /\ At("collector")' = "eof"
      /\ \A a \in Actors \ {"collector"} : job'[a] = job[a]
  BY <1>1, <1>2 DEF JobNow, Waiting, At, RecordInv, WordInv, Appending
<1>4. Pos' = Pos /\ Logged' = Logged
  BY <1>1 DEF Pos, Logged
<1>5. CountInv'
  BY <1>1 DEF RecordInv, CountInv
<1>6. WordInv'
  BY <1>1, <1>3, <1>4 DEF RecordInv, WordInv
<1>7. \A i : Erased(i)' <=> Erased(i)
  BY <1>1, <1>4 DEF Erased
<1>8. CoverInv'
  BY <1>1, <1>3, <1>4, <1>7 DEF RecordInv, CoverInv
<1>9. QED  BY <1>5, <1>6, <1>8 DEF RecordInv

\* The session starts or ends; a restored one has no collector.
LEMMA SessionRecord ==
  ASSUME IInv, RecordInv, Attach \/ Exits \/ UNCHANGED vars
  PROVE  RecordInv'
<1>1. /\ UNCHANGED <<output, reads, written, files, index, cache, lock, lost>>
      /\ status' = status \/ (status \in {"awaiting_password", "running"} /\ status' \in {"running", "exited"})
  BY DEF Attach, Exits, AppendsNothing, vars
<1>2. /\ job'["collector"] = job["collector"]
      /\ \A a \in Actors \ {"collector"} : job'[a].msg.words = {}
  <2>1. \A a \in Actors \ {"collector"} : job[a].msg.words = {}
    BY DEF RecordInv, WordInv
  <2>2. NewJob("lock", NoMessage).msg.words = {} /\ NewJob("lock", Message("watcher", {})).msg.words = {}
    BY DEF NewJob, NoMessage, Message
  <2>3. \/ job' = job
        \/ job' = [job EXCEPT !["starter"] = NewJob("lock", NoMessage)]
        \/ job' = [job EXCEPT !["watcher"] = NewJob("lock", Message("watcher", {}))]
    BY DEF Attach, Exits, vars
  <2>4. QED  BY <2>1, <2>2, <2>3 DEF IInv, Shape, Actors, Workers
<1>3. CountInv'
  BY <1>1 DEF RecordInv, CountInv
<1>4. At("collector") = "eof" => status = "exited"
  BY DEF RecordInv, CoverInv
<1>5. QED  BY <1>1, <1>2, <1>3, <1>4, RecordFrame

\* Without a collector nothing is promised of the output.
LEMMA GoneRecord ==
  ASSUME IInv, RecordInv, Finish \/ Crash
  PROVE  RecordInv'
<1>1. /\ UNCHANGED <<output, reads, written, files, index, lost>> /\ status' \in {"exited", "dead"}
      /\ \/ lock' = lock /\ cache' = cache
         \/ lock' = "nobody" /\ cache' = [loaded |-> FALSE, entries |-> <<>>]
  BY DEF Finish, Crash, AppendsNothing, DiskStays, NoCache
<1>2. /\ job'["collector"].at = "gone" /\ \A a \in Actors : job'[a].msg.words = {}
  <2>1. \A a \in Actors \ {"collector"} : job[a].msg.words = {}
    BY DEF RecordInv, WordInv
  <2>2. "collector" \in Actors /\ "watcher" \in Actors /\ "collector" \notin Listers
    BY MessageAssumption DEF Actors, Workers
  <2>3. CASE Finish
    BY <2>1, <2>2, <2>3 DEF Finish, NewJob, NoMessage, Message, IInv, Shape
  <2>4. CASE Crash
    BY <2>2, <2>4 DEF Crash, Idle, NewJob, NoMessage, Message
  <2>5. QED  BY <2>3, <2>4
<1>3. CountInv'
  BY <1>1 DEF RecordInv, CountInv
<1>4. Pos' = Pos /\ Waiting' = {} /\ At("collector")' = "gone"
  BY <1>1, <1>2 DEF Pos, Waiting, At, Actors, Workers
<1>5. WordInv'
  BY <1>1, <1>2, <1>4 DEF RecordInv, WordInv
<1>6. CoverInv'
  BY <1>4 DEF CoverInv
<1>7. QED  BY <1>3, <1>5, <1>6 DEF RecordInv

LEMMA InitRecord ==
  ASSUME Init
  PROVE  RecordInv
<1>1. CountInv
  BY FS_EmptySet, MessageAssumption DEF Init, CountInv, NoCache
<1>2. \A a \in Actors : job[a].msg.words = {} /\ At(a) \in {"idle", "lock"}
  BY DEF Init, Idle, NewJob, NoMessage, Message, At
<1>3. At("collector") = "idle" /\ Waiting = {} /\ Pos = 0 /\ index = <<>>
  BY <1>2 DEF Init, Idle, NewJob, At, Waiting, Actors, Workers, Pos
<1>4. WordInv
  BY <1>2, <1>3 DEF WordInv
<1>5. CoverInv
  BY <1>3 DEF CoverInv
<1>6. QED  BY <1>1, <1>4, <1>5 DEF RecordInv

LEMMA NextRecord ==
  ASSUME IInv, IInv', RecordInv, [Next]_vars
  PROVE  RecordInv'
<1>1. ASSUME NEW a \in Actors, Step(a) PROVE RecordInv'
  BY <1>1, StepRecord
<1>2. ASSUME NEW g \in Glyphs, Prints(g) PROVE RecordInv'
  BY <1>2, PrintsRecord
<1>3. CASE Attach \/ Exits \/ UNCHANGED vars
  BY <1>3, SessionRecord
<1>4. CASE Finish \/ Crash
  BY <1>4, GoneRecord
<1>5. CASE Collects
  BY <1>5, CollectsRecord
<1>6. CASE CollectorDone
  BY <1>6, DoneRecord
<1>7. QED  BY <1>1, <1>2, <1>3, <1>4, <1>5, <1>6 DEF Next, Over

\* Whatever the collector has read is in the log, on its way or lost, in order, or a
\* carriage return has erased it, in every state (session.go:372-388, compact.go:28-34).
THEOREM RecordInvariant == Spec => [](IInv /\ RecordInv)
<1>1. Init => IInv /\ RecordInv
  BY InitInv, InitRecord
<1>2. IInv /\ RecordInv /\ [Next]_vars => IInv' /\ RecordInv'
  BY NextInv, NextRecord
<1>3. QED  BY <1>1, <1>2, PTL DEF Spec

\* Every variable has the shape the code gives it (message.go:20-29, storage.go:36-64).
THEOREM TypeCorrect == Spec => []TypeOK
<1>1. IInv /\ RecordInv => TypeOK
  <2>1. SUFFICES ASSUME IInv, RecordInv PROVE TypeOK
    OBVIOUS
  <2>2. output \in BoundedSeq(Glyphs, MaxOutput)
    <3>1. output \in Seq(Glyphs) /\ Len(output) \in 0..MaxOutput
      BY <2>1, WordFacts DEF IInv, Shape, RecordInv, CountInv
    <3>2. output \in [1..Len(output) -> Glyphs]
      BY <3>1
    <3>3. QED  BY <3>1, <3>2 DEF BoundedSeq, SeqOf
  <2>3. cache.loaded \in BOOLEAN /\ Len(cache.entries) <= Len(index)
    <3>1. cache.entries = index \/ cache.entries = <<>>
      BY <2>1 DEF IInv, LockInv, RecordInv, CountInv
    <3>2. Len(index) \in Nat /\ cache.loaded \in BOOLEAN
      BY <2>1 DEF IInv, Shape
    <3>3. QED  BY <3>1, <3>2
  <2>4. \A a \in Actors : At(a) \in Places
    BY <2>1, JobType DEF At
  <2>5. QED  BY <2>1, <2>2, <2>3, <2>4 DEF TypeOK, RecordInv, CountInv, Places
<1>2. QED  BY <1>1, RecordInvariant, PTL

\* When the collector is done the log has every line the whole output shows, in order,
\* but for the lines a Read has torn at their end (session.go:372-388, compact.go:28-34).
THEOREM OutputLogged == Spec => []OutputIsLogged
<1>1. IInv /\ RecordInv => OutputIsLogged
  <2>1. SUFFICES ASSUME IInv, RecordInv PROVE OutputIsLogged
    OBVIOUS
  <2>2. ASSUME At("collector") = "eof", NEW i \in Kept(1, Len(output)) PROVE i \in Logged \/ Torn(i)
    <3>1. Pos = Len(output) /\ Len(output) \in Nat /\ Waiting = {}
      BY <2>1, <2>2, WordFacts DEF RecordInv, CoverInv, WordInv, Appending
    <3>2. i \in 1..Pos /\ output[i] = "word"
      BY <2>2, <3>1 DEF Kept
    <3>3. CASE Erased(i)
      <4>1. PICK j \in i..Pos : /\ output[j] = "cr" /\ \A k \in i..j : output[k] # "lf"
                                /\ j \in reads \/ (j < Len(output) /\ output[j + 1] # "lf")
        BY <3>3 DEF Erased
      <4>2. j < Len(output) /\ output[j + 1] = "lf"
        BY <2>2, <3>1, <3>2, <4>1 DEF Kept
      <4>3. i < j
        BY <3>2, <4>1
      <4>4. QED  BY <4>1, <4>2, <4>3 DEF Torn
    <3>4. QED  BY <2>1, <2>2, <3>1, <3>2, <3>3 DEF RecordInv, CoverInv
  <2>3. QED  BY <2>1, <2>2 DEF OutputIsLogged, RecordInv, WordInv
<1>2. QED  BY <1>1, RecordInvariant, PTL

-----------------------------------------------------------------------------
(* What EventsAreLogged rests on.                                          *)

\* An event is under way to the log as a's own message, in it, or lost.
Recorded(a) == \/ Appending(a) /\ job[a].msg = Message(a, {})
               \/ Message(a, {}) \in Range(index) \cup lost

\* No end and no input that has reached the process is forgotten, and whoever holds
\* Manager.mu is at a step that releases it in the end.
EventInv ==
  /\ status = "exited" => Recorded("watcher")
  /\ status # "dead" => \A a \in written : Recorded(a)
  /\ lock # "nobody" => At(lock) \in {"save", "load", "index", "list"}

\* Only Listers list, and the collector waits for a process.
StartInv ==
  /\ \A a \in Actors : At(a) = "list" => a \in Listers
  /\ status = "awaiting_password" => ~Appending("collector")

\* Steps of a alone, and steps that leave the log, forget nothing.
LEMMA StaysRecorded ==
  ASSUME Range(index) \cup lost \subseteq Range(index') \cup lost', NEW a, Recorded(a),
         job'[a] = job[a]
  PROVE  Recorded(a)'
BY DEF Recorded, Appending, At

\* An append goes on, or puts its message into the index, or loses it.
LEMMA StepKeepsEvents ==
  ASSUME IInv, RecordInv, EventInv, NEW a \in Actors, Step(a)
  PROVE  EventInv'
<1>1. PICK at, msg : StepOf(a, at, msg)
  BY StepFacts
<1>2. Range(index) \cup lost \subseteq Range(index') \cup lost'
  BY <1>1, IndexWords DEF StepOf
<1>3. "watcher" \in Actors /\ "watcher" \notin Senders /\ Senders \subseteq Actors /\ "nobody" \notin Actors
  BY MessageAssumption DEF Actors, Workers
<1>4. ASSUME NEW b \in Actors, Recorded(b) PROVE Recorded(b)'
  <2>1. CASE b # a
    BY <1>1, <1>2, <1>4, <2>1, StaysRecorded DEF StepOf
  <2>2. CASE Message(b, {}) \in Range(index) \cup lost
    BY <1>2, <2>2 DEF Recorded
  <2>3. CASE b = a /\ Appending(a) /\ job[a].msg = Message(a, {})
    <3>1. CASE msg = job[a].msg /\ at \in {"lock", "save", "load", "index"}
      BY <1>1, <2>3, <3>1 DEF StepOf, Recorded, Appending, At
    <3>2. CASE job[a].msg \in lost'
      BY <2>3, <3>2 DEF Recorded
    <3>3. CASE index' = Append(index, job[a].msg)
      <4>1. job[a].msg \in Range(index')
        BY <3>3, JobType, RangeOfAppend
      <4>2. QED  BY <2>3, <4>1 DEF Recorded
    <3>4. QED  BY <1>1, <2>3, <3>1, <3>2, <3>3 DEF StepOf
  <2>4. QED  BY <1>4, <2>1, <2>2, <2>3 DEF Recorded
<1>5. status' = status
  BY <1>1 DEF StepOf
<1>6. ASSUME status # "dead", NEW b \in written' PROVE Recorded(b)'
  <2>1. CASE b \in written
    BY <1>3, <1>4, <1>6, <2>1 DEF EventInv, RecordInv, CountInv
  <2>2. CASE b \notin written
    <3>1. SendWrites(a) /\ b = a
      BY <1>6, <2>2 DEF Step, AppendStep, AppendLocks, AppendSaves, AppendLoads, AppendIndexes, AppendFails,
         IndexLocks, IndexCaches, SendChecks, SendWrites, SessionStays
    <3>2. job' = [job EXCEPT ![a] = NewJob("lock", Message(a, {}))]
      BY <2>2, <3>1, <1>6 DEF SendWrites
    <3>3. QED  BY <3>1, <3>2 DEF Recorded, Appending, At, NewJob, IInv, Shape
  <2>3. QED  BY <2>1, <2>2
<1>7. lock' # "nobody" => job'[lock'].at \in {"save", "load", "index", "list"}
  <2>1. CASE lock' # lock /\ lock' # "nobody"
    <3>1. AppendLocks(a) \/ (IndexLocks(a) /\ ~cache.loaded)
      BY <2>1 DEF Step, AppendStep, AppendLocks, AppendSaves, AppendLoads, AppendIndexes, AppendFails,
         IndexLocks, IndexCaches, SendChecks, SendWrites, AppendsNothing
    <3>2. CASE AppendLocks(a)
      BY <3>2 DEF AppendLocks, Goto, At, IInv, Shape, Jobs
    <3>3. CASE IndexLocks(a) /\ ~cache.loaded
      <4>1. JobNow(a, "list", job[a].msg, index)
        BY <3>3, JobType, ListFacts DEF IndexLocks, Places, IInv
      <4>2. QED  BY <3>3, <4>1 DEF IndexLocks, JobNow, At
    <3>4. QED  BY <3>1, <3>2, <3>3
  <2>2. CASE lock' = lock /\ lock # "nobody"
    <3>1. lock \in Actors /\ At(lock) \in {"save", "load", "index", "list"}
      BY <2>2 DEF EventInv, RecordInv, CountInv
    <3>2. CASE lock # a
      BY <1>1, <2>2, <3>1, <3>2 DEF StepOf, At
    <3>3. CASE lock = a
      <4>1. AppendSaves(a) \/ AppendLoads(a)
        <5>1. a # "nobody"
          BY <1>3
        <5>2. QED  BY <2>2, <3>1, <3>3, <5>1 DEF Step, AppendStep, AppendLocks, AppendIndexes, AppendFails,
             IndexLocks, IndexCaches, SendChecks, SendWrites
      <4>2. job'[a].at \in {"index", "load"}
        <5>1. \/ JobNow(a, "index", job[a].msg, cache.entries)
              \/ JobNow(a, "load", job[a].msg, cache.entries)
              \/ JobNow(a, "index", job[a].msg, index)
          BY <4>1, JobType, ListFacts DEF AppendSaves, AppendLoads, Places, IInv
        <5>2. QED  BY <5>1 DEF JobNow
      <4>3. QED  BY <2>2, <3>3, <4>2 DEF At
    <3>4. QED  BY <3>2, <3>3
  <2>3. QED  BY <2>1, <2>2
<1>8. QED  BY <1>3, <1>4, <1>5, <1>6, <1>7 DEF EventInv, At

\* The other steps write nothing to the log, and give the lock to nobody.
LEMMA OthersKeepEvents ==
  ASSUME IInv, RecordInv, EventInv, StartInv,
         \/ Attach \/ Finish \/ Exits \/ Collects \/ CollectorDone \/ Crash \/ UNCHANGED vars
         \/ \E g \in Glyphs : Prints(g)
  PROVE  EventInv'
<1>1. /\ index' = index /\ lost' = lost /\ written' = written /\ (status = "dead" => status' = "dead")
      /\ \/ UNCHANGED <<lock, cache>>
         \/ Crash /\ lock' = "nobody" /\ status' = "dead"
  BY DEF Attach, Finish, Exits, Collects, CollectorDone, Crash, Prints, AppendsNothing, SessionStays,
     DiskStays, vars
<1>2. /\ "watcher" \in Actors /\ "starter" \in Actors /\ "collector" \in Actors
      /\ written \subseteq Senders /\ Senders \subseteq Actors /\ Workers \cap Senders = {}
      /\ {"watcher", "starter", "collector"} = Workers /\ job \in [Actors -> Jobs]
  BY MessageAssumption DEF Actors, Workers, RecordInv, CountInv, IInv, Shape
<1>3. CASE Crash
  BY <1>1, <1>3 DEF Crash, EventInv
<1>4. CASE ~Crash
  <2>1. \A a \in Actors \ Workers : job'[a] = job[a]
    BY <1>2, <1>4 DEF Attach, Finish, Exits, Collects, CollectorDone, Prints, SessionStays, Goto, vars
  <2>2. status # "dead" => \A a \in written : Recorded(a)'
    <3>1. ASSUME status # "dead", NEW a \in written PROVE Recorded(a)'
      BY <1>1, <1>2, <2>1, <3>1, StaysRecorded DEF EventInv
    <3>2. QED  BY <3>1
  <2>3. status' = "exited" => Recorded("watcher")'
    <3>1. CASE Finish \/ Exits
      <4>1. job'["watcher"] = NewJob("lock", Message("watcher", {}))
        BY <1>2, <3>1 DEF Finish, Exits
      <4>2. QED  BY <4>1 DEF NewJob, Recorded, Appending, At
    <3>2. CASE ~(Finish \/ Exits)
      <4>1. status' = status \/ status' = "running"
        BY <1>4, <3>2 DEF Attach, Collects, CollectorDone, Prints, AppendsNothing, SessionStays, vars
      <4>2. job'["watcher"] = job["watcher"]
        BY <1>2, <1>4, <3>2 DEF Attach, Collects, CollectorDone, Prints, SessionStays, Goto, vars
      <4>3. QED  BY <1>1, <4>1, <4>2, StaysRecorded DEF EventInv
    <3>3. QED  BY <3>1, <3>2
  <2>4. ASSUME lock # "nobody" PROVE job'[lock].at \in {"save", "load", "index", "list"}
    <3>1. lock \in Actors /\ job[lock].at \in {"save", "load", "index", "list"}
      BY <2>4 DEF EventInv, RecordInv, CountInv, At
    <3>2. Workers \cap Listers = {}
      BY MessageAssumption
    <3>3. lock \in Workers => Appending(lock)
      BY <3>1, <3>2 DEF StartInv, Appending, At
    <3>4. /\ Attach => lock # "starter"
          /\ Finish => lock # "watcher" /\ lock # "collector"
          /\ Exits => lock # "watcher"
          /\ Collects \/ CollectorDone => lock # "collector"
      BY <1>2, <3>1, <3>3 DEF Attach, Finish, Exits, Collects, CollectorDone, IInv, BeforeInv, StartInv, At
    <3>5. job'[lock] = job[lock]
      BY <1>2, <1>4, <3>1, <3>4 DEF Attach, Finish, Exits, Collects, CollectorDone, Prints, SessionStays, Goto, vars
    <3>6. QED  BY <3>1, <3>5
  <2>5. QED  BY <1>1, <1>4, <2>2, <2>3, <2>4 DEF EventInv, At
<1>5. QED  BY <1>3, <1>4

\* The message of an input is one.
LEMMA MessageType ==
  ASSUME NEW a \in Actors
  PROVE  Message(a, {}) \in Msgs
BY DEF Message, Msgs

\* Only Index lists, and only Collects and the collector's own steps make it append.
LEMMA StartKept ==
  ASSUME IInv, StartInv, [Next]_vars
  PROVE  StartInv'
<1>1. "collector" \in Actors /\ "collector" \notin Senders /\ job \in [Actors -> Jobs]
  BY MessageAssumption DEF Actors, Workers, IInv, Shape
<1>2. ASSUME NEW a \in Actors, Step(a) PROVE StartInv'
  <2>1. PICK at, msg : StepOf(a, at, msg)
    BY <1>2, StepFacts
  <2>2. status' = "awaiting_password" => ~Appending("collector")'
    <3>1. status' = status /\ \A b \in Actors : b # a => job'[b] = job[b]
      BY <2>1 DEF StepOf
    <3>2. a = "collector" => (Appending("collector")' => Appending("collector"))
      BY <1>1, <2>1 DEF StepOf, Appending, At
    <3>3. QED  BY <1>1, <3>1, <3>2 DEF StartInv, Appending, At
  <2>3. ASSUME NEW b \in Actors, At(b)' = "list" PROVE b \in Listers
    <3>1. CASE b # a
      BY <2>1, <2>3, <3>1 DEF StepOf, StartInv, At
    <3>2. CASE b = a /\ ~IndexLocks(a)
      <4>1. ASSUME AppendLocks(a) PROVE job'[a].at # "list"
        BY <4>1, JobType, GotoFacts DEF AppendLocks, Places, IInv, JobNow
      <4>2. ASSUME AppendSaves(a) PROVE job'[a].at # "list"
        <5>1. \/ JobNow(a, "index", job[a].msg, cache.entries)
              \/ JobNow(a, "load", job[a].msg, cache.entries)
          BY <4>2, JobType, ListFacts DEF AppendSaves, Places, IInv
        <5>2. QED  BY <5>1 DEF JobNow
      <4>3. ASSUME AppendLoads(a) PROVE job'[a].at # "list"
        <5>1. JobNow(a, "index", job[a].msg, index)
          BY <4>3, JobType, ListFacts DEF AppendLoads, Places, IInv
        <5>2. QED  BY <5>1 DEF JobNow
      <4>4. ASSUME AppendIndexes(a) \/ AppendFails(a) \/ IndexCaches(a) PROVE job'[a].at # "list"
        BY <1>1, <4>4 DEF AppendIndexes, AppendFails, IndexCaches, Returns, NewJob
      <4>5. ASSUME SendChecks(a) PROVE job'[a].at # "list"
        <5>1. CASE Goto(a, "write")
          BY <5>1, JobType, GotoFacts DEF Places, IInv, JobNow
        <5>2. CASE Returns(a)
          BY <1>1, <5>2 DEF Returns, NewJob
        <5>3. QED  BY <4>5, <5>1, <5>2 DEF SendChecks
      <4>6. ASSUME SendWrites(a) PROVE job'[a].at # "list"
        BY <1>1, <4>6 DEF SendWrites, Returns, NewJob
      <4>7. QED  BY <1>2, <2>3, <3>2, <4>1, <4>2, <4>3, <4>4, <4>5, <4>6 DEF Step, AppendStep, At
    <3>3. CASE b = a /\ IndexLocks(a)
      BY <3>3 DEF IndexLocks
    <3>4. QED  BY <3>1, <3>2, <3>3
  <2>4. QED  BY <2>2, <2>3 DEF StartInv
<1>3. ASSUME NEW g \in Glyphs, Prints(g) PROVE StartInv'
  BY <1>3 DEF Prints, StartInv, Appending, At
<1>4. CASE UNCHANGED vars
  BY <1>4 DEF vars, StartInv, Appending, At
<1>5. CASE Attach \/ Exits
  BY <1>1, <1>5 DEF Attach, Exits, StartInv, NewJob, At
<1>6. CASE Finish
  BY <1>1, <1>6 DEF Finish, StartInv, NewJob, At
<1>7. CASE Collects \/ CollectorDone
  <2>1. status' = status /\ status # "awaiting_password" /\ \A a \in Actors \ {"collector"} : job'[a] = job[a]
    BY <1>1, <1>7 DEF Collects, CollectorDone, SessionStays, Goto
  <2>2. job'["collector"].at \in {"idle", "lock", "eof"}
    BY <1>1, <1>7 DEF Collects, CollectorDone, Goto, NewJob, Idle, Jobs
  <2>3. QED  BY <2>1, <2>2 DEF StartInv, At
<1>8. CASE Crash
  BY <1>1, <1>8 DEF Crash, StartInv, Idle, NewJob, At
<1>9. QED  BY <1>2, <1>3, <1>4, <1>5, <1>6, <1>7, <1>8 DEF Next, Over

LEMMA InitEvents ==
  ASSUME Init
  PROVE  EventInv /\ StartInv
BY DEF Init, EventInv, StartInv, Idle, NewJob, At, Appending, Actors, Workers

\* An end, and an input that has reached the process, is on its way to the log, in it or
\* lost with a failing file, and whoever holds Manager.mu is about to release it, in every
\* state (message.go:31-65, session.go:343-345, 423-426, 719-721).
THEOREM EventsAreKept == Spec => []EventInv
<1>1. Init => IInv /\ RecordInv /\ EventInv /\ StartInv
  BY InitInv, InitRecord, InitEvents
<1>2. ASSUME IInv, RecordInv, EventInv, StartInv, [Next]_vars
      PROVE  IInv' /\ RecordInv' /\ EventInv' /\ StartInv'
  <2>1. IInv' /\ RecordInv' /\ StartInv'
    BY <1>2, NextInv, NextRecord, StartKept
  <2>2. CASE \E a \in Actors : Step(a)
    BY <1>2, <2>1, <2>2, StepKeepsEvents
  <2>3. CASE ~\E a \in Actors : Step(a)
    BY <1>2, <2>1, <2>3, OthersKeepEvents DEF Next, Over
  <2>4. QED  BY <2>1, <2>2, <2>3
<1>3. QED  BY <1>1, <1>2, PTL DEF Spec
=============================================================================
