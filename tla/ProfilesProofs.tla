---------------------------- MODULE ProfilesProofs ----------------------------
(***************************************************************************)
(* Proofs about Profiles, for any number of names, passwords, requests and *)
(* commands: names are unique across both files, and no save or deletion   *)
(* undoes another, unless two processes write at the same time.            *)
(***************************************************************************)
EXTENDS Profiles, TLAPS

Values == {"none", "key", "ask", "keep", "local", "ssh", "page", "nopage"} \cup Secrets

Places == {"idle", "find", "findssh", "keep", "save", "load", "write", "delete",
           "unload", "remove", "list", "listed", "check", "start"}

Cells == [Names -> {"local"} \cup Profile]

Jobs == [at : Places, want : Wants, exists : BOOLEAN, put : Values, seen : Cells, touched : BOOLEAN]

Stored(which) == IF which = "local" THEN {"none", "local"} ELSE Profile

\* What a job is about to write fits the file it is for.
JobInv(j) ==
  /\ j.at \in {"find", "findssh", "save", "load", "write"} => j.want.op \in {"local", "ssh"}
  /\ j.at \in {"find", "findssh"} => j.put = j.want.value
  /\ j.at = "findssh" /\ j.want.op = "local" => j.want.value # "keep"
  /\ j.at = "keep" => j.want.op = "ssh"
  /\ j.at \in {"save", "load", "write"} => j.put \in Stored(j.want.op) \ {"none"}
  /\ j.at = "write" => j.seen \in [Names -> Stored(j.want.op)]
  /\ j.at = "remove" => j.put \in {"local", "ssh"} /\ j.seen \in [Names -> Stored(j.put)]

InWrite(j) == j.at \in {"load", "write", "unload", "remove"}

\* What a job has read under the lock is what the files still hold.
Fresh(j, f) ==
  /\ j.at \in {"load", "write"} => f[Other(j.want.op)][j.want.name] = "none"
  /\ j.at = "write" => j.seen = f[j.want.op]
  /\ j.at = "remove" => j.seen = f[j.put]

Alone == \A a, b \in Actors : InWrite(job[a]) /\ InWrite(job[b]) => a = b

IInv ==
  /\ files \in Files /\ mixed \in BOOLEAN /\ requests \in 0..MaxRequests
  /\ job \in [Actors -> Jobs]
  /\ \A a \in Actors : JobInv(job[a])
  /\ mixed \/ (Alone /\ (\A a \in Actors : Fresh(job[a], files)) /\ Unique(files))

\* The record a file is part of.
LEMMA FileType ==
  ASSUME NEW f \in Files
  PROVE  /\ f.local \in [Names -> {"none", "local"}] /\ f.ssh \in [Names -> Profile]
         /\ f["local"] = f.local /\ f["ssh"] = f.ssh
BY DEF Files

\* Nobody does anything to begin with.
LEMMA IdleJob == NoJob \in Jobs /\ NoJob.at = "idle"
<1>1. (CHOOSE n \in Names : TRUE) \in Names
  BY ProfileAssumption
<1>2. [op |-> "list", name |-> CHOOSE n \in Names : TRUE, value |-> "none"] \in Wants
  BY <1>1 DEF Wants
<1>3. [n \in Names |-> "none"] \in Cells
  BY DEF Profile, Cells
<1>4. QED  BY <1>2, <1>3 DEF NoJob, NewJob, Jobs, Values, Places

\* Neither a name in both files nor a file under way.
LEMMA InitInv == Init => IInv
<1> SUFFICES ASSUME Init PROVE IInv
  OBVIOUS
<1>1. files \in Files /\ Unique(files) /\ mixed \in BOOLEAN /\ requests \in 0..MaxRequests
  <2>1. files \in Files /\ Unique(files)
    BY Zenon DEF Init
  <2>2. mixed = FALSE /\ requests = 0
    BY Zenon DEF Init
  <2>3. MaxRequests \in Nat
    BY Zenon, ProfileAssumption
  <2>4. requests \in 0..MaxRequests
    BY <2>2, <2>3
  <2>5. mixed \in BOOLEAN
    BY <2>2
  <2>6. QED  BY <2>1, <2>4, <2>5
<1>2. job \in [Actors -> Jobs] /\ \A a \in Actors : job[a].at = "idle"
  BY IdleJob DEF Init
<1>3. \A a \in Actors : JobInv(job[a]) /\ Fresh(job[a], files) /\ ~InWrite(job[a])
  BY <1>2 DEF JobInv, Fresh, InWrite
<1>4. QED  BY <1>1, <1>2, <1>3 DEF IInv, Alone

\* A step of a alone that leaves the files keeps the invariant, if the job it makes
\* of a's does, and a begins to write only when nobody does.
LEMMA StepInv ==
  ASSUME IInv, NEW a \in Actors, NEW j \in Jobs, job' = [job EXCEPT ![a] = j],
         files' = files, requests' \in 0..MaxRequests, mixed' \in BOOLEAN, mixed => mixed',
         JobInv(j), ~mixed' => Fresh(j, files),
         ~mixed' /\ InWrite(j) => InWrite(job[a]) \/ \A b \in Actors : ~InWrite(job[b])
  PROVE  IInv'
<1>1. job' \in [Actors -> Jobs] /\ \A b \in Actors : job'[b] = IF b = a THEN j ELSE job[b]
  BY DEF IInv
<1>2. \A b \in Actors : JobInv(job'[b])
  BY <1>1 DEF IInv
<1>3. ASSUME ~mixed' PROVE Alone' /\ (\A b \in Actors : Fresh(job'[b], files')) /\ Unique(files')
  <2>1. Alone /\ (\A b \in Actors : Fresh(job[b], files)) /\ Unique(files)
    BY <1>3 DEF IInv
  <2>2. \A b \in Actors : Fresh(job'[b], files')
    BY <2>1, <1>1, <1>3
  <2>3. Alone'
    BY <2>1, <1>1, <1>3 DEF Alone
  <2>4. QED  BY <2>1, <2>2, <2>3
<1>4. QED  BY <1>1, <1>2, <1>3 DEF IInv

\* What an update of one field of a job makes of it.
LEMMA JobUpdates ==
  ASSUME NEW r \in Jobs
  PROVE  /\ \A v \in Places : LET j == [r EXCEPT !.at = v] IN
              j \in Jobs /\ j.at = v /\ j.want = r.want /\ j.put = r.put /\ j.seen = r.seen
         /\ \A v \in BOOLEAN : LET j == [r EXCEPT !.exists = v] IN
              j \in Jobs /\ j.at = r.at /\ j.want = r.want /\ j.put = r.put /\ j.seen = r.seen
         /\ \A v \in Values : LET j == [r EXCEPT !.put = v] IN
              j \in Jobs /\ j.at = r.at /\ j.want = r.want /\ j.put = v /\ j.seen = r.seen
         /\ \A v \in Cells : LET j == [r EXCEPT !.seen = v] IN
              j \in Jobs /\ j.at = r.at /\ j.want = r.want /\ j.put = r.put /\ j.seen = v
         /\ \A v \in BOOLEAN : LET j == [r EXCEPT !.touched = v] IN
              j \in Jobs /\ j.at = r.at /\ j.want = r.want /\ j.put = r.put /\ j.seen = r.seen
BY DEF Jobs

\* Going on to another place.
LEMMA GotoInv ==
  ASSUME IInv, NEW a \in Actors, NEW where \in Places, Goto(a, where),
         files' = files, requests' = requests, mixed' \in BOOLEAN, mixed => mixed',
         \A j \in Jobs :
           j.at = where /\ j.want = job[a].want /\ j.put = job[a].put /\ j.seen = job[a].seen
           => /\ JobInv(j)
              /\ ~mixed' => Fresh(j, files)
              /\ ~mixed' /\ InWrite(j) => InWrite(job[a]) \/ \A b \in Actors : ~InWrite(job[b])
  PROVE  IInv'
<1>1. job[a] \in Jobs /\ requests \in 0..MaxRequests
  BY DEF IInv
<1> DEFINE j == [job[a] EXCEPT !.at = where]
<1>2. j \in Jobs /\ j.at = where /\ j.want = job[a].want /\ j.put = job[a].put /\ j.seen = job[a].seen
  BY <1>1, JobUpdates
<1>3. job' = [job EXCEPT ![a] = j]
  BY DEF Goto
<1> HIDE DEF j
<1>4. QED  BY <1>1, <1>2, <1>3, StepInv

\* An actor that is done writes nothing.
LEMMA EndsInv ==
  ASSUME IInv, NEW a \in Actors, Ends(a),
         files' = files, requests' = requests, mixed' \in BOOLEAN, mixed => mixed'
  PROVE  IInv'
<1>1. JobInv(NoJob) /\ Fresh(NoJob, files) /\ ~InWrite(NoJob) /\ requests \in 0..MaxRequests
  BY IdleJob DEF JobInv, Fresh, InWrite, IInv
<1>2. QED  BY <1>1, IdleJob, StepInv DEF Ends

\* A request or a command begins.
LEMMA BeginInv ==
  ASSUME IInv, NEW a \in Actors, NEW w \in Wants, RequestBegins(a, w) \/ CommandBegins(a, w)
  PROVE  IInv'
<1>1. PICK where \in Places :
        /\ where \in {"find", "check", "save", "delete", "list"} /\ Begins(a, where, w)
        /\ where \in {"find", "save"} => w.op \in {"local", "ssh"}
        /\ where = "save" => w.value # "keep"
  <2>1. w.op \in {"local", "ssh", "delete", "list", "start"}
    BY DEF Wants
  <2>2. QED  BY <2>1 DEF RequestBegins, CommandBegins, Places
<1> DEFINE j == NewJob(where, w)
<1>2. w.value \in Values
  BY DEF Wants, Values
<1>3. j \in Jobs /\ j.at = where /\ j.want = w /\ j.put = w.value
  <2>1. [n \in Names |-> "none"] \in Cells
    BY DEF Profile, Cells
  <2>2. QED  BY <1>2, <2>1 DEF NewJob, Jobs
<1>4. JobInv(j) /\ Fresh(j, files) /\ ~InWrite(j)
  <2>1. where = "save" => w.value \in Stored(w.op) \ {"none"}
    BY <1>1, ProfileAssumption DEF Wants, Stored, Profile
  <2>2. QED  BY <2>1, <1>1, <1>3 DEF JobInv, Fresh, InWrite
<1>5. /\ files' = files /\ mixed' = mixed /\ requests' = requests + 1 /\ requests < MaxRequests
      /\ job' = [job EXCEPT ![a] = j]
  BY <1>1 DEF Begins
<1>6. requests' \in 0..MaxRequests
  BY <1>5, ProfileAssumption DEF IInv
<1> HIDE DEF j
<1>7. QED  BY <1>3, <1>4, <1>5, <1>6, StepInv DEF IInv
\* handleUpsertConfig up to its save: what it will store fits the file.
LEMMA FindInv ==
  ASSUME IInv, NEW a \in Actors, FindLocal(a) \/ FindSSH(a) \/ KeepPassword(a)
  PROVE  IInv'
<1> DEFINE old == job[a]
<1>1. /\ files' = files /\ mixed' = mixed /\ requests' = requests /\ mixed \in BOOLEAN
      /\ old \in Jobs /\ JobInv(old) /\ old.want \in Wants /\ files \in Files
      /\ requests \in 0..MaxRequests
  BY DEF FindLocal, FindSSH, KeepPassword, Stays, IInv, Jobs
<1>2. old.want.op = "local" => old.want.value = "local"
  BY <1>1 DEF Wants
<1>3. old.want.op = "ssh" => old.want.value \in {"key", "ask", "keep"} \cup Secrets
  BY <1>1 DEF Wants
<1>4. CASE Ends(a)
  BY <1>1, <1>4, EndsInv
<1>5. CASE FindLocal(a) /\ ~Ends(a)
  <2>1. At(a) = "find" /\ (Goto(a, "findssh") \/ (Op(a) = "local" /\ Goto(a, "save")))
    BY <1>5 DEF FindLocal
  <2>2. CASE Goto(a, "findssh")
    BY <1>1, <1>2, <2>1, <2>2, GotoInv DEF Places, JobInv, Fresh, InWrite, At
  <2>3. CASE Op(a) = "local" /\ Goto(a, "save")
    BY <1>1, <1>2, <2>1, <2>3, GotoInv DEF Places, JobInv, Fresh, InWrite, At, Op, Stored
  <2>4. QED  BY <2>1, <2>2, <2>3
<1>6. CASE FindSSH(a) /\ ~Ends(a)
  <2> DEFINE found == files.ssh[Name(a)] # "none"
             where == IF old.want.value = "keep" THEN "keep" ELSE "save"
  <2>1. /\ job' = [job EXCEPT ![a].exists = found, ![a].at = where]
        /\ old.at = "findssh" /\ found \in BOOLEAN /\ where \in {"keep", "save"}
    BY <1>6 DEF FindSSH, At, Asked
  <2>2. /\ where \in Places
        /\ where = "save" => old.want.value # "keep"
        /\ where = "keep" => old.want.value = "keep"
    BY DEF Places
  <2> HIDE DEF found, where
  <2> DEFINE i == [old EXCEPT !.exists = found]
             j == [i EXCEPT !.at = where]
  <2>3. i \in Jobs /\ i.want = old.want /\ i.put = old.put
    BY <1>1, <2>1, JobUpdates
  <2> HIDE DEF i
  <2>4. j \in Jobs /\ j.at = where /\ j.want = old.want /\ j.put = old.put
    BY <2>2, <2>3, JobUpdates
  <2>5. job' = [job EXCEPT ![a] = j]
    BY <2>1 DEF i, IInv
  <2> HIDE DEF j
  <2>6. old.put = old.want.value /\ old.want.op \in {"local", "ssh"}
    BY <1>1, <2>1 DEF JobInv
  <2>7. where = "save" => old.put \in Stored(old.want.op) \ {"none"}
    BY <1>2, <1>3, <2>2, <2>6, ProfileAssumption DEF Stored, Profile
  <2>8. where = "keep" => old.want.op = "ssh"
    BY <1>2, <2>2, <2>6
  <2>9. JobInv(j) /\ Fresh(j, files) /\ ~InWrite(j)
    BY <2>1, <2>4, <2>6, <2>7, <2>8 DEF JobInv, Fresh, InWrite
  <2>10. QED  BY <1>1, <2>4, <2>5, <2>9, StepInv
<1>7. CASE KeepPassword(a) /\ ~Ends(a)
  <2>1. PICK put \in {"ask"} \cup Secrets :
          /\ job' = [job EXCEPT ![a] = [[old EXCEPT !.put = put] EXCEPT !.at = "save"]]
          /\ old.at = "keep"
    BY <1>1, <1>7 DEF KeepPassword, IInv, At
  <2> DEFINE i == [old EXCEPT !.put = put]
             j == [i EXCEPT !.at = "save"]
  <2>2. i \in Jobs /\ i.want = old.want /\ i.put = put
    BY <1>1, JobUpdates DEF Values
  <2> HIDE DEF i
  <2>3. j \in Jobs /\ j.at = "save" /\ j.want = old.want /\ j.put = put
    BY <2>2, JobUpdates DEF Places
  <2>4. job' = [job EXCEPT ![a] = j]
    BY <2>1 DEF i
  <2> HIDE DEF j
  <2>5. JobInv(j) /\ Fresh(j, files) /\ ~InWrite(j)
    BY <1>1, <2>1, <2>3, ProfileAssumption DEF JobInv, Fresh, InWrite, Stored, Profile
  <2>6. QED  BY <1>1, <2>3, <2>4, <2>5, StepInv
<1>8. QED  BY <1>4, <1>5, <1>6, <1>7
\* Taking the lock shuts out the requests; another process that writes is noticed.
LEMMA LockAlone ==
  ASSUME IInv, NEW a \in Actors, CanRead(a), LockToWrite(a)
  PROVE  /\ files' = files /\ requests' = requests /\ mixed' \in BOOLEAN /\ (mixed => mixed')
         /\ ~mixed' => \A b \in Actors : ~InWrite(job[b])
<1>1. mixed' = (mixed \/ Mixes(a)) /\ files' = files /\ requests' = requests /\ mixed \in BOOLEAN
  BY DEF LockToWrite, IInv
<1>2. Mixes(a) \in BOOLEAN
  BY DEF Mixes
<1>3. ASSUME ~Mixes(a), NEW b \in Actors PROVE ~InWrite(job[b])
  <2>1. CASE b \in Peers(a)
    BY <2>1 DEF CanRead, Writing, InWrite, At
  <2>2. CASE b \notin Peers(a)
    BY <2>2, <1>3 DEF Mixes, Writing, InWrite, At
  <2>3. QED  BY <2>1, <2>2
<1>4. mixed' \in BOOLEAN /\ (mixed => mixed') /\ (~mixed' => ~Mixes(a))
  BY <1>1, <1>2
<1>5. QED  BY <1>1, <1>3, <1>4

\* SaveLocal and SaveSSH up to the replacement of the file.
LEMMA SaveInv ==
  ASSUME IInv, NEW a \in Actors, SaveBegins(a) \/ SaveLoads(a) \/ SaveFails(a)
  PROVE  IInv'
<1> DEFINE old == job[a]
<1>1. /\ old \in Jobs /\ JobInv(old) /\ files \in Files /\ requests \in 0..MaxRequests
      /\ mixed \in BOOLEAN
  BY DEF IInv
<1>2. CASE SaveBegins(a)
  <2>1. CanRead(a) /\ LockToWrite(a) /\ SearchOther(a) /\ old.at = "save"
    BY <1>2 DEF SaveBegins, CanWrite, At
  <2>2. CASE Ends(a)
    BY <2>1, <2>2, LockAlone, EndsInv
  <2>3. CASE Goto(a, "load") /\ files[Other(Op(a))][Name(a)] = "none"
    BY <2>1, <2>3, <1>1, LockAlone, GotoInv DEF Places, JobInv, Fresh, Op, Name
  <2>4. QED  BY <2>1, <2>2, <2>3 DEF SearchOther
<1>3. CASE SaveFails(a)
  BY <1>1, <1>3, EndsInv DEF SaveFails, Stays
<1>4. CASE SaveLoads(a)
  <2>1. /\ job' = [job EXCEPT ![a].seen = files[old.want.op], ![a].at = "write"]
        /\ old.at = "load" /\ files' = files /\ mixed' = mixed /\ requests' = requests
    BY <1>4 DEF SaveLoads, Stays, At, Op
  <2>2. old.want.op \in {"local", "ssh"} /\ old.put \in Stored(old.want.op) \ {"none"}
    BY <1>1, <2>1 DEF JobInv
  <2>3. files[old.want.op] \in [Names -> Stored(old.want.op)] /\ files[old.want.op] \in Cells
    BY <1>1, <2>2, FileType DEF Stored, Cells, Profile
  <2> DEFINE i == [old EXCEPT !.seen = files[old.want.op]]
             j == [i EXCEPT !.at = "write"]
  <2>4. i \in Jobs /\ i.want = old.want /\ i.put = old.put /\ i.seen = files[old.want.op]
    BY <1>1, <2>3, JobUpdates
  <2> HIDE DEF i
  <2>5. j \in Jobs /\ j.at = "write" /\ j.want = old.want /\ j.put = old.put
        /\ j.seen = files[old.want.op]
    BY <2>4, JobUpdates DEF Places
  <2>6. job' = [job EXCEPT ![a] = j]
    BY <2>1 DEF i, IInv
  <2> HIDE DEF j
  <2>7. JobInv(j)
    BY <2>2, <2>3, <2>5 DEF JobInv
  <2>8. ~mixed => Fresh(old, files)
    BY DEF IInv
  <2>9. ~mixed => Fresh(j, files)
    BY <2>1, <2>5, <2>8 DEF Fresh
  <2>10. InWrite(old)
    BY <2>1 DEF InWrite
  <2>11. QED  BY <1>1, <2>1, <2>5, <2>6, <2>7, <2>9, <2>10, StepInv
<1>5. QED  BY <1>2, <1>3, <1>4

\* Delete up to the replacement of the file.
LEMMA DeleteInv ==
  ASSUME IInv, NEW a \in Actors, DeleteBegins(a) \/ DeleteLoads(a)
  PROVE  IInv'
<1> DEFINE old == job[a]
<1>1. /\ old \in Jobs /\ JobInv(old) /\ files \in Files /\ requests \in 0..MaxRequests
      /\ mixed \in BOOLEAN
  BY DEF IInv
<1>2. /\ files' = files /\ requests' = requests /\ mixed' \in BOOLEAN /\ (mixed => mixed')
      /\ ~mixed' => InWrite(old) \/ \A b \in Actors : ~InWrite(job[b])
  BY <1>1, LockAlone DEF DeleteBegins, DeleteLoads, CanWrite, Stays, InWrite, At
<1>3. CASE Ends(a)
  BY <1>2, <1>3, EndsInv
<1>4. CASE Goto(a, "unload")
  BY <1>2, <1>4, GotoInv DEF Places, JobInv, Fresh
<1>5. ASSUME NEW which \in {"local", "ssh"},
             job' = [job EXCEPT ![a].seen = files[which], ![a].put = which, ![a].at = "remove"]
      PROVE  IInv'
  <2>1. files[which] \in [Names -> Stored(which)] /\ files[which] \in Cells
    BY <1>1, FileType DEF Stored, Cells, Profile
  <2> DEFINE h == [old EXCEPT !.seen = files[which]]
             i == [h EXCEPT !.put = which]
             j == [i EXCEPT !.at = "remove"]
  <2>2. h \in Jobs /\ h.want = old.want /\ h.seen = files[which]
    BY <1>1, <2>1, JobUpdates
  <2> HIDE DEF h
  <2>3. i \in Jobs /\ i.want = old.want /\ i.seen = files[which] /\ i.put = which
    BY <2>2, JobUpdates DEF Values
  <2> HIDE DEF i
  <2>4. j \in Jobs /\ j.at = "remove" /\ j.want = old.want /\ j.seen = files[which] /\ j.put = which
    BY <2>3, JobUpdates DEF Places
  <2>5. job' = [job EXCEPT ![a] = j]
    BY <1>5 DEF h, i, IInv
  <2> HIDE DEF j
  <2>6. JobInv(j) /\ Fresh(j, files)
    BY <2>1, <2>4 DEF JobInv, Fresh
  <2>7. requests' \in 0..MaxRequests
    BY <1>1, <1>2
  <2>8. QED  BY <1>2, <2>4, <2>5, <2>6, <2>7, StepInv
<1>6. \/ Ends(a) \/ Goto(a, "unload")
      \/ \E which \in {"local", "ssh"} :
           job' = [job EXCEPT ![a].seen = files[which], ![a].put = which, ![a].at = "remove"]
  BY <1>1, FileType DEF DeleteBegins, DeleteLoads
<1>7. QED  BY <1>3, <1>4, <1>5, <1>6
\* ListAll, and the start of a session, write nothing.
LEMMA ReadInv ==
  ASSUME IInv, NEW a \in Actors, ListLocal(a) \/ ListSSH(a) \/ StartChecks(a) \/ StartLoads(a)
  PROVE  IInv'
<1> DEFINE old == job[a]
<1>1. /\ old \in Jobs /\ files \in Files /\ requests \in 0..MaxRequests /\ mixed \in BOOLEAN
      /\ files' = files /\ requests' = requests /\ mixed' = mixed
  BY DEF IInv, ListLocal, ListSSH, StartChecks, StartLoads, Stays
<1>2. CASE Ends(a)
  BY <1>1, <1>2, EndsInv
<1>3. CASE Goto(a, "start")
  BY <1>1, <1>3, GotoInv DEF Places, JobInv, Fresh, InWrite
<1>4. CASE job' = [job EXCEPT ![a].seen = files.local, ![a].at = "listed"]
  <2>1. files.local \in Cells
    BY <1>1, FileType DEF Cells, Profile
  <2> DEFINE i == [old EXCEPT !.seen = files.local]
             j == [i EXCEPT !.at = "listed"]
  <2>2. i \in Jobs
    BY <1>1, <2>1, JobUpdates
  <2> HIDE DEF i
  <2>3. j \in Jobs /\ j.at = "listed"
    BY <2>2, JobUpdates DEF Places
  <2>4. job' = [job EXCEPT ![a] = j]
    BY <1>4 DEF i, IInv
  <2> HIDE DEF j
  <2>5. JobInv(j) /\ Fresh(j, files) /\ ~InWrite(j)
    BY <2>3 DEF JobInv, Fresh, InWrite
  <2>6. QED  BY <1>1, <2>3, <2>4, <2>5, StepInv
<1>5. QED
  BY <1>2, <1>3, <1>4 DEF ListLocal, ListSSH, StartChecks, StartLoads

\* The file a replaces, and what becomes of the jobs.
LEMMA ReplaceFacts ==
  ASSUME IInv, NEW a \in Actors, NEW which \in {"local", "ssh"}, NEW map \in [Names -> Stored(which)],
         Replace(a, which, map)
  PROVE  /\ files' \in Files /\ files'[which] = map /\ files'[Other(which)] = files[Other(which)]
         /\ mixed' = mixed /\ requests' = requests
         /\ job' \in [Actors -> Jobs] /\ job'[a] = NoJob
         /\ \A b \in Actors : /\ job'[b].at = "idle" \/ job'[b].at = job[b].at
                              /\ InWrite(job'[b]) => InWrite(job[b]) /\ b # a
                              /\ JobInv(job'[b])
<1>1. files' = [files EXCEPT ![which] = map] /\ files \in Files
  BY DEF Replace, IInv
<1>2. files' \in Files /\ files'[which] = map /\ files'[Other(which)] = files[Other(which)]
  BY <1>1 DEF Files, Stored, Other
<1>3. /\ job' \in [Actors -> Jobs] /\ job'[a] = NoJob
      /\ \A b \in Actors : \/ job'[b] = NoJob
                           \/ /\ b # a /\ job'[b].at = job[b].at /\ job'[b].want = job[b].want
                              /\ job'[b].put = job[b].put /\ job'[b].seen = job[b].seen
  <2> DEFINE touched(b) == job[b].touched \/ files[which][Name(b)] # map[Name(b)]
             new(b)     == [job[b] EXCEPT !.touched = touched(b)]
  <2>1. \A b \in Actors : touched(b) \in BOOLEAN
    OBVIOUS
  <2>2. job' = [b \in Actors |-> IF b = a \/ At(b) = "idle" THEN NoJob ELSE new(b)]
    BY DEF Replace
  <2>3. \A b \in Actors : job[b] \in Jobs
    BY DEF IInv
  <2> HIDE DEF touched
  <2>4. \A b \in Actors : /\ new(b) \in Jobs /\ new(b).at = job[b].at /\ new(b).want = job[b].want
                          /\ new(b).put = job[b].put /\ new(b).seen = job[b].seen
    BY <2>1, <2>3, JobUpdates
  <2> HIDE DEF new
  <2>5. QED  BY <2>2, <2>4, IdleJob
<1>4. \A b \in Actors : job'[b].at = "idle" \/ job'[b].at = job[b].at
  BY <1>3, IdleJob
<1>5. \A b \in Actors : InWrite(job'[b]) => InWrite(job[b]) /\ b # a
  BY <1>3, IdleJob DEF InWrite
<1>6. \A b \in Actors : JobInv(job'[b])
  BY <1>3, IdleJob DEF IInv, JobInv
<1>7. mixed' = mixed /\ requests' = requests
  BY DEF Replace
<1>8. QED  BY <1>2, <1>3, <1>4, <1>5, <1>6, <1>7

\* What a save or a deletion makes of the file: it changes the entry of one name.
LEMMA WriteFacts ==
  ASSUME IInv, NEW a \in Actors, SaveWrites(a) \/ DeleteWrites(a)
  PROVE  \E which \in {"local", "ssh"} : \E map \in [Names -> Stored(which)] :
           /\ Replace(a, which, map) /\ InWrite(job[a])
           /\ ~mixed => /\ \A n \in Names \ {Name(a)} : map[n] = files[which][n]
                        /\ map[Name(a)] = "none" \/ files[Other(which)][Name(a)] = "none"
<1> DEFINE old == job[a]
<1>1. /\ old \in Jobs /\ JobInv(old) /\ old.want.name \in Names
      /\ (~mixed => Fresh(old, files))
  BY DEF IInv, Jobs, Wants
<1>2. CASE SaveWrites(a)
  <2>1. old.at = "write" /\ Replace(a, old.want.op, [old.seen EXCEPT ![old.want.name] = old.put])
    BY <1>2 DEF SaveWrites, At, Op, Name
  <2>2. /\ old.want.op \in {"local", "ssh"} /\ old.put \in Stored(old.want.op)
        /\ old.seen \in [Names -> Stored(old.want.op)]
    BY <1>1, <2>1 DEF JobInv
  <2>3. ~mixed => old.seen = files[old.want.op] /\ files[Other(old.want.op)][old.want.name] = "none"
    BY <1>1, <2>1 DEF Fresh
  <2> DEFINE map == [old.seen EXCEPT ![old.want.name] = old.put]
  <2>4. map \in [Names -> Stored(old.want.op)]
        /\ \A n \in Names \ {old.want.name} : map[n] = old.seen[n]
    BY <2>2
  <2>5. InWrite(old)
    BY <2>1 DEF InWrite
  <2>6. Replace(a, old.want.op, map)
    BY <2>1
  <2> HIDE DEF map
  <2>7. QED  BY <2>2, <2>3, <2>4, <2>5, <2>6 DEF Name
<1>3. CASE DeleteWrites(a)
  <2>1. old.at = "remove" /\ Replace(a, old.put, [old.seen EXCEPT ![old.want.name] = "none"])
    BY <1>3 DEF DeleteWrites, At, Name
  <2>2. old.put \in {"local", "ssh"} /\ old.seen \in [Names -> Stored(old.put)]
    BY <1>1, <2>1 DEF JobInv
  <2>3. ~mixed => old.seen = files[old.put]
    BY <1>1, <2>1 DEF Fresh
  <2> DEFINE map == [old.seen EXCEPT ![old.want.name] = "none"]
  <2>4. /\ map \in [Names -> Stored(old.put)] /\ map[old.want.name] = "none"
        /\ \A n \in Names \ {old.want.name} : map[n] = old.seen[n]
    BY <1>1, <2>2 DEF Stored, Profile
  <2>5. InWrite(old)
    BY <2>1 DEF InWrite
  <2>6. Replace(a, old.put, map)
    BY <2>1
  <2> HIDE DEF map
  <2>7. QED  BY <2>2, <2>3, <2>4, <2>5, <2>6 DEF Name
<1>4. QED  BY <1>2, <1>3
\* The replacement of a file keeps names unique: who writes is alone, and has found the
\* name in no other file.
LEMMA WriteInv ==
  ASSUME IInv, NEW a \in Actors, SaveWrites(a) \/ DeleteWrites(a)
  PROVE  IInv'
<1>1. PICK which \in {"local", "ssh"}, map \in [Names -> Stored("local")] \cup [Names -> Stored("ssh")] :
        /\ map \in [Names -> Stored(which)] /\ Replace(a, which, map) /\ InWrite(job[a])
        /\ ~mixed => /\ \A n \in Names \ {Name(a)} : map[n] = files[which][n]
                     /\ map[Name(a)] = "none" \/ files[Other(which)][Name(a)] = "none"
  BY WriteFacts
<1>2. /\ files' \in Files /\ files'[which] = map /\ files'[Other(which)] = files[Other(which)]
      /\ mixed' = mixed /\ requests' = requests /\ job' \in [Actors -> Jobs]
      /\ \A b \in Actors : /\ InWrite(job'[b]) => InWrite(job[b]) /\ b # a
                           /\ JobInv(job'[b])
  BY <1>1, ReplaceFacts
<1>3. ASSUME ~mixed PROVE Alone' /\ (\A b \in Actors : Fresh(job'[b], files')) /\ Unique(files')
  <2>1. \A b \in Actors : ~InWrite(job'[b])
    BY <1>1, <1>2, <1>3 DEF IInv, Alone
  <2>2. Alone' /\ \A b \in Actors : Fresh(job'[b], files')
    BY <2>1 DEF Alone, Fresh, InWrite
  <2>3. Unique(files)
    BY <1>3 DEF IInv
  <2>4. \A n \in Names : files'[which][n] = "none" \/ files'[Other(which)][n] = "none"
    <3>1. \A n \in Names : files[which][n] = "none" \/ files[Other(which)][n] = "none"
      BY <2>3, FileType DEF Unique, Other, IInv
    <3>2. QED  BY <3>1, <1>1, <1>2, <1>3
  <2>5. Unique(files')
    BY <2>4, <1>2, FileType DEF Unique, Other
  <2>6. QED  BY <2>2, <2>5
<1>4. QED  BY <1>2, <1>3 DEF IInv

\* Every step keeps the invariant.
LEMMA NextInv == IInv /\ [Next]_vars => IInv'
<1> SUFFICES ASSUME IInv, [Next]_vars PROVE IInv'
  OBVIOUS
<1>1. ASSUME NEW a \in Actors, Step(a) PROVE IInv'
  BY <1>1, FindInv, SaveInv, WriteInv, DeleteInv, ReadInv DEF Step
<1>2. ASSUME NEW a \in Actors, NEW w \in Wants, RequestBegins(a, w) \/ CommandBegins(a, w)
      PROVE  IInv'
  BY <1>2, BeginInv
<1>3. CASE UNCHANGED vars
  BY <1>3 DEF vars, IInv, Alone
<1>4. QED  BY <1>1, <1>2, <1>3 DEF Next, Idle

\* The lock admits one writer, who has the file as it is, and names are unique across
\* both files, in every state before two processes write at once (store.go:133-264).
THEOREM StoreInvariant == Spec => []IInv
BY InitInv, NextInv, PTL DEF Spec

\* Every variable has the shape the code gives it.
THEOREM TypeCorrect == Spec => []TypeOK
<1>1. IInv => TypeOK
  BY DEF IInv, TypeOK, Jobs, Places, Values, Cells
<1>2. QED  BY <1>1, StoreInvariant, PTL

\* "Names are unique across both types", however many requests run at once, as long as
\* no two processes save at the same time (store.go:20-21).
THEOREM UniqueNames == Spec => []NamesAreUnique
<1>1. IInv => NamesAreUnique
  BY DEF IInv, NamesAreUnique
<1>2. QED  BY <1>1, StoreInvariant, PTL

\* Only the actor whose save or deletion it is goes from there to idle.
LEMMA OnlyOneEnds ==
  ASSUME IInv, Next, NEW a \in Actors, At(a) \in {"write", "remove"}, At(a)' = "idle", files' # files
  PROVE  SaveWrites(a) \/ DeleteWrites(a)
<1>1. PICK b \in Actors : SaveWrites(b) \/ DeleteWrites(b)
  <2>1. ASSUME NEW b \in Actors, NEW w \in Wants, RequestBegins(b, w) \/ CommandBegins(b, w)
        PROVE  FALSE
    BY <2>1 DEF RequestBegins, CommandBegins, Begins
  <2>2. ASSUME NEW b \in Actors, Step(b), ~(SaveWrites(b) \/ DeleteWrites(b)) PROVE FALSE
    BY <2>2 DEF Step, FindLocal, FindSSH, KeepPassword, SaveBegins, SaveLoads, SaveFails, LockToWrite,
       DeleteBegins, DeleteLoads, ListLocal, ListSSH, StartChecks, StartLoads, Stays
  <2>3. ~Idle
    BY DEF Idle, vars
  <2>4. QED  BY <2>1, <2>2, <2>3 DEF Next
<1>2. CASE b # a
  <2>1. PICK which \in {"local", "ssh"}, map \in [Names -> Stored("local")] \cup [Names -> Stored("ssh")] :
          Replace(b, which, map)
    BY <1>1, WriteFacts
  <2>2. job[a] \in Jobs /\ job[a].at # "idle"
    BY DEF IInv, At
  <2>3. job'[a] = [job[a] EXCEPT !.touched = @ \/ files[which][Name(a)] # map[Name(a)]]
    BY <1>2, <2>1, <2>2 DEF Replace, At
  <2>4. job'[a].at = job[a].at
    BY <2>2, <2>3 DEF Jobs
  <2>5. QED  BY <2>2, <2>4 DEF At
<1>3. QED  BY <1>1, <1>2

\* A save or deletion of one config leaves every other as it is, unless a second process
\* writes at that time (store.go:143-157, 172-186, 233-264).
THEOREM NoUpdateLost == Spec => OthersAreKept
<1> DEFINE Kept == mixed \/ \A a \in Actors : At(a) \in {"write", "remove"} /\ At(a)' = "idle" =>
                     \A n \in Names \ {Name(a)} :
                       files'.local[n] = files.local[n] /\ files'.ssh[n] = files.ssh[n]
<1>1. ASSUME IInv, Next PROVE Kept
  <2>1. SUFFICES ASSUME ~mixed, NEW a \in Actors, At(a) \in {"write", "remove"}, At(a)' = "idle",
                        files' # files, NEW n \in Names \ {Name(a)}
                 PROVE  files'.local[n] = files.local[n] /\ files'.ssh[n] = files.ssh[n]
    OBVIOUS
  <2>2. PICK which \in {"local", "ssh"}, map \in [Names -> Stored("local")] \cup [Names -> Stored("ssh")] :
          /\ map \in [Names -> Stored(which)] /\ Replace(a, which, map)
          /\ map[n] = files[which][n]
    BY <1>1, <2>1, OnlyOneEnds, WriteFacts
  <2>3. files'[which] = map /\ files'[Other(which)] = files[Other(which)] /\ files' \in Files
    BY <1>1, <2>2, ReplaceFacts
  <2>4. files \in Files
    BY <1>1 DEF IInv
  <2>5. QED  BY <2>2, <2>3, <2>4, FileType DEF Other
<1>2. IInv /\ [Next]_vars => [Kept]_vars
  BY <1>1
<1>3. QED  BY <1>2, StoreInvariant, PTL DEF Spec, OthersAreKept

-----------------------------------------------------------------------------
(* The password a profile keeps.                                           *)

\* What an untouched job will store of its profile is what the API promises.
Keeps(j, f) == j.want.op = "ssh" /\ ~j.touched =>
  /\ j.at = "keep" => j.want.value = "keep" /\ (~j.exists => f.ssh[j.want.name] = "none")
  /\ j.at \in {"save", "load", "write"} => j.put = Promised(f.ssh[j.want.name], j.want.value)

KeepInv == \A a \in Actors : Keeps(job[a], files)

\* Steps of one actor that leave the files.
LEMMA KeepStep ==
  ASSUME IInv, KeepInv, NEW a \in Actors, NEW j, job' = [job EXCEPT ![a] = j], files' = files,
         Keeps(j, files)
  PROVE  KeepInv'
<1>1. \A b \in Actors : job'[b] = IF b = a THEN j ELSE job[b]
  BY DEF IInv
<1>2. QED  BY <1>1 DEF KeepInv

\* An actor that is done promises nothing.
LEMMA KeepEnds ==
  ASSUME IInv, KeepInv, NEW a \in Actors, Ends(a), files' = files
  PROVE  KeepInv'
<1>1. Keeps(NoJob, files)
  BY IdleJob DEF Keeps
<1>2. QED  BY <1>1, KeepStep DEF Ends

\* Going on to a place where nothing more is promised.
LEMMA KeepGoto ==
  ASSUME IInv, KeepInv, NEW a \in Actors, NEW where \in Places, Goto(a, where), files' = files,
         \/ where \notin {"keep", "save", "load", "write"}
         \/ Op(a) # "ssh"
         \/ where \in {"save", "load", "write"} /\ At(a) \in {"save", "load", "write"}
  PROVE  KeepInv'
<1>1. job[a] \in Jobs
  BY DEF IInv
<1>2. PICK j : j = [job[a] EXCEPT !.at = where]
  OBVIOUS
<1>3. /\ j.at = where /\ j.want = job[a].want /\ j.put = job[a].put /\ j.touched = job[a].touched
  BY <1>1, <1>2 DEF Jobs
<1>4. Keeps(j, files)
  BY <1>3 DEF KeepInv, Keeps, Op, At
<1>5. job' = [job EXCEPT ![a] = j]
  BY <1>2 DEF Goto
<1>6. QED  BY <1>4, <1>5, KeepStep

\* A request or a command begins; a command does not ask to keep a password.
LEMMA KeepBegins ==
  ASSUME IInv, KeepInv, NEW a \in Actors, NEW w \in Wants, RequestBegins(a, w) \/ CommandBegins(a, w)
  PROVE  KeepInv'
<1>1. PICK where : /\ Begins(a, where, w) /\ where # "keep"
                   /\ where \in {"save", "load", "write"} => w.value # "keep"
  <2>1. w.op \in {"local", "ssh", "delete", "list", "start"}
    BY DEF Wants
  <2>2. QED  BY <2>1 DEF RequestBegins, CommandBegins
<1>2. PICK j : j = NewJob(where, w)
  OBVIOUS
<1>3. j.at = where /\ j.want = w /\ j.put = w.value
  BY <1>2 DEF NewJob
<1>4. Keeps(j, files)
  BY <1>1, <1>3 DEF Keeps, Promised
<1>5. QED  BY <1>1, <1>2, <1>4, KeepStep DEF Begins

\* The password is taken from what is stored.
LEMMA KeepFinds ==
  ASSUME IInv, KeepInv, NEW a \in Actors, FindLocal(a) \/ FindSSH(a) \/ KeepPassword(a)
  PROVE  KeepInv'
<1>1. /\ job[a] \in Jobs /\ JobInv(job[a]) /\ files' = files /\ files \in Files
  BY DEF FindLocal, FindSSH, KeepPassword, Stays, IInv
<1>2. CASE Ends(a)
  BY <1>1, <1>2, KeepEnds
<1>3. CASE FindLocal(a) /\ ~Ends(a)
  <2>1. Goto(a, "findssh") \/ (Op(a) = "local" /\ Goto(a, "save"))
    BY <1>3 DEF FindLocal
  <2>2. QED  BY <1>1, <2>1, KeepGoto DEF Places
<1>4. CASE FindSSH(a) /\ ~Ends(a)
  <2>1. PICK found \in BOOLEAN : found <=> files.ssh[job[a].want.name] # "none"
    OBVIOUS
  <2>2. PICK where : where = IF job[a].want.value = "keep" THEN "keep" ELSE "save"
    OBVIOUS
  <2>3. job' = [job EXCEPT ![a].exists = found, ![a].at = where] /\ job[a].at = "findssh"
    <3>1. job' = [job EXCEPT ![a].exists = (files.ssh[job[a].want.name] # "none"), ![a].at = where]
      BY <1>4, <2>2, Zenon DEF FindSSH, Asked, Name
    <3>2. (files.ssh[job[a].want.name] # "none") = found
      BY <2>1
    <3>3. QED  BY <1>4, <3>1, <3>2 DEF FindSSH, At
  <2>4. PICK i : i = [job[a] EXCEPT !.exists = found]
    OBVIOUS
  <2>5. PICK j : j = [i EXCEPT !.at = where]
    OBVIOUS
  <2>6. job' = [job EXCEPT ![a] = j]
    BY <2>3, <2>4, <2>5 DEF IInv
  <2>7. /\ j.at = where /\ j.want = job[a].want /\ j.put = job[a].put /\ j.exists = found
    BY <1>1, <2>4, <2>5 DEF Jobs
  <2>8. job[a].put = job[a].want.value
    BY <1>1, <2>3 DEF JobInv
  <2>9. Keeps(j, files)
    BY <2>1, <2>2, <2>7, <2>8 DEF Keeps, Promised
  <2>10. QED  BY <1>1, <2>6, <2>9, KeepStep
<1>5. CASE KeepPassword(a) /\ ~Ends(a)
  <2>1. PICK previous : previous = IF job[a].exists THEN files.ssh[job[a].want.name] ELSE "ask"
    OBVIOUS
  <2>2. PICK put : put = IF previous \in Secrets THEN previous ELSE "ask"
    OBVIOUS
  <2>3. job' = [job EXCEPT ![a].put = put, ![a].at = "save"] /\ job[a].at = "keep"
    BY <1>5, <2>1, <2>2 DEF KeepPassword, Name, At
  <2>4. PICK i : i = [job[a] EXCEPT !.put = put]
    OBVIOUS
  <2>5. PICK j : j = [i EXCEPT !.at = "save"]
    OBVIOUS
  <2>6. job' = [job EXCEPT ![a] = j]
    BY <2>3, <2>4, <2>5 DEF IInv
  <2>7. /\ j.at = "save" /\ j.want = job[a].want /\ j.put = put /\ j.touched = job[a].touched
    BY <1>1, <2>4, <2>5 DEF Jobs
  <2>8. Keeps(j, files)
    <3>1. ASSUME j.want.op = "ssh", ~j.touched
          PROVE  j.put = Promised(files.ssh[j.want.name], j.want.value)
      <4>1. j.want.value = "keep" /\ (~job[a].exists => files.ssh[j.want.name] = "none")
        BY <2>3, <2>7, <3>1 DEF KeepInv, Keeps
      <4>2. "none" \notin Secrets /\ "ask" \notin Secrets
        BY ProfileAssumption
      <4>3. QED  BY <2>1, <2>2, <2>7, <4>1, <4>2 DEF Promised
    <3>2. QED  BY <2>7, <3>1 DEF Keeps
  <2>9. QED  BY <1>1, <2>6, <2>8, KeepStep
<1>6. QED  BY <1>2, <1>3, <1>4, <1>5

\* The file is loaded, a deletion looks for its file, and others read.
LEMMA KeepReads ==
  ASSUME IInv, KeepInv, NEW a \in Actors,
         \/ SaveBegins(a) \/ SaveLoads(a) \/ SaveFails(a) \/ DeleteBegins(a) \/ DeleteLoads(a)
         \/ ListLocal(a) \/ ListSSH(a) \/ StartChecks(a) \/ StartLoads(a)
  PROVE  KeepInv'
<1>1. job[a] \in Jobs /\ files' = files
  BY DEF IInv, SaveBegins, SaveLoads, SaveFails, DeleteBegins, DeleteLoads, ListLocal, ListSSH,
     StartChecks, StartLoads, Stays, LockToWrite
<1>2. CASE Ends(a)
  BY <1>1, <1>2, KeepEnds
<1>3. CASE Goto(a, "unload") \/ Goto(a, "start") \/ (At(a) = "save" /\ Goto(a, "load"))
  BY <1>1, <1>3, KeepGoto DEF Places
<1>4. CASE SaveLoads(a)
  <2>1. PICK j : j = [[job[a] EXCEPT !.seen = files[Op(a)]] EXCEPT !.at = "write"]
    OBVIOUS
  <2>2. job' = [job EXCEPT ![a] = j] /\ job[a].at = "load"
    BY <1>4, <2>1 DEF SaveLoads, IInv, At
  <2>3. /\ j.at = "write" /\ j.want = job[a].want /\ j.put = job[a].put /\ j.touched = job[a].touched
    BY <1>1, <2>1 DEF Jobs
  <2>4. Keeps(j, files)
    BY <2>2, <2>3 DEF KeepInv, Keeps
  <2>5. QED  BY <1>1, <2>2, <2>4, KeepStep
<1>5. ASSUME NEW which \in {"local", "ssh"},
             job' = [job EXCEPT ![a].seen = files[which], ![a].put = which, ![a].at = "remove"]
      PROVE  KeepInv'
  <2>1. PICK j : j = [[[job[a] EXCEPT !.seen = files[which]] EXCEPT !.put = which] EXCEPT !.at = "remove"]
    OBVIOUS
  <2>2. job' = [job EXCEPT ![a] = j]
    BY <1>5, <2>1 DEF IInv
  <2>3. j.at = "remove"
    BY <1>1, <2>1 DEF Jobs
  <2>4. QED  BY <1>1, <2>2, <2>3, KeepStep DEF Keeps
<1>6. CASE job' = [job EXCEPT ![a].seen = files.local, ![a].at = "listed"]
  <2>1. PICK j : j = [[job[a] EXCEPT !.seen = files.local] EXCEPT !.at = "listed"]
    OBVIOUS
  <2>2. job' = [job EXCEPT ![a] = j]
    BY <1>6, <2>1 DEF IInv
  <2>3. j.at = "listed"
    BY <1>1, <2>1 DEF Jobs
  <2>4. QED  BY <1>1, <2>2, <2>3, KeepStep DEF Keeps
<1>7. files \in Files /\ files.local = files["local"] /\ files.ssh = files["ssh"]
  BY FileType DEF IInv
<1>8. QED
  BY <1>2, <1>3, <1>4, <1>5, <1>6, <1>7 DEF SaveBegins, SearchOther, SaveFails, DeleteBegins,
     DeleteLoads, ListLocal, ListSSH, StartChecks, StartLoads

\* Whoever is under way learns that its own config was written.
LEMMA KeepWrites ==
  ASSUME IInv, KeepInv, NEW a \in Actors, SaveWrites(a) \/ DeleteWrites(a)
  PROVE  KeepInv'
<1>1. PICK which \in {"local", "ssh"}, map \in [Names -> Stored("local")] \cup [Names -> Stored("ssh")] :
        map \in [Names -> Stored(which)] /\ Replace(a, which, map)
  BY WriteFacts
<1>2. /\ files' \in Files /\ files'[which] = map /\ files'[Other(which)] = files[Other(which)]
      /\ files \in Files
  BY <1>1, ReplaceFacts DEF IInv
<1>3. ASSUME NEW b \in Actors PROVE Keeps(job'[b], files')
  <2>1. CASE b = a \/ At(b) = "idle"
    <3>1. job'[b] = NoJob
      BY <1>1, <2>1 DEF Replace
    <3>2. QED  BY <3>1, IdleJob DEF Keeps
  <2>2. CASE ~(b = a \/ At(b) = "idle")
    <3>1. PICK t \in BOOLEAN : t <=> (job[b].touched \/ files[which][Name(b)] # map[Name(b)])
      OBVIOUS
    <3>2. job'[b] = [job[b] EXCEPT !.touched = t]
      <4>1. job'[b] = [job[b] EXCEPT !.touched = (job[b].touched \/ files[which][Name(b)] # map[Name(b)])]
        BY <1>1, <2>2, Zenon DEF Replace
      <4>2. (job[b].touched \/ files[which][Name(b)] # map[Name(b)]) = t
        BY <3>1, Zenon
      <4>3. QED  BY <4>1, <4>2
    <3>3. PICK j : j = job'[b]
      OBVIOUS
    <3>4. job[b] \in Jobs /\ Keeps(job[b], files) /\ Name(b) \in Names
      BY DEF IInv, KeepInv, Name, Jobs, Wants
    <3>5. /\ j.at = job[b].at /\ j.want = job[b].want /\ j.put = job[b].put
          /\ j.exists = job[b].exists /\ j.touched = t
      BY <3>2, <3>3, <3>4 DEF Jobs
    <3>6. ~t => ~job[b].touched /\ files'.ssh[Name(b)] = files.ssh[Name(b)]
      BY <1>2, <3>1, FileType DEF Other
    <3>7. Keeps(j, files')
      BY <3>4, <3>5, <3>6 DEF Keeps, Name
    <3>8. QED  BY <3>3, <3>7
  <2>3. QED  BY <2>1, <2>2
<1>4. QED  BY <1>3 DEF KeepInv

\* Every job that nobody has overtaken will store what the API promises.
LEMMA NextKeeps ==
  ASSUME IInv, KeepInv, [Next]_vars
  PROVE  KeepInv'
<1>1. ASSUME NEW a \in Actors, Step(a) PROVE KeepInv'
  BY <1>1, KeepFinds, KeepReads, KeepWrites DEF Step
<1>2. ASSUME NEW a \in Actors, NEW w \in Wants, RequestBegins(a, w) \/ CommandBegins(a, w)
      PROVE  KeepInv'
  BY <1>2, KeepBegins
<1>3. CASE UNCHANGED vars
  BY <1>3 DEF vars, KeepInv
<1>4. QED  BY <1>1, <1>2, <1>3 DEF Next, Idle

LEMMA InitKeeps == Init => KeepInv
BY IdleJob DEF Init, KeepInv, Keeps

\* An update through the API stores the password it was given, forgets it when told to
\* prompt, and keeps the stored one when it was given none, even while other processes
\* write, unless one of them wrote that config meanwhile (handlers.go:431-462).
THEOREM PasswordKept == Spec => PasswordIsKept
<1> DEFINE Kept == \A a \in Requests :
                     /\ At(a) = "write" /\ Op(a) = "ssh" /\ files' # files /\ At(a)' = "idle"
                     /\ ~job[a].touched
                     => files'.ssh[Name(a)] = Promised(files.ssh[Name(a)], Asked(a))
<1>1. ASSUME IInv, KeepInv, Next PROVE Kept
  <2>1. SUFFICES ASSUME NEW a \in Requests, At(a) = "write", Op(a) = "ssh", files' # files,
                        At(a)' = "idle", ~job[a].touched
                 PROVE  files'.ssh[Name(a)] = Promised(files.ssh[Name(a)], Asked(a))
    OBVIOUS
  <2>2. a \in Actors
    BY DEF Actors
  <2>3. SaveWrites(a)
    BY <1>1, <2>1, <2>2, OnlyOneEnds DEF DeleteWrites
  <2>4. Replace(a, "ssh", [job[a].seen EXCEPT ![Name(a)] = job[a].put])
    BY <2>1, <2>3 DEF SaveWrites
  <2>5. job[a] \in Jobs /\ JobInv(job[a]) /\ files \in Files /\ Name(a) \in Names
    BY <1>1, <2>2 DEF IInv, Name, Jobs, Wants
  <2>6. files'.ssh = [job[a].seen EXCEPT ![Name(a)] = job[a].put]
    BY <2>4, <2>5 DEF Replace, Files
  <2>7. job[a].seen \in [Names -> Stored("ssh")]
    BY <2>1, <2>5 DEF JobInv, At, Op
  <2>8. job[a].put = Promised(files.ssh[Name(a)], Asked(a))
    BY <1>1, <2>1, <2>2 DEF KeepInv, Keeps, At, Op, Name, Asked
  <2>9. QED  BY <2>5, <2>6, <2>7, <2>8
<1>2. Init => IInv /\ KeepInv
  BY InitInv, InitKeeps
<1>3. IInv /\ KeepInv /\ [Next]_vars => IInv' /\ KeepInv'
  BY NextInv, NextKeeps
<1>4. IInv /\ KeepInv /\ [Next]_vars => [Kept]_vars
  BY <1>1
<1>5. QED  BY <1>2, <1>3, <1>4, PTL DEF Spec, PasswordIsKept
=============================================================================
