-------------------------- MODULE FileTransferProofs --------------------------
(***************************************************************************)
(* Proofs about FileTransfer, for any number of requests, changes by the   *)
(* shell and failing operations: what an upload replaces, what a download  *)
(* keeps, and where a path that has been let pass leads.                   *)
(***************************************************************************)
EXTENDS FileTransfer, TLAPS

\* Where an upload has its target to lose, and where a path has been let pass (Passed).
Uploading == {"create", "copy", "chmod", "publish", "rename"}
Letting(j) ==
  \/ j.at \in {"readdir", "remove", "create", "copy", "chmod", "publish", "clean", "open", "mkdir"}
  \/ j.at = "look" /\ j.op # "mkdir"

\* Until somebody changes it, the target is as it was looked at, but for the removal
\* that comes before an SFTP rename.
TargetInv(j) ==
  /\ j.at \in Uploading \cup {"clean", "open"} /\ ~j.changed =>
       \/ NodeAt(j.entry) = j.was
       \/ Remote /\ j.at \in {"rename", "clean"} /\ NodeAt(j.entry) = Absent
  /\ j.at = "rename" => Remote

\* What was there when the upload looked may be replaced; what is published is whole.
UploadInv(j) ==
  /\ j.at \in Uploading => j.was.kind = "none" \/ j.flag
  /\ j.at \in {"chmod", "publish", "rename"} => j.temp = "whole"
  /\ j.at \in {"copy", "chmod", "publish", "rename", "clean"} \/ j.temp # "none" => j.dir # "none"

\* The bytes that come are those of the file that was announced, or it has changed.
DownloadInv(j) ==
  /\ j.at = "stream" => j.changed \/ j.was = File(j.got)
  /\ j.at \in {"keep", "rekeep"} /\ j.got = "part" => j.changed

\* A path that was resolved is an entry's own, or leads to something that is no link.
Settled(j) ==
  \/ j.real \in Protected
  \/ NodeAt(Walk(j.real)).kind \notin {"none", "link"}
  \/ Walk(j.real) = j.real /\ (NodeAt(j.real).kind = "link" => j.op \in {"mkdir", "remove"})

\* As long as nothing on its way changes, a path that was let pass stays out of the data.
WayInv(j) ==
  ~Remote /\ ~j.moved =>
    /\ j.at = "check" \/ Letting(j) => Settled(j)
    /\ Letting(j) => j.real \notin Protected /\ Walk(j.real) \notin Protected
    /\ j.at = "answer" => j.shown \cap Protected = {}

JobInv(j) == TargetInv(j) /\ UploadInv(j) /\ DownloadInv(j) /\ WayInv(j)

\* Links are where the shell makes them, and lead on no further than one more.
TreeInv ==
  /\ \A e \in {"data", "d/f", "data/f"} : fs[e].kind # "link"
  /\ fs["f"].kind = "link" => fs["f"].val = "data/f"
  /\ fs["d"].kind = "link" => fs["d"].val = "data"

IInv == TypeOK /\ TreeInv /\ \A a \in Actors : JobInv(job[a])

-----------------------------------------------------------------------------
(* The tree and its paths.                                                 *)

\* What a node of a kind is.
LEMMA NodeFacts ==
  ASSUME NEW n \in Nodes
  PROVE  /\ n.kind \in {"none", "dir", "special", "file", "link"}
         /\ n.kind = "none" => n = Absent
         /\ n.kind = "file" => n.val \in Content /\ n = File(n.val)
         /\ n.kind = "link" => n.val \in Leads
BY DEF Nodes, Node, Absent, File

\* The nodes a change puts in the tree.
LEMMA NewNodes ==
  /\ Absent \in Nodes /\ Absent.kind = "none"
  /\ Node("dir", "none") \in Nodes /\ Node("dir", "none").kind = "dir"
  /\ Node("special", "none") \in Nodes /\ Node("special", "none").kind = "special"
  /\ \A c \in Content : File(c) \in Nodes /\ File(c).kind = "file" /\ File(c).val = c
  /\ \A e \in Leads : Node("link", e) \in Nodes /\ Node("link", e).kind = "link" /\ Node("link", e).val = e
BY DEF Nodes, Node, Absent, File

\* The files of the tree at the start.
LEMMA InitTree ==
  ASSUME Init
  PROVE  fs \in [Entries -> Nodes] /\ TreeInv
<1>1. PICK f \in {Absent, File("old")}, to \in Leads :
         fs = [e \in Entries |->
                 CASE e \in {"f", "data/f"} -> f
                   [] e = "l" -> Node("link", to)
                   [] e = "d/f" -> IF to = "nowhere" THEN Node("special", "none") ELSE Absent
                   [] OTHER -> Node("dir", "none")]
  BY DEF Init, Leads
<1>2. QED  BY <1>1 DEF Entries, Nodes, Content, Leads, Node, Absent, File, TreeInv

\* The nodes that are found, by name.
LEMMA NodeAtFacts ==
  /\ \A e \in Entries : NodeAt(e) = fs[e]
  /\ NodeAt("home") = Node("dir", "none") /\ NodeAt("nowhere") = Absent
  /\ NodeAt("notdir") = Node("special", "none")
  /\ fs \in [Entries -> Nodes] => \A e \in Spots : NodeAt(e) \in Nodes
<1>1. \A e \in Entries : NodeAt(e) = fs[e]
  BY DEF NodeAt, Entries
<1>2. /\ NodeAt("home") = Node("dir", "none") /\ NodeAt("nowhere") = Absent
      /\ NodeAt("notdir") = Node("special", "none")
  BY DEF NodeAt, Entries
<1>3. QED  BY <1>1, <1>2, NewNodes DEF Spots

\* Where links lead is in the tree, or nowhere.
LEMMA OnceType ==
  ASSUME fs \in [Entries -> Nodes], NEW e \in Spots
  PROVE  Once(e) \in Spots /\ Real(e) \in Spots /\ (NodeAt(e).kind # "link" => Real(e) = e)
<1>1. \A c \in Spots : Once(c) \in Spots
  BY NodeAtFacts, NodeFacts DEF Once, Leads, Spots, Entries
<1>2. QED  BY <1>1 DEF Real, Once

\* What a path leads to is in the tree, or nowhere.
LEMMA WalkType ==
  ASSUME fs \in [Entries -> Nodes], NEW p
  PROVE  /\ Parent(p) \in {"home", "d", "data", "l"}
         /\ Walk(p) \in Spots \cup {p}
         /\ p \in Paths => Walk(p) \in Spots /\ Reaches(p) \in Spots
<1>1. Parent(p) \in {"home", "d", "data", "l"}
  BY Zenon DEF Parent
<1>2. Walk(p) \in {"nowhere", "notdir", "f", "d/f", "data/f", p}
  BY DEF Walk, FileIn
<1>3. p \in Paths => Walk(p) \in Spots
  <2>1. p \in Paths /\ p \notin Spots => p = "l/f"
    BY DEF Paths, Spots, Entries
  <2>2. p = "l/f" => Parent(p) = "l"
    BY DEF Parent
  <2>3. Parent(p) = "l" => Walk(p) \in {"nowhere", "notdir", "f", "d/f", "data/f"}
    BY DEF Walk, FileIn
  <2>4. {"nowhere", "notdir", "f", "d/f", "data/f"} \subseteq Spots
    BY DEF Spots, Entries
  <2>5. QED  BY <1>2, <2>1, <2>2, <2>3, <2>4
<1>4. QED  BY <1>1, <1>2, <1>3, OnceType DEF Reaches, Spots, Entries

\* A path is found where it says, once no link is on the way.
LEMMA WalkHome == \A p \in {"home", "f", "d", "l", "data"} : Walk(p) = p
<1>1. \A p \in {"home", "f", "d", "l", "data"} : Parent(p) = "home"
  BY DEF Parent
<1>2. QED  BY <1>1 DEF Walk

\* An entry that was found is found again under its own name.
LEMMA WalkAgain ==
  ASSUME fs \in [Entries -> Nodes], NEW p \in Paths, Walk(p) \notin {"nowhere", "notdir"}
  PROVE  Walk(Walk(p)) = Walk(p) /\ Walk(p) \in Entries \cup {"home"}
<1> DEFINE dir == Real(Parent(p))
<1>1. CASE Parent(p) = "home"
  <2>1. Walk(p) = p
    BY <1>1 DEF Walk
  <2>2. p \in {"home", "f", "d", "l", "data"}
    BY <1>1 DEF Parent, Paths, Entries
  <2>3. QED  BY <2>1, <2>2 DEF Entries
<1>2. CASE Parent(p) # "home"
  <2>1. IsDir(dir) /\ \/ dir = "home" /\ Walk(p) = "f"
                      \/ dir = "d" /\ Walk(p) = "d/f"
                      \/ dir = "data" /\ Walk(p) = "data/f"
    BY <1>2 DEF Walk, FileIn
  <2>2. IsDir(dir) => Real(dir) = dir /\ NodeAt(dir).kind # "none"
    BY DEF IsDir, Real, Once
  <2>3. dir = "d" => Walk("d/f") = "d/f"
    <3>1. Parent("d/f") = "d"
      BY DEF Parent
    <3>2. QED  BY <2>1, <2>2, <3>1 DEF Walk, FileIn
  <2>4. dir = "data" => Walk("data/f") = "data/f"
    <3>1. Parent("data/f") = "data"
      BY DEF Parent
    <3>2. QED  BY <2>1, <2>2, <3>1 DEF Walk, FileIn
  <2>5. QED  BY <2>1, <2>3, <2>4, WalkHome DEF Entries
<1>3. QED  BY <1>1, <1>2

\* Two links are as long as a way gets, and no directory of the daemon's is one.
LEMMA RealFacts ==
  ASSUME fs \in [Entries -> Nodes], TreeInv, NEW e \in Spots
  PROVE  /\ Real(e) = Once(Once(e)) /\ NodeAt(Real(e)).kind # "link"
         /\ NodeAt(e).kind = "link" => e \in {"f", "d", "l"} /\ Real(e) \in Leads
<1>1. \A c \in {"home", "nowhere", "notdir", "data", "d/f", "data/f"} : NodeAt(c).kind # "link" /\ Once(c) = c
  BY NodeAtFacts, NewNodes DEF TreeInv, Once, Entries
<1>2. \A c \in {"f", "d"} : /\ Once(c) \in {c, "data", "data/f"}
                            /\ Once(c) = c => NodeAt(c).kind # "link"
  BY NodeAtFacts DEF TreeInv, Once, Entries
<1>3. Once("l") \in Leads \cup {"l"} /\ (Once("l") = "l" => NodeAt("l").kind # "link")
  BY NodeAtFacts, NodeFacts DEF Once, Entries, Leads
<1>4. e \in {"home", "nowhere", "notdir", "data", "d/f", "data/f", "f", "d", "l"}
  BY DEF Spots, Entries
<1>5. QED  BY <1>1, <1>2, <1>3, <1>4 DEF Real, Once, Leads

\* What is found under a path stays, as long as nothing on its way is changed.
LEMMA WalkStays ==
  ASSUME fs \in [Entries -> Nodes], TreeInv, NEW e \in Entries, NEW n \in Nodes,
         fs' = [fs EXCEPT ![e] = n], NEW p \in Paths, e \notin Through(p)
  PROVE  Walk(p)' = Walk(p) /\ NodeAt(Walk(p))' = NodeAt(Walk(p))
<1>1. \A c : c # e => NodeAt(c)' = NodeAt(c)
  BY DEF NodeAt
<1>2. PICK x : x = Parent(p)
  OBVIOUS
<1>3. x \in Spots /\ Walk(p) \in Spots
  BY <1>2, WalkType DEF Spots, Entries
<1>4. Real(x) = Once(Once(x))
  BY <1>3, RealFacts
<1>5. x # e /\ Once(x) # e /\ Once(Once(x)) # e /\ Walk(p) # e
  BY <1>2, <1>4 DEF Through
<1>6. Once(x)' = Once(x) /\ Once(Once(x))' = Once(Once(x))
  BY <1>1, <1>5 DEF Once
<1>7. Real(x)' = Real(x)
  BY <1>1, <1>4, <1>5, <1>6 DEF Real, Once
<1>8. NodeAt(Real(x))' = NodeAt(Real(x))
  BY <1>1, <1>4, <1>5, <1>7
<1>9. Walk(p)' = Walk(p)
  BY <1>2, <1>7, <1>8 DEF Walk, IsDir
<1>10. QED  BY <1>1, <1>5, <1>9

-----------------------------------------------------------------------------
(* Steps.                                                                  *)

Counts == [requests : 0..MaxRequests, trouble : 0..MaxTrouble]

\* What the type invariant says, part by part.
LEMMA Types ==
  ASSUME IInv
  PROVE  /\ fs \in [Entries -> Nodes] /\ job \in [Actors -> Jobs] /\ count \in Counts
         /\ litter \subseteq {"home", "d", "data"} /\ mine \in {"none", "part"} \cup Content
         /\ backend \in {"local", "posix", "plain"} /\ up \in BOOLEAN /\ TreeInv
         /\ \A a \in Actors : job[a] \in Jobs /\ JobInv(job[a])
BY DEF IInv, TypeOK, Counts

\* What a job is made of.
LEMMA JobType ==
  ASSUME NEW j \in Jobs
  PROVE  /\ j.at \in Places /\ j.op \in Ops /\ j.path \in Paths /\ j.flag \in BOOLEAN
         /\ j.real \in Paths /\ j.entry \in Entries \cup {"home", "nowhere"} /\ j.was \in Nodes
         /\ j.temp \in {"none", "part", "whole"} /\ j.dir \in {"none", "home", "d", "data"}
         /\ j.got \in {"none", "part"} \cup Content /\ j.shown \subseteq Paths \cup Spots
         /\ j.changed \in BOOLEAN /\ j.moved \in BOOLEAN
BY DEF Jobs

\* A step that leaves the files keeps the invariant, if every job it leaves keeps it.
LEMMA QuietStep ==
  ASSUME IInv, UNCHANGED <<backend, fs>>, up' \in BOOLEAN, count' \in Counts,
         litter' \subseteq {"home", "d", "data"}, mine' \in {"none", "part"} \cup Content,
         job' \in [Actors -> Jobs], \A b \in Actors : JobInv(job'[b])
  PROVE  IInv'
<1>1. (Remote' <=> Remote) /\ \A p : NodeAt(p)' = NodeAt(p)
  BY Zenon DEF Remote, NodeAt
<1>2. \A p : Walk(p)' = Walk(p)
  <2>1. \A p : Once(p)' = Once(p)
    BY <1>1 DEF Once
  <2>2. \A p : Real(p)' = Real(p)
    BY <2>1, Zenon DEF Real
  <2>3. QED  BY <1>1, <2>2 DEF Walk, IsDir
<1>3. \A k : JobInv(k) => JobInv(k)'
  BY <1>1, <1>2 DEF JobInv, TargetInv, UploadInv, DownloadInv, WayInv, Settled
<1>4. \A b \in Actors : JobInv(job[b])'
  BY <1>3
<1>5. TypeOK'
  BY Types DEF TypeOK, Counts
<1>6. TreeInv'
  BY Types DEF TreeInv
<1>7. QED  BY <1>4, <1>5, <1>6 DEF IInv

\* So it is with the step of one request.
LEMMA OwnStep ==
  ASSUME IInv, NEW a \in Actors, NEW j \in Jobs, JobInv(j), job' = [job EXCEPT ![a] = j],
         UNCHANGED <<backend, fs>>, up' \in BOOLEAN, count' \in Counts,
         litter' \subseteq {"home", "d", "data"}, mine' \in {"none", "part"} \cup Content
  PROVE  IInv'
<1>1. job' \in [Actors -> Jobs] /\ \A b \in Actors : job'[b] = IF b = a THEN j ELSE job[b]
  BY Types
<1>2. \A b \in Actors : JobInv(job'[b])
  BY <1>1, Types
<1>3. QED  BY <1>1, <1>2, QuietStep

\* Whoever has looked at the entry that is changed, or goes by it, is marked, and nobody
\* else is concerned.
LEMMA MarkedInv ==
  ASSUME IInv, NEW e \in Entries, NEW n \in Nodes, fs' = [fs EXCEPT ![e] = n], backend' = backend,
         NEW b \in Actors, NEW m, m = Marked(b, e)
  PROVE  m \in Jobs /\ JobInv(m)'
<1> DEFINE k == Marked(b, e)
<1>1. PICK j : j = job[b]
  OBVIOUS
<1>2. j \in Jobs /\ JobInv(j)
  BY <1>1, Types
<1>3. /\ k.at = j.at /\ k.op = j.op /\ k.flag = j.flag /\ k.real = j.real /\ k.entry = j.entry
      /\ k.was = j.was /\ k.temp = j.temp /\ k.dir = j.dir /\ k.got = j.got /\ k.shown = j.shown
      /\ k \in Jobs
  BY <1>1, <1>2 DEF Marked, Jobs
<1>4. k.changed <=> j.changed \/ (j.at # "idle" /\ j.entry = e)
  BY <1>1, <1>2, Zenon DEF Marked, Jobs, At, Entry
<1>5. k.moved <=> j.moved \/ (GoesByPath(b) /\ e \in Through(j.real))
  BY <1>1, <1>2, Zenon DEF Marked, Jobs
<1>6. m = k
  OBVIOUS
<1> HIDE DEF k
<1>7. Remote' <=> Remote
  BY DEF Remote
<1>8. \A c : c # e => NodeAt(c)' = NodeAt(c)
  BY DEF NodeAt
<1>9. TargetInv(m)'
  BY <1>2, <1>3, <1>4, <1>6, <1>7, <1>8 DEF JobInv, TargetInv, Uploading
<1>10. UploadInv(m)' /\ DownloadInv(m)'
  BY <1>2, <1>3, <1>4, <1>6 DEF JobInv, UploadInv, DownloadInv
<1>11. WayInv(m)'
  <2>1. SUFFICES ASSUME ~Remote, ~m.moved
                 PROVE  /\ m.at = "check" \/ Letting(m) => Settled(m)'
                        /\ Letting(m) => m.real \notin Protected /\ Walk(m.real)' \notin Protected
                        /\ m.at = "answer" => m.shown \cap Protected = {}
    BY <1>7 DEF WayInv, Letting, Protected
  <2>2. ~j.moved /\ m.at = j.at /\ m.op = j.op /\ m.real = j.real /\ m.shown = j.shown
    BY <1>3, <1>5, <1>6, <2>1
  <2>3. j.at = "check" \/ Letting(j) => e \notin Through(j.real)
    BY <1>1, <1>5, <1>6, <2>1 DEF GoesByPath, Letting, At
  <2>4. e \notin Through(j.real) =>
          Walk(j.real)' = Walk(j.real) /\ NodeAt(Walk(j.real))' = NodeAt(Walk(j.real))
    BY <1>2, JobType, Types, WalkStays
  <2>5. PICK w, v : w = Walk(j.real) /\ v = NodeAt(Walk(j.real))
    OBVIOUS
  <2>6. j.at = "check" \/ Letting(j) => Settled(m)'
    <3>1. SUFFICES ASSUME j.at = "check" \/ Letting(j) PROVE Settled(m)'
      OBVIOUS
    <3>2. Settled(j)
      BY <1>2, <2>1, <2>2, <3>1 DEF JobInv, WayInv
    <3>3. Walk(m.real)' = w /\ NodeAt(w)' = v
      BY <2>2, <2>3, <2>4, <2>5, <3>1
    <3>4. \/ m.real \in Protected
          \/ v.kind \notin {"none", "link"}
          \/ w = m.real /\ (v.kind = "link" => m.op \in {"mkdir", "remove"})
      BY <2>2, <2>5, <3>2 DEF Settled
    <3>5. QED  BY <3>3, <3>4 DEF Settled, Protected
  <2>7. QED  BY <1>2, <2>1, <2>2, <2>3, <2>4, <2>6 DEF JobInv, WayInv, Letting
<1>12. JobInv(m)'
  BY <1>9, <1>10, <1>11 DEF JobInv
<1>13. QED  BY <1>3, <1>6, <1>12

\* A change of the tree, whoever makes it, keeps what concerns everybody.
LEMMA TreeStep ==
  ASSUME IInv, NEW e \in Entries, NEW n \in Nodes, fs' = [fs EXCEPT ![e] = n],
         n.kind = "link" => e = "l" \/ (e = "f" /\ n.val = "data/f") \/ (e = "d" /\ n.val = "data"),
         UNCHANGED <<backend, up, litter, mine>>, count' \in Counts,
         job' \in [Actors -> Jobs], \A b \in Actors : JobInv(job[b])'
  PROVE  IInv'
<1>1. fs' \in [Entries -> Nodes] /\ \A c \in Entries : fs'[c] = IF c = e THEN n ELSE fs[c]
  BY Types
<1>2. TypeOK'
  BY <1>1, Types DEF TypeOK, Counts
<1>3. TreeInv'
  <2>1. {"data", "d/f", "data/f", "f", "d"} \subseteq Entries
    BY DEF Entries
  <2>2. QED  BY <1>1, <2>1, Types DEF TreeInv
<1>4. QED  BY <1>2, <1>3 DEF IInv

\* A request changes an entry and goes on with a job that fits.
LEMMA ChangeStep ==
  ASSUME IInv, NEW a \in Actors, NEW e \in Entries, NEW n \in Nodes, n.kind # "link",
         NEW j \in Jobs, Change(a, e, n, j), JobInv(j)'
  PROVE  IInv'
<1>1. /\ fs' = [fs EXCEPT ![e] = n] /\ UNCHANGED <<backend, up, litter, mine, count>>
      /\ job' = [b \in Actors |-> IF b = a THEN j ELSE Marked(b, e)]
  BY DEF Change
<1>2. ASSUME NEW b \in Actors, NEW k, k = job'[b]
      PROVE  k \in Jobs /\ JobInv(k)'
  <2>1. k = IF b = a THEN j ELSE Marked(b, e)
    BY <1>1, <1>2
  <2>2. CASE b # a
    BY <1>1, <2>1, <2>2, MarkedInv
  <2>3. QED  BY <2>1, <2>2
<1>3. \A b \in Actors : job'[b] \in Jobs /\ JobInv(job[b])'
  BY <1>2
<1>4. job' \in [Actors -> Jobs]
  BY <1>1, <1>3
<1>5. QED  BY <1>1, <1>3, <1>4, Types, TreeStep

-----------------------------------------------------------------------------
(* The actions.                                                            *)

\* A request that begins has looked at nothing yet, and one that is over has nothing.
LEMMA NewJobInv ==
  ASSUME NEW where \in {"idle", "look", "deny"}, where = "look" => Remote,
         NEW op \in Ops, NEW path \in Paths, NEW flag \in BOOLEAN
  PROVE  NewJob(where, op, path, flag) \in Jobs /\ JobInv(NewJob(where, op, path, flag))
<1> DEFINE j == NewJob(where, op, path, flag)
<1>1. j \in Jobs
  BY NewNodes DEF NewJob, Jobs, Places
<1>2. j.at = where /\ j.temp = "none"
  BY DEF NewJob
<1> HIDE DEF j
<1>3. JobInv(j)
  BY <1>2 DEF JobInv, TargetInv, UploadInv, DownloadInv, WayInv, Letting, Uploading
<1>4. QED  BY <1>1, <1>3 DEF j

LEMMA NoJobInv == NoJob \in Jobs /\ JobInv(NoJob)
<1>1. "list" \in Ops /\ "home" \in Paths
  BY DEF Ops, Paths
<1>2. QED  BY <1>1, NewJobInv DEF NoJob

\* Paths from outside are paths of the tree.
LEMMA InputPaths == Inputs \subseteq Paths
<1>1. \A form \in Forms, x \in Paths : Resolved(form, x) \in Paths \cup {"invalid"}
  BY Zenon DEF Resolved, Paths
<1>2. Asked \subseteq Paths
  BY TransferAssumption DEF Paths, Entries
<1>3. QED  BY <1>1, <1>2 DEF Inputs

\* A fault is counted up to its bound.
LEMMA FaultFacts == IInv /\ (MayFail \/ UNCHANGED count) => count' \in Counts
<1>1. SUFFICES ASSUME IInv, count.trouble < MaxTrouble, count' = [count EXCEPT !.trouble = @ + 1]
               PROVE  count' \in Counts
  BY Types DEF MayFail
<1>2. QED  BY <1>1, Types, TransferAssumption DEF Counts

\* A request begins.
LEMMA BeginInv ==
  ASSUME IInv, NEW a \in Actors, NEW op \in Ops, NEW path \in Inputs, NEW flag \in BOOLEAN,
         RequestBegins(a, op, path, flag) \/ DownloadBegins(a, path, flag)
  PROVE  IInv'
<1>1. PICK o \in Ops, f \in BOOLEAN : Begins(a, o, path, f)
  BY DEF RequestBegins, DownloadBegins, Ops
<1>2. count' \in Counts
  BY <1>1, Types, TransferAssumption DEF Begins, Counts
<1>3. PICK where : where = IF Remote THEN "look" ELSE "deny"
  OBVIOUS
<1>4. NewJob(where, o, path, f) \in Jobs /\ JobInv(NewJob(where, o, path, f))
  BY <1>3, NewJobInv, InputPaths
<1>5. QED  BY <1>1, <1>2, <1>3, <1>4, Types, OwnStep DEF Begins

\* A request is over, and the temporary file of its upload may stay behind.
LEMMA EndInv ==
  ASSUME IInv, NEW a \in Actors, Ends(a), UNCHANGED <<backend, fs, up>>, count' \in Counts,
         litter' \subseteq {"home", "d", "data"}, mine' \in {"none", "part"} \cup Content
  PROVE  IInv'
BY NoJobInv, Types, OwnStep DEF Ends

\* A job that goes on with its path, its target and what it saw of it, and leaves the files.
LEMMA WorkInv ==
  ASSUME IInv, NEW a \in Actors, NEW j \in Jobs, job' = [job EXCEPT ![a] = j],
         UNCHANGED <<backend, fs>>, up' = up, count' \in Counts,
         litter' \subseteq {"home", "d", "data"}, mine' \in {"none", "part"} \cup Content,
         j.op = job[a].op, j.real = job[a].real, j.moved = job[a].moved, j.entry = job[a].entry,
         j.was = job[a].was, j.flag = job[a].flag, job[a].changed => j.changed,
         j.at \notin {"rename", "open", "create", "check", "answer"},
         Letting(j) => Letting(job[a]),
         j.at \in Uploading \cup {"clean"} => job[a].at \in Uploading,
         j.at \in Uploading => job[a].at # "rename",
         j.at \in {"chmod", "publish"} => j.temp = "whole",
         j.at \in Uploading \cup {"clean"} \/ j.temp # "none" => j.dir # "none",
         j.at = "stream" => j.changed \/ j.was = File(j.got),
         j.at \in {"keep", "rekeep"} /\ j.got = "part" => j.changed
  PROVE  IInv'
<1>1. PICK i : i = job[a]
  OBVIOUS
<1>2. i \in Jobs /\ JobInv(i)
  BY <1>1, Types
<1>3. TargetInv(j)
  BY <1>1, <1>2 DEF JobInv, TargetInv, Uploading
<1>4. UploadInv(j) /\ DownloadInv(j)
  BY <1>1, <1>2 DEF JobInv, UploadInv, DownloadInv, Uploading
<1>5. WayInv(j)
  BY <1>1, <1>2 DEF JobInv, WayInv, Settled
<1>6. QED  BY <1>3, <1>4, <1>5, Types, OwnStep DEF JobInv

-----------------------------------------------------------------------------
(* Paths are resolved and checked.                                         *)

\* What is found under a path and where it leads is in the tree, or nowhere.
LEMMA FoundType ==
  ASSUME fs \in [Entries -> Nodes], NEW p \in Paths \cup Spots
  PROVE  Walk(p) \in Spots /\ Reaches(p) \in Spots
<1>1. Walk(p) \in Spots
  BY WalkType
<1>2. QED  BY <1>1, OnceType DEF Reaches

\* A path as the daemon resolves it leads where it says, until something changes.
LEMMA RealPathFacts ==
  ASSUME fs \in [Entries -> Nodes], TreeInv, NEW op \in Ops, NEW p \in Paths,
         NEW real, real = RealPath(op, p), Walk(p) \notin {"nowhere", "notdir"},
         NodeAt(Walk(p)).kind = "link" => NodeAt(real).kind # "none"
  PROVE  /\ real \in Paths
         /\ \/ real \in Protected
            \/ NodeAt(Walk(real)).kind \notin {"none", "link"}
            \/ Walk(real) = real /\ (NodeAt(real).kind = "link" => op \in {"mkdir", "remove"})
<1>1. Walk(Walk(p)) = Walk(p) /\ Walk(p) \in Entries \cup {"home"}
  BY WalkAgain
<1>2. CASE op \in {"mkdir", "remove"} \/ NodeAt(Walk(p)).kind = "none"
  <2>1. real = Walk(p)
    BY <1>2 DEF RealPath
  <2>2. QED  BY <1>1, <1>2, <2>1 DEF Paths
<1>3. CASE op \notin {"mkdir", "remove"} /\ NodeAt(Walk(p)).kind = "link"
  <2>1. real = Reaches(p) /\ NodeAt(real).kind # "none"
    BY <1>3 DEF RealPath
  <2>2. Walk(p) \in Spots
    BY <1>1 DEF Spots
  <2>3. real \in Leads /\ NodeAt(real).kind # "link"
    BY <1>3, <2>1, <2>2, RealFacts DEF Reaches
  <2>4. real # "nowhere"
    BY <2>1, NodeAtFacts, NewNodes
  <2>5. real \in Protected \/ Walk(real) = real
    BY <2>3, <2>4, WalkHome DEF Leads, Protected
  <2>6. QED  BY <2>1, <2>3, <2>4, <2>5 DEF Leads, Paths, Entries
<1>4. CASE op \notin {"mkdir", "remove"} /\ NodeAt(Walk(p)).kind \notin {"none", "link"}
  BY <1>4 DEF RealPath
<1>5. QED  BY <1>2, <1>3, <1>4

\* What is looked at under a path that was let pass is not the daemon's own.
LEMMA LookedFree ==
  ASSUME IInv, NEW a \in Actors, ~Remote, ~job[a].moved, Letting(job[a])
  PROVE  Looked(a) \notin Protected
<1>1. PICK j : j = job[a]
  OBVIOUS
<1>2. j \in Jobs /\ JobInv(j) /\ j.real \in Paths
  BY <1>1, Types, JobType
<1>3. Settled(j) /\ j.real \notin Protected /\ Walk(j.real) \notin Protected
  BY <1>1, <1>2 DEF JobInv, WayInv
<1>4. j.op \in {"list", "read"} => NodeAt(Walk(j.real)).kind # "link"
  BY <1>3 DEF Settled
<1>5. Walk(j.real) \in Spots
  BY <1>2, Types, FoundType
<1>6. j.op \in {"list", "read"} => Reaches(j.real) = Walk(j.real)
  BY <1>4, <1>5, Types, OnceType DEF Reaches
<1>7. QED  BY <1>1, <1>3, <1>6 DEF Looked, Spot

\* A path is denied as it stands, or goes on to be resolved.
LEMMA DenyInv == ASSUME IInv, NEW a \in Actors, Deny(a) PROVE IInv'
<1>1. job[a] \in Jobs /\ job \in [Actors -> Jobs] /\ JobInv(job[a])
  BY Types
<1>2. CASE Ends(a)
  BY <1>2, EndInv, Types DEF Deny, FilesStay
<1>3. CASE ~Ends(a)
  <2>1. PICK j : j = [job[a] EXCEPT !.at = IF job[a].op = "mkdir" THEN "look" ELSE "resolve"]
    OBVIOUS
  <2>2. job' = [job EXCEPT ![a] = j] /\ FilesStay
    BY <1>1, <1>3, <2>1 DEF Deny, Goto
  <2>3. /\ j \in Jobs /\ j.at = (IF job[a].op = "mkdir" THEN "look" ELSE "resolve")
        /\ j.op = job[a].op /\ j.real = job[a].real /\ j.moved = job[a].moved
        /\ j.entry = job[a].entry /\ j.was = job[a].was /\ j.flag = job[a].flag
        /\ j.changed = job[a].changed /\ j.temp = job[a].temp /\ j.dir = job[a].dir
    BY <1>1, <2>1 DEF Jobs, Places
  <2>4. ~Letting(j) /\ j.at \in {"look", "resolve"}
    BY <2>3 DEF Letting
  <2>5. j.temp # "none" => j.dir # "none"
    BY <1>1, <2>3 DEF JobInv, UploadInv
  <2>6. QED  BY <2>2, <2>3, <2>4, <2>5, Types, WorkInv DEF FilesStay, Uploading
<1>4. QED  BY <1>2, <1>3

\* A path is resolved, and leads where it says.
LEMMA ResolveInv == ASSUME IInv, NEW a \in Actors, Resolve(a) PROVE IInv'
<1> DEFINE path == job[a].path
           op == job[a].op
<1>1. job[a] \in Jobs /\ job \in [Actors -> Jobs] /\ JobInv(job[a]) /\ path \in Paths /\ op \in Ops
  BY Types, JobType
<1>2. CASE Ends(a)
  BY <1>2, EndInv, Types DEF Resolve, FilesStay
<1>3. CASE ~Ends(a)
  <2>1. PICK real : real = RealPath(op, path)
    OBVIOUS
  <2>2. /\ Walk(path) \notin {"nowhere", "notdir"}
        /\ NodeAt(Walk(path)).kind = "link" => NodeAt(real).kind # "none"
        /\ job' = [job EXCEPT ![a].real = real, ![a].at = "check", ![a].moved = FALSE] /\ FilesStay
    BY <1>3, <2>1 DEF Resolve
  <2>3. /\ real \in Paths
        /\ \/ real \in Protected
           \/ NodeAt(Walk(real)).kind \notin {"none", "link"}
           \/ Walk(real) = real /\ (NodeAt(real).kind = "link" => op \in {"mkdir", "remove"})
    BY <1>1, <2>1, <2>2, Types, RealPathFacts
  <2>4. PICK j : j = [job[a] EXCEPT !.real = real, !.at = "check", !.moved = FALSE]
    OBVIOUS
  <2>5. job' = [job EXCEPT ![a] = j]
    BY <1>1, <2>2, <2>4
  <2>6. /\ j \in Jobs /\ j.at = "check" /\ j.op = op /\ j.real = real
        /\ j.temp = job[a].temp /\ j.dir = job[a].dir
    BY <1>1, <2>3, <2>4 DEF Jobs, Places
  <2>7. TargetInv(j) /\ UploadInv(j) /\ DownloadInv(j)
    BY <1>1, <2>6 DEF JobInv, TargetInv, UploadInv, DownloadInv, Uploading
  <2>8. WayInv(j)
    BY <2>3, <2>6 DEF WayInv, Settled, Letting
  <2>9. QED  BY <2>2, <2>5, <2>6, <2>7, <2>8, Types, OwnStep DEF JobInv, FilesStay
<1>4. QED  BY <1>2, <1>3

\* A path that is let pass is not the daemon's own and does not lead there.
LEMMA CheckInv == ASSUME IInv, NEW a \in Actors, Check(a) PROVE IInv'
<1>1. job[a] \in Jobs /\ job \in [Actors -> Jobs] /\ JobInv(job[a]) /\ job[a].real \in Paths
  BY Types, JobType
<1>2. CASE Ends(a)
  BY <1>2, EndInv, Types DEF Check, FilesStay
<1>3. CASE ~Ends(a)
  <2>1. PICK i, pass : i = job[a] /\ pass = IF i.op = "mkdir" THEN "mkdir" ELSE "look"
    OBVIOUS
  <2>2. /\ i.at = "check" /\ ~Denied(i.real) /\ FilesStay
        /\ job' = [job EXCEPT ![a].at = pass, ![a].path = i.real]
    BY <1>3, <2>1 DEF Check, At
  <2>3. PICK j : j = [i EXCEPT !.at = pass, !.path = i.real]
    OBVIOUS
  <2>4. job' = [job EXCEPT ![a] = j]
    BY <1>1, <2>1, <2>2, <2>3
  <2>5. /\ j \in Jobs /\ j.at = pass /\ j.op = i.op /\ j.real = i.real /\ j.moved = i.moved
        /\ j.temp = i.temp /\ j.dir = i.dir
    BY <1>1, <2>1, <2>3 DEF Jobs, Places
  <2>6. TargetInv(j) /\ UploadInv(j) /\ DownloadInv(j)
    BY <1>1, <2>1, <2>5 DEF JobInv, TargetInv, UploadInv, DownloadInv, Uploading
  <2>7. ASSUME ~Remote, ~j.moved
        PROVE  Settled(j) /\ j.real \notin Protected /\ Walk(j.real) \notin Protected
    <3>1. Settled(j)
      BY <1>1, <2>1, <2>2, <2>5, <2>7 DEF JobInv, WayInv, Settled
    <3>2. j.real \notin Protected
      BY <2>2, <2>5 DEF Denied
    <3>3. Walk(j.real) \in Spots
      BY <1>1, <2>1, <2>5, Types, FoundType
    <3>4. NodeAt(Walk(j.real)).kind \notin {"none", "link"} => Walk(j.real) \notin Protected
      BY <2>2, <2>5, <3>3, Types, OnceType DEF Denied, Reaches
    <3>5. QED  BY <3>1, <3>2, <3>4 DEF Settled
  <2>8. WayInv(j)
    BY <2>1, <2>5, <2>7 DEF WayInv
  <2>9. QED  BY <2>2, <2>4, <2>5, <2>6, <2>8, Types, OwnStep DEF JobInv, FilesStay
<1>4. QED  BY <1>2, <1>3

-----------------------------------------------------------------------------
(* Targets are looked at, and listings shown.                              *)

\* A target was looked at, and is now worked on; or the path of a new directory resolved.
LEMMA LookedInv ==
  ASSUME IInv, NEW a \in Actors, NEW op \in Ops, NEW where \in {"mkdir", "remove", "create", "open", "resolve"},
         NEW ok \in BOOLEAN, LooksAt(a, op, where, ok),
         ok => Looked(a) \in Entries \cup {"home", "nowhere"},
         ok /\ where = "create" => NodeAt(Looked(a)).kind = "none" \/ job[a].flag,
         where = "resolve" \/ op # "mkdir" \/ Remote
  PROVE  IInv'
<1>1. job[a] \in Jobs /\ job \in [Actors -> Jobs] /\ JobInv(job[a])
  BY Types
<1>2. CASE ~ok
  <2>1. Ends(a)
    BY <1>2 DEF LooksAt, Ends
  <2>2. QED  BY <2>1, EndInv, Types DEF LooksAt, FilesStay
<1>3. CASE ok
  <2>1. PICK e, i : e = Looked(a) /\ i = job[a]
    OBVIOUS
  <2>2. NodeAt(e) \in Nodes
    BY <1>3, <2>1, Types, NodeAtFacts DEF Spots
  <2>3. PICK v : v = NodeAt(e)
    OBVIOUS
  <2>4. PICK j : j = [i EXCEPT !.at = where, !.entry = e, !.was = v, !.changed = FALSE]
    OBVIOUS
  <2>5. job' = [job EXCEPT ![a] = j] /\ FilesStay /\ i.at = "look" /\ i.op = op
    BY <1>3, <2>1, <2>3, <2>4 DEF LooksAt, At
  <2>6. /\ j \in Jobs /\ j.at = where /\ j.entry = e /\ j.was = v /\ j.flag = i.flag
        /\ j.op = i.op /\ j.real = i.real /\ j.moved = i.moved /\ j.temp = i.temp /\ j.dir = i.dir
    <3>1. i \in Jobs /\ e \in Entries \cup {"home", "nowhere"} /\ v \in Nodes /\ where \in Places
      BY <1>1, <1>3, <2>1, <2>2, <2>3 DEF Places
    <3>2. QED  BY <2>4, <3>1 DEF Jobs
  <2>7. TargetInv(j) /\ DownloadInv(j)
    BY <2>3, <2>6 DEF TargetInv, DownloadInv
  <2>8. UploadInv(j)
    BY <1>1, <1>3, <2>1, <2>3, <2>6 DEF JobInv, UploadInv, Uploading
  <2>9. WayInv(j)
    <3>1. Letting(j) /\ ~Remote => Letting(i)
      BY <2>5, <2>6 DEF Letting
    <3>2. QED  BY <1>1, <2>1, <2>6, <3>1 DEF JobInv, WayInv, Settled
  <2>10. QED  BY <2>5, <2>6, <2>7, <2>8, <2>9, Types, OwnStep DEF JobInv, FilesStay
<1>4. QED  BY <1>2, <1>3

\* Looking at the target of an operation that will work on it.
LEMMA LookInv ==
  ASSUME IInv, NEW a \in Actors, LookUpload(a) \/ LookRead(a) \/ LookMkdir(a) \/ LookRemove(a)
  PROVE  IInv'
<1>1. Looked(a) \in Spots
  BY Types, JobType, FoundType DEF Looked, Spot
<1>2. NodeAt(Looked(a)).kind \in {"none", "file"} => Looked(a) \in Entries \cup {"home", "nowhere"}
  BY <1>1, NodeAtFacts, NewNodes DEF Spots
<1>3. Ops = {"list", "mkdir", "remove", "read", "upload"}
  BY DEF Ops
<1>4. CASE LookUpload(a)
  <2>1. PICK ok \in BOOLEAN : ok = (\/ NodeAt(Looked(a)).kind = "none"
                                    \/ NodeAt(Looked(a)).kind = "file" /\ job[a].flag)
    OBVIOUS
  <2>2. LooksAt(a, "upload", "create", ok)
    BY <1>4, <2>1, Zenon DEF LookUpload
  <2>3. ok => NodeAt(Looked(a)).kind \in {"none", "file"} /\ (NodeAt(Looked(a)).kind = "none" \/ job[a].flag)
    BY <2>1, Zenon
  <2>4. QED  BY <1>2, <1>3, <2>2, <2>3, LookedInv
<1>5. CASE LookRead(a)
  <2>1. PICK ok \in BOOLEAN : ok = (NodeAt(Looked(a)).kind = "file")
    OBVIOUS
  <2>2. LooksAt(a, "read", "open", ok) /\ (ok => NodeAt(Looked(a)).kind = "file")
    BY <1>5, <2>1, Zenon DEF LookRead
  <2>3. QED  BY <1>2, <1>3, <2>2, LookedInv
<1>6. CASE LookMkdir(a)
  <2>1. PICK ok \in BOOLEAN : ok = (NodeAt(Looked(a)).kind = "none")
    OBVIOUS
  <2>2. PICK where : where = IF Remote THEN "mkdir" ELSE "resolve"
    OBVIOUS
  <2>3. LooksAt(a, "mkdir", where, ok) /\ (ok => NodeAt(Looked(a)).kind = "none")
    BY <1>6, <2>1, <2>2, Zenon DEF LookMkdir
  <2>4. QED  BY <1>2, <1>3, <2>2, <2>3, LookedInv
<1>7. CASE LookRemove(a)
  <2>1. PICK ok \in BOOLEAN : ok = (/\ Looked(a) \in Entries /\ NodeAt(Looked(a)).kind # "none"
                                    /\ NodeAt(Looked(a)).kind = "dir" => IsEmpty(Looked(a)))
    OBVIOUS
  <2>2. LooksAt(a, "remove", "remove", ok) /\ (ok => Looked(a) \in Entries)
    BY <1>7, <2>1, Zenon DEF LookRemove
  <2>3. QED  BY <1>3, <2>2, LookedInv
<1>8. QED  BY <1>4, <1>5, <1>6, <1>7

\* A listing goes on to its directory, or shows the file or the link itself.
LEMMA ListInv == ASSUME IInv, NEW a \in Actors, LookList(a) PROVE IInv'
<1>1. job[a] \in Jobs /\ job \in [Actors -> Jobs] /\ JobInv(job[a])
  BY Types
<1>2. PICK e, k, i : e = Looked(a) /\ k = NodeAt(Looked(a)).kind /\ i = job[a]
  OBVIOUS
<1>3. e \in Spots
  BY <1>2, Types, JobType, FoundType DEF Looked, Spot
<1>4. i.at = "look" /\ i.op = "list" /\ FilesStay /\ Letting(i)
  BY <1>2 DEF LookList, At, Letting
<1>5. CASE k = "dir"
  <2>1. PICK j : j = [i EXCEPT !.at = "readdir"]
    OBVIOUS
  <2>2. job' = [job EXCEPT ![a] = j]
    BY <1>2, <1>5, <2>1 DEF LookList
  <2>3. /\ j \in Jobs /\ j.at = "readdir" /\ j.op = i.op /\ j.real = i.real /\ j.moved = i.moved
        /\ j.entry = i.entry /\ j.was = i.was /\ j.flag = i.flag
        /\ j.changed = i.changed /\ j.temp = i.temp /\ j.dir = i.dir
    BY <1>1, <1>2, <2>1 DEF Jobs, Places
  <2>4. j.temp # "none" => j.dir # "none"
    BY <1>1, <1>2, <2>3 DEF JobInv, UploadInv
  <2>5. QED  BY <1>2, <1>4, <2>2, <2>3, <2>4, Types, WorkInv DEF FilesStay, Uploading
<1>6. CASE k \in {"file", "link"}
  <2>1. PICK j : j = [i EXCEPT !.at = "answer", !.shown = {e}]
    OBVIOUS
  <2>2. job' = [job EXCEPT ![a] = j]
    BY <1>2, <1>6, <2>1 DEF LookList
  <2>3. /\ j \in Jobs /\ j.at = "answer" /\ j.shown = {e} /\ j.moved = i.moved
        /\ j.temp = i.temp /\ j.dir = i.dir
    BY <1>1, <1>2, <1>3, <2>1 DEF Jobs, Places
  <2>4. TargetInv(j) /\ UploadInv(j) /\ DownloadInv(j)
    BY <1>1, <1>2, <2>3 DEF JobInv, TargetInv, UploadInv, DownloadInv, Uploading
  <2>5. ~Remote /\ ~i.moved => e \notin Protected
    BY <1>2, <1>4, LookedFree
  <2>6. WayInv(j)
    BY <2>3, <2>5 DEF WayInv, Letting
  <2>7. QED  BY <1>4, <2>2, <2>3, <2>4, <2>6, Types, OwnStep DEF JobInv, FilesStay
<1>7. CASE k \notin {"dir", "file", "link"}
  <2>1. Ends(a)
    BY <1>2, <1>7 DEF LookList, Ends
  <2>2. QED  BY <1>4, <2>1, EndInv, Types DEF FilesStay
<1>8. QED  BY <1>5, <1>6, <1>7

\* A directory is read.
LEMMA ReadDirInv == ASSUME IInv, NEW a \in Actors, ReadDir(a) PROVE IInv'
<1>1. job[a] \in Jobs /\ job \in [Actors -> Jobs] /\ JobInv(job[a])
  BY Types
<1>2. PICK i, shown : i = job[a] /\ shown = Below(job[a].real)
  OBVIOUS
<1>3. shown \subseteq Paths \cup Spots
  BY <1>2 DEF Below
<1>4. PICK j : j = [i EXCEPT !.shown = shown, !.at = "filter"]
  OBVIOUS
<1>5. job' = [job EXCEPT ![a] = j] /\ FilesStay
  BY <1>1, <1>2, <1>4 DEF ReadDir
<1>6. /\ j \in Jobs /\ j.at = "filter" /\ j.op = i.op /\ j.real = i.real /\ j.moved = i.moved
      /\ j.entry = i.entry /\ j.was = i.was /\ j.flag = i.flag
      /\ j.changed = i.changed /\ j.temp = i.temp /\ j.dir = i.dir
  BY <1>1, <1>2, <1>3, <1>4 DEF Jobs, Places
<1>7. j.temp # "none" => j.dir # "none"
  BY <1>1, <1>2, <1>6 DEF JobInv, UploadInv
<1>8. QED  BY <1>2, <1>5, <1>6, <1>7, Types, WorkInv DEF FilesStay, Uploading, Letting

\* What is shown of it is not the daemon's own, and does not lead there.
LEMMA FilterInv == ASSUME IInv, NEW a \in Actors, Filter(a) PROVE IInv'
<1>1. job[a] \in Jobs /\ job \in [Actors -> Jobs] /\ JobInv(job[a])
  BY Types
<1>2. PICK i : i = job[a]
  OBVIOUS
<1>3. PICK shown : shown = {Shown(c) : c \in {c \in i.shown :
                               NodeAt(Walk(c)).kind # "none" /\ (Remote \/ ~Denied(c))}}
  OBVIOUS
<1>4. \A c \in i.shown : Walk(c) \in Spots /\ Reaches(c) \in Spots
  BY <1>1, <1>2, JobType, Types, FoundType
<1>5. shown \subseteq Paths \cup Spots
  BY <1>3, <1>4 DEF Shown
<1>6. ~Remote => shown \cap Protected = {}
  <2>1. SUFFICES ASSUME ~Remote, NEW c \in i.shown, NodeAt(Walk(c)).kind # "none", ~Denied(c)
                 PROVE  Shown(c) \notin Protected
    BY <1>3
  <2>2. CASE NodeAt(Reaches(c)).kind # "none"
    BY <2>1, <2>2 DEF Shown, Denied
  <2>3. CASE NodeAt(Reaches(c)).kind = "none"
    <3>1. NodeAt(Walk(c)).kind = "link"
      BY <1>4, <2>1, <2>3, Types, OnceType DEF Reaches
    <3>2. Walk(c) \in {"f", "d", "l"}
      BY <1>4, <3>1, Types, RealFacts
    <3>3. QED  BY <2>1, <2>3, <3>2 DEF Shown, Protected
  <2>4. QED  BY <2>2, <2>3
<1>7. PICK j : j = [i EXCEPT !.at = "answer", !.shown = shown]
  OBVIOUS
<1>8. job' = [job EXCEPT ![a] = j] /\ FilesStay
  BY <1>1, <1>2, <1>3, <1>7 DEF Filter
<1>9. /\ j \in Jobs /\ j.at = "answer" /\ j.shown = shown /\ j.temp = i.temp /\ j.dir = i.dir
  BY <1>1, <1>2, <1>5, <1>7 DEF Jobs, Places
<1>10. TargetInv(j) /\ UploadInv(j) /\ DownloadInv(j)
  BY <1>1, <1>2, <1>9 DEF JobInv, TargetInv, UploadInv, DownloadInv, Uploading
<1>11. WayInv(j)
  BY <1>6, <1>9 DEF WayInv, Letting
<1>12. QED  BY <1>8, <1>9, <1>10, <1>11, Types, OwnStep DEF JobInv, FilesStay

-----------------------------------------------------------------------------
(* Uploads, downloads and changes of the tree.                             *)

\* The temporary file is made, filled, and left or removed; and the files stay.
LEMMA CopyInv ==
  ASSUME IInv, NEW a \in Actors,
         \/ CreateTemp(a) \/ CopyBody(a) \/ CopyFails(a) \/ Chmod(a) \/ ChmodFails(a)
         \/ PublishFails(a) \/ CleanTemp(a) \/ CleanFails(a) \/ EntryFor(a)
  PROVE  IInv'
<1>1. job \in [Actors -> Jobs] /\ job[a] \in Jobs /\ JobInv(job[a])
  BY Types
<1>2. PICK i : i = job[a]
  OBVIOUS
<1>3. CASE Ends(a) /\ FilesStay
  BY <1>3, EndInv, Types DEF FilesStay
<1>4. CASE CreateTemp(a) /\ ~Ends(a)
  <2>1. PICK dir : dir = DirOf(Spot(a))
    OBVIOUS
  <2>2. dir \in {"home", "d", "data"}
    BY <2>1, Zenon DEF DirOf
  <2>3. PICK j : j = [i EXCEPT !.temp = "part", !.dir = dir, !.at = "copy"]
    OBVIOUS
  <2>4. job' = [job EXCEPT ![a] = j] /\ i.at = "create" /\ FilesStay
    BY <1>1, <1>2, <1>4, <2>1, <2>3 DEF CreateTemp, At
  <2>5. /\ j \in Jobs /\ j.at = "copy" /\ j.op = i.op /\ j.real = i.real /\ j.moved = i.moved
        /\ j.entry = i.entry /\ j.was = i.was /\ j.flag = i.flag
        /\ j.changed = i.changed /\ j.temp = "part" /\ j.dir = dir
    BY <1>1, <1>2, <2>2, <2>3 DEF Jobs, Places
  <2>6. QED  BY <1>2, <2>2, <2>4, <2>5, Types, WorkInv DEF FilesStay, Uploading, Letting
<1>5. CASE CopyBody(a)
  <2>1. PICK j : j = [i EXCEPT !.temp = "whole", !.at = "chmod"]
    OBVIOUS
  <2>2. job' = [job EXCEPT ![a] = j] /\ i.at = "copy" /\ FilesStay
    BY <1>1, <1>2, <1>5, <2>1 DEF CopyBody, At
  <2>3. /\ j \in Jobs /\ j.at = "chmod" /\ j.op = i.op /\ j.real = i.real /\ j.moved = i.moved
        /\ j.entry = i.entry /\ j.was = i.was /\ j.flag = i.flag
        /\ j.changed = i.changed /\ j.temp = "whole" /\ j.dir = i.dir
    BY <1>1, <1>2, <2>1 DEF Jobs, Places
  <2>4. j.dir # "none"
    BY <1>1, <1>2, <2>2, <2>3 DEF JobInv, UploadInv
  <2>5. QED  BY <1>2, <2>2, <2>3, <2>4, Types, WorkInv DEF FilesStay, Uploading, Letting
<1>6. CASE Goto(a, "clean") /\ i.at \in Uploading \ {"create"} /\ UNCHANGED <<backend, fs, up, litter, mine>>
           /\ (UNCHANGED count \/ MayFail)
  <2>1. PICK j : j = [i EXCEPT !.at = "clean"]
    OBVIOUS
  <2>2. job' = [job EXCEPT ![a] = j] /\ count' \in Counts
    BY <1>1, <1>2, <1>6, <2>1, FaultFacts DEF Goto
  <2>3. /\ j \in Jobs /\ j.at = "clean" /\ j.op = i.op /\ j.real = i.real /\ j.moved = i.moved
        /\ j.entry = i.entry /\ j.was = i.was /\ j.flag = i.flag
        /\ j.changed = i.changed /\ j.temp = i.temp /\ j.dir = i.dir
    BY <1>1, <1>2, <2>1 DEF Jobs, Places
  <2>4. j.dir # "none"
    BY <1>1, <1>2, <1>6, <2>3 DEF JobInv, UploadInv, Uploading
  <2>5. Letting(j) => Letting(i) \/ i.at = "rename"
    BY <1>6, <2>3 DEF Letting, Uploading
  <2>6. CASE i.at # "rename"
    BY <1>2, <1>6, <2>2, <2>3, <2>4, <2>5, <2>6, Types, WorkInv DEF Uploading
  <2>7. CASE i.at = "rename"
    <3>1. Remote
      BY <1>1, <1>2, <2>7 DEF JobInv, TargetInv
    <3>2. TargetInv(j)
      BY <1>1, <1>2, <2>3, <2>7, <3>1 DEF JobInv, TargetInv, Uploading
    <3>3. UploadInv(j) /\ DownloadInv(j) /\ WayInv(j)
      BY <2>3, <2>4, <3>1 DEF UploadInv, DownloadInv, WayInv, Uploading
    <3>4. QED  BY <1>6, <2>2, <2>3, <3>2, <3>3, Types, OwnStep DEF JobInv
  <2>8. QED  BY <2>6, <2>7
<1>7. CASE Chmod(a)
  <2>1. PICK j : j = [i EXCEPT !.at = "publish"]
    OBVIOUS
  <2>2. job' = [job EXCEPT ![a] = j] /\ i.at = "chmod" /\ FilesStay
    BY <1>1, <1>2, <1>7, <2>1 DEF Chmod, Goto, At
  <2>3. /\ j \in Jobs /\ j.at = "publish" /\ j.op = i.op /\ j.real = i.real /\ j.moved = i.moved
        /\ j.entry = i.entry /\ j.was = i.was /\ j.flag = i.flag
        /\ j.changed = i.changed /\ j.temp = i.temp /\ j.dir = i.dir
    BY <1>1, <1>2, <2>1 DEF Jobs, Places
  <2>4. j.temp = "whole" /\ j.dir # "none"
    BY <1>1, <1>2, <2>2, <2>3 DEF JobInv, UploadInv
  <2>5. QED  BY <1>2, <2>2, <2>3, <2>4, Types, WorkInv DEF FilesStay, Uploading, Letting
<1>8. CASE CleanFails(a)
  <2>1. i.dir \in {"home", "d", "data"}
    <3>1. i.dir # "none"
      BY <1>1, <1>2, <1>8 DEF CleanFails, At, JobInv, UploadInv
    <3>2. QED  BY <1>2, <3>1, Types, JobType
  <2>2. litter' \subseteq {"home", "d", "data"}
    BY <1>2, <1>8, <2>1, Types DEF CleanFails
  <2>3. count' \in Counts
    BY <1>8, FaultFacts DEF CleanFails
  <2>4. QED  BY <1>8, <2>2, <2>3, EndInv, Types DEF CleanFails
<1>9. QED
  BY <1>2, <1>3, <1>4, <1>5, <1>6, <1>7, <1>8
     DEF CreateTemp, CopyFails, ChmodFails, PublishFails, CleanTemp, EntryFor, FilesStay, Uploading, At

\* What is published is whole, and what is removed for it is the target as it was.
LEMMA PublishInv ==
  ASSUME IInv, NEW a \in Actors, job[a].at \in {"publish", "rename"}, Spot(a) \in Entries,
         NEW n \in Nodes, n.kind # "link", NEW j \in Jobs, Change(a, Spot(a), n, j),
         \/ j.at = "entry" /\ j.temp = "none"
         \/ /\ j.at = "rename" /\ Remote /\ n = Absent /\ j.temp = "whole" /\ j.dir = job[a].dir
            /\ j.entry = job[a].entry /\ j.was = job[a].was /\ j.flag = job[a].flag
            /\ j.changed = job[a].changed
  PROVE  IInv'
<1>1. PICK i, e : i = job[a] /\ e = Spot(a)
  OBVIOUS
<1>2. i \in Jobs /\ JobInv(i) /\ e \in Entries
  BY <1>1, Types
<1>3. fs' = [fs EXCEPT ![e] = n] /\ backend' = backend
  BY <1>1 DEF Change
<1>4. Remote' <=> Remote
  BY <1>3 DEF Remote
<1>5. ASSUME j.at = "entry", j.temp = "none" PROVE JobInv(j)'
  BY <1>5 DEF JobInv, TargetInv, UploadInv, DownloadInv, WayInv, Letting, Uploading
<1>6. ASSUME ~(j.at = "entry" /\ j.temp = "none") PROVE JobInv(j)'
  <2>1. \A c : c # e => NodeAt(c)' = NodeAt(c)
    BY <1>3 DEF NodeAt
  <2>2. NodeAt(e)' = n
    <3>1. NodeAt(e)' = fs'[e]
      BY <1>2 DEF NodeAt, Entries
    <3>2. QED  BY <1>2, <1>3, <3>1, Types
  <2>3. TargetInv(j)'
    <3>1. Absent' = Absent
      BY DEF Absent, Node
    <3>2. ~i.changed => NodeAt(i.entry) = i.was \/ NodeAt(i.entry) = Absent
      BY <1>1, <1>2 DEF JobInv, TargetInv, Uploading
    <3>3. i.at = "publish" /\ ~i.changed => NodeAt(i.entry) = i.was
      BY <1>1, <1>2 DEF JobInv, TargetInv, Uploading
    <3>4. ~j.changed => NodeAt(j.entry)' = j.was \/ NodeAt(j.entry)' = Absent
      BY <1>1, <1>6, <2>1, <2>2, <3>2
    <3>5. QED  BY <1>4, <1>6, <3>1, <3>4 DEF TargetInv, Uploading
  <2>4. UploadInv(j)'
    BY <1>1, <1>2, <1>6 DEF JobInv, UploadInv, Uploading
  <2>5. DownloadInv(j)' /\ WayInv(j)'
    BY <1>4, <1>6 DEF DownloadInv, WayInv
  <2>6. QED  BY <2>3, <2>4, <2>5 DEF JobInv
<1>7. JobInv(j)'
  BY <1>5, <1>6
<1>8. QED  BY <1>1, <1>2, <1>7, ChangeStep

\* The temporary file takes the place of the target.
LEMMA PublishStepInv ==
  ASSUME IInv, NEW a \in Actors,
         PublishLocal(a) \/ PublishPosix(a) \/ PublishRemoves(a) \/ PublishRenames(a)
  PROVE  IInv'
<1>1. job[a] \in Jobs /\ JobInv(job[a]) /\ job[a].at \in {"publish", "rename"} /\ Spot(a) \in Entries
  BY Types DEF PublishLocal, PublishPosix, PublishRemoves, PublishRenames, Replaces, Renames, At, TempThere
<1>2. job[a].temp = "whole"
  BY <1>1 DEF JobInv, UploadInv
<1>3. CASE Change(a, Spot(a), Published(a), AfterPublish(a))
  <2>1. Published(a) \in Nodes /\ Published(a).kind # "link"
    BY <1>2, NewNodes DEF Published, Content
  <2>2. PICK j : j = AfterPublish(a)
    OBVIOUS
  <2>3. j \in Jobs /\ j.at = "entry" /\ j.temp = "none"
    BY <1>1, <2>2 DEF AfterPublish, Jobs, Places
  <2>4. QED  BY <1>1, <1>3, <2>1, <2>2, <2>3, PublishInv
<1>4. CASE PublishRemoves(a)
  <2>1. PICK j : j = [job[a] EXCEPT !.at = "rename"]
    OBVIOUS
  <2>2. /\ j \in Jobs /\ j.at = "rename" /\ j.entry = job[a].entry /\ j.was = job[a].was
        /\ j.flag = job[a].flag /\ j.changed = job[a].changed /\ j.temp = "whole" /\ j.dir = job[a].dir
    BY <1>1, <1>2, <2>1 DEF Jobs, Places
  <2>3. Change(a, Spot(a), Absent, j) /\ Remote
    BY <1>4, <2>1 DEF PublishRemoves
  <2>4. QED  BY <1>1, <2>2, <2>3, NewNodes, PublishInv
<1>5. QED
  BY <1>3, <1>4 DEF PublishLocal, PublishPosix, PublishRenames, Replaces

\* A download reads the file it has announced, and keeps it if it has come whole.
LEMMA DownloadStepInv ==
  ASSUME IInv, NEW a \in Actors, DownloadStep(a)
  PROVE  IInv'
<1>1. PICK i : i = job[a]
  OBVIOUS
<1>2. /\ job \in [Actors -> Jobs] /\ i \in Jobs /\ JobInv(i) /\ i.got \in {"none", "part"} \cup Content
      /\ i.was \in Nodes /\ (i.temp # "none" => i.dir # "none")
  BY <1>1, Types, JobType DEF JobInv, UploadInv
<1>3. CASE Ends(a) /\ FilesStay
  BY <1>3, EndInv, Types DEF FilesStay
<1>4. CASE OpenFile(a) /\ ~Ends(a)
  <2>1. PICK e, v : e = Reaches(i.real) /\ v = NodeAt(e).val
    OBVIOUS
  <2>2. PICK c \in BOOLEAN : c <=> i.changed \/ e # i.entry
    OBVIOUS
  <2>3. /\ i.at = "open" /\ FilesStay /\ NodeAt(e).kind = "file"
        /\ job' = [job EXCEPT ![a].got = v, ![a].at = "stream", ![a].changed = @ \/ e # i.entry]
    BY <1>1, <1>4, <2>1 DEF OpenFile, At, Entry
  <2>4. NodeAt(e) \in Nodes /\ v \in Content /\ NodeAt(e) = File(v)
    <3>1. e \in Spots
      BY <1>2, <2>1, JobType, Types, FoundType
    <3>2. NodeAt(e) \in Nodes
      BY <3>1, Types, NodeAtFacts
    <3>3. QED  BY <2>1, <2>3, <3>2, NodeFacts
  <2>5. i.changed \/ i.was = NodeAt(i.entry)
    BY <1>2, <2>3 DEF JobInv, TargetInv
  <2>6. PICK j : j = [i EXCEPT !.got = v, !.at = "stream", !.changed = c]
    OBVIOUS
  <2>7. job' = [job EXCEPT ![a] = j]
    <3>1. c = (i.changed \/ e # i.entry)
      BY <1>2, <2>2, JobType, Zenon
    <3>2. job' = [job EXCEPT ![a] = [i EXCEPT !.got = v, !.at = "stream", !.changed = @ \/ e # i.entry]]
      BY <1>1, <1>2, <2>3, Zenon
    <3>3. PICK k : k = [i EXCEPT !.got = v, !.at = "stream", !.changed = @ \/ e # i.entry]
      OBVIOUS
    <3>4. k = j
      BY <2>6, <3>1, <3>3, <1>2, Zenon DEF Jobs
    <3>5. QED  BY <3>2, <3>3, <3>4
  <2>8. /\ j \in Jobs /\ j.at = "stream" /\ j.op = i.op /\ j.real = i.real /\ j.moved = i.moved
        /\ j.entry = i.entry /\ j.was = i.was /\ j.flag = i.flag
        /\ j.changed = c /\ j.temp = i.temp /\ j.dir = i.dir /\ j.got = v
    BY <1>2, <2>2, <2>4, <2>6 DEF Jobs, Places
  <2>9. c \/ i.was = File(v)
    BY <2>2, <2>4, <2>5
  <2>10. (i.changed => j.changed) /\ (j.changed \/ j.was = File(j.got)) /\ (j.temp # "none" => j.dir # "none")
    BY <1>2, <2>2, <2>8, <2>9, Zenon
  <2>11. ~Letting(j) /\ j.at \notin Uploading \cup {"clean", "rename", "open", "create", "check", "answer"}
    BY <2>8 DEF Letting, Uploading
  <2>12. /\ UNCHANGED <<backend, fs>> /\ up' = up /\ count' \in Counts
         /\ litter' \subseteq {"home", "d", "data"} /\ mine' \in {"none", "part"} \cup Content
    BY <2>3, Types DEF FilesStay
  <2>13. /\ j \in Jobs /\ j.op = job[a].op /\ j.real = job[a].real /\ j.moved = job[a].moved
         /\ j.entry = job[a].entry /\ j.was = job[a].was /\ j.flag = job[a].flag
    BY <1>1, <2>8
  <2>14. QED
    BY <1>1, <2>7, <2>8, <2>10, <2>11, <2>12, <2>13, WorkInv
<1>5. CASE Received(a)
  <2>1. i.at = "stream" /\ FilesStay
    BY <1>1, <1>5 DEF Received, At
  <2>2. "part" \notin Content
    BY TransferAssumption DEF Content
  <2>3. i.changed \/ i.was = File(i.got)
    BY <1>2, <2>1 DEF JobInv, DownloadInv
  <2>4. i.changed \/ i.got # "part"
    <3>1. i.was = File(i.got) => i.got \in Content
      BY <1>2, NodeFacts DEF File, Node
    <3>2. QED  BY <2>2, <2>3, <3>1
  <2>5. PICK j : /\ job' = [job EXCEPT ![a] = j]
                 /\ \/ j = [i EXCEPT !.at = "keep"]
                    \/ j = [i EXCEPT !.got = "part", !.at = "keep"] /\ i.was # File(i.got)
    BY <1>1, <1>2, <1>5 DEF Received, Goto
  <2>6. /\ j \in Jobs /\ j.at = "keep" /\ j.op = i.op /\ j.real = i.real /\ j.moved = i.moved
        /\ j.entry = i.entry /\ j.was = i.was /\ j.flag = i.flag
        /\ j.changed = i.changed /\ j.temp = i.temp /\ j.dir = i.dir
        /\ j.got = i.got \/ (j.got = "part" /\ i.was # File(i.got))
    BY <1>2, <2>5 DEF Jobs, Places
  <2>7. QED
    BY <1>1, <1>2, <2>1, <2>3, <2>4, <2>5, <2>6, Types, WorkInv DEF FilesStay, Uploading, Letting
<1>6. CASE Keep(a) \/ KeepAgain(a)
  BY <1>1, <1>2, <1>6, EndInv, Types DEF Keep, KeepAgain
<1>7. CASE KeepRemoves(a)
  <2>1. PICK j : j = [i EXCEPT !.at = "rekeep"]
    OBVIOUS
  <2>2. /\ j \in Jobs /\ j.at = "rekeep" /\ j.op = i.op /\ j.real = i.real /\ j.moved = i.moved
        /\ j.entry = i.entry /\ j.was = i.was /\ j.flag = i.flag
        /\ j.changed = i.changed /\ j.temp = i.temp /\ j.dir = i.dir /\ j.got = i.got
    BY <1>2, <2>1 DEF Jobs, Places
  <2>3. job' = [job EXCEPT ![a] = j] /\ i.at = "keep" /\ UNCHANGED <<backend, fs, up, litter>>
    BY <1>1, <1>7, <2>1 DEF KeepRemoves, Goto, At
  <2>4. count' \in Counts /\ mine' \in {"none", "part"} \cup Content
    BY <1>7, FaultFacts DEF KeepRemoves, MayFail
  <2>5. i.got = "part" => i.changed
    BY <1>2, <2>3 DEF JobInv, DownloadInv
  <2>6. QED  BY <1>1, <1>2, <2>2, <2>3, <2>4, <2>5, Types, WorkInv DEF Uploading, Letting
<1>8. QED
  BY <1>3, <1>4, <1>5, <1>6, <1>7 DEF DownloadStep, OpenFile, Cut

\* A directory is made, or an entry removed, where the path leads.
LEMMA TreeChangeInv ==
  ASSUME IInv, NEW a \in Actors, Mkdir(a) \/ Remove(a)
  PROVE  IInv'
<1>1. CASE Ends(a) /\ FilesStay
  BY <1>1, EndInv, Types DEF FilesStay
<1>2. CASE Spot(a) \in Entries /\ \E n \in {Absent, Node("dir", "none")} : Change(a, Spot(a), n, NoJob)
  <2>1. PICK e, n : /\ e = Spot(a) /\ e \in Entries /\ n \in {Absent, Node("dir", "none")}
                    /\ Change(a, e, n, NoJob)
    BY <1>2
  <2>2. n \in Nodes /\ n.kind # "link"
    BY <2>1, NewNodes
  <2>3. PICK j : j = NoJob
    OBVIOUS
  <2>4. j \in Jobs /\ j.at = "idle" /\ j.temp = "none"
    BY <2>3, NoJobInv DEF NoJob, NewJob
  <2>5. JobInv(j)'
    BY <2>4 DEF JobInv, TargetInv, UploadInv, DownloadInv, WayInv, Letting, Uploading
  <2>6. QED  BY <2>1, <2>2, <2>3, <2>4, <2>5, ChangeStep
<1>3. QED  BY <1>1, <1>2 DEF Mkdir, Remove

\* The shell makes, replaces or deletes a file or a link.
LEMMA ShellInv ==
  ASSUME IInv, NEW e \in {"f", "d", "l", "d/f"}, Shell(e)
  PROVE  IInv'
<1>1. PICK n \in Replacements(e) : fs' = [fs EXCEPT ![e] = n]
  BY DEF Shell
<1>2. /\ n \in Nodes /\ e \in Entries
      /\ n.kind = "link" => e = "l" \/ (e = "f" /\ n.val = "data/f") \/ (e = "d" /\ n.val = "data")
  <2>1. e \in Entries
    BY DEF Entries
  <2>2. {"d", "data", "data/f"} \subseteq Leads /\ "shell" \in Content
    BY DEF Leads, Content
  <2>3. e = "f"   => n \in {Absent, File("shell"), Node("link", "data/f")}
    BY DEF Replacements
  <2>4. e = "d/f" => n \in {Absent, File("shell")}
    BY DEF Replacements
  <2>5. e = "d"   => n \in {Node("dir", "none"), Node("link", "data")}
    BY DEF Replacements
  <2>6. e = "l"   => n \in {Node("link", "d"), Node("link", "data")}
    BY DEF Replacements
  <2>7. QED  BY <2>1, <2>2, <2>3, <2>4, <2>5, <2>6, NewNodes
<1>3. /\ UNCHANGED <<backend, up, litter, mine>> /\ count' = [count EXCEPT !.trouble = @ + 1]
      /\ count.trouble < MaxTrouble /\ job' = [b \in Actors |-> Marked(b, e)]
  BY DEF Shell
<1>4. count' \in Counts
  BY <1>3, Types, TransferAssumption DEF Counts
<1>5. ASSUME NEW b \in Actors, NEW k, k = job'[b]
      PROVE  k \in Jobs /\ JobInv(k)'
  BY <1>1, <1>2, <1>3, <1>5, MarkedInv
<1>6. \A b \in Actors : job'[b] \in Jobs /\ JobInv(job[b])'
  BY <1>5
<1>7. job' \in [Actors -> Jobs]
  BY <1>3, <1>6
<1>8. QED  BY <1>1, <1>2, <1>3, <1>4, <1>6, <1>7, TreeStep

\* The daemon is killed, and leaves temporary files where it had them.
LEMMA DaemonInv == ASSUME IInv, DaemonDies PROVE IInv'
<1>1. /\ job' = [a \in Actors |-> IF a \in Daemons THEN NoJob ELSE job[a]] /\ up' = FALSE
      /\ litter' = litter \cup {job[a].dir : a \in {b \in Actors : job[b].temp # "none"}}
      /\ UNCHANGED <<backend, fs, mine, count>>
  BY DEF DaemonDies
<1>2. \A b \in Actors : job'[b] \in Jobs /\ JobInv(job'[b])
  BY <1>1, NoJobInv, Types
<1>3. job' \in [Actors -> Jobs]
  BY <1>1, <1>2
<1>4. \A b \in Actors : job[b].temp # "none" => job[b].dir \in {"home", "d", "data"}
  BY Types, JobType DEF JobInv, UploadInv
<1>5. litter' \subseteq {"home", "d", "data"}
  BY <1>1, <1>4, Types
<1>6. QED  BY <1>1, <1>2, <1>3, <1>5, Types, QuietStep

\* Nobody works on anything, and nothing is left behind.
LEMMA InitInv == Init => IInv
<1> SUFFICES ASSUME Init PROVE IInv
  OBVIOUS
<1>1. job \in [Actors -> Jobs] /\ \A a \in Actors : JobInv(job[a])
  BY NoJobInv DEF Init
<1>2. count \in Counts
  BY TransferAssumption DEF Init, Counts
<1>3. TypeOK
  BY <1>1, <1>2, InitTree DEF Init, TypeOK, Counts, Content
<1>4. QED  BY <1>1, <1>3, InitTree DEF IInv

\* Every step keeps the invariant.
LEMMA NextInv == IInv /\ [Next]_vars => IInv'
<1> SUFFICES ASSUME IInv, [Next]_vars PROVE IInv'
  OBVIOUS
<1>1. ASSUME NEW a \in Actors, UploadStep(a) PROVE IInv'
  BY <1>1, CopyInv, PublishStepInv DEF UploadStep
<1>2. ASSUME NEW a \in Actors, DownloadStep(a) PROVE IInv'
  BY <1>2, DownloadStepInv
<1>3. ASSUME NEW a \in Actors, LookStep(a) \/ OtherStep(a) PROVE IInv'
  <2>1. CASE LookFails(a) \/ Answer(a) \/ ChangeFails(a)
    <3>1. count' \in Counts
      BY <2>1, FaultFacts DEF LookFails, Answer, ChangeFails, FilesStay
    <3>2. QED  BY <2>1, <3>1, EndInv, Types DEF LookFails, Answer, ChangeFails, FilesStay
  <2>2. QED
    BY <1>3, <2>1, DenyInv, ResolveInv, CheckInv, LookInv, ListInv, ReadDirInv, FilterInv, TreeChangeInv
       DEF LookStep, OtherStep
<1>4. ASSUME NEW a \in Actors, NEW path \in Inputs, NEW flag \in BOOLEAN,
             DownloadBegins(a, path, flag) \/ \E op \in Ops : RequestBegins(a, op, path, flag)
      PROVE  IInv'
  <2>1. "read" \in Ops
    BY DEF Ops
  <2>2. QED  BY <1>4, <2>1, BeginInv
<1>5. ASSUME NEW e \in {"f", "d", "l", "d/f"}, Shell(e) PROVE IInv'
  BY <1>5, ShellInv
<1>6. CASE GoesDown \/ UNCHANGED vars
  <2>1. UNCHANGED <<backend, fs, job, litter, mine, count>> /\ up' \in BOOLEAN
    BY <1>6, Types DEF GoesDown, vars
  <2>2. QED  BY <2>1, Types, QuietStep
<1>7. QED
  BY <1>1, <1>2, <1>3, <1>4, <1>5, <1>6, DaemonInv DEF Next, Step, Idle

\* What every request has looked at, read, written or shown fits the tree, in every
\* state, whatever the others, the shell and failures do to it.
THEOREM TransferInvariant == Spec => []IInv
BY InitInv, NextInv, PTL DEF Spec

\* Every variable has the shape the code gives it, and no file of the tree is ever a
\* part of an upload (local.go:167-243, sftp.go:159-239).
THEOREM TypeCorrect == Spec => []TypeOK
<1>1. IInv => TypeOK
  BY DEF IInv
<1>2. QED  BY <1>1, TransferInvariant, PTL

\* While an upload is under way, and after it has failed, the file it replaces stays as it
\* was, unless somebody else changes it, and but for the removal before an SFTP rename
\* (backend.go:27, sftp.go:241-261).
THEOREM TargetUntouched == Spec => []TargetStays
<1>1. IInv => TargetStays
  BY DEF IInv, TargetStays, JobInv, TargetInv, Uploading, At, Entry
<1>2. QED  BY <1>1, TransferInvariant, PTL

\* Whatever links the shell makes while requests are under way, a path that was resolved
\* and let pass leads into the data directory only if something on its way was changed
\* since its request began (local.go:322-366, 390-423).
THEOREM DataHidden == Spec => []DataIsHidden
<1>1. IInv => DataIsHidden
  <2>1. SUFFICES ASSUME IInv, ~Remote, NEW a \in Actors, ~job[a].moved
                 PROVE  /\ Passed(a) => Looked(a) \notin Protected
                        /\ At(a) = "answer" => job[a].shown \cap Protected = {}
    BY DEF DataIsHidden
  <2>2. Passed(a) => Letting(job[a])
    BY DEF Passed, Letting, At
  <2>3. QED  BY <2>1, <2>2, LookedFree, Types DEF JobInv, WayInv, At
<1>2. QED  BY <1>1, TransferInvariant, PTL

\* Nobody else's step moves a request on.
LEMMA OthersStay ==
  ASSUME IInv, NEW a \in Actors, NEW b \in Actors, a # b, Step(b)
  PROVE  job'[a].at = job[a].at
<1>1. job[a] \in Jobs /\ job \in [Actors -> Jobs]
  BY Types
<1>2. ASSUME NEW e PROVE Marked(a, e).at = job[a].at
  BY <1>1 DEF Marked, Jobs
<1>3. ASSUME NEW e, NEW n, NEW j, Change(b, e, n, j) PROVE job'[a].at = job[a].at
  BY <1>2, <1>3 DEF Change
<1>4. CASE job'[a] = job[a]
  BY <1>4
<1>5. CASE UploadStep(b)
  BY <1>1, <1>3, <1>4, <1>5 DEF UploadStep, CreateTemp, CopyBody, CopyFails, Chmod, ChmodFails, PublishLocal,
     PublishPosix, Replaces, PublishRemoves, PublishRenames, PublishFails, CleanTemp, CleanFails, EntryFor,
     Goto, Ends
<1>6. CASE DownloadStep(b)
  BY <1>1, <1>4, <1>6 DEF DownloadStep, OpenFile, Received, Cut, Keep, KeepRemoves, KeepAgain, Goto, Ends
<1>7. CASE LookStep(b)
  BY <1>1, <1>4, <1>7 DEF LookStep, Deny, Resolve, Check, LookUpload, LookRead, LookMkdir, LookRemove,
     LookList, LooksAt, ReadDir, Filter, LookFails, Answer, Goto, Ends
<1>8. CASE OtherStep(b)
  BY <1>1, <1>3, <1>4, <1>8 DEF OtherStep, Mkdir, Remove, ChangeFails, Ends
<1>9. QED  BY <1>5, <1>6, <1>7, <1>8 DEF Step

\* An upload is over with its target in place only by one of the renames.
LEMMA PublishedBy ==
  ASSUME IInv, [Next]_vars, NEW a \in Actors, At(a) \in {"publish", "rename"}, At(a)' = "entry"
  PROVE  PublishLocal(a) \/ PublishPosix(a) \/ PublishRenames(a)
<1>1. job[a] \in Jobs /\ job \in [Actors -> Jobs] /\ job[a].at \in {"publish", "rename"}
      /\ job'[a].at = "entry"
  BY Types DEF At
<1>2. CASE Step(a)
  <2>1. ~Ends(a)
    BY <1>1 DEF Ends, NoJob, NewJob
  <2>2. UploadStep(a)
    BY <1>1, <1>2 DEF Step, DownloadStep, LookStep, OtherStep, OpenFile, Received, Cut, Keep, KeepRemoves,
       KeepAgain, Deny, Resolve, Check, LookUpload, LookRead, LookMkdir, LookRemove, LookList, LooksAt,
       ReadDir, Filter, LookFails, Answer, Mkdir, Remove, ChangeFails, At
  <2>3. ~PublishRemoves(a)
    <3>1. PICK j : j = [job[a] EXCEPT !.at = "rename"]
      OBVIOUS
    <3>2. j.at = "rename"
      BY <1>1, <3>1 DEF Jobs
    <3>3. PublishRemoves(a) => job'[a] = j
      BY <3>1 DEF PublishRemoves, Change
    <3>4. QED  BY <1>1, <3>2, <3>3
  <2>4. ~Goto(a, "clean")
    BY <1>1 DEF Goto, Jobs
  <2>5. QED
    BY <1>1, <2>1, <2>2, <2>3, <2>4 DEF UploadStep, CreateTemp, CopyBody, CopyFails, Chmod, ChmodFails,
       PublishFails, CleanTemp, CleanFails, EntryFor, At
<1>3. ASSUME NEW b \in Actors, b # a, Step(b) PROVE FALSE
  BY <1>1, <1>3, OthersStay
<1>4. ASSUME NEW b \in Actors, NEW path \in Inputs, NEW flag \in BOOLEAN,
             DownloadBegins(b, path, flag) \/ \E op \in Ops : RequestBegins(b, op, path, flag)
      PROVE  FALSE
  BY <1>1, <1>4 DEF DownloadBegins, RequestBegins, Begins, NewJob, At
<1>5. ASSUME NEW e \in {"f", "d", "l", "d/f"}, Shell(e) PROVE FALSE
  BY <1>1, <1>5 DEF Shell, Marked, Jobs
<1>6. CASE GoesDown \/ UNCHANGED vars
  BY <1>1, <1>6 DEF GoesDown, vars
<1>7. CASE DaemonDies
  BY <1>1, <1>7 DEF DaemonDies, NoJob, NewJob
<1>8. QED
  BY <1>2, <1>3, <1>4, <1>5, <1>6, <1>7 DEF Next, Idle

\* With overwrite=false nothing is replaced, unless, on the daemon's own file system, a file
\* came after the check, or its path leads elsewhere by then (local.go:181-184, 238).
THEOREM NothingOverwritten == Spec => NotOverwritten
<1> DEFINE P == \A a \in Actors : At(a) \in {"publish", "rename"} /\ At(a)' = "entry" /\ ~job[a].flag =>
                  \/ NodeAt(Spot(a)).kind = "none"
                  \/ ~Remote /\ (job[a].changed \/ Spot(a) # Entry(a))
<1>1. IInv /\ [Next]_vars => P
  <2>1. SUFFICES ASSUME IInv, [Next]_vars, NEW a \in Actors, At(a) \in {"publish", "rename"},
                        At(a)' = "entry", ~job[a].flag
                 PROVE  \/ NodeAt(Spot(a)).kind = "none"
                        \/ ~Remote /\ (job[a].changed \/ Spot(a) # Entry(a))
    OBVIOUS
  <2>2. JobInv(job[a]) /\ job[a].was.kind = "none"
    BY <2>1, Types DEF JobInv, UploadInv, At, Uploading
  <2>3. job[a].changed \/ NodeAt(Entry(a)).kind = "none"
    BY <2>1, <2>2, NewNodes DEF JobInv, TargetInv, At, Entry, Uploading
  <2>4. CASE PublishPosix(a)
    BY <2>2, <2>4 DEF PublishPosix
  <2>5. CASE PublishRenames(a)
    BY <2>5, NodeAtFacts DEF PublishRenames, TempThere
  <2>6. CASE PublishLocal(a)
    BY <2>3, <2>6 DEF PublishLocal
  <2>7. QED  BY <2>1, <2>4, <2>5, <2>6, PublishedBy
<1>2. IInv /\ [Next]_vars => [P]_vars
  BY <1>1
<1>3. QED  BY <1>2, TransferInvariant, PTL DEF Spec, NotOverwritten

\* A download never leaves a truncated file in place, unless the file was replaced between the
\* announcement of its size and its opening (files_cmd.go:236-237).
THEOREM DownloadsAreWhole == Spec => DownloadIsWhole
<1> DEFINE P == mine' = "part" /\ mine # "part" =>
                  \E a \in Actors : At(a) \in {"keep", "rekeep"} /\ job[a].changed
<1>1. IInv /\ [Next]_vars => P
  <2>1. SUFFICES ASSUME IInv, [Next]_vars, mine' = "part", mine # "part"
                 PROVE  \E a \in Actors : At(a) \in {"keep", "rekeep"} /\ job[a].changed
    OBVIOUS
  <2>2. \A a \in Actors : ~KeepRemoves(a)
    BY <2>1 DEF KeepRemoves
  <2>3. \A a \in Actors : ~UploadStep(a) /\ ~LookStep(a) /\ ~OtherStep(a)
    BY <2>1 DEF UploadStep, CreateTemp, CopyBody, CopyFails, Chmod, ChmodFails, PublishLocal, PublishPosix,
       Replaces, PublishRemoves, PublishRenames, PublishFails, CleanTemp, CleanFails, EntryFor, LookStep,
       Deny, Resolve, Check, LookUpload, LookRead, LookMkdir, LookRemove, LookList, LooksAt, ReadDir, Filter,
       LookFails, Answer, OtherStep, Mkdir, Remove, ChangeFails, Change, FilesStay
  <2>4. \A a \in Actors : ~OpenFile(a) /\ ~Received(a) /\ ~Cut(a)
    BY <2>1 DEF OpenFile, Received, Cut, FilesStay
  <2>5. PICK a \in Actors : Keep(a) \/ KeepAgain(a)
    BY <2>1, <2>2, <2>3, <2>4 DEF Next, Step, DownloadStep, DownloadBegins, RequestBegins, Begins, Shell,
       GoesDown, DaemonDies, Idle, vars
  <2>6. job[a].got = "part" /\ At(a) \in {"keep", "rekeep"}
    BY <2>1, <2>5 DEF Keep, KeepAgain
  <2>7. QED  BY <2>1, <2>6, Types DEF JobInv, DownloadInv, At
<1>2. IInv /\ [Next]_vars => [P]_vars
  BY <1>1
<1>3. QED  BY <1>2, TransferInvariant, PTL DEF Spec, DownloadIsWhole
=============================================================================
