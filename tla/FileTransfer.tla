---------------------------- MODULE FileTransfer ----------------------------
(***************************************************************************)
(* internal/files and the handlers of internal/daemon/files.go: listing,   *)
(* downloading, uploading, creating and deleting files of a session, on    *)
(* the daemon's own file system (Local) or through SFTP, and the download  *)
(* command of internal/cli/files_cmd.go.                                   *)
(*                                                                         *)
(* Requests of several goroutines interleave between any two operations on *)
(* the file system, and every operation takes its path anew; the session's *)
(* own process, the shell, changes files, directories and links under      *)
(* them; operations fail, an SFTP connection goes down, the daemon dies.   *)
(* The tree is small: a root with a file "f", a directory "d", a symlink   *)
(* "l", the daemon's data directory "data", and an "f" in either directory.*)
(***************************************************************************)
EXTENDS Naturals

CONSTANTS
  Actors,       \* goroutines of requests
  Asked,        \* bound: the paths requests name, besides the root
  MaxRequests,  \* bound: requests
  MaxTrouble    \* bound: changes by the shell and failing operations

ASSUME TransferAssumption ==
  /\ Actors \cap {"none", "old", "shell", "part"} = {}
  /\ Asked \subseteq {"f", "d", "l", "data", "d/f", "data/f", "l/f"}
  /\ {MaxRequests, MaxTrouble} \subseteq Nat

VARIABLES
  backend,  \* "local", or "sftp" with ("posix") and without ("plain") posix-rename
  fs,       \* the node of each entry of the tree
  job,      \* what each goroutine is doing
  up,       \* the session runs and its connection is there
  litter,   \* directories with temporary files nobody will remove any more
  mine,     \* the file the download command writes on its own machine
  count     \* requests, and shell changes and faults, so far

vars == <<backend, fs, job, up, litter, mine, count>>

Entries == {"f", "d", "l", "data", "d/f", "data/f"}
Paths   == Entries \cup {"home", "l/f"}
Content == {"old", "shell"} \cup Actors
Leads   == {"home", "f", "d", "data", "data/f", "nowhere"}  \* where a link may lead
Spots   == Entries \cup {"home", "nowhere", "notdir"}     \* what is found under a path
Node(k, v) == [kind |-> k, val |-> v]
Absent  == Node("none", "none")
File(c) == Node("file", c)
Nodes   == {Absent, Node("dir", "none"), Node("special", "none")}
             \cup {File(c) : c \in Content}
             \cup {Node("link", e) : e \in Leads}

Remote == backend # "local"
Ops    == {"list", "mkdir", "remove", "read", "upload"}

\* A job: the path asked for, and the one it goes by once that is resolved; the entry it
\* has looked at and what was there; its temporary file and the directory it is in; what
\* it has read or shows.  History: the entry was changed by another since, or anything on
\* the way of the path since it was resolved.
NewJob(where, op, path, flag) ==
  [at |-> where, op |-> op, path |-> path, flag |-> flag, real |-> path, entry |-> "nowhere",
   was |-> Absent, temp |-> "none", dir |-> "none", got |-> "none", shown |-> {},
   changed |-> FALSE, moved |-> FALSE]
NoJob == NewJob("idle", "list", "home", FALSE)

\* (Bound: whether the download command's own file is there goes with the link.)
Init ==
  /\ backend \in {"local", "posix", "plain"}
  /\ \E f \in {Absent, File("old")}, to \in IF Remote THEN {"f", "d"} ELSE Leads \ {"data/f"} :
       /\ fs = [e \in Entries |->
                  CASE e \in {"f", "data/f"} -> f
                    [] e = "l" -> Node("link", to)
                    [] e = "d/f" -> IF to = "nowhere" THEN Node("special", "none") ELSE Absent
                    [] OTHER -> Node("dir", "none")]
       /\ mine = IF to = "f" THEN "none" ELSE "old"
  /\ job = [a \in Actors |-> NoJob]
  /\ up = TRUE /\ litter = {}
  /\ count = [requests |-> 0, trouble |-> 0]

At(a)      == job[a].at
Entry(a)   == job[a].entry
Goto(a, w) == job' = [job EXCEPT ![a].at = w]
Ends(a)    == job' = [job EXCEPT ![a] = NoJob]
FilesStay  == UNCHANGED <<backend, fs, up, litter, mine, count>>

\* An operation that reaches the file system fails: by a fault, or always once the
\* connection is down.
MayFail ==
  \/ Remote /\ ~up /\ UNCHANGED count
  \/ count.trouble < MaxTrouble /\ count' = [count EXCEPT !.trouble = @ + 1]
MayWork == Remote => up

-----------------------------------------------------------------------------
(* Paths.                                                                  *)

\* ResolveLocal, ResolveRemote and expandTilde: an empty path and "~" are the root,
\* "~/x", a relative x and the absolute path of x are x; another user's home and a
\* path with a NUL byte are refused.
Forms == {"empty", "tilde", "tilde/x", "x", "/x", "tildename", "nul"}
Resolved(form, x) ==
  CASE form \in {"tildename", "nul"} -> "invalid"
    [] form \in {"empty", "tilde"} -> "home"
    [] OTHER -> x
Inputs == {Resolved(form, x) : form \in Forms, x \in Asked} \ {"invalid"}

\* What the system finds under a path, at the moment: links on the way are followed, the
\* last is not.  (Nothing is looked up below a directory made in the place of "f".)
Parent(p) == CASE p = "d/f" -> "d" [] p = "data/f" -> "data" [] p = "l/f" -> "l" [] OTHER -> "home"
NodeAt(e) == CASE e \in Entries -> fs[e]
               [] e = "home"    -> Node("dir", "none")
               [] e = "notdir"  -> Node("special", "none")
               [] OTHER         -> Absent
IsDir(e)  == NodeAt(e).kind = "dir"
Once(e)   == IF NodeAt(e).kind = "link" THEN NodeAt(e).val ELSE e
Real(e)   == Once(Once(Once(e)))
FileIn(d) == CASE d = "home" -> "f" [] d = "d" -> "d/f" [] d = "data" -> "data/f" [] OTHER -> "nowhere"
Walk(p)   ==
  LET dir == Real(Parent(p)) IN
  IF Parent(p) = "home" THEN p
  ELSE IF IsDir(dir) THEN FileIn(dir)
  ELSE IF NodeAt(dir).kind = "none" THEN "nowhere" ELSE "notdir"
Reaches(p) == Real(Walk(p))
Through(p) == {Parent(p), Once(Parent(p)), Real(Parent(p)), Walk(p), Reaches(p)}
Protected  == {"data", "data/f"}

\* Local.denied: as written, or where the links lead if anything is there.
Denied(p) == p \in Protected \/ (Reaches(p) \in Protected /\ NodeAt(Reaches(p)).kind # "none")

\* A mutated form of RealPath: of a missing file the parent is not resolved.
RealPathUnresolved(op, p) ==
  IF op \in {"mkdir", "remove"} THEN Walk(p)
  ELSE IF NodeAt(Walk(p)).kind = "link" THEN Reaches(p) ELSE p

\* Local.resolve follows a last link, and resolves the parent of a file that is not there
\* yet; Mkdir and Remove resolve the parent and work on a link itself.
RealPath(op, p) ==
  IF op \in {"mkdir", "remove"} \/ NodeAt(Walk(p)).kind = "none" THEN Walk(p)
  ELSE IF NodeAt(Walk(p)).kind = "link" THEN Reaches(p) ELSE p

DirOf(e) == CASE e = "d/f" -> "d" [] e = "data/f" -> "data" [] OTHER -> "home"
HasTemp(dir) == \E a \in Actors : job[a].temp # "none" /\ job[a].dir = dir
Children(dir) == {e \in Entries : DirOf(e) = dir /\ fs[e].kind # "none"}
IsEmpty(dir) == Children(dir) = {} /\ ~HasTemp(dir) /\ dir \notin litter

\* Where a job's path leads now, and whether its temporary file is found under its path.
Spot(a)      == Walk(job[a].real)
TempThere(a) == Spot(a) \in Entries /\ DirOf(Spot(a)) = job[a].dir

-----------------------------------------------------------------------------
(* The handlers and the download command begin.                            *)

Begins(a, op, path, flag) ==
  /\ At(a) = "idle" /\ up /\ count.requests < MaxRequests
  /\ count' = [count EXCEPT !.requests = @ + 1]
  /\ job' = [job EXCEPT ![a] = NewJob(IF Remote THEN "look" ELSE "deny", op, path, flag)]
  /\ UNCHANGED <<backend, fs, up, litter, mine>>

\* filesSession wants a running session; flag is "overwrite".  (No directory is made in
\* the place of the link.)
RequestBegins(a, op, path, flag) ==
  /\ op \in Ops \ {"read"} /\ (flag => op = "upload") /\ (op = "mkdir" => path # "l")
  /\ Begins(a, op, path, flag)

\* The download command, flag being --force, looks at its own target first.
DownloadBegins(a, path, flag) == (flag \/ mine = "none") /\ Begins(a, "read", path, FALSE)

-----------------------------------------------------------------------------
(* On the daemon's own file system a path is resolved and checked first.   *)

\* resolvePathOnly refuses what is denied as it stands.
Deny(a) ==
  /\ At(a) = "deny"
  /\ IF Denied(job[a].path) THEN Ends(a)
     ELSE Goto(a, IF job[a].op = "mkdir" THEN "look" ELSE "resolve")
  /\ FilesStay

\* Lstat and EvalSymlinks of the path or of its parent, as one step.  Remove compares
\* with the root before.
Resolve(a) ==
  LET path == job[a].path  real == RealPath(job[a].op, path) IN
  /\ At(a) = "resolve"
  /\ IF \/ Walk(path) \in {"nowhere", "notdir"}
        \/ NodeAt(Walk(path)).kind = "link" /\ NodeAt(real).kind = "none"
        \/ job[a].op = "remove" /\ Reaches(path) = "home"
     THEN Ends(a)
     ELSE job' = [job EXCEPT ![a].real = real, ![a].at = "check", ![a].moved = FALSE]
  /\ FilesStay

\* The path as it was asked for and the resolved one are denied or let pass; the first is
\* only reported from here on.
Check(a) ==
  LET pass == IF job[a].op = "mkdir" THEN "mkdir" ELSE "look" IN
  /\ At(a) = "check"
  /\ IF Denied(job[a].path) \/ Denied(job[a].real) THEN Ends(a)
     ELSE job' = [job EXCEPT ![a].at = pass, ![a].path = job[a].real]
  /\ FilesStay

-----------------------------------------------------------------------------
(* Each operation looks at its target and is refused or goes on.           *)

\* Stat of Local follows a link that has come into the path since.
Looked(a) == IF ~Remote /\ job[a].op \in {"list", "read"} THEN Reaches(job[a].real) ELSE Spot(a)

LooksAt(a, op, where, ok) ==
  /\ At(a) = "look" /\ job[a].op = op /\ MayWork
  /\ job' = [job EXCEPT ![a] = IF ok THEN [@ EXCEPT !.at = where, !.entry = Looked(a),
                                                    !.was = NodeAt(Looked(a)), !.changed = FALSE]
                               ELSE NoJob]
  /\ FilesStay

\* A mutated form of LookUpload: any file that is there may be replaced.
LookUploadAlways(a) == LooksAt(a, "upload", "create", NodeAt(Looked(a)).kind \in {"none", "file"})

LookUpload(a) ==
  LET kind == NodeAt(Looked(a)).kind IN
  LooksAt(a, "upload", "create", kind = "none" \/ (kind = "file" /\ job[a].flag))

LookRead(a) == LooksAt(a, "read", "open", NodeAt(Looked(a)).kind = "file")

\* Local looks at the path as it was asked for, and resolves it now.
LookMkdir(a) ==
  LooksAt(a, "mkdir", IF Remote THEN "mkdir" ELSE "resolve", NodeAt(Looked(a)).kind = "none")

\* The root is refused, and a directory with anything in it.
LookRemove(a) ==
  LET e == Looked(a) IN
  LooksAt(a, "remove", "remove", /\ e \in Entries /\ NodeAt(e).kind # "none"
                                 /\ NodeAt(e).kind = "dir" => IsEmpty(e))

\* List: a directory is read; a file, or over SFTP a link, is shown itself.
LookList(a) ==
  LET e == Looked(a)  kind == NodeAt(e).kind IN
  /\ At(a) = "look" /\ job[a].op = "list" /\ MayWork
  /\ job' = [job EXCEPT ![a] =
       CASE kind = "dir" -> [@ EXCEPT !.at = "readdir"]
         [] kind \in {"file", "link"} -> [@ EXCEPT !.at = "answer", !.shown = {e}]
         [] OTHER -> NoJob]
  /\ FilesStay

\* The paths of what is in the directory of that path.
Below(p) == {c \in Paths \ {"home"} : Parent(c) = p /\ NodeAt(Walk(c)).kind # "none"}

ReadDir(a) ==
  /\ At(a) = "readdir" /\ MayWork
  /\ job' = [job EXCEPT ![a].shown = Below(job[a].real), ![a].at = "filter"]
  /\ FilesStay

\* What is still there is shown; Local hides what it denies, and shows what a link leads
\* to, if anything.
Shown(c) == IF Remote \/ NodeAt(Reaches(c)).kind = "none" THEN Walk(c) ELSE Reaches(c)
Filter(a) ==
  /\ At(a) = "filter" /\ MayWork
  /\ job' = [job EXCEPT ![a].at = "answer", ![a].shown =
       {Shown(c) : c \in {c \in @ : NodeAt(Walk(c)).kind # "none" /\ (Remote \/ ~Denied(c))}}]
  /\ FilesStay

LookFails(a) ==
  At(a) \in {"look", "readdir"} /\ MayFail /\ Ends(a) /\ UNCHANGED <<backend, fs, up, litter, mine>>

Answer(a) == At(a) = "answer" /\ Ends(a) /\ FilesStay

-----------------------------------------------------------------------------
(* Changes of the tree.                                                    *)

GoesByPath(b) == ~Remote /\ At(b) \notin {"idle", "answer", "entry", "stream", "keep", "rekeep"}

\* What the job of b has seen of e, or goes by, was changed by another.
Marked(b, e) ==
  [job[b] EXCEPT !.changed = @ \/ (At(b) # "idle" /\ Entry(b) = e),
                 !.moved = @ \/ (GoesByPath(b) /\ e \in Through(job[b].real))]

\* e becomes n by an operation of a, which then goes on as j.
Change(a, e, n, j) ==
  /\ fs' = [fs EXCEPT ![e] = n]
  /\ job' = [b \in Actors |-> IF b = a THEN j ELSE Marked(b, e)]
  /\ UNCHANGED <<backend, up, litter, mine, count>>

\* Mkdir, rmdir and unlink refuse what is not as they need it.
Mkdir(a) ==
  /\ At(a) = "mkdir" /\ MayWork
  /\ IF Spot(a) \in Entries /\ NodeAt(Spot(a)).kind = "none"
     THEN Change(a, Spot(a), Node("dir", "none"), NoJob) ELSE Ends(a) /\ FilesStay

Remove(a) ==
  LET kind == NodeAt(Spot(a)).kind IN
  /\ At(a) = "remove" /\ MayWork
  /\ IF /\ Spot(a) \in Entries /\ kind # "none" /\ (kind = "dir" => IsEmpty(Spot(a)))
        /\ Remote /\ job[a].was.kind = "dir" => kind = "dir"
     THEN Change(a, Spot(a), Absent, NoJob) ELSE Ends(a) /\ FilesStay

ChangeFails(a) ==
  At(a) \in {"mkdir", "remove", "create", "open"} /\ MayFail /\ Ends(a) /\ UNCHANGED <<backend, fs, up, litter, mine>>

\* The session's process makes, replaces or deletes a file or a link; of a directory,
\* only an empty one.
Replacements(e) ==
  CASE e = "f"   -> {Absent, File("shell"), Node("link", "data/f")}
    [] e = "d/f" -> {Absent, File("shell")}
    [] e = "d"   -> {Node("dir", "none"), Node("link", "data")}
    [] e = "l"   -> {Node("link", to) : to \in {"d", "data"}}
Shell(e) ==
  /\ up /\ count.trouble < MaxTrouble /\ IsDir(DirOf(e))
  /\ fs[e].kind = "dir" => IsEmpty(e)
  /\ \E n \in Replacements(e) \ {fs[e]} : fs' = [fs EXCEPT ![e] = n]
  /\ job' = [b \in Actors |-> Marked(b, e)]
  /\ count' = [count EXCEPT !.trouble = @ + 1]
  /\ UNCHANGED <<backend, up, litter, mine>>

\* The session ends, and its SFTP channel with it.  (To what is under way on the daemon's
\* own file system that makes no difference.)
GoesDown == Remote /\ up /\ up' = FALSE /\ UNCHANGED <<backend, fs, job, litter, mine, count>>

\* The daemon is killed: its requests are over, their temporary files stay.  The download
\* command is a process of its own.
Daemons == {a \in Actors : At(a) \notin {"idle", "keep", "rekeep"}}
DaemonDies ==
  /\ Daemons # {} /\ up' = FALSE
  /\ job' = [a \in Actors |-> IF a \in Daemons THEN NoJob ELSE job[a]]
  /\ litter' = litter \cup {job[a].dir : a \in {b \in Actors : job[b].temp # "none"}}
  /\ UNCHANGED <<backend, fs, mine, count>>

-----------------------------------------------------------------------------
(* Upload.                                                                 *)

CreateTemp(a) ==
  /\ At(a) = "create" /\ MayWork
  /\ IF Spot(a) \in Entries
     THEN job' = [job EXCEPT ![a].temp = "part", ![a].dir = DirOf(Spot(a)), ![a].at = "copy"]
     ELSE Ends(a)
  /\ FilesStay

\* A mutated form of CopyBody: a read error ends the body like its end.
CopyAnyBody(a) == At(a) = "copy" /\ MayWork /\ Goto(a, "chmod") /\ FilesStay

\* The body has been read to its end and the file closed, through its descriptor.
CopyBody(a) ==
  /\ At(a) = "copy" /\ MayWork
  /\ job' = [job EXCEPT ![a].temp = "whole", ![a].at = "chmod"]
  /\ FilesStay

\* The client goes away, its body is cut, or a write fails.
CopyFails(a) == At(a) = "copy" /\ Goto(a, "clean") /\ FilesStay

\* From here on the temporary file goes by its path again.
Chmod(a) == At(a) = "chmod" /\ MayWork /\ TempThere(a) /\ Goto(a, "publish") /\ FilesStay
ChmodFails(a) ==
  /\ At(a) = "chmod" /\ (TempThere(a) => MayFail) /\ (~TempThere(a) => UNCHANGED count)
  /\ Goto(a, "clean") /\ UNCHANGED <<backend, fs, up, litter, mine>>

Published(a) == File(IF job[a].temp = "whole" THEN a ELSE "part")
AfterPublish(a) == [job[a] EXCEPT !.temp = "none", !.at = "entry"]

\* rename(2) and posix-rename replace what is no directory, a link itself too, whether it
\* was there when the upload began or not.
Replaces(a) ==
  /\ At(a) = "publish" /\ TempThere(a) /\ fs[Spot(a)].kind # "dir"
  /\ Change(a, Spot(a), Published(a), AfterPublish(a))

\* A mutated form of PublishLocal: the target goes first.
PublishLocalRemoves(a) ==
  /\ ~Remote /\ At(a) = "publish" /\ TempThere(a)
  /\ IF fs[Spot(a)].kind = "file"
     THEN Change(a, Spot(a), Absent, [job[a] EXCEPT !.at = "rename"])
     ELSE Goto(a, "rename") /\ FilesStay

PublishLocal(a) == ~Remote /\ Replaces(a)
PublishPosix(a) == backend = "posix" /\ up /\ job[a].was.kind # "none" /\ Replaces(a)

\* Without it, or when it fails, the target is removed first, and where its path leads
\* now; the library's Remove falls back to an empty directory.
PublishRemoves(a) ==
  LET kind == NodeAt(Spot(a)).kind IN
  /\ Remote /\ up /\ At(a) = "publish" /\ job[a].was.kind # "none"
  /\ Spot(a) \in Entries /\ kind # "none" /\ (kind = "dir" => IsEmpty(Spot(a)))
  /\ backend = "plain" \/ kind = "dir" \/ ~TempThere(a) \/ count.trouble < MaxTrouble
  /\ Change(a, Spot(a), Absent, [job[a] EXCEPT !.at = "rename"])

\* The SFTP rename does not replace anything.
Renames(a) == At(a) = "rename" \/ (Remote /\ At(a) = "publish" /\ job[a].was.kind = "none")
PublishRenames(a) ==
  /\ Renames(a) /\ MayWork /\ TempThere(a) /\ fs[Spot(a)].kind = "none"
  /\ Change(a, Spot(a), Published(a), AfterPublish(a))

\* What is there, or is not, makes the publication fail, or a fault does.
Blocked(a) ==
  LET kind == NodeAt(Spot(a)).kind IN
  \/ Spot(a) \notin Entries
  \/ Renames(a) /\ (~TempThere(a) \/ kind # "none")
  \/ ~Renames(a) /\ ~Remote /\ (~TempThere(a) \/ kind = "dir")
  \/ /\ ~Renames(a) /\ Remote
     /\ \/ kind = "dir" /\ ~IsEmpty(Spot(a))
        \/ kind = "none" /\ (backend = "plain" \/ ~TempThere(a))
PublishFails(a) ==
  /\ At(a) \in {"publish", "rename"} /\ (Blocked(a) => UNCHANGED count) /\ (~Blocked(a) => MayFail)
  /\ Goto(a, "clean") /\ UNCHANGED <<backend, fs, up, litter, mine>>

\* An upload that has failed removes its temporary file, by its path; an error is ignored.
CleanTemp(a) == At(a) = "clean" /\ MayWork /\ TempThere(a) /\ Ends(a) /\ FilesStay
CleanFails(a) ==
  /\ At(a) = "clean" /\ (TempThere(a) => MayFail) /\ (~TempThere(a) => UNCHANGED count)
  /\ Ends(a) /\ litter' = litter \cup {job[a].dir}
  /\ UNCHANGED <<backend, fs, up, mine>>

\* entryFor looks at what was published; the upload stands whatever it finds.
EntryFor(a) == At(a) = "entry" /\ Ends(a) /\ FilesStay

-----------------------------------------------------------------------------
(* Download.                                                               *)

\* The size announced is that of the file looked at, the bytes are of the one opened.
OpenFile(a) ==
  LET e == Reaches(job[a].real) IN
  /\ At(a) = "open" /\ MayWork
  /\ IF NodeAt(e).kind = "file"
     THEN job' = [job EXCEPT ![a].got = NodeAt(e).val, ![a].at = "stream",
                             ![a].changed = @ \/ e # Entry(a)]
     ELSE Ends(a)
  /\ FilesStay

\* All bytes announced have come.  Of a longer file these are its first ones.
Received(a) ==
  /\ At(a) = "stream" /\ MayWork
  /\ \/ Goto(a, "keep")
     \/ job[a].was # File(job[a].got) /\ job' = [job EXCEPT ![a].got = "part", ![a].at = "keep"]
  /\ FilesStay

\* A mutated form of Cut: what has come is kept.
CutKept(a) == At(a) = "stream" /\ job' = [job EXCEPT ![a].got = "part", ![a].at = "keep"] /\ FilesStay

\* The stream breaks off: the client removes its temporary file.
Cut(a) == At(a) = "stream" /\ Ends(a) /\ FilesStay

\* replaceFile: a rename, and if that fails the target is removed before another one.
Keep(a) ==
  /\ At(a) = "keep" /\ mine' = job[a].got /\ Ends(a)
  /\ UNCHANGED <<backend, fs, up, litter, count>>
KeepRemoves(a) ==
  /\ At(a) = "keep" /\ count.trouble < MaxTrouble
  /\ count' = [count EXCEPT !.trouble = @ + 1]
  /\ mine' = "none" /\ Goto(a, "rekeep")
  /\ UNCHANGED <<backend, fs, up, litter>>
KeepAgain(a) ==
  /\ At(a) = "rekeep"
  /\ mine' \in {job[a].got, mine} /\ Ends(a)
  /\ UNCHANGED <<backend, fs, up, litter, count>>

-----------------------------------------------------------------------------
UploadStep(a) ==
  \/ CreateTemp(a) \/ CopyBody(a) \/ CopyFails(a) \/ Chmod(a) \/ ChmodFails(a)
  \/ PublishLocal(a) \/ PublishPosix(a) \/ PublishRemoves(a) \/ PublishRenames(a)
  \/ PublishFails(a) \/ CleanTemp(a) \/ CleanFails(a) \/ EntryFor(a)
DownloadStep(a) ==
  OpenFile(a) \/ Received(a) \/ Cut(a) \/ Keep(a) \/ KeepRemoves(a) \/ KeepAgain(a)
LookStep(a) ==
  \/ Deny(a) \/ Resolve(a) \/ Check(a)
  \/ LookUpload(a) \/ LookRead(a) \/ LookMkdir(a) \/ LookRemove(a) \/ LookList(a)
  \/ ReadDir(a) \/ Filter(a) \/ LookFails(a) \/ Answer(a)
OtherStep(a) == Mkdir(a) \/ Remove(a) \/ ChangeFails(a)
Step(a) == UploadStep(a) \/ DownloadStep(a) \/ LookStep(a) \/ OtherStep(a)

Idle == (\A a \in Actors : At(a) = "idle") /\ UNCHANGED vars

Next ==
  \/ \E a \in Actors :
       \/ Step(a)
       \/ \E path \in Inputs, flag \in BOOLEAN :
            DownloadBegins(a, path, flag) \/ \E op \in Ops : RequestBegins(a, op, path, flag)
  \/ \E e \in {"f", "d", "l", "d/f"} : Shell(e)
  \/ GoesDown \/ DaemonDies \/ Idle

Spec == Init /\ [][Next]_vars

-----------------------------------------------------------------------------
Places == {"idle", "deny", "resolve", "check", "look", "readdir", "filter", "answer", "mkdir",
           "remove", "create", "copy", "chmod", "publish", "rename", "clean", "entry", "open",
           "stream", "keep", "rekeep"}
Jobs == [
  at : Places, op : Ops, path : Paths, flag : BOOLEAN, real : Paths,
  entry : Entries \cup {"home", "nowhere"}, was : Nodes, temp : {"none", "part", "whole"},
  dir : {"none", "home", "d", "data"}, got : {"none", "part"} \cup Content,
  shown : SUBSET (Paths \cup Spots), changed : BOOLEAN, moved : BOOLEAN]

\* Every variable has the shape the code gives it, and no file of the tree is ever a
\* part of an upload: it is whole or it is not there (local.go:166-235, sftp.go:162-240).
TypeOK ==
  /\ backend \in {"local", "posix", "plain"} /\ up \in BOOLEAN
  /\ fs \in [Entries -> Nodes] /\ litter \subseteq {"home", "d", "data"}
  /\ mine \in {"none", "part"} \cup Content
  /\ count \in [requests : 0..MaxRequests, trouble : 0..MaxTrouble]
  /\ job \in [Actors -> Jobs]

\* "Upload streams r into path, replacing it atomically" (backend.go:27): while an upload
\* is under way, and after it has failed, the file it was to replace is as it was, unless
\* somebody else changed it.  The one exception is SFTP without posix-rename, once the
\* target is removed for the rename (sftp.go:244-259).
TargetStays ==
  \A a \in Actors :
    At(a) \in {"create", "copy", "chmod", "publish", "rename", "clean"} /\ ~job[a].changed
    => \/ NodeAt(Entry(a)) = job[a].was
       \/ Remote /\ At(a) \in {"rename", "clean"} /\ NodeAt(Entry(a)) = Absent

\* "Paths inside denyRoots (the daemon data directory) are rejected and hidden from
\* listings" (local.go:21-22): a path that has been let pass does not lead into the data
\* directory at any later step, and nothing of it is shown.  Excepted by name: something
\* on the way of the path was changed since it was resolved, because the check and the
\* operations take the path one after the other (local.go:322-349, then 156, 188, 230).
Passed(a) == \/ At(a) \in {"readdir", "remove", "create", "copy", "chmod", "publish", "clean", "open"}
             \/ At(a) = "mkdir" \/ (At(a) = "look" /\ job[a].op # "mkdir")
DataIsHidden ==
  ~Remote => \A a \in Actors : ~job[a].moved =>
    /\ Passed(a) => Looked(a) \notin Protected
    /\ At(a) = "answer" => job[a].shown \cap Protected = {}

\* With overwrite=false nothing is replaced; only on the daemon's own file system, where
\* rename replaces, may a file that came after the check be, or one that the path leads to
\* only now (local.go:178-179, 230).
NotOverwritten ==
  [][\A a \in Actors : At(a) \in {"publish", "rename"} /\ At(a)' = "entry" /\ ~job[a].flag =>
       \/ NodeAt(Spot(a)).kind = "none"
       \/ ~Remote /\ (job[a].changed \/ Spot(a) # Entry(a))]_vars

\* "an interrupted transfer never leaves a truncated file in place" (files_cmd.go:236-237),
\* unless the file was replaced between the announcement of its size and its opening.
DownloadIsWhole ==
  [][mine' = "part" /\ mine # "part" =>
       \E a \in Actors : At(a) \in {"keep", "rekeep"} /\ job[a].changed]_vars
=============================================================================
