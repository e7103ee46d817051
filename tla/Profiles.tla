------------------------------ MODULE Profiles ------------------------------
(***************************************************************************)
(* internal/configstore: launch configs in local.json and ssh.json, saved, *)
(* deleted and listed by the API handlers of internal/daemon/handlers.go   *)
(* and by `ezterm config` (internal/cli/config_cmd.go).                    *)
(*                                                                         *)
(* The goroutines of the daemon share one Store and so one mutex.  Each    *)
(* command is a process with a Store of its own, and locks nobody out.     *)
(* One action is one read or one atomic replacement of one file.           *)
(***************************************************************************)
EXTENDS Naturals, FiniteSets

CONSTANTS
  Names,       \* names of configs
  Secrets,     \* passwords that may be stored
  Requests,    \* goroutines of API requests
  Commands,    \* processes of `ezterm config`
  MaxRequests  \* bound: how many requests and commands there are

ASSUME ProfileAssumption ==
  /\ MaxRequests \in Nat /\ Requests \cap Commands = {} /\ Names # {}
  /\ Secrets \cap {"none", "key", "ask", "keep", "local", "page", "nopage"} = {}

VARIABLES
  files,    \* what local.json and ssh.json hold of each name
  job,      \* what each actor is doing: where it is, what it was asked, what it has read
  mixed,    \* history: the saves of two processes have overlapped
  requests

vars == <<files, job, mixed, requests>>

Actors    == Requests \cup Commands
Profile   == {"none", "key", "ask"} \cup Secrets  \* "ask": password login, none stored
Files     == [local : [Names -> {"none", "local"}], ssh : [Names -> Profile]]
Unique(f) == \A n \in Names : f.local[n] = "none" \/ f.ssh[n] = "none"

\* What a request may ask: to save a local or an SSH config, with a password, with
\* password_prompt ("ask") or with the password left empty ("keep"); to delete; to
\* list; to start a session with or without a Web page.
Wants ==
  [op : {"local"}, name : Names, value : {"local"}]
    \cup [op : {"ssh"}, name : Names, value : {"key", "ask", "keep"} \cup Secrets]
    \cup [op : {"delete", "list"}, name : Names, value : {"none"}]
    \cup [op : {"start"}, name : Names, value : {"page", "nopage"}]

\* A job: exists is configType's answer, seen the file that was loaded, put the value
\* to be stored or the file to delete from; touched is history: whether somebody else
\* has changed what is stored of its name meanwhile.
NewJob(where, w) ==
  [at |-> where, want |-> w, exists |-> FALSE, put |-> w.value,
   seen |-> [n \in Names |-> "none"], touched |-> FALSE]
NoJob == NewJob("idle", [op |-> "list", name |-> CHOOSE n \in Names : TRUE, value |-> "none"])

Init ==
  /\ files \in {f \in Files : Unique(f)}
  /\ job = [a \in Actors |-> NoJob] /\ mixed = FALSE /\ requests = 0

At(a)    == job[a].at
Op(a)    == job[a].want.op
Name(a)  == job[a].want.name
Asked(a) == job[a].want.value
Goto(a, where) == job' = [job EXCEPT ![a].at = where]
Ends(a)        == job' = [job EXCEPT ![a] = NoJob]
Stays          == UNCHANGED <<files, mixed, requests>>

-----------------------------------------------------------------------------
(* Store.mu, a sync.RWMutex in each process.                               *)

Peers(a)    == IF a \in Commands THEN {a} ELSE Requests
Writing(a)  == At(a) \in {"load", "write", "unload", "remove"}
CanRead(a)  == \A b \in Peers(a) : ~Writing(b)
CanWrite(a) == CanRead(a) /\ \A b \in Peers(a) : At(b) # "listed"
Mixes(a)    == \E b \in Actors \ Peers(a) : Writing(b)

-----------------------------------------------------------------------------
(* What begins a request or a command.                                     *)

Begins(a, where, w) ==
  /\ At(a) = "idle" /\ requests < MaxRequests
  /\ requests' = requests + 1
  /\ job' = [job EXCEPT ![a] = NewJob(where, w)]
  /\ UNCHANGED <<files, mixed>>

\* The handlers of /api/configs and of POST /api/sessions.
RequestBegins(a, w) ==
  /\ a \in Requests
  /\ Begins(a, CASE w.op \in {"local", "ssh"} -> "find" [] w.op = "start" -> "check"
                 [] OTHER -> w.op, w)

\* `ezterm config local`, `ssh`, `delete` and `list`.  The command keeps no
\* password: one that is not given is asked for on every start.
CommandBegins(a, w) ==
  /\ a \in Commands /\ w.op # "start" /\ w.value # "keep"
  /\ Begins(a, IF w.op \in {"local", "ssh"} THEN "save" ELSE w.op, w)

-----------------------------------------------------------------------------
(* handleUpsertConfig: configType looks into both files in turn, and an    *)
(* empty password of a profile that exists is taken from what is stored.   *)

FindLocal(a) ==
  /\ At(a) = "find" /\ CanRead(a)
  /\ IF files.local[Name(a)] = "none" THEN Goto(a, "findssh")
     ELSE IF Op(a) = "local" THEN Goto(a, "save") ELSE Ends(a)
  /\ Stays

FindSSH(a) ==
  /\ At(a) = "findssh" /\ CanRead(a)
  /\ LET found == files.ssh[Name(a)] # "none" IN
     IF found /\ Op(a) = "local" THEN Ends(a)
     ELSE job' = [job EXCEPT ![a].exists = found,
                             ![a].at = IF Asked(a) = "keep" THEN "keep" ELSE "save"]
  /\ Stays

\* A mutated form of KeepPassword: an empty password is an empty password.
KeepNothing(a) ==
  /\ At(a) = "keep" /\ CanRead(a)
  /\ job' = [job EXCEPT ![a].put = "ask", ![a].at = "save"]
  /\ Stays

\* The previous profile may be gone by now, and may have logged in with a key.
KeepPassword(a) ==
  /\ At(a) = "keep" /\ CanRead(a)
  /\ LET previous == IF job[a].exists THEN files.ssh[Name(a)] ELSE "ask" IN
     IF previous = "none" THEN Ends(a)
     ELSE job' = [job EXCEPT ![a].put = IF previous \in Secrets THEN previous ELSE "ask",
                             ![a].at = "save"]
  /\ Stays

-----------------------------------------------------------------------------
(* SaveLocal and SaveSSH: the other file is searched for the name, the own *)
(* file is loaded, changed and replaced.                                   *)

Other(op) == IF op = "local" THEN "ssh" ELSE "local"

LockToWrite(a) ==
  /\ mixed' = (mixed \/ Mixes(a))
  /\ UNCHANGED <<files, requests>>

SearchOther(a) ==
  IF files[Other(Op(a))][Name(a)] = "none" THEN Goto(a, "load") ELSE Ends(a)

\* A mutated form of SaveBegins: only the handler looks into the other file.
SaveUnchecked(a) == At(a) = "save" /\ CanWrite(a) /\ Goto(a, "load") /\ LockToWrite(a)

\* A mutated form of SaveBegins: Store.mu is not taken.
SaveUnlocked(a) == At(a) = "save" /\ SearchOther(a) /\ LockToWrite(a)

SaveBegins(a) == At(a) = "save" /\ CanWrite(a) /\ SearchOther(a) /\ LockToWrite(a)

SaveLoads(a) ==
  /\ At(a) = "load"
  /\ job' = [job EXCEPT ![a].seen = files[Op(a)], ![a].at = "write"]
  /\ Stays

\* saveMap: a file is replaced as a whole, and whoever is under way may have
\* read it before.
Replace(a, which, map) ==
  /\ files' = [files EXCEPT ![which] = map]
  /\ job' = [b \in Actors |->
       IF b = a \/ At(b) = "idle" THEN NoJob
       ELSE [job[b] EXCEPT !.touched = @ \/ files[which][Name(b)] # map[Name(b)]]]
  /\ UNCHANGED <<mixed, requests>>

\* A mutated form of SaveWrites: SaveSSH writes to the path of local.json.
SaveElsewhere(a) ==
  /\ At(a) = "write"
  /\ Replace(a, "local", [job[a].seen EXCEPT ![Name(a)] = job[a].put])

SaveWrites(a) ==
  /\ At(a) = "write"
  /\ Replace(a, Op(a), [job[a].seen EXCEPT ![Name(a)] = job[a].put])

\* The write or the rename fails; the file is what it was.
SaveFails(a) == At(a) \in {"write", "remove"} /\ Ends(a) /\ Stays

-----------------------------------------------------------------------------
(* Store.Delete looks into local.json, then into ssh.json.                 *)

DeleteBegins(a) ==
  /\ At(a) = "delete" /\ CanWrite(a)
  /\ IF files.local[Name(a)] = "none" THEN Goto(a, "unload")
     ELSE job' = [job EXCEPT ![a].seen = files.local, ![a].put = "local", ![a].at = "remove"]
  /\ LockToWrite(a)

DeleteLoads(a) ==
  /\ At(a) = "unload"
  /\ IF files.ssh[Name(a)] = "none" THEN Ends(a)
     ELSE job' = [job EXCEPT ![a].seen = files.ssh, ![a].put = "ssh", ![a].at = "remove"]
  /\ Stays

DeleteWrites(a) ==
  /\ At(a) = "remove"
  /\ Replace(a, job[a].put, [job[a].seen EXCEPT ![Name(a)] = "none"])

-----------------------------------------------------------------------------
(* Store.ListAll, and the start of a session from a profile.               *)

ListLocal(a) ==
  /\ At(a) = "list" /\ CanRead(a)
  /\ job' = [job EXCEPT ![a].seen = files.local, ![a].at = "listed"]
  /\ Stays

ListSSH(a) == At(a) = "listed" /\ Ends(a) /\ Stays

\* requiresWebPassword: a password nobody could enter is refused.
StartChecks(a) ==
  /\ At(a) = "check" /\ CanRead(a)
  /\ IF files.ssh[Name(a)] = "ask" /\ Asked(a) = "nopage" THEN Ends(a) ELSE Goto(a, "start")
  /\ Stays

\* New loads the profile again: one without a password awaits it.
StartLoads(a) == At(a) = "start" /\ CanRead(a) /\ Ends(a) /\ Stays

-----------------------------------------------------------------------------
Step(a) ==
  \/ FindLocal(a) \/ FindSSH(a) \/ KeepPassword(a)
  \/ SaveBegins(a) \/ SaveLoads(a) \/ SaveWrites(a) \/ SaveFails(a)
  \/ DeleteBegins(a) \/ DeleteLoads(a) \/ DeleteWrites(a)
  \/ ListLocal(a) \/ ListSSH(a)
  \/ StartChecks(a) \/ StartLoads(a)

Idle == (\A a \in Actors : At(a) = "idle") /\ UNCHANGED vars

Next ==
  \/ \E a \in Actors : Step(a) \/ \E w \in Wants : RequestBegins(a, w) \/ CommandBegins(a, w)
  \/ Idle

Spec == Init /\ [][Next]_vars

-----------------------------------------------------------------------------
\* Every variable has the shape the code gives it.
TypeOK ==
  /\ files \in Files /\ mixed \in BOOLEAN /\ requests \in 0..MaxRequests
  /\ job \in [Actors -> [
       at : {"idle", "find", "findssh", "keep", "save", "load", "write", "delete",
             "unload", "remove", "list", "listed", "check", "start"},
       want : Wants, exists : BOOLEAN,
       put : {"none", "key", "ask", "keep", "local", "ssh", "page", "nopage"} \cup Secrets,
       seen : [Names -> {"local"} \cup Profile],
       touched : BOOLEAN]]

\* "Names are unique across both types" (configstore/store.go:20-21), as long as
\* no two processes save at once: what one has searched, the other may have
\* written since (store.go:133-187).
NamesAreUnique == mixed \/ Unique(files)

\* A save or deletion of one config leaves every other as it is: no update is
\* lost between the loading of a file and its replacement, unless a second
\* process saves at that time (store.go:143-157, 172-186, 233-264).
OthersAreKept ==
  [][mixed \/ \A a \in Actors : At(a) \in {"write", "remove"} /\ At(a)' = "idle" =>
       \A n \in Names \ {Name(a)} :
         files'.local[n] = files.local[n] /\ files'.ssh[n] = files.ssh[n]]_vars

\* What API.md:459-466 promises of the stored password.
Promised(old, asked) == IF asked # "keep" THEN asked
                        ELSE IF old \in Secrets THEN old ELSE "ask"

\* An update through the API stores the password it was given, forgets it when told
\* to prompt, and keeps the stored one when it was given none, unless somebody else
\* wrote that config meanwhile (handlers.go:431-462).
PasswordIsKept ==
  [][\A a \in Requests :
       /\ At(a) = "write" /\ Op(a) = "ssh" /\ files' # files /\ At(a)' = "idle"
       /\ ~job[a].touched
       => files'.ssh[Name(a)] = Promised(files.ssh[Name(a)], Asked(a))]_vars
=============================================================================
