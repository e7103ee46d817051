------------------------------- MODULE Process -------------------------------
(***************************************************************************)
(* The process of a session, whichever of the three it is: a local one at  *)
(* a terminal or at pipes (session/proc_local.go, pty_unix.go and          *)
(* terminate_unix.go), or a command at the other end of an SSH connection  *)
(* (sshclient/client.go, session/proc_remote.go).                          *)
(*                                                                         *)
(* Goroutines copy its output to the buffer, one waits for its end and for *)
(* the copies, the exit watcher of the session then closes the buffer, and *)
(* a caller may terminate it, or open the file transfer of the connection. *)
(* Of a connection the client sees only what the server sends: nothing     *)
(* here takes for granted that a server ends, closes or answers anything.  *)
(***************************************************************************)
EXTENDS Naturals, FiniteSets

CONSTANT MaxOutput  \* bound: pieces of output of the streams together

ASSUME OutputAssumption == MaxOutput \in Nat

VARIABLES
  kind,     \* "pty", "pipe" or "ssh"
  main,     \* whether the process runs
  helper,   \* whether a child of it, which has its output open, does
  printed,  \* pieces printed to each stream
  channel,  \* of an SSH session: "open", at its "eof", or "closed" by the server
  ours,     \* the streams whose end on this side is open; of SSH, all or none
  copy,     \* each copy goroutine, and what it has taken and stored
  waiter,   \* the goroutine that closes done
  closed,   \* whether the buffer is
  term,     \* the caller of Terminate
  files,    \* of an SSH connection: its SFTP backend, and the call that opens one
  owed,     \* history: what was printed when the process ended
  late,     \* history: the copies were not waited for any longer
  cut       \* history: the streams closed on this side before they were read

vars == <<kind, main, helper, printed, channel, ours, copy, waiter, closed, term, files, owed, late, cut>>

Kinds   == {"pty", "pipe", "ssh"}
Streams == IF kind = "pty" THEN {"out"} ELSE {"out", "err"}
AllStreams == {"out", "err"}

Init ==
  /\ kind \in Kinds /\ main = "running" /\ helper \in BOOLEAN
  /\ printed = [s \in AllStreams |-> 0] /\ owed = printed
  /\ ours = Streams /\ channel = "open"
  /\ copy = [s \in AllStreams |->
       [at |-> IF s \in Streams THEN "read" ELSE "done", taken |-> 0, stored |-> 0]]
  /\ waiter = "wait" /\ closed = FALSE /\ term = "none"
  /\ files = [call |-> "idle", backend |-> "none"]
  /\ late = FALSE /\ cut = {}

Copied == \A s \in Streams : copy[s].at = "done"
Done   == waiter = "done"

\* What cmd.Wait, Terminate and a lost connection leave unread.
Unread == {s \in Streams : copy[s].taken < printed[s]}

Program == <<main, helper, printed, channel, owed>>
History == <<late, cut>>

-----------------------------------------------------------------------------
(* The program, and a child it leaves behind.                              *)

\* Of a remote program, what the server has sent.
Prints(s) ==
  /\ s \in Streams /\ (main = "running" \/ helper)
  /\ printed["out"] + printed["err"] < MaxOutput
  /\ kind = "ssh" => channel = "open" /\ ours # {}
  /\ printed' = [printed EXCEPT ![s] = @ + 1]
  /\ UNCHANGED <<kind, main, helper, channel, ours, copy, waiter, closed, term, files, owed, late, cut>>

Ends == main' = "exited" /\ owed' = IF main = "running" THEN printed ELSE owed

Exits ==
  /\ main = "running" /\ Ends
  /\ UNCHANGED <<kind, helper, printed, channel, ours, copy, waiter, closed, term, files, late, cut>>
HelperExits ==
  /\ helper /\ helper' = FALSE
  /\ UNCHANGED <<kind, main, printed, channel, ours, copy, waiter, closed, term, files, owed, late, cut>>

\* The server: it ends the output and closes the channel when it likes after the command
\* has ended, and waits as a rule for the children that hold the output.
ServerEnds ==
  /\ kind = "ssh" /\ main = "exited" /\ ours # {}
  /\ \/ channel = "open" /\ channel' = "eof"
     \/ channel # "closed" /\ channel' = "closed"
  /\ UNCHANGED <<kind, main, helper, printed, ours, copy, waiter, closed, term, files, owed, late, cut>>
\* The connection is lost, at any time, with what it has not delivered.
LinkBreaks ==
  /\ kind = "ssh" /\ ours # {} /\ ours' = {} /\ cut' = cut \cup Unread
  /\ UNCHANGED <<kind, main, helper, printed, channel, copy, waiter, closed, term, files, owed, late>>

-----------------------------------------------------------------------------
(* The copy goroutines, io.Copy to the buffer.                             *)

CopyStays == UNCHANGED <<kind, waiter, closed, term, files>> /\ UNCHANGED Program /\ UNCHANGED History

\* What an SSH channel has received can be read after the connection is closed.
CopyReads(s) ==
  /\ copy[s].at = "read" /\ (s \in ours \/ kind = "ssh")
  /\ \E n \in copy[s].taken + 1 .. printed[s] :
       copy' = [copy EXCEPT ![s].at = "write", ![s].taken = n]
  /\ CopyStays /\ UNCHANGED ours

\* A mutated form of CopyWrites: what has been stored is stored again.
CopyWritesAgain(s) ==
  /\ copy[s].at = "write"
  /\ copy' = [copy EXCEPT ![s] = [at |-> "read", taken |-> @.taken, stored |-> @.stored + @.taken]]
  /\ CopyStays /\ UNCHANGED ours

\* A closed buffer refuses a Write, and that ends the copy.
CopyWrites(s) ==
  /\ copy[s].at = "write"
  /\ copy' = [copy EXCEPT ![s] = IF closed THEN [@ EXCEPT !.at = "done"]
                                 ELSE [@ EXCEPT !.at = "read", !.stored = copy[s].taken]]
  /\ CopyStays /\ UNCHANGED ours

\* Nobody is left to print, or the server says so.
AtEOF(s) == /\ copy[s].taken = printed[s]
            /\ IF kind = "ssh" THEN channel # "open" ELSE main = "exited" /\ ~helper

\* End-of-file, or our end is closed.  At its end the copy closes a terminal.
CopyEnds(s) ==
  /\ copy[s].at = "read" /\ (s \notin ours \/ AtEOF(s))
  /\ copy' = [copy EXCEPT ![s].at = "done"]
  /\ ours' = IF kind = "pty" THEN ours \ {s} ELSE ours
  /\ CopyStays

-----------------------------------------------------------------------------
(* The goroutine that waits for the process.                               *)

WaiterStays == UNCHANGED <<kind, copy, closed, term>> /\ UNCHANGED Program

\* What Wait waits for: the end of a local process, or of a channel; a remote command that
\* has ended may have left its channel open.
Gone == IF kind = "ssh" THEN channel = "closed" \/ ours = {} ELSE main = "exited"

\* Wait: of a command at pipes it closes our ends of them.
WaitReturns ==
  /\ waiter = "wait" /\ Gone
  /\ IF kind = "pipe"
     THEN waiter' = "copies" /\ ours' = {} /\ cut' = Unread
     ELSE waiter' = "drain" /\ UNCHANGED <<ours, cut>>
  /\ WaiterStays /\ UNCHANGED <<files, late>>

Drained ==
  /\ waiter = "drain" /\ Copied /\ waiter' = IF kind = "ssh" THEN "files" ELSE "copies"
  /\ WaiterStays /\ UNCHANGED <<files, ours, late, cut>>


\* After 200 ms the terminal is closed; after 500 ms the connection is given up.
DrainExpires ==
  /\ waiter = "drain" /\ ~Copied /\ late' = TRUE
  /\ IF kind = "ssh" THEN waiter' = "files" /\ UNCHANGED ours
                     ELSE waiter' = "copies" /\ ours' = {}
  /\ WaiterStays /\ UNCHANGED <<files, cut>>

\* A mutated form of CopiesWaited: done is closed before the last copy.
CopiesUnawaited ==
  /\ waiter = "copies" /\ waiter' = "done"
  /\ WaiterStays /\ UNCHANGED <<files, ours, late, cut>>

\* copyWG.Wait of a local process, which then closes done.
CopiesWaited ==
  /\ waiter = "copies" /\ Copied /\ waiter' = "done"
  /\ WaiterStays /\ UNCHANGED <<files, ours, late, cut>>

\* The cleanup of a connection: the backend under filesMu, then the connection, then done.
FilesClose ==
  /\ waiter = "files" /\ files.call # "opening" /\ waiter' = "close"
  /\ files' = [files EXCEPT !.backend = IF @ = "open" THEN "closed" ELSE @]
  /\ WaiterStays /\ UNCHANGED <<ours, late, cut>>
LinkCloses ==
  /\ waiter = "close" /\ waiter' = "done" /\ ours' = {}
  /\ WaiterStays /\ UNCHANGED <<files, late, cut>>

\* The exit watcher of the session.
BufferCloses ==
  /\ Done /\ ~closed /\ closed' = TRUE
  /\ UNCHANGED <<kind, ours, copy, waiter, term, files, late, cut>> /\ UNCHANGED Program

-----------------------------------------------------------------------------
(* Terminate, once; the Once is the session's.                             *)

TermStays == UNCHANGED <<kind, helper, printed, channel, copy, waiter, closed, files, late>>

Asks ==
  /\ term = "none" /\ kind # "ssh" /\ term' \in IF Done THEN {"back"} ELSE {"signal", "kill"}
  /\ TermStays /\ UNCHANGED <<main, owed, ours, cut>>

\* Of a connection it closes the channel and the connection, read or not.
AsksRemote ==
  /\ term = "none" /\ kind = "ssh" /\ term' = "back" /\ ours' = {}
  /\ cut' = IF ours # {} THEN cut \cup Unread ELSE cut
  /\ TermStays /\ UNCHANGED <<main, owed>>

\* SIGTERM, which the program may ignore.
Signals ==
  /\ term = "signal" /\ term' = "grace"
  /\ Ends \/ UNCHANGED <<main, owed>>
  /\ TermStays /\ UNCHANGED <<ours, cut>>
GraceIsOver ==
  /\ term = "grace" /\ term' = IF Done THEN "back" ELSE "kill"
  /\ TermStays /\ UNCHANGED <<main, owed, ours, cut>>
Kills ==
  /\ term = "kill" /\ term' = "killed" /\ Ends
  /\ TermStays /\ UNCHANGED <<ours, cut>>

\* waitExit, of ten seconds at the most.
TermReturns ==
  /\ term = "killed" /\ term' = "back"
  /\ TermStays /\ UNCHANGED <<main, owed, ours, cut>>

-----------------------------------------------------------------------------
(* SFTP, under filesMu, which is held while the channel is opened.         *)

FilesStay == UNCHANGED <<kind, ours, copy, waiter, closed, term>> /\ UNCHANGED Program /\ UNCHANGED History

SftpAsks ==
  /\ kind = "ssh" /\ files.call = "idle" /\ ~Done /\ files.backend \in {"none", "closed"}
  /\ files' = [files EXCEPT !.call = "opening"]
  /\ FilesStay
\* The server answers, which it may never do, or the connection is gone; the client does
\* not limit the time.
SftpReturns ==
  /\ files.call = "opening"
  /\ \/ files' = [call |-> "back", backend |-> files.backend]
     \/ ours # {} /\ files' = [call |-> "back", backend |-> "open"]
  /\ FilesStay

-----------------------------------------------------------------------------
Copies(s)  == CopyReads(s) \/ CopyWrites(s) \/ CopyEnds(s)
Waiter     == WaitReturns \/ Drained \/ DrainExpires \/ CopiesWaited \/ FilesClose \/ LinkCloses
Terminator == Signals \/ GraceIsOver \/ Kills \/ TermReturns

Over == closed /\ UNCHANGED vars

Next ==
  \/ \E s \in AllStreams : Prints(s) \/ Copies(s)
  \/ Exits \/ HelperExits \/ ServerEnds \/ LinkBreaks \/ Waiter \/ BufferCloses
  \/ Asks \/ AsksRemote \/ Terminator \/ SftpAsks \/ SftpReturns \/ Over

\* Goroutines run and timers fire.  A program need not end and a server need neither
\* answer nor close the channel, so that opening SFTP ends for sure only once the
\* connection is gone.
Spec == Init /\ [][Next]_vars
             /\ \A s \in AllStreams : WF_vars(Copies(s))
             /\ WF_vars(Waiter) /\ WF_vars(Terminator) /\ WF_vars(ours = {} /\ SftpReturns) /\ WF_vars(BufferCloses)

-----------------------------------------------------------------------------
\* Every variable has the shape the code gives it; nothing is stored twice.
TypeOK ==
  /\ kind \in Kinds /\ main \in {"running", "exited"} /\ {helper, closed, late} \subseteq BOOLEAN
  /\ channel \in {"open", "eof", "closed"} /\ ours \subseteq Streams /\ cut \subseteq Streams
  /\ printed \in [AllStreams -> 0..MaxOutput] /\ owed \in [AllStreams -> 0..MaxOutput]
  /\ \A s \in AllStreams : /\ copy[s].at \in {"read", "write", "done"}
                           /\ copy[s].stored <= copy[s].taken /\ copy[s].taken <= printed[s]
  /\ waiter \in {"wait", "drain", "copies", "files", "close", "done"}
  /\ term \in {"none", "signal", "grace", "kill", "killed", "back"}
  /\ files.call \in {"idle", "opening", "back"} /\ files.backend \in {"none", "open", "closed"}

\* Before the buffer is closed it has all the process has printed, unless the copies have
\* taken longer than they are given, or a stream was closed before it was read: a pipe by
\* cmd.Wait, a connection by Terminate or because it was lost (proc_local.go:114-131,
\* client.go:181-190).
OutputIsWhole ==
  closed => \A s \in Streams : late \/ s \in cut \/ copy[s].stored >= owed[s]

\* The server does not answer, and the connection lasts.
Unanswered == files.call = "opening" /\ ours # {}

=============================================================================
