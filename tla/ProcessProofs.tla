---------------------------- MODULE ProcessProofs ----------------------------
(***************************************************************************)
(* Proofs about Process, for any amount of output: the buffer is not       *)
(* closed before it has what the process has printed.                      *)
(***************************************************************************)
EXTENDS Process, TLAPS

Copiers == [at : {"read", "write", "done"}, taken : Nat, stored : Nat]

Shape ==
  /\ kind \in Kinds /\ main \in {"running", "exited"}
  /\ helper \in BOOLEAN /\ closed \in BOOLEAN /\ late \in BOOLEAN
  /\ ours \subseteq Streams /\ cut \subseteq Streams /\ channel \in {"open", "eof", "closed"}
  /\ printed \in [AllStreams -> 0..MaxOutput] /\ owed \in [AllStreams -> 0..MaxOutput]
  /\ copy \in [AllStreams -> Copiers]
  /\ waiter \in {"wait", "drain", "copies", "files", "close", "done"}
  /\ term \in {"none", "signal", "grace", "kill", "killed", "back"}
  /\ files \in [call : {"idle", "opening", "back"}, backend : {"none", "open", "closed"}]

\* Why output may be missing.
Excused(s) == late \/ s \in cut

\* A copy that is over has what the process owes, or will owe, and so has one whose end
\* was closed.
StreamInv(s) ==
  /\ copy[s].stored <= copy[s].taken /\ copy[s].taken <= printed[s] /\ owed[s] <= printed[s]
  /\ copy[s].at = "read" => copy[s].stored = copy[s].taken
  /\ s \in Streams /\ copy[s].at = "done" =>
       \/ Excused(s)
       \/ main = "exited" /\ copy[s].stored >= owed[s]
       \/ kind = "ssh" /\ ours = {} /\ copy[s].stored >= printed[s]
  /\ s \in Streams \ ours /\ copy[s].at # "done" =>
       \/ Excused(s)
       \/ kind = "pipe" /\ main = "exited" /\ copy[s].taken >= owed[s]
       \/ kind = "ssh" /\ ours = {} /\ copy[s].taken >= printed[s]

\* The waiter is done when the copies are, or when they are given up.  A server ends the
\* output of a command that has ended; our ends of a connection are closed together.
WaitInv ==
  /\ waiter \in {"files", "close", "done"} => late \/ Copied
  /\ waiter = "wait" /\ kind # "ssh" => cut = {}
  /\ channel # "open" => kind = "ssh" /\ main = "exited"
  /\ kind = "ssh" => ours \in {{}, Streams}
  /\ closed => Done

IInv == Shape /\ (\A s \in AllStreams : StreamInv(s)) /\ WaitInv

\* Nothing is printed and nobody has been asked for anything.
LEMMA InitInv == Init => IInv
<1> SUFFICES ASSUME Init PROVE IInv
  OBVIOUS
<1>1. MaxOutput \in Nat
  BY Zenon, OutputAssumption
<1>2. Shape
  <2>1. printed \in [AllStreams -> 0..MaxOutput] /\ owed \in [AllStreams -> 0..MaxOutput]
    BY <1>1 DEF Init
  <2>2. copy \in [AllStreams -> Copiers]
    <3>1. \A s \in AllStreams :
            [at |-> IF s \in Streams THEN "read" ELSE "done", taken |-> 0, stored |-> 0] \in Copiers
      BY DEF Copiers
    <3>2. QED  BY <3>1, Zenon DEF Init
  <2>3. files \in [call : {"idle", "opening", "back"}, backend : {"none", "open", "closed"}]
    BY DEF Init
  <2>4. helper \in BOOLEAN /\ closed \in BOOLEAN /\ late \in BOOLEAN
    BY Zenon DEF Init
  <2>5. QED  BY <2>1, <2>2, <2>3, <2>4 DEF Init, Shape, Kinds
<1>3. \A s \in AllStreams : StreamInv(s)
  BY DEF Init, StreamInv, Streams, AllStreams
<1>4. WaitInv
  BY DEF Init, WaitInv, Streams, Done, Kinds
<1>5. QED  BY <1>2, <1>3, <1>4 DEF IInv

\* The program prints, exits or is killed, the server ends its output or the connection
\* is lost, and Terminate is called.
LEMMA ProgramInv ==
  ASSUME IInv, UNCHANGED <<kind, copy, waiter, closed, late>>,
         files' \in [call : {"idle", "opening", "back"}, backend : {"none", "open", "closed"}],
         term' \in {"none", "signal", "grace", "kill", "killed", "back"},
         helper' \in BOOLEAN,
         \/ UNCHANGED <<main, owed, printed>>
         \/ Ends /\ UNCHANGED printed
         \/ /\ \E s \in AllStreams : /\ printed["out"] + printed["err"] < MaxOutput
                                    /\ printed' = [printed EXCEPT ![s] = @ + 1]
            /\ UNCHANGED <<main, owed, ours>> /\ (kind = "ssh" => ours # {}),
         \/ UNCHANGED channel
         \/ kind = "ssh" /\ main = "exited" /\ channel' \in {"eof", "closed"},
         \/ UNCHANGED <<ours, cut>>
         \/ kind = "ssh" /\ ours # {} /\ ours' = {} /\ cut' = cut \cup Unread
  PROVE  IInv'
<1>1. MaxOutput \in Nat
  BY Zenon, OutputAssumption
<1>2. Streams' = Streams /\ Shape /\ WaitInv
  BY DEF Streams, IInv
<1>3. /\ main' \in {"running", "exited"} /\ (main = "exited" => main' = "exited")
      /\ printed' \in [AllStreams -> 0..MaxOutput] /\ owed' \in [AllStreams -> 0..MaxOutput]
  <2>1. ASSUME NEW s \in AllStreams, printed["out"] + printed["err"] < MaxOutput
        PROVE  printed[s] + 1 \in 0..MaxOutput
    BY <2>1, <1>1, <1>2 DEF Shape, AllStreams
  <2>2. QED  BY <2>1, <1>1, <1>2 DEF Ends, Shape
<1>4. \A s \in AllStreams : /\ printed[s] <= printed'[s] /\ owed'[s] <= printed'[s]
                            /\ main = "exited" => owed'[s] = owed[s]
                            /\ kind = "ssh" /\ ours = {} => printed'[s] = printed[s]
                            /\ kind = "ssh" /\ ours' # ours => printed'[s] = printed[s]
  BY <1>1, <1>2 DEF Ends, Shape, IInv, StreamInv
<1>5. Shape'
  <2>1. channel' \in {"open", "eof", "closed"} /\ ours' \subseteq Streams /\ cut' \subseteq Streams
    BY <1>2 DEF Shape, Unread
  <2>2. QED  BY <1>2, <1>3, <2>1 DEF Shape
<1>6. ASSUME NEW s \in AllStreams PROVE StreamInv(s)'
  <2>1. copy[s] \in Copiers /\ printed[s] \in Nat /\ printed'[s] \in Nat /\ owed[s] \in Nat /\ owed'[s] \in Nat
    BY <1>2, <1>3, <1>1 DEF Shape
  <2>2. StreamInv(s)
    BY DEF IInv
  <2>3. CASE UNCHANGED <<ours, cut>>
    BY <2>1, <2>2, <2>3, <1>2, <1>3, <1>4 DEF StreamInv, Excused, Copiers
  <2>4. CASE kind = "ssh" /\ ours # {} /\ ours' = {} /\ cut' = cut \cup Unread
    <3>1. printed'[s] = printed[s] /\ s \in Streams /\ s \in ours
      BY <2>4, <1>2, <1>4 DEF WaitInv, Streams, AllStreams
    <3>2. copy[s].taken < printed[s] => s \in cut'
      BY <2>4, <3>1 DEF Unread
    <3>3. s \in cut => s \in cut'
      BY <2>4
    <3>4. QED  BY <2>1, <2>2, <2>4, <3>1, <3>2, <3>3, <1>2, <1>3, <1>4 DEF StreamInv, Excused, Copiers
  <2>5. QED  BY <2>3, <2>4
<1>7. WaitInv'
  BY <1>2, <1>3 DEF WaitInv, Copied, Done
<1>8. QED  BY <1>5, <1>6, <1>7 DEF IInv

\* What an update of one field of a copy makes of it.
LEMMA CopierUpdates ==
  ASSUME NEW r \in Copiers
  PROVE  /\ \A v \in {"read", "write", "done"} : LET c == [r EXCEPT !.at = v] IN
              c \in Copiers /\ c.at = v /\ c.taken = r.taken /\ c.stored = r.stored
         /\ \A v \in Nat : LET c == [r EXCEPT !.taken = v] IN
              c \in Copiers /\ c.at = r.at /\ c.taken = v /\ c.stored = r.stored
         /\ \A v \in Nat : LET c == [r EXCEPT !.stored = v] IN
              c \in Copiers /\ c.at = r.at /\ c.taken = r.taken /\ c.stored = v
BY DEF Copiers

\* The copies take, store and end.
LEMMA CopyInv ==
  ASSUME IInv, NEW s \in AllStreams, Copies(s)
  PROVE  IInv'
<1>1. /\ kind' = kind /\ main' = main /\ helper' = helper /\ printed' = printed /\ owed' = owed
      /\ waiter' = waiter /\ closed' = closed /\ term' = term /\ files' = files
      /\ late' = late /\ cut' = cut /\ channel' = channel /\ Streams' = Streams
      /\ (ours' = ours \/ (kind = "pty" /\ ours' = ours \ {s}))
  BY DEF Copies, CopyReads, CopyWrites, CopyEnds, CopyStays, Program, History, Streams
<1>2. /\ Shape /\ WaitInv /\ MaxOutput \in Nat /\ copy[s] \in Copiers /\ StreamInv(s)
      /\ printed[s] \in Nat /\ owed[s] \in Nat
  BY OutputAssumption DEF IInv, Shape
<1>3. PICK c \in Copiers : /\ copy' = [copy EXCEPT ![s] = c]
                           /\ copy[s].at # "done" /\ c.stored <= c.taken /\ c.taken <= printed[s]
                           /\ c.at = "read" => c.stored = c.taken
                           /\ c.at = "done" =>
                                /\ c.stored = copy[s].stored
                                /\ closed \/ (CopyEnds(s) /\ copy[s].at = "read")
                           /\ copy[s].taken <= c.taken
                           /\ c.at # "done" => ours' = ours
  <2> DEFINE old == copy[s]
  <2>1. CASE CopyReads(s)
    <3>1. PICK n \in old.taken + 1 .. printed[s] :
            copy' = [copy EXCEPT ![s].at = "write", ![s].taken = n]
      BY <2>1 DEF CopyReads
    <3>2. n \in Nat /\ old.taken <= n /\ n <= printed[s] /\ old.at = "read"
      BY <1>2, <2>1 DEF Copiers, CopyReads
    <3> DEFINE i == [old EXCEPT !.at = "write"]
               c == [i EXCEPT !.taken = n]
    <3>3. i \in Copiers /\ i.at = "write" /\ i.stored = old.stored
      BY <1>2, CopierUpdates
    <3> HIDE DEF i
    <3>4. c \in Copiers /\ c.at = "write" /\ c.taken = n /\ c.stored = old.stored
      BY <3>2, <3>3, CopierUpdates
    <3>5. copy' = [copy EXCEPT ![s] = c]
      BY <1>2, <3>1 DEF Shape, i
    <3> HIDE DEF c
    <3>6. old.stored <= old.taken /\ old.stored \in Nat /\ old.taken \in Nat
      BY <1>2 DEF StreamInv, Copiers
    <3>7. old.stored <= n
      BY <3>2, <3>6
    <3>8. QED  BY <3>2, <3>4, <3>5, <3>7, <2>1 DEF CopyReads
  <2>2. CASE CopyWrites(s) /\ closed
    <3> DEFINE c == [old EXCEPT !.at = "done"]
    <3>1. copy' = [copy EXCEPT ![s] = c] /\ old.at = "write"
      BY <2>2 DEF CopyWrites
    <3>2. c \in Copiers /\ c.at = "done" /\ c.taken = old.taken /\ c.stored = old.stored
      BY <1>2, CopierUpdates
    <3> HIDE DEF c
    <3>3. old.stored <= old.taken /\ old.taken <= printed[s] /\ old.taken <= old.taken
      BY <1>2 DEF StreamInv, Copiers
    <3>4. QED  BY <3>1, <3>2, <3>3, <2>2
  <2>3. CASE CopyWrites(s) /\ ~closed
    <3>1. PICK n \in Nat : n = old.taken
      BY <1>2 DEF Copiers
    <3> DEFINE i == [old EXCEPT !.at = "read"]
               c == [i EXCEPT !.stored = n]
    <3>2. copy' = [copy EXCEPT ![s] = c] /\ old.at = "write" /\ ours' = ours
      BY <2>3, <3>1 DEF CopyWrites
    <3>3. i \in Copiers /\ i.at = "read" /\ i.taken = old.taken
      BY <1>2, CopierUpdates
    <3> HIDE DEF i
    <3>4. n \in Nat /\ i \in Copiers
      BY <3>1, <3>3
    <3>5. c \in Copiers /\ c.at = i.at /\ c.taken = i.taken /\ c.stored = n
      BY ONLY <3>4 DEF Copiers
    <3> HIDE DEF c
    <3>6. c \in Copiers /\ c.at = "read" /\ c.taken = old.taken /\ c.stored = n
      BY <3>3, <3>5
    <3>7. n <= printed[s] /\ n <= n
      BY <1>2, <3>1 DEF StreamInv
    <3>8. QED  BY <3>1, <3>2, <3>6, <3>7
  <2>4. CASE CopyEnds(s)
    <3> DEFINE c == [old EXCEPT !.at = "done"]
    <3>1. copy' = [copy EXCEPT ![s] = c] /\ old.at = "read"
      BY <1>2, <2>4 DEF CopyEnds, Shape
    <3>2. c \in Copiers /\ c.at = "done" /\ c.taken = old.taken /\ c.stored = old.stored
      BY <1>2, CopierUpdates
    <3> HIDE DEF c
    <3>3. old.stored <= old.taken /\ old.taken <= printed[s] /\ old.taken <= old.taken
      BY <1>2 DEF StreamInv, Copiers
    <3>4. QED  BY <3>1, <3>2, <3>3, <2>4
  <2>5. QED  BY <2>1, <2>2, <2>3, <2>4 DEF Copies
<1>4. Shape'
  BY <1>1, <1>2, <1>3 DEF Shape
<1>5. /\ copy'[s] = c /\ \A t \in AllStreams : t # s => copy'[t] = copy[t]
  BY <1>2, <1>3 DEF Shape
<1>6. s \in Streams => ~Copied
  BY <1>3 DEF Copied
<1>7. WaitInv'
  BY <1>1, <1>2, <1>3, <1>5, <1>6 DEF WaitInv, Copied, Done, Streams, AllStreams
<1>8. ASSUME NEW t \in AllStreams PROVE StreamInv(t)'
  <2>1. CASE t # s
    BY <1>1, <1>5, <2>1 DEF IInv, StreamInv, Excused
  <2>2. CASE t = s /\ c.at # "done"
    BY <1>1, <1>2, <1>3, <1>5, <2>2 DEF StreamInv, Excused, Copiers
  <2>3. CASE t = s /\ c.at = "done" /\ CopyEnds(s)
    BY <1>1, <1>2, <1>3, <1>5, <2>3 DEF CopyEnds, AtEOF, StreamInv, WaitInv, Excused, Copiers
  <2>4. CASE t = s /\ c.at = "done" /\ closed
    BY <1>1, <1>2, <1>3, <1>5, <1>6, <2>4 DEF WaitInv, Done, StreamInv, Excused, Copiers
  <2>5. QED  BY <2>1, <2>2, <2>3, <2>4, <1>3
<1>9. QED  BY <1>4, <1>7, <1>8 DEF IInv

\* The process ends, the copies are awaited or given up, and everything is closed.
LEMMA WaiterInv ==
  ASSUME IInv, Waiter
  PROVE  IInv'
<1>1. /\ kind' = kind /\ copy' = copy /\ closed' = closed /\ term' = term /\ main' = main
      /\ helper' = helper /\ printed' = printed /\ owed' = owed /\ channel' = channel
      /\ Streams' = Streams /\ (late => late') /\ (Copied' <=> Copied)
  BY DEF Waiter, WaitReturns, Drained, DrainExpires, CopiesWaited, FilesClose, LinkCloses,
     WaiterStays, Program, Streams, Copied
<1>2. Shape /\ WaitInv /\ (\A s \in AllStreams : StreamInv(s))
  BY DEF IInv
<1>3. files' \in [call : {"idle", "opening", "back"}, backend : {"none", "open", "closed"}]
  <2>1. CASE FilesClose
    BY <2>1, <1>2 DEF FilesClose, Shape
  <2>2. CASE ~FilesClose
    BY <2>2, <1>2 DEF Waiter, WaitReturns, Drained, DrainExpires, CopiesWaited, LinkCloses, Shape
  <2>3. QED  BY <2>1, <2>2
<1>4. late' \in BOOLEAN /\ cut' \subseteq Streams /\ ours' \subseteq Streams
      /\ waiter' \in {"drain", "copies", "files", "close", "done"}
  BY <1>2 DEF Waiter, WaitReturns, Drained, DrainExpires, CopiesWaited, FilesClose, LinkCloses, Shape, Unread
<1>5. Shape'
  BY <1>1, <1>2, <1>3, <1>4 DEF Shape
<1>6. WaitInv'
  <2>1. waiter # "done" /\ ~closed
    BY <1>2 DEF Waiter, WaitReturns, Drained, DrainExpires, CopiesWaited, FilesClose, LinkCloses,
       WaitInv, Done
  <2>2. waiter' \in {"files", "close", "done"} => late' \/ Copied
    BY <1>2 DEF Waiter, WaitReturns, Drained, DrainExpires, CopiesWaited, FilesClose, LinkCloses, WaitInv
  <2>3. kind = "ssh" => ours' \in {{}, Streams}
    BY <1>2 DEF Waiter, WaitReturns, Drained, DrainExpires, CopiesWaited, FilesClose, LinkCloses, WaitInv
  <2>4. QED  BY <1>1, <1>2, <1>4, <2>1, <2>2, <2>3 DEF WaitInv
<1>7. ASSUME NEW s \in AllStreams PROVE StreamInv(s)'
  <2>1. copy[s] \in Copiers /\ owed[s] \in Nat /\ printed[s] \in Nat /\ StreamInv(s)
    BY <1>2, OutputAssumption DEF Shape
  <2>2. CASE WaitReturns /\ kind # "pipe"
    BY <2>1, <2>2, <1>1 DEF WaitReturns, StreamInv, Excused
  <2>3. CASE WaitReturns /\ kind = "pipe"
    <3>1. /\ main = "exited" /\ ours' = {} /\ late' = late
          /\ cut' = Unread
      BY <2>3 DEF WaitReturns, Gone
    <3>2. s \in Streams => s \in cut' \/ copy[s].taken >= owed[s]
      BY <2>1, <3>1 DEF StreamInv, Copiers, Unread
    <3>3. copy[s].stored <= copy[s].taken /\ copy[s].taken <= printed[s] /\ owed[s] <= printed[s]
          /\ (copy[s].at = "read" => copy[s].stored = copy[s].taken)
      BY <2>1 DEF StreamInv
    <3>4. s \in Streams /\ copy[s].at = "done" => late \/ s \in cut' \/ copy[s].stored >= owed[s]
      <4>1. cut = {} /\ kind = "pipe"
        BY <1>2, <2>3 DEF WaitReturns, WaitInv
      <4>2. QED  BY <4>1, <2>1 DEF StreamInv, Excused
    <3>5. QED  BY <3>1, <3>2, <3>3, <3>4, <2>3, <1>1 DEF StreamInv, Excused
  <2>4. CASE DrainExpires
    BY <2>1, <2>4, <1>1 DEF DrainExpires, StreamInv, Excused
  <2>5. CASE LinkCloses
    BY <2>1, <2>5, <1>1, <1>2 DEF LinkCloses, StreamInv, Excused, WaitInv, Copied, Shape
  <2>6. CASE Drained \/ CopiesWaited \/ FilesClose
    BY <2>1, <2>6, <1>1 DEF Drained, CopiesWaited, FilesClose, StreamInv, Excused
  <2>7. QED  BY <2>2, <2>3, <2>4, <2>5, <2>6 DEF Waiter
<1>8. QED  BY <1>5, <1>6, <1>7 DEF IInv

\* Every step keeps the invariant.
LEMMA NextInv == IInv /\ [Next]_vars => IInv'
<1> SUFFICES ASSUME IInv, [Next]_vars PROVE IInv'
  OBVIOUS
<1>1. Shape
  BY DEF IInv
<1>2. CASE \E s \in AllStreams : Copies(s)
  BY <1>2, CopyInv
<1>3. CASE Waiter
  BY <1>3, WaiterInv
<1>4. CASE BufferCloses
  <2>1. /\ Done /\ closed' = TRUE /\ kind' = kind /\ ours' = ours /\ copy' = copy /\ waiter' = waiter
        /\ term' = term /\ files' = files /\ late' = late /\ cut' = cut /\ main' = main
        /\ helper' = helper /\ printed' = printed /\ owed' = owed /\ channel' = channel
    BY <1>4 DEF BufferCloses, Program
  <2>2. Shape'
    BY <1>1, <2>1 DEF Shape, Streams
  <2>3. WaitInv'
    BY <2>1 DEF IInv, WaitInv, Done, Copied, Streams
  <2>4. \A s \in AllStreams : StreamInv(s)'
    BY <2>1 DEF IInv, StreamInv, Excused, Streams
  <2>5. QED  BY <2>2, <2>3, <2>4 DEF IInv
<1>5. CASE \E s \in AllStreams : Prints(s)
  BY <1>1, <1>5, ProgramInv DEF Prints, Shape
<1>6. CASE Exits \/ HelperExits \/ ServerEnds \/ LinkBreaks
  BY <1>1, <1>6, ProgramInv DEF Exits, HelperExits, ServerEnds, LinkBreaks, Shape
<1>7. CASE Asks \/ AsksRemote
  BY <1>1, <1>7, ProgramInv DEF Asks, AsksRemote, TermStays, Shape
<1>8. CASE Terminator
  BY <1>1, <1>8, ProgramInv DEF Terminator, Signals, GraceIsOver, Kills, TermReturns, TermStays, Shape
<1>9. CASE SftpAsks \/ SftpReturns
  <2>1. files' \in [call : {"idle", "opening", "back"}, backend : {"none", "open", "closed"}]
    BY <1>1, <1>9 DEF SftpAsks, SftpReturns, Shape
  <2>2. QED
    BY <1>1, <1>9, <2>1, ProgramInv DEF SftpAsks, SftpReturns, FilesStay, Program, History, Shape
<1>10. CASE UNCHANGED vars
  BY <1>1, <1>10, ProgramInv DEF vars, Shape
<1>11. QED
  BY <1>2, <1>3, <1>4, <1>5, <1>6, <1>7, <1>8, <1>9, <1>10 DEF Next, Over

\* A copy that is over, or whose end was closed, has what the process printed before it
\* ended, or one of the two excuses, in every state (proc_local.go:114-131,
\* client.go:181-202).
THEOREM ProcessInvariant == Spec => []IInv
BY InitInv, NextInv, PTL DEF Spec

\* Every variable has the shape the code gives it; nothing is stored twice.
THEOREM TypeCorrect == Spec => []TypeOK
<1>1. IInv => TypeOK
  BY OutputAssumption DEF IInv, TypeOK, Shape, StreamInv, Copiers
<1>2. QED  BY <1>1, ProcessInvariant, PTL

\* Before the buffer is closed it has all the process has printed, however much that is
\* and whatever children the process leaves and whatever its server does, unless the
\* copies have taken longer than they are given, or a stream was closed before it was read
\* (proc_local.go:114-131, client.go:181-190).
THEOREM WholeOutput == Spec => []OutputIsWhole
<1>1. IInv => OutputIsWhole
  <2>1. SUFFICES ASSUME IInv, closed, NEW s \in Streams
                 PROVE  late \/ s \in cut \/ copy[s].stored >= owed[s]
    BY DEF OutputIsWhole
  <2>2. late \/ copy[s].at = "done"
    BY <2>1 DEF IInv, WaitInv, Done, Copied
  <2>3. s \in AllStreams
    BY DEF Streams, AllStreams
  <2>4. copy[s] \in Copiers /\ owed[s] \in Nat /\ printed[s] \in Nat
    BY <2>1, <2>3, OutputAssumption DEF IInv, Shape
  <2>5. copy[s].at = "done" => Excused(s) \/ copy[s].stored >= owed[s]
    BY <2>1, <2>3, <2>4 DEF IInv, StreamInv, Copiers
  <2>6. QED  BY <2>2, <2>5 DEF Excused
<1>2. QED  BY <1>1, ProcessInvariant, PTL
=============================================================================
