---------------------------- MODULE OutputBuffer ----------------------------
(***************************************************************************)
(* internal/buffer: the output log a session's process writes and any      *)
(* number of readers drain.  Every critical section of Buffer.mu is one    *)
(* action.  A Read that has to wait leaves the lock holding the current    *)
(* notify channel: `waiting` is the set of such Reads whose channel is     *)
(* still open, so closing and replacing the channel empties it.            *)
(***************************************************************************)
EXTENDS Integers, Sequences

CONSTANTS
  Clients,      \* goroutines that call Read
  Threshold,    \* compactThreshold (8 MiB in the code)
  MinAdvance,   \* compactMinAdvance (1 MiB in the code)
  Limits,       \* the maxBytes arguments tried; 0 means no limit
  MaxBytes,     \* bound: bytes written over a behaviour
  MaxReaders    \* bound: reader IDs handed out over a behaviour

ASSUME SizeAssumption ==
  /\ Threshold \in Nat
  /\ MinAdvance \in Nat \ {0}
  /\ MinAdvance <= Threshold
  /\ Limits \subseteq Nat
  /\ MaxBytes \in Nat
  /\ MaxReaders \in Nat

VARIABLES
  master,       \* retained bytes, each named by its position in the stream
  readers,      \* registered reader ID -> readPos, an offset into master
  nextID,
  closed,
  waiting,      \* parked Reads whose captured notify channel is still open
  parked,       \* clients inside the wait loop of Read, between two locks
  rid, limit,   \* readerID and maxBytes of a parked client's Read
  expired,      \* parked clients whose timer has fired
  cancelled,    \* parked clients whose context is done
  ret,          \* what the client's last Read returned
  produced,     \* history: bytes ever appended
  trimmed       \* history: bytes dropped from the front of master

log    == <<master, readers, closed, trimmed, produced>>
calls  == <<parked, rid, limit, expired, cancelled, ret>>
vars   == <<log, nextID, waiting, calls>>

ReaderIDs == 0..MaxReaders
Outcomes == {"none", "data", "empty", "eof", "invalid", "cancelled"}
Plain(kind) == [kind |-> kind, bytes |-> <<>>]

-----------------------------------------------------------------------------
(* The pure parts of the critical sections.                                *)

\* HasMore, and the test drainLocked starts with.
HasMore(r) == readers[r] < Len(master)

\* Where drainLocked stops: the end, or maxBytes further.
EndPos(r, max) ==
  IF max > 0 /\ readers[r] + max < Len(master)
  THEN readers[r] + max
  ELSE Len(master)

\* p is the minPos of maybeCompactLocked for output m and positions rs.
IsMinPos(p, m, rs) ==
  /\ p <= Len(m)
  /\ \A r \in DOMAIN rs : p <= rs[r]
  /\ p = Len(m) \/ \E r \in DOMAIN rs : rs[r] = p

\* Mutated forms of Compact.  CompactDropsUnread: trims everything, not the
\* part every reader has read.  CompactForgetsShift: the positions keep
\* counting from the old front.
CompactDropsUnread(m, rs) ==
  IF Len(m) > Threshold
  THEN /\ master' = <<>>
       /\ readers' = [r \in DOMAIN rs |-> rs[r] - Len(m)]
       /\ trimmed' = trimmed + Len(m)
  ELSE master' = m /\ readers' = rs /\ UNCHANGED trimmed
CompactForgetsShift(m, rs) ==
  \E p \in 0..Len(m) :
    /\ IsMinPos(p, m, rs)
    /\ IF Len(m) > Threshold /\ p >= MinAdvance
       THEN /\ master' = SubSeq(m, p + 1, Len(m))
            /\ readers' = rs
            /\ trimmed' = trimmed + p
       ELSE master' = m /\ readers' = rs /\ UNCHANGED trimmed

\* maybeCompactLocked, on the output m and positions rs the caller computed.
Compact(m, rs) ==
  \E p \in 0..Len(m) :
    /\ IsMinPos(p, m, rs)
    /\ IF Len(m) > Threshold /\ p >= MinAdvance
       THEN /\ master' = SubSeq(m, p + 1, Len(m))
            /\ readers' = [r \in DOMAIN rs |-> rs[r] - p]
            /\ trimmed' = trimmed + p
       ELSE master' = m /\ readers' = rs /\ UNCHANGED trimmed

\* A mutated form of Notify: a one-shot signal that wakes one of the waiters.
NotifyOne == \/ waiting = {} /\ UNCHANGED waiting
             \/ \E c \in waiting : waiting' = waiting \ {c}

\* notifyLocked: close the channel all waiters hold.
Notify == waiting' = {}

-----------------------------------------------------------------------------
Init ==
  /\ master = <<>>
  /\ readers = [r \in {} |-> 0]
  /\ nextID = 0
  /\ closed = FALSE
  /\ waiting = {} /\ parked = {}
  /\ rid = [c \in Clients |-> 0] /\ limit = [c \in Clients |-> 0]
  /\ expired = {} /\ cancelled = {}
  /\ ret = [c \in Clients |-> Plain("none")]
  /\ produced = 0 /\ trimmed = 0

\* newReaderLocked
Register(pos) ==
  /\ nextID < MaxReaders
  /\ readers' = [r \in DOMAIN readers \cup {nextID} |->
                   IF r = nextID THEN pos ELSE readers[r]]
  /\ nextID' = nextID + 1
  /\ UNCHANGED <<master, closed, trimmed, produced, waiting, calls>>

\* ErrClosed, the other outcome, changes nothing.
NewReader == ~closed /\ Register(Len(master))

NewReaderFromStart == Register(0)

Unregister(r) ==
  /\ r \in DOMAIN readers
  /\ Compact(master, [q \in DOMAIN readers \ {r} |-> readers[q]])
  /\ Notify
  /\ UNCHANGED <<closed, produced, nextID, calls>>

Write(n) ==
  /\ ~closed
  /\ produced + n <= MaxBytes
  /\ produced' = produced + n
  /\ Compact(master \o [i \in 1..n |-> produced + i], readers)
  /\ Notify
  /\ UNCHANGED <<closed, nextID, calls>>

Close ==
  /\ ~closed
  /\ closed' = TRUE
  /\ Notify
  /\ UNCHANGED <<master, readers, trimmed, produced, nextID, calls>>

-----------------------------------------------------------------------------
(* Read.  Leave: the call returns (its frame is forgotten); Park: it        *)
(* releases the lock and selects.                                          *)

Leave(c, result) ==
  /\ ret' = [ret EXCEPT ![c] = result]
  /\ parked' = parked \ {c}
  /\ waiting' = waiting \ {c}
  /\ expired' = expired \ {c}
  /\ cancelled' = cancelled \ {c}
  /\ rid' = [rid EXCEPT ![c] = 0]
  /\ limit' = [limit EXCEPT ![c] = 0]

\* Mutated forms of Drain: the advance is not followed by a compaction; the
\* position jumps to the end although maxBytes cut the result.
DrainUncompacted(c, r, max) ==
  LET end == EndPos(r, max) IN
  /\ HasMore(r)
  /\ Leave(c, [kind |-> "data", bytes |-> SubSeq(master, readers[r] + 1, end)])
  /\ readers' = [readers EXCEPT ![r] = end]
  /\ UNCHANGED <<master, trimmed, closed, produced, nextID>>
DrainSkipsRest(c, r, max) ==
  /\ HasMore(r)
  /\ Leave(c, [kind |-> "data",
               bytes |-> SubSeq(master, readers[r] + 1, EndPos(r, max))])
  /\ Compact(master, [readers EXCEPT ![r] = Len(master)])
  /\ UNCHANGED <<closed, produced, nextID>>

\* drainLocked finds output: take it, advance, compact, return.
Drain(c, r, max) ==
  LET end == EndPos(r, max) IN
  /\ HasMore(r)
  /\ Leave(c, [kind |-> "data", bytes |-> SubSeq(master, readers[r] + 1, end)])
  /\ Compact(master, [readers EXCEPT ![r] = end])
  /\ UNCHANGED <<closed, produced, nextID>>

Return(c, kind) ==
  /\ Leave(c, Plain(kind))
  /\ UNCHANGED <<log, nextID>>

Park(c, r, max) ==
  /\ parked' = parked \cup {c}
  /\ waiting' = waiting \cup {c}
  /\ rid' = [rid EXCEPT ![c] = r]
  /\ limit' = [limit EXCEPT ![c] = max]
  /\ ret' = [ret EXCEPT ![c] = Plain("none")]
  /\ UNCHANGED <<expired, cancelled, log, nextID>>

\* The first critical section.  timeout <= 0 is "poll"; "dead" is a positive
\* timeout with a context that is already done.
Read(c, r, max, mode) ==
  /\ c \notin parked
  /\ \/ r \notin DOMAIN readers /\ Return(c, "invalid")
     \/ /\ r \in DOMAIN readers
        /\ \/ Drain(c, r, max)
           \/ ~HasMore(r) /\ closed /\ Return(c, "eof")
           \/ ~HasMore(r) /\ ~closed /\ mode = "poll" /\ Return(c, "empty")
           \/ ~HasMore(r) /\ ~closed /\ mode = "dead" /\ Return(c, "cancelled")
           \/ ~HasMore(r) /\ ~closed /\ mode = "wait" /\ Park(c, r, max)

\* A mutated form of Woken: the closed channel is not selected on.
WokenByTimerOnly(c) == c \in expired \/ c \in cancelled

\* select: the captured channel is closed, the timer fired, the context is done.
Woken(c) == c \notin waiting \/ c \in expired \/ c \in cancelled

\* The critical section after the select, and the next turn of the loop.
Resume(c) ==
  LET r == rid[c] IN
  /\ c \in parked
  /\ Woken(c)
  /\ \/ r \notin DOMAIN readers /\ Return(c, "invalid")
     \/ /\ r \in DOMAIN readers
        /\ \/ c \in cancelled /\ Return(c, "cancelled")
           \/ /\ c \notin cancelled
              /\ \/ Drain(c, r, limit[c])
                 \/ ~HasMore(r) /\ closed /\ Return(c, "eof")
                 \/ ~HasMore(r) /\ ~closed /\ c \in expired /\ Return(c, "empty")
                 \/ ~HasMore(r) /\ ~closed /\ c \notin expired /\ Park(c, r, limit[c])

Expire(c) ==
  /\ c \in parked \ expired
  /\ expired' = expired \cup {c}
  /\ UNCHANGED <<log, nextID, waiting, parked, rid, limit, cancelled, ret>>

Cancel(c) ==
  /\ c \in parked \ cancelled
  /\ cancelled' = cancelled \cup {c}
  /\ UNCHANGED <<log, nextID, waiting, parked, rid, limit, expired, ret>>

Next ==
  \/ NewReader \/ NewReaderFromStart \/ Close
  \/ \E r \in ReaderIDs : Unregister(r)
  \/ \E n \in 1..MaxBytes : Write(n)
  \/ \E c \in Clients :
       \/ \E r \in ReaderIDs, max \in Limits, mode \in {"poll", "wait", "dead"} :
            Read(c, r, max, mode)
       \/ Resume(c) \/ Expire(c) \/ Cancel(c)

\* A goroutine whose select is ready is scheduled.  Nothing makes a timer fire,
\* a context end or a caller call again.
Fairness == \A c \in Clients : WF_vars(Resume(c))

Spec == Init /\ [][Next]_vars /\ Fairness

-----------------------------------------------------------------------------
\* Every variable has the shape the code gives it.
TypeOK ==
  /\ master \in Seq(Nat)
  /\ nextID \in Nat
  /\ DOMAIN readers \subseteq 0..(nextID - 1)
  /\ readers \in [DOMAIN readers -> Nat]
  /\ closed \in BOOLEAN
  /\ parked \subseteq Clients /\ waiting \subseteq parked
  /\ expired \subseteq parked /\ cancelled \subseteq parked
  /\ rid \in [Clients -> ReaderIDs]
  /\ limit \in [Clients -> Nat]
  /\ ret \in [Clients -> [kind : Outcomes, bytes : Seq(Nat)]]
  /\ produced \in Nat /\ trimmed \in Nat

\* Compaction never tears the log: what is retained is the contiguous end of
\* the stream, and every reader's position lies inside it, so that a cursor
\* still names the same byte after the slice was replaced (buffer.go:126-129).
Retained ==
  /\ trimmed + Len(master) = produced
  /\ \A i \in 1..Len(master) : master[i] = trimmed + i
  /\ \A r \in DOMAIN readers : readers[r] <= Len(master)

\* Output above the threshold is kept only for a reader that still needs its
\* front: no sequence of writes, drains and releases leaves the compaction
\* undone (buffer.go:76, 100, 224 are all the places that can make it due).
BoundedRetention ==
  Len(master) > Threshold => \E r \in DOMAIN readers : readers[r] < MinAdvance

\* A Read that waits on an open channel has nothing to return: no write, close
\* or release between its last look and its select can be missed
\* (buffer.go:105-107, 179-181).
NoLostWakeup ==
  \A c \in waiting :
    /\ rid[c] \in DOMAIN readers
    /\ ~HasMore(rid[c])
    /\ ~closed

\* A waiting Read whose reader has output, is closed or is gone returns without
\* its timer, unless another Read of the same reader takes the output first.
WakesUp ==
  \A c \in Clients :
    (c \in parked /\ (rid[c] \notin DOMAIN readers \/ closed \/ HasMore(rid[c])))
      ~> (c \notin parked \/ (~closed /\ rid[c] \in DOMAIN readers /\ ~HasMore(rid[c])))

\* The buffer implements the abstract log: a reader's cursor is its position
\* counted from the start of the stream.
Cursor == [r \in DOMAIN readers |-> trimmed + readers[r]]
Log == INSTANCE OutputLog WITH issued <- nextID, cursor <- Cursor
ImplementsLog == Log!Spec
=============================================================================
