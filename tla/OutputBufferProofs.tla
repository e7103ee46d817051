------------------------- MODULE OutputBufferProofs -------------------------
(***************************************************************************)
(* For every number of clients, readers and bytes and every threshold: the *)
(* buffer keeps a contiguous end of the stream, holds output back only for *)
(* a reader that needs it, misses no wakeup, and implements OutputLog.     *)
(***************************************************************************)
EXTENDS OutputBuffer, SequenceTheorems, TLAPS

\* Dropping p bytes from the front: what compaction does to the slice.
LEMMA SuffixFacts ==
  ASSUME NEW m \in Seq(Nat), NEW p \in 0..Len(m)
  PROVE  /\ SubSeq(m, p + 1, Len(m)) \in Seq(Nat)
         /\ Len(SubSeq(m, p + 1, Len(m))) = Len(m) - p
         /\ \A i \in 1..(Len(m) - p) : SubSeq(m, p + 1, Len(m))[i] = m[i + p]
<1>1. Len(m) \in Nat /\ p \in Nat /\ p <= Len(m)
  BY LenProperties
<1>2. \A i \in (p + 1)..Len(m) : m[i] \in Nat
  BY <1>1, LenProperties
<1>3. /\ SubSeq(m, p + 1, Len(m)) \in Seq(Nat)
      /\ Len(SubSeq(m, p + 1, Len(m))) =
           IF p + 1 <= Len(m) THEN Len(m) - (p + 1) + 1 ELSE 0
      /\ \A i \in 1..(Len(m) - (p + 1) + 1) :
           SubSeq(m, p + 1, Len(m))[i] = m[(p + 1) + i - 1]
  <2>1. p + 1 \in Int /\ Len(m) \in Int
    BY <1>1
  <2>2. QED  BY ONLY <2>1, <1>2, SubSeqProperties
<1>4. Len(SubSeq(m, p + 1, Len(m))) = Len(m) - p
  BY <1>1, <1>3
<1>5. ASSUME NEW i \in 1..(Len(m) - p)
      PROVE  SubSeq(m, p + 1, Len(m))[i] = m[i + p]
  <2>1. Len(m) - (p + 1) + 1 = Len(m) - p /\ (p + 1) + i - 1 = i + p
    BY <1>1
  <2>2. QED  BY <1>3, <2>1, Zenon
<1>6. QED  BY <1>3, <1>4, <1>5

\* What maybeCompactLocked leaves: the same bytes behind the same cursors.
LEMMA CompactFacts ==
  ASSUME NEW m \in Seq(Nat), NEW D, NEW rs \in [D -> Nat],
         \A r \in D : rs[r] <= Len(m),
         trimmed \in Nat,
         Compact(m, rs)
  PROVE  /\ master' \in Seq(Nat)
         /\ trimmed' \in Nat
         /\ trimmed <= trimmed'
         /\ trimmed' + Len(master') = trimmed + Len(m)
         /\ DOMAIN readers' = D
         /\ readers' \in [D -> Nat]
         /\ \A r \in D : trimmed' + readers'[r] = trimmed + rs[r]
         /\ \A r \in D : readers'[r] <= Len(master')
         /\ \A i \in 1..Len(master') : master'[i] = m[i + (trimmed' - trimmed)]
         /\ BoundedRetention'
<1>1. PICK p \in 0..Len(m) :
        /\ IsMinPos(p, m, rs)
        /\ IF Len(m) > Threshold /\ p >= MinAdvance
           THEN /\ master' = SubSeq(m, p + 1, Len(m))
                /\ readers' = [r \in DOMAIN rs |-> rs[r] - p]
                /\ trimmed' = trimmed + p
           ELSE master' = m /\ readers' = rs /\ UNCHANGED trimmed
  BY DEF Compact
<1> Len(m) \in Nat /\ p \in Nat /\ p <= Len(m)
  BY LenProperties
<1>2. CASE Len(m) > Threshold /\ p >= MinAdvance
  <2>1. /\ master' = SubSeq(m, p + 1, Len(m))
        /\ readers' = [r \in D |-> rs[r] - p]
        /\ trimmed' = trimmed + p
    BY <1>1, <1>2
  <2>2. /\ master' \in Seq(Nat)
        /\ Len(master') = Len(m) - p
        /\ \A i \in 1..Len(master') : master'[i] = m[i + p]
    BY <2>1, SuffixFacts, Zenon
  <2>3. \A r \in D : p <= rs[r]
    BY <1>1 DEF IsMinPos
  <2>4. readers' \in [D -> Nat] /\ DOMAIN readers' = D
    BY <2>1, <2>3
  <2>5. BoundedRetention'
    <3>1. p = Len(m) \/ \E r \in D : rs[r] = p
      BY <1>1 DEF IsMinPos
    <3>2. CASE p = Len(m)
      BY <3>2, <2>2, SizeAssumption DEF BoundedRetention
    <3>3. CASE \E r \in D : rs[r] = p
      BY <3>3, <2>1, SizeAssumption DEF BoundedRetention
    <3>4. QED  BY <3>1, <3>2, <3>3
  <2>6. /\ trimmed' \in Nat /\ trimmed <= trimmed'
        /\ trimmed' - trimmed = p
    BY <2>1
  <2>9. trimmed' + Len(master') = trimmed + Len(m)
    <3> DEFINE len == Len(master')
    <3>1. len = Len(m) - p
      BY <2>2
    <3> HIDE DEF len
    <3>2. trimmed' + len = trimmed + Len(m)
      BY <2>1, <3>1
    <3>3. QED  BY <3>2 DEF len
  <2>7. \A r \in D : /\ trimmed' + readers'[r] = trimmed + rs[r]
                     /\ readers'[r] <= Len(master')
    BY <2>1, <2>2
  <2>8. \A i \in 1..Len(master') : master'[i] = m[i + (trimmed' - trimmed)]
    BY <2>2, <2>6
  <2>10. QED  BY <2>2, <2>4, <2>5, <2>6, <2>9, <2>7, <2>8
<1>3. CASE ~(Len(m) > Threshold /\ p >= MinAdvance)
  <2>1. master' = m /\ readers' = rs /\ trimmed' = trimmed
    BY <1>1, <1>3
  <2>2. BoundedRetention'
    BY <1>1, <1>3, <2>1, SizeAssumption DEF BoundedRetention, IsMinPos
  <2>3. QED  BY <2>1, <2>2
<1>4. QED  BY <1>2, <1>3

-----------------------------------------------------------------------------
(* The inductive invariant: each conjunct needs the ones before it.        *)

BufferInv == TypeOK /\ Retained /\ BoundedRetention /\ NoLostWakeup

\* Positions after a compaction stay inside the shorter log.
LEMMA ShiftInRange ==
  ASSUME NEW a \in Nat, NEW b \in Nat, NEW k \in Nat, NEW l \in Nat,
         a <= b, b + k = a + l,
         NEW i \in 1..k
  PROVE  i + (b - a) \in 1..l
OBVIOUS

\* A compaction of a contiguous log gives a contiguous log.
LEMMA CompactRetains ==
  ASSUME NEW m \in Seq(Nat), NEW D, NEW rs \in [D -> Nat],
         \A r \in D : rs[r] <= Len(m),
         trimmed \in Nat,
         trimmed + Len(m) = produced',
         \A i \in 1..Len(m) : m[i] = trimmed + i,
         Compact(m, rs)
  PROVE  Retained'
<1>1. /\ master' \in Seq(Nat) /\ trimmed' \in Nat /\ trimmed <= trimmed'
      /\ trimmed' + Len(master') = trimmed + Len(m)
      /\ DOMAIN readers' = D
      /\ \A r \in D : readers'[r] <= Len(master')
      /\ \A i \in 1..Len(master') : master'[i] = m[i + (trimmed' - trimmed)]
  BY CompactFacts
<1>2. /\ Len(master') \in Nat /\ Len(m) \in Nat /\ trimmed' \in Nat
      /\ trimmed <= trimmed' /\ trimmed' + Len(master') = trimmed + Len(m)
  BY <1>1, LenProperties
<1>3. ASSUME NEW i \in 1..Len(master')
      PROVE  master'[i] = trimmed' + i
  <2>1. i + (trimmed' - trimmed) \in 1..Len(m)
    BY <1>2, ShiftInRange, Zenon
  <2>2. m[i + (trimmed' - trimmed)] = trimmed + (i + (trimmed' - trimmed))
    BY <2>1
  <2>3. QED  BY <1>1, <2>2
<1>4. QED  BY <1>1, <1>3 DEF Retained

\* Both ways to register a reader put its position inside the log.
LEMMA RegisterStep ==
  ASSUME BufferInv, NEW pos \in Nat, pos <= Len(master), Register(pos)
  PROVE  BufferInv'
<1> USE DEF BufferInv
<1>1. /\ readers' = [r \in DOMAIN readers \cup {nextID} |->
                       IF r = nextID THEN pos ELSE readers[r]]
      /\ nextID' = nextID + 1
      /\ UNCHANGED <<master, closed, trimmed, produced, waiting, parked, rid,
                     limit, expired, cancelled, ret>>
  BY DEF Register, calls
<1>2. nextID \notin DOMAIN readers /\ DOMAIN readers' = DOMAIN readers \cup {nextID}
  BY <1>1 DEF TypeOK
<1>3. \A r \in DOMAIN readers : readers'[r] = readers[r]
  BY <1>1, <1>2
<1>4. readers'[nextID] = pos
  BY <1>1
<1>5. TypeOK'
  <2>1. DOMAIN readers' \subseteq 0..(nextID' - 1)
    BY <1>1, <1>2 DEF TypeOK
  <2>2. readers' \in [DOMAIN readers' -> Nat]
    BY <1>1, <1>2 DEF TypeOK
  <2>3. QED  BY <1>1, <2>1, <2>2 DEF TypeOK
<1>6. Retained'
  BY <1>1, <1>2, <1>3, <1>4 DEF Retained
<1>7. BoundedRetention'
  BY <1>1, <1>2, <1>3 DEF BoundedRetention
<1>8. NoLostWakeup'
  BY <1>1, <1>2, <1>3 DEF NoLostWakeup, HasMore
<1>9. QED  BY <1>5, <1>6, <1>7, <1>8

\* Releasing a reader may make a compaction due, and it is done.
LEMMA UnregisterStep ==
  ASSUME BufferInv, NEW r \in ReaderIDs, Unregister(r)
  PROVE  BufferInv'
<1> USE DEF BufferInv
<1> DEFINE rs == [q \in DOMAIN readers \ {r} |-> readers[q]]
           D == DOMAIN readers \ {r}
<1>1. /\ Compact(master, rs)
      /\ waiting' = {}
      /\ UNCHANGED <<closed, produced, nextID, parked, rid, limit, expired,
                     cancelled, ret>>
  BY DEF Unregister, Notify, calls
<1>2. master \in Seq(Nat) /\ trimmed \in Nat /\ rs \in [D -> Nat]
  BY DEF TypeOK
<1>3. \A q \in D : rs[q] <= Len(master)
  BY DEF Retained
<1>4. /\ trimmed + Len(master) = produced'
      /\ \A i \in 1..Len(master) : master[i] = trimmed + i
  BY <1>1 DEF Retained
<1> HIDE DEF rs, D
<1>5. /\ master' \in Seq(Nat) /\ trimmed' \in Nat
      /\ DOMAIN readers' = D /\ readers' \in [D -> Nat]
      /\ BoundedRetention'
  BY <1>1, <1>2, <1>3, CompactFacts
<1>6. Retained'
  BY <1>1, <1>2, <1>3, <1>4, CompactRetains
<1>7. TypeOK'
  BY <1>1, <1>5 DEF TypeOK, D
<1>8. NoLostWakeup'
  BY <1>1 DEF NoLostWakeup
<1>9. QED  BY <1>5, <1>6, <1>7, <1>8

\* The bytes Write appends continue the stream.
LEMMA AppendFacts ==
  ASSUME master \in Seq(Nat), trimmed \in Nat, produced \in Nat, NEW n \in Nat,
         trimmed + Len(master) = produced,
         \A i \in 1..Len(master) : master[i] = trimmed + i
  PROVE  LET m == master \o [i \in 1..n |-> produced + i]
         IN  /\ m \in Seq(Nat)
             /\ Len(m) = Len(master) + n
             /\ \A i \in 1..Len(m) : m[i] = trimmed + i
<1> DEFINE new == [i \in 1..n |-> produced + i]
           m == master \o new
<1>1. new \in Seq(Nat) /\ Len(new) = n /\ \A i \in 1..n : new[i] = produced + i
  OBVIOUS
<1> HIDE DEF new
<1>2. /\ m \in Seq(Nat)
      /\ Len(m) = Len(master) + Len(new)
      /\ \A i \in 1 .. Len(master) + Len(new) :
           m[i] = IF i <= Len(master) THEN master[i] ELSE new[i - Len(master)]
  BY <1>1, ConcatProperties
<1> HIDE DEF m
<1>3. Len(master) \in Nat
  BY LenProperties
<1>4. ASSUME NEW i \in 1..(Len(master) + n)
      PROVE  m[i] = trimmed + i
  <2>1. CASE i <= Len(master)
    BY <1>2, <1>3, <2>1
  <2>2. CASE ~(i <= Len(master))
    <3>1. i - Len(master) \in 1..n
      BY <1>3, <2>2
    <3>2. m[i] = produced + (i - Len(master))
      BY <1>1, <1>2, <2>2, <3>1
    <3>3. produced + (i - Len(master)) = trimmed + i
      BY ONLY trimmed + Len(master) = produced, trimmed \in Nat, <1>3,
              i \in 1..(Len(master) + n), n \in Nat
    <3>4. QED  BY <3>2, <3>3
  <2>3. QED  BY <2>1, <2>2
<1>5. QED  BY <1>1, <1>2, <1>4 DEF m, new

\* A write appends the next bytes of the stream, compacts and wakes everyone.
LEMMA WriteStep ==
  ASSUME BufferInv, NEW n \in 1..MaxBytes, Write(n)
  PROVE  BufferInv'
<1> USE DEF BufferInv
<1> DEFINE m == master \o [i \in 1..n |-> produced + i]
           D == DOMAIN readers
<1>1. /\ Compact(m, readers)
      /\ produced' = produced + n
      /\ waiting' = {}
      /\ UNCHANGED <<closed, nextID, parked, rid, limit, expired, cancelled, ret>>
  BY DEF Write, Notify, calls
<1>2. n \in Nat /\ master \in Seq(Nat) /\ trimmed \in Nat /\ produced \in Nat
  BY SizeAssumption DEF TypeOK
<1>3. /\ m \in Seq(Nat)
      /\ Len(m) = Len(master) + n
      /\ \A i \in 1..Len(m) : m[i] = trimmed + i
  BY <1>2, AppendFacts DEF Retained
<1> HIDE DEF m
<1>4. Len(master) \in Nat
  BY <1>2, LenProperties
<1>5. readers \in [D -> Nat] /\ \A r \in D : readers[r] <= Len(m)
  BY <1>2, <1>3, <1>4 DEF TypeOK, Retained
<1>6. trimmed + Len(m) = produced'
  <2>1. trimmed + Len(master) = produced
    BY DEF Retained
  <2>2. Len(m) = Len(master) + n
    BY <1>3
  <2>3. QED  BY ONLY <2>1, <2>2, <1>1, <1>2, <1>4
<1>7. /\ master' \in Seq(Nat) /\ trimmed' \in Nat
      /\ DOMAIN readers' = D /\ readers' \in [D -> Nat]
      /\ BoundedRetention'
  BY <1>1, <1>2, <1>3, <1>5, CompactFacts
<1>8. Retained'
  BY <1>1, <1>2, <1>3, <1>5, <1>6, CompactRetains
<1>9. TypeOK'
  BY <1>1, <1>2, <1>7 DEF TypeOK
<1>10. NoLostWakeup'
  BY <1>1 DEF NoLostWakeup
<1>11. QED  BY <1>7, <1>8, <1>9, <1>10

\* Closing leaves no Read waiting on an open channel.
LEMMA CloseStep ==
  ASSUME BufferInv, Close
  PROVE  BufferInv'
<1> USE DEF BufferInv
<1>1. /\ closed' = TRUE /\ waiting' = {}
      /\ UNCHANGED <<master, readers, trimmed, produced, nextID, parked, rid,
                     limit, expired, cancelled, ret>>
  BY DEF Close, Notify, calls
<1>2. TypeOK'
  BY <1>1 DEF TypeOK
<1>3. Retained' /\ BoundedRetention'
  BY <1>1 DEF Retained, BoundedRetention
<1>4. NoLostWakeup'
  BY <1>1 DEF NoLostWakeup
<1>5. QED  BY <1>2, <1>3, <1>4

-----------------------------------------------------------------------------
(* The three ways a critical section of Read ends.                         *)

\* What the call frame looks like after Read returned.
LEMMA LeaveFacts ==
  ASSUME TypeOK, NEW c \in Clients, NEW kind \in Outcomes, NEW bytes \in Seq(Nat),
         Leave(c, [kind |-> kind, bytes |-> bytes])
  PROVE  /\ parked' \subseteq Clients /\ waiting' \subseteq parked'
         /\ expired' \subseteq parked' /\ cancelled' \subseteq parked'
         /\ rid' \in [Clients -> ReaderIDs] /\ limit' \in [Clients -> Nat]
         /\ ret' \in [Clients -> [kind : Outcomes, bytes : Seq(Nat)]]
         /\ waiting' = waiting \ {c}
         /\ \A q \in waiting' : rid'[q] = rid[q]
<1>1. 0 \in ReaderIDs
  BY SizeAssumption DEF ReaderIDs
<1>2. /\ ret' = [ret EXCEPT ![c] = [kind |-> kind, bytes |-> bytes]]
      /\ parked' = parked \ {c} /\ waiting' = waiting \ {c}
      /\ expired' = expired \ {c} /\ cancelled' = cancelled \ {c}
      /\ rid' = [rid EXCEPT ![c] = 0] /\ limit' = [limit EXCEPT ![c] = 0]
  BY DEF Leave
<1>3. ret' \in [Clients -> [kind : Outcomes, bytes : Seq(Nat)]]
  BY <1>2 DEF TypeOK
<1>4. rid' \in [Clients -> ReaderIDs] /\ limit' \in [Clients -> Nat]
  BY <1>1, <1>2 DEF TypeOK
<1>5. \A q \in waiting' : rid'[q] = rid[q]
  BY <1>2 DEF TypeOK
<1>6. QED  BY <1>2, <1>3, <1>4, <1>5 DEF TypeOK

\* A Read that returns without output changes nothing but its own frame.
LEMMA ReturnStep ==
  ASSUME BufferInv, NEW c \in Clients, NEW kind \in Outcomes, Return(c, kind)
  PROVE  BufferInv'
<1> USE DEF BufferInv
<1>1. Leave(c, [kind |-> kind, bytes |-> <<>>]) /\ UNCHANGED <<log, nextID>>
  BY DEF Return, Plain
<1>2. /\ parked' \subseteq Clients /\ waiting' \subseteq parked'
      /\ expired' \subseteq parked' /\ cancelled' \subseteq parked'
      /\ rid' \in [Clients -> ReaderIDs] /\ limit' \in [Clients -> Nat]
      /\ ret' \in [Clients -> [kind : Outcomes, bytes : Seq(Nat)]]
      /\ waiting' = waiting \ {c}
      /\ \A q \in waiting' : rid'[q] = rid[q]
  <2>1. <<>> \in Seq(Nat)
    OBVIOUS
  <2>2. QED  BY <1>1, <2>1, LeaveFacts
<1>3. TypeOK'
  BY <1>1, <1>2 DEF TypeOK, Outcomes, log
<1>4. Retained' /\ BoundedRetention'
  BY <1>1 DEF Retained, BoundedRetention, log
<1>5. NoLostWakeup'
  BY <1>1, <1>2 DEF NoLostWakeup, HasMore, log
<1>6. QED  BY <1>3, <1>4, <1>5

\* A Read parks only with nothing to return, on a channel that is still open.
LEMMA ParkStep ==
  ASSUME BufferInv, NEW c \in Clients, NEW r \in DOMAIN readers, r \in ReaderIDs,
         NEW max \in Nat, ~HasMore(r), ~closed, Park(c, r, max)
  PROVE  BufferInv'
<1> USE DEF BufferInv
<1>1. /\ parked' = parked \cup {c} /\ waiting' = waiting \cup {c}
      /\ rid' = [rid EXCEPT ![c] = r] /\ limit' = [limit EXCEPT ![c] = max]
      /\ ret' = [ret EXCEPT ![c] = [kind |-> "none", bytes |-> <<>>]]
      /\ UNCHANGED <<expired, cancelled, master, readers, closed, trimmed,
                     produced, nextID>>
  BY DEF Park, Plain, log
<1>2. TypeOK'
  <2>1. ret' \in [Clients -> [kind : Outcomes, bytes : Seq(Nat)]]
    BY <1>1 DEF TypeOK, Outcomes
  <2>2. rid' \in [Clients -> ReaderIDs] /\ limit' \in [Clients -> Nat]
    BY <1>1 DEF TypeOK
  <2>3. QED  BY <1>1, <2>1, <2>2 DEF TypeOK
<1>3. Retained' /\ BoundedRetention'
  BY <1>1 DEF Retained, BoundedRetention
<1>4. NoLostWakeup'
  <2> SUFFICES ASSUME NEW q \in waiting'
               PROVE  rid'[q] \in DOMAIN readers /\ ~HasMore(rid'[q]) /\ ~closed
    BY <1>1 DEF NoLostWakeup, HasMore
  <2>1. CASE q = c
    BY <1>1, <2>1 DEF TypeOK
  <2>2. CASE q # c
    BY <1>1, <2>2 DEF TypeOK, NoLostWakeup
  <2>3. QED  BY <2>1, <2>2
<1>5. QED  BY <1>2, <1>3, <1>4

\* The bytes a drain returns are the ones after the cursor.
LEMMA ChunkFacts ==
  ASSUME BufferInv, NEW r \in DOMAIN readers, NEW max \in Nat, HasMore(r)
  PROVE  LET end == EndPos(r, max)
             chunk == SubSeq(master, readers[r] + 1, end)
         IN  /\ end \in Nat /\ readers[r] < end /\ end <= Len(master)
             /\ chunk \in Seq(Nat)
             /\ Len(chunk) = end - readers[r]
             /\ \A i \in 1..(end - readers[r]) :
                  chunk[i] = trimmed + readers[r] + i
<1> USE DEF BufferInv
<1> DEFINE end == EndPos(r, max)
           chunk == SubSeq(master, readers[r] + 1, end)
<1>1. readers[r] \in Nat /\ Len(master) \in Nat /\ trimmed \in Nat
  BY LenProperties DEF TypeOK
<1>2. end \in Nat /\ readers[r] < end /\ end <= Len(master)
  BY <1>1 DEF EndPos, HasMore
<1> HIDE DEF end
<1>3. \A i \in (readers[r] + 1)..end : master[i] \in Nat
  BY <1>1, <1>2, LenProperties DEF TypeOK
<1>4. /\ chunk \in Seq(Nat)
      /\ Len(chunk) = IF readers[r] + 1 <= end THEN end - (readers[r] + 1) + 1 ELSE 0
      /\ \A i \in 1..(end - (readers[r] + 1) + 1) :
           chunk[i] = master[(readers[r] + 1) + i - 1]
  <2>1. readers[r] + 1 \in Int /\ end \in Int
    BY <1>1, <1>2
  <2>2. QED  BY ONLY <2>1, <1>3, SubSeqProperties
<1>5. Len(chunk) = end - readers[r]
  BY <1>1, <1>2, <1>4
<1>6. ASSUME NEW i \in 1..(end - readers[r])
      PROVE  chunk[i] = trimmed + readers[r] + i
  <2>1. /\ end - (readers[r] + 1) + 1 = end - readers[r]
        /\ (readers[r] + 1) + i - 1 = readers[r] + i
        /\ readers[r] + i \in 1..Len(master)
    BY <1>1, <1>2
  <2>2. chunk[i] = master[readers[r] + i]
    BY <1>4, <2>1, Zenon
  <2>3. master[readers[r] + i] = trimmed + (readers[r] + i)
    BY <2>1 DEF Retained
  <2>4. trimmed + (readers[r] + i) = trimmed + readers[r] + i
    BY <1>1
  <2>5. QED  BY <2>2, <2>3, <2>4
<1>7. QED  BY <1>2, <1>4, <1>5, <1>6 DEF end

\* A drain advances its reader inside the log and wakes nobody wrongly.
LEMMA DrainStep ==
  ASSUME BufferInv, NEW c \in Clients, NEW r \in DOMAIN readers, NEW max \in Nat,
         Drain(c, r, max)
  PROVE  BufferInv'
<1> USE DEF BufferInv
<1> DEFINE end == EndPos(r, max)
           chunk == SubSeq(master, readers[r] + 1, end)
           D == DOMAIN readers
           rs == [readers EXCEPT ![r] = end]
<1>1. /\ HasMore(r)
      /\ Leave(c, [kind |-> "data", bytes |-> chunk])
      /\ Compact(master, rs)
      /\ UNCHANGED <<closed, produced, nextID>>
  BY DEF Drain
<1>2. end \in Nat /\ end <= Len(master) /\ chunk \in Seq(Nat)
  BY <1>1, ChunkFacts
<1> HIDE DEF end, chunk
<1>3. master \in Seq(Nat) /\ trimmed \in Nat /\ rs \in [D -> Nat]
  BY <1>2 DEF TypeOK
<1>4. \A q \in D : rs[q] <= Len(master)
  BY <1>2 DEF Retained
<1>5. /\ trimmed + Len(master) = produced'
      /\ \A i \in 1..Len(master) : master[i] = trimmed + i
  BY <1>1 DEF Retained
<1>6. \A q \in D : q # r => rs[q] = readers[q]
  OBVIOUS
<1> HIDE DEF rs
<1>7. /\ master' \in Seq(Nat) /\ trimmed' \in Nat
      /\ trimmed' + Len(master') = trimmed + Len(master)
      /\ DOMAIN readers' = D /\ readers' \in [D -> Nat]
      /\ \A q \in D : trimmed' + readers'[q] = trimmed + rs[q]
      /\ BoundedRetention'
  BY <1>1, <1>3, <1>4, CompactFacts
<1>8. Retained'
  BY <1>1, <1>3, <1>4, <1>5, CompactRetains
<1>9. /\ parked' \subseteq Clients /\ waiting' \subseteq parked'
      /\ expired' \subseteq parked' /\ cancelled' \subseteq parked'
      /\ rid' \in [Clients -> ReaderIDs] /\ limit' \in [Clients -> Nat]
      /\ ret' \in [Clients -> [kind : Outcomes, bytes : Seq(Nat)]]
      /\ waiting' = waiting \ {c}
      /\ \A q \in waiting' : rid'[q] = rid[q]
  BY <1>1, <1>2, LeaveFacts DEF Outcomes
<1>10. TypeOK'
  BY <1>1, <1>7, <1>9 DEF TypeOK
<1>11. NoLostWakeup'
  <2> SUFFICES ASSUME NEW q \in waiting'
               PROVE  /\ rid'[q] \in DOMAIN readers'
                      /\ ~(readers'[rid'[q]] < Len(master'))
                      /\ ~closed'
    BY DEF NoLostWakeup, HasMore
  <2>1. /\ rid'[q] = rid[q] /\ rid[q] \in D
        /\ ~(readers[rid[q]] < Len(master)) /\ ~closed
    BY <1>9 DEF NoLostWakeup, HasMore
  <2>2. rs[rid[q]] = readers[rid[q]]
    BY <1>1, <1>6, <2>1 DEF HasMore
  <2>3. trimmed' + readers'[rid[q]] = trimmed + readers[rid[q]]
    BY <1>7, <2>1, <2>2
  <2>4. readers'[rid[q]] \in Nat /\ readers[rid[q]] \in Nat
    BY <1>7, <2>1 DEF TypeOK
  <2>5. Len(master) \in Nat /\ Len(master') \in Nat
    BY <1>3, <1>7, LenProperties
  <2>6. ~(readers'[rid[q]] < Len(master'))
    BY ONLY <2>1, <2>3, <2>4, <2>5, <1>3, <1>7
  <2>7. QED  BY <1>1, <1>7, <2>1, <2>6
<1>12. QED  BY <1>7, <1>8, <1>10, <1>11

-----------------------------------------------------------------------------
(* The invariant, action by action.                                        *)

\* The first critical section of Read, whichever branch it takes.
LEMMA ReadStep ==
  ASSUME BufferInv, NEW c \in Clients, NEW r \in ReaderIDs, NEW max \in Limits,
         NEW mode, Read(c, r, max, mode)
  PROVE  BufferInv'
<1>1. max \in Nat
  BY SizeAssumption
<1>2. CASE \E kind \in Outcomes : Return(c, kind)
  BY <1>2, ReturnStep
<1>3. CASE r \in DOMAIN readers /\ Drain(c, r, max)
  BY <1>1, <1>3, DrainStep
<1>4. CASE r \in DOMAIN readers /\ ~HasMore(r) /\ ~closed /\ Park(c, r, max)
  BY <1>1, <1>4, ParkStep
<1>5. QED  BY <1>2, <1>3, <1>4 DEF Read, Outcomes

\* The critical section after the select, whichever branch it takes.
LEMMA ResumeStep ==
  ASSUME BufferInv, NEW c \in Clients, Resume(c)
  PROVE  BufferInv'
<1>1. limit[c] \in Nat /\ rid[c] \in ReaderIDs
  BY DEF BufferInv, TypeOK
<1>2. CASE \E kind \in Outcomes : Return(c, kind)
  BY <1>2, ReturnStep
<1>3. CASE rid[c] \in DOMAIN readers /\ Drain(c, rid[c], limit[c])
  BY <1>1, <1>3, DrainStep
<1>4. CASE /\ rid[c] \in DOMAIN readers
           /\ ~HasMore(rid[c]) /\ ~closed /\ Park(c, rid[c], limit[c])
  BY <1>1, <1>4, ParkStep
<1>5. QED  BY <1>2, <1>3, <1>4 DEF Resume, Outcomes

\* A timer or a context that ends touches no shared state.
LEMMA SignalStep ==
  ASSUME BufferInv, NEW c \in Clients, Expire(c) \/ Cancel(c)
  PROVE  BufferInv'
<1> USE DEF BufferInv
<1>1. /\ expired' \subseteq parked /\ cancelled' \subseteq parked
      /\ UNCHANGED <<master, readers, closed, trimmed, produced, nextID, waiting,
                     parked, rid, limit, ret>>
  BY DEF Expire, Cancel, TypeOK, log
<1>2. TypeOK'
  BY <1>1 DEF TypeOK
<1>3. Retained' /\ BoundedRetention' /\ NoLostWakeup'
  BY <1>1 DEF Retained, BoundedRetention, NoLostWakeup, HasMore
<1>4. QED  BY <1>2, <1>3

\* The empty buffer satisfies the invariant.
LEMMA InitInv == Init => BufferInv
<1> SUFFICES ASSUME Init PROVE BufferInv
  OBVIOUS
<1>1. TypeOK
  <2>1. 0 \in ReaderIDs
    BY SizeAssumption DEF ReaderIDs
  <2>2. ret \in [Clients -> [kind : Outcomes, bytes : Seq(Nat)]]
    BY DEF Init, Plain, Outcomes
  <2>3. readers \in [DOMAIN readers -> Nat] /\ DOMAIN readers = {}
    BY DEF Init
  <2>4. master \in Seq(Nat)
    BY DEF Init
  <2>5. rid \in [Clients -> ReaderIDs] /\ limit \in [Clients -> Nat]
    BY <2>1 DEF Init
  <2>6. QED  BY <2>2, <2>3, <2>4, <2>5 DEF Init, TypeOK
<1>2. Retained /\ BoundedRetention /\ NoLostWakeup
  BY SizeAssumption DEF Init, Retained, BoundedRetention, NoLostWakeup
<1>3. QED  BY <1>1, <1>2 DEF BufferInv

\* The invariant is inductive: every step preserves it.
LEMMA NextInv == BufferInv /\ [Next]_vars => BufferInv'
<1> SUFFICES ASSUME BufferInv, [Next]_vars PROVE BufferInv'
  OBVIOUS
<1>1. CASE NewReader
  <2>1. Len(master) \in Nat /\ Len(master) <= Len(master)
    BY LenProperties DEF BufferInv, TypeOK
  <2>2. QED  BY <1>1, <2>1, RegisterStep DEF NewReader
<1>2. CASE NewReaderFromStart
  <2>1. 0 \in Nat /\ 0 <= Len(master)
    BY LenProperties DEF BufferInv, TypeOK
  <2>2. QED  BY <1>2, <2>1, RegisterStep DEF NewReaderFromStart
<1>3. CASE Close
  BY <1>3, CloseStep
<1>4. ASSUME NEW r \in ReaderIDs, Unregister(r) PROVE BufferInv'
  BY <1>4, UnregisterStep
<1>5. ASSUME NEW n \in 1..MaxBytes, Write(n) PROVE BufferInv'
  BY <1>5, WriteStep
<1>6. ASSUME NEW c \in Clients, NEW r \in ReaderIDs, NEW max \in Limits,
             NEW mode \in {"poll", "wait", "dead"}, Read(c, r, max, mode)
      PROVE  BufferInv'
  BY <1>6, ReadStep
<1>7. ASSUME NEW c \in Clients, Resume(c) PROVE BufferInv'
  BY <1>7, ResumeStep
<1>8. ASSUME NEW c \in Clients, Expire(c) \/ Cancel(c) PROVE BufferInv'
  BY <1>8, SignalStep
<1>9. CASE UNCHANGED vars
  BY <1>9 DEF vars, log, calls, BufferInv, TypeOK, Retained, BoundedRetention,
              NoLostWakeup, HasMore
<1>10. QED
  BY <1>1, <1>2, <1>3, <1>4, <1>5, <1>6, <1>7, <1>8, <1>9 DEF Next

\* The inductive invariant holds in every reachable state of the buffer.
THEOREM BufferInvariant == Spec => []BufferInv
BY InitInv, NextInv, PTL DEF Spec

\* Type correctness of the buffer (buffer.go:18-32).
THEOREM TypeCorrect == Spec => []TypeOK
<1>1. BufferInv => TypeOK
  BY DEF BufferInv
<1>2. QED  BY <1>1, BufferInvariant, PTL

\* Whatever is written, drained, released and compacted, the retained output is
\* the contiguous end of the stream and every cursor lies in it.
THEOREM RetainsTheTail == Spec => []Retained
<1>1. BufferInv => Retained
  BY DEF BufferInv
<1>2. QED  BY <1>1, BufferInvariant, PTL

\* Output above the threshold is held only for a reader that needs its front.
THEOREM RetentionIsBounded == Spec => []BoundedRetention
<1>1. BufferInv => BoundedRetention
  BY DEF BufferInv
<1>2. QED  BY <1>1, BufferInvariant, PTL

\* No Read waits on an open notify channel while it has something to return.
THEOREM NoWakeupIsLost == Spec => []NoLostWakeup
<1>1. BufferInv => NoLostWakeup
  BY DEF BufferInv
<1>2. QED  BY <1>1, BufferInvariant, PTL

-----------------------------------------------------------------------------
(* Refinement: every step of the buffer is a step of OutputLog or none.    *)

\* A compaction moves no cursor other than as its caller moved it.
LEMMA CompactCursor ==
  ASSUME NEW m \in Seq(Nat), NEW D, NEW rs \in [D -> Nat],
         \A r \in D : rs[r] <= Len(m),
         trimmed \in Nat,
         Compact(m, rs)
  PROVE  Cursor' = [r \in D |-> trimmed + rs[r]]
<1>1. DOMAIN readers' = D /\ \A r \in D : trimmed' + readers'[r] = trimmed + rs[r]
  BY CompactFacts
<1>2. QED  BY <1>1 DEF Cursor

\* A cursor is the reader's position counted from the start of the stream.
LEMMA CursorFacts ==
  ASSUME BufferInv
  PROVE  /\ DOMAIN Cursor = DOMAIN readers
         /\ \A r \in DOMAIN readers : /\ Cursor[r] = trimmed + readers[r]
                                      /\ Cursor[r] \in 0..produced
BY LenProperties DEF Cursor, BufferInv, TypeOK, Retained

\* A new reader starts where the log lets a subscriber start.
LEMMA RegisterRefines ==
  ASSUME BufferInv, NEW pos \in Nat, pos = Len(master) \/ pos = 0, Register(pos)
  PROVE  Log!Subscribe
<1>1. /\ readers' = [r \in DOMAIN readers \cup {nextID} |->
                       IF r = nextID THEN pos ELSE readers[r]]
      /\ nextID' = nextID + 1
      /\ UNCHANGED <<master, closed, trimmed, produced, ret>>
  BY DEF Register, calls
<1>2. DOMAIN Cursor = DOMAIN readers
  BY DEF Cursor
<1> DEFINE start == trimmed + pos
<1>3. Cursor' = [r \in DOMAIN Cursor \cup {nextID} |->
                   IF r = nextID THEN start ELSE Cursor[r]]
  BY <1>1, <1>2 DEF Cursor
<1>4. start \in 0..produced
  BY LenProperties DEF BufferInv, TypeOK, Retained
<1>5. start = produced \/ \A r \in DOMAIN Cursor : start <= Cursor[r]
  BY <1>2, LenProperties DEF BufferInv, TypeOK, Retained, Cursor
<1> HIDE DEF start
<1>6. QED  BY <1>1, <1>3, <1>4, <1>5 DEF Log!Subscribe

\* Releasing a reader moves no other cursor, compaction or not.
LEMMA UnregisterRefines ==
  ASSUME BufferInv, NEW r \in ReaderIDs, Unregister(r)
  PROVE  Log!Unsubscribe
<1> DEFINE rs == [q \in DOMAIN readers \ {r} |-> readers[q]]
           D == DOMAIN readers \ {r}
<1>1. /\ r \in DOMAIN readers
      /\ Compact(master, rs)
      /\ UNCHANGED <<closed, produced, nextID, ret>>
  BY DEF Unregister, calls
<1>2. master \in Seq(Nat) /\ trimmed \in Nat /\ rs \in [D -> Nat]
  BY DEF BufferInv, TypeOK
<1>3. \A q \in D : rs[q] <= Len(master)
  BY DEF BufferInv, Retained
<1>4. \A q \in D : rs[q] = readers[q]
  OBVIOUS
<1> HIDE DEF rs
<1>5. Cursor' = [q \in D |-> trimmed + rs[q]]
  BY <1>1, <1>2, <1>3, CompactCursor
<1>6. Cursor' = [q \in DOMAIN Cursor \ {r} |-> Cursor[q]]
  BY <1>4, <1>5 DEF Cursor
<1>7. {r} \in SUBSET DOMAIN Cursor
  BY <1>1 DEF Cursor
<1>8. QED  BY <1>1, <1>6, <1>7 DEF Log!Unsubscribe

\* A write appends to the log and moves no cursor, compaction or not.
LEMMA WriteRefines ==
  ASSUME BufferInv, NEW n \in 1..MaxBytes, Write(n)
  PROVE  Log!Produce
<1> DEFINE m == master \o [i \in 1..n |-> produced + i]
           D == DOMAIN readers
<1>1. /\ ~closed /\ produced' = produced + n
      /\ Compact(m, readers)
      /\ UNCHANGED <<closed, nextID, ret>>
  BY DEF Write, calls
<1>2. /\ n \in Nat /\ n > 0 /\ master \in Seq(Nat) /\ trimmed \in Nat
      /\ produced \in Nat /\ readers \in [D -> Nat]
  BY SizeAssumption DEF BufferInv, TypeOK
<1>3. m \in Seq(Nat) /\ Len(m) = Len(master) + n
  BY <1>2, AppendFacts DEF BufferInv, Retained
<1> HIDE DEF m
<1>4. \A r \in D : readers[r] <= Len(m)
  BY <1>2, <1>3, LenProperties DEF BufferInv, Retained
<1>5. Cursor' = Cursor
  BY <1>1, <1>2, <1>3, <1>4, CompactCursor DEF Cursor
<1>6. produced' \in Nat /\ produced' > produced
  BY <1>1, <1>2
<1>7. QED  BY <1>1, <1>5, <1>6 DEF Log!Produce

\* Timeout, cancellation and an unknown reader are answers without bytes.
LEMMA ReturnRefines ==
  ASSUME BufferInv, NEW c \in Clients, NEW kind \in Outcomes \ {"data", "eof"},
         Return(c, kind)
  PROVE  Log!Answer(c)
<1>1. /\ ret' = [ret EXCEPT ![c] = [kind |-> kind, bytes |-> <<>>]]
      /\ UNCHANGED <<master, readers, closed, trimmed, produced, nextID>>
  BY DEF Return, Leave, Plain, log
<1>2. Cursor' = Cursor
  BY <1>1 DEF Cursor
<1>3. QED  BY <1>1, <1>2 DEF Log!Answer, Log!Plain, Log!Kinds, Outcomes

\* End-of-file is returned only to a reader that has received every byte.
LEMMA EofRefines ==
  ASSUME BufferInv, NEW c \in Clients, NEW r \in DOMAIN readers,
         ~HasMore(r), closed, Return(c, "eof")
  PROVE  Log!EndOfFile(c, r)
<1>1. /\ ret' = [ret EXCEPT ![c] = [kind |-> "eof", bytes |-> <<>>]]
      /\ UNCHANGED <<master, readers, closed, trimmed, produced, nextID>>
  BY DEF Return, Leave, Plain, log
<1>2. Cursor' = Cursor
  BY <1>1 DEF Cursor
<1>3. Cursor[r] = produced
  <2>1. readers[r] \in Nat /\ Len(master) \in Nat /\ readers[r] <= Len(master)
    BY LenProperties DEF BufferInv, TypeOK, Retained
  <2>2. readers[r] = Len(master)
    BY <2>1 DEF HasMore
  <2>3. QED  BY <2>2 DEF Cursor, BufferInv, Retained
<1>4. QED  BY <1>1, <1>2, <1>3 DEF Log!EndOfFile, Log!Plain

\* Parking consumes nothing.
LEMMA ParkRefines ==
  ASSUME BufferInv, NEW c \in Clients, NEW r, NEW max, Park(c, r, max)
  PROVE  Log!Answer(c)
<1>1. /\ ret' = [ret EXCEPT ![c] = [kind |-> "none", bytes |-> <<>>]]
      /\ UNCHANGED <<master, readers, closed, trimmed, produced, nextID>>
  BY DEF Park, Plain, log
<1>2. Cursor' = Cursor
  BY <1>1 DEF Cursor
<1>3. "none" \in Log!Kinds \ {"data", "eof"}
  BY DEF Log!Kinds
<1>4. QED  BY <1>1, <1>2, <1>3 DEF Log!Answer, Log!Plain

\* A drain delivers exactly the next bytes of its reader's cursor.
LEMMA DrainRefines ==
  ASSUME BufferInv, NEW c \in Clients, NEW r \in DOMAIN readers, NEW max \in Nat,
         Drain(c, r, max)
  PROVE  Log!Deliver(c, r)
<1> DEFINE end == EndPos(r, max)
           chunk == SubSeq(master, readers[r] + 1, end)
           D == DOMAIN readers
           rs == [readers EXCEPT ![r] = end]
           last == trimmed + end
<1>1. /\ HasMore(r)
      /\ ret' = [ret EXCEPT ![c] = [kind |-> "data", bytes |-> chunk]]
      /\ Compact(master, rs)
      /\ UNCHANGED <<closed, produced, nextID>>
  BY DEF Drain, Leave
<1>2. /\ end \in Nat /\ readers[r] < end /\ end <= Len(master)
      /\ chunk \in Seq(Nat) /\ Len(chunk) = end - readers[r]
      /\ \A i \in 1..(end - readers[r]) : chunk[i] = trimmed + readers[r] + i
  BY <1>1, ChunkFacts
<1> HIDE DEF end, chunk
<1>3. /\ master \in Seq(Nat) /\ trimmed \in Nat /\ rs \in [D -> Nat]
      /\ readers[r] \in Nat /\ Len(master) \in Nat /\ produced \in Nat
      /\ trimmed + Len(master) = produced
  BY <1>2, LenProperties DEF BufferInv, TypeOK, Retained
<1>4. \A q \in D : rs[q] <= Len(master)
  BY <1>2 DEF BufferInv, Retained
<1>5. Cursor' = [q \in D |-> trimmed + rs[q]]
  <2> HIDE DEF rs
  <2>1. QED  BY <1>1, <1>3, <1>4, CompactCursor
<1>6. Cursor' = [Cursor EXCEPT ![r] = last]
  BY <1>5 DEF Cursor
<1>7. Cursor[r] = trimmed + readers[r]
  BY DEF Cursor
<1>8. last \in (Cursor[r] + 1)..produced
  BY ONLY <1>2, <1>3, <1>7
<1>9. chunk = Log!Bytes(Cursor[r] + 1, last)
  <2>1. last - (Cursor[r] + 1) + 1 = end - readers[r]
    BY ONLY <1>2, <1>3, <1>7
  <2>2. Log!Bytes(Cursor[r] + 1, last) =
          [i \in 1..(end - readers[r]) |-> (Cursor[r] + 1) + i - 1]
    BY <2>1 DEF Log!Bytes
  <2>3. chunk = [i \in 1..(end - readers[r]) |-> chunk[i]]
    BY <1>2, LenProperties
  <2>4. \A i \in 1..(end - readers[r]) : chunk[i] = (Cursor[r] + 1) + i - 1
    BY ONLY <1>2, <1>3, <1>7
  <2>5. QED  BY ONLY <2>2, <2>3, <2>4
<1> HIDE DEF last
<1>10. QED  BY <1>1, <1>6, <1>8, <1>9 DEF Log!Deliver

\* Every branch of the first section is a step of the log.
LEMMA ReadRefines ==
  ASSUME BufferInv, NEW c \in Clients, NEW r \in ReaderIDs, NEW max \in Limits,
         NEW mode, Read(c, r, max, mode)
  PROVE  Log!Next
<1>1. max \in Nat
  BY SizeAssumption
<1>2. CASE \E kind \in Outcomes \ {"data", "eof"} : Return(c, kind)
  BY <1>2, ReturnRefines DEF Log!Next
<1>3. CASE r \in DOMAIN readers /\ Drain(c, r, max)
  BY <1>1, <1>3, DrainRefines, CursorFacts DEF Log!Next
<1>4. CASE r \in DOMAIN readers /\ ~HasMore(r) /\ closed /\ Return(c, "eof")
  BY <1>4, EofRefines, CursorFacts DEF Log!Next
<1>5. CASE Park(c, r, max)
  BY <1>5, ParkRefines DEF Log!Next
<1>6. QED  BY <1>2, <1>3, <1>4, <1>5 DEF Read, Outcomes

\* Every branch of the section after the select is a step of the log.
LEMMA ResumeRefines ==
  ASSUME BufferInv, NEW c \in Clients, Resume(c)
  PROVE  Log!Next
<1> DEFINE r == rid[c]
<1>1. limit[c] \in Nat
  BY DEF BufferInv, TypeOK
<1>2. CASE \E kind \in Outcomes \ {"data", "eof"} : Return(c, kind)
  BY <1>2, ReturnRefines DEF Log!Next
<1>3. CASE r \in DOMAIN readers /\ Drain(c, r, limit[c])
  BY <1>1, <1>3, DrainRefines, CursorFacts DEF Log!Next
<1>4. CASE r \in DOMAIN readers /\ ~HasMore(r) /\ closed /\ Return(c, "eof")
  BY <1>4, EofRefines, CursorFacts DEF Log!Next
<1>5. CASE Park(c, r, limit[c])
  BY <1>5, ParkRefines DEF Log!Next
<1>6. QED  BY <1>2, <1>3, <1>4, <1>5 DEF Resume, Outcomes

\* Every step of the buffer is a step of the log or leaves it unchanged.
LEMMA NextRefines == BufferInv /\ [Next]_vars => [Log!Next]_(Log!logVars)
<1> SUFFICES ASSUME BufferInv, [Next]_vars PROVE [Log!Next]_(Log!logVars)
  OBVIOUS
<1>1. CASE NewReader
  BY <1>1, RegisterRefines, LenProperties DEF NewReader, BufferInv, TypeOK, Log!Next
<1>2. CASE NewReaderFromStart
  BY <1>2, RegisterRefines DEF NewReaderFromStart, Log!Next
<1>3. CASE Close
  BY <1>3 DEF Close, Cursor, calls, Log!Finish, Log!Next
<1>4. ASSUME NEW r \in ReaderIDs, Unregister(r) PROVE Log!Next
  BY <1>4, UnregisterRefines DEF Log!Next
<1>5. ASSUME NEW n \in 1..MaxBytes, Write(n) PROVE Log!Next
  BY <1>5, WriteRefines DEF Log!Next
<1>6. ASSUME NEW c \in Clients, NEW r \in ReaderIDs, NEW max \in Limits,
             NEW mode \in {"poll", "wait", "dead"}, Read(c, r, max, mode)
      PROVE  Log!Next
  BY <1>6, ReadRefines
<1>7. ASSUME NEW c \in Clients, Resume(c) PROVE Log!Next
  BY <1>7, ResumeRefines
<1>8. ASSUME NEW c \in Clients, Expire(c) \/ Cancel(c)
      PROVE  UNCHANGED Log!logVars
  BY <1>8 DEF Expire, Cancel, log, Cursor, Log!logVars
<1>9. CASE UNCHANGED vars
  BY <1>9 DEF vars, log, calls, Cursor, Log!logVars
<1>10. QED
  BY <1>1, <1>2, <1>3, <1>4, <1>5, <1>6, <1>7, <1>8, <1>9 DEF Next

\* Buffer implements the abstract log for every number of readers, clients and
\* bytes: each reader gets every byte after its start once, in order, and
\* end-of-file only after the last (buffer.go:135-226).
THEOREM BufferImplementsLog == Spec => ImplementsLog
<1>1. Init => Log!Init
  <2> SUFFICES ASSUME Init PROVE Log!Init
    OBVIOUS
  <2>1. Cursor = [r \in {} |-> 0]
    BY DEF Init, Cursor
  <2>2. QED  BY <2>1 DEF Init, Plain, Log!Init, Log!Plain
<1>2. BufferInv /\ [Next]_vars => [Log!Next]_(Log!logVars)
  BY NextRefines
<1>3. QED
  BY <1>1, <1>2, BufferInvariant, PTL DEF Spec, ImplementsLog, Log!Spec

=============================================================================
