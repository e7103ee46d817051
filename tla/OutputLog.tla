------------------------------ MODULE OutputLog ------------------------------
(***************************************************************************)
(* What the output buffer of a session promises, without saying how: an    *)
(* append-only log of bytes and readers that each receive every byte after *)
(* their starting point, once, in order, and end-of-file only after the    *)
(* last one.  A byte is named by its position in the stream.               *)
(***************************************************************************)
EXTENDS Integers, Sequences

CONSTANT Clients            \* the goroutines that call Read

VARIABLES produced,         \* number of bytes ever appended
          closed,           \* no byte is appended any more
          issued,           \* number of reader IDs handed out so far
          cursor,           \* registered reader ID -> last byte it received
          ret               \* Clients -> what its last Read returned

logVars == <<produced, closed, issued, cursor, ret>>

Kinds == {"none", "data", "empty", "eof", "invalid", "cancelled"}

\* The result of a Read that carries no byte.
Plain(kind) == [kind |-> kind, bytes |-> <<>>]

Bytes(first, last) == [i \in 1..(last - first + 1) |-> first + i - 1]

-----------------------------------------------------------------------------
Init ==
  /\ produced = 0
  /\ closed = FALSE
  /\ issued = 0
  /\ cursor = [r \in {} |-> 0]
  /\ ret = [c \in Clients |-> Plain("none")]

Produce ==
  /\ ~closed
  /\ produced' \in Nat /\ produced' > produced
  /\ UNCHANGED <<closed, issued, cursor, ret>>

Finish ==
  /\ closed' = TRUE
  /\ UNCHANGED <<produced, issued, cursor, ret>>

\* A new reader starts at the end of the log, or at a point that is no later
\* than what any registered reader still has to read.
Subscribe ==
  /\ issued' = issued + 1
  /\ \E p \in 0..produced :
       /\ p = produced \/ \A r \in DOMAIN cursor : p <= cursor[r]
       /\ cursor' = [r \in DOMAIN cursor \cup {issued} |->
                       IF r = issued THEN p ELSE cursor[r]]
  /\ UNCHANGED <<produced, closed, ret>>

Unsubscribe ==
  /\ \E gone \in SUBSET DOMAIN cursor :
       cursor' = [r \in DOMAIN cursor \ gone |-> cursor[r]]
  /\ UNCHANGED <<produced, closed, issued, ret>>

\* Client c receives the next bytes of reader r: all of them or a prefix.
Deliver(c, r) ==
  /\ \E last \in (cursor[r] + 1)..produced :
       /\ ret' = [ret EXCEPT ![c] =
                    [kind |-> "data", bytes |-> Bytes(cursor[r] + 1, last)]]
       /\ cursor' = [cursor EXCEPT ![r] = last]
  /\ UNCHANGED <<produced, closed, issued>>

\* End-of-file only on a closed log whose every byte reader r has received.
EndOfFile(c, r) ==
  /\ closed
  /\ cursor[r] = produced
  /\ ret' = [ret EXCEPT ![c] = Plain("eof")]
  /\ UNCHANGED <<produced, closed, issued, cursor>>

\* "empty" (timeout), "invalid" (no such reader), "cancelled" or the start of a
\* Read that has to wait: nothing is consumed.
Answer(c) ==
  /\ \E kind \in Kinds \ {"data", "eof"} : ret' = [ret EXCEPT ![c] = Plain(kind)]
  /\ UNCHANGED <<produced, closed, issued, cursor>>

Next ==
  \/ Produce \/ Finish \/ Subscribe \/ Unsubscribe
  \/ \E c \in Clients :
       \/ Answer(c)
       \/ \E r \in DOMAIN cursor : Deliver(c, r) \/ EndOfFile(c, r)

Spec == Init /\ [][Next]_logVars
=============================================================================
