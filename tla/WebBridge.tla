------------------------------ MODULE WebBridge ------------------------------
(***************************************************************************)
(* From the output of a process to the password dialog of a page, and from *)
(* its answer back: internal/prompt, the prompt and the secrets of         *)
(* session.go, the handler of a WebSocket in internal/daemon/web.go, and   *)
(* the socket of its page, web/app.js.                                     *)
(*                                                                         *)
(* Output goroutines scan what they print.  A connection has an output     *)
(* loop and an input goroutine, which outlives the connection while it     *)
(* submits a secret.  A frame is delivered when it is sent, or the         *)
(* connection breaks; a page then connects again.                          *)
(***************************************************************************)
EXTENDS Naturals, FiniteSets

CONSTANTS
  Streams,    \* output streams of the process
  Labels,     \* prompts that match a rule of the table
  MaxConns,   \* bound: the connections the page makes, one after the other
  MaxOutput,  \* bound: pieces of output
  None,       \* no prompt
  Ssh         \* the prompt of a session that is not dialed yet

ASSUME BridgeAssumption ==
  None \notin Labels /\ Ssh \notin Labels \cup {None} /\ {MaxConns, MaxOutput} \subseteq Nat

Conns  == 1..MaxConns
NoConn == 0

VARIABLES
  session,  \* its status and its PendingPrompt
  output,   \* how many pieces the buffer has
  tail,     \* of the Detector: the last line of the retained output
  cur,      \* of the Detector: the prompt it has reported
  stream,   \* what each output goroutine has to do for what it has printed
  secretBy, \* who holds connectMu
  conn,     \* the handler of each connection
  page,     \* its socket, activePrompt, sessionEnded, and whether it is local
  line,     \* history: what the last line shows since the last answer
  raced     \* history: output has met other output, or an answer, half way

vars == <<session, output, tail, cur, stream, secretBy, conn, page, line, raced>>

\* A line is empty, the first part of a prompt, a prompt, or something else.
Line(text, label) == [text |-> text, label |-> label]
Empty == Line("empty", None)
Other == Line("other", None)

\* What is printed at once: an end of line, the start or the rest of a prompt, or an
\* end of line with the whole prompt after it.
Newline == Line("newline", None)
Pieces  == {Newline} \cup {Line(text, l) : text \in {"start", "rest", "prompt"}, l \in Labels}
Extend(shown, p) ==
  CASE p = Newline -> Empty
    [] p.text = "prompt" -> Line("prompt", p.label)
    [] p.text = "start" /\ shown = Empty -> Line("half", p.label)
    [] p.text = "rest" /\ shown = Line("half", p.label) -> Line("prompt", p.label)
    [] OTHER -> Other

\* match and lastLine: a prompt is reported while it is the unterminated last line.
Match(shown) == IF shown.text = "prompt" THEN shown.label ELSE None

NewConn  == [out |-> "unused", sent |-> None, got |-> 0, late |-> FALSE,
             inp |-> "idle", inFlight |-> FALSE, dialed |-> FALSE]
NoStream == [at |-> "idle", piece |-> Newline, label |-> None]

Init ==
  /\ session \in {[status |-> "running", prompt |-> None],
                  [status |-> "awaiting_password", prompt |-> Ssh]}
  /\ output = 0 /\ tail = Empty /\ cur = None /\ line = Empty /\ raced = FALSE
  /\ stream = [s \in Streams |-> NoStream] /\ secretBy = NoConn
  /\ conn = [c \in Conns |-> NewConn]
  /\ page \in {[conn |-> NoConn, active |-> None, ended |-> FALSE, isLocal |-> b] : b \in BOOLEAN}

Busy(s)      == stream[s].at # "idle"
Answering(c) == conn[c].inp \in {"clear", "reset"}
Live         == session.status = "running" \/ \E c \in Conns : conn[c].inp = "attach"
Input(c, at) == conn' = [conn EXCEPT ![c].inp = at]

DetectorStays == UNCHANGED <<tail, cur>>
OutputStays   == UNCHANGED <<output, stream, line>>
Scans         == UNCHANGED <<secretBy, conn, page>>

-----------------------------------------------------------------------------
(* The output goroutines: bufWriter.Write stores a chunk and then scans it. *)

Prints(s, p) ==
  /\ Live /\ ~Busy(s) /\ output < MaxOutput
  /\ p.text = "rest" => line = Line("half", p.label)
  /\ output' = output + 1 /\ line' = Extend(line, p)
  /\ stream' = [stream EXCEPT ![s] = [at |-> "feed", piece |-> p, label |-> None]]
  /\ raced' = (raced \/ (\E t \in Streams : Busy(t))
                     \/ (p # Newline /\ \E c \in Conns : Answering(c)))
  /\ Scans /\ DetectorStays /\ UNCHANGED session

\* Feed, under the detector's mutex: only a change is reported.
\* (tailLimit, which cuts a tail of more than 256 bytes, is left out: lines are shorter.)
Feed(s) ==
  /\ stream[s].at = "feed"
  /\ tail' = Extend(tail, stream[s].piece) /\ cur' = Match(tail')
  /\ stream' = [stream EXCEPT ![s] =
       IF cur' = cur THEN NoStream ELSE [@ EXCEPT !.at = "act", !.label = cur']]
  /\ Scans /\ UNCHANGED <<session, output, line, raced>>

\* setPrompt or clearPrompt, under the session's mutex.
SetPrompt(s) ==
  /\ stream[s].at = "act"
  /\ session' = [session EXCEPT !.prompt = stream[s].label]
  /\ stream' = [stream EXCEPT ![s] = NoStream]
  /\ Scans /\ DetectorStays /\ UNCHANGED <<output, line, raced>>

\* The exit watcher, after every output goroutine is done; the prompt stays.
Exits ==
  /\ session.status = "running" /\ \A s \in Streams : ~Busy(s)
  /\ session' = [session EXCEPT !.status = "exited"]
  /\ Scans /\ DetectorStays /\ OutputStays /\ UNCHANGED raced

\* finishAwaiting: the note is written past the detector, the buffer is closed.
Finish ==
  /\ session' = [status |-> "exited", prompt |-> None] /\ output' = output + 1
  /\ DetectorStays /\ UNCHANGED <<stream, line, raced>>

\* The password timeout, or Terminate, of a session nobody is dialing.
GivesUp ==
  /\ session.status = "awaiting_password" /\ secretBy = NoConn
  /\ Finish /\ UNCHANGED <<secretBy, conn, page>>

-----------------------------------------------------------------------------
(* The output loop of a connection.                                        *)

LoopStays == UNCHANGED <<session, secretBy, raced>> /\ DetectorStays /\ OutputStays
Shown(p)  == page' = [page EXCEPT !.active = p]

\* connect and its "open" event, whose hideModal forgets the prompt; the handler
\* registers a reader and replays the prompt.
Opens(c) ==
  /\ page.conn = NoConn /\ ~page.ended /\ conn[c].out = "unused"
  /\ \A d \in 1 .. c - 1 : conn[d].out = "gone"
  /\ conn' = [conn EXCEPT ![c].out = "replay"]
  /\ page' = [page EXCEPT !.conn = c, !.active = None]
  /\ LoopStays
Replays(c) ==
  /\ conn[c].out = "replay"
  /\ conn' = [conn EXCEPT ![c].out = "read", ![c].sent = session.prompt]
  /\ IF session.prompt = None THEN UNCHANGED page ELSE Shown(session.prompt)
  /\ LoopStays

\* A mutated form of Reads: a Read returns more than there is.
ReadsAhead(c) ==
  /\ conn[c].out = "read" /\ conn[c].got <= output
  /\ conn' = [conn EXCEPT ![c].out = "poll", ![c].got = @ + 1]
  /\ UNCHANGED page /\ LoopStays

\* ReadOutput: all there is and forwarded, nothing in 250 ms, or end-of-file, which a
\* Read returns only when there is no data.
Reads(c) ==
  /\ conn[c].out = "read"
  /\ conn' = [conn EXCEPT ![c].got = output, ![c].out =
       IF conn[c].got = output /\ session.status = "exited" THEN "poll_eof" ELSE "poll"]
  /\ UNCHANGED page /\ LoopStays

\* A mutated form of PromptChanged: another label is no change.
PromptToggled(sent, current) == (sent = None) # (current = None)

PromptChanged(sent, current) == sent # current

\* A change is told to the page, which shows the dialog or hides it.
Polls(c) ==
  /\ conn[c].out \in {"poll", "poll_eof"}
  /\ conn' = [conn EXCEPT ![c].out = IF @ = "poll" THEN "read" ELSE "wait",
                          ![c].sent = IF PromptChanged(@, session.prompt) THEN session.prompt ELSE @]
  /\ IF PromptChanged(conn[c].sent, session.prompt) THEN Shown(session.prompt) ELSE UNCHANGED page
  /\ LoopStays

\* waitSecretIdle: the result is out, or it has taken two seconds.
Waits(c) ==
  /\ conn[c].out = "wait"
  /\ conn' = [conn EXCEPT ![c].out = "end", ![c].late = conn[c].inFlight]
  /\ UNCHANGED page /\ LoopStays

SendsEnd(c) ==
  /\ conn[c].out = "end"
  /\ conn' = [conn EXCEPT ![c].out = "close"]
  /\ page' = [page EXCEPT !.ended = TRUE, !.active = None]
  /\ LoopStays

\* The connection is closed after session-end, or breaks before, which a key that
\* SendInput refuses does too.
Closes(c) ==
  /\ conn[c].out \notin {"unused", "gone"}
  /\ conn' = [conn EXCEPT ![c].out = "gone", ![c].sent = None, ![c].got = 0]
  /\ page' = [page EXCEPT !.conn = NoConn]
  /\ LoopStays

-----------------------------------------------------------------------------
(* The input goroutine of a connection: SubmitSecret, under connectMu.     *)

\* submitPassword: the page shows a prompt and its socket is open.
Submits(c) ==
  /\ page.conn = c /\ page.active # None /\ conn[c].inp = "idle" /\ ~page.ended
  /\ Input(c, "sent") /\ UNCHANGED page /\ LoopStays

\* A mutated form of Takes: the output loop is not told.
TakesUnmarked(c) ==
  /\ conn[c].inp = "sent" /\ conn[c].out # "gone"
  /\ Input(c, IF page.isLocal THEN "lock" ELSE "idle") /\ UNCHANGED page /\ LoopStays

\* handleWebControl: a secret is refused unless it comes from the local host.
Takes(c) ==
  /\ conn[c].inp = "sent" /\ conn[c].out # "gone"
  /\ conn' = [conn EXCEPT ![c].inp = IF page.isLocal THEN "lock" ELSE "idle",
                          ![c].inFlight = page.isLocal]
  /\ UNCHANGED page /\ LoopStays

\* SubmitSecret returns, and connectMu is free.
Returns(c)  == Input(c, "result") /\ secretBy' = NoConn
SecretStays == UNCHANGED page /\ OutputStays

Locks(c) ==
  /\ conn[c].inp = "lock" /\ secretBy = NoConn
  /\ \/ session.status = "awaiting_password" /\ Input(c, "dial") /\ secretBy' = c
     \/ session.status = "running" /\ session.prompt \in Labels /\ Input(c, "write") /\ secretBy' = c
     \/ /\ session.status # "awaiting_password"
        /\ session.status = "exited" \/ session.prompt \notin Labels
        /\ Returns(c)
  /\ SecretStays /\ DetectorStays /\ UNCHANGED <<session, raced>>

\* connectWithSecret: the dial fails, and that ends the session, or starts a process
\* whose output is scanned at once.
DialFails(c) ==
  /\ conn[c].inp = "dial" /\ Finish
  /\ conn' = [conn EXCEPT ![c].inp = "result", ![c].dialed = TRUE]
  /\ secretBy' = NoConn /\ UNCHANGED page
DialStarts(c) ==
  /\ conn[c].inp = "dial"
  /\ conn' = [conn EXCEPT ![c].inp = "attach", ![c].dialed = TRUE]
  /\ SecretStays /\ DetectorStays /\ UNCHANGED <<session, secretBy, raced>>
Attaches(c) ==
  /\ conn[c].inp = "attach" /\ Returns(c)
  /\ session' = [status |-> "running", prompt |-> None]
  /\ raced' = (raced \/ session.prompt \in Labels)
  /\ SecretStays /\ DetectorStays

\* writeTerminalSecret: the write, clearPrompt and Reset are three steps.
SecretWrites(c) ==
  /\ conn[c].inp = "write"
  /\ IF session.status = "running"
     THEN /\ Input(c, "clear") /\ line' = Empty /\ UNCHANGED secretBy
          /\ raced' = (raced \/ \E s \in Streams : Busy(s) /\ stream[s].piece # Newline)
     ELSE Returns(c) /\ UNCHANGED <<line, raced>>
  /\ DetectorStays /\ UNCHANGED <<session, output, stream, page>>
SecretClears(c) ==
  /\ conn[c].inp = "clear" /\ Input(c, "reset")
  /\ session' = [session EXCEPT !.prompt = None]
  /\ SecretStays /\ DetectorStays /\ UNCHANGED <<secretBy, raced>>

\* A mutated form of SecretResets: the detector still knows the prompt.
ResetsNothing(c) ==
  /\ conn[c].inp = "reset" /\ Returns(c) /\ DetectorStays
  /\ SecretStays /\ UNCHANGED <<session, raced>>

SecretResets(c) ==
  /\ conn[c].inp = "reset" /\ Returns(c)
  /\ tail' = Empty /\ cur' = None
  /\ SecretStays /\ UNCHANGED <<session, raced>>

\* writeSecretResult tells the page.
Results(c) ==
  /\ conn[c].inp = "result"
  /\ conn' = [conn EXCEPT ![c].inp = "idle", ![c].inFlight = FALSE, ![c].dialed = FALSE]
  /\ UNCHANGED page /\ LoopStays

-----------------------------------------------------------------------------
Scan(s) == Feed(s) \/ SetPrompt(s)
Loop(c) == Replays(c) \/ Reads(c) \/ Polls(c) \/ Waits(c) \/ SendsEnd(c)
Secret(c) ==
  \/ Takes(c) \/ Locks(c) \/ DialFails(c) \/ DialStarts(c) \/ Attaches(c)
  \/ SecretWrites(c) \/ SecretClears(c) \/ SecretResets(c) \/ Results(c)

\* Nothing is left to do but to connect.
Over == session.status = "exited" /\ page.conn = NoConn /\ UNCHANGED vars

Next ==
  \/ \E s \in Streams : (\E p \in Pieces : Prints(s, p)) \/ Scan(s)
  \/ \E c \in Conns : Opens(c) \/ Loop(c) \/ Closes(c) \/ Submits(c) \/ Secret(c)
  \/ Exits \/ GivesUp \/ Over

\* What SubmitSecret does of itself: a dial may wait for its server, and a write for its
\* program, for as long as they like.
OwnSecret(c) ==
  \/ Takes(c) \/ Locks(c) \/ Attaches(c) \/ SecretClears(c) \/ SecretResets(c) \/ Results(c)
  \/ (session.status = "exited" /\ SecretWrites(c))

\* Goroutines run, and the loop polls every 250 ms.
Spec == Init /\ [][Next]_vars
             /\ \A s \in Streams : WF_vars(Scan(s))
             /\ \A c \in Conns : WF_vars(Loop(c)) /\ WF_vars(OwnSecret(c))

-----------------------------------------------------------------------------
\* Every variable has the shape the code gives it, and connectMu is held by the
\* connection that submits.
TypeOK ==
  /\ session.status \in {"awaiting_password", "running", "exited"}
  /\ {session.prompt, page.active} \subseteq Labels \cup {None, Ssh}
  /\ cur \in Labels \cup {None} /\ {tail.text, line.text} \subseteq {"empty", "half", "prompt", "other"}
  /\ \A s \in Streams : stream[s].at \in {"idle", "feed", "act"}
  /\ page.conn \in Conns \cup {NoConn}
  /\ \A c \in Conns : conn[c].got <= output /\ (conn[c].inFlight => page.isLocal)
  /\ \A c \in Conns : secretBy = c <=>
       conn[c].inp \in {"dial", "attach", "write", "clear", "reset"}

\* Once the output that has been printed is scanned, the session's prompt is the one the
\* program waits at, and one that was answered is not shown again, unless two goroutines
\* have raced (prompt.go:73-104, session.go:595-608, session.go:676-692).
PromptIsCurrent ==
  (/\ session.status = "running" /\ ~raced
   /\ \A s \in Streams : ~Busy(s)
   /\ \A c \in Conns : ~Answering(c))
     => (session.prompt = Match(line) /\ cur = Match(line))

\* The page shows the session's prompt, whichever it was before, whatever connection it
\* has lost, and it learns of the end (web.go:213-255, app.js:551-628).
PageFollows ==
  []<>(\/ page.conn = NoConn \/ page.ended
       \/ (session.status # "exited" /\ page.active = session.prompt))

\* session-end comes once all output is sent and the result of the secret that was dialed
\* with is told, unless telling it has taken two seconds (web.go:244-267).
EndIsLast ==
  [][page.ended' # page.ended =>
       \A c \in Conns : conn[c].out = "end" =>
         /\ session.status = "exited" /\ conn[c].got = output
         /\ conn[c].dialed => conn[c].late]_vars
=============================================================================
