--------------------------- MODULE WebBridgeProofs ---------------------------
(***************************************************************************)
(* Proofs about WebBridge, for any number of output streams, prompts,      *)
(* pieces of output and connections: the prompt a session has is the one   *)
(* its program waits at, and session-end is the last thing a page is told. *)
(***************************************************************************)
EXTENDS WebBridge, TLAPS

Prompts == Labels \cup {None, Ssh}
Lines   == {Empty, Other} \cup {Line(text, l) : text \in {"half", "prompt"}, l \in Labels}

Holding == {"dial", "attach", "write", "clear", "reset"}
Under   == Holding \cup {"lock", "result"}

ConnType == [
  out : {"unused", "replay", "read", "poll", "poll_eof", "wait", "end", "close", "gone"},
  sent : Prompts, got : Nat, late : BOOLEAN, inp : Under \cup {"idle", "sent"},
  inFlight : BOOLEAN, dialed : BOOLEAN]

StreamType == [at : {"idle", "feed", "act"}, piece : Pieces, label : Labels \cup {None}]

Shape ==
  /\ session \in [status : {"awaiting_password", "running", "exited"}, prompt : Prompts]
  /\ output \in Nat /\ tail \in Lines /\ line \in Lines /\ raced \in BOOLEAN
  /\ cur \in Labels \cup {None}
  /\ stream \in [Streams -> StreamType] /\ conn \in [Conns -> ConnType]
  /\ secretBy \in Conns \cup {NoConn}
  /\ page \in [conn : Conns \cup {NoConn}, active : Prompts, ended : BOOLEAN, isLocal : BOOLEAN]

\* connectMu is held by the connection that submits, and what it does fits the session.
SecretInv(c) ==
  /\ secretBy = c <=> conn[c].inp \in Holding
  /\ conn[c].inp \in {"dial", "attach"} => session.status = "awaiting_password"
  /\ conn[c].inp \in {"write", "clear", "reset"} => session.status # "awaiting_password"
  /\ conn[c].inp \in Under => conn[c].inFlight
  /\ conn[c].inFlight => page.isLocal
  /\ conn[c].dialed => conn[c].inp \in {"attach", "result"}

\* Past the end of the output there is nothing more to send.
EndInv(c) ==
  /\ conn[c].got <= output
  /\ conn[c].out \in {"poll_eof", "wait", "end"} =>
       session.status = "exited" /\ conn[c].got = output
  /\ conn[c].out = "end" /\ conn[c].dialed => conn[c].late

\* The detector has reported what the last line it has scanned shows.
DetectorInv == cur = Match(tail)

\* Nothing is printed before the dial or after the end.
QuietInv ==
  \/ Live
  \/ \A s \in Streams : ~Busy(s)

\* No goroutine has met another one on its way.
\*  - One piece of output at a time is under way.
\*  - What the detector has scanned, with the piece that is not fed yet, is the line.
\*  - The session's prompt is the one reported, or will be by who reports it.
\*  - After an answer the line is empty until more than its end is printed, and
\*    the prompt is gone once it is cleared.
OneAtATime  == \A s, t \in Streams : Busy(s) /\ Busy(t) => s = t
Reported(s) ==
  /\ stream[s].at = "act" => stream[s].label = cur
  /\ Busy(s) /\ stream[s].piece = Newline => line = Empty
TailInv ==
  /\ \A s \in Streams : stream[s].at = "feed" => line = Extend(tail, stream[s].piece)
  /\ (\A s \in Streams : stream[s].at # "feed") => tail = line
PromptInv ==
  (\A s \in Streams : stream[s].at # "act") =>
     \/ session.prompt = cur
     \/ session.status = "awaiting_password" /\ session.prompt = Ssh /\ cur = None
AnswerInv ==
  /\ line = Empty
  /\ \A s \in Streams : Busy(s) => stream[s].piece = Newline
  /\ \A s \in Streams : stream[s].at = "act" => tail = Empty /\ cur = None
  /\ \A c \in Conns : conn[c].inp = "reset" => session.prompt = None
ScanInv ==
  /\ OneAtATime /\ \A s \in Streams : Reported(s)
  /\ IF \E c \in Conns : Answering(c) THEN AnswerInv
     ELSE session.status # "exited" => TailInv /\ PromptInv

IInv ==
  /\ Shape /\ DetectorInv /\ QuietInv
  /\ \A c \in Conns : SecretInv(c) /\ EndInv(c)
  /\ ~raced => ScanInv

-----------------------------------------------------------------------------
(* Lines.                                                                  *)

\* What is printed makes a line of a line, and an end of line an empty one.
LEMMA LineFacts ==
  /\ Empty \in Lines /\ Match(Empty) = None
  /\ \A l \in Lines : Match(l) \in Labels \cup {None} /\ Extend(l, Newline) = Empty
  /\ \A l \in Lines, p \in Pieces : Extend(l, p) \in Lines
<1>1. Empty \in Lines /\ Match(Empty) = None
  BY DEF Lines, Match, Empty, Line
<1>2. \A l \in Lines : Match(l) \in Labels \cup {None}
  BY DEF Lines, Match, Empty, Other, Line
<1>3. \A l : Extend(l, Newline) = Empty
  <2>1. Newline.text # "prompt" /\ Newline.text # "start" /\ Newline.text # "rest"
    BY DEF Newline, Line
  <2>2. QED  BY <2>1, Zenon DEF Extend
<1>4. ASSUME NEW l \in Lines, NEW p \in Pieces PROVE Extend(l, p) \in Lines
  <2>1. \A text \in {"half", "prompt"}, b \in Labels : Line(text, b) \in Lines
    BY DEF Lines
  <2>2. p # Newline => p.label \in Labels
    BY DEF Pieces, Line
  <2>3. Other \in Lines
    BY DEF Lines
  <2>4. p # Newline => Line("half", p.label) \in Lines /\ Line("prompt", p.label) \in Lines
    BY <2>1, <2>2
  <2>5. CASE p = Newline
    BY <1>1, <1>3, <2>5
  <2>6. CASE p # Newline
    <3>1. ~(p.text = "prompt" /\ p.text = "start") /\ ~(p.text = "prompt" /\ p.text = "rest")
          /\ ~(p.text = "start" /\ p.text = "rest")
      OBVIOUS
    <3>2. QED  BY <2>3, <2>4, <2>6, <3>1, Zenon DEF Extend
  <2>7. QED  BY <2>5, <2>6
<1>5. QED  BY <1>1, <1>2, <1>3, <1>4

-----------------------------------------------------------------------------
(* Frames: what a step leaves alone.                                       *)

\* What the type invariant says, part by part.
LEMMA Types ==
  ASSUME IInv
  PROVE  /\ session \in [status : {"awaiting_password", "running", "exited"}, prompt : Prompts]
         /\ session.status \in {"awaiting_password", "running", "exited"} /\ session.prompt \in Prompts
         /\ output \in Nat /\ tail \in Lines /\ line \in Lines /\ raced \in BOOLEAN
         /\ cur \in Labels \cup {None} /\ cur = Match(tail)
         /\ stream \in [Streams -> StreamType] /\ conn \in [Conns -> ConnType]
         /\ secretBy \in Conns \cup {NoConn}
         /\ page \in [conn : Conns \cup {NoConn}, active : Prompts, ended : BOOLEAN, isLocal : BOOLEAN]
         /\ \A c \in Conns : conn[c] \in ConnType /\ SecretInv(c) /\ EndInv(c)
         /\ \A s \in Streams : stream[s] \in StreamType
BY DEF IInv, Shape, DetectorInv

\* NoConn is nobody's, so connectMu excludes.
LEMMA Exclusion ==
  ASSUME IInv, NEW c \in Conns, conn[c].inp \in Holding
  PROVE  /\ secretBy = c /\ NoConn # c
         /\ \A d \in Conns : d # c => conn[d].inp \notin Holding
BY Types, BridgeAssumption DEF SecretInv, Conns, NoConn

\* The answers that are under way stay where they are.
SameAnswers ==
  \A c \in Conns : \/ conn'[c].inp = conn[c].inp
                  \/ {conn[c].inp, conn'[c].inp} \cap {"clear", "reset"} = {}

\* Steps that concern neither the streams nor the prompt keep what is known of them.
LEMMA ScanFrame ==
  ASSUME IInv, UNCHANGED <<session, tail, cur, stream, line>>, ~raced' => ~raced, SameAnswers,
         \A c \in Conns : conn[c].inp = "attach" => conn'[c].inp = "attach"
  PROVE  DetectorInv' /\ QuietInv' /\ (~raced' => ScanInv')
<1>2. \A c \in Conns : /\ (Answering(c)' <=> Answering(c))
                       /\ conn'[c].inp = "reset" <=> conn[c].inp = "reset"
  BY DEF Answering, SameAnswers
<1>3. DetectorInv'
  BY DEF IInv, DetectorInv
<1>4. QuietInv'
  BY <1>2 DEF IInv, QuietInv, Live, Busy
<1>5. ASSUME ~raced' PROVE ScanInv'
  <2>1. ScanInv
    BY <1>5 DEF IInv
  <2>2. OneAtATime' /\ \A s \in Streams : Reported(s)'
    BY <2>1 DEF ScanInv, OneAtATime, Reported, Busy
  <2>3. CASE \E c \in Conns : Answering(c)
    <3>1. AnswerInv'
      BY <1>2, <2>1, <2>3 DEF ScanInv, AnswerInv, Busy
    <3>2. QED  BY <1>2, <2>2, <2>3, <3>1 DEF ScanInv
  <2>4. CASE ~\E c \in Conns : Answering(c)
    <3>1. session'.status # "exited" => TailInv' /\ PromptInv'
      BY <2>1, <2>4 DEF ScanInv, TailInv, PromptInv
    <3>2. QED  BY <1>2, <2>2, <2>4, <3>1 DEF ScanInv
  <2>5. QED  BY <2>3, <2>4
<1>6. QED  BY <1>3, <1>4, <1>5

\* The handler of c goes on as k, and the rest is as it was.
LEMMA LoopStep ==
  ASSUME IInv, NEW c \in Conns, NEW k \in ConnType, conn' = [conn EXCEPT ![c] = k], LoopStays,
         page' \in [conn : Conns \cup {NoConn}, active : Prompts, ended : BOOLEAN, isLocal : BOOLEAN],
         page'.isLocal = page.isLocal,
         k.inp = conn[c].inp \/ {k.inp, conn[c].inp} \cap Holding = {},
         k.inp \in Under => k.inFlight,
         k.inFlight => page.isLocal,
         k.dialed => k.inp \in {"attach", "result"},
         k.got <= output,
         k.out \in {"poll_eof", "wait", "end"} => session.status = "exited" /\ k.got = output,
         k.out = "end" /\ k.dialed => k.late
  PROVE  IInv'
<1>1. \A d \in Conns : conn'[d] = IF d = c THEN k ELSE conn[d]
  BY Types
<1>2. UNCHANGED <<session, secretBy, raced, tail, cur, output, stream, line>>
  BY DEF LoopStays, DetectorStays, OutputStays
<1>3. conn' \in [Conns -> ConnType]
  BY Types
<1>4. Shape'
  BY <1>2, <1>3 DEF IInv, Shape
<1>5. ASSUME NEW d \in Conns PROVE SecretInv(d)'
  <2>1. CASE d # c
    BY <1>1, <1>2, <2>1, Types DEF SecretInv
  <2>2. CASE d = c
    BY <1>1, <1>2, <2>2, Types DEF SecretInv, Holding
  <2>3. QED  BY <2>1, <2>2
<1>6. ASSUME NEW d \in Conns PROVE EndInv(d)'
  BY <1>1, <1>2, Types DEF EndInv
<1>7. SameAnswers /\ \A d \in Conns : conn[d].inp = "attach" => conn'[d].inp = "attach"
  <2>1. \/ k.inp = conn[c].inp
        \/ k.inp \notin {"attach", "clear", "reset"} /\ conn[c].inp \notin {"attach", "clear", "reset"}
    BY DEF Holding
  <2>2. ASSUME NEW d \in Conns
        PROVE  \/ conn'[d].inp = conn[d].inp
               \/ /\ conn[d].inp \notin {"attach", "clear", "reset"}
                  /\ conn'[d].inp \notin {"attach", "clear", "reset"}
    BY <1>1, <2>1
  <2>3. QED  BY <2>2 DEF SameAnswers
<1>8. DetectorInv' /\ QuietInv' /\ (~raced' => ScanInv')
  BY <1>2, <1>7, ScanFrame
<1>9. QED  BY <1>4, <1>5, <1>6, <1>8 DEF IInv

-----------------------------------------------------------------------------
(* The output loop of a connection, and what a page sends and is told.     *)

\* What a connection that goes on keeps of itself.
Same(k, c) ==
  k.inp = conn[c].inp /\ k.inFlight = conn[c].inFlight /\ k.dialed = conn[c].dialed

\* A step of the output loop of c alone.
LEMMA OutInv ==
  ASSUME IInv, NEW c \in Conns, NEW k \in ConnType, conn' = [conn EXCEPT ![c] = k], LoopStays, Same(k, c),
         page' \in [conn : Conns \cup {NoConn}, active : Prompts, ended : BOOLEAN, isLocal : BOOLEAN],
         page'.isLocal = page.isLocal,
         k.got <= output,
         k.out \in {"poll_eof", "wait", "end"} => session.status = "exited" /\ k.got = output,
         k.out = "end" /\ k.dialed => k.late
  PROVE  IInv'
<1>1. SecretInv(c)
  BY Types
<1>2. QED  BY <1>1, LoopStep DEF Same, SecretInv

\* The page connects, the prompt is replayed, output is sent and prompts are polled.
LEMMA LoopInv ==
  ASSUME IInv, NEW c \in Conns, Opens(c) \/ Replays(c) \/ Reads(c) \/ Polls(c)
  PROVE  IInv'
<1>1. /\ conn \in [Conns -> ConnType] /\ conn[c] \in ConnType /\ EndInv(c) /\ output \in Nat
      /\ page \in [conn : Conns \cup {NoConn}, active : Prompts, ended : BOOLEAN, isLocal : BOOLEAN]
      /\ session.prompt \in Prompts /\ None \in Prompts
  BY Types DEF Prompts
<1>2. CASE Opens(c)
  <2>1. PICK k : k = [conn[c] EXCEPT !.out = "replay"]
    OBVIOUS
  <2>2. k \in ConnType /\ Same(k, c) /\ k.out = "replay" /\ k.got = conn[c].got
    BY <1>1, <2>1 DEF ConnType, Same
  <2>3. /\ conn' = [conn EXCEPT ![c] = k] /\ LoopStays
        /\ page' = [page EXCEPT !.conn = c, !.active = None]
    BY <1>2, <2>1 DEF Opens
  <2>4. QED  BY <1>1, <2>2, <2>3, OutInv DEF EndInv
<1>3. CASE Replays(c)
  <2>1. PICK k : k = [conn[c] EXCEPT !.out = "read", !.sent = session.prompt]
    OBVIOUS
  <2>2. k \in ConnType /\ Same(k, c) /\ k.out = "read" /\ k.got = conn[c].got
    BY <1>1, <2>1 DEF ConnType, Same
  <2>3. /\ conn' = [conn EXCEPT ![c] = k] /\ LoopStays
        /\ page' = page \/ page' = [page EXCEPT !.active = session.prompt]
    BY <1>1, <1>3, <2>1 DEF Replays, Shown
  <2>4. QED  BY <1>1, <2>2, <2>3, OutInv DEF EndInv
<1>4. CASE Reads(c)
  <2>1. PICK k : k = [conn[c] EXCEPT !.got = output, !.out =
                       IF conn[c].got = output /\ session.status = "exited" THEN "poll_eof" ELSE "poll"]
    OBVIOUS
  <2>2. /\ k \in ConnType /\ Same(k, c) /\ k.got = output
        /\ k.out = "poll" \/ (k.out = "poll_eof" /\ session.status = "exited")
    BY <1>1, <2>1 DEF ConnType, Same
  <2>3. conn' = [conn EXCEPT ![c] = k] /\ LoopStays /\ page' = page
    BY <1>1, <1>4, <2>1 DEF Reads
  <2>4. /\ k.got <= output /\ k.out # "end"
        /\ k.out \in {"poll_eof", "wait", "end"} => session.status = "exited" /\ k.got = output
    BY <1>1, <2>2
  <2>5. QED  BY <1>1, <2>2, <2>3, <2>4, OutInv
<1>5. CASE Polls(c)
  <2>1. PICK k : k = [conn[c] EXCEPT !.out = IF @ = "poll" THEN "read" ELSE "wait",
                                     !.sent = IF PromptChanged(@, session.prompt) THEN session.prompt ELSE @]
    OBVIOUS
  <2>2. /\ k \in ConnType /\ Same(k, c) /\ k.got = conn[c].got
        /\ k.out = IF conn[c].out = "poll" THEN "read" ELSE "wait"
    BY <1>1, <2>1 DEF ConnType, Same
  <2>3. /\ conn' = [conn EXCEPT ![c] = k] /\ LoopStays /\ conn[c].out \in {"poll", "poll_eof"}
        /\ page' = page \/ page' = [page EXCEPT !.active = session.prompt]
    BY <1>1, <1>5, <2>1 DEF Polls, Shown
  <2>4. QED  BY <1>1, <2>2, <2>3, OutInv DEF EndInv
<1>6. QED  BY <1>2, <1>3, <1>4, <1>5

\* After the end of the output the result of a secret is waited for, then the end is told.
LEMMA EndStepInv ==
  ASSUME IInv, NEW c \in Conns, Waits(c) \/ SendsEnd(c) \/ Closes(c)
  PROVE  IInv'
<1>1. /\ conn \in [Conns -> ConnType] /\ conn[c] \in ConnType /\ EndInv(c) /\ SecretInv(c) /\ output \in Nat
      /\ page \in [conn : Conns \cup {NoConn}, active : Prompts, ended : BOOLEAN, isLocal : BOOLEAN]
      /\ None \in Prompts
  BY Types DEF Prompts
<1>2. CASE Waits(c)
  <2>1. PICK k : k = [conn[c] EXCEPT !.out = "end", !.late = conn[c].inFlight]
    OBVIOUS
  <2>2. k \in ConnType /\ Same(k, c) /\ k.got = conn[c].got /\ k.late = conn[c].inFlight
    BY <1>1, <2>1 DEF ConnType, Same
  <2>3. conn' = [conn EXCEPT ![c] = k] /\ LoopStays /\ page' = page /\ conn[c].out = "wait"
    BY <1>1, <1>2, <2>1 DEF Waits
  <2>4. k.dialed => k.late
    BY <1>1, <2>2 DEF SecretInv, Same, Under, Holding
  <2>5. QED  BY <1>1, <2>2, <2>3, <2>4, OutInv DEF EndInv
<1>3. CASE SendsEnd(c)
  <2>1. PICK k : k = [conn[c] EXCEPT !.out = "close"]
    OBVIOUS
  <2>2. k \in ConnType /\ Same(k, c) /\ k.got = conn[c].got /\ k.out = "close"
    BY <1>1, <2>1 DEF ConnType, Same
  <2>3. conn' = [conn EXCEPT ![c] = k] /\ LoopStays /\ page' = [page EXCEPT !.ended = TRUE, !.active = None]
    BY <1>1, <1>3, <2>1 DEF SendsEnd
  <2>4. QED  BY <1>1, <2>2, <2>3, OutInv DEF EndInv
<1>4. CASE Closes(c)
  <2>1. PICK k : k = [conn[c] EXCEPT !.out = "gone", !.sent = None, !.got = 0]
    OBVIOUS
  <2>2. k \in ConnType /\ Same(k, c) /\ k.got = 0 /\ k.out = "gone"
    BY <1>1, <2>1 DEF ConnType, Same
  <2>3. conn' = [conn EXCEPT ![c] = k] /\ LoopStays /\ page' = [page EXCEPT !.conn = NoConn]
    BY <1>1, <1>4, <2>1 DEF Closes
  <2>4. k.got <= output /\ k.out \notin {"poll_eof", "wait", "end"}
    BY <1>1, <2>2
  <2>5. /\ page' \in [conn : Conns \cup {NoConn}, active : Prompts, ended : BOOLEAN, isLocal : BOOLEAN]
        /\ page'.isLocal = page.isLocal
    BY <1>1, <2>3
  <2>6. QED  BY <2>2, <2>3, <2>4, <2>5, OutInv
<1>5. QED  BY <1>2, <1>3, <1>4

\* The page submits, the handler takes or refuses the secret, and tells the result.
LEMMA InputInv ==
  ASSUME IInv, NEW c \in Conns, Submits(c) \/ Takes(c) \/ Results(c)
  PROVE  IInv'
<1>1. /\ conn \in [Conns -> ConnType] /\ conn[c] \in ConnType /\ EndInv(c) /\ SecretInv(c) /\ page' = page
      /\ page \in [conn : Conns \cup {NoConn}, active : Prompts, ended : BOOLEAN, isLocal : BOOLEAN] /\ LoopStays
  BY Types DEF Submits, Takes, Results
<1>2. CASE Submits(c)
  <2>1. PICK k : k = [conn[c] EXCEPT !.inp = "sent"]
    OBVIOUS
  <2>2. /\ k \in ConnType /\ k.inp = "sent" /\ k.inFlight = conn[c].inFlight /\ k.dialed = conn[c].dialed
        /\ k.got = conn[c].got /\ k.out = conn[c].out /\ k.late = conn[c].late
    BY <1>1, <2>1 DEF ConnType
  <2>3. conn' = [conn EXCEPT ![c] = k] /\ conn[c].inp = "idle"
    BY <1>2, <2>1 DEF Submits, Input
  <2>4. QED  BY <1>1, <2>2, <2>3, LoopStep DEF EndInv, SecretInv, Holding, Under
<1>3. CASE Takes(c)
  <2>1. PICK k : k = [conn[c] EXCEPT !.inp = IF page.isLocal THEN "lock" ELSE "idle",
                                     !.inFlight = page.isLocal]
    OBVIOUS
  <2>2. /\ k \in ConnType /\ k.inp = (IF page.isLocal THEN "lock" ELSE "idle") /\ k.inFlight = page.isLocal
        /\ k.dialed = conn[c].dialed /\ k.got = conn[c].got /\ k.out = conn[c].out /\ k.late = conn[c].late
    BY <1>1, <2>1 DEF ConnType, Under
  <2>3. conn' = [conn EXCEPT ![c] = k] /\ conn[c].inp = "sent"
    BY <1>1, <1>3, <2>1 DEF Takes
  <2>4. QED  BY <1>1, <2>2, <2>3, LoopStep DEF EndInv, SecretInv, Holding, Under
<1>4. CASE Results(c)
  <2>1. PICK k : k = [conn[c] EXCEPT !.inp = "idle", !.inFlight = FALSE, !.dialed = FALSE]
    OBVIOUS
  <2>2. /\ k \in ConnType /\ k.inp = "idle" /\ ~k.inFlight /\ ~k.dialed
        /\ k.got = conn[c].got /\ k.out = conn[c].out
    BY <1>1, <2>1 DEF ConnType
  <2>3. conn' = [conn EXCEPT ![c] = k] /\ conn[c].inp = "result"
    BY <1>1, <1>4, <2>1 DEF Results
  <2>4. QED  BY <1>1, <2>2, <2>3, LoopStep DEF EndInv, SecretInv, Holding, Under
<1>5. QED  BY <1>2, <1>3, <1>4

-----------------------------------------------------------------------------
(* SubmitSecret, under connectMu.                                          *)

\* A step of SubmitSecret of c takes connectMu, keeps it or releases it, and what it
\* does to the session fits what it does next.
LEMMA SecretStep ==
  ASSUME IInv, NEW c \in Conns, NEW k \in ConnType, conn' = [conn EXCEPT ![c] = k],
         conn[c].inp \in Under, k.inp \in Under, secretBy \in {c, NoConn},
         secretBy' = (IF k.inp \in Holding THEN c ELSE NoConn), page' = page,
         k.out = conn[c].out, k.got = conn[c].got, k.late = conn[c].late, k.inFlight = conn[c].inFlight,
         k.dialed => k.inp \in {"attach", "result"} /\ (conn[c].dialed \/ session.status # "exited"),
         k.inp \in {"dial", "attach"} => session'.status = "awaiting_password",
         k.inp \in {"write", "clear", "reset"} => session'.status # "awaiting_password",
         output' = output \/ (session.status # "exited" /\ output' = output + 1),
         session.status = "exited" => session'.status = "exited"
  PROVE  /\ conn' \in [Conns -> ConnType] /\ secretBy' \in Conns \cup {NoConn} /\ output' \in Nat
         /\ \A d \in Conns : conn'[d] = IF d = c THEN k ELSE conn[d]
         /\ \A d \in Conns : SecretInv(d)' /\ EndInv(d)'
<1>1. conn' \in [Conns -> ConnType] /\ \A d \in Conns : conn'[d] = IF d = c THEN k ELSE conn[d]
  BY Types
<1>2. secretBy' \in {c, NoConn} /\ NoConn \notin Conns
  BY BridgeAssumption DEF Conns, NoConn
<1>3. \A d \in Conns : d # c => conn[d].inp \notin Holding
  BY <1>2, Types DEF SecretInv
<1>4. ASSUME NEW d \in Conns PROVE SecretInv(d)'
  <2>1. CASE d # c
    <3>1. conn'[d] = conn[d] /\ conn[d].inp \notin Holding /\ SecretInv(d)
      BY <1>1, <1>3, <2>1, Types
    <3>2. secretBy' # d
      BY <1>2, <2>1
    <3>3. QED  BY <3>1, <3>2 DEF SecretInv, Holding
  <2>2. CASE d = c
    BY <1>1, <1>2, <2>2, Types DEF SecretInv, Holding
  <2>3. QED  BY <2>1, <2>2
<1>5. ASSUME NEW d \in Conns PROVE EndInv(d)'
  <2>1. EndInv(d) /\ output \in Nat /\ conn[d].got \in Nat
    BY Types DEF ConnType
  <2>2. CASE d # c
    BY <1>1, <2>1, <2>2 DEF EndInv
  <2>3. CASE d = c
    BY <1>1, <2>1, <2>3 DEF EndInv
  <2>4. QED  BY <2>2, <2>3
<1>6. QED  BY <1>1, <1>4, <1>5, Types

\* SubmitSecret decides what to do with a secret, and a dial that succeeds starts a process.
LEMMA LocksInv ==
  ASSUME IInv, NEW c \in Conns, Locks(c) \/ DialStarts(c)
  PROVE  IInv'
<1>1. /\ conn \in [Conns -> ConnType] /\ conn[c] \in ConnType /\ SecretInv(c)
      /\ session.status \in {"awaiting_password", "running", "exited"}
  BY Types
<1>2. UNCHANGED <<session, tail, cur, raced, page, output, stream, line>>
  BY DEF Locks, DialStarts, SecretStays, DetectorStays, OutputStays
<1>3. PICK k : /\ conn' = [conn EXCEPT ![c] = k]
               /\ \/ k = [conn[c] EXCEPT !.inp = "dial"]
                  \/ k = [conn[c] EXCEPT !.inp = "write"]
                  \/ k = [conn[c] EXCEPT !.inp = "result"]
                  \/ k = [conn[c] EXCEPT !.inp = "attach", !.dialed = TRUE]
  BY <1>1 DEF Locks, DialStarts, Returns, Input
<1>4. /\ k \in ConnType /\ k.out = conn[c].out /\ k.got = conn[c].got /\ k.late = conn[c].late
      /\ k.inFlight = conn[c].inFlight
  BY <1>1, <1>3 DEF ConnType, Under, Holding
<1>5. CASE Locks(c)
  <2>1. /\ conn'[c] = k /\ conn[c].inp = "lock" /\ secretBy = NoConn
        /\ \/ conn'[c].inp = "dial" /\ secretBy' = c /\ session.status = "awaiting_password"
           \/ conn'[c].inp = "write" /\ secretBy' = c /\ session.status = "running"
           \/ conn'[c].inp = "result" /\ secretBy' = NoConn
    BY <1>1, <1>3, <1>5 DEF Locks, Returns, Input, ConnType
  <2>2. ~k.dialed
    <3>1. ~conn[c].dialed
      BY <1>1, <2>1 DEF SecretInv
    <3>2. k.inp # "attach"
      BY <2>1
    <3>3. k.dialed = conn[c].dialed \/ k.inp = "attach"
      BY <1>1, <1>3 DEF ConnType
    <3>4. QED  BY <3>1, <3>2, <3>3
  <2>3. k.inp \in Under /\ secretBy' = (IF k.inp \in Holding THEN c ELSE NoConn)
    BY <2>1 DEF Under, Holding
  <2>4. /\ conn' \in [Conns -> ConnType] /\ secretBy' \in Conns \cup {NoConn}
        /\ \A d \in Conns : conn'[d] = IF d = c THEN k ELSE conn[d]
        /\ \A d \in Conns : SecretInv(d)' /\ EndInv(d)'
    BY <1>1, <1>2, <1>3, <1>4, <2>1, <2>2, <2>3, SecretStep DEF Under, Holding
  <2>5. SameAnswers /\ \A d \in Conns : conn[d].inp = "attach" => conn'[d].inp = "attach"
    BY <2>1, <2>4 DEF SameAnswers
  <2>6. Shape'
    BY <1>2, <2>4 DEF IInv, Shape
  <2>7. DetectorInv' /\ QuietInv' /\ (~raced' => ScanInv')
    BY <1>2, <2>5, ScanFrame
  <2>8. QED  BY <2>4, <2>6, <2>7 DEF IInv
<1>6. CASE DialStarts(c)
  <2>1. conn[c].inp = "dial" /\ secretBy' = secretBy /\ k.inp = "attach" /\ secretBy = c
    <3>1. conn'[c] = k /\ conn'[c].inp = "attach"
      BY <1>1, <1>3, <1>6 DEF DialStarts, ConnType
    <3>2. QED  BY <1>1, <1>6, <3>1 DEF DialStarts, SecretInv, Holding
  <2>2. session.status = "awaiting_password"
    BY <1>1, <2>1 DEF SecretInv
  <2>3. /\ conn' \in [Conns -> ConnType] /\ secretBy' \in Conns \cup {NoConn}
        /\ \A d \in Conns : conn'[d] = IF d = c THEN k ELSE conn[d]
        /\ \A d \in Conns : SecretInv(d)' /\ EndInv(d)'
    BY <1>1, <1>2, <1>3, <1>4, <2>1, <2>2, SecretStep DEF Under, Holding
  <2>4. SameAnswers /\ \A d \in Conns : conn[d].inp = "attach" => conn'[d].inp = "attach"
    BY <2>1, <2>3 DEF SameAnswers
  <2>5. Shape'
    BY <1>2, <2>3 DEF IInv, Shape
  <2>6. DetectorInv' /\ QuietInv' /\ (~raced' => ScanInv')
    BY <1>2, <2>4, ScanFrame
  <2>7. QED  BY <2>3, <2>5, <2>6 DEF IInv
<1>7. QED  BY <1>5, <1>6

\* A session that awaits its password, and that nobody has dialed, has printed nothing.
LEMMA QuietBefore ==
  ASSUME IInv, session.status = "awaiting_password", \A c \in Conns : conn[c].inp # "attach"
  PROVE  \A s \in Streams : ~Busy(s)
BY DEF IInv, QuietInv, Live

\* The end of a session without a process: the note, and no prompt.
LEMMA FinishInv ==
  ASSUME IInv, session.status = "awaiting_password", Finish, page' = page,
         \A d \in Conns : conn[d].inp # "attach", conn' \in [Conns -> ConnType], SameAnswers,
         secretBy' \in Conns \cup {NoConn}, \A d \in Conns : SecretInv(d)' /\ EndInv(d)'
  PROVE  IInv'
<1>1. /\ session' = [status |-> "exited", prompt |-> None] /\ output' = output + 1
      /\ tail' = tail /\ cur' = cur /\ stream' = stream /\ line' = line /\ raced' = raced
  BY DEF Finish, DetectorStays
<1>2. session'.status = "exited" /\ session' \in [status : {"awaiting_password", "running", "exited"}, prompt : Prompts]
  BY <1>1 DEF Prompts
<1>3. Shape'
  BY <1>1, <1>2, Types DEF Shape
<1>4. \A s \in Streams : ~Busy(s)
  BY QuietBefore
<1>5. DetectorInv' /\ QuietInv'
  BY <1>1, <1>4, Types DEF DetectorInv, QuietInv, Busy
<1>6. \A c \in Conns : ~Answering(c)'
  <2>1. \A c \in Conns : ~Answering(c)
    BY Types DEF SecretInv, Answering
  <2>2. QED  BY <2>1 DEF SameAnswers, Answering
<1>7. ~raced' => ScanInv'
  <2>1. OneAtATime' /\ \A s \in Streams : Reported(s)'
    BY <1>1, <1>4, Types DEF OneAtATime, Reported, Busy, StreamType
  <2>2. QED  BY <1>2, <1>6, <2>1 DEF ScanInv
<1>8. QED  BY <1>3, <1>5, <1>7 DEF IInv

\* The password timeout, and a dial that fails.
LEMMA GivesUpInv ==
  ASSUME IInv, GivesUp \/ \E c \in Conns : DialFails(c)
  PROVE  IInv'
<1>1. CASE GivesUp
  <2>1. session.status = "awaiting_password" /\ secretBy = NoConn /\ Finish /\ UNCHANGED <<secretBy, conn, page>>
    BY <1>1 DEF GivesUp
  <2>2. NoConn \notin Conns
    BY BridgeAssumption DEF Conns, NoConn
  <2>3. \A d \in Conns : conn[d].inp \notin Holding
    BY <2>1, <2>2, Types DEF SecretInv
  <2>4. session'.status = "exited" /\ output' = output + 1
    BY <2>1 DEF Finish
  <2>5. \A d \in Conns : SecretInv(d)'
    BY <2>1, <2>3, Types DEF SecretInv, Holding
  <2>6. \A d \in Conns : EndInv(d)'
    BY <2>1, <2>4, Types DEF EndInv, ConnType
  <2>7. SameAnswers
    BY <2>1 DEF SameAnswers
  <2>8. \A d \in Conns : conn[d].inp # "attach"
    BY <2>3 DEF Holding
  <2>9. conn' \in [Conns -> ConnType] /\ secretBy' \in Conns \cup {NoConn}
    BY <2>1, Types
  <2>10. QED  BY <2>1, <2>5, <2>6, <2>7, <2>8, <2>9, FinishInv
<1>2. ASSUME NEW c \in Conns, DialFails(c) PROVE IInv'
  <2>1. conn \in [Conns -> ConnType] /\ conn[c] \in ConnType /\ SecretInv(c) /\ conn[c].inp = "dial"
    BY <1>2, Types DEF DialFails
  <2>2. session.status = "awaiting_password" /\ secretBy = c /\ \A d \in Conns : d # c => conn[d].inp \notin Holding
    BY <2>1, Exclusion DEF SecretInv, Holding
  <2>3. PICK k : k = [conn[c] EXCEPT !.inp = "result", !.dialed = TRUE]
    OBVIOUS
  <2>4. /\ k \in ConnType /\ k.inp = "result" /\ k.out = conn[c].out /\ k.got = conn[c].got
        /\ k.late = conn[c].late /\ k.inFlight = conn[c].inFlight
    BY <2>1, <2>3 DEF ConnType, Under
  <2>5. conn' = [conn EXCEPT ![c] = k] /\ Finish /\ secretBy' = NoConn /\ page' = page
    BY <1>2, <2>1, <2>3 DEF DialFails
  <2>6. session'.status = "exited" /\ output' = output + 1
    BY <2>5 DEF Finish
  <2>7. /\ conn' \in [Conns -> ConnType] /\ secretBy' \in Conns \cup {NoConn}
        /\ \A d \in Conns : conn'[d] = IF d = c THEN k ELSE conn[d]
        /\ \A d \in Conns : SecretInv(d)' /\ EndInv(d)'
    BY <2>1, <2>2, <2>4, <2>5, <2>6, SecretStep DEF Under, Holding
  <2>8. SameAnswers
    BY <2>1, <2>4, <2>7 DEF SameAnswers
  <2>9. \A d \in Conns : conn[d].inp # "attach"
    BY <2>1, <2>2 DEF Holding
  <2>10. QED  BY <2>2, <2>5, <2>7, <2>8, <2>9, FinishInv
<1>3. QED  BY <1>1, <1>2

\* The process that was dialed is attached: the prompt of the dialog is gone, and one
\* that was printed meanwhile has raced.
LEMMA AttachesInv ==
  ASSUME IInv, NEW c \in Conns, Attaches(c)
  PROVE  IInv'
<1>1. /\ conn \in [Conns -> ConnType] /\ conn[c] \in ConnType /\ SecretInv(c) /\ conn[c].inp = "attach"
      /\ session.status = "awaiting_password" /\ secretBy = c
      /\ \A d \in Conns : d # c => conn[d].inp \notin Holding
  BY Types, Exclusion DEF Attaches, SecretInv, Holding
<1>2. PICK k : k = [conn[c] EXCEPT !.inp = "result"]
  OBVIOUS
<1>3. /\ k \in ConnType /\ k.inp = "result" /\ k.out = conn[c].out /\ k.got = conn[c].got
      /\ k.late = conn[c].late /\ k.inFlight = conn[c].inFlight /\ k.dialed = conn[c].dialed
  BY <1>1, <1>2 DEF ConnType, Under
<1>4. /\ conn' = [conn EXCEPT ![c] = k] /\ secretBy' = NoConn /\ page' = page
      /\ session' = [status |-> "running", prompt |-> None]
      /\ tail' = tail /\ cur' = cur /\ output' = output /\ stream' = stream /\ line' = line
  BY <1>2 DEF Attaches, Returns, Input, SecretStays, DetectorStays, OutputStays
<1>5. session'.status = "running" /\ session'.prompt = None
  BY <1>4
<1>6. /\ conn' \in [Conns -> ConnType] /\ secretBy' \in Conns \cup {NoConn}
      /\ \A d \in Conns : conn'[d] = IF d = c THEN k ELSE conn[d]
      /\ \A d \in Conns : SecretInv(d)' /\ EndInv(d)'
  BY <1>1, <1>3, <1>4, <1>5, SecretStep DEF Under, Holding
<1>7. (raced' <=> raced \/ session.prompt \in Labels) /\ raced' \in BOOLEAN
  BY Types, Zenon DEF Attaches
<1>8. session' \in [status : {"awaiting_password", "running", "exited"}, prompt : Prompts]
  BY <1>4 DEF Prompts
<1>9. Shape'
  BY <1>4, <1>6, <1>7, <1>8, Types DEF Shape
<1>10. DetectorInv' /\ QuietInv'
  BY <1>4, <1>5, Types DEF DetectorInv, QuietInv, Live
<1>11. ASSUME ~raced' PROVE ScanInv'
  <2>1. ScanInv /\ session.prompt \notin Labels
    BY <1>7, <1>11 DEF IInv
  <2>2. \A d \in Conns : ~Answering(d) /\ ~Answering(d)'
    BY <1>1, <1>3, <1>6 DEF Answering, Holding
  <2>3. TailInv /\ PromptInv
    BY <1>1, <2>1, <2>2 DEF ScanInv
  <2>4. TailInv'
    BY <1>4, <2>3 DEF TailInv
  <2>5. PromptInv'
    BY <1>4, <1>5, <2>1, <2>3, Types DEF PromptInv
  <2>6. OneAtATime' /\ \A s \in Streams : Reported(s)'
    BY <1>4, <2>1 DEF ScanInv, OneAtATime, Reported, Busy
  <2>7. QED  BY <2>2, <2>4, <2>5, <2>6 DEF ScanInv
<1>12. QED  BY <1>6, <1>9, <1>10, <1>11 DEF IInv

\* The answer is written: the program waits at its prompt no more.
LEMMA WritesInv ==
  ASSUME IInv, NEW c \in Conns, SecretWrites(c)
  PROVE  IInv'
<1>1. /\ conn \in [Conns -> ConnType] /\ conn[c] \in ConnType /\ SecretInv(c) /\ conn[c].inp = "write"
      /\ session.status # "awaiting_password" /\ secretBy = c
      /\ \A d \in Conns : d # c => conn[d].inp \notin Holding
  BY Types, Exclusion DEF SecretWrites, SecretInv, Holding
<1>2. PICK k : /\ conn' = [conn EXCEPT ![c] = k]
               /\ \/ k = [conn[c] EXCEPT !.inp = "clear"] /\ session.status = "running"
                  \/ k = [conn[c] EXCEPT !.inp = "result"] /\ session.status # "running"
  BY DEF SecretWrites, Returns, Input
<1>3. /\ k \in ConnType /\ k.out = conn[c].out /\ k.got = conn[c].got /\ k.late = conn[c].late
      /\ k.inFlight = conn[c].inFlight /\ k.dialed = conn[c].dialed
      /\ \/ k.inp = "clear" /\ session.status = "running"
         \/ k.inp = "result" /\ session.status # "running"
  BY <1>1, <1>2 DEF ConnType, Under, Holding
<1>4. /\ tail' = tail /\ cur' = cur /\ session' = session /\ output' = output /\ stream' = stream
      /\ page' = page
  BY DEF SecretWrites, DetectorStays
<1>5. secretBy' = IF k.inp \in Holding THEN c ELSE NoConn
  BY <1>1, <1>3 DEF SecretWrites, Returns, Holding
<1>6. ~k.dialed
  BY <1>1, <1>3 DEF SecretInv
<1>7. /\ conn' \in [Conns -> ConnType] /\ secretBy' \in Conns \cup {NoConn}
      /\ \A d \in Conns : conn'[d] = IF d = c THEN k ELSE conn[d]
      /\ \A d \in Conns : SecretInv(d)' /\ EndInv(d)'
  BY <1>1, <1>2, <1>3, <1>4, <1>5, <1>6, SecretStep DEF Under, Holding
<1>8. CASE session.status # "running"
  <2>1. line' = line /\ raced' = raced
    BY <1>8 DEF SecretWrites
  <2>2. SameAnswers /\ \A d \in Conns : conn[d].inp = "attach" => conn'[d].inp = "attach"
    BY <1>1, <1>3, <1>7, <1>8 DEF SameAnswers
  <2>3. DetectorInv' /\ QuietInv' /\ (~raced' => ScanInv')
    BY <1>4, <2>1, <2>2, ScanFrame
  <2>4. Shape'
    BY <1>4, <1>7, <2>1, Types DEF Shape
  <2>5. QED  BY <1>7, <2>3, <2>4 DEF IInv
<1>9. CASE session.status = "running"
  <2>1. line' = Empty /\ raced' = (raced \/ \E s \in Streams : Busy(s) /\ stream[s].piece # Newline)
    BY <1>9 DEF SecretWrites
  <2>2. raced' \in BOOLEAN /\ (~raced' => ~raced /\ \A s \in Streams : Busy(s) => stream[s].piece = Newline)
    BY <2>1, Zenon
  <2>3. Shape'
    BY <1>4, <1>7, <2>1, <2>2, Types, LineFacts DEF Shape
  <2>4. DetectorInv' /\ QuietInv'
    BY <1>4, <1>9, Types DEF DetectorInv, QuietInv, Live
  <2>5. ASSUME ~raced' PROVE ScanInv'
    <3>1. ScanInv /\ \A s \in Streams : Busy(s) => stream[s].piece = Newline
      BY <2>2, <2>5 DEF IInv
    <3>2. \A d \in Conns : ~Answering(d)
      BY <1>1 DEF Answering, Holding
    <3>3. TailInv /\ OneAtATime /\ \A s \in Streams : Reported(s)
      BY <1>9, <3>1, <3>2 DEF ScanInv
    <3>4. ASSUME NEW s \in Streams, stream[s].at = "act" PROVE tail = Empty /\ cur = None
      <4>1. line = Empty
        BY <3>1, <3>3, <3>4 DEF Reported, Busy
      <4>2. \A t \in Streams : stream[t].at # "feed"
        BY <3>3, <3>4 DEF OneAtATime, Busy
      <4>3. QED  BY <3>3, <4>1, <4>2, Types, LineFacts DEF TailInv
    <3>5. \A d \in Conns : conn'[d].inp # "reset"
      BY <1>1, <1>3, <1>7 DEF Holding
    <3>6. AnswerInv'
      BY <1>4, <2>1, <3>1, <3>4, <3>5 DEF AnswerInv, Busy
    <3>7. OneAtATime' /\ \A s \in Streams : Reported(s)'
      BY <1>4, <2>1, <3>3 DEF OneAtATime, Reported, Busy
    <3>8. Answering(c)'
      BY <1>3, <1>7, <1>9 DEF Answering
    <3>9. QED  BY <3>6, <3>7, <3>8 DEF ScanInv
  <2>6. QED  BY <1>7, <2>3, <2>4, <2>5 DEF IInv
<1>10. QED  BY <1>8, <1>9

\* The prompt that was answered is cleared.
LEMMA ClearsInv ==
  ASSUME IInv, NEW c \in Conns, SecretClears(c)
  PROVE  IInv'
<1>1. /\ conn \in [Conns -> ConnType] /\ conn[c] \in ConnType /\ SecretInv(c) /\ conn[c].inp = "clear"
      /\ session.status # "awaiting_password" /\ secretBy = c
      /\ \A d \in Conns : d # c => conn[d].inp \notin Holding
  BY Types, Exclusion DEF SecretClears, SecretInv, Holding
<1>2. PICK k : k = [conn[c] EXCEPT !.inp = "reset"]
  OBVIOUS
<1>3. /\ k \in ConnType /\ k.inp = "reset" /\ k.out = conn[c].out /\ k.got = conn[c].got
      /\ k.late = conn[c].late /\ k.inFlight = conn[c].inFlight /\ k.dialed = conn[c].dialed
  BY <1>1, <1>2 DEF ConnType, Under, Holding
<1>4. /\ conn' = [conn EXCEPT ![c] = k] /\ secretBy' = secretBy /\ page' = page
      /\ session' = [session EXCEPT !.prompt = None] /\ raced' = raced
      /\ tail' = tail /\ cur' = cur /\ output' = output /\ stream' = stream /\ line' = line
  BY <1>2 DEF SecretClears, Input, SecretStays, DetectorStays, OutputStays
<1>5. /\ session'.status = session.status /\ session'.prompt = None
      /\ session' \in [status : {"awaiting_password", "running", "exited"}, prompt : Prompts]
  BY <1>4, Types DEF Prompts
<1>6. ~k.dialed
  BY <1>1, <1>3 DEF SecretInv
<1>7. /\ conn' \in [Conns -> ConnType] /\ secretBy' \in Conns \cup {NoConn}
      /\ \A d \in Conns : conn'[d] = IF d = c THEN k ELSE conn[d]
      /\ \A d \in Conns : SecretInv(d)' /\ EndInv(d)'
  BY <1>1, <1>3, <1>4, <1>5, <1>6, SecretStep DEF Under, Holding
<1>8. Shape'
  BY <1>4, <1>5, <1>7, Types DEF Shape
<1>9. DetectorInv' /\ QuietInv'
  <2>1. \A d \in Conns : conn[d].inp = "attach" => conn'[d].inp = "attach"
    BY <1>1, <1>7 DEF Holding
  <2>2. QED  BY <1>4, <1>5, <2>1 DEF IInv, DetectorInv, QuietInv, Live, Busy
<1>10. ASSUME ~raced' PROVE ScanInv'
  <2>1. ScanInv /\ Answering(c)
    BY <1>1, <1>4, <1>10 DEF IInv, Answering
  <2>2. AnswerInv'
    BY <1>4, <1>5, <2>1 DEF ScanInv, AnswerInv, Busy
  <2>3. OneAtATime' /\ \A s \in Streams : Reported(s)'
    BY <1>4, <2>1 DEF ScanInv, OneAtATime, Reported, Busy
  <2>4. Answering(c)'
    BY <1>3, <1>7 DEF Answering
  <2>5. QED  BY <2>2, <2>3, <2>4 DEF ScanInv
<1>11. QED  BY <1>7, <1>8, <1>9, <1>10 DEF IInv

\* The detector forgets what it has scanned, so that the same prompt is reported again.
LEMMA ResetsInv ==
  ASSUME IInv, NEW c \in Conns, SecretResets(c)
  PROVE  IInv'
<1>1. /\ conn \in [Conns -> ConnType] /\ conn[c] \in ConnType /\ SecretInv(c) /\ conn[c].inp = "reset"
      /\ session.status # "awaiting_password" /\ secretBy = c
      /\ \A d \in Conns : d # c => conn[d].inp \notin Holding
  BY Types, Exclusion DEF SecretResets, SecretInv, Holding
<1>2. PICK k : k = [conn[c] EXCEPT !.inp = "result"]
  OBVIOUS
<1>3. /\ k \in ConnType /\ k.inp = "result" /\ k.out = conn[c].out /\ k.got = conn[c].got
      /\ k.late = conn[c].late /\ k.inFlight = conn[c].inFlight /\ k.dialed = conn[c].dialed
  BY <1>1, <1>2 DEF ConnType, Under, Holding
<1>4. /\ conn' = [conn EXCEPT ![c] = k] /\ secretBy' = NoConn /\ page' = page
      /\ session' = session /\ raced' = raced /\ tail' = Empty /\ cur' = None
      /\ output' = output /\ stream' = stream /\ line' = line
  BY <1>2 DEF SecretResets, Returns, Input, SecretStays, OutputStays
<1>5. ~k.dialed
  BY <1>1, <1>3 DEF SecretInv
<1>6. /\ conn' \in [Conns -> ConnType] /\ secretBy' \in Conns \cup {NoConn}
      /\ \A d \in Conns : conn'[d] = IF d = c THEN k ELSE conn[d]
      /\ \A d \in Conns : SecretInv(d)' /\ EndInv(d)'
  BY <1>1, <1>3, <1>4, <1>5, SecretStep DEF Under, Holding
<1>7. Shape'
  BY <1>4, <1>6, Types, LineFacts DEF Shape
<1>8. DetectorInv' /\ QuietInv'
  <2>1. \A d \in Conns : conn[d].inp = "attach" => conn'[d].inp = "attach"
    BY <1>1, <1>6 DEF Holding
  <2>2. QED  BY <1>4, <2>1, LineFacts DEF IInv, DetectorInv, QuietInv, Live, Busy
<1>9. ASSUME ~raced' PROVE ScanInv'
  <2>1. ScanInv /\ Answering(c)
    BY <1>1, <1>4, <1>9 DEF IInv, Answering
  <2>2. AnswerInv /\ session.prompt = None
    BY <1>1, <2>1 DEF ScanInv, AnswerInv
  <2>3. \A d \in Conns : ~Answering(d)'
    BY <1>1, <1>3, <1>6 DEF Answering, Holding
  <2>4. TailInv'
    BY <1>4, <2>2, LineFacts DEF AnswerInv, TailInv, Busy
  <2>5. PromptInv'
    BY <1>4, <2>2 DEF PromptInv
  <2>6. OneAtATime' /\ \A s \in Streams : Reported(s)'
    BY <1>4, <2>1, <2>2 DEF ScanInv, AnswerInv, OneAtATime, Reported, Busy
  <2>7. QED  BY <2>3, <2>4, <2>5, <2>6 DEF ScanInv
<1>10. QED  BY <1>6, <1>7, <1>8, <1>9 DEF IInv

-----------------------------------------------------------------------------
(* The output goroutines.                                                  *)

\* A step that leaves the connections alone, and neither dials nor revives the session.
LEMMA ConnFrame ==
  ASSUME IInv, UNCHANGED <<secretBy, conn, page>>,
         session.status = "awaiting_password" <=> session'.status = "awaiting_password",
         session.status = "exited" => session'.status = "exited",
         output' = output \/ (session.status # "exited" /\ output' = output + 1)
  PROVE  output' \in Nat /\ \A c \in Conns : SecretInv(c)' /\ EndInv(c)'
<1>1. ASSUME NEW c \in Conns PROVE SecretInv(c)' /\ EndInv(c)'
  <2>1. SecretInv(c) /\ EndInv(c) /\ output \in Nat /\ conn[c].got \in Nat
    BY Types DEF ConnType
  <2>2. SecretInv(c)'
    BY <2>1 DEF SecretInv
  <2>3. EndInv(c)'
    BY <2>1 DEF EndInv
  <2>4. QED  BY <2>2, <2>3
<1>2. QED  BY <1>1, Types

\* A goroutine stores what it prints, which is the line but for what raced.
LEMMA PrintsInv ==
  ASSUME IInv, NEW s \in Streams, NEW p \in Pieces, Prints(s, p)
  PROVE  IInv'
<1>1. PICK k : k = [at |-> "feed", piece |-> p, label |-> None]
  OBVIOUS
<1>2. k \in StreamType /\ k.at = "feed" /\ k.piece = p
  BY <1>1 DEF StreamType
<1>3. /\ Live /\ session' = session /\ tail' = tail /\ cur' = cur
      /\ UNCHANGED <<secretBy, conn, page>>
      /\ output' = output + 1 /\ line' = Extend(line, p) /\ stream' = [stream EXCEPT ![s] = k]
      /\ raced' = (raced \/ (\E t \in Streams : Busy(t))
                         \/ (p # Newline /\ \E c \in Conns : Answering(c)))
  BY <1>1 DEF Prints, Scans, DetectorStays
<1>4. /\ raced' \in BOOLEAN
      /\ ~raced' => /\ ~raced /\ \A t \in Streams : ~Busy(t)
                    /\ p = Newline \/ \A c \in Conns : ~Answering(c)
  BY <1>3, Zenon
<1>5. stream' \in [Streams -> StreamType] /\ \A t \in Streams : stream'[t] = IF t = s THEN k ELSE stream[t]
  BY <1>2, <1>3, Types
<1>6. session.status # "exited"
  BY <1>3, Types DEF Live, SecretInv
<1>7. output' \in Nat /\ \A c \in Conns : SecretInv(c)' /\ EndInv(c)'
  BY <1>3, <1>6, ConnFrame
<1>8. line' \in Lines /\ (p = Newline => line' = Empty)
  BY <1>3, Types, LineFacts
<1>9. Shape'
  BY <1>3, <1>4, <1>5, <1>7, <1>8, Types DEF Shape
<1>10. DetectorInv' /\ QuietInv'
  BY <1>3 DEF IInv, DetectorInv, QuietInv, Live
<1>11. ASSUME ~raced' PROVE ScanInv'
  <2>1. ScanInv /\ \A t \in Streams : ~Busy(t)
    BY <1>4, <1>11 DEF IInv
  <2>2. \A t \in Streams : t # s => stream'[t].at = "idle"
    BY <1>5, <2>1 DEF Busy
  <2>3. OneAtATime' /\ \A t \in Streams : Reported(t)'
    BY <1>2, <1>5, <1>8, <2>2 DEF OneAtATime, Reported, Busy
  <2>4. CASE \E c \in Conns : Answering(c)
    <3>1. p = Newline /\ line' = Empty /\ AnswerInv
      BY <1>4, <1>8, <1>11, <2>1, <2>4 DEF ScanInv
    <3>2. AnswerInv'
      BY <1>2, <1>3, <1>5, <2>2, <3>1 DEF AnswerInv, Busy
    <3>3. \E c \in Conns : Answering(c)'
      BY <1>3, <2>4 DEF Answering
    <3>4. QED  BY <2>3, <3>2, <3>3 DEF ScanInv
  <2>5. CASE ~\E c \in Conns : Answering(c)
    <3>1. TailInv /\ PromptInv
      BY <1>6, <2>1, <2>5 DEF ScanInv
    <3>2. TailInv'
      BY <1>2, <1>3, <1>5, <2>1, <2>2, <3>1 DEF TailInv, Busy
    <3>3. PromptInv'
      BY <1>3, <2>1, <3>1 DEF PromptInv, Busy
    <3>4. ~\E c \in Conns : Answering(c)'
      BY <1>3, <2>5 DEF Answering
    <3>5. QED  BY <2>3, <3>2, <3>3, <3>4 DEF ScanInv
  <2>6. QED  BY <2>4, <2>5
<1>12. QED  BY <1>7, <1>9, <1>10, <1>11 DEF IInv

\* The detector scans the piece, and its last line is the line again.
LEMMA FeedInv ==
  ASSUME IInv, NEW s \in Streams, Feed(s)
  PROVE  IInv'
<1>1. PICK k : k = IF cur' = cur THEN NoStream ELSE [stream[s] EXCEPT !.at = "act", !.label = cur']
  OBVIOUS
<1>2. /\ stream[s].at = "feed" /\ stream[s] \in StreamType
      /\ tail' = Extend(tail, stream[s].piece) /\ cur' = Match(tail')
      /\ UNCHANGED <<secretBy, conn, page, session, output, line, raced>>
      /\ stream' = [stream EXCEPT ![s] = k]
  BY <1>1, Types DEF Feed, Scans
<1>3. tail' \in Lines /\ cur' \in Labels \cup {None}
  BY <1>2, Types, LineFacts DEF StreamType
<1>4. /\ k \in StreamType /\ k.at # "feed"
      /\ IF cur' = cur THEN k.at = "idle"
         ELSE k.at = "act" /\ k.label = cur' /\ k.piece = stream[s].piece
  <2>1. CASE cur' = cur
    BY <1>1, <2>1 DEF NoStream, StreamType, Pieces
  <2>2. CASE cur' # cur
    BY <1>1, <1>2, <1>3, <2>2 DEF StreamType
  <2>3. QED  BY <2>1, <2>2
<1>5. stream' \in [Streams -> StreamType] /\ \A t \in Streams : stream'[t] = IF t = s THEN k ELSE stream[t]
  BY <1>2, <1>4, Types
<1>6. \A c \in Conns : SecretInv(c)' /\ EndInv(c)'
  BY <1>2, ConnFrame
<1>7. Shape'
  BY <1>2, <1>3, <1>5, Types DEF Shape
<1>8. DetectorInv' /\ QuietInv'
  <2>1. Busy(s)
    BY <1>2 DEF Busy
  <2>2. Live
    BY <2>1 DEF IInv, QuietInv
  <2>3. QED  BY <1>2, <2>2 DEF DetectorInv, QuietInv, Live
<1>9. ASSUME ~raced' PROVE ScanInv'
  <2>1. ScanInv
    BY <1>2, <1>9 DEF IInv
  <2>2. \A t \in Streams : t # s => stream[t].at = "idle" /\ stream'[t].at = "idle"
    BY <1>2, <1>5, <2>1 DEF ScanInv, OneAtATime, Busy
  <2>3. OneAtATime'
    BY <2>2 DEF OneAtATime, Busy
  <2>4. stream[s].piece = Newline => line = Empty
    BY <1>2, <2>1 DEF ScanInv, Reported, Busy
  <2>5. ASSUME NEW t \in Streams PROVE Reported(t)'
    <3>1. CASE t # s
      BY <2>2, <3>1 DEF Reported, Busy
    <3>2. CASE t = s
      BY <1>2, <1>4, <1>5, <2>4, <3>2 DEF Reported, Busy
    <3>3. QED  BY <3>1, <3>2
  <2>6. CASE \E c \in Conns : Answering(c)
    <3>1. AnswerInv
      BY <2>1, <2>6 DEF ScanInv
    <3>2. stream[s].piece = Newline
      BY <1>2, <3>1 DEF AnswerInv, Busy
    <3>3. tail' = Empty /\ cur' = None
      BY <1>2, <3>2, Types, LineFacts
    <3>4. \A t \in Streams : Busy(t)' => stream'[t].piece = Newline
      BY <1>4, <1>5, <2>2, <3>2 DEF Busy
    <3>5. AnswerInv'
      BY <1>2, <3>1, <3>3, <3>4 DEF AnswerInv
    <3>6. \E c \in Conns : Answering(c)'
      BY <1>2, <2>6 DEF Answering
    <3>7. QED  BY <2>3, <2>5, <3>5, <3>6 DEF ScanInv
  <2>7. CASE ~\E c \in Conns : Answering(c)
    <3>1. ASSUME session'.status # "exited" PROVE TailInv' /\ PromptInv'
      <4>1. TailInv /\ PromptInv
        BY <1>2, <2>1, <2>7, <3>1 DEF ScanInv
      <4>2. TailInv'
        BY <1>2, <1>4, <1>5, <2>2, <4>1 DEF TailInv
      <4>3. (\A t \in Streams : stream[t].at # "act") /\ (stream'[s].at # "act" => cur' = cur)
        BY <1>2, <1>4, <1>5, <2>2
      <4>4. PromptInv'
        BY <1>2, <4>1, <4>3 DEF PromptInv
      <4>5. QED  BY <4>2, <4>4
    <3>2. ~\E c \in Conns : Answering(c)'
      BY <1>2, <2>7 DEF Answering
    <3>3. QED  BY <2>3, <2>5, <3>1, <3>2 DEF ScanInv
  <2>8. QED  BY <2>6, <2>7
<1>10. QED  BY <1>2, <1>6, <1>7, <1>8, <1>9, Types DEF IInv

\* The change that was reported reaches the session.
LEMMA SetPromptInv ==
  ASSUME IInv, NEW s \in Streams, SetPrompt(s)
  PROVE  IInv'
<1>1. /\ stream[s].at = "act" /\ stream[s].label \in Labels \cup {None}
      /\ UNCHANGED <<secretBy, conn, page, tail, cur, output, line, raced>>
      /\ session' = [session EXCEPT !.prompt = stream[s].label]
      /\ stream' = [stream EXCEPT ![s] = NoStream]
  BY Types DEF SetPrompt, Scans, DetectorStays, StreamType
<1>2. /\ session' \in [status : {"awaiting_password", "running", "exited"}, prompt : Prompts]
      /\ session'.status = session.status /\ session'.prompt = stream[s].label
  BY <1>1, Types DEF Prompts
<1>3. NoStream \in StreamType /\ NoStream.at = "idle"
  BY DEF NoStream, StreamType, Pieces
<1>4. /\ stream' \in [Streams -> StreamType]
      /\ \A t \in Streams : stream'[t] = IF t = s THEN NoStream ELSE stream[t]
  BY <1>1, <1>3, Types
<1>5. \A c \in Conns : SecretInv(c)' /\ EndInv(c)'
  BY <1>1, <1>2, ConnFrame
<1>6. Shape'
  BY <1>1, <1>2, <1>4, Types DEF Shape
<1>7. DetectorInv' /\ QuietInv'
  <2>1. Busy(s)
    BY <1>1 DEF Busy
  <2>2. Live
    BY <2>1 DEF IInv, QuietInv
  <2>3. QED  BY <1>1, <1>2, <2>2, Types DEF DetectorInv, QuietInv, Live
<1>8. ASSUME ~raced' PROVE ScanInv'
  <2>1. ScanInv
    BY <1>1, <1>8 DEF IInv
  <2>2. \A t \in Streams : stream'[t].at = "idle" /\ stream[t].at # "feed"
    BY <1>1, <1>3, <1>4, <2>1 DEF ScanInv, OneAtATime, Busy
  <2>3. OneAtATime' /\ \A t \in Streams : Reported(t)'
    BY <2>2 DEF OneAtATime, Reported, Busy
  <2>4. session'.prompt = cur
    BY <1>1, <1>2, <2>1 DEF ScanInv, Reported
  <2>5. CASE \E c \in Conns : Answering(c)
    <3>1. AnswerInv /\ session'.prompt = None
      BY <1>1, <2>1, <2>4, <2>5 DEF ScanInv, AnswerInv
    <3>2. AnswerInv'
      BY <1>1, <2>2, <3>1 DEF AnswerInv, Busy
    <3>3. \E c \in Conns : Answering(c)'
      BY <1>1, <2>5 DEF Answering
    <3>4. QED  BY <2>3, <3>2, <3>3 DEF ScanInv
  <2>6. CASE ~\E c \in Conns : Answering(c)
    <3>1. ASSUME session'.status # "exited" PROVE TailInv' /\ PromptInv'
      <4>1. TailInv
        BY <1>2, <2>1, <2>6, <3>1 DEF ScanInv
      <4>2. TailInv'
        BY <1>1, <2>2, <4>1 DEF TailInv
      <4>3. PromptInv'
        BY <1>1, <2>4 DEF PromptInv
      <4>4. QED  BY <4>2, <4>3
    <3>2. ~\E c \in Conns : Answering(c)'
      BY <1>1, <2>6 DEF Answering
    <3>3. QED  BY <2>3, <3>1, <3>2 DEF ScanInv
  <2>7. QED  BY <2>5, <2>6
<1>9. QED  BY <1>1, <1>5, <1>6, <1>7, <1>8 DEF IInv

\* The process ends when all it has printed is scanned.
LEMMA ExitsInv ==
  ASSUME IInv, Exits
  PROVE  IInv'
<1>1. /\ session.status = "running" /\ \A s \in Streams : ~Busy(s)
      /\ session' = [session EXCEPT !.status = "exited"]
      /\ UNCHANGED <<secretBy, conn, page, tail, cur, output, stream, line, raced>>
  BY DEF Exits, Scans, DetectorStays, OutputStays
<1>2. /\ session' \in [status : {"awaiting_password", "running", "exited"}, prompt : Prompts]
      /\ session'.status = "exited" /\ session'.prompt = session.prompt
  BY <1>1, Types
<1>3. \A c \in Conns : SecretInv(c)' /\ EndInv(c)'
  BY <1>1, <1>2, ConnFrame
<1>4. Shape'
  BY <1>1, <1>2, Types DEF Shape
<1>5. DetectorInv' /\ QuietInv'
  BY <1>1, Types DEF DetectorInv, QuietInv, Busy
<1>6. ASSUME ~raced' PROVE ScanInv'
  <2>1. ScanInv
    BY <1>1, <1>6 DEF IInv
  <2>2. OneAtATime' /\ \A t \in Streams : Reported(t)'
    BY <1>1, <2>1 DEF ScanInv, OneAtATime, Reported, Busy
  <2>3. (\E c \in Conns : Answering(c)) => AnswerInv'
    BY <1>1, <1>2, <2>1 DEF ScanInv, AnswerInv, Busy
  <2>4. (\E c \in Conns : Answering(c)) <=> (\E c \in Conns : Answering(c)')
    BY <1>1 DEF Answering
  <2>5. QED  BY <1>2, <2>2, <2>3, <2>4 DEF ScanInv
<1>7. QED  BY <1>3, <1>4, <1>5, <1>6 DEF IInv

-----------------------------------------------------------------------------
(* The specification.                                                      *)

LEMMA InitInv ==
  ASSUME Init
  PROVE  IInv
<1>1. session.status \in {"running", "awaiting_password"} /\
      session \in [status : {"awaiting_password", "running", "exited"}, prompt : Prompts]
  BY DEF Init, Prompts
<1>2. /\ \A c \in Conns : conn[c].inp = "idle" /\ conn[c].out = "unused" /\ conn[c].got = 0
                          /\ ~conn[c].inFlight /\ ~conn[c].dialed
      /\ \A s \in Streams : stream[s].at = "idle"
  BY DEF Init, NewConn, NoStream
<1>3. NewConn \in ConnType
  BY DEF NewConn, ConnType, Prompts
<1>4. NoStream \in StreamType
  BY DEF NoStream, StreamType, Pieces
<1>5. page \in [conn : Conns \cup {NoConn}, active : Prompts, ended : BOOLEAN, isLocal : BOOLEAN]
  <2>1. PICK b \in BOOLEAN : page = [conn |-> NoConn, active |-> None, ended |-> FALSE, isLocal |-> b]
    BY DEF Init
  <2>2. None \in Prompts
    BY DEF Prompts
  <2>3. QED  BY <2>1, <2>2
<1>6. Shape
  BY <1>1, <1>3, <1>4, <1>5, LineFacts DEF Init, Shape
<1>7. DetectorInv
  BY LineFacts DEF Init, DetectorInv
<1>8. QuietInv
  BY <1>2 DEF QuietInv, Busy
<1>9. ASSUME NEW c \in Conns PROVE SecretInv(c) /\ EndInv(c)
  <2>1. secretBy # c
    BY BridgeAssumption DEF Init, Conns, NoConn
  <2>2. SecretInv(c)
    BY <1>2, <2>1 DEF SecretInv, Holding, Under
  <2>3. EndInv(c)
    BY <1>2 DEF EndInv, Init
  <2>4. QED  BY <2>2, <2>3
<1>10. ScanInv
  <2>1. OneAtATime /\ (\A s \in Streams : Reported(s)) /\ ~\E c \in Conns : Answering(c)
    BY <1>2 DEF OneAtATime, Reported, Busy, Answering
  <2>2. TailInv /\ PromptInv
    BY <1>2 DEF Init, TailInv, PromptInv
  <2>3. QED  BY <2>1, <2>2 DEF ScanInv
<1>11. QED  BY <1>6, <1>7, <1>8, <1>9, <1>10 DEF IInv

LEMMA NextInv ==
  ASSUME IInv, [Next]_vars
  PROVE  IInv'
<1>1. ASSUME NEW s \in Streams, NEW p \in Pieces, Prints(s, p) PROVE IInv'
  BY <1>1, PrintsInv
<1>2. ASSUME NEW s \in Streams, Scan(s) PROVE IInv'
  BY <1>2, FeedInv, SetPromptInv DEF Scan
<1>3. ASSUME NEW c \in Conns, Opens(c) \/ Loop(c) \/ Closes(c) PROVE IInv'
  BY <1>3, LoopInv, EndStepInv DEF Loop
<1>4. ASSUME NEW c \in Conns, Submits(c) \/ Secret(c) PROVE IInv'
  BY <1>4, InputInv, LocksInv, GivesUpInv, AttachesInv, WritesInv, ClearsInv, ResetsInv DEF Secret
<1>5. CASE Exits
  BY <1>5, ExitsInv
<1>6. CASE GivesUp
  BY <1>6, GivesUpInv
<1>7. CASE UNCHANGED vars
  <2>1. \A c \in Conns : SecretInv(c)' /\ EndInv(c)'
    BY <1>7, Types DEF vars, SecretInv, EndInv
  <2>2. SameAnswers /\ \A c \in Conns : conn[c].inp = "attach" => conn'[c].inp = "attach"
    BY <1>7 DEF vars, SameAnswers
  <2>3. DetectorInv' /\ QuietInv' /\ (~raced' => ScanInv')
    BY <1>7, <2>2, ScanFrame DEF vars
  <2>4. Shape'
    BY <1>7 DEF vars, IInv, Shape
  <2>5. QED  BY <2>1, <2>3, <2>4 DEF IInv
<1>8. QED  BY <1>1, <1>2, <1>3, <1>4, <1>5, <1>6, <1>7 DEF Next, Over

\* In every reachable state the parts above hold together: whoever holds connectMu, what
\* is still to be scanned, and how far each connection is (prompt.go:73-104,
\* session.go:595-692, web.go:203-271).
THEOREM BridgeInvariant == Spec => []IInv
<1>1. Init => IInv
  BY InitInv
<1>2. IInv /\ [Next]_vars => IInv'
  BY NextInv
<1>3. QED  BY <1>1, <1>2, PTL DEF Spec

\* Every variable has the shape the code gives it, and connectMu is held by the
\* connection that submits (session.go:561-692).
THEOREM TypeCorrect == Spec => []TypeOK
<1>1. IInv => TypeOK
  <2>1. SUFFICES ASSUME IInv PROVE TypeOK
    OBVIOUS
  <2>2. \A l \in Lines : l.text \in {"empty", "half", "prompt", "other"}
    BY DEF Lines, Empty, Other, Line
  <2>3. session.prompt \in Prompts /\ page.active \in Prompts /\ page.conn \in Conns \cup {NoConn}
    BY <2>1, Types
  <2>4. \A s \in Streams : stream[s].at \in {"idle", "feed", "act"}
    BY <2>1, Types DEF StreamType
  <2>5. QED  BY <2>1, <2>2, <2>3, <2>4, Types DEF TypeOK, Prompts, SecretInv, EndInv, Holding
<1>2. QED  BY <1>1, BridgeInvariant, PTL

\* When all that was printed is scanned and nobody has raced, the session's prompt is the
\* one its program waits at, and an answered one is gone (prompt.go:73-104,
\* session.go:595-608, session.go:676-692).
THEOREM CurrentPrompt == Spec => []PromptIsCurrent
<1>1. IInv => PromptIsCurrent
  <2>1. SUFFICES ASSUME IInv, session.status = "running", ~raced, \A s \in Streams : ~Busy(s),
                        \A c \in Conns : ~Answering(c)
                 PROVE  session.prompt = Match(line) /\ cur = Match(line)
    BY DEF PromptIsCurrent
  <2>2. TailInv /\ PromptInv
    BY <2>1 DEF IInv, ScanInv
  <2>3. tail = line
    BY <2>1, <2>2 DEF TailInv, Busy
  <2>4. session.prompt = cur
    BY <2>1, <2>2 DEF PromptInv, Busy
  <2>5. QED  BY <2>1, <2>3, <2>4, Types
<1>2. QED  BY <1>1, BridgeInvariant, PTL

\* A page is told the end by one connection, which has sent all output; the result of a
\* secret that was dialed with is told before it, or two seconds late (web.go:244-267).
THEOREM EndComesLast == Spec => EndIsLast
<1>1. IInv => \A c \in Conns : conn[c].out = "end" =>
                session.status = "exited" /\ conn[c].got = output /\ (conn[c].dialed => conn[c].late)
  BY Types DEF EndInv
<1>2. IInv => [page.ended' # page.ended =>
                 \A c \in Conns : conn[c].out = "end" =>
                   /\ session.status = "exited" /\ conn[c].got = output
                   /\ conn[c].dialed => conn[c].late]_vars
  BY <1>1
<1>3. QED  BY <1>2, BridgeInvariant, PTL DEF EndIsLast


-----------------------------------------------------------------------------
(* What PageFollows rests on.                                              *)

\* The page has one connection at a time, that of a handler which is not gone.  It shows
\* what this handler has noted as sent, and nothing before the replay and after the end.
PageOf(c) ==
  /\ conn[c].out \in {"unused", "gone"} <=> page.conn # c
  /\ conn[c].out \in {"read", "poll", "poll_eof", "wait", "end"} => page.active = conn[c].sent
  /\ conn[c].out \in {"replay", "close"} => page.active = None
  /\ conn[c].out = "close" => page.ended
PageInv == \A c \in Conns : PageOf(c)

\* Steps that leave the page and every output loop alone.
LEMMA PageFrame ==
  ASSUME PageInv, page' = page, \A d \in Conns : conn'[d].out = conn[d].out /\ conn'[d].sent = conn[d].sent
  PROVE  PageInv'
BY DEF PageInv, PageOf

\* A handler of one connection goes on as k, and so does what it has told the page.
LEMMA PageStep ==
  ASSUME IInv, PageInv, NEW c \in Conns, NEW k \in ConnType, conn' = [conn EXCEPT ![c] = k],
         \A d \in Conns \ {c} : conn[d].out \in {"unused", "gone"},
         page'.conn = (IF k.out \in {"unused", "gone"} THEN NoConn ELSE c),
         k.out \in {"read", "poll", "poll_eof", "wait", "end"} => page'.active = k.sent,
         k.out \in {"replay", "close"} => page'.active = None,
         k.out = "close" => page'.ended
  PROVE  PageInv'
<1>1. \A d \in Conns : conn'[d] = IF d = c THEN k ELSE conn[d]
  BY Types
<1>2. NoConn \notin Conns
  BY BridgeAssumption DEF Conns, NoConn
<1>3. ASSUME NEW d \in Conns PROVE PageOf(d)'
  <2>1. CASE d = c
    BY <1>1, <1>2, <2>1 DEF PageOf
  <2>2. CASE d # c
    <3>1. conn'[d].out \in {"unused", "gone"} /\ page'.conn # d
      BY <1>1, <1>2, <2>2
    <3>2. QED  BY <3>1 DEF PageOf
  <2>3. QED  BY <2>1, <2>2
<1>4. QED  BY <1>3 DEF PageInv

\* A page that connects is shown nothing, the replay and the poll tell it the prompt and
\* note it, and the end closes the dialog.
LEMMA LoopKeepsPage ==
  ASSUME IInv, PageInv, NEW c \in Conns, Opens(c) \/ Loop(c) \/ Closes(c)
  PROVE  PageInv'
<1>1. /\ conn \in [Conns -> ConnType] /\ conn[c] \in ConnType /\ output \in Nat
      /\ page \in [conn : Conns \cup {NoConn}, active : Prompts, ended : BOOLEAN, isLocal : BOOLEAN]
      /\ session.prompt \in Prompts /\ None \in Prompts
  BY Types DEF Prompts
<1>2. NoConn \notin Conns
  BY BridgeAssumption DEF Conns, NoConn
<1>3. \A d \in Conns \ {c} : conn[d].out \in {"unused", "gone"}
  <2>1. page.conn \in {NoConn, c}
    BY <1>2 DEF PageInv, PageOf, Opens, Loop, Replays, Reads, Polls, Waits, SendsEnd, Closes
  <2>2. QED  BY <1>2, <2>1 DEF PageInv, PageOf
<1>4. ~Opens(c) => page.conn = c
  BY DEF PageInv, PageOf, Loop, Replays, Reads, Polls, Waits, SendsEnd, Closes
<1>5. PageOf(c)
  BY DEF PageInv
<1>6. CASE Opens(c)
  <2>1. PICK k : k = [conn[c] EXCEPT !.out = "replay"]
    OBVIOUS
  <2>2. k \in ConnType /\ k.out = "replay" /\ conn' = [conn EXCEPT ![c] = k]
    BY <1>1, <1>6, <2>1 DEF ConnType, Opens
  <2>3. page'.conn = c /\ page'.active = None
    BY <1>1, <1>6 DEF Opens
  <2>4. QED  BY <1>3, <2>2, <2>3, PageStep
<1>7. CASE Replays(c)
  <2>1. PICK k : k = [conn[c] EXCEPT !.out = "read", !.sent = session.prompt]
    OBVIOUS
  <2>2. k \in ConnType /\ k.out = "read" /\ k.sent = session.prompt /\ conn' = [conn EXCEPT ![c] = k]
    BY <1>1, <1>7, <2>1 DEF ConnType, Replays
  <2>3. page'.conn = c /\ page'.active = session.prompt
    BY <1>1, <1>4, <1>5, <1>7 DEF Replays, Shown, PageOf, Opens
  <2>4. QED  BY <1>3, <2>2, <2>3, PageStep
<1>8. CASE Reads(c)
  <2>1. PICK k : k = [conn[c] EXCEPT !.got = output, !.out =
                       IF conn[c].got = output /\ session.status = "exited" THEN "poll_eof" ELSE "poll"]
    OBVIOUS
  <2>2. k \in ConnType /\ k.out \in {"poll", "poll_eof"} /\ k.sent = conn[c].sent /\ conn' = [conn EXCEPT ![c] = k]
    BY <1>1, <1>8, <2>1 DEF ConnType, Reads
  <2>3. page'.conn = c /\ page'.active = conn[c].sent
    BY <1>4, <1>5, <1>8 DEF Reads, PageOf, Opens
  <2>4. QED  BY <1>3, <2>2, <2>3, PageStep
<1>9. CASE Polls(c)
  <2>1. PICK k : k = [conn[c] EXCEPT !.out = IF @ = "poll" THEN "read" ELSE "wait",
                                     !.sent = IF PromptChanged(@, session.prompt) THEN session.prompt ELSE @]
    OBVIOUS
  <2>2. k \in ConnType /\ k.out \in {"read", "wait"} /\ k.sent = session.prompt /\ conn' = [conn EXCEPT ![c] = k]
    BY <1>1, <1>9, <2>1 DEF ConnType, Polls, PromptChanged
  <2>3. page'.conn = c /\ page'.active = session.prompt
    BY <1>1, <1>4, <1>5, <1>9 DEF Polls, Shown, PageOf, PromptChanged, Opens
  <2>4. QED  BY <1>3, <2>2, <2>3, PageStep
<1>10. CASE Waits(c)
  <2>1. PICK k : k = [conn[c] EXCEPT !.out = "end", !.late = conn[c].inFlight]
    OBVIOUS
  <2>2. k \in ConnType /\ k.out = "end" /\ k.sent = conn[c].sent /\ conn' = [conn EXCEPT ![c] = k]
    BY <1>1, <1>10, <2>1 DEF ConnType, Waits
  <2>3. page'.conn = c /\ page'.active = conn[c].sent
    BY <1>4, <1>5, <1>10 DEF Waits, PageOf, Opens
  <2>4. QED  BY <1>3, <2>2, <2>3, PageStep
<1>11. CASE SendsEnd(c)
  <2>1. PICK k : k = [conn[c] EXCEPT !.out = "close"]
    OBVIOUS
  <2>2. k \in ConnType /\ k.out = "close" /\ conn' = [conn EXCEPT ![c] = k]
    BY <1>1, <1>11, <2>1 DEF ConnType, SendsEnd
  <2>3. page'.conn = c /\ page'.active = None /\ page'.ended
    BY <1>1, <1>4, <1>5, <1>11 DEF SendsEnd, PageOf
  <2>4. QED  BY <1>3, <2>2, <2>3, PageStep
<1>12. CASE Closes(c)
  <2>1. PICK k : k = [conn[c] EXCEPT !.out = "gone", !.sent = None, !.got = 0]
    OBVIOUS
  <2>2. k \in ConnType /\ k.out = "gone" /\ conn' = [conn EXCEPT ![c] = k]
    BY <1>1, <1>12, <2>1 DEF ConnType, Closes
  <2>3. page'.conn = NoConn
    BY <1>1, <1>12 DEF Closes
  <2>4. QED  BY <1>3, <2>2, <2>3, PageStep
<1>13. QED  BY <1>6, <1>7, <1>8, <1>9, <1>10, <1>11, <1>12 DEF Loop

\* The input goroutine and the output goroutines tell the page nothing.
LEMMA OthersKeepPage ==
  ASSUME IInv, PageInv, [Next]_vars, ~\E c \in Conns : Opens(c) \/ Loop(c) \/ Closes(c)
  PROVE  PageInv'
<1>1. conn \in [Conns -> ConnType]
  BY Types
<1>2. ASSUME NEW c \in Conns, Submits(c) \/ Secret(c) PROVE PageInv'
  <2>1. page' = page
    BY <1>2 DEF Submits, Secret, Takes, Locks, DialFails, DialStarts, Attaches, SecretWrites, SecretClears,
       SecretResets, Results, SecretStays
  <2>2. PICK k : conn' = [conn EXCEPT ![c] = k] /\ k.out = conn[c].out /\ k.sent = conn[c].sent
    BY <1>1, <1>2 DEF Submits, Secret, Takes, Locks, DialFails, DialStarts, Attaches, SecretWrites, SecretClears,
       SecretResets, Results, Input, Returns, ConnType
  <2>3. QED  BY <1>1, <2>1, <2>2, PageFrame
<1>3. ASSUME UNCHANGED <<conn, page>> PROVE PageInv'
  BY <1>3 DEF PageInv, PageOf
<1>4. ASSUME NEW s \in Streams, (\E p \in Pieces : Prints(s, p)) \/ Scan(s) PROVE UNCHANGED <<conn, page>>
  BY <1>4 DEF Prints, Scan, Feed, SetPrompt, Scans
<1>5. Exits \/ GivesUp \/ Over \/ UNCHANGED vars => UNCHANGED <<conn, page>>
  BY DEF Exits, GivesUp, Over, Scans, vars
<1>6. QED  BY <1>2, <1>3, <1>4, <1>5 DEF Next

\* A page shows exactly what the handler it is connected to has noted as sent, across lost
\* connections, so that a poll which sees no change owes the page nothing (web.go:213-255,
\* app.js:551-628).
THEOREM PageShowsSent == Spec => []PageInv
<1>1. Init => IInv /\ PageInv
  <2>1. ASSUME Init PROVE PageInv
    <3>1. NoConn \notin Conns
      BY BridgeAssumption DEF Conns, NoConn
    <3>2. page.conn = NoConn /\ \A c \in Conns : conn[c].out = "unused"
      BY <2>1 DEF Init, NewConn
    <3>3. QED  BY <3>1, <3>2 DEF PageInv, PageOf
  <2>2. QED  BY <2>1, InitInv
<1>2. IInv /\ PageInv /\ [Next]_vars => IInv' /\ PageInv'
  BY NextInv, LoopKeepsPage, OthersKeepPage
<1>3. QED  BY <1>1, <1>2, PTL DEF Spec
=============================================================================
