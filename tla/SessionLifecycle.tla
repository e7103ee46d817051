--------------------------- MODULE SessionLifecycle ---------------------------
(***************************************************************************)
(* What a client of a session may rely on: the status only moves forward,  *)
(* one process at most is ever started, a session has ended only when no   *)
(* process of it lives, readers see end-of-file only after the end, and    *)
(* the end is reported to the registry.                                    *)
(***************************************************************************)

VARIABLES status, proc, eof, told

lifecycleVars == <<status, proc, eof, told>>

Ended == status \in {"exited", "terminated"}

Init ==
  /\ status = "starting"
  /\ proc = "none"
  /\ eof = FALSE
  /\ told = FALSE

\* A process is started at most once, and never for a session that has ended.
Spawn ==
  /\ ~Ended /\ proc = "none"
  /\ proc' = "live"
  /\ UNCHANGED <<status, eof, told>>

AwaitPassword ==
  /\ status = "starting" /\ proc = "none"
  /\ status' = "awaiting_password"
  /\ UNCHANGED <<proc, eof, told>>

Run ==
  /\ status \in {"starting", "awaiting_password"} /\ proc # "none"
  /\ status' = "running"
  /\ UNCHANGED <<proc, eof, told>>

Die ==
  /\ proc = "live"
  /\ proc' = "dead"
  /\ UNCHANGED <<status, eof, told>>

\* The secret never came, was wrong, or the session was terminated first.
GiveUp ==
  /\ status = "awaiting_password" /\ proc = "none"
  /\ status' \in {"exited", "terminated"}
  /\ UNCHANGED <<proc, eof, told>>

End ==
  /\ status = "running" /\ proc = "dead"
  /\ status' \in {"exited", "terminated"}
  /\ UNCHANGED <<proc, eof, told>>

CloseOutput ==
  /\ Ended
  /\ eof' = TRUE
  /\ UNCHANGED <<status, proc, told>>

Tell ==
  /\ Ended
  /\ told' = TRUE
  /\ UNCHANGED <<status, proc, eof>>

Next == \/ Spawn \/ AwaitPassword \/ Run \/ Die \/ GiveUp \/ End
        \/ CloseOutput \/ Tell

\* Whoever ends the session also closes its output and reports the end.
Fairness ==
  WF_lifecycleVars(~eof /\ CloseOutput) /\ WF_lifecycleVars(~told /\ Tell)

Safety == Init /\ [][Next]_lifecycleVars
Spec   == Safety /\ Fairness
=============================================================================
