----------------------------- MODULE MCWebBridge -----------------------------
(* An instance of WebBridge for TLC: a page that connects twice, two       *)
(* prompts and two streams, which the bounds keep small.                   *)
EXTENDS WebBridge
=============================================================================
