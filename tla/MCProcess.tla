------------------------------ MODULE MCProcess ------------------------------
(* An instance of Process for TLC: up to three pieces of output.           *)
EXTENDS Process
=============================================================================
