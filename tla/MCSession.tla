------------------------------ MODULE MCSession ------------------------------
(* A small instance of Session: see the MCSession*.cfg files.              *)
EXTENDS Session
=============================================================================
