--------------------------- MODULE MCMessageStore ---------------------------
(* An instance of MessageStore for TLC: one sender and one lister.         *)
EXTENDS MessageStore
=============================================================================
