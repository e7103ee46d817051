--------------------------- MODULE MCFileTransfer ---------------------------
(* An instance of FileTransfer for TLC: two requests at a time.            *)
EXTENDS FileTransfer, TLC

CONSTANTS a1, a2

ActorsAlike == Permutations({a1, a2})
=============================================================================
