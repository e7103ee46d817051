----------------------------- MODULE MCRegistry -----------------------------
(* Instances of Registry for TLC: sessions, like clients, are interchangeable. *)
EXTENDS Registry, TLC

Symmetry == Permutations(Sessions) \cup Permutations(Clients)
=============================================================================
