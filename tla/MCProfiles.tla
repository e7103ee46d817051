----------------------------- MODULE MCProfiles -----------------------------
(* An instance of Profiles for TLC: two requests and one command.          *)
EXTENDS Profiles, TLC

CONSTANTS n1, n2, r1, r2

NamesAlike == Permutations({n1, n2}) \cup Permutations({r1, r2})
=============================================================================
