------------------------- MODULE MCAccountSessions -------------------------
(* A small instance of AccountSessions for TLC. *)
EXTENDS AccountSessions, TLC

Symmetry == Permutations(Logins) \union Permutations(Requests) \union Permutations(Passwords)
=============================================================================
