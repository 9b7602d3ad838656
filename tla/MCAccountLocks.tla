--------------------------- MODULE MCAccountLocks ---------------------------
(* Which transactions the instances of AccountLocks run. *)
EXTENDS AccountLocks, TLC

AllKinds == DOMAIN Program

\* Those that lock the user row first, and those that lock one row only.
UserFirstKinds == AllKinds \ {"RescheduleFailure"}

Symmetry == Permutations(Txns)
=============================================================================
