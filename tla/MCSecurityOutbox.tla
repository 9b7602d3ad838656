-------------------------- MODULE MCSecurityOutbox --------------------------
(* Small instances of the outbox for TLC. *)
EXTENDS SecurityOutboxRefinement, TLC

\* A verification link outlives a recovery link by one instant.
MCTokenLife == [p \in Challenges |-> IF p = Verification THEN 2 ELSE 1]

Symmetry == Permutations(Users) \union Permutations(Workers) \union Permutations(Clients)
=============================================================================
