---------------------------- MODULE MCFileVault ----------------------------
(* A small instance of FileVault for TLC. *)
EXTENDS FileVaultRefinement, TLC

Symmetry == Permutations(Requests) \union Permutations(Users)
=============================================================================
