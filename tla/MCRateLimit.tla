---------------------------- MODULE MCRateLimit ----------------------------
(* A small instance of RateLimit for TLC. *)
EXTENDS RateLimit, TLC

\* The broad login limit leaves room for the failures-only ones to be met.
MCLimit == [rule \in Rule |-> IF rule = "login-ip" THEN 2 ELSE 1]

Symmetry == Permutations(Requests) \union Permutations(Peers) \union Permutations(Subjects)
=============================================================================
