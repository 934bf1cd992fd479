------------------------------ MODULE MCTokens ------------------------------
(***************************************************************************)
(* Tokens for TLC: one user with two roles, two threads, three pairs, and  *)
(* refresh tokens that outlive two generations of access tokens.           *)
(***************************************************************************)
EXTENDS Tokens, TLC

RequestSymmetry == Permutations(Thread) \cup Permutations(Role)

=============================================================================
