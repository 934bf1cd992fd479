------------------------------- MODULE MCVault -------------------------------
(***************************************************************************)
(* Vault for TLC: two users, two passwords, two requests at a time and two *)
(* files, with a clock on which cached keys run out.                       *)
(***************************************************************************)
EXTENDS Vault, TLC

RequestSymmetry ==
    Permutations(Thread) \cup Permutations(User) \cup Permutations(Password)

=============================================================================
