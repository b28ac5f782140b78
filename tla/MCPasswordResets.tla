-------------------------- MODULE MCPasswordResets --------------------------
(* Instances of PasswordResets for TLC. *)
EXTENDS PasswordResets, TLC

CONSTANTS r1, r2, u1, u2

RequestSymmetry == Permutations(Requests) \cup Permutations(Users)

=============================================================================
