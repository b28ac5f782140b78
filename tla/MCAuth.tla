-------------------------------- MODULE MCAuth --------------------------------
(* Instances of Auth for TLC. *)
EXTENDS Auth

CONSTANTS r1, r2, e1, e2, n1, g1

=============================================================================
