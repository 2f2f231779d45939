----------------------------- MODULE MCContext -----------------------------
(* Values of Context's constants for TLC. *)
EXTENDS ContextClaims, TLC

CONSTANTS p1, p2, p3

MCProcs    == {p1, p2, p3}
MCSymmetry == Permutations(MCProcs)
=============================================================================
