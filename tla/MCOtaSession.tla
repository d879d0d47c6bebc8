--------------------------- MODULE MCOtaSession ---------------------------
(***************************************************************************)
(* OtaSession for TLC.                                                     *)
(***************************************************************************)
EXTENDS OtaSession, TLC

CONSTANTS a, b      \* images

Symmetry == Permutations(Image)
=============================================================================
