---------------------------- MODULE MCSigningKeys ----------------------------
(* An instance of SigningKeys for TLC.                                     *)
EXTENDS SigningKeys, TLC

Symmetry == Permutations(Key)

=============================================================================
