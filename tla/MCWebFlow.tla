------------------------------ MODULE MCWebFlow ------------------------------
(* Instances of WebFlow for TLC.                                           *)
EXTENDS WebFlow, TLC

Symmetry ==
  Permutations(Session) \cup Permutations(Req) \cup Permutations(Auth)

=============================================================================
