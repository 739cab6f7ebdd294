--------------------------- MODULE MCTokenEndpoint ---------------------------
(* Instances of TokenEndpoint for TLC.                                     *)
EXTENDS TokenEndpoint, TLC

(* Row identifiers and handlers are interchangeable.                       *)
Symmetry ==
  Permutations(Session) \cup Permutations(Code) \cup Permutations(Family)
    \cup Permutations(Member) \cup Permutations(Req)

=============================================================================
