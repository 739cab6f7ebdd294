------------------------- MODULE MCCredentialStore -------------------------
(* Instances of CredentialStore for TLC.                                   *)
EXTENDS CredentialLedger, TLC

(* Row identifiers and request slots are interchangeable.                  *)
Symmetry ==
  Permutations(Session) \cup Permutations(Code) \cup Permutations(Family)
    \cup Permutations(Member) \cup Permutations(Req)

=============================================================================
