---------------------------- MODULE MCLogoutStore ----------------------------
(* Instances of LogoutStore for TLC.                                       *)
EXTENDS LogoutStore, TLC

Symmetry ==
  Permutations(Session) \cup Permutations(Challenge) \cup Permutations(Req)

=============================================================================
