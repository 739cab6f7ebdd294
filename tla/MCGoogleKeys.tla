----------------------------- MODULE MCGoogleKeys -----------------------------
(* Instances of GoogleKeys for TLC.                                        *)
EXTENDS GoogleKeys, TLC

=============================================================================
