--------------------------- MODULE MCBrowserStore ---------------------------
(* Instances of BrowserStore for TLC.                                      *)
EXTENDS BrowserStore, TLC

(* Sessions and request slots are interchangeable; authorizations are too: *)
(* the user a callback creates is only named after it.                     *)
Symmetry ==
  Permutations(Session) \cup Permutations(Req) \cup Permutations(Auth)


=============================================================================
