---------------------------- MODULE MCCimdFetcher ----------------------------
(* Instances of CimdFetcher for TLC.                                       *)
EXTENDS CimdFetcher, TLC

(* Uncacheable; nothing; long; two limits, the smaller counts; forbidden   *)
(* afterwards.                                                             *)
MaxAge(n) == [kind |-> "max_age", n |-> n]
Headers ==
  {<<>>, <<MaxAge(0)>>, <<MaxAge(9)>>, <<MaxAge(2), MaxAge(1)>>,
   <<MaxAge(2), [kind |-> "forbid", n |-> 0]>>}

=============================================================================
