--------------------------- MODULE CredentialLedger ---------------------------
(***************************************************************************)
(* CredentialStore implements GrantLedger: the committed tables, read as a *)
(* ledger.  Only commits are steps of the ledger; locks, clock, leases,    *)
(* refusals and roll-backs are stuttering.                                 *)
(***************************************************************************)
EXTENDS CredentialStore

sessionStatus ==
  [s \in Session |-> IF sessions[s] = Null THEN "none"
                     ELSE IF sessions[s].revoked_at = Null THEN "open"
                     ELSE "ended"]

codeStatus ==
  [c \in Code |-> IF codes[c] = Null THEN "none"
                  ELSE IF codes[c].consumed_at = Null THEN "fresh"
                  ELSE "spent"]

codeOwner ==
  [c \in Code |-> IF codes[c] = Null THEN Null ELSE codes[c].session]

grantStatus ==
  [c \in Code |-> IF FamiliesOfCode(c) = {} THEN "none"
                  ELSE IF \E f \in FamiliesOfCode(c) :
                            families[f].revoked_at # Null THEN "closed"
                  ELSE "open"]

tokenStatus ==
  [m \in Member |-> IF members[m] = Null THEN "none"
                    ELSE IF members[m].consumed_at = Null THEN "live"
                    ELSE "retired"]

tokenSource ==
  [m \in Member |-> IF members[m] = Null THEN Null
                    ELSE families[members[m].family].source_code]

Ledger == INSTANCE GrantLedger
  WITH session <- sessionStatus, code <- codeStatus, owner <- codeOwner,
       grant <- grantStatus, token <- tokenStatus, source <- tokenSource

(* Every behaviour of the store, seen through its tables, is one of the    *)
(* ledger: each commit of credentials.rs is one atomic ledger operation.   *)
(* The same as Ledger!Spec, since what leaves the tables alone leaves the  *)
(* ledger alone; stated so, such steps are cheap to check.                 *)
ImplementsLedger ==
  Ledger!Init /\ [][UNCHANGED tables \/ Ledger!Next]_Ledger!ledger

=============================================================================
