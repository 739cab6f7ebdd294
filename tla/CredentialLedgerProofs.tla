------------------------ MODULE CredentialLedgerProofs ------------------------
(***************************************************************************)
(* CredentialStore implements GrantLedger: each commit is one step of the  *)
(* ledger, or none, and every other step leaves the ledger alone.  Then    *)
(* the token and revocation handlers of TokenEndpoint on top of it: what   *)
(* they tell a client is so, and their retries are not taken for replays.  *)
(***************************************************************************)
EXTENDS TokenEndpoint, CredentialProofs

(* What the mapping rests on: only a spent code has a family, and it has   *)
(* no more than one.                                                       *)
OneFamilyPerCode ==
  /\ \A f \in Family : families[f] # Null =>
       codes[families[f].source_code].consumed_at # Null
  /\ \A f, g \in Family :
       /\ families[f] # Null /\ families[g] # Null
       /\ families[f].source_code = families[g].source_code
       => f = g

LEMMA FamiliesStayApart ==
  ASSUME IInv, IInv', OneFamilyPerCode, [Next]_vars
  PROVE  OneFamilyPerCode'
<1>1. /\ \A c \in Code : CodeMovesOn(c)
      /\ \A f \in Family : FamilyMovesOn(f)
  BY StepRows DEF RowsMoveOn
<1>2. \A f \in Family : families[f] # Null => families[f].source_code \in Code
                          /\ codes[families[f].source_code] # Null
  BY RowsTyped DEF IInv, References
<1>3. CASE \A f \in Family : families[f] = Null => families'[f] = Null
  BY <1>1, <1>2, <1>3 DEF OneFamilyPerCode, CodeMovesOn, FamilyMovesOn
<1>4. ASSUME NEW r \in Req, CommitExchange(r) PROVE OneFamilyPerCode'
  <2> DEFINE q == tx[r]
  <2>1. /\ q.c \in Code /\ codes[q.c] # Null /\ codes[q.c] \in CodeRow
        /\ codes[q.c].consumed_at = Null
        /\ codes'[q.c] = [codes[q.c] EXCEPT !.consumed_at = q.now]
    BY <1>4, ExchangeRows
  <2>2. CASE UNCHANGED <<families, members>>
    BY <1>3, <2>2
  <2>3. CASE ~UNCHANGED <<families, members>>
    <3>1. PICK f \in Family :
            /\ families[f] = Null
            /\ families'[f] =
                 [source_code |-> q.c, session |-> q.s,
                  issued_at |-> q.now, expires_at |-> FamilyExpiry(q),
                  revoked_at |-> Null]
            /\ \A g \in Family : g # f => families'[g] = families[g]
      BY <1>4, <2>3, ExchangeRows
    <3>2. families'[f].source_code = q.c
      BY <3>1
    <3>3. q.pc = "commit"
      BY <1>4, CommitEnds DEF Commit
    <3>4. q.now # Null
      BY <3>3, AtCommit, NullIsNoValue DEF Time
    <3>5. codes'[q.c].consumed_at # Null
      BY <2>1, <3>4 DEF CodeRow
    <3>6. \A g \in Family : families[g] # Null => families[g].source_code # q.c
      BY <2>1 DEF OneFamilyPerCode
    <3>7. \A g \in Family : families'[g] # Null /\ g # f =>
            /\ families[g] # Null /\ families'[g] = families[g]
            /\ codes'[families[g].source_code].consumed_at # Null
      BY <1>1, <1>2, <3>1 DEF OneFamilyPerCode, CodeMovesOn
    <3> QED BY <3>2, <3>5, <3>6, <3>7 DEF OneFamilyPerCode
  <2> QED BY <2>2, <2>3
<1>5. CASE UNCHANGED vars \/ Tick \/ CreateProviderSession
  BY <1>3, <1>5 DEF vars, Tick, CreateProviderSession, tables
<1>6. ASSUME NEW r \in Req, Quiet(r) PROVE OneFamilyPerCode'
  BY <1>3, <1>6, QuietSteps
<1>7. ASSUME NEW r \in Req, CommitIssue(r) \/ CommitRotate(r)
      PROVE  OneFamilyPerCode'
  BY <1>3, <1>7 DEF CommitIssue, CommitRotate
<1>8. ASSUME NEW r \in Req, Revokes(r) PROVE OneFamilyPerCode'
  BY <1>3, <1>8, RevocationRows
<1> QED BY <1>4, <1>5, <1>6, <1>7, <1>8, StepKinds DEF Commit, Revokes

LEMMA OneFamily == Spec => []OneFamilyPerCode
<1>1. Init => OneFamilyPerCode
  BY DEF Init, OneFamilyPerCode
<1> QED BY <1>1, FamiliesStayApart, Invariance, PTL DEF Spec

-----------------------------------------------------------------------------
(* The ledger's entries, row by row.                                       *)
LEMMA Entries ==
  /\ \A s \in Session : sessionStatus[s] =
       IF sessions[s] = Null THEN "none"
       ELSE IF sessions[s].revoked_at = Null THEN "open" ELSE "ended"
  /\ \A c \in Code :
       /\ codeStatus[c] = IF codes[c] = Null THEN "none"
                          ELSE IF codes[c].consumed_at = Null THEN "fresh"
                          ELSE "spent"
       /\ codeOwner[c] = IF codes[c] = Null THEN Null ELSE codes[c].session
  /\ \A m \in Member :
       /\ tokenStatus[m] = IF members[m] = Null THEN "none"
                           ELSE IF members[m].consumed_at = Null THEN "live"
                           ELSE "retired"
       /\ tokenSource[m] = IF members[m] = Null THEN Null
                           ELSE families[members[m].family].source_code
BY DEF sessionStatus, codeStatus, codeOwner, tokenStatus, tokenSource

(* The grant of a code is that of its one family.                          *)
LEMMA GrantEntry ==
  ASSUME OneFamilyPerCode, NEW c \in Code
  PROVE  /\ (\A f \in Family : families[f] = Null \/ families[f].source_code # c)
              => grantStatus[c] = "none"
         /\ \A f \in Family : families[f] # Null /\ families[f].source_code = c =>
              grantStatus[c] =
                IF families[f].revoked_at = Null THEN "open" ELSE "closed"
<1>1. grantStatus[c] = IF FamiliesOfCode(c) = {} THEN "none"
                  ELSE IF \E f \in FamiliesOfCode(c) :
                            families[f].revoked_at # Null THEN "closed"
                  ELSE "open"
  BY DEF grantStatus
<1>2. ASSUME \A f \in Family : families[f] = Null \/ families[f].source_code # c
      PROVE  FamiliesOfCode(c) = {}
  BY <1>2 DEF FamiliesOfCode
<1>3. ASSUME NEW f \in Family, families[f] # Null, families[f].source_code = c
      PROVE  FamiliesOfCode(c) = {f}
  BY <1>3 DEF FamiliesOfCode, OneFamilyPerCode
<1> QED BY <1>1, <1>2, <1>3

LEMMA NextEntries ==
  (/\ \A s \in Session : sessionStatus[s] =
        IF sessions[s] = Null THEN "none"
        ELSE IF sessions[s].revoked_at = Null THEN "open" ELSE "ended"
   /\ \A c \in Code :
        /\ codeStatus[c] = IF codes[c] = Null THEN "none"
                           ELSE IF codes[c].consumed_at = Null THEN "fresh"
                           ELSE "spent"
        /\ codeOwner[c] = IF codes[c] = Null THEN Null ELSE codes[c].session
   /\ \A m \in Member :
        /\ tokenStatus[m] = IF members[m] = Null THEN "none"
                            ELSE IF members[m].consumed_at = Null THEN "live"
                            ELSE "retired"
        /\ tokenSource[m] = IF members[m] = Null THEN Null
                            ELSE families[members[m].family].source_code)'
BY DEF sessionStatus, codeStatus, codeOwner, tokenStatus, tokenSource

LEMMA NextGrantEntry ==
  ASSUME OneFamilyPerCode', NEW c \in Code
  PROVE  (/\ (\A f \in Family : families[f] = Null \/ families[f].source_code # c)
               => grantStatus[c] = "none"
          /\ \A f \in Family : families[f] # Null /\ families[f].source_code = c =>
               grantStatus[c] =
                 IF families[f].revoked_at = Null THEN "open" ELSE "closed")'
<1>1. grantStatus'[c] = (IF FamiliesOfCode(c) = {} THEN "none"
                         ELSE IF \E f \in FamiliesOfCode(c) :
                                   families[f].revoked_at # Null THEN "closed"
                         ELSE "open")'
  BY DEF grantStatus
<1>2. ASSUME \A f \in Family : families'[f] = Null \/ families'[f].source_code # c
      PROVE  FamiliesOfCode(c)' = {}
  BY <1>2 DEF FamiliesOfCode
<1>3. ASSUME NEW f \in Family, families'[f] # Null, families'[f].source_code = c
      PROVE  FamiliesOfCode(c)' = {f}
  BY <1>3 DEF FamiliesOfCode, OneFamilyPerCode
<1> QED BY <1>1, <1>2, <1>3

(* The ledger's variables are functions on their identifiers.              *)
LEMMA LedgerDomains ==
  /\ sessionStatus = [s \in Session |-> sessionStatus[s]]
  /\ codeStatus = [c \in Code |-> codeStatus[c]]
  /\ codeOwner = [c \in Code |-> codeOwner[c]]
  /\ grantStatus = [c \in Code |-> grantStatus[c]]
  /\ tokenStatus = [m \in Member |-> tokenStatus[m]]
  /\ tokenSource = [m \in Member |-> tokenSource[m]]
  /\ sessionStatus' = [s \in Session |-> sessionStatus'[s]]
  /\ codeStatus' = [c \in Code |-> codeStatus'[c]]
  /\ codeOwner' = [c \in Code |-> codeOwner'[c]]
  /\ grantStatus' = [c \in Code |-> grantStatus'[c]]
  /\ tokenStatus' = [m \in Member |-> tokenStatus'[m]]
  /\ tokenSource' = [m \in Member |-> tokenSource'[m]]
BY DEF sessionStatus, codeStatus, codeOwner, grantStatus, tokenStatus,
       tokenSource

(* Rows that stay leave their entries alone.                               *)
LEMMA EntriesStay ==
  ASSUME IInv, IInv', [Next]_vars
  PROVE  /\ UNCHANGED sessions => UNCHANGED sessionStatus
         /\ UNCHANGED codes => UNCHANGED <<codeStatus, codeOwner>>
         /\ UNCHANGED families => UNCHANGED grantStatus
         /\ UNCHANGED members => UNCHANGED <<tokenStatus, tokenSource>>
         /\ \A m \in Member : members[m] # Null /\ members'[m] # Null =>
              tokenSource'[m] = tokenSource[m]
<1>1. UNCHANGED sessions => UNCHANGED sessionStatus
  BY DEF sessionStatus
<1>2. UNCHANGED codes => UNCHANGED <<codeStatus, codeOwner>>
  BY DEF codeStatus, codeOwner
<1>3. UNCHANGED families => UNCHANGED grantStatus
  BY DEF grantStatus, FamiliesOfCode
<1>4. /\ \A f \in Family : FamilyMovesOn(f)
      /\ \A m \in Member : MemberMovesOn(m)
      /\ \A m \in Member : members[m] # Null =>
           members[m].family \in Family /\ families[members[m].family] # Null
  BY StepRows, RowsTyped DEF RowsMoveOn
<1>5. \A m \in Member : members[m] # Null /\ members'[m] # Null =>
        tokenSource'[m] = tokenSource[m]
  BY <1>4, Entries, NextEntries DEF FamilyMovesOn, MemberMovesOn
<1>6. ASSUME UNCHANGED members PROVE UNCHANGED <<tokenStatus, tokenSource>>
  <2>1. tokenStatus' = tokenStatus
    BY <1>6 DEF tokenStatus
  <2>2. \A m \in Member : tokenSource'[m] = tokenSource[m]
    BY <1>5, <1>6, Entries, NextEntries
  <2> QED BY <2>1, <2>2, LedgerDomains
<1> QED BY <1>1, <1>2, <1>3, <1>5, <1>6

-----------------------------------------------------------------------------
(* The commits, one by one.                                                *)

LEMMA SessionIsOpened ==
  ASSUME IInv, IInv', [Next]_vars, CreateProviderSession
  PROVE  Ledger!Next
<1>1. PICK s \in Session, life \in 1..MaxSessionLife :
        /\ sessions[s] = Null
        /\ sessions' = [sessions EXCEPT ![s] =
             [auth_time |-> clock, expires_at |-> clock + life,
              revoked_at |-> Null]]
  BY DEF CreateProviderSession
<1>2. UNCHANGED <<codeStatus, codeOwner, grantStatus, tokenStatus, tokenSource>>
  BY EntriesStay DEF CreateProviderSession
<1>3. /\ sessions'[s].revoked_at = Null /\ sessions'[s] # Null
      /\ \A z \in Session : z # s => sessions'[z] = sessions[z]
  <2>1. sessions'[s] = [auth_time |-> clock, expires_at |-> clock + life,
                        revoked_at |-> Null]
        /\ \A z \in Session : z # s => sessions'[z] = sessions[z]
    BY <1>1 DEF IInv, TypeOK
  <2>2. clock \in Nat /\ clock + life \in Nat
    BY LifetimesPositive DEF IInv, TypeOK, Time
  <2>3. sessions'[s] \in SessionRow
    BY <2>1, <2>2 DEF SessionRow, Time, OptTime
  <2> QED BY <2>1, <2>3, NullIsNoValue
<1>4. sessionStatus[s] = "none" /\ sessionStatus'[s] = "open"
      /\ \A z \in Session : z # s => sessionStatus'[z] = sessionStatus[z]
  BY <1>1, <1>3, Entries, NextEntries
<1>5. sessionStatus' = [sessionStatus EXCEPT ![s] = "open"]
  BY <1>4, LedgerDomains
<1>6. Ledger!OpenSession(s)
  BY <1>2, <1>4, <1>5 DEF Ledger!OpenSession
<1> QED BY <1>6 DEF Ledger!Next

LEMMA CodeIsAuthorized ==
  ASSUME IInv, IInv', [Next]_vars, NEW r \in Req, CommitIssue(r)
  PROVE  Ledger!Next
<1> DEFINE s == tx[r].s
<1>0. s \in Session /\ sessions[s] # Null
  BY CommitEnds, AtCommit DEF Commit
<1>1. /\ sessions[s].revoked_at = Null
      /\ tx[r].cod \in CodeRow /\ tx[r].cod.session = s
      /\ tx[r].cod.consumed_at = Null
      /\ UNCHANGED <<sessions, families, members>>
  BY IssueRows
<1>2. PICK c \in Code : /\ codes[c] = Null /\ codes'[c] = tx[r].cod
                        /\ \A d \in Code : d # c => codes'[d] = codes[d]
  BY IssueRows
<1>3. UNCHANGED <<sessionStatus, grantStatus, tokenStatus, tokenSource>>
  BY <1>1, EntriesStay
<1>4. codes'[c] # Null
  BY <1>1, <1>2, NullIsNoValue
<1>5. /\ sessionStatus[s] = "open" /\ codeStatus[c] = "none"
      /\ codeStatus'[c] = "fresh" /\ codeOwner'[c] = s
      /\ \A d \in Code : d # c =>
           codeStatus'[d] = codeStatus[d] /\ codeOwner'[d] = codeOwner[d]
  BY <1>0, <1>1, <1>2, <1>4, Entries, NextEntries
<1>6. /\ codeStatus' = [codeStatus EXCEPT ![c] = "fresh"]
      /\ codeOwner' = [codeOwner EXCEPT ![c] = s]
  BY <1>5, LedgerDomains
<1>7. Ledger!Authorize(s, c)
  BY <1>3, <1>5, <1>6 DEF Ledger!Authorize
<1> QED BY <1>0, <1>7 DEF Ledger!Next

LEMMA CodeIsRedeemed ==
  ASSUME IInv, IInv', OneFamilyPerCode, OneFamilyPerCode', [Next]_vars,
         NEW r \in Req, CommitExchange(r)
  PROVE  Ledger!Next
<1> DEFINE q == tx[r]
           c == tx[r].c
<1>0. /\ q.pc = "commit" /\ q.s \in Session /\ sessions[q.s] # Null
      /\ q.now \in Nat /\ q.now # Null
  BY CommitEnds, AtCommit, NullIsNoValue DEF Commit, Time
<1>1. /\ c \in Code /\ codes[c] # Null /\ codes[c] \in CodeRow
      /\ codes[c].session = q.s /\ codes[c].consumed_at = Null
      /\ sessions[q.s].revoked_at = Null /\ UNCHANGED sessions
      /\ \A d \in Code : d # c => codes'[d] = codes[d]
  BY ExchangeRows
<1>2. /\ codes'[c] # Null /\ codes'[c].consumed_at # Null
      /\ codes'[c].session = codes[c].session
  <2>1. codes'[c] = [codes[c] EXCEPT !.consumed_at = q.now]
    BY ExchangeRows
  <2>2. codes'[c].consumed_at = q.now /\ codes'[c].session = codes[c].session
    BY <1>1, <2>1 DEF CodeRow
  <2>3. codes'[c] \in CodeRow
    BY <1>0, <1>1, <2>1 DEF CodeRow, OptTime, Time
  <2> QED BY <1>0, <2>2, <2>3, NullIsNoValue
<1>3. /\ codeStatus[c] = "fresh" /\ codeOwner[c] = q.s
      /\ sessionStatus[q.s] = "open" /\ codeStatus'[c] = "spent"
      /\ \A d \in Code : d # c => codeStatus'[d] = codeStatus[d]
      /\ \A d \in Code : codeOwner'[d] = codeOwner[d]
  BY <1>0, <1>1, <1>2, Entries, NextEntries
<1>4. /\ codeStatus' = [codeStatus EXCEPT ![c] = "spent"]
      /\ codeOwner' = codeOwner /\ sessionStatus' = sessionStatus
  BY <1>1, <1>3, LedgerDomains, EntriesStay
<1>5. Ledger!Spend(c)
  BY <1>3, <1>4 DEF Ledger!Spend
<1>6. CASE UNCHANGED <<families, members>>
  <2>1. UNCHANGED <<grantStatus, tokenStatus, tokenSource>>
    BY <1>6, EntriesStay
  <2>2. Ledger!Redeem(c)
    BY <1>4, <1>5, <2>1 DEF Ledger!Redeem
  <2> QED BY <1>1, <2>2 DEF Ledger!Next
<1>7. CASE ~UNCHANGED <<families, members>>
  <2>1. PICK f \in Family, m \in Member :
          /\ families[f] = Null /\ members[m] = Null
          /\ families'[f] =
               [source_code |-> q.c, session |-> q.s,
                issued_at |-> q.now, expires_at |-> FamilyExpiry(q),
                revoked_at |-> Null]
          /\ \A g \in Family : g # f => families'[g] = families[g]
          /\ members'[m] = NewMember(f, q.now)
          /\ \A n \in Member : n # m => members'[n] = members[n]
    BY <1>7, ExchangeRows
  <2>2. /\ families'[f].source_code = c /\ families'[f].revoked_at = Null
        /\ members'[m].family = f /\ members'[m].consumed_at = Null
    BY <2>1 DEF NewMember
  <2>3. members'[m] # Null
    <3>1. members'[m] \in MemberRow
      BY <1>0, <2>1 DEF NewMember, MemberRow, OptTime, Time
    <3> QED BY <3>1, NullIsNoValue
  <2>4. families'[f] # Null
    BY <2>2, <2>3 DEF IInv, References
  <2>5. \A g \in Family : families[g] # Null => families[g].source_code # c
    BY <1>1 DEF OneFamilyPerCode
  <2>6. grantStatus[c] = "none" /\ grantStatus'[c] = "open"
    BY <1>1, <2>2, <2>4, <2>5, GrantEntry, NextGrantEntry
  <2>7. ASSUME NEW d \in Code, d # c PROVE grantStatus'[d] = grantStatus[d]
    <3>1. FamiliesOfCode(d)' = FamiliesOfCode(d)
      BY <2>1, <2>2, <2>7 DEF FamiliesOfCode
    <3>2. \A g \in FamiliesOfCode(d) : families'[g] = families[g]
      BY <2>1 DEF FamiliesOfCode
    <3> QED BY <3>1, <3>2 DEF grantStatus
  <2>8. grantStatus' = [grantStatus EXCEPT ![c] = "open"]
    BY <1>1, <2>6, <2>7, LedgerDomains
  <2>9. /\ tokenStatus[m] = "none" /\ tokenStatus'[m] = "live"
        /\ tokenSource'[m] = c
    BY <2>1, <2>2, <2>3, Entries, NextEntries
  <2>10. \A n \in Member : n # m =>
           tokenStatus'[n] = tokenStatus[n] /\ tokenSource'[n] = tokenSource[n]
    <3>1. \A n \in Member : n # m /\ members[n] # Null =>
            tokenSource'[n] = tokenSource[n]
      BY <2>1, EntriesStay
    <3> QED BY <2>1, <3>1, Entries, NextEntries
  <2>11. /\ tokenStatus' = [tokenStatus EXCEPT ![m] = "live"]
         /\ tokenSource' = [tokenSource EXCEPT ![m] = c]
    BY <2>9, <2>10, LedgerDomains
  <2>12. Ledger!RedeemOffline(c, m)
    BY <1>4, <1>5, <2>6, <2>8, <2>9, <2>11 DEF Ledger!RedeemOffline
  <2> QED BY <1>1, <2>12 DEF Ledger!Next
<1> QED BY <1>6, <1>7

LEMMA TokenIsRotated ==
  ASSUME IInv, IInv', OneFamilyPerCode, [Next]_vars,
         NEW r \in Req, CommitRotate(r)
  PROVE  Ledger!Next
<1> DEFINE q == tx[r]
           m == tx[r].m
<1>0. /\ q.pc = "commit" /\ q.s \in Session /\ sessions[q.s] # Null
      /\ q.now \in Nat /\ q.now # Null
  BY CommitEnds, AtCommit, NullIsNoValue DEF Commit, Time
<1>1. /\ q.f \in Family /\ families[q.f] # Null
      /\ families[q.f].session = q.s /\ families[q.f].revoked_at = Null
      /\ sessions[q.s].revoked_at = Null
      /\ m \in Member /\ members[m] # Null /\ members[m] \in MemberRow
      /\ members[m].family = q.f /\ members[m].consumed_at = Null
      /\ UNCHANGED <<sessions, codes, families>>
  BY RotateRows
<1>2. PICK n \in Member :
        /\ members[n] = Null /\ n # m
        /\ members'[n] = NewMember(q.f, q.now)
        /\ members'[m] = [members[m] EXCEPT !.consumed_at = q.now,
                                            !.successor = n]
        /\ \A k \in Member : k # n /\ k # m => members'[k] = members[k]
  BY RotateRows
<1>3. /\ members'[n].family = q.f /\ members'[n].consumed_at = Null
      /\ members'[n] # Null
  <2>1. members'[n] \in MemberRow
    BY <1>0, <1>1, <1>2 DEF NewMember, MemberRow, OptTime, Time
  <2> QED BY <1>2, <2>1, NullIsNoValue DEF NewMember
<1>4. members'[m].consumed_at # Null /\ members'[m] # Null
  <2>1. members'[m].consumed_at = q.now
    BY <1>1, <1>2 DEF MemberRow
  <2>2. members'[m] # Null
    BY <1>1, StepRows DEF RowsMoveOn, MemberMovesOn
  <2> QED BY <1>0, <2>1, <2>2
<1>5. /\ families[q.f].source_code \in Code
      /\ codes[families[q.f].source_code] # Null
      /\ codes[families[q.f].source_code].session = q.s
  BY <1>1, RowsTyped DEF IInv, References
<1>6. /\ tokenStatus[m] = "live" /\ tokenStatus[n] = "none"
      /\ tokenSource[m] = families[q.f].source_code
      /\ tokenStatus'[m] = "retired" /\ tokenStatus'[n] = "live"
      /\ tokenSource'[n] = families[q.f].source_code
      /\ tokenSource'[m] = tokenSource[m]
  <2>1. members[n] = Null
    BY <1>2
  <2> QED BY <1>1, <1>3, <1>4, <2>1, Entries, NextEntries, EntriesStay
<1>7. \A k \in Member : k # n /\ k # m =>
        tokenStatus'[k] = tokenStatus[k] /\ tokenSource'[k] = tokenSource[k]
  <2> SUFFICES ASSUME NEW k \in Member, k # n, k # m
               PROVE  /\ tokenStatus'[k] = tokenStatus[k]
                      /\ tokenSource'[k] = tokenSource[k]
    OBVIOUS
  <2>1. members'[k] = members[k]
    BY <1>2
  <2> QED BY <1>1, <2>1, Entries, NextEntries
<1>8. /\ tokenStatus' = [tokenStatus EXCEPT ![m] = "retired", ![n] = "live"]
      /\ tokenSource' = [tokenSource EXCEPT ![n] = tokenSource[m]]
  <2>1. tokenStatus' = [tokenStatus EXCEPT ![m] = "retired", ![n] = "live"]
    BY <1>2, <1>6, <1>7, LedgerDomains
  <2>2. tokenSource' = [tokenSource EXCEPT ![n] = tokenSource[m]]
    BY <1>6, <1>7, LedgerDomains
  <2> QED BY <2>1, <2>2
<1>9. /\ grantStatus[tokenSource[m]] = "open"
      /\ sessionStatus[codeOwner[tokenSource[m]]] = "open"
  <2>1. tokenSource[m] = families[q.f].source_code
    BY <1>6
  <2>2. grantStatus[families[q.f].source_code] = "open"
    BY <1>0, <1>1, <1>5, GrantEntry
  <2>3. codeOwner[families[q.f].source_code] = q.s
    BY <1>5, Entries
  <2>4. sessionStatus[q.s] = "open"
    BY <1>0, <1>1, <1>5, Entries
  <2> QED BY <2>1, <2>2, <2>3, <2>4
<1>10. UNCHANGED <<sessionStatus, codeStatus, codeOwner, grantStatus>>
  BY <1>1, EntriesStay
<1>11. Ledger!Rotate(m, n)
  BY <1>6, <1>8, <1>9, <1>10 DEF Ledger!Rotate
<1> QED BY <1>1, <1>2, <1>11 DEF Ledger!Next

(* A revocation of one family closes the grant of its code, unless that    *)
(* is closed already; a logout closes every grant of its session.          *)
LEMMA GrantIsClosed ==
  ASSUME IInv, IInv', OneFamilyPerCode, OneFamilyPerCode', [Next]_vars,
         NEW r \in Req, Revokes(r)
  PROVE  Ledger!Next \/ UNCHANGED Ledger!ledger
<1> DEFINE q == tx[r]
<1>0. /\ q.pc = "commit" /\ q.s \in Session /\ sessions[q.s] # Null
      /\ sessions[q.s] \in SessionRow /\ NamesItsRows(q)
      /\ q.now \in Time /\ q.at \in Time /\ RevokedAt(q) \in Time
  BY CommitEnds, AtCommit DEF Commit, Revokes, RevokedAt
<1>1. /\ q.op \in {"exchange", "rotate", "revoke", "logout"}
      /\ UNCHANGED <<codes, members>>
      /\ q.op # "logout" => UNCHANGED sessions
      /\ q.op = "logout" =>
           /\ sessions'[q.s] = Revoked(sessions[q.s], q.now)
           /\ \A s \in Session : s # q.s => sessions'[s] = sessions[s]
      /\ \A f \in RevokedBy(q) : families[f].session = q.s
      /\ \A f \in Family : families[f] = Null => families'[f] = Null
      /\ \A f \in Family : families[f] # Null =>
           families'[f] = IF f \in RevokedBy(q)
                            THEN Revoked(families[f], RevokedAt(q))
                            ELSE families[f]
  BY RevocationRows
<1>2. UNCHANGED <<codeStatus, codeOwner, tokenStatus, tokenSource>>
  BY <1>1, EntriesStay
<1>3. \A f \in Family : families[f] # Null =>
        /\ families'[f] # Null
        /\ families[f].source_code \in Code
        /\ families'[f].source_code = families[f].source_code
        /\ f \in RevokedBy(q) => families'[f].revoked_at # Null
        /\ f \notin RevokedBy(q) => families'[f] = families[f]
        /\ families[f].revoked_at # Null => families'[f] = families[f]
  BY <1>0, <1>1, RowsTyped, RevokedFamilyRow
<1>4. ASSUME NEW c \in Code,
             \A f \in Family : families[f] # Null /\ families[f].source_code = c
               => f \notin RevokedBy(q) \/ families[f].revoked_at # Null
      PROVE  grantStatus'[c] = grantStatus[c]
  <2>1. FamiliesOfCode(c)' = FamiliesOfCode(c)
    BY <1>1, <1>3 DEF FamiliesOfCode
  <2>2. \A f \in FamiliesOfCode(c) : families'[f] = families[f]
    BY <1>3, <1>4 DEF FamiliesOfCode
  <2> QED BY <2>1, <2>2 DEF grantStatus
<1>5. ASSUME NEW f \in Family, families[f] # Null, f \in RevokedBy(q),
             families[f].revoked_at = Null
      PROVE  /\ grantStatus[families[f].source_code] = "open"
             /\ grantStatus'[families[f].source_code] = "closed"
  <2>1. families[f].source_code \in Code /\ families'[f] # Null
        /\ families'[f].source_code = families[f].source_code
        /\ families'[f].revoked_at # Null
    BY <1>3, <1>5
  <2>2. grantStatus[families[f].source_code] = "open"
    BY <1>5, <2>1, GrantEntry
  <2>3. ASSUME NEW c \in Code, c = families[f].source_code
        PROVE  grantStatus'[c] = "closed"
    BY <2>1, <2>3, NextGrantEntry
  <2> QED BY <2>1, <2>2, <2>3
<1>6. CASE q.op # "logout"
  <2>1. UNCHANGED sessionStatus
    BY <1>1, <1>6, EntriesStay
  <2>2. \A f, g \in RevokedBy(q) : f = g
    BY <1>1, <1>6 DEF RevokedBy, OneFamilyPerCode
  <2>3. CASE \E f \in RevokedBy(q) : families[f].revoked_at = Null
    <3>1. PICK f \in RevokedBy(q) : families[f].revoked_at = Null
      BY <2>3
    <3>2. f \in Family /\ families[f] # Null
      BY DEF RevokedBy
    <3>3. PICK c \in Code : c = families[f].source_code
      BY <1>3, <3>2
    <3>4. grantStatus[c] = "open" /\ grantStatus'[c] = "closed"
      BY <1>5, <3>1, <3>2, <3>3
    <3>5. \A d \in Code : d # c => grantStatus'[d] = grantStatus[d]
      BY <1>4, <2>2, <3>1, <3>3
    <3>6. grantStatus' = [grantStatus EXCEPT ![c] = "closed"]
      BY <3>4, <3>5, LedgerDomains
    <3>7. Ledger!Close(c)
      BY <1>2, <2>1, <3>4, <3>6 DEF Ledger!Close
    <3> QED BY <3>7 DEF Ledger!Next
  <2>4. CASE \A f \in RevokedBy(q) : families[f].revoked_at # Null
    <3>1. \A d \in Code : grantStatus'[d] = grantStatus[d]
      BY <1>4, <2>4
    <3>2. grantStatus' = grantStatus
      BY <3>1, LedgerDomains
    <3> QED BY <1>2, <2>1, <3>2 DEF Ledger!ledger
  <2> QED BY <2>3, <2>4
<1>7. CASE q.op = "logout"
  <2>0. \A f \in Family : f \in RevokedBy(q) <=>
          families[f] # Null /\ families[f].session = q.s
    BY <1>7 DEF RevokedBy
  <2>1. CASE sessions[q.s].revoked_at # Null
    <3>1. sessions'[q.s] = sessions[q.s]
      BY <1>0, <1>1, <1>7, <2>1, RevokedSessionRow
    <3>2. \A s \in Session : sessionStatus'[s] = sessionStatus[s]
      BY <1>1, <1>7, <3>1, Entries, NextEntries
    <3>3. \A f \in RevokedBy(q) : families[f].revoked_at # Null
      BY <1>0, <2>0, <2>1 DEF IInv, LogoutIsComplete, FamiliesOfSession, RevokedBy
    <3>4. \A d \in Code : grantStatus'[d] = grantStatus[d]
      BY <1>4, <3>3
    <3>5. UNCHANGED <<sessionStatus, grantStatus>>
      BY <3>2, <3>4, LedgerDomains
    <3> QED BY <1>2, <3>5 DEF Ledger!ledger
  <2>2. CASE sessions[q.s].revoked_at = Null
    <3>1. sessions'[q.s] # Null /\ sessions'[q.s].revoked_at # Null
      BY <1>0, <1>1, <1>7, RevokedSessionRow
    <3>2. /\ sessionStatus[q.s] = "open" /\ sessionStatus'[q.s] = "ended"
          /\ \A s \in Session : s # q.s => sessionStatus'[s] = sessionStatus[s]
      BY <1>0, <1>1, <1>7, <2>2, <3>1, Entries, NextEntries
    <3>3. sessionStatus' = [sessionStatus EXCEPT ![q.s] = "ended"]
      BY <1>0, <3>2, LedgerDomains
    <3>4. ASSUME NEW c \in Code
          PROVE  grantStatus'[c] = IF codeOwner[c] = q.s /\ grantStatus[c] = "open"
                                     THEN "closed" ELSE grantStatus[c]
      <4>1. CASE \E f \in Family : families[f] # Null /\ families[f].source_code = c
        <5>1. PICK f \in Family : families[f] # Null /\ families[f].source_code = c
          BY <4>1
        <5>2. codes[c] # Null /\ codes[c].session = families[f].session
          BY <5>1 DEF IInv, References
        <5>3. codeOwner[c] = families[f].session
          BY <5>2, Entries
        <5>4. grantStatus[c] = IF families[f].revoked_at = Null THEN "open"
                                                                ELSE "closed"
          BY <5>1, GrantEntry
        <5>5. \A g \in Family : families[g] # Null /\ families[g].source_code = c
                => g = f
          BY <5>1 DEF OneFamilyPerCode
        <5>6. CASE f \in RevokedBy(q) /\ families[f].revoked_at = Null
          <6>1. grantStatus'[c] = "closed"
            BY <1>5, <5>1, <5>6
          <6> QED BY <2>0, <5>3, <5>4, <5>6, <6>1
        <5>7. CASE f \notin RevokedBy(q) \/ families[f].revoked_at # Null
          <6>1. grantStatus'[c] = grantStatus[c]
            BY <1>4, <5>5, <5>7
          <6> QED BY <2>0, <5>1, <5>3, <5>4, <5>7, <6>1
        <5> QED BY <5>6, <5>7
      <4>2. CASE ~\E f \in Family : families[f] # Null /\ families[f].source_code = c
        <5>1. grantStatus'[c] = grantStatus[c]
          BY <1>4, <4>2
        <5>2. grantStatus[c] = "none"
          BY <4>2, GrantEntry
        <5> QED BY <5>1, <5>2
      <4> QED BY <4>1, <4>2
    <3>5. grantStatus' =
            [c \in Code |-> IF codeOwner[c] = q.s /\ grantStatus[c] = "open"
                              THEN "closed" ELSE grantStatus[c]]
      BY <3>4, LedgerDomains
    <3>6. Ledger!EndSession(q.s)
      BY <1>2, <3>2, <3>3, <3>5 DEF Ledger!EndSession
    <3> QED BY <1>0, <3>6 DEF Ledger!Next
  <2> QED BY <2>1, <2>2
<1> QED BY <1>6, <1>7

-----------------------------------------------------------------------------
LEMMA LedgerStep ==
  ASSUME IInv, IInv', OneFamilyPerCode, OneFamilyPerCode', [Next]_vars
  PROVE  [Ledger!Next]_Ledger!ledger
<1>1. CASE UNCHANGED tables
  <2>1. UNCHANGED <<sessionStatus, codeStatus, codeOwner, grantStatus,
                    tokenStatus, tokenSource>>
    BY <1>1, EntriesStay DEF tables
  <2> QED BY <2>1 DEF Ledger!ledger
<1>2. CASE UNCHANGED vars \/ Tick
  BY <1>1, <1>2 DEF vars, Tick, tables
<1>3. CASE CreateProviderSession
  BY <1>3, SessionIsOpened
<1>4. ASSUME NEW r \in Req, Quiet(r) PROVE [Ledger!Next]_Ledger!ledger
  BY <1>1, <1>4, QuietSteps DEF tables
<1>5. ASSUME NEW r \in Req, Commit(r) PROVE [Ledger!Next]_Ledger!ledger
  <2>1. CASE CommitIssue(r)
    BY <2>1, CodeIsAuthorized
  <2>2. CASE CommitExchange(r)
    BY <2>2, CodeIsRedeemed
  <2>3. CASE CommitRotate(r)
    BY <2>3, TokenIsRotated
  <2>4. CASE Revokes(r)
    BY <2>4, GrantIsClosed
  <2> QED BY <1>5, <2>1, <2>2, <2>3, <2>4 DEF Commit, Revokes
<1> QED BY <1>2, <1>3, <1>4, <1>5, StepKinds

LEMMA LedgerStart == Init => Ledger!Init
<1> SUFFICES ASSUME Init PROVE Ledger!Init
  OBVIOUS
<1>1. /\ \A s \in Session : sessions[s] = Null
      /\ \A c \in Code : codes[c] = Null
      /\ \A f \in Family : families[f] = Null
      /\ \A m \in Member : members[m] = Null
  BY DEF Init
<1>2. \A c \in Code : FamiliesOfCode(c) = {}
  BY <1>1 DEF FamiliesOfCode
<1>3. /\ sessionStatus = [s \in Session |-> "none"]
      /\ codeStatus = [c \in Code |-> "none"]
      /\ codeOwner = [c \in Code |-> Null]
  BY <1>1 DEF sessionStatus, codeStatus, codeOwner
<1>4. /\ tokenStatus = [m \in Member |-> "none"]
      /\ tokenSource = [m \in Member |-> Null]
  BY <1>1 DEF tokenStatus, tokenSource
<1>5. grantStatus = [c \in Code |-> "none"]
  BY <1>2 DEF grantStatus
<1> QED BY <1>3, <1>4, <1>5 DEF Ledger!Init

(* Every behaviour of the store is, seen through its committed tables, one *)
(* of the ledger: whatever the requests' interleaving, each commit is one  *)
(* atomic ledger operation or none at all.                                 *)
THEOREM StoreImplementsLedger == Spec => Ledger!Spec
BY LedgerStart, LedgerStep, Invariance, OneFamily, PTL DEF Spec, Ledger!Spec

(* The same, in the form that the run checks.                              *)
THEOREM LedgerIsImplemented == Spec => ImplementsLedger
<1>1. IInv /\ IInv' /\ OneFamilyPerCode /\ OneFamilyPerCode' /\ [Next]_vars =>
        [UNCHANGED tables \/ Ledger!Next]_Ledger!ledger
  BY LedgerStep
<1> QED BY <1>1, LedgerStart, Invariance, OneFamily, PTL
        DEF Spec, ImplementsLedger

-----------------------------------------------------------------------------
(* The token and revocation handlers.  Their steps are steps of the store, *)
(* or drop the store's request; so the store's invariant holds under them. *)
(* What a handler knows: its secret exists; a request runs for it only     *)
(* while it waits for the store, and if it revokes, on its own secret; and *)
(* once the store has said so, or the client has been told, the family is  *)
(* revoked.  A commit on behalf of a call ends its last attempt.           *)
FamilyClosed(m) == families[members[m].family].revoked_at # Null

CallOK(h) ==
  LET q == call[h]  t == tx[h] IN
  /\ q.kind = "code" => q.secret \in Code
  /\ q.kind \in {"refresh", "revoke"} =>
       q.secret \in Member /\ members[q.secret] # Null
  /\ q.phase # "idle" => q.kind # "none"
  /\ q.phase # "store" => t.pc = "idle"
  /\ q.phase = "store" /\ q.kind = "revoke" /\ t.pc # "idle" =>
       t.op = "revoke" /\ t.m = q.secret
  /\ q.phase = "store" /\ q.kind = "revoke" /\ t.pc = "idle" /\ t.out = "ok"
       => FamilyClosed(q.secret)
  /\ q.answer = "revoked" =>
       q.phase = "idle" /\ q.kind = "revoke" /\ FamilyClosed(q.secret)
  /\ q.spent => /\ q.phase # "resolve" /\ t.pc = "idle"
                /\ q.phase = "store" => t.out = "ok"

CallsOK == call \in [Req -> Call] /\ \A h \in Req : CallOK(h)

TokenInv == IInv /\ CallsOK

LEMMA DropStep ==
  ASSUME IInv, NEW h \in Req, tx' = [tx EXCEPT ![h] = NoRequest],
         clock' = clock, UNCHANGED tables
  PROVE  IInv'
<1>1. NoRequest \in Request /\ NoRequest.pc = "idle"
  BY DEF NoRequest, Request, Pc, Out, Lease, Time, Op
<1>2. RequestOK(NoRequest) /\ ~Holding(NoRequest)
  BY <1>1 DEF RequestOK, Holding
<1> HIDE DEF NoRequest
<1> QED BY <1>1, <1>2, RequestStep

Drops(h) ==
  /\ tx' = [tx EXCEPT ![h] = NoRequest]
  /\ clock' = clock /\ UNCHANGED tables

(* What each step of the handlers is to the store.                         *)
LEMMA CallStarts ==
  ASSUME TokenInv, NEW h \in Req, CallStore(h)
  PROVE  Start(h)
<1>1. CallOK(h)
  BY DEF TokenInv, CallsOK
<1>2. CASE call[h].kind = "code" /\ StartExchange(h, call[h].secret, TRUE, TRUE)
  BY <1>1, <1>2 DEF CallOK, Start
<1>3. CASE call[h].kind = "refresh" /\ StartRotate(h, call[h].secret, TRUE, TRUE)
  BY <1>1, <1>3 DEF CallOK, Start
<1>4. CASE call[h].kind = "revoke" /\ StartRevoke(h, call[h].secret, TRUE)
  BY <1>1, <1>4 DEF CallOK, Start
<1> QED BY <1>2, <1>3, <1>4 DEF CallStore

LEMMA AnswerSteps ==
  ASSUME NEW h \in Req,
         \/ CallFails(h) \/ Refuse(h) \/ AnswerTokens(h) \/ AnswerRevoked(h)
         \/ Disconnect(h)
  PROVE  Drops(h)
BY DEF CallFails, Refuse, AnswerTokens, AnswerRevoked, Disconnect, Answer, Drops

LEMMA StepOfStore ==
  ASSUME TokenInv, [TokenNext]_tvars
  PROVE  [Next]_vars \/ \E h \in Req : Drops(h)
<1>1. CASE UNCHANGED tvars \/ Tick
  BY <1>1 DEF tvars, Next
<1>2. ASSUME NEW h \in Req, Arrives(h) PROVE UNCHANGED vars
  BY <1>2 DEF Arrives, Receive
<1>3. ASSUME NEW h \in Req, StoreStep(h) PROVE Next
  BY <1>3 DEF StoreStep, Next
<1>4. ASSUME NEW h \in Req, Handle(h) \/ Disconnect(h)
      PROVE  [Next]_vars \/ Drops(h)
  <2>1. CASE CallStore(h)
    BY <2>1, CallStarts DEF Next
  <2>2. CASE Retry(h)
    BY <2>2 DEF Retry
  <2> QED BY <1>4, <2>1, <2>2, AnswerSteps DEF Handle
<1> QED BY <1>1, <1>2, <1>3, <1>4 DEF TokenNext

LEMMA StoreUnderCalls ==
  ASSUME TokenInv, [TokenNext]_tvars
  PROVE  IInv' /\ RowsMoveOn
<1>1. CASE [Next]_vars
  <2>1. IInv'
    BY <1>1, NextInv DEF TokenInv
  <2> QED BY <1>1, <2>1, StepRows DEF TokenInv
<1>2. ASSUME NEW h \in Req, Drops(h) PROVE IInv' /\ RowsMoveOn
  <2>1. IInv'
    BY <1>2, DropStep DEF TokenInv, Drops
  <2>2. UNCHANGED <<sessions, codes, families, members>>
    BY <1>2 DEF Drops, tables
  <2>3. RowsMoveOn
    BY <2>2 DEF RowsMoveOn, SessionMovesOn, CodeMovesOn, FamilyMovesOn,
                MemberMovesOn
  <2> QED BY <2>1, <2>3
<1> QED BY <1>1, <1>2, StepOfStore

(* A revoked family stays revoked.                                         *)
LEMMA ClosedForGood ==
  ASSUME IInv, RowsMoveOn, NEW m \in Member, members[m] # Null
  PROVE  /\ members'[m] # Null /\ members'[m].family = members[m].family
         /\ FamilyClosed(m) => FamilyClosed(m)'
<1>1. /\ members[m].family \in Family
      /\ families[members[m].family] # Null
  BY DEF IInv, TypeOK, References, MemberRow
<1>2. /\ members'[m] # Null /\ members'[m].family = members[m].family
  BY DEF RowsMoveOn, MemberMovesOn
<1>3. families[members[m].family].revoked_at # Null =>
        families'[members[m].family] = families[members[m].family]
  BY <1>1 DEF RowsMoveOn, FamilyMovesOn
<1> QED BY <1>2, <1>3 DEF FamilyClosed

(* A handler that is left alone keeps what it knows.                       *)
LEMMA OtherCalls ==
  ASSUME IInv, RowsMoveOn, NEW h \in Req, CallOK(h),
         call'[h] = call[h], tx'[h] = tx[h]
  PROVE  CallOK(h)'
<1> DEFINE m == call[h].secret
<1>1. call[h].kind \in {"refresh", "revoke"} =>
        m \in Member /\ members[m] # Null
  BY DEF CallOK
<1>2. call[h].kind \in {"refresh", "revoke"} =>
        /\ members'[m] # Null
        /\ FamilyClosed(m) => FamilyClosed(call[h].secret)'
  <2> SUFFICES ASSUME call[h].kind \in {"refresh", "revoke"}
               PROVE  /\ members'[m] # Null
                      /\ FamilyClosed(m) => FamilyClosed(call[h].secret)'
    OBVIOUS
  <2>1. PICK x \in Member : x = m /\ members[x] # Null
    BY <1>1
  <2>2. members'[x] # Null /\ (FamilyClosed(x) => FamilyClosed(x)')
    BY <2>1, ClosedForGood
  <2> QED BY <2>1, <2>2 DEF FamilyClosed
<1> QED BY <1>1, <1>2 DEF CallOK

(* A running revocation goes on, fails, or commits.                        *)
LEMMA RevokeProgress ==
  ASSUME IInv, NEW r \in Req, tx[r].op = "revoke",
         Proceed(r) \/ Cancel(r) \/ LeaseLapses(r)
  PROVE  \/ /\ tx'[r].pc # "idle" /\ tx'[r].op = "revoke"
            /\ tx'[r].m = tx[r].m
         \/ tx'[r].pc = "idle" /\ tx'[r].out # "ok"
         \/ CommitRevoke(r)
<1>0. tx \in [Req -> Request] /\ tx[r] \in Request /\ RequestOK(tx[r])
  BY DEF IInv, TypeOK
<1>1. CASE LockSession(r) \/ LockCode(r) \/ LockFamily(r) \/ LockMember(r)
  BY <1>0, <1>1 DEF LockSession, LockCode, LockFamily, LockMember,
                    AfterSession, Request
<1>2. CASE DecideRevoke(r)
  BY <1>0, <1>2 DEF DecideRevoke, Stage, Request
<1>3. ASSUME NEW out \in Out, out # "ok", End(r, out)
      PROVE  tx'[r].pc = "idle" /\ tx'[r].out # "ok"
  <2>1. tx'[r] = Ended(tx[r], out)
    BY <1>0, <1>3 DEF End
  <2>2. Ended(tx[r], out).pc = "idle"
    BY <1>0, EndedTyped
  <2>3. Ended(tx[r], out).out = out
    BY DEF Ended, NoRequest
  <2> QED BY <1>3, <2>1, <2>2, <2>3
<1>4. CASE LastCheck(r)
  <2>1. CASE tx' = [tx EXCEPT ![r].pc = "commit"]
    BY <1>0, <2>1 DEF Request
  <2>2. CASE End(r, "metadata_expired")
    BY <1>3, <2>2 DEF Out
  <2> QED BY <1>4, <2>1, <2>2 DEF LastCheck
<1>5. CASE Cancel(r)
  BY <1>3, <1>5 DEF Cancel, Out
<1>6. CASE LeaseLapses(r)
  BY <1>6 DEF LeaseLapses
<1>7. CASE CommitIssue(r) \/ CommitExchange(r) \/ CommitCodeReplay(r)
           \/ CommitRotate(r) \/ CommitTokenReplay(r) \/ CommitLogout(r)
  BY <1>7 DEF CommitIssue, CommitExchange, CommitCodeReplay, CommitRotate,
              CommitTokenReplay, CommitLogout, Committing
<1>8. CASE DecideExchange(r) \/ DecideRotate(r) \/ DecideIssue(r)
           \/ WriteIssue(r) \/ DecideLogout(r) \/ WriteLogout(r)
  BY <1>8 DEF DecideExchange, DecideRotate, DecideIssue, WriteIssue,
              DecideLogout, WriteLogout
<1> QED BY <1>1, <1>2, <1>4, <1>5, <1>6, <1>7, <1>8 DEF Proceed

LEMMA RevokeCloses ==
  ASSUME IInv, NEW r \in Req, CommitRevoke(r), NEW m \in Member, m = tx[r].m
  PROVE  FamilyClosed(m)'
<1> DEFINE f == tx[r].f
<1>1. tx[r].op = "revoke" /\ tx[r].pc = "commit" /\ UNCHANGED members
  BY DEF CommitRevoke, Committing
<1>2. /\ f \in Family /\ families[f] # Null /\ members[m].family = f
      /\ families[f] \in FamilyRow /\ tx[r].now \in Time
  BY <1>1, AtCommit DEF NamesItsRows, IInv, TypeOK
<1>3. families' = RevokeFamilies({f}, tx[r].now)
  BY DEF CommitRevoke
<1>4. families'[f] = Revoked(families[f], tx[r].now)
  BY <1>2, <1>3 DEF RevokeFamilies
<1>5. families'[f].revoked_at # Null
  BY <1>2, <1>4, RevokedFamilyRow
<1> QED BY <1>1, <1>2, <1>5 DEF FamilyClosed

LEMMA OwnCall ==
  ASSUME TokenInv, RowsMoveOn, NEW h \in Req, NEW q \in Call,
         call' = [call EXCEPT ![h] = q], CallOK(h)',
         \A x \in Req : x # h => tx'[x] = tx[x]
  PROVE  CallsOK'
<1>1. /\ call' \in [Req -> Call]
      /\ \A x \in Req : x # h => call'[x] = call[x]
  BY DEF TokenInv, CallsOK
<1>2. ASSUME NEW x \in Req, x # h PROVE CallOK(x)'
  BY <1>1, <1>2, OtherCalls DEF TokenInv, CallsOK
<1> QED BY <1>1, <1>2 DEF CallsOK

LEMMA ReceiveKeeps ==
  ASSUME TokenInv, RowsMoveOn, NEW h \in Req, Arrives(h)
  PROVE  CallsOK'
<1>1. PICK x \in Secret, kind \in {"code", "refresh", "revoke"} :
        Receive(h, kind, x)
  BY DEF Arrives
<1> DEFINE q == [NoCall EXCEPT !.kind = kind, !.phase = "resolve", !.secret = x]
<1>2. /\ q \in Call /\ q.kind = kind /\ q.phase = "resolve" /\ q.secret = x
      /\ ~q.spent /\ q.answer = "none"
  BY DEF NoCall, Call
<1>3. call' = [call EXCEPT ![h] = q] /\ UNCHANGED <<tx, members>>
  BY <1>1 DEF Receive, vars
<1> HIDE DEF q
<1>4. call'[h] = q
  BY <1>3 DEF TokenInv, CallsOK
<1>5. tx[h].pc = "idle"
  BY <1>1 DEF Receive, TokenInv, CallsOK, CallOK
<1>6. IF kind = "code" THEN x \in Code ELSE x \in Member /\ members[x] # Null
  BY <1>1 DEF Receive
<1>7. CallOK(h)'
  BY <1>2, <1>3, <1>4, <1>5, <1>6 DEF CallOK
<1> QED BY <1>2, <1>3, <1>7, OwnCall

LEMMA AnswerKeeps ==
  ASSUME TokenInv, RowsMoveOn, NEW h \in Req,
         NEW a \in {"none", "tokens", "revoked", "error"}, Answer(h, a),
         a = "revoked" => AnswerRevoked(h)
  PROVE  CallsOK'
<1> DEFINE o == call[h]
           q == IF a = "revoked" THEN [o EXCEPT !.phase = "idle", !.answer = a]
                                 ELSE [NoCall EXCEPT !.answer = a]
<1>0. o \in Call /\ CallOK(h) /\ tx \in [Req -> Request]
  BY DEF TokenInv, CallsOK, IInv, TypeOK
<1>1. q \in Call
  BY <1>0 DEF NoCall, Call
<1>2. /\ q.phase = "idle" /\ q.answer = a
      /\ a = "revoked" => q.kind = o.kind /\ q.secret = o.secret
      /\ a # "revoked" => q.kind = "none" /\ ~q.spent
  BY <1>0 DEF NoCall, Call
<1>3. call' = [call EXCEPT ![h] = q]
  BY DEF Answer, TokenInv, CallsOK
<1> HIDE DEF q
<1>4. call'[h] = q
  BY <1>3 DEF TokenInv, CallsOK
<1>5. /\ tx'[h] = NoRequest /\ NoRequest.pc = "idle"
      /\ \A x \in Req : x # h => tx'[x] = tx[x]
  BY <1>0 DEF Answer, NoRequest
<1>6. CASE a = "revoked"
  <2>1. /\ o.kind = "revoke" /\ o.phase = "store" /\ tx[h].pc = "idle"
        /\ tx[h].out = "ok"
    BY <1>6 DEF AnswerRevoked, Returned, Refused
  <2>2. o.secret \in Member /\ members[o.secret] # Null
        /\ FamilyClosed(o.secret)
    BY <1>0, <2>1 DEF CallOK
  <2>3. PICK m \in Member : m = o.secret
    BY <2>2
  <2>4. members'[m] # Null /\ FamilyClosed(m)'
    BY <2>2, <2>3, ClosedForGood DEF TokenInv
  <2>5. call'[h].secret = m
    BY <1>2, <1>4, <1>6, <2>3
  <2>6. FamilyClosed(call[h].secret)'
    BY <2>4, <2>5 DEF FamilyClosed
  <2>7. CallOK(h)'
    BY <1>2, <1>4, <1>5, <1>6, <2>1, <2>4, <2>5, <2>6 DEF CallOK
  <2> QED BY <1>1, <1>3, <1>5, <2>7, OwnCall
<1>7. CASE a # "revoked"
  <2>1. CallOK(h)'
    BY <1>2, <1>4, <1>5, <1>7 DEF CallOK
  <2> QED BY <1>1, <1>3, <1>5, <2>1, OwnCall
<1> QED BY <1>6, <1>7

LEMMA RetryKeeps ==
  ASSUME TokenInv, RowsMoveOn, NEW h \in Req, Retry(h)
  PROVE  CallsOK'
<1> DEFINE o == call[h]
           q == [o EXCEPT !.attempt = 1, !.phase = "resolve"]
<1>0. o \in Call /\ CallOK(h)
  BY DEF TokenInv, CallsOK
<1>1. q \in Call
  BY <1>0 DEF Call
<1>2. /\ q.phase = "resolve" /\ q.kind = o.kind /\ q.secret = o.secret
      /\ q.answer = o.answer /\ q.spent = o.spent
  BY <1>0 DEF Call
<1>3. call' = [call EXCEPT ![h] = q] /\ UNCHANGED <<tx, members>>
  BY DEF Retry, TokenInv, CallsOK, vars
<1> HIDE DEF q
<1>4. call'[h] = q
  BY <1>3 DEF TokenInv, CallsOK
<1>5. /\ o.phase = "store" /\ tx[h].pc = "idle"
      /\ tx[h].out = "metadata_expired" /\ o.kind # "revoke"
  BY DEF Retry, Retries, Returned
<1>6. ~o.spent /\ o.answer # "revoked"
  BY <1>0, <1>5 DEF CallOK
<1>7. o.kind # "none"
  BY <1>0, <1>5 DEF CallOK
<1>8. CallOK(h)'
  BY <1>0, <1>2, <1>3, <1>4, <1>5, <1>6, <1>7 DEF CallOK
<1> QED BY <1>1, <1>3, <1>8, OwnCall

LEMMA CallStoreKeeps ==
  ASSUME TokenInv, RowsMoveOn, NEW h \in Req, CallStore(h)
  PROVE  CallsOK'
<1> DEFINE o == call[h]
           q == [o EXCEPT !.phase = "store"]
<1>0. o \in Call /\ CallOK(h) /\ tx \in [Req -> Request]
  BY DEF TokenInv, CallsOK, IInv, TypeOK
<1>1. q \in Call
  BY <1>0 DEF Call
<1>2. /\ q.phase = "store" /\ q.kind = o.kind /\ q.secret = o.secret
      /\ q.answer = o.answer /\ q.spent = o.spent
  BY <1>0 DEF Call
<1>3. call' = [call EXCEPT ![h] = q]
  BY DEF CallStore, TokenInv, CallsOK
<1> HIDE DEF q
<1>4. call'[h] = q
  BY <1>3 DEF TokenInv, CallsOK
<1>5. UNCHANGED members /\ \A x \in Req : x # h => tx'[x] = tx[x]
  BY CallStarts, QuietSteps DEF TokenInv, Quiet
<1>6. o.phase = "resolve" /\ o.kind # "none"
  BY <1>0 DEF CallStore, CallOK
<1>7. ~o.spent /\ o.answer # "revoked"
  BY <1>0, <1>6 DEF CallOK
<1>8. o.kind = "revoke" =>
        tx'[h].pc # "idle" /\ tx'[h].op = "revoke" /\ tx'[h].m = o.secret
  <2> SUFFICES ASSUME o.kind = "revoke"
               PROVE  /\ tx'[h].pc # "idle" /\ tx'[h].op = "revoke"
                      /\ tx'[h].m = o.secret
    OBVIOUS
  <2>1. StartRevoke(h, o.secret, TRUE)
    BY DEF CallStore
  <2> QED BY <1>0, <2>1 DEF StartRevoke, Begin, NoRequest
<1>9. CallOK(h)'
  BY <1>0, <1>2, <1>4, <1>5, <1>6, <1>7, <1>8 DEF CallOK
<1> QED BY <1>1, <1>3, <1>5, <1>9, OwnCall

(* Only a running request takes a step.                                    *)
LEMMA StepIsRunning ==
  ASSUME IInv, NEW r \in Req, Proceed(r) \/ Cancel(r) \/ LeaseLapses(r)
  PROVE  tx[r].pc # "idle" /\ \A x \in Req : x # r => tx'[x] = tx[x]
<1>1. tx[r].pc # "idle"
  BY DEF Proceed, Cancel, LeaseLapses, LockSession, LockCode, LockFamily,
         LockMember, DecideExchange, DecideRotate, DecideRevoke, DecideIssue,
         WriteIssue, DecideLogout, WriteLogout, LastCheck, CommitIssue,
         CommitExchange, CommitCodeReplay, CommitRotate, CommitTokenReplay,
         CommitRevoke, CommitLogout, Committing
<1>2. Quiet(r) \/ Commit(r)
  BY DEF Proceed, Quiet, Commit
<1> QED BY <1>1, <1>2, QuietSteps, CommitMoves

LEMMA StoreStepKeeps ==
  ASSUME TokenInv, RowsMoveOn, NEW h \in Req, StoreStep(h)
  PROVE  CallsOK'
<1> DEFINE o == call[h]
           b == \/ o.spent
                \/ tx[h].pc = "commit" /\ tx'[h].pc = "idle" /\ tx'[h].out = "ok"
           q == [o EXCEPT !.spent = b]
<1>0. o \in Call /\ CallOK(h) /\ b \in BOOLEAN
  BY DEF TokenInv, CallsOK, Call
<1>1. tx[h].pc # "idle" /\ \A x \in Req : x # h => tx'[x] = tx[x]
  BY StepIsRunning DEF StoreStep, TokenInv
<1>2. o.phase = "store" /\ ~o.spent /\ o.answer # "revoked"
  BY <1>0, <1>1 DEF CallOK
<1>3. b => tx'[h].pc = "idle" /\ tx'[h].out = "ok"
  BY <1>2
<1>4. call' = [call EXCEPT ![h] = q]
  BY DEF StoreStep, CountsSpending, TokenInv, CallsOK
<1> HIDE DEF b
<1>5. q \in Call
  BY <1>0 DEF Call
<1>6. /\ q.phase = "store" /\ q.kind = o.kind /\ q.secret = o.secret
      /\ q.answer = o.answer /\ q.spent = b
  BY <1>0, <1>2 DEF Call
<1> HIDE DEF q
<1>7. call'[h] = q
  BY <1>4 DEF TokenInv, CallsOK
<1>8. o.kind \in {"refresh", "revoke"} =>
        o.secret \in Member /\ members'[o.secret] # Null
  BY <1>0, ClosedForGood DEF CallOK, TokenInv
<1>9. o.kind = "revoke" =>
        /\ tx'[h].pc # "idle" => tx'[h].op = "revoke" /\ tx'[h].m = o.secret
        /\ tx'[h].pc = "idle" /\ tx'[h].out = "ok" => FamilyClosed(call[h].secret)'
  <2> SUFFICES ASSUME o.kind = "revoke"
               PROVE  /\ tx'[h].pc # "idle" =>
                           tx'[h].op = "revoke" /\ tx'[h].m = o.secret
                      /\ tx'[h].pc = "idle" /\ tx'[h].out = "ok" =>
                           FamilyClosed(call[h].secret)'
    OBVIOUS
  <2>1. tx[h].op = "revoke" /\ tx[h].m = o.secret /\ o.secret \in Member
    BY <1>0, <1>1, <1>2 DEF CallOK
  <2>2. PICK m \in Member : m = tx[h].m /\ m = call'[h].secret
    BY <1>6, <1>7, <2>1
  <2>3. CASE CommitRevoke(h)
    <3>1. FamilyClosed(m)'
      BY <2>2, <2>3, RevokeCloses DEF TokenInv
    <3>2. tx'[h].pc = "idle"
      BY <2>3, EndedTyped DEF CommitRevoke, End, Out, TokenInv, IInv, TypeOK
    <3> QED BY <2>2, <3>1, <3>2 DEF FamilyClosed
  <2>4. CASE ~CommitRevoke(h)
    <3>1. \/ /\ tx'[h].pc # "idle" /\ tx'[h].op = "revoke"
             /\ tx'[h].m = tx[h].m
          \/ tx'[h].pc = "idle" /\ tx'[h].out # "ok"
      BY <2>1, <2>4, RevokeProgress DEF StoreStep, TokenInv
    <3> QED BY <2>1, <3>1
  <2> QED BY <2>3, <2>4
<1>10. o.kind # "none"
  BY <1>0, <1>2 DEF CallOK
<1>11. CallOK(h)'
  BY <1>0, <1>2, <1>3, <1>6, <1>7, <1>8, <1>9, <1>10 DEF CallOK
<1> QED BY <1>1, <1>4, <1>5, <1>11, OwnCall

LEMMA TokenInitInv == TokenInit => TokenInv
<1> SUFFICES ASSUME TokenInit PROVE TokenInv
  OBVIOUS
<1>1. NoRequest \in Request
  BY DEF NoRequest, Request, Pc, Out, Lease, Time, Op
<1>2. \A s \in Session : /\ sessions[s] \in SessionRow /\ sessions[s] # Null
                         /\ sessions[s].revoked_at = Null
  BY LifetimesPositive, NullIsNoValue DEF TokenInit, SessionRow, OptTime, Time
<1>3. Min2(MaxCodeLife, MaxSessionLife) \in Nat
  BY LifetimesPositive DEF Min2
<1>4. \A c \in Code : codes[c] \in CodeRow /\ codes[c].session \in Session
  <2> SUFFICES ASSUME NEW c \in Code
               PROVE  codes[c] \in CodeRow /\ codes[c].session \in Session
    OBVIOUS
  <2>1. PICK s \in Session :
          codes[c] = [session |-> s, offline |-> TRUE, issued_at |-> 0,
                      expires_at |-> Min2(MaxCodeLife, MaxSessionLife),
                      consumed_at |-> Null]
    BY DEF TokenInit
  <2> QED BY <1>3, <2>1 DEF CodeRow, OptTime, Time
<1>5. /\ clock = 0 /\ DOMAIN sessions = Session /\ DOMAIN codes = Code
      /\ sessions = [s \in Session |-> sessions[s]]
      /\ codes = [c \in Code |-> codes[c]]
      /\ families = [f \in Family |-> Null] /\ members = [m \in Member |-> Null]
      /\ tx = [r \in Req |-> NoRequest] /\ call = [h \in Req |-> NoCall]
  BY DEF TokenInit
<1>6. TypeOK
  BY <1>1, <1>2, <1>4, <1>5 DEF TypeOK, Time
<1>7. References /\ LogoutIsComplete
  BY <1>2, <1>4, <1>5 DEF References, LogoutIsComplete, FamiliesOfSession
<1>8. \A r \in Req : tx[r].pc = "idle"
  BY <1>5 DEF NoRequest
<1>9. IInv
  BY <1>6, <1>7, <1>8 DEF IInv, SessionExclusion, Holding, RequestOK
<1>10. CallsOK
  <2>1. /\ NoCall \in Call /\ NoCall.kind = "none" /\ NoCall.phase = "idle"
        /\ NoCall.answer = "none" /\ ~NoCall.spent
    BY DEF NoCall, Call
  <2> QED BY <1>5, <1>8, <2>1 DEF CallsOK, CallOK
<1> QED BY <1>9, <1>10 DEF TokenInv

LEMMA TokenNextInv == TokenInv /\ [TokenNext]_tvars => TokenInv'
<1> SUFFICES ASSUME TokenInv, [TokenNext]_tvars PROVE TokenInv'
  OBVIOUS
<1>1. IInv' /\ RowsMoveOn
  BY StoreUnderCalls
<1>2. CASE UNCHANGED <<tx, call>>
  <2>1. \A h \in Req : CallOK(h)
    BY DEF TokenInv, CallsOK
  <2>2. ASSUME NEW h \in Req PROVE CallOK(h)'
    BY <1>1, <1>2, <2>1, OtherCalls DEF TokenInv
  <2> QED BY <1>1, <1>2, <2>2 DEF TokenInv, CallsOK
<1>3. CASE UNCHANGED tvars \/ (Tick /\ UNCHANGED call)
  BY <1>2, <1>3 DEF tvars, vars, Tick
<1>4. ASSUME NEW h \in Req, Arrives(h) \/ StoreStep(h) PROVE CallsOK'
  BY <1>1, <1>4, ReceiveKeeps, StoreStepKeeps
<1>5. ASSUME NEW h \in Req, Handle(h) \/ Disconnect(h) PROVE CallsOK'
  <2>1. CASE CallStore(h) \/ Retry(h)
    BY <1>1, <2>1, CallStoreKeeps, RetryKeeps
  <2>2. CASE AnswerRevoked(h)
    BY <1>1, <2>2, AnswerKeeps DEF AnswerRevoked
  <2>3. CASE CallFails(h) \/ Refuse(h) \/ AnswerTokens(h) \/ Disconnect(h)
    BY <1>1, <2>3, AnswerKeeps DEF CallFails, Refuse, AnswerTokens, Disconnect
  <2> QED BY <1>5, <2>1, <2>2, <2>3 DEF Handle
<1> QED BY <1>1, <1>3, <1>4, <1>5 DEF TokenNext, TokenInv

LEMMA TokenInvariance == TokenSpec => []TokenInv
BY TokenInitInv, TokenNextInv, PTL DEF TokenSpec

(* The answer 200 of the revocation endpoint is the truth, whatever else   *)
(* runs: the family is revoked, and no renewal of it is about to be        *)
(* committed, for any number of grants, handlers and failures.             *)
THEOREM RevocationAnswersAreTrue == TokenSpec => []RevokeAnswerMeansRevoked
<1>1. TokenInv => RevokeAnswerMeansRevoked
  <2> SUFFICES ASSUME TokenInv, NEW h \in Req, call[h].answer = "revoked"
               PROVE  /\ families[members[call[h].secret].family].revoked_at # Null
                      /\ \A r \in Req : Committing(r, "rotate", FALSE) =>
                           tx[r].f # members[call[h].secret].family
    BY DEF RevokeAnswerMeansRevoked
  <2>1. FamilyClosed(call[h].secret)
    BY DEF TokenInv, CallsOK, CallOK
  <2>2. ASSUME NEW r \in Req, Committing(r, "rotate", FALSE)
        PROVE  families[tx[r].f].revoked_at = Null
    BY <2>2, AtCommit DEF Committing, TokenInv, StagedForReason
  <2> QED BY <2>1, <2>2 DEF FamilyClosed
<1> QED BY <1>1, TokenInvariance, PTL

(* A handler's second attempt is never convicted of replaying its first:   *)
(* after a commit on behalf of a call the store is not asked again.        *)
THEOREM RetriesAreNoReplays == TokenSpec => RetryIsNoReplay
<1> DEFINE A == \A h \in Req :
                  tx[h].pc = "commit" /\ tx[h].replay /\ families' # families
                    => ~call[h].spent
<1>1. TokenInv => A
  BY DEF TokenInv, CallsOK, CallOK
<1> QED BY <1>1, TokenInvariance, PTL DEF RetryIsNoReplay, TokenSpec

=============================================================================
