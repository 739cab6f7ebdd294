--------------------------- MODULE CredentialProofs ---------------------------
(***************************************************************************)
(* Proofs about CredentialStore.  The inductive invariant has three parts: *)
(* references between tables, at most one holder per session lock, and,    *)
(* for every request, what it knows at the await it is suspended at.       *)
(* The history of the rows (chains, times, refusals) rests on it.          *)
(***************************************************************************)
EXTENDS CredentialStore, TLAPS

(* Rows refer to rows that exist, and a family to a code of its session.   *)
References ==
  /\ \A c \in Code : codes[c] # Null => sessions[codes[c].session] # Null
  /\ \A f \in Family : families[f] # Null =>
       /\ sessions[families[f].session] # Null
       /\ codes[families[f].source_code] # Null
       /\ codes[families[f].source_code].session = families[f].session
  /\ \A m \in Member : members[m] # Null => families[members[m].family] # Null

Holding(q) == q.pc \notin {"idle", "lock_session"}

SessionExclusion ==
  \A r1, r2 \in Req :
    r1 # r2 /\ Holding(tx[r1]) /\ Holding(tx[r2]) => tx[r1].s # tx[r2].s

(* The rows a running request names exist and belong to its session.       *)
NamesItsRows(q) ==
  /\ q.op \in Op
  /\ q.s \in Session /\ sessions[q.s] # Null
  /\ q.op = "exchange" =>
       q.c \in Code /\ codes[q.c] # Null /\ codes[q.c].session = q.s
  /\ q.op \in {"rotate", "revoke"} =>
       /\ q.f \in Family /\ families[q.f] # Null
       /\ families[q.f].session = q.s
       /\ q.m \in Member /\ members[q.m] # Null /\ members[q.m].family = q.f

(* Which operation can be at which await.                                  *)
AtItsAwait(q) ==
  /\ q.pc = "lock_code" => q.op = "exchange"
  /\ q.pc = "lock_family" => q.op \in {"rotate", "revoke"}
  /\ q.pc = "lock_member" => q.op = "rotate"
  /\ q.pc = "write" => q.op \in {"issue", "logout"}
  /\ q.replay => q.op \in {"exchange", "rotate"}

(* What was read under a lock is what the table holds.                     *)
ReadsCurrent(q) ==
  /\ Holding(q) => q.ses = sessions[q.s]
  /\ q.op = "exchange" /\ q.pc \in {"decide", "staged", "commit"}
       => q.cod = codes[q.c]
  /\ q.op \in {"rotate", "revoke"}
       /\ q.pc \in {"lock_member", "decide", "staged", "commit"}
       => q.fam = families[q.f]
  /\ q.op = "rotate" /\ q.pc \in {"decide", "staged", "commit"}
       => q.mem = members[q.m]

(* Why what is staged may be committed.                                    *)
StagedForReason(q) ==
  q.pc \in {"staged", "commit"} =>
    /\ q.op = "issue" =>
         /\ q.cod \in CodeRow /\ q.cod.session = q.s
         /\ q.cod.consumed_at = Null
         /\ q.ses.revoked_at = Null
    /\ q.op = "exchange" /\ ~q.replay =>
         q.cod.consumed_at = Null /\ q.ses.revoked_at = Null
    /\ q.op = "rotate" /\ ~q.replay =>
         /\ q.mem.consumed_at = Null
         /\ q.fam.revoked_at = Null /\ q.ses.revoked_at = Null

RequestOK(q) ==
  q.pc # "idle" =>
    /\ NamesItsRows(q) /\ AtItsAwait(q) /\ ReadsCurrent(q)
    /\ q.op = "issue" /\ q.pc = "write" => q.ses.revoked_at = Null
    /\ StagedForReason(q)

IInv ==
  /\ TypeOK
  /\ References
  /\ SessionExclusion
  /\ \A r \in Req : RequestOK(tx[r])
  /\ LogoutIsComplete

-----------------------------------------------------------------------------
(* A step that changes one request and no table keeps the invariant, as    *)
(* long as the new request is consistent with the tables and takes no lock *)
(* that is not free.                                                       *)
LEMMA RequestStep ==
  ASSUME IInv, NEW r \in Req, NEW q \in Request,
         tx' = [tx EXCEPT ![r] = q], RequestOK(q),
         Holding(q) => (Holding(tx[r]) /\ q.s = tx[r].s)
                         \/ SessionFree(r, q.s),
         clock' = clock, UNCHANGED tables
  PROVE  IInv'
<1>1. TypeOK'
  BY DEF IInv, TypeOK, tables
<1>2. References'
  BY DEF IInv, References, tables
<1>3. SessionExclusion'
  <2> SUFFICES ASSUME NEW r1 \in Req, NEW r2 \in Req, r1 # r2,
                      Holding(tx'[r1]), Holding(tx'[r2])
               PROVE  tx'[r1].s # tx'[r2].s
    BY DEF SessionExclusion, Holding
  <2>1. \A x \in Req : x # r => tx'[x] = tx[x]
    BY DEF IInv, TypeOK
  <2>2. tx'[r] = q
    BY DEF IInv, TypeOK
  <2>3. CASE r1 # r /\ r2 # r
    BY <2>1, <2>3 DEF IInv, SessionExclusion
  <2>4. ASSUME NEW x \in Req, x # r, Holding(tx[x]), Holding(q)
        PROVE  tx[x].s # q.s
    <3>1. CASE Holding(tx[r]) /\ q.s = tx[r].s
      BY <2>4, <3>1 DEF IInv, SessionExclusion
    <3>2. CASE SessionFree(r, q.s)
      BY <2>4, <3>2 DEF SessionFree, Others, HoldsSession, Holding
    <3> QED BY <2>4, <3>1, <3>2
  <2> QED BY <2>1, <2>2, <2>3, <2>4
<1>4. \A x \in Req : RequestOK(tx[x])'
  <2> SUFFICES ASSUME NEW x \in Req PROVE RequestOK(tx[x])'
    OBVIOUS
  <2>1. tx'[x] = IF x = r THEN q ELSE tx[x]
    BY DEF IInv, TypeOK
  <2>2. RequestOK(tx'[x])
    BY <2>1 DEF IInv
  <2> QED
    BY <2>2 DEF RequestOK, NamesItsRows, AtItsAwait, ReadsCurrent,
                StagedForReason, Holding, tables
<1>5. LogoutIsComplete'
  BY DEF IInv, LogoutIsComplete, FamiliesOfSession, tables
<1> QED BY <1>1, <1>2, <1>3, <1>4, <1>5 DEF IInv

LEMMA EndedTyped ==
  ASSUME NEW q \in Request, NEW out \in Out
  PROVE  /\ Ended(q, out) \in Request
         /\ Ended(q, out).pc = "idle" /\ ~Ended(q, out).replay
<1>1. NoRequest \in Request
  BY DEF NoRequest, Request, Pc, Out, Lease, Time
<1>2. CASE out = "invalid_grant" /\ q.bound /\ q.admits
  <2> DEFINE e == [op |-> q.op, pc |-> "idle", out |-> out, lease |-> "live",
                   bound |-> TRUE, admits |-> TRUE, replay |-> FALSE,
                   s |-> q.s, c |-> q.c, f |-> q.f, m |-> q.m,
                   ses |-> Null, cod |-> Null, fam |-> Null, mem |-> Null,
                   now |-> 0, at |-> 0]
  <2>1. "idle" \in Pc /\ "live" \in Lease /\ 0 \in Time
    BY DEF Pc, Lease, Time
  <2>2. e \in Request
    BY <2>1 DEF Request
  <2>3. Ended(q, out) = e
    BY <1>2 DEF Ended, NoRequest
  <2> QED BY <2>2, <2>3
<1>3. CASE ~(out = "invalid_grant" /\ q.bound /\ q.admits)
  <2> DEFINE e == [NoRequest EXCEPT !.out = out]
  <2>1. e \in Request
    BY <1>1 DEF Request
  <2>2. e.pc = NoRequest.pc /\ e.replay = NoRequest.replay
    BY <1>1 DEF Request
  <2> QED BY <1>3, <2>1, <2>2 DEF Ended, NoRequest
<1> QED BY <1>2, <1>3

(* Ending a request keeps the invariant.                                   *)
LEMMA EndStep ==
  ASSUME IInv, NEW r \in Req, NEW out \in Out, End(r, out),
         clock' = clock, UNCHANGED tables
  PROVE  IInv'
<1> DEFINE q == Ended(tx[r], out)
<1>1. q \in Request /\ q.pc = "idle"
  BY EndedTyped DEF IInv, TypeOK
<1>3. RequestOK(q) /\ ~Holding(q)
  BY <1>1 DEF RequestOK, Holding
<1>4. tx' = [tx EXCEPT ![r] = q]
  BY DEF End
<1> QED BY <1>1, <1>3, <1>4, RequestStep

(* Starting a request keeps it.                                            *)
LEMMA StartStep ==
  ASSUME IInv, NEW r \in Req, Start(r)
  PROVE  IInv'
<1> USE DEF Begin
<1>0. NoRequest \in Request
  BY DEF NoRequest, Request, Pc, Out, Lease, Time, Op
<1>1. ASSUME NEW q \in Request, Begin(r, q), clock' = clock, UNCHANGED tables,
             q.pc \in {"idle", "lock_session"},
             q.pc = "lock_session" => NamesItsRows(q), ~q.replay
      PROVE  IInv'
  <2>1. RequestOK(q) /\ ~Holding(q)
    BY <1>1 DEF RequestOK, Holding, AtItsAwait, ReadsCurrent, StagedForReason
  <2> QED BY <1>1, <2>1, RequestStep
<1>2. ASSUME NEW s \in Session, StartIssue(r, s) PROVE IInv'
  <2> DEFINE q == [NoRequest EXCEPT !.op = "issue", !.pc = "lock_session",
                                    !.s = s]
  <2>1. q \in Request /\ q.pc = "lock_session" /\ ~q.replay
        /\ q.op = "issue" /\ q.s = s
    BY DEF NoRequest, Request, Pc, Waiting, Out, Lease, Time, Op
  <2>2. NamesItsRows(q)
    BY <1>2, <2>1 DEF NamesItsRows, StartIssue, Op
  <2>3. tx' = [tx EXCEPT ![r] = q] /\ clock' = clock /\ UNCHANGED tables
    BY <1>2 DEF StartIssue
  <2> QED BY <1>1, <2>1, <2>2, <2>3
<1>3. ASSUME NEW s \in Session, StartLogout(r, s) PROVE IInv'
  <2> DEFINE q == [NoRequest EXCEPT !.op = "logout", !.pc = "lock_session",
                                    !.s = s]
  <2>1. q \in Request /\ q.pc = "lock_session" /\ ~q.replay
        /\ q.op = "logout" /\ q.s = s
    BY DEF NoRequest, Request, Pc, Waiting, Out, Lease, Time, Op
  <2>2. NamesItsRows(q)
    BY <1>3, <2>1 DEF NamesItsRows, StartLogout, Op
  <2>3. tx' = [tx EXCEPT ![r] = q] /\ clock' = clock /\ UNCHANGED tables
    BY <1>3 DEF StartLogout
  <2> QED BY <1>1, <2>1, <2>2, <2>3
<1>4. ASSUME NEW c \in Code, NEW bound \in BOOLEAN, NEW admits \in BOOLEAN,
             StartExchange(r, c, bound, admits)
      PROVE  IInv'
  <2> DEFINE q == [NoRequest EXCEPT !.op = "exchange", !.pc = "lock_session",
                                    !.bound = bound, !.admits = admits,
                                    !.s = codes[c].session, !.c = c]
  <2>0. codes[c] \in CodeRow /\ codes[c].session \in Session
    BY <1>4 DEF StartExchange, IInv, TypeOK, CodeRow
  <2>1. q \in Request /\ q.pc = "lock_session" /\ ~q.replay
        /\ q.op = "exchange" /\ q.s = codes[c].session /\ q.c = c
    <3> DEFINE q1 == [NoRequest EXCEPT !.op = "exchange", !.pc = "lock_session"]
               q2 == [q1 EXCEPT !.bound = bound]
               q3 == [q2 EXCEPT !.admits = admits]
    <3>1. q = [q3 EXCEPT !.s = codes[c].session, !.c = c]
      OBVIOUS
    <3>2. q1.pc = "lock_session" /\ ~q1.replay /\ q1.op = "exchange"
      BY DEF NoRequest
    <3> HIDE DEF q
    <3>3. "exchange" \in Op /\ "lock_session" \in Pc
      BY DEF Op, Pc, Waiting
    <3>4. q1 \in Request
      BY <1>0, <3>3 DEF Request
    <3> HIDE DEF q1
    <3>5. /\ q2 \in Request
          /\ q2.pc = q1.pc /\ q2.replay = q1.replay /\ q2.op = q1.op
      BY <1>4, <3>4 DEF Request
    <3> HIDE DEF q2
    <3>6. /\ q3 \in Request
          /\ q3.pc = q2.pc /\ q3.replay = q2.replay /\ q3.op = q2.op
      BY <1>4, <3>5 DEF Request
    <3> HIDE DEF q3
    <3>7. q \in Request
      BY <2>0, <3>1, <3>6 DEF Request
    <3>8. /\ q.pc = q3.pc /\ q.replay = q3.replay /\ q.op = q3.op
          /\ q.s = codes[c].session /\ q.c = c
      BY <3>1, <3>6 DEF Request
    <3> QED BY <3>2, <3>5, <3>6, <3>7, <3>8
  <2>2. NamesItsRows(q)
    BY <1>4, <2>0, <2>1 DEF NamesItsRows, StartExchange, Op, IInv, References
  <2>3. clock' = clock /\ UNCHANGED tables
    BY <1>4 DEF StartExchange
  <2>4. CASE Begin(r, q)
    <3>1. tx' = [tx EXCEPT ![r] = q]
      BY <2>4 DEF Begin
    <3> QED BY <1>1, <2>1, <2>2, <2>3, <3>1
  <2>5. ASSUME NEW out \in {"invalid_grant", "metadata_expired"},
               Begin(r, Ended(q, out))
        PROVE  IInv'
    <3>1. tx' = [tx EXCEPT ![r] = Ended(q, out)]
      BY <2>5 DEF Begin
    <3>2. /\ Ended(q, out) \in Request /\ Ended(q, out).pc = "idle"
          /\ ~Ended(q, out).replay
      BY <2>1, EndedTyped DEF Out
    <3> QED BY <1>1, <2>3, <3>1, <3>2
  <2> QED BY <1>4, <2>4, <2>5 DEF StartExchange
<1>5. ASSUME NEW m \in Member, NEW bound \in BOOLEAN, NEW admits \in BOOLEAN,
             StartRotate(r, m, bound, admits)
      PROVE  IInv'
  <2> DEFINE q == [NoRequest EXCEPT !.op = "rotate", !.pc = "lock_session",
                     !.bound = bound, !.admits = admits,
                     !.s = families[members[m].family].session,
                     !.f = members[m].family, !.m = m]
  <2>0. /\ members[m] # Null /\ members[m].family \in Family
        /\ families[members[m].family] # Null
        /\ families[members[m].family].session \in Session
    BY <1>5 DEF StartRotate, IInv, TypeOK, References, MemberRow, FamilyRow
  <2>1. q \in Request /\ q.pc = "lock_session" /\ ~q.replay
        /\ q.op = "rotate" /\ q.f = members[m].family /\ q.m = m
        /\ q.s = families[members[m].family].session
    <3> DEFINE q1 == [NoRequest EXCEPT !.op = "rotate", !.pc = "lock_session"]
               q2 == [q1 EXCEPT !.bound = bound]
               q3 == [q2 EXCEPT !.admits = admits]
    <3>1. q = [q3 EXCEPT !.s = families[members[m].family].session,
                         !.f = members[m].family, !.m = m]
      OBVIOUS
    <3>2. q1.pc = "lock_session" /\ ~q1.replay /\ q1.op = "rotate"
      BY DEF NoRequest
    <3> HIDE DEF q
    <3>3. "rotate" \in Op /\ "lock_session" \in Pc
      BY DEF Op, Pc, Waiting
    <3>4. q1 \in Request
      BY <1>0, <3>3 DEF Request
    <3> HIDE DEF q1
    <3>5. /\ q2 \in Request
          /\ q2.pc = q1.pc /\ q2.replay = q1.replay /\ q2.op = q1.op
      BY <1>5, <3>4 DEF Request
    <3> HIDE DEF q2
    <3>6. /\ q3 \in Request
          /\ q3.pc = q2.pc /\ q3.replay = q2.replay /\ q3.op = q2.op
      BY <1>5, <3>5 DEF Request
    <3> HIDE DEF q3
    <3>7. q \in Request
      BY <2>0, <3>1, <3>6 DEF Request
    <3>8. /\ q.pc = q3.pc /\ q.replay = q3.replay /\ q.op = q3.op
          /\ q.f = members[m].family /\ q.m = m
          /\ q.s = families[members[m].family].session
      BY <3>1, <3>6 DEF Request
    <3> QED BY <3>2, <3>5, <3>6, <3>7, <3>8
  <2>2. NamesItsRows(q)
    BY <2>0, <2>1 DEF NamesItsRows, Op, IInv, References
  <2>3. clock' = clock /\ UNCHANGED tables
    BY <1>5 DEF StartRotate
  <2>4. CASE Begin(r, q)
    <3>1. tx' = [tx EXCEPT ![r] = q]
      BY <2>4 DEF Begin
    <3> QED BY <1>1, <2>1, <2>2, <2>3, <3>1
  <2>5. CASE Begin(r, Ended(q, "invalid_grant"))
    <3>1. tx' = [tx EXCEPT ![r] = Ended(q, "invalid_grant")]
      BY <2>5 DEF Begin
    <3>2. /\ Ended(q, "invalid_grant") \in Request
          /\ Ended(q, "invalid_grant").pc = "idle"
          /\ ~Ended(q, "invalid_grant").replay
      BY <2>1, EndedTyped DEF Out
    <3> QED BY <1>1, <2>3, <3>1, <3>2
  <2> QED BY <1>5, <2>4, <2>5 DEF StartRotate
<1>6. ASSUME NEW m \in Member, NEW bound \in BOOLEAN, StartRevoke(r, m, bound)
      PROVE  IInv'
  <2> DEFINE q == [NoRequest EXCEPT !.op = "revoke", !.pc = "lock_session",
                     !.bound = bound, !.m = m, !.f = members[m].family,
                     !.s = families[members[m].family].session]
  <2>0. /\ members[m] # Null /\ members[m].family \in Family
        /\ families[members[m].family] # Null
        /\ families[members[m].family].session \in Session
    BY <1>6 DEF StartRevoke, IInv, TypeOK, References, MemberRow, FamilyRow
  <2>1. q \in Request /\ q.pc = "lock_session" /\ ~q.replay
        /\ q.op = "revoke" /\ q.f = members[m].family /\ q.m = m
        /\ q.s = families[members[m].family].session
    BY <2>0 DEF NoRequest, Request, Pc, Waiting, Out, Lease, Time, Op
  <2>2. NamesItsRows(q)
    BY <2>0, <2>1 DEF NamesItsRows, Op, IInv, References
  <2>3. CASE bound
    <3>1. tx' = [tx EXCEPT ![r] = q] /\ clock' = clock /\ UNCHANGED tables
      BY <1>6, <2>3 DEF StartRevoke
    <3> QED BY <1>1, <2>1, <2>2, <3>1
  <2>4. CASE ~bound
    <3>1. tx' = [tx EXCEPT ![r] = Ended(q, "ok")]
          /\ clock' = clock /\ UNCHANGED tables
      BY <1>6, <2>4 DEF StartRevoke
    <3>2. /\ Ended(q, "ok") \in Request /\ Ended(q, "ok").pc = "idle"
          /\ ~Ended(q, "ok").replay
      BY <2>1, EndedTyped DEF Out
    <3> QED BY <1>1, <3>1, <3>2
  <2> QED BY <2>3, <2>4
<1> QED BY <1>2, <1>3, <1>4, <1>5, <1>6 DEF Start

(* Taking a lock: the row read is the current one.                         *)
LEMMA LockStep ==
  ASSUME IInv, NEW r \in Req,
         LockSession(r) \/ LockCode(r) \/ LockFamily(r) \/ LockMember(r)
  PROVE  IInv'
<1> USE DEF Holding
<1>0. tx[r] \in Request /\ tx \in [Req -> Request] /\ RequestOK(tx[r])
  BY DEF IInv, TypeOK
<1>1. CASE LockSession(r)
  <2> DEFINE q == [tx[r] EXCEPT !.pc = AfterSession(tx[r].op),
                                !.ses = sessions[tx[r].s]]
  <2>1. /\ tx[r].op \in Op /\ tx[r].s \in Session /\ sessions[tx[r].s] # Null
        /\ NamesItsRows(tx[r])
        /\ AtItsAwait(tx[r])
        /\ tx[r].pc = "lock_session"
    BY <1>0, <1>1 DEF LockSession, RequestOK, NamesItsRows
  <2>2. /\ tx[r].op = "exchange" => AfterSession(tx[r].op) = "lock_code"
        /\ tx[r].op \in {"rotate", "revoke"} =>
             AfterSession(tx[r].op) = "lock_family"
        /\ tx[r].op \in {"issue", "logout"} =>
             AfterSession(tx[r].op) = "decide"
    BY DEF AfterSession
  <2>3. sessions[tx[r].s] \in SessionRow
    BY <2>1 DEF IInv, TypeOK
  <2>4. AfterSession(tx[r].op) \in Pc
    BY <2>1, <2>2 DEF Op, Pc, Waiting
  <2>5. q \in Request
    <3> DEFINE q1 == [tx[r] EXCEPT !.pc = AfterSession(tx[r].op)]
    <3>1. q = [q1 EXCEPT !.ses = sessions[tx[r].s]]
      OBVIOUS
    <3>2. q1 \in Request
      BY <1>0, <2>4 DEF Request
    <3> HIDE DEF q, q1
    <3> QED BY <2>3, <3>1, <3>2 DEF Request
  <2>6. /\ q.pc = AfterSession(tx[r].op) /\ q.ses = sessions[tx[r].s]
        /\ q.op = tx[r].op /\ q.s = tx[r].s /\ q.c = tx[r].c
        /\ q.f = tx[r].f /\ q.m = tx[r].m /\ q.replay = tx[r].replay
    BY <1>0 DEF Request
  <2>7. RequestOK(q)
    <3>1. NamesItsRows(q)
      BY <2>1, <2>6 DEF NamesItsRows
    <3>2. AtItsAwait(q)
      BY <2>1, <2>2, <2>6 DEF AtItsAwait, Op
    <3>3. ReadsCurrent(q)
      BY <2>1, <2>2, <2>6 DEF ReadsCurrent, Op
    <3>4. q.pc \notin {"write", "staged", "commit"}
      BY <2>1, <2>2, <2>6 DEF Op
    <3> QED BY <3>1, <3>2, <3>3, <3>4 DEF RequestOK, StagedForReason
  <2>8. /\ tx' = [tx EXCEPT ![r] = q] /\ SessionFree(r, q.s)
        /\ clock' = clock /\ UNCHANGED tables
    BY <1>0, <1>1, <2>6 DEF LockSession
  <2> QED BY <2>5, <2>7, <2>8, RequestStep
<1>2. CASE LockCode(r)
  <2> DEFINE q == [tx[r] EXCEPT !.pc = "decide", !.cod = codes[tx[r].c]]
  <2>1. /\ NamesItsRows(tx[r]) /\ AtItsAwait(tx[r]) /\ ReadsCurrent(tx[r])
        /\ tx[r].op = "exchange" /\ tx[r].pc = "lock_code"
    BY <1>0, <1>2 DEF LockCode, RequestOK, AtItsAwait
  <2>2. codes[tx[r].c] \in CodeRow /\ "decide" \in Pc
    BY <2>1 DEF NamesItsRows, IInv, TypeOK, Pc
  <2>3. q \in Request
    <3> DEFINE q1 == [tx[r] EXCEPT !.pc = "decide"]
    <3>1. q1 \in Request
      BY <1>0, <2>2 DEF Request
    <3>2. q = [q1 EXCEPT !.cod = codes[tx[r].c]]
      OBVIOUS
    <3> HIDE DEF q, q1
    <3> QED BY <2>2, <3>1, <3>2 DEF Request
  <2>4. /\ q.pc = "decide" /\ q.cod = codes[tx[r].c] /\ q.ses = tx[r].ses
        /\ q.op = tx[r].op /\ q.s = tx[r].s /\ q.c = tx[r].c
        /\ q.f = tx[r].f /\ q.m = tx[r].m /\ q.replay = tx[r].replay
    BY <1>0 DEF Request
  <2>5. RequestOK(q)
    BY <2>1, <2>4 DEF RequestOK, NamesItsRows, AtItsAwait, ReadsCurrent,
                      StagedForReason
  <2>6. tx' = [tx EXCEPT ![r] = q] /\ clock' = clock /\ UNCHANGED tables
    BY <1>0, <1>2 DEF LockCode
  <2> QED BY <2>1, <2>3, <2>4, <2>5, <2>6, RequestStep
<1>3. CASE LockFamily(r)
  <2> DEFINE next == IF tx[r].op = "rotate" THEN "lock_member" ELSE "decide"
             q == [tx[r] EXCEPT !.pc = next, !.fam = families[tx[r].f]]
  <2>1. /\ NamesItsRows(tx[r]) /\ AtItsAwait(tx[r]) /\ ReadsCurrent(tx[r])
        /\ tx[r].op \in {"rotate", "revoke"} /\ tx[r].pc = "lock_family"
    BY <1>0, <1>3 DEF LockFamily, RequestOK, AtItsAwait
  <2>2. families[tx[r].f] \in FamilyRow /\ next \in Pc
    BY <2>1 DEF NamesItsRows, IInv, TypeOK, Pc, Waiting
  <2>3. q \in Request
    <3> DEFINE q1 == [tx[r] EXCEPT !.pc = next]
    <3>1. q = [q1 EXCEPT !.fam = families[tx[r].f]]
      OBVIOUS
    <3> HIDE DEF next
    <3>2. q1 \in Request
      BY <1>0, <2>2 DEF Request
    <3> HIDE DEF q, q1
    <3> QED BY <2>2, <3>1, <3>2 DEF Request
  <2>4. /\ q.pc = next /\ q.fam = families[tx[r].f] /\ q.ses = tx[r].ses
        /\ q.op = tx[r].op /\ q.s = tx[r].s /\ q.c = tx[r].c
        /\ q.f = tx[r].f /\ q.m = tx[r].m /\ q.replay = tx[r].replay
    BY <1>0 DEF Request
  <2>5. RequestOK(q)
    BY <2>1, <2>4 DEF RequestOK, NamesItsRows, AtItsAwait, ReadsCurrent,
                      StagedForReason
  <2>6. tx' = [tx EXCEPT ![r] = q] /\ clock' = clock /\ UNCHANGED tables
    BY <1>0, <1>3 DEF LockFamily
  <2> QED BY <2>1, <2>3, <2>4, <2>5, <2>6, RequestStep
<1>4. CASE LockMember(r)
  <2> DEFINE q == [tx[r] EXCEPT !.pc = "decide", !.mem = members[tx[r].m]]
  <2>1. /\ NamesItsRows(tx[r]) /\ AtItsAwait(tx[r]) /\ ReadsCurrent(tx[r])
        /\ tx[r].op = "rotate" /\ tx[r].pc = "lock_member"
    BY <1>0, <1>4 DEF LockMember, RequestOK, AtItsAwait
  <2>2. members[tx[r].m] \in MemberRow /\ "decide" \in Pc
    BY <2>1 DEF NamesItsRows, IInv, TypeOK, Pc
  <2>3. q \in Request
    <3> DEFINE q1 == [tx[r] EXCEPT !.pc = "decide"]
    <3>1. q1 \in Request
      BY <1>0, <2>2 DEF Request
    <3>2. q = [q1 EXCEPT !.mem = members[tx[r].m]]
      OBVIOUS
    <3> HIDE DEF q, q1
    <3> QED BY <2>2, <3>1, <3>2 DEF Request
  <2>4. /\ q.pc = "decide" /\ q.mem = members[tx[r].m] /\ q.ses = tx[r].ses
        /\ q.fam = tx[r].fam
        /\ q.op = tx[r].op /\ q.s = tx[r].s /\ q.c = tx[r].c
        /\ q.f = tx[r].f /\ q.m = tx[r].m /\ q.replay = tx[r].replay
    BY <1>0 DEF Request
  <2>5. RequestOK(q)
    BY <2>1, <2>4 DEF RequestOK, NamesItsRows, AtItsAwait, ReadsCurrent,
                      StagedForReason
  <2>6. tx' = [tx EXCEPT ![r] = q] /\ clock' = clock /\ UNCHANGED tables
    BY <1>0, <1>4 DEF LockMember
  <2> QED BY <2>1, <2>3, <2>4, <2>5, <2>6, RequestStep
<1> QED BY <1>1, <1>2, <1>3, <1>4

(* Deciding and staging: what is staged has a reason.                      *)
LEMMA DecideStep ==
  ASSUME IInv, NEW r \in Req,
         \/ DecideExchange(r) \/ DecideRotate(r) \/ DecideRevoke(r)
         \/ DecideIssue(r) \/ WriteIssue(r)
         \/ DecideLogout(r) \/ WriteLogout(r) \/ LastCheck(r)
  PROVE  IInv'
<1> USE DEF Holding
<1> DEFINE o == tx[r]
<1>0. /\ o \in Request /\ tx \in [Req -> Request] /\ RequestOK(o)
      /\ clock \in Time
  BY DEF IInv, TypeOK
<1>1. ASSUME NEW out \in Out, End(r, out), clock' = clock, UNCHANGED tables
      PROVE  IInv'
  BY <1>1, EndStep
<1>2. Refusal(o) \in Out /\ "invalid_grant" \in Out
      /\ "metadata_expired" \in Out
  BY DEF Refusal, Out
<1>3. ASSUME NEW replay \in BOOLEAN, Stage(r, replay), o.pc = "decide",
             o.op \in {"exchange", "rotate", "revoke"},
             replay => o.op # "revoke",
             o.op = "exchange" /\ ~replay =>
               o.cod.consumed_at = Null /\ o.ses.revoked_at = Null,
             o.op = "rotate" /\ ~replay =>
               /\ o.mem.consumed_at = Null
               /\ o.fam.revoked_at = Null /\ o.ses.revoked_at = Null,
             clock' = clock, UNCHANGED tables
      PROVE  IInv'
  <2> DEFINE q == [o EXCEPT !.pc = "staged", !.replay = replay, !.now = clock]
  <2>1. q \in Request
    <3>1. "staged" \in Pc
      BY DEF Pc
    <3> DEFINE q1 == [o EXCEPT !.pc = "staged"]
               q2 == [q1 EXCEPT !.replay = replay]
    <3>2. q = [q2 EXCEPT !.now = clock]
      OBVIOUS
    <3> HIDE DEF o
    <3>3. q1 \in Request
      BY <1>0, <3>1 DEF Request
    <3> HIDE DEF q, q1
    <3>4. q2 \in Request
      BY <3>3 DEF Request
    <3> HIDE DEF q2
    <3> QED BY <1>0, <3>2, <3>4 DEF Request
  <2>2. /\ q.pc = "staged" /\ q.replay = replay /\ q.ses = o.ses
        /\ q.cod = o.cod /\ q.fam = o.fam /\ q.mem = o.mem
        /\ q.op = o.op /\ q.s = o.s /\ q.c = o.c /\ q.f = o.f /\ q.m = o.m
    BY <1>0 DEF Request
  <2>3. NamesItsRows(o) /\ AtItsAwait(o) /\ ReadsCurrent(o)
    BY <1>0, <1>3 DEF RequestOK
  <2>4. NamesItsRows(q) /\ ReadsCurrent(q)
    BY <1>3, <2>2, <2>3 DEF NamesItsRows, ReadsCurrent
  <2>5. AtItsAwait(q) /\ StagedForReason(q)
    BY <1>3, <2>2 DEF AtItsAwait, StagedForReason
  <2>6. RequestOK(q)
    BY <2>2, <2>4, <2>5 DEF RequestOK
  <2>7. tx' = [tx EXCEPT ![r] = q]
    BY <1>0, <1>3 DEF Stage
  <2> QED BY <1>3, <2>1, <2>2, <2>6, <2>7, RequestStep
<1>4. CASE DecideExchange(r)
  <2>1. CASE \E out \in Out : End(r, out)
    BY <1>1, <1>4, <2>1 DEF DecideExchange
  <2>2. CASE o.cod.consumed_at # Null /\ Stage(r, TRUE)
    BY <1>3, <1>4, <2>2 DEF DecideExchange
  <2>3. CASE o.cod.consumed_at = Null /\ CodeUsable(o, clock)
             /\ Stage(r, FALSE)
    BY <1>3, <1>4, <2>3 DEF DecideExchange, CodeUsable, SessionActive
  <2> QED BY <1>2, <1>4, <2>1, <2>2, <2>3 DEF DecideExchange
<1>5. CASE DecideRotate(r)
  <2>1. CASE \E out \in Out : End(r, out)
    BY <1>1, <1>5, <2>1 DEF DecideRotate
  <2>2. CASE o.mem.consumed_at # Null /\ Stage(r, TRUE)
    BY <1>3, <1>5, <2>2 DEF DecideRotate
  <2>3. CASE o.mem.consumed_at = Null /\ FamilyUsable(o, clock)
             /\ Stage(r, FALSE)
    BY <1>3, <1>5, <2>3 DEF DecideRotate, FamilyUsable, SessionActive
  <2> QED BY <1>2, <1>5, <2>1, <2>2, <2>3 DEF DecideRotate
<1>6. CASE DecideRevoke(r)
  BY <1>3, <1>6 DEF DecideRevoke
<1>7. ASSUME NEW pc \in {"write", "staged", "commit"},
             NEW now \in Time, NEW at \in Time,
             NEW cod \in CodeRow \cup {Null},
             tx' = [tx EXCEPT ![r] = [o EXCEPT !.pc = pc, !.now = now,
                                               !.at = at, !.cod = cod]],
             o.pc \in {"decide", "write", "staged"},
             o.pc # "staged" => o.op \in {"issue", "logout"},
             pc = "write" => o.op \in {"issue", "logout"},
             o.op # "issue" => cod = o.cod,
             o.op = "issue" => o.ses.revoked_at = Null,
             o.op = "issue" /\ pc # "write" =>
               /\ cod \in CodeRow /\ cod.session = o.s
               /\ cod.consumed_at = Null,
             clock' = clock, UNCHANGED tables
      PROVE  IInv'
  <2> DEFINE q == [o EXCEPT !.pc = pc, !.now = now, !.at = at, !.cod = cod]
  <2>1. q \in Request
    <3>1. pc \in Pc
      BY DEF Pc
    <3> DEFINE q1 == [o EXCEPT !.pc = pc, !.now = now]
    <3>2. q = [q1 EXCEPT !.at = at, !.cod = cod]
      OBVIOUS
    <3> HIDE DEF o
    <3>3. q1 \in Request
      BY <1>0, <3>1 DEF Request
    <3> HIDE DEF q, q1
    <3> QED BY <1>7, <3>2, <3>3 DEF Request
  <2>2. /\ q.pc = pc /\ q.replay = o.replay /\ q.ses = o.ses
        /\ q.cod = cod /\ q.fam = o.fam /\ q.mem = o.mem
        /\ q.op = o.op /\ q.s = o.s /\ q.c = o.c /\ q.f = o.f /\ q.m = o.m
    BY <1>0 DEF Request
  <2>3. NamesItsRows(o) /\ AtItsAwait(o) /\ ReadsCurrent(o)
        /\ StagedForReason(o)
    BY <1>0, <1>7 DEF RequestOK
  <2>4. NamesItsRows(q) /\ ReadsCurrent(q)
    BY <1>7, <2>2, <2>3 DEF NamesItsRows, ReadsCurrent
  <2>5. AtItsAwait(q)
    BY <1>7, <2>2, <2>3 DEF AtItsAwait
  <2>6. StagedForReason(q)
    BY <1>7, <2>2, <2>3 DEF StagedForReason
  <2>7. RequestOK(q)
    BY <1>7, <2>2, <2>4, <2>5, <2>6 DEF RequestOK
  <2> QED BY <1>7, <2>1, <2>2, <2>7, RequestStep
<1>8. o.now \in Time /\ o.at \in Time /\ o.cod \in CodeRow \cup {Null}
  BY <1>0 DEF Request
<1>9. CASE DecideIssue(r)
  <2>1. CASE \E out \in Out : End(r, out)
    BY <1>1, <1>9, <2>1 DEF DecideIssue
  <2>2. CASE SessionActive(o.ses, clock) /\ tx' = [tx EXCEPT ![r].pc = "write"]
    <3>1. tx' = [tx EXCEPT ![r] = [o EXCEPT !.pc = "write", !.now = o.now,
                                            !.at = o.at, !.cod = o.cod]]
      BY <1>0, <2>2 DEF Request
    <3>2. /\ o.pc = "decide" /\ o.op = "issue" /\ o.ses.revoked_at = Null
          /\ clock' = clock /\ UNCHANGED tables
      BY <1>9, <2>2 DEF DecideIssue, SessionActive
    <3> HIDE DEF o
    <3> QED BY <1>7, <1>8, <3>1, <3>2
  <2> QED BY <1>2, <1>9, <2>1, <2>2 DEF DecideIssue
<1>10. CASE WriteIssue(r)
  <2>1. PICK life \in 1..MaxCodeLife, offline \in BOOLEAN :
          tx' = [tx EXCEPT ![r].pc = "staged",
                   ![r].cod = [session |-> tx[r].s, offline |-> offline,
                               issued_at |-> clock,
                               expires_at |->
                                 Min2(clock + life, tx[r].ses.expires_at),
                               consumed_at |-> Null]]
    BY <1>10 DEF WriteIssue
  <2> DEFINE row == [session |-> o.s, offline |-> offline, issued_at |-> clock,
                     expires_at |-> Min2(clock + life, o.ses.expires_at),
                     consumed_at |-> Null]
  <2>2. /\ o.s \in Session /\ o.ses \in SessionRow /\ o.ses.revoked_at = Null
    BY <1>0, <1>10 DEF WriteIssue, RequestOK, NamesItsRows, ReadsCurrent,
                       IInv, TypeOK
  <2>3. Min2(clock + life, o.ses.expires_at) \in Time
    BY <1>0, <2>2, LifetimesPositive DEF Min2, Time, SessionRow
  <2>4. row \in CodeRow /\ row.session = o.s /\ row.consumed_at = Null
    BY <1>0, <2>2, <2>3 DEF CodeRow, OptTime
  <2>5. tx' = [tx EXCEPT ![r] = [o EXCEPT !.pc = "staged", !.now = o.now,
                                          !.at = o.at, !.cod = row]]
    BY <1>0, <2>1 DEF Request
  <2> HIDE DEF row
  <2> QED BY <1>7, <1>8, <1>10, <2>2, <2>4, <2>5 DEF WriteIssue
<1>11. CASE DecideLogout(r)
  <2>1. tx' = [tx EXCEPT ![r] = [o EXCEPT !.pc = "write", !.now = clock,
                                          !.at = o.at, !.cod = o.cod]]
    BY <1>0, <1>11 DEF DecideLogout, Request
  <2>2. /\ o.pc = "decide" /\ o.op = "logout"
        /\ clock' = clock /\ UNCHANGED tables
    BY <1>11 DEF DecideLogout
  <2> HIDE DEF o
  <2> QED BY <1>0, <1>7, <1>8, <2>1, <2>2
<1>12. CASE WriteLogout(r)
  <2>1. tx' = [tx EXCEPT ![r] = [o EXCEPT !.pc = "staged", !.now = o.now,
                                          !.at = clock, !.cod = o.cod]]
    BY <1>0, <1>12 DEF WriteLogout, Request
  <2>2. /\ o.pc = "write" /\ o.op = "logout"
        /\ clock' = clock /\ UNCHANGED tables
    BY <1>12 DEF WriteLogout
  <2> HIDE DEF o
  <2> QED BY <1>0, <1>7, <1>8, <2>1, <2>2
<1>13. CASE LastCheck(r)
  <2>1. CASE \E out \in Out : End(r, out)
    BY <1>1, <1>13, <2>1 DEF LastCheck
  <2>2. CASE tx' = [tx EXCEPT ![r].pc = "commit"]
    <3>1. tx' = [tx EXCEPT ![r] = [o EXCEPT !.pc = "commit", !.now = o.now,
                                            !.at = o.at, !.cod = o.cod]]
      BY <1>0, <2>2 DEF Request
    <3>2. StagedForReason(o) /\ o.pc = "staged"
      BY <1>0, <1>13 DEF RequestOK, LastCheck
    <3>3. /\ o.op = "issue" => /\ o.ses.revoked_at = Null
                               /\ o.cod \in CodeRow /\ o.cod.session = o.s
                               /\ o.cod.consumed_at = Null
          /\ clock' = clock /\ UNCHANGED tables
      BY <1>13, <3>2 DEF LastCheck, StagedForReason
    <3> HIDE DEF o
    <3> QED BY <1>7, <1>8, <3>1, <3>2, <3>3
  <2> QED BY <1>2, <1>13, <2>1, <2>2 DEF LastCheck
<1> QED BY <1>4, <1>5, <1>6, <1>9, <1>10, <1>11, <1>12, <1>13

(* A commit that only touches rows of the session whose lock the request   *)
(* holds disturbs no other request.                                        *)
LEMMA CommitStep ==
  ASSUME IInv, NEW r \in Req, NEW out \in Out, End(r, out),
         Holding(tx[r]), clock' = clock,
         sessions' \in [Session -> SessionRow \cup {Null}],
         codes' \in [Code -> CodeRow \cup {Null}],
         families' \in [Family -> FamilyRow \cup {Null}],
         members' \in [Member -> MemberRow \cup {Null}],
         References', LogoutIsComplete',
         \A s \in Session : sessions[s] # Null =>
           /\ sessions'[s] # Null
           /\ s # tx[r].s => sessions'[s] = sessions[s],
         \A c \in Code : codes[c] # Null =>
           /\ codes'[c] # Null /\ codes'[c].session = codes[c].session
           /\ codes[c].session # tx[r].s => codes'[c] = codes[c],
         \A f \in Family : families[f] # Null =>
           /\ families'[f] # Null
           /\ families'[f].session = families[f].session
           /\ families[f].session # tx[r].s => families'[f] = families[f],
         \A m \in Member : members[m] # Null =>
           /\ members'[m] # Null /\ members'[m].family = members[m].family
           /\ families[members[m].family].session # tx[r].s =>
                members'[m] = members[m]
  PROVE  IInv'
<1> DEFINE q == Ended(tx[r], out)
<1>1. q \in Request /\ q.pc = "idle"
  BY EndedTyped DEF IInv, TypeOK
<1>2. tx' = [tx EXCEPT ![r] = q] /\ tx \in [Req -> Request]
  BY DEF End, IInv, TypeOK
<1> HIDE DEF q
<1>3. TypeOK'
  BY <1>1, <1>2 DEF TypeOK, IInv
<1>4. \A x \in Req : x # r => tx'[x] = tx[x]
  BY <1>2
<1>5. tx'[r] = q
  BY <1>2
<1>6. SessionExclusion'
  BY <1>1, <1>4, <1>5 DEF SessionExclusion, Holding, IInv
<1>7. \A x \in Req : RequestOK(tx[x])'
  <2> SUFFICES ASSUME NEW x \in Req, tx'[x].pc # "idle"
               PROVE  RequestOK(tx[x])'
    BY DEF RequestOK
  <2>1. x # r /\ tx'[x] = tx[x]
    BY <1>1, <1>4, <1>5
  <2>2. /\ NamesItsRows(tx[x]) /\ AtItsAwait(tx[x]) /\ ReadsCurrent(tx[x])
        /\ StagedForReason(tx[x])
        /\ tx[x].op = "issue" /\ tx[x].pc = "write"
             => tx[x].ses.revoked_at = Null
    BY <2>1 DEF IInv, RequestOK
  <2>3. Holding(tx[x]) => tx[x].s # tx[r].s
    BY <2>1 DEF IInv, SessionExclusion
  <2>4. NamesItsRows(tx[x])'
    BY <2>1, <2>2 DEF NamesItsRows
  <2>5. ReadsCurrent(tx[x])'
    BY <2>1, <2>2, <2>3 DEF ReadsCurrent, NamesItsRows, Holding
  <2>6. AtItsAwait(tx[x])' /\ StagedForReason(tx[x])'
    BY <2>1, <2>2 DEF AtItsAwait, StagedForReason
  <2> QED BY <2>1, <2>2, <2>4, <2>5, <2>6 DEF RequestOK
<1> QED BY <1>3, <1>6, <1>7 DEF IInv

(* Revoking families changes nothing but revocation times.                 *)
LEMMA RevokedFamilies ==
  ASSUME IInv, NEW F \in SUBSET Family, NEW t \in Time,
         \A f \in F : families[f] # Null
  PROVE  LET new == RevokeFamilies(F, t) IN
         /\ new \in [Family -> FamilyRow \cup {Null}]
         /\ \A f \in Family : families[f] = Null => new[f] = Null
         /\ \A f \in Family : families[f] # Null =>
              /\ new[f] \in FamilyRow /\ new[f] # Null
              /\ new[f].session = families[f].session
              /\ new[f].source_code = families[f].source_code
              /\ families[f].revoked_at # Null => new[f] = families[f]
              /\ f \in F => new[f].revoked_at # Null
              /\ f \notin F => new[f] = families[f]
<1> DEFINE new == RevokeFamilies(F, t)
<1>1. ASSUME NEW f \in Family, families[f] # Null
      PROVE  /\ new[f] \in FamilyRow
             /\ new[f].session = families[f].session
             /\ new[f].source_code = families[f].source_code
             /\ families[f].revoked_at # Null => new[f] = families[f]
             /\ f \in F => new[f].revoked_at # Null
             /\ f \notin F => new[f] = families[f]
  <2>1. families[f] \in FamilyRow
    BY <1>1 DEF IInv, TypeOK
  <2>2. t # Null
    BY NullIsNoValue DEF Time
  <2> QED BY <2>1, <2>2 DEF RevokeFamilies, Revoked, FamilyRow, OptTime
<1>2. \A f \in Family : families[f] = Null => new[f] = Null
  BY DEF RevokeFamilies
<1>3. DOMAIN new = Family /\ new = [f \in Family |-> new[f]]
  BY DEF RevokeFamilies
<1>4. new \in [Family -> FamilyRow \cup {Null}]
  BY <1>1, <1>2, <1>3
<1> QED BY <1>1, <1>2, <1>4, NullIsNoValue

LEMMA CommitRevocation ==
  ASSUME IInv, NEW r \in Req, NEW out \in Out, End(r, out), Holding(tx[r]),
         NEW F \in SUBSET Family, NEW t \in Time,
         \A f \in F : families[f] # Null /\ families[f].session = tx[r].s,
         families' = RevokeFamilies(F, t),
         UNCHANGED <<clock, sessions, codes, members>>
  PROVE  IInv'
<1>1. /\ families' \in [Family -> FamilyRow \cup {Null}]
      /\ \A f \in Family : families[f] = Null => families'[f] = Null
      /\ \A f \in Family : families[f] # Null =>
           /\ families'[f] # Null
           /\ families'[f].session = families[f].session
           /\ families'[f].source_code = families[f].source_code
           /\ families[f].revoked_at # Null => families'[f] = families[f]
           /\ f \notin F => families'[f] = families[f]
  BY RevokedFamilies
<1>2. References'
  BY <1>1 DEF IInv, References, TypeOK, MemberRow
<1>3. LogoutIsComplete'
  BY <1>1 DEF IInv, LogoutIsComplete, FamiliesOfSession
<1> QED BY <1>1, <1>2, <1>3, CommitStep DEF IInv, TypeOK

(* Every commit keeps the invariant.                                       *)
LEMMA Commits ==
  ASSUME IInv, NEW r \in Req,
         \/ CommitIssue(r) \/ CommitExchange(r) \/ CommitCodeReplay(r)
         \/ CommitRotate(r) \/ CommitTokenReplay(r)
         \/ CommitRevoke(r) \/ CommitLogout(r)
  PROVE  IInv'
<1> DEFINE o == tx[r]
<1>0. /\ o \in Request /\ o.pc = "commit" /\ Holding(o)
      /\ NamesItsRows(o) /\ ReadsCurrent(o) /\ StagedForReason(o)
      /\ o.s \in Session /\ o.ses = sessions[o.s] /\ sessions[o.s] # Null
      /\ o.ses \in SessionRow
      /\ o.now \in Time /\ o.at \in Time
      /\ "ok" \in Out /\ "invalid_grant" \in Out
  <2>1. o \in Request /\ o.pc = "commit" /\ RequestOK(o)
    BY DEF IInv, TypeOK, CommitIssue, CommitExchange, CommitCodeReplay,
           CommitRotate, CommitTokenReplay, CommitRevoke, CommitLogout,
           Committing
  <2>2. Holding(o) /\ NamesItsRows(o) /\ ReadsCurrent(o) /\ StagedForReason(o)
    BY <2>1 DEF RequestOK, Holding
  <2>3. o.s \in Session /\ o.ses = sessions[o.s] /\ sessions[o.s] # Null
    BY <2>2 DEF NamesItsRows, ReadsCurrent
  <2>4. o.ses \in SessionRow
    BY <2>3 DEF IInv, TypeOK
  <2> QED BY <2>1, <2>2, <2>3, <2>4 DEF Request, Out
<1>1. CASE CommitIssue(r)
  <2>1. PICK c \in Code : /\ codes[c] = Null
                          /\ codes' = [codes EXCEPT ![c] = o.cod]
    BY <1>1 DEF CommitIssue
  <2>2. o.cod \in CodeRow /\ o.cod.session = o.s
    BY <1>0, <1>1 DEF CommitIssue, Committing, StagedForReason
  <2>3. /\ codes' \in [Code -> CodeRow \cup {Null}]
        /\ codes'[c] = o.cod
        /\ \A d \in Code : codes[d] # Null => codes'[d] = codes[d]
        /\ \A d \in Code : d # c => codes'[d] = codes[d]
        /\ UNCHANGED <<sessions, families, members, clock>>
        /\ End(r, "ok")
    BY <1>1, <2>1, <2>2 DEF CommitIssue, IInv, TypeOK
  <2>4. References'
    BY <1>0, <2>2, <2>3 DEF IInv, References, TypeOK, FamilyRow
  <2>5. LogoutIsComplete'
    BY <2>3 DEF IInv, LogoutIsComplete, FamiliesOfSession
  <2> QED BY <1>0, <2>3, <2>4, <2>5, CommitStep DEF IInv, TypeOK
<1>2. CASE CommitExchange(r)
  <2>1. /\ o.op = "exchange" /\ ~o.replay
        /\ o.c \in Code /\ codes[o.c] # Null /\ codes[o.c].session = o.s
        /\ o.ses.revoked_at = Null
    BY <1>0, <1>2 DEF CommitExchange, Committing, NamesItsRows,
                      StagedForReason
  <2>2. codes[o.c] \in CodeRow
    BY <2>1 DEF IInv, TypeOK
  <2>3. /\ codes' \in [Code -> CodeRow \cup {Null}]
        /\ codes'[o.c] \in CodeRow /\ codes'[o.c].session = o.s
        /\ \A d \in Code : d # o.c => codes'[d] = codes[d]
    BY <1>0, <1>2, <2>1, <2>2
       DEF CommitExchange, ConsumeCode, IInv, TypeOK, CodeRow, OptTime
  <2>4. \A d \in Code : codes[d] # Null =>
          /\ codes'[d] # Null /\ codes'[d].session = codes[d].session
          /\ codes[d].session # o.s => codes'[d] = codes[d]
    BY <2>1, <2>3, NullIsNoValue
  <2>5. UNCHANGED <<clock, sessions>> /\ End(r, "ok")
    BY <1>2 DEF CommitExchange
  <2>6. CASE UNCHANGED <<families, members>>
    <3>1. References'
      <4>1. \A d \in Code : codes'[d] # Null =>
              sessions'[codes'[d].session] # Null
        BY <1>0, <2>3, <2>5 DEF IInv, References
      <4>2. \A g \in Family : families'[g] # Null =>
              /\ sessions'[families'[g].session] # Null
              /\ codes'[families'[g].source_code] # Null
              /\ codes'[families'[g].source_code].session
                   = families'[g].session
        <5>1. ASSUME NEW g \in Family, families[g] # Null
              PROVE  families[g].source_code \in Code
          BY <5>1 DEF IInv, TypeOK, FamilyRow
        <5> QED BY <2>4, <2>5, <2>6, <5>1 DEF IInv, References
      <4> QED BY <2>6, <4>1, <4>2 DEF IInv, References
    <3>2. LogoutIsComplete'
      BY <2>5, <2>6 DEF IInv, LogoutIsComplete, FamiliesOfSession
    <3> QED BY <1>0, <2>3, <2>4, <2>5, <2>6, <3>1, <3>2, CommitStep
            DEF IInv, TypeOK
  <2>7. ASSUME NEW f \in Family, NEW m \in Member,
               families[f] = Null, members[m] = Null,
               families' = [families EXCEPT ![f] =
                 [source_code |-> o.c, session |-> o.s, issued_at |-> o.now,
                  expires_at |-> FamilyExpiry(o), revoked_at |-> Null]],
               members' = [members EXCEPT ![m] = NewMember(f, o.now)]
        PROVE  IInv'
    <3> DEFINE row == [source_code |-> o.c, session |-> o.s,
                       issued_at |-> o.now, expires_at |-> FamilyExpiry(o),
                       revoked_at |-> Null]
    <3>1. FamilyExpiry(o) \in Time
      BY <1>0, LifetimesPositive DEF FamilyExpiry, Min2, Time, SessionRow
    <3>2. /\ row \in FamilyRow /\ row.session = o.s /\ row.source_code = o.c
          /\ NewMember(f, o.now) \in MemberRow
          /\ NewMember(f, o.now).family = f
      BY <1>0, <2>1, <3>1 DEF FamilyRow, MemberRow, NewMember, OptTime
    <3> HIDE DEF row
    <3>3. /\ families' \in [Family -> FamilyRow \cup {Null}]
          /\ families'[f] = row
          /\ \A g \in Family : g # f => families'[g] = families[g]
      BY <2>7, <3>2 DEF IInv, TypeOK, row
    <3>4. /\ members' \in [Member -> MemberRow \cup {Null}]
          /\ members'[m] = NewMember(f, o.now)
          /\ \A n \in Member : n # m => members'[n] = members[n]
      BY <2>7, <3>2 DEF IInv, TypeOK
    <3>5. References'
      <4>1. \A d \in Code : codes'[d] # Null =>
              sessions'[codes'[d].session] # Null
        BY <1>0, <2>3, <2>5 DEF IInv, References
      <4>2. \A g \in Family : families'[g] # Null =>
              /\ sessions'[families'[g].session] # Null
              /\ codes'[families'[g].source_code] # Null
              /\ codes'[families'[g].source_code].session
                   = families'[g].session
        <5>1. ASSUME NEW g \in Family, g # f, families[g] # Null
              PROVE  /\ families[g].source_code \in Code
                     /\ families[g].session \in Session
          BY <5>1 DEF IInv, TypeOK, FamilyRow
        <5> QED BY <1>0, <2>1, <2>3, <2>4, <2>5, <3>2, <3>3, <5>1,
                   NullIsNoValue DEF IInv, References
      <4>3. \A n \in Member : members'[n] # Null =>
              families'[members'[n].family] # Null
        <5>1. ASSUME NEW n \in Member, n # m, members[n] # Null
              PROVE  members[n].family \in Family
                     /\ families[members[n].family] # Null
          BY <5>1 DEF IInv, TypeOK, MemberRow, References
        <5> QED BY <3>2, <3>3, <3>4, <5>1, NullIsNoValue
      <4> QED BY <4>1, <4>2, <4>3 DEF References
    <3>6. LogoutIsComplete'
      BY <1>0, <2>1, <2>5, <3>2, <3>3
         DEF IInv, LogoutIsComplete, FamiliesOfSession
    <3>7. \A g \in Family : families[g] # Null => families'[g] = families[g]
      BY <2>7, <3>3
    <3>8. \A n \in Member : members[n] # Null => members'[n] = members[n]
      BY <2>7, <3>4
    <3> QED BY <1>0, <2>3, <2>4, <2>5, <3>3, <3>4, <3>5, <3>6, <3>7, <3>8,
               CommitStep DEF IInv, TypeOK
  <2> QED BY <1>2, <2>6, <2>7 DEF CommitExchange
<1>3. CASE CommitCodeReplay(r)
  <2>1. o.op = "exchange" /\ codes[o.c].session = o.s
    BY <1>0, <1>3 DEF CommitCodeReplay, Committing, NamesItsRows
  <2>2. \A f \in FamiliesOfCode(o.c) :
          families[f] # Null /\ families[f].session = o.s
    BY <2>1 DEF FamiliesOfCode, IInv, References
  <2>3. FamiliesOfCode(o.c) \in SUBSET Family
    BY DEF FamiliesOfCode
  <2> QED BY <1>0, <1>3, <2>2, <2>3, CommitRevocation DEF CommitCodeReplay
<1>4. CASE CommitRotate(r)
  <2>1. /\ o.op = "rotate" /\ o.f \in Family /\ families[o.f] # Null
        /\ families[o.f].session = o.s
        /\ o.m \in Member /\ members[o.m] # Null /\ members[o.m].family = o.f
    BY <1>0, <1>4 DEF CommitRotate, Committing, NamesItsRows
  <2>2. PICK n \in Member :
          /\ members[n] = Null
          /\ members' = [members EXCEPT ![n] = NewMember(o.f, o.now),
                                        ![o.m] = Succeeded(o, n)]
    BY <1>4 DEF CommitRotate
  <2>3. NewMember(o.f, o.now) \in MemberRow
        /\ NewMember(o.f, o.now).family = o.f
    BY <1>0, <2>1 DEF MemberRow, NewMember, OptTime
  <2>4. members[o.m] \in MemberRow
    BY <2>1 DEF IInv, TypeOK
  <2>5. Succeeded(o, n) \in MemberRow /\ Succeeded(o, n).family = o.f
    BY <1>0, <2>1, <2>4 DEF MemberRow, Succeeded, OptTime
  <2>6. /\ members' \in [Member -> MemberRow \cup {Null}]
        /\ members'[n] = NewMember(o.f, o.now)
        /\ members'[o.m] = Succeeded(o, n)
        /\ \A k \in Member : k # n /\ k # o.m => members'[k] = members[k]
    BY <2>1, <2>2, <2>3, <2>5 DEF IInv, TypeOK
  <2>7. UNCHANGED <<clock, sessions, codes, families>> /\ End(r, "ok")
    BY <1>4 DEF CommitRotate
  <2>8. References'
    <3>1. ASSUME NEW k \in Member, members'[k] # Null
          PROVE  families'[members'[k].family] # Null
      <4>1. CASE k # n /\ k # o.m
        BY <2>6, <2>7, <3>1, <4>1 DEF IInv, References
      <4>2. CASE k = n \/ k = o.m
        BY <2>1, <2>3, <2>5, <2>6, <2>7, <4>2
      <4> QED BY <4>1, <4>2
    <3> QED BY <2>7, <3>1 DEF IInv, References
  <2>9. LogoutIsComplete'
    BY <2>7 DEF IInv, LogoutIsComplete, FamiliesOfSession
  <2>10. \A k \in Member : members[k] # Null =>
           /\ members'[k] # Null /\ members'[k].family = members[k].family
           /\ families[members[k].family].session # o.s =>
                members'[k] = members[k]
    BY <2>1, <2>2, <2>5, <2>6, NullIsNoValue
  <2> QED BY <1>0, <2>6, <2>7, <2>8, <2>9, <2>10, CommitStep DEF IInv, TypeOK
<1>5. CASE CommitTokenReplay(r) \/ CommitRevoke(r)
  <2>1. /\ o.f \in Family /\ families[o.f] # Null
        /\ families[o.f].session = o.s
    BY <1>0, <1>5 DEF CommitTokenReplay, CommitRevoke, Committing,
                      NamesItsRows
  <2>2. {o.f} \in SUBSET Family
    BY <2>1
  <2> QED BY <1>0, <1>5, <2>1, <2>2, CommitRevocation
          DEF CommitTokenReplay, CommitRevoke
<1>6. CASE CommitLogout(r)
  <2> DEFINE F == FamiliesOfSession(o.s)
  <2>1. F \in SUBSET Family /\ \A f \in F : families[f] # Null
    BY DEF FamiliesOfSession
  <2>2. /\ sessions' = [sessions EXCEPT ![o.s] = Revoked(sessions[o.s], o.now)]
        /\ families' = RevokeFamilies(F, o.at)
        /\ UNCHANGED <<clock, codes, members>> /\ End(r, "ok")
    BY <1>6 DEF CommitLogout
  <2>3. /\ families' \in [Family -> FamilyRow \cup {Null}]
        /\ \A f \in Family : families[f] = Null => families'[f] = Null
        /\ \A f \in Family : families[f] # Null =>
             /\ families'[f] # Null
             /\ families'[f].session = families[f].session
             /\ families'[f].source_code = families[f].source_code
             /\ families[f].revoked_at # Null => families'[f] = families[f]
             /\ f \in F => families'[f].revoked_at # Null
             /\ f \notin F => families'[f] = families[f]
    <3>1. F \in SUBSET Family /\ o.at \in Time
          /\ families' = RevokeFamilies(F, o.at)
      BY <1>0, <2>1, <2>2
    <3> HIDE DEF F, o
    <3> QED BY <2>1, <3>1, RevokedFamilies
  <2>4. Revoked(sessions[o.s], o.now) \in SessionRow
    BY <1>0 DEF Revoked, SessionRow, OptTime
  <2>5. /\ sessions' \in [Session -> SessionRow \cup {Null}]
        /\ sessions'[o.s] \in SessionRow /\ sessions'[o.s] # Null
        /\ \A s \in Session : s # o.s => sessions'[s] = sessions[s]
    BY <1>0, <2>2, <2>4, NullIsNoValue DEF IInv, TypeOK
  <2>6. References'
    <3>1. \A c \in Code : codes'[c] # Null =>
            sessions'[codes'[c].session] # Null
      BY <2>2, <2>5 DEF IInv, References, TypeOK, CodeRow
    <3>2. ASSUME NEW f \in Family, families'[f] # Null
          PROVE  /\ sessions'[families'[f].session] # Null
                 /\ codes'[families'[f].source_code] # Null
                 /\ codes'[families'[f].source_code].session
                      = families'[f].session
      <4>1. /\ families[f] # Null
            /\ families'[f].session = families[f].session
            /\ families'[f].source_code = families[f].source_code
        BY <2>3, <3>2
      <4>2. families[f].session \in Session
        BY <4>1 DEF IInv, TypeOK, FamilyRow
      <4>3. /\ sessions[families[f].session] # Null
            /\ codes[families[f].source_code] # Null
            /\ codes[families[f].source_code].session = families[f].session
        BY <4>1 DEF IInv, References
      <4> QED BY <2>2, <2>5, <4>1, <4>2, <4>3
    <3>3. \A m \in Member : members'[m] # Null =>
            families'[members'[m].family] # Null
      BY <2>2, <2>3 DEF IInv, References, TypeOK, MemberRow
    <3> QED BY <3>1, <3>2, <3>3 DEF References
  <2>7. LogoutIsComplete'
    <3> SUFFICES ASSUME NEW s \in Session, NEW f \in Family,
                        sessions'[s] # Null, sessions'[s].revoked_at # Null,
                        families'[f] # Null, families'[f].session = s
                 PROVE  families'[f].revoked_at # Null
      BY DEF LogoutIsComplete, FamiliesOfSession
    <3>1. families[f] # Null /\ families[f].session = s
      BY <2>3
    <3>2. CASE s = o.s
      BY <2>3, <3>1, <3>2 DEF FamiliesOfSession
    <3>3. CASE s # o.s
      BY <2>3, <2>5, <3>1, <3>3
         DEF IInv, LogoutIsComplete, FamiliesOfSession
    <3> QED BY <3>2, <3>3
  <2>8. \A f \in Family : families[f] # Null /\ families[f].session # o.s
          => f \notin F
    BY DEF FamiliesOfSession
  <2> HIDE DEF F
  <2>9. /\ codes' \in [Code -> CodeRow \cup {Null}]
        /\ members' \in [Member -> MemberRow \cup {Null}]
    BY <2>2 DEF IInv, TypeOK
  <2>10. /\ \A s \in Session : sessions[s] # Null =>
             /\ sessions'[s] # Null
             /\ s # o.s => sessions'[s] = sessions[s]
         /\ \A f \in Family : families[f] # Null =>
             /\ families'[f] # Null
             /\ families'[f].session = families[f].session
             /\ families[f].session # o.s => families'[f] = families[f]
    BY <2>3, <2>5, <2>8
  <2> QED BY <1>0, <2>2, <2>3, <2>5, <2>6, <2>7, <2>9, <2>10, CommitStep
<1> QED BY <1>1, <1>2, <1>3, <1>4, <1>5, <1>6

-----------------------------------------------------------------------------
LEMMA InitInv == Init => IInv
<1> SUFFICES ASSUME Init PROVE IInv
  OBVIOUS
<1>1. NoRequest \in Request
  BY DEF NoRequest, Request, Pc, Out, Lease, Time, Op
<1>2. TypeOK
  BY <1>1 DEF Init, TypeOK, Time
<1>3. References /\ LogoutIsComplete
  BY DEF Init, References, LogoutIsComplete, FamiliesOfSession
<1>4. \A r \in Req : tx[r].pc = "idle"
  BY DEF Init, NoRequest
<1> QED BY <1>2, <1>3, <1>4 DEF IInv, SessionExclusion, Holding, RequestOK

LEMMA NextInv == IInv /\ [Next]_vars => IInv'
<1> SUFFICES ASSUME IInv, [Next]_vars PROVE IInv'
  OBVIOUS
<1>1. CASE Tick
  <2>1. clock' \in Time /\ UNCHANGED <<sessions, codes, families, members, tx>>
    BY <1>1 DEF Tick, tables, IInv, TypeOK, Time
  <2>2. TypeOK'
    BY <2>1 DEF IInv, TypeOK
  <2>3. References' /\ SessionExclusion' /\ LogoutIsComplete'
    BY <2>1 DEF IInv, References, SessionExclusion, Holding,
                LogoutIsComplete, FamiliesOfSession
  <2>4. \A r \in Req : RequestOK(tx[r])'
    BY <2>1 DEF IInv, RequestOK, NamesItsRows, AtItsAwait, ReadsCurrent,
                StagedForReason, Holding
  <2> QED BY <2>2, <2>3, <2>4 DEF IInv
<1>2. CASE CreateProviderSession
  <2>1. PICK s \in Session, life \in 1..MaxSessionLife :
          /\ sessions[s] = Null
          /\ sessions' = [sessions EXCEPT ![s] =
               [auth_time |-> clock, expires_at |-> clock + life,
                revoked_at |-> Null]]
    BY <1>2 DEF CreateProviderSession
  <2> DEFINE row == [auth_time |-> clock, expires_at |-> clock + life,
                     revoked_at |-> Null]
  <2>2. row \in SessionRow /\ row.revoked_at = Null
    BY LifetimesPositive DEF SessionRow, OptTime, Time, IInv, TypeOK
  <2> HIDE DEF row
  <2>3. /\ sessions' \in [Session -> SessionRow \cup {Null}]
        /\ sessions'[s] = row
        /\ \A z \in Session : z # s => sessions'[z] = sessions[z]
    BY <2>1, <2>2 DEF IInv, TypeOK, row
  <2>4. \A z \in Session : sessions[z] # Null => sessions'[z] = sessions[z]
    BY <2>1, <2>3
  <2>5. UNCHANGED <<clock, codes, families, members, tx>>
    BY <1>2 DEF CreateProviderSession
  <2>6. TypeOK'
    BY <2>3, <2>5 DEF IInv, TypeOK
  <2>7. References'
    BY <2>4, <2>5 DEF IInv, References, TypeOK, CodeRow, FamilyRow
  <2>8. SessionExclusion'
    BY <2>5 DEF IInv, SessionExclusion, Holding
  <2>9. LogoutIsComplete'
    BY <2>2, <2>3, <2>5 DEF IInv, LogoutIsComplete, FamiliesOfSession
  <2>10. \A r \in Req : RequestOK(tx[r])'
    <3> SUFFICES ASSUME NEW r \in Req, tx[r].pc # "idle"
                 PROVE  RequestOK(tx[r])'
      BY <2>5 DEF RequestOK
    <3>1. /\ NamesItsRows(tx[r]) /\ AtItsAwait(tx[r])
          /\ ReadsCurrent(tx[r]) /\ StagedForReason(tx[r])
          /\ tx[r].op = "issue" /\ tx[r].pc = "write"
               => tx[r].ses.revoked_at = Null
      BY DEF IInv, RequestOK
    <3>2. tx[r].s \in Session /\ sessions[tx[r].s] # Null
      BY <3>1 DEF NamesItsRows
    <3>3. NamesItsRows(tx[r])' /\ ReadsCurrent(tx[r])'
      BY <2>4, <2>5, <3>1, <3>2 DEF NamesItsRows, ReadsCurrent, Holding
    <3> QED BY <2>5, <3>1, <3>3 DEF RequestOK, AtItsAwait, StagedForReason
  <2> QED BY <2>6, <2>7, <2>8, <2>9, <2>10 DEF IInv
<1>3. ASSUME NEW r \in Req, Start(r) PROVE IInv'
  BY <1>3, StartStep
<1>4. ASSUME NEW r \in Req, Proceed(r) PROVE IInv'
  BY <1>4, LockStep, DecideStep, Commits DEF Proceed
<1>5. ASSUME NEW r \in Req, Cancel(r) PROVE IInv'
  BY <1>5, EndStep DEF Cancel, Out
<1>6. ASSUME NEW r \in Req, LeaseLapses(r) PROVE IInv'
  <2> DEFINE q == [tx[r] EXCEPT !.lease = tx[r].pc]
  <2>1. tx[r] \in Request /\ tx \in [Req -> Request] /\ RequestOK(tx[r])
    BY DEF IInv, TypeOK
  <2>2. q \in Request
    <3>1. tx[r].pc \in Lease
      BY <2>1 DEF Request, Lease
    <3> QED BY <2>1, <3>1 DEF Request
  <2>3. /\ q.pc = tx[r].pc /\ q.replay = tx[r].replay
        /\ q.ses = tx[r].ses /\ q.cod = tx[r].cod
        /\ q.fam = tx[r].fam /\ q.mem = tx[r].mem
        /\ q.op = tx[r].op /\ q.s = tx[r].s /\ q.c = tx[r].c
        /\ q.f = tx[r].f /\ q.m = tx[r].m
    BY <2>1 DEF Request
  <2> HIDE DEF q
  <2>4. RequestOK(q)
    BY <2>1, <2>3 DEF RequestOK, NamesItsRows, AtItsAwait, ReadsCurrent,
                      StagedForReason, Holding
  <2>5. tx' = [tx EXCEPT ![r] = q] /\ clock' = clock /\ UNCHANGED tables
    BY <1>6, <2>1 DEF LeaseLapses, q
  <2> QED BY <2>2, <2>3, <2>4, <2>5, RequestStep DEF Holding
<1>7. CASE UNCHANGED vars
  <2>1. UNCHANGED <<clock, tables, tx>>
    BY <1>7 DEF vars, tables
  <2>2. TypeOK' /\ References' /\ LogoutIsComplete'
    BY <2>1 DEF IInv, TypeOK, References, LogoutIsComplete,
                FamiliesOfSession, tables
  <2>3. SessionExclusion'
    BY <2>1 DEF IInv, SessionExclusion, Holding
  <2>4. ASSUME NEW r \in Req PROVE RequestOK(tx[r])'
    <3>1. RequestOK(tx[r]) /\ tx'[r] = tx[r]
      BY <2>1 DEF IInv
    <3> QED BY <2>1, <3>1 DEF RequestOK, NamesItsRows, AtItsAwait,
                              ReadsCurrent, StagedForReason, Holding, tables
  <2> QED BY <2>2, <2>3, <2>4 DEF IInv
<1> QED BY <1>1, <1>2, <1>3, <1>4, <1>5, <1>6, <1>7 DEF Next

LEMMA Invariance == Spec => []IInv
BY InitInv, NextInv, PTL DEF Spec

(* Every column and every request keeps its type.                          *)
THEOREM TypeCorrect == Spec => []TypeOK
BY Invariance, PTL DEF IInv

(* A committed logout leaves no live refresh family, for any number of     *)
(* sessions, grants and concurrent requests.                               *)
THEOREM LogoutCompletes == Spec => []LogoutIsComplete
BY Invariance, PTL DEF IInv

(* Rows read under FOR UPDATE stay current until the request ends, because *)
(* every writer of a session's rows holds the session's lock.              *)
THEOREM ReadsStayCurrent == Spec => []SnapshotsCurrent
<1>1. IInv => SnapshotsCurrent
  <2> SUFFICES ASSUME IInv, NEW r \in Req
               PROVE  /\ HoldsSession(r, tx[r].s) => tx[r].ses = sessions[tx[r].s]
                      /\ HoldsCode(r, tx[r].c) => tx[r].cod = codes[tx[r].c]
                      /\ HoldsFamily(r, tx[r].f) => tx[r].fam = families[tx[r].f]
                      /\ HoldsMember(r, tx[r].m) => tx[r].mem = members[tx[r].m]
    BY DEF SnapshotsCurrent
  <2>1. tx[r].pc # "idle" => ReadsCurrent(tx[r])
    BY DEF IInv, RequestOK
  <2> QED BY <2>1 DEF ReadsCurrent, Holding, HoldsSession, HoldsCode,
                      HoldsFamily, HoldsMember
<1> QED BY <1>1, Invariance, PTL

(* No request that holds its session ever waits for another lock, so lock  *)
(* waits cannot form a cycle.                                              *)
THEOREM LocksAreOrdered == Spec => []WaitsOnlyForSession
<1>1. IInv => WaitsOnlyForSession
  <2> SUFFICES ASSUME IInv PROVE WaitsOnlyForSession
    OBVIOUS
  <2>1. ASSUME NEW r \in Req, NEW q \in Req, q # r, Holding(tx[r]),
               Holding(tx[q])
        PROVE  tx[q].s # tx[r].s
    BY <2>1 DEF IInv, SessionExclusion
  <2>2. ASSUME NEW r \in Req, tx[r].pc # "idle" PROVE NamesItsRows(tx[r])
    BY <2>2 DEF IInv, RequestOK
  <2>3. ASSUME NEW r \in Req
        PROVE  /\ tx[r].pc = "lock_code" => tx[r].op = "exchange"
               /\ tx[r].pc = "lock_family" => tx[r].op \in {"rotate", "revoke"}
               /\ tx[r].pc = "lock_member" => tx[r].op = "rotate"
    BY DEF IInv, RequestOK, AtItsAwait
  <2>4. ASSUME NEW r \in Req, tx[r].pc = "lock_code"
        PROVE  CodeFree(r, tx[r].c)
    BY <2>1, <2>2, <2>3, <2>4
       DEF CodeFree, Others, HoldsCode, NamesItsRows, Holding
  <2>5. ASSUME NEW r \in Req, tx[r].pc = "lock_family"
        PROVE  FamilyFree(r, tx[r].f)
    BY <2>1, <2>2, <2>3, <2>5
       DEF FamilyFree, Others, HoldsFamily, NamesItsRows, Holding
  <2>6. ASSUME NEW r \in Req, tx[r].pc = "lock_member"
        PROVE  MemberFree(r, tx[r].m)
    BY <2>1, <2>2, <2>3, <2>6
       DEF MemberFree, Others, HoldsMember, NamesItsRows, Holding
  <2>7. ASSUME NEW r \in Req, tx[r].pc = "write",
               NEW f \in FamiliesOfSession(tx[r].s)
        PROVE  FamilyFree(r, f)
    BY <2>1, <2>2, <2>7
       DEF FamilyFree, Others, HoldsFamily, NamesItsRows, Holding,
           FamiliesOfSession
  <2> QED BY <2>4, <2>5, <2>6, <2>7 DEF WaitsOnlyForSession
<1> QED BY <1>1, Invariance, PTL

(* A request at its commit is ended with success only by its own commit.   *)
LEMMA SuccessIsOwnCommit ==
  ASSUME IInv, [Next]_vars, NEW r \in Req,
         tx[r].pc = "commit", tx[r].op \in {"exchange", "rotate"},
         tx'[r].pc = "idle", tx'[r].out = "ok"
  PROVE  CommitExchange(r) \/ CommitRotate(r)
<1>0. tx \in [Req -> Request]
  BY DEF IInv, TypeOK
<1>1. tx' # tx
  OBVIOUS
<1>2. PICK x \in Req : Start(x) \/ Proceed(x) \/ Cancel(x) \/ LeaseLapses(x)
  BY <1>1 DEF Next, vars, Tick, CreateProviderSession
<1>3. x = r
  <2> SUFFICES ASSUME x # r PROVE tx'[r] = tx[r]
    OBVIOUS
  <2>1. CASE Start(x)
    BY <1>0, <2>1 DEF Start, StartIssue, StartLogout, StartExchange,
                      StartRotate, StartRevoke, Begin
  <2>2. CASE LockSession(x) \/ LockCode(x) \/ LockFamily(x) \/ LockMember(x)
    BY <1>0, <2>2 DEF LockSession, LockCode, LockFamily, LockMember
  <2>3. CASE DecideExchange(x) \/ DecideRotate(x) \/ DecideRevoke(x)
             \/ DecideIssue(x) \/ WriteIssue(x) \/ DecideLogout(x)
             \/ WriteLogout(x) \/ LastCheck(x)
    BY <1>0, <2>3 DEF DecideExchange, DecideRotate, DecideRevoke, DecideIssue,
                      WriteIssue, DecideLogout, WriteLogout, LastCheck,
                      Stage, End
  <2>4. CASE CommitIssue(x) \/ CommitExchange(x) \/ CommitCodeReplay(x)
             \/ CommitRotate(x) \/ CommitTokenReplay(x) \/ CommitRevoke(x)
             \/ CommitLogout(x)
    BY <1>0, <2>4 DEF CommitIssue, CommitExchange, CommitCodeReplay,
                      CommitRotate, CommitTokenReplay, CommitRevoke,
                      CommitLogout, End
  <2>5. CASE Cancel(x) \/ LeaseLapses(x)
    BY <1>0, <2>5 DEF Cancel, LeaseLapses, End
  <2> QED BY <1>2, <2>1, <2>2, <2>3, <2>4, <2>5 DEF Proceed
<1>4. ~Start(r)
  BY DEF Start, StartIssue, StartLogout, StartExchange, StartRotate,
         StartRevoke
<1>5. ~LeaseLapses(r)
  <2>1. [tx[r] EXCEPT !.lease = tx[r].pc].pc = tx[r].pc
    BY <1>0 DEF Request
  <2>2. LeaseLapses(r) => tx'[r] = [tx[r] EXCEPT !.lease = tx[r].pc]
    BY <1>0 DEF LeaseLapses
  <2> QED BY <2>1, <2>2
<1>6. ASSUME NEW out, End(r, out) PROVE out = "ok"
  BY <1>0, <1>6 DEF End, Ended, NoRequest
<1>7. ~Cancel(r) /\ ~CommitCodeReplay(r) /\ ~CommitTokenReplay(r)
  BY <1>6 DEF Cancel, CommitCodeReplay, CommitTokenReplay
<1>8. /\ ~LockSession(r) /\ ~LockCode(r) /\ ~LockFamily(r) /\ ~LockMember(r)
      /\ ~DecideExchange(r) /\ ~DecideRotate(r) /\ ~DecideRevoke(r)
      /\ ~DecideIssue(r) /\ ~WriteIssue(r)
      /\ ~DecideLogout(r) /\ ~WriteLogout(r) /\ ~LastCheck(r)
  BY DEF LockSession, LockCode, LockFamily, LockMember, DecideExchange,
         DecideRotate, DecideRevoke, DecideIssue, WriteIssue, DecideLogout,
         WriteLogout, LastCheck
<1>9. ~CommitIssue(r) /\ ~CommitRevoke(r) /\ ~CommitLogout(r)
  BY DEF CommitIssue, CommitRevoke, CommitLogout, Committing
<1> QED BY <1>2, <1>3, <1>4, <1>5, <1>7, <1>8, <1>9 DEF Proceed

(* One winner per code and per token, none after a revocation: a success   *)
(* is decided on rows that are still unconsumed and unrevoked when it      *)
(* commits.                                                                *)
THEOREM WinnersWereLive == Spec => SuccessWasLive
<1> DEFINE Live(r) ==
      /\ Succeeds(r, "exchange") =>
           /\ codes[tx[r].c].consumed_at = Null
           /\ codes'[tx[r].c].consumed_at # Null
           /\ sessions[tx[r].s].revoked_at = Null
      /\ Succeeds(r, "rotate") =>
           /\ members[tx[r].m].consumed_at = Null
           /\ members'[tx[r].m].consumed_at # Null
           /\ families[tx[r].f].revoked_at = Null
           /\ sessions[tx[r].s].revoked_at = Null
<1>1. IInv /\ [Next]_vars => [\A r \in Req : Live(r)]_vars
  <2> SUFFICES ASSUME IInv, [Next]_vars, NEW r \in Req PROVE Live(r)
    OBVIOUS
  <2>0. tx[r] \in Request /\ RequestOK(tx[r]) /\ Null \notin Time
    BY NullIsNoValue DEF IInv, TypeOK, Time
  <2>1. ASSUME Succeeds(r, "exchange")
        PROVE  /\ codes[tx[r].c].consumed_at = Null
               /\ codes'[tx[r].c].consumed_at # Null
               /\ sessions[tx[r].s].revoked_at = Null
    <3>1. CommitExchange(r)
      BY <2>1, SuccessIsOwnCommit DEF Succeeds, CommitRotate, Committing
    <3>2. /\ ~tx[r].replay /\ tx[r].pc = "commit" /\ tx[r].op = "exchange"
          /\ NamesItsRows(tx[r]) /\ ReadsCurrent(tx[r])
          /\ StagedForReason(tx[r])
      BY <2>0, <3>1 DEF CommitExchange, Committing, RequestOK
    <3>3. /\ tx[r].cod = codes[tx[r].c] /\ tx[r].ses = sessions[tx[r].s]
          /\ tx[r].cod.consumed_at = Null /\ tx[r].ses.revoked_at = Null
          /\ tx[r].c \in Code /\ codes[tx[r].c] # Null
      BY <3>2 DEF NamesItsRows, ReadsCurrent, StagedForReason, Holding
    <3>4. codes[tx[r].c] \in CodeRow /\ tx[r].now \in Time
      BY <2>0, <3>3 DEF IInv, TypeOK, Request
    <3>5. codes'[tx[r].c].consumed_at = tx[r].now
      BY <3>1, <3>3, <3>4
         DEF CommitExchange, ConsumeCode, IInv, TypeOK, CodeRow
    <3> QED BY <2>0, <3>3, <3>4, <3>5
  <2>2. ASSUME Succeeds(r, "rotate")
        PROVE  /\ members[tx[r].m].consumed_at = Null
               /\ members'[tx[r].m].consumed_at # Null
               /\ families[tx[r].f].revoked_at = Null
               /\ sessions[tx[r].s].revoked_at = Null
    <3>1. CommitRotate(r)
      BY <2>2, SuccessIsOwnCommit DEF Succeeds, CommitExchange, Committing
    <3>2. /\ ~tx[r].replay /\ tx[r].pc = "commit" /\ tx[r].op = "rotate"
          /\ NamesItsRows(tx[r]) /\ ReadsCurrent(tx[r])
          /\ StagedForReason(tx[r])
      BY <2>0, <3>1 DEF CommitRotate, Committing, RequestOK
    <3>3. /\ tx[r].mem = members[tx[r].m] /\ tx[r].ses = sessions[tx[r].s]
          /\ tx[r].fam = families[tx[r].f]
          /\ tx[r].mem.consumed_at = Null /\ tx[r].ses.revoked_at = Null
          /\ tx[r].fam.revoked_at = Null
          /\ tx[r].m \in Member /\ members[tx[r].m] # Null
      BY <3>2 DEF NamesItsRows, ReadsCurrent, StagedForReason, Holding
    <3>4. members[tx[r].m] \in MemberRow /\ tx[r].now \in Time
      BY <2>0, <3>3 DEF IInv, TypeOK, Request
    <3>5. PICK n \in Member :
            /\ members[n] = Null
            /\ members' = [members EXCEPT ![n] = NewMember(tx[r].f, tx[r].now),
                                          ![tx[r].m] = Succeeded(tx[r], n)]
      BY <3>1 DEF CommitRotate
    <3>6. members'[tx[r].m] = Succeeded(tx[r], n)
      BY <3>3, <3>5 DEF IInv, TypeOK
    <3>7. Succeeded(tx[r], n).consumed_at = tx[r].now
      BY <3>4 DEF Succeeded, MemberRow
    <3> QED BY <2>0, <3>3, <3>4, <3>6, <3>7
  <2> QED BY <2>1, <2>2
<1>2. [][\A r \in Req : Live(r)]_vars => SuccessWasLive
  BY DEF SuccessWasLive
<1> QED BY <1>1, <1>2, Invariance, PTL DEF Spec

-----------------------------------------------------------------------------
(* What a commit may do to the rows, the chain of refresh tokens, the      *)
(* times in the rows, and the finality of refusals.                        *)

Commit(r) ==
  \/ CommitIssue(r) \/ CommitExchange(r) \/ CommitCodeReplay(r)
  \/ CommitRotate(r) \/ CommitTokenReplay(r)
  \/ CommitRevoke(r) \/ CommitLogout(r)

(* The steps that leave all rows alone, apart from the clock's.            *)
Quiet(r) ==
  \/ Start(r)
  \/ LockSession(r) \/ LockCode(r) \/ LockFamily(r) \/ LockMember(r)
  \/ DecideExchange(r) \/ DecideRotate(r) \/ DecideRevoke(r)
  \/ DecideIssue(r) \/ WriteIssue(r)
  \/ DecideLogout(r) \/ WriteLogout(r)
  \/ LastCheck(r) \/ Cancel(r) \/ LeaseLapses(r)

-----------------------------------------------------------------------------
(* A quiet step changes one request, no row, and not the clock.            *)
LEMMA QuietSteps ==
  ASSUME IInv, NEW r \in Req, Quiet(r)
  PROVE  /\ clock' = clock
         /\ UNCHANGED <<sessions, codes, families, members>>
         /\ \A x \in Req : x # r => tx'[x] = tx[x]
<1>0. tx \in [Req -> Request]
  BY DEF IInv, TypeOK
<1>1. CASE Start(r)
  BY <1>0, <1>1 DEF Start, StartIssue, StartLogout, StartExchange,
                    StartRotate, StartRevoke, Begin, tables
<1>2. CASE LockSession(r) \/ LockCode(r) \/ LockFamily(r) \/ LockMember(r)
  BY <1>0, <1>2 DEF LockSession, LockCode, LockFamily, LockMember, tables
<1>3. CASE DecideExchange(r) \/ DecideRotate(r) \/ DecideRevoke(r)
           \/ DecideIssue(r) \/ WriteIssue(r) \/ DecideLogout(r)
           \/ WriteLogout(r) \/ LastCheck(r)
  BY <1>0, <1>3 DEF DecideExchange, DecideRotate, DecideRevoke, DecideIssue,
                    WriteIssue, DecideLogout, WriteLogout, LastCheck,
                    Stage, End, tables
<1>4. CASE Cancel(r) \/ LeaseLapses(r)
  BY <1>0, <1>4 DEF Cancel, LeaseLapses, End, tables
<1> QED BY <1>1, <1>2, <1>3, <1>4 DEF Quiet

(* A commit changes one request and not the clock.                         *)
LEMMA CommitMoves ==
  ASSUME IInv, NEW r \in Req, Commit(r)
  PROVE  /\ clock' = clock
         /\ \A x \in Req : x # r => tx'[x] = tx[x]
BY DEF Commit, CommitIssue, CommitExchange, CommitCodeReplay, CommitRotate,
       CommitTokenReplay, CommitRevoke, CommitLogout, End, IInv, TypeOK

LEMMA StepKinds ==
  ASSUME IInv, [Next]_vars
  PROVE  \/ UNCHANGED vars
         \/ Tick
         \/ CreateProviderSession
         \/ \E r \in Req : Quiet(r) \/ Commit(r)
BY DEF Next, Proceed, Quiet, Commit

-----------------------------------------------------------------------------
(* What each commit does to the rows, in terms of the tables alone.        *)

LEMMA AtCommit ==
  ASSUME IInv, NEW r \in Req, tx[r].pc = "commit"
  PROVE  /\ tx[r] \in Request /\ tx[r].op \in Op
         /\ NamesItsRows(tx[r]) /\ StagedForReason(tx[r])
         /\ tx[r].s \in Session /\ sessions[tx[r].s] \in SessionRow
         /\ sessions[tx[r].s] # Null /\ tx[r].ses = sessions[tx[r].s]
         /\ tx[r].op = "exchange" => tx[r].cod = codes[tx[r].c]
         /\ tx[r].op \in {"rotate", "revoke"} => tx[r].fam = families[tx[r].f]
         /\ tx[r].op = "rotate" => tx[r].mem = members[tx[r].m]
         /\ tx[r].now \in Time /\ tx[r].at \in Time
<1>1. tx[r] \in Request /\ RequestOK(tx[r])
  BY DEF IInv, TypeOK
<1>2. NamesItsRows(tx[r]) /\ ReadsCurrent(tx[r]) /\ StagedForReason(tx[r])
  BY <1>1 DEF RequestOK
<1>3. tx[r].s \in Session /\ sessions[tx[r].s] # Null /\ tx[r].op \in Op
  BY <1>2 DEF NamesItsRows
<1>4. sessions[tx[r].s] \in SessionRow
  BY <1>3 DEF IInv, TypeOK
<1>5. tx[r].now \in Time /\ tx[r].at \in Time
  BY <1>1 DEF Request
<1> QED BY <1>1, <1>2, <1>3, <1>4, <1>5 DEF ReadsCurrent, Holding

(* Issuing inserts one code of an unrevoked session.                       *)
LEMMA IssueRows ==
  ASSUME IInv, NEW r \in Req, CommitIssue(r)
  PROVE  /\ tx[r].op = "issue"
         /\ sessions[tx[r].s].revoked_at = Null
         /\ tx[r].cod \in CodeRow /\ tx[r].cod.session = tx[r].s
         /\ tx[r].cod.consumed_at = Null
         /\ UNCHANGED <<sessions, families, members>>
         /\ \E c \in Code :
              /\ codes[c] = Null /\ codes'[c] = tx[r].cod
              /\ \A d \in Code : d # c => codes'[d] = codes[d]
<1>1. tx[r].pc = "commit" /\ tx[r].op = "issue"
  BY DEF CommitIssue, Committing
<1>2. /\ tx[r].cod \in CodeRow /\ tx[r].cod.session = tx[r].s
      /\ tx[r].cod.consumed_at = Null /\ tx[r].ses.revoked_at = Null
      /\ tx[r].ses = sessions[tx[r].s]
  BY <1>1, AtCommit DEF StagedForReason
<1>3. PICK c \in Code : codes[c] = Null /\ codes' = [codes EXCEPT ![c] = tx[r].cod]
  BY DEF CommitIssue
<1>4. codes'[c] = tx[r].cod /\ \A d \in Code : d # c => codes'[d] = codes[d]
  BY <1>3 DEF IInv, TypeOK
<1> QED BY <1>1, <1>2, <1>3, <1>4 DEF CommitIssue

(* Redeeming consumes an unconsumed code of an unrevoked session and, for  *)
(* an offline grant, inserts a family with its first member.               *)
LEMMA ExchangeRows ==
  ASSUME IInv, NEW r \in Req, CommitExchange(r)
  PROVE  LET q == tx[r] IN
         /\ q.op = "exchange" /\ ~q.replay
         /\ q.c \in Code /\ codes[q.c] # Null /\ codes[q.c] \in CodeRow
         /\ codes[q.c].session = q.s /\ codes[q.c].consumed_at = Null
         /\ sessions[q.s].revoked_at = Null
         /\ UNCHANGED sessions
         /\ codes'[q.c] = [codes[q.c] EXCEPT !.consumed_at = q.now]
         /\ \A d \in Code : d # q.c => codes'[d] = codes[d]
         /\ \/ ~codes[q.c].offline /\ UNCHANGED <<families, members>>
            \/ /\ codes[q.c].offline
               /\ \E f \in Family, m \in Member :
                 /\ families[f] = Null /\ members[m] = Null
                 /\ families'[f] =
                      [source_code |-> q.c, session |-> q.s,
                       issued_at |-> q.now, expires_at |-> FamilyExpiry(q),
                       revoked_at |-> Null]
                 /\ \A g \in Family : g # f => families'[g] = families[g]
                 /\ members'[m] = NewMember(f, q.now)
                 /\ \A n \in Member : n # m => members'[n] = members[n]
<1> DEFINE q == tx[r]
<1>1. q.pc = "commit" /\ q.op = "exchange" /\ ~q.replay
  BY DEF CommitExchange, Committing
<1>2. /\ q.c \in Code /\ codes[q.c] # Null /\ codes[q.c].session = q.s
      /\ q.cod = codes[q.c] /\ q.cod.consumed_at = Null
      /\ q.ses = sessions[q.s] /\ q.ses.revoked_at = Null
  BY <1>1, AtCommit DEF NamesItsRows, StagedForReason
<1>3. codes[q.c] \in CodeRow
  BY <1>2 DEF IInv, TypeOK
<1>4. /\ codes'[q.c] = [codes[q.c] EXCEPT !.consumed_at = q.now]
      /\ \A d \in Code : d # q.c => codes'[d] = codes[d]
  BY <1>2, <1>3 DEF CommitExchange, ConsumeCode, IInv, TypeOK
<1>5. /\ q.op = "exchange" /\ ~q.replay /\ q.c \in Code /\ codes[q.c] # Null
      /\ codes[q.c] \in CodeRow /\ codes[q.c].session = q.s
      /\ codes[q.c].consumed_at = Null /\ sessions[q.s].revoked_at = Null
      /\ UNCHANGED sessions
  BY <1>1, <1>2, <1>3 DEF CommitExchange
<1>6. CASE ~q.cod.offline
  <2>1. UNCHANGED <<families, members>> /\ ~codes[q.c].offline
    BY <1>2, <1>6 DEF CommitExchange
  <2> HIDE DEF q
  <2> QED BY <1>4, <1>5, <2>1 DEF q
<1>7. CASE q.cod.offline
  <2> DEFINE row == [source_code |-> q.c, session |-> q.s,
                     issued_at |-> q.now, expires_at |-> FamilyExpiry(q),
                     revoked_at |-> Null]
  <2>1. PICK f \in Family, m \in Member :
             /\ families[f] = Null /\ members[m] = Null
             /\ families' = [families EXCEPT ![f] = row]
             /\ members' = [members EXCEPT ![m] = NewMember(f, q.now)]
    BY <1>7 DEF CommitExchange
  <2>2. codes[q.c].offline
    BY <1>2, <1>7
  <2> HIDE DEF row
  <2>3. /\ families'[f] = row
        /\ \A g \in Family : g # f => families'[g] = families[g]
    BY <2>1 DEF IInv, TypeOK
  <2>4. /\ members'[m] = NewMember(f, q.now)
        /\ \A n \in Member : n # m => members'[n] = members[n]
    BY <2>1 DEF IInv, TypeOK
  <2>5. \E g \in Family, n \in Member :
          /\ families[g] = Null /\ members[n] = Null /\ families'[g] = row
          /\ \A h \in Family : h # g => families'[h] = families[h]
          /\ members'[n] = NewMember(g, q.now)
          /\ \A k \in Member : k # n => members'[k] = members[k]
    BY <2>1, <2>3, <2>4
  <2> QED BY <1>4, <1>5, <2>2, <2>5 DEF row
<1> QED BY <1>6, <1>7

(* Rotating consumes an unconsumed member of an unrevoked family in an     *)
(* unrevoked session, and inserts its successor.                           *)
LEMMA RotateRows ==
  ASSUME IInv, NEW r \in Req, CommitRotate(r)
  PROVE  LET q == tx[r] IN
         /\ q.op = "rotate" /\ ~q.replay
         /\ q.f \in Family /\ families[q.f] # Null
         /\ families[q.f].session = q.s /\ families[q.f].revoked_at = Null
         /\ sessions[q.s].revoked_at = Null
         /\ q.m \in Member /\ members[q.m] # Null /\ members[q.m] \in MemberRow
         /\ members[q.m].family = q.f /\ members[q.m].consumed_at = Null
         /\ UNCHANGED <<sessions, codes, families>>
         /\ \E n \in Member :
              /\ members[n] = Null /\ n # q.m
              /\ members'[n] = NewMember(q.f, q.now)
              /\ members'[q.m] = [members[q.m] EXCEPT !.consumed_at = q.now,
                                                      !.successor = n]
              /\ \A k \in Member : k # n /\ k # q.m => members'[k] = members[k]
<1> DEFINE q == tx[r]
<1>1. q.pc = "commit" /\ q.op = "rotate" /\ ~q.replay
  BY DEF CommitRotate, Committing
<1>2. /\ q.f \in Family /\ families[q.f] # Null /\ families[q.f].session = q.s
      /\ q.m \in Member /\ members[q.m] # Null /\ members[q.m].family = q.f
      /\ q.mem = members[q.m] /\ q.mem.consumed_at = Null
      /\ q.fam = families[q.f] /\ q.fam.revoked_at = Null
      /\ q.ses = sessions[q.s] /\ q.ses.revoked_at = Null
  BY <1>1, AtCommit DEF NamesItsRows, StagedForReason
<1>3. members[q.m] \in MemberRow
  BY <1>2 DEF IInv, TypeOK
<1>4. PICK n \in Member :
        /\ members[n] = Null
        /\ members' = [members EXCEPT ![n] = NewMember(q.f, q.now),
                                      ![q.m] = Succeeded(q, n)]
  BY DEF CommitRotate
<1>5. n # q.m
  BY <1>2, <1>4
<1>6. /\ members'[n] = NewMember(q.f, q.now)
      /\ members'[q.m] = Succeeded(q, n)
      /\ \A k \in Member : k # n /\ k # q.m => members'[k] = members[k]
  BY <1>2, <1>4, <1>5 DEF IInv, TypeOK
<1> QED BY <1>1, <1>2, <1>3, <1>4, <1>5, <1>6 DEF CommitRotate, Succeeded

(* The families a replay, a revocation or a logout closes, and when.       *)
RevokedBy(q) ==
  {f \in Family :
     /\ families[f] # Null
     /\ q.op = "exchange" => families[f].source_code = q.c
     /\ q.op \in {"rotate", "revoke"} => f = q.f
     /\ q.op = "logout" => families[f].session = q.s}
RevokedAt(q) == IF q.op = "logout" THEN q.at ELSE q.now

Revokes(r) == \/ CommitCodeReplay(r) \/ CommitTokenReplay(r)
              \/ CommitRevoke(r) \/ CommitLogout(r)

LEMMA RevocationRows ==
  ASSUME IInv, NEW r \in Req, Revokes(r)
  PROVE  LET q == tx[r] IN
         /\ q.op \in {"exchange", "rotate", "revoke", "logout"}
         /\ q.op \in {"exchange", "rotate"} => q.replay
         /\ q.pc = "commit"
         /\ UNCHANGED <<codes, members>>
         /\ q.op # "logout" => UNCHANGED sessions
         /\ q.op = "logout" =>
              /\ sessions'[q.s] = Revoked(sessions[q.s], q.now)
              /\ \A s \in Session : s # q.s => sessions'[s] = sessions[s]
         /\ \A f \in RevokedBy(q) : families[f].session = q.s
         /\ \A f \in Family : families[f] = Null => families'[f] = Null
         /\ \A f \in Family : families[f] # Null =>
              families'[f] = IF f \in RevokedBy(q)
                               THEN Revoked(families[f], RevokedAt(q))
                               ELSE families[f]
<1> DEFINE q == tx[r]
<1>1. /\ q.op \in {"exchange", "rotate", "revoke", "logout"}
      /\ q.op \in {"exchange", "rotate"} => q.replay
      /\ q.pc = "commit"
  BY DEF Revokes, CommitCodeReplay, CommitTokenReplay, CommitRevoke,
         CommitLogout, Committing
<1>2. /\ NamesItsRows(q) /\ q.s \in Session
  BY <1>1, AtCommit
<1>3. families' = RevokeFamilies(RevokedBy(q), RevokedAt(q))
  <2>1. CASE CommitCodeReplay(r)
    <3>1. q.op = "exchange" /\ families' = RevokeFamilies(FamiliesOfCode(q.c), q.now)
      BY <2>1 DEF CommitCodeReplay, Committing
    <3>2. FamiliesOfCode(q.c) = RevokedBy(q)
      BY <3>1 DEF FamiliesOfCode, RevokedBy
    <3> QED BY <3>1, <3>2 DEF RevokedAt
  <2>2. CASE CommitTokenReplay(r) \/ CommitRevoke(r)
    <3>1. q.op \in {"rotate", "revoke"} /\ families' = RevokeFamilies({q.f}, q.now)
      BY <2>2 DEF CommitTokenReplay, CommitRevoke, Committing
    <3>2. q.f \in Family /\ families[q.f] # Null
      BY <1>2, <3>1 DEF NamesItsRows
    <3>3. {q.f} = RevokedBy(q)
      BY <3>1, <3>2 DEF RevokedBy
    <3> QED BY <3>1, <3>3 DEF RevokedAt
  <2>3. CASE CommitLogout(r)
    <3>1. q.op = "logout" /\ families' = RevokeFamilies(FamiliesOfSession(q.s), q.at)
      BY <2>3 DEF CommitLogout, Committing
    <3>2. FamiliesOfSession(q.s) = RevokedBy(q)
      BY <3>1 DEF FamiliesOfSession, RevokedBy
    <3> QED BY <3>1, <3>2 DEF RevokedAt
  <2> QED BY <2>1, <2>2, <2>3 DEF Revokes
<1>4. \A f \in RevokedBy(q) : families[f].session = q.s
  BY <1>1, <1>2 DEF RevokedBy, NamesItsRows, IInv, References
<1>5. UNCHANGED <<codes, members>> /\ (q.op # "logout" => UNCHANGED sessions)
  BY DEF Revokes, CommitCodeReplay, CommitTokenReplay, CommitRevoke,
         CommitLogout, Committing
<1>6. q.op = "logout" =>
        /\ sessions'[q.s] = Revoked(sessions[q.s], q.now)
        /\ \A s \in Session : s # q.s => sessions'[s] = sessions[s]
  BY <1>2 DEF Revokes, CommitCodeReplay, CommitTokenReplay, CommitRevoke,
              CommitLogout, Committing, IInv, TypeOK
<1>7. \A f \in Family :
        families'[f] = IF f \in RevokedBy(q)
                         THEN Revoked(families[f], RevokedAt(q))
                         ELSE families[f]
  BY <1>3 DEF RevokeFamilies
<1>8. \A f \in Family : families[f] = Null => families'[f] = Null
  BY <1>7 DEF RevokedBy
<1> QED BY <1>1, <1>4, <1>5, <1>6, <1>7, <1>8

(* A revocation stamps a row that has no stamp yet and changes no other    *)
(* column.                                                                 *)
LEMMA RevokedFamilyRow ==
  ASSUME NEW row \in FamilyRow, NEW t \in Time
  PROVE  /\ Revoked(row, t) \in FamilyRow /\ Revoked(row, t) # Null
         /\ Revoked(row, t).source_code = row.source_code
         /\ Revoked(row, t).session = row.session
         /\ Revoked(row, t).issued_at = row.issued_at
         /\ Revoked(row, t).expires_at = row.expires_at
         /\ Revoked(row, t).revoked_at # Null
         /\ row.revoked_at # Null => Revoked(row, t) = row
         /\ row.revoked_at = Null => Revoked(row, t).revoked_at = t
BY NullIsNoValue DEF Revoked, FamilyRow, OptTime, Time

LEMMA RevokedSessionRow ==
  ASSUME NEW row \in SessionRow, NEW t \in Time
  PROVE  /\ Revoked(row, t) \in SessionRow /\ Revoked(row, t) # Null
         /\ Revoked(row, t).expires_at = row.expires_at
         /\ Revoked(row, t).revoked_at # Null
         /\ row.revoked_at # Null => Revoked(row, t) = row
         /\ row.revoked_at = Null => Revoked(row, t).revoked_at = t
BY NullIsNoValue DEF Revoked, SessionRow, OptTime, Time

-----------------------------------------------------------------------------
(* Rows only move forward: they never disappear, identities and deadlines  *)
(* never change, and a time stamp, once set, stays.                        *)
SessionMovesOn(s) ==
  sessions[s] # Null =>
    /\ sessions'[s] # Null
    /\ sessions'[s].expires_at = sessions[s].expires_at
    /\ sessions[s].revoked_at # Null =>
         sessions'[s].revoked_at = sessions[s].revoked_at
CodeMovesOn(c) ==
  codes[c] # Null =>
    /\ codes'[c] # Null
    /\ codes'[c].session = codes[c].session
    /\ codes'[c].offline = codes[c].offline
    /\ codes'[c].issued_at = codes[c].issued_at
    /\ codes'[c].expires_at = codes[c].expires_at
    /\ codes[c].consumed_at # Null => codes'[c] = codes[c]
FamilyMovesOn(f) ==
  families[f] # Null =>
    /\ families'[f] # Null
    /\ families'[f].source_code = families[f].source_code
    /\ families'[f].session = families[f].session
    /\ families'[f].issued_at = families[f].issued_at
    /\ families'[f].expires_at = families[f].expires_at
    /\ families[f].revoked_at # Null => families'[f] = families[f]
MemberMovesOn(m) ==
  members[m] # Null =>
    /\ members'[m] # Null
    /\ members'[m].family = members[m].family
    /\ members'[m].issued_at = members[m].issued_at
    /\ members[m].consumed_at # Null => members'[m] = members[m]

RowsMoveOn ==
  /\ \A s \in Session : SessionMovesOn(s)
  /\ \A c \in Code : CodeMovesOn(c)
  /\ \A f \in Family : FamilyMovesOn(f)
  /\ \A m \in Member : MemberMovesOn(m)

(* A commit touches, and inserts, rows of one session only.                *)
OutsideUntouched(z) ==
  /\ \A s \in Session : s # z => sessions'[s] = sessions[s]
  /\ \A c \in Code :
       codes'[c] # Null /\ codes'[c].session # z => codes'[c] = codes[c]
  /\ \A f \in Family :
       families'[f] # Null /\ families'[f].session # z =>
         families'[f] = families[f]
  /\ \A m \in Member :
       members'[m] # Null /\ families'[members'[m].family].session # z =>
         /\ members'[m] = members[m]
         /\ families'[members'[m].family] = families[members[m].family]

LEMMA CommitRows ==
  ASSUME IInv, IInv', NEW r \in Req, Commit(r)
  PROVE  RowsMoveOn /\ OutsideUntouched(tx[r].s)
<1> DEFINE q == tx[r]
<1>0. /\ q.pc = "commit"
      /\ q.s \in Session /\ sessions[q.s] \in SessionRow
      /\ sessions[q.s] # Null
      /\ q.now \in Time /\ q.at \in Time /\ RevokedAt(q) \in Time
  BY AtCommit DEF Commit, CommitIssue, CommitExchange, CommitCodeReplay,
                  CommitRotate, CommitTokenReplay, CommitRevoke,
                  CommitLogout, Committing, RevokedAt
<1>1. /\ \A s \in Session : sessions[s] # Null => sessions[s] \in SessionRow
      /\ \A c \in Code : codes[c] # Null => codes[c] \in CodeRow
      /\ \A f \in Family : families[f] # Null => families[f] \in FamilyRow
      /\ \A m \in Member : members[m] # Null =>
           /\ members[m] \in MemberRow /\ members[m].family \in Family
           /\ families[members[m].family] # Null
  BY DEF IInv, TypeOK, References, MemberRow
<1>2. \A m \in Member : members'[m] # Null =>
        members'[m].family \in Family /\ families'[members'[m].family] # Null
  BY DEF IInv, TypeOK, References, MemberRow
<1>3. CASE CommitIssue(r)
  <2> HIDE DEF q
  <2>1. RowsMoveOn
    BY <1>3, IssueRows DEF RowsMoveOn, SessionMovesOn, CodeMovesOn,
                           FamilyMovesOn, MemberMovesOn
  <2>2. OutsideUntouched(tx[r].s)
    BY <1>3, IssueRows DEF OutsideUntouched
  <2> QED BY <2>1, <2>2
<1>4. CASE CommitExchange(r)
  <2>1. /\ q.c \in Code /\ codes[q.c] # Null /\ codes[q.c] \in CodeRow
        /\ codes[q.c].session = q.s /\ codes[q.c].consumed_at = Null
        /\ UNCHANGED sessions
        /\ codes'[q.c] = [codes[q.c] EXCEPT !.consumed_at = q.now]
        /\ \A d \in Code : d # q.c => codes'[d] = codes[d]
    BY <1>4, ExchangeRows
  <2>2. /\ codes'[q.c].session = codes[q.c].session
        /\ codes'[q.c].offline = codes[q.c].offline
        /\ codes'[q.c].issued_at = codes[q.c].issued_at
        /\ codes'[q.c].expires_at = codes[q.c].expires_at
        /\ codes'[q.c] # Null
    BY <1>0, <2>1, NullIsNoValue DEF CodeRow, OptTime
  <2>3. /\ \A s \in Session : SessionMovesOn(s)
        /\ \A c \in Code : CodeMovesOn(c)
    BY <2>1, <2>2 DEF SessionMovesOn, CodeMovesOn
  <2>4. /\ \A s \in Session : s # q.s => sessions'[s] = sessions[s]
        /\ \A c \in Code :
             codes'[c] # Null /\ codes'[c].session # q.s => codes'[c] = codes[c]
    BY <2>1, <2>2
  <2>5. CASE UNCHANGED <<families, members>>
    BY <1>2, <2>3, <2>4, <2>5
       DEF RowsMoveOn, OutsideUntouched, FamilyMovesOn, MemberMovesOn
  <2>6. ASSUME NEW f \in Family, NEW m \in Member,
               families[f] = Null, members[m] = Null,
               families'[f].session = q.s,
               \A g \in Family : g # f => families'[g] = families[g],
               members'[m].family = f,
               \A n \in Member : n # m => members'[n] = members[n]
        PROVE  RowsMoveOn /\ OutsideUntouched(q.s)
    <3>1. (\A g \in Family : FamilyMovesOn(g)) /\ \A n \in Member : MemberMovesOn(n)
      BY <2>6 DEF FamilyMovesOn, MemberMovesOn
    <3>2. \A g \in Family :
            families'[g] # Null /\ families'[g].session # q.s =>
              families'[g] = families[g]
      BY <2>6
    <3>3. \A n \in Member :
            members'[n] # Null /\ families'[members'[n].family].session # q.s =>
              /\ members'[n] = members[n]
              /\ families'[members'[n].family] = families[members[n].family]
      BY <1>2, <2>6, <3>2
    <3> QED BY <2>3, <2>4, <3>1, <3>2, <3>3 DEF RowsMoveOn, OutsideUntouched
  <2>7. CASE ~UNCHANGED <<families, members>>
    <3>1. PICK f \in Family, m \in Member :
                 /\ families[f] = Null /\ members[m] = Null
                 /\ families'[f] =
                      [source_code |-> q.c, session |-> q.s,
                       issued_at |-> q.now, expires_at |-> FamilyExpiry(q),
                       revoked_at |-> Null]
                 /\ \A g \in Family : g # f => families'[g] = families[g]
                 /\ members'[m] = NewMember(f, q.now)
                 /\ \A n \in Member : n # m => members'[n] = members[n]
      BY <1>4, <2>7, ExchangeRows
    <3>2. families'[f].session = q.s /\ members'[m].family = f
      BY <3>1 DEF NewMember
    <3> QED BY <2>6, <3>1, <3>2
  <2> QED BY <2>5, <2>7
<1>5. CASE CommitRotate(r)
  <2>1. /\ q.f \in Family /\ families[q.f].session = q.s
        /\ q.m \in Member /\ members[q.m] \in MemberRow
        /\ members[q.m].family = q.f /\ members[q.m].consumed_at = Null
        /\ UNCHANGED <<sessions, codes, families>>
    BY <1>5, RotateRows
  <2>2. PICK n \in Member :
              /\ members[n] = Null /\ n # q.m
              /\ members'[n] = NewMember(q.f, q.now)
              /\ members'[q.m] = [members[q.m] EXCEPT !.consumed_at = q.now,
                                                      !.successor = n]
              /\ \A k \in Member : k # n /\ k # q.m => members'[k] = members[k]
    BY <1>5, RotateRows
  <2>3. /\ members'[n].family = q.f
        /\ members'[q.m].family = q.f
        /\ members'[q.m].issued_at = members[q.m].issued_at
        /\ members'[q.m] # Null
    <3>1. members'[n].family = q.f
      BY <2>2 DEF NewMember
    <3>2. /\ members'[q.m].family = members[q.m].family
          /\ members'[q.m].issued_at = members[q.m].issued_at
      BY <2>1, <2>2 DEF MemberRow
    <3>3. [members[q.m] EXCEPT !.consumed_at = q.now, !.successor = n]
            \in MemberRow
      BY <1>0, <2>1 DEF MemberRow, OptTime
    <3> QED BY <2>1, <2>2, <3>1, <3>2, <3>3, NullIsNoValue
  <2>4. RowsMoveOn
    BY <2>1, <2>2, <2>3 DEF RowsMoveOn, SessionMovesOn, CodeMovesOn,
                            FamilyMovesOn, MemberMovesOn
  <2>5. OutsideUntouched(q.s)
    BY <2>1, <2>2, <2>3 DEF OutsideUntouched
  <2> QED BY <2>4, <2>5
<1>6. CASE Revokes(r)
  <2>1. /\ UNCHANGED <<codes, members>>
        /\ q.op # "logout" => UNCHANGED sessions
        /\ q.op = "logout" =>
              /\ sessions'[q.s] = Revoked(sessions[q.s], q.now)
              /\ \A s \in Session : s # q.s => sessions'[s] = sessions[s]
        /\ \A f \in RevokedBy(q) : families[f].session = q.s
        /\ \A f \in Family : families[f] = Null => families'[f] = Null
        /\ \A f \in Family : families[f] # Null =>
              families'[f] = IF f \in RevokedBy(q)
                               THEN Revoked(families[f], RevokedAt(q))
                               ELSE families[f]
    BY <1>6, RevocationRows
  <2>2. \A s \in Session : SessionMovesOn(s)
    BY <1>0, <1>1, <2>1, RevokedSessionRow DEF SessionMovesOn
  <2>3. \A f \in Family : FamilyMovesOn(f)
    BY <1>0, <1>1, <2>1, RevokedFamilyRow DEF FamilyMovesOn
  <2>4. RowsMoveOn
    BY <2>1, <2>2, <2>3 DEF RowsMoveOn, CodeMovesOn, MemberMovesOn
  <2>5. \A f \in Family :
          families'[f] # Null /\ families'[f].session # q.s =>
            families'[f] = families[f]
    <3> SUFFICES ASSUME NEW f \in Family, families'[f] # Null,
                        families'[f].session # q.s
                 PROVE  families'[f] = families[f]
      OBVIOUS
    <3>1. families[f] # Null /\ families'[f].session = families[f].session
      BY <2>1, <2>3 DEF FamilyMovesOn
    <3> QED BY <2>1, <3>1
  <2>6. OutsideUntouched(q.s)
    BY <1>2, <2>1, <2>5 DEF OutsideUntouched
  <2> QED BY <2>4, <2>6
<1> QED BY <1>3, <1>4, <1>5, <1>6 DEF Commit, Revokes

(* Every step moves rows and clock forward.                                *)
LEMMA StepRows ==
  ASSUME IInv, IInv', [Next]_vars
  PROVE  RowsMoveOn /\ clock <= clock' /\ clock \in Nat /\ clock' \in Nat
<1> USE DEF RowsMoveOn, SessionMovesOn, CodeMovesOn, FamilyMovesOn,
            MemberMovesOn
<1>0. clock \in Nat /\ clock' \in Nat
  BY DEF IInv, TypeOK, Time
<1>1. CASE UNCHANGED vars
  BY <1>0, <1>1 DEF vars
<1>2. CASE Tick
  BY <1>0, <1>2 DEF Tick, tables
<1>3. CASE CreateProviderSession
  BY <1>0, <1>3 DEF CreateProviderSession, IInv, TypeOK
<1>4. ASSUME NEW r \in Req, Quiet(r)
      PROVE  RowsMoveOn /\ clock <= clock'
  BY <1>0, <1>4, QuietSteps
<1>5. ASSUME NEW r \in Req, Commit(r)
      PROVE  RowsMoveOn /\ clock <= clock'
  <2> HIDE DEF RowsMoveOn
  <2> QED BY <1>0, <1>5, CommitRows, CommitMoves
<1> QED BY <1>0, <1>1, <1>2, <1>3, <1>4, <1>5, StepKinds

-----------------------------------------------------------------------------
(* The chain of tokens.  A member is consumed exactly if it has a          *)
(* successor, and successors are rows; so a fresh member is nobody's       *)
(* successor yet.                                                          *)
Successors ==
  \A m \in Member : members[m] # Null =>
    /\ members[m].consumed_at = Null <=> members[m].successor = Null
    /\ members[m].successor # Null =>
         members[m].successor \in Member /\ members[members[m].successor] # Null

ChainInv == Successors /\ OneLiveMember

(* A step that keeps the members and creates no family keeps the chain.    *)
LEMMA ChainKept ==
  ASSUME ChainInv, UNCHANGED members,
         \A f \in Family : families[f] = Null => families'[f] = Null
  PROVE  ChainInv'
<1>1. Successors'
  BY DEF ChainInv, Successors
<1>2. OneLiveMember'
  BY DEF ChainInv, OneLiveMember
<1> QED BY <1>1, <1>2 DEF ChainInv

LEMMA ChainByExchange ==
  ASSUME IInv, ChainInv, NEW r \in Req, CommitExchange(r)
  PROVE  ChainInv'
<1> DEFINE q == tx[r]
<1>1. CASE UNCHANGED <<families, members>>
  BY <1>1, ChainKept
<1>2. CASE ~UNCHANGED <<families, members>>
  <2>1. PICK f \in Family, m \in Member :
          /\ families[f] = Null /\ members[m] = Null
          /\ \A g \in Family : g # f => families'[g] = families[g]
          /\ members'[m] = NewMember(f, q.now)
          /\ \A n \in Member : n # m => members'[n] = members[n]
    <3>1. \/ ~codes[q.c].offline /\ UNCHANGED <<families, members>>
          \/ /\ codes[q.c].offline
             /\ \E f \in Family, m \in Member :
               /\ families[f] = Null /\ members[m] = Null
               /\ families'[f] =
                    [source_code |-> q.c, session |-> q.s,
                     issued_at |-> q.now, expires_at |-> FamilyExpiry(q),
                     revoked_at |-> Null]
               /\ \A g \in Family : g # f => families'[g] = families[g]
               /\ members'[m] = NewMember(f, q.now)
               /\ \A n \in Member : n # m => members'[n] = members[n]
      BY ExchangeRows
    <3> QED BY <1>2, <3>1
  <2>2. /\ members'[m].family = f /\ members'[m].consumed_at = Null
        /\ members'[m].successor = Null /\ q.now \in Time
        /\ members'[m] # Null
    <3>1. q.pc = "commit"
      BY DEF CommitExchange, Committing
    <3>2. q.now \in Time
      BY <3>1, AtCommit
    <3>3. NewMember(f, q.now) \in MemberRow
      BY <3>2 DEF NewMember, MemberRow, OptTime
    <3> QED BY <2>1, <3>2, <3>3, NullIsNoValue DEF NewMember
  <2>3. \A n \in Member : members[n] # Null => n # m /\ members[n].family # f
    BY <2>1 DEF IInv, References
  <2>4. Successors'
    BY <2>1, <2>2 DEF ChainInv, Successors
  <2>5. OneLiveMember'
    <3> SUFFICES ASSUME NEW g \in Family, families'[g] # Null
                 PROVE  /\ \E k \in Member :
                             /\ members'[k] # Null /\ members'[k].family = g
                             /\ members'[k].consumed_at = Null
                        /\ \A k, n \in Member :
                             /\ members'[k] # Null /\ members'[n] # Null
                             /\ members'[k].family = g
                             /\ members'[n].family = g
                             /\ members'[k].successor = members'[n].successor
                             => k = n
      BY DEF OneLiveMember
    <3>1. CASE g = f
      BY <2>1, <2>2, <2>3, <3>1
    <3>2. CASE g # f
      <4>1. families[g] # Null
        BY <2>1, <3>2
      <4>2. PICK k \in Member : members[k] # Null /\ members[k].family = g
                                /\ members[k].consumed_at = Null
        BY <4>1 DEF ChainInv, OneLiveMember
      <4>3. members'[k] = members[k]
        BY <2>1, <4>2
      <4>4. \A x, y \in Member :
              /\ members[x] # Null /\ members[y] # Null
              /\ members[x].family = g /\ members[y].family = g
              /\ members[x].successor = members[y].successor
              => x = y
        BY <4>1 DEF ChainInv, OneLiveMember
      <4>5. \A x \in Member : members'[x] # Null /\ members'[x].family = g
                                => x # m /\ members'[x] = members[x]
        BY <2>1, <2>2, <3>2
      <4> QED BY <4>2, <4>3, <4>4, <4>5
    <3> QED BY <3>1, <3>2
  <2> QED BY <2>4, <2>5 DEF ChainInv
<1> QED BY <1>1, <1>2

LEMMA ChainByRotation ==
  ASSUME IInv, ChainInv, NEW r \in Req, CommitRotate(r)
  PROVE  ChainInv'
<1> DEFINE q == tx[r]
<1>1. /\ q.f \in Family /\ families[q.f] # Null
      /\ q.m \in Member /\ members[q.m] # Null /\ members[q.m] \in MemberRow
      /\ members[q.m].family = q.f /\ members[q.m].consumed_at = Null
      /\ UNCHANGED families
  BY RotateRows
<1>2. PICK n \in Member :
        /\ members[n] = Null /\ n # q.m
        /\ members'[n] = NewMember(q.f, q.now)
        /\ members'[q.m] = [members[q.m] EXCEPT !.consumed_at = q.now,
                                                !.successor = n]
        /\ \A k \in Member : k # n /\ k # q.m => members'[k] = members[k]
  BY RotateRows
<1>3. q.now \in Time
  <2>1. q.pc = "commit"
    BY DEF CommitRotate, Committing
  <2> QED BY <2>1, AtCommit
<1>4. /\ members'[n].family = q.f /\ members'[n].consumed_at = Null
      /\ members'[n].successor = Null /\ members'[n] # Null
  <2>1. NewMember(q.f, q.now) \in MemberRow
    BY <1>1, <1>3 DEF NewMember, MemberRow, OptTime
  <2> QED BY <1>2, <2>1, NullIsNoValue DEF NewMember
<1>5. /\ members'[q.m].family = q.f /\ members'[q.m].consumed_at = q.now
      /\ members'[q.m].successor = n /\ members'[q.m] # Null
      /\ q.now # Null /\ n # Null
  <2>1. [members[q.m] EXCEPT !.consumed_at = q.now, !.successor = n]
          \in MemberRow
    BY <1>1, <1>3 DEF MemberRow, OptTime
  <2>2. /\ members'[q.m].family = q.f /\ members'[q.m].consumed_at = q.now
        /\ members'[q.m].successor = n
    BY <1>1, <1>2 DEF MemberRow
  <2> QED BY <1>2, <1>3, <2>1, <2>2, NullIsNoValue DEF Time
<1>6. \A k \in Member : members[k] # Null => members[k].successor # n
  BY <1>2, <1>5 DEF ChainInv, Successors
<1>7. Successors'
  <2> SUFFICES ASSUME NEW k \in Member, members'[k] # Null
               PROVE  /\ members'[k].consumed_at = Null
                           <=> members'[k].successor = Null
                      /\ members'[k].successor # Null =>
                           /\ members'[k].successor \in Member
                           /\ members'[members'[k].successor] # Null
    BY DEF Successors
  <2>1. CASE k = n
    BY <1>4, <2>1
  <2>2. CASE k = q.m
    BY <1>4, <1>5, <2>2
  <2>3. CASE k # n /\ k # q.m
    BY <1>2, <1>4, <1>5, <2>3 DEF ChainInv, Successors
  <2> QED BY <2>1, <2>2, <2>3
<1>8. OneLiveMember'
  <2> SUFFICES ASSUME NEW g \in Family, families'[g] # Null
               PROVE  /\ \E k \in Member :
                           /\ members'[k] # Null /\ members'[k].family = g
                           /\ members'[k].consumed_at = Null
                      /\ \A x, y \in Member :
                           /\ members'[x] # Null /\ members'[y] # Null
                           /\ members'[x].family = g
                           /\ members'[y].family = g
                           /\ members'[x].successor = members'[y].successor
                           => x = y
    BY DEF OneLiveMember
  <2>1. PICK k \in Member : members[k] # Null /\ members[k].family = g
                            /\ members[k].consumed_at = Null
    BY <1>1 DEF ChainInv, OneLiveMember
  <2>2. \A x, y \in Member :
          /\ members[x] # Null /\ members[y] # Null
          /\ members[x].family = g /\ members[y].family = g
          /\ members[x].successor = members[y].successor
          => x = y
    BY <1>1 DEF ChainInv, OneLiveMember
  <2>3. CASE g # q.f
    <3>1. \A x \in Member : members'[x] # Null /\ members'[x].family = g
                              => x # n /\ x # q.m /\ members'[x] = members[x]
      BY <1>2, <1>4, <1>5, <2>3
    <3>2. members'[k] = members[k]
      BY <1>1, <1>2, <2>1, <2>3
    <3> QED BY <2>1, <2>2, <3>1, <3>2
  <2>4. CASE g = q.f
    <3>1. members[q.m].successor = Null
      BY <1>1 DEF ChainInv, Successors
    <3>2. \A x \in Member :
            /\ x # n /\ x # q.m
            /\ members'[x] # Null /\ members'[x].family = g
            => /\ members'[x] = members[x]
               /\ members'[x].successor # Null /\ members'[x].successor # n
      BY <1>1, <1>2, <1>6, <2>2, <2>4, <3>1
    <3>3. ASSUME NEW x \in Member, NEW y \in Member,
                 members'[x] # Null, members'[y] # Null,
                 members'[x].family = g, members'[y].family = g,
                 members'[x].successor = members'[y].successor
          PROVE  x = y
      <4>1. CASE x \in {n, q.m} \/ y \in {n, q.m}
        BY <1>4, <1>5, <3>2, <3>3, <4>1
      <4>2. CASE x \notin {n, q.m} /\ y \notin {n, q.m}
        BY <2>2, <3>2, <3>3, <4>2
      <4> QED BY <4>1, <4>2
    <3> QED BY <1>4, <2>4, <3>3
  <2> QED BY <2>3, <2>4
<1> QED BY <1>7, <1>8 DEF ChainInv

(* The refresh tokens of a family form a chain with one live end, however  *)
(* many rotations, replays and revocations run at the same time.           *)
THEOREM TokensFormAChain == Spec => []OneLiveMember
<1>1. Init => ChainInv
  BY DEF Init, ChainInv, Successors, OneLiveMember
<1>2. IInv /\ IInv' /\ ChainInv /\ [Next]_vars => ChainInv'
  <2> SUFFICES ASSUME IInv, IInv', ChainInv, [Next]_vars PROVE ChainInv'
    OBVIOUS
  <2>1. CASE UNCHANGED vars
    BY <2>1, ChainKept DEF vars
  <2>2. CASE Tick \/ CreateProviderSession
    BY <2>2, ChainKept DEF Tick, CreateProviderSession, tables
  <2>3. ASSUME NEW r \in Req, Quiet(r) PROVE ChainInv'
    BY <2>3, QuietSteps, ChainKept
  <2>4. ASSUME NEW r \in Req, CommitIssue(r) PROVE ChainInv'
    BY <2>4, IssueRows, ChainKept
  <2>5. ASSUME NEW r \in Req, CommitExchange(r) PROVE ChainInv'
    BY <2>5, ChainByExchange
  <2>6. ASSUME NEW r \in Req, CommitRotate(r) PROVE ChainInv'
    BY <2>6, ChainByRotation
  <2>7. ASSUME NEW r \in Req, Revokes(r) PROVE ChainInv'
    BY <2>7, RevocationRows, ChainKept
  <2> QED BY <2>1, <2>2, <2>3, <2>4, <2>5, <2>6, <2>7, StepKinds
          DEF Commit, Revokes
<1>3. ChainInv => OneLiveMember
  BY DEF ChainInv
<1> QED BY <1>1, <1>2, <1>3, Invariance, PTL DEF Spec

-----------------------------------------------------------------------------
(* The times in the rows.  TimesTellTheStory is strengthened by: no stamp  *)
(* lies in the future, and what a request has read from the clock is not   *)
(* before any stamp of its session's rows, because it read the clock under *)
(* the session's lock.                                                     *)
CodeTimes(c) ==
  codes[c] # Null =>
    LET s == sessions[codes[c].session] IN
    /\ codes[c].expires_at <= s.expires_at
    /\ codes[c].issued_at <= clock
    /\ codes[c].consumed_at # Null =>
         /\ codes[c].issued_at <= codes[c].consumed_at
         /\ codes[c].consumed_at < codes[c].expires_at
         /\ codes[c].consumed_at <= clock
         /\ s.revoked_at # Null => codes[c].consumed_at <= s.revoked_at

FamilyTimes(f) ==
  families[f] # Null =>
    /\ families[f].expires_at <= sessions[families[f].session].expires_at
    /\ families[f].issued_at <= clock

MemberTimes(m) ==
  members[m] # Null =>
    LET f == families[members[m].family] IN
    /\ f.issued_at <= members[m].issued_at
    /\ members[m].issued_at < f.expires_at
    /\ members[m].issued_at <= clock
    /\ f.revoked_at # Null => members[m].issued_at <= f.revoked_at

HistoryBefore(s, t) ==
  /\ \A c \in Code :
       /\ codes[c] # Null /\ codes[c].session = s
       /\ codes[c].consumed_at # Null
       => codes[c].consumed_at <= t
  /\ \A m \in Member :
       members[m] # Null /\ families[members[m].family].session = s =>
         members[m].issued_at <= t

Staged(q) == q.pc \in {"staged", "commit"}

Timely(q) ==
  /\ Staged(q) /\ q.op \in {"exchange", "rotate", "revoke"} =>
       q.now <= clock /\ HistoryBefore(q.s, q.now)
  /\ q.op = "logout" /\ (q.pc = "write" \/ Staged(q)) =>
       q.now <= clock /\ HistoryBefore(q.s, q.now)
  /\ q.op = "logout" /\ Staged(q) => q.at <= clock /\ HistoryBefore(q.s, q.at)
  /\ q.op = "issue" /\ Staged(q) =>
       q.cod.issued_at <= clock /\ q.cod.expires_at <= q.ses.expires_at
  /\ q.op = "exchange" /\ Staged(q) /\ ~q.replay =>
       /\ q.cod.issued_at <= q.now /\ q.now < q.cod.expires_at
       /\ q.now < q.ses.expires_at
  /\ q.op = "rotate" /\ Staged(q) /\ ~q.replay =>
       q.fam.issued_at <= q.now /\ q.now < q.fam.expires_at

RowTimes ==
  /\ \A c \in Code : CodeTimes(c)
  /\ \A f \in Family : FamilyTimes(f)
  /\ \A m \in Member : MemberTimes(m)

TimeInv == RowTimes /\ \A r \in Req : Timely(tx[r])

(* The numbers in the rows.                                                *)
LEMMA RowsTyped ==
  ASSUME IInv
  PROVE  /\ clock \in Nat /\ Null \notin Nat
         /\ \A s \in Session : sessions[s] # Null =>
              /\ sessions[s] \in SessionRow /\ sessions[s].expires_at \in Nat
              /\ sessions[s].revoked_at \in Nat \cup {Null}
         /\ \A c \in Code : codes[c] # Null =>
              /\ codes[c] \in CodeRow /\ codes[c].session \in Session
              /\ sessions[codes[c].session] # Null
              /\ codes[c].issued_at \in Nat /\ codes[c].expires_at \in Nat
              /\ codes[c].consumed_at \in Nat \cup {Null}
         /\ \A f \in Family : families[f] # Null =>
              /\ families[f] \in FamilyRow /\ families[f].session \in Session
              /\ families[f].source_code \in Code
              /\ sessions[families[f].session] # Null
              /\ families[f].issued_at \in Nat /\ families[f].expires_at \in Nat
              /\ families[f].revoked_at \in Nat \cup {Null}
         /\ \A m \in Member : members[m] # Null =>
              /\ members[m] \in MemberRow /\ members[m].family \in Family
              /\ families[members[m].family] # Null
              /\ members[m].issued_at \in Nat
              /\ members[m].consumed_at \in Nat \cup {Null}
<1>1. clock \in Nat /\ Null \notin Nat
  BY NullIsNoValue DEF IInv, TypeOK, Time
<1>2. \A s \in Session : sessions[s] # Null =>
        /\ sessions[s] \in SessionRow /\ sessions[s].expires_at \in Nat
        /\ sessions[s].revoked_at \in Nat \cup {Null}
  BY DEF IInv, TypeOK, SessionRow, OptTime, Time
<1>3. \A c \in Code : codes[c] # Null =>
        /\ codes[c] \in CodeRow /\ codes[c].session \in Session
        /\ codes[c].issued_at \in Nat /\ codes[c].expires_at \in Nat
        /\ codes[c].consumed_at \in Nat \cup {Null}
  BY DEF IInv, TypeOK, CodeRow, OptTime, Time
<1>4. \A f \in Family : families[f] # Null =>
        /\ families[f] \in FamilyRow /\ families[f].session \in Session
        /\ families[f].source_code \in Code
        /\ families[f].issued_at \in Nat /\ families[f].expires_at \in Nat
        /\ families[f].revoked_at \in Nat \cup {Null}
  BY DEF IInv, TypeOK, FamilyRow, OptTime, Time
<1>5. \A m \in Member : members[m] # Null =>
        /\ members[m] \in MemberRow /\ members[m].family \in Family
        /\ members[m].issued_at \in Nat
        /\ members[m].consumed_at \in Nat \cup {Null}
  BY DEF IInv, TypeOK, MemberRow, OptTime, Time
<1> QED BY <1>1, <1>2, <1>3, <1>4, <1>5 DEF IInv, References

(* Nothing in the rows lies in the future, so the clock itself is after    *)
(* the history of every session.                                           *)
LEMMA HistoryBeforeNow ==
  ASSUME RowTimes, NEW s
  PROVE  HistoryBefore(s, clock)
BY DEF RowTimes, CodeTimes, MemberTimes, HistoryBefore

LEMMA TimelyByDecision ==
  ASSUME IInv, TimeInv, NEW r \in Req,
         \/ DecideExchange(r) \/ DecideRotate(r) \/ DecideRevoke(r)
         \/ DecideIssue(r) \/ WriteIssue(r)
         \/ DecideLogout(r) \/ WriteLogout(r) \/ LastCheck(r)
  PROVE  Timely(tx'[r])
<1> DEFINE o == tx[r]
<1>0. /\ o \in Request /\ tx \in [Req -> Request] /\ RequestOK(o)
      /\ RowTimes /\ Timely(o) /\ HistoryBefore(o.s, clock) /\ clock \in Nat
  BY HistoryBeforeNow DEF IInv, TypeOK, TimeInv, Time
<1>1. ASSUME tx'[r].pc = "idle" PROVE Timely(tx'[r])
  BY <1>1 DEF Timely, Staged
<1>2. ASSUME NEW out, End(r, out) PROVE Timely(tx'[r])
  <2>1. tx'[r] = Ended(o, out)
    BY <1>0, <1>2 DEF End
  <2>2. Ended(o, out).pc = "idle"
    BY DEF Ended, NoRequest
  <2> QED BY <1>1, <2>1, <2>2
<1>3. ASSUME NEW replay \in BOOLEAN, Stage(r, replay),
             o.op \in {"exchange", "rotate", "revoke"},
             o.op = "exchange" /\ ~replay =>
               /\ o.cod.issued_at <= clock /\ clock < o.cod.expires_at
               /\ clock < o.ses.expires_at,
             o.op = "rotate" /\ ~replay =>
               o.fam.issued_at <= clock /\ clock < o.fam.expires_at
      PROVE  Timely(tx'[r])
  <2> DEFINE q == [o EXCEPT !.pc = "staged", !.replay = replay, !.now = clock]
  <2>1. tx'[r] = q
    BY <1>0, <1>3 DEF Stage
  <2>2. /\ q.pc = "staged" /\ q.replay = replay /\ q.now = clock
        /\ q.ses = o.ses /\ q.cod = o.cod /\ q.fam = o.fam /\ q.op = o.op
        /\ q.s = o.s
    BY <1>0 DEF Request
  <2> HIDE DEF q
  <2>3. Timely(q)
    BY <1>0, <1>3, <2>2 DEF Timely, Staged
  <2> QED BY <2>1, <2>3
<1>4. CASE DecideExchange(r)
  <2>1. o.op = "exchange" /\ o.pc = "decide"
    BY <1>4 DEF DecideExchange
  <2>2. o.c \in Code /\ codes[o.c] # Null /\ o.cod = codes[o.c]
    BY <1>0, <2>1 DEF RequestOK, NamesItsRows, ReadsCurrent
  <2>3. o.cod.issued_at <= clock
    BY <1>0, <2>2 DEF RowTimes, CodeTimes
  <2>4. CASE \E out : End(r, out)
    BY <1>2, <2>4
  <2>5. CASE Stage(r, TRUE)
    BY <1>3, <2>1, <2>5
  <2>6. CASE CodeUsable(o, clock) /\ Stage(r, FALSE)
    BY <1>3, <2>1, <2>3, <2>6 DEF CodeUsable, SessionActive
  <2> QED BY <1>4, <2>4, <2>5, <2>6 DEF DecideExchange
<1>5. CASE DecideRotate(r)
  <2>1. o.op = "rotate" /\ o.pc = "decide"
    BY <1>5 DEF DecideRotate
  <2>2. o.f \in Family /\ families[o.f] # Null /\ o.fam = families[o.f]
    BY <1>0, <2>1 DEF RequestOK, NamesItsRows, ReadsCurrent
  <2>3. o.fam.issued_at <= clock
    BY <1>0, <2>2 DEF RowTimes, FamilyTimes
  <2>4. CASE \E out : End(r, out)
    BY <1>2, <2>4
  <2>5. CASE Stage(r, TRUE)
    BY <1>3, <2>1, <2>5
  <2>6. CASE FamilyUsable(o, clock) /\ Stage(r, FALSE)
    BY <1>3, <2>1, <2>3, <2>6 DEF FamilyUsable, SessionActive
  <2> QED BY <1>5, <2>4, <2>5, <2>6 DEF DecideRotate
<1>6. CASE DecideRevoke(r)
  BY <1>3, <1>6 DEF DecideRevoke
<1>7. CASE DecideIssue(r)
  <2>1. CASE \E out : End(r, out)
    BY <1>2, <2>1
  <2>2. CASE tx' = [tx EXCEPT ![r].pc = "write"]
    <3>1. tx'[r].pc = "write" /\ tx'[r].op = "issue"
      BY <1>0, <1>7, <2>2 DEF DecideIssue, Request
    <3> QED BY <3>1 DEF Timely, Staged
  <2> QED BY <1>7, <2>1, <2>2 DEF DecideIssue
<1>8. CASE WriteIssue(r)
  <2>1. PICK life \in 1..MaxCodeLife, offline \in BOOLEAN :
          tx' = [tx EXCEPT ![r].pc = "staged",
                   ![r].cod = [session |-> tx[r].s, offline |-> offline,
                               issued_at |-> clock,
                               expires_at |->
                                 Min2(clock + life, tx[r].ses.expires_at),
                               consumed_at |-> Null]]
    BY <1>8 DEF WriteIssue
  <2>2. /\ tx'[r].op = "issue" /\ tx'[r].ses = o.ses
        /\ tx'[r].cod.issued_at = clock
        /\ tx'[r].cod.expires_at = Min2(clock + life, o.ses.expires_at)
    BY <1>0, <1>8, <2>1 DEF WriteIssue, Request
  <2>3. o.ses \in SessionRow
    BY <1>0, <1>8 DEF WriteIssue, RequestOK, NamesItsRows, ReadsCurrent,
                      Holding, IInv, TypeOK
  <2>4. o.ses.expires_at \in Nat /\ clock + life \in Nat
    BY <1>0, <2>3, LifetimesPositive DEF SessionRow, Time
  <2>5. Min2(clock + life, o.ses.expires_at) <= o.ses.expires_at
    BY <2>4 DEF Min2
  <2> QED BY <1>0, <2>2, <2>5 DEF Timely
<1>9. CASE DecideLogout(r)
  <2>1. /\ tx'[r].op = "logout" /\ tx'[r].pc = "write"
        /\ tx'[r].now = clock /\ tx'[r].s = o.s
    BY <1>0, <1>9 DEF DecideLogout, Request
  <2> QED BY <1>0, <2>1 DEF Timely, Staged
<1>10. CASE WriteLogout(r)
  <2>1. /\ tx'[r].op = "logout" /\ o.op = "logout" /\ o.pc = "write"
        /\ tx'[r].at = clock /\ tx'[r].now = o.now /\ tx'[r].s = o.s
    BY <1>0, <1>10 DEF WriteLogout, Request
  <2> QED BY <1>0, <2>1 DEF Timely, Staged
<1>11. CASE LastCheck(r)
  <2>1. CASE \E out : End(r, out)
    BY <1>2, <2>1
  <2>2. CASE tx' = [tx EXCEPT ![r].pc = "commit"]
    <3> DEFINE q == [o EXCEPT !.pc = "commit"]
    <3>1. tx'[r] = q
      BY <1>0, <2>2
    <3>2. /\ q.pc = "commit" /\ q.replay = o.replay /\ q.now = o.now
          /\ q.at = o.at /\ q.ses = o.ses /\ q.cod = o.cod /\ q.fam = o.fam
          /\ q.op = o.op /\ q.s = o.s
      BY <1>0 DEF Request
    <3> HIDE DEF q
    <3>3. Timely(q)
      BY <1>0, <1>11, <3>2 DEF Timely, Staged, LastCheck
    <3> QED BY <3>1, <3>3
  <2> QED BY <1>11, <2>1, <2>2 DEF LastCheck
<1> QED BY <1>4, <1>5, <1>6, <1>7, <1>8, <1>9, <1>10, <1>11

(* A refusal before the locks leaves nothing but its answer.               *)
LEMMA EarlyEnd ==
  ASSUME NEW q, NEW out, out # "invalid_grant" \/ ~(q.bound /\ q.admits)
  PROVE  Ended(q, out).pc = "idle" /\ Ended(q, out).op = "none"
<1>1. Ended(q, out) = [NoRequest EXCEPT !.out = out]
  BY DEF Ended
<1> QED BY <1>1 DEF NoRequest

(* A request that starts waits for its session, unless it was refused      *)
(* before it got there; what carries no registry is in order from the      *)
(* start.                                                                  *)
LEMMA StartShape ==
  ASSUME IInv, NEW r \in Req, Start(r)
  PROVE  /\ tx[r].pc = "idle"
         /\ \/ tx'[r].pc = "idle" /\ tx'[r].op = "none"
            \/ /\ tx'[r].pc = "lock_session" /\ tx'[r].lease = "live"
               /\ tx'[r].op \in Op
               /\ tx'[r].op \notin {"exchange", "rotate"} =>
                    tx'[r].bound /\ tx'[r].admits
<1>0. tx \in [Req -> Request]
  BY DEF IInv, TypeOK
<1> DEFINE Fresh(q) ==
      /\ q.pc = "lock_session" /\ q.lease = "live" /\ q.op \in Op
      /\ q.op \notin {"exchange", "rotate"} => q.bound /\ q.admits
<1>1. ASSUME NEW s \in Session, StartIssue(r, s) \/ StartLogout(r, s)
      PROVE  tx[r].pc = "idle" /\ Fresh(tx'[r])
  <2>1. PICK op \in {"issue", "logout"} :
          tx'[r] = [NoRequest EXCEPT !.op = op, !.pc = "lock_session", !.s = s]
    BY <1>0, <1>1 DEF StartIssue, StartLogout, Begin
  <2> QED BY <1>1, <2>1 DEF NoRequest, Op, StartIssue, StartLogout
<1>2. ASSUME NEW c \in Code, NEW bound \in BOOLEAN, NEW admits \in BOOLEAN,
             StartExchange(r, c, bound, admits)
      PROVE  /\ tx[r].pc = "idle"
             /\ Fresh(tx'[r]) \/ (tx'[r].pc = "idle" /\ tx'[r].op = "none")
  <2> DEFINE q == [NoRequest EXCEPT !.op = "exchange", !.pc = "lock_session",
                                    !.bound = bound, !.admits = admits,
                                    !.s = codes[c].session, !.c = c]
  <2>1. /\ tx[r].pc = "idle"
        /\ \/ tx'[r] = q
           \/ ~(bound /\ admits) /\ tx'[r] = Ended(q, "invalid_grant")
           \/ tx'[r] = Ended(q, "metadata_expired")
    BY <1>0, <1>2 DEF StartExchange, Begin
  <2>2. /\ q.pc = "lock_session" /\ q.lease = "live" /\ q.op = "exchange"
        /\ q.bound = bound /\ q.admits = admits
    BY DEF NoRequest
  <2> HIDE DEF q
  <2> QED BY <2>1, <2>2, EarlyEnd DEF Op
<1>3. ASSUME NEW m \in Member, NEW bound \in BOOLEAN, NEW admits \in BOOLEAN,
             StartRotate(r, m, bound, admits)
      PROVE  /\ tx[r].pc = "idle"
             /\ Fresh(tx'[r]) \/ (tx'[r].pc = "idle" /\ tx'[r].op = "none")
  <2> DEFINE q == [NoRequest EXCEPT !.op = "rotate", !.pc = "lock_session",
                     !.bound = bound, !.admits = admits,
                     !.s = families[members[m].family].session,
                     !.f = members[m].family, !.m = m]
  <2>1. /\ tx[r].pc = "idle"
        /\ \/ tx'[r] = q
           \/ ~(bound /\ admits) /\ tx'[r] = Ended(q, "invalid_grant")
    BY <1>0, <1>3 DEF StartRotate, Begin
  <2>2. /\ q.pc = "lock_session" /\ q.lease = "live" /\ q.op = "rotate"
        /\ q.bound = bound /\ q.admits = admits
    BY DEF NoRequest
  <2> HIDE DEF q
  <2> QED BY <2>1, <2>2, EarlyEnd DEF Op
<1>4. ASSUME NEW m \in Member, NEW bound \in BOOLEAN, StartRevoke(r, m, bound)
      PROVE  /\ tx[r].pc = "idle"
             /\ Fresh(tx'[r]) \/ (tx'[r].pc = "idle" /\ tx'[r].op = "none")
  <2> DEFINE q == [NoRequest EXCEPT !.op = "revoke", !.pc = "lock_session",
                     !.bound = bound, !.m = m, !.f = members[m].family,
                     !.s = families[members[m].family].session]
  <2>1. tx'[r] = IF bound THEN q ELSE Ended(q, "ok")
    BY <1>0, <1>4 DEF StartRevoke, Begin
  <2>2. q.pc = "lock_session" /\ q.lease = "live" /\ q.op = "revoke"
        /\ q.bound = bound /\ q.admits
    BY DEF NoRequest
  <2> HIDE DEF q
  <2>3. Ended(q, "ok") = [NoRequest EXCEPT !.out = "ok"]
    BY DEF Ended
  <2>4. /\ [NoRequest EXCEPT !.out = "ok"].pc = "idle"
        /\ [NoRequest EXCEPT !.out = "ok"].op = "none"
    BY DEF NoRequest
  <2>5. tx[r].pc = "idle"
    BY <1>4 DEF StartRevoke
  <2>6. CASE bound
    <3>1. tx'[r] = q
      BY <2>1, <2>6
    <3>2. Fresh(q)
      BY <2>2, <2>6 DEF Op
    <3> HIDE DEF Fresh
    <3> QED BY <2>5, <3>1, <3>2
  <2>7. CASE ~bound
    <3>1. tx'[r].pc = "idle" /\ tx'[r].op = "none"
      BY <2>1, <2>3, <2>4, <2>7
    <3> QED BY <2>5, <3>1
  <2> QED BY <2>6, <2>7
<1> QED BY <1>0, <1>1, <1>2, <1>3, <1>4 DEF Start

(* The other quiet steps: a request that starts, waits, ends or loses its  *)
(* lease has staged nothing new.                                           *)
LEMMA EarlySteps ==
  ASSUME IInv, NEW r \in Req,
         \/ Start(r)
         \/ LockSession(r) \/ LockCode(r) \/ LockFamily(r) \/ LockMember(r)
         \/ Cancel(r) \/ LeaseLapses(r)
  PROVE  \/ tx'[r].pc \in Waiting \cup {"idle", "decide"}
         \/ /\ tx[r].pc = tx'[r].pc /\ tx[r].op = tx'[r].op
            /\ tx[r].s = tx'[r].s /\ tx[r].c = tx'[r].c
            /\ tx[r].f = tx'[r].f /\ tx[r].m = tx'[r].m
            /\ tx[r].replay = tx'[r].replay
            /\ tx[r].bound = tx'[r].bound /\ tx[r].admits = tx'[r].admits
            /\ tx[r].ses = tx'[r].ses /\ tx[r].cod = tx'[r].cod
            /\ tx[r].fam = tx'[r].fam /\ tx[r].mem = tx'[r].mem
            /\ tx[r].now = tx'[r].now /\ tx[r].at = tx'[r].at
            /\ tx[r].pc # "idle"
<1>0. tx \in [Req -> Request] /\ tx[r] \in Request /\ RequestOK(tx[r])
  BY DEF IInv, TypeOK
<1>1. CASE Start(r)
  BY <1>1, StartShape DEF Waiting
<1>2. CASE LockSession(r)
  <2>1. tx'[r].pc = AfterSession(tx[r].op) /\ tx[r].op \in Op
    BY <1>0, <1>2 DEF LockSession, Request, RequestOK, NamesItsRows
  <2> QED BY <2>1 DEF AfterSession, Op, Waiting
<1>3. CASE LockCode(r) \/ LockFamily(r) \/ LockMember(r)
  BY <1>0, <1>3 DEF LockCode, LockFamily, LockMember, Request, Waiting
<1>4. CASE Cancel(r)
  <2>1. tx'[r] = Ended(tx[r], "cancelled")
    BY <1>0, <1>4 DEF Cancel, End
  <2> QED BY <2>1 DEF Ended, NoRequest
<1>5. CASE LeaseLapses(r)
  BY <1>0, <1>5 DEF LeaseLapses, Request
<1> QED BY <1>1, <1>2, <1>3, <1>4, <1>5

(* No quiet step disturbs the times.                                       *)
LEMMA TimesByQuiet ==
  ASSUME IInv, TimeInv, NEW r \in Req, Quiet(r)
  PROVE  TimeInv'
<1>1. /\ clock' = clock /\ UNCHANGED <<sessions, codes, families, members>>
      /\ \A x \in Req : x # r => tx'[x] = tx[x]
  BY QuietSteps
<1>2. Timely(tx'[r])
  <2>1. CASE \/ DecideExchange(r) \/ DecideRotate(r) \/ DecideRevoke(r)
             \/ DecideIssue(r) \/ WriteIssue(r)
             \/ DecideLogout(r) \/ WriteLogout(r) \/ LastCheck(r)
    BY <2>1, TimelyByDecision
  <2>2. CASE \/ Start(r)
             \/ LockSession(r) \/ LockCode(r) \/ LockFamily(r) \/ LockMember(r)
             \/ Cancel(r) \/ LeaseLapses(r)
    <3>1. CASE tx'[r].pc \in Waiting \cup {"idle", "decide"}
      BY <3>1 DEF Timely, Staged, Waiting
    <3>2. CASE tx'[r].pc \notin Waiting \cup {"idle", "decide"}
      <4>1. Timely(tx[r])
        BY DEF TimeInv
      <4> QED BY <2>2, <3>2, <4>1, EarlySteps DEF Timely, Staged
    <3> QED BY <3>1, <3>2
  <2> QED BY <2>1, <2>2 DEF Quiet
<1>3. RowTimes'
  BY <1>1 DEF TimeInv, RowTimes, CodeTimes, FamilyTimes, MemberTimes
<1>4. ASSUME NEW x \in Req PROVE Timely(tx[x])'
  <2>1. Timely(tx'[x])
    BY <1>1, <1>2 DEF TimeInv
  <2> QED BY <1>1, <2>1 DEF Timely, Staged, HistoryBefore
<1> QED BY <1>3, <1>4 DEF TimeInv

(* Nor does the passing of time, or a new session.                         *)
LEMMA TimesByEnvironment ==
  ASSUME IInv, IInv', TimeInv, Tick \/ CreateProviderSession
  PROVE  TimeInv'
<1>1. /\ clock \in Nat /\ clock' \in Nat /\ clock <= clock'
      /\ UNCHANGED <<codes, families, members, tx>>
  BY RowsTyped DEF Tick, CreateProviderSession, tables
<1>2. \A s \in Session : sessions[s] # Null => sessions'[s] = sessions[s]
  BY DEF Tick, CreateProviderSession, tables, IInv, TypeOK
<1>3. ASSUME NEW c \in Code PROVE CodeTimes(c)'
  <2>1. CodeTimes(c)
    BY DEF TimeInv, RowTimes
  <2> QED BY <1>1, <1>2, <2>1, RowsTyped DEF CodeTimes
<1>4. ASSUME NEW f \in Family PROVE FamilyTimes(f)'
  <2>1. FamilyTimes(f)
    BY DEF TimeInv, RowTimes
  <2> QED BY <1>1, <1>2, <2>1, RowsTyped DEF FamilyTimes
<1>5. ASSUME NEW m \in Member PROVE MemberTimes(m)'
  <2>1. MemberTimes(m)
    BY DEF TimeInv, RowTimes
  <2> QED BY <1>1, <2>1, RowsTyped DEF MemberTimes
<1>6. ASSUME NEW x \in Req PROVE Timely(tx[x])'
  <2>1. /\ tx'[x] = tx[x] /\ Timely(tx[x])
        /\ tx[x] \in Request /\ RequestOK(tx[x])
    BY <1>1 DEF TimeInv, IInv, TypeOK
  <2>2. tx[x].now \in Nat /\ tx[x].at \in Nat
    BY <2>1 DEF Request, Time
  <2>3. tx[x].op = "issue" /\ Staged(tx[x]) => tx[x].cod.issued_at \in Nat
    BY <2>1 DEF Staged, RequestOK, StagedForReason, CodeRow, Time
  <2>4. \A s, t : HistoryBefore(s, t) => HistoryBefore(s, t)'
    BY <1>1 DEF HistoryBefore
  <2> HIDE DEF HistoryBefore
  <2> QED BY <1>1, <2>1, <2>2, <2>3, <2>4 DEF Timely, Staged
<1> QED BY <1>3, <1>4, <1>5, <1>6 DEF TimeInv, RowTimes

LEMMA RowTimesByRotation ==
  ASSUME IInv, TimeInv, NEW r \in Req, CommitRotate(r)
  PROVE  RowTimes'
<1> DEFINE q == tx[r]
<1>1. /\ q.op = "rotate" /\ ~q.replay /\ q.f \in Family
      /\ families[q.f].revoked_at = Null
      /\ q.m \in Member /\ members[q.m] # Null /\ members[q.m] \in MemberRow
      /\ UNCHANGED <<sessions, codes, families>>
  BY RotateRows
<1>2. PICK n \in Member :
        /\ n # q.m
        /\ members'[n] = NewMember(q.f, q.now)
        /\ members'[q.m] = [members[q.m] EXCEPT !.consumed_at = q.now,
                                                !.successor = n]
        /\ \A k \in Member : k # n /\ k # q.m => members'[k] = members[k]
  BY RotateRows
<1>3. q.pc = "commit" /\ clock' = clock /\ RowTimes /\ Timely(q)
  BY CommitMoves DEF CommitRotate, Committing, TimeInv, Commit
<1>4. q.fam = families[q.f]
  BY <1>1, <1>3, AtCommit
<1>5. /\ families[q.f].issued_at <= q.now /\ q.now < families[q.f].expires_at
      /\ q.now <= clock
  BY <1>1, <1>3, <1>4 DEF Timely, Staged
<1>6. /\ members'[n].family = q.f /\ members'[n].issued_at = q.now
      /\ members'[q.m].family = members[q.m].family
      /\ members'[q.m].issued_at = members[q.m].issued_at
  BY <1>1, <1>2 DEF NewMember, MemberRow
<1>7. ASSUME NEW k \in Member PROVE MemberTimes(k)'
  <2>1. CASE k = n
    BY <1>1, <1>3, <1>5, <1>6, <2>1 DEF MemberTimes
  <2>2. CASE k = q.m
    BY <1>1, <1>3, <1>6, <2>2 DEF RowTimes, MemberTimes
  <2>3. CASE k # n /\ k # q.m
    BY <1>1, <1>2, <1>3, <2>3 DEF RowTimes, MemberTimes
  <2> QED BY <2>1, <2>2, <2>3
<1>8. (\A c \in Code : CodeTimes(c)') /\ (\A f \in Family : FamilyTimes(f)')
  BY <1>1, <1>3 DEF RowTimes, CodeTimes, FamilyTimes
<1> QED BY <1>7, <1>8 DEF RowTimes

(* What a commit writes is stamped after everything it builds on.          *)
LEMMA RowTimesByCommit ==
  ASSUME IInv, IInv', TimeInv, NEW r \in Req, Commit(r)
  PROVE  RowTimes'
<1> DEFINE q == tx[r]
<1>0. /\ q.pc = "commit" /\ q.op \in Op /\ q.s \in Session
      /\ sessions[q.s] # Null /\ q.ses = sessions[q.s]
      /\ q.op = "exchange" => q.cod = codes[q.c]
      /\ q.op = "rotate" => q.fam = families[q.f]
      /\ q.now \in Nat /\ q.at \in Nat /\ RevokedAt(q) \in Nat
  BY AtCommit DEF Commit, CommitIssue, CommitExchange, CommitCodeReplay,
                  CommitRotate, CommitTokenReplay, CommitRevoke,
                  CommitLogout, Committing, RevokedAt, Time
<1>1. clock' = clock /\ RowTimes /\ Timely(q) /\ Staged(q)
  BY <1>0, CommitMoves DEF TimeInv, Staged
<1>2. CASE CommitIssue(r)
  <2>1. /\ q.op = "issue" /\ q.cod.session = q.s /\ q.cod.consumed_at = Null
        /\ UNCHANGED <<sessions, families, members>>
    BY <1>2, IssueRows
  <2>2. PICK c \in Code : /\ codes'[c] = q.cod
                          /\ \A d \in Code : d # c => codes'[d] = codes[d]
    BY <1>2, IssueRows
  <2>3. q.cod.issued_at <= clock /\ q.cod.expires_at <= sessions[q.s].expires_at
    BY <1>0, <1>1, <2>1 DEF Timely
  <2>4. \A d \in Code : CodeTimes(d)'
    BY <1>1, <2>1, <2>2, <2>3 DEF RowTimes, CodeTimes
  <2>5. (\A f \in Family : FamilyTimes(f)') /\ (\A m \in Member : MemberTimes(m)')
    BY <1>1, <2>1 DEF RowTimes, FamilyTimes, MemberTimes
  <2> QED BY <2>4, <2>5 DEF RowTimes
<1>3. CASE CommitExchange(r)
  <2>1. /\ q.op = "exchange" /\ ~q.replay /\ q.c \in Code
        /\ codes[q.c] # Null /\ codes[q.c] \in CodeRow
        /\ codes[q.c].session = q.s
        /\ sessions[q.s].revoked_at = Null /\ UNCHANGED sessions
        /\ codes'[q.c] = [codes[q.c] EXCEPT !.consumed_at = q.now]
        /\ \A d \in Code : d # q.c => codes'[d] = codes[d]
    BY <1>3, ExchangeRows
  <2>2. /\ codes[q.c].issued_at <= q.now /\ q.now < codes[q.c].expires_at
        /\ q.now < sessions[q.s].expires_at /\ q.now <= clock
    BY <1>0, <1>1, <2>1 DEF Timely
  <2>3. /\ codes'[q.c].session = q.s
        /\ codes'[q.c].issued_at = codes[q.c].issued_at
        /\ codes'[q.c].expires_at = codes[q.c].expires_at
        /\ codes'[q.c].consumed_at = q.now
    BY <2>1 DEF CodeRow
  <2>4. codes[q.c].expires_at <= sessions[q.s].expires_at
        /\ codes[q.c].issued_at <= clock
    BY <1>1, <2>1 DEF RowTimes, CodeTimes
  <2>5. \A d \in Code : CodeTimes(d)'
    BY <1>1, <2>1, <2>2, <2>3, <2>4 DEF RowTimes, CodeTimes
  <2>6. CASE UNCHANGED <<families, members>>
    BY <1>1, <2>1, <2>5, <2>6 DEF RowTimes, FamilyTimes, MemberTimes
  <2>7. CASE ~UNCHANGED <<families, members>>
    <3>1. PICK f \in Family, m \in Member :
            /\ families[f] = Null /\ members[m] = Null
            /\ families'[f] =
                 [source_code |-> q.c, session |-> q.s,
                  issued_at |-> q.now, expires_at |-> FamilyExpiry(q),
                  revoked_at |-> Null]
            /\ \A g \in Family : g # f => families'[g] = families[g]
            /\ members'[m] = NewMember(f, q.now)
            /\ \A n \in Member : n # m => members'[n] = members[n]
      BY <2>7, <1>3, ExchangeRows
    <3>2. /\ families'[f].session = q.s /\ families'[f].issued_at = q.now
          /\ families'[f].expires_at = FamilyExpiry(q)
          /\ families'[f].revoked_at = Null
          /\ members'[m].family = f /\ members'[m].issued_at = q.now
      BY <3>1 DEF NewMember
    <3>3. q.now < FamilyExpiry(q) /\ FamilyExpiry(q) <= sessions[q.s].expires_at
      <4>1. sessions[q.s].expires_at \in Nat /\ FamilyLife \in Nat \ {0}
        BY <1>0, RowsTyped, LifetimesPositive
      <4> QED BY <1>0, <2>2, <4>1 DEF FamilyExpiry, Min2
    <3>4. \A g \in Family : FamilyTimes(g)'
      BY <1>1, <2>1, <2>2, <3>1, <3>2, <3>3 DEF RowTimes, FamilyTimes
    <3>5. \A n \in Member : members[n] # Null => n # m /\ members[n].family # f
      BY <3>1, RowsTyped
    <3>6. \A n \in Member : n # m /\ members'[n] # Null =>
            /\ members'[n] = members[n]
            /\ families'[members'[n].family] = families[members[n].family]
      BY <3>1, <3>5, RowsTyped
    <3>7. MemberTimes(m)'
      BY <1>0, <1>1, <2>2, <3>2, <3>3 DEF MemberTimes
    <3>8. \A n \in Member : MemberTimes(n)'
      BY <1>1, <3>6, <3>7 DEF RowTimes, MemberTimes
    <3> QED BY <2>5, <3>4, <3>8 DEF RowTimes
  <2> QED BY <2>6, <2>7
<1>4. CASE CommitRotate(r)
  BY <1>4, RowTimesByRotation
<1>5. CASE Revokes(r)
  <2>1. /\ q.op \in {"exchange", "rotate", "revoke", "logout"}
        /\ UNCHANGED <<codes, members>>
        /\ q.op # "logout" => UNCHANGED sessions
        /\ q.op = "logout" =>
              /\ sessions'[q.s] = Revoked(sessions[q.s], q.now)
              /\ \A s \in Session : s # q.s => sessions'[s] = sessions[s]
        /\ \A f \in RevokedBy(q) : families[f].session = q.s
        /\ \A f \in Family : families[f] = Null => families'[f] = Null
        /\ \A f \in Family : families[f] # Null =>
              families'[f] = IF f \in RevokedBy(q)
                               THEN Revoked(families[f], RevokedAt(q))
                               ELSE families[f]
    BY <1>5, RevocationRows
  <2>2. /\ HistoryBefore(q.s, RevokedAt(q))
        /\ q.op = "logout" => HistoryBefore(q.s, q.now)
    BY <1>1, <2>1 DEF Timely, RevokedAt
  <2>3. \A s \in Session : sessions[s] # Null =>
          /\ sessions'[s].expires_at = sessions[s].expires_at
          /\ \/ sessions'[s] = sessions[s]
             \/ /\ s = q.s /\ sessions'[s].revoked_at = q.now
                /\ q.op = "logout"
    BY <1>0, <2>1, RowsTyped, RevokedSessionRow DEF Time
  <2>4. \A f \in Family : families[f] # Null =>
          /\ families'[f].session = families[f].session
          /\ families'[f].issued_at = families[f].issued_at
          /\ families'[f].expires_at = families[f].expires_at
          /\ \/ families'[f].revoked_at = families[f].revoked_at
             \/ /\ families[f].session = q.s
                /\ families'[f].revoked_at = RevokedAt(q)
    BY <1>0, <2>1, RowsTyped, RevokedFamilyRow DEF Time
  <2>5. ASSUME NEW c \in Code PROVE CodeTimes(c)'
    <3> SUFFICES ASSUME codes[c] # Null PROVE CodeTimes(c)'
      BY <2>1 DEF CodeTimes
    <3>1. codes'[c] = codes[c] /\ codes[c].session \in Session
          /\ sessions[codes[c].session] # Null
      BY <2>1, RowsTyped
    <3>2. CodeTimes(c)
      BY <1>1 DEF RowTimes
    <3>3. codes[c].session = q.s /\ q.op = "logout" =>
            (codes[c].consumed_at # Null => codes[c].consumed_at <= q.now)
      BY <2>2 DEF HistoryBefore
    <3> QED BY <1>1, <2>3, <3>1, <3>2, <3>3 DEF CodeTimes
  <2>6. ASSUME NEW f \in Family PROVE FamilyTimes(f)'
    <3>1. FamilyTimes(f)
      BY <1>1 DEF RowTimes
    <3> QED BY <1>1, <2>1, <2>3, <2>4, <3>1, RowsTyped DEF FamilyTimes
  <2>7. ASSUME NEW m \in Member PROVE MemberTimes(m)'
    <3> SUFFICES ASSUME members[m] # Null PROVE MemberTimes(m)'
      BY <2>1 DEF MemberTimes
    <3>1. members'[m] = members[m] /\ members[m].family \in Family
          /\ families[members[m].family] # Null
      BY <2>1, RowsTyped
    <3>2. MemberTimes(m)
      BY <1>1 DEF RowTimes
    <3>3. families[members[m].family].session = q.s =>
            members[m].issued_at <= RevokedAt(q)
      BY <2>2 DEF HistoryBefore
    <3> QED BY <1>1, <2>4, <3>1, <3>2, <3>3 DEF MemberTimes
  <2> QED BY <2>5, <2>6, <2>7 DEF RowTimes
<1> QED BY <1>2, <1>3, <1>4, <1>5 DEF Commit, Revokes

(* A commit leaves its request idle, and the others at their awaits.       *)
LEMMA CommitEnds ==
  ASSUME IInv, NEW r \in Req, Commit(r)
  PROVE  /\ tx[r].pc = "commit" /\ tx'[r].pc = "idle"
         /\ tx'[r] = Ended(tx[r], IF tx[r].replay THEN "invalid_grant" ELSE "ok")
<1>1. tx \in [Req -> Request]
  BY DEF IInv, TypeOK
<1>2. /\ tx[r].pc = "commit"
      /\ tx'[r] = Ended(tx[r], IF tx[r].replay THEN "invalid_grant" ELSE "ok")
  BY <1>1 DEF Commit, CommitIssue, CommitExchange, CommitCodeReplay,
              CommitRotate, CommitTokenReplay, CommitRevoke, CommitLogout,
              Committing, End
<1>3. \A q, out : Ended(q, out).pc = "idle"
  BY DEF Ended, NoRequest
<1> QED BY <1>2, <1>3

LEMMA TimesByCommit ==
  ASSUME IInv, IInv', TimeInv, NEW r \in Req, Commit(r)
  PROVE  TimeInv'
<1>1. RowTimes'
  BY RowTimesByCommit
<1>2. ASSUME NEW x \in Req PROVE Timely(tx[x])'
  <2>1. CASE x = r
    BY <2>1, CommitEnds DEF Timely, Staged
  <2>2. CASE x # r
    <3>1. tx'[x] = tx[x] /\ Timely(tx[x]) /\ clock' = clock
      BY <2>2, CommitMoves DEF TimeInv
    <3>2. CASE ~Holding(tx[x])
      BY <3>1, <3>2 DEF Holding, Timely, Staged
    <3>3. CASE Holding(tx[x])
      <4>1. tx[x].s # tx[r].s
        BY <2>2, <3>3, CommitEnds DEF IInv, SessionExclusion, Holding
      <4>2. OutsideUntouched(tx[r].s)
        BY CommitRows
      <4>3. \A t : HistoryBefore(tx[x].s, t) => HistoryBefore(tx[x].s, t)'
        BY <3>1, <4>1, <4>2 DEF OutsideUntouched, HistoryBefore
      <4> QED BY <3>1, <4>3 DEF Timely, Staged
    <3> QED BY <3>2, <3>3
  <2> QED BY <2>1, <2>2
<1> QED BY <1>1, <1>2 DEF TimeInv

(* The times in the rows tell a possible story: nothing is stamped after   *)
(* its own expiry or after the revocation of what it came from, whatever   *)
(* time passes between a request's awaits.                                 *)
LEMMA TimeInvariance == Spec => []TimeInv
<1>1. Init => TimeInv
  BY DEF Init, TimeInv, RowTimes, CodeTimes, FamilyTimes, MemberTimes,
         Timely, Staged, NoRequest
<1>2. IInv /\ IInv' /\ TimeInv /\ [Next]_vars => TimeInv'
  <2> SUFFICES ASSUME IInv, IInv', TimeInv, [Next]_vars PROVE TimeInv'
    OBVIOUS
  <2>1. CASE UNCHANGED vars
    <3>1. UNCHANGED <<clock, sessions, codes, families, members, tx>>
      BY <2>1 DEF vars
    <3>2. RowTimes'
      BY <3>1 DEF TimeInv, RowTimes, CodeTimes, FamilyTimes, MemberTimes
    <3>3. (\A r \in Req : Timely(tx[r]))'
      BY <3>1 DEF TimeInv, Timely, Staged, HistoryBefore
    <3> QED BY <3>2, <3>3 DEF TimeInv
  <2>2. CASE Tick \/ CreateProviderSession
    BY <2>2, TimesByEnvironment
  <2>3. ASSUME NEW r \in Req, Quiet(r) PROVE TimeInv'
    BY <2>3, TimesByQuiet
  <2>4. ASSUME NEW r \in Req, Commit(r) PROVE TimeInv'
    BY <2>4, TimesByCommit
  <2> QED BY <2>1, <2>2, <2>3, <2>4, StepKinds
<1> QED BY <1>1, <1>2, Invariance, PTL DEF Spec

(* The times in the tables tell a possible story: no code or token was     *)
(* used at or after its expiry or after the revocation of what it came     *)
(* from, and nothing outlives its session, for each statement reads the    *)
(* clock after the locks it needs.                                         *)
THEOREM TimesAreConsistent == Spec => []TimesTellTheStory
<1>1. IInv /\ TimeInv => TimesTellTheStory
  <2> SUFFICES ASSUME IInv, TimeInv PROVE TimesTellTheStory
    OBVIOUS
  <2>1. /\ \A c \in Code : CodeTimes(c)
        /\ \A f \in Family : FamilyTimes(f)
        /\ \A m \in Member : MemberTimes(m)
    BY DEF TimeInv, RowTimes
  <2>2. \A m \in Member : members[m] # Null =>
          members[m].family \in Family /\ families[members[m].family] # Null
    BY RowsTyped
  <2> QED BY <2>1, <2>2 DEF TimesTellTheStory, CodeTimes, FamilyTimes,
                            MemberTimes
<1> QED BY <1>1, Invariance, TimeInvariance, PTL

-----------------------------------------------------------------------------
(* Decisions: a request either ends, for a reason, or goes on with what it *)
(* has read.                                                               *)
RefusedForReason(q) ==
  /\ q.op = "exchange" => q.cod.consumed_at = Null /\ ~CodeUsable(q, clock)
  /\ q.op = "rotate" => ~FamilyUsable(q, clock)

Decides(r) ==
  \/ DecideExchange(r) \/ DecideRotate(r) \/ DecideRevoke(r)
  \/ DecideIssue(r) \/ WriteIssue(r)
  \/ DecideLogout(r) \/ WriteLogout(r) \/ LastCheck(r)

EndsByDecision(r) ==
  \E out \in Out :
    /\ tx'[r] = Ended(tx[r], out)
    /\ out = "invalid_grant" /\ tx[r].bound /\ tx[r].admits
       => tx[r].pc = "decide" /\ RefusedForReason(tx[r])

StagesByDecision(r) ==
  /\ tx[r].pc = "decide" /\ tx'[r].pc = "staged"
  /\ tx[r].op \in {"exchange", "rotate"} => Admitted(tx[r])
  /\ tx[r].op = "exchange" =>
       IF tx'[r].replay THEN tx[r].cod.consumed_at # Null
                        ELSE CodeUsable(tx[r], clock)

GoesOn(r) ==
  /\ tx'[r].op = tx[r].op /\ tx'[r].s = tx[r].s /\ tx'[r].c = tx[r].c
  /\ tx'[r].bound = tx[r].bound /\ tx'[r].admits = tx[r].admits
  /\ tx'[r].lease = tx[r].lease
  /\ tx[r].op = "exchange" => tx'[r].cod = tx[r].cod
  /\ \/ StagesByDecision(r)
     \/ /\ tx[r].pc \in {"decide", "write"} /\ tx'[r].pc \in {"write", "staged"}
        /\ tx[r].op \notin {"exchange", "rotate"}
     \/ /\ tx[r].pc = "staged" /\ tx'[r].pc = "commit"
        /\ tx[r].lease = "live" /\ tx'[r].replay = tx[r].replay

LEMMA DecisionShape ==
  ASSUME IInv, NEW r \in Req, Decides(r)
  PROVE  EndsByDecision(r) \/ GoesOn(r)
<1> DEFINE o == tx[r]
<1>0. o \in Request /\ tx \in [Req -> Request] /\ RequestOK(o)
  BY DEF IInv, TypeOK
<1>1. ASSUME NEW out \in Out, End(r, out),
             out = "invalid_grant" /\ o.bound /\ o.admits
               => o.pc = "decide" /\ RefusedForReason(o)
      PROVE  EndsByDecision(r)
  BY <1>0, <1>1 DEF End, EndsByDecision
<1>2. ASSUME NEW replay \in BOOLEAN, Stage(r, replay), o.pc = "decide",
             o.op \in {"exchange", "rotate"} => Admitted(o),
             o.op = "exchange" => IF replay THEN o.cod.consumed_at # Null
                                            ELSE CodeUsable(o, clock)
      PROVE  GoesOn(r)
  <2>1. /\ tx'[r].op = o.op /\ tx'[r].s = o.s /\ tx'[r].c = o.c
        /\ tx'[r].bound = o.bound /\ tx'[r].admits = o.admits
        /\ tx'[r].lease = o.lease /\ tx'[r].cod = o.cod
        /\ tx'[r].pc = "staged" /\ tx'[r].replay = replay
    BY <1>0, <1>2 DEF Stage, Request
  <2> QED BY <1>2, <2>1 DEF GoesOn, StagesByDecision
<1>3. CASE DecideExchange(r)
  <2>1. o.op = "exchange" /\ o.pc = "decide"
    BY <1>3 DEF DecideExchange
  <2>2. CASE ~Admitted(o) /\ End(r, Refusal(o))
    <3>1. Refusal(o) \in Out /\ ~(Refusal(o) = "invalid_grant" /\ o.bound /\ o.admits)
      BY <2>2 DEF Refusal, Admitted, Out
    <3> QED BY <1>1, <2>2, <3>1
  <2>3. CASE Admitted(o) /\ o.cod.consumed_at # Null /\ Stage(r, TRUE)
    BY <1>2, <2>1, <2>3
  <2>4. CASE /\ Admitted(o) /\ o.cod.consumed_at = Null
             /\ CodeUsable(o, clock) /\ Stage(r, FALSE)
    BY <1>2, <2>1, <2>4
  <2>5. CASE /\ Admitted(o) /\ o.cod.consumed_at = Null
             /\ ~CodeUsable(o, clock) /\ End(r, "invalid_grant")
    BY <1>1, <2>1, <2>5 DEF RefusedForReason, Out
  <2> QED BY <1>3, <2>2, <2>3, <2>4, <2>5 DEF DecideExchange
<1>4. CASE DecideRotate(r)
  <2>1. o.op = "rotate" /\ o.pc = "decide"
    BY <1>4 DEF DecideRotate
  <2>2. CASE ~Admitted(o) /\ End(r, Refusal(o))
    <3>1. Refusal(o) \in Out /\ ~(Refusal(o) = "invalid_grant" /\ o.bound /\ o.admits)
      BY <2>2 DEF Refusal, Admitted, Out
    <3> QED BY <1>1, <2>2, <3>1
  <2>3. CASE Admitted(o) /\ Stage(r, TRUE)
    BY <1>2, <2>1, <2>3
  <2>4. CASE Admitted(o) /\ FamilyUsable(o, clock) /\ Stage(r, FALSE)
    BY <1>2, <2>1, <2>4
  <2>5. CASE ~FamilyUsable(o, clock) /\ End(r, "invalid_grant")
    BY <1>1, <2>1, <2>5 DEF RefusedForReason, Out
  <2> QED BY <1>4, <2>2, <2>3, <2>4, <2>5 DEF DecideRotate
<1>5. CASE DecideRevoke(r)
  BY <1>2, <1>5 DEF DecideRevoke
<1>6. CASE DecideIssue(r)
  <2>1. CASE End(r, "invalid_grant")
    BY <1>1, <1>6, <2>1 DEF DecideIssue, RefusedForReason, Out
  <2>2. CASE End(r, "metadata_expired")
    BY <1>1, <2>2 DEF Out
  <2>3. CASE tx' = [tx EXCEPT ![r].pc = "write"]
    BY <1>0, <1>6, <2>3 DEF DecideIssue, GoesOn, Request
  <2> QED BY <1>6, <2>1, <2>2, <2>3 DEF DecideIssue
<1>7. CASE WriteIssue(r)
  BY <1>0, <1>7 DEF WriteIssue, GoesOn, Request
<1>8. CASE DecideLogout(r)
  BY <1>0, <1>8 DEF DecideLogout, GoesOn, Request
<1>9. CASE WriteLogout(r)
  BY <1>0, <1>9 DEF WriteLogout, GoesOn, Request
<1>10. CASE LastCheck(r)
  <2>1. CASE End(r, "metadata_expired")
    BY <1>1, <2>1 DEF Out
  <2>2. CASE tx[r].lease = "live" /\ tx' = [tx EXCEPT ![r].pc = "commit"]
    <3>1. /\ tx'[r].op = o.op /\ tx'[r].s = o.s /\ tx'[r].c = o.c
          /\ tx'[r].bound = o.bound /\ tx'[r].admits = o.admits
          /\ tx'[r].lease = o.lease /\ tx'[r].cod = o.cod
          /\ tx'[r].pc = "commit" /\ tx'[r].replay = o.replay
      BY <1>0, <2>2 DEF Request
    <3> QED BY <1>10, <2>2, <3>1 DEF LastCheck, GoesOn
  <2> QED BY <1>10, <2>1, <2>2 DEF LastCheck
<1> QED BY <1>3, <1>4, <1>5, <1>6, <1>7, <1>8, <1>9, <1>10 DEF Decides

(* What an ended request still shows.                                      *)
LEMMA EndedShape ==
  ASSUME NEW q \in Request, NEW out \in Out
  PROVE  /\ Ended(q, out).pc = "idle"
         /\ \/ Ended(q, out).op = "none"
            \/ /\ out = "invalid_grant" /\ q.bound /\ q.admits
               /\ Ended(q, out).op = q.op /\ Ended(q, out).s = q.s
               /\ Ended(q, out).c = q.c /\ Ended(q, out).f = q.f
<1>1. CASE out = "invalid_grant" /\ q.bound /\ q.admits
  BY <1>1 DEF Ended, NoRequest
<1>2. CASE ~(out = "invalid_grant" /\ q.bound /\ q.admits)
  <2>1. Ended(q, out) = [NoRequest EXCEPT !.out = out]
    BY <1>2 DEF Ended
  <2> QED BY <2>1 DEF NoRequest
<1> QED BY <1>1, <1>2

-----------------------------------------------------------------------------
(* Refusals.  RefusalIsFinal is strengthened by what keeps it so: while    *)
(* the code of a refused redemption is unconsumed but expired, no request  *)
(* is on its way to consume it, and once it is consumed every family it    *)
(* ever gets exists already.                                               *)
Winning(q, c) == q.op = "exchange" /\ q.c = c /\ Staged(q) /\ ~q.replay

CodeClosed(s, c) ==
  /\ s \in Session /\ sessions[s] # Null
  /\ c \in Code /\ codes[c] # Null
  /\ \/ ~SessionActive(sessions[s], clock)
     \/ /\ codes[c].consumed_at = Null /\ codes[c].expires_at <= clock
        /\ \A x \in Req : ~Winning(tx[x], c)
     \/ /\ codes[c].consumed_at # Null
        /\ \A f \in FamiliesOfCode(c) : families[f].revoked_at # Null

TokenClosed(s, f) ==
  /\ s \in Session /\ sessions[s] # Null
  /\ f \in Family /\ families[f] # Null
  /\ \/ ~SessionActive(sessions[s], clock)
     \/ families[f].expires_at <= clock
     \/ families[f].revoked_at # Null

ReplayHasEvidence(q) ==
  q.op = "exchange" /\ Staged(q) /\ q.replay => q.cod.consumed_at # Null

RefusalInv ==
  \A r \in Req :
    /\ tx[r].pc = "idle" /\ tx[r].op = "exchange"
         => CodeClosed(tx[r].s, tx[r].c)
    /\ tx[r].pc = "idle" /\ tx[r].op = "rotate"
         => TokenClosed(tx[r].s, tx[r].f)
    /\ ReplayHasEvidence(tx[r])

(* A request comes to win a code only while the code is unexpired.         *)
LEMMA WinnersDecideInTime ==
  ASSUME IInv, [Next]_vars, NEW x \in Req, NEW c, Winning(tx'[x], c)
  PROVE  \/ Winning(tx[x], c)
         \/ c \in Code /\ clock < codes[c].expires_at
<1>0. tx[x] \in Request /\ RequestOK(tx[x])
  BY DEF IInv, TypeOK
<1>1. CASE tx'[x] = tx[x]
  BY <1>1
<1>2. CASE Decides(x)
  <2>1. ~EndsByDecision(x)
    BY <1>0, EndedShape DEF EndsByDecision, Winning, Staged
  <2>2. GoesOn(x)
    BY <1>2, <2>1, DecisionShape
  <2>3. CASE StagesByDecision(x)
    <3>1. /\ tx[x].op = "exchange" /\ tx[x].pc = "decide" /\ tx[x].c = c
          /\ CodeUsable(tx[x], clock)
      BY <2>2, <2>3 DEF GoesOn, StagesByDecision, Winning
    <3>2. tx[x].cod = codes[c] /\ c \in Code
      BY <1>0, <3>1 DEF RequestOK, NamesItsRows, ReadsCurrent
    <3> QED BY <3>1, <3>2 DEF CodeUsable
  <2> QED BY <2>2, <2>3 DEF GoesOn, Winning, Staged
<1>3. CASE Quiet(x) /\ ~Decides(x)
  BY <1>3, EarlySteps DEF Quiet, Decides, Winning, Staged, Waiting
<1>4. CASE Commit(x)
  BY <1>4, CommitEnds DEF Winning, Staged
<1>5. \/ tx'[x] = tx[x] \/ Quiet(x) \/ Commit(x)
  <2>1. CASE UNCHANGED vars \/ Tick \/ CreateProviderSession
    BY <2>1 DEF vars, Tick, CreateProviderSession
  <2>2. ASSUME NEW r \in Req, Quiet(r) \/ Commit(r)
        PROVE  tx'[x] = tx[x] \/ Quiet(x) \/ Commit(x)
    BY <2>2, QuietSteps, CommitMoves
  <2> QED BY <2>1, <2>2, StepKinds
<1> QED BY <1>1, <1>2, <1>3, <1>4, <1>5

(* A code is consumed by a winner, and a family is inserted only for a     *)
(* code that was unconsumed.                                               *)
LEMMA OnlyWinnersRedeem ==
  ASSUME IInv, IInv', [Next]_vars
  PROVE  /\ \A c \in Code :
              codes[c] # Null /\ codes[c].consumed_at = Null
              /\ codes'[c].consumed_at # Null
              => \E x \in Req : Winning(tx[x], c)
         /\ \A f \in Family :
              families[f] = Null /\ families'[f] # Null =>
                /\ families'[f].source_code \in Code
                /\ codes[families'[f].source_code].consumed_at = Null
<1>1. CASE UNCHANGED vars \/ Tick \/ CreateProviderSession
  BY <1>1 DEF vars, Tick, CreateProviderSession, tables
<1>2. ASSUME NEW r \in Req, Quiet(r)
      PROVE  UNCHANGED <<codes, families>>
  BY <1>2, QuietSteps
<1>3. ASSUME NEW r \in Req, CommitIssue(r)
      PROVE  /\ \A c \in Code : codes[c] # Null => codes'[c] = codes[c]
             /\ UNCHANGED families
  BY <1>3, IssueRows
<1>4. ASSUME NEW r \in Req, CommitExchange(r)
      PROVE  /\ \A c \in Code : codes'[c] # codes[c] => Winning(tx[r], c)
             /\ \A f \in Family :
                  families[f] = Null /\ families'[f] # Null =>
                    /\ families'[f].source_code \in Code
                    /\ codes[families'[f].source_code].consumed_at = Null
  <2>1. Commit(r)
    BY <1>4 DEF Commit
  <2>2. tx[r].pc = "commit"
    BY <2>1, CommitEnds
  <2>3. /\ tx[r].op = "exchange" /\ ~tx[r].replay
        /\ tx[r].c \in Code /\ codes[tx[r].c].consumed_at = Null
        /\ \A d \in Code : d # tx[r].c => codes'[d] = codes[d]
    BY <1>4, ExchangeRows
  <2>4. \A f \in Family : families'[f] # families[f] =>
          families'[f].source_code = tx[r].c
    <3>1. CASE UNCHANGED <<families, members>>
      BY <3>1
    <3>2. CASE ~UNCHANGED <<families, members>>
      <4>1. PICK f \in Family :
              /\ families'[f] =
                   [source_code |-> tx[r].c, session |-> tx[r].s,
                    issued_at |-> tx[r].now, expires_at |-> FamilyExpiry(tx[r]),
                    revoked_at |-> Null]
              /\ \A g \in Family : g # f => families'[g] = families[g]
        BY <1>4, <3>2, ExchangeRows
      <4> QED BY <4>1
    <3> QED BY <3>1, <3>2
  <2> QED BY <2>2, <2>3, <2>4 DEF Winning, Staged
<1>5. ASSUME NEW r \in Req, CommitRotate(r)
      PROVE  UNCHANGED <<codes, families>>
  BY <1>5, RotateRows
<1>6. ASSUME NEW r \in Req, Revokes(r)
      PROVE  /\ UNCHANGED codes
             /\ \A f \in Family : families[f] = Null => families'[f] = Null
  BY <1>6, RevocationRows
<1> QED BY <1>1, <1>2, <1>3, <1>4, <1>5, <1>6, StepKinds DEF Commit, Revokes

LEMMA ActivityEnds ==
  ASSUME IInv, IInv', [Next]_vars, NEW s \in Session, sessions[s] # Null,
         ~SessionActive(sessions[s], clock)
  PROVE  ~SessionActive(sessions[s], clock)'
<1>1. /\ SessionMovesOn(s) /\ clock <= clock'
  BY StepRows DEF RowsMoveOn
<1>2. sessions[s].expires_at \in Nat /\ clock \in Nat /\ clock' \in Nat
  BY RowsTyped DEF IInv, TypeOK, Time
<1> QED BY <1>1, <1>2 DEF SessionMovesOn, SessionActive

(* What is closed stays closed.                                            *)
LEMMA ClosedStays ==
  ASSUME IInv, IInv', [Next]_vars, NEW s, NEW c, CodeClosed(s, c)
  PROVE  CodeClosed(s, c)'
<1>1. /\ s \in Session /\ sessions[s] # Null /\ c \in Code /\ codes[c] # Null
  BY DEF CodeClosed
<1>2. /\ SessionMovesOn(s) /\ CodeMovesOn(c)
      /\ \A f \in Family : FamilyMovesOn(f)
      /\ clock <= clock' /\ clock \in Nat /\ clock' \in Nat
      /\ codes[c].expires_at \in Nat
  BY <1>1, StepRows, RowsTyped DEF RowsMoveOn, IInv, TypeOK, Time
<1>3. sessions'[s] # Null /\ codes'[c] # Null
      /\ codes'[c].expires_at = codes[c].expires_at
  BY <1>1, <1>2 DEF SessionMovesOn, CodeMovesOn
<1>4. CASE ~SessionActive(sessions[s], clock)
  BY <1>1, <1>3, <1>4, ActivityEnds DEF CodeClosed
<1>5. CASE /\ codes[c].consumed_at = Null /\ codes[c].expires_at <= clock
           /\ \A x \in Req : ~Winning(tx[x], c)
  <2>1. codes'[c].consumed_at = Null
    BY <1>1, <1>5, OnlyWinnersRedeem
  <2>2. codes'[c].expires_at <= clock'
    BY <1>2, <1>3, <1>5
  <2>3. ASSUME NEW x \in Req, Winning(tx'[x], c) PROVE FALSE
    BY <1>2, <1>5, <2>3, WinnersDecideInTime
  <2>4. \A x \in Req : ~Winning(tx[x], c)'
    BY <2>3 DEF Winning, Staged
  <2> QED BY <1>1, <1>3, <2>1, <2>2, <2>4 DEF CodeClosed
<1>6. CASE /\ codes[c].consumed_at # Null
           /\ \A f \in FamiliesOfCode(c) : families[f].revoked_at # Null
  <2>1. codes'[c].consumed_at # Null
    BY <1>1, <1>2, <1>6 DEF CodeMovesOn
  <2>2. ASSUME NEW f \in Family, families'[f] # Null,
               families'[f].source_code = c
        PROVE  families'[f].revoked_at # Null
    <3>1. families[f] # Null
      BY <1>6, <2>2, OnlyWinnersRedeem
    <3>2. families[f].source_code = c
      BY <1>2, <2>2, <3>1 DEF FamilyMovesOn
    <3>3. families[f].revoked_at # Null
      BY <1>6, <3>1, <3>2 DEF FamiliesOfCode
    <3> QED BY <1>2, <3>1, <3>3 DEF FamilyMovesOn
  <2> QED BY <1>1, <1>3, <2>1, <2>2 DEF CodeClosed, FamiliesOfCode
<1> QED BY <1>4, <1>5, <1>6 DEF CodeClosed

LEMMA TokenClosedStays ==
  ASSUME IInv, IInv', [Next]_vars, NEW s, NEW f, TokenClosed(s, f)
  PROVE  TokenClosed(s, f)'
<1>1. /\ s \in Session /\ sessions[s] # Null /\ f \in Family /\ families[f] # Null
  BY DEF TokenClosed
<1>2. /\ SessionMovesOn(s) /\ FamilyMovesOn(f)
      /\ clock <= clock' /\ clock \in Nat /\ clock' \in Nat
      /\ families[f].expires_at \in Nat
  BY <1>1, StepRows, RowsTyped DEF RowsMoveOn, IInv, TypeOK, Time
<1>3. CASE ~SessionActive(sessions[s], clock)
  BY <1>1, <1>2, <1>3, ActivityEnds DEF TokenClosed, SessionMovesOn, FamilyMovesOn
<1>4. CASE families[f].expires_at <= clock \/ families[f].revoked_at # Null
  BY <1>1, <1>2, <1>4 DEF TokenClosed, SessionMovesOn, FamilyMovesOn
<1> QED BY <1>3, <1>4 DEF TokenClosed

(* A request that is refused under its locks leaves a closed grant.        *)
LEMMA RefusalByDecision ==
  ASSUME IInv, NEW r \in Req, Decides(r), tx'[r].pc = "idle"
  PROVE  (/\ tx[r].op = "exchange" => CodeClosed(tx[r].s, tx[r].c)
          /\ tx[r].op = "rotate" => TokenClosed(tx[r].s, tx[r].f))'
<1> DEFINE q == tx[r]
<1>0. q \in Request /\ RequestOK(q)
  BY DEF IInv, TypeOK
<1>1. Quiet(r)
  BY DEF Decides, Quiet
<1>2. /\ clock' = clock /\ UNCHANGED <<sessions, codes, families, members>>
      /\ \A x \in Req : x # r => tx'[x] = tx[x]
  BY <1>1, QuietSteps
<1>3. EndsByDecision(r)
  BY DecisionShape DEF GoesOn, StagesByDecision
<1>4. ASSUME tx'[r].op \in {"exchange", "rotate"}
      PROVE  /\ q.pc = "decide" /\ RefusedForReason(q) /\ q.op = tx'[r].op
             /\ tx'[r].s = q.s /\ tx'[r].c = q.c /\ tx'[r].f = q.f
  BY <1>0, <1>3, <1>4, EndedShape DEF EndsByDecision
<1>5. ASSUME tx'[r].op = "exchange", NEW s, NEW c, s = q.s, c = q.c
      PROVE  CodeClosed(s, c)'
  <2>1. /\ q.pc = "decide" /\ q.op = "exchange"
        /\ q.cod.consumed_at = Null /\ ~CodeUsable(q, clock)
    BY <1>4, <1>5 DEF RefusedForReason
  <2>2. /\ s \in Session /\ sessions[s] # Null /\ c \in Code
        /\ codes[c] # Null /\ codes[c].session = s
        /\ q.cod = codes[c] /\ q.ses = sessions[s]
    BY <1>0, <1>5, <2>1 DEF RequestOK, NamesItsRows, ReadsCurrent, Holding
  <2>3. ASSUME NEW x \in Req, Winning(tx'[x], c) PROVE FALSE
    <3>1. x # r /\ tx'[x] = tx[x]
      BY <1>2, <2>3 DEF Winning, Staged
    <3>2. tx[x].pc \in {"staged", "commit"} /\ tx[x].op = "exchange"
          /\ tx[x].c = c /\ RequestOK(tx[x])
      BY <2>3, <3>1 DEF Winning, Staged, IInv
    <3>3. tx[x].s = q.s
      BY <1>5, <2>2, <3>2 DEF RequestOK, NamesItsRows
    <3> QED BY <2>1, <3>1, <3>2, <3>3 DEF IInv, SessionExclusion, Holding
  <2>4. ~SessionActive(sessions[s], clock) \/ codes[c].expires_at <= clock
    <3>1. codes[c].expires_at \in Nat /\ clock \in Nat
      BY <2>2, RowsTyped
    <3> QED BY <2>1, <2>2, <3>1 DEF CodeUsable
  <2>5. \A x \in Req : ~Winning(tx[x], c)'
    BY <2>3 DEF Winning, Staged
  <2>6. CASE ~SessionActive(sessions[s], clock)
    BY <1>2, <2>2, <2>6 DEF CodeClosed, SessionActive
  <2>7. CASE codes[c].expires_at <= clock
    BY <1>2, <2>1, <2>2, <2>5, <2>7 DEF CodeClosed
  <2> QED BY <2>4, <2>6, <2>7
<1>6. ASSUME tx'[r].op = "rotate", NEW s, NEW f, s = q.s, f = q.f
      PROVE  TokenClosed(s, f)'
  <2>1. q.pc = "decide" /\ q.op = "rotate" /\ ~FamilyUsable(q, clock)
    BY <1>4, <1>6 DEF RefusedForReason
  <2>2. /\ s \in Session /\ sessions[s] # Null /\ f \in Family
        /\ families[f] # Null
        /\ q.fam = families[f] /\ q.ses = sessions[s]
    BY <1>0, <1>6, <2>1 DEF RequestOK, NamesItsRows, ReadsCurrent, Holding
  <2>3. families[f].expires_at \in Nat /\ clock \in Nat
    BY <2>2, RowsTyped
  <2> QED BY <1>2, <2>1, <2>2, <2>3 DEF FamilyUsable, TokenClosed, SessionActive
<1> QED BY <1>4, <1>5, <1>6

(* A replay that commits leaves a closed grant too, although it is         *)
(* answered with an error.                                                 *)
LEMMA RefusalByReplay ==
  ASSUME IInv, IInv', RefusalInv, NEW r \in Req, Commit(r)
  PROVE  (/\ tx[r].op = "exchange" => CodeClosed(tx[r].s, tx[r].c)
          /\ tx[r].op = "rotate" => TokenClosed(tx[r].s, tx[r].f))'
<1> DEFINE q == tx[r]
<1>0. q \in Request /\ q.pc = "commit"
      /\ tx'[r] = Ended(q, IF q.replay THEN "invalid_grant" ELSE "ok")
  BY CommitEnds DEF IInv, TypeOK
<1>1. ASSUME tx'[r].op \in {"exchange", "rotate"}
      PROVE  /\ q.replay /\ q.op = tx'[r].op
             /\ tx'[r].s = q.s /\ tx'[r].c = q.c /\ tx'[r].f = q.f
  BY <1>0, <1>1, EndedShape DEF Out
<1>2. ASSUME tx'[r].op \in {"exchange", "rotate"}
      PROVE  Revokes(r)
  BY <1>1, <1>2 DEF Commit, Revokes, CommitIssue, CommitExchange, CommitRotate,
                    Committing
<1>3. /\ NamesItsRows(q) /\ q.now \in Time
      /\ q.op = "exchange" => q.cod = codes[q.c]
  BY <1>0, AtCommit
<1>4. ASSUME tx'[r].op \in {"exchange", "rotate"}
      PROVE  /\ UNCHANGED <<sessions, codes>>
             /\ \A f \in Family : families[f] = Null => families'[f] = Null
             /\ \A f \in RevokedBy(q) : families'[f].revoked_at # Null
             /\ \A f \in Family : families'[f] # Null =>
                  families'[f].source_code = families[f].source_code
  <2>1. /\ UNCHANGED <<sessions, codes>>
        /\ \A f \in Family : families[f] = Null => families'[f] = Null
        /\ \A f \in Family : families[f] # Null =>
             families'[f] = IF f \in RevokedBy(q)
                              THEN Revoked(families[f], q.now)
                              ELSE families[f]
    BY <1>1, <1>2, <1>4, RevocationRows DEF RevokedAt
  <2>2. \A f \in Family : families[f] # Null => families[f] \in FamilyRow
    BY RowsTyped
  <2> QED BY <1>3, <2>1, <2>2, RevokedFamilyRow DEF RevokedBy
<1>5. ASSUME tx'[r].op = "exchange", NEW s, NEW c, s = q.s, c = q.c
      PROVE  CodeClosed(s, c)'
  <2>1. q.op = "exchange" /\ q.replay
    BY <1>1, <1>5
  <2>2. q.cod.consumed_at # Null
    BY <1>0, <2>1 DEF RefusalInv, ReplayHasEvidence, Staged
  <2>3. /\ s \in Session /\ sessions[s] # Null /\ c \in Code
        /\ codes[c] # Null /\ codes[c].consumed_at # Null
    BY <1>3, <1>5, <2>1, <2>2 DEF NamesItsRows
  <2>4. \A f \in Family : families'[f] # Null /\ families'[f].source_code = c =>
          families'[f].revoked_at # Null
    BY <1>4, <1>5, <2>1 DEF RevokedBy
  <2> QED BY <1>4, <1>5, <2>3, <2>4 DEF CodeClosed, FamiliesOfCode
<1>6. ASSUME tx'[r].op = "rotate", NEW s, NEW f, s = q.s, f = q.f
      PROVE  TokenClosed(s, f)'
  <2>1. q.op = "rotate"
    BY <1>1, <1>6
  <2>2. /\ s \in Session /\ sessions[s] # Null
        /\ f \in Family /\ families[f] # Null
    BY <1>3, <1>6, <2>1 DEF NamesItsRows
  <2>3. f \in RevokedBy(q)
    BY <1>6, <2>1, <2>2 DEF RevokedBy
  <2>4. families'[f] # Null
    BY <2>2, CommitRows DEF RowsMoveOn, FamilyMovesOn
  <2> QED BY <1>4, <1>6, <2>2, <2>3, <2>4 DEF TokenClosed
<1> QED BY <1>1, <1>5, <1>6

LEMMA RefusalStep ==
  ASSUME IInv, IInv', RefusalInv, [Next]_vars, NEW x \in Req
  PROVE  (/\ tx[x].pc = "idle" /\ tx[x].op = "exchange"
               => CodeClosed(tx[x].s, tx[x].c)
          /\ tx[x].pc = "idle" /\ tx[x].op = "rotate"
               => TokenClosed(tx[x].s, tx[x].f)
          /\ ReplayHasEvidence(tx[x]))'
<1>0. tx[x] \in Request
  BY DEF IInv, TypeOK
<1>1. CASE tx'[x] = tx[x]
  <2>1. /\ tx[x].pc = "idle" /\ tx[x].op = "exchange"
             => CodeClosed(tx[x].s, tx[x].c)
        /\ tx[x].pc = "idle" /\ tx[x].op = "rotate"
             => TokenClosed(tx[x].s, tx[x].f)
        /\ ReplayHasEvidence(tx[x])
    BY DEF RefusalInv
  <2>2. ASSUME tx[x].pc = "idle" /\ tx[x].op = "exchange"
        PROVE  CodeClosed(tx[x].s, tx[x].c)'
    <3>1. CodeClosed(tx[x].s, tx[x].c)
      BY <2>1, <2>2
    <3>2. ASSUME NEW s, NEW c, CodeClosed(s, c) PROVE CodeClosed(s, c)'
      BY <3>2, ClosedStays
    <3> QED BY <1>1, <3>1, <3>2
  <2>3. ASSUME tx[x].pc = "idle" /\ tx[x].op = "rotate"
        PROVE  TokenClosed(tx[x].s, tx[x].f)'
    <3>1. TokenClosed(tx[x].s, tx[x].f)
      BY <2>1, <2>3
    <3>2. ASSUME NEW s, NEW f, TokenClosed(s, f) PROVE TokenClosed(s, f)'
      BY <3>2, TokenClosedStays
    <3> QED BY <1>1, <3>1, <3>2
  <2> QED BY <1>1, <2>1, <2>2, <2>3
<1>2. CASE Decides(x)
  <2>1. CASE tx'[x].pc = "idle"
    BY <1>2, <2>1, RefusalByDecision DEF ReplayHasEvidence, Staged
  <2>2. CASE tx'[x].pc # "idle"
    <3>1. GoesOn(x)
      BY <1>0, <1>2, <2>2, DecisionShape, EndedShape DEF EndsByDecision
    <3>2. ReplayHasEvidence(tx[x])
      BY DEF RefusalInv
    <3> QED BY <2>2, <3>1, <3>2 DEF GoesOn, StagesByDecision,
                                    ReplayHasEvidence, Staged
  <2> QED BY <2>1, <2>2
<1>3. CASE Start(x)
  BY <1>3, StartShape DEF ReplayHasEvidence, Staged
<1>4. CASE Cancel(x)
  <2>1. tx'[x] = Ended(tx[x], "cancelled")
    BY <1>4 DEF Cancel, End, IInv, TypeOK
  <2>2. tx'[x].pc = "idle" /\ tx'[x].op = "none"
    BY <1>0, <2>1, EndedShape DEF Out
  <2> QED BY <2>2 DEF ReplayHasEvidence, Staged
<1>5. CASE \/ LockSession(x) \/ LockCode(x) \/ LockFamily(x) \/ LockMember(x)
           \/ LeaseLapses(x)
  <2>1. tx'[x].pc # "idle"
    <3>1. CASE LockSession(x)
      <4>1. tx'[x].pc = AfterSession(tx[x].op) /\ tx[x].op \in Op
        BY <1>0, <3>1 DEF LockSession, Request, IInv, TypeOK, RequestOK,
                          NamesItsRows
      <4> QED BY <4>1 DEF AfterSession, Op
    <3>2. CASE LockCode(x) \/ LockFamily(x) \/ LockMember(x) \/ LeaseLapses(x)
      BY <1>0, <3>2 DEF LockCode, LockFamily, LockMember, LeaseLapses,
                        Request, IInv, TypeOK
    <3> QED BY <1>5, <3>1, <3>2
  <2>2. ReplayHasEvidence(tx[x])
    BY DEF RefusalInv
  <2>3. ReplayHasEvidence(tx'[x])
    BY <1>5, <2>2, EarlySteps DEF ReplayHasEvidence, Staged, Waiting
  <2> QED BY <2>1, <2>3
<1>6. CASE Commit(x)
  BY <1>6, RefusalByReplay, CommitEnds DEF ReplayHasEvidence, Staged
<1>7. \/ tx'[x] = tx[x] \/ Quiet(x) \/ Commit(x)
  <2>1. CASE UNCHANGED vars \/ Tick \/ CreateProviderSession
    BY <2>1 DEF vars, Tick, CreateProviderSession
  <2>2. ASSUME NEW r \in Req, Quiet(r) \/ Commit(r)
        PROVE  tx'[x] = tx[x] \/ Quiet(x) \/ Commit(x)
    BY <2>2, QuietSteps, CommitMoves
  <2> QED BY <2>1, <2>2, StepKinds
<1> QED BY <1>1, <1>2, <1>3, <1>4, <1>5, <1>6, <1>7 DEF Quiet, Decides

(* A refusal is final: after invalid_grant, nothing the presented code or  *)
(* token gave access to becomes usable again.                              *)
THEOREM RefusalsAreFinal == Spec => []RefusalIsFinal
<1>1. Init => RefusalInv
  BY DEF Init, RefusalInv, NoRequest, ReplayHasEvidence, Staged
<1>2. IInv /\ IInv' /\ RefusalInv /\ [Next]_vars => RefusalInv'
  BY RefusalStep DEF RefusalInv, ReplayHasEvidence, Staged
<1>3. RefusalInv => RefusalIsFinal
  BY DEF RefusalInv, RefusalIsFinal, CodeClosed, TokenClosed
<1> QED BY <1>1, <1>2, <1>3, Invariance, PTL DEF Spec

-----------------------------------------------------------------------------
(* What a step may never do.                                               *)

(* A request that has staged anything was in order when it decided, and    *)
(* one that is about to commit passed the last check of its lease.         *)
InOrder(q) ==
  q.pc # "idle" =>
    /\ q.op \notin {"exchange", "rotate"} => q.bound /\ q.admits
    /\ Staged(q) => q.bound /\ q.admits
    /\ q.pc = "commit" => q.lease \in {"live", "commit"}

AllInOrder == \A r \in Req : InOrder(tx[r])

LEMMA LockShape ==
  ASSUME IInv, NEW r \in Req,
         LockSession(r) \/ LockCode(r) \/ LockFamily(r) \/ LockMember(r)
  PROVE  /\ tx[r].pc # "idle" /\ tx'[r].pc \in Waiting \cup {"decide"}
         /\ tx'[r].op = tx[r].op
         /\ tx'[r].bound = tx[r].bound /\ tx'[r].admits = tx[r].admits
<1>0. tx \in [Req -> Request] /\ tx[r] \in Request /\ RequestOK(tx[r])
  BY DEF IInv, TypeOK
<1>1. CASE LockSession(r)
  <2>1. tx'[r].pc = AfterSession(tx[r].op) /\ tx[r].op \in Op
    BY <1>0, <1>1 DEF LockSession, Request, RequestOK, NamesItsRows
  <2>2. tx'[r].pc \in Waiting \cup {"decide"}
    BY <2>1 DEF AfterSession, Op, Waiting
  <2> QED BY <1>0, <1>1, <2>2 DEF LockSession, Request
<1>2. CASE LockCode(r) \/ LockFamily(r) \/ LockMember(r)
  BY <1>0, <1>2 DEF LockCode, LockFamily, LockMember, Request, Waiting
<1> QED BY <1>1, <1>2

LEMMA StaysInOrder ==
  ASSUME IInv, [Next]_vars, NEW x \in Req, InOrder(tx[x])
  PROVE  InOrder(tx'[x])
<1>0. tx[x] \in Request /\ tx \in [Req -> Request]
  BY DEF IInv, TypeOK
<1>1. CASE tx'[x] = tx[x]
  BY <1>1
<1>2. CASE Decides(x)
  <2>1. CASE EndsByDecision(x)
    BY <1>0, <2>1, EndedShape DEF EndsByDecision, InOrder
  <2>2. CASE GoesOn(x)
    BY <2>2 DEF GoesOn, StagesByDecision, Admitted, InOrder, Staged
  <2> QED BY <1>2, <2>1, <2>2, DecisionShape
<1>3. CASE Start(x)
  BY <1>3, StartShape DEF InOrder, Staged
<1>4. CASE LockSession(x) \/ LockCode(x) \/ LockFamily(x) \/ LockMember(x)
  BY <1>4, LockShape DEF InOrder, Staged, Waiting
<1>5. CASE Cancel(x)
  <2>1. tx'[x] = Ended(tx[x], "cancelled")
    BY <1>0, <1>5 DEF Cancel, End
  <2> QED BY <1>0, <2>1, EndedShape DEF InOrder, Out
<1>6. CASE LeaseLapses(x)
  <2>1. /\ tx'[x].op = tx[x].op /\ tx'[x].pc = tx[x].pc
        /\ tx'[x].bound = tx[x].bound /\ tx'[x].admits = tx[x].admits
        /\ tx'[x].lease = tx[x].pc /\ tx[x].pc # "idle"
    BY <1>0, <1>6 DEF LeaseLapses, Request
  <2> QED BY <2>1 DEF InOrder, Staged
<1>7. CASE Commit(x)
  BY <1>7, CommitEnds DEF InOrder
<1>8. \/ tx'[x] = tx[x] \/ Quiet(x) \/ Commit(x)
  <2>1. CASE UNCHANGED vars \/ Tick \/ CreateProviderSession
    BY <2>1 DEF vars, Tick, CreateProviderSession
  <2>2. ASSUME NEW r \in Req, Quiet(r) \/ Commit(r)
        PROVE  tx'[x] = tx[x] \/ Quiet(x) \/ Commit(x)
    BY <2>2, QuietSteps, CommitMoves
  <2> QED BY <2>1, <2>2, StepKinds
<1> QED BY <1>1, <1>2, <1>3, <1>4, <1>5, <1>6, <1>7, <1>8 DEF Quiet, Decides

(* Rows change in commits only, and in the commit of one request.          *)
LEMMA ChangesAreCommits ==
  ASSUME IInv, [Next]_vars, NEW r \in Req, tx'[r] # tx[r], tables' # tables
  PROVE  Commit(r)
<1>1. ~(UNCHANGED vars \/ Tick \/ CreateProviderSession)
  BY DEF vars, Tick, CreateProviderSession
<1>2. PICK x \in Req : Quiet(x) \/ Commit(x)
  BY <1>1, StepKinds
<1>3. Commit(x)
  BY <1>2, QuietSteps DEF tables
<1> QED BY <1>3, CommitMoves

(* A request with a wrong binding, one whose registry does not admit the   *)
(* grant, and one whose metadata lease ran out before the last check never *)
(* changes a row.                                                          *)
THEOREM RefusedRequestsChangeNothing == Spec => RefusedChangesNothing
<1>1. Init => AllInOrder
  BY DEF Init, AllInOrder, InOrder, NoRequest
<1>2. IInv /\ AllInOrder /\ [Next]_vars => AllInOrder'
  <2> SUFFICES ASSUME IInv, AllInOrder, [Next]_vars, NEW x \in Req
               PROVE  InOrder(tx'[x])
    BY DEF AllInOrder, InOrder, Staged
  <2> QED BY StaysInOrder DEF AllInOrder
<1>3. IInv /\ AllInOrder /\ [Next]_vars
      => [\A r \in Req :
            tx'[r] # tx[r] /\ tables' # tables =>
              tx[r].bound /\ tx[r].admits /\ tx[r].lease \in {"live", "commit"}]_vars
  <2> SUFFICES ASSUME IInv, AllInOrder, [Next]_vars,
                      NEW r \in Req, tx'[r] # tx[r], tables' # tables
               PROVE  /\ tx[r].bound /\ tx[r].admits
                      /\ tx[r].lease \in {"live", "commit"}
    OBVIOUS
  <2>1. tx[r].pc = "commit"
    BY ChangesAreCommits, CommitEnds
  <2> QED BY <2>1 DEF AllInOrder, InOrder, Staged
<1> QED BY <1>1, <1>2, <1>3, Invariance, PTL DEF Spec, RefusedChangesNothing

(* A replay or a revocation closes only what the presented secret belongs  *)
(* to, and a logout only what its session granted.                         *)
THEOREM RevocationsHitTheirTarget == Spec => RevocationHitsItsTarget
<1>1. IInv /\ IInv' /\ [Next]_vars =>
        [\A r \in Req, f \in Family :
           /\ tx'[r] # tx[r]
           /\ families[f] # Null /\ families'[f] # families[f]
           => \/ tx[r].op = "logout" /\ families[f].session = tx[r].s
              \/ tx[r].op = "exchange" /\ families[f].source_code = tx[r].c
              \/ tx[r].op \in {"rotate", "revoke"} /\ f = tx[r].f]_vars
  <2> SUFFICES ASSUME IInv, IInv', [Next]_vars, NEW r \in Req, NEW f \in Family,
                      tx'[r] # tx[r], families[f] # Null,
                      families'[f] # families[f]
               PROVE  \/ tx[r].op = "logout" /\ families[f].session = tx[r].s
                      \/ /\ tx[r].op = "exchange"
                         /\ families[f].source_code = tx[r].c
                      \/ tx[r].op \in {"rotate", "revoke"} /\ f = tx[r].f
    OBVIOUS
  <2>1. Commit(r)
    BY ChangesAreCommits DEF tables
  <2>2. ~CommitIssue(r) /\ ~CommitRotate(r)
    BY IssueRows, RotateRows
  <2>3. ~CommitExchange(r)
    BY ExchangeRows
  <2>4. Revokes(r)
    BY <2>1, <2>2, <2>3 DEF Commit, Revokes
  <2>5. f \in RevokedBy(tx[r])
        /\ tx[r].op \in {"exchange", "rotate", "revoke", "logout"}
    BY <2>4, RevocationRows
  <2> QED BY <2>5 DEF RevokedBy
<1> QED BY <1>1, Invariance, PTL DEF Spec, RevocationHitsItsTarget

=============================================================================
