----------------------------- MODULE LogoutProofs -----------------------------
(***************************************************************************)
(* Proofs about LogoutStore.  The inductive invariant says what a request  *)
(* knows at each await, that a session's lock has one holder, that every   *)
(* ID token is as old as its session up to the clock skew, and that a used *)
(* challenge and the end of its session are one event.                     *)
(***************************************************************************)
EXTENDS LogoutStore, TLAPS, FiniteSetTheorems

TypeOK ==
  /\ clock \in Time
  /\ sessions \in [Session -> SessionRow \cup {Null}]
  /\ challenges \in [Challenge -> ChallengeRow \cup {Null}]
  /\ tokens \subseteq IdToken /\ reviewed \subseteq Client
  /\ tx \in [Req -> Request]

Holding(q) == q.pc \in {"lock_challenge", "commit"}

SessionExclusion ==
  \A r1, r2 \in Req :
    r1 # r2 /\ Holding(tx[r1]) /\ Holding(tx[r2]) => tx[r1].s # tx[r2].s

(* What a running request names exists; a hint is a token that was issued. *)
NamesItsRows(q) ==
  /\ q.op \in {"begin", "finish", "grant"} /\ q.out = "none"
  /\ q.s \in Session /\ sessions[q.s] # Null
  /\ q.op = "finish" => q.c \in Challenge /\ challenges[q.c] # Null
  /\ q.op = "grant" => q.client \in Client
  /\ q.hint # Null => q.op = "finish" /\ q.hint \in tokens
  /\ q.pc = "lock_challenge" => q.op = "finish"

(* What it has found out under the session's lock still holds when it      *)
(* commits.                                                                *)
MayCommit(q) ==
  /\ sessions[q.s].revoked_at = Null
  /\ q.op = "finish" =>
       /\ challenges[q.c].session = q.s
       /\ challenges[q.c].consumed_at = Null
       /\ q.now < challenges[q.c].expires_at
  /\ q.hint # Null => q.hint.sid = q.s /\ q.hint.aud \in reviewed

RequestOK(q) ==
  q.pc # "idle" => /\ NamesItsRows(q)
                   /\ q.pc = "commit" => MayCommit(q)

(* A token was issued by a clock that is off by at most the skew, after    *)
(* its session began.                                                      *)
TokensPlausible ==
  /\ \A s \in Session : sessions[s] # Null => sessions[s].auth_time <= clock
  /\ \A t \in tokens :
       sessions[t.sid] # Null /\ t.iat >= sessions[t.sid].auth_time - Skew

Used(c) == challenges[c] # Null /\ challenges[c].consumed_at # Null

ChallengesMatch ==
  /\ \A c \in Challenge : challenges[c] # Null =>
       sessions[challenges[c].session] # Null
  /\ \A c \in Challenge : Used(c) =>
       /\ challenges[c].consumed_at = sessions[challenges[c].session].revoked_at
       /\ challenges[c].consumed_at < challenges[c].expires_at
  /\ \A c, d \in Challenge :
       Used(c) /\ Used(d) /\ challenges[c].session = challenges[d].session
       => c = d
  /\ \A s \in Session :
       sessions[s] # Null /\ sessions[s].revoked_at # Null =>
         \E c \in Challenge : Used(c) /\ challenges[c].session = s

IInv ==
  /\ TypeOK /\ SessionExclusion /\ TokensPlausible /\ ChallengesMatch
  /\ \A r \in Req : RequestOK(tx[r])
  /\ LogoutTakesGrants

-----------------------------------------------------------------------------
(* A step that changes one request, and at most lets time pass, keeps the  *)
(* invariant, as long as the new request is consistent with the tables and *)
(* takes no lock that is not free.                                         *)
LEMMA RequestStep ==
  ASSUME IInv, NEW r \in Req, NEW q \in Request,
         tx' = [tx EXCEPT ![r] = q], RequestOK(q),
         Holding(q) => (Holding(tx[r]) /\ q.s = tx[r].s)
                         \/ SessionFree(r, q.s),
         UNCHANGED <<clock, tables, tokens, reviewed>>
  PROVE  IInv'
<1>1. /\ tx' \in [Req -> Request] /\ tx'[r] = q
      /\ \A x \in Req : x # r => tx'[x] = tx[x]
  BY DEF IInv, TypeOK
<1>2. TypeOK'
  BY <1>1 DEF IInv, TypeOK, tables
<1>3. SessionExclusion'
  <2> SUFFICES ASSUME NEW r1 \in Req, NEW r2 \in Req, r1 # r2,
                      Holding(tx'[r1]), Holding(tx'[r2])
               PROVE  tx'[r1].s # tx'[r2].s
    BY DEF SessionExclusion, Holding
  <2>1. ASSUME NEW x \in Req, x # r, Holding(tx[x]), Holding(q)
        PROVE  tx[x].s # q.s
    <3>1. CASE Holding(tx[r]) /\ q.s = tx[r].s
      BY <2>1, <3>1 DEF IInv, SessionExclusion
    <3>2. CASE SessionFree(r, q.s)
      BY <2>1, <3>2 DEF SessionFree, Holding
    <3> QED BY <2>1, <3>1, <3>2
  <2> QED BY <1>1, <2>1 DEF IInv, SessionExclusion
<1>4. ASSUME NEW x \in Req PROVE RequestOK(tx[x])'
  <2>1. RequestOK(tx'[x])
    BY <1>1 DEF IInv
  <2> QED BY <2>1 DEF RequestOK, NamesItsRows, MayCommit, tables
<1>5. TokensPlausible' /\ ChallengesMatch' /\ LogoutTakesGrants'
  BY DEF IInv, TokensPlausible, ChallengesMatch, Used, LogoutTakesGrants,
         tables
<1> QED BY <1>2, <1>3, <1>4, <1>5 DEF IInv

LEMMA EndedTyped ==
  ASSUME NEW q, NEW out \in Out
  PROVE  /\ NoRequest \in Request /\ NoRequest.pc = "idle"
         /\ Ended(q, out) \in Request /\ Ended(q, out).pc = "idle"
BY DEF Ended, NoRequest, Request, Pc, Out, Time

LEMMA EndStep ==
  ASSUME IInv, NEW r \in Req, NEW out \in Out,
         End(r, out) \/ tx' = [tx EXCEPT ![r] = NoRequest],
         UNCHANGED <<clock, tables, tokens, reviewed>>
  PROVE  IInv'
<1>1. PICK q \in Request : q.pc = "idle" /\ tx' = [tx EXCEPT ![r] = q]
  BY EndedTyped DEF End
<1>2. RequestOK(q) /\ ~Holding(q)
  BY <1>1 DEF RequestOK, Holding
<1> QED BY <1>1, <1>2, RequestStep

LEMMA StartStep ==
  ASSUME IInv, NEW r \in Req, Start(r), UNCHANGED reviewed
  PROVE  IInv'
<1>1. ASSUME NEW q \in Request, tx' = [tx EXCEPT ![r] = q],
             q.pc = "lock_session", NamesItsRows(q),
             UNCHANGED <<clock, tables, tokens>>
      PROVE  IInv'
  <2>1. RequestOK(q) /\ ~Holding(q)
    BY <1>1 DEF RequestOK, Holding
  <2> QED BY <1>1, <2>1, RequestStep
<1>2. PICK s \in Session :
        \/ \E client \in Client : StartGrant(r, s, client)
        \/ \E client \in Client \cup {Null} : StartBegin(r, s, client)
        \/ \E c \in Challenge, hint \in tokens \cup {Null}, admits \in BOOLEAN :
             StartFinish(r, s, c, hint, admits)
  BY DEF Start
<1>3. ASSUME NEW client \in Client, StartGrant(r, s, client) PROVE IInv'
  <2> DEFINE q == [NoRequest EXCEPT !.op = "grant", !.pc = "lock_session",
                                    !.s = s, !.client = client]
  <2>1. /\ q \in Request /\ q.pc = "lock_session" /\ q.op = "grant"
        /\ q.s = s /\ q.client = client /\ q.hint = Null /\ q.out = "none"
    BY DEF NoRequest, Request, Pc, Out, Time
  <2>2. NamesItsRows(q)
    BY <1>3, <2>1 DEF NamesItsRows, StartGrant
  <2>3. tx' = [tx EXCEPT ![r] = q] /\ UNCHANGED <<clock, tables, tokens>>
    BY <1>3 DEF StartGrant
  <2> QED BY <1>1, <2>1, <2>2, <2>3
<1>4. ASSUME NEW client \in Client \cup {Null}, StartBegin(r, s, client)
      PROVE  IInv'
  <2> DEFINE q == [NoRequest EXCEPT !.op = "begin", !.pc = "lock_session",
                                    !.s = s, !.client = client]
  <2>1. /\ q \in Request /\ q.pc = "lock_session" /\ q.op = "begin"
        /\ q.s = s /\ q.hint = Null /\ q.out = "none"
    BY DEF NoRequest, Request, Pc, Out, Time
  <2>2. NamesItsRows(q)
    BY <1>4, <2>1 DEF NamesItsRows, StartBegin
  <2>3. tx' = [tx EXCEPT ![r] = q] /\ UNCHANGED <<clock, tables, tokens>>
    BY <1>4 DEF StartBegin
  <2> QED BY <1>1, <2>1, <2>2, <2>3
<1>5. ASSUME NEW c \in Challenge, NEW hint \in tokens \cup {Null},
             NEW admits \in BOOLEAN, StartFinish(r, s, c, hint, admits)
      PROVE  IInv'
  <2> DEFINE q == [NoRequest EXCEPT !.op = "finish", !.pc = "lock_session",
                     !.s = s, !.c = c, !.hint = hint, !.admits = admits]
  <2>0. hint \in IdToken \cup {Null}
    BY DEF IInv, TypeOK
  <2>1. /\ q \in Request /\ q.pc = "lock_session" /\ q.op = "finish"
        /\ q.s = s /\ q.c = c /\ q.hint = hint /\ q.out = "none"
    BY <2>0 DEF NoRequest, Request, Pc, Out, Time
  <2>2. NamesItsRows(q)
    BY <1>5, <2>1 DEF NamesItsRows, StartFinish
  <2>3. tx' = [tx EXCEPT ![r] = q] /\ UNCHANGED <<clock, tables, tokens>>
    BY <1>5 DEF StartFinish
  <2> QED BY <1>1, <2>1, <2>2, <2>3
<1> QED BY <1>2, <1>3, <1>4, <1>5

LEMMA LockStep ==
  ASSUME IInv, NEW r \in Req, LockSession(r) \/ LockChallenge(r),
         UNCHANGED reviewed
  PROVE  IInv'
<1> DEFINE o == tx[r]
<1>0. o \in Request /\ tx \in [Req -> Request] /\ RequestOK(o)
      /\ clock \in Time
  BY DEF IInv, TypeOK
<1>1. UNCHANGED <<clock, tables, tokens, reviewed>>
  BY DEF LockSession, LockChallenge
<1>2. CASE \E out \in Out : End(r, out)
  BY <1>1, <1>2, EndStep
<1>3. CASE LockSession(r) /\ tx' = [tx EXCEPT ![r].pc = "lock_challenge"]
           /\ o.op = "finish"
  <2> DEFINE q == [o EXCEPT !.pc = "lock_challenge"]
  <2>1. /\ q \in Request /\ q.pc = "lock_challenge" /\ q.op = o.op
        /\ q.s = o.s /\ q.c = o.c /\ q.hint = o.hint /\ q.out = o.out
        /\ q.client = o.client
    BY <1>0 DEF Request, Pc
  <2>2. NamesItsRows(o) /\ SessionFree(r, o.s)
    BY <1>0, <1>3 DEF LockSession, RequestOK
  <2>3. RequestOK(q)
    BY <1>3, <2>1, <2>2 DEF RequestOK, NamesItsRows
  <2>4. tx' = [tx EXCEPT ![r] = q]
    BY <1>0, <1>3
  <2> HIDE DEF q
  <2> QED BY <1>1, <2>1, <2>2, <2>3, <2>4, RequestStep
<1>4. ASSUME tx' = [tx EXCEPT ![r].pc = "commit", ![r].now = clock],
             o.pc # "idle",
             Holding(o) \/ SessionFree(r, o.s),
             sessions[o.s].revoked_at = Null,
             o.op = "finish" =>
               /\ challenges[o.c].session = o.s
               /\ challenges[o.c].consumed_at = Null
               /\ clock < challenges[o.c].expires_at,
             o.hint # Null => o.hint.sid = o.s /\ o.hint.aud \in reviewed
      PROVE  IInv'
  <2> DEFINE q == [o EXCEPT !.pc = "commit", !.now = clock]
  <2>1. /\ q \in Request /\ q.pc = "commit" /\ q.op = o.op
        /\ q.s = o.s /\ q.c = o.c /\ q.hint = o.hint /\ q.out = o.out
        /\ q.client = o.client /\ q.now = clock
    BY <1>0 DEF Request, Pc
  <2>2. NamesItsRows(o)
    BY <1>0, <1>4 DEF RequestOK
  <2>3. RequestOK(q)
    BY <1>4, <2>1, <2>2 DEF RequestOK, NamesItsRows, MayCommit
  <2>4. tx' = [tx EXCEPT ![r] = q]
    BY <1>0, <1>4
  <2> HIDE DEF q
  <2> QED BY <1>1, <1>4, <2>1, <2>3, <2>4, RequestStep
<1>5. CASE LockSession(r)
  <2>1. CASE o.op = "finish"
    BY <1>3, <1>5, <2>1 DEF LockSession
  <2>2. CASE o.op # "finish" /\ SessionActive(o.s)
    <3>1. o.pc = "lock_session" /\ SessionFree(r, o.s)
          /\ tx' = [tx EXCEPT ![r].pc = "commit", ![r].now = clock]
      BY <1>5, <2>2 DEF LockSession
    <3>2. NamesItsRows(o)
      BY <1>0, <3>1 DEF RequestOK
    <3> QED BY <1>4, <2>2, <3>1, <3>2 DEF NamesItsRows, SessionActive
  <2>3. CASE o.op # "finish" /\ ~SessionActive(o.s)
    BY <1>2, <1>5, <2>3 DEF LockSession, Out
  <2> QED BY <2>1, <2>2, <2>3
<1>6. CASE LockChallenge(r)
  <2>1. CASE End(r, "invalid_grant") \/ End(r, "ask")
    BY <1>2, <2>1 DEF Out
  <2>2. CASE /\ ChallengeUsable(o) /\ SessionActive(o.s)
             /\ o.hint # Null => HintMatches(o)
             /\ tx' = [tx EXCEPT ![r].pc = "commit", ![r].now = clock]
    <3>1. o.pc = "lock_challenge"
      BY <1>6 DEF LockChallenge
    <3> QED BY <1>4, <2>2, <3>1 DEF ChallengeUsable, SessionActive, HintMatches,
                                    Holding
  <2> QED BY <1>6, <2>1, <2>2 DEF LockChallenge
<1> QED BY <1>5, <1>6

(* A commit ends its request; every other request keeps what it knows,     *)
(* because it holds another session.                                       *)
LEMMA CommitStep ==
  ASSUME IInv, NEW r \in Req, tx[r].pc = "commit", End(r, "ok"),
         clock' = clock, reviewed' = reviewed, tokens \subseteq tokens',
         \A s \in Session :
           /\ sessions[s] # Null => sessions'[s] # Null
           /\ s # tx[r].s => sessions'[s] = sessions[s],
         \A c \in Challenge :
           /\ challenges[c] # Null => challenges'[c] # Null
           /\ challenges[c] # Null /\ challenges[c].session # tx[r].s =>
                challenges'[c] = challenges[c]
  PROVE  /\ tx' \in [Req -> Request] /\ SessionExclusion'
         /\ (\A x \in Req : RequestOK(tx[x]))'
<1>1. /\ tx' \in [Req -> Request] /\ tx'[r].pc = "idle"
      /\ \A x \in Req : x # r => tx'[x] = tx[x]
  BY EndedTyped DEF End, Out, IInv, TypeOK
<1>2. SessionExclusion'
  BY <1>1 DEF IInv, SessionExclusion, Holding
<1>3. ASSUME NEW x \in Req PROVE RequestOK(tx[x])'
  <2>1. CASE x = r
    BY <1>1, <2>1 DEF RequestOK
  <2>2. CASE x # r
    <3>1. tx'[x] = tx[x] /\ RequestOK(tx[x])
      BY <1>1, <2>2 DEF IInv
    <3>2. tx[x].pc = "commit" => tx[x].s # tx[r].s
      BY <2>2 DEF IInv, SessionExclusion, Holding
    <3>3. tx[x].pc # "idle" => NamesItsRows(tx[x])'
      BY <3>1 DEF RequestOK, NamesItsRows
    <3>4. tx[x].pc = "commit" => MayCommit(tx[x])'
      BY <3>1, <3>2 DEF RequestOK, MayCommit, NamesItsRows
    <3> QED BY <3>1, <3>3, <3>4 DEF RequestOK
  <2> QED BY <2>1, <2>2
<1> QED BY <1>1, <1>2, <1>3

LEMMA GrantStep ==
  ASSUME IInv, NEW r \in Req, CommitGrant(r), UNCHANGED reviewed
  PROVE  IInv'
<1> DEFINE q == tx[r]
<1>1. /\ q.pc = "commit" /\ q.op = "grant" /\ q.s \in Session
      /\ sessions[q.s] # Null /\ q.client \in Client
      /\ sessions[q.s].revoked_at = Null
  BY DEF CommitGrant, IInv, RequestOK, NamesItsRows, MayCommit
<1>2. /\ sessions[q.s] \in SessionRow /\ clock \in Nat
      /\ sessions \in [Session -> SessionRow \cup {Null}]
      /\ Skew \in Nat
  BY <1>1, LogoutConstants DEF IInv, TypeOK, Time
<1>3. PICK drift \in (-Skew)..Skew :
        tokens' = tokens \cup
          {[sid |-> q.s, aud |-> q.client, iat |-> clock + drift]}
  BY DEF CommitGrant
<1>4. /\ sessions' = [sessions EXCEPT ![q.s].grants = "live"]
      /\ End(r, "ok") /\ UNCHANGED <<clock, challenges>>
  BY DEF CommitGrant
<1>5. /\ sessions'[q.s] = [sessions[q.s] EXCEPT !.grants = "live"]
      /\ \A s \in Session : s # q.s => sessions'[s] = sessions[s]
      /\ sessions' \in [Session -> SessionRow \cup {Null}]
      /\ sessions'[q.s] \in SessionRow
  BY <1>1, <1>2, <1>4 DEF SessionRow
<1>6. /\ sessions'[q.s].revoked_at = sessions[q.s].revoked_at
      /\ sessions'[q.s].auth_time = sessions[q.s].auth_time
      /\ sessions'[q.s] # Null
  BY <1>2, <1>5, NullIsNoValue DEF SessionRow
<1>7. /\ tx' \in [Req -> Request] /\ SessionExclusion'
      /\ (\A x \in Req : RequestOK(tx[x]))'
  BY <1>1, <1>3, <1>4, <1>5, <1>6, CommitStep
<1>8. TypeOK'
  <2>1. [sid |-> q.s, aud |-> q.client, iat |-> clock + drift] \in IdToken
    BY <1>1, <1>2 DEF IdToken
  <2> QED BY <1>3, <1>4, <1>5, <1>7, <2>1 DEF IInv, TypeOK
<1>9. TokensPlausible'
  <2>0. /\ sessions[q.s].auth_time <= clock
        /\ \A s \in Session : sessions'[s] # Null => sessions'[s].auth_time <= clock'
    BY <1>1, <1>4, <1>5, <1>6 DEF IInv, TokensPlausible
  <2>1. \A t \in tokens : t.sid \in Session
    BY DEF IInv, TypeOK, IdToken
  <2>2. ASSUME NEW t \in tokens
        PROVE  /\ sessions'[t.sid] # Null
               /\ t.iat >= sessions'[t.sid].auth_time - Skew
    BY <1>5, <1>6, <2>1 DEF IInv, TokensPlausible
  <2>3. sessions[q.s].auth_time \in Nat
    BY <1>2 DEF SessionRow, Time
  <2>4. clock + drift >= sessions'[q.s].auth_time - Skew
    BY <1>2, <1>6, <2>0, <2>3
  <2> QED BY <1>3, <1>6, <2>0, <2>2, <2>4 DEF TokensPlausible
<1>10. ChallengesMatch'
  <2>1. \A s \in Session :
          /\ sessions'[s] # Null <=> sessions[s] # Null
          /\ sessions[s] # Null => sessions'[s].revoked_at = sessions[s].revoked_at
    BY <1>1, <1>5, <1>6
  <2>2. \A c \in Challenge : challenges[c] # Null => challenges[c].session \in Session
    BY DEF IInv, TypeOK, ChallengeRow
  <2> QED BY <1>4, <2>1, <2>2 DEF IInv, ChallengesMatch, Used
<1>11. LogoutTakesGrants'
  BY <1>1, <1>5, <1>6 DEF IInv, LogoutTakesGrants
<1> QED BY <1>7, <1>8, <1>9, <1>10, <1>11 DEF IInv

LEMMA BeginStep ==
  ASSUME IInv, NEW r \in Req, CommitBegin(r), UNCHANGED reviewed
  PROVE  IInv'
<1> DEFINE q == tx[r]
<1>1. /\ q.pc = "commit" /\ q.op = "begin" /\ q.s \in Session
      /\ sessions[q.s] # Null /\ q \in Request
  BY DEF CommitBegin, IInv, RequestOK, NamesItsRows, TypeOK
<1>2. PICK c \in Challenge :
        /\ challenges[c] = Null
        /\ challenges' = [challenges EXCEPT ![c] =
             [session |-> q.s, client |-> q.client,
              expires_at |-> ChallengeExpiry(q.now), consumed_at |-> Null]]
  BY DEF CommitBegin
<1>3. End(r, "ok") /\ UNCHANGED <<clock, sessions, tokens>>
  BY DEF CommitBegin
<1>4. ChallengeExpiry(q.now) \in Nat /\ q.client \in Client \cup {Null}
  BY <1>1, LogoutConstants DEF Request, Time, ChallengeExpiry
<1>5. /\ challenges'[c] = [session |-> q.s, client |-> q.client,
                           expires_at |-> ChallengeExpiry(q.now),
                           consumed_at |-> Null]
      /\ \A d \in Challenge : d # c => challenges'[d] = challenges[d]
      /\ challenges' \in [Challenge -> ChallengeRow \cup {Null}]
      /\ challenges'[c] \in ChallengeRow
  <2> DEFINE row == [session |-> q.s, client |-> q.client,
                     expires_at |-> ChallengeExpiry(q.now),
                     consumed_at |-> Null]
  <2>1. row \in ChallengeRow
    BY <1>1, <1>4 DEF ChallengeRow, Time
  <2>2. challenges' = [challenges EXCEPT ![c] = row]
    BY <1>2
  <2> HIDE DEF row
  <2>3. /\ challenges'[c] = row
        /\ \A d \in Challenge : d # c => challenges'[d] = challenges[d]
        /\ challenges' \in [Challenge -> ChallengeRow \cup {Null}]
    BY <1>2, <2>1, <2>2 DEF IInv, TypeOK
  <2> QED BY <2>1, <2>3 DEF row
<1>6. /\ challenges'[c].session = q.s /\ challenges'[c].consumed_at = Null
      /\ challenges'[c] # Null
  BY <1>5, NullIsNoValue
<1>7. /\ tx' \in [Req -> Request] /\ SessionExclusion'
      /\ (\A x \in Req : RequestOK(tx[x]))'
  BY <1>1, <1>2, <1>3, <1>5, CommitStep
<1>8. TypeOK'
  BY <1>3, <1>5, <1>7 DEF IInv, TypeOK
<1>9. ChallengesMatch'
  <2>1. \A d \in Challenge : Used(d)' => d # c /\ Used(d)
    BY <1>5, <1>6 DEF Used
  <2>2. \A d \in Challenge : d # c => challenges'[d] = challenges[d]
    BY <1>5
  <2>3. \A d \in Challenge : challenges'[d] # Null =>
          sessions'[challenges'[d].session] # Null
    BY <1>1, <1>3, <1>6, <2>2 DEF IInv, ChallengesMatch
  <2>4. \A d \in Challenge : Used(d) => d # c /\ Used(d)'
    BY <1>2, <2>2 DEF Used
  <2>5. /\ \A d \in Challenge : Used(d)' =>
             /\ challenges'[d].consumed_at
                  = sessions'[challenges'[d].session].revoked_at
             /\ challenges'[d].consumed_at < challenges'[d].expires_at
        /\ \A d, e \in Challenge :
             Used(d)' /\ Used(e)'
               /\ challenges'[d].session = challenges'[e].session => d = e
    BY <1>3, <2>1, <2>2 DEF IInv, ChallengesMatch
  <2>6. ASSUME NEW s \in Session, sessions'[s] # Null,
               sessions'[s].revoked_at # Null
        PROVE  \E d \in Challenge : Used(d)' /\ challenges'[d].session = s
    BY <1>3, <2>2, <2>4, <2>6 DEF IInv, ChallengesMatch
  <2> QED BY <2>3, <2>5, <2>6 DEF ChallengesMatch
<1>10. TokensPlausible' /\ LogoutTakesGrants'
  BY <1>3 DEF IInv, TokensPlausible, LogoutTakesGrants
<1> QED BY <1>7, <1>8, <1>9, <1>10 DEF IInv

LEMMA FinishStep ==
  ASSUME IInv, NEW r \in Req, CommitFinish(r), UNCHANGED reviewed
  PROVE  IInv'
<1> DEFINE q == tx[r]
           c == tx[r].c
           s == tx[r].s
<1>1. /\ q.pc = "commit" /\ q.op = "finish" /\ s \in Session
      /\ sessions[s] # Null /\ sessions[s].revoked_at = Null
      /\ c \in Challenge /\ challenges[c] # Null
      /\ challenges[c].session = s /\ challenges[c].consumed_at = Null
      /\ q.now < challenges[c].expires_at
  BY DEF CommitFinish, IInv, RequestOK, NamesItsRows, MayCommit
<1>2. /\ sessions[s] \in SessionRow /\ challenges[c] \in ChallengeRow
      /\ q.now \in Nat /\ q.now # Null
      /\ sessions \in [Session -> SessionRow \cup {Null}]
      /\ challenges \in [Challenge -> ChallengeRow \cup {Null}]
  BY <1>1, NullIsNoValue DEF IInv, TypeOK, Request, Time
<1>3. /\ challenges' = [challenges EXCEPT ![c].consumed_at = q.now]
      /\ sessions' = [sessions EXCEPT ![s] = LoggedOut(@, q.now)]
      /\ End(r, "ok") /\ UNCHANGED <<clock, tokens>>
  BY DEF CommitFinish
<1>4. /\ LoggedOut(sessions[s], q.now) \in SessionRow
      /\ LoggedOut(sessions[s], q.now).revoked_at = q.now
      /\ LoggedOut(sessions[s], q.now).auth_time = sessions[s].auth_time
      /\ LoggedOut(sessions[s], q.now).grants # "live"
  BY <1>2 DEF LoggedOut, SessionRow, Time
<1>5. /\ sessions'[s] = LoggedOut(sessions[s], q.now)
      /\ sessions'[s] # Null
      /\ \A z \in Session : z # s => sessions'[z] = sessions[z]
      /\ sessions' \in [Session -> SessionRow \cup {Null}]
  BY <1>1, <1>2, <1>3, <1>4, NullIsNoValue
<1>6. /\ challenges'[c] = [challenges[c] EXCEPT !.consumed_at = q.now]
      /\ \A d \in Challenge : d # c => challenges'[d] = challenges[d]
  BY <1>1, <1>2, <1>3
<1>7. /\ challenges'[c] \in ChallengeRow
      /\ challenges'[c].session = s
      /\ challenges'[c].expires_at = challenges[c].expires_at
      /\ challenges'[c].consumed_at = q.now
  BY <1>1, <1>2, <1>6 DEF ChallengeRow, Time
<1>8. challenges'[c] # Null /\ challenges' \in [Challenge -> ChallengeRow \cup {Null}]
  BY <1>2, <1>3, <1>6, <1>7, NullIsNoValue
<1>9. /\ tx' \in [Req -> Request] /\ SessionExclusion'
      /\ (\A x \in Req : RequestOK(tx[x]))'
  <2>1. \A d \in Challenge : d # c => challenges'[d] = challenges[d]
    BY <1>6
  <2> QED BY <1>1, <1>3, <1>5, <1>8, <2>1, CommitStep
<1>10. TypeOK'
  BY <1>3, <1>5, <1>8, <1>9 DEF IInv, TypeOK
<1>11. TokensPlausible'
  <2>1. \A t \in tokens : t.sid \in Session
    BY DEF IInv, TypeOK, IdToken
  <2>2. \A z \in Session : sessions[z] # Null =>
          sessions'[z] # Null /\ sessions'[z].auth_time = sessions[z].auth_time
    BY <1>4, <1>5
  <2>3. \A z \in Session : sessions'[z] # Null => sessions[z] # Null
    BY <1>1, <1>5
  <2> QED BY <1>3, <2>1, <2>2, <2>3 DEF IInv, TokensPlausible
<1>12. ChallengesMatch'
  <2>1. \A d \in Challenge : d # c => challenges'[d] = challenges[d]
    BY <1>6
  <2>2. \A d \in Challenge : Used(d) => challenges[d].session # s
    BY <1>1 DEF IInv, ChallengesMatch, Used
  <2>3. \A d \in Challenge : d = c => Used(d)'
    BY <1>2, <1>7, <1>8 DEF Used
  <2>4. \A d \in Challenge : d # c => (Used(d)' <=> Used(d))
    BY <2>1 DEF Used
  <2>5. \A d \in Challenge : challenges'[d] # Null =>
          sessions'[challenges'[d].session] # Null
    <3>1. \A d \in Challenge : challenges[d] # Null =>
            challenges[d].session \in Session /\ sessions[challenges[d].session] # Null
      BY DEF IInv, TypeOK, ChallengesMatch, ChallengeRow
    <3> QED BY <1>5, <1>7, <2>1, <3>1
  <2>6. \A d \in Challenge : Used(d)' =>
          /\ challenges'[d].consumed_at =
               sessions'[challenges'[d].session].revoked_at
          /\ challenges'[d].consumed_at < challenges'[d].expires_at
    <3>1. /\ challenges'[c].consumed_at = sessions'[s].revoked_at
          /\ challenges'[c].consumed_at < challenges'[c].expires_at
      BY <1>1, <1>4, <1>5, <1>7
    <3>2. ASSUME NEW d \in Challenge, d # c, Used(d)
          PROVE  /\ challenges'[d].consumed_at =
                      sessions'[challenges'[d].session].revoked_at
                 /\ challenges'[d].consumed_at < challenges'[d].expires_at
      <4>1. challenges'[d] = challenges[d] /\ challenges[d].session # s
            /\ challenges[d].session \in Session
        BY <2>1, <2>2, <3>2 DEF IInv, TypeOK, ChallengeRow, Used
      <4> QED BY <1>5, <3>2, <4>1 DEF IInv, ChallengesMatch
    <3> QED BY <1>7, <2>4, <3>1, <3>2
  <2>7. \A d, e \in Challenge :
          Used(d)' /\ Used(e)' /\ challenges'[d].session = challenges'[e].session
          => d = e
    <3>1. \A d \in Challenge : d # c /\ Used(d)' =>
            Used(d) /\ challenges'[d] = challenges[d] /\ challenges'[d].session # s
      BY <2>1, <2>2, <2>4
    <3> QED BY <1>7, <3>1 DEF IInv, ChallengesMatch
  <2>8. \A z \in Session :
          sessions'[z] # Null /\ sessions'[z].revoked_at # Null =>
            \E d \in Challenge : Used(d)' /\ challenges'[d].session = z
    <3>1. ASSUME NEW z \in Session, z # s, sessions[z] # Null,
                 sessions[z].revoked_at # Null
          PROVE  \E d \in Challenge : Used(d)' /\ challenges'[d].session = z
      <4>1. PICK d \in Challenge : Used(d) /\ challenges[d].session = z
        BY <3>1 DEF IInv, ChallengesMatch
      <4>2. d # c
        BY <1>1, <3>1, <4>1
      <4> QED BY <2>1, <2>4, <4>1, <4>2
    <3> QED BY <1>1, <1>5, <1>7, <2>3, <3>1
  <2>9. \A d \in Challenge : (Used(d))' <=> Used(d)'
    OBVIOUS
  <2> QED BY <2>5, <2>6, <2>7, <2>8 DEF ChallengesMatch
<1>13. LogoutTakesGrants'
  BY <1>4, <1>5 DEF IInv, LogoutTakesGrants
<1> QED BY <1>9, <1>10, <1>11, <1>12, <1>13 DEF IInv

LEMMA EnvironmentStep ==
  ASSUME IInv, Tick \/ \E s \in Session : Login(s), UNCHANGED reviewed
  PROVE  IInv'
<1>1. CASE Tick
  <2>1. clock \in Nat /\ clock' = clock + 1 /\ UNCHANGED <<tables, tokens, tx>>
    BY <1>1 DEF Tick, IInv, TypeOK, Time
  <2>2. TypeOK'
    BY <2>1 DEF IInv, TypeOK, Time, tables
  <2>3. TokensPlausible'
    <3>1. \A s \in Session : sessions[s] # Null => sessions[s].auth_time \in Nat
      BY DEF IInv, TypeOK, SessionRow, Time
    <3> QED BY <2>1, <3>1 DEF IInv, TokensPlausible, tables
  <2>4. SessionExclusion' /\ ChallengesMatch' /\ LogoutTakesGrants'
    BY <2>1 DEF IInv, SessionExclusion, Holding, ChallengesMatch, Used,
                LogoutTakesGrants, tables
  <2>5. \A x \in Req : RequestOK(tx[x])'
    BY <2>1 DEF IInv, RequestOK, NamesItsRows, MayCommit, tables
  <2> QED BY <2>2, <2>3, <2>4, <2>5 DEF IInv
<1>2. ASSUME NEW s \in Session, Login(s) PROVE IInv'
  <2>1. /\ sessions[s] = Null /\ UNCHANGED <<clock, challenges, tokens, tx>>
        /\ sessions' = [sessions EXCEPT ![s] =
             [auth_time |-> clock, expires_at |-> clock + SessionLife,
              revoked_at |-> Null, grants |-> "none"]]
    BY <1>2 DEF Login
  <2>2. /\ sessions'[s] = [auth_time |-> clock,
                           expires_at |-> clock + SessionLife,
                           revoked_at |-> Null, grants |-> "none"]
        /\ \A z \in Session : z # s => sessions'[z] = sessions[z]
        /\ clock \in Nat /\ clock + SessionLife \in Nat
    BY <2>1, LogoutConstants DEF IInv, TypeOK, Time
  <2>3. /\ sessions'[s] \in SessionRow /\ sessions'[s] # Null
        /\ sessions'[s].auth_time = clock /\ sessions'[s].revoked_at = Null
    <3>1. sessions'[s] \in SessionRow
      BY <2>2 DEF SessionRow, Time
    <3> QED BY <2>2, <3>1, NullIsNoValue
  <2>4. \A z \in Session : sessions[z] # Null => sessions'[z] = sessions[z]
    BY <2>1, <2>2
  <2>5. TypeOK'
    BY <2>1, <2>3 DEF IInv, TypeOK
  <2>6. TokensPlausible'
    BY <2>1, <2>2, <2>3, <2>4 DEF IInv, TokensPlausible
  <2>7. ChallengesMatch'
    <3>1. \A d \in Challenge : challenges[d] # Null =>
            challenges[d].session \in Session /\ sessions[challenges[d].session] # Null
      BY DEF IInv, TypeOK, ChallengesMatch, ChallengeRow
    <3> QED BY <2>1, <2>2, <2>3, <2>4, <3>1 DEF IInv, ChallengesMatch, Used
  <2>8. SessionExclusion' /\ LogoutTakesGrants'
    BY <2>1, <2>2, <2>3 DEF IInv, SessionExclusion, Holding, LogoutTakesGrants
  <2>9. ASSUME NEW x \in Req PROVE RequestOK(tx[x])'
    <3>1. RequestOK(tx[x]) /\ tx'[x] = tx[x]
      BY <2>1 DEF IInv
    <3> QED BY <2>1, <2>4, <3>1 DEF RequestOK, NamesItsRows, MayCommit
  <2> QED BY <2>5, <2>6, <2>7, <2>8, <2>9 DEF IInv
<1> QED BY <1>1, <1>2

LEMMA Invariance == Spec => []IInv
<1>1. Init => IInv
  <2> SUFFICES ASSUME Init PROVE IInv
    OBVIOUS
  <2>1. NoRequest \in Request /\ NoRequest.pc = "idle"
    BY EndedTyped DEF Out
  <2>2. TypeOK
    BY <2>1 DEF Init, TypeOK, Time
  <2>3. \A r \in Req : tx[r].pc = "idle"
    BY <2>1 DEF Init
  <2> QED BY <2>2, <2>3 DEF Init, IInv, SessionExclusion, Holding, TokensPlausible,
             ChallengesMatch, Used, RequestOK, LogoutTakesGrants
<1>2. IInv /\ [Next]_vars => IInv'
  <2> SUFFICES ASSUME IInv, [Next]_vars PROVE IInv'
    OBVIOUS
  <2>1. CASE UNCHANGED vars
    <3>1. UNCHANGED <<clock, sessions, challenges, tokens, reviewed, tx>>
      BY <2>1 DEF vars
    <3>2. TypeOK' /\ SessionExclusion' /\ TokensPlausible'
      BY <3>1 DEF IInv, TypeOK, SessionExclusion, Holding, TokensPlausible
    <3>3. ChallengesMatch' /\ LogoutTakesGrants'
      BY <3>1 DEF IInv, ChallengesMatch, Used, LogoutTakesGrants
    <3>4. \A x \in Req : RequestOK(tx[x])'
      BY <3>1 DEF IInv, RequestOK, NamesItsRows, MayCommit
    <3> QED BY <3>2, <3>3, <3>4 DEF IInv
  <2>2. CASE Next
    <3>1. UNCHANGED reviewed
      BY <2>2 DEF Next
    <3>2. CASE Tick \/ \E s \in Session : Login(s)
      BY <3>1, <3>2, EnvironmentStep
    <3>3. ASSUME NEW r \in Req, Cancel(r) PROVE IInv'
      <4>1. /\ tx' = [tx EXCEPT ![r] = NoRequest] /\ "none" \in Out
            /\ UNCHANGED <<clock, tables, tokens>>
        BY <3>3 DEF Cancel, Out
      <4> QED BY <3>1, <4>1, EndStep
    <3>4. ASSUME NEW r \in Req, Start(r) \/ Proceed(r) PROVE IInv'
      BY <3>1, <3>4, StartStep, LockStep, GrantStep, BeginStep, FinishStep
         DEF Proceed
    <3> QED BY <2>2, <3>2, <3>3, <3>4 DEF Next
  <2> QED BY <2>1, <2>2
<1> QED BY <1>1, <1>2, PTL DEF Spec

-----------------------------------------------------------------------------
(* A session ends through exactly one challenge of its own, however many   *)
(* confirmations and hints race for it.                                    *)
THEOREM SessionsEndOnce == Spec => []OneLogoutPerSession
<1>1. IInv => OneLogoutPerSession
  <2> SUFFICES ASSUME IInv, NEW s \in Session
               PROVE  LET used == {c \in Challenge :
                                     /\ challenges[c] # Null
                                     /\ challenges[c].session = s
                                     /\ challenges[c].consumed_at # Null}
                      IN /\ Cardinality(used) <= 1
                         /\ \A c \in used :
                              /\ challenges[c].consumed_at = sessions[s].revoked_at
                              /\ challenges[c].consumed_at < challenges[c].expires_at
                         /\ sessions[s] # Null /\ sessions[s].revoked_at # Null
                              => used # {}
    BY DEF OneLogoutPerSession
  <2> DEFINE used == {c \in Challenge : /\ challenges[c] # Null
                                        /\ challenges[c].session = s
                                        /\ challenges[c].consumed_at # Null}
  <2>1. \A c, d \in used : c = d
    BY DEF IInv, ChallengesMatch, Used
  <2>2. Cardinality(used) <= 1
    <3>1. CASE used = {}
      BY <3>1, FS_EmptySet
    <3>2. CASE used # {}
      <4>1. PICK c \in used : TRUE
        BY <3>2
      <4>2. used = {c}
        BY <2>1, <4>1
      <4>3. Cardinality({c}) = 1
        BY FS_Singleton
      <4> HIDE DEF used
      <4> QED BY <4>2, <4>3
    <3> QED BY <3>1, <3>2
  <2>3. \A c \in used :
          /\ challenges[c].consumed_at = sessions[s].revoked_at
          /\ challenges[c].consumed_at < challenges[c].expires_at
    BY DEF IInv, ChallengesMatch, Used
  <2>4. sessions[s] # Null /\ sessions[s].revoked_at # Null => used # {}
    BY DEF IInv, ChallengesMatch, Used
  <2> QED BY <2>2, <2>3, <2>4
<1> QED BY <1>1, Invariance, PTL

(* A logout takes the session's grants along, also the one that a code     *)
(* exchange was about to add.                                              *)
THEOREM LogoutsTakeGrants == Spec => []LogoutTakesGrants
BY Invariance, PTL DEF IInv

(* Who moves: a step changes the request of at most one slot.              *)
LEMMA OwnStep ==
  ASSUME IInv, Next, NEW r \in Req, tx'[r] # tx[r]
  PROVE  Start(r) \/ Proceed(r) \/ Cancel(r)
<1>1. PICK x \in Req : Start(x) \/ Proceed(x) \/ Cancel(x)
  BY DEF Next, Tick, Login
<1>2. tx \in [Req -> Request]
  BY DEF IInv, TypeOK
<1>3. \A y \in Req : y # x => tx'[y] = tx[y]
  BY <1>1, <1>2 DEF Start, StartGrant, StartBegin, StartFinish, Proceed,
                    LockSession, LockChallenge, CommitGrant, CommitBegin,
                    CommitFinish, Cancel, End
<1> QED BY <1>1, <1>3

(* Without confirmation a session ends only on an ID token of that very    *)
(* session, issued to a reviewed client.                                   *)
THEOREM SilentLogoutsAreOwn == Spec => SilentLogoutIsOwn
<1>1. IInv /\ [Next]_vars =>
        [\A r \in Req :
           tx[r].pc = "commit" /\ tx[r].hint # Null /\ sessions' # sessions
             /\ tx'[r] # tx[r]
           => tx[r].hint.sid = tx[r].s /\ tx[r].hint.aud \in reviewed]_vars
  BY DEF IInv, RequestOK, MayCommit
<1> QED BY <1>1, Invariance, PTL DEF Spec, SilentLogoutIsOwn

(* A hint of the session itself and a reviewed client is never turned into *)
(* a question by the skew between the two clocks.                          *)
THEOREM GenuineHintsNeverAsk == Spec => GenuineHintNeverAsks
<1>1. IInv /\ [Next]_vars =>
        [\A r \in Req :
           tx[r].pc = "lock_challenge" /\ tx'[r].out = "ask" =>
             ~(tx[r].hint.sid = tx[r].s /\ tx[r].hint.aud \in reviewed)]_vars
  <2> SUFFICES ASSUME IInv, Next, NEW r \in Req,
                      tx[r].pc = "lock_challenge", tx'[r].out = "ask",
                      tx[r].hint.sid = tx[r].s, tx[r].hint.aud \in reviewed
               PROVE  FALSE
    BY DEF vars
  <2> DEFINE q == tx[r]
  <2>1. /\ NamesItsRows(q) /\ q.out = "none"
        /\ tx \in [Req -> Request]
    BY DEF IInv, RequestOK, NamesItsRows, TypeOK
  <2>2. tx'[r] # tx[r]
    BY <2>1
  <2>3. Start(r) \/ Proceed(r) \/ Cancel(r)
    BY <2>2, OwnStep
  <2>4. ~Start(r)
    BY DEF Start, StartGrant, StartBegin, StartFinish
  <2>5. ~Cancel(r)
    BY <2>1 DEF Cancel, NoRequest
  <2>6. LockChallenge(r)
    BY <2>3, <2>4, <2>5 DEF Proceed, LockSession, CommitGrant, CommitBegin,
                            CommitFinish
  <2>7. \A out \in Out : End(r, out) => tx'[r].out = out
    BY <2>1 DEF End, Ended, NoRequest
  <2>8. ~(tx' = [tx EXCEPT ![r].pc = "commit", ![r].now = clock])
    BY <2>1 DEF Request
  <2>9. q.hint # Null /\ ~HintMatches(q)
    BY <2>6, <2>7, <2>8 DEF LockChallenge, Out
  <2>10. q.hint \in tokens
    BY <2>1, <2>9 DEF NamesItsRows
  <2> QED BY <2>9, <2>10 DEF HintMatches, IInv, TokensPlausible
<1> QED BY <1>1, Invariance, PTL DEF Spec, GenuineHintNeverAsks

=============================================================================
