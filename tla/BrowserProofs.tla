---------------------------- MODULE BrowserProofs ----------------------------
(***************************************************************************)
(* Proofs about the browser authorizations, first of the store by itself   *)
(* and then of the store as the handlers of WebFlow use it.                *)
(*                                                                         *)
(* The store's inductive invariant says what a request knows at each await *)
(* (Shape, Knows), that each lock has one holder, and how the columns of a *)
(* row, the counters of its claims and codes and the sessions that its     *)
(* callback created belong together (RowOK, SessionOK).                    *)
(***************************************************************************)
EXTENDS WebFlow, FiniteSetTheorems, TLAPS

TypeOK ==
  /\ clock \in Time
  /\ authorizations \in [Auth -> AuthRow \cup {Null}]
  /\ sessions \in [Session -> SessionRow \cup {Null}]
  /\ users \in [Subject -> Auth \cup {Null}]
  /\ claims \in [Auth -> Nat] /\ codes \in [Auth -> Nat]
  /\ tx \in [Req -> Request]

BeginOps == {"begin_google", "begin_authenticated"}
HoldingRow == {"lock_identity", "created", "staged", "commit"}
Created == {"created", "staged", "commit"}

(* The awaits of each operation, and what it names.                        *)
Shape(q) ==
  /\ q.op \in AllOps
  /\ q.op \in BeginOps \cup {"logout"} => q.a = Null
  /\ q.op \in RowOps => q.a \in Auth
  /\ q.op \in ConsentOps \cup {"begin_authenticated", "logout"} => q.s \in Session
  /\ q.op \notin ConsentOps \cup {"begin_authenticated", "logout"} => q.s = Null
  /\ q.op = "complete_callback" => q.sub \in Subject
  /\ q.op # "complete_callback" => q.sub = Null
  /\ q.op = "begin_google" => q.pc \in {"staged", "commit"}
  /\ q.op = "begin_authenticated" => q.pc \in {"lock_session", "staged", "commit"}
  /\ q.op \in {"start_google", "fail_callback"} => q.pc = "lock_row"
  /\ q.op = "claim_callback" => q.pc \in {"lock_row", "commit"}
  /\ q.op \in {"cancel_google", "deny_callback"} =>
       q.pc \in {"lock_row", "staged", "commit"}
  /\ q.op = "complete_callback" => q.pc \in {"lock_row"} \cup HoldingRow
  /\ q.op \in ConsentOps => q.pc \in {"lock_session", "lock_row", "staged", "commit"}
  /\ q.op = "logout" => q.pc \in {"lock_session", "commit"}

(* What it has found in the tables, under its locks.                       *)
Knows(q) ==
  /\ q.a # Null => authorizations[q.a] # Null
  /\ q.s # Null => sessions[q.s] # Null
  /\ q.op \in RowOps /\ q.pc \in HoldingRow => Selects(q)
  /\ q.op = "complete_callback" /\ q.pc \in Created =>
       q.user \in Auth /\ users[q.sub] \in {Null, q.user}
  /\ q.op \in ConsentOps /\ q.pc # "lock_session" => q.ses = sessions[q.s]
  /\ q.op \in ConsentOps /\ q.pc \in {"staged", "commit"} => ~q.ses.revoked
  /\ q.op = "approve_pre_authorized" /\ q.pc \in {"staged", "commit"} =>
       authorizations[q.a].allow
  /\ q.op \in ConsentOps /\ q.pc = "commit" => q.lease \in {"live", "commit"}

RequestOK(q) == q.pc # "idle" => Shape(q) /\ Knows(q)

OneHolder ==
  \A q, r \in Req : q # r =>
    /\ \A s \in Session : ~(HoldsSession(q, s) /\ HoldsSession(r, s))
    /\ \A a \in Auth : ~(HoldsRow(q, a) /\ HoldsRow(r, a))
    /\ \A u \in Subject : ~(HoldsIdentity(q, u) /\ HoldsIdentity(r, u))

RowOK(a) ==
  LET row == authorizations[a] IN
  /\ row = Null => claims[a] = 0 /\ codes[a] = 0
  /\ row # Null =>
       /\ row.verifier <=> row.stage \in {"awaiting_start", "awaiting_google"}
       /\ row.stage \in {"awaiting_start", "awaiting_google"} => claims[a] = 0
       /\ row.stage = "callback_claimed" => claims[a] = 1
       /\ claims[a] <= 1 /\ codes[a] <= 1
       /\ codes[a] = 1 <=> row.stage = "approved"

SessionOK(s) ==
  LET ses == sessions[s] IN
  ses # Null =>
    /\ authorizations[ses.via] # Null
    /\ claims[ses.via] = 1 /\ authorizations[ses.via].session = s
    /\ authorizations[ses.via].stage \in
         {"awaiting_consent", "approved", "denied"}
    /\ ses.user = users[ses.subject]

IInv ==
  /\ TypeOK /\ OneHolder
  /\ \A r \in Req : RequestOK(tx[r])
  /\ \A a \in Auth : RowOK(a)
  /\ \A s \in Session : SessionOK(s)

-----------------------------------------------------------------------------
(* A step that changes one request.                                        *)

(* The locks it takes are free, or it has them already.                    *)
TakesFree(r, q) ==
  /\ q.pc \notin {"idle", "lock_session"} /\ q.s # Null =>
       HoldsSession(r, q.s) \/ SessionFree(r, q.s)
  /\ q.pc \in HoldingRow /\ q.a # Null =>
       HoldsRow(r, q.a) \/ RowFree(r, q.a)
  /\ q.pc \in Created /\ q.sub # Null =>
       HoldsIdentity(r, q.sub) \/ IdentityFree(r, q.sub)

LEMMA LocksStep ==
  ASSUME IInv, NEW r \in Req, NEW q \in Request,
         tx' = [tx EXCEPT ![r] = q], TakesFree(r, q)
  PROVE  OneHolder'
<1>1. /\ tx'[r] = q /\ \A x \in Req : x # r => tx'[x] = tx[x]
  BY DEF IInv, TypeOK
<1>2. ASSUME NEW x \in Req, x # r, NEW s \in Session,
             HoldsSession(x, s), HoldsSession(r, s)'
      PROVE  FALSE
  <2>1. q.s = s /\ q.s # Null /\ q.pc \notin {"idle", "lock_session"}
    BY <1>1, <1>2, BrowserNull DEF HoldsSession
  <2> QED BY <1>2, <2>1 DEF TakesFree, SessionFree, Others, IInv, OneHolder
<1>3. ASSUME NEW x \in Req, x # r, NEW a \in Auth,
             HoldsRow(x, a), HoldsRow(r, a)'
      PROVE  FALSE
  <2>1. q.a = a /\ q.a # Null /\ q.pc \in HoldingRow
    BY <1>1, <1>3, BrowserNull DEF HoldsRow, HoldingRow
  <2> QED BY <1>3, <2>1 DEF TakesFree, RowFree, Others, IInv, OneHolder
<1>4. ASSUME NEW x \in Req, x # r, NEW u \in Subject,
             HoldsIdentity(x, u), HoldsIdentity(r, u)'
      PROVE  FALSE
  <2>1. q.sub = u /\ q.sub # Null /\ q.pc \in Created
    BY <1>1, <1>4, BrowserNull DEF HoldsIdentity, Created
  <2> QED BY <1>4, <2>1 DEF TakesFree, IdentityFree, Others, IInv, OneHolder
<1>5. \A x \in Req : x # r =>
        /\ \A s \in Session : HoldsSession(x, s)' <=> HoldsSession(x, s)
        /\ \A a \in Auth : HoldsRow(x, a)' <=> HoldsRow(x, a)
        /\ \A u \in Subject : HoldsIdentity(x, u)' <=> HoldsIdentity(x, u)
  BY <1>1 DEF HoldsSession, HoldsRow, HoldsIdentity
<1>6. ASSUME NEW x \in Req, NEW y \in Req, x # y
      PROVE  /\ \A s \in Session : ~(HoldsSession(x, s)' /\ HoldsSession(y, s)')
             /\ \A a \in Auth : ~(HoldsRow(x, a)' /\ HoldsRow(y, a)')
             /\ \A u \in Subject : ~(HoldsIdentity(x, u)' /\ HoldsIdentity(y, u)')
  <2>1. CASE x = r
    BY <1>2, <1>3, <1>4, <1>5, <1>6, <2>1
  <2>2. CASE y = r
    BY <1>2, <1>3, <1>4, <1>5, <1>6, <2>2
  <2>3. CASE x # r /\ y # r
    BY <1>5, <1>6, <2>3 DEF IInv, OneHolder
  <2> QED BY <2>1, <2>2, <2>3
<1> QED BY <1>6 DEF OneHolder

(* The tables stay as they are.                                            *)
LEMMA RequestStep ==
  ASSUME IInv, NEW r \in Req, NEW q \in Request,
         tx' = [tx EXCEPT ![r] = q], RequestOK(q), TakesFree(r, q),
         UNCHANGED <<clock, tables>>
  PROVE  IInv'
<1>1. /\ tx' \in [Req -> Request] /\ tx'[r] = q
      /\ \A x \in Req : x # r => tx'[x] = tx[x]
  BY DEF IInv, TypeOK
<1>2. TypeOK'
  BY <1>1 DEF IInv, TypeOK, tables
<1>3. OneHolder'
  BY LocksStep
<1>4. ASSUME NEW x \in Req PROVE RequestOK(tx[x])'
  <2>1. RequestOK(tx'[x])
    BY <1>1 DEF IInv
  <2> QED BY <2>1 DEF RequestOK, Shape, Knows, Selects, tables
<1>5. (\A a \in Auth : RowOK(a))' /\ (\A s \in Session : SessionOK(s))'
  BY DEF IInv, RowOK, SessionOK, tables
<1> QED BY <1>2, <1>3, <1>4, <1>5 DEF IInv

LEMMA EndedTyped ==
  ASSUME NEW q \in Request, NEW out \in Out
  PROVE  /\ NoRequest \in Request /\ NoRequest.pc = "idle"
         /\ Ended(q, out) \in Request /\ Ended(q, out).pc = "idle"
<1>1. NoRequest \in Request /\ NoRequest.pc = "idle"
  BY DEF NoRequest, Request, Pc, Out, Time
<1>2. q.a \in Auth \cup {Null} /\ q.s \in Session \cup {Null}
  BY DEF Request
<1>3. Ended(q, out) \in Request
  <2> DEFINE e1 == [NoRequest EXCEPT !.out = out]
             e2 == [e1 EXCEPT !.a = q.a]
  <2>1. Ended(q, out) = [e2 EXCEPT !.s = q.s]
    BY DEF Ended
  <2>2. e1 \in Request
    BY <1>1 DEF Request
  <2> HIDE DEF e1
  <2>3. e2 \in Request
    BY <1>2, <2>2 DEF Request
  <2> HIDE DEF e2
  <2> QED BY <1>2, <2>1, <2>3 DEF Request
<1>4. Ended(q, out).pc = "idle"
  BY DEF Ended, NoRequest
<1> QED BY <1>1, <1>3, <1>4

(* The parts of a new request that are not given.                          *)
LEMMA Defaults ==
  /\ "none" \in Out /\ 0 \in Time /\ Null \in Auth \cup {Null}
  /\ {"lock_session", "lock_row", "staged", "commit"} \subseteq Pc
  /\ "live" \in {"live"} \cup Pc
  /\ TRUE \in BOOLEAN /\ FALSE \in BOOLEAN
BY DEF Out, Time, Pc

LEMMA IdleOK ==
  ASSUME NEW r \in Req, NEW q, q.pc = "idle"
  PROVE  RequestOK(q) /\ TakesFree(r, q)
BY DEF RequestOK, TakesFree, HoldingRow, Created

LEMMA EndStep ==
  ASSUME IInv, NEW r \in Req, NEW out \in Out,
         End(r, out) \/ tx' = [tx EXCEPT ![r] = NoRequest],
         UNCHANGED <<clock, tables>>
  PROVE  IInv'
<1>1. PICK q \in Request : q.pc = "idle" /\ tx' = [tx EXCEPT ![r] = q]
  BY EndedTyped DEF End, IInv, TypeOK
<1> QED BY <1>1, IdleOK, RequestStep

(* A step that ends one request and changes the tables, but only what no   *)
(* other request has locked: what the others know still holds.             *)
LEMMA CommitStep ==
  ASSUME IInv, NEW r \in Req, NEW q \in Request, q.pc = "idle",
         tx' = [tx EXCEPT ![r] = q],
         \A a \in Auth : authorizations'[a] = authorizations[a] \/
           (authorizations'[a] # Null /\ RowFree(r, a)),
         \A s \in Session : sessions'[s] = sessions[s] \/
           (sessions'[s] # Null /\ SessionFree(r, s)),
         \A u \in Subject : users'[u] = users[u] \/ IdentityFree(r, u)
  PROVE  /\ tx' \in [Req -> Request] /\ OneHolder'
         /\ (\A x \in Req : RequestOK(tx[x]))'
<1>1. /\ tx' \in [Req -> Request] /\ tx'[r] = q
      /\ \A x \in Req : x # r => tx'[x] = tx[x]
  BY DEF IInv, TypeOK
<1>2. OneHolder'
  BY IdleOK, LocksStep
<1>3. ASSUME NEW x \in Req, x # r, NEW o, o = tx[x], o.pc # "idle"
      PROVE  Shape(o) /\ Knows(o)'
  <2>1. o \in Request /\ Shape(o) /\ Knows(o)
    BY <1>3 DEF IInv, TypeOK, RequestOK
  <2>2. o.a # Null => o.a \in Auth /\ authorizations'[o.a] # Null
    BY <2>1 DEF Request, Knows
  <2>3. o.s # Null => o.s \in Session /\ sessions'[o.s] # Null
    BY <2>1 DEF Request, Knows
  <2>4. o.op \in RowOps /\ o.pc \in HoldingRow =>
          authorizations'[o.a] = authorizations[o.a]
    <3> SUFFICES ASSUME o.op \in RowOps, o.pc \in HoldingRow
                 PROVE  authorizations'[o.a] = authorizations[o.a]
      OBVIOUS
    <3>1. o.a \in Auth /\ HoldsRow(x, o.a)
      BY <1>3, <2>1 DEF Shape, HoldsRow, HoldingRow
    <3>2. ~RowFree(r, o.a)
      BY <1>3, <3>1 DEF RowFree, Others
    <3> QED BY <3>1, <3>2
  <2>5. o.op \in ConsentOps /\ o.pc # "lock_session" =>
          sessions'[o.s] = sessions[o.s]
    <3> SUFFICES ASSUME o.op \in ConsentOps, o.pc # "lock_session"
                 PROVE  sessions'[o.s] = sessions[o.s]
      OBVIOUS
    <3>1. o.s \in Session /\ HoldsSession(x, o.s)
      BY <1>3, <2>1 DEF Shape, HoldsSession
    <3>2. ~SessionFree(r, o.s)
      BY <1>3, <3>1 DEF SessionFree, Others
    <3> QED BY <3>1, <3>2
  <2>6. o.op = "complete_callback" /\ o.pc \in Created =>
          users'[o.sub] = users[o.sub]
    <3> SUFFICES ASSUME o.op = "complete_callback", o.pc \in Created
                 PROVE  users'[o.sub] = users[o.sub]
      OBVIOUS
    <3>1. o.sub \in Subject /\ HoldsIdentity(x, o.sub)
      BY <1>3, <2>1 DEF Shape, HoldsIdentity, Created
    <3>2. ~IdentityFree(r, o.sub)
      BY <1>3, <3>1 DEF IdentityFree, Others
    <3> QED BY <3>1, <3>2
  <2>7. Selects(o) /\ authorizations'[o.a] = authorizations[o.a]
          => Selects(o)'
    BY DEF Selects
  <2>8. o.op = "approve_pre_authorized" /\ o.pc \in {"staged", "commit"} =>
          authorizations'[o.a].allow
    BY <2>1, <2>4 DEF Knows, HoldingRow, RowOps, ConsentOps
  <2>9. /\ o.op \in RowOps /\ o.pc \in HoldingRow => Selects(o)'
        /\ o.op = "complete_callback" /\ o.pc \in Created =>
             o.user \in Auth /\ users'[o.sub] \in {Null, o.user}
        /\ o.op \in ConsentOps /\ o.pc # "lock_session" => o.ses = sessions'[o.s]
        /\ o.op \in ConsentOps /\ o.pc \in {"staged", "commit"} => ~o.ses.revoked
        /\ o.op \in ConsentOps /\ o.pc = "commit" => o.lease \in {"live", "commit"}
    BY <2>1, <2>4, <2>5, <2>6, <2>7 DEF Knows
  <2> QED BY <2>1, <2>2, <2>3, <2>8, <2>9 DEF Knows
<1>4. ASSUME NEW x \in Req PROVE RequestOK(tx[x])'
  <2>1. CASE x = r
    BY <1>1, <2>1 DEF RequestOK
  <2>2. CASE x # r
    <3>1. ASSUME NEW o, o = tx[x], o.pc # "idle"
          PROVE  Shape(o) /\ Knows(o)'
      BY <1>3, <2>2, <3>1
    <3>2. PICK o : o = tx[x]
      OBVIOUS
    <3>3. o.pc # "idle" => Shape(o) /\ Knows(o)'
      BY <3>1, <3>2
    <3>4. tx'[x] = o
      BY <1>1, <2>2, <3>2
    <3> QED BY <3>3, <3>4 DEF RequestOK, Shape, Knows, Selects
  <2> QED BY <2>1, <2>2
<1> QED BY <1>1, <1>2, <1>4

-----------------------------------------------------------------------------
(* Starting a request takes no lock.                                       *)

(* What a new request holds: nothing.                                      *)
LEMMA NewRequest ==
  ASSUME IInv, NEW r \in Req, NEW q \in Request,
         Begin(r, q), Shape(q), q.pc \in {"lock_session", "lock_row"},
         q.pc = "lock_row" => q.s = Null,
         q.a # Null => authorizations[q.a] # Null,
         q.s # Null => sessions[q.s] # Null
  PROVE  IInv'
<1>1. Knows(q)
  <2>1. q.op \in ConsentOps => q.pc = "lock_session"
    BY BrowserNull DEF Shape
  <2> QED BY <2>1 DEF Knows, HoldingRow, Created
<1>2. TakesFree(r, q)
  BY DEF TakesFree, HoldingRow, Created
<1> QED BY <1>1, <1>2, RequestStep DEF Begin, RequestOK

LEMMA StartBeginStep ==
  ASSUME IInv, NEW r \in Req, NEW allow \in BOOLEAN,
         \/ StartBeginGoogle(r, allow)
         \/ \E s \in Session : StartBeginAuthenticated(r, s, allow)
  PROVE  IInv'
<1>1. CASE StartBeginGoogle(r, allow)
  <2> DEFINE q == [NoRequest EXCEPT !.op = "begin_google", !.pc = "staged",
                                    !.allow = allow, !.at = clock]
  <2>1. "begin_google" \in AllOps /\ clock \in Time
    BY DEF AllOps, IInv, TypeOK
  <2>2. q \in Request
    BY <2>1, Defaults DEF NoRequest, Request
  <2>3. /\ q.op = "begin_google" /\ q.pc = "staged" /\ q.a = Null /\ q.s = Null
        /\ q.sub = Null
    BY DEF NoRequest
  <2>4. Begin(r, q)
    BY <1>1 DEF StartBeginGoogle
  <2> HIDE DEF q
  <2>5. Shape(q) /\ Knows(q)
    BY <2>1, <2>3 DEF Shape, Knows, RowOps, ClaimOps, ConsentOps, BeginOps
  <2>6. TakesFree(r, q)
    BY <2>3 DEF TakesFree
  <2> QED BY <2>2, <2>4, <2>5, <2>6, RequestStep DEF Begin, RequestOK
<1>2. ASSUME NEW s \in Session, StartBeginAuthenticated(r, s, allow)
      PROVE  IInv'
  <2> DEFINE q == [NoRequest EXCEPT !.op = "begin_authenticated",
                     !.pc = "lock_session", !.s = s, !.allow = allow]
  <2>1. "begin_authenticated" \in AllOps
    BY DEF AllOps
  <2>2. q \in Request
    BY <2>1, Defaults DEF NoRequest, Request
  <2>3. /\ q.op = "begin_authenticated" /\ q.pc = "lock_session" /\ q.a = Null
        /\ q.s = s /\ q.sub = Null
    BY DEF NoRequest
  <2>4. Begin(r, q) /\ sessions[s] # Null
    BY <1>2 DEF StartBeginAuthenticated
  <2> HIDE DEF q
  <2>5. Shape(q)
    BY <2>1, <2>3 DEF Shape, RowOps, ClaimOps, ConsentOps, BeginOps
  <2> QED BY <2>2, <2>3, <2>4, <2>5, NewRequest
<1> QED BY <1>1, <1>2

LEMMA StartRowStep ==
  ASSUME IInv, NEW r \in Req, NEW a \in Auth, NEW admits \in BOOLEAN,
         \/ \E op \in {"start_google", "cancel_google"} :
              StartLanding(r, op, a, admits)
         \/ StartClaim(r, a)
         \/ \E op \in ClaimOps, u \in Subject \cup {Null} :
              /\ op = "complete_callback" => u # Null
              /\ StartClaimed(r, op, a, u, admits)
  PROVE  IInv'
<1>1. ASSUME NEW op \in {"start_google", "cancel_google"},
             StartLanding(r, op, a, admits)
      PROVE  IInv'
  <2> DEFINE q == [NoRequest EXCEPT !.op = op, !.pc = "lock_row", !.a = a,
                                    !.admits = admits]
  <2>1. op \in AllOps
    BY DEF AllOps, RowOps
  <2>2. q \in Request
    BY <2>1, Defaults DEF NoRequest, Request
  <2>3. /\ q.op = op /\ q.pc = "lock_row" /\ q.a = a /\ q.s = Null
        /\ q.sub = Null
    BY DEF NoRequest
  <2>4. /\ Begin(r, IF Unexpired(a) THEN q ELSE Ended(q, "invalid"))
        /\ authorizations[a] # Null
    BY <1>1 DEF StartLanding
  <2> HIDE DEF q
  <2>5. CASE Unexpired(a)
    <3>1. Shape(q)
      BY <2>1, <2>3 DEF Shape, RowOps, ClaimOps, ConsentOps, BeginOps
    <3> QED BY <2>2, <2>3, <2>4, <2>5, <3>1, NewRequest
  <2>6. CASE ~Unexpired(a)
    <3>1. "invalid" \in Out
      BY DEF Out
    <3>2. Ended(q, "invalid") \in Request /\ Ended(q, "invalid").pc = "idle"
      BY <2>2, <3>1, EndedTyped
    <3>3. tx' = [tx EXCEPT ![r] = Ended(q, "invalid")]
          /\ UNCHANGED <<clock, tables>>
      BY <2>4, <2>6 DEF Begin
    <3> QED BY <3>2, <3>3, IdleOK, RequestStep
  <2> QED BY <2>5, <2>6
<1>2. CASE StartClaim(r, a)
  <2> DEFINE q == [NoRequest EXCEPT !.op = "claim_callback", !.pc = "lock_row",
                                    !.a = a]
  <2>1. "claim_callback" \in AllOps
    BY DEF AllOps, RowOps
  <2>2. q \in Request
    BY <2>1, Defaults DEF NoRequest, Request
  <2>3. /\ q.op = "claim_callback" /\ q.pc = "lock_row" /\ q.a = a
        /\ q.s = Null /\ q.sub = Null
    BY DEF NoRequest
  <2>4. Begin(r, q) /\ authorizations[a] # Null
    BY <1>2 DEF StartClaim
  <2> HIDE DEF q
  <2>5. Shape(q)
    BY <2>1, <2>3 DEF Shape, RowOps, ClaimOps, ConsentOps, BeginOps
  <2> QED BY <2>2, <2>3, <2>4, <2>5, NewRequest
<1>3. ASSUME NEW op \in ClaimOps, NEW u \in Subject \cup {Null},
             op = "complete_callback" => u # Null,
             StartClaimed(r, op, a, u, admits)
      PROVE  IInv'
  <2> DEFINE w == IF op = "complete_callback" THEN u ELSE Null
             q == [NoRequest EXCEPT !.op = op, !.pc = "lock_row", !.a = a,
                     !.sub = w, !.admits = admits]
  <2>1. op \in AllOps
    BY DEF AllOps, RowOps
  <2>2. w \in Subject \cup {Null}
    OBVIOUS
  <2>3. Begin(r, q) /\ claims[a] > 0
    BY <1>3 DEF StartClaimed
  <2>4. op = "complete_callback" => w \in Subject
    BY <1>3
  <2>5. op # "complete_callback" => w = Null
    OBVIOUS
  <2> HIDE DEF w
  <2>6. q \in Request
    BY <2>1, <2>2, Defaults DEF NoRequest, Request
  <2>7. /\ q.op = op /\ q.pc = "lock_row" /\ q.a = a
        /\ q.s = Null /\ q.sub = w
    BY DEF NoRequest
  <2> HIDE DEF q
  <2>8. authorizations[a] # Null
    BY <2>3 DEF IInv, RowOK
  <2>9. Shape(q)
    BY <2>1, <2>4, <2>5, <2>7
       DEF Shape, RowOps, ClaimOps, ConsentOps, BeginOps, HoldingRow
  <2> QED BY <2>3, <2>6, <2>7, <2>8, <2>9, NewRequest
<1> QED BY <1>1, <1>2, <1>3

LEMMA StartSessionStep ==
  ASSUME IInv, NEW r \in Req, NEW s \in Session,
         \/ StartLogout(r, s)
         \/ \E op \in ConsentOps, a \in Auth, admits, pre \in BOOLEAN :
              StartConsent(r, op, a, s, admits, pre)
  PROVE  IInv'
<1>1. CASE StartLogout(r, s)
  <2> DEFINE q == [NoRequest EXCEPT !.op = "logout", !.pc = "lock_session",
                                    !.s = s]
  <2>1. "logout" \in AllOps
    BY DEF AllOps
  <2>2. q \in Request
    BY <2>1, Defaults DEF NoRequest, Request
  <2>3. /\ q.op = "logout" /\ q.pc = "lock_session" /\ q.a = Null
        /\ q.s = s /\ q.sub = Null
    BY DEF NoRequest
  <2>4. Begin(r, q) /\ sessions[s] # Null
    BY <1>1 DEF StartLogout
  <2> HIDE DEF q
  <2>5. Shape(q)
    BY <2>1, <2>3 DEF Shape, RowOps, ClaimOps, ConsentOps, BeginOps
  <2> QED BY <2>2, <2>3, <2>4, <2>5, NewRequest
<1>2. ASSUME NEW op \in ConsentOps, NEW a \in Auth, NEW admits \in BOOLEAN,
             NEW pre \in BOOLEAN, StartConsent(r, op, a, s, admits, pre)
      PROVE  IInv'
  <2> DEFINE q == [NoRequest EXCEPT !.op = op, !.pc = "lock_session", !.a = a,
                     !.s = s, !.admits = admits, !.pre = pre]
  <2>1. op \in AllOps
    BY DEF AllOps, RowOps
  <2>2. q \in Request
    BY <2>1, Defaults DEF NoRequest, Request
  <2>3. /\ q.op = op /\ q.pc = "lock_session" /\ q.a = a
        /\ q.s = s /\ q.sub = Null
    BY DEF NoRequest
  <2>4. Begin(r, q) /\ sessions[s] # Null /\ authorizations[a] # Null
    BY <1>2 DEF StartConsent
  <2> HIDE DEF q
  <2>5. Shape(q)
    BY <2>1, <2>3 DEF Shape, RowOps, ClaimOps, ConsentOps, BeginOps
  <2> QED BY <2>2, <2>3, <2>4, <2>5, NewRequest
<1> QED BY <1>1, <1>2

-----------------------------------------------------------------------------
(* Under the locks.                                                        *)

LEMMA Errors ==
  ASSUME NEW q
  PROVE  PolicyError(q) \in Out /\ {"ok", "invalid", "not_pre_authorized",
                                    "cancelled"} \subseteq Out
BY DEF PolicyError, Out

(* A request goes on from one await to the next, with what it has learned. *)
LEMMA PcStep ==
  ASSUME IInv, NEW r \in Req, tx[r].pc # "idle", NEW q \in Request,
         tx' = [tx EXCEPT ![r] = q], UNCHANGED <<clock, tables>>,
         q.op = tx[r].op, q.a = tx[r].a, q.s = tx[r].s, q.sub = tx[r].sub,
         Shape(q),
         q.op \in RowOps /\ q.pc \in HoldingRow => Selects(q),
         q.op = "complete_callback" /\ q.pc \in Created =>
           q.user \in Auth /\ users[q.sub] \in {Null, q.user},
         q.op \in ConsentOps /\ q.pc # "lock_session" => q.ses = sessions[q.s],
         q.op \in ConsentOps /\ q.pc \in {"staged", "commit"} => ~q.ses.revoked,
         q.op = "approve_pre_authorized" /\ q.pc \in {"staged", "commit"} =>
           authorizations[q.a].allow,
         q.op \in ConsentOps /\ q.pc = "commit" => q.lease \in {"live", "commit"},
         TakesFree(r, q)
  PROVE  IInv'
<1>1. Knows(tx[r])
  BY DEF IInv, RequestOK
<1>2. /\ q.a # Null => authorizations[q.a] # Null
      /\ q.s # Null => sessions[q.s] # Null
  BY <1>1 DEF Knows
<1>3. RequestOK(q)
  BY <1>2 DEF RequestOK, Knows
<1> QED BY <1>3, RequestStep

(* The session a consent was read under stays as it was read: its lock is  *)
(* held from then on.                                                      *)
LEMMA LockSessionStep ==
  ASSUME IInv, NEW r \in Req, LockSession(r)
  PROVE  IInv'
<1> DEFINE o == tx[r]
<1>1. /\ o \in Request /\ tx \in [Req -> Request] /\ Shape(o) /\ Knows(o)
      /\ o.pc = "lock_session" /\ SessionFree(r, o.s)
      /\ UNCHANGED <<clock, tables>> /\ clock \in Time
  BY DEF IInv, TypeOK, LockSession, RequestOK
<1>2. /\ "commit" \in Pc /\ "staged" \in Pc /\ "lock_row" \in Pc
  BY DEF Pc
<1>3. CASE \E out \in Out : End(r, out)
  BY <1>1, <1>3, EndStep
<1>4. CASE o.op = "logout" /\ tx' = [tx EXCEPT ![r].pc = "commit"]
  <2> DEFINE q == [o EXCEPT !.pc = "commit"]
  <2>1. q \in Request
    BY <1>1, <1>2 DEF Request
  <2>2. /\ q.op = o.op /\ q.a = o.a /\ q.s = o.s /\ q.sub = o.sub
        /\ q.pc = "commit"
    BY <1>1 DEF Request
  <2>3. tx' = [tx EXCEPT ![r] = q]
    BY <1>1, <1>4
  <2> HIDE DEF q
  <2>4. Shape(q) /\ q.a = Null /\ q.sub = Null
    BY <1>1, <1>4, <2>2
       DEF Shape, RowOps, ClaimOps, ConsentOps, BeginOps
  <2>5. TakesFree(r, q)
    BY <1>1, <2>2, <2>4 DEF TakesFree
  <2>6. q.op \notin RowOps /\ q.op \notin ConsentOps
        /\ q.op # "complete_callback" /\ q.op # "approve_pre_authorized"
    BY <1>4, <2>2 DEF RowOps, ClaimOps, ConsentOps
  <2> QED BY <1>1, <2>1, <2>2, <2>3, <2>4, <2>5, <2>6, PcStep
<1>5. CASE /\ o.op = "begin_authenticated"
           /\ tx' = [tx EXCEPT ![r].pc = "staged", ![r].at = clock]
  <2> DEFINE q == [o EXCEPT !.pc = "staged", !.at = clock]
  <2>1. q \in Request
    BY <1>1, <1>2 DEF Request
  <2>2. /\ q.op = o.op /\ q.a = o.a /\ q.s = o.s /\ q.sub = o.sub
        /\ q.pc = "staged"
    BY <1>1 DEF Request
  <2>3. tx' = [tx EXCEPT ![r] = q]
    BY <1>1, <1>5
  <2> HIDE DEF q
  <2>4. Shape(q) /\ q.a = Null /\ q.sub = Null
    BY <1>1, <1>5, <2>2
       DEF Shape, RowOps, ClaimOps, ConsentOps, BeginOps
  <2>5. TakesFree(r, q)
    BY <1>1, <2>2, <2>4 DEF TakesFree
  <2>6. q.op \notin RowOps /\ q.op \notin ConsentOps
        /\ q.op # "complete_callback" /\ q.op # "approve_pre_authorized"
    BY <1>5, <2>2 DEF RowOps, ClaimOps, ConsentOps
  <2> QED BY <1>1, <2>1, <2>2, <2>3, <2>4, <2>5, <2>6, PcStep
<1>6. CASE /\ o.op \in ConsentOps
           /\ tx' = [tx EXCEPT ![r].pc = "lock_row", ![r].ses = sessions[o.s]]
  <2> DEFINE q == [o EXCEPT !.pc = "lock_row", !.ses = sessions[o.s]]
  <2>1. o.s \in Session /\ sessions[o.s] \in SessionRow \cup {Null}
    BY <1>1, <1>6 DEF Shape, IInv, TypeOK
  <2>2. q \in Request
    BY <1>1, <1>2, <2>1 DEF Request
  <2>3. /\ q.op = o.op /\ q.a = o.a /\ q.s = o.s /\ q.sub = o.sub
        /\ q.pc = "lock_row" /\ q.ses = sessions[o.s]
    BY <1>1 DEF Request
  <2>4. tx' = [tx EXCEPT ![r] = q]
    BY <1>1, <1>6
  <2> HIDE DEF q
  <2>5. Shape(q)
    BY <1>1, <1>6, <2>3
       DEF Shape, RowOps, ClaimOps, ConsentOps, BeginOps
  <2>6. TakesFree(r, q)
    BY <1>1, <2>3 DEF TakesFree, HoldingRow, Created
  <2>7. q.pc \notin HoldingRow /\ q.pc \notin Created
    BY <2>3 DEF HoldingRow, Created
  <2> QED BY <1>1, <2>2, <2>3, <2>4, <2>5, <2>6, <2>7, PcStep
<1>7. {"invalid", "metadata_expired"} \subseteq Out
  BY DEF Out
<1> QED BY <1>3, <1>4, <1>5, <1>6, <1>7 DEF LockSession

(* The row's lock is taken: the request knows that its row is as expected, *)
(* and goes on to the next await.                                          *)
LEMMA RowLockedStep ==
  ASSUME IInv, NEW r \in Req, NEW ops, RowLocked(r, ops), NEW q \in Request,
         tx' = [tx EXCEPT ![r] = q], UNCHANGED <<clock, tables>>,
         q.op = tx[r].op, q.a = tx[r].a, q.s = tx[r].s, q.sub = tx[r].sub,
         q.ses = tx[r].ses, q.pc \in HoldingRow, q.pc = "lock_identity"
           \/ q.op # "complete_callback",
         Shape(q),
         q.op \in ConsentOps =>
           /\ ~q.ses.revoked /\ q.pc = "staged"
           /\ q.op = "approve_pre_authorized" => authorizations[q.a].allow
  PROVE  IInv'
<1> DEFINE o == tx[r]
<1>1. /\ o \in Request /\ Shape(o) /\ Knows(o) /\ o.pc = "lock_row"
      /\ Selects(o) /\ RowFree(r, o.a)
  BY DEF IInv, TypeOK, RowLocked, RequestOK
<1>2. Selects(q)
  BY <1>1 DEF Selects
<1>3. q.op = "complete_callback" => q.pc \notin Created
  BY DEF Created
<1>4. q.op \in ConsentOps => q.ses = sessions[q.s]
  BY <1>1 DEF Knows
<1>5. TakesFree(r, q)
  <2>1. q.s # Null => HoldsSession(r, q.s)
    BY <1>1 DEF HoldsSession
  <2>2. q.pc \in Created => q.sub = Null
    BY <1>3 DEF Shape
  <2> QED BY <1>1, <2>1, <2>2 DEF TakesFree
<1>6. q.op = "approve_pre_authorized" => q.op \in ConsentOps
  BY DEF ConsentOps
<1>7. q.op \in ConsentOps => q.pc # "commit"
  OBVIOUS
<1> QED BY <1>1, <1>2, <1>3, <1>4, <1>5, <1>6, <1>7, PcStep

LEMMA LockRowStep ==
  ASSUME IInv, NEW r \in Req,
         LockClaim(r) \/ LockDenial(r) \/ LockCompletion(r) \/ LockConsent(r)
  PROVE  IInv'
<1> DEFINE o == tx[r]
<1>1. /\ o \in Request /\ tx \in [Req -> Request]
      /\ o.pc = "lock_row" /\ Shape(o) /\ Knows(o)
      /\ UNCHANGED <<clock, tables>> /\ clock \in Time
  BY DEF IInv, TypeOK, LockClaim, LockDenial, LockCompletion, LockConsent,
         RowLocked, RequestOK
<1>2. /\ "commit" \in Pc /\ "staged" \in Pc /\ "lock_identity" \in Pc
  BY DEF Pc
<1>3. CASE \E out \in Out : End(r, out)
  BY <1>1, <1>3, EndStep
<1>4. CASE /\ RowLocked(r, {"claim_callback"})
           /\ tx' = [tx EXCEPT ![r].pc = "commit", ![r].late = ~Unexpired(o.a)]
  <2> DEFINE late == ~Unexpired(o.a)
             q == [o EXCEPT !.pc = "commit", !.late = late]
  <2>1. late \in BOOLEAN
    OBVIOUS
  <2>2. tx' = [tx EXCEPT ![r] = q]
    BY <1>1, <1>4
  <2> HIDE DEF late
  <2>3. q \in Request
    BY <1>1, <1>2, <2>1 DEF Request
  <2>4. /\ q.op = o.op /\ q.a = o.a /\ q.s = o.s /\ q.sub = o.sub
        /\ q.pc = "commit" /\ q.ses = o.ses
    BY <1>1 DEF Request
  <2> HIDE DEF q
  <2>5. /\ Shape(q) /\ q.op = "claim_callback" /\ q.op \notin ConsentOps
    BY <1>1, <1>4, <2>4
       DEF Shape, RowOps, ClaimOps, ConsentOps, BeginOps, RowLocked
  <2>6. q.pc \in HoldingRow
    BY <2>4 DEF HoldingRow
  <2> QED BY <1>1, <1>4, <2>2, <2>3, <2>4, <2>5, <2>6, RowLockedStep
<1>5. CASE /\ RowLocked(r, {"cancel_google", "deny_callback"})
           /\ tx' = [tx EXCEPT ![r].pc = "staged"]
  <2> DEFINE q == [o EXCEPT !.pc = "staged"]
  <2>1. q \in Request
    BY <1>1, <1>2 DEF Request
  <2>2. /\ q.op = o.op /\ q.a = o.a /\ q.s = o.s /\ q.sub = o.sub
        /\ q.pc = "staged" /\ q.ses = o.ses
    BY <1>1 DEF Request
  <2>3. tx' = [tx EXCEPT ![r] = q]
    BY <1>1, <1>5
  <2> HIDE DEF q
  <2>4. /\ Shape(q) /\ q.op # "complete_callback" /\ q.op \notin ConsentOps
    BY <1>1, <1>5, <2>2
       DEF Shape, RowOps, ClaimOps, ConsentOps, BeginOps, RowLocked
  <2>5. q.pc \in HoldingRow
    BY <2>2 DEF HoldingRow
  <2> QED BY <1>1, <1>5, <2>1, <2>2, <2>3, <2>4, <2>5, RowLockedStep
<1>6. CASE /\ RowLocked(r, {"complete_callback"})
           /\ tx' = [tx EXCEPT ![r].pc = "lock_identity"]
  <2> DEFINE q == [o EXCEPT !.pc = "lock_identity"]
  <2>1. q \in Request
    BY <1>1, <1>2 DEF Request
  <2>2. /\ q.op = o.op /\ q.a = o.a /\ q.s = o.s /\ q.sub = o.sub
        /\ q.pc = "lock_identity" /\ q.ses = o.ses
    BY <1>1 DEF Request
  <2>3. tx' = [tx EXCEPT ![r] = q]
    BY <1>1, <1>6
  <2> HIDE DEF q
  <2>4. /\ Shape(q) /\ q.op \notin ConsentOps
    BY <1>1, <1>6, <2>2
       DEF Shape, RowOps, ClaimOps, ConsentOps, BeginOps, RowLocked, HoldingRow
  <2>5. q.pc \in HoldingRow
    BY <2>2 DEF HoldingRow
  <2> QED BY <1>1, <1>6, <2>1, <2>2, <2>3, <2>4, <2>5, RowLockedStep
<1>7. CASE /\ RowLocked(r, ConsentOps) /\ SessionFresh(o.ses, clock)
           /\ o.op = "approve_pre_authorized" => PreAuthorized(o)
           /\ tx' = [tx EXCEPT ![r].pc = "staged"]
  <2> DEFINE q == [o EXCEPT !.pc = "staged"]
  <2>1. q \in Request
    BY <1>1, <1>2 DEF Request
  <2>2. /\ q.op = o.op /\ q.a = o.a /\ q.s = o.s /\ q.sub = o.sub
        /\ q.pc = "staged" /\ q.ses = o.ses
    BY <1>1 DEF Request
  <2>3. tx' = [tx EXCEPT ![r] = q]
    BY <1>1, <1>7
  <2> HIDE DEF q
  <2>4. /\ Shape(q) /\ q.op # "complete_callback"
    BY <1>1, <1>7, <2>2
       DEF Shape, RowOps, ClaimOps, ConsentOps, BeginOps, RowLocked
  <2>5. q.pc \in HoldingRow
    BY <2>2 DEF HoldingRow
  <2>6. /\ ~q.ses.revoked
        /\ q.op = "approve_pre_authorized" => authorizations[q.a].allow
    BY <1>7, <2>2 DEF SessionFresh, PreAuthorized
  <2> QED BY <1>1, <1>7, <2>1, <2>2, <2>3, <2>4, <2>5, <2>6, RowLockedStep
<1>8. \/ \E out \in Out : End(r, out)
      \/ /\ RowLocked(r, {"claim_callback"})
         /\ tx' = [tx EXCEPT ![r].pc = "commit", ![r].late = ~Unexpired(o.a)]
      \/ /\ RowLocked(r, {"cancel_google", "deny_callback"})
         /\ tx' = [tx EXCEPT ![r].pc = "staged"]
      \/ /\ RowLocked(r, {"complete_callback"})
         /\ tx' = [tx EXCEPT ![r].pc = "lock_identity"]
      \/ /\ RowLocked(r, ConsentOps) /\ SessionFresh(o.ses, clock)
         /\ o.op = "approve_pre_authorized" => PreAuthorized(o)
         /\ tx' = [tx EXCEPT ![r].pc = "staged"]
  BY Errors DEF LockClaim, LockDenial, LockCompletion, LockConsent
<1> QED BY <1>3, <1>4, <1>5, <1>6, <1>7, <1>8

(* The subject's user is read, or invented, under the advisory lock.       *)
LEMMA LockIdentityStep ==
  ASSUME IInv, NEW r \in Req, LockIdentity(r)
  PROVE  IInv'
<1> DEFINE o == tx[r]
<1>1. /\ o \in Request /\ tx \in [Req -> Request]
      /\ o.pc = "lock_identity" /\ Shape(o) /\ Knows(o)
      /\ UNCHANGED <<clock, tables>> /\ clock \in Time
      /\ IdentityFree(r, o.sub)
  BY DEF IInv, TypeOK, LockIdentity, RequestOK
<1>2. CASE \E out \in Out : End(r, out)
  BY <1>1, <1>2, EndStep
<1> DEFINE user == IF users[o.sub] = Null THEN o.a ELSE users[o.sub]
           q == [o EXCEPT !.pc = "created", !.at = clock, !.user = user]
<1>3. CASE tx' = [tx EXCEPT ![r].pc = "created", ![r].at = clock,
                    ![r].user = user]
  <2>1. /\ o.op = "complete_callback" /\ o.a \in Auth /\ o.sub \in Subject
    BY <1>1 DEF Shape, AllOps, RowOps, ClaimOps, ConsentOps, BeginOps
  <2>2. user \in Auth /\ users[o.sub] \in {Null, user}
    BY <2>1 DEF IInv, TypeOK
  <2>3. tx' = [tx EXCEPT ![r] = q]
    BY <1>1, <1>3
  <2> HIDE DEF user
  <2>4. "created" \in Pc
    BY DEF Pc
  <2>5. q \in Request
    BY <1>1, <2>2, <2>4 DEF Request
  <2>6. /\ q.op = o.op /\ q.a = o.a /\ q.s = o.s /\ q.sub = o.sub
        /\ q.pc = "created" /\ q.user = user
    BY <1>1 DEF Request
  <2> HIDE DEF q
  <2>7. Shape(q) /\ q.op \notin ConsentOps
        /\ q.op # "approve_pre_authorized" /\ q.s = Null
    BY <1>1, <2>1, <2>6
       DEF Shape, RowOps, ClaimOps, ConsentOps, BeginOps, HoldingRow
  <2>8. Selects(q)
    <3>1. Selects(o)
      BY <1>1, <2>1 DEF Knows, RowOps, ClaimOps, HoldingRow
    <3> QED BY <2>6, <3>1 DEF Selects
  <2>9. TakesFree(r, q)
    <3>1. HoldsRow(r, q.a)
      BY <1>1, <2>6 DEF HoldsRow
    <3> QED BY <1>1, <2>6, <2>7, <3>1 DEF TakesFree
  <2> QED BY <1>1, <2>2, <2>3, <2>5, <2>6, <2>7, <2>8, <2>9, PcStep
<1>4. CASE LockIdentity(r)
  BY <1>2, <1>3, Errors DEF LockIdentity
<1> QED BY <1>4

(* The next await, with the locks and the knowledge the request has.       *)
LEMMA NextAwaitStep ==
  ASSUME IInv, NEW r \in Req, NEW pc \in Pc,
         tx' = [tx EXCEPT ![r].pc = pc], UNCHANGED <<clock, tables>>,
         \/ tx[r].pc = "created" /\ pc = "staged"
         \/ tx[r].pc = "staged" /\ pc = "commit" /\ tx[r].lease = "live"
  PROVE  IInv'
<1> DEFINE o == tx[r]
           q == [o EXCEPT !.pc = pc]
<1>1. /\ o \in Request /\ tx \in [Req -> Request] /\ Shape(o) /\ Knows(o)
      /\ o.pc \in Created /\ pc \in {"staged", "commit"}
      /\ pc = "commit" => o.lease = "live"
  BY DEF IInv, TypeOK, RequestOK, Created
<1>2. q \in Request
  BY <1>1 DEF Request
<1>3. /\ q.op = o.op /\ q.a = o.a /\ q.s = o.s /\ q.sub = o.sub
      /\ q.pc = pc /\ q.user = o.user /\ q.ses = o.ses /\ q.lease = o.lease
  BY <1>1 DEF Request
<1>4. tx' = [tx EXCEPT ![r] = q]
  BY <1>1
<1> HIDE DEF q
<1>5. pc \in HoldingRow /\ pc \in Created /\ o.pc \in HoldingRow
      /\ o.pc \notin {"idle", "lock_session", "lock_row"}
  BY <1>1 DEF HoldingRow, Created
<1>6. q.op \in ConsentOps => o.pc = "staged"
  BY <1>1, <1>3 DEF Shape, Created
<1>7. Shape(q)
  <2>1. o.op \notin {"start_google", "fail_callback"}
    BY <1>1, <1>5 DEF Shape
  <2>2. o.op = "claim_callback" => pc = "commit"
    BY <1>1 DEF Shape
  <2>3. o.op = "logout" => pc = "commit"
    BY <1>1 DEF Shape
  <2> QED BY <1>1, <1>3, <1>5, <2>1, <2>2, <2>3 DEF Shape
<1>8. Selects(o) => Selects(q)
  BY <1>3 DEF Selects
<1>9. /\ q.op \in RowOps => Selects(q)
      /\ q.op = "complete_callback" =>
           q.user \in Auth /\ users[q.sub] \in {Null, q.user}
      /\ q.op \in ConsentOps => q.ses = sessions[q.s]
      /\ q.op \in ConsentOps => ~q.ses.revoked
      /\ q.op = "approve_pre_authorized" => authorizations[q.a].allow
  <2>1. q.op = "approve_pre_authorized" => q.op \in ConsentOps
    BY DEF ConsentOps
  <2> QED BY <1>1, <1>3, <1>5, <1>6, <1>8, <2>1 DEF Knows
<1>10. TakesFree(r, q)
  <2>1. q.s # Null => HoldsSession(r, q.s)
    BY <1>3, <1>5 DEF HoldsSession
  <2>2. q.a # Null => HoldsRow(r, q.a)
    BY <1>3, <1>5 DEF HoldsRow, HoldingRow
  <2>3. q.sub # Null => HoldsIdentity(r, q.sub)
    BY <1>1, <1>3 DEF HoldsIdentity, Created
  <2> QED BY <2>1, <2>2, <2>3 DEF TakesFree
<1>11. q.pc = "commit" => q.lease \in {"live", "commit"}
  BY <1>1, <1>3
<1>12. o.pc # "idle"
  BY <1>5
<1> QED BY <1>2, <1>3, <1>4, <1>7, <1>9, <1>10, <1>11, <1>12, PcStep

LEMMA LastCheckStep ==
  ASSUME IInv, NEW r \in Req, LastCheck(r)
  PROVE  IInv'
<1>1. UNCHANGED <<clock, tables>> /\ tx[r].pc = "staged" /\ "commit" \in Pc
  BY DEF LastCheck, Pc
<1>2. CASE \E out \in Out : End(r, out)
  BY <1>1, <1>2, EndStep
<1>3. CASE tx' = [tx EXCEPT ![r].pc = "commit"] /\ tx[r].lease = "live"
  BY <1>1, <1>3, NextAwaitStep
<1> QED BY <1>2, <1>3, Errors DEF LastCheck, Policy

(* A lease that runs out is remembered with the await at which it did.     *)
LEMMA LeaseStep ==
  ASSUME IInv, NEW r \in Req, LeaseLapses(r)
  PROVE  IInv'
<1> DEFINE o == tx[r]
           q == [o EXCEPT !.lease = o.pc]
<1>1. /\ o \in Request /\ tx \in [Req -> Request] /\ Shape(o) /\ Knows(o)
      /\ o.pc # "idle" /\ UNCHANGED <<clock, tables>>
  BY DEF IInv, TypeOK, RequestOK, LeaseLapses
<1>2. q \in Request
  BY <1>1 DEF Request
<1>3. /\ q.op = o.op /\ q.a = o.a /\ q.s = o.s /\ q.sub = o.sub
      /\ q.pc = o.pc /\ q.user = o.user /\ q.ses = o.ses /\ q.lease = o.pc
  BY <1>1 DEF Request
<1>4. tx' = [tx EXCEPT ![r] = q]
  BY <1>1 DEF LeaseLapses
<1> HIDE DEF q
<1>5. Shape(q)
  BY <1>1, <1>3 DEF Shape
<1>6. Selects(o) => Selects(q)
  BY <1>3 DEF Selects
<1>7. Knows(q)
  BY <1>1, <1>3, <1>6 DEF Knows
<1>8. TakesFree(r, q)
  BY <1>3 DEF TakesFree, HoldsSession, HoldsRow, HoldsIdentity, HoldingRow,
              Created
<1> QED BY <1>1, <1>2, <1>4, <1>5, <1>7, <1>8, RequestStep DEF RequestOK

LEMMA TickStep ==
  ASSUME IInv, Tick
  PROVE  IInv'
<1>1. clock' \in Time /\ UNCHANGED <<tables, tx>>
  BY DEF Tick, IInv, TypeOK, Time
<1>2. TypeOK' /\ OneHolder'
  BY <1>1 DEF IInv, TypeOK, OneHolder, HoldsSession, HoldsRow, HoldsIdentity,
              tables
<1>3. (\A x \in Req : RequestOK(tx[x]))'
  <2> SUFFICES ASSUME NEW x \in Req PROVE RequestOK(tx[x])'
    OBVIOUS
  <2>1. RequestOK(tx[x]) /\ tx'[x] = tx[x]
    BY <1>1 DEF IInv
  <2> QED BY <1>1, <2>1 DEF RequestOK, Shape, Knows, Selects, tables
<1>4. (\A a \in Auth : RowOK(a))' /\ (\A s \in Session : SessionOK(s))'
  BY <1>1 DEF IInv, RowOK, SessionOK, tables
<1> QED BY <1>2, <1>3, <1>4 DEF IInv

-----------------------------------------------------------------------------
(* Steps that write.                                                       *)

(* One row that nobody else has locked changes, its session column apart.  *)
LEMMA RowStep ==
  ASSUME IInv, NEW r \in Req, NEW q \in Request, q.pc = "idle",
         tx' = [tx EXCEPT ![r] = q],
         NEW a \in Auth, NEW row \in AuthRow, SetRow(a, row), RowFree(r, a),
         UNCHANGED <<clock, sessions, users>>,
         claims' \in [Auth -> Nat], codes' \in [Auth -> Nat],
         \A b \in Auth : b # a => claims'[b] = claims[b] /\ codes'[b] = codes[b],
         RowOK(a)',
         (\E s \in Session : sessions[s] # Null /\ sessions[s].via = a) =>
           /\ authorizations[a] # Null /\ row.session = authorizations[a].session
           /\ row.stage \in {"awaiting_consent", "approved", "denied"}
           /\ claims'[a] = claims[a]
  PROVE  IInv'
<1>1. /\ authorizations' \in [Auth -> AuthRow \cup {Null}]
      /\ authorizations'[a] = row /\ row # Null
      /\ \A b \in Auth : b # a => authorizations'[b] = authorizations[b]
  BY BrowserNull DEF IInv, TypeOK, SetRow
<1>2. /\ tx' \in [Req -> Request] /\ OneHolder'
      /\ (\A x \in Req : RequestOK(tx[x]))'
  <2>1. \A b \in Auth : authorizations'[b] = authorizations[b] \/
          (authorizations'[b] # Null /\ RowFree(r, b))
    BY <1>1
  <2>2. \A s \in Session : sessions'[s] = sessions[s] \/
          (sessions'[s] # Null /\ SessionFree(r, s))
    OBVIOUS
  <2>3. \A u \in Subject : users'[u] = users[u] \/ IdentityFree(r, u)
    OBVIOUS
  <2> QED BY <2>1, <2>2, <2>3, CommitStep
<1>3. TypeOK'
  BY <1>1, <1>2 DEF IInv, TypeOK
<1>4. ASSUME NEW b \in Auth, b # a PROVE RowOK(b)'
  BY <1>1, <1>4 DEF IInv, RowOK
<1>5. ASSUME NEW s \in Session PROVE SessionOK(s)'
  <2>1. SessionOK(s) /\ sessions[s] # Null => sessions[s].via \in Auth
    BY DEF IInv, TypeOK, SessionRow
  <2>2. CASE sessions[s] # Null /\ sessions[s].via = a
    BY <1>1, <2>1, <2>2 DEF IInv, SessionOK
  <2>3. CASE ~(sessions[s] # Null /\ sessions[s].via = a)
    BY <1>1, <2>1, <2>3 DEF IInv, SessionOK
  <2> QED BY <2>2, <2>3
<1> QED BY <1>2, <1>3, <1>4, <1>5 DEF IInv

(* What one request has locked is free for no other.                       *)
LEMMA HeldIsFree ==
  ASSUME IInv, NEW r \in Req
  PROVE  /\ \A a \in Auth : HoldsRow(r, a) => RowFree(r, a)
         /\ \A s \in Session : HoldsSession(r, s) => SessionFree(r, s)
         /\ \A u \in Subject : HoldsIdentity(r, u) => IdentityFree(r, u)
BY DEF IInv, OneHolder, RowFree, SessionFree, IdentityFree, Others

(* Nobody names a row that does not exist yet.                             *)
LEMMA NewIsFree ==
  ASSUME IInv, NEW r \in Req
  PROVE  /\ \A a \in Auth : authorizations[a] = Null => RowFree(r, a)
         /\ \A s \in Session : sessions[s] = Null => SessionFree(r, s)
<1>1. \A x \in Req : tx[x].pc # "idle" => Knows(tx[x])
  BY DEF IInv, RequestOK
<1>2. \A x \in Req, a \in Auth : HoldsRow(x, a) => authorizations[a] # Null
  BY <1>1, BrowserNull DEF HoldsRow, Knows
<1>3. \A x \in Req, s \in Session : HoldsSession(x, s) => sessions[s] # Null
  BY <1>1, BrowserNull DEF HoldsSession, Knows
<1> QED BY <1>2, <1>3 DEF RowFree, SessionFree, Others

(* A session belongs to a row whose callback is over.                      *)
LEMMA SessionsRow ==
  ASSUME IInv, NEW a \in Auth,
         authorizations[a] # Null =>
           authorizations[a].stage \notin
             {"awaiting_consent", "approved", "denied"}
  PROVE  ~\E s \in Session : sessions[s] # Null /\ sessions[s].via = a
BY DEF IInv, SessionOK

LEMMA ExpectedStage ==
  /\ Expected("start_google") = "awaiting_start"
  /\ Expected("cancel_google") = "awaiting_start"
  /\ Expected("claim_callback") = "awaiting_google"
  /\ \A op \in ClaimOps : Expected(op) = "callback_claimed"
  /\ \A op \in ConsentOps : Expected(op) = "awaiting_consent"
BY DEF Expected, ClaimOps, ConsentOps

LEMMA UpdateStep ==
  ASSUME IInv, NEW r \in Req, UpdateStage(r)
  PROVE  IInv'
<1> DEFINE o == tx[r]
           a == tx[r].a
           stage == IF o.op = "start_google" THEN "awaiting_google" ELSE "failed"
<1>1. /\ o.pc = "lock_row" /\ o.op \in {"start_google", "fail_callback"}
      /\ Selects(o) /\ RowFree(r, a)
      /\ authorizations' = [authorizations EXCEPT ![a] =
                              [authorizations[a] EXCEPT !.stage = stage]]
      /\ End(r, "ok") /\ UNCHANGED <<clock, sessions, users, claims, codes>>
  BY DEF UpdateStage, RowLocked, SetStage, SetRow
<1>2. /\ o \in Request /\ Shape(o) /\ Knows(o) /\ o.op \in RowOps
      /\ a \in Auth /\ authorizations[a] \in AuthRow
  <2>1. o \in Request /\ Shape(o) /\ Knows(o)
    BY <1>1 DEF IInv, TypeOK, RequestOK
  <2>2. o.op \in RowOps
    BY <1>1 DEF RowOps, ClaimOps
  <2>3. a \in Auth /\ authorizations[a] # Null
    BY <2>1, <2>2, BrowserNull DEF Shape, Knows
  <2> QED BY <2>1, <2>2, <2>3 DEF IInv, TypeOK
<1> DEFINE row == [authorizations[a] EXCEPT !.stage = stage]
<1>3. stage \in AuthStage /\ (o.op = "start_google" => stage = "awaiting_google")
      /\ (o.op = "fail_callback" => stage = "failed")
  BY DEF AuthStage
<1> HIDE DEF stage
<1>4. row \in AuthRow /\ row.stage = stage
      /\ row.verifier = authorizations[a].verifier
  BY <1>2, <1>3 DEF AuthRow
<1>5. authorizations[a].stage =
        IF o.op = "start_google" THEN "awaiting_start" ELSE "callback_claimed"
  BY <1>1, ExpectedStage DEF Selects, ClaimOps
<1>6. SetRow(a, row)
  BY <1>1 DEF SetRow
<1>7. PICK q \in Request : q.pc = "idle" /\ tx' = [tx EXCEPT ![r] = q]
  BY <1>1, <1>2, Errors, EndedTyped DEF End
<1>8. PICK b \in Auth : b = a
  BY <1>2
<1>9. authorizations'[b] = row /\ row # Null
  BY <1>1, <1>2, <1>4, <1>8, BrowserNull DEF IInv, TypeOK
<1> HIDE DEF row
<1>10. RowOK(b)'
  <2>1. RowOK(b) /\ authorizations[b] # Null
    BY <1>2, <1>8, BrowserNull DEF IInv
  <2> QED BY <1>1, <1>3, <1>4, <1>5, <1>8, <1>9, <2>1 DEF RowOK
<1>11. ~\E s \in Session : sessions[s] # Null /\ sessions[s].via = b
  BY <1>5, <1>8, SessionsRow
<1>12. claims' \in [Auth -> Nat] /\ codes' \in [Auth -> Nat]
  BY <1>1 DEF IInv, TypeOK
<1> QED BY <1>1, <1>4, <1>6, <1>7, <1>8, <1>10, <1>11, <1>12, RowStep

(* The commit of a request that holds its row.                             *)
LEMMA CommitsHeldRow ==
  ASSUME IInv, NEW r \in Req, tx[r].op \in RowOps, tx[r].pc \in HoldingRow
  PROVE  /\ tx[r] \in Request /\ Shape(tx[r]) /\ Knows(tx[r]) /\ Selects(tx[r])
         /\ tx[r].a \in Auth /\ authorizations[tx[r].a] \in AuthRow
         /\ authorizations[tx[r].a] # Null /\ RowFree(r, tx[r].a)
<1>1. tx[r] \in Request /\ Shape(tx[r]) /\ Knows(tx[r])
  BY DEF IInv, TypeOK, RequestOK, HoldingRow
<1>2. tx[r].a \in Auth /\ Selects(tx[r]) /\ authorizations[tx[r].a] # Null
  BY <1>1, BrowserNull DEF Shape, Knows
<1>3. HoldsRow(r, tx[r].a)
  BY DEF HoldsRow, HoldingRow
<1> QED BY <1>1, <1>2, <1>3, HeldIsFree DEF IInv, TypeOK

LEMMA ExpireStep ==
  ASSUME IInv, NEW r \in Req, tx[r].pc = "created", ExpireCompletion(r),
         UNCHANGED <<clock, users, claims, codes>>
  PROVE  IInv'
<1>1. tx[r].op = "complete_callback"
  <2>1. Shape(tx[r])
    BY DEF IInv, RequestOK
  <2> QED BY <2>1 DEF Shape, AllOps, RowOps, ClaimOps, ConsentOps
<1>2. /\ tx[r] \in Request /\ Selects(tx[r])
      /\ tx[r].a \in Auth /\ authorizations[tx[r].a] \in AuthRow
      /\ authorizations[tx[r].a] # Null /\ RowFree(r, tx[r].a)
  BY <1>1, CommitsHeldRow DEF RowOps, ClaimOps, HoldingRow
<1>3. PICK a \in Auth : a = tx[r].a
  BY <1>2
<1> DEFINE row == [authorizations[a] EXCEPT !.stage = "expired"]
<1>4. row \in AuthRow /\ row.stage = "expired"
      /\ row.verifier = authorizations[a].verifier
  BY <1>2, <1>3 DEF AuthRow, AuthStage
<1>5. authorizations[a].stage = "callback_claimed"
  BY <1>1, <1>2, <1>3, ExpectedStage DEF Selects, ClaimOps
<1>6. SetRow(a, row) /\ authorizations'[a] = row /\ row # Null
  BY <1>2, <1>3, <1>4, BrowserNull
     DEF ExpireCompletion, SetStage, SetRow, IInv, TypeOK
<1> HIDE DEF row
<1>7. PICK q \in Request : q.pc = "idle" /\ tx' = [tx EXCEPT ![r] = q]
  BY <1>2, Errors, EndedTyped DEF ExpireCompletion, End
<1>8. RowOK(a)'
  <2>1. RowOK(a) /\ authorizations[a] # Null
    BY <1>2, <1>3 DEF IInv
  <2> QED BY <1>4, <1>5, <1>6, <2>1 DEF RowOK
<1>9. ~\E s \in Session : sessions[s] # Null /\ sessions[s].via = a
  BY <1>5, SessionsRow
<1>10. /\ claims' \in [Auth -> Nat] /\ codes' \in [Auth -> Nat]
       /\ UNCHANGED sessions
  BY DEF IInv, TypeOK, ExpireCompletion
<1> QED BY <1>2, <1>3, <1>4, <1>6, <1>7, <1>8, <1>9, <1>10, RowStep

LEMMA CheckCompletionStep ==
  ASSUME IInv, NEW r \in Req, CheckCompletion(r)
  PROVE  IInv'
<1>1. tx[r].pc = "created" /\ UNCHANGED <<clock, users, claims, codes>>
      /\ "staged" \in Pc
  BY DEF CheckCompletion, Pc
<1>2. CASE ExpireCompletion(r)
  BY <1>1, <1>2, ExpireStep
<1>3. CASE tx' = [tx EXCEPT ![r].pc = "staged"]
           /\ UNCHANGED <<authorizations, sessions>>
  BY <1>1, <1>3, NextAwaitStep DEF tables
<1>4. CASE End(r, PolicyError(tx[r])) /\ UNCHANGED <<authorizations, sessions>>
  BY <1>1, <1>4, Errors, EndStep DEF tables
<1> QED BY <1>2, <1>3, <1>4 DEF CheckCompletion

(* The new row's identifier was nobody's.                                  *)
LEMMA CommitBeginStep ==
  ASSUME IInv, NEW r \in Req, CommitBegin(r)
  PROVE  IInv'
<1> DEFINE o == tx[r]
<1>1. /\ o.pc = "commit" /\ o.op \in BeginOps /\ o \in Request
      /\ UNCHANGED <<clock, sessions, users, claims, codes>>
  BY DEF CommitBegin, Committing, BeginOps, IInv, TypeOK
<1>2. PICK a \in Auth :
        /\ authorizations[a] = Null /\ SetRow(a, NewAuthorization(o))
        /\ tx' = [tx EXCEPT ![r] = [Ended(o, "ok") EXCEPT !.a = a]]
  BY DEF CommitBegin
<1> DEFINE row == NewAuthorization(o)
           q == [Ended(o, "ok") EXCEPT !.a = a]
<1>3. q \in Request /\ q.pc = "idle"
  <2>1. Ended(o, "ok") \in Request /\ Ended(o, "ok").pc = "idle"
    BY <1>1, Errors, EndedTyped
  <2>2. q \in Request
    BY <2>1 DEF Request
  <2>3. q.pc = "idle"
    BY <2>1 DEF Request
  <2> QED BY <2>2, <2>3
<1>4. row \in AuthRow
  <2>1. o.s \in Session \cup {Null} /\ o.allow \in BOOLEAN
        /\ o.at + RowLife \in Time
    BY <1>1, BrowserConstants DEF Request, Time
  <2> QED BY <2>1 DEF NewAuthorization, AuthRow, AuthStage
<1>5. \/ row.stage = "awaiting_start" /\ row.verifier = TRUE
      \/ row.stage = "awaiting_consent" /\ row.verifier = FALSE
  <2>1. CASE o.op = "begin_google"
    BY <2>1 DEF NewAuthorization
  <2>2. CASE o.op # "begin_google"
    BY <2>2 DEF NewAuthorization
  <2> QED BY <2>1, <2>2
<1>6. RowFree(r, a)
  BY <1>2, NewIsFree
<1>7. SetRow(a, row) /\ authorizations'[a] = row /\ row # Null
  BY <1>2, <1>4, BrowserNull DEF SetRow, IInv, TypeOK
<1> HIDE DEF row, q
<1>8. RowOK(a)'
  <2>1. claims[a] = 0 /\ codes[a] = 0
    BY <1>2 DEF IInv, RowOK
  <2> QED BY <1>1, <1>5, <1>7, <2>1 DEF RowOK
<1>9. ~\E s \in Session : sessions[s] # Null /\ sessions[s].via = a
  BY <1>2, SessionsRow
<1>10. claims' \in [Auth -> Nat] /\ codes' \in [Auth -> Nat]
  BY <1>1 DEF IInv, TypeOK
<1>11. tx' = [tx EXCEPT ![r] = q]
  BY <1>2 DEF q
<1> QED BY <1>1, <1>3, <1>4, <1>6, <1>7, <1>8, <1>9, <1>10, <1>11, RowStep

LEMMA CommitClaimStep ==
  ASSUME IInv, NEW r \in Req, CommitClaim(r)
  PROVE  IInv'
<1> DEFINE o == tx[r]
<1>1. /\ o.pc = "commit" /\ o.op = "claim_callback"
      /\ UNCHANGED <<clock, sessions, users, codes>>
  BY DEF CommitClaim, Committing
<1>2. /\ o \in Request /\ Selects(o)
      /\ o.a \in Auth /\ authorizations[o.a] \in AuthRow
      /\ authorizations[o.a] # Null /\ RowFree(r, o.a)
  BY <1>1, CommitsHeldRow DEF RowOps, HoldingRow
<1>3. PICK a \in Auth : a = o.a
  BY <1>2
<1>4. authorizations[a].stage = "awaiting_google" /\ claims[a] = 0
      /\ RowOK(a)
  <2>1. authorizations[a].stage = "awaiting_google"
    BY <1>1, <1>2, <1>3, ExpectedStage DEF Selects
  <2> QED BY <1>2, <1>3, <2>1 DEF IInv, RowOK
<1>5. ~\E s \in Session : sessions[s] # Null /\ sessions[s].via = a
  BY <1>4, SessionsRow
<1>6. PICK q \in Request : q.pc = "idle" /\ tx' = [tx EXCEPT ![r] = q]
  BY <1>2, Errors, EndedTyped DEF CommitClaim, End
<1>7. /\ claims \in [Auth -> Nat] /\ codes' \in [Auth -> Nat]
      /\ authorizations \in [Auth -> AuthRow \cup {Null}]
  BY <1>1 DEF IInv, TypeOK
<1>8. CASE o.late
  <2> DEFINE row == [authorizations[a] EXCEPT !.stage = "expired",
                                              !.verifier = FALSE]
  <2>1. SetRow(a, row) /\ claims' = claims
    BY <1>3, <1>8 DEF CommitClaim
  <2>2. row \in AuthRow /\ row.stage = "expired" /\ row.verifier = FALSE
    BY <1>2, <1>3 DEF AuthRow, AuthStage
  <2> HIDE DEF row
  <2>3. authorizations'[a] = row /\ row # Null
    BY <1>7, <2>1, <2>2, BrowserNull DEF SetRow
  <2>4. RowOK(a)'
    BY <1>1, <1>2, <1>3, <1>4, <2>1, <2>2, <2>3 DEF RowOK
  <2> QED BY <1>1, <1>2, <1>3, <1>5, <1>6, <1>7, <2>1, <2>2, <2>4, RowStep
<1>9. CASE ~o.late
  <2> DEFINE row == Claimed(o)
  <2>1. SetRow(a, row) /\ claims' = [claims EXCEPT ![a] = claims[a] + 1]
    BY <1>3, <1>9 DEF CommitClaim
  <2>2. row \in AuthRow /\ row.stage = "callback_claimed" /\ row.verifier = FALSE
    BY <1>2, <1>3 DEF AuthRow, AuthStage, Claimed
  <2> HIDE DEF row
  <2>3. authorizations'[a] = row /\ row # Null
    BY <1>7, <2>1, <2>2, BrowserNull DEF SetRow
  <2>4. /\ claims'[a] = 1 /\ claims' \in [Auth -> Nat]
        /\ \A b \in Auth : b # a => claims'[b] = claims[b]
    BY <1>4, <1>7, <2>1
  <2>5. RowOK(a)'
    BY <1>1, <1>2, <1>3, <1>4, <2>2, <2>3, <2>4 DEF RowOK
  <2> QED BY <1>1, <1>2, <1>3, <1>5, <1>6, <1>7, <2>1, <2>2, <2>4, <2>5, RowStep
<1> QED BY <1>8, <1>9

LEMMA CommitDenialStep ==
  ASSUME IInv, NEW r \in Req, CommitDenial(r)
  PROVE  IInv'
<1> DEFINE o == tx[r]
<1>1. /\ o.pc = "commit" /\ o.op \in {"cancel_google", "deny_callback", "deny"}
      /\ UNCHANGED <<clock, sessions, users, claims, codes>>
      /\ SetRow(o.a, DeniedRow(o)) /\ End(r, "ok")
  BY DEF CommitDenial, Committing
<1>2. /\ o \in Request /\ Selects(o)
      /\ o.a \in Auth /\ authorizations[o.a] \in AuthRow
      /\ authorizations[o.a] # Null /\ RowFree(r, o.a)
  BY <1>1, CommitsHeldRow DEF RowOps, ClaimOps, ConsentOps, HoldingRow
<1>3. PICK a \in Auth : a = o.a
  BY <1>2
<1>4. /\ o.op = "cancel_google" => authorizations[a].stage = "awaiting_start"
      /\ o.op = "deny_callback" => authorizations[a].stage = "callback_claimed"
      /\ o.op = "deny" => authorizations[a].stage = "awaiting_consent"
  BY <1>1, <1>2, <1>3, ExpectedStage DEF Selects, ClaimOps, ConsentOps
<1> DEFINE row == DeniedRow(o)
<1>5. /\ row \in AuthRow /\ row.stage = "denied"
      /\ row.session = authorizations[a].session
      /\ row.verifier = IF o.op = "cancel_google" THEN FALSE
                                                  ELSE authorizations[a].verifier
  <2> DEFINE mid == [authorizations[a] EXCEPT !.stage = "denied"]
  <2>1. /\ mid \in AuthRow /\ mid.stage = "denied"
        /\ mid.session = authorizations[a].session
        /\ mid.verifier = authorizations[a].verifier
    BY <1>2, <1>3 DEF AuthRow, AuthStage
  <2>2. /\ o.op = "cancel_google" => row = [mid EXCEPT !.verifier = FALSE]
        /\ o.op = "deny_callback" => row = [mid EXCEPT !.claim = FALSE]
        /\ o.op = "deny" => row = [mid EXCEPT !.csrf = FALSE]
    BY <1>3 DEF DeniedRow
  <2> HIDE DEF mid, row
  <2>3. CASE o.op = "cancel_google"
    BY <2>1, <2>2, <2>3 DEF AuthRow
  <2>4. CASE o.op = "deny_callback"
    BY <2>1, <2>2, <2>4 DEF AuthRow
  <2>5. CASE o.op = "deny"
    BY <2>1, <2>2, <2>5 DEF AuthRow
  <2> QED BY <1>1, <2>3, <2>4, <2>5
<1>6. SetRow(a, row)
  BY <1>1, <1>3
<1> HIDE DEF row
<1>7. authorizations'[a] = row /\ row # Null
  BY <1>5, <1>6, BrowserNull DEF SetRow, IInv, TypeOK
<1>8. PICK q \in Request : q.pc = "idle" /\ tx' = [tx EXCEPT ![r] = q]
  BY <1>1, <1>2, Errors, EndedTyped DEF End
<1>9. RowOK(a)'
  <2>1. RowOK(a) /\ authorizations[a] # Null
    BY <1>2, <1>3 DEF IInv
  <2> QED BY <1>1, <1>4, <1>5, <1>7, <2>1 DEF RowOK
<1>10. claims' \in [Auth -> Nat] /\ codes' \in [Auth -> Nat]
  BY <1>1 DEF IInv, TypeOK
<1> QED BY <1>1, <1>2, <1>3, <1>5, <1>6, <1>8, <1>9, <1>10, RowStep

LEMMA CommitApprovalStep ==
  ASSUME IInv, NEW r \in Req, CommitApproval(r)
  PROVE  IInv'
<1> DEFINE o == tx[r]
<1>1. /\ o.pc = "commit" /\ o.op \in {"approve", "approve_pre_authorized"}
      /\ UNCHANGED <<clock, sessions, users, claims>> /\ End(r, "ok")
      /\ codes' = [codes EXCEPT ![o.a] = codes[o.a] + 1]
      /\ Approve(o.a)
  BY DEF CommitApproval, Committing
<1>2. /\ o \in Request /\ Selects(o)
      /\ o.a \in Auth /\ authorizations[o.a] \in AuthRow
      /\ authorizations[o.a] # Null /\ RowFree(r, o.a)
  BY <1>1, CommitsHeldRow DEF RowOps, ConsentOps, HoldingRow
<1>3. PICK a \in Auth : a = o.a
  BY <1>2
<1>4. authorizations[a].stage = "awaiting_consent"
  BY <1>1, <1>2, <1>3, ExpectedStage DEF Selects, ConsentOps
<1> DEFINE row == [authorizations[a] EXCEPT !.stage = "approved", !.csrf = FALSE]
<1>5. /\ row \in AuthRow /\ row.stage = "approved"
      /\ row.session = authorizations[a].session
      /\ row.verifier = authorizations[a].verifier
  BY <1>2, <1>3 DEF AuthRow, AuthStage
<1>6. SetRow(a, row)
  BY <1>1, <1>3 DEF Approve
<1> HIDE DEF row
<1>7. authorizations'[a] = row /\ row # Null
  BY <1>5, <1>6, BrowserNull DEF SetRow, IInv, TypeOK
<1>8. PICK q \in Request : q.pc = "idle" /\ tx' = [tx EXCEPT ![r] = q]
  BY <1>1, <1>2, Errors, EndedTyped DEF End
<1>9. RowOK(a) /\ authorizations[a] # Null /\ codes \in [Auth -> Nat]
      /\ claims \in [Auth -> Nat]
  BY <1>2, <1>3 DEF IInv, TypeOK
<1>10. codes[a] = 0
  <2>1. codes[a] \in Nat /\ codes[a] # 1 /\ codes[a] <= 1
    BY <1>4, <1>9 DEF RowOK
  <2> QED BY <2>1
<1>11. /\ codes' \in [Auth -> Nat] /\ codes'[a] = 1
       /\ \A b \in Auth : b # a => codes'[b] = codes[b]
  BY <1>1, <1>3, <1>9, <1>10
<1>12. RowOK(a)'
  BY <1>1, <1>4, <1>5, <1>7, <1>9, <1>11 DEF RowOK
<1> QED BY <1>1, <1>2, <1>3, <1>5, <1>6, <1>8, <1>9, <1>11, <1>12, RowStep

(* The session, its user and the row's new stage are one commit.  Nobody   *)
(* else has the row, the subject or the new session.                       *)
LEMMA CommitCompletionStep ==
  ASSUME IInv, NEW r \in Req, CommitCompletion(r)
  PROVE  IInv'
<1> DEFINE o == tx[r]
<1>1. /\ o.pc = "commit" /\ o.op = "complete_callback"
      /\ UNCHANGED <<clock, claims, codes>>
      /\ users' = [users EXCEPT ![o.sub] = o.user]
  BY DEF CommitCompletion, Committing
<1>2. /\ o \in Request /\ Selects(o) /\ Shape(o) /\ Knows(o)
      /\ o.a \in Auth /\ authorizations[o.a] \in AuthRow
      /\ authorizations[o.a] # Null /\ RowFree(r, o.a)
  BY <1>1, CommitsHeldRow DEF RowOps, ClaimOps, HoldingRow
<1>3. /\ o.sub \in Subject /\ o.user \in Auth /\ users[o.sub] \in {Null, o.user}
      /\ IdentityFree(r, o.sub)
  <2>1. /\ o.sub \in Subject /\ o.user \in Auth
        /\ users[o.sub] \in {Null, o.user}
    BY <1>1, <1>2 DEF Shape, Knows, Created
  <2>2. HoldsIdentity(r, o.sub)
    BY <1>1 DEF HoldsIdentity
  <2> QED BY <2>1, <2>2, HeldIsFree
<1>4. PICK a \in Auth : a = o.a
  BY <1>2
<1>5. PICK u \in Subject : u = o.sub
  BY <1>3
<1> DEFINE ses == [user |-> o.user, subject |-> u, via |-> a,
                   expires_at |-> o.at + SessionLife, revoked |-> FALSE]
<1>6. PICK s \in Session :
        /\ sessions[s] = Null /\ sessions' = [sessions EXCEPT ![s] = ses]
        /\ SetRow(a, [authorizations[a] EXCEPT !.stage = "awaiting_consent",
                        !.session = s, !.csrf = TRUE, !.claim = FALSE])
        /\ tx' = [tx EXCEPT ![r] = [Ended(o, "ok") EXCEPT !.s = s]]
  BY <1>4, <1>5 DEF CommitCompletion
<1> DEFINE row == [authorizations[a] EXCEPT !.stage = "awaiting_consent",
                     !.session = s, !.csrf = TRUE, !.claim = FALSE]
           q == [Ended(o, "ok") EXCEPT !.s = s]
<1>7. /\ row \in AuthRow /\ row.stage = "awaiting_consent"
      /\ row.session = s /\ row.verifier = authorizations[a].verifier
  BY <1>2, <1>4 DEF AuthRow, AuthStage
<1>8. /\ ses \in SessionRow /\ ses # Null /\ ses.via = a /\ ses.subject = u
      /\ ses.user = o.user
  <2>1. o.at + SessionLife \in Time
    BY <1>2, BrowserConstants DEF Request, Time
  <2>2. ses \in SessionRow
    BY <1>3, <2>1 DEF SessionRow
  <2> QED BY <2>2, BrowserNull
<1>9. q \in Request /\ q.pc = "idle"
  <2>1. Ended(o, "ok") \in Request /\ Ended(o, "ok").pc = "idle"
    BY <1>2, Errors, EndedTyped
  <2>2. q \in Request
    BY <2>1 DEF Request
  <2>3. q.pc = "idle"
    BY <2>1 DEF Request
  <2> QED BY <2>2, <2>3
<1>10. /\ SetRow(a, row) /\ sessions' = [sessions EXCEPT ![s] = ses]
       /\ tx' = [tx EXCEPT ![r] = q]
  BY <1>6
<1> HIDE DEF row, ses, q
<1>11. /\ authorizations' \in [Auth -> AuthRow \cup {Null}]
       /\ authorizations'[a] = row /\ row # Null
       /\ \A b \in Auth : b # a => authorizations'[b] = authorizations[b]
  BY <1>7, <1>10, BrowserNull DEF SetRow, IInv, TypeOK
<1>12. /\ sessions' \in [Session -> SessionRow \cup {Null}]
       /\ sessions'[s] = ses
       /\ \A z \in Session : z # s => sessions'[z] = sessions[z]
  BY <1>8, <1>10 DEF IInv, TypeOK
<1>13. /\ users' \in [Subject -> Auth \cup {Null}] /\ users'[u] = o.user
       /\ \A w \in Subject : w # u => users'[w] = users[w]
  BY <1>1, <1>3, <1>5 DEF IInv, TypeOK
<1>14. /\ tx' \in [Req -> Request] /\ OneHolder'
       /\ (\A x \in Req : RequestOK(tx[x]))'
  <2>1. \A b \in Auth : authorizations'[b] = authorizations[b] \/
          (authorizations'[b] # Null /\ RowFree(r, b))
    BY <1>2, <1>4, <1>11
  <2>2. \A z \in Session : sessions'[z] = sessions[z] \/
          (sessions'[z] # Null /\ SessionFree(r, z))
    BY <1>6, <1>8, <1>12, NewIsFree
  <2>3. \A w \in Subject : users'[w] = users[w] \/ IdentityFree(r, w)
    BY <1>3, <1>5, <1>13
  <2> QED BY <1>9, <1>10, <2>1, <2>2, <2>3, CommitStep
<1>15. TypeOK'
  BY <1>1, <1>11, <1>12, <1>13, <1>14 DEF IInv, TypeOK
<1>16. authorizations[a].stage = "callback_claimed" /\ claims[a] = 1 /\ RowOK(a)
  <2>1. authorizations[a].stage = "callback_claimed"
    BY <1>1, <1>2, <1>4, ExpectedStage DEF Selects, ClaimOps
  <2> QED BY <1>2, <1>4, <2>1 DEF IInv, RowOK
<1>17. ASSUME NEW b \in Auth PROVE RowOK(b)'
  <2>1. CASE b = a
    BY <1>1, <1>2, <1>4, <1>7, <1>11, <1>16, <2>1 DEF RowOK
  <2>2. CASE b # a
    BY <1>1, <1>11, <2>2 DEF IInv, RowOK
  <2> QED BY <2>1, <2>2
<1>18. ASSUME NEW z \in Session PROVE SessionOK(z)'
  <2>1. CASE z = s
    BY <1>1, <1>7, <1>8, <1>11, <1>12, <1>13, <1>16, <2>1 DEF SessionOK
  <2>2. CASE z # s /\ sessions[z] # Null
    <3>1. /\ SessionOK(z) /\ sessions[z] \in SessionRow
          /\ sessions[z].via \in Auth /\ sessions[z].user \in Auth
          /\ sessions[z].subject \in Subject
      BY <2>2 DEF IInv, TypeOK, SessionRow
    <3>2. sessions[z].via # a
      BY <1>16, <2>2, SessionsRow
    <3>3. users'[sessions[z].subject] = users[sessions[z].subject]
      <4>1. CASE sessions[z].subject = u
        BY <1>3, <1>5, <1>13, <2>2, <3>1, <4>1, BrowserNull DEF SessionOK
      <4>2. CASE sessions[z].subject # u
        BY <1>13, <3>1, <4>2
      <4> QED BY <4>1, <4>2
    <3> QED BY <1>1, <1>11, <1>12, <2>2, <3>1, <3>2, <3>3 DEF SessionOK
  <2>3. CASE z # s /\ sessions[z] = Null
    BY <1>12, <2>3 DEF SessionOK
  <2> QED BY <2>1, <2>2, <2>3
<1> QED BY <1>14, <1>15, <1>17, <1>18 DEF IInv

LEMMA CommitLogoutStep ==
  ASSUME IInv, NEW r \in Req, CommitLogout(r)
  PROVE  IInv'
<1> DEFINE o == tx[r]
<1>1. /\ o.pc = "commit" /\ o.op = "logout" /\ End(r, "ok")
      /\ UNCHANGED <<clock, authorizations, users, claims, codes>>
      /\ sessions' = [sessions EXCEPT ![o.s].revoked = TRUE]
  BY DEF CommitLogout, Committing
<1>2. /\ o \in Request /\ o.s \in Session /\ sessions[o.s] # Null
      /\ SessionFree(r, o.s)
  <2>1. o \in Request /\ Shape(o) /\ Knows(o)
    BY <1>1 DEF IInv, TypeOK, RequestOK
  <2>2. o.s \in Session /\ sessions[o.s] # Null
    BY <1>1, <2>1, BrowserNull DEF Shape, Knows
  <2>3. HoldsSession(r, o.s)
    BY <1>1 DEF HoldsSession
  <2> QED BY <2>1, <2>2, <2>3, HeldIsFree
<1>3. PICK s \in Session : s = o.s
  BY <1>2
<1> DEFINE ses == [sessions[s] EXCEPT !.revoked = TRUE]
<1>4. sessions[s] \in SessionRow /\ sessions \in [Session -> SessionRow \cup {Null}]
  BY <1>2, <1>3 DEF IInv, TypeOK
<1>5. /\ ses \in SessionRow /\ ses.via = sessions[s].via
      /\ ses.user = sessions[s].user /\ ses.subject = sessions[s].subject
  BY <1>4 DEF SessionRow
<1>6. sessions' = [sessions EXCEPT ![s] = ses]
  BY <1>1, <1>3
<1> HIDE DEF ses
<1>7. /\ sessions' \in [Session -> SessionRow \cup {Null}]
      /\ sessions'[s] = ses /\ ses # Null
      /\ \A z \in Session : z # s => sessions'[z] = sessions[z]
  BY <1>4, <1>5, <1>6, BrowserNull
<1>8. PICK q \in Request : q.pc = "idle" /\ tx' = [tx EXCEPT ![r] = q]
  BY <1>1, <1>2, Errors, EndedTyped DEF End
<1>9. /\ tx' \in [Req -> Request] /\ OneHolder'
      /\ (\A x \in Req : RequestOK(tx[x]))'
  <2>1. \A z \in Session : sessions'[z] = sessions[z] \/
          (sessions'[z] # Null /\ SessionFree(r, z))
    BY <1>2, <1>3, <1>7
  <2>2. \A b \in Auth : authorizations'[b] = authorizations[b] \/
          (authorizations'[b] # Null /\ RowFree(r, b))
    BY <1>1
  <2>3. \A u \in Subject : users'[u] = users[u] \/ IdentityFree(r, u)
    BY <1>1
  <2> QED BY <1>8, <2>1, <2>2, <2>3, CommitStep
<1>10. TypeOK'
  BY <1>1, <1>7, <1>9 DEF IInv, TypeOK
<1>11. (\A a \in Auth : RowOK(a))'
  BY <1>1 DEF IInv, RowOK
<1>12. ASSUME NEW z \in Session PROVE SessionOK(z)'
  <2>1. SessionOK(z) /\ UNCHANGED <<authorizations, users, claims>>
    BY <1>1 DEF IInv
  <2>2. sessions[z] # Null
          => /\ sessions'[z] # Null => /\ sessions'[z].via = sessions[z].via
                                      /\ sessions'[z].user = sessions[z].user
                                      /\ sessions'[z].subject = sessions[z].subject
    <3>1. CASE z = s
      BY <1>5, <1>7, <3>1
    <3>2. CASE z # s
      BY <1>7, <3>2
    <3> QED BY <3>1, <3>2
  <2>3. sessions'[z] # Null => sessions[z] # Null
    BY <1>2, <1>3, <1>7
  <2> QED BY <2>1, <2>2, <2>3 DEF SessionOK
<1> QED BY <1>9, <1>10, <1>11, <1>12 DEF IInv

-----------------------------------------------------------------------------
(* The invariant holds in every state of the store.                        *)

LEMMA InitInv ==
  ASSUME Init
  PROVE  IInv
<1>1. NoRequest \in Request /\ NoRequest.pc = "idle"
  BY DEF NoRequest, Request, Pc, Out, Time
<1>2. TypeOK
  BY <1>1 DEF Init, TypeOK, Time
<1>3. \A r \in Req : tx[r].pc = "idle"
  BY <1>1 DEF Init
<1>4. OneHolder
  BY <1>3 DEF OneHolder, HoldsSession, HoldsRow, HoldsIdentity
<1>5. \A r \in Req : RequestOK(tx[r])
  BY <1>3 DEF RequestOK
<1>6. (\A a \in Auth : RowOK(a)) /\ (\A s \in Session : SessionOK(s))
  BY DEF Init, RowOK, SessionOK
<1> QED BY <1>2, <1>4, <1>5, <1>6 DEF IInv

LEMMA StutterStep ==
  ASSUME IInv, UNCHANGED vars
  PROVE  IInv'
<1>1. UNCHANGED <<clock, tables, tx>>
  BY DEF vars
<1>2. TypeOK' /\ OneHolder'
  BY <1>1 DEF IInv, TypeOK, OneHolder, HoldsSession, HoldsRow, HoldsIdentity,
              tables
<1>3. (\A x \in Req : RequestOK(tx[x]))'
  <2> SUFFICES ASSUME NEW x \in Req PROVE RequestOK(tx[x])'
    OBVIOUS
  <2>1. RequestOK(tx[x]) /\ tx'[x] = tx[x]
    BY <1>1 DEF IInv
  <2> QED BY <1>1, <2>1 DEF RequestOK, Shape, Knows, Selects, tables
<1>4. (\A a \in Auth : RowOK(a))' /\ (\A s \in Session : SessionOK(s))'
  BY <1>1 DEF IInv, RowOK, SessionOK, tables
<1> QED BY <1>2, <1>3, <1>4 DEF IInv

(* A step that a started request takes by itself.                          *)
LEMMA ProceedStep ==
  ASSUME IInv, NEW r \in Req, Proceed(r) \/ Cancel(r) \/ LeaseLapses(r)
  PROVE  IInv'
<1>1. CASE LoginStep(r)
  <2>1. CASE RowIsGone(r)
    BY <2>1, Errors, EndStep DEF RowIsGone
  <2> QED BY <1>1, <2>1, UpdateStep, LockRowStep, LockIdentityStep,
             CheckCompletionStep, LastCheckStep, CommitBeginStep,
             CommitClaimStep, CommitDenialStep, CommitCompletionStep
          DEF LoginStep
<1>2. CASE SignedInStep(r)
  <2>1. CASE CommitView(r)
    BY <2>1, Errors, EndStep DEF CommitView
  <2> QED BY <1>2, <2>1, LockSessionStep, LockRowStep, CommitApprovalStep,
             CommitLogoutStep
          DEF SignedInStep
<1>3. CASE Cancel(r)
  BY <1>3, Errors, EndStep DEF Cancel
<1> QED BY <1>1, <1>2, <1>3, LeaseStep DEF Proceed

LEMMA StartStep ==
  ASSUME IInv, NEW r \in Req, StartLogin(r) \/ StartSignedIn(r)
  PROVE  IInv'
<1>1. CASE StartLogin(r)
  BY <1>1, StartBeginStep, StartRowStep, BrowserNull DEF StartLogin
<1>2. CASE StartSignedIn(r)
  BY <1>2, StartBeginStep, StartSessionStep DEF StartSignedIn
<1> QED BY <1>1, <1>2

LEMMA Invariance == Spec => []IInv
<1>1. IInv /\ [Next]_vars => IInv'
  BY StutterStep, TickStep, StartStep, ProceedStep
     DEF Next, LoginNext, Proceed
<1> QED BY <1>1, InitInv, PTL DEF Spec

-----------------------------------------------------------------------------
(* A callback is claimed at most once, and the PKCE verifier is kept       *)
(* exactly until the claim, the cancellation or the recorded expiry.       *)
THEOREM CallbacksClaimedOnce == Spec => []CallbackClaimedOnce
<1>1. IInv => CallbackClaimedOnce
  BY DEF IInv, RowOK, CallbackClaimedOnce
<1> QED BY <1>1, Invariance, PTL

(* One consent, one code: exactly the approved rows have issued a code,    *)
(* and no row has issued two.                                              *)
THEOREM OneCodeEach == Spec => []OneCodePerApproval
<1>1. IInv => OneCodePerApproval
  BY DEF IInv, RowOK, OneCodePerApproval
<1> QED BY <1>1, Invariance, PTL

(* Every provider session comes from exactly one claimed and completed     *)
(* callback: a failed, denied or expired one leaves no session behind.     *)
THEOREM SessionsHaveCallbacks == Spec => []SessionHasItsCallback
<1>1. IInv => SessionHasItsCallback
  BY DEF IInv, SessionOK, SessionHasItsCallback
<1> QED BY <1>1, Invariance, PTL

(* All logins of a Google subject share one user, also concurrent first    *)
(* logins.                                                                 *)
THEOREM SubjectsHaveOneUser == Spec => []OneUserPerSubject
<1>1. IInv => OneUserPerSubject
  BY DEF IInv, SessionOK, OneUserPerSubject
<1> QED BY <1>1, Invariance, PTL

(* One step of the store that issues a code is an approval whose request   *)
(* knows all that it needs.                                                *)
LEMMA CodeStep ==
  ASSUME IInv, NEW r \in Req, CommitApproval(r), NEW a \in Auth,
         codes'[a] # codes[a]
  PROVE  LET row == authorizations[a] IN
         /\ row.stage = "awaiting_consent"
         /\ ~sessions[row.session].revoked
         /\ \E x \in Req : /\ tx[x].pc = "commit" /\ tx[x].a = a
                           /\ tx[x].s = row.session
                           /\ tx[x].lease \in {"live", "commit"}
                           /\ row.allow \/ tx[x].op = "approve"
<1> DEFINE o == tx[r]
<1>1. /\ o.pc = "commit" /\ o.op \in {"approve", "approve_pre_authorized"}
      /\ codes' = [codes EXCEPT ![o.a] = codes[o.a] + 1]
  BY DEF CommitApproval, Committing
<1>2. o.a = a
  BY <1>1 DEF IInv, TypeOK
<1>3. /\ Selects(o) /\ Knows(o) /\ Shape(o) /\ o.op \in ConsentOps
  BY <1>1, CommitsHeldRow DEF RowOps, ConsentOps, HoldingRow
<1>4. authorizations[a].stage = "awaiting_consent" /\ authorizations[a].session = o.s
  BY <1>2, <1>3, ExpectedStage DEF Selects
<1>5. ~sessions[o.s].revoked /\ o.lease \in {"live", "commit"}
      /\ (o.op = "approve_pre_authorized" => authorizations[a].allow)
  BY <1>1, <1>2, <1>3 DEF Knows
<1> QED BY <1>1, <1>2, <1>4, <1>5

(* Nothing else issues a code.                                             *)
LEMMA OnlyApprovalsIssue ==
  ASSUME NEW r \in Req,
         StartLogin(r) \/ StartSignedIn(r) \/ Proceed(r) \/ Cancel(r)
           \/ LeaseLapses(r)
  PROVE  CommitApproval(r) \/ UNCHANGED codes
<1>1. CASE StartLogin(r)
  BY <1>1 DEF StartLogin, StartBeginGoogle, StartLanding, StartClaim,
              StartClaimed, Begin, tables
<1>2. CASE StartSignedIn(r)
  BY <1>2 DEF StartSignedIn, StartBeginAuthenticated, StartConsent, StartLogout,
              Begin, tables
<1>3. CASE LoginStep(r)
  BY <1>3 DEF LoginStep, RowIsGone, UpdateStage, LockClaim, LockDenial,
              LockCompletion, LockIdentity, CheckCompletion, LastCheck,
              CommitBegin, CommitClaim, CommitDenial, CommitCompletion, tables
<1>4. CASE SignedInStep(r)
  BY <1>4 DEF SignedInStep, LockSession, LockConsent, CommitView, CommitLogout,
              tables
<1>5. CASE Cancel(r) \/ LeaseLapses(r)
  BY <1>5 DEF Cancel, LeaseLapses, tables
<1> QED BY <1>1, <1>2, <1>3, <1>4, <1>5 DEF Proceed

(* A code is issued only while the row awaits consent, by a request with   *)
(* the row's own session, which is not revoked, on client metadata that    *)
(* was current at the last check, and without the user only where the      *)
(* recorded choice allows it.                                              *)
THEOREM CodesNeedApproval == Spec => CodeNeedsApproval
<1>1. IInv /\ [Next]_vars =>
        [\A a \in Auth : codes'[a] # codes[a] =>
           LET row == authorizations[a] IN
           /\ row.stage = "awaiting_consent"
           /\ ~sessions[row.session].revoked
           /\ \E r \in Req : /\ tx[r].pc = "commit" /\ tx[r].a = a
                             /\ tx[r].s = row.session
                             /\ tx[r].lease \in {"live", "commit"}
                             /\ row.allow \/ tx[r].op = "approve"]_vars
  <2> SUFFICES ASSUME IInv, Next, NEW a \in Auth, codes'[a] # codes[a]
               PROVE  LET row == authorizations[a] IN
                      /\ row.stage = "awaiting_consent"
                      /\ ~sessions[row.session].revoked
                      /\ \E r \in Req : /\ tx[r].pc = "commit" /\ tx[r].a = a
                                        /\ tx[r].s = row.session
                                        /\ tx[r].lease \in {"live", "commit"}
                                        /\ row.allow \/ tx[r].op = "approve"
    BY DEF vars
  <2>1. PICK r \in Req : StartLogin(r) \/ StartSignedIn(r) \/ Proceed(r)
                           \/ Cancel(r) \/ LeaseLapses(r)
    BY DEF Next, LoginNext, Proceed, Tick, tables
  <2>2. CommitApproval(r)
    BY <2>1, OnlyApprovalsIssue
  <2> QED BY <2>2, CodeStep
<1> QED BY <1>1, Invariance, PTL DEF Spec, CodeNeedsApproval

-----------------------------------------------------------------------------
(* The store as the handlers use it.  Besides the store's own invariant:   *)
(* which operation each handler is waiting for (Linked), that a handler    *)
(* that starts a login owns a row nobody has seen yet (OwnersOK), that a   *)
(* callback that was claimed has its handler until the cookie is cleared   *)
(* (ClaimersOK), and that the answers sent and about to be sent are what   *)
(* the rows say (AnswersOK).                                               *)

(* The operation a handler awaits.                                         *)
Awaits(f, op) ==
  \/ f.at = "begin" /\ op \in BeginOps
  \/ f.at = "start" /\ op = "start_google"
  \/ f.at \in {"pre", "callback_pre"} /\ op = "approve_pre_authorized"
  \/ f.at = "view" /\ op = "consent_view"
  \/ f.at = "claim" /\ op = "claim_callback"
  \/ f.at = "fail" /\ op = "fail_callback"
  \/ f.at = "deny" /\ op = "deny_callback"
  \/ f.at = "complete" /\ op = "complete_callback"
  \/ f.at = "act" /\ op = f.op
  \/ f.at = "logout" /\ op = "logout"

NoRow == {"idle", "begin", "logout"}
CallbackAt == {"claim", "fail", "deny", "exchange", "complete", "callback_pre"}
Done(t) == t.pc = "idle" /\ t.out = "ok"

(* Where a handler may be, by itself.                                      *)
Placed(f) ==
  /\ f.at \notin NoRow => f.a # Null
  /\ f.at \in CallbackAt => f.h = "callback"
  /\ f.h = "callback" => f.at \in CallbackAt \cup {"view"}
  /\ f.at \in {"view", "callback_pre"} => f.ses # Null
  /\ f.at = "complete" => f.sub # Null
  /\ f.at = "act" =>
       /\ f.op \in {"approve", "deny", "start_google", "cancel_google"}
       /\ f.op \in {"approve", "deny"} => f.ses # Null

(* Handler f and its request t.                                            *)
Linked(f, t) ==
  /\ Placed(f)
  /\ t.pc # "idle" => Awaits(f, t.op) /\ (f.at \notin NoRow => t.a = f.a)
  /\ f.at = "begin" => /\ t.s # Null => f.ses # Null
                       /\ Done(t) => t.a # Null
  /\ f.at = "complete" => (Done(t) => t.s # Null)

(* The handler of /authorize that made row a and is about to set its       *)
(* cookie.                                                                 *)
Owns(f, t, a) == \/ f.at = "begin" /\ Done(t) /\ t.a = a
                 \/ f.at = "start" /\ f.a = a

OwnersOK ==
  /\ \A a \in jar : authorizations[a] # Null
  /\ \A r \in Req : flow[r].h = "callback" => authorizations[flow[r].a] # Null
  /\ \A r \in Req, a \in Auth : Owns(flow[r], tx[r], a) =>
       /\ authorizations[a] # Null /\ claims[a] = 0 /\ a \notin jar
       /\ \A q \in Req : flow[q].h = "callback" => flow[q].a # a
       /\ \A q \in Req : Owns(flow[q], tx[q], a) => q = r

(* The callback handler that has claimed row a.                            *)
Claims(f, t, a) ==
  f.h = "callback" /\ f.a = a /\ (f.at = "claim" => Done(t))

ClaimersOK ==
  \A a \in jar \ (gone \cup lost.claims) :
    claims[a] > 0 => \E r \in Req : Claims(flow[r], tx[r], a)

(* A handler that is about to tell the client what the row says.           *)
Final == {"approved", "denied"}
Holds(f, t, a, k) ==
  /\ f.a = a /\ Done(t)
  /\ IF k = "approved"
       THEN \/ f.at \in {"pre", "callback_pre"}
            \/ f.at = "act" /\ f.op = "approve"
       ELSE \/ f.at = "deny"
            \/ f.at = "act" /\ f.op \in {"deny", "cancel_google"}

StageIs(a, k) == authorizations[a] # Null /\ authorizations[a].stage = k
Sent(a, k) == IF k = "approved" THEN told[a].code ELSE told[a].denied

AnswersOK ==
  /\ \A a \in Auth, k \in Final :
       /\ Sent(a, k) \in {0, 1}
       /\ Sent(a, k) = 1 =>
            StageIs(a, k) /\ \A r \in Req : ~Holds(flow[r], tx[r], a, k)
       /\ \A r \in Req : Holds(flow[r], tx[r], a, k) =>
            /\ StageIs(a, k)
            /\ \A q \in Req : Holds(flow[q], tx[q], a, k) => q = r
  /\ \A a \in Auth \ gone : StageIs(a, "approved") =>
       \/ Sent(a, "approved") = 1 \/ a \in lost.codes
       \/ \E r \in Req : Holds(flow[r], tx[r], a, "approved")

(* A code whose commit was never acknowledged is nobody's.                 *)
LostOK ==
  \A a \in lost.codes :
    /\ StageIs(a, "approved") /\ Sent(a, "approved") = 0
    /\ \A r \in Req : ~Holds(flow[r], tx[r], a, "approved")

WebTypeOK ==
  /\ jar \subseteq Auth /\ gone \subseteq Auth /\ cookie \in Session \cup {Null}
  /\ flow \in [Req -> Flow] /\ told \in [Auth -> Told]
  /\ lost \in [claims : SUBSET Auth, codes : SUBSET Auth]

WebInv ==
  /\ IInv /\ WebTypeOK
  /\ \A r \in Req : Linked(flow[r], tx[r])
  /\ OwnersOK /\ ClaimersOK /\ AnswersOK /\ LostOK

-----------------------------------------------------------------------------
(* What a step of the store does to the row of its request and to the      *)
(* answer.                                                                 *)

Moves(r) == Proceed(r) \/ Cancel(r) \/ LeaseLapses(r)

Approvals == {"approve", "approve_pre_authorized"}
Denials == {"cancel_google", "deny_callback", "deny"}

(* Nothing, or an answer that says nothing of the row.                     *)
Silent(r) ==
  /\ UNCHANGED <<authorizations, claims>>
  /\ tx'[r].a = tx[r].a /\ tx'[r].s = tx[r].s
  /\ \/ tx'[r].pc # "idle" /\ tx'[r].op = tx[r].op
     \/ tx'[r].pc = "idle" /\
          (tx'[r].out = "ok" => tx[r].op \in {"consent_view", "logout"})

Inserts(r, a) ==
  /\ tx[r].op \in BeginOps /\ authorizations[a] = Null
  /\ tx'[r].a = a /\ tx'[r].s = tx[r].s /\ tx'[r].pc = "idle"
  /\ authorizations'[a] # Null /\ authorizations'[a].stage \notin Final
  /\ \A b \in Auth : b # a => authorizations'[b] = authorizations[b]
  /\ UNCHANGED claims

Changes(r, a) ==
  /\ tx[r].op \in RowOps /\ tx[r].a = a /\ tx'[r].a = a /\ tx'[r].pc = "idle"
  /\ authorizations[a] # Null /\ authorizations[a].stage \notin Final
  /\ authorizations'[a] # Null
  /\ \A b \in Auth : b # a => authorizations'[b] = authorizations[b] /\
                              claims'[b] = claims[b]
  /\ claims'[a] = claims[a] \/ (tx[r].op = "claim_callback" /\ tx'[r].out = "ok")
  /\ tx[r].op \in Approvals =>
       authorizations'[a].stage = "approved" /\ tx'[r].out = "ok"
  /\ tx[r].op \in Denials =>
       authorizations'[a].stage = "denied" /\ tx'[r].out = "ok"
  /\ tx[r].op \notin Approvals \cup Denials =>
       authorizations'[a].stage \notin Final
  /\ tx[r].op = "complete_callback" /\ tx'[r].out = "ok" => tx'[r].s # Null

Effect(r) ==
  /\ tx[r].pc # "idle"
  /\ \A x \in Req : x # r => tx'[x] = tx[x]
  /\ Silent(r) \/ \E a \in Auth : Inserts(r, a) \/ Changes(r, a)

LEMMA EndedFields ==
  ASSUME NEW q, NEW out
  PROVE  /\ Ended(q, out).pc = "idle" /\ Ended(q, out).out = out
         /\ Ended(q, out).a = q.a /\ Ended(q, out).s = q.s
BY DEF Ended, NoRequest

LEMMA EndsTo ==
  ASSUME IInv, NEW r \in Req, NEW out, End(r, out)
  PROVE  /\ \A x \in Req : x # r => tx'[x] = tx[x]
         /\ tx'[r].pc = "idle" /\ tx'[r].out = out
         /\ tx'[r].a = tx[r].a /\ tx'[r].s = tx[r].s
BY EndedFields DEF End, IInv, TypeOK

LEMMA SilentEnd ==
  ASSUME IInv, NEW r \in Req, NEW out, End(r, out), tx[r].pc # "idle",
         out = "ok" => tx[r].op \in {"consent_view", "logout"},
         UNCHANGED <<authorizations, claims>>
  PROVE  Effect(r)
BY EndsTo DEF Effect, Silent

LEMMA LocksAreSilent ==
  ASSUME IInv, NEW r \in Req,
         \/ LockSession(r) \/ RowIsGone(r) \/ LockClaim(r) \/ LockDenial(r)
         \/ LockCompletion(r) \/ LockIdentity(r) \/ LockConsent(r)
         \/ LastCheck(r) \/ CommitView(r) \/ Cancel(r) \/ LeaseLapses(r)
  PROVE  Effect(r)
<1> DEFINE o == tx[r]
<1>1. tx \in [Req -> Request] /\ o \in Request
  BY DEF IInv, TypeOK
<1>2. o.pc # "idle" /\ UNCHANGED tables
  BY DEF LockSession, RowIsGone, LockClaim, LockDenial, LockCompletion,
         LockIdentity, LockConsent, LastCheck, CommitView, Cancel, LeaseLapses,
         RowLocked, Committing
<1>3. ASSUME NEW out, End(r, out), out # "ok" \/ o.op = "consent_view"
      PROVE  Effect(r)
  BY <1>2, <1>3, SilentEnd DEF tables
<1>4. ASSUME NEW p, p # "idle",
             \/ tx' = [tx EXCEPT ![r].pc = p]
             \/ \E v : tx' = [tx EXCEPT ![r].pc = p, ![r].at = v]
             \/ \E v : tx' = [tx EXCEPT ![r].pc = p, ![r].ses = v]
             \/ \E v : tx' = [tx EXCEPT ![r].pc = p, ![r].late = v]
             \/ \E v, w : tx' = [tx EXCEPT ![r].pc = p, ![r].at = v, ![r].user = w]
      PROVE  Effect(r)
  <2>1. /\ tx'[r].pc = p /\ tx'[r].op = o.op /\ tx'[r].a = o.a /\ tx'[r].s = o.s
        /\ \A x \in Req : x # r => tx'[x] = tx[x]
    <3>1. CASE tx' = [tx EXCEPT ![r].pc = p]
      BY <1>1, <3>1 DEF Request
    <3>2. ASSUME NEW v, tx' = [tx EXCEPT ![r].pc = p, ![r].at = v]
          PROVE  <2>1!:
      BY <1>1, <3>2 DEF Request
    <3>3. ASSUME NEW v, tx' = [tx EXCEPT ![r].pc = p, ![r].ses = v]
          PROVE  <2>1!:
      BY <1>1, <3>3 DEF Request
    <3>4. ASSUME NEW v, tx' = [tx EXCEPT ![r].pc = p, ![r].late = v]
          PROVE  <2>1!:
      BY <1>1, <3>4 DEF Request
    <3>5. ASSUME NEW v, NEW w,
                 tx' = [tx EXCEPT ![r].pc = p, ![r].at = v, ![r].user = w]
          PROVE  <2>1!:
      BY <1>1, <3>5 DEF Request
    <3> QED BY <1>4, <3>1, <3>2, <3>3, <3>4, <3>5
  <2> QED BY <1>2, <1>4, <2>1 DEF Effect, Silent, tables
<1>5. CASE LockSession(r)
  BY <1>3, <1>4, <1>5 DEF LockSession
<1>6. CASE RowIsGone(r) \/ CommitView(r) \/ Cancel(r)
  BY <1>3, <1>6 DEF RowIsGone, CommitView, Committing, Cancel
<1>7. CASE LockClaim(r)
  BY <1>4, <1>7 DEF LockClaim
<1>8. PolicyError(o) # "ok"
  BY DEF PolicyError
<1>9. CASE LockDenial(r) \/ LockCompletion(r)
  BY <1>3, <1>4, <1>8, <1>9 DEF LockDenial, LockCompletion
<1>10. CASE LockIdentity(r)
  <2>1. PICK w : w = IF users[o.sub] = Null THEN o.a ELSE users[o.sub]
    OBVIOUS
  <2>2. CASE tx' = [tx EXCEPT ![r].pc = "created", ![r].at = clock, ![r].user = w]
    BY <1>4, <2>2
  <2>3. CASE End(r, PolicyError(o))
    BY <1>3, <1>8, <2>3
  <2> QED BY <1>10, <2>1, <2>2, <2>3 DEF LockIdentity
<1>11. CASE LockConsent(r)
  BY <1>3, <1>4, <1>8, <1>11 DEF LockConsent
<1>12. CASE LastCheck(r)
  BY <1>3, <1>4, <1>8, <1>12 DEF LastCheck
<1>13. CASE LeaseLapses(r)
  <2>1. /\ tx'[r].pc = o.pc /\ tx'[r].op = o.op /\ tx'[r].a = o.a
        /\ tx'[r].s = o.s
        /\ \A x \in Req : x # r => tx'[x] = tx[x]
    BY <1>1, <1>13 DEF LeaseLapses, Request
  <2> QED BY <1>2, <2>1 DEF Effect, Silent, tables
<1> QED BY <1>5, <1>6, <1>7, <1>9, <1>10, <1>11, <1>12, <1>13

(* The operations, apart.                                                  *)
LEMMA Kinds ==
  /\ BeginOps \cap RowOps = {} /\ "logout" \notin RowOps
  /\ Approvals \subseteq ConsentOps /\ Approvals \cap Denials = {}
  /\ {"start_google", "claim_callback", "fail_callback", "complete_callback",
      "consent_view"} \cap (Approvals \cup Denials) = {}
  /\ {"start_google", "claim_callback", "fail_callback", "complete_callback"}
       \cup Approvals \cup Denials \subseteq RowOps
BY DEF BeginOps, RowOps, ClaimOps, ConsentOps, Approvals, Denials

LEMMA StagesNotFinal ==
  ASSUME NEW op \in RowOps
  PROVE  Expected(op) \notin Final
BY ExpectedStage DEF RowOps, ClaimOps, ConsentOps, Final

(* The row that an operation has selected.                                 *)
LEMMA SelectedRow ==
  ASSUME IInv, NEW r \in Req, tx[r].op \in RowOps, tx[r].pc # "idle",
         Selects(tx[r])
  PROVE  /\ tx[r].a \in Auth /\ authorizations[tx[r].a] \in AuthRow
         /\ authorizations[tx[r].a] # Null
         /\ authorizations[tx[r].a].stage \notin Final
<1>1. Shape(tx[r]) /\ Knows(tx[r])
  BY DEF IInv, RequestOK
<1>2. tx[r].a \in Auth /\ authorizations[tx[r].a] # Null
  BY <1>1, BrowserNull DEF Shape, Knows
<1> QED BY <1>2, StagesNotFinal DEF Selects, IInv, TypeOK

(* A row whose stage is set.                                               *)
LEMMA RowSet ==
  ASSUME IInv, NEW a \in Auth, NEW row \in AuthRow, SetRow(a, row)
  PROVE  /\ authorizations'[a] = row /\ authorizations'[a] # Null
         /\ \A b \in Auth : b # a => authorizations'[b] = authorizations[b]
BY BrowserNull DEF SetRow, IInv, TypeOK

LEMMA CommitsTakeEffect ==
  ASSUME IInv, NEW r \in Req,
         \/ UpdateStage(r) \/ CheckCompletion(r) \/ CommitBegin(r)
         \/ CommitClaim(r) \/ CommitDenial(r) \/ CommitCompletion(r)
         \/ CommitApproval(r) \/ CommitLogout(r)
  PROVE  Effect(r)
<1> DEFINE o == tx[r]
           a == tx[r].a
           row == authorizations[tx[r].a]
<1>1. tx \in [Req -> Request] /\ o \in Request
      /\ claims \in [Auth -> Nat] /\ codes \in [Auth -> Nat]
  BY DEF IInv, TypeOK
<1>2. CASE UpdateStage(r)
  <2>1. /\ o.pc = "lock_row" /\ Selects(o) /\ UNCHANGED claims
        /\ o.op \in {"start_google", "fail_callback"} /\ End(r, "ok")
    BY <1>2 DEF UpdateStage, RowLocked
  <2>2. a \in Auth /\ row \in AuthRow /\ row # Null /\ row.stage \notin Final
    BY <2>1, SelectedRow, Kinds
  <2>3. PICK stage \in AuthStage : SetStage(a, stage) /\ stage \notin Final
    BY <1>2 DEF UpdateStage, AuthStage, Final
  <2>4. [row EXCEPT !.stage = stage] \in AuthRow
        /\ [row EXCEPT !.stage = stage].stage = stage
    BY <2>2 DEF AuthRow
  <2>5. /\ authorizations'[a].stage = stage /\ authorizations'[a] # Null
        /\ \A b \in Auth : b # a => authorizations'[b] = authorizations[b]
    BY <2>2, <2>3, <2>4, RowSet DEF SetStage
  <2>6. Changes(r, a)
    BY <2>1, <2>2, <2>3, <2>5, EndsTo, Kinds DEF Changes
  <2> QED BY <2>1, <2>2, <2>6, EndsTo DEF Effect
<1>3. CASE CheckCompletion(r)
  <2>1. o.pc = "created" /\ UNCHANGED claims
    BY <1>3 DEF CheckCompletion
  <2>2. o.op = "complete_callback"
    BY <2>1 DEF IInv, RequestOK, Shape, AllOps, RowOps, ClaimOps, ConsentOps,
                HoldingRow
  <2>3. CASE ExpireCompletion(r)
    <3>1. SetStage(a, "expired") /\ End(r, "invalid")
      BY <2>3 DEF ExpireCompletion
    <3>2. a \in Auth /\ row \in AuthRow /\ row # Null /\ row.stage \notin Final
      BY <2>1, <2>2, CommitsHeldRow, SelectedRow, Kinds DEF HoldingRow
    <3>3. [row EXCEPT !.stage = "expired"] \in AuthRow
          /\ [row EXCEPT !.stage = "expired"].stage = "expired"
      BY <3>2 DEF AuthRow, AuthStage
    <3>4. /\ authorizations'[a].stage = "expired" /\ authorizations'[a] # Null
          /\ \A b \in Auth : b # a => authorizations'[b] = authorizations[b]
      BY <3>1, <3>2, <3>3, RowSet DEF SetStage
    <3>5. Changes(r, a)
      BY <2>1, <2>2, <3>1, <3>2, <3>4, EndsTo, Kinds DEF Changes, Final
    <3> QED BY <2>1, <3>1, <3>2, <3>5, EndsTo DEF Effect
  <2>4. CASE End(r, PolicyError(o)) /\ UNCHANGED authorizations
    BY <2>1, <2>4, SilentEnd DEF PolicyError
  <2>5. CASE tx' = [tx EXCEPT ![r].pc = "staged"] /\ UNCHANGED authorizations
    <3>1. /\ tx'[r].pc = "staged" /\ tx'[r].op = o.op /\ tx'[r].a = o.a
          /\ tx'[r].s = o.s /\ \A x \in Req : x # r => tx'[x] = tx[x]
      BY <1>1, <2>5 DEF Request
    <3> QED BY <2>1, <2>5, <3>1 DEF Effect, Silent
  <2> QED BY <1>3, <2>3, <2>4, <2>5 DEF CheckCompletion
<1>4. CASE CommitBegin(r)
  <2>1. o.pc = "commit" /\ o.op \in BeginOps /\ UNCHANGED claims
    BY <1>4 DEF CommitBegin, Committing, BeginOps
  <2>2. PICK b \in Auth :
          /\ authorizations[b] = Null /\ SetRow(b, NewAuthorization(o))
          /\ tx' = [tx EXCEPT ![r] = [Ended(o, "ok") EXCEPT !.a = b]]
    BY <1>4 DEF CommitBegin
  <2>3. NewAuthorization(o).stage \notin Final
    BY DEF NewAuthorization, Final
  <2>4. authorizations'[b] = NewAuthorization(o)
        /\ \A c \in Auth : c # b => authorizations'[c] = authorizations[c]
    BY <2>2 DEF SetRow, IInv, TypeOK
  <2>5. authorizations'[b] # Null
    <3>1. /\ o.s \in Session \cup {Null} /\ o.allow \in BOOLEAN
          /\ o.at + RowLife \in Time
      BY <1>1, BrowserConstants DEF Request, Time
    <3>2. NewAuthorization(o) \in AuthRow
      BY <3>1 DEF NewAuthorization, AuthRow, AuthStage
    <3> QED BY <2>4, <3>2, BrowserNull
  <2>6. /\ tx'[r].pc = "idle" /\ tx'[r].a = b /\ tx'[r].s = o.s
        /\ \A x \in Req : x # r => tx'[x] = tx[x]
    BY <1>1, <2>2 DEF Ended, NoRequest
  <2> QED BY <2>1, <2>2, <2>3, <2>4, <2>5, <2>6 DEF Effect, Inserts
<1>5. CASE CommitClaim(r)
  <2>1. o.pc = "commit" /\ o.op = "claim_callback"
    BY <1>5 DEF CommitClaim, Committing
  <2>2. a \in Auth /\ row \in AuthRow /\ row # Null /\ row.stage \notin Final
    BY <2>1, CommitsHeldRow, SelectedRow, Kinds DEF HoldingRow
  <2>3. CASE o.late
    <3> DEFINE new == [row EXCEPT !.stage = "expired", !.verifier = FALSE]
    <3>1. SetRow(a, new) /\ UNCHANGED claims /\ End(r, "invalid")
      BY <1>5, <2>3 DEF CommitClaim
    <3>2. new \in AuthRow /\ new.stage = "expired"
      BY <2>2 DEF AuthRow, AuthStage
    <3>3. /\ authorizations'[a].stage = "expired" /\ authorizations'[a] # Null
          /\ \A b \in Auth : b # a => authorizations'[b] = authorizations[b]
      BY <2>2, <3>1, <3>2, RowSet
    <3>4. Changes(r, a)
      BY <2>1, <2>2, <3>1, <3>3, EndsTo, Kinds DEF Changes, Final
    <3> QED BY <2>1, <2>2, <3>1, <3>4, EndsTo DEF Effect
  <2>4. CASE ~o.late
    <3>1. /\ SetRow(a, Claimed(o)) /\ claims' = [claims EXCEPT ![a] = @ + 1]
          /\ End(r, "ok")
      BY <1>5, <2>4 DEF CommitClaim
    <3>2. Claimed(o) \in AuthRow /\ Claimed(o).stage = "callback_claimed"
      BY <2>2 DEF AuthRow, AuthStage, Claimed
    <3>3. /\ authorizations'[a].stage = "callback_claimed"
          /\ authorizations'[a] # Null
          /\ \A b \in Auth : b # a => authorizations'[b] = authorizations[b]
      BY <2>2, <3>1, <3>2, RowSet
    <3>4. \A b \in Auth : b # a => claims'[b] = claims[b]
      BY <1>1, <3>1
    <3>5. Changes(r, a)
      BY <2>1, <2>2, <3>1, <3>3, <3>4, EndsTo, Kinds DEF Changes, Final
    <3> QED BY <2>1, <2>2, <3>1, <3>5, EndsTo DEF Effect
  <2> QED BY <2>3, <2>4
<1>6. CASE CommitDenial(r)
  <2>1. /\ o.pc = "commit" /\ o.op \in Denials /\ UNCHANGED claims
        /\ SetRow(a, DeniedRow(o)) /\ End(r, "ok")
    BY <1>6 DEF CommitDenial, Committing, Denials
  <2>2. a \in Auth /\ row \in AuthRow /\ row # Null /\ row.stage \notin Final
    BY <2>1, CommitsHeldRow, SelectedRow, Kinds DEF HoldingRow
  <2>3. DeniedRow(o) \in AuthRow /\ DeniedRow(o).stage = "denied"
    BY <2>1, <2>2 DEF AuthRow, AuthStage, DeniedRow, Denials
  <2>4. /\ authorizations'[a].stage = "denied" /\ authorizations'[a] # Null
        /\ \A b \in Auth : b # a => authorizations'[b] = authorizations[b]
    BY <2>1, <2>2, <2>3, RowSet
  <2>5. Changes(r, a)
    BY <2>1, <2>2, <2>4, EndsTo, Kinds DEF Changes, Denials
  <2> QED BY <2>1, <2>2, <2>5, EndsTo DEF Effect
<1>7. CASE CommitCompletion(r)
  <2>1. o.pc = "commit" /\ o.op = "complete_callback" /\ UNCHANGED claims
    BY <1>7 DEF CommitCompletion, Committing
  <2>2. a \in Auth /\ row \in AuthRow /\ row # Null /\ row.stage \notin Final
    BY <2>1, CommitsHeldRow, SelectedRow, Kinds DEF HoldingRow
  <2>3. PICK s \in Session :
          /\ SetRow(a, [row EXCEPT !.stage = "awaiting_consent", !.session = s,
                                   !.csrf = TRUE, !.claim = FALSE])
          /\ tx' = [tx EXCEPT ![r] = [Ended(o, "ok") EXCEPT !.s = s]]
    BY <1>7 DEF CommitCompletion
  <2> DEFINE new == [row EXCEPT !.stage = "awaiting_consent", !.session = s,
                                !.csrf = TRUE, !.claim = FALSE]
  <2>4. new \in AuthRow /\ new.stage = "awaiting_consent"
    BY <2>2 DEF AuthRow, AuthStage
  <2>5. /\ authorizations'[a].stage = "awaiting_consent"
        /\ authorizations'[a] # Null
        /\ \A b \in Auth : b # a => authorizations'[b] = authorizations[b]
    BY <2>2, <2>3, <2>4, RowSet
  <2>6. /\ tx'[r].pc = "idle" /\ tx'[r].a = a /\ tx'[r].s = s
        /\ \A x \in Req : x # r => tx'[x] = tx[x]
    BY <1>1, <2>3 DEF Ended, NoRequest
  <2>7. Changes(r, a)
    BY <2>1, <2>2, <2>5, <2>6, Kinds, BrowserNull DEF Changes, Final
  <2> QED BY <2>1, <2>2, <2>6, <2>7 DEF Effect
<1>8. CASE CommitApproval(r)
  <2> DEFINE new == [row EXCEPT !.stage = "approved", !.csrf = FALSE]
  <2>1. /\ o.pc = "commit" /\ o.op \in Approvals /\ UNCHANGED claims
        /\ SetRow(a, new) /\ End(r, "ok")
    BY <1>8 DEF CommitApproval, Committing, Approvals, Approve
  <2>2. a \in Auth /\ row \in AuthRow /\ row # Null /\ row.stage \notin Final
    BY <2>1, CommitsHeldRow, SelectedRow, Kinds DEF HoldingRow
  <2>3. new \in AuthRow /\ new.stage = "approved"
    BY <2>2 DEF AuthRow, AuthStage
  <2>4. /\ authorizations'[a].stage = "approved" /\ authorizations'[a] # Null
        /\ \A b \in Auth : b # a => authorizations'[b] = authorizations[b]
    BY <2>1, <2>2, <2>3, RowSet
  <2>5. Changes(r, a)
    BY <2>1, <2>2, <2>4, EndsTo, Kinds DEF Changes, Approvals
  <2> QED BY <2>1, <2>2, <2>5, EndsTo DEF Effect
<1>9. CASE CommitLogout(r)
  BY <1>9, SilentEnd DEF CommitLogout, Committing
<1> QED BY <1>2, <1>3, <1>4, <1>5, <1>6, <1>7, <1>8, <1>9

LEMMA StoreEffect ==
  ASSUME IInv, NEW r \in Req, Moves(r)
  PROVE  Effect(r)
BY LocksAreSilent, CommitsTakeEffect DEF Moves, Proceed, LoginStep, SignedInStep

-----------------------------------------------------------------------------
(* A step of the store leaves the handlers where they are, and the         *)
(* invariant of the handlers stays true.                                   *)

SameHandlers ==
  /\ \A x \in Req :
       /\ flow'[x].h = flow[x].h /\ flow'[x].at = flow[x].at
       /\ flow'[x].a = flow[x].a /\ flow'[x].op = flow[x].op
       /\ flow'[x].ses = flow[x].ses /\ flow'[x].sub = flow[x].sub
  /\ UNCHANGED <<browser, told, gone, lost>>

(* All that the invariant asks of a handler is in those fields.            *)
LEMMA SameField ==
  ASSUME NEW f, NEW g, f.h = g.h, f.at = g.at, f.a = g.a, f.op = g.op,
         f.ses = g.ses, f.sub = g.sub, NEW t
  PROVE  /\ Linked(f, t) <=> Linked(g, t)
         /\ \A a \in Auth : Owns(f, t, a) <=> Owns(g, t, a)
         /\ \A a \in Auth : Claims(f, t, a) <=> Claims(g, t, a)
         /\ \A a \in Auth, k \in Final : Holds(f, t, a, k) <=> Holds(g, t, a, k)
BY DEF Linked, Placed, Awaits, Owns, Claims, Holds

(* What a store step does for the handler that waits for it.               *)
Answered(r) ==
  /\ Linked(flow[r], tx'[r])
  /\ \A a \in Auth : Owns(flow[r], tx'[r], a) =>
       Inserts(r, a) \/ (flow[r].at = "start" /\ flow[r].a = a)
  /\ \A a \in Auth, k \in Final : Holds(flow[r], tx'[r], a, k) =>
       Changes(r, a) /\ authorizations'[a].stage = k
  /\ \A a \in Auth : Changes(r, a) =>
       /\ authorizations'[a].stage = "approved" =>
            Holds(flow[r], tx'[r], a, "approved")
       /\ claims'[a] # claims[a] =>
            /\ flow[r].h = "callback" /\ flow[r].a = a
            /\ Claims(flow[r], tx'[r], a)

LEMMA AnswerStep ==
  ASSUME WebInv, NEW r \in Req, Effect(r)
  PROVE  Answered(r)
<1> DEFINE f == flow[r]
           o == tx[r]
           t == tx'[r]
<1>1. /\ Linked(f, o) /\ o.pc # "idle" /\ Awaits(f, o.op)
      /\ f.at \notin NoRow => o.a = f.a
  BY DEF WebInv, Effect, Linked
<1>2. Placed(f)
  BY <1>1 DEF Linked
<1>3. o.op \in BeginOps => f.at = "begin"
  BY <1>1, <1>2 DEF Awaits, Placed, BeginOps
<1>4. o.op \in RowOps => f.at \notin NoRow /\ o.a = f.a
  BY <1>1 DEF Awaits, BeginOps, RowOps, ClaimOps, ConsentOps, NoRow
<1>5. CASE Silent(r)
  <2>1. t.a = o.a /\ t.s = o.s
    BY <1>5 DEF Silent
  <2>2. Done(t) => o.op \in {"consent_view", "logout"}
    BY <1>5 DEF Silent, Done
  <2>3. Done(t) => f.at \in {"view", "logout"}
    BY <1>1, <1>2, <2>2 DEF Awaits, Placed, BeginOps
  <2>4. Linked(f, t)
    BY <1>1, <1>5, <2>1, <2>3 DEF Linked, Silent
  <2>5. \A a \in Auth, k \in Final : ~Holds(f, t, a, k)
    BY <2>3 DEF Holds
  <2>6. \A a \in Auth : Owns(f, t, a) => f.at = "start" /\ f.a = a
    BY <2>3 DEF Owns
  <2>7. \A a \in Auth : Changes(r, a) =>
          /\ authorizations'[a].stage # "approved"
          /\ claims'[a] = claims[a]
    BY <1>5 DEF Silent, Changes, Final
  <2> QED BY <2>4, <2>5, <2>6, <2>7 DEF Answered
<1>6. ASSUME NEW a \in Auth, Inserts(r, a)
      PROVE  Answered(r)
  <2>1. f.at = "begin" /\ o.op \in BeginOps
    BY <1>3, <1>6 DEF Inserts
  <2>2. t.pc = "idle" /\ t.a = a /\ t.s = o.s /\ a # Null
    BY <1>6, BrowserNull DEF Inserts
  <2>3. Linked(f, t)
    BY <1>1, <2>1, <2>2 DEF Linked
  <2>4. \A b \in Auth, k \in Final : ~Holds(f, t, b, k)
    BY <2>1 DEF Holds
  <2>5. \A b \in Auth : Owns(f, t, b) => Inserts(r, b)
    BY <1>6, <2>1, <2>2 DEF Owns
  <2>6. \A b \in Auth : ~Changes(r, b)
    BY <2>1, Kinds DEF Changes
  <2> QED BY <2>3, <2>4, <2>5, <2>6 DEF Answered
<1>7. ASSUME NEW a \in Auth, Changes(r, a)
      PROVE  Answered(r)
  <2>1. /\ o.op \in RowOps /\ o.a = a /\ f.a = a /\ f.at \notin NoRow
        /\ t.pc = "idle" /\ t.a = a
    BY <1>4, <1>7 DEF Changes
  <2>2. f.at # "begin" /\ f.at = "complete" => o.op = "complete_callback"
    BY <1>1, <2>1 DEF Awaits, NoRow
  <2>3. Linked(f, t)
    BY <1>2, <1>7, <2>1, <2>2 DEF Linked, Changes, Done, NoRow
  <2>4. \A b \in Auth : Owns(f, t, b) => f.at = "start" /\ f.a = b
    BY <2>1 DEF Owns, NoRow
  <2>5. \A k \in Final : Holds(f, t, a, k) => authorizations'[a].stage = k
    BY <1>1, <1>2, <1>7, <2>1
       DEF Holds, Changes, Awaits, Final, Approvals, Denials, Placed
  <2>6. \A b \in Auth, k \in Final : Holds(f, t, b, k) => b = a
    BY <2>1 DEF Holds
  <2>7. authorizations'[a].stage = "approved" => Holds(f, t, a, "approved")
    <3>1. authorizations'[a].stage = "approved" =>
            o.op \in Approvals /\ Done(t)
      BY <1>7, <2>1 DEF Changes, Done, Final
    <3>2. o.op \in Approvals => \/ f.at \in {"pre", "callback_pre"}
                                \/ f.at = "act" /\ f.op = "approve"
      BY <1>1, <1>2 DEF Awaits, Placed, Approvals, BeginOps
    <3> QED BY <2>1, <3>1, <3>2 DEF Holds
  <2>8. claims'[a] # claims[a] => f.h = "callback" /\ f.a = a /\ Claims(f, t, a)
    <3>1. claims'[a] # claims[a] => o.op = "claim_callback" /\ Done(t)
      BY <1>7, <2>1 DEF Changes, Done
    <3>2. o.op = "claim_callback" => f.at = "claim" /\ f.h = "callback"
      BY <1>1, <1>2 DEF Awaits, Placed, BeginOps, CallbackAt
    <3> QED BY <2>1, <3>1, <3>2 DEF Claims
  <2>9. \A b \in Auth : Changes(r, b) => b = a
    BY <2>1 DEF Changes
  <2> QED BY <1>7, <2>3, <2>4, <2>5, <2>6, <2>7, <2>8, <2>9 DEF Answered
<1> QED BY <1>5, <1>6, <1>7 DEF Effect

LEMMA StoreStepKeeps ==
  ASSUME WebInv, NEW r \in Req, Moves(r), SameHandlers, flow' \in [Req -> Flow]
  PROVE  WebInv'
<1>1. Effect(r) /\ IInv' /\ Answered(r)
  BY StoreEffect, ProceedStep, AnswerStep DEF WebInv, Moves
<1>2. /\ \A x \in Req : x # r => tx'[x] = tx[x]
      /\ ~Done(tx[r]) /\ UNCHANGED <<jar, cookie, told, gone, lost>>
  BY <1>1 DEF Effect, Done, SameHandlers, browser
<1>3. WebTypeOK'
  BY <1>2 DEF WebInv, WebTypeOK
<1>4. ASSUME NEW x \in Req, NEW t
      PROVE  /\ Linked(flow'[x], t) <=> Linked(flow[x], t)
             /\ \A a \in Auth : Owns(flow'[x], t, a) <=> Owns(flow[x], t, a)
             /\ \A a \in Auth : Claims(flow'[x], t, a) <=> Claims(flow[x], t, a)
             /\ \A a \in Auth, k \in Final :
                  Holds(flow'[x], t, a, k) <=> Holds(flow[x], t, a, k)
  BY <1>4, SameField DEF SameHandlers
<1>5. \A x \in Req : flow'[x].h = flow[x].h /\ flow'[x].a = flow[x].a
  BY DEF SameHandlers
<1>6. ASSUME NEW x \in Req PROVE Linked(flow'[x], tx'[x])
  BY <1>1, <1>2, <1>4 DEF WebInv, Answered
<1>7. \A a \in Auth : authorizations[a] # Null => authorizations'[a] # Null
  BY <1>1 DEF Effect, Silent, Inserts, Changes
<1>8. OwnersOK'
  <2>1. \A a \in jar' : authorizations'[a] # Null
    BY <1>2, <1>7 DEF WebInv, WebTypeOK, OwnersOK
  <2>2. ASSUME NEW x \in Req, flow'[x].h = "callback"
        PROVE  authorizations'[flow'[x].a] # Null
    <3>1. flow[x].a \in Auth /\ authorizations[flow[x].a] # Null
      <4>1. flow[x] \in Flow /\ Linked(flow[x], tx[x])
        BY DEF WebInv, WebTypeOK
      <4>2. flow[x].a # Null
        BY <1>5, <2>2, <4>1 DEF Linked, Placed, CallbackAt, NoRow
      <4> QED BY <1>5, <2>2, <4>1, <4>2 DEF Flow, WebInv, OwnersOK
    <3> QED BY <1>5, <1>7, <3>1
  <2>3. ASSUME NEW x \in Req, NEW a \in Auth, Owns(flow'[x], tx'[x], a)
        PROVE  /\ authorizations'[a] # Null /\ claims'[a] = 0 /\ a \notin jar'
               /\ \A y \in Req : flow'[y].h = "callback" => flow'[y].a # a
               /\ \A y \in Req : Owns(flow'[y], tx'[y], a) => y = x
    <3>1. CASE Owns(flow[x], tx[x], a)
      <4>1. /\ authorizations[a] # Null /\ claims[a] = 0 /\ a \notin jar
            /\ \A y \in Req : flow[y].h = "callback" => flow[y].a # a
            /\ \A y \in Req : Owns(flow[y], tx[y], a) => y = x
        BY <3>1 DEF WebInv, OwnersOK
      <4>2. ~Inserts(r, a)
        BY <4>1 DEF Inserts
      <4>3. claims'[a] = claims[a]
        <5>1. claims'[a] = claims[a] \/ Changes(r, a)
          BY <1>1 DEF Effect, Silent, Inserts, Changes
        <5>2. Changes(r, a) /\ claims'[a] # claims[a] =>
                flow[r].h = "callback" /\ flow[r].a = a
          BY <1>1 DEF Answered
        <5> QED BY <4>1, <5>1, <5>2
      <4>4. ASSUME NEW y \in Req, Owns(flow'[y], tx'[y], a)
            PROVE  y = x
        BY <1>1, <1>2, <1>4, <4>1, <4>2, <4>4 DEF Answered, Owns
      <4> QED BY <1>2, <1>5, <1>7, <4>1, <4>3, <4>4
    <3>2. CASE ~Owns(flow[x], tx[x], a)
      <4>1. x = r
        BY <1>2, <1>4, <2>3, <3>2
      <4>2. Inserts(r, a)
        BY <1>1, <1>4, <2>3, <3>2, <4>1 DEF Answered, Owns
      <4>3. /\ authorizations[a] = Null /\ authorizations'[a] # Null
            /\ claims' = claims
        BY <4>2 DEF Inserts
      <4>4. claims[a] = 0
        BY <4>3 DEF WebInv, IInv, RowOK
      <4>5. \A y \in Req : ~Owns(flow[y], tx[y], a)
        BY <4>3 DEF WebInv, OwnersOK
      <4>6. \A y \in Req : Owns(flow'[y], tx'[y], a) => y = x
        BY <1>2, <1>4, <4>1, <4>5
      <4>7. \A y \in Req : flow[y].h = "callback" => flow[y].a # a
        BY <4>3 DEF WebInv, OwnersOK
      <4>8. a \notin jar
        BY <4>3 DEF WebInv, OwnersOK
      <4> QED BY <1>2, <1>5, <4>3, <4>4, <4>6, <4>7, <4>8
    <3> QED BY <3>1, <3>2
  <2> QED BY <2>1, <2>2, <2>3 DEF OwnersOK
<1>9. ClaimersOK'
  <2> SUFFICES ASSUME NEW a \in jar \ (gone \cup lost.claims), claims'[a] > 0
               PROVE  \E x \in Req : Claims(flow'[x], tx'[x], a)
    BY <1>2 DEF ClaimersOK
  <2>1. a \in Auth
    BY DEF WebInv, WebTypeOK
  <2>2. CASE claims'[a] = claims[a]
    <3>1. PICK x \in Req : Claims(flow[x], tx[x], a)
      BY <2>2 DEF WebInv, ClaimersOK
    <3>2. CASE x # r
      BY <1>2, <1>4, <2>1, <3>1, <3>2
    <3>3. CASE x = r
      <4>1. Claims(flow[x], tx'[x], a)
        BY <1>2, <3>1, <3>3 DEF Claims
      <4> QED BY <1>4, <2>1, <4>1
    <3> QED BY <3>2, <3>3
  <2>3. CASE claims'[a] # claims[a]
    <3>1. Changes(r, a)
      BY <1>1, <2>1, <2>3 DEF Effect, Silent, Inserts, Changes
    <3>2. Claims(flow[r], tx'[r], a)
      BY <1>1, <2>1, <2>3, <3>1 DEF Answered
    <3> QED BY <1>4, <2>1, <3>2
  <2> QED BY <2>2, <2>3
<1>10. AnswersOK' /\ LostOK'
  <2>1. \A a \in Auth, k \in Final : Sent(a, k)' = Sent(a, k)
    BY <1>2 DEF Sent
  <2>2. ASSUME NEW a \in Auth, NEW k \in Final, StageIs(a, k)
        PROVE  StageIs(a, k)' /\ ~Changes(r, a)
    BY <1>1, <2>2 DEF StageIs, Effect, Silent, Inserts, Changes
  <2>3. ASSUME NEW a \in Auth, NEW k \in Final, NEW x \in Req,
               Holds(flow'[x], tx'[x], a, k)
        PROVE  \/ x # r /\ Holds(flow[x], tx[x], a, k)
               \/ x = r /\ Changes(r, a) /\ StageIs(a, k)'
    <3>1. Holds(flow[x], tx'[x], a, k)
      BY <1>4, <2>3
    <3>2. CASE x # r
      BY <1>2, <3>1, <3>2
    <3>3. CASE x = r
      BY <1>1, <3>1, <3>3 DEF Answered, Changes, StageIs
    <3> QED BY <3>2, <3>3
  <2>4. ASSUME NEW a \in Auth, NEW k \in Final, NEW x \in Req,
               Holds(flow[x], tx[x], a, k)
        PROVE  x # r /\ Holds(flow'[x], tx'[x], a, k) /\ StageIs(a, k)
    <3>1. x # r
      BY <1>2, <2>4 DEF Holds
    <3>2. tx'[x] = tx[x] /\ Holds(flow'[x], tx[x], a, k)
      BY <1>2, <1>4, <2>4, <3>1
    <3> QED BY <2>4, <3>1, <3>2 DEF WebInv, AnswersOK
  <2>5. ASSUME NEW a \in Auth, NEW k \in Final
        PROVE  /\ Sent(a, k)' \in {0, 1}
               /\ Sent(a, k)' = 1 => /\ StageIs(a, k)'
                                     /\ \A x \in Req : ~Holds(flow'[x], tx'[x], a, k)
    BY <2>1, <2>2, <2>3 DEF WebInv, AnswersOK
  <2>6. ASSUME NEW a \in Auth, NEW k \in Final, NEW x \in Req,
               Holds(flow'[x], tx'[x], a, k)
        PROVE  /\ StageIs(a, k)'
               /\ \A y \in Req : Holds(flow'[y], tx'[y], a, k) => y = x
    BY <2>2, <2>3, <2>4, <2>6 DEF WebInv, AnswersOK
  <2>7. ASSUME NEW a \in Auth \ gone, StageIs(a, "approved")'
        PROVE  \/ Sent(a, "approved")' = 1 \/ a \in lost.codes
               \/ \E x \in Req : Holds(flow'[x], tx'[x], a, "approved")
    <3>1. CASE StageIs(a, "approved")
      BY <2>1, <2>4, <3>1 DEF WebInv, AnswersOK, Final
    <3>2. CASE ~StageIs(a, "approved")
      <4>1. Changes(r, a) /\ authorizations'[a].stage = "approved"
        BY <1>1, <2>7, <3>2 DEF StageIs, Effect, Silent, Inserts, Changes, Final
      <4> QED BY <1>1, <1>4, <4>1 DEF Answered, Final
    <3> QED BY <3>1, <3>2
  <2>8. ASSUME NEW a \in lost.codes
        PROVE  /\ StageIs(a, "approved")' /\ Sent(a, "approved")' = 0
               /\ \A x \in Req : ~Holds(flow'[x], tx'[x], a, "approved")
    <3>1. /\ StageIs(a, "approved") /\ Sent(a, "approved") = 0
          /\ \A x \in Req : ~Holds(flow[x], tx[x], a, "approved")
      BY DEF WebInv, LostOK
    <3>2. a \in Auth /\ "approved" \in Final
      BY DEF WebInv, WebTypeOK, Final
    <3> QED BY <2>1, <2>2, <2>3, <3>1, <3>2
  <2>9. LostOK'
    BY <1>2, <2>8 DEF LostOK
  <2> QED BY <1>2, <2>5, <2>6, <2>7, <2>9 DEF AnswersOK
<1> QED BY <1>1, <1>3, <1>6, <1>8, <1>9, <1>10 DEF WebInv

-----------------------------------------------------------------------------
(* A step of a handler: it goes from where it is to f, its request becomes *)
(* q, and what it answers is what it was told.                             *)

HandlerGoes(r, f, q) ==
  /\ flow' = [flow EXCEPT ![r] = f] /\ tx' = [tx EXCEPT ![r] = q]
  /\ UNCHANGED tables

LEMMA HandlerStep ==
  ASSUME WebInv, NEW r \in Req, NEW f \in Flow, NEW q, HandlerGoes(r, f, q),
         IInv', Linked(f, q),
         \A a \in Auth, k \in Final : ~Holds(f, q, a, k),
         \A a \in Auth : Owns(f, q, a) => Owns(flow[r], tx[r], a),
         f.h = "callback" =>
           f.a \in jar \/ (flow[r].h = "callback" /\ flow[r].a = f.a),
         cookie' \in Session \cup {Null},
         \A a \in jar' : a \in jar \/
           (a \in Auth /\ Owns(flow[r], tx[r], a) /\ ~Owns(f, q, a)),
         told' \in [Auth -> Told],
         \A a \in Auth, k \in Final : Sent(a, k)' = Sent(a, k) \/
           (Sent(a, k)' = Sent(a, k) + 1 /\ Holds(flow[r], tx[r], a, k)),
         gone \subseteq gone', gone' \subseteq Auth,
         lost' \in [claims : SUBSET Auth, codes : SUBSET Auth],
         lost.claims \subseteq lost'.claims, lost.codes \subseteq lost'.codes,
         \A a \in lost'.codes : a \in lost.codes \/
           (Holds(flow[r], tx[r], a, "approved") /\
            Sent(a, "approved")' = Sent(a, "approved")),
         \A a \in Auth : Holds(flow[r], tx[r], a, "approved") =>
           \/ Sent(a, "approved")' = Sent(a, "approved") + 1
           \/ a \in gone' \/ a \in lost'.codes,
         \A a \in Auth : Claims(flow[r], tx[r], a) =>
           Claims(f, q, a) \/ a \notin jar' \/ a \in gone' \/ a \in lost'.claims
  PROVE  WebInv'
<1>1. /\ flow \in [Req -> Flow] /\ tx \in [Req -> Request]
      /\ jar \subseteq Auth /\ gone \subseteq Auth
  BY DEF WebInv, WebTypeOK, IInv, TypeOK
<1>2. /\ flow'[r] = f /\ tx'[r] = q /\ flow' \in [Req -> Flow]
      /\ \A x \in Req : x # r => flow'[x] = flow[x] /\ tx'[x] = tx[x]
      /\ UNCHANGED <<authorizations, claims>>
  BY <1>1 DEF HandlerGoes, tables
<1>3. WebTypeOK'
  BY <1>1, <1>2 DEF WebTypeOK
<1>4. ASSUME NEW x \in Req PROVE Linked(flow'[x], tx'[x])
  BY <1>2 DEF WebInv
<1>5. OwnersOK'
  <2>1. ASSUME NEW x \in Req, NEW a \in Auth, Owns(flow'[x], tx'[x], a)
        PROVE  Owns(flow[x], tx[x], a) /\ (x = r => Owns(f, q, a))
    BY <1>2, <2>1
  <2>2. ASSUME NEW x \in Req, NEW a \in Auth, Owns(flow[x], tx[x], a)
        PROVE  /\ authorizations[a] # Null /\ claims[a] = 0 /\ a \notin jar
               /\ \A y \in Req : flow[y].h = "callback" => flow[y].a # a
               /\ \A y \in Req : Owns(flow[y], tx[y], a) => y = x
    BY <2>2 DEF WebInv, OwnersOK
  <2>3. \A a \in jar' : authorizations'[a] # Null
    BY <1>2, <2>2 DEF WebInv, OwnersOK
  <2>4. ASSUME NEW x \in Req, flow'[x].h = "callback"
        PROVE  \/ flow'[x].a \in jar
               \/ flow[x].h = "callback" /\ flow'[x].a = flow[x].a
    BY <1>2, <2>4
  <2>5. \A x \in Req : flow'[x].h = "callback" =>
          authorizations'[flow'[x].a] # Null
    BY <1>2, <2>4 DEF WebInv, OwnersOK
  <2>6. ASSUME NEW x \in Req, NEW a \in Auth, Owns(flow'[x], tx'[x], a)
        PROVE  /\ authorizations'[a] # Null /\ claims'[a] = 0 /\ a \notin jar'
               /\ \A y \in Req : flow'[y].h = "callback" => flow'[y].a # a
               /\ \A y \in Req : Owns(flow'[y], tx'[y], a) => y = x
    <3>1. Owns(flow[x], tx[x], a) /\ (x = r => Owns(f, q, a))
      BY <2>1, <2>6
    <3>2. a \notin jar'
      BY <2>2, <3>1
    <3>3. \A y \in Req : flow'[y].h = "callback" => flow'[y].a # a
      BY <2>2, <2>4, <3>1
    <3> QED BY <1>2, <2>1, <2>2, <3>1, <3>2, <3>3
  <2> QED BY <2>3, <2>5, <2>6 DEF OwnersOK
<1>6. ClaimersOK'
  <2> SUFFICES ASSUME NEW a \in jar' \ (gone' \cup lost'.claims), claims[a] > 0
               PROVE  \E x \in Req : Claims(flow'[x], tx'[x], a)
    BY <1>2 DEF ClaimersOK
  <2>1. a \in jar \ (gone \cup lost.claims) /\ a \in Auth
    BY <1>1 DEF WebInv, OwnersOK
  <2>2. PICK x \in Req : Claims(flow[x], tx[x], a)
    BY <2>1 DEF WebInv, ClaimersOK
  <2> QED BY <1>2, <2>1, <2>2
<1>7. AnswersOK'
  <2>1. \A a \in Auth, k \in Final : StageIs(a, k)' <=> StageIs(a, k)
    BY <1>2 DEF StageIs
  <2>2. ASSUME NEW a \in Auth, NEW k \in Final, NEW x \in Req,
               Holds(flow'[x], tx'[x], a, k)
        PROVE  x # r /\ Holds(flow[x], tx[x], a, k)
    BY <1>2, <2>2
  <2>3. ASSUME NEW a \in Auth, NEW k \in Final
        PROVE  /\ Sent(a, k) \in {0, 1}
               /\ Sent(a, k) = 1 =>
                    StageIs(a, k) /\ \A x \in Req : ~Holds(flow[x], tx[x], a, k)
               /\ \A x \in Req : Holds(flow[x], tx[x], a, k) =>
                    /\ StageIs(a, k)
                    /\ \A y \in Req : Holds(flow[y], tx[y], a, k) => y = x
    BY DEF WebInv, AnswersOK
  <2>4. ASSUME NEW a \in Auth, NEW k \in Final
        PROVE  /\ Sent(a, k)' \in {0, 1}
               /\ Sent(a, k)' = 1 => /\ StageIs(a, k)'
                                     /\ \A x \in Req : ~Holds(flow'[x], tx'[x], a, k)
    <3>1. CASE Sent(a, k)' = Sent(a, k)
      BY <2>1, <2>2, <2>3, <3>1
    <3>2. CASE Sent(a, k)' = Sent(a, k) + 1 /\ Holds(flow[r], tx[r], a, k)
      BY <2>1, <2>2, <2>3, <3>2
    <3> QED BY <3>1, <3>2
  <2>5. ASSUME NEW a \in Auth, NEW k \in Final, NEW x \in Req,
               Holds(flow'[x], tx'[x], a, k)
        PROVE  /\ StageIs(a, k)'
               /\ \A y \in Req : Holds(flow'[y], tx'[y], a, k) => y = x
    BY <2>1, <2>2, <2>3, <2>5
  <2>6. ASSUME NEW a \in Auth \ gone', StageIs(a, "approved")
        PROVE  \/ Sent(a, "approved")' = 1 \/ a \in lost'.codes
               \/ \E x \in Req : Holds(flow'[x], tx'[x], a, "approved")
    <3>1. a \in Auth \ gone /\ "approved" \in Final
      BY DEF Final
    <3>2. CASE Sent(a, "approved") = 1
      BY <2>3, <3>1, <3>2
    <3>3. ASSUME NEW x \in Req, Holds(flow[x], tx[x], a, "approved")
          PROVE  \/ Sent(a, "approved")' = 1 \/ a \in lost'.codes
                 \/ \E y \in Req : Holds(flow'[y], tx'[y], a, "approved")
      <4>1. CASE x = r
        BY <2>3, <2>6, <3>1, <3>3, <4>1
      <4>2. CASE x # r
        BY <1>2, <3>3, <4>2
      <4> QED BY <4>1, <4>2
    <3> QED BY <2>6, <3>1, <3>2, <3>3 DEF WebInv, AnswersOK
  <2> QED BY <2>1, <2>4, <2>5, <2>6, <1>2 DEF AnswersOK, Final
<1>8. LostOK'
  <2> SUFFICES ASSUME NEW a \in lost'.codes
               PROVE  /\ StageIs(a, "approved") /\ Sent(a, "approved")' = 0
                      /\ \A x \in Req : ~Holds(flow'[x], tx'[x], a, "approved")
    BY <1>2 DEF LostOK, StageIs
  <2>1. a \in Auth /\ "approved" \in Final
    BY DEF Final
  <2>2. /\ Sent(a, "approved") \in {0, 1}
        /\ Sent(a, "approved") = 1 =>
             \A x \in Req : ~Holds(flow[x], tx[x], a, "approved")
        /\ \A x \in Req : Holds(flow[x], tx[x], a, "approved") =>
             /\ StageIs(a, "approved")
             /\ \A y \in Req : Holds(flow[y], tx[y], a, "approved") => y = x
    BY <2>1 DEF WebInv, AnswersOK
  <2>3. ASSUME NEW x \in Req, Holds(flow'[x], tx'[x], a, "approved")
        PROVE  x # r /\ Holds(flow[x], tx[x], a, "approved")
    BY <1>2, <2>1, <2>3
  <2>4. CASE a \in lost.codes
    <3>1. /\ StageIs(a, "approved") /\ Sent(a, "approved") = 0
          /\ \A x \in Req : ~Holds(flow[x], tx[x], a, "approved")
      BY <2>4 DEF WebInv, LostOK
    <3>2. Sent(a, "approved")' = Sent(a, "approved")
      BY <2>1, <3>1
    <3> QED BY <2>3, <3>1, <3>2
  <2>5. CASE /\ Holds(flow[r], tx[r], a, "approved")
             /\ Sent(a, "approved")' = Sent(a, "approved")
    BY <2>2, <2>3, <2>5
  <2> QED BY <2>4, <2>5
<1> QED BY <1>3, <1>4, <1>5, <1>6, <1>7, <1>8 DEF WebInv

(* Only time or the browser's cookies move.                                *)
LEMMA QuietStep ==
  ASSUME WebInv, IInv', UNCHANGED <<tables, tx, flow, told, gone, lost, cookie>>,
         jar' \subseteq jar
  PROVE  WebInv'
<1>1. WebTypeOK'
  BY DEF WebInv, WebTypeOK
<1>2. UNCHANGED <<authorizations, claims>>
  BY DEF tables
<1>3. OwnersOK'
  BY <1>2 DEF WebInv, OwnersOK
<1>4. ClaimersOK'
  BY <1>2 DEF WebInv, ClaimersOK
<1>5. AnswersOK'
  BY <1>2 DEF WebInv, AnswersOK, StageIs, Sent
<1>6. LostOK'
  BY <1>2 DEF WebInv, LostOK, StageIs, Sent
<1> QED BY <1>1, <1>3, <1>4, <1>5, <1>6 DEF WebInv

(* A handler that has answered, and one that has not been called.          *)
LEMMA Answerless ==
  /\ NoFlow \in Flow /\ Linked(NoFlow, NoRequest)
  /\ NoFlow.h # "callback"
  /\ \A t : \A a \in Auth : ~Owns(NoFlow, t, a) /\ ~Claims(NoFlow, t, a)
  /\ \A t : \A a \in Auth, k \in Final : ~Holds(NoFlow, t, a, k)
<1>1. NoFlow \in Flow
  BY DEF NoFlow, Flow, At, Answer, Prompt, AllHandlers
<1>2. NoFlow.at = "idle" /\ NoFlow.h = "none" /\ NoFlow.a = Null
  BY DEF NoFlow
<1>3. NoRequest.pc = "idle" /\ NoRequest.out = "none"
  BY DEF NoRequest
<1>4. Placed(NoFlow)
  BY <1>2 DEF Placed, CallbackAt, NoRow
<1>5. Linked(NoFlow, NoRequest)
  BY <1>2, <1>3, <1>4 DEF Linked
<1> QED BY <1>1, <1>2, <1>4, <1>5 DEF Owns, Claims, Holds

(* What the answers change.                                                *)
LEMMA TellsNothing ==
  ASSUME WebInv, told' = told \/ \E b \in Auth : told' = WithFailure(b)
  PROVE  /\ told' \in [Auth -> Told]
         /\ \A a \in Auth, k \in Final : Sent(a, k)' = Sent(a, k)
<1>1. told \in [Auth -> Told]
  BY DEF WebInv, WebTypeOK
<1>2. CASE told' = told
  BY <1>1, <1>2 DEF Sent
<1>3. ASSUME NEW b \in Auth, told' = WithFailure(b)
      PROVE  /\ told' \in [Auth -> Told]
             /\ \A a \in Auth, k \in Final : Sent(a, k)' = Sent(a, k)
  <2>1. told[b] \in Told /\ [told[b] EXCEPT !.failed = TRUE] \in Told
    BY <1>1 DEF Told
  <2>2. told' = [told EXCEPT ![b] = [told[b] EXCEPT !.failed = TRUE]]
    BY <1>3 DEF WithFailure
  <2>3. \A a \in Auth : told'[a].code = told[a].code
                       /\ told'[a].denied = told[a].denied
    BY <1>1, <2>1, <2>2 DEF Told
  <2> QED BY <1>1, <2>1, <2>2, <2>3 DEF Sent
<1> QED BY <1>2, <1>3

LEMMA TellsCode ==
  ASSUME WebInv, NEW b \in Auth, told' = WithCode(b)
  PROVE  /\ told' \in [Auth -> Told]
         /\ Sent(b, "approved")' = Sent(b, "approved") + 1
         /\ \A a \in Auth, k \in Final :
              Sent(a, k)' = Sent(a, k) \/ (a = b /\ k = "approved")
<1>1. told \in [Auth -> Told]
  BY DEF WebInv, WebTypeOK
<1>2. told[b] \in Told /\ [told[b] EXCEPT !.code = told[b].code + 1] \in Told
  BY <1>1 DEF Told
<1>3. told' = [told EXCEPT ![b] = [told[b] EXCEPT !.code = told[b].code + 1]]
  BY DEF WithCode
<1>4. \A a \in Auth : /\ a # b => told'[a] = told[a]
                      /\ told'[a].denied = told[a].denied
  BY <1>1, <1>2, <1>3 DEF Told
<1>5. told'[b].code = told[b].code + 1
  BY <1>1, <1>2, <1>3 DEF Told
<1> QED BY <1>1, <1>2, <1>3, <1>4, <1>5 DEF Sent, Final

LEMMA TellsDenial ==
  ASSUME WebInv, NEW b \in Auth, told' = WithDenial(b)
  PROVE  /\ told' \in [Auth -> Told]
         /\ Sent(b, "denied")' = Sent(b, "denied") + 1
         /\ \A a \in Auth, k \in Final :
              Sent(a, k)' = Sent(a, k) \/ (a = b /\ k = "denied")
<1>1. told \in [Auth -> Told]
  BY DEF WebInv, WebTypeOK
<1>2. told[b] \in Told /\ [told[b] EXCEPT !.denied = told[b].denied + 1] \in Told
  BY <1>1 DEF Told
<1>3. told' = [told EXCEPT ![b] = [told[b] EXCEPT !.denied = told[b].denied + 1]]
  BY DEF WithDenial
<1>4. \A a \in Auth : /\ a # b => told'[a] = told[a]
                      /\ told'[a].code = told[a].code
  BY <1>1, <1>2, <1>3 DEF Told
<1>5. told'[b].denied = told[b].denied + 1
  BY <1>1, <1>2, <1>3 DEF Told
<1> QED BY <1>1, <1>2, <1>3, <1>4, <1>5 DEF Sent, Final

(* The handler answers, or is gone.                                        *)
LEMMA ReplyStep ==
  ASSUME WebInv, NEW r \in Req, HandlerGoes(r, NoFlow, NoRequest),
         UNCHANGED <<clock, lost>>, cookie' \in Session \cup {Null},
         \A a \in jar' : a \in jar \/ (a \in Auth /\ Owns(flow[r], tx[r], a)),
         gone \subseteq gone', gone' \subseteq Auth,
         \/ /\ told' = told \/ \E b \in Auth : told' = WithFailure(b)
            /\ \A a \in Auth : Holds(flow[r], tx[r], a, "approved") => a \in gone'
         \/ \E b \in Auth :
              told' = WithCode(b) /\ Holds(flow[r], tx[r], b, "approved")
         \/ \E b \in Auth :
              told' = WithDenial(b) /\ Holds(flow[r], tx[r], b, "denied"),
         \A a \in Auth : Claims(flow[r], tx[r], a) => a \notin jar' \/ a \in gone'
  PROVE  WebInv'
<1>1. IInv'
  <2>1. IInv /\ "ok" \in Out
    BY DEF WebInv, Out
  <2> QED BY <2>1, EndStep DEF HandlerGoes
<1>2. told' \in [Auth -> Told]
      /\ (\A a \in Auth, k \in Final : Sent(a, k)' = Sent(a, k) \/
            (Sent(a, k)' = Sent(a, k) + 1 /\ Holds(flow[r], tx[r], a, k)))
      /\ (\A a \in Auth : Holds(flow[r], tx[r], a, "approved") =>
            Sent(a, "approved")' = Sent(a, "approved") + 1 \/ a \in gone')
  <2>1. CASE /\ told' = told \/ \E b \in Auth : told' = WithFailure(b)
             /\ \A a \in Auth : Holds(flow[r], tx[r], a, "approved") => a \in gone'
    BY <2>1, TellsNothing
  <2>2. ASSUME NEW b \in Auth,
               told' = WithCode(b), Holds(flow[r], tx[r], b, "approved")
        PROVE  told' \in [Auth -> Told]
               /\ (\A a \in Auth, k \in Final : Sent(a, k)' = Sent(a, k) \/
                     (Sent(a, k)' = Sent(a, k) + 1 /\ Holds(flow[r], tx[r], a, k)))
               /\ (\A a \in Auth : Holds(flow[r], tx[r], a, "approved") =>
                     Sent(a, "approved")' = Sent(a, "approved") + 1 \/ a \in gone')
    <3>1. \A a \in Auth : Holds(flow[r], tx[r], a, "approved") => a = b
      BY <2>2 DEF Holds
    <3> QED BY <2>2, <3>1, TellsCode
  <2>3. ASSUME NEW b \in Auth,
               told' = WithDenial(b), Holds(flow[r], tx[r], b, "denied")
        PROVE  told' \in [Auth -> Told]
               /\ (\A a \in Auth, k \in Final : Sent(a, k)' = Sent(a, k) \/
                     (Sent(a, k)' = Sent(a, k) + 1 /\ Holds(flow[r], tx[r], a, k)))
               /\ (\A a \in Auth : Holds(flow[r], tx[r], a, "approved") =>
                     Sent(a, "approved")' = Sent(a, "approved") + 1 \/ a \in gone')
    <3>1. \A a \in Auth : ~Holds(flow[r], tx[r], a, "approved")
      BY <2>3 DEF Holds
    <3> QED BY <2>3, <3>1, TellsDenial
  <2> QED BY <2>1, <2>2, <2>3
<1>3. NoFlow \in Flow /\ Linked(NoFlow, NoRequest) /\ NoFlow.h # "callback"
      /\ (\A a \in Auth, k \in Final : ~Holds(NoFlow, NoRequest, a, k))
      /\ (\A a \in Auth : ~Owns(NoFlow, NoRequest, a))
  BY Answerless
<1>4. lost \in [claims : SUBSET Auth, codes : SUBSET Auth]
  BY DEF WebInv, WebTypeOK
<1> QED BY <1>1, <1>2, <1>3, <1>4, HandlerStep

(* The start of a store operation, with what the handler asks for.         *)
Calls(r, q, op, a, s) ==
  /\ tx[r].pc = "idle" /\ tx' = [tx EXCEPT ![r] = q] /\ UNCHANGED tables
  /\ q.a = a /\ q.s = s /\ ~Done(q) /\ (q.pc # "idle" => q.op = op)

(* The handler calls the store.                                            *)
LEMMA CallStep ==
  ASSUME WebInv, NEW r \in Req, NEW f \in Flow, NEW q, NEW op, NEW a, NEW s,
         Calls(r, q, op, a, s), IInv', Enters(r, f),
         Placed(f), Awaits(f, op), f.at \notin NoRow => f.a = a,
         f.at = "begin" /\ s # Null => f.ses # Null,
         \A b \in Auth : ~Holds(flow[r], tx[r], b, "approved"),
         f.at = "start" => Owns(flow[r], tx[r], f.a),
         f.h = "callback" =>
           f.a \in jar \/ (flow[r].h = "callback" /\ flow[r].a = f.a),
         \A b \in Auth : Claims(flow[r], tx[r], b) =>
           f.h = "callback" /\ f.a = b /\ f.at # "claim"
  PROVE  WebInv'
<1>1. HandlerGoes(r, f, q) /\ UNCHANGED <<jar, cookie, told, gone, lost>>
  BY DEF Enters, Calls, HandlerGoes, browser, unheard
<1>2. Linked(f, q)
  BY DEF Linked, Calls
<1>3. /\ \A b \in Auth, k \in Final : ~Holds(f, q, b, k)
      /\ \A b \in Auth : Owns(f, q, b) => Owns(flow[r], tx[r], b)
  BY DEF Calls, Holds, Owns
<1>4. told' \in [Auth -> Told]
      /\ (\A b \in Auth, k \in Final : Sent(b, k)' = Sent(b, k))
  BY <1>1, TellsNothing
<1>5. /\ jar \subseteq Auth /\ gone \subseteq Auth /\ cookie \in Session \cup {Null}
      /\ lost \in [claims : SUBSET Auth, codes : SUBSET Auth]
  BY DEF WebInv, WebTypeOK
<1>6. \A b \in Auth : Claims(flow[r], tx[r], b) => Claims(f, q, b)
  BY DEF Claims
<1> QED BY <1>1, <1>2, <1>3, <1>4, <1>5, <1>6, HandlerStep

(* Every start is such a call.                                             *)
LEMMA LandingCall ==
  ASSUME IInv, NEW r \in Req, NEW op, NEW a \in Auth, NEW admits \in BOOLEAN,
         StartLanding(r, op, a, admits)
  PROVE  IInv' /\ \E q : Calls(r, q, op, a, Null)
<1>1. IInv'
  BY StartRowStep DEF StartLanding
<1> DEFINE q == [NoRequest EXCEPT !.op = op, !.pc = "lock_row", !.a = a,
                                  !.admits = admits]
<1>2. /\ tx[r].pc = "idle" /\ UNCHANGED tables
      /\ tx' = [tx EXCEPT ![r] = IF Unexpired(a) THEN q ELSE Ended(q, "invalid")]
  BY DEF StartLanding, Begin
<1>3. /\ q.pc = "lock_row" /\ q.op = op /\ q.a = a /\ q.s = Null
  BY DEF NoRequest
<1> HIDE DEF q
<1>4. CASE Unexpired(a)
  <2>1. Calls(r, q, op, a, Null)
    BY <1>2, <1>3, <1>4 DEF Calls, Done
  <2> QED BY <1>1, <2>1
<1>5. CASE ~Unexpired(a)
  <2>1. Calls(r, Ended(q, "invalid"), op, a, Null)
    BY <1>2, <1>3, <1>5, EndedFields DEF Calls, Done
  <2> QED BY <1>1, <2>1
<1> QED BY <1>4, <1>5

LEMMA ClaimCall ==
  ASSUME IInv, NEW r \in Req, NEW a \in Auth, StartClaim(r, a)
  PROVE  IInv' /\ \E q : Calls(r, q, "claim_callback", a, Null)
<1>1. IInv'
  BY StartRowStep
<1> DEFINE q == [NoRequest EXCEPT !.op = "claim_callback", !.pc = "lock_row",
                                  !.a = a]
<1>2. /\ q.pc = "lock_row" /\ q.op = "claim_callback" /\ q.a = a /\ q.s = Null
  BY DEF NoRequest
<1>3. Calls(r, q, "claim_callback", a, Null)
  BY <1>2 DEF StartClaim, Begin, Calls, Done
<1> QED BY <1>1, <1>3

LEMMA ClaimedCall ==
  ASSUME IInv, NEW r \in Req, NEW op, NEW a \in Auth,
         NEW u \in Subject \cup {Null}, NEW admits \in BOOLEAN,
         op = "complete_callback" => u # Null,
         StartClaimed(r, op, a, u, admits)
  PROVE  IInv' /\ \E q : Calls(r, q, op, a, Null)
<1>1. IInv'
  BY StartRowStep DEF StartClaimed
<1>2. PICK w : w = IF op = "complete_callback" THEN u ELSE Null
  OBVIOUS
<1> DEFINE q == [NoRequest EXCEPT !.op = op, !.pc = "lock_row", !.a = a,
                                  !.sub = w, !.admits = admits]
<1>3. q.pc = "lock_row" /\ q.op = op /\ q.a = a /\ q.s = Null
  BY DEF NoRequest
<1>4. tx[r].pc = "idle" /\ UNCHANGED tables /\ tx' = [tx EXCEPT ![r] = q]
  BY <1>2 DEF StartClaimed, Begin
<1>5. Calls(r, q, op, a, Null)
  BY <1>3, <1>4 DEF Calls, Done
<1> QED BY <1>1, <1>5

LEMMA ConsentCall ==
  ASSUME IInv, NEW r \in Req, NEW op, NEW a \in Auth, NEW s \in Session,
         NEW admits \in BOOLEAN, NEW pre \in BOOLEAN,
         StartConsent(r, op, a, s, admits, pre)
  PROVE  IInv' /\ \E q : Calls(r, q, op, a, s)
<1>1. IInv'
  BY StartSessionStep DEF StartConsent
<1> DEFINE q == [NoRequest EXCEPT !.op = op, !.pc = "lock_session", !.a = a,
                   !.s = s, !.admits = admits, !.pre = pre]
<1>2. q.pc = "lock_session" /\ q.op = op /\ q.a = a /\ q.s = s
  BY DEF NoRequest
<1>3. Calls(r, q, op, a, s)
  BY <1>2 DEF StartConsent, Begin, Calls, Done
<1> QED BY <1>1, <1>3

LEMMA LogoutCall ==
  ASSUME IInv, NEW r \in Req, NEW s \in Session, StartLogout(r, s)
  PROVE  IInv' /\ \E q : Calls(r, q, "logout", Null, s)
<1>1. IInv'
  BY StartSessionStep
<1> DEFINE q == [NoRequest EXCEPT !.op = "logout", !.pc = "lock_session",
                                  !.s = s]
<1>2. q.pc = "lock_session" /\ q.op = "logout" /\ q.a = Null /\ q.s = s
  BY DEF NoRequest
<1>3. Calls(r, q, "logout", Null, s)
  BY <1>2 DEF StartLogout, Begin, Calls, Done
<1> QED BY <1>1, <1>3

LEMMA BeginCall ==
  ASSUME IInv, NEW r \in Req, NEW allow \in BOOLEAN, NEW s \in Session \cup {Null},
         \/ StartBeginGoogle(r, allow) /\ s = Null
         \/ s # Null /\ StartBeginAuthenticated(r, s, allow)
  PROVE  IInv' /\ \E op \in BeginOps : \E q : Calls(r, q, op, Null, s)
<1>1. IInv'
  BY StartBeginStep
<1>2. CASE StartBeginGoogle(r, allow) /\ s = Null
  <2> DEFINE q == [NoRequest EXCEPT !.op = "begin_google", !.pc = "staged",
                                    !.allow = allow, !.at = clock]
  <2>1. q.pc = "staged" /\ q.op = "begin_google" /\ q.a = Null /\ q.s = s
    BY <1>2 DEF NoRequest
  <2>2. Calls(r, q, "begin_google", Null, s)
    BY <1>2, <2>1 DEF StartBeginGoogle, Begin, Calls, Done
  <2> QED BY <1>1, <2>2 DEF BeginOps
<1>3. CASE s # Null /\ StartBeginAuthenticated(r, s, allow)
  <2> DEFINE q == [NoRequest EXCEPT !.op = "begin_authenticated",
                     !.pc = "lock_session", !.s = s, !.allow = allow]
  <2>1. /\ q.pc = "lock_session" /\ q.op = "begin_authenticated"
        /\ q.a = Null /\ q.s = s
    BY DEF NoRequest
  <2>2. Calls(r, q, "begin_authenticated", Null, s)
    BY <1>3, <2>1 DEF StartBeginAuthenticated, Begin, Calls, Done
  <2> QED BY <1>1, <2>2 DEF BeginOps
<1> QED BY <1>2, <1>3

-----------------------------------------------------------------------------
(* The handlers, one by one.                                               *)

LEMMA HandlerFacts ==
  ASSUME WebInv, NEW r \in Req
  PROVE  /\ IInv /\ flow[r] \in Flow /\ Linked(flow[r], tx[r]) /\ Placed(flow[r])
         /\ flow[r].ses \in Session \cup {Null}
         /\ flow[r].a \in Auth \cup {Null} /\ flow[r].sub \in Subject \cup {Null}
         /\ flow[r].at \notin NoRow => flow[r].a \in Auth
         /\ tx[r].a \in Auth \cup {Null} /\ tx[r].s \in Session \cup {Null}
         /\ jar \subseteq Auth /\ gone \subseteq Auth
         /\ cookie \in Session \cup {Null}
<1>1. /\ flow[r] \in Flow /\ Linked(flow[r], tx[r]) /\ tx[r] \in Request
      /\ IInv /\ jar \subseteq Auth /\ gone \subseteq Auth
      /\ cookie \in Session \cup {Null}
  BY DEF WebInv, WebTypeOK, IInv, TypeOK
<1>2. Placed(flow[r])
  BY <1>1 DEF Linked
<1>3. /\ flow[r].ses \in Session \cup {Null} /\ flow[r].a \in Auth \cup {Null}
      /\ flow[r].sub \in Subject \cup {Null}
  BY <1>1 DEF Flow
<1>4. tx[r].a \in Auth \cup {Null} /\ tx[r].s \in Session \cup {Null}
  BY <1>1 DEF Request
<1> QED BY <1>1, <1>2, <1>3, <1>4 DEF Placed

(* A handler holds no code unless its approval has been granted, and has   *)
(* claimed no callback unless it is one.                                   *)
LEMMA HoldsNothing ==
  ASSUME WebInv, NEW r \in Req,
         \/ ~Done(tx[r])
         \/ flow[r].at \notin {"pre", "callback_pre", "act"}
  PROVE  \A a \in Auth : ~Holds(flow[r], tx[r], a, "approved")
BY DEF Holds

LEMMA ClaimsNothing ==
  ASSUME WebInv, NEW r \in Req,
         \/ flow[r].at \notin CallbackAt \cup {"view"}
         \/ flow[r].h # "callback"
         \/ flow[r].at = "claim" /\ ~Done(tx[r])
  PROVE  /\ \A a \in Auth : ~Claims(flow[r], tx[r], a)
         /\ flow[r].at \notin CallbackAt \cup {"view"} => flow[r].h # "callback"
BY HandlerFacts DEF Claims, Placed

LEMMA PageStep ==
  ASSUME WebInv, NEW r \in Req, Page(r),
         \A a \in Auth : ~Holds(flow[r], tx[r], a, "approved"),
         \A a \in Auth : ~Claims(flow[r], tx[r], a)
  PROVE  WebInv'
<1>1. /\ HandlerGoes(r, NoFlow, NoRequest)
      /\ UNCHANGED <<clock, jar, cookie, told, gone, lost>>
  BY DEF Page, Replies, HandlerGoes, browser, unheard
<1> QED BY <1>1, HandlerFacts, ReplyStep

(* A repeated call of the operation that the handler awaited.              *)
LEMMA AgainStep ==
  ASSUME WebInv, NEW r \in Req, NEW q, NEW op, NEW s, ~Done(tx[r]),
         flow[r].at \notin NoRow \cup {"start", "claim"},
         Calls(r, q, op, flow[r].a, s), IInv', Again(r), Awaits(flow[r], op)
  PROVE  WebInv'
<1>1. PICK f : f = [flow[r] EXCEPT !.retried = TRUE]
  OBVIOUS
<1>2. /\ f \in Flow /\ f.at = flow[r].at /\ f.h = flow[r].h /\ f.a = flow[r].a
      /\ f.op = flow[r].op /\ f.ses = flow[r].ses /\ f.sub = flow[r].sub
  BY <1>1, HandlerFacts DEF Flow
<1>3. Placed(f) /\ Awaits(f, op) /\ Enters(r, f)
  BY <1>1, <1>2, HandlerFacts DEF Placed, Awaits, Again
<1>4. \A b \in Auth : Claims(flow[r], tx[r], b) => f.h = "callback" /\ f.a = b
  BY <1>2 DEF Claims
<1> QED BY <1>2, <1>3, <1>4, HoldsNothing, CallStep DEF NoRow

-----------------------------------------------------------------------------
(* GET /authorize.                                                         *)

LEMMA AuthorizeValidStep ==
  ASSUME WebInv, NEW r \in Req, NEW f \in Flow, f.at = "begin",
         f.h # "callback", AuthorizeValid(r, f),
         \A a \in Auth : ~Holds(flow[r], tx[r], a, "approved"),
         \A a \in Auth : ~Claims(flow[r], tx[r], a)
  PROVE  WebInv'
<1>1. Placed(f) /\ \A op \in BeginOps : Awaits(f, op)
  BY DEF Placed, Awaits, NoRow, CallbackAt
<1>2. f.ses \in Session \cup {Null} /\ Allow(f) \in BOOLEAN
  BY DEF Flow, Allow
<1>3. CASE Page(r)
  BY <1>3, PageStep
<1>4. CASE /\ SignedIn(f.ses) /\ StartBeginAuthenticated(r, f.ses, Allow(f))
           /\ Enters(r, f)
  <2>1. f.ses # Null
    BY <1>4 DEF SignedIn
  <2>2. IInv' /\ \E op \in BeginOps : \E q : Calls(r, q, op, Null, f.ses)
    BY <1>2, <1>4, <2>1, HandlerFacts, BeginCall
  <2> QED BY <1>1, <1>4, <2>1, <2>2, CallStep DEF NoRow
<1>5. CASE StartBeginGoogle(r, Allow(f)) /\ Enters(r, f)
  <2>1. IInv' /\ \E op \in BeginOps : \E q : Calls(r, q, op, Null, Null)
    BY <1>2, <1>5, HandlerFacts, BeginCall
  <2> QED BY <1>1, <1>5, <2>1, CallStep DEF NoRow
<1> QED BY <1>3, <1>4, <1>5 DEF AuthorizeValid

LEMMA AuthorizeErrStep ==
  ASSUME WebInv, NEW r \in Req, AuthorizeErr(r),
         flow[r].at \in {"begin", "start", "pre"},
         ~Done(tx[r]) \/ flow[r].at = "begin"
  PROVE  WebInv'
<1>1. /\ \A a \in Auth : ~Holds(flow[r], tx[r], a, "approved")
      /\ \A a \in Auth : ~Claims(flow[r], tx[r], a)
      /\ flow[r].h # "callback"
  BY HoldsNothing, ClaimsNothing DEF CallbackAt
<1>2. CASE Page(r)
  BY <1>1, <1>2, PageStep
<1>3. CASE AuthorizeValid(r, [flow[r] EXCEPT !.at = "begin", !.retried = TRUE,
                                             !.stale = FALSE])
  <2> DEFINE Restarted(g) == [g EXCEPT !.at = "begin", !.retried = TRUE,
                                       !.stale = FALSE]
  <2>1. PICK f : f = Restarted(flow[r])
    OBVIOUS
  <2>2. f \in Flow /\ f.at = "begin" /\ f.h = flow[r].h
    <3>1. "begin" \in At
      BY DEF At
    <3>2. \A g \in Flow : /\ Restarted(g) \in Flow
                          /\ Restarted(g).at = "begin" /\ Restarted(g).h = g.h
      <4> SUFFICES ASSUME NEW g \in Flow
                   PROVE  /\ Restarted(g) \in Flow
                          /\ Restarted(g).at = "begin" /\ Restarted(g).h = g.h
        OBVIOUS
      <4>1. Restarted(g) \in Flow
        BY <3>1 DEF Flow
      <4>2. Restarted(g).at = "begin" /\ Restarted(g).h = g.h
        BY DEF Flow
      <4> QED BY <4>1, <4>2
    <3>3. flow[r] \in Flow
      BY HandlerFacts
    <3> HIDE DEF Restarted
    <3> QED BY <2>1, <3>2, <3>3
  <2> QED BY <1>1, <1>3, <2>1, <2>2, AuthorizeValidStep
<1> QED BY <1>2, <1>3 DEF AuthorizeErr

(* A handler that nobody has called.                                       *)
LEMMA IdleFacts ==
  ASSUME WebInv, NEW r \in Req, flow[r].at = "idle"
  PROVE  /\ \A a \in Auth : ~Holds(flow[r], tx[r], a, "approved")
         /\ \A a \in Auth : ~Claims(flow[r], tx[r], a)
BY HoldsNothing, ClaimsNothing DEF CallbackAt

LEMMA AuthorizeStep ==
  ASSUME WebInv, NEW r \in Req, NEW prompt \in Prompts, NEW pre \in BOOLEAN,
         Authorize(r, prompt, pre)
  PROVE  WebInv'
<1>1. PICK f : f = [Incoming("authorize") EXCEPT
                      !.at = "begin", !.prompt = prompt, !.pre = pre]
  OBVIOUS
<1>2. prompt \in Prompt /\ jar \in SUBSET Auth /\ cookie \in Session \cup {Null}
  BY WebConstants, HandlerFacts
<1>3. f \in Flow /\ f.at = "begin" /\ f.h # "callback"
  <2>1. f = [h |-> "authorize", at |-> "begin", retried |-> FALSE,
             stale |-> FALSE, sent |-> jar, ses |-> cookie, a |-> Null,
             sub |-> Null, prompt |-> prompt, pre |-> pre, google |-> "code",
             op |-> "none"]
    BY <1>1 DEF Incoming, NoFlow
  <2>2. "authorize" \in AllHandlers /\ "begin" \in At /\ "code" \in Answer
    BY DEF AllHandlers, At, Answer
  <2>3. f \in Flow
    BY <1>2, <2>1, <2>2 DEF Flow
  <2> QED BY <2>1, <2>3
<1> QED BY <1>1, <1>3, IdleFacts, AuthorizeValidStep DEF Authorize, Arrives

(* The transaction cookie goes to the browser that asked.                  *)
LEMMA SetsTransactionStep ==
  ASSUME WebInv, NEW r \in Req, NEW a \in Auth, SetsTransaction(r, a),
         flow[r].at \in {"begin", "start"}, Owns(flow[r], tx[r], a)
  PROVE  WebInv'
<1>1. /\ HandlerGoes(r, NoFlow, NoRequest) /\ jar' = jar \cup {a}
      /\ UNCHANGED <<clock, cookie, told, gone, lost>>
  BY DEF SetsTransaction, Replies, HandlerGoes, unheard
<1>2. /\ \A b \in Auth : ~Holds(flow[r], tx[r], b, "approved")
      /\ \A b \in Auth : ~Claims(flow[r], tx[r], b)
  BY HoldsNothing, ClaimsNothing DEF CallbackAt
<1> QED BY <1>1, <1>2, HandlerFacts, ReplyStep

LEMMA AfterBeginStep ==
  ASSUME WebInv, NEW r \in Req, AfterBegin(r)
  PROVE  WebInv'
<1> DEFINE f == flow[r]
           a == tx[r].a
           s == tx[r].s
<1>1. /\ IInv /\ f \in Flow /\ Linked(f, tx[r]) /\ f.at = "begin"
      /\ f.ses \in Session \cup {Null}
      /\ a \in Auth \cup {Null} /\ s \in Session \cup {Null}
  BY HandlerFacts DEF AfterBegin, NotOk, Returned, Awaiting
<1>2. /\ \A b \in Auth : ~Holds(f, tx[r], b, "approved")
      /\ \A b \in Auth : ~Claims(f, tx[r], b)
      /\ f.h # "callback"
  BY <1>1, HoldsNothing, ClaimsNothing DEF CallbackAt
<1>3. CASE AuthorizeErr(r)
  BY <1>1, <1>3, AuthorizeErrStep
<1>4. ASSUME Returned(r, "begin", "ok")
      PROVE  a \in Auth /\ Owns(f, tx[r], a) /\ (s # Null => f.ses # Null)
  BY <1>1, <1>4 DEF Returned, Awaiting, Linked, Done, Owns
<1>5. CASE Returned(r, "begin", "ok") /\ SetsTransaction(r, a)
  BY <1>1, <1>4, <1>5, SetsTransactionStep
<1>6. CASE /\ Returned(r, "begin", "ok") /\ StartLanding(r, "start_google", a, TRUE)
           /\ Enters(r, [f EXCEPT !.at = "start", !.a = a])
  <2>1. PICK g : g = [f EXCEPT !.at = "start", !.a = a]
    OBVIOUS
  <2>2. g \in Flow /\ g.at = "start" /\ g.a = a /\ g.h = f.h
    BY <1>1, <1>4, <1>6, <2>1 DEF Flow, At
  <2>3. Placed(g) /\ Awaits(g, "start_google")
    BY <1>2, <1>4, <1>6, <2>2, BrowserNull DEF Placed, Awaits, CallbackAt
  <2>4. IInv' /\ \E q : Calls(r, q, "start_google", a, Null)
    BY <1>1, <1>4, <1>6, LandingCall
  <2> QED BY <1>2, <1>4, <1>6, <2>1, <2>2, <2>3, <2>4, CallStep
<1>7. ASSUME NEW admits \in BOOLEAN, Returned(r, "begin", "ok"), s # Null,
             StartConsent(r, "consent_view", a, s, admits, FALSE),
             Enters(r, [f EXCEPT !.at = "view", !.a = a, !.retried = FALSE])
      PROVE  WebInv'
  <2>1. PICK g : g = [f EXCEPT !.at = "view", !.a = a, !.retried = FALSE]
    OBVIOUS
  <2>2. g \in Flow /\ g.at = "view" /\ g.a = a /\ g.h = f.h /\ g.ses = f.ses
    BY <1>1, <1>4, <1>7, <2>1 DEF Flow, At
  <2>3. Placed(g) /\ Awaits(g, "consent_view")
    BY <1>2, <1>4, <1>7, <2>2, BrowserNull DEF Placed, Awaits, CallbackAt
  <2>4. IInv' /\ \E q : Calls(r, q, "consent_view", a, s)
    BY <1>1, <1>4, <1>7, ConsentCall
  <2> QED BY <1>2, <1>4, <1>7, <2>1, <2>2, <2>3, <2>4, CallStep
<1>8. CASE /\ Returned(r, "begin", "ok") /\ s # Null
           /\ StartConsent(r, "approve_pre_authorized", a, s, TRUE, TRUE)
           /\ Enters(r, [f EXCEPT !.at = "pre", !.a = a])
  <2>1. PICK g : g = [f EXCEPT !.at = "pre", !.a = a]
    OBVIOUS
  <2>2. g \in Flow /\ g.at = "pre" /\ g.a = a /\ g.h = f.h
    BY <1>1, <1>4, <1>8, <2>1 DEF Flow, At
  <2>3. Placed(g) /\ Awaits(g, "approve_pre_authorized")
    BY <1>2, <1>4, <1>8, <2>2, BrowserNull DEF Placed, Awaits, CallbackAt
  <2>4. IInv' /\ \E q : Calls(r, q, "approve_pre_authorized", a, s)
    BY <1>1, <1>4, <1>8, ConsentCall
  <2> QED BY <1>2, <1>4, <1>8, <2>1, <2>2, <2>3, <2>4, CallStep
<1> QED BY <1>3, <1>5, <1>6, <1>7, <1>8 DEF AfterBegin, Views

LEMMA AfterStartStep ==
  ASSUME WebInv, NEW r \in Req, AfterStart(r)
  PROVE  WebInv'
<1>1. flow[r].at = "start" /\ flow[r].a \in Auth
  BY HandlerFacts DEF AfterStart, NotOk, Returned, Awaiting, NoRow
<1>2. CASE NotOk(r, "start") /\ AuthorizeErr(r)
  BY <1>1, <1>2, AuthorizeErrStep DEF NotOk, Done
<1>3. CASE SetsTransaction(r, flow[r].a)
  BY <1>1, <1>3, SetsTransactionStep DEF Owns
<1> QED BY <1>2, <1>3 DEF AfterStart

LEMMA AfterPreStep ==
  ASSUME WebInv, NEW r \in Req, AfterPre(r)
  PROVE  WebInv'
<1>1. flow[r].at = "pre" /\ flow[r].a \in Auth
  BY HandlerFacts DEF AfterPre, NotOk, Returned, Awaiting, NoRow
<1>2. CASE NotOk(r, "pre") /\ AuthorizeErr(r)
  BY <1>1, <1>2, AuthorizeErrStep DEF NotOk, Done
<1>3. CASE /\ Returned(r, "pre", "ok")
           /\ Replies(r, WithCode(flow[r].a)) /\ UNCHANGED browser
  <2>1. /\ HandlerGoes(r, NoFlow, NoRequest) /\ told' = WithCode(flow[r].a)
        /\ UNCHANGED <<clock, jar, cookie, gone, lost>>
    BY <1>3 DEF Replies, HandlerGoes, browser, unheard
  <2>2. Holds(flow[r], tx[r], flow[r].a, "approved")
    BY <1>1, <1>3 DEF Holds, Done, Returned, Awaiting
  <2>3. \A a \in Auth : ~Claims(flow[r], tx[r], a)
    BY <1>1, ClaimsNothing DEF CallbackAt
  <2> QED BY <1>1, <2>1, <2>2, <2>3, HandlerFacts, ReplyStep
<1> QED BY <1>2, <1>3 DEF AfterPre

-----------------------------------------------------------------------------
(* The consent page and the forms.                                         *)

LEMMA AfterViewStep ==
  ASSUME WebInv, NEW r \in Req, AfterView(r)
  PROVE  WebInv'
<1> DEFINE f == flow[r]
<1>1. /\ f.at = "view" /\ f.a \in Auth /\ f.ses \in Session
  BY HandlerFacts
     DEF AfterView, Returned, Failed, Retries, Awaiting, NoRow, Placed
<1>2. \A a \in Auth : ~Holds(f, tx[r], a, "approved")
  BY <1>1, HoldsNothing
<1>3. ASSUME NEW answers \in {told, WithFailure(f.a)}, ViewReplies(r, answers)
      PROVE  WebInv'
  <2>1. /\ HandlerGoes(r, NoFlow, NoRequest) /\ UNCHANGED <<clock, gone, lost>>
        /\ told' = told \/ told' = WithFailure(f.a)
        /\ cookie' \in {cookie, f.ses} /\ jar' \subseteq jar
    BY <1>3 DEF ViewReplies, Replies, HandlerGoes, browser, unheard
  <2>2. ASSUME NEW a \in Auth, Claims(f, tx[r], a) PROVE a \notin jar'
    BY <1>3, <2>2 DEF ViewReplies, Claims
  <2>3. cookie' \in Session \cup {Null}
    BY <1>1, <2>1, HandlerFacts
  <2> QED BY <1>1, <1>2, <2>1, <2>2, <2>3, HandlerFacts, ReplyStep
<1>4. ASSUME NEW admits \in BOOLEAN, Retries(r, "view"), Again(r),
             StartConsent(r, "consent_view", f.a, f.ses, admits, FALSE)
      PROVE  WebInv'
  <2>1. IInv' /\ \E q : Calls(r, q, "consent_view", f.a, f.ses)
    BY <1>1, <1>4, HandlerFacts, ConsentCall
  <2>2. ~Done(tx[r]) /\ Awaits(f, "consent_view")
    BY <1>1, <1>4 DEF Retries, Returned, Done, Awaits
  <2> QED BY <1>1, <1>4, <2>1, <2>2, AgainStep DEF NoRow
<1> QED BY <1>3, <1>4 DEF AfterView, Views

LEMMA AfterActStep ==
  ASSUME WebInv, NEW r \in Req, AfterAct(r)
  PROVE  WebInv'
<1> DEFINE f == flow[r]
<1>1. /\ f.at = "act" /\ f.a \in Auth /\ Placed(f)
      /\ f.op \in {"approve", "deny", "start_google", "cancel_google"}
  BY HandlerFacts
     DEF AfterAct, ActDone, ActAgain, Returned, Failed, Retries, Awaiting,
         NoRow, Placed
<1>2. \A a \in Auth : ~Claims(f, tx[r], a)
  BY <1>1, ClaimsNothing DEF CallbackAt
<1>3. CASE ActDone(r)
  <2>1. /\ HandlerGoes(r, NoFlow, NoRequest) /\ told' = ActAnswer(f)
        /\ UNCHANGED <<clock, cookie, gone, lost>> /\ jar' \subseteq jar /\ Done(tx[r])
    BY <1>3 DEF ActDone, Replies, HandlerGoes, Returned, Awaiting, Done, unheard
  <2>2. CASE f.op = "approve"
    <3>1. told' = WithCode(f.a) /\ Holds(f, tx[r], f.a, "approved")
      BY <1>1, <2>1, <2>2 DEF ActAnswer, Holds
    <3> QED BY <1>1, <1>2, <2>1, <3>1, HandlerFacts, ReplyStep
  <2>3. CASE f.op \in {"deny", "cancel_google"}
    <3>1. told' = WithDenial(f.a) /\ Holds(f, tx[r], f.a, "denied")
      BY <1>1, <2>1, <2>3 DEF ActAnswer, Holds
    <3> QED BY <1>1, <1>2, <2>1, <3>1, HandlerFacts, ReplyStep
  <2>4. CASE f.op = "start_google"
    <3>1. told' = told /\ \A a \in Auth : ~Holds(f, tx[r], a, "approved")
      BY <1>1, <2>1, <2>4 DEF ActAnswer, Holds
    <3> QED BY <1>1, <1>2, <2>1, <3>1, HandlerFacts, ReplyStep
  <2> QED BY <1>1, <2>2, <2>3, <2>4
<1>4. CASE ActAgain(r)
  <2>1. Again(r) /\ ~Done(tx[r]) /\ Awaits(f, f.op)
    BY <1>1, <1>4 DEF ActAgain, Retries, Returned, Done, Awaits
  <2>2. ASSUME NEW admits \in BOOLEAN, StartLanding(r, f.op, f.a, admits)
        PROVE  WebInv'
    <3>1. IInv' /\ \E q : Calls(r, q, f.op, f.a, Null)
      BY <1>1, <2>2, HandlerFacts, LandingCall
    <3> QED BY <1>1, <2>1, <3>1, AgainStep DEF NoRow
  <2>3. ASSUME NEW admits \in BOOLEAN,
               StartConsent(r, f.op, f.a, f.ses, admits, FALSE)
        PROVE  WebInv'
    <3>1. f.ses \in Session
      <4>1. f.op \in {"approve", "deny"}
        BY <1>1, <2>3 DEF StartConsent, ConsentOps
      <4> QED BY <1>1, <4>1, HandlerFacts DEF Placed
    <3>2. IInv' /\ \E q : Calls(r, q, f.op, f.a, f.ses)
      BY <1>1, <2>3, <3>1, HandlerFacts, ConsentCall
    <3> QED BY <1>1, <2>1, <3>2, AgainStep DEF NoRow
  <2> QED BY <1>4, <2>2, <2>3 DEF ActAgain
<1>5. CASE (Failed(r, "act") \/ Retries(r, "act")) /\ Page(r)
  <2>1. ~Done(tx[r])
    BY <1>5 DEF Failed, Retries, Returned, Done
  <2> QED BY <1>2, <1>5, <2>1, HoldsNothing, PageStep
<1> QED BY <1>3, <1>4, <1>5 DEF AfterAct

(* A form or a page that the browser asks for.                             *)
LEMMA FormsStep ==
  ASSUME WebInv, NEW r \in Req, NEW a \in Auth,
         \/ \E op \in {"start_google", "cancel_google"} : GoogleStart(r, op, a)
         \/ \E op \in {"approve", "deny"} : Consent(r, op, a)
         \/ ConsentGet(r, a)
  PROVE  WebInv'
<1>1. {"google_start", "consent_post", "consent_get"} \subseteq AllHandlers
      /\ {"start_google", "cancel_google", "approve", "deny"} \subseteq AllOps
  BY DEF AllHandlers, AllOps, RowOps, ConsentOps
<1>2. /\ IInv /\ jar \in SUBSET Auth /\ cookie \in Session \cup {Null} /\ a # Null
      /\ \A b \in Auth : ~Holds(flow[r], tx[r], b, "approved")
      /\ \A b \in Auth : ~Claims(flow[r], tx[r], b)
  BY HandlerFacts, IdleFacts, BrowserNull
     DEF GoogleStart, Consent, ConsentGet, Arrives
<1>3. ASSUME NEW op \in {"start_google", "cancel_google"}, GoogleStart(r, op, a)
      PROVE  WebInv'
  <2>1. PICK f : f = [Incoming("google_start") EXCEPT
                        !.at = "act", !.op = op, !.a = a]
    OBVIOUS
  <2>2. f \in Flow /\ f.h = "google_start" /\ f.at = "act" /\ f.op = op /\ f.a = a
    BY <1>1, <1>2, <2>1, Answerless DEF Flow, Incoming, NoFlow, At
  <2>3. Placed(f) /\ Awaits(f, op)
    BY <1>2, <2>2 DEF Placed, Awaits, CallbackAt
  <2>4. PICK admits \in BOOLEAN : StartLanding(r, op, a, admits) /\ Enters(r, f)
    BY <1>3, <2>1 DEF GoogleStart
  <2>5. IInv' /\ \E q : Calls(r, q, op, a, Null)
    BY <1>2, <2>4, LandingCall
  <2> QED BY <1>2, <2>2, <2>3, <2>4, <2>5, CallStep
<1>4. ASSUME NEW op \in {"approve", "deny"}, Consent(r, op, a)
      PROVE  WebInv'
  <2>1. PICK f : f = [Incoming("consent_post") EXCEPT
                        !.at = "act", !.op = op, !.a = a]
    OBVIOUS
  <2>2. /\ f \in Flow /\ f.h = "consent_post" /\ f.at = "act" /\ f.op = op
        /\ f.a = a /\ f.ses = cookie
    BY <1>1, <1>2, <2>1, Answerless DEF Flow, Incoming, NoFlow, At
  <2>3. PICK admits \in BOOLEAN :
          /\ StartConsent(r, op, a, cookie, admits, FALSE) /\ Enters(r, f)
          /\ cookie # Null
    BY <1>4, <2>1 DEF Consent, SignedIn
  <2>4. Placed(f) /\ Awaits(f, op)
    BY <1>2, <2>2, <2>3 DEF Placed, Awaits, CallbackAt
  <2>5. IInv' /\ \E q : Calls(r, q, op, a, cookie)
    BY <1>2, <2>3, ConsentCall
  <2> QED BY <1>2, <2>2, <2>3, <2>4, <2>5, CallStep
<1>5. CASE ConsentGet(r, a)
  <2>1. PICK f : f = [Incoming("consent_get") EXCEPT !.at = "view", !.a = a]
    OBVIOUS
  <2>2. /\ f \in Flow /\ f.h = "consent_get" /\ f.at = "view"
        /\ f.a = a /\ f.ses = cookie
    BY <1>1, <1>2, <2>1, Answerless DEF Flow, Incoming, NoFlow, At
  <2>3. PICK admits \in BOOLEAN :
          /\ StartConsent(r, "consent_view", a, cookie, admits, FALSE)
          /\ Enters(r, f) /\ cookie # Null
    BY <1>5, <2>1 DEF ConsentGet, Views, SignedIn
  <2>4. Placed(f) /\ Awaits(f, "consent_view")
    BY <1>2, <2>2, <2>3 DEF Placed, Awaits, CallbackAt
  <2>5. IInv' /\ \E q : Calls(r, q, "consent_view", a, cookie)
    BY <1>2, <2>3, ConsentCall
  <2> QED BY <1>2, <2>2, <2>3, <2>4, <2>5, CallStep
<1> QED BY <1>3, <1>4, <1>5

LEMMA LogoutStep ==
  ASSUME WebInv, NEW r \in Req, Logout(r) \/ AfterLogout(r)
  PROVE  WebInv'
<1>1. CASE Logout(r)
  <2>1. PICK f : f = [Incoming("logout") EXCEPT !.at = "logout"]
    OBVIOUS
  <2>2. jar \in SUBSET Auth /\ cookie \in Session
    BY <1>1, HandlerFacts DEF Logout, SignedIn
  <2>3. f \in Flow /\ f.h = "logout" /\ f.at = "logout"
    BY <2>1, <2>2, Answerless DEF Flow, At, Incoming, NoFlow, AllHandlers
  <2>4. Placed(f) /\ Awaits(f, "logout")
    BY <2>3 DEF Placed, Awaits, CallbackAt, NoRow
  <2>5. IInv' /\ \E q : Calls(r, q, "logout", Null, cookie)
    BY <1>1, <2>2, HandlerFacts, LogoutCall DEF Logout
  <2>6. Enters(r, f) /\ flow[r].at = "idle"
    BY <1>1, <2>1 DEF Logout, Arrives
  <2> QED BY <2>3, <2>4, <2>5, <2>6, IdleFacts, CallStep DEF NoRow
<1>2. CASE AfterLogout(r)
  <2>1. /\ HandlerGoes(r, NoFlow, NoRequest) /\ UNCHANGED <<clock, jar, told, gone, lost>>
        /\ cookie' \in {cookie, Null} /\ flow[r].at = "logout"
    BY <1>2 DEF AfterLogout, Awaiting, Replies, HandlerGoes, unheard
  <2>2. /\ \A b \in Auth : ~Holds(flow[r], tx[r], b, "approved")
        /\ \A b \in Auth : ~Claims(flow[r], tx[r], b)
    BY <2>1, HoldsNothing, ClaimsNothing DEF CallbackAt
  <2>3. cookie' \in Session \cup {Null}
    BY <2>1, HandlerFacts
  <2> QED BY <2>1, <2>2, <2>3, HandlerFacts, ReplyStep
<1> QED BY <1>1, <1>2

-----------------------------------------------------------------------------
(* GET /federation/google/callback.                                        *)

LEMMA CallbackStep ==
  ASSUME WebInv, NEW r \in Req, NEW a \in Auth, NEW google \in Answer,
         Callback(r, a, google)
  PROVE  WebInv'
<1>1. PICK f : f = [Incoming("callback") EXCEPT !.at = "claim", !.a = a,
                                                !.google = google]
  OBVIOUS
<1>2. f \in Flow /\ f.h = "callback" /\ f.at = "claim" /\ f.a = a /\ f.sent = jar
  <2>1. jar \in SUBSET Auth /\ cookie \in Session \cup {Null}
    BY HandlerFacts
  <2> QED BY <1>1, <2>1, Answerless DEF Flow, Incoming, NoFlow, At, AllHandlers
<1>3. /\ \A b \in Auth : ~Holds(flow[r], tx[r], b, "approved")
      /\ \A b \in Auth : ~Claims(flow[r], tx[r], b)
  BY IdleFacts DEF Callback, Arrives
<1>4. CASE a \in f.sent /\ StartClaim(r, a) /\ Enters(r, f)
  <2>1. IInv' /\ \E q : Calls(r, q, "claim_callback", a, Null)
    BY <1>4, HandlerFacts, ClaimCall
  <2>2. Placed(f) /\ Awaits(f, "claim_callback")
    BY <1>2, BrowserNull DEF Placed, Awaits, CallbackAt
  <2> QED BY <1>2, <1>3, <1>4, <2>1, <2>2, CallStep
<1>5. CASE Page(r)
  BY <1>3, <1>5, PageStep
<1> QED BY <1>1, <1>4, <1>5 DEF Callback

(* Every answer after the claim takes the cookie away.                     *)
LEMMA ErrorPageStep ==
  ASSUME WebInv, NEW r \in Req, flow[r].at \in CallbackAt, ErrorPage(r),
         ~Done(tx[r]) \/ flow[r].at # "callback_pre"
  PROVE  WebInv'
<1>1. flow[r].a \in Auth
  BY HandlerFacts DEF CallbackAt, NoRow
<1>2. /\ HandlerGoes(r, NoFlow, NoRequest) /\ told' = WithFailure(flow[r].a)
      /\ UNCHANGED <<clock, cookie, gone, lost>> /\ jar' = jar \ {flow[r].a}
  BY DEF ErrorPage, Replies, HandlerGoes, unheard
<1>3. \A b \in Auth : ~Holds(flow[r], tx[r], b, "approved")
  BY HoldsNothing DEF CallbackAt
<1>4. \A b \in Auth : Claims(flow[r], tx[r], b) => b \notin jar'
  BY <1>2 DEF Claims
<1> QED BY <1>1, <1>2, <1>3, <1>4, HandlerFacts, ReplyStep

(* The handler of a callback calls its next operation.                     *)
LEMMA CallbackCall ==
  ASSUME WebInv, NEW r \in Req, flow[r].at \in CallbackAt,
         ~Done(tx[r]) \/ flow[r].at # "callback_pre",
         NEW f \in Flow, f.h = "callback", f.a = flow[r].a, Placed(f),
         f.at # "claim", NEW q, NEW op, NEW s, Calls(r, q, op, f.a, s), IInv',
         Enters(r, f), Awaits(f, op)
  PROVE  WebInv'
<1>1. flow[r].h = "callback"
  BY HandlerFacts DEF Placed
<1>2. f.at \notin {"begin", "start"}
  BY DEF Placed, CallbackAt
<1>3. \A b \in Auth : ~Holds(flow[r], tx[r], b, "approved")
  BY HoldsNothing DEF CallbackAt
<1>4. \A b \in Auth : Claims(flow[r], tx[r], b) => f.a = b
  BY DEF Claims
<1> QED BY <1>1, <1>2, <1>3, <1>4, CallStep

LEMMA AfterClaimStep ==
  ASSUME WebInv, NEW r \in Req, AfterClaim(r)
  PROVE  WebInv'
<1> DEFINE f == flow[r]
<1>1. /\ f.at = "claim" /\ f.at \in CallbackAt /\ f.h = "callback" /\ f.a \in Auth
      /\ IInv /\ f \in Flow /\ f.a # Null /\ tx[r].pc = "idle"
  BY HandlerFacts, BrowserNull
     DEF AfterClaim, NotOk, Returned, Awaiting, CallbackAt, Placed, NoRow
<1>2. CASE NotOk(r, "claim") /\ Page(r)
  <2>1. ~Done(tx[r])
    BY <1>2 DEF NotOk, Done
  <2> QED BY <1>1, <1>2, <2>1, HoldsNothing, ClaimsNothing, PageStep
<1>3. ASSUME NEW at \in {"fail", "deny"}, NEW op, NEW admits \in BOOLEAN,
             op = IF at = "fail" THEN "fail_callback" ELSE "deny_callback",
             StartClaimed(r, op, f.a, Null, admits), GoesTo(r, at)
      PROVE  WebInv'
  <2>1. PICK g : g = [f EXCEPT !.at = at, !.retried = FALSE]
    OBVIOUS
  <2>2. g \in Flow /\ g.at = at /\ g.h = "callback" /\ g.a = f.a
    BY <1>1, <2>1 DEF Flow, At
  <2>3. Placed(g) /\ Awaits(g, op) /\ Enters(r, g)
    BY <1>1, <1>3, <2>1, <2>2 DEF Placed, Awaits, CallbackAt, GoesTo
  <2>4. IInv' /\ \E q : Calls(r, q, op, f.a, Null)
    BY <1>1, <1>3, ClaimedCall
  <2> QED BY <1>1, <2>2, <2>3, <2>4, CallbackCall
<1>4. CASE ErrorPage(r)
  BY <1>1, <1>4, ErrorPageStep
<1>5. CASE GoesTo(r, "exchange") /\ UNCHANGED vars
  <2>1. PICK g : g = [f EXCEPT !.at = "exchange", !.retried = FALSE]
    OBVIOUS
  <2>2. g \in Flow /\ g.at = "exchange" /\ g.h = "callback" /\ g.a = f.a
    BY <1>1, <2>1 DEF Flow, At
  <2>3. /\ flow' = [flow EXCEPT ![r] = g] /\ UNCHANGED <<jar, cookie, told, gone, lost>>
        /\ UNCHANGED <<clock, tables, tx>>
    BY <1>5, <2>1 DEF GoesTo, Enters, browser, vars, unheard
  <2>4. tx' = [tx EXCEPT ![r] = tx[r]]
    BY <2>3 DEF WebInv, IInv, TypeOK
  <2>5. IInv' /\ HandlerGoes(r, g, tx[r])
    BY <1>1, <1>5, <2>3, <2>4, StutterStep DEF HandlerGoes
  <2>6. Linked(g, tx[r])
    BY <1>1, <2>2 DEF Linked, Placed, CallbackAt
  <2>7. /\ \A a \in Auth, k \in Final : ~Holds(g, tx[r], a, k)
        /\ \A a \in Auth : ~Owns(g, tx[r], a)
        /\ \A a \in Auth : Claims(f, tx[r], a) => Claims(g, tx[r], a)
    BY <2>2 DEF Holds, Owns, Claims
  <2>8. told' \in [Auth -> Told]
        /\ (\A b \in Auth, k \in Final : Sent(b, k)' = Sent(b, k))
    BY <2>3, TellsNothing
  <2>9. \A a \in Auth : ~Holds(f, tx[r], a, "approved")
    BY <1>1, HoldsNothing
  <2>10. /\ cookie' \in Session \cup {Null} /\ jar' = jar /\ gone' = gone
         /\ gone \subseteq Auth /\ lost' = lost
         /\ lost \in [claims : SUBSET Auth, codes : SUBSET Auth]
    BY <2>3, HandlerFacts DEF WebInv, WebTypeOK
  <2> QED BY <1>1, <2>2, <2>5, <2>6, <2>7, <2>8, <2>9, <2>10, HandlerStep
<1> QED BY <1>2, <1>3, <1>4, <1>5 DEF AfterClaim

LEMMA AfterExchangeStep ==
  ASSUME WebInv, NEW r \in Req, AfterExchange(r)
  PROVE  WebInv'
<1> DEFINE f == flow[r]
<1>1. /\ f.at = "exchange" /\ f.at \in CallbackAt /\ f.h = "callback"
      /\ f.a \in Auth /\ IInv /\ f \in Flow /\ f.a # Null
  BY HandlerFacts, BrowserNull DEF AfterExchange, Awaiting, CallbackAt, Placed, NoRow
<1>2. ASSUME NEW u \in Subject, NEW admits \in BOOLEAN,
             StartClaimed(r, "complete_callback", f.a, u, admits),
             Enters(r, [f EXCEPT !.at = "complete", !.sub = u])
      PROVE  WebInv'
  <2>1. PICK g : g = [f EXCEPT !.at = "complete", !.sub = u]
    OBVIOUS
  <2>2. /\ g \in Flow /\ g.at = "complete" /\ g.h = "callback" /\ g.a = f.a
        /\ g.sub = u
    BY <1>1, <2>1 DEF Flow, At
  <2>3. Placed(g) /\ Awaits(g, "complete_callback") /\ u # Null
    BY <1>1, <2>2, BrowserNull DEF Placed, Awaits, CallbackAt
  <2>4. IInv' /\ \E q : Calls(r, q, "complete_callback", f.a, Null)
    BY <1>1, <1>2, <2>3, ClaimedCall
  <2> QED BY <1>1, <1>2, <2>1, <2>2, <2>3, <2>4, CallbackCall
<1>3. CASE StartClaimed(r, "fail_callback", f.a, Null, TRUE) /\ GoesTo(r, "fail")
  <2>1. PICK g : g = [f EXCEPT !.at = "fail", !.retried = FALSE]
    OBVIOUS
  <2>2. g \in Flow /\ g.at = "fail" /\ g.h = "callback" /\ g.a = f.a
    BY <1>1, <2>1 DEF Flow, At
  <2>3. Placed(g) /\ Awaits(g, "fail_callback") /\ Enters(r, g)
    BY <1>1, <1>3, <2>1, <2>2 DEF Placed, Awaits, CallbackAt, GoesTo
  <2>4. IInv' /\ \E q : Calls(r, q, "fail_callback", f.a, Null)
    BY <1>1, <1>3, ClaimedCall
  <2> QED BY <1>1, <2>2, <2>3, <2>4, CallbackCall
<1>4. CASE ErrorPage(r)
  BY <1>1, <1>4, ErrorPageStep
<1> QED BY <1>2, <1>3, <1>4 DEF AfterExchange

LEMMA AfterFailStep ==
  ASSUME WebInv, NEW r \in Req, AfterFail(r)
  PROVE  WebInv'
BY ErrorPageStep DEF AfterFail, Awaiting, CallbackAt

LEMMA AfterDenyStep ==
  ASSUME WebInv, NEW r \in Req, AfterDeny(r)
  PROVE  WebInv'
<1> DEFINE f == flow[r]
<1>1. /\ f.at = "deny" /\ f.at \in CallbackAt /\ f.h = "callback"
      /\ f.a \in Auth /\ IInv
  BY HandlerFacts
     DEF AfterDeny, Returned, Retries, Failed, Awaiting, CallbackAt, Placed, NoRow
<1>2. CASE /\ Returned(r, "deny", "ok") /\ Replies(r, WithDenial(f.a))
           /\ jar' = jar \ {f.a} /\ UNCHANGED cookie
  <2>1. /\ HandlerGoes(r, NoFlow, NoRequest) /\ told' = WithDenial(f.a)
        /\ UNCHANGED <<clock, cookie, gone, lost>>
    BY <1>2 DEF Replies, HandlerGoes, unheard
  <2>2. Holds(f, tx[r], f.a, "denied")
    BY <1>1, <1>2 DEF Holds, Done, Returned, Awaiting
  <2>3. \A a \in Auth : Claims(f, tx[r], a) => a \notin jar'
    BY <1>2 DEF Claims
  <2> QED BY <1>1, <1>2, <2>1, <2>2, <2>3, HandlerFacts, ReplyStep
<1>3. ASSUME NEW admits \in BOOLEAN, Retries(r, "deny"), Again(r),
             StartClaimed(r, "deny_callback", f.a, Null, admits)
      PROVE  WebInv'
  <2>1. IInv' /\ \E q : Calls(r, q, "deny_callback", f.a, Null)
    BY <1>1, <1>3, ClaimedCall
  <2>2. ~Done(tx[r]) /\ Awaits(f, "deny_callback")
    BY <1>1, <1>3 DEF Retries, Returned, Done, Awaits
  <2> QED BY <1>1, <1>3, <2>1, <2>2, AgainStep DEF NoRow
<1>4. CASE ErrorPage(r)
  BY <1>1, <1>4, ErrorPageStep
<1> QED BY <1>2, <1>3, <1>4 DEF AfterDeny

LEMMA AfterCompleteStep ==
  ASSUME WebInv, NEW r \in Req, AfterComplete(r)
  PROVE  WebInv'
<1> DEFINE f == flow[r]
           s == tx[r].s
<1>1. /\ f.at = "complete" /\ f.at \in CallbackAt /\ f.h = "callback"
      /\ f.a \in Auth /\ IInv /\ f \in Flow /\ Placed(f) /\ Linked(f, tx[r])
      /\ f.a # Null /\ s \in Session \cup {Null}
  BY HandlerFacts, BrowserNull
     DEF AfterComplete, Returned, Retries, Failed, Awaiting, CallbackAt, Placed,
         NoRow
<1>2. ASSUME Returned(r, "complete", "ok"), NEW admits \in BOOLEAN,
             NEW pre \in BOOLEAN, NEW at \in {"callback_pre", "view"}, NEW op,
             op = IF at = "view" THEN "consent_view" ELSE "approve_pre_authorized",
             StartConsent(r, op, f.a, s, admits, pre),
             Enters(r, [[f EXCEPT !.ses = s, !.retried = FALSE] EXCEPT !.at = at])
      PROVE  WebInv'
  <2>1. s \in Session /\ s # Null
    BY <1>1, <1>2, BrowserNull DEF Returned, Awaiting, Linked, Done
  <2>2. PICK g : g = [[f EXCEPT !.ses = s, !.retried = FALSE] EXCEPT !.at = at]
    OBVIOUS
  <2>3. /\ g \in Flow /\ g.at = at /\ g.h = "callback" /\ g.a = f.a /\ g.ses = s
    BY <1>1, <1>2, <2>1, <2>2 DEF Flow, At
  <2>4. Placed(g) /\ Awaits(g, op)
    BY <1>1, <1>2, <2>1, <2>3 DEF Placed, Awaits, CallbackAt
  <2>5. IInv' /\ \E q : Calls(r, q, op, f.a, s)
    BY <1>1, <1>2, <2>1, ConsentCall
  <2> QED BY <1>1, <1>2, <2>2, <2>3, <2>4, <2>5, CallbackCall
<1>3. ASSUME NEW admits \in BOOLEAN, Retries(r, "complete"), Again(r),
             StartClaimed(r, "complete_callback", f.a, f.sub, admits)
      PROVE  WebInv'
  <2>1. f.sub # Null /\ f.sub \in Subject \cup {Null}
    BY <1>1, HandlerFacts DEF Placed
  <2>2. IInv' /\ \E q : Calls(r, q, "complete_callback", f.a, Null)
    BY <1>1, <1>3, <2>1, ClaimedCall
  <2>3. ~Done(tx[r]) /\ Awaits(f, "complete_callback")
    BY <1>1, <1>3 DEF Retries, Returned, Done, Awaits
  <2> QED BY <1>1, <1>3, <2>2, <2>3, AgainStep DEF NoRow
<1>4. CASE ErrorPage(r)
  BY <1>1, <1>4, ErrorPageStep
<1> QED BY <1>2, <1>3, <1>4 DEF AfterComplete, PreApproves, Views

LEMMA AfterCallbackPreStep ==
  ASSUME WebInv, NEW r \in Req, AfterCallbackPre(r)
  PROVE  WebInv'
<1> DEFINE f == flow[r]
<1>1. /\ f.at = "callback_pre" /\ f.at \in CallbackAt /\ f.h = "callback"
      /\ f.a \in Auth /\ IInv /\ f \in Flow /\ f.a # Null /\ f.ses \in Session
      /\ f.ses # Null
  BY HandlerFacts, BrowserNull
     DEF AfterCallbackPre, Returned, Retries, Failed, Awaiting, CallbackAt,
         Placed, NoRow
<1>2. CASE /\ Returned(r, "callback_pre", "ok") /\ Replies(r, WithCode(f.a))
           /\ jar' = jar \ {f.a} /\ cookie' = f.ses
  <2>1. /\ HandlerGoes(r, NoFlow, NoRequest) /\ told' = WithCode(f.a)
        /\ UNCHANGED <<clock, gone, lost>>
    BY <1>2 DEF Replies, HandlerGoes, unheard
  <2>2. Holds(f, tx[r], f.a, "approved")
    BY <1>1, <1>2 DEF Holds, Done, Returned, Awaiting
  <2>3. \A a \in Auth : Claims(f, tx[r], a) => a \notin jar'
    BY <1>2 DEF Claims
  <2> QED BY <1>1, <1>2, <2>1, <2>2, <2>3, HandlerFacts, ReplyStep
<1>3. ASSUME ~Done(tx[r]), NEW admits \in BOOLEAN, GoesTo(r, "view"),
             StartConsent(r, "consent_view", f.a, f.ses, admits, FALSE)
      PROVE  WebInv'
  <2>1. PICK g : g = [f EXCEPT !.at = "view", !.retried = FALSE]
    OBVIOUS
  <2>2. /\ g \in Flow /\ g.at = "view" /\ g.h = "callback" /\ g.a = f.a
        /\ g.ses = f.ses
    BY <1>1, <2>1 DEF Flow, At
  <2>3. Placed(g) /\ Awaits(g, "consent_view") /\ Enters(r, g)
    BY <1>1, <1>3, <2>1, <2>2 DEF Placed, Awaits, CallbackAt, GoesTo
  <2>4. IInv' /\ \E q : Calls(r, q, "consent_view", f.a, f.ses)
    BY <1>1, <1>3, ConsentCall
  <2> QED BY <1>1, <1>3, <2>2, <2>3, <2>4, CallbackCall
<1>4. ASSUME ~Done(tx[r]), NEW admits \in BOOLEAN, NEW pre \in BOOLEAN, Again(r),
             StartConsent(r, "approve_pre_authorized", f.a, f.ses, admits, pre)
      PROVE  WebInv'
  <2>1. IInv' /\ \E q : Calls(r, q, "approve_pre_authorized", f.a, f.ses)
    BY <1>1, <1>4, ConsentCall
  <2>2. Awaits(f, "approve_pre_authorized")
    BY <1>1 DEF Awaits
  <2> QED BY <1>1, <1>4, <2>1, <2>2, AgainStep DEF NoRow
<1>5. CASE Failed(r, "callback_pre") /\ ErrorPage(r)
  <2>1. ~Done(tx[r])
    BY <1>5 DEF Failed, Done
  <2> QED BY <1>1, <1>5, <2>1, ErrorPageStep
<1>6. Returned(r, "callback_pre", "not_pre_authorized") \/ Retries(r, "callback_pre")
        => ~Done(tx[r])
  BY DEF Returned, Retries, Done
<1> QED BY <1>2, <1>3, <1>4, <1>5, <1>6 DEF AfterCallbackPre, Views, PreApproves

-----------------------------------------------------------------------------
(* The environment, and all steps together.                                *)

LEMMA DisconnectStep ==
  ASSUME WebInv, NEW r \in Req, Disconnect(r)
  PROVE  WebInv'
<1>1. /\ HandlerGoes(r, NoFlow, NoRequest) /\ UNCHANGED <<clock, jar, cookie, told, lost>>
      /\ gone' = gone \cup ({flow[r].a} \ {Null})
  BY DEF Disconnect, HandlerGoes, browser
<1>2. \A a \in Auth : a = flow[r].a => a \in gone'
  BY <1>1, BrowserNull
<1>3. /\ \A a \in Auth : Holds(flow[r], tx[r], a, "approved") => a \in gone'
      /\ \A a \in Auth : Claims(flow[r], tx[r], a) => a \in gone'
  BY <1>2 DEF Holds, Claims
<1>4. gone \subseteq gone' /\ gone' \subseteq Auth
  BY <1>1, HandlerFacts
<1> QED BY <1>1, <1>3, <1>4, HandlerFacts, ReplyStep

(* The acknowledgement of a commit is lost: the handler holds its code, or *)
(* its claim, no longer, and that is on record.                            *)
LEMMA LastAwaitStep ==
  ASSUME WebInv, NEW r \in Req, LastAwaitFails(r)
  PROVE  WebInv'
<1> DEFINE f == flow[r]
<1>1. PICK q : q = [tx[r] EXCEPT !.out = "cancelled"]
  OBVIOUS
<1>2. tx[r] \in Request /\ IInv
  BY DEF WebInv, IInv, TypeOK
<1>3. /\ q \in Request /\ q.pc = "idle" /\ q.out = "cancelled" /\ q.a = tx[r].a
      /\ q.s = tx[r].s /\ tx[r].pc = "idle" /\ ~Done(q) /\ Done(tx[r])
  BY <1>1, <1>2 DEF LastAwaitFails, Request, Out, Done
<1>4. /\ tx' = [tx EXCEPT ![r] = q] /\ UNCHANGED <<clock, tables>>
      /\ UNCHANGED <<jar, cookie, flow, told, gone>>
  BY <1>1 DEF LastAwaitFails, browser
<1>5. IInv'
  BY <1>2, <1>3, <1>4, IdleOK, RequestStep
<1>6. HandlerGoes(r, f, q)
  <2>1. flow' = [flow EXCEPT ![r] = f]
    BY <1>4 DEF WebInv, WebTypeOK
  <2> QED BY <1>4, <2>1 DEF HandlerGoes
<1>7. Linked(f, q)
  BY <1>3, HandlerFacts DEF Linked
<1>8. /\ \A a \in Auth, k \in Final : ~Holds(f, q, a, k)
      /\ \A a \in Auth : Owns(f, q, a) => Owns(f, tx[r], a)
  BY <1>3 DEF Holds, Owns
<1>9. f.h = "callback" => f.a \in jar \/ (flow[r].h = "callback" /\ flow[r].a = f.a)
  OBVIOUS
<1>10. told' \in [Auth -> Told]
       /\ (\A b \in Auth, k \in Final : Sent(b, k)' = Sent(b, k))
  BY <1>4, TellsNothing
<1>11. lost \in [claims : SUBSET Auth, codes : SUBSET Auth]
  BY DEF WebInv, WebTypeOK
<1>12. /\ lost'.claims = lost.claims \cup {a \in Auth : f.a = a /\ f.at = "claim"}
       /\ lost'.codes = lost.codes \cup {a \in Auth : HoldsCode(r, a)}
       /\ lost' \in [claims : SUBSET Auth, codes : SUBSET Auth]
  BY <1>11 DEF LastAwaitFails
<1>13. \A a \in Auth : HoldsCode(r, a) <=> Holds(f, tx[r], a, "approved")
  BY DEF HoldsCode, Holds, Done
<1>14. ASSUME NEW a \in Auth, Claims(f, tx[r], a)
       PROVE  Claims(f, q, a) \/ a \in lost'.claims
  BY <1>12, <1>14 DEF Claims
<1>15. "approved" \in Final
  BY DEF Final
<1>16. /\ \A a \in lost'.codes : a \in lost.codes \/
             (Holds(f, tx[r], a, "approved") /\
              Sent(a, "approved")' = Sent(a, "approved"))
       /\ \A a \in Auth : Holds(f, tx[r], a, "approved") => a \in lost'.codes
  BY <1>10, <1>12, <1>13, <1>15
<1>17. /\ f \in Flow /\ cookie' \in Session \cup {Null} /\ jar' = jar
       /\ gone' = gone /\ gone \subseteq Auth
  BY <1>4, HandlerFacts
<1>18. lost.claims \subseteq lost'.claims /\ lost.codes \subseteq lost'.codes
  BY <1>12
<1> HIDE DEF f
<1> QED BY <1>5, <1>6, <1>7, <1>8, <1>9, <1>10, <1>12, <1>14, <1>16, <1>17, <1>18,
           HandlerStep DEF f

LEMMA StoreStepStep ==
  ASSUME WebInv, NEW r \in Req, StoreStep(r)
  PROVE  WebInv'
<1>1. flow \in [Req -> Flow] /\ flow[r] \in Flow
  BY DEF WebInv, WebTypeOK
<1>2. PICK b \in BOOLEAN : b = (flow[r].stale \/
                               (flow[r].h = "authorize" /\ tx[r].lease # "live"))
  OBVIOUS
<1>3. flow' = [flow EXCEPT ![r] = [flow[r] EXCEPT !.stale = b]]
  BY <1>1, <1>2 DEF StoreStep
<1>4. PICK g : g = [flow[r] EXCEPT !.stale = b]
  OBVIOUS
<1>5. /\ g \in Flow /\ g.h = flow[r].h /\ g.at = flow[r].at /\ g.a = flow[r].a
      /\ g.op = flow[r].op /\ g.ses = flow[r].ses /\ g.sub = flow[r].sub
  BY <1>1, <1>4 DEF Flow
<1>6. flow' \in [Req -> Flow] /\ flow'[r] = g
      /\ \A x \in Req : x # r => flow'[x] = flow[x]
  BY <1>1, <1>3, <1>4, <1>5
<1>7. SameHandlers
  BY <1>5, <1>6 DEF SameHandlers, StoreStep, unheard
<1>8. Moves(r)
  BY DEF StoreStep, Moves
<1> QED BY <1>6, <1>7, <1>8, StoreStepKeeps

LEMMA BrowseStep ==
  ASSUME WebInv, NEW r \in Req, Browse(r)
  PROVE  WebInv'
BY AuthorizeStep, FormsStep, CallbackStep, LogoutStep DEF Browse

LEMMA HandleStep ==
  ASSUME WebInv, NEW r \in Req, Handle(r)
  PROVE  WebInv'
BY AfterBeginStep, AfterStartStep, AfterPreStep, AfterViewStep, AfterActStep,
   AfterClaimStep, AfterExchangeStep, AfterFailStep, AfterDenyStep,
   AfterCompleteStep, AfterCallbackPreStep, LogoutStep
   DEF Handle

LEMMA WebInitInv ==
  ASSUME WebInit
  PROVE  WebInv
<1>1. IInv
  BY InitInv DEF WebInit
<1>2. /\ \A r \in Req : flow[r] = NoFlow /\ tx[r] = NoRequest
      /\ jar = {} /\ \A a \in Auth : authorizations[a] = Null
      /\ \A a \in Auth : told[a].code = 0 /\ told[a].denied = 0
  BY DEF WebInit, Init
<1>3. WebTypeOK
  BY Answerless DEF WebInit, WebTypeOK, Told
<1>4. \A r \in Req : Linked(flow[r], tx[r])
  BY <1>2, Answerless
<1>5. OwnersOK /\ ClaimersOK
  BY <1>2, Answerless DEF OwnersOK, ClaimersOK
<1>6. \A a \in Auth, k \in Final : Sent(a, k) = 0 /\ ~StageIs(a, k)
        /\ \A r \in Req : ~Holds(flow[r], tx[r], a, k)
  BY <1>2, Answerless DEF Sent, StageIs
<1>7. AnswersOK /\ LostOK
  BY <1>6 DEF AnswersOK, LostOK, Final, WebInit
<1> QED BY <1>1, <1>3, <1>4, <1>5, <1>7 DEF WebInv

LEMMA WebInvariance == WebSpec => []WebInv
<1>1. WebInv /\ [WebNext]_webVars => WebInv'
  <2> SUFFICES ASSUME WebInv, [WebNext]_webVars PROVE WebInv'
    OBVIOUS
  <2>1. CASE Tick /\ UNCHANGED <<browser, flow, told, unheard>>
    <3>1. IInv' /\ UNCHANGED <<tables, tx, flow, told, gone, lost, cookie, jar>>
      BY <2>1, TickStep DEF WebInv, Tick, browser, unheard
    <3> QED BY <3>1, QuietStep
  <2>2. ASSUME NEW r \in Req, LeaseLapses(r), UNCHANGED <<browser, flow, told, unheard>>
        PROVE  WebInv'
    <3>1. SameHandlers /\ Moves(r) /\ flow' \in [Req -> Flow]
      BY <2>2 DEF SameHandlers, Moves, WebInv, WebTypeOK, unheard
    <3> QED BY <3>1, StoreStepKeeps
  <2>3. ASSUME NEW a \in Auth, CookieExpires(a)
        PROVE  WebInv'
    <3>1. /\ UNCHANGED vars /\ UNCHANGED <<cookie, flow, told, gone, lost>>
          /\ jar' \subseteq jar
      BY <2>3 DEF CookieExpires, unheard
    <3>2. IInv' /\ UNCHANGED <<tables, tx>>
      BY <3>1, StutterStep DEF WebInv, vars
    <3> QED BY <3>1, <3>2, QuietStep
  <2>4. CASE UNCHANGED webVars
    <3>1. UNCHANGED vars /\ UNCHANGED <<cookie, flow, told, gone, lost, jar>>
      BY <2>4 DEF webVars, browser, unheard
    <3>2. IInv' /\ UNCHANGED <<tables, tx>>
      BY <3>1, StutterStep DEF WebInv, vars
    <3> QED BY <3>1, <3>2, QuietStep
  <2> QED BY <2>1, <2>2, <2>3, <2>4, BrowseStep, HandleStep, StoreStepStep,
             LastAwaitStep, DisconnectStep
          DEF WebNext
<1> QED BY <1>1, WebInitInv, PTL DEF WebSpec

-----------------------------------------------------------------------------
(* The client hears of an authorization at most once, and what it hears is *)
(* what the row says: retries, duplicate callbacks, double submitted forms *)
(* and races never send it both a code and access_denied, or one of them   *)
(* twice.                                                                  *)
THEOREM ClientsHearOnce == WebSpec => []AnswersAgree
<1>1. WebInv => AnswersAgree
  <2> SUFFICES ASSUME WebInv, NEW a \in Auth
               PROVE  /\ told[a].code + told[a].denied <= 1
                      /\ told[a].code = 1 => authorizations[a].stage = "approved"
                      /\ told[a].denied = 1 => authorizations[a].stage = "denied"
    BY DEF AnswersAgree
  <2>1. "approved" \in Final /\ "denied" \in Final
    BY DEF Final
  <2>2. Sent(a, "approved") = told[a].code /\ Sent(a, "denied") = told[a].denied
    BY DEF Sent
  <2>3. /\ told[a].code \in {0, 1} /\ told[a].denied \in {0, 1}
        /\ told[a].code = 1 => authorizations[a].stage = "approved"
        /\ told[a].denied = 1 => authorizations[a].stage = "denied"
    BY <2>1, <2>2 DEF WebInv, AnswersOK, StageIs
  <2> QED BY <2>3
<1> QED BY <1>1, WebInvariance, PTL

(* No issued code is swallowed by an error path or a retry of a handler:   *)
(* unless a client hung up, every code was sent or is being sent, but for  *)
(* the code whose commit took effect without being acknowledged.           *)
THEOREM CodesReachTheClient == WebSpec => []CodesAreAnswered
<1>1. WebInv => CodesAreAnswered
  <2> SUFFICES ASSUME WebInv, NEW a \in Auth \ gone
               PROVE  codes[a] = told[a].code
                        + Cardinality({r \in Req : HoldsCode(r, a)})
                        + Cardinality(lost.codes \cap {a})
    BY DEF CodesAreAnswered
  <2> DEFINE holders == {r \in Req : HoldsCode(r, a)}
  <2>1. \A r \in Req : r \in holders <=> Holds(flow[r], tx[r], a, "approved")
    BY DEF HoldsCode, Holds, Done
  <2>2. holders \subseteq Req
    OBVIOUS
  <2> HIDE DEF holders
  <2>3. /\ told[a].code \in {0, 1}
        /\ told[a].code = 1 => StageIs(a, "approved") /\ holders = {}
        /\ \A r \in holders : StageIs(a, "approved") /\ holders = {r}
        /\ StageIs(a, "approved") =>
             told[a].code = 1 \/ holders # {} \/ a \in lost.codes
        /\ a \in lost.codes =>
             StageIs(a, "approved") /\ told[a].code = 0 /\ holders = {}
    <3>1. "approved" \in Final /\ Sent(a, "approved") = told[a].code
      BY DEF Final, Sent
    <3> QED BY <2>1, <2>2, <3>1 DEF WebInv, AnswersOK, LostOK
  <2>4. codes[a] = IF StageIs(a, "approved") THEN 1 ELSE 0
    <3>1. codes[a] \in Nat
      BY DEF WebInv, IInv, TypeOK
    <3> QED BY <3>1 DEF WebInv, IInv, RowOK, StageIs
  <2>5. Cardinality(lost.codes \cap {a}) = IF a \in lost.codes THEN 1 ELSE 0
    <3>1. lost.codes \cap {a} = IF a \in lost.codes THEN {a} ELSE {}
      OBVIOUS
    <3> QED BY <3>1, FS_EmptySet, FS_Singleton
  <2>6. CASE holders = {}
    <3>1. Cardinality(holders) = 0
      BY <2>6, FS_EmptySet
    <3> QED BY <2>3, <2>4, <2>5, <2>6, <3>1 DEF holders
  <2>7. ASSUME NEW r \in holders
        PROVE  codes[a] = told[a].code + Cardinality(holders)
                            + Cardinality(lost.codes \cap {a})
    <3>1. Cardinality(holders) = 1
      BY <2>3, <2>7, FS_Singleton
    <3> QED BY <2>3, <2>4, <2>5, <2>7, <3>1
  <2> QED BY <2>6, <2>7 DEF holders
<1> QED BY <1>1, WebInvariance, PTL

(* Every path of the callback handler after the claim clears the           *)
(* transaction cookie, the ones that end in an error too; the exception is *)
(* a claim that took effect without being acknowledged.                    *)
THEOREM ClaimsClearCookies == WebSpec => []ClaimedCookiesCleared
<1>1. WebInv => ClaimedCookiesCleared
  BY DEF WebInv, ClaimersOK, ClaimedCookiesCleared, Claims
<1> QED BY <1>1, WebInvariance, PTL

(* Through the handlers too a row issues one code at most, and exactly the *)
(* approved rows have issued one.                                          *)
THEOREM HandlersIssueOneCode == WebSpec => []OneCodePerApproval
<1>1. WebInv => OneCodePerApproval
  BY DEF WebInv, IInv, RowOK, OneCodePerApproval
<1> QED BY <1>1, WebInvariance, PTL

(* The handlers themselves write no table.                                 *)
LEMMA StartsWriteNothing ==
  ASSUME NEW r, NEW op, NEW a, NEW s, NEW u, NEW b, NEW c,
         \/ StartLanding(r, op, a, b) \/ StartClaim(r, a)
         \/ StartClaimed(r, op, a, u, b) \/ StartConsent(r, op, a, s, b, c)
         \/ StartLogout(r, s) \/ StartBeginGoogle(r, b)
         \/ StartBeginAuthenticated(r, s, b)
  PROVE  UNCHANGED codes
BY DEF StartLanding, StartClaim, StartClaimed, StartConsent, StartLogout,
       StartBeginGoogle, StartBeginAuthenticated, Begin, tables

LEMMA RepliesWriteNothing ==
  ASSUME NEW r, NEW answers, Replies(r, answers)
  PROVE  UNCHANGED codes
BY DEF Replies, tables

LEMMA HandlersWriteNothing ==
  ASSUME NEW r \in Req, Browse(r) \/ Handle(r) \/ LastAwaitFails(r) \/ Disconnect(r)
  PROVE  UNCHANGED codes
<1>1. CASE LastAwaitFails(r) \/ Disconnect(r)
  BY <1>1 DEF LastAwaitFails, Disconnect, tables
<1>2. CASE Page(r) \/ ErrorPage(r)
  BY <1>2, RepliesWriteNothing DEF Page, ErrorPage
<1>3. ASSUME NEW f, AuthorizeValid(r, f) PROVE UNCHANGED codes
  BY <1>2, <1>3, StartsWriteNothing DEF AuthorizeValid
<1>4. CASE AuthorizeErr(r)
  BY <1>2, <1>3, <1>4 DEF AuthorizeErr
<1>5. CASE Browse(r)
  BY <1>2, <1>3, <1>5, StartsWriteNothing
     DEF Browse, Authorize, GoogleStart, Callback, Consent, ConsentGet, Views, Logout
<1>6. CASE AfterBegin(r) \/ AfterStart(r) \/ AfterPre(r)
  BY <1>4, <1>6, StartsWriteNothing, RepliesWriteNothing
     DEF AfterBegin, AfterStart, AfterPre, SetsTransaction, Views
<1>7. CASE AfterView(r) \/ AfterAct(r) \/ AfterLogout(r)
  BY <1>2, <1>7, StartsWriteNothing, RepliesWriteNothing
     DEF AfterView, ViewReplies, Views, AfterAct, ActDone, ActAgain, AfterLogout
<1>8. CASE AfterClaim(r) \/ AfterExchange(r) \/ AfterFail(r) \/ AfterDeny(r)
  BY <1>2, <1>8, StartsWriteNothing, RepliesWriteNothing
     DEF AfterClaim, AfterExchange, AfterFail, AfterDeny, vars, tables
<1>9. CASE AfterComplete(r) \/ AfterCallbackPre(r)
  BY <1>2, <1>9, StartsWriteNothing, RepliesWriteNothing
     DEF AfterComplete, AfterCallbackPre, Views, PreApproves
<1> QED BY <1>1, <1>5, <1>6, <1>7, <1>8, <1>9 DEF Handle

(* And as the handlers call the store, a code is issued only for a row     *)
(* that awaits consent, by the row's own live session, on current client   *)
(* metadata, and without the user only where the recorded choice allows it.*)
THEOREM HandlersNeedApproval == WebSpec => CodeNeedsApproval
<1>1. WebInv /\ [WebNext]_webVars =>
        [\A a \in Auth : codes'[a] # codes[a] =>
           LET row == authorizations[a] IN
           /\ row.stage = "awaiting_consent"
           /\ ~sessions[row.session].revoked
           /\ \E r \in Req : /\ tx[r].pc = "commit" /\ tx[r].a = a
                             /\ tx[r].s = row.session
                             /\ tx[r].lease \in {"live", "commit"}
                             /\ row.allow \/ tx[r].op = "approve"]_vars
  <2> SUFFICES ASSUME WebInv, [WebNext]_webVars, NEW a \in Auth,
                      codes'[a] # codes[a]
               PROVE  LET row == authorizations[a] IN
                      /\ row.stage = "awaiting_consent"
                      /\ ~sessions[row.session].revoked
                      /\ \E r \in Req : /\ tx[r].pc = "commit" /\ tx[r].a = a
                                        /\ tx[r].s = row.session
                                        /\ tx[r].lease \in {"live", "commit"}
                                        /\ row.allow \/ tx[r].op = "approve"
    OBVIOUS
  <2>1. ~UNCHANGED codes
    OBVIOUS
  <2>2. \E r \in Req : StoreStep(r) \/ LeaseLapses(r)
    BY <2>1, HandlersWriteNothing
       DEF WebNext, webVars, vars, tables, Tick, CookieExpires
  <2>3. PICK r \in Req : CommitApproval(r)
    BY <2>1, <2>2, OnlyApprovalsIssue DEF StoreStep
  <2> QED BY <2>3, CodeStep DEF WebInv
<1> QED BY <1>1, WebInvariance, PTL DEF WebSpec, CodeNeedsApproval

=============================================================================
