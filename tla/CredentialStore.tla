--------------------------- MODULE CredentialStore ---------------------------
(***************************************************************************)
(* The credential store of src/credentials.rs: provider sessions,          *)
(* authorization codes, refresh families and their rotating members, as    *)
(* PostgreSQL tables, and the requests that run transactions on them.      *)
(*                                                                         *)
(* A request is a sequence of awaits.  Every statement that can block, and *)
(* every point where another request can run, is a step of its own: the    *)
(* unlocked lookup, one SELECT ... FOR UPDATE per row, the clock reading   *)
(* and the checks that follow it, the staged writes, the last lease check  *)
(* and the commit.  Staged writes are visible to no one before the commit; *)
(* dropping the request's future at any await rolls the transaction back.  *)
(*                                                                         *)
(* The columns a request is compared with (client, redirect, resource,     *)
(* challenge, scopes, CIMD binding) are written once and never updated, so *)
(* a request carries only the outcome of the two comparisons: "bound" (the *)
(* presented parameters equal the row's) and "admits" (the registry        *)
(* snapshot the request resolved accepts the row's client, CIMD binding    *)
(* and policy).                                                            *)
(***************************************************************************)
EXTENDS Naturals, FiniteSets

CONSTANTS
  Session, Code, Family, Member,  \* identifiers of rows, by table
  Req,                            \* request slots, reused by later requests
  Null,                           \* SQL NULL, and "no such row"
  MaxSessionLife,                 \* 30 days
  MaxCodeLife,                    \* 60 seconds
  FamilyLife,                     \* 30 days
  MaxClock                        \* bound on the clock (model checking only)

ASSUME LifetimesPositive ==
  /\ MaxSessionLife \in Nat \ {0}
  /\ MaxCodeLife \in Nat \ {0}
  /\ FamilyLife \in Nat \ {0}
  /\ MaxClock \in Nat

-----------------------------------------------------------------------------
(* Rows.  A table is a function from identifiers to a row or Null.         *)

Time == Nat
OptTime == Time \cup {Null}

SessionRow == [auth_time : Time, expires_at : Time, revoked_at : OptTime]

CodeRow == [session : Session, offline : BOOLEAN, issued_at : Time,
            expires_at : Time, consumed_at : OptTime]

FamilyRow == [source_code : Code, session : Session, issued_at : Time,
              expires_at : Time, revoked_at : OptTime]

MemberRow == [family : Family, issued_at : Time, consumed_at : OptTime,
              successor : Member \cup {Null}]

ASSUME NullIsNoValue ==
  /\ Null \notin Session /\ Null \notin Code /\ Null \notin Family
  /\ Null \notin Member /\ Null \notin Req /\ Null \notin Nat
  /\ Null \notin SessionRow /\ Null \notin CodeRow
  /\ Null \notin FamilyRow /\ Null \notin MemberRow

VARIABLES
  clock,     \* PostgreSQL's clock_timestamp()
  sessions,  \* provider_sessions
  codes,     \* authorization_codes
  families,  \* refresh_families
  members,   \* refresh_token_members
  tx         \* the requests and their transactions

tables == <<sessions, codes, families, members>>
vars == <<clock, sessions, codes, families, members, tx>>

-----------------------------------------------------------------------------
(* Requests.  "pc" is the await a request is suspended at.  "lease" is     *)
(* "live" or the await during which the metadata lease ran out.            *)

Op == {"issue", "exchange", "rotate", "revoke", "logout"}
Waiting == {"lock_session", "lock_code", "lock_family", "lock_member"}
Pc == Waiting \cup {"idle", "decide", "write", "staged", "commit"}
Out == {"none", "ok", "invalid_grant", "metadata_expired", "cancelled"}
Lease == {"live"} \cup Pc

Request ==
  [op : Op \cup {"none"}, pc : Pc, out : Out, lease : Lease,
   bound : BOOLEAN, admits : BOOLEAN, replay : BOOLEAN,
   s : Session \cup {Null}, c : Code \cup {Null},
   f : Family \cup {Null}, m : Member \cup {Null},
   ses : SessionRow \cup {Null},   \* rows as read under their locks
   cod : CodeRow \cup {Null},
   fam : FamilyRow \cup {Null},
   mem : MemberRow \cup {Null},
   now : Time, at : Time]          \* first and second clock reading

NoRequest ==
  [op |-> "none", pc |-> "idle", out |-> "none", lease |-> "live",
   bound |-> TRUE, admits |-> TRUE, replay |-> FALSE,
   s |-> Null, c |-> Null, f |-> Null, m |-> Null,
   ses |-> Null, cod |-> Null, fam |-> Null, mem |-> Null,
   now |-> 0, at |-> 0]

Min2(a, b) == IF a < b THEN a ELSE b

Init ==
  /\ clock = 0
  /\ sessions = [s \in Session |-> Null]
  /\ codes = [c \in Code |-> Null]
  /\ families = [f \in Family |-> Null]
  /\ members = [m \in Member |-> Null]
  /\ tx = [r \in Req |-> NoRequest]

-----------------------------------------------------------------------------
(* Row locks.  A lock is held from the step that takes it until the        *)
(* request ends; who holds what follows from how far each request is.      *)

HoldsSession(q, s) == tx[q].s = s /\ tx[q].pc \notin {"idle", "lock_session"}
HoldsCode(q, c) ==
  /\ tx[q].op = "exchange" /\ tx[q].c = c
  /\ tx[q].pc \in {"decide", "staged", "commit"}
HoldsFamily(q, f) ==
  /\ tx[q].op \in {"rotate", "revoke"} /\ tx[q].f = f
  /\ tx[q].pc \in {"lock_member", "decide", "staged", "commit"}
HoldsMember(q, m) ==
  /\ tx[q].op = "rotate" /\ tx[q].m = m
  /\ tx[q].pc \in {"decide", "staged", "commit"}

Others(r) == Req \ {r}
(* Mutant: SELECT without FOR UPDATE.                                      *)
SessionReadUnlocked(r, s) == TRUE
SessionFree(r, s) == \A q \in Others(r) : ~HoldsSession(q, s)
CodeFree(r, c) == \A q \in Others(r) : ~HoldsCode(q, c)
FamilyFree(r, f) == \A q \in Others(r) : ~HoldsFamily(q, f)
MemberFree(r, m) == \A q \in Others(r) : ~HoldsMember(q, m)

FamiliesOfSession(s) ==
  {f \in Family : families[f] # Null /\ families[f].session = s}
(* Mutant: a replay revokes by session instead of by code.                 *)
FamiliesBesideCode(c) == FamiliesOfSession(codes[c].session)
FamiliesOfCode(c) ==
  {f \in Family : families[f] # Null /\ families[f].source_code = c}

(* UPDATE refresh_families SET revoked_at = COALESCE(revoked_at, t).       *)
Revoked(row, t) ==
  IF row.revoked_at = Null THEN [row EXCEPT !.revoked_at = t] ELSE row
(* Mutant: the revocation is rolled back with the refusal.                 *)
RevokeNothing(F, t) == families
RevokeFamilies(F, t) ==
  [f \in Family |-> IF f \in F THEN Revoked(families[f], t) ELSE families[f]]

-----------------------------------------------------------------------------
(* The environment: time passes and metadata leases run out.               *)

Tick ==
  /\ clock < MaxClock
  /\ clock' = clock + 1
  /\ UNCHANGED <<tables, tx>>

(* Only the operations that carry a registry snapshot look at its lease.   *)
LeaseLapses(r) ==
  /\ tx[r].op \in {"issue", "exchange", "rotate"}
  /\ tx[r].pc # "idle"
  /\ tx[r].lease = "live"
  /\ tx' = [tx EXCEPT ![r].lease = tx[r].pc]
  /\ UNCHANGED <<clock, tables>>

-----------------------------------------------------------------------------
(* Ending a request: locks go, what was staged without a commit is lost.   *)
(* What was answered is remembered, and for the refusal of a request in    *)
(* order also what it was about.                                           *)

Ended(q, out) ==
  IF out = "invalid_grant" /\ q.bound /\ q.admits
  THEN [NoRequest EXCEPT !.op = q.op, !.out = out,
                         !.s = q.s, !.c = q.c, !.f = q.f, !.m = q.m]
  ELSE [NoRequest EXCEPT !.out = out]

End(r, out) == tx' = [tx EXCEPT ![r] = Ended(tx[r], out)]

(* The future is dropped, or the process dies, at any await.               *)
Cancel(r) ==
  /\ tx[r].pc # "idle"
  /\ End(r, "cancelled")
  /\ UNCHANGED <<clock, tables>>

-----------------------------------------------------------------------------
(* Starting a request.  Fresh identifiers are UUIDs and never run out; in  *)
(* a finite model a request starts only while enough of them are left.     *)

Free(table) == {i \in DOMAIN table : table[i] = Null}
Running(ops) == {q \in Req : tx[q].pc # "idle" /\ tx[q].op \in ops}
RoomFor(table, n) == n <= Cardinality(Free(table))

(* The rows that the running requests, and one more on a code in cs or a   *)
(* token in ms, may come to insert: one per secret, however many present   *)
(* it, and none for a secret that is spent.                                *)
NewCodes == 1 + Cardinality(Running({"issue"}))
NewFamilies(cs) ==
  Cardinality({c \in cs \cup {tx[q].c : q \in Running({"exchange"})} :
                 codes[c].consumed_at = Null})
NewMembers(cs, ms) ==
  NewFamilies(cs) +
  Cardinality({m \in ms \cup {tx[q].m : q \in Running({"rotate"})} :
                 members[m].consumed_at = Null})

Begin(r, fields) == tx' = [tx EXCEPT ![r] = fields]

(* create_provider_session: one INSERT.                                    *)
CreateProviderSession ==
  /\ \E s \in Session, life \in 1..MaxSessionLife :
       /\ sessions[s] = Null
       /\ sessions' = [sessions EXCEPT ![s] =
            [auth_time |-> clock, expires_at |-> clock + life,
             revoked_at |-> Null]]
  /\ UNCHANGED <<clock, codes, families, members, tx>>

(* A ProviderSession value is one that create_provider_session or          *)
(* find_provider_session returned earlier: the row exists, and may have    *)
(* been revoked or have expired since.                                     *)
StartIssue(r, s) ==
  /\ tx[r].pc = "idle" /\ sessions[s] # Null
  /\ RoomFor(codes, NewCodes)
  /\ Begin(r, [NoRequest EXCEPT !.op = "issue", !.pc = "lock_session",
                                !.s = s])
  /\ UNCHANGED <<clock, tables>>

StartLogout(r, s) ==
  /\ tx[r].pc = "idle" /\ sessions[s] # Null
  /\ Begin(r, [NoRequest EXCEPT !.op = "logout", !.pc = "lock_session",
                                !.s = s])
  /\ UNCHANGED <<clock, tables>>

(* The lookup by code hash.  What is presented with the code, and the      *)
(* client's policy, are judged before anything is locked; the document     *)
(* that the code is bound to, and all of it again, only under the locks.   *)
StartExchange(r, c, bound, admits) ==
  LET q == [NoRequest EXCEPT !.op = "exchange", !.pc = "lock_session",
                             !.bound = bound, !.admits = admits,
                             !.s = codes[c].session, !.c = c]
  IN /\ tx[r].pc = "idle" /\ codes[c] # Null
     /\ RoomFor(families, NewFamilies({c}))
     /\ RoomFor(members, NewMembers({c}, {}))
     /\ \/ bound /\ Begin(r, q)
        \/ ~(bound /\ admits) /\ Begin(r, Ended(q, "invalid_grant"))
        \/ bound /\ Begin(r, Ended(q, "metadata_expired"))
     /\ UNCHANGED <<clock, tables>>

(* The lookup by token hash finds the member, its family and its session.  *)
(* What is presented with the token, and whether the client may still      *)
(* refresh, is judged before the locks and under them, the document that   *)
(* the family is bound to only there; the lease is not asked before.       *)
StartRotate(r, m, bound, admits) ==
  LET q == [NoRequest EXCEPT !.op = "rotate", !.pc = "lock_session",
              !.bound = bound, !.admits = admits,
              !.s = families[members[m].family].session,
              !.f = members[m].family, !.m = m]
  IN /\ tx[r].pc = "idle" /\ members[m] # Null
     /\ RoomFor(members, NewMembers({}, {m}))
     /\ \/ Begin(r, q)
        \/ ~(bound /\ admits) /\ Begin(r, Ended(q, "invalid_grant"))
     /\ UNCHANGED <<clock, tables>>

(* Mutant: revoke_refresh goes for the family without the session's lock.  *)
StartRevokeAtFamily(r, m, bound) ==
  /\ tx[r].pc = "idle" /\ members[m] # Null /\ bound
  /\ Begin(r, [NoRequest EXCEPT !.op = "revoke", !.pc = "lock_family",
                 !.m = m, !.f = members[m].family,
                 !.s = families[members[m].family].session])
  /\ UNCHANGED <<clock, tables>>

(* Revoking with another client's id is answered with success and changes  *)
(* nothing.                                                                *)
StartRevoke(r, m, bound) ==
  LET q == [NoRequest EXCEPT !.op = "revoke", !.pc = "lock_session",
              !.bound = bound, !.m = m, !.f = members[m].family,
              !.s = families[members[m].family].session]
  IN /\ tx[r].pc = "idle" /\ members[m] # Null
     /\ Begin(r, IF bound THEN q ELSE Ended(q, "ok"))
     /\ UNCHANGED <<clock, tables>>

-----------------------------------------------------------------------------
(* Locks, taken in the order session, then code, or family and member.     *)

AfterSession(op) ==
  CASE op = "exchange" -> "lock_code"
    [] op \in {"rotate", "revoke"} -> "lock_family"
    [] op \in {"issue", "logout"} -> "decide"

LockSession(r) ==
  /\ tx[r].pc = "lock_session"
  /\ SessionFree(r, tx[r].s)
  /\ tx' = [tx EXCEPT ![r].pc = AfterSession(tx[r].op),
                      ![r].ses = sessions[tx[r].s]]
  /\ UNCHANGED <<clock, tables>>

LockCode(r) ==
  /\ tx[r].pc = "lock_code"
  /\ CodeFree(r, tx[r].c)
  /\ tx' = [tx EXCEPT ![r].pc = "decide", ![r].cod = codes[tx[r].c]]
  /\ UNCHANGED <<clock, tables>>

LockFamily(r) ==
  /\ tx[r].pc = "lock_family"
  /\ FamilyFree(r, tx[r].f)
  /\ tx' = [tx EXCEPT ![r].pc = IF tx[r].op = "rotate" THEN "lock_member"
                                                       ELSE "decide",
                      ![r].fam = families[tx[r].f]]
  /\ UNCHANGED <<clock, tables>>

LockMember(r) ==
  /\ tx[r].pc = "lock_member"
  /\ MemberFree(r, tx[r].m)
  /\ tx' = [tx EXCEPT ![r].pc = "decide", ![r].mem = members[tx[r].m]]
  /\ UNCHANGED <<clock, tables>>

-----------------------------------------------------------------------------
(* Under the locks: policy, then the clock, then the decision.             *)

(* Mutants: a revoked session passes; a code passes at its very expiry; a  *)
(* revoked family passes.                                                  *)
SessionUnexpired(ses, t) == t < ses.expires_at
SessionActive(ses, t) == ses.revoked_at = Null /\ t < ses.expires_at
CodeUsableAtExpiry(q, t) ==
  t <= q.cod.expires_at /\ SessionActive(q.ses, t)
CodeUsable(q, t) == t < q.cod.expires_at /\ SessionActive(q.ses, t)
FamilyUnexpired(q, t) == t < q.fam.expires_at /\ SessionActive(q.ses, t)
FamilyUsable(q, t) ==
  /\ q.fam.revoked_at = Null /\ t < q.fam.expires_at
  /\ SessionActive(q.ses, t)

Stage(r, replay) ==
  tx' = [tx EXCEPT ![r].pc = "staged", ![r].replay = replay,
                   ![r].now = clock]

(* The refusals every operation with a registry shares: a lapsed lease     *)
(* first, then a binding or policy that does not admit the stored grant.   *)
Admitted(q) == q.lease = "live" /\ q.bound /\ q.admits
Refusal(q) == IF q.bound /\ q.lease # "live" THEN "metadata_expired"
                                             ELSE "invalid_grant"

DecideExchange(r) ==
  LET q == tx[r] IN
  /\ q.op = "exchange" /\ q.pc = "decide"
  /\ \/ ~Admitted(q) /\ End(r, Refusal(q))
     \/ /\ Admitted(q) /\ q.cod.consumed_at # Null
        /\ \A f \in FamiliesOfCode(q.c) : FamilyFree(r, f)
        /\ Stage(r, TRUE)
     \/ /\ Admitted(q) /\ q.cod.consumed_at = Null
        /\ IF CodeUsable(q, clock) THEN Stage(r, FALSE)
                                   ELSE End(r, "invalid_grant")
  /\ UNCHANGED <<clock, tables>>

DecideRotate(r) ==
  LET q == tx[r] IN
  /\ q.op = "rotate" /\ q.pc = "decide"
  /\ \/ ~Admitted(q) /\ End(r, Refusal(q))
     \/ Admitted(q) /\ q.mem.consumed_at # Null /\ Stage(r, TRUE)
     \/ /\ Admitted(q) /\ q.mem.consumed_at = Null
        /\ IF FamilyUsable(q, clock) THEN Stage(r, FALSE)
                                     ELSE End(r, "invalid_grant")
  /\ UNCHANGED <<clock, tables>>

(* revoke_refresh has nothing left to check.                               *)
DecideRevoke(r) ==
  /\ tx[r].op = "revoke" /\ tx[r].pc = "decide"
  /\ Stage(r, FALSE)
  /\ UNCHANGED <<clock, tables>>

(* issue_authorization_code reads whether the session is active, then the  *)
(* lease, and only then inserts, with a later reading of the clock.        *)
DecideIssue(r) ==
  LET q == tx[r] IN
  /\ q.op = "issue" /\ q.pc = "decide"
  /\ IF ~SessionActive(q.ses, clock) THEN End(r, "invalid_grant")
     ELSE IF q.lease # "live" THEN End(r, "metadata_expired")
     ELSE tx' = [tx EXCEPT ![r].pc = "write"]
  /\ UNCHANGED <<clock, tables>>

WriteIssue(r) ==
  /\ tx[r].op = "issue" /\ tx[r].pc = "write"
  /\ \E life \in 1..MaxCodeLife, offline \in BOOLEAN :
       tx' = [tx EXCEPT ![r].pc = "staged",
                ![r].cod = [session |-> tx[r].s, offline |-> offline,
                            issued_at |-> clock,
                            expires_at |->
                              Min2(clock + life, tx[r].ses.expires_at),
                            consumed_at |-> Null]]
  /\ UNCHANGED <<clock, tables>>

(* logout updates the session and then its families; each statement reads  *)
(* the clock, and the second waits for the rows it updates.                *)
DecideLogout(r) ==
  /\ tx[r].op = "logout" /\ tx[r].pc = "decide"
  /\ tx' = [tx EXCEPT ![r].pc = "write", ![r].now = clock]
  /\ UNCHANGED <<clock, tables>>

WriteLogout(r) ==
  /\ tx[r].op = "logout" /\ tx[r].pc = "write"
  /\ \A f \in FamiliesOfSession(tx[r].s) : FamilyFree(r, f)
  /\ tx' = [tx EXCEPT ![r].pc = "staged", ![r].at = clock]
  /\ UNCHANGED <<clock, tables>>

(* Mutant: no lease check before the commit.                               *)
CommitUnchecked(r) ==
  /\ tx[r].pc = "staged"
  /\ tx' = [tx EXCEPT ![r].pc = "commit"]
  /\ UNCHANGED <<clock, tables>>

(* The lease is read once more after the staged statements.                *)
LastCheck(r) ==
  /\ tx[r].pc = "staged"
  /\ IF tx[r].lease = "live" THEN tx' = [tx EXCEPT ![r].pc = "commit"]
                             ELSE End(r, "metadata_expired")
  /\ UNCHANGED <<clock, tables>>

-----------------------------------------------------------------------------
(* Commits.                                                                *)

Committing(r, op, replay) ==
  tx[r].pc = "commit" /\ tx[r].op = op /\ tx[r].replay = replay

CommitIssue(r) ==
  /\ Committing(r, "issue", FALSE)
  /\ \E c \in Code : /\ codes[c] = Null
                     /\ codes' = [codes EXCEPT ![c] = tx[r].cod]
  /\ End(r, "ok")
  /\ UNCHANGED <<clock, sessions, families, members>>

(* Mutant: the sign of the lifetime.                                       *)
FamilyExpiryBackwards(q) == Min2(q.now - FamilyLife, q.ses.expires_at)
FamilyExpiry(q) == Min2(q.now + FamilyLife, q.ses.expires_at)

NewMember(f, t) ==
  [family |-> f, issued_at |-> t, consumed_at |-> Null, successor |-> Null]

ConsumeCode(q) == [codes EXCEPT ![q.c].consumed_at = q.now]

CommitExchange(r) ==
  LET q == tx[r] IN
  /\ Committing(r, "exchange", FALSE)
  /\ codes' = ConsumeCode(q)
  /\ \/ /\ q.cod.offline
        /\ \E f \in Family, m \in Member :
             /\ families[f] = Null /\ members[m] = Null
             /\ families' = [families EXCEPT ![f] =
                  [source_code |-> q.c, session |-> q.s,
                   issued_at |-> q.now, expires_at |-> FamilyExpiry(q),
                   revoked_at |-> Null]]
             /\ members' = [members EXCEPT ![m] = NewMember(f, q.now)]
     \/ ~q.cod.offline /\ UNCHANGED <<families, members>>
  /\ End(r, "ok")
  /\ UNCHANGED <<clock, sessions>>

(* A second redemption commits the revocation of what the first produced,  *)
(* and is refused.                                                         *)
CommitCodeReplay(r) ==
  /\ Committing(r, "exchange", TRUE)
  /\ families' = RevokeFamilies(FamiliesOfCode(tx[r].c), tx[r].now)
  /\ End(r, "invalid_grant")
  /\ UNCHANGED <<clock, sessions, codes, members>>

(* Mutant: the rotated token keeps no trace of its successor.              *)
Unmarked(q, n) == members[q.m]
Succeeded(q, n) ==
  [members[q.m] EXCEPT !.consumed_at = q.now, !.successor = n]

CommitRotate(r) ==
  LET q == tx[r] IN
  /\ Committing(r, "rotate", FALSE)
  /\ \E n \in Member :
       /\ members[n] = Null
       /\ members' = [members EXCEPT ![n] = NewMember(q.f, q.now),
                                     ![q.m] = Succeeded(q, n)]
  /\ End(r, "ok")
  /\ UNCHANGED <<clock, sessions, codes, families>>

CommitTokenReplay(r) ==
  /\ Committing(r, "rotate", TRUE)
  /\ families' = RevokeFamilies({tx[r].f}, tx[r].now)
  /\ End(r, "invalid_grant")
  /\ UNCHANGED <<clock, sessions, codes, members>>

CommitRevoke(r) ==
  /\ Committing(r, "revoke", FALSE)
  /\ families' = RevokeFamilies({tx[r].f}, tx[r].now)
  /\ End(r, "ok")
  /\ UNCHANGED <<clock, sessions, codes, members>>

CommitLogout(r) ==
  LET q == tx[r] IN
  /\ Committing(r, "logout", FALSE)
  /\ sessions' = [sessions EXCEPT ![q.s] = Revoked(@, q.now)]
  /\ families' = RevokeFamilies(FamiliesOfSession(q.s), q.at)
  /\ End(r, "ok")
  /\ UNCHANGED <<clock, codes, members>>

-----------------------------------------------------------------------------
Start(r) ==
  \/ \E s \in Session : StartIssue(r, s) \/ StartLogout(r, s)
  \/ \E c \in Code, bound, admits \in BOOLEAN :
       StartExchange(r, c, bound, admits)
  \/ \E m \in Member, bound, admits \in BOOLEAN :
       StartRotate(r, m, bound, admits)
  \/ \E m \in Member, bound \in BOOLEAN : StartRevoke(r, m, bound)

(* The steps a started request takes by itself.                            *)
Proceed(r) ==
  \/ LockSession(r) \/ LockCode(r) \/ LockFamily(r) \/ LockMember(r)
  \/ DecideExchange(r) \/ DecideRotate(r) \/ DecideRevoke(r)
  \/ DecideIssue(r) \/ WriteIssue(r)
  \/ DecideLogout(r) \/ WriteLogout(r)
  \/ LastCheck(r)
  \/ CommitIssue(r) \/ CommitExchange(r) \/ CommitCodeReplay(r)
  \/ CommitRotate(r) \/ CommitTokenReplay(r)
  \/ CommitRevoke(r) \/ CommitLogout(r)

Next ==
  \/ Tick
  \/ CreateProviderSession
  \/ \E r \in Req : Start(r) \/ Proceed(r) \/ Cancel(r) \/ LeaseLapses(r)

Spec == Init /\ [][Next]_vars

-----------------------------------------------------------------------------
(* Properties.                                                             *)

TypeOK ==
  /\ clock \in Time
  /\ sessions \in [Session -> SessionRow \cup {Null}]
  /\ codes \in [Code -> CodeRow \cup {Null}]
  /\ families \in [Family -> FamilyRow \cup {Null}]
  /\ members \in [Member -> MemberRow \cup {Null}]
  /\ tx \in [Req -> Request]

(* What a request read under a lock is still what the table holds for as   *)
(* long as it may act on it: session, code, family and member rows read by *)
(* exchange_code_bound and rotate_refresh_bound never go stale.            *)
SnapshotsCurrent ==
  \A r \in Req :
    LET q == tx[r] IN
    /\ HoldsSession(r, q.s) => q.ses = sessions[q.s]
    /\ HoldsCode(r, q.c) => q.cod = codes[q.c]
    /\ HoldsFamily(r, q.f) => q.fam = families[q.f]
    /\ HoldsMember(r, q.m) => q.mem = members[q.m]

(* The only row a request ever waits for is its session: once it has that, *)
(* every further lock is free.  Waits therefore form no cycle, whatever    *)
(* operations run on the same grant.                                       *)
WaitsOnlyForSession ==
  \A r \in Req :
    /\ tx[r].pc = "lock_code" => CodeFree(r, tx[r].c)
    /\ tx[r].pc = "lock_family" => FamilyFree(r, tx[r].f)
    /\ tx[r].pc = "lock_member" => MemberFree(r, tx[r].m)
    /\ tx[r].pc = "write" =>
         \A f \in FamiliesOfSession(tx[r].s) : FamilyFree(r, f)

(* Once logout has committed, no refresh family of the session is left     *)
(* unrevoked, and none appears later: a redemption racing the logout       *)
(* either finished first and was swept, or finds the session revoked.      *)
LogoutIsComplete ==
  \A s \in Session :
    sessions[s] # Null /\ sessions[s].revoked_at # Null =>
      \A f \in FamiliesOfSession(s) : families[f].revoked_at # Null

(* The members of a family form a chain with one unconsumed end: rotation  *)
(* never leaves two usable tokens, nor a family whose successor was lost.  *)
OneLiveMember ==
  \A f \in Family : families[f] # Null =>
    /\ \E m \in Member : /\ members[m] # Null /\ members[m].family = f
                         /\ members[m].consumed_at = Null
    /\ \A m, n \in Member :
         /\ members[m] # Null /\ members[n] # Null
         /\ members[m].family = f /\ members[n].family = f
         /\ members[m].successor = members[n].successor
         => m = n

(* The stored times tell a possible story: nothing was redeemed or rotated *)
(* at or after its expiry, nor after the revocation of what it came from,  *)
(* and nothing outlives the session.  Holds only because every statement   *)
(* reads the clock after the locks it needs.                               *)
TimesTellTheStory ==
  /\ \A c \in Code : codes[c] # Null =>
       LET s == sessions[codes[c].session] IN
       /\ codes[c].expires_at <= s.expires_at
       /\ codes[c].consumed_at # Null =>
            /\ codes[c].issued_at <= codes[c].consumed_at
            /\ codes[c].consumed_at < codes[c].expires_at
            /\ s.revoked_at # Null => codes[c].consumed_at <= s.revoked_at
  /\ \A m \in Member : members[m] # Null =>
       LET f == families[members[m].family] IN
       /\ f.expires_at <= sessions[f.session].expires_at
       /\ f.issued_at <= members[m].issued_at
       /\ members[m].issued_at < f.expires_at
       /\ f.revoked_at # Null => members[m].issued_at <= f.revoked_at

(* A refusal is final: once a correctly bound and admitted redemption or   *)
(* rotation was answered invalid_grant, the session is over, or the code   *)
(* expired unused, or every family that the presented secret led to is     *)
(* revoked or, for a rotation, expired.  This is where a replay must have  *)
(* revoked, and committed, although the response is an error.  A code that *)
(* was spent without founding a family leaves nothing to revoke.           *)
RefusalIsFinal ==
  \A r \in Req :
    LET q == tx[r] IN
    q.pc = "idle" /\ q.out = "invalid_grant" /\ q.bound /\ q.admits =>
      /\ q.op = "exchange" =>
           \/ ~SessionActive(sessions[q.s], clock)
           \/ codes[q.c].consumed_at = Null /\ codes[q.c].expires_at <= clock
           \/ \A f \in FamiliesOfCode(q.c) : families[f].revoked_at # Null
      /\ q.op = "rotate" =>
           \/ ~SessionActive(sessions[q.s], clock)
           \/ families[q.f].expires_at <= clock
           \/ families[q.f].revoked_at # Null

(* The request r committed in this step and was answered with success.     *)
Succeeds(r, op) ==
  /\ tx[r].pc = "commit" /\ tx[r].op = op
  /\ tx'[r].pc = "idle" /\ tx'[r].out = "ok"

(* At the instant a redemption or rotation commits, the code or token was  *)
(* unconsumed and neither its family nor its session revoked: of any       *)
(* number of concurrent attempts one wins, and none wins after a logout or *)
(* a revocation.                                                           *)
SuccessWasLive ==
  [][\A r \in Req :
       /\ Succeeds(r, "exchange") =>
            /\ codes[tx[r].c].consumed_at = Null
            /\ codes'[tx[r].c].consumed_at # Null
            /\ sessions[tx[r].s].revoked_at = Null
       /\ Succeeds(r, "rotate") =>
            /\ members[tx[r].m].consumed_at = Null
            /\ members'[tx[r].m].consumed_at # Null
            /\ families[tx[r].f].revoked_at = Null
            /\ sessions[tx[r].s].revoked_at = Null]_vars

(* A request with a wrong binding, whose registry does not admit the       *)
(* grant, or whose metadata lease ran out before the last check, never     *)
(* changes a row: it is not replay evidence, and waiting for locks carries *)
(* no stale metadata into the database.                                    *)
RefusedChangesNothing ==
  [][\A r \in Req :
       tx'[r] # tx[r] /\ tables' # tables =>
         tx[r].bound /\ tx[r].admits /\ tx[r].lease \in {"live", "commit"}]_vars

(* A family is revoked by a replay or a revocation only through the secret *)
(* presented, and by a logout only in its own session; no other grant of   *)
(* the user is touched.                                                    *)
RevocationHitsItsTarget ==
  [][\A r \in Req, f \in Family :
       /\ tx'[r] # tx[r]
       /\ families[f] # Null /\ families'[f] # families[f]
       => \/ tx[r].op = "logout" /\ families[f].session = tx[r].s
          \/ tx[r].op = "exchange" /\ families[f].source_code = tx[r].c
          \/ tx[r].op \in {"rotate", "revoke"} /\ f = tx[r].f]_vars

=============================================================================
