----------------------------- MODULE BrowserStore -----------------------------
(***************************************************************************)
(* The browser authorizations of src/browser.rs: one row per authorization *)
(* request, from the landing page through Google's callback to the user's  *)
(* consent and the authorization code, with the provider sessions and the  *)
(* users that a completed callback creates.                                *)
(*                                                                         *)
(* As in CredentialStore, a request is a sequence of awaits: the rows it   *)
(* waits for, the checks under the locks, the staged writes, the last      *)
(* policy check and the commit.  SELECT ... WHERE ... FOR UPDATE waits for *)
(* the row and then tests its condition again on the committed row, so a   *)
(* waiter whose row has moved on finds nothing.                            *)
(*                                                                         *)
(* Every operation presents secrets that select a row (state and binding,  *)
(* claim, or transaction, session and CSRF token).  Requests here present  *)
(* secrets that were once handed out; others select nothing.  A request    *)
(* carries the verdict of its registry snapshot on the stored request:     *)
(* "admits" (validate_binding and validate_pending_parts) and "pre"        *)
(* (pre_authorizes).  Row and snapshot columns they compare never change.  *)
(***************************************************************************)
EXTENDS Naturals, FiniteSets

CONSTANTS
  Auth,         \* identifiers of browser_authorizations
  Session,      \* identifiers of provider_sessions
  Subject,      \* Google subjects
  Req,          \* request slots, reused by later requests
  Null,         \* SQL NULL, and "no such row"
  RowLife,      \* 10 minutes
  SessionLife,  \* 30 days
  MaxClock      \* bound on the clock (model checking only)

ClaimOps == {"fail_callback", "deny_callback", "complete_callback"}
ConsentOps == {"approve", "approve_pre_authorized", "consent_view", "deny"}
RowOps == {"start_google", "cancel_google", "claim_callback"}
            \cup ClaimOps \cup ConsentOps
AllOps == RowOps \cup {"begin_google", "begin_authenticated", "logout"}

ASSUME BrowserConstants ==
  /\ RowLife \in Nat \ {0} /\ SessionLife \in Nat \ {0} /\ MaxClock \in Nat

-----------------------------------------------------------------------------
(* Rows.  Hashes and secrets are modelled by being present or erased.      *)

Time == Nat
AuthStage == {"awaiting_start", "awaiting_google", "callback_claimed",
              "awaiting_consent", "approved", "denied", "failed", "expired"}

AuthRow ==
  [stage : AuthStage, verifier : BOOLEAN, claim : BOOLEAN, csrf : BOOLEAN,
   session : Session \cup {Null}, allow : BOOLEAN, expires_at : Time]

(* "via" remembers which authorization's callback created the session.     *)
SessionRow ==
  [user : Auth, subject : Subject, via : Auth, expires_at : Time,
   revoked : BOOLEAN]

ASSUME BrowserNull ==
  /\ Null \notin Auth /\ Null \notin Session /\ Null \notin Subject
  /\ Null \notin AuthRow /\ Null \notin SessionRow

VARIABLES
  clock,           \* PostgreSQL's clock_timestamp()
  authorizations,  \* browser_authorizations
  sessions,        \* provider_sessions
  users,           \* external_identities: the user of a subject, named by
                   \* the authorization whose callback created it
  claims,          \* how often a callback of the row was claimed
  codes,           \* how many codes were issued for the row
  tx               \* the requests and their transactions

tables == <<authorizations, sessions, users, claims, codes>>
vars == <<clock, tables, tx>>

Pc == {"idle", "lock_session", "lock_row", "lock_identity", "created",
       "staged", "commit"}
Out == {"none", "ok", "not_pre_authorized", "invalid", "metadata_expired",
        "policy_changed", "cancelled"}

Request ==
  [op : AllOps \cup {"none"}, pc : Pc, out : Out,
   lease : {"live"} \cup Pc,              \* or the await at which it ran out
   admits : BOOLEAN, pre : BOOLEAN, allow : BOOLEAN, late : BOOLEAN,
   a : Auth \cup {Null}, s : Session \cup {Null},
   sub : Subject \cup {Null}, user : Auth \cup {Null},
   ses : SessionRow \cup {Null},          \* the session as read when locked
   at : Time]

NoRequest ==
  [op |-> "none", pc |-> "idle", out |-> "none", lease |-> "live",
   admits |-> TRUE, pre |-> FALSE, allow |-> FALSE, late |-> FALSE,
   a |-> Null, s |-> Null, sub |-> Null, user |-> Null, ses |-> Null,
   at |-> 0]

Init ==
  /\ clock = 0
  /\ authorizations = [a \in Auth |-> Null]
  /\ sessions = [s \in Session |-> Null]
  /\ users = [u \in Subject |-> Null]
  /\ claims = [a \in Auth |-> 0]
  /\ codes = [a \in Auth |-> 0]
  /\ tx = [r \in Req |-> NoRequest]

-----------------------------------------------------------------------------
(* Locks: the session row, the authorization row, and the advisory lock of *)
(* a Google subject.  All are held until the request ends.                 *)

HoldsSession(q, s) == tx[q].s = s /\ tx[q].pc \notin {"idle", "lock_session"}
HoldsRow(q, a) ==
  tx[q].a = a /\ tx[q].pc \in {"lock_identity", "created", "staged", "commit"}
HoldsIdentity(q, u) ==
  tx[q].sub = u /\ tx[q].pc \in {"created", "staged", "commit"}

Others(r) == Req \ {r}
(* Mutants: SELECT without FOR UPDATE; no advisory lock.                   *)
SessionFree(r, s) == \A q \in Others(r) : ~HoldsSession(q, s)
RowReadUnlocked(r, a) == TRUE
RowFree(r, a) == \A q \in Others(r) : ~HoldsRow(q, a)
IdentityUnlocked(r, u) == TRUE
IdentityFree(r, u) == \A q \in Others(r) : ~HoldsIdentity(q, u)

-----------------------------------------------------------------------------
(* The environment.                                                        *)

Tick ==
  /\ clock < MaxClock
  /\ clock' = clock + 1
  /\ UNCHANGED <<tables, tx>>

LeaseLapses(r) ==
  /\ tx[r].pc # "idle" /\ tx[r].lease = "live"
  /\ tx[r].op \notin {"start_google", "claim_callback", "fail_callback",
                      "logout"}
  /\ tx' = [tx EXCEPT ![r].lease = tx[r].pc]
  /\ UNCHANGED <<clock, tables>>

(* Only the answer is remembered, for the handler that made the call.      *)
Ended(q, out) ==
  [NoRequest EXCEPT !.out = out, !.a = q.a, !.s = q.s]

End(r, out) == tx' = [tx EXCEPT ![r] = Ended(tx[r], out)]

(* The future is dropped, or the process dies, or the database fails       *)
(* before the commit takes effect.  A commit that takes effect is one of   *)
(* the commit steps even if its acknowledgement is lost: what the caller   *)
(* makes of that is LastAwaitFails in WebFlow.                             *)
Cancel(r) ==
  /\ tx[r].pc # "idle"
  /\ End(r, "cancelled")
  /\ UNCHANGED <<clock, tables>>

-----------------------------------------------------------------------------
(* Checks.                                                                 *)

SessionFresh(ses, t) == ~ses.revoked /\ t < ses.expires_at
Unexpired(a) == clock < authorizations[a].expires_at

(* revalidate: the lease, then binding and policy of the stored request.   *)
Policy(q) == q.lease = "live" /\ q.admits
PolicyError(q) ==
  IF q.lease # "live" THEN "metadata_expired" ELSE "policy_changed"

(* Mutant: the stored choice is not consulted.                             *)
PreAuthorizedByClient(q) == q.pre
PreAuthorized(q) == authorizations[q.a].allow /\ q.pre

Expected(op) ==
  CASE op \in {"start_google", "cancel_google"} -> "awaiting_start"
    [] op = "claim_callback" -> "awaiting_google"
    [] op \in ClaimOps -> "callback_claimed"
    [] op \in ConsentOps -> "awaiting_consent"

(* The WHERE clause: stage and secret still select the row.                *)
(* Mutant: the stage is left out of it.                                    *)
SelectsAnyStage(q) ==
  /\ q.op \in ClaimOps => authorizations[q.a].claim
  /\ q.op \in ConsentOps => /\ authorizations[q.a].csrf
                            /\ authorizations[q.a].session = q.s
Selects(q) ==
  /\ authorizations[q.a].stage = Expected(q.op)
  /\ q.op \in ClaimOps => authorizations[q.a].claim
  /\ q.op \in ConsentOps => /\ authorizations[q.a].csrf
                            /\ authorizations[q.a].session = q.s

-----------------------------------------------------------------------------
(* Starting a request.  Identifiers are UUIDs; in a finite model a request *)
(* starts only while enough of them are left.                              *)

Free(table) == {i \in DOMAIN table : table[i] = Null}
Running(ops) == {q \in Req : tx[q].pc # "idle" /\ tx[q].op \in ops}
RoomFor(table, ops) == Cardinality(Free(table)) > Cardinality(Running(ops))

Begin(r, q) == tx' = [tx EXCEPT ![r] = q] /\ UNCHANGED <<clock, tables>>

(* begin_google: lease, INSERT; what remains is the second lease check.    *)
StartBeginGoogle(r, allow) ==
  /\ tx[r].pc = "idle"
  /\ RoomFor(authorizations, {"begin_google", "begin_authenticated"})
  /\ Begin(r, [NoRequest EXCEPT !.op = "begin_google", !.pc = "staged",
                                !.allow = allow, !.at = clock])

StartBeginAuthenticated(r, s, allow) ==
  /\ tx[r].pc = "idle" /\ sessions[s] # Null
  /\ RoomFor(authorizations, {"begin_google", "begin_authenticated"})
  /\ Begin(r, [NoRequest EXCEPT !.op = "begin_authenticated",
                 !.pc = "lock_session", !.s = s, !.allow = allow])

(* The landing page's two buttons.  expires_at > clock_timestamp() is part *)
(* of the WHERE clause: it is evaluated before a wait for the row.         *)
StartLanding(r, op, a, admits) ==
  LET q == [NoRequest EXCEPT !.op = op, !.pc = "lock_row", !.a = a,
                             !.admits = admits]
  IN /\ tx[r].pc = "idle" /\ op \in {"start_google", "cancel_google"}
     /\ authorizations[a] # Null
     /\ Begin(r, IF Unexpired(a) THEN q ELSE Ended(q, "invalid"))

StartClaim(r, a) ==
  /\ tx[r].pc = "idle" /\ authorizations[a] # Null
  /\ Begin(r, [NoRequest EXCEPT !.op = "claim_callback", !.pc = "lock_row",
                                !.a = a])

(* What a CallbackClaim allows; only claim_callback returns one.           *)
StartClaimed(r, op, a, u, admits) ==
  /\ tx[r].pc = "idle" /\ op \in ClaimOps /\ claims[a] > 0
  /\ op = "complete_callback" => RoomFor(sessions, {"complete_callback"})
  /\ Begin(r, [NoRequest EXCEPT !.op = op, !.pc = "lock_row", !.a = a,
                 !.sub = IF op = "complete_callback" THEN u ELSE Null,
                 !.admits = admits])

(* What a session cookie and a ConsentHandle allow.                        *)
StartConsent(r, op, a, s, admits, pre) ==
  /\ tx[r].pc = "idle" /\ op \in ConsentOps /\ sessions[s] # Null
  /\ authorizations[a] # Null /\ authorizations[a].session # Null
  /\ Begin(r, [NoRequest EXCEPT !.op = op, !.pc = "lock_session", !.a = a,
                 !.s = s, !.admits = admits, !.pre = pre])

(* Logout of the session, by CredentialStore or a logout challenge.        *)
StartLogout(r, s) ==
  /\ tx[r].pc = "idle" /\ sessions[s] # Null
  /\ Begin(r, [NoRequest EXCEPT !.op = "logout", !.pc = "lock_session",
                                !.s = s])

-----------------------------------------------------------------------------
(* The session's lock, first in every operation that needs one.            *)

LockSession(r) ==
  LET q == tx[r] IN
  /\ q.pc = "lock_session" /\ SessionFree(r, q.s)
  /\ \/ /\ q.op = "logout"
        /\ tx' = [tx EXCEPT ![r].pc = "commit"]
     \/ /\ q.op = "begin_authenticated"
        /\ IF ~SessionFresh(sessions[q.s], clock) THEN End(r, "invalid")
           ELSE IF q.lease # "live" THEN End(r, "metadata_expired")
           ELSE tx' = [tx EXCEPT ![r].pc = "staged", ![r].at = clock]
     \/ /\ q.op \in ConsentOps
        /\ tx' = [tx EXCEPT ![r].pc = "lock_row",
                            ![r].ses = sessions[q.s]]
  /\ UNCHANGED <<clock, tables>>

-----------------------------------------------------------------------------
(* The authorization row's lock, and what each operation does first under  *)
(* it.                                                                     *)

RowIsGone(r) ==
  /\ tx[r].pc = "lock_row" /\ ~Selects(tx[r])
  /\ End(r, "invalid")
  /\ UNCHANGED <<clock, tables>>

RowLocked(r, ops) ==
  /\ tx[r].pc = "lock_row" /\ tx[r].op \in ops
  /\ Selects(tx[r]) /\ RowFree(r, tx[r].a)

SetRow(a, row) == authorizations' = [authorizations EXCEPT ![a] = row]
SetStage(a, stage) ==
  SetRow(a, [authorizations[a] EXCEPT !.stage = stage])

(* start_google and fail_callback are one UPDATE outside a transaction.    *)
UpdateStage(r) ==
  /\ RowLocked(r, {"start_google", "fail_callback"})
  /\ SetStage(tx[r].a, IF tx[r].op = "start_google" THEN "awaiting_google"
                                                    ELSE "failed")
  /\ End(r, "ok")
  /\ UNCHANGED <<clock, sessions, users, claims, codes>>

(* claim_callback tests the expiry itself, to record it.                   *)
LockClaim(r) ==
  /\ RowLocked(r, {"claim_callback"})
  /\ tx' = [tx EXCEPT ![r].pc = "commit", ![r].late = ~Unexpired(tx[r].a)]
  /\ UNCHANGED <<clock, tables>>

(* cancel_google and deny_callback, up to the staged UPDATE.               *)
LockDenial(r) ==
  /\ RowLocked(r, {"cancel_google", "deny_callback"})
  /\ IF tx[r].op = "deny_callback" /\ ~Unexpired(tx[r].a)
       THEN End(r, "invalid")
     ELSE IF ~Policy(tx[r]) THEN End(r, PolicyError(tx[r]))
     ELSE tx' = [tx EXCEPT ![r].pc = "staged"]
  /\ UNCHANGED <<clock, tables>>

LockCompletion(r) ==
  /\ RowLocked(r, {"complete_callback"})
  /\ IF Policy(tx[r]) THEN tx' = [tx EXCEPT ![r].pc = "lock_identity"]
                      ELSE End(r, PolicyError(tx[r]))
  /\ UNCHANGED <<clock, tables>>

(* approve, approve_pre_authorized, consent_view and deny.                 *)
LockConsent(r) ==
  LET q == tx[r] IN
  /\ RowLocked(r, ConsentOps)
  /\ IF ~SessionFresh(q.ses, clock) \/ ~Unexpired(q.a)
       THEN End(r, "invalid")
     ELSE IF ~Policy(q) THEN End(r, PolicyError(q))
     ELSE IF q.op = "approve_pre_authorized" /\ ~PreAuthorized(q)
       THEN End(r, "not_pre_authorized")
     ELSE tx' = [tx EXCEPT ![r].pc = "staged"]
  /\ UNCHANGED <<clock, tables>>

-----------------------------------------------------------------------------
(* complete_callback inside its savepoint.                                 *)

(* The advisory lock, the policy again, the lookup of the subject's user   *)
(* (or a new one) and the new session, at one reading of the clock.        *)
LockIdentity(r) ==
  LET q == tx[r] IN
  /\ q.pc = "lock_identity" /\ IdentityFree(r, q.sub)
  /\ IF Policy(q)
       THEN tx' = [tx EXCEPT ![r].pc = "created", ![r].at = clock,
                     ![r].user = IF users[q.sub] = Null THEN q.a
                                                        ELSE users[q.sub]]
       ELSE End(r, PolicyError(q))
  /\ UNCHANGED <<clock, tables>>

(* Mutant: the savepoint survives the expiry.                              *)
ExpireKeepingSession(r) ==
  /\ \E s \in Session :
       /\ sessions[s] = Null
       /\ sessions' = [sessions EXCEPT ![s] =
            [user |-> tx[r].user, subject |-> tx[r].sub, via |-> tx[r].a,
             expires_at |-> tx[r].at + SessionLife, revoked |-> FALSE]]
  /\ SetStage(tx[r].a, "expired")
  /\ End(r, "invalid")
(* The row ran out meanwhile: session and user are rolled back to the      *)
(* savepoint, and the expiry alone is committed.                           *)
ExpireCompletion(r) ==
  /\ SetStage(tx[r].a, "expired")
  /\ End(r, "invalid")
  /\ UNCHANGED sessions

CheckCompletion(r) ==
  /\ tx[r].pc = "created"
  /\ \/ ~Unexpired(tx[r].a) /\ ExpireCompletion(r)
     \/ /\ Unexpired(tx[r].a)
        /\ IF Policy(tx[r]) THEN tx' = [tx EXCEPT ![r].pc = "staged"]
                            ELSE End(r, PolicyError(tx[r]))
        /\ UNCHANGED <<authorizations, sessions>>
  /\ UNCHANGED <<clock, users, claims, codes>>

-----------------------------------------------------------------------------
(* The last look at the lease and the policy before the commit; the        *)
(* pre-authorized approval also reads the clock again.                     *)

LastCheck(r) ==
  LET q == tx[r] IN
  /\ q.pc = "staged"
  /\ IF ~Policy(q) THEN End(r, PolicyError(q))
     ELSE IF /\ q.op = "approve_pre_authorized"
             /\ ~SessionFresh(q.ses, clock) \/ ~Unexpired(q.a)
       THEN End(r, "invalid")
     ELSE tx' = [tx EXCEPT ![r].pc = "commit"]
  /\ UNCHANGED <<clock, tables>>

-----------------------------------------------------------------------------
(* Commits.                                                                *)

Committing(r, ops) == tx[r].pc = "commit" /\ tx[r].op \in ops

NewAuthorization(q) ==
  LET google == q.op = "begin_google" IN
  [stage |-> IF google THEN "awaiting_start" ELSE "awaiting_consent",
   verifier |-> google, claim |-> FALSE, csrf |-> ~google,
   session |-> q.s, allow |-> q.allow, expires_at |-> q.at + RowLife]

CommitBegin(r) ==
  /\ Committing(r, {"begin_google", "begin_authenticated"})
  /\ \E a \in Auth :
       /\ authorizations[a] = Null
       /\ SetRow(a, NewAuthorization(tx[r]))
       /\ tx' = [tx EXCEPT ![r] = [Ended(tx[r], "ok") EXCEPT !.a = a]]
  /\ UNCHANGED <<clock, sessions, users, claims, codes>>

Claimed(q) ==
  [authorizations[q.a] EXCEPT !.stage = "callback_claimed", !.claim = TRUE,
                              !.verifier = FALSE]

CommitClaim(r) ==
  LET q == tx[r] IN
  /\ Committing(r, {"claim_callback"})
  /\ IF q.late
       THEN /\ SetRow(q.a, [authorizations[q.a] EXCEPT
                              !.stage = "expired", !.verifier = FALSE])
            /\ UNCHANGED claims
            /\ End(r, "invalid")
       ELSE /\ SetRow(q.a, Claimed(q))
            /\ claims' = [claims EXCEPT ![q.a] = @ + 1]
            /\ End(r, "ok")
  /\ UNCHANGED <<clock, sessions, users, codes>>

(* cancel_google also erases the verifier, deny_callback the claim and     *)
(* deny the CSRF token.                                                    *)
DeniedRow(q) ==
  LET row == [authorizations[q.a] EXCEPT !.stage = "denied"] IN
  CASE q.op = "cancel_google" -> [row EXCEPT !.verifier = FALSE]
    [] q.op = "deny_callback" -> [row EXCEPT !.claim = FALSE]
    [] q.op = "deny" -> [row EXCEPT !.csrf = FALSE]

CommitDenial(r) ==
  /\ Committing(r, {"cancel_google", "deny_callback", "deny"})
  /\ SetRow(tx[r].a, DeniedRow(tx[r]))
  /\ End(r, "ok")
  /\ UNCHANGED <<clock, sessions, users, claims, codes>>

CommitCompletion(r) ==
  LET q == tx[r] IN
  /\ Committing(r, {"complete_callback"})
  /\ \E s \in Session :
       /\ sessions[s] = Null
       /\ sessions' = [sessions EXCEPT ![s] =
            [user |-> q.user, subject |-> q.sub, via |-> q.a,
             expires_at |-> q.at + SessionLife, revoked |-> FALSE]]
       /\ SetRow(q.a, [authorizations[q.a] EXCEPT
            !.stage = "awaiting_consent", !.session = s, !.csrf = TRUE,
            !.claim = FALSE])
       /\ tx' = [tx EXCEPT ![r] = [Ended(q, "ok") EXCEPT !.s = s]]
  /\ users' = [users EXCEPT ![q.sub] = q.user]
  /\ UNCHANGED <<clock, claims, codes>>

(* Mutant: the consent is not used up.                                     *)
StillAwaiting(a) == UNCHANGED authorizations
Approve(a) ==
  SetRow(a, [authorizations[a] EXCEPT !.stage = "approved", !.csrf = FALSE])

CommitApproval(r) ==
  /\ Committing(r, {"approve", "approve_pre_authorized"})
  /\ Approve(tx[r].a)
  /\ codes' = [codes EXCEPT ![tx[r].a] = @ + 1]
  /\ End(r, "ok")
  /\ UNCHANGED <<clock, sessions, users, claims>>

CommitView(r) ==
  /\ Committing(r, {"consent_view"})
  /\ End(r, "ok")
  /\ UNCHANGED <<clock, tables>>

CommitLogout(r) ==
  /\ Committing(r, {"logout"})
  /\ sessions' = [sessions EXCEPT ![tx[r].s].revoked = TRUE]
  /\ End(r, "ok")
  /\ UNCHANGED <<clock, authorizations, users, claims, codes>>

-----------------------------------------------------------------------------
(* From the landing page to the completed callback.                        *)
StartLogin(r) ==
  \/ \E allow \in BOOLEAN : StartBeginGoogle(r, allow)
  \/ \E op \in {"start_google", "cancel_google"}, a \in Auth,
        admits \in BOOLEAN : StartLanding(r, op, a, admits)
  \/ \E a \in Auth : StartClaim(r, a)
  \/ \E op \in ClaimOps, a \in Auth, u \in Subject, admits \in BOOLEAN :
       StartClaimed(r, op, a, u, admits)

LoginStep(r) ==
  \/ RowIsGone(r) \/ UpdateStage(r) \/ LockClaim(r) \/ LockDenial(r)
  \/ LockCompletion(r) \/ LockIdentity(r) \/ CheckCompletion(r)
  \/ LastCheck(r) \/ CommitBegin(r) \/ CommitClaim(r) \/ CommitDenial(r)
  \/ CommitCompletion(r)

(* With a session.                                                         *)
StartSignedIn(r) ==
  \/ \E s \in Session, allow \in BOOLEAN : StartBeginAuthenticated(r, s, allow)
  \/ \E op \in ConsentOps, a \in Auth, s \in Session,
        admits, pre \in BOOLEAN : StartConsent(r, op, a, s, admits, pre)
  \/ \E s \in Session : StartLogout(r, s)

SignedInStep(r) ==
  \/ LockSession(r) \/ LockConsent(r) \/ CommitApproval(r)
  \/ CommitView(r) \/ CommitLogout(r)

(* The steps a started request takes by itself.                            *)
Proceed(r) == LoginStep(r) \/ SignedInStep(r)

(* Logins by themselves.                                                   *)
LoginNext ==
  \/ Tick
  \/ \E r \in Req : \/ StartLogin(r) \/ LoginStep(r)
                    \/ Cancel(r) \/ LeaseLapses(r)

LoginSpec == Init /\ [][LoginNext]_vars

(* The whole store; WebFlow calls it the way the handlers do.              *)
Next ==
  \/ LoginNext
  \/ \E r \in Req : StartSignedIn(r) \/ SignedInStep(r)

Spec == Init /\ [][Next]_vars

(* The steps that wait for a lock.  PostgreSQL queues its waiters, so a    *)
(* request that keeps finding its lock free gets it.                       *)
LockSteps(r) ==
  \/ LockSession(r) \/ LockIdentity(r) \/ UpdateStage(r) \/ LockClaim(r)
  \/ LockDenial(r) \/ LockCompletion(r) \/ LockConsent(r)

-----------------------------------------------------------------------------
(* Properties.                                                             *)

(* A callback is claimed at most once, however many copies of it arrive,   *)
(* and once the authorization has left for or come back from Google the    *)
(* row holds the PKCE verifier exactly until the claim, the cancellation   *)
(* or the recorded expiry.                                                 *)
CallbackClaimedOnce ==
  \A a \in Auth :
    /\ claims[a] <= 1
    /\ authorizations[a] # Null =>
         (authorizations[a].verifier <=>
            authorizations[a].stage \in {"awaiting_start", "awaiting_google"})

(* One consent, one code: a code was issued for exactly the approved rows, *)
(* and never two, whatever approvals, denials and pre-authorized approvals *)
(* compete.                                                                *)
OneCodePerApproval ==
  \A a \in Auth :
    /\ codes[a] <= 1
    /\ codes[a] = 1 <=>
         authorizations[a] # Null /\ authorizations[a].stage = "approved"

(* Every provider session comes from one claimed callback that was         *)
(* completed: a failed, denied or expired callback left none behind, not   *)
(* even when the row expired between the insert and the commit, and no     *)
(* callback produced two.                                                  *)
SessionHasItsCallback ==
  \A s \in Session : sessions[s] # Null =>
    LET a == sessions[s].via IN
    /\ claims[a] = 1 /\ authorizations[a].session = s
    /\ authorizations[a].stage \in {"awaiting_consent", "approved", "denied"}

(* Logins of one Google subject share one user, also when the first two    *)
(* run at the same time.                                                   *)
OneUserPerSubject ==
  \A s \in Session : sessions[s] # Null =>
    sessions[s].user = users[sessions[s].subject]

(* At the instant a code is issued the row awaits consent, the session it  *)
(* belongs to is not revoked, and the approval came with that session: no  *)
(* approval wins after a logout or a denial, or from another login.  Nor   *)
(* does one win on client metadata whose lease had run out before the last *)
(* check, while the request waited for the session or the row.  Without    *)
(* the recorded choice to skip it, only an approval by the user will do:   *)
(* the client's pre-authorization alone never issues a code.               *)
CodeNeedsApproval ==
  [][\A a \in Auth : codes'[a] # codes[a] =>
       LET row == authorizations[a] IN
       /\ row.stage = "awaiting_consent"
       /\ ~sessions[row.session].revoked
       /\ \E r \in Req : /\ tx[r].pc = "commit" /\ tx[r].a = a
                         /\ tx[r].s = row.session
                         /\ tx[r].lease \in {"live", "commit"}
                         /\ row.allow \/ tx[r].op = "approve"]_vars

=============================================================================
