----------------------------- MODULE LogoutStore -----------------------------
(***************************************************************************)
(* RP-initiated logout, src/logout.rs and the logout handlers of           *)
(* src/web.rs: one-use challenges bound to a session, confirmed by a form  *)
(* or, for reviewed clients, by an ID token of that very session.          *)
(*                                                                         *)
(* Two clocks are involved: PostgreSQL's, which stamps sessions, and the   *)
(* provider's own, which stamps ID tokens.  At any moment they differ by   *)
(* at most Skew seconds, CLOCK_SKEW_SECONDS in the code.                   *)
(***************************************************************************)
EXTENDS Integers, FiniteSets

CONSTANTS
  Session, Challenge,
  Client,         \* relying parties
  Req,            \* request slots
  Null,           \* SQL NULL; as a client, local logout
  SessionLife,    \* 30 days
  ChallengeLife,  \* 10 minutes
  Skew,           \* CLOCK_SKEW_SECONDS
  MaxTokens,      \* bound on the ID tokens issued (model checking only)
  MaxClock        \* bound on the clock (model checking only)

ASSUME LogoutConstants ==
  /\ Null \notin Client
  /\ SessionLife \in Nat \ {0} /\ ChallengeLife \in Nat \ {0}
  /\ Skew \in Nat /\ MaxTokens \in Nat /\ MaxClock \in Nat

Time == Nat
SessionRow == [auth_time : Time, expires_at : Time,
               revoked_at : Time \cup {Null}, grants : {"none", "live", "revoked"}]
ChallengeRow == [session : Session, client : Client \cup {Null},
                 expires_at : Time, consumed_at : Time \cup {Null}]
IdToken == [sid : Session, aud : Client, iat : Int]

ASSUME NullIsNoValue ==
  /\ Null \notin Session /\ Null \notin Challenge /\ Null \notin Nat
  /\ Null \notin SessionRow /\ Null \notin ChallengeRow
  /\ Null \notin IdToken

VARIABLES
  clock,       \* PostgreSQL's clock
  sessions,    \* provider_sessions, with the state of their families
  challenges,  \* logout_challenges
  tokens,      \* ID tokens ever issued: any of them may come back as a hint
  reviewed,    \* the clients for which allows_id_token_logout holds
  tx           \* the requests

tables == <<sessions, challenges>>
vars == <<clock, sessions, challenges, tokens, reviewed, tx>>

Pc == {"idle", "lock_session", "lock_challenge", "commit"}
Out == {"none", "ok", "ask", "invalid_grant"}
Request ==
  [op : {"none", "begin", "finish", "grant"}, pc : Pc, out : Out,
   s : Session \cup {Null}, c : Challenge \cup {Null},
   client : Client \cup {Null}, hint : IdToken \cup {Null},
   admits : BOOLEAN, now : Time]

NoRequest ==
  [op |-> "none", pc |-> "idle", out |-> "none", s |-> Null, c |-> Null,
   client |-> Null, hint |-> Null, admits |-> TRUE, now |-> 0]

Init ==
  /\ clock = 0
  /\ sessions = [s \in Session |-> Null]
  /\ challenges = [c \in Challenge |-> Null]
  /\ tokens = {} /\ reviewed \in SUBSET Client
  /\ tx = [r \in Req |-> NoRequest]

-----------------------------------------------------------------------------
Tick ==
  /\ clock < MaxClock /\ clock' = clock + 1
  /\ UNCHANGED <<tables, tokens, tx>>

Login(s) ==
  /\ sessions[s] = Null
  /\ sessions' = [sessions EXCEPT ![s] =
       [auth_time |-> clock, expires_at |-> clock + SessionLife,
        revoked_at |-> Null, grants |-> "none"]]
  /\ UNCHANGED <<clock, challenges, tokens, tx>>

(* Mutants: the session is locked by nobody; a revoked one passes.         *)
SessionReadUnlocked(r, s) == TRUE
SessionFree(r, s) ==
  \A q \in Req \ {r} : ~(tx[q].s = s /\ tx[q].pc \in {"lock_challenge", "commit"})
SessionUnexpired(s) == clock < sessions[s].expires_at
SessionActive(s) ==
  sessions[s].revoked_at = Null /\ clock < sessions[s].expires_at

Ended(q, out) == [NoRequest EXCEPT !.out = out]
End(r, out) == tx' = [tx EXCEPT ![r] = Ended(tx[r], out)]

Cancel(r) ==
  /\ tx[r].pc # "idle" /\ tx' = [tx EXCEPT ![r] = NoRequest]
  /\ UNCHANGED <<clock, tables, tokens>>

(* The provider answers a code exchange with an ID token of the session    *)
(* and a refresh family.                                                   *)
StartGrant(r, s, client) ==
  /\ tx[r].pc = "idle" /\ sessions[s] # Null
  /\ Cardinality(tokens) < MaxTokens
  /\ tx' = [tx EXCEPT ![r] = [NoRequest EXCEPT !.op = "grant",
              !.pc = "lock_session", !.s = s, !.client = client]]
  /\ UNCHANGED <<clock, tables, tokens>>

(* begin and begin_local.  A post-logout redirect that is not registered   *)
(* is refused before the database is asked.                                *)
StartBegin(r, s, client) ==
  /\ tx[r].pc = "idle" /\ sessions[s] # Null
  /\ Cardinality({c \in Challenge : challenges[c] = Null}) >
       Cardinality({q \in Req : tx[q].op = "begin" /\ tx[q].pc # "idle"})
  /\ tx' = [tx EXCEPT ![r] = [NoRequest EXCEPT !.op = "begin",
              !.pc = "lock_session", !.s = s, !.client = client]]
  /\ UNCHANGED <<clock, tables, tokens>>

(* finish (no hint: the user confirmed with the CSRF token) and            *)
(* finish_hint (the handler passes on the challenge it just began).        *)
StartFinish(r, s, c, hint, admits) ==
  /\ tx[r].pc = "idle" /\ sessions[s] # Null /\ challenges[c] # Null
  /\ challenges[c].client = Null => admits
  /\ hint # Null => /\ challenges[c].session = s
                    /\ challenges[c].client = hint.aud
  /\ tx' = [tx EXCEPT ![r] = [NoRequest EXCEPT !.op = "finish",
              !.pc = "lock_session", !.s = s, !.c = c, !.hint = hint,
              !.admits = admits]]
  /\ UNCHANGED <<clock, tables, tokens>>

LockSession(r) ==
  LET q == tx[r] IN
  /\ q.pc = "lock_session" /\ SessionFree(r, q.s)
  /\ IF q.op = "finish" THEN tx' = [tx EXCEPT ![r].pc = "lock_challenge"]
     ELSE IF SessionActive(q.s)
       THEN tx' = [tx EXCEPT ![r].pc = "commit", ![r].now = clock]
     ELSE End(r, "invalid_grant")
  /\ UNCHANGED <<clock, tables, tokens>>

(* A hint that is not from the future and names the challenge's client ... *)
HintValid(q) ==
  q.hint.aud = challenges[q.c].client /\ q.hint.iat <= clock + Skew
(* ... ends the session without asking only if it is that session's own.   *)
(* Mutants: the sid claim is not compared; iat is compared without skew.   *)
HintOfUser(q) == q.hint.aud \in reviewed
HintExact(q) ==
  /\ q.hint.aud \in reviewed /\ q.hint.sid = q.s
  /\ q.hint.iat >= sessions[q.s].auth_time
HintMatches(q) ==
  /\ q.hint.aud \in reviewed /\ q.hint.sid = q.s
  /\ q.hint.iat >= sessions[q.s].auth_time - Skew

ChallengeUsable(q) ==
  /\ challenges[q.c].session = q.s
  /\ challenges[q.c].consumed_at = Null
  /\ clock < challenges[q.c].expires_at

(* The challenge's lock is always free: whoever has it has the session's.  *)
LockChallenge(r) ==
  LET q == tx[r] IN
  /\ q.pc = "lock_challenge"
  /\ IF \/ ~ChallengeUsable(q) \/ ~SessionActive(q.s)
        \/ challenges[q.c].client # Null /\ ~q.admits
       THEN End(r, "invalid_grant")
     ELSE IF q.hint # Null /\ ~HintValid(q) THEN End(r, "invalid_grant")
     ELSE IF q.hint # Null /\ ~HintMatches(q) THEN End(r, "ask")
     ELSE tx' = [tx EXCEPT ![r].pc = "commit", ![r].now = clock]
  /\ UNCHANGED <<clock, tables, tokens>>

CommitGrant(r) ==
  LET q == tx[r] IN
  /\ q.pc = "commit" /\ q.op = "grant"
  /\ sessions' = [sessions EXCEPT ![q.s].grants = "live"]
  /\ \E drift \in (-Skew)..Skew :
       tokens' = tokens \cup
         {[sid |-> q.s, aud |-> q.client, iat |-> clock + drift]}
  /\ End(r, "ok")
  /\ UNCHANGED <<clock, challenges>>

ChallengeExpiry(t) == t + ChallengeLife

CommitBegin(r) ==
  LET q == tx[r] IN
  /\ q.pc = "commit" /\ q.op = "begin"
  /\ \E c \in Challenge :
       /\ challenges[c] = Null
       /\ challenges' = [challenges EXCEPT ![c] =
            [session |-> q.s, client |-> q.client,
             expires_at |-> ChallengeExpiry(q.now), consumed_at |-> Null]]
  /\ End(r, "ok")
  /\ UNCHANGED <<clock, sessions, tokens>>

LoggedOut(row, t) ==
  [row EXCEPT !.revoked_at = t,
              !.grants = IF row.grants = "none" THEN "none" ELSE "revoked"]

CommitFinish(r) ==
  LET q == tx[r] IN
  /\ q.pc = "commit" /\ q.op = "finish"
  /\ challenges' = [challenges EXCEPT ![q.c].consumed_at = q.now]
  /\ sessions' = [sessions EXCEPT ![q.s] = LoggedOut(@, q.now)]
  /\ End(r, "ok")
  /\ UNCHANGED <<clock, tokens>>

Start(r) ==
  \E s \in Session :
    \/ \E client \in Client : StartGrant(r, s, client)
    \/ \E client \in Client \cup {Null} : StartBegin(r, s, client)
    \/ \E c \in Challenge, hint \in tokens \cup {Null}, admits \in BOOLEAN :
         StartFinish(r, s, c, hint, admits)

Proceed(r) ==
  \/ LockSession(r) \/ LockChallenge(r)
  \/ CommitGrant(r) \/ CommitBegin(r) \/ CommitFinish(r)

Next ==
  /\ \/ Tick
     \/ \E s \in Session : Login(s)
     \/ \E r \in Req : Start(r) \/ Proceed(r) \/ Cancel(r)
  /\ UNCHANGED reviewed

Spec == Init /\ [][Next]_vars

-----------------------------------------------------------------------------
(* Properties.                                                             *)

(* A session ends through exactly one challenge of its own, at the time    *)
(* the challenge was used; the others it still has are worthless.          *)
OneLogoutPerSession ==
  \A s \in Session :
    LET used == {c \in Challenge : /\ challenges[c] # Null
                                   /\ challenges[c].session = s
                                   /\ challenges[c].consumed_at # Null}
    IN /\ Cardinality(used) <= 1
       /\ \A c \in used :
            /\ challenges[c].consumed_at = sessions[s].revoked_at
            /\ challenges[c].consumed_at < challenges[c].expires_at
       /\ sessions[s] # Null /\ sessions[s].revoked_at # Null => used # {}

(* finish takes the session's refresh families along, also the one an      *)
(* exchange was creating at the same time.                                 *)
LogoutTakesGrants ==
  \A s \in Session :
    sessions[s] # Null /\ sessions[s].revoked_at # Null =>
      sessions[s].grants # "live"

(* Without the user's confirmation a session ends only on an ID token that *)
(* was issued to that session and a reviewed client: a token of another    *)
(* login of the same user asks.                                            *)
SilentLogoutIsOwn ==
  [][\A r \in Req :
       tx[r].pc = "commit" /\ tx[r].hint # Null /\ sessions' # sessions
         /\ tx'[r] # tx[r]
       => tx[r].hint.sid = tx[r].s /\ tx[r].hint.aud \in reviewed]_vars

(* The skew allowance is wide enough: a hint that belongs to the session   *)
(* and a reviewed client never falls back to the confirmation page because *)
(* the two clocks disagree.                                                *)
GenuineHintNeverAsks ==
  [][\A r \in Req :
       tx[r].pc = "lock_challenge" /\ tx'[r].out = "ask" =>
         ~(tx[r].hint.sid = tx[r].s /\ tx[r].hint.aud \in reviewed)]_vars

=============================================================================
