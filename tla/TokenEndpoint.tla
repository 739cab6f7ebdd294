---------------------------- MODULE TokenEndpoint ----------------------------
(***************************************************************************)
(* The token and revocation handlers of src/web.rs on top of the           *)
(* credential store: what a client is told, and what is stored by then.    *)
(*                                                                         *)
(* Handler h runs the store's request h.  It resolves the client, calls    *)
(* the store, calls it once more if the metadata lease ran out, signs the  *)
(* tokens and answers.  The database may fail at any await, also after a   *)
(* commit took effect but before its acknowledgement; the connection may   *)
(* close at any await, which drops handler and transaction.  The logins    *)
(* that led to the codes are WebFlow's: sessions and codes are there from  *)
(* the start.                                                              *)
(***************************************************************************)
EXTENDS CredentialLedger

VARIABLE call   \* the handlers

tvars == <<vars, call>>

Secret == Code \cup Member

(* attempt is the handler's counter, answer its response.  spent is a      *)
(* history variable: a commit on behalf of this call used up the secret.   *)
Call ==
  [kind : {"none", "code", "refresh", "revoke"},
   phase : {"idle", "resolve", "store"}, secret : Secret \cup {Null},
   attempt : {0, 1}, spent : BOOLEAN,
   answer : {"none", "tokens", "revoked", "error"}]

NoCall ==
  [kind |-> "none", phase |-> "idle", secret |-> Null,
   attempt |-> 0, spent |-> FALSE, answer |-> "none"]

TokenInit ==
  /\ clock = 0
  /\ sessions = [s \in Session |-> [auth_time |-> 0, revoked_at |-> Null,
                                    expires_at |-> MaxSessionLife]]
  /\ codes \in [Code -> {[session |-> s, offline |-> TRUE, issued_at |-> 0,
                          expires_at |-> Min2(MaxCodeLife, MaxSessionLife),
                          consumed_at |-> Null] : s \in Session}]
  /\ families = [f \in Family |-> Null]
  /\ members = [m \in Member |-> Null]
  /\ tx = [r \in Req |-> NoRequest]
  /\ call = [h \in Req |-> NoCall]

-----------------------------------------------------------------------------
(* A request arrives, with a code, with a refresh token, or to revoke one; *)
(* the server cannot know which responses were received, so any token may  *)
(* come back.  What is refused before the store is asked (malformed forms, *)
(* client credentials, a foreign origin, an unknown secret), and by the    *)
(* store for its bindings or its policy (RefusedChangesNothing),           *)
(* changes nothing and is left out.                                        *)
Receive(h, kind, x) ==
  /\ call[h].phase = "idle"
  /\ IF kind = "code" THEN x \in Code ELSE x \in Member /\ members[x] # Null
  /\ call' = [call EXCEPT ![h] = [NoCall EXCEPT !.kind = kind,
                !.phase = "resolve", !.secret = x]]
  /\ UNCHANGED vars

(* The handler answers and is done.  Only what a client may rely on later  *)
(* is remembered: that its token was revoked.                              *)
Answer(h, a) ==
  /\ call' = [call EXCEPT ![h] =
       IF a = "revoked" THEN [@ EXCEPT !.phase = "idle", !.answer = a]
                        ELSE [NoCall EXCEPT !.answer = a]]
  /\ tx' = [tx EXCEPT ![h] = NoRequest]
  /\ UNCHANGED <<clock, tables>>

(* resolve_client and the call of the store.                               *)
CallStore(h) ==
  LET q == call[h] IN
  /\ q.phase = "resolve"
  /\ \/ q.kind = "code" /\ StartExchange(h, q.secret, TRUE, TRUE)
     \/ q.kind = "refresh" /\ StartRotate(h, q.secret, TRUE, TRUE)
     \/ q.kind = "revoke" /\ StartRevoke(h, q.secret, TRUE)
  /\ call' = [call EXCEPT ![h].phase = "store"]

(* The client cannot be resolved, or the database not be reached.          *)
CallFails(h) ==
  /\ call[h].phase = "resolve"
  /\ Answer(h, "error")

Returned(h) == call[h].phase = "store" /\ tx[h].pc = "idle"

(* Mutant: any failure is worth a second attempt.                          *)
RetriesAnyFailure(h, failed) ==
  /\ call[h].kind # "revoke" /\ call[h].attempt = 0
  /\ failed \/ tx[h].out \in {"metadata_expired", "cancelled"}
(* Mutant: a lapsed lease is tried again for as long as it lapses.         *)
RetriesForever(h, failed) ==
  /\ call[h].kind # "revoke" /\ ~failed /\ tx[h].out = "metadata_expired"
(* The second attempt, after a lapsed lease only.                          *)
Retries(h, failed) ==
  /\ call[h].kind # "revoke" /\ call[h].attempt = 0
  /\ ~failed /\ tx[h].out = "metadata_expired"

(* The store returns.  Its last await may fail although it took effect:    *)
(* the acknowledgement of a commit is lost.                                *)
LastAwaitFails(h) == IF tx[h].out = "ok" THEN BOOLEAN ELSE {FALSE}

Retry(h) ==
  /\ Returned(h) /\ \E failed \in LastAwaitFails(h) : Retries(h, failed)
  /\ call' = [call EXCEPT ![h].attempt = 1, ![h].phase = "resolve"]
  /\ UNCHANGED vars

(* Mutant: revoke does not look at the store's result.                     *)
RefusedUnlessRevoking(h, failed) ==
  call[h].kind # "revoke" /\ (failed \/ tx[h].out # "ok")
Refused(h, failed) == failed \/ tx[h].out # "ok"

Refuse(h) ==
  /\ Returned(h)
  /\ \E failed \in LastAwaitFails(h) : Refused(h, failed) /\ ~Retries(h, failed)
  /\ Answer(h, "error")

(* tokens::issue is synchronous: signing and answering are one step.       *)
AnswerTokens(h) ==
  /\ Returned(h) /\ call[h].kind # "revoke" /\ ~Refused(h, FALSE)
  /\ Answer(h, "tokens") \/ Answer(h, "error")

AnswerRevoked(h) ==
  /\ Returned(h) /\ call[h].kind = "revoke" /\ ~Refused(h, FALSE)
  /\ Answer(h, "revoked")

(* The connection closes: the handler and its transaction are dropped.     *)
Disconnect(h) ==
  /\ call[h].phase # "idle"
  /\ Answer(h, "none")

-----------------------------------------------------------------------------
(* The store's own steps; Cancel is the database failing under a handler.  *)
CountsSpending(h) ==
  call' = [call EXCEPT ![h].spent =
       @ \/ (tx[h].pc = "commit" /\ tx'[h].pc = "idle" /\ tx'[h].out = "ok")]

StoreStep(h) ==
  /\ Proceed(h) \/ Cancel(h) \/ LeaseLapses(h)
  /\ CountsSpending(h)

Handle(h) ==
  \/ CallStore(h) \/ CallFails(h) \/ Retry(h) \/ Refuse(h)
  \/ AnswerTokens(h) \/ AnswerRevoked(h)

Arrives(h) ==
  \E x \in Secret, kind \in {"code", "refresh", "revoke"} : Receive(h, kind, x)

TokenNext ==
  \/ Tick /\ UNCHANGED call
  \/ \E h \in Req : Arrives(h) \/ Handle(h) \/ Disconnect(h) \/ StoreStep(h)

TokenSpec == TokenInit /\ [][TokenNext]_tvars

(* Handlers go on (the fetch of a metadata document and the wait for a     *)
(* database connection have time limits), and so do the store's requests.  *)
(* PostgreSQL queues lock waiters: a request that keeps finding its        *)
(* session free gets it (strong fairness).                                 *)
TokenFairness ==
  \A h \in Req :
    /\ WF_tvars(Handle(h) \/ (Proceed(h) /\ CountsSpending(h)))
    /\ SF_tvars(LockSession(h) /\ UNCHANGED call)

FairTokenSpec == TokenSpec /\ TokenFairness

-----------------------------------------------------------------------------
(* Properties.                                                             *)

(* A client that sends each secret once is never taken for a thief: what   *)
(* convicts a replay is never this call's own first attempt, although the  *)
(* handler calls the store again with the same secret after a lease that   *)
(* ran out, before or after the store's checks.                            *)
RetryIsNoReplay ==
  [][\A h \in Req :
       tx[h].pc = "commit" /\ tx[h].replay /\ families' # families
         => ~call[h].spent]_tvars

(* The answer 200 of the revocation endpoint is the truth: the family is   *)
(* revoked, for good, although database failures and renewals run beside   *)
(* it, and no renewal of it is about to be committed.                      *)
RevokeAnswerMeansRevoked ==
  \A h \in Req :
    call[h].answer = "revoked" =>
      LET f == members[call[h].secret].family IN
      /\ families[f].revoked_at # Null
      /\ \A r \in Req : Committing(r, "rotate", FALSE) => tx[r].f # f

(* Every call is answered, or its client is gone.                          *)
CallsAnswered == \A h \in Req : call[h].phase # "idle" ~> call[h].phase = "idle"

=============================================================================
