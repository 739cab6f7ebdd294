------------------------------- MODULE WebFlow -------------------------------
(***************************************************************************)
(* The browser's way through src/web.rs: the handlers that call the        *)
(* operations of BrowserStore one after the other, what they answer, and   *)
(* the cookies of one browser.                                             *)
(*                                                                         *)
(* A handler runs in a request slot.  It awaits one store operation at a   *)
(* time ("at" names it) and acts on its answer, tx[r].out.  A store        *)
(* operation may end in a database error, after which the handler goes on: *)
(* one that is cancelled is rolled back, and one that took effect may lose *)
(* the acknowledgement of its commit.  A handler whose client disconnects  *)
(* is gone.                                                                *)
(* Where the code resolves the client again before each attempt, the       *)
(* resolution may fail, and the new snapshot may judge the stored request  *)
(* differently.                                                            *)
(***************************************************************************)
EXTENDS BrowserStore

CONSTANTS
  Handlers,     \* the handlers the browser calls
  Prompts,      \* values of the prompt parameter
  Faults,       \* "database" errors, clients that "disconnect"
  MaxCookies    \* transaction cookies of a browser (4)

AllHandlers ==
  {"authorize", "google_start", "callback", "consent_get", "consent_post",
   "logout"}

Prompt == {"absent", "none", "consent", "select_account"}

ASSUME WebConstants ==
  /\ Handlers \subseteq AllHandlers /\ MaxCookies \in Nat \ {0}
  /\ Prompts \subseteq Prompt /\ Faults \subseteq {"database", "disconnect"}

VARIABLES
  jar,          \* the browser's transaction cookies
  cookie,       \* its session cookie, or Null
  flow,         \* the handlers
  told,         \* what was answered about an authorization
  gone,         \* authorizations of which a handler ended without answering
  lost          \* authorizations whose claim, or code, was never acknowledged

browser == <<jar, cookie>>
unheard == <<gone, lost>>
webVars == <<vars, browser, flow, told, unheard>>

At == {"idle", "begin", "start", "pre", "view", "claim", "fail", "deny",
       "exchange", "complete", "callback_pre", "act", "logout"}
Answer == {"code", "error", "access_denied"}

(* "sent" and "ses" are the cookies the request came with.                 *)
Flow ==
  [h : AllHandlers \cup {"none"}, at : At, retried : BOOLEAN,
   stale : BOOLEAN, sent : SUBSET Auth, ses : Session \cup {Null},
   a : Auth \cup {Null}, sub : Subject \cup {Null}, prompt : Prompt,
   pre : BOOLEAN, google : Answer, op : {"none"} \cup AllOps]

NoFlow ==
  [h |-> "none", at |-> "idle", retried |-> FALSE, stale |-> FALSE,
   sent |-> {}, ses |-> Null, a |-> Null, sub |-> Null,
   prompt |-> "absent", pre |-> FALSE, google |-> "code", op |-> "none"]

Told == [code : Nat, denied : Nat, failed : BOOLEAN]

WebInit ==
  /\ Init
  /\ jar = {} /\ cookie = Null
  /\ flow = [r \in Req |-> NoFlow]
  /\ told = [a \in Auth |-> [code |-> 0, denied |-> 0, failed |-> FALSE]]
  /\ gone = {} /\ lost = [claims |-> {}, codes |-> {}]

-----------------------------------------------------------------------------
(* How a handler calls, retries and answers.                               *)

Awaiting(r, at) == flow[r].at = at /\ tx[r].pc = "idle"
Returned(r, at, out) == Awaiting(r, at) /\ tx[r].out = out

(* MetadataExpired is retried once; a second one is an error like others.  *)
(* Mutant: it is retried for as long as it comes.                          *)
RetriesForever(r, at) == Returned(r, at, "metadata_expired")
Retries(r, at) == Returned(r, at, "metadata_expired") /\ ~flow[r].retried
Failed(r, at) ==
  /\ Awaiting(r, at)
  /\ \/ tx[r].out \in {"invalid", "policy_changed", "cancelled"}
     \/ tx[r].out = "metadata_expired" /\ flow[r].retried

(* Conjoined to the start of a store operation.                            *)
Enters(r, f) ==
  flow' = [flow EXCEPT ![r] = f] /\ UNCHANGED <<browser, told, unheard>>
GoesTo(r, at) == Enters(r, [flow[r] EXCEPT !.at = at, !.retried = FALSE])
Again(r) == Enters(r, [flow[r] EXCEPT !.retried = TRUE])

(* The response; its cookies are added to this.                            *)
Replies(r, answers) ==
  /\ flow' = [flow EXCEPT ![r] = NoFlow]
  /\ tx' = [tx EXCEPT ![r] = NoRequest]
  /\ told' = answers
  /\ UNCHANGED <<clock, tables, unheard>>

Page(r) == Replies(r, told) /\ UNCHANGED browser

WithCode(a) == [told EXCEPT ![a].code = @ + 1]
WithDenial(a) == [told EXCEPT ![a].denied = @ + 1]
WithFailure(a) == [told EXCEPT ![a].failed = TRUE]

(* session_from: the session cookie, if it still opens a session.          *)
SignedIn(ses) == ses # Null /\ SessionFresh(sessions[ses], clock)

Arrives(r, h) == flow[r].at = "idle" /\ h \in Handlers
Incoming(h) == [NoFlow EXCEPT !.h = h, !.sent = jar, !.ses = cookie]

-----------------------------------------------------------------------------
(* consent_page, the end of authorize, callback and consent_get.           *)

Views(r, a, s, next) ==
  /\ \E admits \in BOOLEAN :
       StartConsent(r, "consent_view", a, s, admits, FALSE)
  /\ next

(* The callback's page brings the session cookie, error page or not.       *)
ViewReplies(r, answers) ==
  /\ Replies(r, IF flow[r].h = "callback" THEN answers ELSE told)
  /\ IF flow[r].h = "callback"
       THEN jar' = jar \ {flow[r].a} /\ cookie' = flow[r].ses
       ELSE UNCHANGED browser

AfterView(r) ==
  \/ Returned(r, "view", "ok") /\ ViewReplies(r, told)
  \/ /\ Retries(r, "view")
     /\ Views(r, flow[r].a, flow[r].ses, Again(r))
  \/ /\ Failed(r, "view") \/ Retries(r, "view")      \* or no snapshot
     /\ ViewReplies(r, WithFailure(flow[r].a))

-----------------------------------------------------------------------------
(* GET /authorize.  Both attempts read the cookies the request came with.  *)

Allow(f) == f.prompt # "consent" /\ f.pre

(* Everything refused before the first write: prompt=login, a max_age that *)
(* is not met, prompt=none without session or without pre-authorization,   *)
(* too many transaction cookies.  A max_age is never met without session.  *)
MayStart(f) == f.prompt # "none" /\ Cardinality(f.sent) < MaxCookies

AuthorizeValid(r, f) ==
  LET signedIn == SignedIn(f.ses) /\ f.prompt # "select_account" IN
  \/ Page(r)
  \/ /\ signedIn /\ (f.prompt # "none" \/ Allow(f))
     /\ StartBeginAuthenticated(r, f.ses, Allow(f))
     /\ Enters(r, f)
  \/ /\ ~signedIn /\ MayStart(f)
     /\ StartBeginGoogle(r, Allow(f))
     /\ Enters(r, f)

(* Both attempts may insert a row.                                         *)
RoomToAuthorize ==
  Cardinality(Free(authorizations)) >=
    2 * Cardinality({q \in Req : flow[q].h = "authorize"}) + 2

Authorize(r, prompt, pre) ==
  /\ Arrives(r, "authorize") /\ RoomToAuthorize
  /\ AuthorizeValid(r, [Incoming("authorize") EXCEPT
       !.at = "begin", !.prompt = prompt, !.pre = pre])

(* An error of authorize_valid: once more with a fresh snapshot if this    *)
(* one is stale, otherwise the error goes to the client or to the browser. *)
AuthorizeErr(r) ==
  LET f == flow[r] IN
  IF f.stale /\ ~f.retried
    THEN AuthorizeValid(r, [f EXCEPT !.at = "begin", !.retried = TRUE,
                                     !.stale = FALSE])
    ELSE Page(r)

(* The Google login starts: its cookie, and the landing page or, with      *)
(* pre-authorization, Google itself.                                       *)
SetsTransaction(r, a) ==
  Replies(r, told) /\ jar' = jar \cup {a} /\ UNCHANGED cookie

NotOk(r, at) == Awaiting(r, at) /\ tx[r].out # "ok"

AfterBegin(r) ==
  LET f == flow[r]  a == tx[r].a  s == tx[r].s IN
  \/ NotOk(r, "begin") /\ AuthorizeErr(r)
  \/ /\ Returned(r, "begin", "ok") /\ s = Null
     /\ \/ ~Allow(f) /\ SetsTransaction(r, a)
        \/ /\ Allow(f) /\ StartLanding(r, "start_google", a, TRUE)
           /\ Enters(r, [f EXCEPT !.at = "start", !.a = a])
  \/ /\ Returned(r, "begin", "ok") /\ s # Null
     /\ \/ ~Allow(f) /\ Views(r, a, s,
             Enters(r, [f EXCEPT !.at = "view", !.a = a, !.retried = FALSE]))
        \/ /\ Allow(f) /\ ~f.stale
           /\ StartConsent(r, "approve_pre_authorized", a, s, TRUE, TRUE)
           /\ Enters(r, [f EXCEPT !.at = "pre", !.a = a])
        \/ Allow(f) /\ f.stale /\ AuthorizeErr(r)  \* refused, no write

AfterStart(r) ==
  \/ NotOk(r, "start") /\ AuthorizeErr(r)
  \/ Returned(r, "start", "ok") /\ SetsTransaction(r, flow[r].a)

(* The snapshot pre-authorized this very request: it cannot answer None.   *)
AfterPre(r) ==
  \/ NotOk(r, "pre") /\ AuthorizeErr(r)
  \/ /\ Returned(r, "pre", "ok")
     /\ Replies(r, WithCode(flow[r].a)) /\ UNCHANGED browser

-----------------------------------------------------------------------------
(* POST /federation/google/start: continue or cancel.                      *)

GoogleStart(r, op, a) ==
  /\ Arrives(r, "google_start") /\ a \in jar
  /\ \E admits \in BOOLEAN : StartLanding(r, op, a, admits)
  /\ Enters(r, [Incoming("google_start") EXCEPT
                  !.at = "act", !.op = op, !.a = a])

-----------------------------------------------------------------------------
(* POST /consent and GET /consent.                                         *)

Consent(r, op, a) ==
  /\ Arrives(r, "consent_post") /\ op \in {"approve", "deny"}
  /\ SignedIn(cookie)
  /\ \E admits \in BOOLEAN : StartConsent(r, op, a, cookie, admits, FALSE)
  /\ Enters(r, [Incoming("consent_post") EXCEPT
                  !.at = "act", !.op = op, !.a = a])

ConsentGet(r, a) ==
  /\ Arrives(r, "consent_get") /\ SignedIn(cookie)
  /\ Views(r, a, cookie, Enters(r, [Incoming("consent_get") EXCEPT
                                      !.at = "view", !.a = a]))

(* What both forms do with the operation's answer.                         *)
ActAgain(r) ==
  LET f == flow[r] IN
  /\ Retries(r, "act") /\ Again(r)
  /\ \E admits \in BOOLEAN :
       \/ StartLanding(r, f.op, f.a, admits)
       \/ StartConsent(r, f.op, f.a, f.ses, admits, FALSE)

(* Mutant: the session is looked at again after the approval.              *)
ActAnswerIfSignedIn(f) ==
  CASE f.op = "approve" -> IF SignedIn(f.ses) THEN WithCode(f.a) ELSE told
    [] f.op \in {"deny", "cancel_google"} -> WithDenial(f.a)
    [] f.op = "start_google" -> told
ActAnswer(f) ==
  CASE f.op = "approve" -> WithCode(f.a)
    [] f.op \in {"deny", "cancel_google"} -> WithDenial(f.a)
    [] f.op = "start_google" -> told

ActDone(r) ==
  LET f == flow[r] IN
  /\ Returned(r, "act", "ok")
  /\ Replies(r, ActAnswer(f))
  /\ jar' = IF f.op = "cancel_google" THEN jar \ {f.a} ELSE jar
  /\ UNCHANGED cookie

AfterAct(r) ==
  \/ ActDone(r) \/ ActAgain(r)
  \/ (Failed(r, "act") \/ Retries(r, "act")) /\ Page(r)

-----------------------------------------------------------------------------
(* GET /federation/google/callback.  transaction_cookies reads no cookie   *)
(* at all when there are too many; a claim needs the authorization's own.  *)

(* A free session for every callback that may yet complete.                *)
RoomToComplete(a) ==
  Cardinality(Free(sessions)) >=
    Cardinality({b \in Auth :
      /\ b = a \/ \E q \in Req : flow[q].h = "callback" /\ flow[q].a = b
      /\ authorizations[b] # Null
      /\ authorizations[b].stage \in {"awaiting_google", "callback_claimed"}})

Callback(r, a, google) ==
  LET f == [Incoming("callback") EXCEPT !.at = "claim", !.a = a,
                                        !.google = google]
  IN /\ Arrives(r, "callback") /\ RoomToComplete(a)
     /\ authorizations[a] # Null /\ authorizations[a].stage # "awaiting_start"
     /\ \/ /\ a \in f.sent /\ Cardinality(f.sent) <= MaxCookies
           /\ StartClaim(r, a) /\ Enters(r, f)
        \/ /\ a \notin f.sent \/ Cardinality(f.sent) > MaxCookies
           /\ Page(r)

(* Every answer after the claim clears the transaction cookie.             *)
(* Mutant: an error page leaves it.                                        *)
ErrorPageKeepsCookie(r) ==
  Replies(r, WithFailure(flow[r].a)) /\ UNCHANGED browser
ErrorPage(r) ==
  /\ Replies(r, WithFailure(flow[r].a))
  /\ jar' = jar \ {flow[r].a} /\ UNCHANGED cookie

(* Claimed: Google's answer decides.                                       *)
AfterClaim(r) ==
  LET f == flow[r] IN
  \/ NotOk(r, "claim") /\ Page(r)
  \/ /\ Returned(r, "claim", "ok") /\ f.google = "error"
     /\ StartClaimed(r, "fail_callback", f.a, Null, TRUE) /\ GoesTo(r, "fail")
  \/ /\ Returned(r, "claim", "ok") /\ f.google = "access_denied"
     /\ \/ \E admits \in BOOLEAN :
             /\ StartClaimed(r, "deny_callback", f.a, Null, admits)
             /\ GoesTo(r, "deny")
        \/ ErrorPage(r)
  \/ /\ Returned(r, "claim", "ok") /\ f.google = "code"
     /\ GoesTo(r, "exchange") /\ UNCHANGED vars

(* exchange_code of GoogleKeys, then the completion.                       *)
AfterExchange(r) ==
  LET f == flow[r] IN
  /\ Awaiting(r, "exchange")
  /\ \/ \E u \in Subject, admits \in BOOLEAN :
          /\ StartClaimed(r, "complete_callback", f.a, u, admits)
          /\ Enters(r, [f EXCEPT !.at = "complete", !.sub = u])
     \/ /\ StartClaimed(r, "fail_callback", f.a, Null, TRUE)
        /\ GoesTo(r, "fail")
     \/ ErrorPage(r)

AfterFail(r) == Awaiting(r, "fail") /\ ErrorPage(r)

AfterDeny(r) ==
  LET f == flow[r] IN
  \/ /\ Returned(r, "deny", "ok")
     /\ Replies(r, WithDenial(f.a))
     /\ jar' = jar \ {f.a} /\ UNCHANGED cookie
  \/ /\ Retries(r, "deny") /\ Again(r)
     /\ \E admits \in BOOLEAN :
          StartClaimed(r, "deny_callback", f.a, Null, admits)
  \/ (Failed(r, "deny") \/ Retries(r, "deny")) /\ ErrorPage(r)

(* Completed: a pre-authorized approval is tried before the consent page,  *)
(* and the page follows if the client cannot be resolved.                  *)
PreApproves(r, a, s, next) ==
  /\ \E admits, pre \in BOOLEAN :
       StartConsent(r, "approve_pre_authorized", a, s, admits, pre)
  /\ next

AfterComplete(r) ==
  LET f == flow[r]  g == [f EXCEPT !.ses = tx[r].s, !.retried = FALSE] IN
  \/ /\ Returned(r, "complete", "ok")
     /\ \/ PreApproves(r, f.a, tx[r].s,
                       Enters(r, [g EXCEPT !.at = "callback_pre"]))
        \/ Views(r, f.a, tx[r].s, Enters(r, [g EXCEPT !.at = "view"]))
  \/ /\ Retries(r, "complete") /\ Again(r)
     /\ \E admits \in BOOLEAN :
          StartClaimed(r, "complete_callback", f.a, f.sub, admits)
  \/ (Failed(r, "complete") \/ Retries(r, "complete")) /\ ErrorPage(r)

AfterCallbackPre(r) ==
  LET f == flow[r] IN
  \/ /\ Returned(r, "callback_pre", "ok")
     /\ Replies(r, WithCode(f.a))
     /\ jar' = jar \ {f.a} /\ cookie' = f.ses
  \/ /\ \/ Returned(r, "callback_pre", "not_pre_authorized")
        \/ Retries(r, "callback_pre")                  \* or no snapshot
     /\ Views(r, f.a, f.ses, GoesTo(r, "view"))
  \/ /\ Retries(r, "callback_pre")
     /\ PreApproves(r, f.a, f.ses, Again(r))
  \/ Failed(r, "callback_pre") /\ ErrorPage(r)

-----------------------------------------------------------------------------
(* Logout of the browser's session, as LogoutStore models it.              *)

Logout(r) ==
  /\ Arrives(r, "logout") /\ SignedIn(cookie)
  /\ StartLogout(r, cookie)
  /\ Enters(r, [Incoming("logout") EXCEPT !.at = "logout"])

AfterLogout(r) ==
  /\ Awaiting(r, "logout") /\ Replies(r, told)
  /\ cookie' = IF tx[r].out = "ok" THEN Null ELSE cookie
  /\ UNCHANGED jar

-----------------------------------------------------------------------------
(* The environment.                                                        *)

(* The browser hangs up and the handler is dropped with its transaction,   *)
(* or the response is lost.                                                *)
Disconnect(r) ==
  /\ flow[r].at # "idle" /\ "disconnect" \in Faults
  /\ flow' = [flow EXCEPT ![r] = NoFlow]
  /\ tx' = [tx EXCEPT ![r] = NoRequest]
  /\ gone' = gone \cup ({flow[r].a} \ {Null})
  /\ UNCHANGED <<clock, tables, browser, told, lost>>

(* Max-Age=600 of a transaction cookie.                                    *)
CookieExpires(a) ==
  /\ a \in jar /\ ~Unexpired(a)
  /\ jar' = jar \ {a}
  /\ UNCHANGED <<vars, cookie, flow, told, unheard>>

(* A step of the running store operation, or a database error that rolls   *)
(* it back; for errors after it took effect see LastAwaitFails.  One       *)
(* snapshot serves the whole of authorize_valid, so that its expiry is     *)
(* remembered there.                                                       *)
StoreStep(r) ==
  /\ Proceed(r) \/ ("database" \in Faults /\ Cancel(r))
  /\ flow' = [flow EXCEPT ![r].stale =
       @ \/ (flow[r].h = "authorize" /\ tx[r].lease # "live")]
  /\ UNCHANGED <<browser, told, unheard>>

(* A handler that is about to answer with the code it was given.           *)
HoldsCode(r, a) ==
  /\ flow[r].a = a /\ tx[r].pc = "idle" /\ tx[r].out = "ok"
  /\ \/ flow[r].at \in {"pre", "callback_pre"}
     \/ flow[r].at = "act" /\ flow[r].op = "approve"

(* The last await of a store operation fails although it took effect: the  *)
(* acknowledgement of its commit is lost, and the handler sees an error.   *)
LastAwaitFails(r) ==
  /\ "database" \in Faults
  /\ flow[r].at \notin {"idle", "exchange"}
  /\ tx[r].pc = "idle" /\ tx[r].out = "ok"
  /\ tx' = [tx EXCEPT ![r].out = "cancelled"]
  /\ lost' = [claims |-> lost.claims \cup
                           {a \in Auth : flow[r].a = a /\ flow[r].at = "claim"},
              codes |-> lost.codes \cup {a \in Auth : HoldsCode(r, a)}]
  /\ UNCHANGED <<clock, tables, browser, flow, told, gone>>

Browse(r) ==
  \/ \E prompt \in Prompts, pre \in BOOLEAN : Authorize(r, prompt, pre)
  \/ \E a \in Auth, op \in {"start_google", "cancel_google"} :
       GoogleStart(r, op, a)
  \/ \E a \in Auth, google \in Answer : Callback(r, a, google)
  \/ \E a \in Auth, op \in {"approve", "deny"} : Consent(r, op, a)
  \/ \E a \in Auth : ConsentGet(r, a)
  \/ Logout(r)

Handle(r) ==
  \/ AfterBegin(r) \/ AfterStart(r) \/ AfterPre(r) \/ AfterView(r)
  \/ AfterAct(r) \/ AfterClaim(r) \/ AfterExchange(r) \/ AfterFail(r)
  \/ AfterDeny(r) \/ AfterComplete(r) \/ AfterCallbackPre(r)
  \/ AfterLogout(r)

WebNext ==
  \/ (Tick \/ \E r \in Req : LeaseLapses(r))
     /\ UNCHANGED <<browser, flow, told, unheard>>
  \/ \E a \in Auth : CookieExpires(a)
  \/ \E r \in Req : 
       \/ Browse(r) \/ Handle(r) \/ StoreStep(r)
       \/ LastAwaitFails(r) \/ Disconnect(r)

WebSpec == WebInit /\ [][WebNext]_webVars

(* A handler's task runs; locks are first come, first served.              *)
WebFairness ==
  \A r \in Req :
    /\ WF_webVars(Handle(r) \/ StoreStep(r))
    /\ SF_webVars(LockSteps(r) /\ StoreStep(r))

FairWebSpec == WebSpec /\ WebFairness

-----------------------------------------------------------------------------
(* Properties.                                                             *)

(* The client hears of an authorization at most once, and what it hears is *)
(* what the row says: retries, duplicate callbacks, double submitted forms *)
(* and races between approval, denial and cancellation never send it both  *)
(* a code and access_denied, or either of them twice.                      *)
AnswersAgree ==
  \A a \in Auth :
    /\ told[a].code + told[a].denied <= 1
    /\ told[a].code = 1 => authorizations[a].stage = "approved"
    /\ told[a].denied = 1 => authorizations[a].stage = "denied"

(* No issued code is swallowed by an error path or by a retry: unless a    *)
(* client hung up, every code was sent or is being sent, but for a code    *)
(* whose commit was never acknowledged.  That one the client never gets,   *)
(* and no retry issues another.                                            *)
CodesAreAnswered ==
  \A a \in Auth \ gone :
    codes[a] = told[a].code + Cardinality({r \in Req : HoldsCode(r, a)})
                 + Cardinality(lost.codes \cap {a})

(* Every path after the claim clears the transaction cookie, the ones that *)
(* end in an error too, so a browser does not run into the limit.  A claim *)
(* that took effect without being acknowledged is no claim for the         *)
(* callback: only then does the cookie stay until it expires.              *)
ClaimedCookiesCleared ==
  \A a \in jar \ (gone \cup lost.claims) :
    claims[a] > 0 =>
      \E r \in Req : flow[r].h = "callback" /\ flow[r].a = a

(* Every request is answered, or its client hung up: retries are bounded   *)
(* and nobody waits for ever.                                              *)
HandlersAnswer == \A r \in Req : flow[r].at # "idle" ~> flow[r].at = "idle"

(* docs/browser-flow-plan.md: "a maximum of four pending transaction       *)
(* cookies per browser".                                                   *)
AtMostMaxCookies == Cardinality(jar) <= MaxCookies

(* docs/browser-flow-plan.md: "A failed or replayed callback cannot create *)
(* a provider session."                                                    *)
FailedCallbackNoSession ==
  \A a \in Auth : told[a].failed =>
    \A s \in Session : sessions[s] # Null => sessions[s].via # a

=============================================================================
