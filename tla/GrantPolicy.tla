----------------------------- MODULE GrantPolicy -----------------------------
(***************************************************************************)
(* A stored grant under a policy that changes.  A grant is written when an *)
(* authorization request is validated, and read again when the user        *)
(* approves, when the code is exchanged and whenever its token is renewed. *)
(* Between any two of these the client's site may publish another          *)
(* metadata document and the operator may restart the process with another *)
(* configuration; between resolving the client and acting on the result    *)
(* only the metadata lease protects a request.                             *)
(*                                                                         *)
(* The grant's row stands for the browser authorization, the code and the  *)
(* refresh family in turn: they copy the same columns (src/browser.rs,     *)
(* src/credentials.rs).  Grants do not share policy state, so one is       *)
(* followed, with one request on it at a time.  Sessions, expiry, replay,  *)
(* locks and concurrent requests are CredentialStore's and BrowserStore's; *)
(* the fetch is one step here and taken apart in CimdFetcher.              *)
(***************************************************************************)
EXTENDS ClientPolicy

CONSTANTS
  Configs,     \* the configurations an operator may start the process with
  Documents,   \* the documents the client's site may serve
  Requests,    \* authorization requests
  MaxTtl,      \* 300 seconds
  ShortLease,  \* 5 seconds, for responses that may not be cached
  MaxClock     \* bound on the clock

ASSUME PolicyBounds ==
  /\ MaxTtl \in Nat \ {0} /\ ShortLease \in 1..MaxTtl /\ MaxClock \in Nat
  /\ \E c \in Configs : ValidConfig(c)
  /\ Null \notin Configs

(* A URI as ClientPolicy describes it.                                     *)
Uri == [scheme : STRING, host : STRING, port : Nat \cup {Null},
        rest : STRING, clean : BOOLEAN, normal : BOOLEAN]

(* The bindings a grant may be stored with.                                *)
Bindings == {SecurityBinding(d, b) : d \in Documents, b \in BOOLEAN}

ASSUME PolicyTypes ==
  /\ \A c \in Configs : c.cimd # Null => c.cimd.allow_refresh \in BOOLEAN
  /\ \A d \in Documents : Range(d.redirects) \subseteq Uri
  /\ \A q \in Requests : q.redirect \in Uri /\ q.scopes \in Seq(STRING)

(* None is no value of the types it is an option of.                       *)
ASSUME PolicyNull ==
  /\ Null \notin Nat /\ Null \notin Documents /\ Null \notin Bindings
  /\ Null \notin [doc : Documents, until : Nat, binding : Bindings]

VARIABLES
  clock,
  config,    \* the running configuration; Null while none starts
  site,      \* the document the client's site serves
  served,    \* when each document was last served; Null: too long ago
  cache,     \* the fetcher's entry: Null or [doc, until]
  grant,     \* the stored grant, or Null
  req        \* the request in flight, or the outcome of the last one

vars == <<clock, config, site, served, cache, grant, req>>
world == <<clock, config, site, served, cache>>

NoReq == [op |-> "none", q |-> Null, reg |-> Null, out |-> "none"]

Idle == req.reg = Null

Init ==
  /\ clock = 0
  /\ config \in {c \in Configs : ValidConfig(c)}
  /\ site \in Documents
  /\ served = [d \in Documents |-> IF d = site THEN 0 ELSE Null]
  /\ cache = Null
  /\ grant = Null
  /\ req = NoReq

-----------------------------------------------------------------------------
(* The environment.                                                        *)

Tick ==
  /\ clock < MaxClock
  /\ clock' = clock + 1
  /\ served' = [d \in Documents |->
       IF d = site THEN clock + 1
       ELSE IF served[d] # Null /\ clock + 1 > served[d] + MaxTtl THEN Null
       ELSE served[d]]
  /\ UNCHANGED <<config, site, cache, grant, req>>

(* A site changes its document at most once per unit of time.              *)
Publish(d) ==
  /\ d # site /\ \A e \in Documents \ {site} : served[e] # clock
  /\ site' = d
  /\ served' = [served EXCEPT ![d] = clock]
  /\ UNCHANGED <<clock, config, cache, grant, req>>

(* A restart: the request in flight and the cache are gone, the row stays. *)
(* With an invalid configuration the process does not come up.             *)
Deploy(c) ==
  /\ c # config
  /\ config' = IF ValidConfig(c) THEN c ELSE Null
  /\ cache' = Null
  /\ req' = NoReq
  /\ UNCHANGED <<clock, site, served, grant>>

-----------------------------------------------------------------------------
(* resolve_client, for the operation op and the client id.                 *)

(* What the fetcher keeps of a response that may be cached for ttl, and    *)
(* how long the snapshot it returns is leased.                             *)
Keep(d, ttl) == IF ttl = 0 THEN cache ELSE [doc |-> d, until |-> clock + ttl]
Lease(ttl) == clock + (IF ttl = 0 THEN ShortLease ELSE ttl)

Cached(id) == cache # Null /\ clock < cache.until /\ cache.doc.id = id

Begins(op, q, reg) ==
  req' = [op |-> op, q |-> q, reg |-> reg, out |-> "none"]
Ends(op, out) == req' = [NoReq EXCEPT !.op = op, !.out = out]

(* Project the document d, leased until t, or fail.                        *)
Projects(op, q, d, t) ==
  LET reg == Registry(config) IN
  IF CanProject(reg, config.cimd, d, t, clock)
  THEN Begins(op, q, ProjectCimd(reg, config.cimd, d, t))
  ELSE Ends(op, "unresolved")

ResolveReviewed(op, q, id) ==
  /\ id \in StaticIds(config)
  /\ Begins(op, q, Registry(config))
  /\ UNCHANGED cache

ResolveMetadata(op, q, id) ==
  /\ id \notin StaticIds(config) /\ config.cimd # Null
  /\ \/ /\ Cached(id)
        /\ Projects(op, q, cache.doc, cache.until) /\ UNCHANGED cache
     \/ /\ ~Cached(id) /\ ValidDocument(id, site)
        /\ \E ttl \in 0..MaxTtl :
             Projects(op, q, site, Lease(ttl)) /\ cache' = Keep(site, ttl)

(* No such client, or its document cannot be had.                          *)
Unresolved(op, id) ==
  /\ id \notin StaticIds(config)
  /\ config.cimd # Null => ~Cached(id)
  /\ Ends(op, "unresolved") /\ UNCHANGED cache

ResolveClient(op, q, id) ==
  /\ config # Null /\ Idle
  /\ ResolveReviewed(op, q, id) \/ ResolveMetadata(op, q, id) \/ Unresolved(op, id)
  /\ UNCHANGED <<clock, config, site, served, grant>>

Stage == IF grant = Null THEN "none" ELSE grant.stage

(* What may be asked of the stored grant, by stage.                        *)
Operations ==
  CASE Stage = "pending" -> {"approve", "approve_silently"}
    [] Stage = "code" -> {"exchange"}
    [] Stage = "family" -> {"rotate"}
    [] OTHER -> {}

StartAuthorize(q) ==
  Stage = "none" /\ ResolveClient("authorize", q, q.client)
StartStored(op) ==
  op \in Operations /\ ResolveClient(op, Null, grant.row.client)

-----------------------------------------------------------------------------
(* Acting on what was resolved.                                            *)

Verdict(accepted) ==
  IF ~Fresh(req.reg, clock) THEN "metadata_expired"
  ELSE IF accepted THEN "ok" ELSE "refused"

(* authorize_valid: the redirect and the rest of validate_pending, then    *)
(* the row, which records whether consent may be skipped.                  *)
Authorize ==
  LET row == PendingGrant(req.reg, req.q)
      out == Verdict(AcceptsPending(req.reg, req.q))
  IN /\ req.op = "authorize" /\ ~Idle
     /\ Ends(req.op, out)
     /\ grant' = IF out # "ok" THEN grant ELSE
          [stage |-> "pending", row |-> row, since |-> config,
           doc |-> IF row.binding = Null THEN Null ELSE req.reg.dynamic.doc,
           silent |-> req.q.prompt # "consent" /\ PreAuthorizes(req.reg, row)]
     /\ UNCHANGED world

(* Everything that is asked of a stored row before it moves on.            *)
Revalidates(row) ==
  BindingHolds(req.reg, row.client, row.binding) /\ AcceptsStored(req.reg, row)

(* approve, and approve_pre_authorized, which leaves the row for the       *)
(* consent page if consent may not be skipped (any more).                  *)
Approve ==
  LET out == Verdict(Revalidates(grant.row))
      granted == \/ req.op = "approve"
                 \/ grant.silent /\ PreAuthorizes(req.reg, grant.row)
  IN /\ req.op \in {"approve", "approve_silently"} /\ ~Idle
     /\ Ends(req.op, IF out = "ok" /\ ~granted THEN "consent_required" ELSE out)
     /\ grant' = IF out = "ok" /\ granted THEN [grant EXCEPT !.stage = "code"]
                                          ELSE grant
     /\ UNCHANGED world

(* exchange_code_request: a refresh family comes only with offline access. *)
Exchange ==
  LET out == Verdict(Revalidates(grant.row))
      next == IF "offline_access" \in grant.row.scopes THEN "family"
                                                       ELSE "spent"
  IN /\ req.op = "exchange" /\ ~Idle
     /\ Ends(req.op, out)
     /\ grant' = IF out = "ok" THEN [grant EXCEPT !.stage = next] ELSE grant
     /\ UNCHANGED world

(* rotate_refresh_request: permits_refresh is asked before the lease.      *)
Rotate ==
  /\ req.op = "rotate" /\ ~Idle
  /\ Ends(req.op,
       IF ~PermitsRefresh(req.reg, grant.row) THEN "refused"
       ELSE Verdict(BindingHolds(req.reg, grant.row.client, grant.row.binding)))
  /\ UNCHANGED <<world, grant>>

Next ==
  \/ Tick
  \/ \E d \in Documents : Publish(d)
  \/ \E c \in Configs : Deploy(c)
  \/ \E q \in Requests : StartAuthorize(q)
  \/ \E op \in {"approve", "approve_silently", "exchange", "rotate"} :
       StartStored(op)
  \/ Authorize \/ Approve \/ Exchange \/ Rotate

Spec == Init /\ [][Next]_vars

-----------------------------------------------------------------------------
(* Properties.                                                             *)

(* The request is answered in this step, with this outcome.                *)
Answered(out) == ~Idle /\ req'.reg = Null /\ req'.out = out

(* The documents that some cache may still hold.                           *)
InForce(d) == served[d] # Null

(* The document d promises what the grant's own document promised when it  *)
(* was authorized: the same redirects, and refresh tokens or none.         *)
SamePromises(g, d) ==
  /\ ValidDocument(g.row.client, d)
  /\ Range(d.redirects) = Range(g.doc.redirects)
  /\ RefreshAllowed(d) /\ config.cimd.allow_refresh
       <=> RefreshAllowed(g.doc) /\ g.since.cimd.allow_refresh

(* Loopback redirects that differ in how the port is written at most.      *)
SameButPort(u, to) ==
  u.scheme = "http" /\ to = [u EXCEPT !.port = to.port, !.normal = to.normal]

(* A client that changed its redirects, or gave up refresh tokens, is      *)
(* heard: an authorization, an approval, an exchange or a renewal succeeds *)
(* for a metadata client only if the site served, within the longest cache *)
(* lifetime, a document with the same promises and the grant's redirect;   *)
(* waiting between resolve_client and the check stretches nothing.         *)
GrantsFollowTheDocument ==
  [][Answered("ok") /\ grant'.row.binding # Null =>
       LET to == grant'.row.redirect IN
       \E d \in Documents :
         /\ InForce(d) /\ SamePromises(grant', d)
         /\ \E u \in Range(d.redirects) : to = u \/ SameButPort(u, to)
    ]_vars

(* Trust is never inherited: what was granted to a metadata document is    *)
(* not honoured once the operator reviews a client of that name, nor the   *)
(* other way round; and consent is skipped only for a client that is       *)
(* reviewed for it now, was when it asked, and gets the code at a redirect *)
(* its application has claimed.                                            *)
TrustNeverChangesKind ==
  [][Answered("ok") =>
       /\ grant'.doc = Null <=> grant'.row.client \in StaticIds(config)
       /\ req.op = "approve_silently" =>
            LET c == Declared(config, grant.row.client)
                before == Declared(grant.since, grant.row.client)
            IN /\ c.flow = "google_preauthorized"
               /\ before.flow = "google_preauthorized"
               /\ \E k \in c.redirects : /\ k.kind = "app_claimed_https"
                                         /\ k.uri = grant.row.redirect
    ]_vars

(* What the operator took back is gone at the next restart, also for       *)
(* grants given before it: nothing succeeds beyond the scopes and          *)
(* resources of the running configuration, or beyond the scopes it         *)
(* advertises; offline access of a metadata client needs the consent of    *)
(* operator and document.                                                  *)
NothingBeyondConfiguration ==
  [][Answered("ok") =>
       LET g == grant'.row
           c == Declared(config, g.client)
       IN /\ g.scopes \subseteq AdvertisedScopes(config)
          /\ IF g.client \in StaticIds(config)
             THEN /\ g.scopes \subseteq c.scopes
                  /\ \/ g.resource \in c.resources
                     \/ g.resource = UserInfo /\ "openid" \in g.scopes
             ELSE /\ g.scopes \subseteq config.cimd.scopes
                  /\ g.resource \in config.cimd.resources
                  /\ "offline_access" \in g.scopes =>
                       config.cimd.allow_refresh /\ RefreshAllowed(grant'.doc)
    ]_vars

(* The document d is the one a renewal was resolved with, however long ago *)
(* that was: permits_refresh is asked before the lease.                    *)
RenewedWith(d) ==
  req.op = "rotate" /\ req.reg.dynamic # Null /\ d = req.reg.dynamic.doc

(* The other direction: a grant is refused only for a cause.  As long as   *)
(* the configuration is the one it was authorized under and every document *)
(* a cache may hold makes the same promises, approval and exchange never   *)
(* refuse it, whatever defaults, port or order of redirects were involved; *)
(* nor does a renewal, unless the document it was itself resolved with is  *)
(* the exception (an approval is then told that its metadata expired).     *)
RefusedOnlyForCause ==
  [][Answered("refused") /\ req.op # "authorize" =>
       \/ config # grant.since
       \/ /\ grant.doc # Null
          /\ \E d \in Documents :
               (InForce(d) \/ RenewedWith(d)) /\ ~SamePromises(grant, d)
    ]_vars

=============================================================================
