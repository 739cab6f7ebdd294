----------------------------- MODULE GrantProofs -----------------------------
(***************************************************************************)
(* The action properties of GrantPolicy, for every list of configurations, *)
(* documents and requests, every clock and every lifetime.                 *)
(***************************************************************************)
EXTENDS GrantPolicy, TLAPS

(* What is asked of a stored grant.                                        *)
StoredOps == {"approve", "approve_silently", "exchange", "rotate"}

-----------------------------------------------------------------------------
(* The inductive invariant.                                                *)

(* The site's document is always in force, and none later than now.        *)
Times ==
  /\ clock \in Nat /\ site \in Documents
  /\ served \in [Documents -> Nat \cup {Null}]
  /\ \A d \in Documents : served[d] # Null => served[d] <= clock
  /\ served[site] = clock

(* A lease on d until t ends before d is out of force, or has ended.       *)
Leased(d, t) ==
  IF served[d] = Null THEN t <= clock ELSE t <= served[d] + MaxTtl

CacheHolds ==
  cache # Null =>
    /\ cache.doc \in Documents /\ cache.until \in Nat
    /\ ValidDocument(cache.doc.id, cache.doc)
    /\ Leased(cache.doc, cache.until)

(* reg is what resolve_client may have returned for id: the configured     *)
(* registry for a reviewed client, else that registry with a document      *)
(* projected into it.                                                      *)
IsProjection(id, reg, d, t) ==
  /\ ValidDocument(id, d) /\ Leased(d, t)
  /\ reg = ProjectCimd(Registry(config), config.cimd, d, t)

IsResolved(id, reg) ==
  \/ id \in StaticIds(config) /\ reg = Registry(config)
  \/ /\ id \notin StaticIds(config) /\ config.cimd # Null
     /\ \E d \in Documents, t \in Nat : IsProjection(id, reg, d, t)

InFlight ==
  ~Idle =>
    /\ config \in Configs
    /\ \/ /\ req.op = "authorize" /\ req.q \in Requests
          /\ IsResolved(req.q.client, req.reg)
       \/ /\ req.op \in StoredOps /\ grant # Null
          /\ IsResolved(grant.row.client, req.reg)

(* A grant g of a reviewed client, and of a metadata client: the           *)
(* configuration and the document it was authorized under accept it.       *)
ReviewedGrant(g) ==
  /\ g.doc = Null /\ g.row.binding = Null
  /\ g.row.client \in StaticIds(g.since)
  /\ AcceptsStored(Registry(g.since), g.row)
  /\ g.silent => PreAuthorizes(Registry(g.since), g.row)

MetadataGrant(g) ==
  /\ g.doc \in Documents
  /\ g.row.client \notin StaticIds(g.since) /\ g.since.cimd # Null
  /\ ValidDocument(g.row.client, g.doc)
  /\ g.row.binding = SecurityBinding(g.doc, g.since.cimd.allow_refresh)
  /\ AcceptsStored(ProjectCimd(Registry(g.since), g.since.cimd, g.doc, 0), g.row)
  /\ ~g.silent

WellFormed(g) ==
  /\ DOMAIN g = {"stage", "row", "since", "doc", "silent"}
  /\ g.since \in Configs /\ g.row.redirect \in Uri
  /\ ReviewedGrant(g) \/ MetadataGrant(g)

GrantHolds == grant # Null => WellFormed(grant)

(* The running configuration is one of the list.                           *)
ConfigHolds == config # Null => config \in Configs

GrantInv == Times /\ ConfigHolds /\ CacheHolds /\ InFlight /\ GrantHolds

-----------------------------------------------------------------------------
(* Registries.                                                             *)

(* Registry: the declared clients and no document.                         *)
LEMMA RegistryFacts ==
  ASSUME NEW c
  PROVE  /\ DOMAIN Registry(c).clients = StaticIds(c)
         /\ \A id \in StaticIds(c) :
              /\ Registry(c).clients[id] = Declared(c, id)
              /\ Declared(c, id) \in Range(c.clients)
              /\ Declared(c, id).id = id
         /\ Registry(c).dynamic = Null
<1>1. ASSUME NEW id \in StaticIds(c)
      PROVE  \E k \in Range(c.clients) : k.id = id
  BY DEF StaticIds, Range
<1>2. ASSUME NEW id \in StaticIds(c)
      PROVE  Declared(c, id) \in Range(c.clients) /\ Declared(c, id).id = id
  BY <1>1 DEF Declared
<1> QED
  BY <1>2 DEF Registry

(* ProjectCimd: the document's client besides the configured ones; its     *)
(* binding, document and lease are kept, and they are something.           *)
LEMMA ProjectFacts ==
  ASSUME NEW c \in Configs, c.cimd # Null,
         NEW d \in Documents, NEW t \in Nat,
         NEW reg, reg = ProjectCimd(Registry(c), c.cimd, d, t)
  PROVE  /\ d.id \in DOMAIN reg.clients
         /\ reg.clients[d.id] = ProjectedClient(c.cimd, d)
         /\ reg.dynamic # Null
         /\ reg.dynamic.doc = d /\ reg.dynamic.until = t
         /\ reg.dynamic.binding = SecurityBinding(d, c.cimd.allow_refresh)
         /\ reg.dynamic.binding \in Bindings /\ reg.dynamic.binding # Null
         /\ IsDynamic(reg, d.id) /\ Contains(reg, d.id)
<1> DEFINE b == SecurityBinding(d, c.cimd.allow_refresh)
           dyn == [doc |-> d, until |-> t, binding |-> b]
<1>1. reg.dynamic = dyn
  BY DEF ProjectCimd
<1>2. b \in Bindings
  BY PolicyTypes DEF Bindings
<1>3. b # Null
  BY <1>2, PolicyNull
<1> HIDE DEF b
<1>4. dyn \in [doc : Documents, until : Nat, binding : Bindings]
  BY <1>2
<1>5. dyn # Null
  BY <1>4, PolicyNull
<1>6. dyn.doc = d /\ dyn.until = t /\ dyn.binding = b
  OBVIOUS
<1>7. d.id \in DOMAIN reg.clients /\ reg.clients[d.id] = ProjectedClient(c.cimd, d)
  BY DEF ProjectCimd
<1> HIDE DEF dyn
<1>8. IsDynamic(reg, d.id) /\ Contains(reg, d.id)
  BY <1>1, <1>5, <1>6, <1>7 DEF IsDynamic, Contains
<1>9. reg.dynamic.binding = SecurityBinding(d, c.cimd.allow_refresh)
  BY <1>1, <1>6 DEF b
<1> QED
  BY <1>1, <1>2, <1>3, <1>5, <1>6, <1>7, <1>8, <1>9

(* The redirects of a binding determine those of the document.             *)
LEMMA BindingsDetermine ==
  ASSUME NEW d, NEW e, NEW a, NEW b,
         SecurityBinding(d, a) = SecurityBinding(e, b)
  PROVE  /\ d.id = e.id
         /\ Range(d.redirects) = Range(e.redirects)
         /\ (RefreshAllowed(d) /\ a) <=> (RefreshAllowed(e) /\ b)
<1> DEFINE R(x) == {DocumentRedirect(u) : u \in Range(x.redirects)}
<1>1. /\ SecurityBinding(d, a).id = d.id
      /\ SecurityBinding(d, a).redirects = R(d)
      /\ SecurityBinding(d, a).refresh = (RefreshAllowed(d) /\ a)
  BY DEF SecurityBinding
<1>2. /\ SecurityBinding(e, b).id = e.id
      /\ SecurityBinding(e, b).redirects = R(e)
      /\ SecurityBinding(e, b).refresh = (RefreshAllowed(e) /\ b)
  BY DEF SecurityBinding
<1>3. R(d) = R(e)
  BY <1>1, <1>2
<1>4. \A u : DocumentRedirect(u).uri = u
  BY DEF DocumentRedirect
<1>5. ASSUME NEW x, NEW y, R(x) = R(y)
      PROVE  Range(x.redirects) \subseteq Range(y.redirects)
  BY <1>4, <1>5
<1>6. Range(d.redirects) = Range(e.redirects)
  BY <1>3, <1>5
<1>7. (RefreshAllowed(d) /\ a) = (RefreshAllowed(e) /\ b)
  BY <1>1, <1>2
<1> QED
  BY <1>1, <1>2, <1>6, <1>7

-----------------------------------------------------------------------------
(* Accepting a stored row.                                                 *)

(* AcceptsStored looks at the client's entry and at its kind only.         *)
LEMMA AcceptsSame ==
  ASSUME NEW r, NEW s, NEW g,
         Contains(s, g.client), r.clients[g.client] = s.clients[g.client],
         IsDynamic(r, g.client) <=> IsDynamic(s, g.client),
         AcceptsStored(r, g)
  PROVE  AcceptsStored(s, g)
<1>1. TrustedRedirect(s, g.client, g.redirect)
  BY DEF AcceptsStored, TrustedRedirect
<1>2. ResourceAllowed(s, g.client, g.scopes, g.resource)
  BY DEF AcceptsStored, ResourceAllowed
<1> QED
  BY <1>1, <1>2 DEF AcceptsStored

(* What revalidate accepts permits_refresh permits.                        *)
LEMMA AcceptedPermits ==
  ASSUME NEW r, NEW g, AcceptsStored(r, g)
  PROVE  PermitsRefresh(r, g)
  BY DEF AcceptsStored, PermitsRefresh, TrustedRedirect

(* Two documents with the same promises are the same client.               *)
LEMMA SameClient ==
  ASSUME NEW p, NEW d, NEW e, d.id = e.id,
         Range(d.redirects) = Range(e.redirects),
         (RefreshAllowed(d) /\ p.allow_refresh)
           <=> (RefreshAllowed(e) /\ p.allow_refresh)
  PROVE  ProjectedClient(p, d) = ProjectedClient(p, e)
<1>1. ProjectedScopes(p, d) = ProjectedScopes(p, e)
  BY DEF ProjectedScopes
<1> QED
  BY <1>1 DEF ProjectedClient

(* A row accepted under one document is accepted under the other.          *)
LEMMA SameAcceptance ==
  ASSUME NEW c \in Configs, c.cimd # Null,
         NEW d \in Documents, NEW e \in Documents,
         NEW t \in Nat, NEW u \in Nat, NEW g, d.id = g.client, e.id = g.client,
         Range(d.redirects) = Range(e.redirects),
         (RefreshAllowed(d) /\ c.cimd.allow_refresh)
           <=> (RefreshAllowed(e) /\ c.cimd.allow_refresh),
         AcceptsStored(ProjectCimd(Registry(c), c.cimd, d, t), g)
  PROVE  AcceptsStored(ProjectCimd(Registry(c), c.cimd, e, u), g)
<1> PICK r : r = ProjectCimd(Registry(c), c.cimd, d, t)
  OBVIOUS
<1> PICK s : s = ProjectCimd(Registry(c), c.cimd, e, u)
  OBVIOUS
<1>1. r.clients[g.client] = ProjectedClient(c.cimd, d) /\ IsDynamic(r, g.client)
  BY ProjectFacts
<1>2. /\ s.clients[g.client] = ProjectedClient(c.cimd, e)
      /\ IsDynamic(s, g.client) /\ Contains(s, g.client)
  BY ProjectFacts
<1>3. ProjectedClient(c.cimd, d) = ProjectedClient(c.cimd, e)
  BY SameClient
<1>4. AcceptsStored(r, g)
  OBVIOUS
<1>5. AcceptsStored(s, g)
  BY <1>1, <1>2, <1>3, <1>4, AcceptsSame
<1> QED
  BY <1>5

-----------------------------------------------------------------------------
(* Time.                                                                   *)

(* Nothing but the environment moves the clock or the site.                *)
LEMMA OnlyTimeMoves ==
  [Next]_vars => \/ Tick \/ \E d \in Documents : Publish(d)
                 \/ UNCHANGED <<clock, site, served>>
  BY DEF Next, vars, world, Deploy, StartAuthorize, StartStored, ResolveClient,
         Authorize, Approve, Exchange, Rotate

LEMMA TimesInit == Init => Times
  BY PolicyNull DEF Init, Times

LEMMA TimesStep ==
  ASSUME Times, [Next]_vars
  PROVE  Times'
<1>1. CASE Tick
  BY <1>1, PolicyBounds, PolicyNull DEF Tick, Times
<1>2. ASSUME NEW d \in Documents, Publish(d)
      PROVE  Times'
  BY <1>2, PolicyNull DEF Publish, Times
<1>3. CASE UNCHANGED <<clock, site, served>>
  BY <1>3 DEF Times
<1> QED
  BY <1>1, <1>2, <1>3, OnlyTimeMoves

(* The leases of the cache and of a waiting request never outlive the time *)
(* their document is in force.                                             *)
LEMMA LeasesLast ==
  ASSUME Times, [Next]_vars, NEW d \in Documents, NEW t \in Nat, Leased(d, t)
  PROVE  Leased(d, t)'
<1>1. CASE Tick
  BY <1>1, PolicyBounds, PolicyNull DEF Tick, Times, Leased
<1>2. ASSUME NEW e \in Documents, Publish(e)
      PROVE  Leased(d, t)'
  BY <1>2, PolicyBounds, PolicyNull DEF Publish, Times, Leased
<1>3. CASE UNCHANGED <<clock, site, served>>
  BY <1>3 DEF Leased
<1> QED
  BY <1>1, <1>2, <1>3, OnlyTimeMoves

-----------------------------------------------------------------------------
(* The cache and the request in flight.                                    *)

(* A lease that begins now ends while the site's document is in force.     *)
LEMMA LeasesBegin ==
  ASSUME Times, NEW ttl \in 0..MaxTtl
  PROVE  /\ clock + ttl \in Nat /\ Leased(site, clock + ttl)
         /\ Lease(ttl) \in Nat /\ Leased(site, Lease(ttl))
  BY PolicyBounds, PolicyNull DEF Times, Leased, Lease

LEMMA CacheStep ==
  ASSUME Times, CacheHolds, [Next]_vars
  PROVE  CacheHolds'
<1>1. CASE UNCHANGED cache
  BY <1>1, LeasesLast DEF CacheHolds
<1>2. CASE cache' = Null
  BY <1>2 DEF CacheHolds
<1>3. ASSUME NEW op, NEW q, NEW id, ResolveClient(op, q, id)
      PROVE  CacheHolds'
  <2>1. CASE ResolveReviewed(op, q, id)
    BY <1>1, <2>1 DEF ResolveReviewed
  <2>2. CASE Unresolved(op, id)
    BY <1>1, <2>2 DEF Unresolved
  <2>3. CASE /\ ValidDocument(id, site)
             /\ \E ttl \in 0..MaxTtl : cache' = Keep(site, ttl)
    <3> PICK ttl \in 0..MaxTtl : cache' = Keep(site, ttl)
      BY <2>3
    <3>1. CASE ttl = 0
      BY <3>1, <1>1 DEF Keep
    <3>2. CASE ttl # 0
      <4> PICK t \in Nat : t = clock + ttl /\ Leased(site, t)
        BY LeasesBegin
      <4> PICK d \in Documents : d = site
        BY DEF Times
      <4>1. cache' = [doc |-> d, until |-> t]
        BY <3>2 DEF Keep
      <4>2. ValidDocument(d.id, d)
        BY <2>3 DEF ValidDocument
      <4>3. Leased(d, t)'
        BY LeasesLast
      <4>4. cache'.doc = d /\ cache'.until = t
        BY <4>1
      <4> QED
        BY <4>2, <4>3, <4>4 DEF CacheHolds
    <3> QED
      BY <3>1, <3>2
  <2> QED
    BY <1>1, <1>3, <2>1, <2>2, <2>3 DEF ResolveClient, ResolveMetadata
<1>4. [Next]_vars => \/ UNCHANGED cache \/ cache' = Null
                     \/ \E op, q, id : ResolveClient(op, q, id)
  BY DEF Next, vars, world, Tick, Publish, Deploy, StartAuthorize, StartStored,
         Authorize, Approve, Exchange, Rotate
<1> QED
  BY <1>1, <1>2, <1>3, <1>4

(* What resolve_client hands over, while config, clock and site stay.      *)
LEMMA ResolvesClient ==
  ASSUME Times, CacheHolds, [Next]_vars,
         NEW op, NEW q, NEW id, ResolveClient(op, q, id), ~Idle'
  PROVE  /\ config # Null /\ UNCHANGED <<config, grant>>
         /\ req'.op = op /\ req'.q = q
         /\ IsResolved(id, req'.reg)
         /\ IsResolved(id, req.reg)'
<1>1. config # Null /\ UNCHANGED <<clock, config, site, served, grant>>
  BY DEF ResolveClient
<1>2. ASSUME NEW out, Ends(op, out)
      PROVE  FALSE
  BY <1>2 DEF Ends, NoReq, Idle
<1>3. ASSUME NEW reg, Begins(op, q, reg)
      PROVE  req'.op = op /\ req'.q = q /\ req'.reg = reg
  BY <1>3 DEF Begins
<1>4. CASE ResolveReviewed(op, q, id)
  BY <1>1, <1>3, <1>4 DEF ResolveReviewed, IsResolved
<1>5. CASE Unresolved(op, id)
  BY <1>2, <1>5 DEF Unresolved
<1>6. ASSUME NEW d \in Documents, NEW t \in Nat, ValidDocument(id, d), Leased(d, t),
             id \notin StaticIds(config), config.cimd # Null,
             Projects(op, q, d, t)
      PROVE  /\ req'.op = op /\ req'.q = q
             /\ IsResolved(id, req'.reg)
             /\ IsResolved(id, req.reg)'
  <2> DEFINE reg == ProjectCimd(Registry(config), config.cimd, d, t)
  <2>1. Begins(op, q, reg)
    BY <1>2, <1>6 DEF Projects
  <2>2. req'.op = op /\ req'.q = q /\ req'.reg = reg
    BY <1>3, <2>1
  <2>3. IsProjection(id, req'.reg, d, t)
    BY <1>6, <2>2 DEF IsProjection
  <2>4. Leased(d, t)'
    BY <1>6, LeasesLast
  <2>5. IsProjection(id, req.reg, d, t)'
    BY <1>1, <1>6, <2>2, <2>4 DEF IsProjection
  <2> QED
    BY <1>1, <1>6, <2>2, <2>3, <2>5 DEF IsResolved
<1>7. CASE ResolveMetadata(op, q, id)
  <2>1. id \notin StaticIds(config) /\ config.cimd # Null
    BY <1>7 DEF ResolveMetadata
  <2>2. CASE Cached(id) /\ Projects(op, q, cache.doc, cache.until)
    <3>1. /\ cache.doc \in Documents /\ cache.until \in Nat
          /\ ValidDocument(id, cache.doc) /\ Leased(cache.doc, cache.until)
      BY <2>2 DEF Cached, CacheHolds
    <3> QED
      BY <1>1, <1>6, <2>1, <2>2, <3>1
  <2>3. ASSUME NEW ttl \in 0..MaxTtl, ValidDocument(id, site),
               Projects(op, q, site, Lease(ttl))
        PROVE  /\ req'.op = op /\ req'.q = q
               /\ IsResolved(id, req'.reg)
               /\ IsResolved(id, req.reg)'
    <3>1. site \in Documents /\ Lease(ttl) \in Nat /\ Leased(site, Lease(ttl))
      BY LeasesBegin DEF Times
    <3> QED
      BY <1>6, <2>1, <2>3, <3>1
  <2> QED
    BY <1>1, <1>7, <2>2, <2>3 DEF ResolveMetadata
<1> QED
  BY <1>1, <1>4, <1>5, <1>7 DEF ResolveClient

(* Where a step leads: time passes, the process restarts, a client is      *)
(* resolved, or the request in flight is answered.                         *)
LEMMA StepKinds ==
  ASSUME [Next]_vars
  PROVE  \/ UNCHANGED <<config, grant, req>>
         \/ \E c \in Configs : Deploy(c)
         \/ \E q \in Requests : ResolveClient("authorize", q, q.client)
         \/ \E op \in StoredOps : StartStored(op)
         \/ Authorize \/ Approve \/ Exchange \/ Rotate
  BY DEF Next, vars, Tick, Publish, StartAuthorize, StoredOps

(* An operation on a stored grant has one.                                 *)
LEMMA StoredNeedsGrant ==
  ASSUME NEW op, StartStored(op)
  PROVE  grant # Null
  BY DEF StartStored, Operations, Stage

LEMMA AnswersEnd ==
  ASSUME Authorize \/ Approve \/ Exchange \/ Rotate
  PROVE  Idle'
  BY DEF Authorize, Approve, Exchange, Rotate, Ends, Idle, NoReq

LEMMA ConfigStep ==
  ASSUME ConfigHolds, [Next]_vars
  PROVE  ConfigHolds'
  BY StepKinds DEF ConfigHolds, Deploy, StartStored, ResolveClient,
     Authorize, Approve, Exchange, Rotate, world

LEMMA InFlightStep ==
  ASSUME Times, CacheHolds, ConfigHolds, InFlight, [Next]_vars
  PROVE  InFlight'
<1> SUFFICES ASSUME ~Idle'
             PROVE  /\ config' \in Configs
                    /\ \/ /\ req'.op = "authorize" /\ req'.q \in Requests
                          /\ IsResolved(req.q.client, req.reg)'
                       \/ /\ req'.op \in StoredOps /\ grant' # Null
                          /\ IsResolved(grant.row.client, req.reg)'
  BY DEF InFlight
<1>1. CASE UNCHANGED <<config, grant, req>>
  <2>1. ~Idle
    BY <1>1 DEF Idle
  <2>2. ASSUME NEW id, IsResolved(id, req.reg)
        PROVE  IsResolved(id, req.reg)'
    <3>1. CASE id \in StaticIds(config) /\ req.reg = Registry(config)
      BY <1>1, <3>1 DEF IsResolved
    <3>2. ASSUME NEW d \in Documents, NEW t \in Nat,
                 IsProjection(id, req.reg, d, t)
          PROVE  IsProjection(id, req.reg, d, t)'
      BY <1>1, <3>2, LeasesLast DEF IsProjection
    <3> QED
      BY <1>1, <2>2, <3>1, <3>2 DEF IsResolved
  <2>3. CASE /\ req.op = "authorize" /\ req.q \in Requests
             /\ IsResolved(req.q.client, req.reg)
    <3> PICK id : id = req.q.client
      OBVIOUS
    <3>1. IsResolved(id, req.reg)'
      BY <2>2, <2>3
    <3>2. id = req'.q.client
      BY <1>1
    <3>3. IsResolved(req.q.client, req.reg)'
      BY <3>1, <3>2
    <3> QED
      BY <1>1, <2>1, <2>3, <3>3 DEF InFlight
  <2>4. CASE /\ req.op \in StoredOps /\ grant # Null
             /\ IsResolved(grant.row.client, req.reg)
    <3> PICK id : id = grant.row.client
      OBVIOUS
    <3>1. IsResolved(id, req.reg)'
      BY <2>2, <2>4
    <3>2. id = grant'.row.client
      BY <1>1
    <3>3. IsResolved(grant.row.client, req.reg)'
      BY <3>1, <3>2
    <3> QED
      BY <1>1, <2>1, <2>4, <3>3 DEF InFlight
  <2> QED
    BY <2>1, <2>3, <2>4 DEF InFlight
<1>2. ASSUME NEW c \in Configs, Deploy(c)
      PROVE  FALSE
  BY <1>2 DEF Deploy, Idle, NoReq
<1>3. ASSUME NEW q \in Requests, ResolveClient("authorize", q, q.client)
      PROVE  /\ config' \in Configs
             /\ req'.op = "authorize" /\ req'.q \in Requests
             /\ IsResolved(req.q.client, req.reg)'
  <2> PICK id : id = q.client
    OBVIOUS
  <2>1. /\ config # Null /\ UNCHANGED <<config, grant>>
        /\ req'.op = "authorize" /\ req'.q = q
        /\ IsResolved(id, req.reg)'
    BY <1>3, ResolvesClient
  <2>2. id = req'.q.client
    BY <2>1
  <2>3. IsResolved(req.q.client, req.reg)'
    BY <2>1, <2>2
  <2> QED
    BY <2>1, <2>3 DEF ConfigHolds
<1>4. ASSUME NEW op \in StoredOps, StartStored(op)
      PROVE  /\ config' \in Configs
             /\ req'.op \in StoredOps /\ grant' # Null
             /\ IsResolved(grant.row.client, req.reg)'
  <2> PICK id : id = grant.row.client
    OBVIOUS
  <2>1. ResolveClient(op, Null, id)
    BY <1>4 DEF StartStored
  <2>2. /\ config # Null /\ UNCHANGED <<config, grant>>
        /\ req'.op = op
        /\ IsResolved(id, req.reg)'
    BY <2>1, ResolvesClient
  <2>3. id = grant'.row.client
    BY <2>2
  <2>4. IsResolved(grant.row.client, req.reg)'
    BY <2>2, <2>3
  <2>5. grant' # Null
    BY <1>4, <2>2, StoredNeedsGrant
  <2> QED
    BY <2>2, <2>4, <2>5 DEF ConfigHolds
<1> QED
  BY <1>1, <1>2, <1>3, <1>4, StepKinds, AnswersEnd

-----------------------------------------------------------------------------
(* The grant.                                                              *)

(* What validate_pending accepts is accepted again as a stored row.        *)
LEMMA PendingIsAccepted ==
  ASSUME NEW reg, NEW q \in Requests, AcceptsPending(reg, q)
  PROVE  /\ AcceptsStored(reg, PendingGrant(reg, q))
         /\ BindingHolds(reg, q.client, PendingGrant(reg, q).binding)
<1> PICK g : g = PendingGrant(reg, q)
  OBVIOUS
<1>1. /\ g.client = q.client /\ g.redirect = q.redirect
      /\ g.scopes = Range(q.scopes) /\ g.resource = ResourceOf(reg, q)
      /\ g.binding = IF IsDynamic(reg, q.client) THEN reg.dynamic.binding ELSE Null
  BY DEF PendingGrant
<1>2. TrustedRedirect(reg, g.client, g.redirect)
  BY <1>1 DEF AcceptsPending
<1>3. q.scopes \in Seq(STRING) /\ q.scopes # <<>>
  BY PolicyTypes DEF AcceptsPending
<1>4. q.scopes[1] \in Range(q.scopes)
  BY <1>3 DEF Range
<1>5. g.scopes # {}
  BY <1>1, <1>4
<1>6. g.scopes \subseteq reg.clients[g.client].scopes
  BY <1>1 DEF AcceptsPending
<1>7. ResourceAllowed(reg, g.client, g.scopes, g.resource)
  BY <1>1 DEF AcceptsPending
<1>8. AcceptsStored(reg, g)
  BY <1>2, <1>5, <1>6, <1>7 DEF AcceptsStored
<1>9. BindingHolds(reg, q.client, g.binding)
  BY <1>1, <1>2 DEF BindingHolds, TrustedRedirect
<1> QED
  BY <1>8, <1>9

(* authorize_valid stores what is well formed.                              *)
LEMMA AuthorizeGrants ==
  ASSUME InFlight, Authorize, req'.out = "ok"
  PROVE  /\ WellFormed(grant') /\ grant'.row.client = req.q.client
         /\ config \in Configs /\ IsResolved(req.q.client, req.reg)
         /\ BindingHolds(req.reg, req.q.client, grant'.row.binding)
         /\ AcceptsStored(req.reg, grant'.row) /\ Fresh(req.reg, clock)
<1> PICK q : q = req.q
  OBVIOUS
<1> PICK reg : reg = req.reg
  OBVIOUS
<1> PICK row : row = PendingGrant(reg, q)
  OBVIOUS
<1>1. q \in Requests /\ config \in Configs /\ IsResolved(q.client, reg)
  BY DEF InFlight, Authorize, StoredOps
<1>2. req'.out = Verdict(AcceptsPending(req.reg, req.q))
  BY DEF Authorize, Ends, NoReq
<1>3. Fresh(reg, clock) /\ AcceptsPending(reg, q)
  BY <1>2 DEF Verdict
<1>4. AcceptsStored(reg, row) /\ BindingHolds(reg, q.client, row.binding)
  BY <1>1, <1>3, PendingIsAccepted
<1>5. PICK g : /\ grant' = g
               /\ g = [stage |-> "pending", row |-> row, since |-> config,
                       doc |-> IF row.binding = Null THEN Null ELSE reg.dynamic.doc,
                       silent |-> q.prompt # "consent" /\ PreAuthorizes(reg, row)]
  BY <1>2 DEF Authorize
<1>6. /\ DOMAIN g = {"stage", "row", "since", "doc", "silent"}
      /\ g.row = row /\ g.since = config
      /\ g.doc = IF row.binding = Null THEN Null ELSE reg.dynamic.doc
  BY <1>5
<1>7. g.silent => PreAuthorizes(reg, row)
  BY <1>5
<1>8. row.client = q.client /\ row.redirect \in Uri
  BY <1>1, PolicyTypes DEF PendingGrant
<1>9. CASE q.client \in StaticIds(config) /\ reg = Registry(config)
  <2>1. ~IsDynamic(reg, q.client)
    BY <1>9, RegistryFacts DEF IsDynamic
  <2>2. row.binding = Null
    BY <1>4, <2>1 DEF BindingHolds
  <2>3. ReviewedGrant(g)
    BY <1>4, <1>6, <1>7, <1>8, <1>9, <2>2 DEF ReviewedGrant
  <2> QED
    BY <1>1, <1>3, <1>4, <1>5, <1>6, <1>8, <2>3 DEF WellFormed
<1>10. ASSUME q.client \notin StaticIds(config), config.cimd # Null,
              NEW d \in Documents, NEW t \in Nat, IsProjection(q.client, reg, d, t)
       PROVE  MetadataGrant(g)
  <2>1. ValidDocument(q.client, d) /\ d.id = q.client
    BY <1>10 DEF IsProjection, ValidDocument
  <2>2. reg = ProjectCimd(Registry(config), config.cimd, d, t)
    BY <1>10 DEF IsProjection
  <2>3. /\ reg.dynamic # Null /\ IsDynamic(reg, q.client)
        /\ reg.dynamic.binding = SecurityBinding(d, config.cimd.allow_refresh)
        /\ reg.dynamic.binding # Null /\ reg.dynamic.doc = d
    BY <1>1, <1>10, <2>1, <2>2, ProjectFacts
  <2>4. row.binding = SecurityBinding(d, config.cimd.allow_refresh)
        /\ row.binding # Null
    BY <1>4, <2>3 DEF BindingHolds
  <2>5. g.doc = d
    BY <1>6, <2>3, <2>4
  <2>6. ~PreAuthorizes(reg, row)
    BY <2>3 DEF PreAuthorizes
  <2>7. AcceptsStored(ProjectCimd(Registry(config), config.cimd, d, 0), row)
    BY <1>1, <1>4, <1>8, <1>10, <2>1, <2>2, SameAcceptance
  <2>8. ~g.silent
    BY <1>7, <2>6
  <2> QED
    BY <1>6, <1>8, <1>10, <2>1, <2>4, <2>5, <2>7, <2>8 DEF MetadataGrant
<1>11. ReviewedGrant(g) \/ MetadataGrant(g) => WellFormed(g)
  BY <1>1, <1>6, <1>8 DEF WellFormed
<1> QED
  BY <1>1, <1>3, <1>4, <1>5, <1>6, <1>8, <1>9, <1>10, <1>11 DEF IsResolved

(* Approval and exchange change nothing but the stage.                     *)
LEMMA OnlyTheStage ==
  ASSUME NEW g, WellFormed(g), NEW x, NEW h, h = [g EXCEPT !.stage = x]
  PROVE  /\ WellFormed(h) /\ h.row = g.row /\ h.doc = g.doc
         /\ h.since = g.since /\ h.silent = g.silent
<1>1. /\ DOMAIN h = DOMAIN g /\ h.row = g.row /\ h.doc = g.doc
      /\ h.since = g.since /\ h.silent = g.silent
  BY DEF WellFormed
<1>2. ReviewedGrant(h) <=> ReviewedGrant(g)
  BY <1>1 DEF ReviewedGrant
<1>3. MetadataGrant(h) <=> MetadataGrant(g)
  BY <1>1 DEF MetadataGrant
<1> QED
  BY <1>1, <1>2, <1>3 DEF WellFormed

(* The grant that a stored operation is about stays what it is.            *)
LEMMA StoredKeeps ==
  ASSUME InFlight, GrantHolds, Approve \/ Exchange \/ Rotate
  PROVE  /\ grant # Null /\ WellFormed(grant) /\ WellFormed(grant')
         /\ grant'.row = grant.row /\ grant'.doc = grant.doc
         /\ grant'.since = grant.since
         /\ config \in Configs /\ IsResolved(grant.row.client, req.reg)
<1>1. grant # Null /\ config \in Configs /\ IsResolved(grant.row.client, req.reg)
  BY DEF InFlight, Approve, Exchange, Rotate
<1>2. WellFormed(grant)
  BY <1>1 DEF GrantHolds
<1>3. grant' = grant \/ \E x : grant' = [grant EXCEPT !.stage = x]
  BY DEF Approve, Exchange, Rotate
<1>4. CASE grant' = grant
  BY <1>1, <1>2, <1>4
<1>5. ASSUME NEW x, grant' = [grant EXCEPT !.stage = x]
      PROVE  /\ WellFormed(grant') /\ grant'.row = grant.row
             /\ grant'.doc = grant.doc /\ grant'.since = grant.since
  BY <1>2, <1>5, OnlyTheStage
<1> QED
  BY <1>1, <1>2, <1>3, <1>4, <1>5

LEMMA GrantStep ==
  ASSUME InFlight, GrantHolds, [Next]_vars
  PROVE  GrantHolds'
<1>1. CASE UNCHANGED grant
  BY <1>1 DEF GrantHolds, WellFormed, ReviewedGrant, MetadataGrant
<1>2. CASE Authorize
  <2>1. CASE req'.out = "ok"
    BY <1>2, <2>1, AuthorizeGrants DEF GrantHolds
  <2>2. CASE req'.out # "ok"
    BY <1>1, <1>2, <2>2 DEF Authorize, Ends, NoReq
  <2> QED
    BY <2>1, <2>2
<1>3. CASE Approve \/ Exchange \/ Rotate
  BY <1>3, StoredKeeps DEF GrantHolds
<1> QED
  BY <1>1, <1>2, <1>3, StepKinds DEF Deploy, StartStored, ResolveClient

LEMMA GrantInvInit == Init => GrantInv
  BY TimesInit DEF Init, GrantInv, ConfigHolds, CacheHolds, InFlight, Idle, NoReq,
     GrantHolds

LEMMA GrantInvStep == GrantInv /\ [Next]_vars => GrantInv'
  BY TimesStep, ConfigStep, CacheStep, InFlightStep, GrantStep DEF GrantInv

LEMMA GrantInvHolds == Spec => []GrantInv
  BY GrantInvInit, GrantInvStep, PTL DEF Spec

-----------------------------------------------------------------------------
(* What a success means.                                                   *)

LEMMA AnswerSteps ==
  ASSUME [Next]_vars, NEW out \in {"ok", "refused"}, Answered(out)
  PROVE  Authorize \/ Approve \/ Exchange \/ Rotate
<1>1. ~Idle /\ req'.reg = Null /\ req'.out = out
  BY DEF Answered
<1>2. ~UNCHANGED req
  BY <1>1 DEF Idle
<1>3. ASSUME NEW c \in Configs, Deploy(c)
      PROVE  FALSE
  BY <1>1, <1>3 DEF Deploy, NoReq
<1>4. ASSUME NEW op, NEW q, NEW id, ResolveClient(op, q, id)
      PROVE  FALSE
  BY <1>1, <1>4 DEF ResolveClient
<1> QED
  BY <1>2, <1>3, <1>4, StepKinds DEF StartStored

(* Success: the grant is well formed, and what was resolved for its client *)
(* is fresh, holds its binding and permits its scopes and resource.        *)
Succeeds(g) ==
  /\ WellFormed(g) /\ config \in Configs
  /\ IsResolved(g.row.client, req.reg) /\ Fresh(req.reg, clock)
  /\ BindingHolds(req.reg, g.row.client, g.row.binding)
  /\ PermitsRefresh(req.reg, g.row)

LEMMA SuccessMeans ==
  ASSUME GrantInv, [Next]_vars, Answered("ok")
  PROVE  Succeeds(grant')
<1>1. req'.out = "ok"
  BY DEF Answered
<1>2. CASE Authorize
  BY <1>1, <1>2, AuthorizeGrants, AcceptedPermits DEF GrantInv, Succeeds
<1>3. CASE Approve \/ Exchange \/ Rotate
  <2>1. /\ WellFormed(grant') /\ grant'.row = grant.row
        /\ config \in Configs /\ IsResolved(grant.row.client, req.reg)
    BY <1>3, StoredKeeps DEF GrantInv
  <2>2. CASE Approve \/ Exchange
    <3>1. Verdict(Revalidates(grant.row)) = "ok"
      BY <1>1, <2>2 DEF Approve, Exchange, Ends, NoReq
    <3>2. /\ Fresh(req.reg, clock) /\ AcceptsStored(req.reg, grant.row)
          /\ BindingHolds(req.reg, grant.row.client, grant.row.binding)
      BY <3>1 DEF Verdict, Revalidates
    <3> QED
      BY <2>1, <3>2, AcceptedPermits DEF Succeeds
  <2>3. CASE Rotate
    <3>1. /\ PermitsRefresh(req.reg, grant.row) /\ Fresh(req.reg, clock)
          /\ BindingHolds(req.reg, grant.row.client, grant.row.binding)
      BY <1>1, <2>3 DEF Rotate, Ends, NoReq, Verdict
    <3> QED
      BY <2>1, <3>1 DEF Succeeds
  <2> QED
    BY <1>3, <2>2, <2>3
<1> QED
  BY <1>2, <1>3, AnswerSteps

(* A success is the configuration's, or a document's that is in force.     *)
LEMMA SuccessKinds ==
  ASSUME Times, NEW g, Succeeds(g)
  PROVE  \/ /\ g.row.client \in StaticIds(config) /\ ReviewedGrant(g)
            /\ req.reg = Registry(config)
         \/ /\ g.row.client \notin StaticIds(config) /\ MetadataGrant(g)
            /\ config.cimd # Null
            /\ \E d \in Documents, t \in Nat :
                 /\ IsProjection(g.row.client, req.reg, d, t) /\ InForce(d)
                 /\ SecurityBinding(d, config.cimd.allow_refresh)
                      = SecurityBinding(g.doc, g.since.cimd.allow_refresh)
<1>1. MetadataGrant(g) => g.row.binding # Null
  BY PolicyTypes, PolicyNull DEF MetadataGrant, Bindings, Succeeds, WellFormed
<1>2. ReviewedGrant(g) \/ MetadataGrant(g)
  BY DEF Succeeds, WellFormed
<1>3. CASE g.row.client \in StaticIds(config) /\ req.reg = Registry(config)
  <2>1. ~IsDynamic(req.reg, g.row.client)
    BY <1>3, RegistryFacts DEF IsDynamic
  <2>2. g.row.binding = Null
    BY <2>1 DEF Succeeds, BindingHolds
  <2> QED
    BY <1>1, <1>2, <1>3, <2>2
<1>4. ASSUME g.row.client \notin StaticIds(config), config.cimd # Null,
             NEW d \in Documents, NEW t \in Nat,
             IsProjection(g.row.client, req.reg, d, t)
      PROVE  /\ MetadataGrant(g) /\ InForce(d)
             /\ SecurityBinding(d, config.cimd.allow_refresh)
                  = SecurityBinding(g.doc, g.since.cimd.allow_refresh)
  <2> PICK reg : reg = req.reg
    OBVIOUS
  <2>1. /\ reg = ProjectCimd(Registry(config), config.cimd, d, t)
        /\ d.id = g.row.client /\ Leased(d, t)
    BY <1>4 DEF IsProjection, ValidDocument
  <2>2. config \in Configs
    BY DEF Succeeds
  <2>3. /\ reg.dynamic # Null /\ IsDynamic(reg, d.id)
        /\ reg.dynamic.binding = SecurityBinding(d, config.cimd.allow_refresh)
        /\ reg.dynamic.binding # Null /\ reg.dynamic.until = t
    BY <1>4, <2>1, <2>2, ProjectFacts
  <2>4. g.row.binding = SecurityBinding(d, config.cimd.allow_refresh)
        /\ g.row.binding # Null
    BY <2>1, <2>3 DEF Succeeds, BindingHolds
  <2>5. MetadataGrant(g)
    BY <1>2, <2>4 DEF ReviewedGrant
  <2>6. clock < t
    BY <2>3 DEF Succeeds, Fresh
  <2>7. InForce(d)
    BY <2>1, <2>6 DEF Leased, InForce, Times
  <2> QED
    BY <2>4, <2>5, <2>7 DEF MetadataGrant
<1>5. IsResolved(g.row.client, req.reg)
  BY DEF Succeeds
<1> QED
  BY <1>3, <1>4, <1>5 DEF IsResolved

-----------------------------------------------------------------------------
(* The properties.                                                         *)

(* approve_pre_authorized succeeds only for a choice recorded when the     *)
(* client asked and still permitted by the registry.                       *)
LEMMA SilentMeans ==
  ASSUME GrantInv, [Next]_vars, Answered("ok"), req.op = "approve_silently"
  PROVE  /\ grant # Null /\ WellFormed(grant)
         /\ grant.silent /\ PreAuthorizes(req.reg, grant.row)
         /\ IsResolved(grant.row.client, req.reg) /\ config \in Configs
<1>1. Approve
  BY AnswerSteps DEF Authorize, Exchange, Rotate
<1>2. grant.silent /\ PreAuthorizes(req.reg, grant.row)
  BY <1>1 DEF Approve, Ends, NoReq, Answered
<1> QED
  BY <1>1, <1>2, StoredKeeps DEF GrantInv

(* An approval, exchange or renewal by validate_binding, and an            *)
(* authorization by itself, keep reviewed clients and metadata documents   *)
(* apart; pre_authorizes is asked with the registry of now and was asked   *)
(* with the one of then.                                                   *)
THEOREM TrustIsNotInherited == Spec => TrustNeverChangesKind
<1>1. ASSUME GrantInv, [Next]_vars, Answered("ok")
      PROVE  grant'.doc = Null <=> grant'.row.client \in StaticIds(config)
  <2> PICK g : g = grant'
    OBVIOUS
  <2>1. Succeeds(g)
    BY <1>1, SuccessMeans
  <2>2. \/ g.row.client \in StaticIds(config) /\ ReviewedGrant(g)
        \/ g.row.client \notin StaticIds(config) /\ MetadataGrant(g)
    BY <1>1, <2>1, SuccessKinds DEF GrantInv
  <2> QED
    BY <2>2, PolicyNull DEF ReviewedGrant, MetadataGrant
<1>2. ASSUME GrantInv, [Next]_vars, Answered("ok"), req.op = "approve_silently"
      PROVE  LET c == Declared(config, grant.row.client)
                 before == Declared(grant.since, grant.row.client)
             IN /\ c.flow = "google_preauthorized"
                /\ before.flow = "google_preauthorized"
                /\ \E k \in c.redirects : /\ k.kind = "app_claimed_https"
                                          /\ k.uri = grant.row.redirect
  <2> PICK id : id = grant.row.client
    OBVIOUS
  <2>1. /\ grant.silent /\ PreAuthorizes(req.reg, grant.row)
        /\ WellFormed(grant) /\ IsResolved(id, req.reg) /\ config \in Configs
    BY <1>2, SilentMeans
  <2>2. ReviewedGrant(grant)
    BY <2>1 DEF WellFormed, MetadataGrant
  <2>3. /\ id \in StaticIds(grant.since)
        /\ PreAuthorizes(Registry(grant.since), grant.row)
    BY <2>1, <2>2 DEF ReviewedGrant
  <2>4. Declared(grant.since, id).flow = "google_preauthorized"
    BY <2>3, RegistryFacts DEF PreAuthorizes
  <2>5. id \in StaticIds(config) /\ req.reg = Registry(config)
    <3>1. req.reg.dynamic = Null
      BY <2>1 DEF PreAuthorizes
    <3>2. ASSUME NEW d \in Documents, NEW t \in Nat, config.cimd # Null,
                 IsProjection(id, req.reg, d, t)
          PROVE  FALSE
      BY <2>1, <3>1, <3>2, ProjectFacts DEF IsProjection
    <3> QED
      BY <2>1, <3>2 DEF IsResolved
  <2> DEFINE c == Declared(config, id)
             k == [kind |-> "app_claimed_https", uri |-> grant.row.redirect]
  <2>6. req.reg.clients[id] = c
    BY <2>5, RegistryFacts
  <2>7. c.flow = "google_preauthorized" /\ k \in c.redirects
    BY <2>1, <2>6 DEF PreAuthorizes
  <2>8. k.kind = "app_claimed_https" /\ k.uri = grant.row.redirect
    OBVIOUS
  <2> HIDE DEF k, c
  <2>9. \E x \in c.redirects : /\ x.kind = "app_claimed_https"
                               /\ x.uri = grant.row.redirect
    BY <2>7, <2>8
  <2> QED
    BY <2>4, <2>7, <2>9 DEF c
<1>3. GrantInv /\ [Next]_vars =>
        [Answered("ok") =>
           /\ grant'.doc = Null <=> grant'.row.client \in StaticIds(config)
           /\ req.op = "approve_silently" =>
                LET c == Declared(config, grant.row.client)
                    before == Declared(grant.since, grant.row.client)
                IN /\ c.flow = "google_preauthorized"
                   /\ before.flow = "google_preauthorized"
                   /\ \E k \in c.redirects : /\ k.kind = "app_claimed_https"
                                             /\ k.uri = grant.row.redirect
        ]_vars
  BY <1>1, <1>2
<1> QED
  BY <1>3, GrantInvHolds, PTL DEF Spec, TrustNeverChangesKind

(* permits_refresh, revalidate and validate_pending are asked with the     *)
(* registry of the running configuration, and a document's offline access  *)
(* is part of the binding they are compared under.                         *)
THEOREM ConfigurationIsTheLimit == Spec => NothingBeyondConfiguration
<1>1. ASSUME GrantInv, [Next]_vars, Answered("ok")
      PROVE  LET g == grant'.row
                 c == Declared(config, g.client)
             IN /\ g.scopes \subseteq AdvertisedScopes(config)
                /\ IF g.client \in StaticIds(config)
                   THEN /\ g.scopes \subseteq c.scopes
                        /\ \/ g.resource \in c.resources
                           \/ g.resource = UserInfo /\ "openid" \in g.scopes
                   ELSE /\ g.scopes \subseteq config.cimd.scopes
                        /\ g.resource \in config.cimd.resources
                        /\ "offline_access" \in g.scopes =>
                             config.cimd.allow_refresh /\ RefreshAllowed(grant'.doc)
  <2> PICK gr : gr = grant'
    OBVIOUS
  <2> PICK g : g = gr.row
    OBVIOUS
  <2>1. Succeeds(gr)
    BY <1>1, SuccessMeans
  <2>2. /\ g.scopes \subseteq req.reg.clients[g.client].scopes
        /\ ResourceAllowed(req.reg, g.client, g.scopes, g.resource)
    BY <2>1 DEF Succeeds, PermitsRefresh
  <2>3. CASE g.client \in StaticIds(config) /\ req.reg = Registry(config)
    <3> PICK c : c = Declared(config, g.client)
      OBVIOUS
    <3>1. req.reg.clients[g.client] = c /\ c \in Range(config.clients)
      BY <2>3, RegistryFacts
    <3>2. g.scopes \subseteq c.scopes
      BY <2>2, <3>1
    <3>3. g.scopes \subseteq AdvertisedScopes(config)
      BY <3>1, <3>2 DEF AdvertisedScopes
    <3>4. \/ g.resource \in c.resources
          \/ g.resource = UserInfo /\ "openid" \in g.scopes
      BY <2>2, <3>1 DEF ResourceAllowed
    <3> QED
      BY <2>3, <3>2, <3>3, <3>4
  <2>4. ASSUME g.client \notin StaticIds(config), config.cimd # Null,
               NEW d \in Documents, NEW t \in Nat,
               IsProjection(g.client, req.reg, d, t),
               SecurityBinding(d, config.cimd.allow_refresh)
                 = SecurityBinding(gr.doc, gr.since.cimd.allow_refresh)
        PROVE  /\ g.scopes \subseteq AdvertisedScopes(config)
               /\ g.scopes \subseteq config.cimd.scopes
               /\ g.resource \in config.cimd.resources
               /\ "offline_access" \in g.scopes =>
                    config.cimd.allow_refresh /\ RefreshAllowed(gr.doc)
    <3> PICK p : p = config.cimd
      OBVIOUS
    <3>1. /\ req.reg = ProjectCimd(Registry(config), config.cimd, d, t)
          /\ d.id = g.client /\ config \in Configs
      BY <2>1, <2>4 DEF IsProjection, ValidDocument, Succeeds
    <3>2. /\ req.reg.clients[g.client] = ProjectedClient(p, d)
          /\ IsDynamic(req.reg, g.client)
      BY <2>4, <3>1, ProjectFacts
    <3>3. /\ ProjectedClient(p, d).scopes = ProjectedScopes(p, d)
          /\ ProjectedClient(p, d).resources = p.resources
      BY DEF ProjectedClient
    <3>4. g.resource \in p.resources
      BY <2>2, <3>2, <3>3 DEF ResourceAllowed
    <3>5. g.scopes \subseteq ProjectedScopes(p, d)
      BY <2>2, <3>2, <3>3
    <3>6. g.scopes \subseteq p.scopes
      BY <3>5 DEF ProjectedScopes
    <3>7. "offline_access" \in g.scopes => p.allow_refresh /\ RefreshAllowed(d)
      BY <3>5 DEF ProjectedScopes
    <3>8. g.scopes \subseteq AdvertisedScopes(config)
      <4>1. g.scopes \subseteq IF p.allow_refresh THEN p.scopes
                               ELSE p.scopes \ {"offline_access"}
        BY <3>6, <3>7
      <4> QED
        BY <2>4, <4>1 DEF AdvertisedScopes
    <3>9. (RefreshAllowed(d) /\ p.allow_refresh)
            <=> (RefreshAllowed(gr.doc) /\ gr.since.cimd.allow_refresh)
      BY <2>4, BindingsDetermine
    <3> QED
      BY <3>4, <3>6, <3>7, <3>8, <3>9
  <2> QED
    BY <1>1, <2>1, <2>3, <2>4, SuccessKinds DEF GrantInv
<1>2. GrantInv /\ [Next]_vars =>
        [Answered("ok") =>
           LET g == grant'.row
               c == Declared(config, g.client)
           IN /\ g.scopes \subseteq AdvertisedScopes(config)
              /\ IF g.client \in StaticIds(config)
                 THEN /\ g.scopes \subseteq c.scopes
                      /\ \/ g.resource \in c.resources
                         \/ g.resource = UserInfo /\ "openid" \in g.scopes
                 ELSE /\ g.scopes \subseteq config.cimd.scopes
                      /\ g.resource \in config.cimd.resources
                      /\ "offline_access" \in g.scopes =>
                           config.cimd.allow_refresh /\ RefreshAllowed(grant'.doc)
        ]_vars
  BY <1>1
<1> QED
  BY <1>2, GrantInvHolds, PTL DEF Spec, NothingBeyondConfiguration

(* redirect_matches for a redirect of a document: the same URI, or a       *)
(* loopback one that differs in the port only.                             *)
LEMMA DocumentRedirects ==
  ASSUME NEW u \in Uri, NEW to \in Uri, SafeDocumentRedirect(u),
         RedirectMatches(DocumentRedirect(u), to)
  PROVE  to = u \/ SameButPort(u, to)
<1>1. DocumentRedirect(u).uri = u
  BY DEF DocumentRedirect
<1>2. CASE u = to
  BY <1>2
<1>3. CASE /\ DocumentRedirect(u).kind = "native_loopback"
           /\ IsLoopback(u) /\ IsLoopback(to)
           /\ LoopbackParts(u) = LoopbackParts(to)
  <2>1. u.scheme = "http" /\ to.scheme = "http"
    BY <1>3 DEF IsLoopback
  <2>2. u.host = to.host /\ u.rest = to.rest
    BY <1>3 DEF LoopbackParts
  <2>3. u.clean /\ to.clean
    BY DEF SafeDocumentRedirect, RedirectMatches, SafeRedirect
  <2>4. u.clean = to.clean
    BY <2>3 DEF Uri
  <2> DEFINE v == [u EXCEPT !.port = to.port, !.normal = to.normal]
  <2>5. v \in Uri
    BY DEF Uri
  <2>6. /\ v.scheme = u.scheme /\ v.host = u.host /\ v.port = to.port
        /\ v.rest = u.rest /\ v.clean = u.clean /\ v.normal = to.normal
    BY DEF Uri
  <2> HIDE DEF v
  <2>7. to = v
    BY <2>1, <2>2, <2>4, <2>5, <2>6 DEF Uri
  <2> QED
    BY <2>1, <2>7 DEF v, SameButPort
<1> QED
  BY <1>1, <1>2, <1>3 DEF RedirectMatches

(* A metadata grant's redirect is one of its document's.                   *)
LEMMA GrantedRedirect ==
  ASSUME NEW g, WellFormed(g), MetadataGrant(g)
  PROVE  LET to == g.row.redirect IN
         \E u \in Range(g.doc.redirects) :
           to = u \/ SameButPort(u, to)
<1> PICK reg : reg = ProjectCimd(Registry(g.since), g.since.cimd, g.doc, 0)
  OBVIOUS
<1> PICK to : to = g.row.redirect
  OBVIOUS
<1>1. /\ g.since \in Configs /\ g.since.cimd # Null /\ g.doc \in Documents
      /\ g.doc.id = g.row.client /\ to \in Uri
  BY DEF WellFormed, MetadataGrant, ValidDocument
<1>2. reg.clients[g.row.client] = ProjectedClient(g.since.cimd, g.doc)
  BY <1>1, ProjectFacts
<1>3. \E r \in reg.clients[g.row.client].redirects : RedirectMatches(r, to)
  BY DEF MetadataGrant, AcceptsStored, TrustedRedirect
<1>4. PICK u \in Range(g.doc.redirects) : RedirectMatches(DocumentRedirect(u), to)
  BY <1>2, <1>3 DEF ProjectedClient
<1>5. u \in Uri /\ SafeDocumentRedirect(u)
  BY <1>1, PolicyTypes DEF MetadataGrant, ValidDocument
<1> QED
  BY <1>1, <1>4, <1>5, DocumentRedirects

(* The lease of what resolve_client returned ends before its document is   *)
(* out of force, Verdict asks it last, and validate_binding compares all   *)
(* the document's promises.                                                *)
THEOREM SuccessNeedsTheDocument == Spec => GrantsFollowTheDocument
<1>1. ASSUME GrantInv, [Next]_vars, Answered("ok"), grant'.row.binding # Null
      PROVE  LET to == grant'.row.redirect IN
             \E d \in Documents :
               /\ InForce(d) /\ SamePromises(grant', d)
               /\ \E u \in Range(d.redirects) : to = u \/ SameButPort(u, to)
  <2> PICK g : g = grant'
    OBVIOUS
  <2>1. Succeeds(g)
    BY <1>1, SuccessMeans
  <2>2. ~ReviewedGrant(g)
    BY <1>1 DEF ReviewedGrant
  <2>3. MetadataGrant(g) /\ WellFormed(g)
    BY <2>1, <2>2 DEF Succeeds, WellFormed
  <2>4. PICK d \in Documents, t \in Nat :
          /\ IsProjection(g.row.client, req.reg, d, t) /\ InForce(d)
          /\ SecurityBinding(d, config.cimd.allow_refresh)
               = SecurityBinding(g.doc, g.since.cimd.allow_refresh)
    BY <1>1, <2>1, <2>2, SuccessKinds DEF GrantInv
  <2>5. /\ Range(d.redirects) = Range(g.doc.redirects)
        /\ (RefreshAllowed(d) /\ config.cimd.allow_refresh)
             <=> (RefreshAllowed(g.doc) /\ g.since.cimd.allow_refresh)
    BY <2>4, BindingsDetermine
  <2>6. SamePromises(g, d)
    BY <2>4, <2>5 DEF SamePromises, IsProjection
  <2>7. PICK u \in Range(g.doc.redirects) :
          g.row.redirect = u \/ SameButPort(u, g.row.redirect)
    BY <2>3, GrantedRedirect
  <2> QED
    BY <2>4, <2>5, <2>6, <2>7
<1>2. GrantInv /\ [Next]_vars =>
        [Answered("ok") /\ grant'.row.binding # Null =>
           LET to == grant'.row.redirect IN
           \E d \in Documents :
             /\ InForce(d) /\ SamePromises(grant', d)
             /\ \E u \in Range(d.redirects) : to = u \/ SameButPort(u, to)
        ]_vars
  BY <1>1
<1> QED
  BY <1>2, GrantInvHolds, PTL DEF Spec, GrantsFollowTheDocument

(* Under the configuration it was authorized with, what was resolved for a *)
(* reviewed client accepts the grant.                                      *)
LEMMA ReviewedAccepted ==
  ASSUME NEW g, ReviewedGrant(g), config = g.since, config \in Configs,
         IsResolved(g.row.client, req.reg)
  PROVE  /\ BindingHolds(req.reg, g.row.client, g.row.binding)
         /\ AcceptsStored(req.reg, g.row)
<1>1. req.reg = Registry(config) /\ g.row.client \in StaticIds(config)
  BY DEF IsResolved, ReviewedGrant
<1>2. Contains(req.reg, g.row.client) /\ ~IsDynamic(req.reg, g.row.client)
  BY <1>1, RegistryFacts DEF Contains, IsDynamic
<1> QED
  BY <1>1, <1>2 DEF BindingHolds, ReviewedGrant

(* So does what was resolved for a metadata client, if the document makes  *)
(* the same promises.                                                      *)
LEMMA MetadataAccepted ==
  ASSUME NEW g, MetadataGrant(g), config = g.since, config \in Configs,
         NEW d \in Documents, NEW t \in Nat,
         IsProjection(g.row.client, req.reg, d, t), SamePromises(g, d)
  PROVE  /\ BindingHolds(req.reg, g.row.client, g.row.binding)
         /\ AcceptsStored(req.reg, g.row)
<1> PICK c : c = config
  OBVIOUS
<1> PICK reg : reg = req.reg
  OBVIOUS
<1>1. /\ g.doc \in Documents /\ c.cimd # Null /\ c \in Configs
      /\ g.doc.id = g.row.client /\ d.id = g.row.client
      /\ reg = ProjectCimd(Registry(c), c.cimd, d, t)
  BY DEF MetadataGrant, IsProjection, ValidDocument
<1>2. /\ Range(g.doc.redirects) = Range(d.redirects)
      /\ (RefreshAllowed(g.doc) /\ c.cimd.allow_refresh)
           <=> (RefreshAllowed(d) /\ c.cimd.allow_refresh)
  BY DEF SamePromises
<1>3. AcceptsStored(reg, g.row)
  <2>1. AcceptsStored(ProjectCimd(Registry(c), c.cimd, g.doc, 0), g.row)
    BY DEF MetadataGrant
  <2> QED
    BY <1>1, <1>2, <2>1, SameAcceptance
<1>4. SecurityBinding(d, c.cimd.allow_refresh)
        = SecurityBinding(g.doc, c.cimd.allow_refresh)
  BY <1>1, <1>2 DEF SecurityBinding
<1>5. /\ Contains(reg, g.row.client) /\ IsDynamic(reg, g.row.client)
      /\ reg.dynamic.binding = SecurityBinding(d, c.cimd.allow_refresh)
  BY <1>1, ProjectFacts
<1> QED
  BY <1>3, <1>4, <1>5 DEF BindingHolds, MetadataGrant

(* A refusal of a stored operation: what was resolved does not accept the  *)
(* row, and is fresh unless permits_refresh spoke first.                   *)
LEMMA RefusalMeans ==
  ASSUME GrantInv, [Next]_vars, Answered("refused"), req.op # "authorize"
  PROVE  /\ grant # Null /\ WellFormed(grant) /\ config \in Configs
         /\ IsResolved(grant.row.client, req.reg)
         /\ ~( /\ BindingHolds(req.reg, grant.row.client, grant.row.binding)
               /\ AcceptsStored(req.reg, grant.row) )
         /\ Fresh(req.reg, clock) \/ req.op = "rotate"
<1>1. req'.out = "refused"
  BY DEF Answered
<1>2. Approve \/ Exchange \/ Rotate
  BY AnswerSteps DEF Authorize
<1>3. CASE Approve \/ Exchange
  <2>1. Verdict(Revalidates(grant.row)) = "refused"
    BY <1>1, <1>3 DEF Approve, Exchange, Ends, NoReq
  <2>2. Fresh(req.reg, clock) /\ ~Revalidates(grant.row)
    BY <2>1 DEF Verdict
  <2> QED
    BY <1>3, <2>2, StoredKeeps DEF Revalidates, GrantInv
<1>4. CASE Rotate
  <2>1. \/ ~PermitsRefresh(req.reg, grant.row)
        \/ ~BindingHolds(req.reg, grant.row.client, grant.row.binding)
    BY <1>1, <1>4 DEF Rotate, Ends, NoReq, Verdict
  <2> QED
    BY <1>4, <2>1, AcceptedPermits, StoredKeeps DEF GrantInv, Rotate
<1> QED
  BY <1>2, <1>3, <1>4

(* What revalidate accepted at the authorization it accepts again while    *)
(* configuration and promises stay; only a renewal may be judged by a      *)
(* document whose lease has ended.                                         *)
THEOREM RefusalsHaveCauses == Spec => RefusedOnlyForCause
<1>1. ASSUME GrantInv, [Next]_vars, Answered("refused"), req.op # "authorize",
             config = grant.since
      PROVE  /\ grant.doc # Null
             /\ \E d \in Documents :
                  (InForce(d) \/ RenewedWith(d)) /\ ~SamePromises(grant, d)
  <2>1. /\ WellFormed(grant) /\ config \in Configs
        /\ IsResolved(grant.row.client, req.reg)
        /\ ~( /\ BindingHolds(req.reg, grant.row.client, grant.row.binding)
              /\ AcceptsStored(req.reg, grant.row) )
        /\ Fresh(req.reg, clock) \/ req.op = "rotate"
    BY <1>1, RefusalMeans
  <2>2. MetadataGrant(grant)
    BY <1>1, <2>1, ReviewedAccepted DEF WellFormed
  <2>3. PICK d \in Documents, t \in Nat :
          IsProjection(grant.row.client, req.reg, d, t)
    BY <1>1, <2>1, <2>2 DEF IsResolved, MetadataGrant
  <2>4. ~SamePromises(grant, d)
    BY <1>1, <2>1, <2>2, <2>3, MetadataAccepted
  <2>5. /\ req.reg.dynamic # Null /\ req.reg.dynamic.doc = d
        /\ req.reg.dynamic.until = t
    BY <1>1, <2>1, <2>2, <2>3, ProjectFacts DEF IsProjection, MetadataGrant
  <2>6. CASE Fresh(req.reg, clock)
    <3>1. clock < t
      BY <2>5, <2>6 DEF Fresh
    <3>2. InForce(d)
      BY <1>1, <2>3, <3>1 DEF IsProjection, Leased, InForce, GrantInv, Times
    <3> QED
      BY <2>2, <2>4, <3>2, PolicyNull DEF MetadataGrant
  <2>7. CASE req.op = "rotate"
    BY <2>2, <2>4, <2>5, <2>7, PolicyNull DEF MetadataGrant, RenewedWith
  <2> QED
    BY <2>1, <2>6, <2>7
<1>2. GrantInv /\ [Next]_vars =>
        [Answered("refused") /\ req.op # "authorize" =>
           \/ config # grant.since
           \/ /\ grant.doc # Null
              /\ \E d \in Documents :
                   (InForce(d) \/ RenewedWith(d)) /\ ~SamePromises(grant, d)
        ]_vars
  BY <1>1
<1> QED
  BY <1>2, GrantInvHolds, PTL DEF Spec, RefusedOnlyForCause

=============================================================================
