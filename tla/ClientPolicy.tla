---------------------------- MODULE ClientPolicy ----------------------------
(***************************************************************************)
(* The client registry and the OAuth policy of src/oauth.rs, with the      *)
(* client metadata documents of src/cimd.rs and the declarations of        *)
(* src/config.rs it is built from, as operators.  GrantPolicy runs them    *)
(* against stored grants while documents and configurations change.        *)
(*                                                                         *)
(* Strings are abstracted to what the policy tells apart.  A URI is a      *)
(* record of the parts that are compared separately; two URIs are the same *)
(* bytes when the records are equal.  What a declaration can get wrong     *)
(* without any other effect here (empty names, malformed scope tokens,     *)
(* unsafe origins, bad JSON, an issuer with a path) is one Boolean.        *)
(***************************************************************************)
EXTENDS Naturals, Sequences, Functions

CONSTANTS
  Null,      \* Option::None
  UserInfo   \* the provider's own resource, issuer + "/userinfo"

-----------------------------------------------------------------------------
(* URIs: [scheme, host, port, rest, clean, normal].  A clean one parses    *)
(* and has neither credentials nor a fragment; a normal one is left as it  *)
(* is by the parser; the port is Null where none is written.               *)

Domain(u) == u.host \notin {"127.0.0.1", "[::1]"}
PublicName(u) == Domain(u) /\ u.host # "localhost"

(* oauth.rs, safe_redirect: any scheme, also a native application's own,   *)
(* and any spelling.                                                       *)
SafeRedirect(u) == u.clean

(* loopback_parts: host and everything after the port, if the URI is a     *)
(* loopback one with a usable port or none.                                *)
IsLoopback(u) ==
  u.scheme = "http" /\ ~Domain(u) /\ (u.port = Null \/ u.port > 0)
LoopbackParts(u) == <<u.host, u.rest>>

(* RegisteredRedirect::new.                                                *)
ValidRedirect(r) ==
  /\ SafeRedirect(r.uri)
  /\ r.kind = "native_loopback" => IsLoopback(r.uri)
  /\ r.kind = "app_claimed_https" => r.uri.scheme = "https" /\ PublicName(r.uri)

(* redirect_matches: the same bytes; for a native loopback redirect any    *)
(* port of the same host and path (RFC 8252).                              *)
RedirectMatches(r, u) ==
  /\ SafeRedirect(u)
  /\ \/ r.uri = u
     \/ /\ r.kind = "native_loopback"
        /\ IsLoopback(r.uri) /\ IsLoopback(u)
        /\ LoopbackParts(r.uri) = LoopbackParts(u)

-----------------------------------------------------------------------------
(* Declarations.  A client is [id, redirects, scopes, resources,           *)
(* default_resource, flow, sound].                                         *)

(* FirstPartyClient::with_authorization_flow.                              *)
ValidClient(c) ==
  /\ c.sound
  /\ c.redirects # {} /\ \A r \in c.redirects : ValidRedirect(r)
  /\ c.scopes # {}
  /\ c.default_resource # Null => c.default_resource \in c.resources

(* CimdPolicyConfig::validate; the policy is [scopes, resources,           *)
(* allow_refresh] or Null.                                                 *)
ValidCimdPolicy(p) ==
  p # Null => p.resources # {} /\ p.scopes \ {"offline_access"} # {}

(* Config::validate and AppState::new: the process starts only with        *)
(* clients that are all valid, declared once each, and a valid policy.     *)
ValidConfig(c) ==
  /\ c.sound
  /\ c.clients # <<>> /\ \A i \in DOMAIN c.clients : ValidClient(c.clients[i])
  /\ IsInjective([i \in DOMAIN c.clients |-> c.clients[i].id])
  /\ ValidCimdPolicy(c.cimd)

-----------------------------------------------------------------------------
(* Client metadata documents as a site serves them: [id, sound, grants,    *)
(* redirects], grants being Null or a sequence, redirects a sequence.      *)

(* cimd.rs, safe_redirect: stricter than the registry on hosts and         *)
(* spelling, but silent about the value of the port.                       *)
SafeDocumentRedirect(u) ==
  /\ u.clean /\ u.normal
  /\ \/ u.scheme = "https" /\ PublicName(u)
     \/ u.scheme = "http" /\ ~Domain(u) /\ u.port # Null

GrantTypes == {"authorization_code", "refresh_token"}

(* validate_document for the identifier it was fetched under.              *)
ValidDocument(id, d) ==
  /\ d.id = id /\ d.sound
  /\ d.grants # Null =>
       /\ IsInjective(d.grants) /\ Range(d.grants) \subseteq GrantTypes
       /\ "authorization_code" \in Range(d.grants)
  /\ d.redirects # <<>> /\ IsInjective(d.redirects)
  /\ \A u \in Range(d.redirects) : SafeDocumentRedirect(u)

RefreshAllowed(d) == d.grants # Null /\ "refresh_token" \in Range(d.grants)

DocumentRedirect(u) ==
  [kind |-> IF u.scheme = "http" THEN "native_loopback" ELSE "exact",
   uri |-> u]

(* Mutant: the order of the redirects counts.                              *)
OrderedBinding(d, allow_refresh) ==
  [id |-> d.id, redirects |-> d.redirects,
   refresh |-> RefreshAllowed(d) /\ allow_refresh]
(* security_binding: what must not change under a stored grant.  The       *)
(* redirects are sorted, so their order in the document does not count.    *)
SecurityBinding(d, allow_refresh) ==
  [id |-> d.id,
   redirects |-> {DocumentRedirect(u) : u \in Range(d.redirects)},
   refresh |-> RefreshAllowed(d) /\ allow_refresh]

-----------------------------------------------------------------------------
(* Registries: [clients, dynamic].  clients maps identifiers to            *)
(* declarations; dynamic is Null or [doc, binding, until]: the document     *)
(* projected for one request and the end of its lease.                     *)

StaticIds(config) ==
  {config.clients[i].id : i \in DOMAIN config.clients}

Declared(config, id) ==
  CHOOSE c \in Range(config.clients) : c.id = id

(* authorization_registry, ClientRegistry::with_issuer.                    *)
Registry(config) ==
  [clients |-> [id \in StaticIds(config) |-> Declared(config, id)],
   dynamic |-> Null]

Contains(reg, id) == id \in DOMAIN reg.clients
IsDynamic(reg, id) == reg.dynamic # Null /\ reg.dynamic.doc.id = id

ProjectedScopes(policy, d) ==
  IF policy.allow_refresh /\ RefreshAllowed(d)
  THEN policy.scopes ELSE policy.scopes \ {"offline_access"}

ProjectedClient(policy, d) ==
  [id |-> d.id, sound |-> TRUE,
   redirects |-> {DocumentRedirect(u) : u \in Range(d.redirects)},
   scopes |-> ProjectedScopes(policy, d), resources |-> policy.resources,
   default_resource |-> Null, flow |-> "interactive"]

(* project_cimd: a fresh document of no reviewed client becomes a client   *)
(* of this request's copy of the registry.  It fails where the document's  *)
(* redirects are not registrable (port zero).                              *)
CanProject(reg, policy, d, until, now) ==
  /\ ~Contains(reg, d.id) /\ now < until
  /\ ValidClient(ProjectedClient(policy, d))

ProjectCimd(reg, policy, d, until) ==
  [clients |-> [id \in DOMAIN reg.clients \cup {d.id} |->
                  IF id = d.id THEN ProjectedClient(policy, d)
                               ELSE reg.clients[id]],
   dynamic |-> [doc |-> d, until |-> until,
                binding |-> SecurityBinding(d, policy.allow_refresh)]]

-----------------------------------------------------------------------------
(* Decisions.  Each first asks ensure_fresh; a stale lease is answered     *)
(* MetadataExpired whatever else is wrong.                                 *)

(* Mutant: the lease is looked at only when the client is resolved.        *)
AlwaysFresh(reg, now) == TRUE
Fresh(reg, now) == reg.dynamic # Null => now < reg.dynamic.until

(* Mutant: a reviewed client takes over the grants of the same identifier. *)
BindingHoldsOrAdopted(reg, id, stored) ==
  /\ Contains(reg, id)
  /\ IsDynamic(reg, id) => stored = reg.dynamic.binding
(* validate_binding: what was granted to a metadata document is honoured   *)
(* only under an equal binding, what was granted to a reviewed client only *)
(* while it is one.                                                        *)
BindingHolds(reg, id, stored) ==
  /\ Contains(reg, id)
  /\ stored = IF IsDynamic(reg, id) THEN reg.dynamic.binding ELSE Null

(* The resource a request without one gets: the client's default, or       *)
(* UserInfo for an OpenID request.                                         *)
DefaultResource(c, scopes) ==
  IF c.default_resource # Null THEN c.default_resource
  ELSE IF "openid" \in scopes THEN UserInfo ELSE Null

ResourceOf(reg, q) ==
  IF q.resource # Null \/ IsDynamic(reg, q.client) THEN q.resource
  ELSE DefaultResource(reg.clients[q.client], Range(q.scopes))

ResourceAllowed(reg, id, scopes, resource) ==
  \/ resource \in reg.clients[id].resources
  \/ ~IsDynamic(reg, id) /\ "openid" \in scopes /\ resource = UserInfo

TrustedRedirect(reg, id, u) ==
  /\ Contains(reg, id)
  /\ \E r \in reg.clients[id].redirects : RedirectMatches(r, u)

(* validate_pending_parts for a request [client, redirect, scopes,         *)
(* resource, code]; code says that response type, challenge method and     *)
(* challenge are the supported ones, and scopes is a sequence.             *)
AcceptsPending(reg, q) ==
  /\ TrustedRedirect(reg, q.client, q.redirect)
  /\ q.code
  /\ q.scopes # <<>> /\ IsInjective(q.scopes)
  /\ Range(q.scopes) \subseteq reg.clients[q.client].scopes
  /\ ResourceOf(reg, q) # Null
  /\ ResourceAllowed(reg, q.client, Range(q.scopes), ResourceOf(reg, q))

(* The pending grant that is stored, its scopes sorted.                    *)
PendingGrant(reg, q) ==
  [client |-> q.client, redirect |-> q.redirect,
   scopes |-> Range(q.scopes), resource |-> ResourceOf(reg, q),
   binding |-> IF IsDynamic(reg, q.client) THEN reg.dynamic.binding ELSE Null]

(* revalidate_pending, and revalidate of browser.rs: the stored columns    *)
(* presented again; the scopes are a set by now.                           *)
AcceptsStored(reg, g) ==
  /\ TrustedRedirect(reg, g.client, g.redirect)
  /\ g.scopes # {} /\ g.scopes \subseteq reg.clients[g.client].scopes
  /\ ResourceAllowed(reg, g.client, g.scopes, g.resource)

(* Mutant: a renewed grant's scopes are not looked at again.               *)
PermitsAnyScope(reg, g) ==
  /\ Contains(reg, g.client)
  /\ ResourceAllowed(reg, g.client, g.scopes, g.resource)
(* permits_refresh: the redirect no longer matters, the rest does.         *)
PermitsRefresh(reg, g) ==
  /\ Contains(reg, g.client)
  /\ g.scopes \subseteq reg.clients[g.client].scopes
  /\ ResourceAllowed(reg, g.client, g.scopes, g.resource)

(* pre_authorizes: consent may be skipped only for a reviewed client that  *)
(* asks for it, towards a redirect its application has claimed.            *)
PreAuthorizes(reg, g) ==
  /\ reg.dynamic = Null /\ g.binding = Null /\ Contains(reg, g.client)
  /\ LET c == reg.clients[g.client] IN
     /\ c.flow = "google_preauthorized"
     /\ [kind |-> "app_claimed_https", uri |-> g.redirect] \in c.redirects
     /\ g.resource \in c.resources /\ g.scopes \subseteq c.scopes

(* The scopes the discovery document advertises.                           *)
AdvertisedScopes(config) ==
  (UNION {c.scopes : c \in Range(config.clients)}) \cup
    IF config.cimd = Null THEN {}
    ELSE IF config.cimd.allow_refresh THEN config.cimd.scopes
    ELSE config.cimd.scopes \ {"offline_access"}

=============================================================================
