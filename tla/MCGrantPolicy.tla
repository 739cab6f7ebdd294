---------------------------- MODULE MCGrantPolicy ----------------------------
(* An instance of GrantPolicy for TLC: one reviewed native client, one     *)
(* metadata client, and the ways documents and configurations change.      *)
EXTENDS GrantPolicy, TLC

Loopback(port) ==
  [port |-> port, scheme |-> "http", host |-> "127.0.0.1", rest |-> "/cb",
   clean |-> TRUE, normal |-> TRUE]
Claimed ==
  [port |-> Null, scheme |-> "https", host |-> "app.org", rest |-> "/cb",
   clean |-> TRUE, normal |-> TRUE]

Registered(kind, u) == [kind |-> kind, uri |-> u]

(* The reviewed client: a loopback redirect on any port, and one claimed.  *)
App(scopes, flow, default) ==
  [scopes |-> scopes, flow |-> flow, id |-> "app", sound |-> TRUE,
   resources |-> {"api"}, default_resource |-> default,
   redirects |-> {Registered("native_loopback", Loopback(1)),
                  Registered("app_claimed_https", Claimed)}]

(* The metadata client's identifier, reviewed later.                       *)
Adopted ==
  [scopes |-> {"openid", "offline_access"}, flow |-> "google_preauthorized",
   id |-> "url", sound |-> TRUE,
   resources |-> {"api"}, default_resource |-> Null,
   redirects |-> {Registered("app_claimed_https", Claimed)}]

Cimd(allow_refresh) ==
  [scopes |-> {"openid", "offline_access"}, resources |-> {"api"},
   allow_refresh |-> allow_refresh]

Both == {"openid", "offline_access"}
Wide == App(Both, "google_preauthorized", Null)

Config(clients, cimd) ==
  [sound |-> TRUE, clients |-> clients, cimd |-> cimd]

(* Reviewed and open; refresh closed to metadata clients and the reviewed  *)
(* one narrowed; the metadata client reviewed; declared twice (rejected);  *)
(* no metadata clients at all.                                             *)
SomeConfigs ==
  {Config(<<Wide>>, Cimd(TRUE)),
   Config(<<App({"openid"}, "interactive", "api")>>, Cimd(FALSE)),
   Config(<<Wide, Adopted>>, Cimd(TRUE)),
   Config(<<Wide, Wide>>, Cimd(TRUE)),
   Config(<<Wide>>, Null)}

Document(redirects, types) ==
  [id |-> "url", sound |-> TRUE, redirects |-> redirects, grants |-> types]

Code == "authorization_code"
Refresh == "refresh_token"

(* The client as it was; refresh tokens given up and the redirects in      *)
(* another order, which is all that is left of the difference where the    *)
(* operator permits no refresh tokens; one redirect gone; a port nothing   *)
(* can listen on.  (A document that is not acceptable at all is like a     *)
(* fetch that fails.)                                                      *)
SomeDocuments ==
  {Document(<<Loopback(1), Claimed>>, <<Code, Refresh>>),
   Document(<<Claimed, Loopback(1)>>, Null),
   Document(<<Loopback(1)>>, <<Refresh, Code>>),
   Document(<<Loopback(0)>>, <<Code, Refresh>>)}

Request(client, redirect, scopes, resource) ==
  [scopes |-> scopes, client |-> client, redirect |-> redirect,
   resource |-> resource, code |-> TRUE, prompt |-> "none"]

Offline == <<"openid", "offline_access">>

(* Another port; silently; with consent; the metadata client likewise, but *)
(* with the port in another spelling (02); without a resource; a redirect  *)
(* of another path.                                                        *)
SomeRequests ==
  {Request("app", Loopback(2), Offline, Null),
   Request("app", Claimed, Offline, "api"),
   [Request("app", Claimed, <<"openid">>, "api") EXCEPT !.prompt = "consent"],
   Request("url", Claimed, Offline, "api"),
   Request("url", [Loopback(2) EXCEPT !.normal = FALSE], <<"openid">>, "api"),
   Request("url", Claimed, Offline, Null),
   Request("app", [Loopback(1) EXCEPT !.rest = "/other"], Offline, "api")}

=============================================================================
