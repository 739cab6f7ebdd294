----------------------------- MODULE SigningKeys -----------------------------
(***************************************************************************)
(* The signing keys of src/keys.rs, the tokens signed with them            *)
(* (src/tokens.rs) and the handlers that accept such tokens: UserInfo,     *)
(* the logout hint and, outside the process, resource servers that verify  *)
(* with a cached copy of /jwks.                                            *)
(*                                                                         *)
(* Keys are read once, at start, so they change only with the manifest on  *)
(* disk and a restart.  The operator follows "Rotate keys" of              *)
(* docs/operations.md, but may write a faulty manifest and repair it       *)
(* later; the process may stop at any time and always starts from what is  *)
(* on disk.  Tokens do not influence each other: one at a time is          *)
(* followed, from any moment of any rotation.                              *)
(***************************************************************************)
EXTENDS Naturals, Sequences, Functions

CONSTANTS
  Null,
  Key,          \* RSA keys; each is also the kid the operator gives it
  UserInfo,     \* issuer + "/userinfo"
  TokenLife,    \* 300 seconds
  Skew,         \* CLOCK_SKEW_SECONDS, 30
  CacheLife,    \* max-age of /jwks, 300 seconds
  MaxClock      \* bound on the clock

ASSUME KeyBounds ==
  /\ TokenLife \in Nat \ {0} /\ Skew \in Nat /\ CacheLife \in Nat
  /\ MaxClock \in Nat /\ Null \notin Key /\ Null \notin Nat

VARIABLES
  clock,
  manifest,   \* the key manifest on disk
  plan,       \* what the operator meant to write
  since,      \* since when the process runs with the plan; Null: not yet
  keys,       \* SigningKeys of the running process; Null while it is down
  token,      \* the followed token, or Null
  rp          \* a resource server's copy of /jwks: Null or [jwks, at]

vars == <<clock, manifest, plan, since, keys, token, rp>>

-----------------------------------------------------------------------------
(* Manifests: [active, previous, next, sound].  sound covers the rest that *)
(* is checked: JSON, kid syntax, PEM, RSA size, file type and permissions. *)

Entry(k) == [kid |-> k, key |-> k]

Active(k) == [kid |-> k, private |-> k, public |-> k]

(* The keys in the order in which load adds them.                          *)
Entries(m) ==
  <<[kid |-> m.active.kid, key |-> m.active.public]>> \o m.previous \o m.next

(* Mutant: the active pair and the others are each looked at alone.        *)
LoadsEach(m) == m.sound /\ m.active.private = m.active.public
(* SigningKeys::load and add_public: the pair matches, and neither a kid   *)
(* nor a key occurs twice.                                                 *)
Loads(m) ==
  /\ m.sound
  /\ m.active.private = m.active.public
  /\ IsInjective([i \in DOMAIN Entries(m) |-> Entries(m)[i].kid])
  /\ IsInjective([i \in DOMAIN Entries(m) |-> Entries(m)[i].key])

Load(m) ==
  LET published == Range(Entries(m)) IN
  [active_kid |-> m.active.kid, encoding |-> m.active.private,
   decoding |-> [kid \in {e.kid : e \in published} |->
                   (CHOOSE e \in published : e.kid = kid).key],
   jwks |-> published]

-----------------------------------------------------------------------------
(* Tokens: [typ, kid, key, aud, openid, iat, exp].                         *)

SignTyped(typ, aud, openid) ==
  [typ |-> typ, kid |-> keys.active_kid, key |-> keys.encoding, aud |-> aud,
   openid |-> openid, iat |-> clock, exp |-> clock + TokenLife]

(* The tokens of one response of tokens::issue: an access token for the    *)
(* resource, and for UserInfo too if OpenID was asked for; with the code   *)
(* (not on renewal) then also an ID token for the client.                  *)
Issued(resource, openid, initial) ==
  {SignTyped("at+jwt", {resource} \cup (IF openid THEN {UserInfo} ELSE {}),
             openid)}
  \cup IF initial /\ openid THEN {SignTyped("JWT", {"client"}, openid)} ELSE {}

(* The signature, by the key of that name.                                 *)
Known(t) == t.kid \in DOMAIN keys.decoding /\ keys.decoding[t.kid] = t.key

(* verify: an access token for that audience, with leeway.                 *)
Verify(t, audience) ==
  /\ t.typ = "at+jwt" /\ Known(t) /\ audience \in t.aud
  /\ clock <= t.exp + Skew

(* Mutant: verify's comparison, which includes the last second, is enough. *)
UserInfoVerified(t) ==
  Verify(t, UserInfo) /\ t.iat <= clock + Skew /\ t.openid
(* userinfo, up to the profile: the handler changes nothing, so it is the  *)
(* condition under which it answers.                                       *)
UserInfoAnswers(t) ==
  /\ Verify(t, UserInfo)
  /\ ~(t.exp + Skew <= clock) /\ t.iat <= clock + Skew
  /\ t.openid

(* verify_id_logout: an ID token, of any age.                              *)
HintAccepted(t) ==
  /\ t.typ = "JWT" /\ Known(t)
  /\ t.aud # {} /\ t.iat < t.exp /\ t.iat <= clock + Skew

(* A resource server with a copy of /jwks it may still use.                *)
CopyUsable == rp # Null /\ clock <= rp.at + CacheLife
CopyKnows(t) == [kid |-> t.kid, key |-> t.key] \in rp.jwks

-----------------------------------------------------------------------------
Steady(k) ==
  [active |-> Active(k), previous |-> <<>>, next |-> <<>>, sound |-> TRUE]

Init ==
  /\ clock = 0
  /\ \E k \in Key : plan = Steady(k)
  /\ manifest = plan
  /\ since = 0
  /\ keys = Load(manifest)
  /\ token = Null
  /\ rp = Null

Tick ==
  /\ clock < MaxClock
  /\ clock' = clock + 1
  /\ UNCHANGED <<manifest, plan, since, keys, token, rp>>

(* The process ends, by signal, crash or host failure, ...                 *)
Stop ==
  /\ keys # Null
  /\ keys' = Null
  /\ UNCHANGED <<clock, manifest, plan, since, token, rp>>

(* ... and main starts it with what is on disk, or exits.                  *)
Start ==
  /\ keys = Null /\ Loads(manifest)
  /\ keys' = Load(manifest)
  /\ since' = IF manifest = plan /\ since = Null THEN clock ELSE since
  /\ UNCHANGED <<clock, manifest, plan, token, rp>>

(* The token endpoint answers; any one of the tokens is followed.          *)
Issue ==
  /\ keys # Null
  /\ \E resource \in {"api", UserInfo}, openid, initial \in BOOLEAN :
       token' \in Issued(resource, openid, initial)
  /\ UNCHANGED <<clock, manifest, plan, since, keys, rp>>

(* A resource server reads /jwks.                                          *)
Fetch ==
  /\ keys # Null
  /\ rp' = [jwks |-> keys.jwks, at |-> clock]
  /\ UNCHANGED <<clock, manifest, plan, since, keys, token>>

-----------------------------------------------------------------------------
(* The operator.                                                           *)

Served(time) == since # Null /\ clock > since + time

Writes(m) ==
  /\ manifest = plan
  /\ plan' = m /\ manifest' = m /\ since' = Null
  /\ UNCHANGED <<clock, keys, token, rp>>

Prepublish(k) ==
  /\ plan.previous = <<>> /\ plan.next = <<>> /\ k # plan.active.kid
  /\ Served(0)
  /\ Writes([plan EXCEPT !.next = <<Entry(k)>>])

Activate ==
  /\ plan.next # <<>> /\ Served(CacheLife)
  /\ Writes([active |-> Active(plan.next[1].kid),
             previous |-> <<Entry(plan.active.kid)>>, next |-> <<>>,
             sound |-> TRUE])

Retire ==
  /\ plan.previous # <<>> /\ Served(TokenLife + Skew + CacheLife)
  /\ Writes(Steady(plan.active.kid))

(* A pair that does not match, a key listed again under its name, a key    *)
(* under another name, something malformed.                                *)
Blunders ==
  LET k == plan.active.kid IN
  (UNION {{[plan EXCEPT !.active.private = other],
           [plan EXCEPT !.next = Append(@, [kid |-> k, key |-> other])],
           [plan EXCEPT !.previous = Append(@, [kid |-> other, key |-> k])]
          } : other \in Key \ {k}})
  \cup {[plan EXCEPT !.sound = FALSE]}

Blunder ==
  /\ manifest = plan
  /\ manifest' \in Blunders
  /\ UNCHANGED <<clock, plan, since, keys, token, rp>>

Repair ==
  /\ manifest # plan
  /\ manifest' = plan
  /\ UNCHANGED <<clock, plan, since, keys, token, rp>>

Next ==
  \/ Tick \/ Stop \/ Start \/ Issue \/ Fetch
  \/ \E k \in Key : Prepublish(k)
  \/ Activate \/ Retire \/ Blunder \/ Repair

Spec == Init /\ [][Next]_vars

-----------------------------------------------------------------------------
(* Properties.                                                             *)

Alive(t) == t # Null /\ clock < t.iat + TokenLife + Skew

(* Rotation costs nobody a token: as long as a token may be used, the      *)
(* process, whenever it is up, and every resource server whose copy of     *)
(* /jwks is not older than its max-age know the key, through restarts at   *)
(* any point of a rotation and whatever faulty manifests were on disk.     *)
TokensVerifyEverywhere ==
  Alive(token) =>
    /\ keys # Null => Known(token)
    /\ CopyUsable => CopyKnows(token)

(* Each token is good for one thing: UserInfo answers access tokens with   *)
(* the openid scope, for exactly their life and the skew, although the     *)
(* check is made twice with different comparisons; ID tokens of any age    *)
(* are logout hints as long as their key is published; nothing is both.    *)
TokensServeOnePurpose ==
  (keys # Null /\ token # Null) =>
    /\ UserInfoAnswers(token) <=>
         token.typ = "at+jwt" /\ token.openid /\ Alive(token)
    /\ HintAccepted(token) <=>
         token.typ = "JWT" /\ \E e \in keys.jwks : e.key = token.key

=============================================================================
