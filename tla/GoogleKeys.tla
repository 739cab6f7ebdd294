------------------------------ MODULE GoogleKeys ------------------------------
(***************************************************************************)
(* The upstream adapter of src/google.rs: the code exchange with Google    *)
(* and the cache of Google's verification keys behind it.                  *)
(*                                                                         *)
(* One tokio mutex guards the key cache and is held while the keys are     *)
(* fetched; the fetch and the exchange share a semaphore, whose permits    *)
(* nobody waits for.  Google publishes a set of keys and replaces it from  *)
(* time to time.  The clock is the monotonic Instant.                      *)
(***************************************************************************)
EXTENDS Integers, FiniteSets

CONSTANTS
  Kid,          \* key identifiers
  Req,          \* logins in progress
  Null,
  Capacities,   \* sizes of the semaphore to consider (8 in the program)
  FirstKeys,    \* sets of keys to consider that Google publishes at first
  MaxAge,       \* MAX_CACHE_AGE (1 hour)
  Backoff,      \* UNKNOWN_KID_BACKOFF (5 s)
  Timeout,      \* time-out of the HTTP client
  MaxHeader,    \* bound on a response's max-age (model checking only)
  MaxTransit,   \* bound on a response's Age (model checking only)
  MaxRotations, \* bound on rotations in one unit of time (model checking only)
  MaxClock      \* bound on the clock (model checking only)

ASSUME KeyConstants ==
  /\ Capacities \subseteq Nat \ {0} /\ FirstKeys \subseteq SUBSET Kid
  /\ MaxAge \in Nat \ {0} /\ Backoff \in Nat \ {0}
  /\ Timeout \in Nat /\ MaxClock \in Nat
  /\ MaxHeader \in Nat /\ MaxTransit \in Nat /\ MaxRotations \in Nat
  /\ IsFiniteSet(Req) /\ Null \notin Kid /\ Null \notin Nat

Time == Nat

VARIABLES
  clock,
  published,    \* the keys Google publishes now
  retired,      \* when a key was withdrawn; Null if it is in use or unused
  history,      \* history[t]: the key sets that were published at time t
  keys,         \* KeyCache.keys
  freshUntil,   \* KeyCache.fresh_until
  lastAttempt,  \* KeyCache.last_attempt, or Null
  attempts,     \* how many fetches of the keys were begun
  permits,      \* the semaphore: its free permits and its size
  login         \* the logins

google == <<published, retired, history>>
cache == <<keys, freshUntil, lastAttempt, attempts>>
vars == <<clock, google, cache, permits, login>>

Pc == {"idle", "exchanging", "verifying", "fetching", "received"}
Login == [pc : Pc, verified : BOOLEAN, kid : Kid \cup {Null}, started : Time,
          jwks : SUBSET Kid, freshness : Nat, age : Nat]

NoLogin == [pc |-> "idle", verified |-> FALSE, kid |-> Null,
            started |-> 0, jwks |-> {}, freshness |-> 0, age |-> 0]

Init ==
  /\ clock = 0
  /\ published \in FirstKeys /\ retired = [k \in Kid |-> Null]
  /\ history = [t \in 0..0 |-> {published}]
  /\ keys = {} /\ freshUntil = 0 /\ lastAttempt = Null /\ attempts = 0
  /\ permits \in {[free |-> n, size |-> n] : n \in Capacities}
  /\ login = [r \in Req |-> NoLogin]

-----------------------------------------------------------------------------
(* The HTTP client's time-out ends a request before time goes on.          *)
OnNetwork(r) == login[r].pc \in {"exchanging", "fetching", "received"}
Overdue(r) == OnNetwork(r) /\ clock >= login[r].started + Timeout

(* No login starts after MaxClock, but the timers of running ones go on.   *)
Tick ==
  /\ \/ clock < MaxClock
     \/ /\ \E r \in Req : OnNetwork(r)
        /\ \A r \in Req : login[r].pc = "verifying" =>
             \E q \in Req : login[q].pc \in {"fetching", "received"}
  /\ \A r \in Req : ~Overdue(r)
  /\ clock' = clock + 1
  /\ history' = [t \in 0..clock + 1 |->
                   IF t > clock THEN {published} ELSE history[t]]
  /\ UNCHANGED <<published, retired, cache, permits, login>>

(* Google withdraws and adds keys.                                         *)
Rotate(new) ==
  /\ clock < MaxClock /\ new \notin {{}, published}
  /\ Cardinality(history[clock]) <= MaxRotations
  /\ published' = new
  /\ retired' = [k \in Kid |->
       IF k \in new THEN Null
       ELSE IF k \in published THEN clock ELSE retired[k]]
  /\ history' = [history EXCEPT ![clock] = @ \cup {new}]
  /\ UNCHANGED <<clock, cache, permits, login>>

Ends(r, verified) ==
  login' = [login EXCEPT ![r] = [NoLogin EXCEPT !.verified = verified]]
Fail(r) == Ends(r, FALSE)

NoPermit == permits.free = 0
TakePermit == ~NoPermit /\ permits' = [permits EXCEPT !.free = @ - 1]
GivePermit == permits' = [permits EXCEPT !.free = @ + 1]

(* The mutex: held by the login that fetches the keys.                     *)
MutexFree == \A q \in Req : login[q].pc \notin {"fetching", "received"}

-----------------------------------------------------------------------------
(* exchange_code: POST to the token endpoint, then verify_id_token.        *)

StartExchange(r) ==
  /\ login[r].pc = "idle" /\ clock < MaxClock
  /\ \/ /\ TakePermit
        /\ login' = [login EXCEPT ![r] = [NoLogin EXCEPT
                       !.pc = "exchanging", !.started = clock]]
     \/ NoPermit /\ Fail(r) /\ UNCHANGED permits
  /\ UNCHANGED <<clock, google, cache>>

(* Google answers with an ID token signed with some key; the permit is     *)
(* given back before the key is looked up.                                 *)
ReceiveToken(r, kid) ==
  /\ login[r].pc = "exchanging"
  /\ login' = [login EXCEPT ![r].pc = "verifying", ![r].kid = kid]
  /\ GivePermit
  /\ UNCHANGED <<clock, google, cache>>

Fresh == clock < freshUntil

Hit(kid) == Fresh /\ kid \in keys

(* Mutant: only an attempt that succeeded counts.                          *)
BackingOffWhenFresh ==
  Fresh /\ lastAttempt # Null /\ clock < lastAttempt + Backoff
BackingOff == lastAttempt # Null /\ clock < lastAttempt + Backoff

(* key(): a fresh hit, with which the token verifies or not; or too soon   *)
(* after the last attempt; or a fetch, which counts as an attempt even if  *)
(* no permit is left for it.                                               *)
Key(r) ==
  /\ login[r].pc = "verifying" /\ MutexFree
  /\ \/ /\ Hit(login[r].kid)
        /\ \E verified \in BOOLEAN : Ends(r, verified)
        /\ UNCHANGED <<cache, permits>>
     \/ /\ ~Hit(login[r].kid) /\ BackingOff
        /\ Fail(r) /\ UNCHANGED <<cache, permits>>
     \/ /\ ~Hit(login[r].kid) /\ ~BackingOff
        /\ lastAttempt' = clock
        /\ \/ /\ TakePermit
              /\ attempts' = attempts + 1
              /\ login' = [login EXCEPT ![r].pc = "fetching",
                                        ![r].started = clock]
           \/ /\ NoPermit /\ Fail(r)
              /\ UNCHANGED <<attempts, permits>>
        /\ UNCHANGED <<keys, freshUntil>>
  /\ UNCHANGED <<clock, google>>

(* cache_freshness: nothing if the response forbids caching, otherwise its *)
(* max-age, capped, less its Age, and never less than nothing.             *)
(* Mutant: the cap is forgotten.                                           *)
FreshnessUncapped(forbidden, maxAge, age) ==
  IF forbidden \/ age > maxAge THEN 0 ELSE maxAge - age
Freshness(forbidden, maxAge, age) ==
  LET capped == IF maxAge > MaxAge THEN MaxAge ELSE maxAge
  IN  IF forbidden \/ age > capped THEN 0 ELSE capped - age

(* The JWKS document: sent to this login since it asked, by Google or by a *)
(* cache on the way, with the keys that Google published Age before that.  *)
(* The program does not look at how old it is, except for the freshness.   *)
ReceiveKeys(r) ==
  /\ login[r].pc = "fetching"
  /\ \E sent \in login[r].started..clock, age \in 0..MaxTransit :
       /\ age <= sent
       /\ \E jwks \in history[sent - age],
             forbidden \in BOOLEAN, maxAge \in 0..MaxHeader :
            login' = [login EXCEPT ![r].pc = "received", ![r].jwks = jwks,
                        ![r].freshness = Freshness(forbidden, maxAge, age),
                        ![r].age = age]
  /\ UNCHANGED <<clock, google, cache, permits>>

StoreKeys(r) ==
  LET q == login[r] IN
  /\ q.pc = "received" /\ q.jwks # {}
  /\ keys' = q.jwks /\ freshUntil' = clock + q.freshness
  /\ \E verified \in BOOLEAN :
       (verified => q.kid \in q.jwks) /\ Ends(r, verified)
  /\ GivePermit
  /\ UNCHANGED <<clock, google, lastAttempt, attempts>>

(* A bad answer, the time-out, or the caller going away: the cache is as   *)
(* before, but for the recorded attempt.                                   *)
Fails(r) ==
  /\ OnNetwork(r)
  /\ Fail(r) /\ GivePermit
  /\ UNCHANGED <<clock, google, cache>>

(* Mutant: no time-out while the body is read.                             *)
TimesOutConnecting(r) == Overdue(r) /\ login[r].pc # "received" /\ Fails(r)
TimesOut(r) == Overdue(r) /\ Fails(r)

(* A token whose header is refused, or a caller that goes away while it    *)
(* waits for the mutex.                                                    *)
Leaves(r) ==
  /\ login[r].pc = "verifying"
  /\ Fail(r)
  /\ UNCHANGED <<clock, google, cache, permits>>

(* Not a step of the program: the end of the bounded clock is no deadlock. *)
TimeIsUp ==
  /\ clock >= MaxClock /\ \A r \in Req : login[r].pc = "idle"
  /\ UNCHANGED vars

Next ==
  \/ Tick \/ TimeIsUp
  \/ \E new \in SUBSET Kid : Rotate(new)
  \/ \E r \in Req :
       \/ StartExchange(r) \/ Key(r) \/ ReceiveKeys(r) \/ StoreKeys(r)
       \/ \E kid \in Kid : ReceiveToken(r, kid)
       \/ Fails(r) \/ Leaves(r)

Spec == Init /\ [][Next]_vars

(* tokio's mutex is first come, first served; nothing is assumed of the    *)
(* network but the client's own time-out.                                  *)
Fairness ==
  /\ WF_vars(Tick)
  /\ \A r \in Req : WF_vars(TimesOut(r)) /\ SF_vars(Key(r))

FairSpec == Spec /\ Fairness

-----------------------------------------------------------------------------
(* Properties.                                                             *)

(* A login is verified only with a key Google publishes, or withdrew not   *)
(* long ago: a withdrawn key dies, whatever the order of fetches, hits and *)
(* rotations.  From the cache it is used for no longer than the longest    *)
(* freshness plus one request, however old the answer was.  The login that *)
(* fetched an answer uses it whatever its Age, beyond that bound too, and  *)
(* no other login does.                                                    *)
WithdrawnKeysDie ==
  [][\A r \in Req :
       login[r].pc # "idle" /\ login'[r].verified =>
         LET k == login[r].kid IN
         \/ k \in published
         \/ /\ retired[k] # Null
            /\ \/ clock < retired[k] + MaxAge + Timeout
               \/ /\ login[r].pc = "received"
                  /\ clock <= retired[k] + login[r].age + Timeout]_vars

(* However many logins present unknown or withdrawn keys, Google is asked  *)
(* for its keys by one login at a time and at most once per back-off       *)
(* period, also when the answers are failures.                             *)
FetchesRateLimited ==
  /\ attempts > 0 => (attempts - 1) * Backoff <= lastAttempt
  /\ Cardinality({r \in Req : login[r].pc \in {"fetching", "received"}}) <= 1

(* Permits are held by requests on the network and by nothing else, at     *)
(* most one per login: success, failure, time-out and cancellation all     *)
(* give them back.                                                         *)
PermitsMatch ==
  permits.free + Cardinality({r \in Req : OnNetwork(r)}) = permits.size

(* The adapter's limits on what it asks of Google hold on every path.      *)
LimitsHold == FetchesRateLimited /\ PermitsMatch

(* Every login ends, although the key lookup of all of them waits for one  *)
(* fetch and Google may never answer.                                      *)
LoginsEnd == \A r \in Req : login[r].pc # "idle" ~> login[r].pc = "idle"

=============================================================================
