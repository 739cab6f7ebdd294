----------------------------- MODULE CimdFetcher -----------------------------
(***************************************************************************)
(* The metadata fetcher of src/cimd.rs: a cache of client metadata         *)
(* documents with monotonic deadlines, shared by every request, filled by  *)
(* as many concurrent fetches as its semaphore has permits and at most one *)
(* per client.                                                             *)
(*                                                                         *)
(* The clock is the process's monotonic clock (Instant).  A document is    *)
(* known by the instant the client's server generated it; an HTTP cache in *)
(* between may answer with an older one and says so in Age.                *)
(***************************************************************************)
EXTENDS Naturals, FiniteSets, FiniteSetsExt, Sequences

CONSTANTS
  Client,        \* client metadata URLs, already validated
  Req,           \* callers of fetch_leased
  Null,
  Capacities,    \* sizes of the semaphore to consider (8 in the program)
  MaxEntries,    \* MAX_CACHE_ENTRIES (128)
  MaxTtl,        \* MAX_CACHE_TTL (300 s)
  ShortLease,    \* NON_CACHEABLE_LEASE (5 s)
  Timeout,       \* REQUEST_TIMEOUT (5 s)
  CacheControl,  \* header lists a server may send: sequences of directives
  Ages,          \* Age headers a response may carry
  MaxClock       \* bound on the clock (model checking only)

(* A directive forbids caching (no-store, no-cache, private, malformed),   *)
(* bounds it (max-age), or says nothing about it.                          *)
Directive == [kind : {"forbid", "max_age", "other"}, n : Nat]

ASSUME FetcherConstants ==
  /\ Capacities \subseteq Nat \ {0} /\ MaxEntries \in Nat \ {0}
  /\ MaxTtl \in Nat /\ ShortLease \in Nat /\ Timeout \in Nat
  /\ CacheControl \subseteq Seq(Directive) /\ Ages \subseteq Nat
  /\ MaxClock \in Nat

Time == Nat
Snapshot == [client : Client, born : Time, read_at : Time,
             cacheable : BOOLEAN, valid_until : Time]
Response == [born : Time, read_at : Time, ttl : Nat]

ASSUME FetcherSets ==
  /\ IsFiniteSet(Req)
  /\ Null \notin Client /\ Null \notin Snapshot /\ Null \notin Response

VARIABLES
  clock,
  cache,     \* the cached snapshot of a client, or Null
  permits,   \* the semaphore: its free permits and its size
  inFlight,  \* clients with a reservation
  newest,    \* when the newest document ever published was read, or 0
  req        \* the callers

vars == <<clock, cache, permits, inFlight, newest, req>>
shared == <<cache, permits, inFlight, newest>>

Pc == {"idle", "permit", "flight", "fetching", "received"}
Caller == [pc : Pc, client : Client \cup {Null}, started : Time,
           response : Response \cup {Null}, lease : Snapshot \cup {Null}]

NoCall == [pc |-> "idle", client |-> Null, started |-> 0,
           response |-> Null, lease |-> Null]

Init ==
  /\ clock = 0
  /\ cache = [c \in Client |-> Null]
  /\ permits \in {[free |-> n, size |-> n] : n \in Capacities}
  /\ inFlight = {}
  /\ newest = [c \in Client |-> 0]
  /\ req = [r \in Req |-> NoCall]

-----------------------------------------------------------------------------
IsFresh(snapshot) == snapshot # Null /\ clock < snapshot.valid_until

(* cache_ttl: 0 stands for "not cacheable".  One forbidding directive wins *)
(* wherever it stands; of several max-age the smallest counts.             *)
CacheTtl(directives, age) ==
  LET ds == Range(directives)
      ages == {d.n : d \in {d \in ds : d.kind = "max_age"}}
      ttl == Min(ages \cup {MaxTtl})
  IN IF (\E d \in ds : d.kind = "forbid") \/ ages = {} \/ ttl <= age THEN 0
     ELSE ttl - age

-----------------------------------------------------------------------------
(* The fetch timer: when it is due the fetch ends before time goes on.     *)
Overdue(r) ==
  /\ req[r].pc \in {"fetching", "received"}
  /\ clock >= req[r].started + Timeout

(* No call starts after MaxClock, but the timers of running fetches go on. *)
Tick ==
  /\ \/ clock < MaxClock
     \/ /\ \A r \in Req : req[r].pc \notin {"permit", "flight"}
        /\ \E r \in Req : req[r].pc # "idle"
  /\ \A r \in Req : ~Overdue(r)
  /\ clock' = clock + 1
  /\ UNCHANGED <<shared, req>>

(* The end of a call: with a snapshot, or with one of the errors (busy,    *)
(* failed), which are told apart by the action only.                       *)
Returns(r, lease) == req' = [req EXCEPT ![r] = [NoCall EXCEPT !.lease = lease]]
Errs(r) == Returns(r, Null)

TakePermit == permits' = [permits EXCEPT !.free = @ - 1]
GivePermit == permits' = [permits EXCEPT !.free = @ + 1]

(* Dropping the permit and the Flight guard.                               *)
(* Mutant: the reservation outlives the call.                              *)
ReleaseKeepingFlight(r) ==
  /\ GivePermit
  /\ inFlight' = inFlight
Release(r) ==
  /\ GivePermit
  /\ inFlight' = inFlight \ {req[r].client}

(* A hit returns the cached snapshot with the deadline it has.             *)
(* Mutant: a hit starts a new lease.                                       *)
HitRenewed(c) == [cache[c] EXCEPT !.valid_until = clock + MaxTtl]
Hit(c) == cache[c]

Lookup(r, c) ==
  /\ req[r].pc = "idle" /\ clock < MaxClock
  /\ IF IsFresh(cache[c])
       THEN Returns(r, Hit(c))
       ELSE req' = [req EXCEPT ![r] = [NoCall EXCEPT !.pc = "permit",
                                                     !.client = c]]
  /\ UNCHANGED <<clock, shared>>

TryAcquire(r) ==
  /\ req[r].pc = "permit"
  /\ IF permits.free = 0
       THEN Errs(r) /\ UNCHANGED permits
       ELSE /\ req' = [req EXCEPT ![r].pc = "flight"]
            /\ TakePermit
  /\ UNCHANGED <<clock, cache, inFlight, newest>>

(* Mutant: same-client misses fetch side by side.                          *)
FlightIgnored(c) == FALSE
FlightTaken(c) == c \in inFlight

TryReserve(r) ==
  /\ req[r].pc = "flight"
  /\ IF FlightTaken(req[r].client)
       THEN /\ Errs(r)
            /\ GivePermit
            /\ UNCHANGED inFlight
       ELSE /\ req' = [req EXCEPT ![r].pc = "fetching", ![r].started = clock]
            /\ inFlight' = inFlight \cup {req[r].client}
            /\ UNCHANGED permits
  /\ UNCHANGED <<clock, cache, newest>>

(* Name resolution and the HTTP exchange: the response is generated now,   *)
(* or as long ago as its Age says.                                         *)
Respond(r) ==
  /\ req[r].pc = "fetching"
  /\ \E directives \in CacheControl, age \in Ages :
       /\ age <= clock
       /\ req' = [req EXCEPT ![r].pc = "received",
                    ![r].response = [born |-> clock - age, read_at |-> clock,
                                     ttl |-> CacheTtl(directives, age)]]
  /\ UNCHANGED <<clock, shared>>

(* An unsafe address, a bad status, type, size or document; or the timer.  *)
FetchFails(r) ==
  /\ req[r].pc \in {"fetching", "received"}
  /\ Errs(r) /\ Release(r)
  /\ UNCHANGED <<clock, cache, newest>>

(* Mutant: the timer covers only the connection, not the body.             *)
TimesOutConnecting(r) == req[r].pc = "fetching" /\ Overdue(r) /\ FetchFails(r)
TimesOut(r) == Overdue(r) /\ FetchFails(r)

(* The caller goes away while the fetch is running.                        *)
Cancel(r) ==
  /\ req[r].pc \in {"fetching", "received"}
  /\ Errs(r) /\ Release(r)
  /\ UNCHANGED <<clock, cache, newest>>

NewSnapshot(q) ==
  [client |-> q.client, born |-> q.response.born,
   read_at |-> q.response.read_at, cacheable |-> q.response.ttl > 0,
   valid_until |-> clock + (IF q.response.ttl > 0 THEN q.response.ttl
                                                  ELSE ShortLease)]

FreshKeys == {c \in Client : IsFresh(cache[c])}

(* retain the fresh entries, make room for one if the cache is full.  Any  *)
(* key may be the first of the hash map.                                   *)
Kept == IF Cardinality(FreshKeys) >= MaxEntries
          THEN {FreshKeys \ {c} : c \in FreshKeys} ELSE {FreshKeys}

Publish(snapshot, kept) ==
  cache' = [c \in Client |-> IF c = snapshot.client THEN snapshot
                             ELSE IF c \in kept THEN cache[c] ELSE Null]

(* The snapshot is made and published.  The mutex of the cache in between  *)
(* is only ever held across code that does not await, and the reservation  *)
(* keeps other fetches of the client out, so that both are one step.       *)
Complete(r) ==
  LET q == req[r]  snapshot == NewSnapshot(q) IN
  /\ q.pc = "received"
  /\ Returns(r, snapshot) /\ Release(r)
  /\ \/ ~snapshot.cacheable /\ UNCHANGED <<cache, newest>>
     \/ /\ snapshot.cacheable
        /\ \E kept \in Kept : Publish(snapshot, kept)
        /\ newest' = [newest EXCEPT ![q.client] =
                        Max({@, snapshot.read_at})]
  /\ UNCHANGED clock

(* Not a step of the program: the end of the bounded clock is no deadlock. *)
TimeIsUp ==
  /\ clock >= MaxClock /\ \A r \in Req : req[r].pc = "idle"
  /\ UNCHANGED vars

Next ==
  \/ Tick
  \/ TimeIsUp
  \/ \E r \in Req :
       \/ \E c \in Client : Lookup(r, c)
       \/ TryAcquire(r) \/ TryReserve(r) \/ Respond(r)
       \/ FetchFails(r) \/ Cancel(r) \/ Complete(r)

Spec == Init /\ [][Next]_vars

(* Nothing is assumed of the network: time passes, a due timer fires, and  *)
(* the steps without an await are taken.                                   *)
Fairness ==
  /\ WF_vars(Tick)
  /\ \A r \in Req : WF_vars(TimesOut(r))
                    /\ WF_vars(TryAcquire(r) \/ TryReserve(r))

FairSpec == Spec /\ Fairness

-----------------------------------------------------------------------------
(* Properties.                                                             *)

Fetching == {r \in Req : req[r].pc \in {"fetching", "received"}}

(* The limits hold on every path.  Permits and reservations are held by    *)
(* running calls and by nothing else: success, failure, time-out and       *)
(* cancellation all give both back, and no two calls fetch for the same    *)
(* client.  The cache never grows beyond its bound.                        *)
LimitsHold ==
  /\ inFlight = {req[r].client : r \in Fetching}
  /\ Cardinality(inFlight) = Cardinality(Fetching)
  /\ permits.free + Cardinality(Fetching)
       + Cardinality({r \in Req : req[r].pc = "flight"}) = permits.size
  /\ Cardinality({c \in Client : cache[c] # Null}) <= MaxEntries

(* What the cache holds for a client is the newest response ever published *)
(* for it: a slow fetch never overwrites the result of a later one.        *)
PublicationInOrder ==
  \A c \in Client : cache[c] # Null => cache[c].read_at = newest[c]

(* A fresh snapshot, cached or in a caller's hands, is at most MaxTtl plus *)
(* one request time-out old, counted from when its server generated it; an *)
(* uncacheable one at most the short lease plus the time-out, counted from *)
(* the answer.  Hits, waiting and HTTP caches never stretch this.          *)
StalenessBounded ==
  \A l \in {cache[c] : c \in Client} \cup {req[r].lease : r \in Req} :
    IsFresh(l) =>
      IF l.cacheable THEN clock < l.born + MaxTtl + Timeout
                     ELSE clock < l.read_at + ShortLease + Timeout

(* Every call returns, even if the client's server never answers, so the   *)
(* permits of silent servers come back.                                    *)
CallsReturn == \A r \in Req : req[r].pc # "idle" ~> req[r].pc = "idle"

=============================================================================
