------------------------------ MODULE CimdProofs ------------------------------
(***************************************************************************)
(* Proofs about the metadata fetcher, for every number of callers and      *)
(* clients, every size of the cache and the semaphore, every choice of     *)
(* time limits and every list of response headers.                         *)
(*                                                                         *)
(* The inductive invariant follows a document from the client's server to  *)
(* the cache: how old it can be when it arrives (CallerOK), how long it is *)
(* used from then on (SnapshotOK), and that nothing newer was published    *)
(* for its client meanwhile, because the client's flight was taken.        *)
(***************************************************************************)
EXTENDS CimdFetcher, TLAPS, FiniteSetTheorems

-----------------------------------------------------------------------------
(* Minimum and maximum.                                                    *)

(* A set of naturals has a least element: of the intervals below its       *)
(* elements one has no other as a proper subset.                           *)
LEMMA LeastNatural ==
  ASSUME NEW S \in SUBSET Nat, S # {}
  PROVE  \E x \in S : \A y \in S : x <= y
<1> DEFINE R == StrictSubsetOrdering(Nat)
           F == FiniteSubsetsOf(Nat)
           T == {0..n : n \in S}
<1>1. \A n \in S : IsFiniteSet(0..n) /\ 0..n \subseteq Nat
  BY FS_Interval
<1>2. T \subseteq F /\ T # {}
  BY <1>1 DEF FiniteSubsetsOf
<1>3. IsWellFoundedOn(R, F)
  BY FS_StrictSubsetOrderingWellFounded
<1>4. PICK t \in T : \A u \in T : ~(<<u, t>> \in R)
  <2> HIDE DEF R, F, T
  <2> QED BY <1>2, <1>3, WFMin
<1>5. PICK x \in S : t = 0..x
  OBVIOUS
<1>6. ASSUME NEW y \in S, y < x PROVE FALSE
  <2>1. 0..y \in T /\ 0..y \subseteq Nat /\ 0..x \subseteq Nat
    BY <1>1
  <2>2. 0..y \subseteq 0..x /\ x \notin 0..y /\ x \in 0..x
    BY <1>6
  <2>3. <<0..y, t>> \in R
    BY <1>5, <2>1, <2>2 DEF StrictSubsetOrdering
  <2> QED BY <1>4, <2>1, <2>3
<1> QED BY <1>6

LEMMA MinIsLeast ==
  ASSUME NEW S \in SUBSET Nat, S # {}
  PROVE  Min(S) \in S /\ \A y \in S : Min(S) <= y
BY LeastNatural DEF Min

LEMMA MaxOfTwo ==
  ASSUME NEW a \in Nat, NEW b \in Nat
  PROVE  Max({a, b}) = IF a >= b THEN a ELSE b
<1> DEFINE m == IF a >= b THEN a ELSE b
<1>1. m \in {a, b} /\ \A y \in {a, b} : m >= y
  OBVIOUS
<1>2. \A x \in {a, b} : (\A y \in {a, b} : x >= y) => x = m
  OBVIOUS
<1> QED BY <1>1, <1>2 DEF Max

(* Whatever the headers say, a document is cached for no longer than       *)
(* MaxTtl, and its age when it arrives counts.                             *)
LEMMA TtlCapped ==
  ASSUME NEW d \in CacheControl, NEW age \in Nat
  PROVE  /\ CacheTtl(d, age) \in Nat
         /\ CacheTtl(d, age) > 0 => CacheTtl(d, age) + age <= MaxTtl
<1> DEFINE ds == Range(d)
           ages == {e.n : e \in {e \in ds : e.kind = "max_age"}}
           ttl == Min(ages \cup {MaxTtl})
<1>1. ds \subseteq Directive
  BY FetcherConstants DEF Range
<1>2. ages \cup {MaxTtl} \in SUBSET Nat /\ ages \cup {MaxTtl} # {}
      /\ MaxTtl \in ages \cup {MaxTtl}
  BY <1>1, FetcherConstants DEF Directive
<1>3. ttl \in Nat /\ ttl <= MaxTtl
  <2> DEFINE S == ages \cup {MaxTtl}
  <2>1. S \in SUBSET Nat /\ S # {} /\ MaxTtl \in S
    BY <1>2
  <2> HIDE DEF S
  <2>2. Min(S) \in S /\ Min(S) <= MaxTtl
    BY <2>1, MinIsLeast
  <2>3. ttl = Min(S)
    BY DEF S
  <2> HIDE DEF ttl
  <2> QED BY <2>1, <2>2, <2>3
<1>4. CacheTtl(d, age) =
        IF (\E e \in ds : e.kind = "forbid") \/ ages = {} \/ ttl <= age THEN 0
        ELSE ttl - age
  BY DEF CacheTtl
<1> HIDE DEF ttl, ds, ages
<1>5. CacheTtl(d, age) = 0 \/ (CacheTtl(d, age) = ttl - age /\ ~(ttl <= age))
  BY <1>4
<1> QED BY <1>3, <1>5, FetcherConstants

-----------------------------------------------------------------------------
(* The invariant.                                                          *)

Busy(q) == q.pc \in {"fetching", "received"}
Permitted(q) == q.pc \in {"flight", "fetching", "received"}

TypeOK ==
  /\ clock \in Nat
  /\ cache \in [Client -> Snapshot \cup {Null}]
  /\ permits \in [free : Nat, size : Nat]
  /\ inFlight \subseteq Client
  /\ newest \in [Client -> Nat]
  /\ req \in [Req -> Caller]

SnapshotOK(l) ==
  l # Null =>
    IF l.cacheable THEN l.valid_until <= l.born + MaxTtl + Timeout
                   ELSE l.valid_until <= l.read_at + ShortLease + Timeout

(* A running fetch is not overdue, and nothing newer than its start was    *)
(* published for its client.  What it received was read since.             *)
CallerOK(q) ==
  /\ q.pc # "idle" => q.client \in Client
  /\ Busy(q) => /\ q.started <= clock /\ clock <= q.started + Timeout
                /\ newest[q.client] <= q.started
  /\ q.pc = "received" =>
       /\ q.response # Null
       /\ q.started <= q.response.read_at /\ q.response.read_at <= clock
       /\ q.response.ttl > 0 =>
            q.response.read_at + q.response.ttl <= q.response.born + MaxTtl
  /\ SnapshotOK(q.lease)

(* One fetch per client, and reservations for exactly the running ones.    *)
OneFlight ==
  /\ \A q, r \in Req : Busy(req[q]) /\ Busy(req[r])
                         /\ req[q].client = req[r].client => q = r
  /\ \A c \in Client :
       c \in inFlight <=> \E r \in Req : Busy(req[r]) /\ req[r].client = c

PermitsMatch ==
  permits.free + Cardinality({r \in Req : Permitted(req[r])}) = permits.size

Cached == {c \in Client : cache[c] # Null}

CacheOK ==
  /\ \A c \in Client : newest[c] <= clock /\ SnapshotOK(cache[c])
  /\ PublicationInOrder
  /\ IsFiniteSet(Cached) /\ Cardinality(Cached) <= MaxEntries

CallersOK == \A r \in Req : CallerOK(req[r])

IInv == TypeOK /\ CallersOK /\ OneFlight /\ PermitsMatch /\ CacheOK

-----------------------------------------------------------------------------
(* Lemmas about a step of one caller.                                      *)

(* A call that returned: it holds nothing but a lease that is in order.    *)
LEMMA Returned ==
  ASSUME NEW l \in Snapshot \cup {Null}, SnapshotOK(l)
  PROVE  /\ [NoCall EXCEPT !.lease = l] \in Caller
         /\ CallerOK([NoCall EXCEPT !.lease = l])
         /\ ~Busy([NoCall EXCEPT !.lease = l])
         /\ ~Permitted([NoCall EXCEPT !.lease = l])
<1> DEFINE q == [NoCall EXCEPT !.lease = l]
<1>1. q \in Caller
  BY DEF NoCall, Caller, Pc, Time
<1>2. q.pc = "idle" /\ q.lease = l
  BY DEF NoCall
<1> HIDE DEF q
<1>3. CallerOK(q) /\ ~Busy(q) /\ ~Permitted(q)
  BY <1>2 DEF CallerOK, Busy, Permitted
<1> QED BY <1>1, <1>3 DEF q

(* Only the caller that moves changes: the others keep what they know.     *)
LEMMA CallerStep ==
  ASSUME IInv, NEW r \in Req, NEW q \in Caller,
         req' = [req EXCEPT ![r] = q], CallerOK(q), UNCHANGED <<clock, newest>>
  PROVE  req' \in [Req -> Caller] /\ CallersOK' /\ req'[r] = q
<1>1. /\ req' \in [Req -> Caller] /\ req'[r] = q
      /\ \A x \in Req : x # r => req'[x] = req[x]
  BY DEF IInv, TypeOK
<1>2. \A x \in Req : CallerOK(req'[x])
  BY <1>1 DEF IInv, CallersOK
<1>3. \A x \in Req : CallerOK(req[x])'
  BY <1>2 DEF CallerOK, SnapshotOK, Busy
<1> QED BY <1>1, <1>3 DEF CallersOK

(* A reservation is made and given up with the fetch it is for.            *)
LEMMA FlightStep ==
  ASSUME IInv, NEW r \in Req, NEW q \in Caller,
         req' = [req EXCEPT ![r] = q],
         \/ /\ Busy(q) /\ ~Busy(req[r]) /\ q.client \in Client
            /\ q.client \notin inFlight
            /\ inFlight' = inFlight \cup {q.client}
         \/ /\ ~Busy(q) /\ Busy(req[r])
            /\ inFlight' = inFlight \ {req[r].client}
         \/ /\ Busy(q) <=> Busy(req[r])
            /\ Busy(q) => q.client = req[r].client
            /\ UNCHANGED inFlight
  PROVE  OneFlight' /\ inFlight' \subseteq Client
<1> DEFINE Holds(f, c) == \E x \in Req : Busy(f[x]) /\ f[x].client = c
<1>1. /\ req'[r] = q /\ \A x \in Req : x # r => req'[x] = req[x]
      /\ inFlight \subseteq Client
  BY DEF IInv, TypeOK
<1>2. /\ \A x, y \in Req : Busy(req[x]) /\ Busy(req[y])
                             /\ req[x].client = req[y].client => x = y
      /\ \A c \in Client : c \in inFlight <=> Holds(req, c)
  BY DEF IInv, OneFlight
<1> SUFFICES /\ \A x, y \in Req :
                  Busy(req'[x]) /\ Busy(req'[y])
                    /\ req'[x].client = req'[y].client => x = y
             /\ \A c \in Client : c \in inFlight' <=> Holds(req', c)
             /\ inFlight' \subseteq Client
  BY DEF OneFlight, Busy
<1>3. CASE /\ Busy(q) /\ ~Busy(req[r]) /\ q.client \in Client
           /\ q.client \notin inFlight
           /\ inFlight' = inFlight \cup {q.client}
  <2>1. \A x \in Req : Busy(req[x]) => req[x].client # q.client
    BY <1>2, <1>3
  <2>2. \A x \in Req : x # r /\ Busy(req'[x]) => req'[x].client # q.client
    BY <1>1, <2>1
  <2>3. \A c \in Client : Holds(req', c) <=> (Holds(req, c) \/ c = q.client)
    BY <1>1, <1>3
  <2> QED BY <1>1, <1>2, <1>3, <2>2, <2>3
<1>4. CASE /\ ~Busy(q) /\ Busy(req[r])
           /\ inFlight' = inFlight \ {req[r].client}
  <2>1. \A x \in Req : x # r /\ Busy(req[x]) => req[x].client # req[r].client
    BY <1>2, <1>4
  <2>2. \A c \in Client :
          Holds(req', c) <=> (Holds(req, c) /\ c # req[r].client)
    BY <1>1, <1>4, <2>1
  <2> QED BY <1>1, <1>2, <1>4, <2>2
<1>5. CASE /\ Busy(q) <=> Busy(req[r])
           /\ Busy(q) => q.client = req[r].client
           /\ UNCHANGED inFlight
  <2>1. \A x \in Req : /\ Busy(req'[x]) <=> Busy(req[x])
                       /\ Busy(req[x]) => req'[x].client = req[x].client
    BY <1>1, <1>5
  <2>2. \A c \in Client : Holds(req', c) <=> Holds(req, c)
    BY <2>1
  <2> QED BY <1>1, <1>2, <1>5, <2>1, <2>2
<1> QED BY <1>3, <1>4, <1>5

(* A permit changes hands with the call that holds it.                     *)
LEMMA PermitStep ==
  ASSUME IInv, NEW r \in Req, NEW q \in Caller,
         req' = [req EXCEPT ![r] = q],
         \/ Permitted(q) /\ ~Permitted(req[r]) /\ permits.free # 0 /\ TakePermit
         \/ ~Permitted(q) /\ Permitted(req[r]) /\ GivePermit
         \/ (Permitted(q) <=> Permitted(req[r])) /\ UNCHANGED permits
  PROVE  PermitsMatch' /\ permits' \in [free : Nat, size : Nat]
<1> DEFINE before == {x \in Req : Permitted(req[x])}
           after == {x \in Req : Permitted(req'[x])}
<1>1. /\ req'[r] = q /\ \A x \in Req : x # r => req'[x] = req[x]
      /\ permits \in [free : Nat, size : Nat]
  BY DEF IInv, TypeOK
<1>2. after = {x \in Req : Permitted(req[x])'}
  BY DEF Permitted
<1>3. IsFiniteSet(before) /\ Cardinality(before) \in Nat
  BY FetcherSets, FS_Subset, FS_CardinalityType
<1>4. permits.free + Cardinality(before) = permits.size
  BY DEF IInv, PermitsMatch
<1>5. CASE /\ Permitted(q) /\ ~Permitted(req[r])
           /\ permits.free # 0 /\ TakePermit
  <2>1. r \notin before /\ after = before \cup {r}
    BY <1>1, <1>5
  <2>2. Cardinality(after) = Cardinality(before) + 1
    <3> HIDE DEF before, after
    <3> QED BY <1>3, <2>1, FS_AddElement
  <2>3. permits' = [permits EXCEPT !.free = permits.free - 1]
    BY <1>5 DEF TakePermit
  <2>4. /\ permits' \in [free : Nat, size : Nat]
        /\ permits'.free = permits.free - 1 /\ permits'.size = permits.size
    BY <1>1, <1>5, <2>3
  <2>5. permits'.free + Cardinality(after) = permits'.size
    <3> HIDE DEF before, after
    <3> QED BY <1>1, <1>3, <1>4, <2>2, <2>4
  <2> QED BY <1>2, <2>4, <2>5 DEF PermitsMatch
<1>6. CASE ~Permitted(q) /\ Permitted(req[r]) /\ GivePermit
  <2>1. r \in before /\ after = before \ {r}
    BY <1>1, <1>6
  <2>2. Cardinality(after) = Cardinality(before) - 1
    <3> HIDE DEF before, after
    <3> QED BY <1>3, <2>1, FS_RemoveElement
  <2>3. permits' = [permits EXCEPT !.free = permits.free + 1]
    BY <1>6 DEF GivePermit
  <2>4. /\ permits' \in [free : Nat, size : Nat]
        /\ permits'.free = permits.free + 1 /\ permits'.size = permits.size
    BY <1>1, <2>3
  <2>5. permits'.free + Cardinality(after) = permits'.size
    <3> HIDE DEF before, after
    <3> QED BY <1>1, <1>3, <1>4, <2>2, <2>4
  <2> QED BY <1>2, <2>4, <2>5 DEF PermitsMatch
<1>7. CASE (Permitted(q) <=> Permitted(req[r])) /\ UNCHANGED permits
  <2>1. after = before
    BY <1>1, <1>7
  <2> QED BY <1>1, <1>2, <1>4, <1>7, <2>1 DEF PermitsMatch
<1> QED BY <1>5, <1>6, <1>7

(* What the fetcher keeps besides the callers.                             *)
LEMMA SameCache ==
  ASSUME IInv, UNCHANGED <<clock, cache, newest>>
  PROVE  CacheOK' /\ clock' \in Nat /\ newest' \in [Client -> Nat]
         /\ cache' \in [Client -> Snapshot \cup {Null}]
<1>1. CacheOK /\ TypeOK
  BY DEF IInv
<1>2. Cached' = Cached
  BY DEF Cached
<1>3. \A c \in Client : newest'[c] <= clock' /\ SnapshotOK(cache[c])'
  BY <1>1 DEF CacheOK, SnapshotOK
<1> QED BY <1>1, <1>2, <1>3 DEF CacheOK, PublicationInOrder, TypeOK

(* The end of a fetch that publishes nothing.                              *)
LEMMA EndStep ==
  ASSUME IInv, NEW r \in Req, NEW l \in Snapshot \cup {Null}, SnapshotOK(l),
         Returns(r, l),
         \/ ~Permitted(req[r]) /\ UNCHANGED <<permits, inFlight>>
         \/ Permitted(req[r]) /\ ~Busy(req[r]) /\ GivePermit
              /\ UNCHANGED inFlight
         \/ Busy(req[r]) /\ Release(r),
         UNCHANGED <<clock, cache, newest>>
  PROVE  IInv'
<1> DEFINE q == [NoCall EXCEPT !.lease = l]
<1>1. q \in Caller /\ CallerOK(q) /\ ~Busy(q) /\ ~Permitted(q)
  BY Returned
<1>2. req' = [req EXCEPT ![r] = q]
  BY DEF Returns
<1> HIDE DEF q
<1>3. req' \in [Req -> Caller] /\ CallersOK'
  BY <1>1, <1>2, CallerStep
<1>4. Busy(req[r]) => Permitted(req[r])
  BY DEF Busy, Permitted
<1>5. PermitsMatch' /\ permits' \in [free : Nat, size : Nat]
  BY <1>1, <1>2, <1>4, PermitStep DEF Release
<1>6. OneFlight' /\ inFlight' \subseteq Client
  <2>1. \/ Busy(req[r]) /\ inFlight' = inFlight \ {req[r].client}
        \/ ~Busy(req[r]) /\ UNCHANGED inFlight
    BY <1>4 DEF Release
  <2> QED BY <1>1, <1>2, <2>1, FlightStep
<1> QED BY <1>3, <1>5, <1>6, SameCache DEF IInv, TypeOK

-----------------------------------------------------------------------------
(* Each action keeps the invariant.                                        *)

LEMMA CachedInOrder ==
  ASSUME IInv, NEW c \in Client
  PROVE  cache[c] \in Snapshot \cup {Null} /\ SnapshotOK(cache[c])
BY DEF IInv, TypeOK, CacheOK

LEMMA TickStep ==
  ASSUME IInv, Tick
  PROVE  IInv'
<1>1. /\ clock \in Nat /\ clock' = clock + 1 /\ UNCHANGED req
      /\ UNCHANGED <<cache, permits, inFlight, newest>>
  BY DEF Tick, shared, IInv, TypeOK
<1>2. TypeOK'
  BY <1>1 DEF IInv, TypeOK
<1>3. ASSUME NEW r \in Req PROVE CallerOK(req[r])'
  <2>1. req[r] \in Caller /\ CallerOK(req[r]) /\ ~Overdue(r)
    BY DEF IInv, TypeOK, CallersOK, Tick
  <2>2. /\ req[r].started \in Nat
        /\ req[r].response # Null => req[r].response.read_at \in Nat
    BY <2>1 DEF Caller, Time, Response
  <2>3. Busy(req[r]) => clock < req[r].started + Timeout
    BY <1>1, <2>1, <2>2, FetcherConstants DEF Overdue, Busy
  <2>4. SnapshotOK(req[r].lease)'
    BY <1>1, <2>1 DEF CallerOK, SnapshotOK
  <2>5. Busy(req[r]) => /\ req[r].started <= clock'
                        /\ clock' <= req[r].started + Timeout
                        /\ newest[req[r].client] <= req[r].started
    BY <1>1, <2>1, <2>2, <2>3, FetcherConstants DEF CallerOK
  <2>6. req[r].pc = "received" =>
          /\ req[r].response # Null
          /\ req[r].started <= req[r].response.read_at
          /\ req[r].response.read_at <= clock'
          /\ req[r].response.ttl > 0 =>
               req[r].response.read_at + req[r].response.ttl
                 <= req[r].response.born + MaxTtl
    BY <1>1, <2>1, <2>2 DEF CallerOK
  <2>7. req[r].pc # "idle" => req[r].client \in Client
    BY <2>1 DEF CallerOK
  <2> QED BY <1>1, <2>4, <2>5, <2>6, <2>7 DEF CallerOK, Busy
<1>4. OneFlight' /\ PermitsMatch'
  BY <1>1 DEF IInv, OneFlight, PermitsMatch, Busy, Permitted
<1>5. CacheOK'
  <2>1. \A c \in Client : newest[c] \in Nat /\ newest[c] <= clock
    BY DEF IInv, TypeOK, CacheOK
  <2>2. \A c \in Client : newest'[c] <= clock'
    BY <1>1, <2>1
  <2>3. \A c \in Client : SnapshotOK(cache[c])'
    BY <1>1 DEF IInv, CacheOK, SnapshotOK
  <2>4. Cached' = Cached
    BY <1>1 DEF Cached
  <2> QED BY <1>1, <2>2, <2>3, <2>4 DEF IInv, CacheOK, PublicationInOrder
<1> QED BY <1>2, <1>3, <1>4, <1>5 DEF IInv, CallersOK

LEMMA StutterStep ==
  ASSUME IInv, UNCHANGED vars
  PROVE  IInv'
<1>1. UNCHANGED <<clock, cache, permits, inFlight, newest, req>>
  BY DEF vars
<1>2. \A r \in Req : CallerOK(req[r])'
  BY <1>1 DEF IInv, CallersOK, CallerOK, SnapshotOK, Busy
<1>3. OneFlight' /\ PermitsMatch'
  BY <1>1 DEF IInv, OneFlight, PermitsMatch, Busy, Permitted
<1> QED BY <1>1, <1>2, <1>3, SameCache DEF IInv, TypeOK, CallersOK

LEMMA LookupStep ==
  ASSUME IInv, NEW r \in Req, NEW c \in Client, Lookup(r, c)
  PROVE  IInv'
<1>1. /\ req[r].pc = "idle" /\ ~Permitted(req[r]) /\ ~Busy(req[r])
      /\ UNCHANGED <<clock, cache, permits, inFlight, newest>>
  BY DEF Lookup, shared, Permitted, Busy
<1>2. CASE Returns(r, cache[c])
  BY <1>1, <1>2, EndStep, CachedInOrder
<1>3. CASE req' = [req EXCEPT ![r] = [NoCall EXCEPT !.pc = "permit",
                                                    !.client = c]]
  <2> DEFINE q == [NoCall EXCEPT !.pc = "permit", !.client = c]
  <2>1. q \in Caller
    BY DEF NoCall, Caller, Pc, Time
  <2>2. q.pc = "permit" /\ q.client = c /\ q.lease = Null
    BY DEF NoCall
  <2>3. req' = [req EXCEPT ![r] = q]
    BY <1>3
  <2> HIDE DEF q
  <2>4. CallerOK(q) /\ ~Busy(q) /\ ~Permitted(q)
    BY <2>2 DEF CallerOK, Busy, Permitted, SnapshotOK
  <2>5. req' \in [Req -> Caller] /\ CallersOK'
    BY <1>1, <2>1, <2>3, <2>4, CallerStep
  <2>6. OneFlight' /\ inFlight' \subseteq Client
    BY <1>1, <2>1, <2>3, <2>4, FlightStep
  <2>7. PermitsMatch' /\ permits' \in [free : Nat, size : Nat]
    BY <1>1, <2>1, <2>3, <2>4, PermitStep
  <2> QED BY <1>1, <2>5, <2>6, <2>7, SameCache DEF IInv, TypeOK
<1> QED BY <1>2, <1>3 DEF Lookup, Hit

LEMMA NullInOrder ==
  Null \in Snapshot \cup {Null} /\ SnapshotOK(Null)
BY DEF SnapshotOK

LEMMA AcquireStep ==
  ASSUME IInv, NEW r \in Req, TryAcquire(r)
  PROVE  IInv'
<1>1. /\ req[r].pc = "permit" /\ ~Permitted(req[r]) /\ ~Busy(req[r])
      /\ req[r] \in Caller /\ CallerOK(req[r])
      /\ UNCHANGED <<clock, cache, inFlight, newest>>
  BY DEF TryAcquire, Permitted, Busy, IInv, TypeOK, CallersOK
<1>2. CASE Errs(r) /\ UNCHANGED permits
  BY <1>1, <1>2, EndStep, NullInOrder DEF Errs
<1>3. CASE /\ permits.free # 0 /\ TakePermit
           /\ req' = [req EXCEPT ![r].pc = "flight"]
  <2> DEFINE q == [req[r] EXCEPT !.pc = "flight"]
  <2>1. q \in Caller
    BY <1>1 DEF Caller, Pc
  <2>2. q.pc = "flight" /\ q.client = req[r].client /\ q.lease = req[r].lease
    BY <1>1 DEF Caller
  <2>3. req' = [req EXCEPT ![r] = q]
    BY <1>3 DEF IInv, TypeOK
  <2> HIDE DEF q
  <2>4. CallerOK(q) /\ ~Busy(q) /\ Permitted(q)
    BY <1>1, <2>2 DEF CallerOK, Busy, Permitted, SnapshotOK
  <2>5. req' \in [Req -> Caller] /\ CallersOK'
    BY <1>1, <2>1, <2>3, <2>4, CallerStep
  <2>6. OneFlight' /\ inFlight' \subseteq Client
    BY <1>1, <2>1, <2>3, <2>4, FlightStep
  <2>7. PermitsMatch' /\ permits' \in [free : Nat, size : Nat]
    BY <1>1, <1>3, <2>1, <2>3, <2>4, PermitStep
  <2> QED BY <1>1, <2>5, <2>6, <2>7, SameCache DEF IInv, TypeOK
<1> QED BY <1>2, <1>3 DEF TryAcquire

(* The flight is free, so nothing can be published before this fetch ends. *)
LEMMA ReserveStep ==
  ASSUME IInv, NEW r \in Req, TryReserve(r)
  PROVE  IInv'
<1>1. /\ req[r].pc = "flight" /\ Permitted(req[r]) /\ ~Busy(req[r])
      /\ req[r] \in Caller /\ CallerOK(req[r]) /\ req[r].client \in Client
      /\ UNCHANGED <<clock, cache, newest>>
  BY DEF TryReserve, Permitted, Busy, IInv, TypeOK, CallersOK, CallerOK
<1>2. CASE Errs(r) /\ GivePermit /\ UNCHANGED inFlight
  BY <1>1, <1>2, EndStep, NullInOrder DEF Errs
<1>3. CASE /\ req[r].client \notin inFlight
           /\ req' = [req EXCEPT ![r].pc = "fetching", ![r].started = clock]
           /\ inFlight' = inFlight \cup {req[r].client}
           /\ UNCHANGED permits
  <2> DEFINE q == [req[r] EXCEPT !.pc = "fetching", !.started = clock]
  <2>1. q \in Caller
    BY <1>1 DEF Caller, Pc, Time, IInv, TypeOK
  <2>2. /\ q.pc = "fetching" /\ q.client = req[r].client
        /\ q.lease = req[r].lease /\ q.started = clock
    BY <1>1 DEF Caller
  <2>3. req' = [req EXCEPT ![r] = q]
    BY <1>3 DEF IInv, TypeOK
  <2> HIDE DEF q
  <2>4. clock \in Nat /\ newest[req[r].client] <= clock
    BY <1>1 DEF IInv, TypeOK, CacheOK
  <2>5. CallerOK(q) /\ Busy(q) /\ Permitted(q)
    BY <1>1, <2>2, <2>4, FetcherConstants
    DEF CallerOK, Busy, Permitted, SnapshotOK
  <2>6. req' \in [Req -> Caller] /\ CallersOK'
    BY <1>1, <2>1, <2>3, <2>5, CallerStep
  <2>7. OneFlight' /\ inFlight' \subseteq Client
    BY <1>1, <1>3, <2>1, <2>2, <2>3, <2>5, FlightStep
  <2>8. PermitsMatch' /\ permits' \in [free : Nat, size : Nat]
    BY <1>1, <1>3, <2>1, <2>3, <2>5, PermitStep
  <2> QED BY <1>1, <2>6, <2>7, <2>8, SameCache DEF IInv, TypeOK
<1> QED BY <1>2, <1>3 DEF TryReserve, FlightTaken

LEMMA RespondStep ==
  ASSUME IInv, NEW r \in Req, Respond(r)
  PROVE  IInv'
<1>1. PICK d \in CacheControl, age \in Ages :
        /\ age <= clock
        /\ req' = [req EXCEPT ![r].pc = "received",
                     ![r].response = [born |-> clock - age, read_at |-> clock,
                                      ttl |-> CacheTtl(d, age)]]
  BY DEF Respond
<1> DEFINE ttl == CacheTtl(d, age)
           a == [born |-> clock - age, read_at |-> clock, ttl |-> ttl]
           q == [req[r] EXCEPT !.pc = "received", !.response = a]
<1>2. /\ req[r].pc = "fetching" /\ Permitted(req[r]) /\ Busy(req[r])
      /\ req[r] \in Caller /\ CallerOK(req[r])
      /\ UNCHANGED <<clock, cache, permits, inFlight, newest>>
  BY DEF Respond, shared, Permitted, Busy, IInv, TypeOK, CallersOK
<1>3. /\ age \in Nat /\ clock \in Nat
      /\ ttl \in Nat /\ (ttl > 0 => ttl + age <= MaxTtl)
  BY TtlCapped, FetcherConstants DEF IInv, TypeOK
<1>4. req' = [req EXCEPT ![r] = q]
  BY <1>1 DEF IInv, TypeOK
<1> HIDE DEF ttl
<1>5. a \in Response /\ a.born = clock - age /\ a.read_at = clock /\ a.ttl = ttl
  BY <1>1, <1>3 DEF Response, Time
<1>6. a # Null
  BY <1>5, FetcherSets
<1> HIDE DEF a
<1>7. q \in Caller
  BY <1>2, <1>5 DEF Caller, Pc
<1>8. /\ q.pc = "received" /\ q.client = req[r].client
      /\ q.lease = req[r].lease /\ q.started = req[r].started
      /\ q.response = a
  BY <1>2 DEF Caller
<1> HIDE DEF q
<1>9. a.ttl > 0 => a.read_at + a.ttl <= a.born + MaxTtl
  BY <1>1, <1>3, <1>5, FetcherConstants
<1>10. Busy(q) /\ Permitted(q)
  BY <1>8 DEF Busy, Permitted
<1>11. CallerOK(q)
  <2>1. /\ q.started <= clock /\ clock <= q.started + Timeout
        /\ newest[q.client] <= q.started /\ q.client \in Client
        /\ SnapshotOK(q.lease)
    BY <1>2, <1>8 DEF CallerOK
  <2>2. /\ q.response # Null /\ q.started <= q.response.read_at
        /\ q.response.read_at <= clock
        /\ q.response.ttl > 0 =>
             q.response.read_at + q.response.ttl <= q.response.born + MaxTtl
    BY <1>3, <1>5, <1>6, <1>8, <1>9, <2>1
  <2> QED BY <2>1, <2>2 DEF CallerOK
<1>12. req' \in [Req -> Caller] /\ CallersOK'
  BY <1>2, <1>4, <1>7, <1>11, CallerStep
<1>13. OneFlight' /\ inFlight' \subseteq Client
  BY <1>2, <1>4, <1>7, <1>8, <1>10, FlightStep
<1>14. PermitsMatch' /\ permits' \in [free : Nat, size : Nat]
  BY <1>2, <1>4, <1>7, <1>10, PermitStep
<1> QED BY <1>2, <1>12, <1>13, <1>14, SameCache DEF IInv, TypeOK

LEMMA FailStep ==
  ASSUME IInv, NEW r \in Req, FetchFails(r) \/ Cancel(r)
  PROVE  IInv'
<1>1. /\ Busy(req[r]) /\ Returns(r, Null) /\ Release(r)
      /\ UNCHANGED <<clock, cache, newest>>
  BY DEF FetchFails, Cancel, Errs, Busy
<1> QED BY <1>1, EndStep, NullInOrder

(* What a fetch that received a document makes of it.                      *)
LEMMA NewSnapshotInOrder ==
  ASSUME IInv, NEW r \in Req, req[r].pc = "received"
  PROVE  /\ NewSnapshot(req[r]) \in Snapshot
         /\ SnapshotOK(NewSnapshot(req[r]))
         /\ NewSnapshot(req[r]).client = req[r].client
         /\ NewSnapshot(req[r]).read_at \in Nat
         /\ newest[req[r].client] <= NewSnapshot(req[r]).read_at
         /\ NewSnapshot(req[r]).read_at <= clock
<1> DEFINE q == req[r]
           a == q.response
           s == NewSnapshot(q)
<1>1. /\ q \in Caller /\ CallerOK(q) /\ Busy(q) /\ q.pc = "received"
      /\ clock \in Nat
  BY DEF IInv, TypeOK, CallersOK, Busy
<1>2. /\ q.client \in Client /\ a # Null /\ newest[q.client] <= q.started
      /\ q.started <= clock /\ clock <= q.started + Timeout
      /\ q.started <= a.read_at /\ a.read_at <= clock
      /\ a.ttl > 0 => a.read_at + a.ttl <= a.born + MaxTtl
  BY <1>1 DEF CallerOK
<1>3. a \in Response /\ q.started \in Nat
  BY <1>1, <1>2 DEF Caller, Time
<1>4. a.born \in Nat /\ a.read_at \in Nat /\ a.ttl \in Nat
  BY <1>3 DEF Response, Time
<1>5. newest[q.client] \in Nat
  BY <1>2 DEF IInv, TypeOK
<1>6. /\ s.client = q.client /\ s.born = a.born /\ s.read_at = a.read_at
      /\ s.cacheable = (a.ttl > 0)
      /\ s.valid_until = clock + (IF a.ttl > 0 THEN a.ttl ELSE ShortLease)
  BY DEF NewSnapshot
<1> DEFINE until == clock + (IF a.ttl > 0 THEN a.ttl ELSE ShortLease)
<1>7. until \in Nat /\ (a.ttl > 0) \in BOOLEAN
  BY <1>1, <1>4, FetcherConstants
<1>8. s = [client |-> q.client, born |-> a.born, read_at |-> a.read_at,
           cacheable |-> a.ttl > 0, valid_until |-> until]
  BY DEF NewSnapshot
<1> HIDE DEF until
<1>9. s \in Snapshot
  <2> DEFINE b == a.ttl > 0
  <2>1. s = [client |-> q.client, born |-> a.born, read_at |-> a.read_at,
             cacheable |-> b, valid_until |-> until] /\ b \in BOOLEAN
    BY <1>7, <1>8
  <2>2. q.client \in Client /\ a.born \in Time /\ a.read_at \in Time
        /\ until \in Time
    BY <1>2, <1>4, <1>7 DEF Time
  <2> HIDE DEF b, s, a, q
  <2> QED BY <2>1, <2>2 DEF Snapshot
<1> HIDE DEF s, a, q
<1>10. SnapshotOK(s)
  <2>1. CASE a.ttl > 0
    <3>1. s.cacheable /\ s.valid_until = clock + a.ttl
      BY <1>6, <2>1
    <3>2. clock + a.ttl <= a.born + MaxTtl + Timeout
      <4>1. clock <= a.read_at + Timeout
        BY <1>1, <1>2, <1>3, <1>4, FetcherConstants
      <4>2. a.read_at + a.ttl <= a.born + MaxTtl
        BY <1>2, <2>1
      <4> QED BY <1>1, <1>4, <4>1, <4>2, FetcherConstants
    <3> QED BY <1>6, <3>1, <3>2 DEF SnapshotOK
  <2>2. CASE ~(a.ttl > 0)
    <3>1. ~s.cacheable /\ s.valid_until = clock + ShortLease
      BY <1>6, <2>2
    <3>2. clock + ShortLease <= a.read_at + ShortLease + Timeout
      BY <1>1, <1>2, <1>3, <1>4, FetcherConstants
    <3> QED BY <1>6, <3>1, <3>2 DEF SnapshotOK
  <2> QED BY <2>1, <2>2
<1>11. newest[q.client] <= a.read_at
  BY <1>2, <1>3, <1>4, <1>5
<1> QED BY <1>2, <1>4, <1>6, <1>9, <1>10, <1>11 DEF s, q

(* Making room leaves space for one more entry.                            *)
LEMMA RoomForOne ==
  ASSUME IInv, NEW kept \in Kept
  PROVE  /\ kept \subseteq Cached /\ IsFiniteSet(kept)
         /\ Cardinality(kept) + 1 <= MaxEntries
<1>1. /\ IsFiniteSet(Cached) /\ Cardinality(Cached) <= MaxEntries
      /\ MaxEntries \in Nat
  BY FetcherConstants DEF IInv, CacheOK
<1>2. FreshKeys \subseteq Cached
  BY DEF FreshKeys, Cached, IsFresh
<1>3. /\ IsFiniteSet(FreshKeys) /\ Cardinality(FreshKeys) \in Nat
      /\ Cardinality(FreshKeys) <= MaxEntries
  <2>1. /\ IsFiniteSet(FreshKeys)
        /\ Cardinality(FreshKeys) <= Cardinality(Cached)
    BY <1>1, <1>2, FS_Subset
  <2> QED BY <1>1, <2>1, FS_CardinalityType
<1>4. CASE Cardinality(FreshKeys) >= MaxEntries
  <2>1. PICK c \in FreshKeys : kept = FreshKeys \ {c}
    BY <1>4 DEF Kept
  <2>2. IsFiniteSet(kept) /\ Cardinality(kept) = Cardinality(FreshKeys) - 1
    BY <1>3, <2>1, FS_RemoveElement
  <2> QED BY <1>1, <1>2, <1>3, <2>1, <2>2
<1>5. CASE ~(Cardinality(FreshKeys) >= MaxEntries)
  <2>1. kept = FreshKeys
    BY <1>5 DEF Kept
  <2> QED BY <1>1, <1>2, <1>3, <1>5, <2>1
<1> QED BY <1>4, <1>5

(* What is published is newer than what it replaces, and no running fetch  *)
(* of another caller is for its client.                                    *)
LEMMA PublishStep ==
  ASSUME IInv, NEW r \in Req, Complete(r), NEW s \in Snapshot,
         s = NewSnapshot(req[r]), NEW kept \in Kept, Publish(s, kept),
         newest' = [newest EXCEPT ![req[r].client] =
                      Max({newest[req[r].client], s.read_at})]
  PROVE  IInv'
<1> DEFINE c == req[r].client
           q == [NoCall EXCEPT !.lease = s]
<1>1. /\ req[r].pc = "received" /\ Busy(req[r]) /\ Permitted(req[r])
      /\ req' = [req EXCEPT ![r] = q] /\ Release(r) /\ UNCHANGED clock
  BY DEF Complete, Returns, Busy, Permitted
<1>2. /\ SnapshotOK(s) /\ s.client = c /\ c \in Client /\ s.read_at \in Nat
      /\ newest[c] <= s.read_at /\ s.read_at <= clock
  <2>1. c \in Client
    BY <1>1 DEF IInv, CallersOK, CallerOK
  <2> QED BY <1>1, <2>1, NewSnapshotInOrder
<1>3. q \in Caller /\ CallerOK(q) /\ ~Busy(q) /\ ~Permitted(q) /\ q.pc = "idle"
  BY <1>2, Returned DEF NoCall
<1>4. q.lease = s
  BY DEF NoCall
<1> HIDE DEF q
<1>5. /\ newest \in [Client -> Nat] /\ clock \in Nat
      /\ cache \in [Client -> Snapshot \cup {Null}]
      /\ req \in [Req -> Caller]
  BY DEF IInv, TypeOK
<1>6. newest' = [newest EXCEPT ![c] = s.read_at]
  <2>1. newest[c] \in Nat
    BY <1>2, <1>5
  <2>2. Max({newest[c], s.read_at})
          = IF newest[c] >= s.read_at THEN newest[c] ELSE s.read_at
    BY <1>2, <2>1, MaxOfTwo
  <2>3. Max({newest[c], s.read_at}) = s.read_at
    BY <1>2, <2>1, <2>2
  <2> QED BY <2>3
<1>7. /\ newest' \in [Client -> Nat] /\ newest'[c] = s.read_at
      /\ \A x \in Client : x # c => newest'[x] = newest[x]
  BY <1>2, <1>5, <1>6
<1>8. /\ req' \in [Req -> Caller] /\ req'[r] = q
      /\ \A x \in Req : x # r => req'[x] = req[x]
  BY <1>1, <1>3, <1>5
<1>9. CallersOK'
  <2>1. ASSUME NEW x \in Req PROVE CallerOK(req[x])'
    <3>1. CASE x = r
      BY <1>1, <1>2, <1>3, <1>4, <1>8, <3>1
      DEF CallerOK, SnapshotOK, Busy
    <3>2. CASE x # r
      <4>1. CallerOK(req[x]) /\ req'[x] = req[x]
        BY <1>8, <3>2 DEF IInv, CallersOK
      <4>2. Busy(req[x]) => req[x].client \in Client /\ req[x].client # c
        BY <1>1, <3>2, <4>1 DEF IInv, OneFlight, CallerOK, Busy
      <4>3. Busy(req[x]) => newest'[req[x].client] = newest[req[x].client]
        BY <1>7, <4>2
      <4> QED BY <1>1, <4>1, <4>3 DEF CallerOK, SnapshotOK, Busy
    <3> QED BY <3>1, <3>2
  <2> QED BY <2>1 DEF CallersOK
<1>10. OneFlight' /\ inFlight' \subseteq Client
  BY <1>1, <1>3, FlightStep DEF Release
<1>11. PermitsMatch' /\ permits' \in [free : Nat, size : Nat]
  BY <1>1, <1>3, PermitStep DEF Release
<1>12. \A x \in Client :
         cache'[x] = IF x = c THEN s ELSE IF x \in kept THEN cache[x] ELSE Null
  BY <1>2 DEF Publish
<1>13. cache' \in [Client -> Snapshot \cup {Null}]
  <2>1. cache' = [x \in Client |->
                    IF x = c THEN s ELSE IF x \in kept THEN cache[x] ELSE Null]
    BY <1>2 DEF Publish
  <2> QED BY <1>5, <2>1
<1>14. \A x \in Client : newest'[x] <= clock' /\ SnapshotOK(cache[x])'
  <2>1. \A x \in Client : SnapshotOK(cache'[x])
    BY <1>2, <1>12 DEF IInv, CacheOK, SnapshotOK
  <2>2. \A x \in Client : newest'[x] <= clock'
    BY <1>1, <1>2, <1>7 DEF IInv, CacheOK
  <2> QED BY <2>1, <2>2 DEF SnapshotOK
<1>15. PublicationInOrder'
  <2>1. ASSUME NEW x \in Client, cache'[x] # Null
        PROVE  cache'[x].read_at = newest'[x]
    <3>1. CASE x = c
      BY <1>7, <1>12, <3>1
    <3>2. CASE x # c
      <4>1. cache'[x] = cache[x] /\ newest'[x] = newest[x]
        BY <1>7, <1>12, <2>1, <3>2
      <4> QED BY <2>1, <4>1 DEF IInv, CacheOK, PublicationInOrder
    <3> QED BY <3>1, <3>2
  <2> QED BY <2>1 DEF PublicationInOrder
<1>16. IsFiniteSet(Cached') /\ Cardinality(Cached') <= MaxEntries
  <2>1. IsFiniteSet(kept) /\ Cardinality(kept) + 1 <= MaxEntries
    BY RoomForOne
  <2>2. Cardinality(kept) \in Nat /\ MaxEntries \in Nat
    BY <2>1, FS_CardinalityType, FetcherConstants
  <2>3. /\ IsFiniteSet(kept \cup {c})
        /\ Cardinality(kept \cup {c}) \in {Cardinality(kept),
                                           Cardinality(kept) + 1}
    <3> HIDE DEF c
    <3>1. CASE c \in kept
      <4>1. kept \cup {c} = kept
        BY <3>1
      <4> QED BY <2>1, <4>1
    <3>2. CASE c \notin kept
      BY <2>1, <3>2, FS_AddElement
    <3> QED BY <3>1, <3>2
  <2>4. Cached' \subseteq kept \cup {c}
    BY <1>12 DEF Cached
  <2>5. /\ IsFiniteSet(Cached')
        /\ Cardinality(Cached') <= Cardinality(kept \cup {c})
    <3> DEFINE new == Cached'
    <3>1. new \subseteq kept \cup {c}
      BY <2>4
    <3> HIDE DEF new, c
    <3>2. IsFiniteSet(new) /\ Cardinality(new) <= Cardinality(kept \cup {c})
      BY <2>3, <3>1, FS_Subset
    <3> QED BY <3>2 DEF new
  <2>6. Cardinality(Cached') \in Nat
    BY <2>5, FS_CardinalityType
  <2> QED BY <2>1, <2>2, <2>3, <2>5, <2>6
<1>17. TypeOK'
  BY <1>1, <1>5, <1>7, <1>8, <1>10, <1>11, <1>13 DEF TypeOK
<1> QED BY <1>9, <1>10, <1>11, <1>14, <1>15, <1>16, <1>17 DEF IInv, CacheOK

LEMMA CompleteStep ==
  ASSUME IInv, NEW r \in Req, Complete(r)
  PROVE  IInv'
<1> DEFINE s == NewSnapshot(req[r])
<1>1. /\ req[r].pc = "received" /\ Busy(req[r])
      /\ Returns(r, s) /\ Release(r) /\ UNCHANGED clock
      /\ \/ UNCHANGED <<cache, newest>>
         \/ /\ \E kept \in Kept : Publish(s, kept)
            /\ newest' = [newest EXCEPT ![req[r].client] =
                            Max({newest[req[r].client], s.read_at})]
  BY DEF Complete, Busy
<1>2. s \in Snapshot /\ SnapshotOK(s)
  BY <1>1, NewSnapshotInOrder
<1>3. CASE UNCHANGED <<cache, newest>>
  <2> HIDE DEF s
  <2> QED BY <1>1, <1>2, <1>3, EndStep
<1>4. CASE /\ \E kept \in Kept : Publish(s, kept)
           /\ newest' = [newest EXCEPT ![req[r].client] =
                           Max({newest[req[r].client], s.read_at})]
  <2>1. PICK kept \in Kept : Publish(s, kept)
    BY <1>4
  <2> QED BY <1>2, <1>4, <2>1, PublishStep
<1> QED BY <1>1, <1>3, <1>4

-----------------------------------------------------------------------------
(* The theorems.                                                           *)

LEMMA InitInv == Init => IInv
<1> SUFFICES ASSUME Init PROVE IInv
  OBVIOUS
<1>1. PICK n \in Capacities : permits = [free |-> n, size |-> n]
  BY DEF Init
<1>2. /\ clock = 0 /\ inFlight = {} /\ n \in Nat
      /\ \A c \in Client : cache[c] = Null /\ newest[c] = 0
      /\ \A r \in Req : req[r] = [NoCall EXCEPT !.lease = Null]
  <2>1. NoCall = [NoCall EXCEPT !.lease = Null]
    BY DEF NoCall
  <2> QED BY <2>1, FetcherConstants DEF Init
<1>3. /\ \A r \in Req : /\ req[r] \in Caller /\ CallerOK(req[r])
                        /\ ~Busy(req[r]) /\ ~Permitted(req[r])
  <2> HIDE DEF Init
  <2> QED BY <1>2, Returned, NullInOrder
<1>4. TypeOK
  <2>1. req \in [Req -> Caller]
    <3>1. req = [r \in Req |-> req[r]]
      BY DEF Init
    <3> QED BY <1>3, <3>1
  <2>2. permits \in [free : Nat, size : Nat]
    BY <1>1, <1>2
  <2> QED BY <2>1, <2>2 DEF TypeOK, Init
<1>5. OneFlight
  BY <1>2, <1>3 DEF OneFlight
<1>6. PermitsMatch
  <2> DEFINE held == {r \in Req : Permitted(req[r])}
  <2>1. held = {}
    BY <1>3
  <2> HIDE DEF held
  <2>2. Cardinality(held) = 0
    BY <2>1, FS_EmptySet
  <2>3. permits.free = n /\ permits.size = n
    BY <1>1
  <2>4. permits.free + Cardinality(held) = permits.size
    BY <1>2, <2>2, <2>3
  <2> QED BY <2>4 DEF PermitsMatch, held
<1>7. CacheOK
  <2>1. Cached = {}
    BY <1>2 DEF Cached
  <2>2. IsFiniteSet({}) /\ Cardinality({}) = 0
    BY FS_EmptySet
  <2>3. IsFiniteSet(Cached) /\ Cardinality(Cached) <= MaxEntries
    BY <2>1, <2>2, FetcherConstants
  <2> QED BY <1>2, <2>3 DEF CacheOK, PublicationInOrder, SnapshotOK
<1> QED BY <1>3, <1>4, <1>5, <1>6, <1>7 DEF IInv, CallersOK

LEMMA NextInv == IInv /\ [Next]_vars => IInv'
<1> SUFFICES ASSUME IInv, [Next]_vars PROVE IInv'
  OBVIOUS
<1>1. CASE Tick
  BY <1>1, TickStep
<1>2. CASE UNCHANGED vars
  BY <1>2, StutterStep
<1>3. ASSUME NEW r \in Req, NEW c \in Client, Lookup(r, c) PROVE IInv'
  BY <1>3, LookupStep
<1>4. ASSUME NEW r \in Req, TryAcquire(r) PROVE IInv'
  BY <1>4, AcquireStep
<1>5. ASSUME NEW r \in Req, TryReserve(r) PROVE IInv'
  BY <1>5, ReserveStep
<1>6. ASSUME NEW r \in Req, Respond(r) PROVE IInv'
  BY <1>6, RespondStep
<1>7. ASSUME NEW r \in Req, FetchFails(r) \/ Cancel(r) PROVE IInv'
  BY <1>7, FailStep
<1>8. ASSUME NEW r \in Req, Complete(r) PROVE IInv'
  BY <1>8, CompleteStep
<1> QED BY <1>1, <1>2, <1>3, <1>4, <1>5, <1>6, <1>7, <1>8 DEF Next, TimeIsUp

LEMMA Invariance == Spec => []IInv
BY InitInv, NextInv, PTL DEF Spec

(* What is cached for a client was read later than everything published    *)
(* for it before: fetches for one client never overlap (try_reserve), so   *)
(* no slow one can overwrite the result of a later one.                    *)
THEOREM PublishedInOrder == Spec => []PublicationInOrder
<1>1. IInv => PublicationInOrder
  BY DEF IInv, CacheOK
<1> QED BY <1>1, Invariance, PTL

(* However the headers, the cache hits and the waiting fall, a snapshot in *)
(* the cache or in the hands of a caller stops being fresh in time: MaxTtl *)
(* and one request time-out after its server generated it, the short lease *)
(* and a time-out after the answer if it may not be cached.                *)
THEOREM DocumentsExpire == Spec => []StalenessBounded
<1>1. ASSUME IInv PROVE StalenessBounded
  <2>1. ASSUME NEW l \in Snapshot \cup {Null}, SnapshotOK(l), IsFresh(l)
        PROVE  IF l.cacheable THEN clock < l.born + MaxTtl + Timeout
               ELSE clock < l.read_at + ShortLease + Timeout
    <3>1. l \in Snapshot /\ l # Null /\ clock < l.valid_until
      BY <2>1 DEF IsFresh
    <3>2. /\ l.valid_until \in Nat /\ l.born \in Nat /\ l.read_at \in Nat
          /\ clock \in Nat
      BY <1>1, <3>1 DEF Snapshot, Time, IInv, TypeOK
    <3> QED BY <2>1, <3>1, <3>2, FetcherConstants DEF SnapshotOK
  <2>2. \A c \in Client : cache[c] \in Snapshot \cup {Null}
                          /\ SnapshotOK(cache[c])
    BY <1>1, CachedInOrder
  <2>3. \A r \in Req : req[r].lease \in Snapshot \cup {Null}
                       /\ SnapshotOK(req[r].lease)
    BY <1>1 DEF IInv, TypeOK, Caller, CallersOK, CallerOK
  <2> QED BY <2>1, <2>2, <2>3 DEF StalenessBounded
<1> QED BY <1>1, Invariance, PTL

(* Every permit and every reservation of the fetcher is held by a call     *)
(* that is running, on success, failure, time-out and cancellation alike;  *)
(* no two calls fetch for one client, and the cache keeps to its bound.    *)
THEOREM FetcherLimits == Spec => []LimitsHold
<1>1. ASSUME IInv PROVE LimitsHold
  <2> DEFINE Waiting == {r \in Req : req[r].pc = "flight"}
             Held == {r \in Req : Permitted(req[r])}
             f == [r \in Fetching |-> req[r].client]
  <2>1. \A r \in Req : r \in Fetching <=> Busy(req[r])
    BY DEF Fetching, Busy
  <2>2. \A r \in Fetching : r \in Req /\ req[r].client \in Client
    BY <1>1 DEF Fetching, IInv, CallersOK, CallerOK
  <2>3. inFlight = {req[r].client : r \in Fetching}
    <3>1. /\ inFlight \subseteq Client
          /\ \A c \in Client : c \in inFlight <=>
                 \E r \in Req : Busy(req[r]) /\ req[r].client = c
      BY <1>1 DEF IInv, TypeOK, OneFlight
    <3>2. \A c : c \in inFlight <=> \E r \in Fetching : req[r].client = c
      BY <2>1, <2>2, <3>1
    <3> QED BY <3>2
  <2>4. /\ IsFiniteSet(Fetching) /\ IsFiniteSet(Waiting)
        /\ Cardinality(Fetching) \in Nat /\ Cardinality(Waiting) \in Nat
    <3>1. Fetching \subseteq Req /\ Waiting \subseteq Req
      BY DEF Fetching
    <3> HIDE DEF Waiting
    <3> QED BY <3>1, FetcherSets, FS_Subset, FS_CardinalityType
  <2>5. Cardinality(inFlight) = Cardinality(Fetching)
    <3>1. f \in Bijection(Fetching, inFlight)
      <4>1. f \in [Fetching -> inFlight]
        BY <2>3
      <4>2. \A x, y \in Fetching : f[x] = f[y] => x = y
        BY <1>1, <2>1, <2>2 DEF IInv, OneFlight
      <4>3. \A c \in inFlight : \E x \in Fetching : f[x] = c
        BY <2>3
      <4>4. DOMAIN f = Fetching
        OBVIOUS
      <4> HIDE DEF f
      <4>5. IsInjective(f)
        BY <4>2, <4>4 DEF IsInjective
      <4> QED BY <4>1, <4>3, <4>5 DEF Bijection, Injection, Surjection
    <3> HIDE DEF f
    <3> QED BY <2>4, <3>1, FS_Bijection DEF ExistsBijection
  <2>6. Cardinality(Held) = Cardinality(Fetching) + Cardinality(Waiting)
    <3>1. Held = Fetching \cup Waiting /\ Fetching \cap Waiting = {}
      BY DEF Fetching, Permitted
    <3> HIDE DEF Held, Waiting
    <3>2. Cardinality(Held) = Cardinality(Fetching) + Cardinality(Waiting)
                                - Cardinality({})
      BY <2>4, <3>1, FS_Union
    <3>3. Cardinality({}) = 0
      BY FS_EmptySet
    <3> QED BY <2>4, <3>2, <3>3
  <2>7. permits.free + Cardinality(Fetching) + Cardinality(Waiting)
          = permits.size
    <3>1. /\ permits.free + Cardinality(Held) = permits.size
          /\ permits.free \in Nat
      BY <1>1 DEF IInv, TypeOK, PermitsMatch
    <3> HIDE DEF Held, Waiting
    <3> QED BY <2>4, <2>6, <3>1
  <2>8. Cardinality({c \in Client : cache[c] # Null}) <= MaxEntries
    BY <1>1 DEF IInv, CacheOK, Cached
  <2> QED BY <2>3, <2>5, <2>7, <2>8 DEF LimitsHold
<1> QED BY <1>1, Invariance, PTL

=============================================================================
