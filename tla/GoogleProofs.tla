----------------------------- MODULE GoogleProofs -----------------------------
(***************************************************************************)
(* Proofs about the Google adapter, for every number of logins, keys and   *)
(* permits and every choice of the time limits: its limits hold on every   *)
(* path, and a key that Google withdrew stops verifying logins.            *)
(***************************************************************************)
EXTENDS GoogleKeys, TLAPS, FiniteSetTheorems

Fetching(q) == q.pc \in {"fetching", "received"}
OnWire(q) == q.pc \in {"exchanging", "fetching", "received"}

(* Where a key that is in hand can have come from: it is published, or was *)
(* withdrawn no earlier than the time given.                               *)
KnownSince(k, t) == \/ k \in published
                    \/ retired[k] # Null /\ t <= retired[k]

TypeOK ==
  /\ clock \in Nat
  /\ published \subseteq Kid /\ retired \in [Kid -> Nat \cup {Null}]
  /\ history \in [0..clock -> SUBSET SUBSET Kid]
  /\ keys \subseteq Kid /\ freshUntil \in Nat
  /\ lastAttempt \in Nat \cup {Null} /\ attempts \in Nat
  /\ permits \in [free : Nat, size : Nat]
  /\ login \in [Req -> Login]

(* A key that was published at some time is, or was withdrawn since.       *)
HistoryOK ==
  \A t \in 0..clock : \A S \in history[t] : \A k \in S : KnownSince(k, t)

(* What one login knows: its request is not overdue, and what it received  *)
(* was published no longer than its Age before it asked.                   *)
LoginOK(q) ==
  /\ q.pc # "idle" => ~q.verified
  /\ OnWire(q) => q.started <= clock /\ clock <= q.started + Timeout
  /\ q.pc = "received" =>
       /\ q.freshness = 0 \/ q.freshness + q.age <= MaxAge
       /\ \A k \in q.jwks : KnownSince(k, q.started - q.age)
LoginsOK == \A r \in Req : LoginOK(login[r])

(* The cache is never fresh for longer than MaxAge, and if it is fresh it  *)
(* holds no key that was withdrawn so long ago that it must not.           *)
CacheOK ==
  /\ freshUntil <= clock + MaxAge
  /\ \A k \in keys :
       \/ k \in published
       \/ freshUntil <= clock
       \/ retired[k] # Null /\ freshUntil <= retired[k] + MaxAge + Timeout

(* The attempts fit between the start and the last of them.                *)
AttemptsSpaced ==
  /\ lastAttempt = Null => attempts = 0
  /\ lastAttempt # Null => lastAttempt <= clock
  /\ attempts > 0 => (attempts - 1) * Backoff <= lastAttempt

OneFetcher ==
  \A q, r \in Req : Fetching(login[q]) /\ Fetching(login[r]) => q = r

IInv ==
  /\ TypeOK /\ HistoryOK /\ LoginsOK /\ CacheOK
  /\ AttemptsSpaced /\ OneFetcher /\ PermitsMatch

-----------------------------------------------------------------------------
(* Lemmas about a step of one login.                                       *)

LEMMA NoLoginIsLogin ==
  ASSUME NEW v \in BOOLEAN
  PROVE  /\ [NoLogin EXCEPT !.verified = v] \in Login
         /\ [NoLogin EXCEPT !.verified = v].pc = "idle"
         /\ LoginOK([NoLogin EXCEPT !.verified = v])
<1>1. /\ [NoLogin EXCEPT !.verified = v] \in Login
      /\ [NoLogin EXCEPT !.verified = v].pc = "idle"
  BY DEF NoLogin, Login, Pc, Time
<1> QED BY <1>1 DEF LoginOK, OnWire

(* Only the login that moves changes: the others keep what they know.      *)
LEMMA LoginStep ==
  ASSUME IInv, NEW r \in Req, NEW q \in Login,
         login' = [login EXCEPT ![r] = q], LoginOK(q),
         UNCHANGED <<clock, google>>
  PROVE  login' \in [Req -> Login] /\ LoginsOK' /\ login'[r] = q
<1>1. /\ login' \in [Req -> Login] /\ login'[r] = q
      /\ \A x \in Req : x # r => login'[x] = login[x]
  BY DEF IInv, TypeOK
<1>2. \A x \in Req : LoginOK(login'[x])
  BY <1>1 DEF IInv, LoginsOK
<1>3. \A x \in Req : LoginOK(login[x])'
  BY <1>2 DEF LoginOK, KnownSince, google
<1> QED BY <1>1, <1>3 DEF LoginsOK

LEMMA FetcherStep ==
  ASSUME IInv, NEW r \in Req, NEW q \in Login,
         login' = [login EXCEPT ![r] = q],
         Fetching(q) => Fetching(login[r]) \/ MutexFree
  PROVE  OneFetcher'
<1>1. /\ login'[r] = q /\ \A x \in Req : x # r => login'[x] = login[x]
  BY DEF IInv, TypeOK
<1>2. \A x \in Req : Fetching(login'[x]) /\ Fetching(q) => x = r
  BY <1>1 DEF IInv, OneFetcher, MutexFree, Fetching
<1>3. \A x, y \in Req : Fetching(login'[x]) /\ Fetching(login'[y]) => x = y
  BY <1>1, <1>2 DEF IInv, OneFetcher
<1> QED BY <1>3 DEF OneFetcher, Fetching

(* A permit changes hands with the request it is for.                      *)
LEMMA PermitStep ==
  ASSUME IInv, NEW r \in Req, NEW q \in Login,
         login' = [login EXCEPT ![r] = q],
         \/ OnWire(q) /\ ~OnWire(login[r]) /\ TakePermit
         \/ ~OnWire(q) /\ OnWire(login[r]) /\ GivePermit
         \/ (OnWire(q) <=> OnWire(login[r])) /\ UNCHANGED permits
  PROVE  PermitsMatch' /\ permits' \in [free : Nat, size : Nat]
<1> DEFINE before == {x \in Req : OnNetwork(x)}
           after == {x \in Req : OnWire(login'[x])}
<1>1. /\ login'[r] = q /\ \A x \in Req : x # r => login'[x] = login[x]
      /\ permits \in [free : Nat, size : Nat]
  BY DEF IInv, TypeOK
<1>2. after = {x \in Req : OnNetwork(x)'}
  BY DEF OnNetwork, OnWire
<1>3. IsFiniteSet(before) /\ Cardinality(before) \in Nat
  BY KeyConstants, FS_Subset, FS_CardinalityType
<1>4. permits.free + Cardinality(before) = permits.size
  BY DEF IInv, PermitsMatch
<1>5. CASE OnWire(q) /\ ~OnWire(login[r]) /\ TakePermit
  <2>1. r \notin before /\ after = before \cup {r}
    BY <1>1, <1>5 DEF OnNetwork, OnWire
  <2>2. Cardinality(after) = Cardinality(before) + 1
    <3> HIDE DEF before, after
    <3> QED BY <1>3, <2>1, FS_AddElement
  <2>3. /\ permits' = [permits EXCEPT !.free = permits.free - 1]
        /\ permits.free # 0
    BY <1>5 DEF TakePermit, NoPermit
  <2>4. /\ permits' \in [free : Nat, size : Nat]
        /\ permits'.free = permits.free - 1 /\ permits'.size = permits.size
    BY <1>1, <2>3
  <2>5. permits'.free + Cardinality(after) = permits'.size
    <3> HIDE DEF before, after
    <3> QED BY <1>1, <1>3, <1>4, <2>2, <2>4
  <2> QED BY <1>2, <2>4, <2>5 DEF PermitsMatch
<1>6. CASE ~OnWire(q) /\ OnWire(login[r]) /\ GivePermit
  <2>1. r \in before /\ after = before \ {r}
    BY <1>1, <1>6 DEF OnNetwork, OnWire
  <2>2. Cardinality(after) = Cardinality(before) - 1
    <3> HIDE DEF before, after
    <3> QED BY <1>3, <2>1, FS_RemoveElement
  <2>3. permits' = [permits EXCEPT !.free = permits.free + 1]
    BY <1>6 DEF GivePermit
  <2>4. /\ permits' \in [free : Nat, size : Nat]
        /\ permits'.free = permits.free + 1 /\ permits'.size = permits.size
    BY <1>1, <2>3
  <2>5. permits'.free + Cardinality(after) = permits'.size
    <3> HIDE DEF before, after
    <3> QED BY <1>1, <1>3, <1>4, <2>2, <2>4
  <2> QED BY <1>2, <2>4, <2>5 DEF PermitsMatch
<1>7. CASE (OnWire(q) <=> OnWire(login[r])) /\ UNCHANGED permits
  <2>1. after = before
    BY <1>1, <1>7 DEF OnNetwork, OnWire
  <2> QED BY <1>1, <1>2, <1>4, <1>7, <2>1 DEF PermitsMatch
<1> QED BY <1>5, <1>6, <1>7

(* A login that gives up, or ends in some other way.                       *)
LEMMA EndStep ==
  ASSUME IInv, NEW r \in Req, NEW v \in BOOLEAN, Ends(r, v),
         \/ OnWire(login[r]) /\ GivePermit
         \/ ~OnWire(login[r]) /\ UNCHANGED permits,
         UNCHANGED <<clock, google>>
  PROVE  /\ login' \in [Req -> Login] /\ LoginsOK' /\ OneFetcher'
         /\ PermitsMatch' /\ permits' \in [free : Nat, size : Nat]
<1> DEFINE q == [NoLogin EXCEPT !.verified = v]
<1>1. q \in Login /\ q.pc = "idle" /\ LoginOK(q)
  BY NoLoginIsLogin
<1>2. login' = [login EXCEPT ![r] = q]
  BY DEF Ends
<1>3. ~Fetching(q) /\ ~OnWire(q)
  BY <1>1 DEF Fetching, OnWire
<1> HIDE DEF q
<1> QED BY <1>1, <1>2, <1>3, LoginStep, FetcherStep, PermitStep

(* What the adapter keeps besides the logins.                              *)
LEMMA SameCache ==
  ASSUME IInv, UNCHANGED <<clock, google, cache>>
  PROVE  CacheOK' /\ AttemptsSpaced' /\ HistoryOK'
BY DEF IInv, CacheOK, AttemptsSpaced, HistoryOK, KnownSince, cache, google

LEMMA SameHistory ==
  ASSUME IInv, UNCHANGED <<clock, google>>
  PROVE  HistoryOK'
BY DEF IInv, HistoryOK, KnownSince, google

-----------------------------------------------------------------------------
(* Each action keeps the invariant.                                        *)

LEMMA ExchangeStep ==
  ASSUME IInv, NEW r \in Req, StartExchange(r)
  PROVE  IInv'
<1> DEFINE q == [NoLogin EXCEPT !.pc = "exchanging", !.started = clock]
<1>1. /\ q \in Login /\ q.pc = "exchanging" /\ q.verified = FALSE
      /\ q.started = clock
  BY DEF IInv, TypeOK, NoLogin, Login, Pc, Time
<1>2. LoginOK(q) /\ OnWire(q) /\ ~Fetching(q)
  BY <1>1, KeyConstants DEF LoginOK, OnWire, Fetching, IInv, TypeOK
<1>3. /\ UNCHANGED <<clock, google, cache>> /\ ~OnWire(login[r])
  BY DEF StartExchange, OnWire
<1>4. CASE TakePermit /\ login' = [login EXCEPT ![r] = q]
  <2> HIDE DEF q
  <2>1. /\ login' \in [Req -> Login] /\ LoginsOK' /\ OneFetcher'
        /\ PermitsMatch' /\ permits' \in [free : Nat, size : Nat]
    BY <1>1, <1>2, <1>3, <1>4, LoginStep, FetcherStep, PermitStep
  <2> QED BY <1>3, <2>1, SameCache DEF IInv, TypeOK, cache, google
<1>5. CASE Ends(r, FALSE) /\ UNCHANGED permits
  <2>1. /\ login' \in [Req -> Login] /\ LoginsOK' /\ OneFetcher'
        /\ PermitsMatch' /\ permits' \in [free : Nat, size : Nat]
    BY <1>3, <1>5, EndStep
  <2> QED BY <1>3, <2>1, SameCache DEF IInv, TypeOK, cache, google
<1> QED BY <1>4, <1>5 DEF StartExchange, Fail

LEMMA TokenStep ==
  ASSUME IInv, NEW r \in Req, NEW kid \in Kid, ReceiveToken(r, kid)
  PROVE  IInv'
<1> DEFINE q == [login[r] EXCEPT !.pc = "verifying", !.kid = kid]
<1>1. login[r] \in Login /\ login[r].pc = "exchanging" /\ LoginOK(login[r])
  BY DEF ReceiveToken, IInv, TypeOK, LoginsOK
<1>2. /\ q \in Login /\ q.pc = "verifying" /\ q.verified = login[r].verified
  BY <1>1 DEF Login, Pc
<1>3. LoginOK(q) /\ ~OnWire(q) /\ ~Fetching(q) /\ OnWire(login[r])
  BY <1>1, <1>2 DEF LoginOK, OnWire, Fetching
<1>4. /\ UNCHANGED <<clock, google, cache>> /\ GivePermit
      /\ login' = [login EXCEPT ![r] = q]
  BY DEF ReceiveToken, IInv, TypeOK
<1> HIDE DEF q
<1>5. /\ login' \in [Req -> Login] /\ LoginsOK' /\ OneFetcher'
      /\ PermitsMatch' /\ permits' \in [free : Nat, size : Nat]
  BY <1>2, <1>3, <1>4, LoginStep, FetcherStep, PermitStep
<1> QED BY <1>4, <1>5, SameCache DEF IInv, TypeOK, cache, google

LEMMA KeyStep ==
  ASSUME IInv, NEW r \in Req, Key(r)
  PROVE  IInv'
<1>1. /\ login[r] \in Login /\ login[r].pc = "verifying" /\ MutexFree
      /\ ~OnWire(login[r]) /\ LoginOK(login[r])
      /\ UNCHANGED <<clock, google>>
  BY DEF Key, IInv, TypeOK, OnWire, LoginsOK
<1>2. ASSUME NEW v \in BOOLEAN, Ends(r, v), UNCHANGED <<cache, permits>>
      PROVE  IInv'
  <2>1. /\ login' \in [Req -> Login] /\ LoginsOK' /\ OneFetcher'
        /\ PermitsMatch' /\ permits' \in [free : Nat, size : Nat]
    BY <1>1, <1>2, EndStep
  <2> QED BY <1>1, <1>2, <2>1, SameCache DEF IInv, TypeOK, cache, google
<1>3. ASSUME ~BackingOff, lastAttempt' = clock, UNCHANGED <<keys, freshUntil>>,
             attempts' = attempts \/ attempts' = attempts + 1
      PROVE  CacheOK' /\ AttemptsSpaced' /\ attempts' \in Nat
  <2>1. CacheOK'
    BY <1>1, <1>3 DEF IInv, CacheOK, google
  <2>2. /\ clock \in Nat /\ lastAttempt \in Nat \cup {Null} /\ attempts \in Nat
        /\ Backoff \in Nat \ {0} /\ Null \notin Nat
    BY KeyConstants DEF IInv, TypeOK
  <2>3. lastAttempt # Null =>
          lastAttempt \in Nat /\ lastAttempt + Backoff <= clock
    BY <1>3, <2>2 DEF BackingOff
  <2>4. attempts > 0 => attempts * Backoff <= clock
    <3> SUFFICES ASSUME attempts > 0 PROVE attempts * Backoff <= clock
      OBVIOUS
    <3>1. /\ lastAttempt \in Nat /\ (attempts - 1) * Backoff <= lastAttempt
      BY <2>2 DEF IInv, AttemptsSpaced
    <3>2. attempts * Backoff = (attempts - 1) * Backoff + Backoff
      BY <2>2
    <3>3. (attempts - 1) * Backoff \in Int
      BY <2>2
    <3> QED BY <2>2, <2>3, <3>1, <3>2, <3>3
  <2>5. attempts = 0 => attempts * Backoff = 0
    BY <2>2
  <2>6. (attempts - 1) * Backoff <= attempts * Backoff
    BY <2>2
  <2>7. attempts' > 0 => (attempts' - 1) * Backoff <= clock
    <3>1. CASE attempts' = attempts
      <4>1. /\ (attempts - 1) * Backoff \in Int /\ attempts * Backoff \in Int
        BY <2>2
      <4> QED BY <2>2, <2>4, <2>6, <3>1, <4>1
    <3>2. CASE attempts' = attempts + 1
      <4>1. attempts' - 1 = attempts
        BY <2>2, <3>2
      <4>2. attempts * Backoff <= clock
        BY <2>2, <2>4, <2>5
      <4> QED BY <4>1, <4>2
    <3> QED BY <1>3, <3>1, <3>2
  <2> QED BY <1>1, <1>3, <2>1, <2>2, <2>7 DEF AttemptsSpaced
<1>4. CASE /\ ~BackingOff /\ lastAttempt' = clock /\ TakePermit
           /\ attempts' = attempts + 1
           /\ login' = [login EXCEPT ![r].pc = "fetching", ![r].started = clock]
           /\ UNCHANGED <<keys, freshUntil>>
  <2> DEFINE q == [login[r] EXCEPT !.pc = "fetching", !.started = clock]
  <2>1. /\ q \in Login /\ q.pc = "fetching" /\ q.verified = login[r].verified
        /\ q.started = clock
    BY <1>1 DEF Login, Pc, Time, IInv, TypeOK
  <2>2. LoginOK(q) /\ OnWire(q)
    BY <1>1, <2>1, KeyConstants DEF LoginOK, OnWire, IInv, TypeOK
  <2>3. login' = [login EXCEPT ![r] = q]
    BY <1>4 DEF IInv, TypeOK
  <2> HIDE DEF q
  <2>4. /\ login' \in [Req -> Login] /\ LoginsOK' /\ OneFetcher'
        /\ PermitsMatch' /\ permits' \in [free : Nat, size : Nat]
    BY <1>1, <1>4, <2>1, <2>2, <2>3, LoginStep, FetcherStep, PermitStep
  <2> QED BY <1>1, <1>3, <1>4, <2>4, SameHistory DEF IInv, TypeOK, google
<1>5. CASE /\ ~BackingOff /\ lastAttempt' = clock /\ Ends(r, FALSE)
           /\ UNCHANGED <<attempts, permits, keys, freshUntil>>
  <2>1. /\ login' \in [Req -> Login] /\ LoginsOK' /\ OneFetcher'
        /\ PermitsMatch' /\ permits' \in [free : Nat, size : Nat]
    BY <1>1, <1>5, EndStep
  <2> QED BY <1>1, <1>3, <1>5, <2>1, SameHistory DEF IInv, TypeOK, google
<1>6. \/ \E v \in BOOLEAN : Ends(r, v) /\ UNCHANGED <<cache, permits>>
      \/ /\ ~BackingOff /\ lastAttempt' = clock /\ TakePermit
         /\ attempts' = attempts + 1
         /\ login' = [login EXCEPT ![r].pc = "fetching", ![r].started = clock]
         /\ UNCHANGED <<keys, freshUntil>>
      \/ /\ ~BackingOff /\ lastAttempt' = clock /\ Ends(r, FALSE)
         /\ UNCHANGED <<attempts, permits, keys, freshUntil>>
  BY DEF Key, Fail
<1> QED BY <1>2, <1>4, <1>5, <1>6

(* A response is fresh for at most MaxAge less its Age, whatever the other *)
(* headers say.                                                            *)
LEMMA FreshnessCapped ==
  ASSUME NEW f \in BOOLEAN, NEW m \in Nat, NEW a \in Nat
  PROVE  /\ Freshness(f, m, a) \in Nat
         /\ Freshness(f, m, a) = 0 \/ Freshness(f, m, a) + a <= MaxAge
BY KeyConstants DEF Freshness

LEMMA ReceiveStep ==
  ASSUME IInv, NEW r \in Req, ReceiveKeys(r)
  PROVE  IInv'
<1>1. PICK sent \in login[r].started..clock, a \in 0..MaxTransit :
        /\ a <= sent
        /\ \E S \in history[sent - a], f \in BOOLEAN, m \in 0..MaxHeader :
             login' = [login EXCEPT ![r].pc = "received", ![r].jwks = S,
                         ![r].freshness = Freshness(f, m, a), ![r].age = a]
  BY DEF ReceiveKeys
<1>2. PICK S \in history[sent - a], f \in BOOLEAN, m \in 0..MaxHeader :
        login' = [login EXCEPT ![r].pc = "received", ![r].jwks = S,
                    ![r].freshness = Freshness(f, m, a), ![r].age = a]
  BY <1>1
<1> DEFINE n == Freshness(f, m, a)
           q == [login[r] EXCEPT !.pc = "received", !.jwks = S,
                                 !.freshness = n, !.age = a]
<1>3. /\ login[r] \in Login /\ login[r].pc = "fetching" /\ LoginOK(login[r])
      /\ login[r].started \in Nat /\ clock \in Nat /\ a \in Nat /\ m \in Nat
  <2>1. login[r] \in Login /\ login[r].pc = "fetching" /\ LoginOK(login[r])
    BY DEF ReceiveKeys, IInv, TypeOK, LoginsOK
  <2>2. login[r].started \in Nat /\ clock \in Nat
    BY <2>1 DEF IInv, TypeOK, Login, Time
  <2>3. a \in Nat /\ m \in Nat
    BY KeyConstants
  <2> QED BY <2>1, <2>2, <2>3
<1>4. n \in Nat /\ (n = 0 \/ n + a <= MaxAge)
  BY <1>3, FreshnessCapped
<1>5. /\ sent - a \in 0..clock /\ login[r].started - a <= sent - a
  BY <1>1, <1>3
<1>6. S \subseteq Kid /\ \A k \in S : KnownSince(k, login[r].started - a)
  <2>1. S \subseteq Kid /\ \A k \in S : KnownSince(k, sent - a)
    BY <1>5 DEF IInv, TypeOK, HistoryOK
  <2>2. retired \in [Kid -> Nat \cup {Null}]
    BY DEF IInv, TypeOK
  <2> QED BY <1>3, <1>5, <2>1, <2>2 DEF KnownSince
<1> HIDE DEF n
<1>7. login' = [login EXCEPT ![r] = q]
  <2>1. login' = [login EXCEPT ![r].pc = "received", ![r].jwks = S,
                               ![r].freshness = n, ![r].age = a]
    BY <1>2 DEF n
  <2>2. login \in [Req -> Login]
    BY DEF IInv, TypeOK
  <2> QED BY <2>1, <2>2
<1>8. /\ q \in Login /\ q.pc = "received" /\ q.verified = login[r].verified
      /\ q.started = login[r].started /\ q.jwks = S
      /\ q.freshness = n /\ q.age = a
  BY <1>3, <1>4, <1>6 DEF Login, Pc
<1>9. LoginOK(q) /\ OnWire(q) /\ OnWire(login[r]) /\ Fetching(login[r])
  BY <1>3, <1>4, <1>6, <1>8 DEF LoginOK, OnWire, Fetching
<1>10. UNCHANGED <<clock, google, cache, permits>>
  BY DEF ReceiveKeys
<1> HIDE DEF q
<1>11. /\ login' \in [Req -> Login] /\ LoginsOK' /\ OneFetcher'
       /\ PermitsMatch' /\ permits' \in [free : Nat, size : Nat]
  BY <1>7, <1>8, <1>9, <1>10, LoginStep, FetcherStep, PermitStep
<1> QED BY <1>10, <1>11, SameCache DEF IInv, TypeOK, cache, google

LEMMA StoreStep ==
  ASSUME IInv, NEW r \in Req, StoreKeys(r)
  PROVE  IInv'
<1> DEFINE q == login[r]
<1>1. /\ q \in Login /\ q.pc = "received" /\ LoginOK(q)
      /\ keys' = q.jwks /\ freshUntil' = clock + q.freshness
      /\ GivePermit /\ UNCHANGED <<clock, google, lastAttempt, attempts>>
  BY DEF StoreKeys, IInv, TypeOK, LoginsOK
<1>2. PICK v \in BOOLEAN : Ends(r, v)
  BY DEF StoreKeys
<1>3. OnWire(q)
  BY <1>1 DEF OnWire
<1>4. /\ login' \in [Req -> Login] /\ LoginsOK' /\ OneFetcher'
      /\ PermitsMatch' /\ permits' \in [free : Nat, size : Nat]
  BY <1>1, <1>2, <1>3, EndStep
<1>5. /\ q.jwks \subseteq Kid /\ q.freshness \in Nat /\ q.started \in Nat
      /\ q.age \in Nat
      /\ clock \in Nat /\ retired \in [Kid -> Nat \cup {Null}]
  BY <1>1 DEF Login, Time, IInv, TypeOK
<1>6. /\ q.freshness = 0 \/ q.freshness + q.age <= MaxAge
      /\ clock <= q.started + Timeout
      /\ \A k \in q.jwks : KnownSince(k, q.started - q.age)
  BY <1>1, <1>3 DEF LoginOK
<1> HIDE DEF q
<1>7. CacheOK'
  <2>1. freshUntil' <= clock + MaxAge
    BY <1>1, <1>5, <1>6, KeyConstants
  <2>2. ASSUME NEW k \in q.jwks, k \notin published
        PROVE  \/ freshUntil' <= clock
               \/ /\ retired[k] # Null
                  /\ freshUntil' <= retired[k] + MaxAge + Timeout
    <3>1. /\ retired[k] # Null /\ q.started - q.age <= retired[k]
          /\ retired[k] \in Nat
      BY <1>5, <1>6, <2>2 DEF KnownSince
    <3>2. CASE q.freshness = 0
      BY <1>1, <1>5, <3>2
    <3>3. CASE q.freshness + q.age <= MaxAge
      BY <1>1, <1>5, <1>6, <3>1, <3>3, KeyConstants
    <3> QED BY <1>6, <3>2, <3>3
  <2> QED BY <1>1, <2>1, <2>2 DEF CacheOK, google
<1>8. AttemptsSpaced'
  BY <1>1 DEF IInv, AttemptsSpaced
<1> QED BY <1>1, <1>4, <1>5, <1>7, <1>8, SameHistory DEF IInv, TypeOK, google

LEMMA FailStep ==
  ASSUME IInv, NEW r \in Req, Fails(r) \/ Leaves(r)
  PROVE  IInv'
<1>1. UNCHANGED <<clock, google, cache>> /\ Ends(r, FALSE)
  BY DEF Fails, Leaves, Fail
<1>2. \/ OnWire(login[r]) /\ GivePermit
      \/ ~OnWire(login[r]) /\ UNCHANGED permits
  BY DEF Fails, Leaves, OnWire, OnNetwork
<1>3. /\ login' \in [Req -> Login] /\ LoginsOK' /\ OneFetcher'
      /\ PermitsMatch' /\ permits' \in [free : Nat, size : Nat]
  BY <1>1, <1>2, EndStep
<1> QED BY <1>1, <1>3, SameCache DEF IInv, TypeOK, cache, google

(* Time goes on only while no request is overdue.                          *)
LEMMA TickStep ==
  ASSUME IInv, Tick
  PROVE  IInv'
<1>1. /\ clock' = clock + 1
      /\ UNCHANGED <<published, retired, cache, permits, login>>
      /\ history' = [t \in 0..clock + 1 |->
                       IF t > clock THEN {published} ELSE history[t]]
      /\ \A r \in Req : ~Overdue(r) /\ clock \in Nat
  BY DEF Tick, IInv, TypeOK
<1>2. TypeOK' /\ OneFetcher' /\ PermitsMatch'
  <2>1. clock \in Nat /\ published \in SUBSET Kid
        /\ history \in [0..clock -> SUBSET SUBSET Kid]
    BY DEF IInv, TypeOK
  <2>2. ASSUME NEW t \in 0..clock + 1
        PROVE  (IF t > clock THEN {published} ELSE history[t]) \in SUBSET SUBSET Kid
    <3>1. CASE t > clock
      BY <2>1, <3>1
    <3>2. CASE ~(t > clock)
      <4>1. t \in 0..clock
        BY <2>1, <3>2
      <4> QED BY <2>1, <3>2, <4>1
    <3> QED BY <3>1, <3>2
  <2>3. history' \in [0..clock' -> SUBSET SUBSET Kid]
    BY <1>1, <2>2
  <2>4. clock' \in Nat
    BY <1>1, <2>1
  <2> QED BY <1>1, <2>3, <2>4
          DEF IInv, TypeOK, OneFetcher, PermitsMatch, OnNetwork, cache
<1>3. CacheOK' /\ AttemptsSpaced'
  BY <1>1, KeyConstants DEF IInv, TypeOK, CacheOK, AttemptsSpaced, cache
<1>4. HistoryOK'
  <2> SUFFICES ASSUME NEW t \in 0..clock + 1, NEW S \in history'[t], NEW k \in S
               PROVE  KnownSince(k, t)
    BY <1>1 DEF HistoryOK, KnownSince
  <2>1. clock \in Nat
    BY DEF IInv, TypeOK
  <2>2. CASE t > clock
    BY <1>1, <2>2 DEF KnownSince
  <2>3. CASE ~(t > clock)
    BY <1>1, <2>1, <2>3 DEF IInv, HistoryOK
  <2> QED BY <2>2, <2>3
<1>5. ASSUME NEW r \in Req PROVE LoginOK(login[r])'
  <2>1. login[r] \in Login /\ LoginOK(login[r]) /\ login[r].started \in Nat
    BY DEF IInv, TypeOK, LoginsOK, Login, Time
  <2>2. OnWire(login[r]) => clock < login[r].started + Timeout
    BY <1>1, <2>1, KeyConstants DEF Overdue, OnNetwork, OnWire
  <2> QED BY <1>1, <2>1, <2>2, KeyConstants
          DEF LoginOK, KnownSince, OnWire
<1> QED BY <1>2, <1>3, <1>4, <1>5 DEF IInv, LoginsOK

(* A key that Google withdraws now was in the cache, if at all, with at    *)
(* most MaxAge to live.                                                    *)
LEMMA RotateStep ==
  ASSUME IInv, NEW new \in SUBSET Kid, Rotate(new)
  PROVE  IInv'
<1>1. /\ published' = new /\ clock \in Nat
      /\ retired' = [k \in Kid |->
           IF k \in new THEN Null
           ELSE IF k \in published THEN clock ELSE retired[k]]
      /\ history' = [history EXCEPT ![clock] = history[clock] \cup {new}]
      /\ UNCHANGED <<clock, cache, permits, login>>
  BY DEF Rotate, IInv, TypeOK
<1>2. \A k \in Kid : k \notin new =>
        retired'[k] = IF k \in published THEN clock ELSE retired[k]
  BY <1>1
<1>3. TypeOK' /\ OneFetcher' /\ PermitsMatch' /\ AttemptsSpaced'
  BY <1>1 DEF IInv, TypeOK, OneFetcher, PermitsMatch, OnNetwork, AttemptsSpaced,
              cache
<1>4. CacheOK'
  <2>1. ASSUME NEW k \in keys, k \notin new
        PROVE  \/ freshUntil <= clock
               \/ /\ retired'[k] # Null
                  /\ freshUntil <= retired'[k] + MaxAge + Timeout
    <3>1. k \in Kid /\ freshUntil \in Nat
      BY DEF IInv, TypeOK
    <3>2. CASE k \in published
      BY <1>1, <1>2, <2>1, <3>1, <3>2, KeyConstants DEF IInv, CacheOK
    <3>3. CASE k \notin published
      BY <1>2, <2>1, <3>1, <3>3 DEF IInv, CacheOK
    <3> QED BY <3>2, <3>3
  <2> QED BY <1>1, <2>1 DEF IInv, CacheOK, cache
<1>5. ASSUME NEW t \in 0..clock, NEW k \in Kid, KnownSince(k, t), k \notin new
      PROVE  retired'[k] # Null /\ t <= retired'[k]
  <2>1. CASE k \in published
    BY <1>1, <1>2, <1>5, <2>1, KeyConstants
  <2>2. CASE k \notin published
    BY <1>2, <1>5, <2>2 DEF KnownSince
  <2> QED BY <2>1, <2>2
<1>6. HistoryOK'
  <2> SUFFICES ASSUME NEW t \in 0..clock, NEW S \in history'[t], NEW k \in S,
                      k \notin new
               PROVE  retired'[k] # Null /\ t <= retired'[k]
    BY <1>1 DEF HistoryOK, KnownSince
  <2>1. history \in [0..clock -> SUBSET SUBSET Kid]
    BY DEF IInv, TypeOK
  <2>2. S \in history[t]
    BY <1>1, <2>1
  <2>3. k \in Kid /\ KnownSince(k, t)
    BY <2>1, <2>2 DEF IInv, HistoryOK
  <2> QED BY <1>5, <2>3
<1>7. ASSUME NEW r \in Req PROVE LoginOK(login[r])'
  <2>1. /\ login[r] \in Login /\ LoginOK(login[r]) /\ login[r].jwks \subseteq Kid
        /\ login[r].started \in Nat /\ login[r].age \in Nat
    BY DEF IInv, TypeOK, LoginsOK, Login, Time
  <2>2. ASSUME NEW k \in login[r].jwks, login[r].pc = "received", k \notin new
        PROVE  retired'[k] # Null /\ login[r].started - login[r].age <= retired'[k]
    <3>1. /\ k \in Kid /\ login[r].started <= clock
          /\ KnownSince(k, login[r].started - login[r].age)
      BY <2>1, <2>2 DEF LoginOK, OnWire
    <3>2. CASE k \in published
      BY <1>1, <1>2, <2>1, <2>2, <3>1, <3>2, KeyConstants
    <3>3. CASE k \notin published
      BY <1>2, <2>2, <3>1, <3>3 DEF KnownSince
    <3> QED BY <3>2, <3>3
  <2> QED BY <1>1, <2>1, <2>2 DEF LoginOK, KnownSince, OnWire
<1> QED BY <1>3, <1>4, <1>6, <1>7 DEF IInv, LoginsOK

-----------------------------------------------------------------------------
(* The invariant holds in every reachable state.                           *)

LEMMA InitInv ==
  ASSUME Init
  PROVE  IInv
<1>1. PICK n \in Capacities : permits = [free |-> n, size |-> n]
  BY DEF Init
<1>2. n \in Nat /\ permits \in [free : Nat, size : Nat]
      /\ permits.free = n /\ permits.size = n
  BY <1>1, KeyConstants
<1>3. NoLogin \in Login /\ NoLogin.pc = "idle" /\ \A r \in Req : login[r] = NoLogin
  BY DEF Init, NoLogin, Login, Pc, Time
<1>4. TypeOK /\ HistoryOK
  BY <1>2, <1>3, KeyConstants DEF Init, TypeOK, HistoryOK, KnownSince
<1>5. LoginsOK /\ OneFetcher
  BY <1>3 DEF LoginsOK, LoginOK, OnWire, OneFetcher, Fetching
<1>6. CacheOK /\ AttemptsSpaced
  BY KeyConstants DEF Init, CacheOK, AttemptsSpaced
<1>7. PermitsMatch
  <2>1. {r \in Req : OnNetwork(r)} = {}
    BY <1>3 DEF OnNetwork
  <2>2. Cardinality({}) = 0
    BY FS_EmptySet
  <2> QED BY <1>2, <2>1, <2>2 DEF PermitsMatch
<1> QED BY <1>4, <1>5, <1>6, <1>7 DEF IInv

LEMMA Invariance == Spec => []IInv
<1>1. IInv /\ [Next]_vars => IInv'
  <2> SUFFICES ASSUME IInv, [Next]_vars PROVE IInv'
    OBVIOUS
  <2>1. CASE UNCHANGED vars
    BY <2>1 DEF vars, google, cache, IInv, TypeOK, LoginsOK, LoginOK, KnownSince,
                HistoryOK, OnWire, CacheOK, AttemptsSpaced, OneFetcher, Fetching,
                PermitsMatch, OnNetwork
  <2>2. CASE Next
    <3>1. CASE TimeIsUp
      BY <2>1, <3>1 DEF TimeIsUp
    <3>2. ASSUME NEW r \in Req,
                 \/ StartExchange(r) \/ Key(r) \/ ReceiveKeys(r) \/ StoreKeys(r)
                 \/ \E kid \in Kid : ReceiveToken(r, kid)
                 \/ Fails(r) \/ Leaves(r)
          PROVE  IInv'
      BY <3>2, ExchangeStep, KeyStep, ReceiveStep, StoreStep, TokenStep, FailStep
    <3> QED BY <2>2, <3>1, <3>2, TickStep, RotateStep DEF Next
  <2> QED BY <2>1, <2>2
<1> QED BY <1>1, InitInv, PTL DEF Spec

-----------------------------------------------------------------------------
(* Whatever logins are in flight, and however their requests end, Google   *)
(* is asked for its keys by one login at a time and at most once per       *)
(* back-off period, and every permit of the semaphore is either free or    *)
(* held by exactly one request on the network.                             *)
THEOREM AdapterLimits == Spec => []LimitsHold
<1>1. IInv => LimitsHold
  <2> SUFFICES ASSUME IInv PROVE LimitsHold
    OBVIOUS
  <2> DEFINE fetchers == {r \in Req : login[r].pc \in {"fetching", "received"}}
  <2>1. \A q, r \in fetchers : q = r
    BY DEF IInv, OneFetcher, Fetching
  <2>2. Cardinality(fetchers) <= 1
    <3>1. CASE fetchers = {}
      <4>1. Cardinality({}) = 0
        BY FS_EmptySet
      <4> QED BY <3>1, <4>1
    <3>2. CASE fetchers # {}
      <4>1. PICK r \in fetchers : TRUE
        BY <3>2
      <4>2. fetchers = {r}
        BY <2>1, <4>1
      <4>3. Cardinality({r}) = 1
        BY FS_Singleton
      <4> HIDE DEF fetchers
      <4> QED BY <4>2, <4>3
    <3> QED BY <3>1, <3>2
  <2> QED BY <2>2 DEF IInv, AttemptsSpaced, LimitsHold, FetchesRateLimited
<1> QED BY <1>1, Invariance, PTL

(* What a login gets with the key set: the set, its freshness and its Age. *)
LEMMA KeysReceived ==
  ASSUME NEW r \in Req, ReceiveKeys(r)
  PROVE  \E S, n, a : login' = [login EXCEPT ![r].pc = "received",
                        ![r].jwks = S, ![r].freshness = n, ![r].age = a]
<1>1. PICK sent \in login[r].started..clock, a \in 0..MaxTransit :
        \E S \in history[sent - a], f \in BOOLEAN, m \in 0..MaxHeader :
          login' = [login EXCEPT ![r].pc = "received", ![r].jwks = S,
                      ![r].freshness = Freshness(f, m, a), ![r].age = a]
  BY DEF ReceiveKeys
<1>2. PICK S \in history[sent - a], f \in BOOLEAN, m \in 0..MaxHeader :
        login' = [login EXCEPT ![r].pc = "received", ![r].jwks = S,
                    ![r].freshness = Freshness(f, m, a), ![r].age = a]
  BY <1>1
<1> QED BY <1>2

(* One step of Next verifies a login only with a key that Google publishes *)
(* or withdrew recently enough.                                            *)
LEMMA VerifiedStep ==
  ASSUME IInv, [Next]_vars, NEW r \in Req,
         login[r].pc # "idle", login'[r].verified
  PROVE  LET k == login[r].kid IN
         \/ k \in published
         \/ /\ retired[k] # Null
            /\ \/ clock < retired[k] + MaxAge + Timeout
               \/ /\ login[r].pc = "received"
                  /\ clock <= retired[k] + login[r].age + Timeout
<1> DEFINE k == login[r].kid
<1>1. /\ login \in [Req -> Login] /\ login[r] \in Login /\ LoginOK(login[r])
      /\ login[r].verified # TRUE
  BY DEF IInv, TypeOK, LoginsOK, LoginOK, Login
<1>2. login'[r] # login[r]
  BY <1>1
<1>3. PICK x \in Req : \/ StartExchange(x) \/ Key(x) \/ ReceiveKeys(x)
                       \/ StoreKeys(x) \/ Fails(x) \/ Leaves(x)
                       \/ \E kid \in Kid : ReceiveToken(x, kid)
  BY <1>2 DEF Next, Tick, TimeIsUp, Rotate, vars
<1>4. \E q : login' = [login EXCEPT ![x] = q]
  <2>1. \A v : Ends(x, v) => \E q : login' = [login EXCEPT ![x] = q]
    BY DEF Ends
  <2>2. CASE ReceiveKeys(x)
    <3>1. PICK S, n, a :
            login' = [login EXCEPT ![x].pc = "received", ![x].jwks = S,
                        ![x].freshness = n, ![x].age = a]
      BY <2>2, KeysReceived
    <3> QED BY <1>1, <3>1
  <2>3. CASE \E kid \in Kid : ReceiveToken(x, kid)
    BY <1>1, <2>3 DEF ReceiveToken
  <2>4. CASE StartExchange(x)
    BY <2>1, <2>4 DEF StartExchange, Fail
  <2>5. CASE Key(x)
    BY <1>1, <2>1, <2>5 DEF Key, Fail
  <2>6. CASE StoreKeys(x) \/ Fails(x) \/ Leaves(x)
    BY <2>1, <2>6 DEF StoreKeys, Fails, Leaves, Fail
  <2> QED BY <1>3, <2>2, <2>3, <2>4, <2>5, <2>6
<1>5. x = r
  BY <1>1, <1>2, <1>4
<1>6. clock \in Nat /\ freshUntil \in Nat /\ retired \in [Kid -> Nat \cup {Null}]
      /\ keys \subseteq Kid
  BY DEF IInv, TypeOK
<1>7. CASE Key(r) /\ Hit(k)
  <2>1. k \in keys /\ clock < freshUntil
    BY <1>7 DEF Hit, Fresh
  <2> QED BY <1>6, <2>1, KeyConstants DEF IInv, CacheOK
<1>8. CASE StoreKeys(r)
  <2>1. PICK v \in BOOLEAN : (v => k \in login[r].jwks) /\ Ends(r, v)
    BY <1>8 DEF StoreKeys
  <2>2. [NoLogin EXCEPT !.verified = v].verified = v
    BY DEF NoLogin
  <2>3. k \in login[r].jwks
    BY <1>1, <2>1, <2>2 DEF Ends
  <2>4. /\ login[r].pc = "received" /\ OnWire(login[r])
        /\ login[r].jwks \subseteq Kid /\ login[r].started \in Nat
        /\ login[r].age \in Nat
    BY <1>1, <1>8 DEF StoreKeys, OnWire, Login, Time
  <2>5. /\ clock <= login[r].started + Timeout 
        /\ KnownSince(k, login[r].started - login[r].age)
    BY <1>1, <2>3, <2>4 DEF LoginOK
  <2> QED BY <1>6, <2>3, <2>4, <2>5, KeyConstants DEF KnownSince
<1>9. ASSUME ~(Key(r) /\ Hit(k)), ~StoreKeys(r)
      PROVE  login'[r].verified # TRUE
  <2>1. Ends(r, FALSE) => login'[r].verified # TRUE
    <3>1. [NoLogin EXCEPT !.verified = FALSE].verified = FALSE
      BY DEF NoLogin
    <3> QED BY <1>1, <3>1 DEF Ends
  <2>2. CASE ReceiveKeys(r)
    <3>1. PICK S, n, a : login' = [login EXCEPT ![r].pc = "received",
                           ![r].jwks = S, ![r].freshness = n, ![r].age = a]
      BY <2>2, KeysReceived
    <3>2. login'[r] = [login[r] EXCEPT !.pc = "received", !.jwks = S,
                                       !.freshness = n, !.age = a]
      BY <1>1, <3>1
    <3>3. login'[r].verified = login[r].verified
      BY <1>1, <3>2 DEF Login
    <3> QED BY <1>1, <3>3
  <2>3. CASE \E kid \in Kid : ReceiveToken(r, kid)
    <3>1. PICK kid \in Kid :
            login' = [login EXCEPT ![r].pc = "verifying", ![r].kid = kid]
      BY <2>3 DEF ReceiveToken
    <3>2. login'[r] = [login[r] EXCEPT !.pc = "verifying", !.kid = kid]
      BY <1>1, <3>1
    <3>3. login'[r].verified = login[r].verified
      BY <1>1, <3>2 DEF Login
    <3> QED BY <1>1, <3>3
  <2>4. CASE Key(r)
    <3>1. CASE login' = [login EXCEPT ![r].pc = "fetching", ![r].started = clock]
      BY <1>1, <3>1 DEF Login
    <3> QED BY <1>9, <2>1, <2>4, <3>1 DEF Key, Fail
  <2>5. CASE Fails(r) \/ Leaves(r)
    BY <2>1, <2>5 DEF Fails, Leaves, Fail
  <2>6. ~StartExchange(r)
    BY DEF StartExchange
  <2> QED BY <1>3, <1>5, <1>9, <2>2, <2>3, <2>4, <2>5, <2>6
<1> QED BY <1>7, <1>8, <1>9

(* A login is verified only with a key that Google publishes, or withdrew  *)
(* less than MaxAge plus one time-out ago: whatever the order of fetches,  *)
(* cache hits and rotations, and whatever the Age of the answers, a        *)
(* withdrawn key dies.  The exception is the login that fetched an answer, *)
(* which trusts it however old it is: then the bound is that answer's Age  *)
(* plus one time-out.                                                      *)
THEOREM WithdrawnKeysStopVerifying == Spec => WithdrawnKeysDie
<1>1. IInv /\ [Next]_vars =>
        [\A r \in Req :
           login[r].pc # "idle" /\ login'[r].verified =>
             LET k == login[r].kid IN
             \/ k \in published
             \/ /\ retired[k] # Null
                /\ \/ clock < retired[k] + MaxAge + Timeout
                   \/ /\ login[r].pc = "received"
                      /\ clock <= retired[k] + login[r].age + Timeout]_vars
  BY VerifiedStep
<1> QED BY <1>1, Invariance, PTL DEF Spec, WithdrawnKeysDie

=============================================================================
