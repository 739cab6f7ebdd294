----------------------------- MODULE SigningProofs -----------------------------
(***************************************************************************)
(* Proofs about the rotation of signing keys, for every set of keys and    *)
(* every choice of the token life, the skew and the life of a copy of      *)
(* /jwks.                                                                  *)
(*                                                                         *)
(* The plan of the operator is in one of three stages.  For each stage the *)
(* inductive invariant says which keys the process can be running with     *)
(* (those of the plan or, until it is restarted, those of the stage        *)
(* before), which key a token that may still be used can be signed with    *)
(* and what a copy of /jwks that may still be used contains.               *)
(***************************************************************************)
EXTENDS SigningKeys, TLAPS, SequenceTheorems

(* The stages of a rotation from k to n besides Steady.                    *)
Pre(k, n) ==
  [active |-> Active(k), previous |-> <<>>, next |-> <<Entry(n)>>,
   sound |-> TRUE]
Act(n, k) ==
  [active |-> Active(n), previous |-> <<Entry(k)>>, next |-> <<>>,
   sound |-> TRUE]

(* Loaded keys: a signs, and S is published.                               *)
KeysAre(a, S, loaded) ==
  /\ loaded.active_kid = a /\ loaded.encoding = a
  /\ loaded.jwks = {Entry(k) : k \in S}
  /\ loaded.decoding = [k \in S |-> k]

Runs(a, S) == keys # Null => KeysAre(a, S, keys)

(* A token that may be used is signed with a key of S, and a usable copy   *)
(* of /jwks has every key of S.                                            *)
TokenFrom(S) == Alive(token) => token.key \in S
CopyHas(S) == CopyUsable => {Entry(k) : k \in S} \subseteq rp.jwks

InSteady(k) ==
  /\ plan = Steady(k)
  /\ \/ Runs(k, {k})
     \/ since = Null /\ \E o \in Key : Runs(k, {k, o})
  /\ TokenFrom({k}) /\ CopyHas({k})

(* A copy without the next key is older than the restart.                  *)
InPre(k, n) ==
  /\ plan = Pre(k, n) /\ k # n
  /\ \/ Runs(k, {k, n})
     \/ since = Null /\ Runs(k, {k})
  /\ TokenFrom({k}) /\ CopyHas({k})
  /\ since # Null => CopyHas({n}) \/ rp.at <= since

(* A token signed with the previous key is older than the restart.         *)
InAct(n, k) ==
  /\ plan = Act(n, k) /\ k # n
  /\ \/ Runs(n, {k, n})
     \/ since = Null /\ Runs(k, {k, n})
  /\ TokenFrom({k, n}) /\ CopyHas({k, n})
  /\ since # Null => TokenFrom({n}) \/ token.iat <= since

Stage ==
  \E k, n \in Key : InSteady(k) \/ InPre(k, n) \/ InAct(n, k)

ManifestOK == manifest = plan \/ ~Loads(manifest)

TimesOK ==
  /\ clock \in Nat /\ since \in Nat \cup {Null}
  /\ since # Null => since <= clock
  /\ rp # Null => rp.at \in Nat /\ rp.at <= clock

TokenOK ==
  token # Null =>
    /\ token.typ \in {"at+jwt", "JWT"} /\ token.openid \in BOOLEAN
    /\ token.kid = token.key /\ token.aud # {}
    /\ token.iat \in Nat /\ token.iat <= clock
    /\ token.exp = token.iat + TokenLife
    /\ token.typ = "at+jwt" /\ token.openid => UserInfo \in token.aud

IInv == TimesOK /\ TokenOK /\ ManifestOK /\ Stage

-----------------------------------------------------------------------------
(* Loading.                                                                *)

LEMMA Concatenation ==
  ASSUME NEW T, NEW s \in Seq(T), NEW t \in Seq(T)
  PROVE  /\ s \o t \in Seq(T) /\ Len(s \o t) = Len(s) + Len(t)
         /\ \A i \in 1..Len(s) : (s \o t)[i] = s[i]
         /\ \A i \in 1..Len(t) : (s \o t)[Len(s) + i] = t[i]
BY ConcatProperties

LEMMA TwoEntries ==
  ASSUME NEW T, NEW x \in T, NEW y \in T
  PROVE  <<x>> \o <<y>> = <<x, y>>
<1> DEFINE s == <<x>>
           t == <<y>>
           u == <<x, y>>
<1>1. /\ s \in Seq(T) /\ Len(s) = 1 /\ s[1] = x
  OBVIOUS
<1>2. t \in Seq(T) /\ Len(t) = 1 /\ t[1] = y
  OBVIOUS
<1>3. u \in Seq(T) /\ Len(u) = 2 /\ u[1] = x /\ u[2] = y
  OBVIOUS
<1> HIDE DEF s, t, u
<1>4. /\ s \o t \in Seq(T) /\ Len(s \o t) = Len(s) + Len(t)
      /\ \A i \in 1..Len(s) : (s \o t)[i] = s[i]
      /\ \A i \in 1..Len(t) : (s \o t)[Len(s) + i] = t[i]
  BY <1>1, <1>2, Concatenation
<1>5. Len(s \o t) = 2 /\ (s \o t)[1] = x /\ (s \o t)[2] = y
  BY <1>1, <1>2, <1>4
<1>6. \A i \in 1..Len(s \o t) : (s \o t)[i] = u[i]
  BY <1>3, <1>5
<1>7. s \o t = u
  BY <1>3, <1>4, <1>5, <1>6, SeqEqual
<1> QED BY <1>7 DEF s, t, u

(* The entry the manifest names first, then the previous and the next.     *)
LEMMA ThreeParts ==
  ASSUME NEW T, NEW a \in T, NEW v \in Seq(T), NEW w \in Seq(T)
  PROVE  LET e == <<a>> \o v \o w IN
         /\ e \in Seq(T) /\ Len(e) = 1 + Len(v) + Len(w) /\ e[1] = a
         /\ \A i \in 1..Len(v) : e[1 + i] = v[i]
         /\ \A i \in 1..Len(w) : e[1 + Len(v) + i] = w[i]
<1> DEFINE s == <<a>>
           f == s \o v
<1>1. s \in Seq(T) /\ Len(s) = 1 /\ s[1] = a /\ Len(v) \in Nat /\ Len(w) \in Nat
  OBVIOUS
<1> HIDE DEF s
<1>2. /\ f \in Seq(T) /\ Len(f) = 1 + Len(v)
      /\ \A i \in 1..Len(s) : f[i] = s[i]
      /\ \A i \in 1..Len(v) : f[Len(s) + i] = v[i]
  BY <1>1, Concatenation
<1>3. Len(f) = 1 + Len(v) /\ f[1] = a /\ \A i \in 1..Len(v) : f[1 + i] = v[i]
  BY <1>1, <1>2
<1>4. f \in Seq(T)
  BY <1>2
<1> HIDE DEF f
<1> DEFINE e == f \o w
<1>5. /\ e \in Seq(T) /\ Len(e) = Len(f) + Len(w)
      /\ \A i \in 1..Len(f) : e[i] = f[i]
      /\ \A i \in 1..Len(w) : e[Len(f) + i] = w[i]
  BY <1>4, Concatenation
<1> HIDE DEF e
<1>6. /\ Len(e) = 1 + Len(v) + Len(w) /\ e[1] = a
      /\ \A i \in 1..Len(v) : 1 + i \in 1..Len(f)
      /\ \A i \in 1..Len(w) : e[1 + Len(v) + i] = w[i]
  BY <1>1, <1>3, <1>5
<1>7. \A i \in 1..Len(v) : e[1 + i] = v[i]
  BY <1>3, <1>5, <1>6
<1> QED BY <1>5, <1>6, <1>7 DEF e, f, s

LEMMA EntriesOf ==
  ASSUME NEW k, NEW n
  PROVE  /\ Entries(Steady(k)) = <<Entry(k)>>
         /\ Entries(Pre(k, n)) = <<Entry(k), Entry(n)>>
         /\ Entries(Act(n, k)) = <<Entry(n), Entry(k)>>
<1>1. /\ Entries(Steady(k)) = <<Entry(k)>> \o <<>> \o <<>>
      /\ Entries(Pre(k, n)) = <<Entry(k)>> \o <<>> \o <<Entry(n)>>
      /\ Entries(Act(n, k)) = <<Entry(n)>> \o <<Entry(k)>> \o <<>>
  BY DEF Entries, Steady, Pre, Act, Active, Entry
<1>2. ASSUME NEW x, NEW y
      PROVE  /\ <<x>> \o <<>> \o <<>> = <<x>>
             /\ <<x>> \o <<>> \o <<y>> = <<x, y>>
             /\ <<x>> \o <<y>> \o <<>> = <<x, y>>
  <2> DEFINE T == {x, y}
  <2>1. /\ x \in T /\ y \in T
        /\ <<x>> \in Seq(T) /\ <<y>> \in Seq(T) /\ <<x, y>> \in Seq(T)
    OBVIOUS
  <2> HIDE DEF T
  <2>2. <<x>> \o <<>> = <<x>> /\ <<x, y>> \o <<>> = <<x, y>>
    BY <2>1, ConcatEmptySeq
  <2>3. <<x>> \o <<y>> = <<x, y>>
    BY <2>1, TwoEntries
  <2> QED BY <2>2, <2>3
<1> QED BY <1>1, <1>2

(* Whatever is published under its own name is found under that name.      *)
LEMMA LoadsAs ==
  ASSUME NEW m, NEW a, NEW S, Range(Entries(m)) = {Entry(k) : k \in S},
         m.active = Active(a)
  PROVE  KeysAre(a, S, Load(m))
<1> DEFINE published == Range(Entries(m))
<1>1. \A k : Entry(k).kid = k /\ Entry(k).key = k
  BY DEF Entry
<1>2. \A e \in published : e.kid \in S /\ e = Entry(e.kid)
  BY <1>1
<1>3. {e.kid : e \in published} = S
  BY <1>1
<1>4. \A k \in S : (CHOOSE e \in published : e.kid = k).key = k
  <2> TAKE k \in S
  <2>1. Entry(k) \in published /\ Entry(k).kid = k
    BY <1>1
  <2> HIDE DEF published
  <2>2. (CHOOSE e \in published : e.kid = k) \in published
        /\ (CHOOSE e \in published : e.kid = k).kid = k
    BY <2>1
  <2> QED BY <1>1, <1>2, <2>2
<1>5. /\ Load(m).active_kid = m.active.kid
      /\ Load(m).encoding = m.active.private
      /\ Load(m).jwks = published
      /\ Load(m).decoding = [kid \in {e.kid : e \in published} |->
                               (CHOOSE e \in published : e.kid = kid).key]
  BY DEF Load
<1>6. Load(m).decoding = [k \in S |-> k]
  <2> HIDE DEF published
  <2> QED BY <1>3, <1>4, <1>5
<1>7. m.active.kid = a /\ m.active.private = a
  BY DEF Active
<1> QED BY <1>5, <1>6, <1>7 DEF KeysAre

LEMMA LoadOf ==
  ASSUME NEW k, NEW n
  PROVE  /\ KeysAre(k, {k}, Load(Steady(k)))
         /\ KeysAre(k, {k, n}, Load(Pre(k, n)))
         /\ KeysAre(n, {k, n}, Load(Act(n, k)))
<1>1. /\ Range(<<Entry(k)>>) = {Entry(x) : x \in {k}}
      /\ Range(<<Entry(k), Entry(n)>>) = {Entry(x) : x \in {k, n}}
      /\ Range(<<Entry(n), Entry(k)>>) = {Entry(x) : x \in {k, n}}
  BY DEF Range
<1>2. /\ Steady(k).active = Active(k) /\ Pre(k, n).active = Active(k)
      /\ Act(n, k).active = Active(n)
  BY DEF Steady, Pre, Act
<1> QED BY <1>1, <1>2, EntriesOf, LoadsAs

(* A faulty manifest is refused: a pair that does not match, a kid or a    *)
(* key that occurs twice, whatever else the manifest lists.                *)
LEMMA BlundersRefused ==
  ASSUME NEW k \in Key, NEW v \in Seq([kid : Key, key : Key]),
         NEW w \in Seq([kid : Key, key : Key]),
         plan = [active |-> Active(k), previous |-> v, next |-> w,
                 sound |-> TRUE],
         NEW m \in Blunders
  PROVE  ~Loads(m)
<1> SUFFICES ASSUME Loads(m) PROVE FALSE
  OBVIOUS
<1> DEFINE Any == [kid : Key, key : Key]
<1>1. /\ plan.active.kid = k /\ plan.next = w /\ plan.previous = v
      /\ plan.active = Active(k) /\ Active(k).kid = k /\ Active(k).public = k
  BY DEF Active
<1>2. \/ m = [plan EXCEPT !.sound = FALSE]
      \/ \E o \in Key \ {k} :
           \/ m = [plan EXCEPT !.active.private = o]
           \/ m = [plan EXCEPT !.next = Append(w, [kid |-> k, key |-> o])]
           \/ m = [plan EXCEPT !.previous = Append(v, [kid |-> o, key |-> k])]
  <2> DEFINE h == plan.active.kid
             F(o) == {[plan EXCEPT !.active.private = o],
                      [plan EXCEPT !.next =
                         Append(@, [kid |-> h, key |-> o])],
                      [plan EXCEPT !.previous =
                         Append(@, [kid |-> o, key |-> h])]}
  <2>1. m \in (UNION {F(o) : o \in Key \ {h}})
                \cup {[plan EXCEPT !.sound = FALSE]}
    BY DEF Blunders
  <2> HIDE DEF F
  <2>2. \/ m = [plan EXCEPT !.sound = FALSE]
        \/ \E o \in Key \ {h} : m \in F(o)
    BY <2>1
  <2>3. ASSUME NEW o \in Key \ {h}, m \in F(o)
        PROVE  \/ m = [plan EXCEPT !.active.private = o]
               \/ m = [plan EXCEPT !.next = Append(w, [kid |-> k, key |-> o])]
               \/ m = [plan EXCEPT !.previous = Append(v, [kid |-> o, key |-> k])]
    BY <1>1, <2>3, Zenon DEF F
  <2> QED BY <1>1, <2>2, <2>3, Zenon
<1>3. CASE m = [plan EXCEPT !.sound = FALSE]
  BY <1>3 DEF Loads
<1>4. ASSUME NEW o \in Key \ {k}, m = [plan EXCEPT !.active.private = o]
      PROVE  FALSE
  BY <1>4 DEF Loads, Active
<1>5. ASSUME NEW o \in Key \ {k}, NEW x \in Any,
             NEW p \in Seq(Any), NEW q \in Seq(Any), NEW i \in Nat, i > 0,
             m.active = Active(k), m.previous = p, m.next = q,
             \/ i <= Len(p) /\ x = p[i]
             \/ i > Len(p) /\ i <= Len(p) + Len(q) /\ x = q[i - Len(p)],
             x.kid = k \/ x.key = k
      PROVE  FALSE
  <2> DEFINE a == [kid |-> k, key |-> k]
             e == Entries(m)
             kids == [j \in DOMAIN e |-> e[j].kid]
             names == [j \in DOMAIN e |-> e[j].key]
  <2>1. a \in Any /\ e = <<a>> \o p \o q
    BY <1>1, <1>5 DEF Entries
  <2> HIDE DEF a, e, Any
  <2>2. /\ e \in Seq(Any) /\ Len(e) = 1 + Len(p) + Len(q) /\ e[1] = a
        /\ \A j \in 1..Len(p) : e[1 + j] = p[j]
        /\ \A j \in 1..Len(q) : e[1 + Len(p) + j] = q[j]
    BY <1>5, <2>1, ThreeParts
  <2>3. Len(p) \in Nat /\ Len(q) \in Nat
    BY <1>5
  <2>4. e[1 + i] = x /\ 1 + i \in DOMAIN e /\ 1 \in DOMAIN e
    <3>1. CASE i <= Len(p) /\ x = p[i]
      BY <1>5, <2>2, <2>3, <3>1
    <3>2. CASE i > Len(p) /\ i <= Len(p) + Len(q) /\ x = q[i - Len(p)]
      <4>1. i - Len(p) \in 1..Len(q) /\ 1 + Len(p) + (i - Len(p)) = 1 + i
        BY <1>5, <2>3, <3>2
      <4>2. e[1 + Len(p) + (i - Len(p))] = x
        BY <2>2, <3>2, <4>1
      <4>3. e[1 + i] = x
        BY <4>1, <4>2
      <4>4. 1 + i \in 1..Len(e) /\ 1 \in 1..Len(e)
        BY <1>5, <2>2, <2>3, <3>2
      <4> QED BY <2>2, <4>3, <4>4
    <3> QED BY <1>5, <3>1, <3>2
  <2>5. IsInjective(kids) /\ IsInjective(names)
    BY DEF Loads, e
  <2>6. /\ DOMAIN kids = DOMAIN e /\ DOMAIN names = DOMAIN e
        /\ kids[1] = k /\ names[1] = k
        /\ kids[1 + i] = x.kid /\ names[1 + i] = x.key
    BY <2>2, <2>4 DEF a
  <2>7. 1 + i # 1
    BY <1>5
  <2> HIDE DEF kids, names
  <2> QED BY <1>5, <2>4, <2>5, <2>6, <2>7 DEF IsInjective
<1>6. ASSUME NEW o \in Key \ {k},
             m = [plan EXCEPT !.next = Append(w, [kid |-> k, key |-> o])]
      PROVE  FALSE
  <2> DEFINE x == [kid |-> k, key |-> o]
             q == Append(w, x)
             i == Len(v) + Len(w) + 1
  <2>1. x \in Any /\ x.kid = k
    OBVIOUS
  <2> HIDE DEF x
  <2>2. /\ q \in Seq(Any) /\ Len(q) = Len(w) + 1 /\ q[Len(w) + 1] = x
        /\ Len(v) \in Nat /\ Len(w) \in Nat
    BY <2>1
  <2>3. m.active = Active(k) /\ m.previous = v /\ m.next = q
    BY <1>1, <1>6 DEF x
  <2> HIDE DEF q, Any
  <2>4. /\ i \in Nat /\ i > 0 /\ i > Len(v) /\ i <= Len(v) + Len(q)
        /\ i - Len(v) = Len(w) + 1
    BY <2>2
  <2> HIDE DEF i
  <2> QED BY <1>5, <2>1, <2>2, <2>3, <2>4 DEF Any
<1>7. ASSUME NEW o \in Key \ {k},
             m = [plan EXCEPT !.previous = Append(v, [kid |-> o, key |-> k])]
      PROVE  FALSE
  <2> DEFINE x == [kid |-> o, key |-> k]
             p == Append(v, x)
             i == Len(v) + 1
  <2>1. x \in Any /\ x.key = k
    OBVIOUS
  <2> HIDE DEF x
  <2>2. /\ p \in Seq(Any) /\ Len(p) = Len(v) + 1 /\ p[Len(v) + 1] = x
        /\ Len(v) \in Nat
    BY <2>1
  <2>3. m.active = Active(k) /\ m.previous = p /\ m.next = w
    BY <1>1, <1>7 DEF x
  <2>4. i \in Nat /\ i > 0 /\ i <= Len(p) /\ x = p[i]
    BY <2>2
  <2> HIDE DEF p, Any, i
  <2> QED BY <1>5, <2>1, <2>2, <2>3, <2>4 DEF Any
<1> QED BY <1>2, <1>3, <1>4, <1>6, <1>7

-----------------------------------------------------------------------------
(* Each action keeps the invariant.                                        *)

(* Tokens and copies age: what holds of the usable ones goes on holding.   *)
LEMMA Ageing ==
  ASSUME IInv, UNCHANGED <<token, rp>>, clock' \in Nat, clock' >= clock
  PROVE  /\ TokenOK'
         /\ \A S : TokenFrom(S) => TokenFrom(S)'
         /\ \A S : CopyHas(S) => CopyHas(S)'
<1>1. clock \in Nat /\ CacheLife \in Nat /\ TokenLife \in Nat /\ Skew \in Nat
  BY KeyBounds DEF IInv, TimesOK
<1>2. TokenOK'
  BY <1>1 DEF IInv, TokenOK
<1>3. Alive(token)' => Alive(token)
  BY <1>1 DEF IInv, TokenOK, Alive
<1>4. CopyUsable' => CopyUsable
  BY <1>1 DEF IInv, TimesOK, CopyUsable
<1>5. \A S : TokenFrom(S) => TokenFrom(S)'
  BY <1>3 DEF TokenFrom
<1>6. \A S : CopyHas(S) => CopyHas(S)'
  BY <1>4 DEF CopyHas
<1> QED BY <1>2, <1>5, <1>6

(* Time passes or the process stops; the plan is what it was.              *)
LEMMA QuietStep ==
  ASSUME IInv, UNCHANGED <<plan, since, token, rp>>,
         keys' = keys \/ keys' = Null,
         clock' = clock \/ clock' = clock + 1
  PROVE  TimesOK' /\ TokenOK' /\ Stage'
<1>1. clock' \in Nat /\ clock' >= clock /\ TimesOK'
  BY DEF IInv, TimesOK
<1>2. /\ TokenOK'
      /\ \A S : TokenFrom(S) => TokenFrom(S)'
      /\ \A S : CopyHas(S) => CopyHas(S)'
  BY <1>1, Ageing
<1>3. \A a, S : Runs(a, S) => Runs(a, S)'
  BY DEF Runs, KeysAre
<1>4. PICK k \in Key, n \in Key : InSteady(k) \/ InPre(k, n) \/ InAct(n, k)
  BY DEF IInv, Stage
<1>5. CASE InSteady(k)
  <2>1. InSteady(k)'
    BY <1>2, <1>3, <1>5 DEF InSteady
  <2> QED BY <1>1, <1>2, <2>1 DEF Stage
<1>6. CASE InPre(k, n)
  <2>1. InPre(k, n)'
    BY <1>2, <1>3, <1>6 DEF InPre
  <2> QED BY <1>1, <1>2, <2>1 DEF Stage
<1>7. CASE InAct(n, k)
  <2>1. InAct(n, k)'
    BY <1>2, <1>3, <1>7 DEF InAct
  <2> QED BY <1>1, <1>2, <2>1 DEF Stage
<1> QED BY <1>4, <1>5, <1>6, <1>7

(* The process is started: what loads is what was planned.                 *)
LEMMA StartStep ==
  ASSUME IInv, Start
  PROVE  IInv'
<1>1. /\ keys = Null /\ manifest = plan /\ keys' = Load(plan)
      /\ since' = IF since = Null THEN clock ELSE since
      /\ UNCHANGED <<clock, manifest, plan, token, rp>>
  BY DEF IInv, ManifestOK, Start
<1>2. clock \in Nat /\ Null \notin Nat /\ since \in Nat \cup {Null}
  BY KeyBounds DEF IInv, TimesOK
<1>3. TimesOK' /\ since' # Null /\ since' \in Nat
  BY <1>1, <1>2 DEF IInv, TimesOK
<1>4. /\ TokenOK'
      /\ \A S : TokenFrom(S) => TokenFrom(S)'
      /\ \A S : CopyHas(S) => CopyHas(S)'
  BY <1>1, <1>2, Ageing
<1>5. ManifestOK'
  BY <1>1 DEF ManifestOK
<1>6. \A a, S : KeysAre(a, S, Load(plan)) => Runs(a, S)'
  BY <1>1 DEF Runs, KeysAre
<1>7. PICK k \in Key, n \in Key : InSteady(k) \/ InPre(k, n) \/ InAct(n, k)
  BY DEF IInv, Stage
<1>8. CASE InSteady(k)
  <2>1. InSteady(k)'
    <3>1. Runs(k, {k})'
      BY <1>6, <1>8, LoadOf DEF InSteady
    <3> QED BY <1>1, <1>4, <1>8, <3>1 DEF InSteady
  <2> QED BY <1>3, <1>4, <1>5, <2>1 DEF IInv, Stage
<1>9. CASE InPre(k, n)
  <2>1. Runs(k, {k, n})'
    BY <1>6, <1>9, LoadOf DEF InPre
  <2>2. CopyHas({n})' \/ rp'.at <= since'
    <3>1. CASE CopyHas({n}) \/ rp = Null
      BY <1>1, <1>4, <3>1 DEF CopyHas, CopyUsable
    <3>2. CASE since = Null /\ rp # Null
      BY <1>1, <3>2 DEF IInv, TimesOK
    <3>3. CASE since # Null /\ rp.at <= since
      BY <1>1, <3>3
    <3> QED BY <1>9, <3>1, <3>2, <3>3 DEF InPre
  <2>3. InPre(k, n)'
    BY <1>1, <1>4, <1>9, <2>1, <2>2 DEF InPre
  <2> QED BY <1>3, <1>4, <1>5, <2>3 DEF IInv, Stage
<1>10. CASE InAct(n, k)
  <2>1. Runs(n, {k, n})'
    BY <1>6, <1>10, LoadOf DEF InAct
  <2>2. TokenFrom({n})' \/ token'.iat <= since'
    <3>1. CASE TokenFrom({n}) \/ token = Null
      BY <1>1, <1>4, <3>1 DEF TokenFrom, Alive
    <3>2. CASE since = Null /\ token # Null
      BY <1>1, <3>2 DEF IInv, TokenOK
    <3>3. CASE since # Null /\ token.iat <= since
      BY <1>1, <3>3
    <3> QED BY <1>10, <3>1, <3>2, <3>3 DEF InAct
  <2>3. InAct(n, k)'
    BY <1>1, <1>4, <1>10, <2>1, <2>2 DEF InAct
  <2> QED BY <1>3, <1>4, <1>5, <2>3 DEF IInv, Stage
<1> QED BY <1>7, <1>8, <1>9, <1>10

(* What tokens::issue signs.                                               *)
LEMMA IssuedTokens ==
  ASSUME clock \in Nat, NEW t, NEW resource, NEW openid \in BOOLEAN,
         NEW initial \in BOOLEAN, t \in Issued(resource, openid, initial)
  PROVE  /\ t.typ \in {"at+jwt", "JWT"} /\ t.openid \in BOOLEAN
         /\ t.kid = keys.active_kid /\ t.key = keys.encoding
         /\ t.aud # {} /\ t.iat = clock /\ t.exp = clock + TokenLife
         /\ t.typ = "at+jwt" /\ t.openid => UserInfo \in t.aud
<1> DEFINE aud == {resource} \cup (IF openid THEN {UserInfo} ELSE {})
<1>1. aud # {} /\ (openid => UserInfo \in aud) /\ {"client"} # {}
  OBVIOUS
<1>2. t = SignTyped("at+jwt", aud, openid) \/ t = SignTyped("JWT", {"client"}, openid)
  BY DEF Issued
<1> HIDE DEF aud
<1>3. CASE t = SignTyped("at+jwt", aud, openid)
  BY <1>1, <1>3 DEF SignTyped
<1>4. CASE t = SignTyped("JWT", {"client"}, openid)
  BY <1>1, <1>4 DEF SignTyped
<1> QED BY <1>2, <1>3, <1>4

LEMMA IssueStep ==
  ASSUME IInv, Issue
  PROVE  IInv'
<1>1. PICK resource \in {"api", UserInfo}, openid \in BOOLEAN,
           initial \in BOOLEAN : token' \in Issued(resource, openid, initial)
  BY DEF Issue
<1>2. /\ keys # Null /\ UNCHANGED <<clock, manifest, plan, since, keys, rp>>
      /\ clock \in Nat
  BY DEF Issue, IInv, TimesOK
<1>3. /\ token'.typ \in {"at+jwt", "JWT"} /\ token'.openid \in BOOLEAN
      /\ token'.kid = keys.active_kid /\ token'.key = keys.encoding
      /\ token'.aud # {} /\ token'.iat = clock
      /\ token'.exp = clock + TokenLife
      /\ token'.typ = "at+jwt" /\ token'.openid => UserInfo \in token'.aud
  BY <1>1, <1>2, IssuedTokens
<1>4. TimesOK' /\ ManifestOK'
  BY <1>2 DEF IInv, TimesOK, ManifestOK
<1>5. /\ \A a, S : Runs(a, S) => Runs(a, S)'
      /\ \A S : CopyHas(S) => CopyHas(S)'
  BY <1>2 DEF Runs, KeysAre, CopyHas, CopyUsable
<1>6. \A a, S : Runs(a, S) =>
        keys.active_kid = a /\ token'.key = a
        /\ \A T : a \in T => TokenFrom(T)'
  BY <1>2, <1>3 DEF Runs, KeysAre, TokenFrom
<1>7. PICK k \in Key, n \in Key : InSteady(k) \/ InPre(k, n) \/ InAct(n, k)
  BY DEF IInv, Stage
<1>8. \E a, S : Runs(a, S)
  BY <1>7 DEF InSteady, InPre, InAct
<1>9. TokenOK'
  BY <1>2, <1>3, <1>6, <1>8 DEF TokenOK
<1>10. CASE InSteady(k)
  <2>1. InSteady(k)'
    <3>1. TokenFrom({k})'
      BY <1>6, <1>10 DEF InSteady
    <3> QED BY <1>2, <1>5, <1>10, <3>1 DEF InSteady
  <2> QED BY <1>4, <1>9, <2>1 DEF IInv, Stage
<1>11. CASE InPre(k, n)
  <2>1. InPre(k, n)'
    <3>1. TokenFrom({k})'
      BY <1>6, <1>11 DEF InPre
    <3> QED BY <1>2, <1>5, <1>11, <3>1 DEF InPre
  <2> QED BY <1>4, <1>9, <2>1 DEF IInv, Stage
<1>12. CASE InAct(n, k)
  <2>1. InAct(n, k)'
    <3>1. TokenFrom({k, n})' /\ (since # Null => TokenFrom({n})')
      BY <1>6, <1>12 DEF InAct
    <3> QED BY <1>2, <1>5, <1>12, <3>1 DEF InAct
  <2> QED BY <1>4, <1>9, <2>1 DEF IInv, Stage
<1> QED BY <1>7, <1>10, <1>11, <1>12

LEMMA FetchStep ==
  ASSUME IInv, Fetch
  PROVE  IInv'
<1>1. /\ keys # Null /\ rp' = [jwks |-> keys.jwks, at |-> clock]
      /\ UNCHANGED <<clock, manifest, plan, since, keys, token>>
      /\ clock \in Nat
  BY DEF Fetch, IInv, TimesOK
<1>2. rp'.at = clock /\ rp'.jwks = keys.jwks
  BY <1>1
<1>3. TimesOK' /\ ManifestOK' /\ TokenOK'
  BY <1>1, <1>2 DEF IInv, TimesOK, ManifestOK, TokenOK
<1>4. /\ \A a, S : Runs(a, S) => Runs(a, S)'
      /\ \A S : TokenFrom(S) => TokenFrom(S)'
  BY <1>1 DEF Runs, KeysAre, TokenFrom, Alive
<1>5. \A a, S, T : Runs(a, S) /\ T \subseteq S => CopyHas(T)'
  BY <1>1, <1>2 DEF Runs, KeysAre, CopyHas
<1>6. PICK k \in Key, n \in Key : InSteady(k) \/ InPre(k, n) \/ InAct(n, k)
  BY DEF IInv, Stage
<1>7. CASE InSteady(k)
  <2>1. InSteady(k)'
    <3>1. CopyHas({k})'
      BY <1>5, <1>7 DEF InSteady
    <3> QED BY <1>1, <1>4, <1>7, <3>1 DEF InSteady
  <2> QED BY <1>3, <2>1 DEF IInv, Stage
<1>8. CASE InPre(k, n)
  <2>1. InPre(k, n)'
    <3>1. CopyHas({k})' /\ (since # Null => CopyHas({n})')
      BY <1>5, <1>8 DEF InPre
    <3> QED BY <1>1, <1>4, <1>8, <3>1 DEF InPre
  <2> QED BY <1>3, <2>1 DEF IInv, Stage
<1>9. CASE InAct(n, k)
  <2>1. InAct(n, k)'
    <3>1. CopyHas({k, n})'
      BY <1>5, <1>9 DEF InAct
    <3> QED BY <1>1, <1>4, <1>9, <3>1 DEF InAct
  <2> QED BY <1>3, <2>1 DEF IInv, Stage
<1> QED BY <1>6, <1>7, <1>8, <1>9

-----------------------------------------------------------------------------
(* The operator.                                                           *)

(* What a new manifest changes: the process goes on with the keys it has.  *)
LEMMA WriteStep ==
  ASSUME IInv, NEW m, Writes(m)
  PROVE  /\ plan' = m /\ since' = Null
         /\ TimesOK' /\ TokenOK' /\ ManifestOK'
         /\ \A a, S : Runs(a, S) => Runs(a, S)'
         /\ \A S : TokenFrom(S) => TokenFrom(S)'
         /\ \A S : CopyHas(S) => CopyHas(S)'
<1>1. /\ plan' = m /\ manifest' = m /\ since' = Null
      /\ UNCHANGED <<clock, keys, token, rp>> /\ clock \in Nat
  BY DEF Writes, IInv, TimesOK
<1>2. TimesOK' /\ ManifestOK'
  BY <1>1 DEF IInv, TimesOK, ManifestOK
<1>3. \A a, S : Runs(a, S) => Runs(a, S)'
  BY <1>1 DEF Runs, KeysAre
<1> QED BY <1>1, <1>2, <1>3, Ageing

LEMMA PrepublishStep ==
  ASSUME IInv, NEW o \in Key, Prepublish(o)
  PROVE  IInv'
<1>1. /\ plan.previous = <<>> /\ plan.next = <<>> /\ o # plan.active.kid
      /\ since # Null /\ Writes([plan EXCEPT !.next = <<Entry(o)>>])
  BY DEF Prepublish, Served
<1>2. PICK k \in Key, n \in Key : InSteady(k) \/ InPre(k, n) \/ InAct(n, k)
  BY DEF IInv, Stage
<1>3. InSteady(k)
  <2>1. <<Entry(n)>> # <<>> /\ <<Entry(k)>> # <<>>
    OBVIOUS
  <2>2. Pre(k, n).next # <<>> /\ Act(n, k).previous # <<>>
    BY <2>1 DEF Pre, Act
  <2> QED BY <1>1, <1>2, <2>2 DEF InPre, InAct
<1>4. k # o /\ [plan EXCEPT !.next = <<Entry(o)>>] = Pre(k, o)
  <2>1. plan = Steady(k)
    BY <1>3 DEF InSteady
  <2>2. plan.active.kid = k
    BY <2>1 DEF Steady, Active
  <2>3. [Steady(k) EXCEPT !.next = <<Entry(o)>>] = Pre(k, o)
    <3> DEFINE none == <<>>
               some == <<Entry(o)>>
               yes == TRUE
    <3>1. /\ Steady(k) = [active |-> Active(k), previous |-> none,
                          next |-> none, sound |-> yes]
          /\ Pre(k, o) = [active |-> Active(k), previous |-> none,
                          next |-> some, sound |-> yes]
      BY DEF Steady, Pre
    <3> HIDE DEF none, some, yes
    <3>2. [Steady(k) EXCEPT !.next = some] = Pre(k, o)
      BY <3>1
    <3> QED BY <3>2 DEF some
  <2> QED BY <1>1, <2>1, <2>2, <2>3
<1>5. /\ plan' = Pre(k, o) /\ since' = Null
      /\ TimesOK' /\ TokenOK' /\ ManifestOK'
      /\ Runs(k, {k})' /\ TokenFrom({k})' /\ CopyHas({k})'
  BY <1>1, <1>3, <1>4, WriteStep DEF InSteady
<1>6. InPre(k, o)'
  BY <1>4, <1>5 DEF InPre
<1> QED BY <1>5, <1>6 DEF IInv, Stage

(* Copies of /jwks without the new key have run out.                       *)
LEMMA ActivateStep ==
  ASSUME IInv, Activate
  PROVE  IInv'
<1> DEFINE m == [active |-> Active(plan.next[1].kid),
                 previous |-> <<Entry(plan.active.kid)>>, next |-> <<>>,
                 sound |-> TRUE]
<1>1. /\ plan.next # <<>> /\ since # Null /\ clock > since + CacheLife
      /\ Writes(m)
  BY DEF Activate, Served
<1>2. PICK k \in Key, n \in Key : InSteady(k) \/ InPre(k, n) \/ InAct(n, k)
  BY DEF IInv, Stage
<1>3. InPre(k, n)
  BY <1>1, <1>2 DEF InSteady, InAct, Steady, Act
<1>4. m = Act(n, k)
  <2>1. plan.next = <<Entry(n)>> /\ plan.active = Active(k)
    BY <1>3 DEF InPre, Pre
  <2>2. plan.next[1] = Entry(n)
    BY <2>1
  <2>3. plan.next[1].kid = n /\ plan.active.kid = k
    BY <2>1, <2>2 DEF Entry, Active
  <2> QED BY <2>3 DEF Act
<1>5. CopyHas({k, n})
  <2>1. CASE rp # Null /\ rp.at <= since
    <3>1. rp.at \in Nat /\ since \in Nat /\ clock \in Nat /\ CacheLife \in Nat
      BY <1>1, <2>1, KeyBounds DEF IInv, TimesOK
    <3>2. ~(clock <= rp.at + CacheLife)
      BY <1>1, <2>1, <3>1
    <3> QED BY <3>2 DEF CopyHas, CopyUsable
  <2>2. CASE CopyHas({n}) \/ rp = Null
    BY <1>3, <2>2 DEF InPre, CopyHas, CopyUsable
  <2> QED BY <1>1, <1>3, <2>1, <2>2 DEF InPre
<1> HIDE DEF m
<1>6. TokenFrom({k, n})
  BY <1>3 DEF InPre, TokenFrom
<1>7. /\ plan' = Act(n, k) /\ since' = Null
      /\ TimesOK' /\ TokenOK' /\ ManifestOK'
      /\ Runs(k, {k, n})' /\ TokenFrom({k, n})' /\ CopyHas({k, n})'
  BY <1>1, <1>3, <1>4, <1>5, <1>6, WriteStep DEF InPre
<1>8. InAct(n, k)'
  BY <1>3, <1>7 DEF InAct, InPre
<1> QED BY <1>7, <1>8 DEF IInv, Stage

(* Tokens signed with the previous key have run out.                       *)
LEMMA RetireStep ==
  ASSUME IInv, Retire
  PROVE  IInv'
<1>1. /\ plan.previous # <<>> /\ since # Null
      /\ clock > since + (TokenLife + Skew + CacheLife)
      /\ Writes(Steady(plan.active.kid))
  BY DEF Retire, Served
<1>2. PICK k \in Key, n \in Key : InSteady(k) \/ InPre(k, n) \/ InAct(n, k)
  BY DEF IInv, Stage
<1>3. InAct(n, k)
  BY <1>1, <1>2 DEF InSteady, InPre, Steady, Pre
<1>4. plan.active.kid = n
  BY <1>3 DEF InAct, Act, Active
<1>5. TokenFrom({n})
  <2>1. CASE token # Null /\ token.iat <= since
    <3>1. /\ token.iat \in Nat /\ since \in Nat /\ clock \in Nat
          /\ TokenLife \in Nat /\ Skew \in Nat /\ CacheLife \in Nat
      BY <1>1, <2>1, KeyBounds DEF IInv, TimesOK, TokenOK
    <3>2. ~(clock < token.iat + TokenLife + Skew)
      BY <1>1, <2>1, <3>1
    <3> QED BY <3>2 DEF TokenFrom, Alive
  <2>2. CASE token = Null
    BY <2>2 DEF TokenFrom, Alive
  <2> QED BY <1>1, <1>3, <2>1, <2>2 DEF InAct
<1>6. CopyHas({n})
  BY <1>3 DEF InAct, CopyHas
<1>7. /\ plan' = Steady(n) /\ since' = Null
      /\ TimesOK' /\ TokenOK' /\ ManifestOK'
      /\ Runs(n, {k, n})' /\ TokenFrom({n})' /\ CopyHas({n})'
  BY <1>1, <1>3, <1>4, <1>5, <1>6, WriteStep DEF InAct
<1>8. InSteady(n)'
  <2>1. {k, n} = {n, k}
    OBVIOUS
  <2>2. \E o \in Key : Runs(n, {n, o})'
    BY <1>7, <2>1
  <2> QED BY <1>7, <2>2 DEF InSteady
<1> QED BY <1>7, <1>8 DEF IInv, Stage

LEMMA BlunderStep ==
  ASSUME IInv, Blunder
  PROVE  IInv'
<1>1. /\ manifest' \in Blunders
      /\ UNCHANGED <<clock, plan, since, keys, token, rp>>
  BY DEF Blunder
<1>2. TimesOK' /\ TokenOK' /\ Stage'
  BY <1>1, QuietStep
<1>3. ~Loads(manifest')
  <2> DEFINE Any == [kid : Key, key : Key]
  <2>1. PICK k \in Key, n \in Key : InSteady(k) \/ InPre(k, n) \/ InAct(n, k)
    BY DEF IInv, Stage
  <2>2. /\ <<>> \in Seq(Any)
        /\ <<Entry(k)>> \in Seq(Any) /\ <<Entry(n)>> \in Seq(Any)
    <3>1. Entry(k) \in Any /\ Entry(n) \in Any
      BY DEF Entry
    <3> HIDE DEF Any
    <3> QED BY <3>1
  <2>3. \E a \in Key, v, w \in Seq(Any) :
          plan = [active |-> Active(a), previous |-> v, next |-> w,
                  sound |-> TRUE]
    <3>1. \/ plan = Steady(k) \/ plan = Pre(k, n) \/ plan = Act(n, k)
      BY <2>1 DEF InSteady, InPre, InAct
    <3> HIDE DEF Any
    <3> QED BY <2>2, <3>1, Zenon DEF Steady, Pre, Act
  <2> QED BY <1>1, <2>3, BlundersRefused
<1>4. ManifestOK'
  BY <1>3 DEF ManifestOK
<1> QED BY <1>2, <1>4 DEF IInv

-----------------------------------------------------------------------------
(* The theorems.                                                           *)

LEMMA InitInv == Init => IInv
<1> SUFFICES ASSUME Init PROVE IInv
  OBVIOUS
<1>1. PICK k \in Key : plan = Steady(k)
  BY DEF Init
<1>2. /\ clock = 0 /\ since = 0 /\ token = Null /\ rp = Null
      /\ manifest = plan /\ keys = Load(Steady(k))
  BY <1>1 DEF Init
<1>3. TimesOK /\ TokenOK /\ ManifestOK
  BY <1>2 DEF TimesOK, TokenOK, ManifestOK
<1>4. Runs(k, {k}) /\ TokenFrom({k}) /\ CopyHas({k})
  BY <1>2, LoadOf DEF Runs, TokenFrom, Alive, CopyHas, CopyUsable
<1> QED BY <1>1, <1>3, <1>4 DEF IInv, Stage, InSteady

LEMMA NextInv == IInv /\ [Next]_vars => IInv'
<1> SUFFICES ASSUME IInv, [Next]_vars PROVE IInv'
  OBVIOUS
<1>1. CASE Tick \/ Stop \/ UNCHANGED vars
  <2>1. /\ UNCHANGED <<plan, since, token, rp, manifest>>
        /\ keys' = keys \/ keys' = Null
        /\ clock' = clock \/ clock' = clock + 1
    BY <1>1 DEF Tick, Stop, vars
  <2>2. ManifestOK'
    BY <2>1 DEF IInv, ManifestOK
  <2> QED BY <2>1, <2>2, QuietStep DEF IInv
<1>2. CASE Repair
  <2>1. /\ UNCHANGED <<clock, plan, since, keys, token, rp>>
        /\ manifest' = plan'
    BY <1>2 DEF Repair
  <2> QED BY <2>1, QuietStep DEF IInv, ManifestOK
<1>3. CASE Blunder
  BY <1>3, BlunderStep
<1>4. CASE Start
  BY <1>4, StartStep
<1>5. CASE Issue
  BY <1>5, IssueStep
<1>6. CASE Fetch
  BY <1>6, FetchStep
<1>7. ASSUME NEW o \in Key, Prepublish(o) PROVE IInv'
  BY <1>7, PrepublishStep
<1>8. CASE Activate
  BY <1>8, ActivateStep
<1>9. CASE Retire
  BY <1>9, RetireStep
<1> QED BY <1>1, <1>2, <1>3, <1>4, <1>5, <1>6, <1>7, <1>8, <1>9 DEF Next

LEMMA Invariance == Spec => []IInv
BY InitInv, NextInv, PTL DEF Spec

(* In every stage the process has the keys of the tokens in use.           *)
LEMMA VerifyEverywhere == IInv => TokensVerifyEverywhere
<1> SUFFICES ASSUME IInv, Alive(token)
             PROVE  /\ keys # Null => Known(token)
                    /\ CopyUsable => CopyKnows(token)
  BY DEF TokensVerifyEverywhere
<1>1. token.kid = token.key
  BY DEF IInv, TokenOK, Alive
<1>2. ASSUME NEW S, NEW a, NEW P, TokenFrom(S), S \subseteq P, Runs(a, P),
             CopyHas(S)
      PROVE  /\ keys # Null => Known(token)
             /\ CopyUsable => CopyKnows(token)
  <2>1. token.key \in S
    BY <1>2 DEF TokenFrom
  <2>2. keys # Null => Known(token)
    BY <1>1, <1>2, <2>1 DEF Runs, KeysAre, Known
  <2>3. CopyUsable => CopyKnows(token)
    BY <1>1, <1>2, <2>1 DEF CopyHas, CopyKnows, Entry
  <2> QED BY <2>2, <2>3
<1>3. PICK k \in Key, n \in Key : InSteady(k) \/ InPre(k, n) \/ InAct(n, k)
  BY DEF IInv, Stage
<1>4. CASE InSteady(k)
  <2>1. PICK o \in Key : Runs(k, {k}) \/ Runs(k, {k, o})
    BY <1>4 DEF InSteady
  <2>2. {k} \subseteq {k} /\ {k} \subseteq {k, o}
    OBVIOUS
  <2>3. TokenFrom({k}) /\ CopyHas({k})
    BY <1>4 DEF InSteady
  <2> QED BY <1>2, <2>1, <2>2, <2>3
<1>5. CASE InPre(k, n)
  <2>1. /\ Runs(k, {k}) \/ Runs(k, {k, n})
        /\ TokenFrom({k}) /\ CopyHas({k})
    BY <1>5 DEF InPre
  <2>2. {k} \subseteq {k} /\ {k} \subseteq {k, n}
    OBVIOUS
  <2> QED BY <1>2, <2>1, <2>2
<1>6. CASE InAct(n, k)
  <2>1. /\ Runs(k, {k, n}) \/ Runs(n, {k, n})
        /\ TokenFrom({k, n}) /\ CopyHas({k, n})
    BY <1>6 DEF InAct
  <2>2. {k, n} \subseteq {k, n}
    OBVIOUS
  <2> QED BY <1>2, <2>1, <2>2
<1> QED BY <1>3, <1>4, <1>5, <1>6

(* No rotation makes a token unusable before its time: through restarts at *)
(* any point and faulty manifests, the process (SigningKeys::load) and     *)
(* every resource server with a current copy of /jwks know its key.        *)
THEOREM RotationKeepsTokens == Spec => []TokensVerifyEverywhere
BY VerifyEverywhere, Invariance, PTL

(* UserInfo answers access tokens for exactly their life and the skew, and *)
(* accepts no ID token; a logout hint is an ID token whose key is still    *)
(* published, of any age.                                                  *)
THEOREM TokensHaveOneUse == Spec => []TokensServeOnePurpose
<1>1. ASSUME IInv, keys # Null, token # Null
      PROVE  /\ UserInfoAnswers(token) <=>
                  token.typ = "at+jwt" /\ token.openid /\ Alive(token)
             /\ HintAccepted(token) <=>
                  token.typ = "JWT" /\ \E e \in keys.jwks : e.key = token.key
  <2>1. /\ token.typ \in {"at+jwt", "JWT"} /\ token.openid \in BOOLEAN
        /\ token.kid = token.key /\ token.aud # {}
        /\ token.iat \in Nat /\ token.iat <= clock
        /\ token.exp = token.iat + TokenLife
        /\ token.typ = "at+jwt" /\ token.openid => UserInfo \in token.aud
    BY <1>1 DEF IInv, TokenOK
  <2>2. clock \in Nat /\ TokenLife \in Nat \ {0} /\ Skew \in Nat
    BY <1>1, KeyBounds DEF IInv, TimesOK
  <2>3. Alive(token) => Known(token)
    BY <1>1, VerifyEverywhere DEF TokensVerifyEverywhere
  <2>4. /\ Alive(token) <=> ~(token.exp + Skew <= clock)
        /\ Alive(token) => clock <= token.exp + Skew
        /\ token.iat <= clock + Skew /\ token.iat < token.exp
    BY <1>1, <2>1, <2>2 DEF Alive
  <2>5. UserInfoAnswers(token) <=>
          token.typ = "at+jwt" /\ token.openid /\ Alive(token)
    BY <2>1, <2>3, <2>4 DEF UserInfoAnswers, Verify
  <2>6. Known(token) <=> \E e \in keys.jwks : e.key = token.key
    <3>1. PICK a, S : KeysAre(a, S, keys)
      BY <1>1 DEF IInv, Stage, InSteady, InPre, InAct, Runs
    <3>2. Known(token) <=> token.key \in S
      BY <2>1, <3>1 DEF KeysAre, Known
    <3>3. (\E e \in keys.jwks : e.key = token.key) <=> token.key \in S
      <4>1. keys.jwks = {Entry(x) : x \in S}
        BY <3>1 DEF KeysAre
      <4>2. \A x : Entry(x).key = x
        BY DEF Entry
      <4> QED BY <4>1, <4>2
    <3> QED BY <3>2, <3>3
  <2>7. HintAccepted(token) <=>
          token.typ = "JWT" /\ \E e \in keys.jwks : e.key = token.key
    BY <2>1, <2>4, <2>6 DEF HintAccepted
  <2> QED BY <2>5, <2>7
<1>2. IInv => TokensServeOnePurpose
  BY <1>1 DEF TokensServeOnePurpose
<1> QED BY <1>2, Invariance, PTL

=============================================================================
