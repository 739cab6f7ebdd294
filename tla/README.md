# Eri: TLA+ models, checks and proofs

Eri (`src/`) is an OAuth 2.1 / OpenID Connect provider in Rust. Users sign in
with Google; clients are registered statically or described by a client ID
metadata document (CIMD). All durable state is in PostgreSQL and all
concurrency between requests is decided there by row locks; two small caches
live in memory. The hard part of the program is what happens between two
awaits: another request may hold a row, a lease may run out, the caller may go
away.

## 1. Inventory

| Component | State | Operations | Interacts with |
|---|---|---|---|
| credential store, `credentials.rs` | `provider_sessions`, `authorization_codes`, `refresh_families`, `refresh_token_members` | issue and exchange a code, rotate and revoke a refresh token, log out | called by the token, revocation and logout handlers and by the browser store |
| browser store, `browser.rs` | `browser_authorizations` (stage, verifier, claim, CSRF), sessions, identities | begin, start, cancel, claim, fail, deny, complete, view, approve, approve pre-authorized | called by the browser handlers; creates sessions and codes |
| browser handlers, `web.rs` | none of their own; the browser's cookies | `authorize`, `google_start`, `callback`, `consent_get`, `consent_post` | browser store, CIMD fetcher, Google adapter |
| other handlers, `web.rs` | none | token (calls the store up to twice), UserInfo, revocation, logout, discovery | stores, keys |
| logout, `logout.rs` | `logout_challenges` | begin, confirm, finish by ID-token hint | sessions and families of the credential store |
| CIMD fetcher, `cimd.rs` | cache of documents, set of clients in flight, semaphore | fetch with a lease | remote metadata servers; its snapshots are what stores check leases of |
| Google adapter, `google.rs` | key cache behind a mutex, semaphore | exchange a code, look up a key | Google |
| registry and policy, `oauth.rs` | immutable; a projection of a metadata document per request | validation of requests, bindings, scopes, redirects | every store operation |
| identities, `database.rs`, `identity.rs` | `users`, `external_identities` | find or create | completed callbacks |
| tokens and keys, `tokens.rs`, `keys.rs` | immutable after start; changes with the manifest at a restart | load, sign, verify, publish | token, UserInfo, logout handlers; resource servers with a copy of the key set |
| configuration and entry, `config.rs`, `main.rs` | immutable | load, serve | all |

What makes each correct, in a sentence: a code or refresh token is used once,
and using it twice costs the grant (credential store); one callback, one
session, one consent, one code (browser store); the client hears once what the
row says (handlers); a session ends with all its grants and only at its owner's
wish (logout); nothing cached outlives its deadline, nothing leaks or blocks
(CIMD, Google); a grant never gives more than the client's document and the
operator's configuration give now (policy); a token verifies everywhere for as
long as it lives, and for one purpose (keys).

The hazards are listed line by line in `PROJECT.json`. They fall into six
groups: interleavings of requests on the same rows; values read before a wait
and used after it (rows, leases, clocks); replays and duplicates that must be
harmless or punished; requests cut off between two steps, or told an
error for something that happened; configuration, documents and keys that change
under grants and tokens already given; and caches, semaphores and mutexes that
must neither leak nor block for ever.

## 2. Modules

| Module | Models |
|---|---|
| `CredentialStore` | the credential store, one step per await |
| `GrantLedger` | what that store promises: an abstract ledger of sessions, codes, grants and tokens, one step per outcome |
| `CredentialLedger` | the refinement mapping from the first to the second |
| `CredentialProofs` | theorems about `CredentialStore` |
| `CredentialLedgerProofs` | the refinement, and theorems about `TokenEndpoint` |
| `TokenEndpoint` | extends `CredentialLedger`: the token and revocation handlers on the credential store |
| `BrowserStore` | the browser store, with identities and sessions |
| `WebFlow` | extends `BrowserStore`: the handlers that drive it and one browser's cookies |
| `LogoutStore` | logout challenges and hints, racing exchanges |
| `CimdFetcher` | the metadata fetcher and its cache |
| `GoogleKeys` | the Google adapter and its key cache |
| `ClientPolicy` | the rules of `oauth.rs`, `config.rs` and the CIMD document check as operators |
| `GrantPolicy` | one grant under those rules while documents and configuration change |
| `SigningKeys` | manifests, restarts, token signing and verification |
| `BrowserProofs`, `LogoutProofs`, `CimdProofs`, `GoogleProofs`, `GrantProofs`, `SigningProofs` | theorems about the module of that part |
| `MC...` | symmetry sets and constant definitions for TLC |

### How the models correspond to the code

*A request is a slot with a program counter.* In the stores `tx[r]` holds the
operation, the await it is at, the rows it has read and what it was given.
Statements that can block (`SELECT ... FOR UPDATE`, a conditional `UPDATE`, the
advisory lock) are steps guarded by the lock being free; a lock is a predicate
on program counters, because every lock lives until the transaction ends.
Reading the clock and the checks after it belong to the step that follows the
lock. Staged writes become visible in the commit step. `Cancel` at any await is
a dropped future, a crash or a database error before the commit took effect: the
transaction rolls back. A commit that took effect and whose acknowledgement is
lost is a commit to the store, and an error to its caller: the modules of the
handlers have that case (`LastAwaitFails`).

*Leases.* A request carries a registry snapshot. `LeaseLapses` may end its
lease at any await and records where; the code's checks (`ensure_fresh`,
`validate_binding`) are made where the code makes them. Exchange and rotation
judge a request on the row they find before they lock it, where they may refuse
it at once, and again under the locks.

*Data.* Columns that never change after the insert are compared with what is
presented; the model keeps only the outcome (`bound`, `admits`, `pre`). Secrets
are present or erased. Requests present secrets that were once handed out;
others select no row and change nothing.

*Row conditions.* PostgreSQL evaluates `WHERE` again on the committed row after
a wait, so a waiter whose row has moved on finds nothing. `clock_timestamp()`
inside such a condition is different: `start_google` and `cancel_google` compare
the expiry before they wait, and the model does the same.

*Handlers.* In `WebFlow` a handler awaits one store operation at a time and acts
on its answer; retries after `MetadataExpired`, the second resolution failing
and every error page are there. `told` records what the client was sent, `gone`
the authorizations of which a handler was cut off, and `lost` the claims and
codes whose commit took effect without its handler hearing of it. The handler
then answers `local_error`: the code is in the table and never reaches the
client, the claimed transaction's cookie stays in the browser until it expires,
and the properties name these two as their only exceptions besides a handler that
was cut off. One snapshot serves all of `authorize_valid`, each attempt elsewhere
resolves anew.

`TokenEndpoint` does the same for the token and revocation endpoints: handler
`h` drives the store's request `h`. `Cancel` is then the database failing under
the handler; `LastAwaitFails` lets the acknowledgement of a commit get lost; a
closed connection drops handler and transaction. `spent` remembers that a commit
on behalf of the call used the secret up. Calls the store refuses for bindings
or policy are left to `CredentialStore`.

*Policy.* A URI is a record of the parts the rules look at (scheme, host kind,
port, path, and whether it is spelled as the parser writes it). `ClientPolicy` has one operator per function of `oauth.rs`;
`GrantPolicy` resolves the client as `resolve_client` does, from the registry or
from a cached document, and applies them in the order of the operations. The
process restarts with another configuration (`Deploy`), the client's site serves
another document (`Publish`), at any time. Stores are atomic here: their
interleavings are the subject of the other modules.

*Keys.* `SigningKeys` follows the manifest on disk, the process with the keys it
loaded, one token and one resource server with a copy of the key set. The
operator follows the rotation procedure of `docs/operations.md`, and may write a
faulty manifest, which the start must refuse. Logout hints are refused once
their key is retired, as `docs/logout.md` says.

*Caches.* `CimdFetcher` and `GoogleKeys` use the monotonic clock. A timer that
is due fires before time goes on; a server answers at any time or never. An
answer with an `Age` was made that long ago: in `CimdFetcher` its document counts
from then, in `GoogleKeys` it holds the keys Google published then (`history`),
and the login that fetched them verifies with them even if they may not be
cached. Making a snapshot and publishing it are one step of `CimdFetcher`: the
mutex of the cache is never held across an await, and the reservation keeps every
other fetch of that client out until the publication is done.

### Bounds

Identifiers are UUIDs in the code; models have a few and start no request that
would need one more than is left. `MaxClock` bounds time, `MaxTokens` the ID
tokens remembered, `MaxHeader` the max-age of a response, `MaxTransit` how old an
answer of Google's may be on arrival, `MaxRotations` how often Google changes its
keys within a unit of time, and `FirstKeys` lists the key sets it may start with.
Lifetimes are one or two units. The code's comparisons with an expiry know two
outcomes, and time passes between any two awaits, so a run whose clock reaches
the expiry sees both, and the turn from one to the other between any two steps.
That is so for everything that expires in the runs except in `web_signed_in`,
where time stands still: it asks whether retries end, and expiry only ends them
sooner. Two
request slots are reused for ever, so that any number of requests may follow
each other while two overlap; each lock in the code is a mutual exclusion
between two transactions, and the invariants are about pairs. The size of a
semaphore is chosen in the initial state from `Capacities`: with one permit the
second caller finds none, with two the callers overlap; whether the relying
party is reviewed for silent logout is chosen there too. In `CredentialStore` a
request starts only if a row is left for every insert that may follow, counted
by distinct unspent secret, so that a replay or a concurrent redemption of the
same secret never waits for a row it will not insert. `credential_chain` has two
refresh tokens: two families of one, or one family after a rotation.
`TokenEndpoint` starts with the session and its code. `key_rotation` has room
for a token life, the cache life of the key set and the skew between any two
steps of the rotation. `client_policy` fixes a list of documents, configurations
and requests (`MCGrantPolicy`), chosen so that each rule decides between two of
them, and has time for a request to wait until the document it was resolved with
has left every cache. `TimeIsUp` in
the caches is not a step of the program: it keeps the end of bounded time from
being a deadlock. The `Web` configurations switch deadlock checking off: a
browser may stop.

## 3. Runs

| Run | Question |
|---|---|
| `credential_chain` | Two overlapping requests, one session, two codes with their families and two refresh tokens, expiry: is every snapshot current when used, every winner live, every replay punished, every logout complete; is a wrong binding or a stale lease harmless; does a revocation hit its target and nothing else; do the tables implement `GrantLedger`? |
| `token_calls` | Two calls at a time on one grant, with lapsing leases, database errors, lost acknowledgements and connections: does the second attempt never look like a replay, is a confirmed revocation true, is every call answered? |
| `browser_login` | Two logins of one subject with duplicated callbacks, failures and expiry: one claim, one session per completed callback, one user? |
| `web_answers` | Two authorizations of one browser with room for one session, all handlers, with database errors before and after a commit, hung-up clients, lapsing leases and expiry: is there one code at most, and none without a live session and consent or the recorded choice; is the client told once, and the truth; are codes delivered and claimed cookies cleared, unless the handler was cut off or never heard of the commit? |
| `web_signed_in` | Login and single sign-on, up to three authorizations: do the authorize, callback and logout handlers answer although leases keep running out? |
| `web_cookie_limit` | violation, see findings |
| `web_failed_callback` | violation, see findings |
| `logout_races` | Two sessions, two challenges, reviewed or unreviewed client, skewed clocks, exchanges and expiry: one logout per session, with its grants; does only the session's own reviewed token end it silently, and does it always? |
| `cimd_fetch` | Two callers, one permit or two, a one-entry cache: is the cache published in order, no lease longer than allowed, do permits and reservations come back, does every call return? |
| `google_logins` | Two logins, one permit or two, rotating keys, fresh and aged answers: does a withdrawn key die in time, however old the answers, for every login but the one that fetched them, are fetches rate limited and permits given back, does every login end although all wait for one fetch? |
| `client_policy` | One grant, static and metadata clients, changing configuration and documents, a cache: does every success follow a document and a configuration in force, is every refusal for a cause, also of a request that outlives its document, is trust never inherited? |
| `key_rotation` | Three keys, a full rotation and the start of the next, restarts and faulty manifests at any point: does every token verify at the provider and with cached key sets for its whole life, and serve one purpose? |

`browser_login` runs the store's login half by itself (`LoginSpec`), with two
sessions and no order imposed on the calls; the whole store is run through the
handlers of `WebFlow`.

Every property has a mutant: a plausible slip in one mapped definition that
makes TLC report the property violated.

### Findings

* `web_cookie_limit`: `docs/browser-flow-plan.md:63` promises "a maximum of four
  pending transaction cookies per browser". `authorize` counts the cookies its
  request came with, so parallel requests of one browser exceed the limit; then
  `transaction_cookies` reads none of them, and all callbacks of that browser
  are refused until enough cookies have expired.
* `web_failed_callback`: `docs/browser-flow-plan.md:70` says "A failed or
  replayed callback cannot create a provider session." The callback commits the
  session before it tries the pre-authorized approval; if that fails the browser
  gets an error page and no cookie, and an active session nobody can use stays.

* Without a run of its own, because `web_answers` has it as an exception:
  `docs/http-delivery-verification.md:19` says of claimed callbacks that "Every
  terminal path now clears the matched cookie". A callback whose claim was
  committed and not acknowledged ends in `local_error` and clears nothing.

### Fairness

A started handler's task runs: weak fairness of its own steps and of its store
request's. PostgreSQL and
tokio queue the waiters of a lock, so a lock step that is enabled again and
again is taken: strong fairness of lock steps. Clients are not fair: no request
need arrive. Remote servers are not fair either: in `CimdFetcher` and
`GoogleKeys` only timers and the passing of time are.

## 4. Proofs

The theorems hold for any sets of identifiers and requests and any lifetimes;
the runs check the same formulas on small instances. Each rests on an inductive
invariant of its module: the property alone is never inductive, because it says
nothing about requests that are half done. Every such invariant was model
checked before it was proved.

**The credential store** (`CredentialProofs`). `TypeCorrect`;
`ReadsStayCurrent` (rows read under locks are the stored ones when used);
`LocksAreOrdered` (who holds a session waits for nothing else);
`LogoutCompletes` (a revoked session has no live family); `WinnersWereLive` (a
redemption or rotation that succeeds does so on an unconsumed credential of an
unrevoked grant and session, at its commit). `LogoutIsComplete` alone is not
inductive: a commit of an exchange creates a live family, and what excludes that
its session was revoked since the check is that every writer of a session's rows
holds the session's lock. The strengthening says so: rows refer to existing rows
(`References`), at most one request holds a session (`SessionExclusion`), and
each request's snapshots equal the tables for as long as it holds the lock
(`RequestOK`). Each action preserves the snapshots of the others because it
writes only under a lock they cannot hold.

**Its history** (also `CredentialProofs`). `TokensFormAChain` (a family's tokens
are a chain with one live member at most): `ChainInv` adds that a token is
consumed exactly when it has a successor, and that successors are rows.
`TimesAreConsistent`: `TimeInv` adds that a clock reading taken under a lock is
after everything recorded of that session, which is why the code reads the clock
again after it waits. `RefusalsAreFinal`, `RefusedRequestsChangeNothing` and
`RevocationsHitTheirTarget` say what a refused or revoking request may write.

**What the store promises** (`CredentialLedgerProofs`). `StoreImplementsLedger`
and `LedgerIsImplemented`: every step of the store is a step of `GrantLedger` or
a stutter under the mapping of `CredentialLedger`. The mapping gives each code
the family it founded, so `OneFamilyPerCode` is proved first; then each commit is
matched with the one ledger step it stands for. For the handlers,
`RevocationAnswersAreTrue` (a confirmed revocation is true) and
`RetriesAreNoReplays` (the second attempt of a call never counts as a replay):
`TokenInv` adds to the store's invariant that a handler's request runs only while
the handler waits for it, on the handler's own secret, and that a commit ends the
last attempt. The steps of the handlers are steps of the store, or drop a request.

**The browser store** (`BrowserProofs`). `CallbacksClaimedOnce`, `OneCodeEach`,
`SessionsHaveCallbacks`, `SubjectsHaveOneUser`, `CodesNeedApproval`. The
invariant: what a request at each program counter has (`Shape`) and still knows
of the row it has locked (`Knows`), one holder per row and subject (`OneHolder`),
and how the stage of a row, its erased secrets, its claim count, its codes and
its session go together (`RowOK`, `SessionOK`).

**The browser's handlers** (also `BrowserProofs`, about `WebSpec`).
`ClientsHearOnce` (one answer per authorization, and a true one),
`CodesReachTheClient` (no code is swallowed by a handler that knows of it),
`ClaimsClearCookies` (nor a claim that its handler knows of left with a cookie), and
`HandlersIssueOneCode`, `HandlersNeedApproval` for the store under its handlers.
`WebInv` adds to the store's invariant which operation each handler awaits and on
which row (`Linked`); that the handler that has made a row and not yet set its
cookie is the only one to know it, so that nobody can have claimed it
(`OwnersOK`); that a claimed callback has its handler until the cookie is cleared,
unless that handler was cut off or the acknowledgement got lost (`ClaimersOK`);
that only what is in the tables got lost (`LostOK`); and that answers sent, or held by the one handler about to send
them, are what the row says (`AnswersOK`). `StoreEffect` reduces every step of
the store to three cases (silent, one insert, one change of a row that is not yet
final), so that the handlers' part need not know how the store works inside.

**Logout** (`LogoutProofs`). `SessionsEndOnce`, `LogoutsTakeGrants`,
`SilentLogoutsAreOwn`, `GenuineHintsNeverAsk`. The invariant: requests name
existing rows (`NamesItsRows`), a request past its checks holds rows that still
pass them (`MayCommit`), one holder per session (`SessionExclusion`), a used
challenge and the end of its session are the same event (`ChallengesMatch`), and
the age of remembered tokens against the skew of the clocks (`TokensPlausible`):
without it a genuine hint might look as if it came from the future.

**The metadata fetcher** (`CimdProofs`). `PublishedInOrder`, `DocumentsExpire`,
`FetcherLimits`. The invariant: a fetch is never past its deadline and nothing
newer than it is published for its client (`CallerOK`), one fetch per client
(`OneFlight`), permits taken are callers holding one (`PermitsMatch`), the cache
within its size and its deadlines (`CacheOK`, `SnapshotOK`). Lemmas about the
operators that choose a lifetime and evict an entry (`TtlCapped`, `RoomForOne`)
carry the arithmetic.

**The Google adapter** (`GoogleProofs`). `AdapterLimits`,
`WithdrawnKeysStopVerifying`: the same accounting for permits and the fetcher's
mutex, with the spacing of attempts and the deadline of the key set. `HistoryOK`
says that a key published once is published still or was withdrawn since, and
`LoginOK` that what a login received was published no longer than its `Age`
before it asked. The bound on a withdrawn key's use follows for the cache from
`Age` counting against the freshness; the login that fetched the answer does not
ask for freshness, so that the theorem bounds it by the `Age` instead.

**Signing keys** (`SigningProofs`). `RotationKeepsTokens`, `TokensHaveOneUse`.
The invariant follows a rotation through its three stages: which keys the
process runs with, which key live tokens have, and what every copy of the key set
still in use contains. It shows that the waits of the procedure are long enough.

**Client policy** (`GrantProofs`). `TrustIsNotInherited`,
`ConfigurationIsTheLimit`, `SuccessNeedsTheDocument`, `RefusalsHaveCauses`, for
any list of configurations, documents and requests. `GrantInv` says that a lease,
of the cache or of a waiting request, ends before its document is out of force
(`Leased`); that a request in flight has the registry `resolve_client` may have
returned for its client (`IsResolved`); and that the stored grant was accepted by
the configuration and document it was authorized under, which it remembers
(`WellFormed`). A success then comes with a fresh registry, the grant's binding
and its scopes (`SuccessMeans`); that equal bindings mean equal promises
(`BindingsDetermine`) and equal promises equal decisions (`SameAcceptance`) are
lemmas about the operators.

The proof corrected the property. Approval and exchange ask the lease first, so
that a document out of force never refuses anything. `rotate_refresh_request`
asks `permits_refresh` before the lease: a renewal that waited, resolved with a
document that had given up refresh tokens and has been replaced since, is told
`invalid_grant` where an approval would be told to resolve the client again.
Nothing is written then, and the client may retry; `RefusedOnlyForCause` names
the exception, and `client_policy` reaches it.

*Assumptions on constants*, each named in its module and evaluated by TLC:
lifetimes are positive, as the code's constants are; the Null that stands for SQL
NULL or `None` is no identifier, key, number, document or row
(`NullIsNoValue`, `BrowserNull`, `KeyBounds`, `KeyConstants`, `FetcherSets`,
`PolicyNull`); URIs, scopes and switches have their types (`PolicyTypes`); and
where permits are counted there are finitely many callers.

*Only model checked.* Liveness (`CallsReturn`, `LoginsEnd`, `CallsAnswered`,
`HandlersAnswer`): fairness and ENABLED are out of the prover's reach.

## 5. What is not modelled

* Request syntax, HTML, CORS, CSP and header rendering; the profile UserInfo
  returns; discovery.
* Cryptography, JWT and JWK syntax, claims of Google's tokens, the address policy
  of CIMD: a response or token is valid or not. PKCE is one outcome of `bound`.
* Issuer, bind address, database and Google settings of the configuration;
  migrations, the listener, readiness.
* Several instances of the process with different configurations or keys at the
  same time: one restarts after the other.
* Deployment scripts, smoke tests, examples.

## 6. Plan

Done, in this order: the credential store with its ledger and proofs; the
browser store; the caches; logout; the handlers on top of the browser store;
client policy; signing keys; the token and revocation handlers; then proofs of
the safety properties, store by store and of the handlers on top of them.

Left to model: a composition of consent, exchange and logout over one set of
sessions, so that codes come from approvals; Google's claims as operators.

Left to prove: nothing that is checked and in the prover's reach; every invariant
and action property of the runs is a theorem.
