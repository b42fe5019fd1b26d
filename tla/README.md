# Verification of the auth middleware

A TLA+ development for the device sessions, the single flight, the login, the
providers and the life of the server's processes: modules that model the code, TLC configurations that check them
on small instances, and TLAPS proofs of the main safety properties for every
value of the constants. `PROJECT.json` lists the components, runs, mutants,
source lines of every definition, findings, hazards and theorems.

    tlc -workers 2 -config DeviceStoreMemory.cfg MCDeviceStore  # a run
    tlapm DeviceStoreProofs.tla                                 # the proofs

## 1. The system

A server signs users in at an OAuth2 or OIDC provider and gives them JWTs. With a
database it keeps one row per device session in `auth_user_devices`: an HMAC
secret and a *generation*. Both tokens of a session carry the device id and the
generation they were issued for. `/refresh` bumps the generation, so every older
token dies with it, and a token of an older generation that turns up again is
taken for theft: the session is deleted. Several instances may run behind one
database if they share Redis.

| Component | State it keeps | Operations | Interacts with |
|---|---|---|---|
| device table (`database/device.go`, `schema.sql`) | rows: secret, generation, `user_email` (foreign key, cascades on delete and on update) | `SaveDeviceSecret`, `UpdateDeviceSecret`, `GetDeviceSecret`, `DeleteDevice`, `DeleteAllDevicesReturningIDs` | called by the cache; users table by foreign key |
| cleanup worker (`database/database.go`) | a ticker | deletes rows not updated for 7 days | the table, behind the cache's back |
| device secret cache (`cache/device`) | per device a secret with generation, or a tombstone; Redis (compare-and-set script) or in memory; a singleflight group per instance | `CachedDB.GetDeviceSecret`, `UpdateDeviceSecret`, `DeleteDevice`, `DeleteAllDevices` | device table, Redis |
| token manager (`jwt/jwt.go`) | none | generate, verify and rotate tokens | the device store |
| session handlers (`handlers/refresh`, `session`, `refreshtoken`) | the client's cookie | `/refresh`, `/refresh-access`, `/verify`, `/logout`, `DELETE /users/me` | token manager, device store, users store, single flight |
| single flight (`flight`) | per key: a local singleflight call, a Redis lock, a stored result (30 s) | `Do`, with the option `InFlightOnly` | Redis; runs the rotation or the exchange |
| login (`handlers/login`) | one-time state with PKCE verifier (`cache/state`) | `/login`, `/callback`, `handleExchange` | state cache, single flight, provider, users store, device store |
| users store (`usersdb`) | users table, own or of another program | `CreateUser`, `GetUsername`, `DeleteUser` | devices by foreign key |
| providers (`oauth2`) | none; the provider's tokens exist outside | exchange, userinfo, revoke, discovery | the network |
| configuration (`config`) | none | `Load`, `parseDuration` | the environment |
| start-up and shutdown (`cmd/main.go`, `database.open`, `usersdb.New`) | tables, socket files, what `OnExit` registered | `run`, `openDatabase`, `createListener`, discovery, `Shutdown` and the closers | every other part |
| identity token, HTTP helpers | none | signing, routing, rendering | |

What is hard here, and what makes each part correct:

* **Device store.** A read that misses the cache reads the row, and by the time it
  fills the cache an update or a deletion may be complete; updates may reach the
  cache in the opposite order of their statements; the row and the cache cannot be
  changed together. Correct means: the cache is never ahead of the row, never
  brings a deleted device back, and is behind only while an update is under way
  or after a failure.
* **Sessions.** Verification and bump are separate steps; two honest requests with
  one token look like theft. Correct means: only a token that was really replaced
  counts as reused, a token is rotated once, the client always ends with the
  current token, and every request is answered.
* **Single flight.** The result may appear between the look for it and the lock;
  locks are lost, deadlines pass (a waiter's, who then runs without the lock, or a
  holder's, whose lock goes while fn runs on), instances die; a replay must not get an
  old result. Correct means: between calls within their deadlines runs do not overlap, a
  success is not repeated or overwritten, a replay that leads is not answered from the past.
* **Login.** One callback may arrive several times, on several instances; every
  call of the exchange may fail after earlier ones took effect. Correct means: one
  session per login, none after a failed one, duplicates share the answer, and the
  session rests on an e-mail that the provider vouches for.
* **Start-up and shutdown.** Instances start beside each other on one database, are
  killed anywhere and leave files behind; the issuer may never answer; durations
  may overflow; an exit comes while requests are served. Correct means: a start
  fails for a reason only, it and the exit come to an end, what is published is
  usable, and nothing is closed under a request that Shutdown still waits for.

## 2. Modules

`DeviceStore` is the base; `Sessions` EXTENDS it and runs the handlers on top of
its calls. `SharedFlight` is the promise of a flight, an abstract specification that
`Flight` and `Sessions` implement. `Login` EXTENDS `Flight`, with the exchange as the
function that the flight runs, and `Providers`, which says what `GetUser` makes of
a provider's answers. `Startup` EXTENDS `Config`. `MC…` modules give constants their values,
`…Proofs` modules and `FlightRefinement` hold the theorems. Every mapped definition names its lines in
`PROJECT.json`.

### DeviceStore

One step per access to database, cache or singleflight group, so calls interleave
exactly where the code lets go of control. `pc[p]` is the next access:

| Call | Steps |
|---|---|
| `GetDeviceSecret` | `CacheGet`, `LoadDo` (start or join a load), `LoadQuery`, `LoadSet`, `LoadReturn` (answers everyone who joined) |
| `UpdateDeviceSecret` | `Bump` (the UPDATE), `Peek` (the cached secret), `Reread` (the row if there is none), `Publish` (the greater generation) |
| `DeleteDevice`, `DeleteAllDevices` | the DELETE, then `Bury` once per id |

A secret never changes while its row lives and ids are issued once, so a cached
secret is represented by its generation. `Writable` is the comparison made by the
Lua script and by the in-memory cache: a newer generation replaces an older one,
nothing replaces a tombstone. Environment: `SaveDeviceSecret` (a login), users
created, deleted or renamed (with both cascades), the cleanup worker, expiry,
eviction, crash. Every database call may fail, and a failed UPDATE or DELETE may
have been committed; every Redis command may fail.

History variables state the properties: `tainted` (a failure, or a statement
that bypasses the cache, may have left the entry stale), `buried` (deleted and
then entombed), `settled` and `floor` (the newest generation a finished update
returned, and that value when a read began), `blind` (a read did not see an
entry that was there). `aged` carries the timing assumption below.

### Sessions

`hp[p]` is the place in the handler; calls into `DeviceStore` are made by setting
`pc[p]` and picked up when they are over. A token is `<<device, generation>>`;
everything `verifyToken` may dislike besides the generation is the one outcome
`Rejected`. `/refresh` runs `rotate` in a flight: here the flight's checks under
the lock are one step (`Flight` has them in full). `LoseLock` takes the lock from a rotation
that runs on: its request has reached `rotateTimeout`, or the lock was not extended; once
the lock is free (`ExpireLock`) a request on another instance rotates beside it. Clients send any token they
were ever given, as often as they like. Status 200 stands for success (`/verify`
answers 204). `spent` and `replays` record which tokens an answered `/refresh` had
replaced, and which requests began with such a token.

### Flight

`Do` for one key: `Do` (join or lead), `Load` (first look), `Lock`, `Reload`
(second look), `Finish` (fn returns), `StoreResult` or `StoreFails`. A stored
result is represented by the call whose run it is. `EndContext` is the end of a call's
context, anywhere between its first look and its return. From then on what it asks of Redis fails
(`Fails`): the first look and the lock send it to run fn without the lock (`local`), the
second look is skipped, its result is not stored. `lockCtx` is a child of that context, so
the lock is given up at once, also under a run of fn, which goes on. `LoseLock`, `ExpireLock`,
`ExpireResult` and `Crash` are the rest of the environment. `older`, `during`
and `reused` record which calls began beside a stored result, which were under way
when it was stored, and which of the former were answered with it.

### SharedFlight

What a caller of `Do` may rely on, without singleflight, locks or looks: calls wait,
one of them runs, and those of its instance share the answer. A run that succeeds is
kept (`End`, `ToKeep`), serves calls on every instance, and is not forgotten before
those who waited for it elsewhere have had it (`owed`, `Forget`). A run beside another, or
one that repeats a success, happens only once one of the two calls has passed its deadline
(`Overrun` puts it in `solo`) or Redis has failed (`sound` is false), and never on one
instance. An in-flight-only call that noticed the result when it began (`replay`) runs for itself.

`Flight` maps its program counters to the phases of the promise (`Phase`) and
`DoSharesRuns` states that it implements it. In `Sessions` every token has a flight
of its own, made of the rotation's places in the handler (`Phase`, `Outcome`), and
`RefreshSharesRotations` states that each of them implements the same
specification. So the one-step flight of `Sessions` promises its handlers what
`flight.go` does. There a request waits only for a rotation of its own instance (`owed` is
empty): one that is before its lock has not entered the flight yet, and that the
result stays for it is the guard of `ExpireResult`.

### Login

`SetState` is `/login`; `Callback` enters the flight of `Flight`, and while it is at
`run` the process goes through `Take`, `Exchange`, `FetchUser`, `GetUsername`,
`CreateUser`, `SaveDeviceSecret`, `GenerateTokens`, `Undo` and `Revoke`. `mode`
is the deployment: with or without a database, registration, a username query,
tokens passed on, a right or wrong PKCE verifier, and the provider's client. A response without an error is
stored by the flight, one with an error is not (`Conclude`, `Fail`). The state cache and the
provider are asked under the flight's context and fail once that has ended; the database
is not. `Undo` is `DeleteDevice`, by e-mail and device: a row that `ChangeEmail` has moved
stays. `Revoke` posts one token, the refresh token if there is one; the model has one
token for the grant.

### Providers

`GetUser(o, a)` is the e-mail that the client `o` takes from the answer `a`: for OIDC
the id_token and then the userinfo document, for GitHub the profile and then the list
of addresses, for Google, Discord and a generic provider one document. A document
is what the code tells apart: whether it decodes, has a subject, which address it
names, how it spells "verified" (Go's `bool` refuses text, `flexibleBool` reads
it), whether an id_token is current and for this issuer and client. `Answers(o)` is every
document there may be, so `FetchUser` tries them all. The reference
`Acceptable` is written from the documents and not from the code's order of
looking: an address counts if a document vouches for it, unless there is a current
id_token of another issuer or for another client. GitHub's profile counts as vouching (the code
does not check it, GitHub shows verified addresses only).

### Config

`ParseDuration` works on the text as a sequence of parts (digits, then a character),
on integers that wrap around beyond `MaxInt` (`Wrap`), with the code's tests in the
code's order; `Totals` is its loop, as a recursive function over the parts. `Duration` and `BadDuration` are `envReader.duration`; `LoadErrors`
collects the errors as `Load` does, `Load` gives what start-up goes by. The
reference is `ExactLength`, in unbounded arithmetic, for a text that is `WellFormed`.
Booleans that are not "true" and unknown modes are taken for the default, silently. The
durations of `JWT_*` are parsed in every mode and a bad one is refused, as
docs/configuration.md:5 says; docs/deployment-modes.md:10, by which `JWT_*` has no effect
in the stateless mode, is about the lifetimes only.

### Startup

`Run(c)` is `run` as the sequence of calls that the configuration `c` makes it go
through; `todo[i]` is the rest of it, and each kind of call is an action: `Lock`,
`Create`, `Commit` (the transaction of a schema under its advisory lock), `Probe`,
`Call` (Ping, MkdirAll, the state cache), `Open` (a resource and its closer), the discovery loop
(`Discovered`, `Retryable`, `Backoff`, `DiscoveryFails`, `DiscoveryDeadline`), the
socket (`Unlink`, `Bind`, `Chmod`, `Rename`). `CallFails` is the error of any of
them, a commit whose outcome is unknown included; `Crash` kills the process at any point:
its transaction is rolled back and its socket files stay. A process that serves
takes requests; `Exit` (a signal, or an error of `Serve`) makes it run its closers, the
latest first, `Shutdown` waiting for the request or its deadline. `faulty[i]`
records that a call of this start failed in the world outside.

Taken from outside the repository: go-lifecycle runs the handlers after `run` has
returned and in reverse order of registration (the order in which the code
registers them makes sense only so); Postgres refuses a `CREATE TABLE IF NOT
EXISTS` beside an open transaction that creates the table, and a foreign key to a missing
one; a Unix listener that is closed removes the path it was bound to.

## 3. Runs

Passing runs:

| Run | Instance | Shows |
|---|---|---|
| DeviceStoreMemory | one instance, in-memory cache, 2 calls that may share loads, 2 devices of one user whose address may change (`OneAccount`), 1 failure | `CacheNotAhead`, `NoResurrection`, `CoherentAtRest`, `ReadsFresh`, types |
| SessionsRefresh | Redis, 3 clients (two on one instance), 2 rotations, token expiry | `OnlyOldTokensAreReuse`, `ConcurrentRefreshIsNotTheft`, `CurrentTokenIsHeld`, the refinement `RefreshSharesRotations`, types; `ReadsFresh` where loader, joiner and writer are three requests |
| SessionsFaults | Redis, 2 instances, 2 users, refresh, logout and login, 1 failure | the same invariants and `OneRotationPerToken` with failures, e-mail changes and the cleanup worker |
| SessionsMemory | one instance without Redis, all requests but logout, 1 failure | `OnlyOldTokensAreReuse`, `OneRotationPerToken` in memory |
| SessionsLive | one instance with Redis, refresh, verify and login, deadlines of waiters and holders, 1 failure | `RequestsAnswered`, `CallsReturn` |
| FlightRefresh | 3 calls on 2 instances, a context may end anywhere, 2 failures | `RunsExclude`, `SuccessNotRepeated`, `ResultNotOverwritten`, the refinement `DoSharesRuns`, `EveryDoReturns`, types |
| LoginCallbacks | 3 callbacks on 2 instances, 4 deployments with a generic, an OIDC, a GitHub and a Google client, all their documents over 2 addresses, failures of the exchange or 1 of the flight (`OneKindOfFailure`), e-mail changes | `OneSessionPerLogin`, `FailedLoginLeavesNothing`, `DuplicatesShareTheLogin`, `ProviderTokensRevoked`, `SessionEmailVouched`, `LeaderNotReplayed`, types |
| Startup | 2 instances, 3 starts, 8 deployments, 7 refused configurations, 60 texts of durations, any failure or crash | `DurationsAreMeant`, `StartFailsOnlyWithReason`, `PublishedSocketIsOpen`, `ServesWithItsSchema`, `RequestsKeepTheirResources`, `StartUpEnds`, `ExitEnds`, types |

Runs in which the code does not do what a document or a comment says:

| Run | Said | Done |
|---|---|---|
| DeviceStoreUserGone | "deleting a user removes their sessions" (README.md) | rows go, cached secrets stay usable until they expire (5 minutes) |
| SessionsLogout | `/logout` "deletes the device session" (docs/api.md) | a rotation between the sending of the logout and its verification makes the token an old one: 200, and the session lives |
| SessionsSlow | concurrent `/refresh` calls "share one rotation (across instances with Redis)" (docs/sessions.md) | a call that waits for the lock until its deadline rotates as well |
| FlightReplay | an in-flight-only caller "must neither reuse it nor overwrite it" (flight.go) | only the call that leads its instance is tested: who joins a call that waits for the lock gets the older result |

One more behaviour is allowed by `ReadsFresh` on purpose: a read that begins after
a deletion is complete may share a load that read the row before it, and returns
the device once more.

Every property of a passing run has a mutant in `PROJECT.json`: a definition with a
plausible mistake (marked "Faulty" in the modules) under which TLC finds the
property violated.

### Bounds

* `MaxGen` (2 or 3): one or two rotations of a device. A stale writer is told
  from a current one by comparing two generations; the third (SessionsRefresh) lets a token
  be two generations old.
* `MaxFaults` (0 to 2): failed calls, evictions, crashes, lost locks, statements
  that bypass the cache. The safety properties are proved for any number.
* Calls: two suffice for a lost update; three are needed for loader, joiner and
  writer (SessionsRefresh), and for one that joins on the instance of a call that waits for
  the lock of another (FlightRefresh, LoginCallbacks).
* Devices are independent but for `DeleteAllDevices`, hence two of them in
  DeviceStoreMemory. Two addresses are needed for an e-mail change (SessionsFaults, and
  DeviceStoreMemory, whose constraint `OneAccount` allows one account at a time).
* In LoginCallbacks failures of the exchange are not combined with one of the flight
  (the constraint `OneKindOfFailure`), and no context ends there (`Timeouts` is false): that belongs to
  `Flight`, whose runs have it, and the theorems about the login cover both.
* `MaxAddresses` (2): a list with a first primary address and another one.
  `EmailAlwaysVouched` is proved for lists of any length.
* `MaxStarts` (3): two instances beside each other and one of them once more after a
  crash, a failure or an exit. A process serves one request at a time.
* `MaxInt` (127, with units of 2, 8, 32 and 64): the texts lie on both sides
  of every test, such as 63 and 64 seconds, one and two days, sums of 126 and 128.

Deadlock is checked in the `DeviceStore`, `Flight` and `Login` runs. In `Startup` all
processes may have ended. In the
`Sessions` runs the bounds on devices and generations leave clients with nothing to send.

### Timing assumptions

Time is not modelled; three facts about the constants of the code are:

* a cache entry (5 minutes, a tombstone one more) outlives the calls that were in
  progress on its device when it was written: `Expire` waits for those in `aged`;
* a flight's result (30 s) outlives the contexts of the calls that were under way when
  it was stored (`rotateTimeout` 10 s, `exchangeTimeout` 30 s): `ExpireResult`
  waits for those in `during` until they have returned or their context has ended;
* the cleanup worker does not find a row 7 days old that an unfinished
  `UpdateDeviceSecret` has just touched.

### Fairness

Weak fairness of each process's own steps: the Go scheduler runs every goroutine,
and database, Redis and HTTP calls end, with an answer or an error. Weak fairness of
`ExpireLock`: a Redis key with a validity expires; and, in `Flight`, of `EndContext`: a context
with a deadline ends. Nothing is assumed of clients, failures or of who
gets the lock: a call that never gets it is saved by its deadline only, which is
why the liveness runs have `Timeouts = TRUE`. In `Startup`, weak fairness of a
process's own steps and of its two deadlines; none of requests, which may last for ever,
nor of an issuer that answers.

## 4. Proofs

All for arbitrary sets of devices, users, instances and calls, with and without
Redis, and arbitrary bounds. Assumptions: `Home` is a function, several
instances imply Redis, `None` is none of the other values, bounds are naturals,
the tables there are before any start are a schema (the devices reference the users),
and a duration variable is unset or a text, a sequence of parts (`TextAssumption`).
Every inductive invariant stands in the proof module that needs it and was
checked with TLC on the instances of section 3 before it was proved.

**DeviceStoreProofs.** `DeviceInvariant`: `Spec => []DeviceInv`, an inductive
invariant of six parts, each with its own lemma over all actions. `CacheNotAhead`
needs `GenerationsKnown` (what a call carries is a generation the row has had).
`NoResurrection` is not inductive: a load may carry the secret of a buried device.
`TombstoneHolds` adds that such a call is in `aged` and the tombstone still
stands, so neither its write nor expiry of the tombstone can succeed before it is
over. `CoherentAtRest` needs `DeadAreBuried` (a row that is gone is buried or about to
be) and `StaleIsTransient`: an old generation is in the cache only while the
update that replaced it is pending, and a call that still carries one meets
either that pending update or a newer entry that it cannot overwrite and that outlives it.
From it follow `TypeCorrect`, `CacheNeverAhead`, `NoSecretResurrected` and
`CacheCoherent`. The step is proved for `StoreNext`, what any client of the store may
do, so that `Sessions` can use it.

**DeviceReadsProofs.** `ReadsAreFresh`: `Spec => []ReadsFresh`. A read answers
with a generation that is at least its `floor`; to be inductive, `ReadsInv` says so of every
value on its way to a reader (`ReadersKept`: the row, its own load, any load it may
share), and that what a finished update returned stays in the cache as long as
anyone carries an older generation (`SettledKept`).

**SessionsProofs.** `SessionInvariant`: the store's two invariants hold under the
handlers, because every step of a handler is a step of `StoreNext` or leaves the store alone;
the place in a handler tells which call it waits for (`InPlace`), and a token
carries a generation that a login or a finished update gave out (`TokensGiven`). Steps that treat the
sessions alike are proved as one (`Shapes`). From it
`SessionTypes`, `SessionReadsFresh` and `ReuseOnlyOfOldTokens`: the session is deleted for
reuse only if the token's generation was really left behind.

**RotationProofs.** `RotationInvariant` is about rotations where nothing fails: one flight per token
(`LeadersApart`), a generation ahead of the newest token belongs to one request that is
about to answer with it (`InTurn`), a generation left behind was answered and who
came before that finds the answer stored (`AnswersKept`), and the newest token is held
or on its way (`NewestKept`). From it `RotatedOnce`, `RefreshIsNotTheft` and
`CurrentTokenStaysHeld`. They have the hypothesis `~Timeouts`: no request passes
its deadline, neither waiting for the lock nor holding it. It cannot be dropped: SessionsSlow
shows two rotations of one token when a deadline passes.

What remains true then, and after any failure, is `RefreshImplementsSharedFlight`:
`SSpec => RefreshSharesRotations`, the refinement of `SharedFlight` for every token at once.
Beyond `SessionInv` it needs that whoever has joined a flight has a leader beside it
(`JoinersFollow`), so that a stored answer, and a rotation that lands, find exactly the party
of the promise (`PartyLands`). With Redis the requests that exclude nobody (`solo`) are
those that rotate without holding the lock, whether they never had it or their deadline
took it from them under the rotation (`LosesOfFlight`); the holders' lock (a part of `STypeOK`) gives the
promise its guard: a run that starts under the lock meets only such runs
(`LeadsOfFlight`). A rotation under the lock that succeeds is kept (`LandsOfFlight`). One lemma per shape of step shows that it is `Start`, `Wait`, `Reuse`,
`End`, `Leave`, `Forget`, `Overrun`, `Crash` or `Lose` of its own token's flight and nothing to the others
(`PhaseKept`, `NoneOfIt`).

**FlightProofs.** `FlightInvariant`: one leader per instance and key
(`OneLeader`), which call may be where (`Places`), without a fault only a call whose context has
ended runs without the lock (`Deadlines`), the lock has one holder and
whoever relies on it has it until its context ends (`LockHeld`), no result stands beside a
run that is to be stored unless its context has ended (`NothingStored`), a call that began
beside a result knows it (`ReplaysMarked`).
From it `FlightTypes`, `RunsExcluded`, `SuccessNeverRepeated` and the action properties
`ResultNeverOverwritten` and `LeaderNeverReplayed`.

**FlightRefinement.** `DoKeepsItsPromise`: `FSpec => DoSharesRuns`, the refinement of
`SharedFlight`. The phases of a call are a function of its program counter
(`Phases`). `OneLeader` makes the calls that get an answer exactly the party of the
promise (`Returns`); `LockHeld` shows that a run that starts under the lock meets only
runs whose call has passed its deadline, or went local after a failure; `NothingStored` that a
run whose call is in time stores its result, and that it is still there for those who wait for it
(`StoresOwed`, `ReturnsOwed`): they are the instances in `owed`, where a leader is on its way to its last look.
Then every action is one of `Starts`, `Ends`, `Reuses`, `Overrun`, or changes nothing the promise sees. With `LoginRunsTheFlight` below it
holds of the login's flight as well.

**LoginProofs.** `OneSessionEver`: `LSpec => []OneSessionPerLogin`, by `RightSpentOnce`: the right
to create the device belongs to the state, then to the one call that took it,
then to nobody. It does not rest on the flight, so it holds whatever becomes of locks and results.
`EmailAlwaysVouched`: `LSpec => []SessionEmailVouched`. One lemma per provider (`OIDCEmail`,
`GitHubEmail`, `DocumentEmail`) shows that what `GetUser` returns is
`Acceptable`, for any addresses and lists of any length; `EmailSound` carries that
through the exchange. `LoginRunsTheFlight`: `LSpec => FSpec`, every step of the login
is a step of the flight or leaves it alone, so the theorems of FlightProofs hold of
the login too.

`LoginInvariant` adds to the flight's invariant that the state is taken by one call at
most, and that nobody is answered 200 before that call has finished (`TakenOnce`). On
it rest three more inductions: a device row is the login's answer, or will be, or will
be deleted unless its e-mail changes first (`RowAccounted`); whoever is answered 200, the provider's tokens have been revoked before
(`TokensAccounted`); and where nothing fails nobody is refused while the login may
yet succeed, and afterwards who was under way finds its result (`LateTogether`,
`KeptAnswered`, `DuplicatesServed`). An exchange has many steps, but the argument tells
only three apart: it goes on, it concludes, or it errs (`GoesOn`, `Concludes`,
`Errs`). From them `LoginTypes`, `NothingLeftBehind`, `TokensAlwaysRevoked` and
`DuplicatesAlwaysShare`; the last speaks, as the property does, of deployments
without `Timeouts` and without faults.

**StartupProofs.** `StartupInvariant`: `Spec => []StartupInv`. The first part is
about `Run(c)` alone: for every configuration it is a `Program`, in which the calls
of a transaction, and those of the socket, follow each other with nothing between
(`Pair`), the users come before the devices, every call that the configuration needs is
there and the server is the last (`RunShape`). What is left after a call is a program
again (`ProgramTail`), so the invariant can say: a call that a start needs is
pending, or has had its effect (`SchemaInv`, `SocketInv`, `CloserInv`), and the
open transaction is the one whose calls are at the head (`TxInv`). A step of one process
leaves the others alone, as tables are never dropped (`OthersKept`). From it `StartupTypes`,
`SocketPublishedOpen`, `SchemaBeforeService`, `ResourcesOutliveRequests`.
`StartsFailOnlyWithReason` is proved with it as its own induction: the lock makes
another creator of the table impossible, the removed file makes the bind succeed, and a
reason once given stays one, since only a configuration that cannot fail
for the users table commits it (`ReasonKept`).

`ParseIsExact` is about `parseDuration` alone: for every `MaxInt` and all units the
assumptions allow, every text of any length and every unit of bare numbers, the result is the exact
length in unbounded arithmetic, or an error exactly when the text is malformed or the length
does not fit. Each test in the code is needed for one lemma: the quotient tells
whether a product fits (`FitsIffQuotient`), what fits does not wrap (`WrapKeeps`,
`MultiplyIsExact`), the difference tells whether a sum fits (`AddIsExact`); as lengths are never
negative, a sum that once exceeded the limit never fits again. The loop is an induction over
the parts (`TotalsAreExact`). The library's induction takes an operator as a parameter,
so it is applied to the set of numbers for which the claim holds (`NaturalsAll`, from a
least counterexample), and the recursive functions are unfolded the same way (`TotalsAt`, `SumsAt`).
`LifetimesAreSpelledOut`: `Spec => []DurationsAreMeant` carries it to the processes: one that
runs has loaded its configuration without an error (`Loaded`).

Every safety invariant, action property and refinement of the passing runs is proved. Only
model-checked: the liveness properties `CallsReturn`, `RequestsAnswered`, `EveryDoReturns`,
`StartUpEnds` and `ExitEnds`, which rest on fairness and ENABLED, beyond the proof system;
and the four runs that expect a violation, which are counterexamples.

## 5. Not modelled

Signatures, claims and encodings; HTTP bodies, cookies' attributes and logging; the
identity token, a pure signature; the form of the provider's requests, AuthURL and
the issuer check before a callback is accepted; the test provider, which is test
code. Time is not modelled, so the relation of `WriteTimeout` to the timeout of the
exchange is a hazard without a property. Two processes with one socket path are left
out as well: every instance of `Startup` has a path of its own, and nothing in the
repository says that processes may share one. `PROJECT.json` gives the reason for
each part that is left out.

## 6. Plan

Done, in order of importance: device store and its proofs; sessions; flight and
its proofs; login and its main theorem; the abstract flight and its two refinements,
both proved; providers and the theorem about the e-mail; configuration, start-up and
shutdown; the proofs of every safety property, the arithmetic of durations included. Left:

1. a model of time coarse enough to relate `WriteTimeout` to the timeout of the exchange;
2. two processes with one socket path, where the listener of one removes the temporary
   path of the other.
