# FastAuthMCP in TLA+

FastAuthMCP wraps a FastMCP server with authentication, authorization, sessions and
observability. This directory holds its formal models: TLA+ modules translated from the code
under `src/fastauthmcp/`, TLC configurations that check them on small instances, and proofs that
TLAPS checks for every value of the constants. `PROJECT.json` maps each definition to the lines
it stands for, and lists the runs, the theorems and the hazards of the code.

## 1. Inventory

### How the parts interact

A tool call enters through FastMCP's middleware interface, where the bridge of `server.py` gives
it a `RequestContext` and sends it down the **pipeline** (`middleware/pipeline.py`): the frames
*observability*, *session*, *authentication*, *authorization*, the plugins' before hooks, then
the tool; the response comes back through the same frames and through the after hooks, an
exception through the exception handlers. The **authentication** frame reads the **token
storage**, and refreshes, acquires or asks for a token through the **OAuth service**, which runs
the **callback server** during a login. It verifies a token's signature with a key of the **JWKS
manager**, whose fetches go through the **resilient client** and its **circuit breaker**. The
command line shares the token files with every server of the same user. The **configuration
loader** builds all this at start-up, and can watch its file.

Everything but the callback server, the file threads of the storage and the configuration
watcher runs on one asyncio loop per process: other code runs only at an `await`. These awaits,
the threads, the processes that share a directory and a port, and the identity provider at the
other end of the network are where the difficult behaviours are.

### The components

| component | state it keeps | operations | what is hard | what makes it correct |
|---|---|---|---|---|
| circuit breaker (`resilience.py`) | stored state, failure count, last failure, probe flag | execute, record success or failure, state, reset | calls in flight across transitions; the probe | opens at the threshold, one probe at a time, closes after one that succeeds |
| JWKS manager (`auth/jwks_manager.py`) | key set, its age, key URI, shared future, background task | get a key, coalesced and background fetch with back-off, invalidate | cancelled waiters, overtaking answers, key rotation, outages | one fetch at a time, every waiter answered, no retired key used for long, recovery |
| authentication (`middleware/authentication.py`) | stored tokens, login tasks, exchange cache | use, refresh, log in, client credentials, exchange | races of calls between awaits, lost answers, refused refreshes | sessions survive races and end when the provider ends them; every call is answered |
| OAuth service, PKCE (`auth/oauth.py`) | discovered endpoints | discovery, login flow, token requests | partial failure of a flow that outlives its call | all ways out of a flow free what it held |
| callback server (`auth/callback_server.py`) | the port, the answer | start, wait, shut down | timeout against answer, one port for all flows | the port is held exactly while a login waits |
| token storage (`auth/token_storage.py`) | key file, token files | store, retrieve, delete | several processes without locks, crashes between writes | nothing sealed under a lost key, the last store is found |
| pipeline, server, frames (`middleware/*`, `server.py`, `authorization.py`) | per call: context, response, log entry | before chain, after hooks, handlers | each frame and hook may return early, raise or be cancelled | nobody unidentified passes, policies enforced, one log entry per call, hooks in order, an answer for every call |
| server start (`server.py`, `security.py`) | configuration, plugins, pipeline, the bridge | load, build, attach, `use`, stop | any step may raise | serves with all that is configured, or leaves the application alone |
| sessions (`sessions.py`, `middleware/session.py`) | session table | create, restore, update, invalidate | expiry and other calls between a restore and the update | a session that has ended stays so; the latest token set is kept (never created in the server as wired, section 7) |
| identity and context (`identity.py`, `context.py`) | context variables of each task | set, clear, copy to a task | calls in calls, tasks that outlive a call | code runs for the user whose call it is, contexts apart |
| configuration (`config_loader.py`, `config.py`) | configuration in force, recorded modification time, thread | load, overrides, watch, stop | an editor, a poller and the application at once | a valid file takes effect, auth never changes, one thread |
| command line (`cli/`) | none | run, login, logout, whoami, doctor, config validate | a command fails half-way, or beside another | exit codes tell what was done; a failure spoils nothing |
| rate limiting (`rate_limiting.py`) | a bucket per tool and user | check | a refill that happens only when somebody asks | the limit holds over every window, users apart, honest `retry_after` |
| credential mapping, adapters, downstream clients (`credential_mapping.py`, `auth/adapters/`, `downstream.py`) | mappings, a cache of tokens | resolve, exchange, put, invalidate, make a client | one cache for the tokens of all users, APIs and scopes, while mappings change | a tool calls APIs with a token of its own user, got for what its mapping names |
| secrets (`secrets.py`) | backends, a cache | resolve, register | rotation while the old value is cached | no secret is used past the cache's time |
| degradation, multiple providers, audit | a flag, tables | see their modules | - | not modelled (section 8) |
| telemetry, metrics, redaction, schema export, lab | none that matters | conversions, output | - | not modelled |

Rate limiting, credential mapping with its adapters, and secrets are written and tested, but
nothing in `server.py` uses them.

`PROJECT.json` lists every part with its status, and 40 hazards at their lines.

## 2. The modules

| module | models | abstracted |
|---|---|---|
| `OneShotFuse` | what the breaker, as written, promises: it is intact, blown by as many failures in a row as its strength, or spent | everything but these failures and the calls that are out |
| `CircuitBreaker` | `CircuitBreaker.execute` and the errors `ResilientHttpClient` counts | time as an age capped at the cooldown |
| `SharedFetch` | what the key manager promises those who need keys: one fetch for all, and the same answer | keys, ages, retries |
| `JWKSManager` | cache, coalesced future, background refresh, retries, cancellation; the provider's rotation | a key set is its generation |
| `TokenLifecycle` | the authorization code and client credentials paths, login flow, callback port, restart; the provider's tokens | a token set is which access and which refresh token |
| `TokenLedger` | what authentication promises of token sets: issued, due, stored once, lent to calls, gone for good | how a call comes by them, and all failures but their effect |
| `TokenExchange` | the token exchange path with its cache; the provider's sessions | an upstream token is a value, accepted by the check of its structure |
| `Sessions` | `InMemorySessionStore` with the `SessionMiddleware` that uses it, for calls that overlap | what the frames below do: they identify, renew, raise |
| `SessionLease` | what the session store promises: an ID is issued once, its time runs and is not set back, and it ends for good | everything but phase, age and token set |
| `RequestScope` | context variables of identity, access token and request context; the bridge, nested calls, tasks that tools create, `FastAuthMCPTestClient` | a dict is who has written in it |
| `CredentialCache` | `CredentialResolver`, `TokenCache`, the adapters | a token is whose, and which audience and scopes the request for it named; an answer is one of five kinds |
| `Downstream` | `RequestScope` composed with `CredentialCache`, and the clients of `downstream.py` | the clients' requests |
| `SecretResolver` | `SecretResolver`, its backends and cache | a configuration is the references in it and where they are |
| `RateLimiter` | `TokenBucket`, `RateLimiter`, the middleware | time in ticks, levels in whole fractions of a token |
| `Refusals`, `Configuration` | breaker and limiter side by side; file and secrets side by side | nothing |
| `TokenStorage` | `EncryptedFileStorage`, file step by file step, for several processes | a file is the key and token set it holds, or empty, or torn |
| `CommandLine` | the commands as processes with exit codes | an access to the storage is one step, output is left out |
| `RequestPipeline` | bridge, frames, plugins, way back, hooks, handlers, for every configuration | how authentication comes by a token |
| `ServerStartup` | `FastAuthMCP.__init__`, `enable_fastauthmcp`, plugin loading, TLS context, `use`, composed with `RequestPipeline` | importing a plugin succeeds or raises |
| `ConfigWatcher` | loader, overrides, merge, polling thread, `watch` and `stop_watching` | a section is a value |

Variables carry the names of the attributes they stand for (a comment beside each says which).
An action is the code between two points where others can run: two awaits on the loop, two file
operations in a thread. A critical section under `asyncio.Lock` holds no await in this code, so it
is part of the step that enters it. Cancellation is an action of its own wherever the code awaits;
a crash or a restart drops all but files and the provider's state. Definitions marked *external* in the map
are what the code relies on: the identity provider, the browser, the operating system, the person
who edits the configuration.

The modules are composed by interface. `RequestPipeline` takes from authentication an identity,
an error response or an exception, which are the ways `TokenLifecycle` answers; `TokenLifecycle`
uses a storage whose operations are single steps, which `TokenStorage` refines into file
operations for the case that several processes share it; the fetch of `JWKSManager` is a call of
the breaker, which to it may fail at once. `CommandLine` uses the storage the same way. Two
compositions share state: `ServerStartup` with `RequestPipeline` (a call is served by the pipeline
that the start has built), and `RequestScope` with `CredentialCache` in `Downstream` (what a tool
exchanges is the token of the context it runs in).

## 3. The runs

Each `MC*.tla` gives the constants values; its `.cfg` names the properties.

Some runs hold components that do not touch each other (the breaker and the rate limiter; the two
ways to a token; files, commands and sessions; the file and the secrets in it): there each is explored with the others
at rest, in one state space, so that a property is checked against exactly the behaviours it has alone.

**refusals** (`MCRefusals`: `Refusals` of `CircuitBreaker` and `RateLimiter`). Threshold 3, so that a failure below,
at and beyond it differ; cooldown 2 ticks; every interleaving of three concurrent calls.
`FuseSpec`: the breaker implements `OneShotFuse` under the refinement mapping `Fuse`; it opens when
as many failures as its threshold have come in with no success between, in spite of calls that return
late, and lets one call out after that. `CooldownEnds`: rejected calls and late failures cannot keep
the circuit from being probed. The limiter has a
burst of two tokens of three fractions, a rate of two fractions a tick, so that a bucket holds
parts of a token, and a history of three ticks, in which a bucket fills; two users, and a tool
whose rate is zero. `LimitHolds`: no window sees more calls than burst and rate allow.
`DeniedFairly`: who waits for `retry_after` is served, and nobody is rejected for what another user did.

**jwks** (`MCJWKSManager`). Two requests, two tasks (a coalesced fetch beside a background one),
one rotation, one retry, answers that travel for a tick. `FlightSpec`: the manager implements `SharedFetch` under the
mapping `Flight`, through cancellation and invalidation. `RetiredKeyUnused`: an upper limit for the use of a retired key
that allows for answers overtaking each other. `WaitersAnswered`: nobody waits for ever.

**authentication** (`MCAuthentication`: `TokenLifecycle`, `TokenExchange`). Two calls, two tokens
issued (enough for one to replace the other while a call holds the first), three deployments.
`SessionSurvives`: calls that race do not lose a rotating refresh token. `PortHeldWhileWaiting`:
a flow that waits holds the port, and no way out of a flow keeps it. `LedgerSpec`: calls, logins,
refreshes, failures and restarts implement `TokenLedger` under the mapping `Ledger`.
`CallsAnswered`. Of the exchange: two calls, three upstream tokens, a cache of two, so that an
eviction meets concurrent exchanges of one token; a lifetime of tokens (1 tick) shorter than that
of an entry (2) and one as long; one session that may end. `RightToken`: no call gets what was
exchanged for another's token, and the cache outlives a session or a token for no longer than its
lifetime and the time answers and signature checks take. `EvictsOldest`, `ExchangesEnd`.

**storage** (`MCTokenStorage`: `TokenStorage`, `CommandLine`, `Sessions`). Two processes, the first
with two operations at a time, two token sets, two keys: all that is needed for a race for the
key, a crossed write, a store against a delete, and a crash in each. `SealedUnderTheKey`,
`LastStoreIsReadable`. Two shells and two logins: a command beside another, and a second login
over what the first has stored. `ExitsTrue`. Two calls, two session IDs, token sets for a creation
and two renewals: overlapping renewals of one session, and an ID given after another has ended.
`LatestKept`; `Leases`: the store implements `SessionLease`.

**server** (`MCServer`: `ServerStartup`, `RequestPipeline`). One call (calls share nothing in these
modules), every configuration, two plugins, a tool with two policies and one without, three
identities. `IdentifiedFirst`: where auth is configured, nobody without an identity reaches a
plugin's hook or a tool. `LoggedOnce`, `HooksInOrder`, `CallsAnswered` of the calls, and
`AllOrNothing` of the start that came before them. The authorization frame stands in the pipeline,
but as wired it knows no tool's policies (`toolFunctions`); that tools run only for those whom
their policies allow is what **server_policies** refutes.

**downstream** (`MCDownstream`). One task in which calls nest two deep and one that a tool leaves
behind, which may outlive the call; two users (symmetric), two APIs, a mapping with scopes of its own
and one that takes the configured ones, the latter with Entra's adapter, which names no audience; a
cache of one entry, so that every exchange evicts. The lifetime that is put is zero, the case in which `put` takes the default
instead; the default is one tick, so that entries expire. `OwnUser`, `ContextApart`; `OwnCredentials`: what an API is called with was got
with the token of the call, by a request that named the scopes of the mapping, or those configured, and its
audience or none. That it is a token *for* the asked API is more than the code gives (section 7).

**config** (`MCConfigWatcher`: `Configuration` of `ConfigWatcher` and `SecretResolver`). An empty file, a narrow one
and one that has other values everywhere and calls everything reloadable; files that are invalid,
unreadable or gone; two calls of `watch`; three readings of the modification time, so that edits fall within one and across
two. `NeverReloaded`, `OneWatcher`; `NothingMissed`: a thread at rest on the file's modification time
holds what the file says; `ValidFileTakesEffect`. Two backends, two values of each secret,
a lifetime of two ticks, and a configuration whose second reference can fail after the first has
been cached. `SecretsFresh`.

The remaining runs each check one statement of the documents that the code does not satisfy
(section 6): **breaker_probe** (`MCCircuitBreaker`), **jwks_too_stale**, **tokens_restart**,
**tokens_dead_session**, **server_policies**.

Bounds that are named in the modules: `LastGen` (rotations), `MaxIssued` (token sets issued),
`MaxLogins` (logins), `MaxKeys` (encryption keys made), `MaxUsed` (plugins given to `use`), `Depth`
(how far calls nest), `Ids` (session IDs given), `MaxTime` (ticks of the file clock), `Window` (how far the
history of `RateLimiter` goes back), `Latency` (how long an answer travels). Ages are capped at the
value they are compared with, or one beyond it, and the retry count at `MaxRetries`, which is no bound
but the code's. The breaker's failure count is not capped: `FailureCountIsBounded` proves that it is
finite.

### Fairness

Weak fairness of the steps of tasks and threads that have begun: asyncio runs what is ready,
every HTTP request has a timeout (httpx), the wait for the callback has one, middleware and hooks
are assumed to return. `Tick` is weakly fair where time is modelled with ages. Nobody is obliged
to make a call, cancel, rotate, revoke, edit a file or reset. `DemandSpec` of `JWKSManager` and
`TokenLifecycle` adds what a counterexample must not be blamed on: requests keep coming, and the
provider answers (`JWKSManager`), or the interruptions end (`TokenLifecycle`); only violation runs
use it. `ServerFairness` is that of the calls; nobody is obliged to start a server.
`ValidFileTakesEffect` is conditional on the edits coming to an end.

## 4. What is proved

Every invariant and action property that the runs check is a theorem of its specification, for
every value of the constants, and so are the four refinements (`FuseSpec`, `FlightSpec`, `LedgerSpec`,
`Leases`). The constants are
held to the named assumptions of each module: thresholds, sizes, lifetimes and bounds are natural numbers,
positive where a zero makes no sense to the code; markers (`None`, `NoTokens`, ...) are none
of the values they stand beside; and the sets whose members are counted are finite. TLC evaluates
them on every run. Each invariant needs a stronger one that is inductive, and what it adds is the
argument:

`RefusalsProofs` (`CircuitBreaker`, `RateLimiter`)

* `BreakerInvariant`: `HALF_OPEN` is never stored, the probe flag is set only on an open circuit, and
  the failure count plus the calls that are out stays within the budget. The bound on the count is
  not inductive alone: what keeps a late failure from exceeding it is that each failure takes a
  call from those that are out. `ClosedStaysBelowThreshold` and `FailureCountIsBounded` follow.
* `BreakerIsAFuse`: every step maps to a step of `OneShotFuse` or a stutter. The failure count is the
  strain while the circuit is closed, and what it counts beyond is nothing to the fuse.
* `CooldownNearsItsEnd`: while an open circuit cools down, only calls that come back can put off the end,
  and none goes out, so that `Out` and the time that is left fall in lexicographic order.
* `NoWindowExceedsTheLimit`: what a window has granted and what the bucket still holds are together
  no more than the burst and what has been refilled since (`BudgetKept`); the window's own limit does
  not follow from itself, since the next call draws on the level. `RejectionsAreFair`: who has
  waited as told finds what has been refilled since (`RefilledSince`, `PromiseKept`).
* `RefusalsTypes` is the type invariant of the two side by side, from those of each.

`StorageProofs` (`TokenStorage`, `CommandLine`, `Sessions`)

* `IInv`: two operations make a key at once only if `raced`, and while one makes it no key is on file
  (`Making`); the key file is not touched without encryption (`PlainFiles`); what files *and hands*
  hold is sealed under the key on file (`Sealed`; the hands are needed because a sealed token set is
  written later); and a file that is not spoiled is open in one store, then empty, or holds what was
  stored last (`FilesIntact`). `KeyIsNeverLost` and `StoredIsFound` follow, and `OneProcessNeverRaces`
  removes the proviso `~raced` for one process.
* `CommandInv` says of each command that no other process has interfered with how far it has come
  (`Progress`), and when it has exited, that its code is true of it (`Told`). A step of another shell leaves
  the entry alone or is noticed (`OthersKept`). `ExitCodesTrue` follows.
* `SessionsAreLeases`: a step does one of five things to each session (it stays, is issued, replaced,
  ages or ends), and each of them is a step of its `SessionLease` or a stutter. `SessionsKeepTheLatest`
  adds that a call that will update a session has the latest token set in hand (`HasTheLatest`).

`ConfigurationProofs` (`ConfigWatcher`, `SecretResolver`)

* `NothingForbiddenReloaded`, `OneThread`: the only thread alive is the one that is remembered, and there
  is none while `watch` is under way (`OnlyWatched`); what a thread hands to the callback has the
  sections that may not be reloaded as the configuration in force has them (`HandedOver`).
* `NoEditMissed`: what a thread has read, or hands over, while the modification time is the recorded one
  is what the file says (`UpToDate`), as is what the first load has put in force before the time is
  taken. It rests on the order in the code: a poll records the time before it reads. The edits that the
  file clock hides (`hidden`) are excepted; they are divergences of section 7.
* `NoSecretOutlivesItsTime`: a secret that is kept has been wrong for no longer than it has been kept
  (`NotOlderThanKept`), which bounds what the configuration is given from the cache.
* `ConfigurationTypes` is the type invariant of the two side by side, from those of each.

`JWKSManagerProofs`

* `FetchesAreTracked`: a task that runs has a kind and a step that belong together (`TasksConsistent`),
  without which the sets of running fetches say nothing.
* `FetchesAreShared`: from there every step maps to a step of `SharedFetch` or a stutter. The end of a
  coalesced fetch is the one that closes it for all who wait, and the end of a background refresh
  tells nobody.
* `FetchesNearTheirEnd`, `WaitersHaveAFetch`: the steps that a fetch still has (`FetchLeft`) are at most
  `3 * MaxRetries + 4`, each of its own steps makes them fewer, no other step makes them more, and who
  waits has a fetch with some left.
* `RetiredKeysUnused`: keys were published when the provider sent them (`PublishedInUse`), so those in an
  answer have been withdrawn for no longer than it has travelled (`RepliesYoung`), those in the cache for no
  longer than its age and the latency (`CacheYoung`), and no time passes between the end of a fetch
  and its waiters' look at the cache (`WokenInTime`).

`TokenLifecycleProofs`

* `PortHeld`: only a call in its login is in a flow (`NoLoginBesides`).
* `SessionKept`: a refresh token that has just been issued is alive and, where the provider rotates,
  in one hand only, not stored and in no other flow (`JustIssuedAlive`, `JustIssuedUnshared`), so that a call
  which refreshes with another cannot end it.
* `LifecycleIsALedger`: access tokens are numbered by their issue, no two holders have the same one on
  its way to the storage, and none has the one that is stored (`LedgerInv`); so a step issues, stores, deletes or loses one, while
  calls take what is stored at the time. `ReplacedIsGone`, `GoneForGood`: a token set that leaves the
  storage never comes back, of which the second is the temporal formula `[](Gone(t) => []Gone(t))`.
* `CallsNearTheirEnd`, `LoginsUnderWay`: a call has at most nine steps left when it reads the
  storage (`StepsLeft`), its own steps make them fewer and no other makes them more, and one that
  waits for a login has one under way.

`ServerProofs` (`RequestPipeline`, `ServerStartup`)

* Nothing is outside the observability frame, no other frame is one, and whoever authenticates does so
  before the one authorization (`BeforeShape`). A step goes inward, turns, goes back or around.
  `ToolsAreAuthenticated`: beyond the frame that authenticates, where all plugins stand, a call has an
  identity, which no way back takes from it (`IdentifiedInv`). `LoggedOncePerCall`: its entry is made when it leaves the observability frame
  (`LoggedInv`). `HooksRunInOrder`: what has run is a prefix of the after hooks and one of the
  handlers, and where the call stands says how long they are (`TrailInv`). `NothingOrAll`: a pipeline is
  complete before the bridge is put on the application (`WiredInv`).
* `CallsNearTheirEnd`: whatever raises and whatever hooks and handlers make of it, each step of a call
  leaves it fewer (`StepsLeft`: the frames inward and outward, the hooks and the handlers that
  are left), and none is entered twice.

`TokenExchangeProofs`

* `TokensAreRight`: each entry, and each token set on its way to a call, belongs to the key it is
  under, and is as old as the waiting since allows (`EntriesOk`, `CallsOk`); the entries are in the
  order of their age (`Ordered`). The age of what a call identifies with is bounded through that of the entry
  it came from.
* `OldestGoFirst`: the put of an entry leaves a subsequence of what was there (`PutIs`, `Yields`), so that
  an entry goes only from a full cache, and what stays was behind it.
* `CallsNearTheirEnd`: an exchange has four steps at most, and no other call sends it back.

`DownstreamProofs` (`RequestScope`, `CredentialCache`, `Downstream`)

* `ContextIsTheCalls`: a token and a user belong together (`Paired`), in the context and in every frame;
  a frame of the test client has kept what belongs to the frame it stands on, and one of a plain call that runs under
  the test token runs for the user below it (`Follows`). That is what makes the context right again when
  a call returns.
* `ContextsStayApart`: tasks that refer to one dict run for one user (`SharedOk`), and a dict that
  nobody refers to is empty (`GoneOk`). That a free dict exists is the pigeonhole principle.
* `CredentialsAreOwn`: an entry holds what was got with what its key says (`Fitting`, `CacheOk`), whatever
  mapping has put it there (`IssuedFits`), and what a task awaits is asked with the token of its call
  (`AskOk`). The type invariant bounds the cache.

Only model-checked: everything under fairness (`CooldownEnds`, `WaitersAnswered`, `CallsAnswered`,
`ExchangesEnd`, `ValidFileTakesEffect`), since the prover does not reason about `ENABLED`. What of these is safety is
proved, for every value of the constants: a measure that own steps lower and others do not raise
(`CallsNearTheirEnd` of `TokenLifecycleProofs`, `ServerProofs` and `TokenExchangeProofs`,
`FetchesNearTheirEnd`, `CooldownNearsItsEnd`), somebody to wait for (`LoginsUnderWay`,
`WaitersHaveAFetch`), and that a thread at rest has missed nothing (`NoEditMissed`). What is left to TLC is that a step can be taken wherever one is owed. The five
statements of section 6 are refuted by their runs.

## 5. Plan

Done: models of every part that is wired and keeps state (beside metrics), of the rate limiter, the
credential cache with its adapters and the secrets, and eight modules of proofs. Next:

1. Proofs: the measures of section 4 for the commands and the sessions, action properties of
   `TokenStorage`, and an abstract specification of the exchange cache that `TokenExchange` and
   `CredentialCache` both implement.
2. Graceful degradation, once something reports the breaker's transitions to it; routing of
   `multi_idp.py` as operators against a reference definition; the lab's runner.

## 6. Where the code and its documents disagree, with a run each

* **breaker_probe**: a probe that succeeds leaves the circuit open, since `HALF_OPEN` is computed
  and never stored (`resilience.py:109`; `docs/GUIDE.md:724`).
* **jwks_too_stale**: keys older than the staleness limit are refused and never fetched again
  (`auth/jwks_manager.py:242`; `docs/GUIDE.md:675`).
* **tokens_restart**: after a restart a refresh fails for want of endpoints, and the session is deleted
  (`auth/oauth.py:256`; framework `requirements.md:64`).
* **tokens_dead_session**: a refused refresh keeps the dead session (`middleware/authentication.py:223`;
  framework `requirements.md:119`).
* **server_policies**: the authorization frame drops the registry of tool functions that it is given,
  which is empty at the time and therefore false (`tool_functions or {}`), for one of its own that stays
  empty: the policies of decorators are never evaluated (`middleware/authorization.py:35`;
  `server.py:424`, `server.py:282`; `README.md:70`). The tests give the frame a registry that is filled.

## 7. Other divergences met while modelling, without a run

* A call nested in another one leaves its own identity and token to the outer call, and takes the
  outer call's request context away (`middleware/authentication.py:196`, `server.py:46`): `Return` of
  `RequestScope`. The test client puts back identity and token, but leaves its request context to the
  next test call.
* `downstream_token` answers the access token whatever audience and scopes it is given
  (`credential_mapping.py:154`).
* `resolve_config` says that it works recursively, and leaves references in dicts and lists within
  lists as they are (`secrets.py:101`).
* A CA bundle that is no PEM file raises `ssl.SSLError`, where `get_mtls_ssl_context` promises a
  `ConfigurationError` (`security.py`).
* A call that outlasts its session loses the token set it was given: no new session is made, and a
  renewal that crosses another call of its session is written over (`middleware/session.py:98`).
* A lifetime of zero that is put into the downstream cache counts as none given, and the default
  applies (`credential_mapping.py:103`).
* The commands use the storage entry `default`, servers the issuer's host (`cli/__init__.py:102`,
  `docs/GUIDE.md:1052`): a server does not find what login stored, logout removes nothing of it.
* No session is ever created in the server as wired: the bridge makes an empty metadata table
  and authentication puts no token set in it (`middleware/session.py:84`). For the same reason a
  token exchange never receives an upstream token.
* Cancelling one request that waits for keys cancels the shared future, and so every request that
  waits with it (`auth/jwks_manager.py:181`; idp-resilience `requirements.md:104`): step `Cancel` of
  `JWKSManager`.
* Entra's adapter takes an audience and sends only scopes, and the configured ones when it is given none
  (`auth/adapters/entra.py:63`; `auth/adapters/base.py:40` says "Target audience for the exchanged token
  (overrides config)"). Mappings name no scopes by default, so two APIs mapped to Entra get tokens for the
  same: `Sent` of `CredentialCache`.
* The OAuth service of a server is made without an HTTP client (`middleware/authentication.py:74`).
  Its requests bypass the circuit breaker, and `token_exchange_provider` is ignored
  (`auth/oauth.py:340`; idp-resilience `requirements.md:79`, `docs/GUIDE.md:202`).
* The adapters of Google and Entra, if used, let connection errors leave them as they are, where
  `auth/adapters/base.py` promises a `ProviderError`.
* A tool whose rate is zero does not answer that it is limited: once its bucket holds less than a
  token, `retry_after` divides by zero and the call raises (`rate_limiting.py:73`), also the last one
  the bucket had a token for.
* `use()` adds a plugin to a pipeline that has been built, and it does not run (`server.py:201`,
  `docs/GUIDE.md:1037`).
* After hooks run in the reverse of registration; framework requirement 8.2 says in its order.
* A call that is cancelled is logged as a success.
* Keys that are too stale make `_populate_identity` decode the token without verification
  (`docs/GUIDE.md:746` says such calls are refused).
* Two fetches of the same keys, coalesced and background, can be in flight.
* Two concurrent stores can tear a token file, and a crash during one loses the old token set too;
  without `cryptography` a torn file makes every retrieve raise.
* Two processes that make the first encryption key at once orphan what one of them sealed.
* Two servers of one user compete for one callback port, and the second login fails.
* A configuration edited between `load` and `getmtime`, or twice within one tick of the file
  clock, is not reloaded; a file that is unreadable for a moment, or a callback that raises, ends
  reloading (framework `requirements.md:187` and below). An editor that empties the file first has
  the empty configuration applied in between.

## 8. Not modelled

Signature arithmetic, JWT and JSON parsing, URLs and random values are data. The keychain backend
hands each operation to the operating system. Telemetry, metrics, audit lines, redaction, schema
export and reports are output or pure conversions. `graceful_degradation.py` is a flag that nothing
sets or reads, `multi_idp.py` three look-ups in tables that are made once; neither is wired. Resources
and prompts pass through to FastMCP. The lab is a test bench of its own (scripts, stubs of providers
and a user interface). An operation of the storage is one step in `TokenLifecycle` and `CommandLine`;
plugins that replace the identity of a call are not considered in `RequestPipeline`. In `RequestScope`
one task at a time is left behind by tools, and what it does after a nested call has replaced the
identity is left to `crossed`.
