# TLA+ specification of mcp-authkit-go

mcp-authkit-go adds authentication to MCP servers: it validates the caller's
OIDC token, and it holds a tool call back until the user has completed a
third-party OAuth flow or typed in credentials.  This directory specifies its
components and their interaction, model-checks them with TLC and proves their
safety properties with TLAPS for every instance size.

`PROJECT.json` maps every definition to the Go lines it models.

## 1. The system

| Component | State | Operations |
|---|---|---|
| `store/store.go` | contract only | `TokenStore`: Get, Set, Delete. `PendingStore`: Create, Get, Pop, SetResult, WaitForResult |
| `store/memory.go` | maps under a mutex; one `doneEntry` with a channel per signalled key | the same |
| `store/file.go` | one file per token, per flow and per result | the same, no lock, rename for atomic writes, polling for WaitForResult |
| `store/redis.go` | Redis keys with native expiry | the same, polling |
| `store/encryption.go` | an AES-GCM key | Encrypt, Decrypt |
| `store/factory.go` | none after start-up | chooses the backend, gives each token store a namespace |
| `oauthprovider` | `sessions` (flows in progress in this process) | RequireToken (blocking or fail-fast), getOrRefreshToken, HandleCallback, InvalidateToken |
| `credentialsprovider` | `sessions` | RequireCredentials, HandleEntry, HandleSubmit, InvalidateCredentials |
| `jwtvalidator` | discovery document and JWKS caches | Validate, Shutdown |
| `middleware/middleware.go` | none | bearer extraction, 401 challenges, user in the context |
| `middleware/routes.go` | none | resource metadata, server metadata (from the issuer, or default paths), client registration |

How they interact.  A tool call goes through the middleware, which puts a
subject in the context, and then through a provider.  The provider reads the
token store; on a miss it generates a random state, creates a pending entry under
it and asks the MCP client to send the user to a URL (`Elicit`).  When the client
accepts, the call blocks in `PendingStore.WaitForResult`.  The user's browser
later reaches `HandleCallback` (or `HandleSubmit`), perhaps on another replica:
it pops the entry, exchanges the code, writes the token store and calls
`SetResult`.  The blocked call wakes up and reads the token store again.  Call and
callback share nothing but the two stores, and no lock spans two store operations.

What is hard here:

* **Interleaving.**  Several calls of one user, several redirects with the same
  state, refreshes and invalidations all touch the same keys.
* **Ordering.**  The token has to be stored before the call is signalled; the
  signal may come before anyone waits for it.
* **Failure.**  A replica may stop between any two store operations; a store
  operation, the token endpoint or the client may fail.
* **Time.**  The pending entry, the wait, the recorded result and the token each
  have a clock of their own, started at different moments.
* **Caches.**  The validator keeps the issuer's first discovery document for ever
  and its keys until the next refresh; requests interleave while both are filled.
* **Keys at rest.**  A read removes what it cannot decrypt, so a wrong key destroys
  data, and replicas share one directory or Redis.
* **Backends.**  The contract promises an "atomic get+delete" and a signal that
  wakes the waiter; each backend builds them from different primitives.

The hazards are listed, each at its line, in `PROJECT.json`.

What makes a component correct:

* providers: tokens and credentials stay with the subject that authorized them; a
  state or link is usable once; one that a declined prompt took back is dead; "ok" is signalled after
  the write; nobody waits for ever; a refresh does not lose the refresh token;
  sessions are not leaked;
* pending stores: they implement the contract; no result is lost or given to two
  waiters; no operation blocks the others; no torn record is read;
* token stores: a provider sees its own values only; with one key in use an
  acknowledged value survives crashes and restarts and is readable everywhere;
* validator, middleware, routes: a token is accepted only if every check passed,
  under concurrent first requests and a failing discovery; a client that follows
  the challenge gets in once the issuer is healthy, whatever failed before; a
  withdrawn key dies.

## 2. Modules

| Module | Models | State and actions |
|---|---|---|
| `PendingStore` | the contract in `store.go` | `pending`, `done`, `waiting`, `signal`, `now`; one atomic action per operation, WaitForResult as StartWait followed by Deliver, TimeOut or Abort |
| `OAuthProvider` | `oauthprovider.go` | a program counter per tool call and per callback; one action per store access, client answer or token-endpoint answer; instantiates `PendingStore`, the token store is the map `tokens` |
| `CredentialsProvider` | `credentialsprovider.go` | likewise |
| `MemoryPendingStore` | `memory.go` | the maps, the heap of `doneEntry` objects with their one-slot channels, WaitForResult as three critical sections; refines `PendingStore` |
| `FilePendingStore` | `file.go` | the directory, the temporary files, one action per system call of each process |
| `RedisPendingStore` | `redis.go` | the keys with their expirations, one action per command of WaitForResult, commands that fail with or without effect; refines `PendingStore` |
| `TokenStores` | `factory.go`, `encryption.go`, the three token stores, and the pending records as far as encryption goes | values at rest by location, the key each replica runs with; CreateStores at Start, Set, Get and Delete, the removal after a failed decryption as a step of its own, crashes, operators changing keys |
| `JwtValidator` | `jwtvalidator.go` | the two caches, a program counter per Validate; the issuer and jwk.Cache as environment |
| `SessionAuth` | `middleware.go`, `routes.go` | composes `JwtValidator` with the middleware, the routes and MCP clients that follow challenges |
| `OAuthProviderProofs`, `CredentialsProviderProofs`, `MemoryPendingStoreProofs`, `FilePendingStoreProofs`, `RedisPendingStoreProofs`, `TokenStoresProofs`, `SessionAuthProofs` | | inductive invariant and theorems about the module in the name |
| `MC*` | | small instances for TLC |

Correspondence with the code, by example.  `RequireToken` is the path
Begin, ReadToken, [Refresh, Drop or Save], then FailFastError, or CreatePending,
ElicitAccept, Signalled and ReadToken again; every early return of the Go code is
a branch to one of the names in `Ended`.  `HandleCallback` is CallbackPop,
Exchange, StoreToken, SignalSuccess with the error branches CallbackError,
CallbackMalformed, SignalFailure.  `Goto` carries the deferred
`delete(p.sessions, state)`.  `Validate` is Validate, ReadConfig, [FetchConfig,
StoreConfig], EnsureRegistered, [Register, Ready or GiveUp], Verify: one step per
critical section or call of the cache.  `Crash*` is the replica going away: the call or
request disappears, the shared stores stay.  Definitions whose comment starts
with "Mutant" are deliberately wrong variants; no specification uses them (see 5).

Abstractions.

* A token is what the code looks at: whether it has an access and a refresh
  token, its expiry, and (history) the flow it descends from.  JSON, HTML, URLs,
  encryption and logging are left out.
* Random identifiers do not repeat (`generateID` draws 24 or 32 bytes).
* A browser can send any identifier that was issued, at any time, repeatedly.
  A callback with one that was never issued changes nothing that is read later.
* Time is counted in ticks; `Tick` may be delayed arbitrarily relative to the
  other actions.  In the providers' modules a second is `Second` ticks: the TTL of
  an entry is cut to whole seconds (`int(p.tokenTimeout.Seconds())`) while the wait
  has the full timeout.  The contract compares times exactly; the file backend
  compares whole seconds (`file.go:179`), so its links live up to one second more.
* A declined prompt pops its entry and ignores what Pop returns
  (`oauthprovider.go:341`, `credentialsprovider.go:240`).  If a redirect or a submit
  popped it before, or if Pop fails, the call is reported as declined and the flow
  completes all the same.  The history variable `withdrawn` has the keys whose entry
  the decline did get; the properties about declined flows are about those.
* In the providers' modules a store operation that returns an error has had no
  effect.  The effects of half-done file operations are in `FilePendingStore`.
* The Redis backend can return nil before the deadline (the result vanished after
  EXISTS).  In the contract that is an aborted wait: the effect on the stores is
  the same, and the provider ends the call with "notcompleted" instead of "error".
* Redis keeps a key for ever when the TTL is not positive.  `RedisPendingStore` says
  so (`Expiration`); the refinement is checked for positive TTLs of Create.
* A bearer token is its algorithm, the key that verifies it, its issuer, whether it
  has expired (a token without "exp" has not) and whether tokenToMap can read all
  its claims.  The tokens the issuer gives out are readable.  One issuer is configured, so the validator's map of documents
  is one variable.
* The issuer either answers everything or nothing, and rotates its key without an
  overlap, which is the hardest case for a cache.  It keeps the name it gives
  itself.  Whether jwk.Cache.Register refuses a URL that is already registered is
  left open: the model allows the no-op the code's comment expects and an error.
* Encryption is the key a value was encrypted with; a value decrypts under that key
  and no other.  A generated key equals no other key.
* `filepath.Join` is the constant `Dir`, a directory for each provider's name, which
  need not be injective: it cleans names, so that "" and "." come to one directory.
  Hashes of subjects and keys (`safeName`) do not collide.
* In `TokenStores` pending records do not expire (they do in the pending stores'
  modules) and a Get that changes nothing is no step.
* A provider's `sessions` map, which exists per replica, is one set; keys are
  distinct, so the union loses nothing.

## 3. Runs

Passing runs (TLC explores every reachable state):

| Run | Instance | Shows |
|---|---|---|
| `oauth_flows` | 2 blocking calls, 2 redirects, 2 users, 2 states; nothing expires | TokenOwnership, StateUsedOnce, SignalAfterStore, DeclinedFlowIsDead, SessionsMatchFlows |
| `oauth_timing` | a fail-fast and a blocking call, 1 redirect, 4 ticks of half a second, a timeout of one tick and a slack of two, failing stores, tokens that expire | LinkOutlivesWait, WaitEnds, RefreshKeepsRefreshToken |
| `credentials_flows` | a blocking and a fail-fast call, 2 requests, 2 users, failing stores, 2 ticks | CredentialsOwnership, SignalAfterStore, DeclinedLinkIsDead, LateFormIsRefused, SubmitStoresOnce, WaitEnds |
| `memory_waits` | 2 waiters on one key, 3 entries, 2 results, 2 ticks | four invariants of the entry/waiter pointers, ImplementsContract, WaitReturns |
| `file_faults` | 2 processes that create, signal, pop and wait for one key, repeatedly and at once, failing calls and crashes, 2 ticks | RecordsAreWhole, SignalKeptWithinTTL, WaitReturns |
| `redis_waits` | 2 waiters on one key, 2 results, defaulted and explicit TTLs, 3 ticks | HandedOutOnce, ImplementsContract, WaitReturns |
| `session_auth` | 2 clients, one issuer with two keys, a complete, an incomplete and an issuerless document, foreign tokens, outages, shutdown | AcceptedTokenIsGenuine, ExpiredMeansGenuine, MetadataAlwaysAnswered, ClientGetsIn, WithdrawnKeyDies |
| `token_stores` | 2 replicas, 4 starts, 5 configurations, all modes, a named and an unnamed provider, one name used as subject and as pending key, in file mode one provider with a directory of its own and one without | NamespacesIsolated, NoLossWithoutRotation |

Runs that end in a counterexample, because the code does not do what a comment or
the contract says:

| Run | Counterexample |
|---|---|
| `oauth_drop_race` | a call whose refresh failed deletes the entry that another call stored since (`oauthprovider.go:379` calls it "stale") |
| `memory_shared_signal` | a waiter that takes the entry between another one's receive and delete is not woken by the next SetResult, which finds the spent entry still in the map and drops its result (`store.go:37`) |
| `file_pop_race` | two Pops of the file backend return the same flow (`store.go:35`, "atomic get+delete") |
| `file_signal_lost` | a waiter that found an expired result removes the fresh one that replaced it (`store.go:37`) |

The consequence of `file_pop_race` is that StateUsedOnce and SubmitStoresOnce,
which rest on the contract's atomic Pop, hold for the memory and Redis backends
(`ImplementsContract`) and not for the file backend with concurrent requests.

A flow can be signalled more than once: the error redirect signals without popping
(`oauthprovider.go:403`), so it can be repeated, or be followed by a good redirect
(`:424`, `:436`).  This is what `file_signal_lost` needs.  SignalKeptWithinTTL is what
the file backend does keep, for any number of signals and waiters: a usable result is
dropped only by the clean-up of an earlier one, so not before some result of that flow
has outlived its TTL.  (With several waiters on one key, one of them may remove a
result newer than the one it returns; the providers have one waiter per key.)

LinkOutlivesWait says when the 60 seconds of slack are enough: a link that dies unused
under a call that still waits was accepted later than the slack, less the fraction of a
second cut off the timeout, allows.  `oauth_timing` has accepts that are later than the
slack, and accepts that are late only because of the fraction.  Credential links have no slack: there
the wait always ends after the link, and LateFormIsRefused says that no form is
taken for a call that has timed out, except in the tick in which its link expires.

NoLossWithoutRotation is as much as can be said.  Once replicas run with different
keys, the removal after a failed decryption is by name (`file.go:87`, `file.go:170`,
`redis.go:62`, `redis.go:128`) and may hit a value written since, even one written by
a replica that has the same key as the reader.

ClientGetsIn has two hypotheses besides a healthy issuer: the documents an issuer
publishes agree on `jwks_uri` and on its name, because the validator never fetches
the document again (`jwtvalidator.go:66`).

ExpiredMeansGenuine is about the signature only: an expired token of another issuer that
the issuer's key did sign is reported as expired, since `iss` is compared later.  In
`session_auth` a behaviour stores one document at most; that a stale document lets
nothing in is shown by the theorem OnlyGenuineAccepted for any set of documents.

Bounds.  Two calls and two redirects are enough for every race the
properties are about: two calls of the same user (refresh, store, delete), two
redirects with the same state, a redirect against a decline, a redirect of one
user against a call of another.  A call and a callback run once, which loses
nothing: they keep no state between runs but the stores.  One user and
one key are enough where users and keys do not interact.  Two ticks let a link, a
wait and a token expire in any order; `oauth_timing` has four so that a refreshed
token can expire again before the wait is over.  The memory run has one more
entry than waiters, so that map and waiters can all point to different ones.
Two clients are enough for the races of the validator (two first fetches, two
registrations, a late store), two keys for a rotation.  Four starts let both
replicas restart once, or one of them three times; a token of a named and of an
unnamed provider and a pending record under the same name are all the ways
locations could collide.
`MaxTime` stops the clock, and a wait is only started if its deadline is within
it, so that stopping the clock cannot make a timeout impossible.  The safety
properties do not depend on these bounds: they are proved (4).

Symmetry is used in `oauth_flows` (callbacks, users, states) and `token_stores`
(replicas), runs without temporal properties; no action tells the members of these
sets apart.

Deadlock.  The pending-store backends say CHECK_DEADLOCK FALSE: with the
clock at its bound and no call in progress there may be nothing left to do.

Fairness.  `Tick` (time passes), and weakly fair: the steps a runnable goroutine
takes by itself, namely store accesses, the select of a wait that has something
to select, a system call and the next poll.  No fairness is assumed of
the MCP client (`Elicit` may never return), of the browser, or of the token
endpoint (`http.DefaultClient` has no timeout): WaitEnds therefore says that a
waiting OAuth call ends or is at the token endpoint.

In `SessionAuth` a client is weakly fair while it follows a challenge, for ClientGetsIn
is about such clients, and so is the server's part of its request; the two take
turns, so one condition covers both.  The discovery request of `Validate` has no
timeout (`jwtvalidator.go:121`) and is fair only while the issuer answers; the one
of the metadata route has one of five seconds (`routes.go:86`) and is fair always.
The background loop of jwk.Cache is fair.  Nothing is assumed of the issuer: its
recovery is a hypothesis (`<>[]Healthy`, `<>[](up /\ running)`).  A token lives long
enough to be used once.

## 4. Proofs

Every safety property of a passing run, the two refinements included, is a theorem:
TLC shows it on an instance, TLAPS for every value of the constants.  There is
one module of proofs per component, laid out alike: the inductive invariant `IInv`,
lemmas about operators, one lemma per action (`...Inv`), `NextInv`, `InvHolds`, and
the theorems.  `TypeCorrect` states TypeOK in each of them; the others are:

| Module | Theorem | Property |
|---|---|---|
| `OAuthProviderProofs` | TokensStayWithOwner | TokenOwnership |
| | StatesAreSingleUse | StateUsedOnce |
| | OkAfterStore | SignalAfterStore |
| | DeclinedIsDead | DeclinedFlowIsDead |
| | SessionsNeverLeak | SessionsMatchFlows |
| | LinkLifetime | LinkOutlivesWait |
| | RefreshTokenIsKept | RefreshKeepsRefreshToken (action property) |
| `CredentialsProviderProofs` | CredentialsStayWithOwner | CredentialsOwnership |
| | OkAfterStore | SignalAfterStore |
| | DeclinedIsDead | DeclinedLinkIsDead |
| | LateFormRefused | LateFormIsRefused (action property) |
| | FormStoredOnce | SubmitStoresOnce (action property) |
| `MemoryPendingStoreProofs` | NoBlockedSend | SendNeverBlocks |
| | OwnEntryConsumed | ConsumesOwnEntry |
| | ResultReachable | SentResultIsReachable |
| | WaiterRegistered | UnfiredWaiterIsRegistered |
| | Refinement | ImplementsContract |
| `FilePendingStoreProofs` | NoTornRecord | RecordsAreWhole |
| | SignalKept | SignalKeptWithinTTL (action property) |
| `RedisPendingStoreProofs` | AtMostOnce | HandedOutOnce |
| | Refinement | ImplementsContract, if the TTLs of Create are positive |
| `TokenStoresProofs` | Isolation | NamespacesIsolated |
| | Durability | NoLossWithoutRotation |
| `SessionAuthProofs` | ExpiredIsGenuine | ExpiredMeansGenuine |
| | OnlyGenuineAccepted | AcceptedTokenIsGenuine (action property) |

Assumptions.  The named ASSUMEs of the modules, which TLC evaluates in every run of
the module: times are natural numbers, flags are Booleans, keys, configurations and
documents have the shape the code gives them, and `None`, which stands for Go's nil
and the empty string, differs from every value it is used beside.
One theorem has a hypothesis of its own, and it is needed.  The Redis refinement holds
for positive TTLs of Create; with others Redis keeps a key for ever, which the contract
does not know.  OAuth entries live `TokenTimeout` in whole seconds plus 60, credential
links `TokenTimeout` in whole seconds, so the hypothesis fails only for links with a
timeout below one second.

The providers.  None of the properties is inductive alone: TokenOwnership at
StoreToken depends on whose state the callback popped, which depends on the
entry, which depends on the call that created it.  In `OAuthProviderProofs` the
invariant `IInv` adds

* `CallShape`, `HookShape`: what a call or callback holds at each program
  counter (for instance, a call at "save" holds an entry with a refresh token);
* `FlowOwnership`: pending entries, calls and callbacks agree on the subject a
  state was issued to;
* `PoppedIsGone`: a state some callback popped is no longer pending, which makes
  StateUsedOnce inductive, since a state is issued once;
* `EntryLifetime`: an entry expires exactly `LinkTTL` after the state was issued,
  where `LinkTTL` is TokenTimeout in whole seconds plus PendingSlack;
* `Provenance`: every token comes from a redirect that popped the entry of its flow
  (`TokensFromRedirects`); an entry that a decline took is gone and no redirect had it
  (`WithdrawnIsGone`); and an entry without a redirect that popped it is still there or
  has expired while its call waits (`EntryIsKept`), which is what makes
  LinkOutlivesWait more than a statement about Create;
* `OkMeansStored`: from the store step on, the subject's token is in the store or
  was deleted since;
* `DistinctFlows`: two calls never share a state, so the deferred delete of one
  cannot take the session of another.

`CredentialsProviderProofs` says the same of links (`LinkInv`), requests (`HookInv`),
stored credentials (`CredsInv`) and calls (`CallInv`).  SubmitStoresOnce needs that no
two requests hold one link and that a link with a form still to be stored
has not been used; LateFormIsRefused needs that a pending link never outlives a
wait that begins now, whatever the timeout.  The proofs use the contract's
definitions through the instance `Pending`: they rest on what `PendingStore` promises
and on no particular backend.

The memory backend.  Its properties relate the map, the heap of entries and the
entries the waiters point to.  `ForgottenIsSpent` (an entry the map has dropped has
fired and its channel is empty) and `OneReceiver` (between a receive and the delete
that follows it, the map still has the entry, its channel is empty, and nobody else
received from it) hold together only: the first needs the delete to hit the
receiver's own entry, the second that a fired entry is not fired again.

The refinements.  In both backends the contract's variables are state functions of
the backend's (`Contract == INSTANCE PendingStore WITH ...`); every step is shown to be
a step of the contract or to leave those functions unchanged, one lemma or proof step
per action.  Memory: to the contract a result is there until the delete (`DoneBar`), and
the waiter that received it is still waiting without one (`SignalBar`); so the receive
is a stutter and the delete is Deliver, which ConsumesOwnEntry and OneReceiver make
possible.  Redis: EXISTS and the sleep are stutters, the transaction that reads and
deletes is Deliver, and a wait that ends with an error or with nothing, whether or
not its transaction took effect, is Abort.  With StatesAreSingleUse and
FormStoredOnce this covers the chain from the contract's
"atomic get+delete" to the providers for these two backends.

The file backend.  RecordsAreWhole rests on what each process holds before each system
call (`ShapeOf`): what it is about to rename is complete.  SignalKeptWithinTTL
needs `ResultsDated`: no result of a key expires before the earliest of all that
were stored for it, and once a reader has decided to remove one, that earliest has
expired; so a reader that removes a fresh result in place of the one it read does so
late.

The token stores.  Isolation is a fact about the names (`TokenLocationsDiffer`: the
location of a token determines its table, namespace and name in every mode, in file
mode for a provider with a directory of its own, `OwnDirectory`) carried
along by `StoredInPlace`.  Durability needs `OneKey`: without rotation every value in a
shared store is encrypted with the key all configurations stand for
(`RequiredKeyIsConfigured`: a process runs with that key or not at all), so no Get
is about to remove anything.

Session auth.  A verdict is given in one step and acted on in a later one, after which
keys may have been rotated and the cached document replaced.  `VerdictIsGrounded` says
what a verdict vouches for; it is stable because the keys the issuer has had only
grow, and it can be established because the caches hold only usable documents and keys
the issuer had (`CacheInv`), whichever of several concurrent first requests stored last.

Only model-checked: what involves fairness, which is out of the prover's reach
(WaitEnds, WaitReturns, MetadataAlwaysAnswered, ClientGetsIn, WithdrawnKeyDies), and
the four runs that end in a counterexample.

## 5. Mutants

Every property of a passing run has a mutant: a variant of one mapped definition
with a plausible mistake (a Get instead of the Pop, a signal before the store, a
missing deferred delete, a timeout that cleans up an entry it does not own), under
which TLC reports that property violated in the same configuration.

## 6. Not modelled, and the plan

Every component is modelled.  Left out inside them:

* the HTML pages and forms, URL building, log output and the wording of challenges
  and errors: they are computed from values the models have and change no state;
* the subject fallback's consequence (`middleware.go:128`): users without "sub" and
  "preferred_username" all become "unknown" and share their tokens.  `UserSub` says
  so; the code makes no promise it breaks;
* AES-GCM, base64, signature verification, Redis and the file system themselves,
  which are libraries and services; the models have their outcomes.

Order of work:

1. `PendingStore`, `OAuthProvider`, `MemoryPendingStore`: the core (done).
2. `CredentialsProvider`, `FilePendingStore` (done).
3. `OAuthProviderProofs` (done).
4. `RedisPendingStore` (done).
5. `TokenStores` (done).
6. `JwtValidator` and `SessionAuth` (done).
7. Proofs about the other components and the two refinements (done).
8. Positive counterparts of the counterexamples: the conditions under which PopOnce
   (file backend) and DropsOnlyStaleEntry (OAuth provider) do hold, as theorems.
