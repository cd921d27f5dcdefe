# A TLA+ model of pks-agent-gateway

The gateway is one Go process.  It authenticates callers with subscription keys
or Entra tokens, forwards their requests to upstream APIs with the upstream's
own credential, meters and limits what they use, reaches upstreams on other
machines over connections those machines dial, and is administered through a
management API whose objects are JSON files.  There is no database and no
transaction: what several goroutines share is a mutex-protected map or a file
that each of them reads, changes and writes back.  The models here are about
what that leaves open.

Paths below are relative to `src/` of the repository: `gw_limits.go` stands for
`src/src/gateway/gw_limits.go`, ADRs are under `src/docs/adr/`.

## Inventory

| Component | State | Operations | Hard because | Correct when | Module |
|---|---|---|---|---|---|
| Usage limiter (`gw_limits.go`) | per principal: rate window, audio total of the day, open sessions | `admit`, `admitStream` and its release | the clock is read before the mutex; release comes long after admission, on one of nine returns; the day is seeded from a log written later | no slot leaks; quotas overrun by a bounded amount; a minute keeps its limit | `UsageLimiter` |
| Data-plane handlers (`gw_lane.go`, `gw_stream.go`) | locals of each call; usage log | `ServeAPI`, `serveStream`, `record` | a call works on copies of principal, subscription and bundle read one after the other | every call is charged and released once; an answered call was allowed | `UsageLimiter`, `SubscriptionStore` |
| Connector hub (`gw_connectors.go`) | sessions of each connector, round-robin cursor, stored connector | control endpoint, `add`, `remove`, `pick`, `closeAll`; create, enable, disable, regenerate, delete | token check, acknowledgement and `add` are separate steps, as are the stored change and `closeAll` | a request finds a live session; revoked sessions go | `ConnectorHub` |
| Credential resolver (`gw_credentials.go`, `gw_entracert.go`) | token cache, flights under way, stored credentials | `resolve`, `entraToken`, `entraCertToken`, `Forget`; create, rotate, delete | a mint runs unlocked, for several callers, some of which disconnect; `Forget` may run meanwhile | one mint per burst; nobody waits for ever; the token is for what the credential says | `TokenCache` |
| Subscriptions and principals (`gw_api.go`, `gw_keys.go`, `gw_store.go`) | stored subscription, principal, bundle | subscribe, suspend, reactivate, cancel, regenerate, disable, bundle edits; key check and grant check on the data plane | handlers read, decide and write back without a lock; expiry is not stored | a call is granted only on a key, a subscription and a bundle that were good; one request does what it says in one step | `Grants`, `SubscriptionStore` |
| Objects that name each other (`gw_api.go`, `gw_store.go`) | the files of APIs, MCP servers, bundles, credentials, connectors | create, change, delete with a scan for references | check and write, scan and removal are separate steps | nothing names what is gone; credentials form no circle | `Catalog`, `ObjectStore` |
| Tenancy (`gw_tenancy.go`, `gw_api.go`) | owner records, the table of opened stores | claim, add and remove admin | two mutexes; the record is read, changed and written back | one claim wins; an owner keeps an admin, and its record can be read | `Ownership`, `OwnerStores` |
| Entra caller tokens (`gw_entrajwt.go`) | key set of a tenant, time of the last try | `key`, fetch | callers wait for one that fetches, and the throttle is set before a fetch that this one can cancel | a known key is accepted, an unknown one does not cause a flood, a rotation is noticed | `JwksCache` |
| Simulator, scenarios, cassettes (`sim.go`, `scenario.go`, `cassette.go`, `store_testbench.go`) | stored scenarios and cassettes, sessions by directive and key, cassette cache by modification time | put, delete, load, record, replay, reset | a file is overwritten in place; modification time and content are read apart; side calls and other clients come between a session's requests | PUTs and recordings leave whole, numbered files; a change of a cassette shows; a session is answered in the order of its script | `Simulator` |
| SSE conversion (`sim_sse.go`, `cassette.go`) | none | message to body and to events, events to message | chunks and pings of any size; a recording may be cut anywhere | whichever form is asked for says what was recorded | `MessageStream` |
| Command-line client (`cli/cmd`, `cli/internal`) | `cred.json` of a machine | login, logout, refresh and retry once | processes without a lock; two commands present one refresh token, and save to one temporary file | commands that run together do not cost the login, unless one writes over what another has just written | `CliLogin`, `Administration` |
| Passthrough proxy, speech bridge, OTEL metrics, project statistics, checking of operator tokens, OpenAPI import, identity files, CLI output | little or none | | pure I/O, cryptography or conversion | | not modelled |

How they interact: `ServeAPI` finds the caller, asks the limiter for admission,
asks the resolver for the upstream's token, picks a connector session if the API
is behind one, answers, appends a usage record and releases.  Management
handlers change the stored objects and then tell the part that caches them
(`closeAll`, `Forget`); the limiter is told nothing, calls bring it the limits
they read.  `PROJECT.json` lists the hazards of each place at their lines.

## Modules

- `UsageLimiter` — limiter, the two data-plane handlers around it, the usage
  log, `putPrincipalLimits`, the clock, a restart of the process.
- `UsageLimiterProofs` — theorems about it.
- `ConnectorHub` — one connector: its record, the control endpoint, the hub,
  `pick`, the management handlers.
- `ConnectorHubProofs` — theorems about it.
- `TokenCache` — cache and flights, calls of both credential kinds, the
  management handlers, replacement of the key behind a credential.
- `TokenCacheProofs` — theorems about it.
- `Grants` — what the management API promises about one subscription, its
  principal and its bundle: every request a single step.
- `SubscriptionStore` — the handlers that implement it by reading, deciding and
  writing back, and the data plane's checks of a grant; it instantiates `Grants`.
- `SubscriptionStoreProofs` — theorems about both.
- `Catalog` — what the management API promises about the objects of an owner that
  name each other: every request a single step.
- `ObjectStore` — the handlers that implement it; it extends `Catalog`.
- `ObjectStoreProofs` — theorems about both.
- `Simulator` — scenarios, cassettes, their cache, the sessions that play them.
- `MessageStream` — one recorded exchange and its playback: messages as bodies
  and as event streams.
- `Testbench` — composes the two.
- `SimulatorProofs` — theorems about both, alone and in the composition.
- `JwksCache` — the signing keys by which Entra access tokens are verified.
- `JwksCacheProofs` — theorems about it.
- `TempFile` — a file replaced by way of a temporary one, as `owner.json` and
  `cred.json` are.
- `Ownership` — what an owner promises: claimed once, changed by its admins only,
  never without one.
- `OwnerStores` — the stores, mutexes and handlers that implement it.
- `CliLogin` — commands of `gateway-cli` on one machine, their refreshes, logins
  and logouts.
- `Administration` — composes `CliLogin` with `OwnerStores`: the commands are the
  clients of the requests.
- `AdministrationProofs` — theorems about it and the two it composes.
- `MC…` — constants for TLC.

### UsageLimiter

| Variable | Code |
|---|---|
| `clock` | `l.now()`, in minutes |
| `limits` | `Principal.Limits` in the store |
| `windows`, `audio`, `streams` | the three maps of `usageLimiter` |
| `logged` | audio seconds in the usage files, per day |
| `call` | each handler's locals; `pc` says which statement is next |
| `spent`, `admitted`, `drifted`, `restarts` | history, read by properties only (and `restarts` by its bound) |

A call goes through `Arrive` (principal read), `RejectEarly`, `ReadClock` (the
argument of `admit`), one of the admission steps (each the whole critical
section: window, day, slot), one of the answers, `AppendUsage`, and for sessions
`Release`.  The order of the code is kept where it matters: the clock is read
before the lock, the record is written before the slot is released, the record
goes to the file of the day the call *started* on while the charge went to the
day it was *admitted* on.  An append that fails is only logged, an unreadable log
seeds the day with 0: both under `StoreFails`.  There is no graceful shutdown
(`main.go:120`), so `Restart` ends every call under way with nothing recorded.

Audio is a small number of seconds.  `MaxSession + Overshoot` stands for the
session deadline and how late it can bite.

### ConnectorHub

`conn` is the stored connector, its token hashes being the numbers of the tokens;
`registry` and `next` the hub's maps at this connector's name; `agent` the control
handlers; `admin` the management handlers with the copy they read and the sessions
`closeAll` still has to close.  `Authenticate`, `Reject` (a refused registration or
acknowledgement) and `Add` are separate steps, as are `Begin` (read), `Write` or
`WriteFails` (500), `Snapshot` and each `Close`.  `Pick` is one critical section;
its loop is given by `Hits` and `NextAfter`.  `raced` and `missed` are history.

### TokenCache

`cache` and `inflight` are the two maps; `stored` each credential's
configuration (tenant, client, scope), where the key depends on it;
`version` numbers the key pair or client secret a mint proves itself with.
`Lead`, `ReadKey`, `Mint`/`Fail`, `Keep`, `CloseFlight` are the leader's
goroutine; `Keep` is one critical section, `close(done)` comes after it.  For an
`entra` credential the same steps run for the one call, without a flight, under
the call's context.  `Delays` are the times to expiry a mint can come with, 0
being a token that is due at once.  `mints`, `floor` and `straddlers` are history.

### Grants and SubscriptionStore

`Grants` is the abstract specification: `Subscribe`, `Suspend`, `Reactivate`,
`Cancel`, `Regenerate`, `SetDisabled`, `CreateBundle`, `EditBundle`,
`DeleteBundle` each check and change in one step, and `Expire` is the passing of
`ExpiresAt`.  Its own properties (`LiveHasBundle`, `CancelledFinal`,
`ExpiredFinal`, `ReplacedKeyDead`) are proved in `SubscriptionStoreProofs`.

| Variable of `SubscriptionStore` | Code |
|---|---|
| `sub`, `disabled`, `bundle` | the three JSON files of `GatewayStore`; a key hash is the number of the key, 0 the empty hash |
| `clock` | `a.now()` and `l.now()` |
| `admin` | a management handler: what it is for, and the copy it read |
| `call` | a data-plane call: the key it presents, the API it asks for, the subscription it read |
| `issued` | numbers the keys |
| `seen` | history: which conditions of a call have held since it arrived |

A handler reads and decides in one step (`ReadSubscription`, `ReadPrincipal`,
`ReadBundle`, `FindNoBundle`, `ScanSubscriptions`; `createSubscription` reads
three objects, in three steps) and writes in a later one, whatever is stored by
then, or fails to (`WriteFails`).  `put` renames a complete file into place and
`remove` unlinks it, both under the store's mutex, so each is one step.  A call
reads the subscription, the clock, the principal and the bundle in four steps;
key 0 is an access token of the principal, for which `grantForPrincipal` lists
the subscriptions instead of reading the one the key names.

`Implements` maps each `Write` to the request of `Grants` with the same name.
That is wrong exactly where what a handler read is no longer what is stored.
Handlers keep what they read (of the bundle, whether it exists; of the principal,
whether it is disabled; of a listed subscription, its state), `Stale` compares that
with the files, per request, and the property allows a stale write to do anything.
Any other must meet the guard of `Grants`, so that a check which a handler leaves
out is not excused.  `deleteBundle` ignores the error of its listing, and `listKind`
passes over a file it cannot read (`Listings`): what is then decided by is not what
is stored either.

One subscription, one principal and one bundle: handlers only ever relate one of
each.  The APIs a bundle names are taken to exist (see `ObjectStore`), a keyless
subscription's principal to have an app id.

### Catalog and ObjectStore

| Variable | Code |
|---|---|
| `store` | the files of five kinds; of each, which objects it names and, for a credential, whether it has an inject target |
| `admin` | a handler's locals: the file it read, the one it will write, the names it has still to check or files still to list |

An API names its connector or its credential (never both: `validateApi`), an MCP
server its API or its credential, a bundle its APIs and MCP servers, an `entra`
credential the credential of its client secret.  `BeginCreate`, `BeginPatch`,
`BeginItem` and `BeginEdit` read the file and fix what will be written; `Check`
is one `exists` or `GetCredential` of `validateApi`, `checkInjectable` and the
create handlers; `Put` writes.  `BeginDelete` fixes which kinds are listed,
`Scan` reads one file of them, `Remove` unlinks.  `Implements` has the form it
has in `SubscriptionStore`: a write that acts on something that has changed since
it was looked at is `Stale` and may do anything, any other is a step of
`Catalog`, which never leaves a dangling name.  What has been looked at is
recorded by the handler itself (`passed`), so that a check a handler forgets is
never excused as one that came too early.

### Simulator

| Variable | Code |
|---|---|
| `scenario`, `cassette` | the two files of one name; the scenario with its inode and its size, for `os.WriteFile` truncates and writes in two steps; the cassette with its modification time |
| `cache` | `s.cassettes[name]` |
| `session`, `created` | the session under one key in `s.sessions`; sessions are numbered |
| `counters` | `Index` and `SideIndex` of each |
| `call` | a request of a client: what it has loaded and the session it has |
| `editor` | a PUT between open and write, a recording between count and append |
| `directive` | whether clients play a scenario or replay a cassette |
| `spoiled`, `raced`, `served`, `change`, `readAt`, `arrived` | history |

Playing and replaying have sessions of their own (the directive is part of the
session's key) and share no file, so a behaviour has one or the other:
`directive` is fixed in `Init` and a run covers both.  `Serving` is the loop of
`stepForIndex`; `ScriptFollowed` compares it with `Unrolled`, the scenario with
each step written out as often as it repeats.  A message is the number of the
step or entry it comes from.  `Read` is the part of `loadCassette` from a miss to
the unlock: what it reads is only seen under `cassMu`.  Appends are atomic: an
entry is one `Write` to a file opened with `O_APPEND`.

### MessageStream and Testbench

| Variable | Code |
|---|---|
| `stage` | how far the exchange is: with the upstream, recorded, being played back |
| `origin` | history: what the upstream said |
| `wire`, `sent` | the events the upstream or `replayRawSSE` writes, and those that went out |
| `entry` | the cassette's entry: an error, a body, or the events that the tee kept |
| `asked`, `got` | the form the client of the playback wants, and its body |

`writeMessageSSE`, `writeMessageJSON`, `messageFromJSON` and `sseToMessage` are
operators of these names.  A text is a sequence of runes, of which a space, a
brace and a number that float64 cannot hold are told apart in a tool's input,
because the two JSON codecs treat them differently.  An upstream is taken to write
the events as `writeMessageSSE` does, in chunks and with pings of its own, or to
break off anywhere.  The passthrough forwards the client's `Accept-Encoding`
(`proxy.go:13`), so an answer may come compressed; the cassette keeps the bytes and
not their coding (`cassette.go:57`).  Such a body is `Coded` and such a stream has
no event that can be read (`CodedStream`): played back in the form it was recorded in,
it is the same bytes, in the other form it is an error (`RefuseStream`, `Refusal`).
A client that disconnects during a passthrough makes
`httputil.ReverseProxy` abort the handler before the append, which is one of the
cases of `Unrecorded`.

`serveReplay` has chosen the entry before it looks at what is in it, and nothing
that `Simulator` is about changes afterwards; so `Testbench` has behaviours about
sessions and behaviours about one exchange, and no interleaving of both.

### JwksCache

| Variable | Code |
|---|---|
| `clock` | `v.now()` |
| `keys`, `fetchedAt`, `triedAt`, `fetchMu` | the fields of `entraJWTVerifier`; a key is its `kid` |
| `call` | the locals of `Verify` and `key`; `got` is what a fetch has read |
| `tenant`, `since` | which keys the tenant publishes, and since when |
| `began`, `lastTry`, and `known`, `due` of a call | history |

`Arrive` is the look before `fetchMu`, `Settle` and `StartFetch` the look under
it, `ReadKeys` the moment the authority answers, `StoreKeys` and `FailFetch` the
two ends.  The keys that were read and the keys that are stored may be some time
apart, which is why a key may be missing that was published before the fetch
ended.

### Ownership and OwnerStores

| Variable | Code |
|---|---|
| `owner` | `owner.json` and its temporary file |
| `cached` | `root.owners` at this owner; a store is named by the request that made it |
| `rootMu`, `storeMu` | `root.mu`, and the mutex of each store |
| `req` | the locals of a handler |

`Owner` makes a new store at every look at an unclaimed owner, so two claims, or a
claim and a request that looked before it, may hold stores with different mutexes.
`SaveRecord` is `Lock`, `Open` (which truncates), `Write` and `Rename`, each of
which may fail.  `TakeRootMu` and `Publish` are the two ends of `Claim`.
`OwnersImplement` has the form of the other refinements: a write by a request that
was overtaken since it was authorised may do anything but what `RecordKept`
forbids, any other is a step of `Ownership`.

### CliLogin and Administration

| Variable | Code |
|---|---|
| `cred` | `cred.json` of each machine, and its temporary file |
| `command` | a process: what it does next and the login it has in hand |
| `provider`, `issued`, `live` | the identity provider: whether it keeps a refresh token that is used, replaces it or adds a new one to it, and which it accepts |
| `session`, `disturbed` | history |

The CLI keeps no access token, so every command is answered 401 first, refreshes and
tries once more.  A refresh that finds its token replaced fails (`RefreshFails`) and
the command ends.  Saving opens, writes and renames one `cred.json.tmp` that all
commands share (`TempFile`).  Only opening truncates: a document written over
another's leaves the tail of a longer one (`Over`, `Mixed`), and one that is written
after another command's rename goes to `cred.json` itself. Where the provider adds
tokens, two commands save different documents at once and can come to that;
`disturbed` is set at such a write.  In `Administration` the second try becomes a
request of `OwnerStores`, for the account that was in `cred.json`; the answer ends
the command.

## Runs

| Run | Shows | Bounds |
|---|---|---|
| `limiter_quota` | `OverrunBound`, `CoversLog`, `RpmCapInOrder`, `TypeOK` | 1 principal with one slot and a quota of 2, or of 1 with 2 requests a minute, 3 calls, 2 minutes that are 2 days, 1 restart: enough for admissions on both sides of midnight and a third call that meets what the two left |
| `limiter_slots` | `SlotConservation`, `AdmittedUnderCap`, `SlotsComeBack` | 3 calls against caps of 1, 2 (the default) and edits between, failing store, 1 restart |
| `hub_serve` | `LiveSessionsAreCurrent`, `PickFindsLive`, `RoundRobin`, `DisabledDrains`, `TypeOK` | 2 agents that register for one slot or for both of 2, 1 operator, 4 tokens: a regenerated token, and a second creation |
| `token_flights` | `OnlyOwnCancellation`, `WaitersReturn`, `TypeOK` | 3 calls (leader, waiter, late comer), two of which may disconnect |
| `token_rotate` | `OneMintPerBurst`, `CertServedAsConfigured`, `ForgottenForGood` | 2 calls, 1 credential of each kind, 2 configurations, 2 versions of the key, 1 operator |
| `token_recreate` | `ServedAsConfigured` is **violated** | 2 calls, 1 `entra` credential, 2 configurations |
| `store_requests` | `Implements` | 2 requests at a time, any of the 15 kinds, 2 APIs, 4 keys: a subscription with both keys and two regenerations, or a keyless one; an `ExpiresAt` the clock reaches and one it does not |
| `store_grants` | `GrantedOnlyIfHeld` | 1 call with any key or none, 1 request at a time, otherwise the same |
| `objects_handlers` | `Implements`, `ObjectTypeOK` | 2 requests at a time of any kind, 1 API, 1 MCP server, 1 bundle, 2 credentials: every kind of name, two names in a bundle and a chain of two credentials; connectors, whose names are like those of credentials, are left to the proof |
| `sim_playback` | `ScenarioIntact`, `SeqExact`, `ReplayCurrent`, `ScriptFollowed`, `AdaptsBothWays`, `NothingMadeUp`, `TestbenchTypeOK` | 2 clients, 2 editors, 2 documents and a built-in (repeats of 0, 1, 2 and -1, each way to be exhausted), 3 main-lane answers and 1 side call over 2 sessions, 2 inodes, 3 changes of the cassette in 2 ticks of its date: a third change is needed for a cache that is older than two others; an exchange with one of 3 messages (every type of block, empty ones, a tool input with spaces and a wide number, one of which nothing comes), in chunks of 1, 2 and 16 with a ping after 2, 1 or no deltas, cut anywhere, in a content coding, or an error after up to 2 deltas |
| `jwks_refresh` | `NoFlood`, `KnownKeyAccepted`, `NewKeySoon`, `StaleOnlyAfterFailure`, `FetchMuReleased` | 2 callers, 2 keys that are published and withdrawn, a token of each and one that is none; a throttle of 2, an age of 2, fetches of up to 1, 4 ticks: enough for a fetch, its throttle and a second fetch after it |
| `admin_owners` | `RecordKept`, `OwnersImplement`, `LoginKept`, `HandlersEnd`, `AdminTypeOK` | 2 commands of one machine, 2 accounts, one of them a gateway admin, each kind of identity provider, 3 refresh tokens: two refreshes at once after a login, or two logins |

One principal and one connector are enough because the code keeps them apart by
map key; the calls of different principals share nothing but the mutex.  A third
call or session is there where a property is about what two others left behind.
`Symmetry` permutes interchangeable calls or operators and is used in runs
without liveness only.

What the properties say, beyond their comments:

- `OverrunBound`: audio charged to a day exceeds the quota by no more than the
  sessions that can be open together times one session's longest charge, as long as
  the day's total was never rebuilt from less than had been charged.
- `CoversLog`: the total held in memory never counts less than the usage files, so a
  quota is not reset by writing and charging in two steps.
- `AdmittedUnderCap`: `maxStreams` may be lowered below the number of open sessions;
  but of any set of open sessions one was admitted by limits that allow as many.
- `ReplayCurrent`: the cached date is the one read before the mutex and may be older
  than the content, which only makes the cache miss; it hides a change only if the
  file was read and changed again within one tick of its date.
- `AdaptsBothWays`: "stream shape adapts both ways" in the README, for whole
  recordings without a content coding; the client's reading of a stream is written
  down apart from `sseToMessage` (`Heard`), so that the two are compared.
- `NothingMadeUp`: the same for a recording that was cut, ends in an error or is in
  a content coding.
- `NewKeySoon`: once a fetch has succeeded, a key that was published a throttle ago
  is not refused.  Refusals after a fetch that failed, or that its caller hung up
  on, are exempt.
- `RecordKept`: `owner.json` has one temporary file for all writers, and writers
  without a common mutex could rename a truncated one into place; the record is
  whole because only a claim writes through a store that is not cached, and it holds
  `root.mu`.
- `LoginKept`: two commands that refresh together do not log each other out,
  although nothing locks `cred.json`, whether they present a token of which only the
  first use counts, save the same document twice, or save one each: at the end the
  file has a token that is still accepted.  `disturbed` names the exceptions, each
  of which really loses the login in some behaviour; one is a command that writes to
  a file in which another has just written something else (`store.go:48`).
- `HandlersEnd`: of the gateway's handlers only.  A command of the CLI waits for the
  identity provider and for the gateway without a timeout (`oidc.go:58` and `:169`,
  `client.go:76`), so nothing says that it ends.
- `LiveSessionsAreCurrent`, `ForgottenForGood`: what revocation achieves, with the
  one race that remains named by a history variable, and not by a weaker statement.

### Fairness

`limiter_slots`, `hub_serve` and `token_flights` assume weak fairness of what the
process itself runs: handlers that have begun (Go schedules every runnable
goroutine), sessions that end (each has a deadline, `gw_stream.go:60`), mints that
answer or fail (the token endpoint's client has a 30 second timeout), the read of a
closed session returning with an error.  `jwks_refresh` assumes it of the steps of a
fetch, whose client has a timeout, and of nothing else: `fetchMu` is shown to be
released, whoever waits for it.  `admin_owners` assumes that the handlers of
requests run, and nothing of the commands that sent them.  Nothing is assumed of
callers, agents, operators, users, the clock or restarts.

### Disagreements with the documentation

The run `token_recreate` ends in a counterexample, which is in `PROJECT.json`
under "findings": the token of an `entra` credential, cached by id, survives the
credential when a mint was under way.

Seen while modelling, with no run of their own: a session that passed `authenticate`
before a disable and is added after `closeAll`'s snapshot stays open
(`gw_connectors.go:273`; ADR 0004:74 says that disabling closes all; `missed` in
`LiveSessionsAreCurrent` names the exception); a cancelled subscription is live
again when a request that read it before writes its copy back (`gw_api.go:1044`, ADR
0003:29 says cancelled is terminal; `Stale` in `Implements` names the exception); a
number in a tool's input that float64 cannot hold is rounded when it is streamed and
not when it is sent as a body (`sim_sse.go:339`); a recording that was cut is
rebuilt as a message that ends its turn, and as an empty body with status 200 if it
was cut inside a tool's input (`cassette.go:540`); a recording of a compressed
answer cannot be read in either form by a client that did not ask for the coding,
where the repository's README says that "stream shape adapts both ways"
(`proxy.go:13`, `cassette.go:57`; `Legible` in `AdaptsBothWays` names the
exception); `cred.json` may end up as two documents in one when two commands are
given a refresh token each (`store.go:48`; `disturbed` in `LoginKept` names the
exception); the rate window is replaced whenever its minute *differs* from the
caller's, so a call that read the clock in the old minute and got the mutex in the
new one sets the new minute back to 0 (`gw_limits.go:118`, ADR 0006 says "a fixed
per-minute window"; `RpmCapInOrder` names the exception); what was charged for calls
admitted and not yet recorded is lost by a restart, which `CoversLog` leaves room
for (`gw_limits.go:133`, ADR 0006 says that a restart does not reset a quota); an
answer after a misconfigured upstream leaves no usage record (`gw_lane.go:263`,
FR-17 of the PRD says every call does); the round-robin cursor is shared by all
slots, so sessions with different slots need not take turns (`gw_connectors.go:137`,
ADR 0004 says they do; `RoundRobin` is stated for sessions alike in slots); a mint
that read the key before `cred rotate` caches its token after it
(`gw_entracert.go:233`; `ForgottenForGood` names the exception); `createCredential`
accepts chains of `entra` credentials that `resolve` refuses as too deep
(`gw_credentials.go:239`).

## Proofs

`UsageLimiterProofs` proves, for every set of calls, principals and requests,
every choice of limits and every bound, from `LimiterAssumption`:

- `TypeCorrect`: `TypeOK`, where the point is that `streams` stays a natural
  number;
- `SlotsConserved`: `SlotConservation`;
- `CapRespected`: `AdmittedUnderCap`;
- `RateCapped`: `RpmCapInOrder`;
- `LogCovered`: `CoversLog`, where every limit has a quota (`Quotas`);
- `OverrunBounded`: `OverrunBound`, where every limit has a quota and a stream cap
  (`Capped`).

`TypeOK` alone is not inductive: `Release` subtracts one, and only slot
conservation says there is one to subtract.  `SlotConservation` counts the calls
that hold a slot, so it needs to know that these sets are finite although `Calls`
may be infinite, and that only stream calls get to `open` and `releasing`.
`SlotInv` adds both, and `LimiterInv == TypeOK /\ SlotInv /\ AdmittedUnderCap`
is inductive.  The argument has two halves.  `StepOnSlots` goes through the
actions once and shows that each step leaves the holders alone, adds one, removes
one or clears all (`SlotStep`), and that a holder's limits do not change
(`LimitsKept`).  `SlotsCounted` and `CapKept` then reason about these four cases
with the cardinality theorems and never look at an action again.  For the cap: a
new set of holders either excludes the new session, and was covered before, or
includes it, and then the whole set is at most the count the slot check saw.

The last three are about the day, the minute and the log.  The two hypotheses are
the ones the properties name: the limiter does not count the audio of a principal
without a quota, so there is nothing for the log to be compared with, and without
a stream cap nothing bounds what open sessions may still charge.  `LimitChoices`
is finite because a greatest limit is spoken of.  Sums are cardinalities: the
audio of a set of calls is the number of pairs of a call and one of its seconds
(`Seconds`), so adding a call to a set or taking one away is a matter of the
theorems about finite sets.  The invariants are, in the order they need each other:
`SoundInv` (what a call in each stage can have charged), `DaysInv` (the day in
memory is never before that of a call that counts), `RateInv` (a minute after the
window's has taken nothing, the window's own no more than it has counted),
`LogInv` (what is logged, with what is charged and not yet recorded, is at most
what memory holds with what is recorded and not yet released) and `SpendInv` (what
is spent with what open sessions may yet charge fits the bound).  Each action is
first shown to be one of nine kinds of step on a call (`AnyStep`); the invariants
are proved about the kinds.

`ConnectorHubProofs` proves, for any sessions, management requests and tokens (at
least two of them, as a connector can be rotated) and from `HubAssumption`:

- `TypeCorrect`: `TypeOK`;
- `LiveIsFound`: `PickFindsLive`.  The positions that `pick` looks at are each
  session once, wherever the cursor was left, and a set of positions has a first;
- `TurnsAreTaken`: `RoundRobin`.  Inductive is `TurnsComing`: the requests that
  passed a session over, together with those that may still go elsewhere before
  the cursor reaches it, are fewer than the sessions;
- `SessionsAreCurrent`: `LiveSessionsAreCurrent`, when management requests come one
  at a time (`OneAtATime`).  `LiveOrDropping` says that a serving session is
  accepted by what is stored, or is in the set that a handler has still to close,
  or raced that.  The hypothesis is needed: `setConnectorDisabled` and
  `regenerateConnector` write back a copy they read without a lock
  (`gw_connectors.go:464`), so of two requests at once one can restore the token
  that the other replaced, and its sessions.  The run has one such request at a
  time for the same reason.

`TokenCacheProofs` proves, for any calls, credentials, configurations, delays and
management requests and from the module's assumption, the type (`TypeCorrect`) and
the four safety properties of its runs that hold: `OnlyOwnCancellation`
(`OwnCancellationOnly`), `OneMintPerBurst` (`BurstsShareAMint`),
`CertServedAsConfigured` (`CertsServedAsConfigured`) and `ForgottenForGood`
(`ForgottenStaysSo`).  They share one invariant, `CacheTokensInv`.  `CallInv` says
what a call has at each stage, and that the one it waits for leads a flight of its
own key or led it; `FlightInv` that whoever is in `inflight` is minting for that
key; `BurstInv` that a key was minted for only if a token is fresh or on its way,
which is what makes a second mint wait; `CacheInv` that a certificate's key names
the configuration of its token; and `NotForgotten` carries the version that a mint
has read to the moment its token is cached.

`SubscriptionStoreProofs` proves, for any sets of management requests and calls
and from `StoreAssumption`:

- `TypeCorrect`: `TypeOK`;
- `StoreImplements`: `Implements`, the refinement of `Grants`;
- `GrantsHeld`: `GrantedOnlyIfHeld`;
- `LiveHasBundleAlways`, `EndsAreFinal`: of `Grants`, in terms of what the store
  maps to it, a live subscription has its bundle, and a cancelled subscription, an
  expired one and a replaced key stay so;
- `UnovertakenKeepsPromises`: the store itself keeps all of that as long as no
  write is stale.

`StoreInv` strengthens `TypeOK` twice.  `HandlersDecided` says what a handler that
is about to write had decided of its copy (a `cancel` read an active or suspended
subscription, an edit read a bundle that exists): that, and that the copy is still
what is stored when the write is not `Stale`, is the guard of the abstract request.
For a subscription that is the reads of three moments, which `WellDecided` keeps
apart until the write.  `ReadsSeen` says which conditions a call that got as far as
each of its steps has already seen hold.  A call holding a copy it has not yet
compared with the clock is the delicate one: if the copy is active by a later clock
it was active when it was read, since time only goes forward.  `GrantsInv` is the
type with `LiveHasBundle`; `ReplacedKeyDead` needs no more than that stored keys are
among those issued, since a new key is a new number.

`ObjectStoreProofs` proves of `Catalog`, from `KindsAssumption`, that nothing dangles
(`NothingDangles`) and that no chain of credentials is circular
(`NoCircularChain`), for any number of objects.  `CatalogInv` adds the type, which
says what each kind can name.  A circle can only be closed by an object that is
already named, and what is named exists, so it is not being created.
Of `ObjectStore` it proves `ObjectTypeOK` (`ObjectTypeCorrect`) and the refinement
(`ObjectImplements`); `ObjectInv` adds what a handler about to write has looked
at (`WellChecked`, `WellScanned`).  The delicate part is `ScansAll`: whatever can
name an object is of a kind that its deletion lists.  `UnovertakenKeepsNames` puts
both together: while no stale write happens, the files themselves have no
dangling name.

`JwksCacheProofs` proves, for any callers, tokens, keys and durations and from
`JwksAssumption`, the type (`TypeCorrect`) and the four action properties of the
run (`FloodPrevented`, `KnownKeysServed`, `RotationNoticed`, `StalenessBounded`).
`JwksInv` has five parts besides the type: who holds `fetchMu` is the one caller
that fetches, and its fetch is not older than it can be (`LockInv`); no time is
ahead of the clock (`TimeInv`); what a fetch has read contains every key published
before it began and no known key less (`GotInv`), and so does what is stored once
one succeeded (`KeysInv`); and what a caller under way found out when it came is
still so (`CallInv`).  The delicate one is `GotInv`: keys go on being published and
withdrawn between the answer and its storing, and a key that is both known and
still published must be in an answer that is older than either fact.

`AdministrationProofs` proves of `OwnerStores`, for any requests and subjects and from
`OwnerAssumption`, the type (`OwnerTypeCorrect`), that the record can be read and
has an admin (`RecordAlwaysKept`) and the refinement of `Ownership`
(`OwnerImplementsOwnership`).  All writers share one temporary file, so the point
is that there is one writer at a time although stores with mutexes of their own
exist.  `OwnerInv` says why: only the store of a claimed owner is cached, and
whoever edits the record has that store, hence its mutex; whoever claims holds
`root.mu`, and as long as it does nobody has claimed and nothing is cached, so
nobody edits (`MutexInv`, `KnowInv`).  From that the temporary file is open to its
one writer and is complete when it is renamed (`FileInv`).  `KnowInv` also keeps
what a handler decided of the record it read, which is the guard of the abstract
step: it still holds at the write unless the handler was overtaken.

Of the composition it proves, from the assumptions of the modules it composes,
that the commands of `gateway-cli` are clients of `OwnerStores` and no more
(`CommandsAreRequests`), whence the two properties above for the composition
(`AdministeredRecordKept`, `AdministeredImplements`), and its type
(`AdminTypeCorrect`).  `CliInv` adds to the type what a command holds when it needs
it (`Equipped`): a login with a token while it refreshes and saves, an account when
it tries again.

Of `CliLogin` it proves `LoginKept` (`LoginAlwaysKept`), and so of the composition
(`AdministeredLoginKept`).  `LoginInv` says, of each machine, that only a command
that is writing has a file open and that what is accepted, held or stored was issued
(`Sound`), and, unless something has disturbed the machine's login, how the commands
on it stand to each other and to the files: a login is alone; where the provider
replaces refresh tokens one command at most is saving, and where it does not every
token that was issued is accepted (`Heirs`); where tokens are replaced, one that can
still be refreshed is the one stored (`Readers`); `cred.json` is never two documents
in one, is torn only while a command is about to write to it, which does not happen
where tokens are replaced, and its token is accepted unless the successor is being
saved (`MainKept`); and the temporary file holds what one who saves has to save,
whole or not yet (`TmpKept`).  Machines do not touch each other's files, so a step
is looked at on its own machine only (`OneMachine`).

`SimulatorProofs` proves of `Simulator`, for any clients, requests, documents and
bounds and from `SimulatorAssumption`, its type (`TypeCorrect`), `ScenarioIntact`
(`ScenariosWhole`), `SeqExact` (`EntriesNumbered`), `ReplayCurrent`
(`ReplaysCurrent`) and `ScriptFollowed` (`ScriptsFollowed`); `TestbenchKeeps` has
them for the composition.  `SimInv` has a conjunct for each.  `FileSound`: a file
that nothing has spoiled is whole and nobody's, or empty with the one PUT that will
write it; what an old PUT has open is an inode no newer than the file's, so a
deleted file is never written again.  `SeqSound`: one append at a time, numbered
like the entries it found.  `CacheSound`: the date is asked for before the file is
read, so a cassette's date is no later than its reading, and a change it lacks is
dated no earlier; a request that is served by date thus has all changes, or the file
was changed in the tick it was read in.  `AnswersCounted`: the last answer of a
session is the one for the index before its counter.  That `stepForIndex` reads a
document the way it is written is a fact about a fold over its steps
(`StepsAsWritten`), proved for documents of any length.

Of `MessageStream`, in the composition and for any messages, paces and bounds that
`StreamAssumption` allows, it proves the type (`TestbenchTypes`), `NothingMadeUp`
(`NothingIsInvented`) and `AdaptsBothWays` (`ShapesAdapt`), the last for answers
without a content coding.  The inductive invariant
`StreamInv` (`ExchangeInvariant`) says what is where: what is being written is a
stream of the upstream's, or in a playback what `ReplayedStream` makes of the entry;
what a client has been sent is a beginning of that; an entry records a beginning of
an upstream's stream, its body or its error; and the body a client got is
`ReplayedBody` of the entry.  The rest says what such data is read as, whatever the
lengths:

- `ChunksWhole`: the chunks of a text are the text.
- A stream is its events without pings (`Bare`) with pings in between (`Spaced`),
  wherever `emitDelta` puts them; `ReadSpaced` and `PingsUnheard` say that neither
  `sseToMessage` nor a client minds them.
- `ReadBare`: what has been read after each of the events of a message: the blocks
  before and a part of the one it is in (`Part`).  Hence `StopsAt`, for a stream that
  breaks off anywhere, and `WholeStops`, for one that does not.  `WholeInput` is the
  reason why half an input is never taken for a whole one: of the beginnings of an
  object without braces inside, only the whole is JSON.
- `RoundTrip`: a whole stream is read, and heard, as its message.
- `FormsAlike`: what `jsonBlock` and `Streamed` make of a block says what the block
  says, for spaces that are gone stay gone and a rounded number stays as it is.

There is no induction rule for the prover to apply, so recursion over data is dealt
with in the open: the library defines folds and `FlattenSeq` by `CHOOSE` of a function
with recursive equations, and `FoldExists` and the lemmas before `FlattenAt` show
that there is one, from the set of the numbers up to which there is (`UpTo`,
`LeastNatural`).  From then on a fold is the end of a chain of values, one per place of
the sequence, and an invariant of the chain is shown place by place.  `Literals`, the
assumption that the strings that the model names itself are strings, is there for
the prover, which does not know it.

Only model-checked: the liveness properties (`SlotsComeBack`, `DisabledDrains`,
`WaitersReturn`, `FetchMuReleased`, `HandlersEnd`), as liveness under fairness is
beyond the prover.  Every other property of a passing run is a theorem.

## Not modelled

Signatures, sealing and hashing (a token is a number, a key matches or not); the
claims of an access token, whose check keeps no state; the bytes of a session and of
a request carried over yamux; what a content coding does to the bytes; wording and
headers of answers; the vault and environment sources of a credential, which keep no
state; an identity provider that revokes a login when a replaced refresh token comes
again, and the expiry of refresh tokens; the development mode without a token check;
the delays between the events of a stream; and the parts the inventory marks so.

## Plan

1. Proofs: that a session whose stream ended is never charged again.
2. The MCP lane: its sessions of one tool call, and the admission it repeats.
3. Routing of operations in the data plane; audio estimates; the echo directive.
