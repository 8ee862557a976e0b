# Models of the routing API

The routing API answers swap quotes on AWS Lambda. Its router is a library
(`@uniswap/smart-order-router`); what this repository adds, and what these
modules model, is the machinery around it: which RPC provider a call goes to,
how the health of providers is recorded, how routes are cached, refreshed and
deleted, where pools, quotes and fees of tokens come from, and what becomes of
a request. Most of it is shared between requests, lambda instances and
callbacks, which is where a test hardly reaches.

Paths below are relative to `src/`. `PROJECT.json` maps each definition to the
lines it models.

## Inventory

| Component | State | Operations | Hard because | Correct when |
|---|---|---|---|---|
| RPC fallback handler (`lib/rpc/handler/FallbackHandler.ts`, `lib/rpc/ProviderHealthStateDynamoDbRepository.ts`) | one row per provider in the health table: healthiness, ongoing alarms, version | one lambda invocation per alarm notification: read the row, compute the next, write it | invocations run concurrently, fail, are retried 60 s later; reads are eventually consistent; a first write has no condition | a row is HEALTHY exactly when no alarm is listed; no update is lost; the table behaves as if invocations were atomic |
| RPC gateway (`lib/rpc/UniJsonRpcProvider.ts`, `lib/rpc/SingleJsonRpcProvider.ts`) | per lambda instance: session cache, attached session; per provider: healthiness, evaluation flags, timestamps | choose a provider, call it, then shadow calls to the others | calls and shadow calls overlap; state is read before an await and used after; the session cache is bounded | weights are respected; a session sticks to its provider; health checks are exclusive and spaced; shadow calls belong to requests |
| Gateways of an instance (`lib/rpc/GlobalRpcProviders.ts`, `lib/config/rpcProviderProdConfig.json`, `lib/rpc/utils.ts`) | two static maps, the container's choice for each chain | build the maps once, inject each chain, start a session per request; alarms by name | a constructor may throw half way and leaves a map behind; four lists must agree; names are derived from two sources | requests and routers share one gateway; a started instance is whole; alarms reach the row they are about |
| Routes table (`lib/handlers/router-entities/route-caching/dynamo-route-caching-provider.ts`) | entries by partition key and route id | look up, batch write, batch delete | instances race; batches fail half way; writer, reader and deleter each derive the key | a request is served only what it asked for, the most recent of it, and what is reported deleted is gone |
| Caching requests (same file, `lib/handlers/shared.ts`) | a flag table by pair and amount; asynchronous invocations | an optimistic lookup may invoke the caching lambda and set a flag | nobody awaits the calls; the flag is read and set in two steps; a caching quote runs the same handler | requests do not feed themselves, and flags never stop the refresh for good |
| Pool files (`lib/cron/cache-pools.ts`, `lib/cron/cache-config.ts`, `lib/handlers/router-entities/aws-subgraph-provider.ts`) | a file per chain and protocol in S3, an in-memory cache of four minutes per instance | the cron lambda collects and writes, an instance downloads when it is built and after each expiry | runs overlap and are retried, requests miss at once, an older download may end last, a failed build leaves static pools for good | what is served is not older than an expiry and a download; an outage does not empty a file |
| V3 and V2 pool caches (`lib/handlers/pools/pool-caching/**`) | pools by address and block in DynamoDB | read through, write after a miss | calls overlap; a failed put is reported as done; block number 0 or undefined; the head moves while a call runs | what is read for a block is the pool at that block |
| Traffic switchers (`lib/util/traffic-switch/*`, `lib/handlers/pools/provider-migration/v3/*`, `lib/handlers/quote/provider-migration/*`) | shares, and the calls in flight | call the current or the target implementation, or both and compare | errors of the one that is only sampled; which answer is returned; what is counted | sampling cannot be told from outside; shares of nothing and everything are exact |
| Quoters' parameters (`lib/util/onChainQuoteProviderConfigs.ts`, `lib/handlers/injector-sor.ts`) | none: tables by protocol and chain | the quoters' callbacks read them, the library retries with them | four tables that have to fit together; callbacks without types in common | a retry gives each quote more gas; each protocol its own row |
| Token fee fetcher (`lib/graphql/*`, `lib/util/traffic-switch/*`) | a call's map of fees | GraphQL first, the chain for what is missing | partial answers and swallowed errors | every token is asked from the right source, none is forgotten |
| Quote handler (`lib/handlers/handler.ts`, `lib/handlers/quote/*`, `lib/handlers/injector.ts`, `lib/handlers/index.ts`) | the container of an instance, with an entry per chain | a request: validate, inject, check, look up tokens, assemble options, route, respond | many ways out; an instance may end anywhere; the container may fail | statuses and metrics agree; validated chains are served |
| V4 pool filter (`lib/util/v4HooksPoolsFiltering.ts`, `lib/util/hooksAddressesAllowlist.ts`) | queues per group, for one call | visit each pool, push, poll, restore | ties, a heap, pools with places of their own | only outranked or interfering pools are left out |
| Others (`model/cached-routes-strategy.ts`, `lib/handlers/evm/EVMClient.ts`, marshalling, token list cron, dashboards, stacks) | none | functions, declarations | | not modelled, see below |

Interactions: the quote handler attaches a session to the gateway
(`lib/handlers/quote/quote.ts:77`) and sets the intent with which the route
cache is asked; the route cache invokes the quote handler again through Lambda;
the fallback handler writes the table that the gateway was meant to read. That
last link is cut in the code: the sync is commented out
(`lib/rpc/SingleJsonRpcProvider.ts:317`), so the two are separate modules and
healthiness is changed in `RpcGateway` by an external action.

The cron lambda and the readers of pools share the files; the V4 filter decides
what the cron lambda writes. A request reads pools through the switch of
`V3Pools`, quotes routes through the switch of `QuoterSwitch` with the
parameters of `QuoteBatches`, and fetches fees through `TokenFees`. These parts
share no variable: what one returns is data to the next, and the library
between them decides the order. They are therefore modules of their own, and
the three switches are compared with one abstract specification,
`ShadowSwitch`.

Dashboards, CDK stacks, ABIs, marshalling and the token list cron have no state
of their own that other steps depend on and are not modelled. The stacks are
used as the source of facts: alarms invoke the fallback lambda once per
transition, alarm names carry chain and provider, and Lambda runs the cron of a
file on a schedule, and again after a failure.

## Modules

| Module | Models | Composed with |
|---|---|---|
| `HealthLedger` | abstract: a notification changes a provider's row in one step | implemented by `FallbackHandler` |
| `FallbackHandler` | the fallback lambda and its table | |
| `FallbackHandlerProofs` | its theorems | |
| `RpcGateway` | the gateway of one chain in one lambda instance | |
| `RpcGatewayProofs` | its theorems | |
| `RpcProviders` | how an instance builds its gateways, who shares them, and what their alarms watch | |
| `RoutesDb` | the routes table for one pair, trade type and chain | |
| `RoutesDbProofs` | its theorems | |
| `CachingRequests` | the flags and caching requests of one partition of that table | |
| `CachingRequestsProofs` | its theorems | |
| `V3Pools` | the DynamoDB cache of V3 pools and the switch in front of it | |
| `PoolFiles` | one pool file: the cron lambda's runs and an instance that reads it | |
| `V4Pools` | the choice of the V4 pools of a file | |
| `ShadowSwitch` | abstract: a call ends with what the implementation that was due gave | implemented by `QuoterSwitch`, `TokenFees` |
| `QuoterSwitch` | the switch between the two quoters | |
| `QuoteBatches` | the quoters' tables of batch parameters, and their retries | |
| `TokenFees` | the fetchers of token fees and `TrafficSwitcher` around them | |
| `QuoteRequests` | an instance of the routing lambda and the requests it answers | |
| `PoolsProofs` | theorems of `V3Pools`, `PoolFiles` and `V4Pools` | |
| `SwitchProofs` | theorems of `QuoterSwitch` and `TokenFees` | |
| `InstanceProofs` | theorems of `QuoteRequests`, `RpcProviders` and `QuoteBatches` | |
| `MCQuotePath` | the instance of `RpcProviders` and the seven modules of the quote path | their sum, see below |
| `QuotePathProofs` | theorems of that sum | extends the three modules above |
| other `MC...` | the instances TLC checks | extend the module they name |

### FallbackHandler

`item` is the table, `replica` an older or equal copy an eventually consistent
get may return. An invocation `i` is `queued`, then `writing` between its read
and its write (`snap` is the row it read), then `done` or `dropped`. `Alert` is
CloudWatch, `Read` the get with the early returns that follow it, `WriteFirst`
the put without condition, `UpdateItem` the conditional update, `WriteFails` and
`ReadFails` every way to throw; a write may also be applied and its answer lost
(`AfterWrite`). Lambda runs a failed invocation again, `MaxRetries` times.
`firing` and `disturbed` are history: what CloudWatch last said of an alarm, and
whether that alarm's own notifications were reordered, dropped or answered from
a stale row.

### RpcGateway

Node runs one callback at a time, so an action is the code between two awaits:
`Begin` is `wrappedFunctionCall` up to its await, `Answer` what follows it,
`EndCheck` and `EndProbe` the ends of the shadow calls. `calls`, `checks` and
`probes` are what is in flight, each with the values it captured before its
await. `Math.random` is a choice; `rand` ranges over half-integers, which meets
every provider the reals meet. The session cache evicts the least recently used
session (`usedAt`). Health checks and latency evaluations are sampled with
probability 0 in the deployed configuration (`Sampling = FALSE`, the run
`RpcSessions`) and with any in the others, as in the tests. Errors of a call and
answers only differ where the comparison of answers looks at them.

### RpcProviders

The static fields are those of `GlobalRpcProviders`; the one of the gateways is
null until `builds` is 1. A build draws the rows, makes the providers of each
and then the gateways, and stops at the first constructor that throws, with the
map it was filling left in place. `InjectChain` is the part of the container's
loop before its first await, one chain after the other; a chain that throws
rejects the container (`fatal`) while the next goes on. `StartSession` is the
head of a request. A URL is its host, its chain and the value of its variable,
of which only the words count that `deriveProviderName` looks for.
`PROD_CONFIG`, `DeployedUrls` and `KnownUrls` are the lists of the JSON file, of
`bin/app.ts` and of `generateProviderUrl`. `sessionAllowProviderFallbackWhenUnhealthy`
is not among the configuration's fields: the code passes `true` whatever it says.
`getGlobalSingleRpcProviders` has no caller outside the tests.

### RoutesDb

`table[k][r]` is the entry of route `r` under the partition `k`. The key has one
degree of freedom, whether a native currency is kept or wrapped, so `k` is
"native" or "wrapped". A client is a lambda instance that found cached routes
and then uses or deletes them, in batches; writes of whole batches come at any
time, at the current or an earlier block, and may be applied in part. Which
routes a router computes, whether a route is expired and when a router deletes
are decided in the library and are choices of the model. `gone` records the
deletions that were reported.

### CachingRequests

A task is one call of `maybeSendCachingQuoteForRoutesDb`: a query of the flags,
then an invocation and a put, started together and awaited by nobody, each of
which may fail. Only differences of block numbers matter, so flags and tasks
carry ages; `Old` is an age at which a flag is outdated for every task, which
makes the behaviours infinite with finitely many states. A caching quote is the
handler with intent "caching"; a failed run leaves its event for Lambda to run
again.

### V3Pools

A pool at block `b` is the number `b`, so that any two states of a pool can be
told apart; `head` is the chain's latest block. A call of `getPools` is at the
current provider, looking up pool by pool (`Lookup`), at the chain (`Fetch`),
storing pool by pool (`Store`), or has left a comparison behind that nobody
awaits (`comparing`). A lookup may miss what is there, which covers a failed
read and an expired item; a put may fail applied or not. Block 0 stands for a
call without a block. The deployed shares of this switch are 0 and 0
(`lib/handlers/pools/util/pool-provider-traffic-switch-configuration.ts`); the
constants allow any, and the run hits and misses both.

### PoolFiles

`cron` has the runs for the file `key`, each collecting the subgraph's pools and
then what is added to them (the second mainnet subgraph, pools of euler hooks),
before it stores. `RunFails` is any error, a retry another `StartRun`. The
instance builds its container (`Build`), which downloads the file unless there
is none to expect, and serves from `pooled` until it expires (`Tick`); `served`
is history: how long ago the file was last what the latest `getPools` returned.
`static` is an instance whose first download failed, or whose chain has no file.

### V4Pools

`left` is what the loop has still to visit, `queue` the pools in the queues of
all groups. A queue is a set: the heap's front is some pool of the least value.
Addresses are abstracted to the classes the code tells apart: hooks that are
zero, on the allowlist or neither, and whether they interfere with swaps.

### ShadowSwitch, QuoterSwitch, TokenFees

`ShadowSwitch` is what a caller may see of a switch: an implementation is due,
and the call ends with its answer or its error. `QuoterSwitch` has a call sample
both quoters (`ShadowAnswers`, `ShadowFails`: the first error ends the sampling)
and then, or instead, ask the one that is due (`AskDue`). `SwitchShare` and
`SampleShare` are the deployed tables; a draw is a whole percent. `TokenFees` has
the control's two requests (`GraphQLEnds`, `FallbackEnds`), the treatment's one,
and `Return` as the point where everything asked has settled. Of
`customization` each accepted one is a starting state. The pools' switch of
`V3Pools` is no `ShadowSwitch`: an error of the provider that is only sampled
ends the call, as the code has it, and the model says so (`ProviderFails`).

### QuoteBatches

The tables as operators (`OptimisticBatch` to `RollbackOffset`), the callbacks of
the container (`BatchParams`, with the argument the target's callback takes for
another in `ParamsProtocol`), and one call of a quoter that fails and is tried
again. The library's own parameters and the retrying are external.

### QuoteRequests

`stage` is how far the request got; each action is the code between two awaits,
with every way out (`Respond`, `Answer`, `Throw`) and the metric it leaves
(`counted`). `EndInstance` is Lambda ending the instance at any point.
`Requests` lists what tells requests apart: anything a check looks at. Some
behaviours are worth knowing and are in the model as they are in the code: a
request without a query string gets past validation and ends as a 500;
`mixed,mixed` gets past the check that refuses `mixed` alone; `[v4]` with router
version 1.2 leaves no protocol, which the router takes for no restriction.

## What TLC checks

Every run is exhaustive for its bounds. A definition whose comment starts with
"A bug:" is a wrong version of the one below it; no specification uses it.
`PROJECT.json` ("mutants") pairs each with the property that fails when it
replaces the right version, so that every property is known to notice something.

| Run | Result | Shows |
|---|---|---|
| `FallbackHandler` | holds | `HealthyIffNoAlarm`, `OrderlyAlarmsRecorded`, `NoLostUpdate`, `ImplementsLedger` |
| `FallbackLiveness` | holds | `EveryAlertSettles` |
| `FallbackCold` | violated | `ConflictsDetected` fails while there is no row |
| `RpcShadow` | holds | `OneHealthCheck`, `HealthChecksSpaced`, `ShadowsInRequests` |
| `RpcSessions` | holds | `SelectionFollowsWeights`, `SessionSticks` |
| `RpcLatency` | violated | `LatencyEvaluationsSpaced`: nothing spaces latency evaluations |
| `RpcSwallow` | violated | `ShadowErrorsSwallowed`: a failed shadow send rejects a promise nobody awaits |
| `RoutesDb` | holds | `ServedAsRequested`, `MostRecentFound`, `DeletedRoutesGone` |
| `RoutesDbNative` | violated | `MostRecentFound` with a native currency |
| `CachingRequests` | holds | `Quiesces`, `PairsRefreshed` |
| `QuotePath` | holds | the 21 properties of the next table |
| `BatchTuning` | violated | `TunedPerProtocol`: the target quoter goes by the parameters of mixed routes |

| Part of `QuotePath` | Properties |
|---|---|
| all | `TypesOK`: the type invariants of the parts |
| `V3Pools` | `TableHoldsTruth`, `TargetMatchesTruth`, `AnswersComplete` |
| `TokenFees` | `NothingForgotten`, `FullExperimentSwitches`, `FeesImplementSwitch` |
| `QuoterSwitch` | `CountedFailuresReal`, `SharesAtTheEdge`, `QuoterImplementsSwitch` |
| `QuoteBatches` | `RetriesGetMoreGas` |
| `PoolFiles` | `BoundedStaleness`, `OnlyOverlapsGoBack`, `FileKept` |
| `V4Pools` | `OnlyOutranked`, `Safeguard` |
| `QuoteRequests` | `CountedAsAnswered`, `ChainsInjected` |
| `RpcProviders` | `RequestsUseTheirGateway`, `GatewaysAsConfigured`, `DeploymentAgrees` |

`QuotePath` checks eight modules in one run. They share no variable, so the
variable `part` chooses one of them at the start and the others stay where they
are: a behaviour of the whole shows each part a behaviour of its own, and its
states are the sum of the parts' and not their product. About half a million
states are distinct.

The five violations are findings, with the sentence of the repository each one
contradicts in `PROJECT.json`:

- **A first write is not protected.** Two invocations read no row; one puts its
  row, a third reads that row (version 1), the other put overwrites it (version
  1 again), and the third's conditional update passes on a row it never read.
  One alarm is lost, and with it the knowledge that a provider is down.
- **Latency evaluations are not spaced.** `LATENCY_EVALUATION_WAIT_PERIOD_IN_S`
  and `evaluatingLatency` are written and never asked.
- **A swallowed error surfaces one level up.** `evaluateLatency` returns
  `undefined` after an error and `compareRpcResponses` reads a field of it.
- **Writer and reader use different keys.** Routes of a native pair that hold no
  V4 route are stored under the wrapped token; requests that include V4 look
  under the native one. Deletion derives its key like the writer, so what such
  a request found (a mixed route, say) may be reported deleted and stay;
  `DeletedRoutesGone` fails in that instance as well.
- **The target quoter reads its parameters with the wrong arguments.** Its
  callback takes the routes' origin and whether mixed quoters are used; it is
  passed the origin and the protocol, whose name is always true. V3 and V4
  quotes are packed like mixed ones, and on mainnet, where mixed routes have no
  row, by the library's defaults. All V3 quotes of mainnet take this way.

Seen on the way, without a run of their own because no property is stated that
they break: "Add error rate alarms for each {chainId, provider} pair"
(`bin/stacks/rpc-gateway-fallback-stack.ts:61`) makes an alarm for UNIRPC and one
for QUICKNODERETH that watch metrics nobody publishes, since no URL gives a
provider these names (`DeriveProviderName`); UNIRPC is the provider with all the
weight on every chain but one, and what it publishes as UNKNOWN has no alarm.
`DeploymentAgrees` therefore speaks of the others. The latency alarms (line 117
there) watch `_evaluated_latency_getBlockNumber`, while
`lib/rpc/SingleJsonRpcProvider.ts:211-217` publishes the type of the call before
the word latency. The comment at `lib/handlers/quote/quote.ts:341-343` says that the
use of cached routes is overridden, which `FEE_ON_TRANSFER_SPECIFIC_CONFIG` does
not do; the one at `lib/util/hooksAddressesAllowlist.ts:86-87` says that no pool
with hooks is routed through, but listed hooks are, and so are unlisted ones
that do not interfere (`Safeguard` states what the code does); AVALANCHE is listed for V4 without there
being a V4 file of it; when mainnet's subgraph has no V3 pools, the one pool of
the second subgraph is stored alone (that the pools of the subgraph
stay, `FileKept` says only of files to which nothing is added).

### Bounds

- `FallbackHandler`: three notifications on two alarms of one provider and one
  of another, one retry; three are needed for two conflicting updates and an OK
  between them. `MaxEvents` only numbers invocations. The liveness run has the
  deployed two retries and two notifications.
- `RpcGateway`: `RpcShadow` has two providers, three calls in flight at once and
  a clock of few ticks around one wait period: enough for two answers around a
  check that is in flight, and for a session that is attached between a call
  and its answer. `RpcSessions` has one provider of each kind of weight, two of
  them fallbacks, and three sessions on a cache of two, so that a session is
  evicted and comes back. `MaxCalls`, `MaxPending` and `MaxTime` only stop it.
- `RoutesDb`: one route each of V3, V4 and mixed, since keys and filters tell
  protocols apart in no finer way; two of three routes are taken and batches
  hold one, so that the cut and a half-done deletion happen; two writes and two
  blocks, so that an old write may follow a new one. Clients are
  interchangeable (symmetry; no liveness is checked there).
- `CachingRequests`: two amounts of which one's range covers the other's flag,
  two tasks at a time, one block of difference and of lag, one waiting request
  per amount. `MaxLag` bounds how many blocks pass while a task runs; `Old`
  follows from it.

- `QuotePath`: `V3Pools` has two calls on overlapping sets of two pools, one of
  them created after the start, and two blocks, so that a call stores for a
  block that another reads while the head moves. `TokenFees` has one call
  (calls share only `custom`) on three tokens: a listed one, a listed one that
  is not written in lower case, and another. `QuoterSwitch` has one call, since
  calls share nothing, and draws of 0 and 99, which meet each comparison with a
  share on both sides; one chain of each row of the tables. `QuoteBatches` has
  every chain with a row of its own. `PoolFiles` has two overlapping runs, two
  overlapping downloads, two versions and an expiry and a flight of one tick:
  enough for a late download of an older file to follow a newer one. `V4Pools`
  has five pools in one group of two places, two of them worth the same, and a
  pool of each class. `QuoteRequests` has a request that is routed and each that
  differs from it in something a check looks at, with one chain without an
  endpoint. `RpcProviders` has the deployed configuration in full, the same with
  a chain that is sampled, one as the tests have, and four edits with which the
  gateways cannot be built; and the deployed environment, with and without words
  in the URLs, and without the health table, a URL or the nodes. An instance
  injects 19 chains, so nothing is bounded. A behaviour of another part starts
  with the shortest of the configurations only, which it does not look at.

`CHECK_DEADLOCK FALSE` is given where the bounds make a run stop: notifications,
calls, writes or blocks are used up. `CachingRequests` never stops and is checked for
deadlock.

### Fairness

- `FallbackHandler`: weak fairness of each invocation's steps. Lambda runs what
  it queued, and a run that hangs is ended by its timeout, which is one of the
  failures. CloudWatch is under no obligation.
- `CachingRequests`: weak fairness of a task's calls (the AWS SDK times out
  after 100 ms, Lambda calls have their own limits) and of the last run of an
  event (Lambda tries three times). Users, the chain and expiry owe nothing;
  where a property needs them it says so in its own premise.

## What is proved

TLAPS proves for every value of the constants, under the assumptions named next
to them:

- `FallbackHandlerProofs`: `TypeCorrect`, `HealthCorrect`, `UpdatesNotLost`,
  `LedgerImplemented`, `OrderlyRecorded`. The invariant behind `UpdatesNotLost`
  and `LedgerImplemented` relates versions: a row that an invocation read is no
  newer than the table's, and if the versions are equal the rows are equal. It is preserved because a row that exists is only
  written under the version condition, which is what fails for providers
  without a row; so the theorems, like the properties, speak of providers that
  have one from the start. With it the condition means that the row read is the
  row replaced, and every step maps to one of the ledger's or to a stutter.
  `OrderlyRecorded` rests on a third invariant (`OrderInv`): of an alarm whose
  notifications did not overtake each other the row says what the last answered
  one said, or what one under way said whose earlier run wrote the row and then
  failed; without that second case a retry would break it.
- `RpcGatewayProofs`: `TypeCorrect`, `ChecksExclusive`, `ShadowsOnlyInRequests`,
  `ChecksSpaced`. The invariant adds to `OneHealthCheck` that, while no check of
  a provider is in flight, the recorded timestamp is the start of the last one:
  the flag covers the time before it is recorded, the timestamp the time after,
  and neither alone would do (`HasWaited` and
  `NotEvaluating` drop one each, and a check then fails).
  `SessionsStick` has an invariant of its own (`SessionInv`): what the cache has
  for a session is the provider of its last call, and a session that was served
  and is not in the cache was left behind by as many others as the cache holds.
  It is preserved when a session is evicted because the one evicted was used
  longest ago, so all that stay are more recent (`EvictedDropped`), and stamps
  of use lie between the last call and the last try (`StampInv`).
  `SelectionWeighted` rests on what a loop over the weights finds for any sum:
  a draw below the sum falls on a provider with a positive weight
  (`PickedHasWeight`). The sum over a set is a recursive function; what
  is needed of it is shown with a smallest set that lacks the property
  (`SmallestSet`), since the induction theorems take an operator.
- `RoutesDbProofs`: `TypeCorrect`, `ServesOnlyRequested`, and
  `DeletionsReachWhatWasFound`, which assumes `OnlyWrapped`: that no currency is
  native. Its invariant says that of the routes a client found, those it has
  sent and that were neither spared nor set again are gone already.
  `NewestServed` says for any pair that the limit of a query cuts off the oldest
  entries of the partition it reads; it needs that the order of the entries is
  total, so that ranks are distinct. With it `FindsMostRecent` proves
  `MostRecentFound` under `OnlyWrapped` again, where the partition of the native
  currency stays empty; without that hypothesis it is what the run
  `RoutesDbNative` refutes.
- `CachingRequestsProofs`: `CachingTyped`, for any amounts, tasks and lags, and
  `CachingSettles`: unless a user quotes, no task has more calls to make than
  before, and a caching request is queued only by a task that then has fewer
  (`Work`). This is the safety half of `Quiesces`; that the calls are made at
  all is fairness.

- `PoolsProofs`, of `V3Pools`: `PoolsTypeCorrect`, `TableTrue`, `ComparisonsMatch`,
  `AnswersTrue`, for any number of calls and pools and any shares. The invariant
  says what each stage of a call may rely on when its block is known: while it
  looks pools up it has nothing or the truth of each, at the chain it knows which
  ones it lacks, and from then on it has the truth of all. The table's own part,
  that it holds only the truth, is what makes a lookup safe, and is in turn kept
  because calls without a block store nothing (`SetAnyBlock` drops that).
- `PoolsProofs`, of `PoolFiles`: `FilesTypeCorrect`, `StalenessBounded`,
  `GoesBackOvertaken`, `FilesKept`, for any number of runs and downloads and any times to live. The invariant bounds how
  long ago the file was what a download holds by the download's age, and what
  the entry holds by its age and one flight; the bound on what is served follows,
  and hits do not renew it (`Touches` would). Of the runs it says that one about
  to store has pools, and none older than the file's unless another run replaced
  the file meanwhile: a run collects after it starts (`StartWithPools` keeps what
  it had).
- `PoolsProofs`, of `V4Pools`: `LeftOutOutranked`, `SafeguardHolds`. The invariant is that a
  pool that was visited and is in no queue is outranked: as many pools of its
  group as there are places are in the queue and worth as much. It is preserved
  when a front leaves a full queue because what remains is worth at least as much
  as the front, and therefore as everything the front outranked
  (`OutrankedWithoutFront`); this is where the order of the heap matters
  (`WorthMost` reverses it).
- `SwitchProofs`: `QuoterTypeCorrect`, `FailuresReal`, `EdgesDecide`,
  `QuoterSwitched`, `FeesTypeCorrect`, `FeesAskedFor`, `ExperimentComplete`, `FeesSwitched`. A quote call is pending for its caller
  exactly until it is done, and is counted only when its sampling has failed; a
  fee call is pending exactly until what it asked has settled, and what it has
  still to ask the chain for is what has no entry, which no token of the dynamic
  list ever has from the service. The refinements map a step to
  the beginning of a call, its end, or a stutter (`QuoterStepSeen`,
  `FeesStepIsCallStep`).
- `InstanceProofs`, of `QuoteRequests`: `Counted`, `Injected`, for any requests
  and endpoints. The invariant says what has been counted at each stage (a quote is counted
  before it is answered, so none is delivered uncounted), that a
  container that was built has an entry for each supported chain, and that a
  request that waits for its chain has passed validation.
- `InstanceProofs`, of `RpcProviders`: `OwnGateway`, `AsConfigured` and
  `ProvidersTyped`, for any configuration with distinct chains and any
  environment. The invariant: while the container is not rejected, the gateways
  are built from its first chain on, from exactly the rows that were drawn, so
  every endpoint given out is what the static field has for the chain now. A
  field that is left half full only matters once the container is rejected,
  which is why requests never see it (`InjectOrSkip` lets them).
  `DeploymentConsistent` adds that every gateway is that of a row
  (`ServedInv`), that no row of the deployed configuration makes a constructor
  throw when the deployed variables are set (`DeployedRows`), and that the name
  derived from a plain URL is the one in the alarm. The rows are those of
  `rpcProviderProdConfig.json`; the values of the variables, further variables
  and the draws are arbitrary.
- `InstanceProofs`, of `QuoteBatches`: `RetriesSafer`, for any protocols and any
  sequence of failures. A quoter that is calling goes by the parameters of its
  chain or by the override for gas errors (`PackingInv`), and of the chains with
  tuning of their own those that retry have an override that is no worse
  (`Retried`).
- `QuotePathProofs`: `PartsImplemented`: a behaviour of `MCQuotePath` is one of
  each of the eight modules it adds up, so every theorem above about one of them
  holds in the sum, as `AllTyped` shows for the types.

Assumptions on the constants are the named ones of the modules; `EdgesDecide`
and `ExperimentComplete` need that a draw is below 100 and 1000, the others that
sets of pools are finite, shares are numbers and times natural, and that the
value for undefined is none of the configuration's (`UndefinedAssumption`).

Only model-checked: the liveness properties `EveryAlertSettles`, `Quiesces` and
`PairsRefreshed`, since fairness and `ENABLED` are out of the prover's reach,
and the disagreements that runs exhibit. Every other property of a passing run
is stated by a theorem.

## What the models leave out

- `RoutesDb` takes a query's first page for the whole; pages are cut by bytes.
- More than 25 routes in one write do not occur: a route set has at most seven
  splits.
- Percentages, sampling probabilities and timeouts are choices.
- Healthiness in `RpcGateway` is changed by the environment: in the deployed
  code nothing changes it, so what depends on an unhealthy provider is reachable
  only through the tests' helpers until the sync is enabled again.
- That at most one caching request is sent per window of blocks is not claimed:
  the flag is read and set in two steps, and two instances may both send.

- The time to live of an item of the V3 table is in the lookups, which may miss
  what is stored; the item's own clock is not modelled.
- `PoolFiles` has one instance. Instances share only the file, which no instance
  writes.
- `QuoteRequests` ends where the router is called. What the router computes,
  the fields of a response and their formats are left out; so are the parts of
  `buildContainerInjected` other than the entry per chain.

### Not modelled

- `model/cached-routes-strategy.ts`: a choice of a bucket in tables that only
  their own test reads; the deployed provider looks routes up without buckets.
- The V2 pair cache: a get and a set behind a provider of the library, which
  decides what a block is near enough for.
- The EVM client, marshalling and the token list cron: no state between calls.
- `v3-aws-subgraph-provider.ts`: nothing constructs it.
- Dashboards and stacks (`bin/stacks/*`), beyond the facts named above:
  declarations that run before the program does.

## Plan

Done: the components above. Left, in this order:

1. Liveness of a request (it ends, or its instance does) under the timeout of
   the lambda, and of a pool file (a schedule that keeps succeeding is served).
2. The rest of `buildContainerInjected`, and the response's fields as far as one
   follows from another.
3. More proofs: what a flag that is set promises to the tasks that follow
   (`CachingRequests`), as a safety property beside `PairsRefreshed`.
