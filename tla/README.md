# Verification of the MCP platform

TLA+ specifications of the packages of this repository (platform, bridge, view, view-components,
view-contracts, compose), configurations that let TLC check them on small instances, and proofs that TLAPS
checks for every instance. The source is TypeScript on single-threaded event loops, so the models share one
reading of it: **what runs between two awaits is one step**, and between two steps anything else that is ready
may run - other requests, timers, microtasks, the application's own callbacks, the network.

## 1. The system

Paths are relative to `src/packages/`. "Correct when" is what the properties of the modules say.

| Component | State | Operations | Interacts with | Correct when |
|---|---|---|---|---|
| Task store (`platform/src/tasks`) | tasks: status, requests shown, waits registered, keys answered, abort signal, times; disposed flag | spawn, requireInput, setStatusMessage, update, cancel, sweep, drain, dispose | spawned by tools/call, polled by tasks/get, disposed by stop() | a task ends once; what the client is shown is what the handler waits for; changes are announced; the cap holds and live tasks go last |
| Request queue, backpressure (`platform/src/concurrency`, `middleware`) | calls in flight, queue of resolve functions | acquire, release, under sleep, queue or reject | brackets every tool handler | no slot lost or claimed twice, none idle while someone queues, first come first served |
| Rate limiter (`platform/src/concurrency/rate-limiter.ts`) | accept times per key, purge counter | checkLimit, waitForSlot, clear | tool calls, HTTP requests | a sliding window, whatever the purge dropped; honest retry times |
| Multi round-trip requests (`platform/src/mrtr`) | replay store of nonces, memoised signing key | guard a retry, verify, consume, seal | tools/call; other processes through an injected store | a sealed state is used once per store while the store remembers it, by its caller, for its call |
| Tool registry, pipeline (`platform/src/middleware`, `mcp-app.ts`) | registered tools, the binding of each call, the runner's index | register, unregister, next() | every tools/call | one definition per call, its handler run once at most, every stage entered in its order and around the next |
| Subscriptions (`platform/src/subscriptions`) | registered streams, keep-alive timer | register, unregister, fan out, keep-alive, shutdown | listen requests, changes, stop() | acknowledgement first, only what was agreed to, the end told to every open stream |
| App lifecycle (`mcp-app.ts`) | started, stopping, the store, the registry, server handles | start, startHttp, stop | all of the above | a started server is live; a stopped one takes no task and runs nothing |
| HTTP surface (`mcp-app.ts`, `transport`, `mrtr`) | a request on its way through the gates; owners of tasks | header rules, authentication, dispatch, task methods, requests for input, the stdio path | task store, retry guard, pipeline | an effect only for who is entitled to it; an answer that says what happened |
| Resources (`mcp-app.ts`) | registry of resources | register, in batches and as viewers, remove, announce, list, read | subscription streams | what is announced, listed and served is what is registered |
| Node.js server (`platform/src/runtime`) | exchanges: body read, head sent | serve, collectBody, shutdown | the fetch handler | a limit that holds while a body is read, a status for every failure |
| Authentication (`platform/src/auth`) | cache of verified tokens, metadata cache, configuration | verify, resolve the tenant, audit, check scopes, serve metadata, build a provider | middleware | no token trusted for longer than its key set and the cache may keep it; a server is guarded or does not start |
| OAuth client (`platform/src/client-auth`) | shared token store, authorization flow, callback server | save, invalidate, refresh, authorize, receive a code | authorization server, other clients, browser | a refresh token goes to its issuer only; the port is always released |
| Message signing (`platform/src/security`) | sequence numbers of both ends | sign, verify | iframe and host | what is accepted is accepted once and in order, unless calls of verify() overlap |
| Bridge tunnel (`bridge/src/adapters/network`) | agents, pending calls, busy counts, sockets, reconnect loop | register, unregister, callTool, settle, time out, start, stop | WebSockets of agents | every call settles once and releases what it holds |
| Bridge server and page (`bridge/src/resource-server`, `bridge/src/client`) | sessions, tool results, sockets per session; pending requests and early notifications | connect, authenticate, request, notify, flush; serve files, the proxy and headers; check initData | App, platform, MCP backend | one answer per request, notifications in order; a page gets what it asked for and no more |
| Bridge client (`bridge/src/core`) | pending requests with timers, interception of postMessage | start, destroy, track, handle | transport, platform adapter | an answer settles its own request, once |
| View router and app (`view/src`) | current view, navigation queue, registered tools, React roots; dispatchers; teardown gate | goto, dispose; bootstrap, activate, notify, teardown | the host | one view at a time; everything delivered in order; every teardown settles, and is heard of while the transport is there |
| Surface App (`view-components/src`) | the display, mounts by generation, chain of navigations | show, mount, remount, close | view router, host context | what is displayed is what should be, and it alone is alive |
| App manifest (`view-contracts/src`) | none | validate | templates, registries | what a build publishes mounts |
| Cluster and dashboard (`compose/src/runtime`) | child processes, connections, sessions, listeners | start all or none, call, serve, stop | MCP servers, the browser | everything is given back, no request cut off |
| Dashboard page (`compose/src/host`, `runtime/host-dashboard.ts`) | frames, handshakes, contexts, relays | answer the handshake, route events, tell sizes, relay to the proxy | frames, the proxy of each panel | each panel is told where it stands, and confined to its grants |
| Composition rules (`compose/src/core`, `sdk`) | none | resolve, validate, route | templates, the page | what was found valid does what was written |

What is hard about this code: calls that suspend with a value they read before (`stop()`, `startHttp()`,
the retry guard, the header check, the token stores, the signature check); handlers of the application that call back at any time or never
settle; clients that cancel, retry, leave without a word, or answer after the fact; timers against late
answers; sockets that come back while the old one is still closing; frames that are replaced under one handle;
two validators of the same description; several processes on one replay store; capacities reached with
entries still alive; a start of many that fails in its middle. The hazards, each with its line and the
properties that guard it, are in `PROJECT.json`.

## 2. Modules

A definition whose comment begins with "Faulty" is no part of any specification. It is a plausible bug,
written beside the definition it stands in for, and `PROJECT.json` names the property that catches it.
History variables are marked as such where they are declared; no action reads one in a guard. Pure decisions
are operators, checked case by case: every initial state is one small input.

| Module | Models | Kind |
|---|---|---|
| `TaskStore`, `TaskLifecycle` | `tasks/task-store.ts`; what a client that holds a task id may rely on | detailed; abstract |
| `RequestQueue`, `Slots` | `concurrency/request-queue.ts`, `middleware/backpressure.ts`; limited concurrency | detailed; abstract |
| `RateLimiter` | `concurrency/rate-limiter.ts`, `middleware/rate-limit.ts` | detailed |
| `Pipeline` | `middleware/runner.ts`, executeToolCall and live registration | detailed |
| `Mrtr`, `Tickets` | `mrtr/*.ts`, retries of tools/call; single-use tickets | detailed; abstract |
| `Subscriptions`, `AppLifecycle` | `subscription-registry.ts`, the listen branch; start, startHttp and stop | detailed; composed |
| `HttpSurface`, `HeaderRules` | `handleMcpPost`, method dispatch, task methods, `buildInputRequiredResult`, the stdio handlers; `transport/request-headers.ts` | detailed; decisions |
| `Resources` | registration, announcement, listing and reading, with a client's list | detailed |
| `NodeServer` | `runtime/runtime.node.ts` | detailed |
| `Auth`, `AuthConfig` | JWT provider, tenant and scope middleware; configuration and presets, static tokens, registration modes of an OAuth client | detailed; decisions |
| `OAuthClient`, `Signing` | `client-auth/provider.ts` and its store, `callback-server.ts`, the metadata proxy `as-metadata-proxy.ts`; `security/*.ts` | detailed |
| `NetworkTunnel` | relay, socket relay, agent client and transport | detailed, composed |
| `AppBridge`, `BridgeClient`, `ServedPages` | `client/bridge.js` with `server.ts`; `core/*.ts`; routes, files, proxy, headers, initData | composed; detailed; decisions |
| `ViewApp` | `router.ts`, tools, React adapter; `createMcpApp`, `lifecycle.ts`, sessions | composed |
| `SurfaceApp`, `SurfaceRules`, `EventClient` | `surface-app.ts`; validators of surfaces, registries, manifests; `compose-events.ts` | detailed; decisions; detailed |
| `Cluster`, `McpConnection` | `cluster.ts`, `compose.ts`, `host-dashboard.ts`; one connection answer by answer | composed; decisions |
| `HostPage`, `ComposeRules` | `event-bus.ts` with its frames, the proxy of a panel; names, templates, rules, routes | composed; decisions |
| `MC*` | instances of the above for TLC; a run of several parts is one of them per behaviour | model checking |
| `TaskStoreProofs`, `RequestQueueProofs`, `AppLifecycleProofs` | theorems about the task store; the queue, the rate limiter and the pipeline; round trips, subscriptions, the lifecycle and the configuration | proofs |
| `ServerProofs`, `BridgeProofs`, `ViewProofs`, `ComposeProofs` | theorems about the HTTP surface, its header rules, resources, the Node.js server, signing and authentication; the bridge and its served pages; the view, its components and manifests; the cluster, the dashboard page, its rules and connections | proofs |
| `LoopFacts` | lemmas about loops, for the theorems: induction by a set of naturals, the value of a recursive function | proofs |

### Platform
*TaskStore.* One record per identifier stands for an `InternalTask`; `stored` is the key set of the map, so that a task
evicted while its run goes on is still there to act. Every public method is synchronous and is one action.
`Spawn` runs the synchronous prefix of `run()` before the task enters the map, as the code does;
`RunEnds` settles the promise of the run and `Settle` is the later microtask that looks at the outcome, so
that a sweep or a malformed request can come between them. `EvictedBefore` is the order of the two stable
sorts. Left out: results, error texts, poll intervals, `lastUpdatedAt`; abort listeners of user code run as
later steps of the handler.

*RequestQueue, RateLimiter, Pipeline.* `Release` hands the slot to the first waiter, whose promise resumes in `Resume`;
newcomers run in between. `Accept` and `Refuse` are `checkLimit`, `Turn` is one turn of the loop of `waitForSlot`; a
sleep may last longer than asked; the clock is never set back. The accept times of a key are a set of entries: the code
filters them by age and counts them, and nothing depends on their order. `Bind` takes the definition of a tool after
everything that is awaited between the header check and `executeToolCall`; custom middlewares call `next()` up to
`MaxNext` times, before or after an earlier call settled, and await all they called before they end, which is an
assumption about them. `entered` counts how often each stage is entered, the handler last; `waits`, the stages that a
middleware's calls of `next()` gave it, make a tree.

*Mrtr.* A request goes from await to await: key import, guard, verification, consumption, handler, sealing.
`Verdict` keeps the order of the checks of `verifyRequestState`. A nonce is the position of its token in `issued`, so
nonces are unique and no MAC is forged. An injected store is atomic and refuses what it holds, as its interface asks
(`replay-store.ts:12-22`); of a token that has expired it may forget the nonce, and it may admit or refuse it, and it may throw
before or after it reserved. `Restart` loses a process with its memory store.

*Subscriptions, AppLifecycle.* A stream has the state of its connection and the `closed` flag of its sink, which notices
a broken connection only when it writes. `AppLifecycle` numbers servers in the order of `serve()`. A suspended call
remembers the server it awaits; when it resumes it writes the fields of the app *as they are then*, as the code does.
`provided` says whether the app was given an auth provider: a `startHttp()` of one that was not awaits the configuration first, and
every `startHttp()` of an app goes the same way.

*HttpSurface.* A POST is at one await after the other; what it turns out to be is chosen where the code finds out, so that
every gate is met by every kind of request that got so far. A shutdown may begin at any await. The canonical copy of the
requests for input and the object the handler still holds are two things (`live`, `wire`). Whether headers are right is
decided by `HeaderRules`, whether a retry is admitted by `Mrtr`.

*Resources.* The client is the one the notifications are for: it opens a stream, lists, and lists again at each
announcement; responses and notifications overtake each other. *NodeServer:* a body comes in chunks, of an announced length
or not; a client may leave at any moment.

*Auth.* A request is suspended at the hash, the verification, the resolver of the tenant and the audit hook. `withdrawn`
is when a key stopped standing for its issuer, of which neither the cache of tokens nor the key set of `createRemoteJWKSet`
knows: the keys held are served for `KeySetAge` after their arrival, fetched again for a key that is missing once `KeyRest` has
passed, by one request that its calls share and that ends within `KeyTimeout`. What follows the arrival (the signature
check, the entry in the cache) takes no time of the clock; when a fetch fails, the calls that waited for it may be refused or go on. *OAuthClient* runs the provider under the
calls the SDK's flow makes, which are external and read off the interface the provider implements. *Signing* has the
host's `verify()` calls overlap as they may: each looks at the last number when it begins and moves it when its signature
has been checked, in any order.

### Bridge
*NetworkTunnel* has the client, two WebSockets and the relay, with frames in flight both ways; a connection that is closed
at one end goes on delivering at the other until its close arrives. An agent registered in process stands for every
caller of `registerAgent`. *AppBridge* is one page and its server; the session object outlives its entry in the store, as
in the code; the notifications of the session are numbered in the order it sends them. A second page shares nothing but the
store's capacity, which `ServedPages` has. A `ui://` URI of *ServedPages* may have any segments, dots included. *BridgeClient*
makes one socket per `start()`, and overlapping starts are allowed.

### View
*ViewApp* has the router, with one queue for navigations and the disposal, the bootstrap with its failures, the two
dispatchers and the teardown gate. Author callbacks take one step to settle and do not call `dispose()` themselves (see 5). An answer to the host needs the
transport: where the bootstrap or a `dispose()` closed it first, a teardown of the host goes unheard (`GoesUnheard`).
*SurfaceApp* takes the order of the host's notifications from `ViewApp` and models the mount, which continues
after the navigation that rendered it, by generation.

### Compose
*Cluster* is one composition from start to shutdown; a child may exit at any moment, a request of the browser be in
flight at any close, and the opener of the browser run for ever. *HostPage* distinguishes the document in a frame from the
frame, whose handle stays the same when it navigates; messages keep their order each way and carry the origin they were posted from. The posts of one event to one
frame follow each other in its queue and are one message; `RoutesExactly` says which they are. *McpConnection* reads its own
headers by the platform's `HeaderRules`, with the arguments of a call and the annotations of its tool, so that the two packages are
checked against each other.

## 3. Runs

| Run | Instance | Shows |
|---|---|---|
| `tasks` | 1 task, 2 keys, 2 principals, 4 outcomes, ttl 0 or 1, clock to 2; or 3 silent tasks in a store of 2 | the record of a task is consistent in every order of asking, answering, cancelling, expiring and settling; its end is the first one; eviction keeps its order; the store implements `TaskLifecycle`; a task with a ttl ends |
| `tool_calls` | 5 callers, 2 slots, 3 strategies; 5 requests, 2 keys, window 3 with 2 places; 1 call, 2 custom middlewares with 2 calls of `next()` each before that of the tool, 2 definitions | no idle slot, first come first served, `Slots`, every queued caller served; a sliding window with honest refusals; one definition, one run at most whatever middlewares call, every stage around the next |
| `mrtr_shared` | 3 requests, 2 processes with a restart each, 2 tokens, a store that may fail and forget | answers are verified; `Tickets`: nobody is admitted again before the token lapses |
| `mrtr_local` | 3 requests, 1 process, a store of 1 entry, clock to 4, 1 restart | a token is spent once per life of the memory store; full only of live entries, every request answered |
| `app_lifecycle` | 2 suspended calls, 1 stream, 2 changes, 1 tool call, 2 servers | a started server is live, a stopped one takes no task and runs nothing, streams are in order |
| `bridge` | 2 calls, 2 connections, 1 restart; a page with 2 sockets and 1 request; 3 starts of the bridge class; every small request for a file or a `ui://` URI, initData cut and doubled at will | the tunnel accounts for every call, the page for every request and notification, and the server serves what was asked for |
| `view` | 3 navigations, 2 notifications, a teardown and a `dispose()`; 2 displays, 1 context change; 3 subscriptions, 3 messages; small manifests | one view at a time, every teardown settled, a display that is up to date, events delivered, manifests that mount |
| `compose` | 3 panels of 2 servers, 2 requests of a browser; 2 frames, 2 sends, a resize, 1 replaced document; templates of 2 sources with 2 calls, 2 rules of any kind over 2 ways to label two panels; small answers | everything is given back; composition and shutdown settle or stand at an untimed wait; each panel informed and confined; rules that mean what they say |
| `http` | small schemas, values and header texts; 2 requests of 2 callers; 3 commits of 2 URIs; 2 exchanges, limit 2 | headers mirror the body; nothing for the unentitled; answers that say what happened; lists that converge; the body limit |
| `auth` | small configurations; 2 requests, 3 tokens, a cache of 1 and a key set of 2 instants, clock to 5; 2 clients, 2 issuers, 3 flows; 3 visits; 4 messages, one of them twice | guarded or refused; no token outlives its trust; refresh tokens stay home; the port is released; messages ascend where calls do not overlap |
| `taskstore_aborted_wait` | as `tasks` | disagreement 1 |
| `app_stop` | 2 suspended calls, 2 servers | disagreement 2 |

**Compound properties.** Most properties are conjunctions of named parts, listed where they are defined:
for instance `OneViewAtATime`, `TunnelSound`, `LimiterHonest` and `ResourcesHonest`, which name the hazards one by one.

**Why the bounds are enough.** Tasks do not read each other except in eviction, so one task shows
every order of its own operations and three in a store of two every mix of ended and live ones at the cap.
Two slots and five callers leave a queue of three: a head, a middle, a tail. A window of three instants has an inside and
both boundaries, and two keys are what the periodic purge needs to meet another key's list. Three requests, two
tokens and two processes give two retries of one token, on one process or two, with a third to fill or purge the store.
Two suspended calls are what an overlap needs; two servers, the one stopped and the one started meanwhile. Two sockets
are the one that closes late and the one that replaces it; three starts of the bridge class, two that overlap and one
after a destroy. Three navigations are one that runs, one that waits, one that comes when the first failed. Two panels of one server and one
of another give slots that skip a failed call and a connection that is shared. A cache of one entry and two requests fill
it at once, and a clock of five instants holds a fetch of one, a key set of two and a cached entry of two, one after the other: the bound
on the trust in a withdrawn key is met exactly. Two custom middlewares that call `next()` twice before the one that binds the tool
give an outer, an inner and a skipped stage. Four messages of which one comes twice are calls of `verify()` that overlap behind and
before others. Two rules are what overlaps: two static ones, a static and a wildcard one, two of ports, or one of each. The case checks take
every value of the kinds a comparison can tell apart: absent, empty, well formed, ill formed, looking encoded, unsafe, at each bound and one off.
Everything proved in section 4 does not depend on any of these numbers.

**Fairness.** The clock and the sweep timer for tasks, none for handlers or clients, who may do nothing for ever.
Microtasks run and handlers settle for the queue (the middleware gives a call no other way out) and the pipeline; nothing
is assumed of sleepers. Continuations, imports, stores and handlers end for `Mrtr`. `Progress` of `ViewApp` is the event
loop and hooks that settle; nothing obliges a host to ask. In `Cluster` the timers are those of `detectListenUrl`, of `server/discover`
and of `initialize` (`Unaided`), and of calls and proxied requests; a browser sends or drops what it began (`Answers`), and the caller
goes on. Four waits of the code have no timer, and nothing is assumed of them (`Untimed`): for the opener of the browser
(`host-dashboard.ts:736-741`), for the answers to `notifications/initialized` and to DELETE (`cluster.ts:564`, `:584`), and for the exit of a
process after SIGTERM (`:950`). `CompositionSettles` says that nothing else can hold a composition up: as it must hold from every
later state too, one that does not settle is at an untimed wait again and again, and there are finitely many of these. `CallbackFairness` is timers and the end of a shutdown: the browser may
never come.
Safety properties assume none.

**Deadlock** is not checked: every part but the queue is a model that stops when its identifiers, tokens,
requests or clocks are used up. What "waits for ever" means is stated as liveness instead: `QueuedServed`,
`AnsweredFairly`, `TeardownSettles`, `CompositionSettles`, `PortReleased`, `ExpiryEndsTask`.

## 4. Proofs

| Theorem | For every | Says |
|---|---|---|
| `TaskStoreProofs!TypeCorrectness` | set of tasks, keys, principals, messages | `TypeOK` |
| `TaskStoreProofs!InputsConsistent` | | `InputsSound`: requests shown are the waits registered, an answered key is not asked again, no wait behind "working" |
| `TaskStoreProofs!Accounting`, `Ends` | | `TasksAccounted`, `EndsStand` |
| `TaskStoreProofs!Capacity` | capacity | the cap |
| `RequestQueueProofs!Accounting`, `Fairness`, `Refinement` | set of callers, limit, strategy | counter and limit; `FirstComeFirstServed`; `Slots` |
| `AppLifecycleProofs!OneUse`, `Answers` | number of requests, processes, tokens, restarts, capacity, clock | `SpentOnce`, `AnswersVerified` |
| `AppLifecycleProofs!TicketsRefined` | as above, with a shared store that may forget what has expired | `Tickets` |
| `AppLifecycleProofs!TypeCorrectness`, `Streaming` | streams, changes, calls | `LifecycleTypeOK`; `StreamsSound` |
| `AppLifecycleProofs!Running`, `NoLateTask` | number of overlapping starts and stops | `RunsWhileStarted`, `NoTaskOnceStopping` |
| `TaskStoreProofs!Refinement` | set of tasks, keys, principals, messages, capacity | the store implements `TaskLifecycle` (`ImplementsLifecycle`) |
| `RequestQueueProofs!WindowHolds` | set of requests, keys, window, limit, purge interval, delays | `LimiterHonest` |
| `RequestQueueProofs!CallsWrapped` | sequence of stages, definitions, calls of `next()`, repeated ones included | `RunsInOnion` |
| `ServerProofs!HeadersTrue` | tools and their schemas, values, texts of headers, and what `Number()` makes of them | `HeadersMirrorBody` |
| `ServerProofs!SurfaceEntitled`, `SurfaceHonest` | set of callers, configuration | `EntitledOnly`, `AnswersHonest` |
| `ServerProofs!BodiesBounded` | limit, lengths, chunks, exchanges | `ServedWithinLimit` |
| `ServerProofs!TokensSafe` | set of tokens, keys, scopes, tenants, size and lifetime of the cache, age and rest of the key set | `TokensRespected` |
| `AppLifecycleProofs!Configured` | environment, file, list of tokens, client | `ConfigAgreed` |
| `ServerProofs!KeptForIssuer` | set of clients, issuers, flows, fetches | `KeptOfIssuer` |
| `ServerProofs!ChannelInOrder` | number of messages and of copies, overlapping calls of `verify()` | `AcceptedAscending` |
| `ServerProofs!ResourcesTrue` | URIs, batches, viewers, changes, requests | `ResourcesHonest` |
| `BridgeProofs!TunnelAgrees` | finite set of calls, connections, restarts, strategy | `TunnelSound` |
| `BridgeProofs!ServesPage` | number of notifications, sockets, reconnects, requests, starts | `PageServed` |
| `BridgeProofs!PagesHold` | directories, files, ui route, origins, limits, URIs, initData | `PagesTrue` |
| `ViewProofs!OneView` | set of views, tools, navigations, notifications, requests | `OneViewAtATime` |
| `ViewProofs!DisplayedTruly` | set of surfaces, number of mounts and contexts | `DisplayTrue` |
| `ViewProofs!EventsHeard` | finite set of subscriptions, messages | `Listened` |
| `ViewProofs!ManifestsTrue` | length of the manifest, its components, surfaces, schemas | `ManifestHonest` |
| `ComposeProofs!ClusterClean` | template, set of servers, listeners, requests | `StopsClean` |
| `ComposeProofs!PanelsKnow` | slots, surfaces, catalogs, proxies, requests, rules, sizes | `PanelsInformed` |
| `ComposeProofs!RulesHold` | number of sources, calls, rules and ports, names, component ids, manifests, tools, events, actions | `RulesMean` |
| `ComposeProofs!ConnectionsHold` | names, arguments and annotations of tools, paths of URLs, listings, frames, requests of a panel | `ConnectionsTrue` |

The assumptions are the named ones of the modules: types and finiteness of the constants, `MaxTasks`,
`MaxConcurrent` and `MaxSockets` at least 1, markers such as `NoAuth` that are no member of the set they stand
outside of, batches that are sequences, schema identities of a name and a version. Where a decision has conditions of its own
they are assumptions too: texts have at least one part and values come with the values of their fields (`HeaderAssumption`); a
composition has two panels or more, of distinct tools and ids, and no tool or event is called `*` (`CasesAssumption`); directories are given in
full, the ui route is no route below `/app`, and what the bot signs has every key once and no value of several lines (`PagesAssumption`).
Every invariant is made inductive first and the induction checked action by action.

- *Task store.* Each effect of the code on a record (`Asked`, `Answered`, `Aborted`, `Failed`, `Settled`) gets a
  lemma about what it does to the parts of the invariant; each action then applies the lemma to the record it changes.
  The strengthening ties status to the pending map (a working task has no wait; an ended task keeps its view) and the
  announcements to the status. Capacity counts: an eviction leaves `MaxTasks - 1`. For the refinement the phase of a task is read off
  its status and its place in the store, and each action is shown to move it as `TaskLifecycle` may, or not at all.
- *Request queue.* The counter cannot be shown exact without saying that the queue holds exactly the callers
  at "queued", each once, and that it is empty unless all slots are taken; the handover of `Release` keeps all three.
- *Rate limiter.* A cleaned list counts what the full one would, because cleaning drops only entries that are past their window;
  every entry lies in the past, so a window that is counted at an acceptance contains every other window that ends there.
  A refusal tells the caller the age of the oldest entry, the least element of a finite set of times (`LimiterInv`).
- *Pipeline.* What the index has passed was entered, once each, and the handler when `handlerCalled` says so (`Entered`). The calls of `next()`
  make a tree whatever middlewares do: every stage but the first was called by one stage in front of it, which runs as long as what it
  called does (`Tree`). Where each called `next()` once the tree is a path, and no stage ends before its successor (`Nested`).
- *Round trips.* A token is used once because a request past consumption has its nonce reserved in
  its store *or the token is dead*. That is the strengthening; purging, forgetting and restarting keep it. A dead token is refused by the memory
  store on its own clock, however old the verdict is. An injected store promises no such thing, so two reservations of one token exclude each
  other only until it expires (`ReservedOnce`), which is what `Tickets` promises.
- *Lifecycle.* A started app may be stopping only while the stop that made it so is still suspended or has failed.
- *Requests and authentication.* For each place a request can be suspended at, the invariant (`SurfaceInv`, `AuthInv`) says what was
  established before it: which gates were passed, whose task it is, what has been shown or spawned. A cached token was
  verified when its entry says it was, and what a suspended verification holds was true of its token when it was read. A key set
  that is fresh was fetched no longer than `KeyTimeout + KeySetAge` after any of its keys was withdrawn (`KeySetOK`), to which the
  cache adds its own time (`TrustTime`). A body under the limit follows from the bytes counted before each chunk is kept. A refresh token has the issuer
  it was saved with, through any flow that read the store before.
- *Signing.* The last number of the host is that of the last message it accepted, and if it accepted a later number before, two calls have
  overlapped since: the one that moved the number back had looked before (`LastKept`, `CallsBegan`).
- *Resources.* Every way to register either changes nothing or adds entries at once and announces them; that is a lemma on one step
  each. For the client, whoever listens either has an announcement still to come or its latest request, or what it
  holds, is of what is registered now; what an older request answers is ignored (`ResourcesInv`).
- *Configuration.* Case by case: what is wrong with a list of tokens does not depend on its order, and a credential that is
  accepted stands in one place of the list, so that its identity is the same in each.
- *Tunnel.* `TunnelInv` says who may be registered, in which of its places (relay, frame, handler, result) a call is,
  that a frame is behind the hello of its connection, and which attempt the reconnect loop stands on. The busy count is then the number of
  calls assigned, and no result is for a call of someone else.
- *Page.* What the app has heard, what is in flight and what is buffered ascend together without a gap, and only one
  socket carries notifications; anything is buffered only while nothing has been sent; whoever takes the session for
  authenticated was told so by the server.
- *View.* `RouterInv` ties the step the queue is at to the view that is current and the tools that are registered; `AppInv` ties
  the two dispatchers and the teardown gate to the phase of the bootstrap. `SurfaceInv` says which generations can be
  alive at each step of a show, a remount or a disposal; `EventInv` that an event still owed to a subscription is in the delivery
  under way.
- *Manifests.* The rules of an accepted manifest, one by one, for any manifest of the shape the validator reads; the three validators of
  surfaces are unfolded to the same conditions, and a list without a repeated URI has as many URIs as
  entries because its index is a bijection.
- *Cluster.* There are processes and sessions only behind a boot that leads to a connection or to its stop; connections are
  those of the servers that became ready until they are closed; a closed listener has no request (`ClusterInv`).
- *Loops.* What a loop of the code computes is written as a recursive function, and `LoopFacts` says what such a function is: its value at
  each step, and that what holds at the start and is kept by a step holds at the end. The induction is by the set of steps it was shown
  for, which needs no operator as a parameter. The theorems about headers, pages, rules and panels rest on it.
- *Headers.* A value is carried by exactly the texts that decode to it, so that what the client writes is accepted and what is accepted
  says the value, or is a number to `Number()` alone, which the property tells apart by a set of texts of its own (`LooseNumerals`); the walk through a schema meets every annotation, each with the path to its argument.
- *Pages.* A path is normalized segment by segment. What does not step out of its directory is normalized below it, by
  induction on its segments, and a normalized path stays as it is; so the URL of a URI leads back to the path of the URI. One that
  steps out may lead to another route or to another directory, but a file is served only from inside a directory, which is shown for any
  path. Every other page comes through the proxy, which is a case analysis of the routes. For initData: a hash the bot gave has the lines of
  data the bot signed, so the line that is in time and the line of the user are lines of that data, whichever fields they were cut into.
- *Rules.* An event is delivered to a panel as often as static rules lead there, which is counted through the filter and the
  flattening of the code; both keep the order of what they keep, which is why panels stand in the order of their calls (`SlotsInv`).
  A port rule adds a panel once, because a step of its loop adds what is not there yet, for any number of rules. A wildcard is a rule of every
  event. That what is valid is routed rests on ids that hide no other panel's tool (`Unshadowed`).
- *Connections and panels.* A case analysis of the answers, a count of what a source lists for a panel, and for the headers the first annotation of
  the walk whose argument is there: none is mirrored, so the platform misses that one (`Understood`).
- *Dashboard page.* For the first document of each frame, `SaidOK` and `HeardOK` say which messages can be under way each way, and in
  which order, in each state of its handshake: the response is ahead of anything else, the result is sent after the document
  confirmed, and the last context under way is the one the page remembers. A document of another origin is outside both,
  and none of its messages is accepted.

Left to TLC is *everything with fairness* (`QueuedServed`, `AnsweredFairly`, `TeardownSettles`, `CompositionSettles`, `PortReleased`,
`ExpiryEndsTask`): reasoning about ENABLED is out of the prover's reach.

Every safety invariant a passing run checks is stated by a theorem. The constants of a theorem are those of the module it is about: where a
model cases over a fixed list of inputs (configurations of the resource server, answers of a connection), the theorem does too.

## 5. Where the code and its documentation disagree

With a run:

1. **A wait after a cancel is not rejected** (`taskstore_aborted_wait`). `task-store.ts:675-677` relies on a listener
   added to a fired `AbortSignal` being called; it is not, and `requireInput()` after `tasks/cancel` waits for
   an answer or the ttl.
2. **Overlapping stops leave a server running** (`app_stop`). Of two overlapping `stop()` calls the one that ends last marks the app
   not started although a restart in between began a server, and every later stop returns at once (`mcp-app.ts:1929`, `:1945`).
   The run is about apps with an auth provider of their own; without one, two overlapping `startHttp()` calls can leak a server too, as each
   awaits the configuration after the check of `started` (`mcp-app.ts:1981-2000`). `RunsWhileStarted` has what holds without overlap.

Met while modelling; the properties are stated for what holds, and the models keep the behaviour:

*Platform.* A middleware that calls `next()` twice skips the stage after it (`runner.ts:42`, against `runner.ts:16-20`). A shared replay store
that drops a reservation at the token's expiry, as its interface asks (`replay-store.ts:16-18`), admits a second retry that was verified just before:
the promise of `:4-6` ends with the expiry, since nobody checks it after `consume()`. The headers of
a call are checked by the definition registered on arrival, its handler is the one registered three awaits later
(`mcp-app.ts:2457`, against `:1278`). A run that settles with requests it did not await leaves them shown in an ended task
(`task-store.ts:302`, against `:286`); a handler that catches the AbortError leaves the task at `input_required`
without a request (`:678`). The sleep strategy can starve a sleeper (`request-queue.ts:88`). A custom `verifyToken` that throws is answered
200 with -32700 (`mcp-app.ts:3490`). A notification of tools/call, without an id, is executed and skips the header check. An empty `Mcp-Param`
header matches the number 0, as do a padded and a hexadecimal one theirs (`request-headers.ts:213`, against `:6-8`); `x-mcp-header` at a schema's root or under
`dependentSchemas` is ignored without a word. An unknown tool is -32602 over HTTP and an InternalError over stdio.
Batches of tools or viewers are registered one by one and stop in the middle; `registerResources` does not. An HTML resource with
a `size` cannot be read once a CSP is injected. On Node.js nobody listens for a client leaving during a response
(`runtime.node.ts:181-191`), so a stream's subscription stays until shutdown; a response whose body fails is never ended (`:201`). A body
that outgrows the limit has its socket destroyed before the 413 is written (`:288`): the status is decided, and seldom seen.

*Authentication.* A withdrawn key is trusted for the time of a fetch, the age of the key set and the lifetime of the token cache together
(`jwt-provider.ts:232`, `:239`, `:267`), which no comment adds up. `MCP_AUTH_PROVIDER=""` switches off the provider of the file (`config.ts:164-167`). Two first fetches of the metadata
at once may leave the older document (`as-metadata-proxy.ts`). Overlapping `verify()` calls can accept one
message twice, or one behind a later one, since the last number is looked at (`message-signer.ts:184`) and moved (`:214`) with an await between. Overlapping OAuth flows under a changed authorization server can bind the tokens of one to the
other; a `tokens()` that read before a save can delete what was saved. A callback server closed by its caller leaves the promise of the code
pending.

*Bridge.* `ui://srv/../other/x` is resolved to a URL that leaves its server, and gets a file of another App (`resource-resolver.ts:34-133`); a URI
may as well reach a page of the application, never a file outside of the Apps. A file asked for with a slash behind its
name is served as binary, without the bridge script (`server.ts:588`). initData whose lines are cut into other fields than the bot's is
valid and may have lost its user (`telegram-auth.ts:106-112`). A page that reconnects gets a session the server does not restore (`bridge.js:446`, `server.ts:390`, against
`bridge/examples/README.md:80`). The late close of a replaced socket removes the entry of its successor (`server.ts:508`). `stop()` and
`start()` of the agent client in quick succession make two connections. Overlapping starts of `BridgeClient` orphan a
socket, a `destroy()` during a start is undone by it, and a restart accumulates handlers.

*View.* A host that asks for a teardown while the bootstrap is running, and is still to be answered when the bootstrap fails, hears nothing: the
`catch` closes the transport the answer needs (`app.ts:206-213`, `viewer-session.ts:111`, against `app.ts:195-196`); a `dispose()` that
closes first does the like. An `onTeardown` callback that calls `dispose()` synchronously enters `run()` a second time
(`lifecycle.ts:142` and `:26`). A navigation that fails after `onLeave` leaves the old view's tools registered until the next
(`router.ts:58`). Awaiting `navigate()` in one's own hook never ends (`router.ts:90`). Two `on()` of one action with one function share an entry
(`compose-events.ts:75`). The runtime takes empty port lists (`components.ts:336`) that the manifest refuses (`app-manifest.ts:321`).

*Compose.* `composeAndServeDashboard()` neither returns nor can be shut down while `xdg-open` runs (`host-dashboard.ts:736-741`), and
`stopAll()` waits for ever on a server that leaves a DELETE unanswered (`cluster.ts:584`). A component id equal to another's tool name hides that
tool from the rules (`resolver.ts:119`). A URL is recognised in a line that has not arrived whole (`cluster.ts:441`). A `startAll()` during the cleanup of a failed one
succeeds with what is being closed (`:293`); a `stopAll()` during a start finds nothing to stop. A frame that
reloads is not sent its results again (`event-bus.ts:501`); a change of tab or theme tells no frame. A reference
that is ambiguous becomes unambiguous when a call fails. The stateless client of compose mirrors no `Mcp-Param-*` header
(`cluster.ts:774`), so the platform refuses its calls of tools that want an argument mirrored (`Understood`). A base URL that ends in `/mcp/mcp`, or has doubled slashes inside, is not brought to one form
(`cluster.ts:939`). A composition of one panel may have a rule to every other panel, whose event reaches nobody. `{{constructor}}` counts as an argument (`template.ts`, `key in args`).

## 6. Not modelled

- *Cryptography, parsing, encoding* (signatures, JWTs, JSON Schema, URLs): functions of their input, taken as verdicts.
- *Schema validation, observability, the inspector, viewer helpers, the `server` alias, the platform adapters of the bridge, the HTML
  renderer of compose*: pure checks, counters, spans, process launching and text; no behaviour above depends on their state.
- *Parts of modelled components*, each named in the note of its component in `PROJECT.json`: CORS and the plain GET endpoints, the Deno
  adapter, the host's side of signing, theme and viewport events, labels and layout, tab switching, overlapping
  calls of a cluster used by hand, argument injection, the texts of responses. The relay of the dashboard page is not kept from the
  methods that `allowsMcpMethod` refuses at once: the model relays more than the code does.
- A sleeper's starvation under the sleep strategy is possible and documented nowhere; nothing is claimed of it.

## 7. Plan

1. The cluster used by hand: `startAll()` and `stopAll()` that meet, as an abstract owner of processes that `Cluster` implements.
2. A page of the bridge with two sessions at the capacity of the store.
