# A TLA+ model of ipfs-website-gateway

The gateway serves websites from IPFS. For each request it asks a portal which
website a domain belongs to, caches the answer, resolves IPNS names, fetches
blocks over bitswap into an on-disk cache, and follows the portal's stream of
change events to keep all of that current. This directory models the parts of it
that keep state and run concurrently, and how they start, work together and stop.
TLC checks each module on a small instance. TLAPS proves, for all instances, every
safety property that the runs check, and that the reconciler implements its abstract
specification.

## 1. Inventory

| Component | Source (`src/internal/`) | State | Operations | Module |
|---|---|---|---|---|
| SSE reconciler | `sitewatch/reconciler.go`, `cache/sse_cursor.go` | connected, ready, running, pending, generation; the stored cursor | OnConnect, run/reconcile, apply, Ready | `Reconciler`, `Replay` |
| Realtime event handler | `cmd/gateway/main.go` | none of its own | invalidate, prewarm | `Reconciler`, `SiteWatch`, `Process` |
| Event client | `event/portal_client.go` | connected | reports, deliveries, Stop | `SiteWatch`, `Process` |
| Broken-site watcher | `sitewatch/broken_watcher.go` | watch set, 404 streaks | MarkBroken, the polling loop, Stop | `BrokenWatcher`, `SiteWatch` |
| Status cache | `cache/status.go`, `cache/status_persistent.go` | LRU, Redis copy, pending set | Get, Set*, IsDomainActive, Invalidate, KeepAlive, revalidate | `StatusCache` |
| Access control | `gateway/gateway.go` | none of its own | CheckAccess, degradedResponse, the middleware's status code | `StatusCache` |
| `/allowed` handler | `server/server.go` | none of its own | certificate decision from the status cache | `StatusCache` |
| Content cache and blockstore | `cache/content.go`, `cache/content_blockstore.go` | files, byte count, LRU | Get, Put, Evict, Clear, start-up, DeleteBlock | `ContentCache` |
| Seed peer worker | `ipfs/node.go` | active, cancel, worker ID, connected flag | ConnectSeedPeer, DisconnectSeedPeer, Close, the worker | `SeedPeer` |
| Prewarmer | `prewarm/prewarm.go` | active set, warmed marks, pool | Submit, SubmitPath, the two walks, ClearWarmed, Stop | `Prewarmer` |
| IPNS name system | `namesys/stale.go`, `namesys/store.go`, `cache/ipns_stale.go` | LRU, Redis copy, pending set, watchers | Resolve, ResolveAsync, revalidate, watchLoop, eviction callback, Stop | `Namesys` |
| Pubsub-first routing | `ipfs/pubsub_routing.go` | channels and goroutines of a search | SearchValue | `PubsubRouting` |
| Health checker | `health/health.go`, `/healthz` in `server/server.go` | last results | three periodic checks | `Health` |
| Configuration search | `config/manager.go` | files | findConfigFile, CreateDefaultConfig | `ConfigSearch` |
| Start-up and shutdown | `cmd/gateway/main.go` | what is started, open and running | runGateway | `Process` |
| Headers, API client, DNSLink, metrics, tracing | see PROJECT.json | none that another part depends on | | not modelled |

**Interactions.** The event stream (an SDK client) reports connects and events.
A connect starts the reconciler, which replays the portal's journal from the
stored cursor. Replayed and realtime events alike invalidate the status cache and
submit roots to the prewarmer. The middleware reads the status cache through
CheckAccess, marks broken sites for the watcher, and submits the visited root to
the prewarmer. The watcher polls while the stream is down; it clears its set when
the stream is up *and* the reconciler is ready. The name system calls the
prewarmer when a name resolves. The content cache tells the prewarmer what it
evicts. Redis holds copies of the status cache, the IPNS store and the cursor.

**What is hard.** Sessions that end while their reconcile run goes on; answers
that were fetched before an invalidation and stored after it; LRU, Redis and the
in-memory marks, which are written in separate steps; degraded mode, which extends
entries while the portal is away; an eviction callback that runs after the entry
is gone; workers that end late; failures in the middle of an operation on the
disk; two routers racing for one result; shutdown while callbacks, pool tasks,
requests and a reconcile run go on submitting work. PROJECT.json lists each as a
hazard at its line with the properties that cover it.

**What makes each part correct.** The reconciler never skips a change and claims
to be ready only when it has caught up. The watcher drops a site as deleted only
on consecutive 404s, and does not lose a recovery. The status cache serves nothing
beyond its TTL plus the stale window, and converges on the portal's state. The
content cache keeps its quota and its count. The seed peer worker can always be
stopped and always notices a drop. The prewarmer walks a root once at a time and
gives it back. The name system converges on the last record. A website that is
active again is served again, whichever of stream, replay and polling notices. A
search delivers what either router has, and leaves no goroutine behind. A graceful
exit ends, loses no walk an event asked for, and closes the node and the Redis client
only after the gateway and the work that the Stop calls wait for; what goes on even
then is listed in section 6.

## 2. Modules and how they correspond to the code

Conventions: one action per locked section, store access or remote call, named
after the function it comes from. Versions, positions and sizes are small numbers;
domains, CIDs and goroutines are model values. Variables marked *history* exist
for the properties only and guard nothing. Operators introduced by "Mutant of X"
are plausible wrong versions of X that no specification uses; each shows that a
property notices the mistake.

- **Reconciler** - `run[g]` is the goroutine `run(g)` with the locals of
  `reconcile`. A disconnect and a reconnect (`OnConnect`) are locked sections; a
  page request, the application of one event and the cursor write are steps of
  their own; `Finish` is the locked section at the end of `run`. `Restart` keeps
  the Redis cursor only. The portal's journal is a growing sequence and `Pages`
  the replies it may give, with a mark that need not advance if `PortalMayStall`.
- **BrokenWatcher** - `pc` walks through `loop`, `poll` and `recover`. Requests
  call `MarkBroken` between any two steps, and the stream and `Ready` change at
  any time. `recover` starts a callback goroutine counted by the WaitGroup. `Stop`
  waits for the loop and then for the callbacks, in two steps.
- **StatusCache** - one domain. A request (`req[r]`) goes through Get, the Redis
  read and insert, the call, the cache write, KeepAlive and the fallback; a
  revalidation (`job[w]`) runs in the pool. `Tick` lowers the time left of every
  copy. An error loses its type in Redis (`Persisted`), because the code stores
  its text.
- **ContentCache** - the holder of the cache's mutex is `op`; its file operations
  are steps, so that a crash falls between them. `DeleteBlock` is one step, between
  operations: it takes another lock, and has no caller in the gateway. Files have a hashed or a legacy flat path.
- **SeedPeer** - worker goroutines in their phases; libp2p's notifications are
  delivered later, to whoever is registered then. Calls of ConnectSeedPeer and
  DisconnectSeedPeer may overlap. `retry.Attempts(0)` never gives up, so that the
  worker's "exhausted retries" branch cannot be reached and is not modelled.
- **Prewarmer** - callers between the locked section and `pool.Do`; tasks with
  their path phase, batch or sequential walk, mark and deferred release; the
  content cache appears as the set of cached blocks and its eviction callback. The
  list of a batch may be any part of the DAG: `walkBatch` skips the CIDs that it
  cannot parse, and the resolver passes on what the network gave it. `owed` is
  *history*: the blocks that the walk answers for, were its root marked now.
- **Namesys** - one key. Requests, revalidations, watchers and the eviction
  callback write the same entry in separate LRU, Redis and map steps. Sub-paths
  are data and left out; freshness is a flag that time clears. `Stop` is three steps
  (cancel, close the pool, wait for its jobs), before, between and after which
  requests may still run: `Server.Start` returns after its graceful timeout with
  requests left.
- **Replay** - what the reconciler promises, without sessions, pages or goroutines:
  changes are done in any order, a saved position never passes one that is not, and
  Ready is a statement about every change older than the connection. `Reconciler`
  implements it (`ImplementsReplay`, with `done` mapped to the replayed changes).
- **SiteWatch** - extends `BrokenWatcher` and composes it with `Replay` (by INSTANCE),
  with the event client between them and with what requests find cached. The client's
  own flag (`connected`) and what it has reported (`told`) are two variables, because
  the watcher asks the one and the reconciler is told the other. A status is an entry of
  `StatusCache` without its times, in the LRU (`lru`) and in Redis (`redis`), which may
  differ. `Invalidate` is two steps, for a change (`ApplyChange`, `FinishChange`) as for
  a recovery: the LRU entry, then the copy in Redis, a failed delete of which is ignored.
  `fill[f]` is a request or revalidation that stores a status: from an answer of the
  portal, from a read of Redis, or by KeepAlive, with steps of the others in between. A
  410 marks the domain whether the cache held `broken` or `ErrGone`. `late` is *history*:
  the status is out of date and the last Invalidate came too early for it or failed.
- **PubsubRouting** - one search per element of `Calls`: the two routers' channels,
  the goroutine that merges them, the one that drains the loser, and the consumer.
- **Health** - extends it with the website check, whose IPNS resolutions are those
  searches, and with the other two checks. The checker library may give up on a
  round that exceeds its timeout (`Abandon`); the round then goes on and reports
  its own metric only. Bound: the next round starts when the goroutines of the last
  one have ended.
- **ConfigSearch** - operators only: which file a search returns and what it leaves
  on a disk whose files are missing, unmakeable, writable or readonly.
- **Process** - `runGateway` as phases, with one variable for what each part is
  doing: handler, reconcile run, watcher and callback, a request, the name system's
  watchers and revalidations, the pool and its walks. Each may submit a walk at any
  time. `Gateway.Close` closes the pool of the name system and waits for its jobs; a
  revalidation may be added until the pool is closed. What a part's own Stop waits for
  is shown in the part's module; here the parts meet.
- **MC\*** - the instances.
- **ReconcilerProofs**, **ProcessProofs**, **SiteWatchProofs** (with `BrokenWatcher`),
  **StatusCacheProofs**, **ContentCacheProofs**, **SeedPeerProofs**, **PrewarmerProofs**,
  **LookupProofs** (`PubsubRouting`, `Health` and `Namesys`) - the proofs (section 5).

## 3. Runs

| Run | Instance | Shows |
|---|---|---|
| `reconciler` | 4 kinds of change, 3 changes, 3 sessions, 2 pages | OneRunAtATime, ReadyMeansCaughtUp, CursorBehindEffects, NoSessionForgotten, EventuallyReady, and the refinement ImplementsReplay, with `TypeOK` |
| `reconciler_gap` | 2 changes, 1 session | **violation**: a failed page is not retried while the session lasts |
| `site_watch` | 1 domain in any state, 1 change, 1 status on its way at a time, deletion after 1 404, restarts | ClearIsJustified, ChangePending, SiteRecovers |
| `status_cache` | 1 request slot (visits and certificate questions), 2 job slots, 2 site states, 3 kinds of failure, Redis writes and deletes that may fail, TTLs of 1 tick, 2 versions | BoundedStaleness, CertificateWithinTtl, Converges |
| `status_cache_invalidate` | 1 request slot, 2 versions | **violation**: an answer fetched before Invalidate is stored after it |
| `broken_watcher` | 2 domains in any state, 2 confirmations | DeletionConfirmed, StoppedIsQuiet, StopReturns, Recovers |
| `content_cache` | 4 blocks of 1 to 3 bytes, quota 2, LRU 1, a legacy file, failing disk | Accounting, TrackedOnDisk, RefusesOnlyTooLarge |
| `seed_peer` | 2 workers, 1 caller, 2 connections, 2 late notifications | NoOrphan, FlagHasOwner, TokenIsCurrent, Reconnects, DisconnectReturns |
| `prewarmer` | 3 blocks, of which one root links to the other and to a leaf, every list of them, 2 tasks | OneWalkPerRoot, MarkedWalkCovers, Released |
| `namesys` | 2 records, 1 request slot, 1 job slot, 1 watcher, Redis that may fail, Stop at any time | RegisteredWatcherLives, Converges, StopEndsWatchers |
| `health` | 2 websites, one of them with an IPNS search of 1 record per router | SearchDelivers, SearchEnds, RoundAgrees, RoundEnds |
| `process` | 3 search paths in every state, 2 walks | QuietBeforeClose, EventsAreAccepted, ClosedLast, ConfigStable, SignalExits |

Of the type invariants only `TypeOK` of `Reconciler`, which includes the cap of pages
per run, is a property of a run. `Process` and the proof modules state the others, which
the proofs rest on.

**Why the bounds are enough.** Three sessions are what it takes for a run to
outlive its session while another one is queued, and to be followed by a third.
Three changes, one a page, exceed the cap of two pages. Two versions are enough for
an old answer to meet a newer one, and in `status_cache` two job slots for a second
revalidation to be possible. One request slot is reused without limit, so that jobs and invalidations
started by earlier requests meet later ones. TTLs of one tick reach all of fresh,
stale and too old. A Redis read that fails is, for its request, an entry that is not
there, and an unauthorized answer takes the path of a gone one: neither is in the
instance. Quota 2 with an LRU of 1 makes the LRU forget files the quota still counts,
which is what the fallback to the disk is for. Two nested roots are the smallest DAG
in which one walk can trust the mark of another; with the leaf beside them, a list can
leave out a root, a leaf or both. In `namesys` one watcher goroutine exists at a time,
and one revalidation: a new one starts when the last has ended. The proofs show that a
second revalidation cannot run beside the first whatever the number of slots; the effect
of two watchers at once is described in section 6. In `site_watch` the website begins in
any state, so that one change is a publication or a removal; it may break without one.
That change is applied by the stream, by the replay or by both, beside a restart, a
reconnect, a recovery and the one status in flight, whose slot is reused without limit;
what several changes and several statuses do is left to the proofs. Domains meet only in
the round of polls, which `broken_watcher` checks with two. In `health` one record
per router is enough for both to have something to offer at once, and one website
with a search beside one without makes rounds end in every order. In `process` two
walks let one be queued while another runs; the proofs cover every number.

**Deadlock** is checked in every run; no configuration turns it off.

## 4. Fairness

- Goroutines run: weak fairness of the steps of runs, jobs, tasks, workers,
  callbacks and requests. Remote calls end because the code gives each a timeout.
- `SF(LoopExit)`, `SF(WatchDone)`, `SF(WatcherExits)`: Go's `select` picks at random
  among ready cases, so that a done channel that stays ready is taken some time.
- `SF(Tick)`, `SF(Expire)`: time passes whatever else happens.
- `SF(DialOk)`, `SF(JobResolve)`: a call repeated without limit succeeds some
  time. For `Reconnects` this says that the seed peer is not gone for good.
- In `Process` a handler, a callback, a poll, a walk and a revalidation end because
  what they call has a timeout, and runGateway goes on. Requests need not end (the
  client may be slow) and neither need the reconcile run, whose context no signal
  cancels: `SignalExits` holds without them.
- In `Health` every context has a deadline, and a router closes its channel once the
  context is done; before that it may stay silent for ever.
- In `Namesys` requests keep coming until Stop (`WF` of `Begin` while the phase is
  `up`); that requests arrive or end later is possible, not assumed.
- In `SiteWatch` visitors keep coming (`ServeBroken`, `Mark`), and what is being applied
  is finished. Nothing forces a status to expire or a request to store one.
- Nothing is assumed of the portal coming back (`Converges` has it as a hypothesis),
  of pubsub delivering a record, or of the stream coming back: `SiteRecovers` covers
  a stream that stays down as well as one that stays up and reconciled.

## 5. Proofs

Every safety property of the passing runs is proved for all values of the constants. For each
component the proof modules state one inductive invariant, of the types, the properties
and what these need to be inductive, have a lemma per action or group of actions, and
end with the theorems. No proof uses fairness.

**ReconcilerProofs** proves, for every journal length, page cap, number of sessions
and set of change kinds, with or without Redis:

- `TypeCorrect`: types, and no run handles a page beyond the cap;
- `RunsAreSerialized`: at most one run exists and `running` says so;
- `CursorNeverSkips`: the cursor never passes an unapplied change, whatever the
  portal pages, fails or truncates, wherever the process stops;
- `SessionsAreRemembered`: a connected session that is not ready has failed, is
  being reconciled, or is queued;
- `ReadyIsCaughtUp`: Ready implies that every change journaled before the session
  was applied, provided truncated pages advance the mark (`~PortalMayStall`).

The assumptions are those of the module: the bounds are natural numbers, the kinds
are known, the flags are Booleans.

The argument is one inductive invariant, `IndInv`. The properties are not
inductive by themselves: that the cursor is behind the effects needs to know that
the run that stores it has applied everything up to there, and that Ready is
justified needs to know what the current session's run has seen. `RunKnows(g)`
says both: a live run belongs to no later session than the current one; everything
up to its `after`, and in the middle of a page up to its `applied`, has been
applied; and for the current session a page that is not truncated reaches the mark
at which the session began, while a truncated one advances. `pending => running`
and `mark <= Len(journal)` complete it. There is one lemma per conjunct
(`TypeStep`, `OneRunStep`, `CursorStep`, `SessionStep`, `KnowsStep`, `ReadyStep`)
with a case per action, and `Invariance` puts them together. `Grows` and
`CaughtUpStays` say that the journal and the effects only grow.

It also proves `ReconcilerImplementsReplay`: under the refinement
mapping of `Reconciler` (the journal's length, the replayed changes, the cursor, the
two flags and the mark) the initial states map to the initial state, and every step,
taken where `IndInv` holds, is a step of `Replay` or leaves its variables alone. The
invariant is needed for two actions: storing the cursor is a `Save` because
everything up to it has been applied, and the end of a run is a `BecomeReady` because
the session's mark has been reached; the latter needs `~PortalMayStall`. `SiteWatch`
can therefore use `Replay` in the reconciler's place.

**ProcessProofs** proves, for every number of walks the pool may hold, every list of
search paths and every disk:

- `TypesHold`;
- `QuietWhenClosed`: after a signal the node is closed only when the walks, the event
  handler, the watcher with its callbacks and the revalidations have ended;
- `NoEventRefused`: the pool never refuses a walk that an event or a recovered
  website asks for;
- `UsersCloseFirst`: on every exit, failed starts and server errors included, the
  gateway and its revalidations end before the node and the Redis client;
- `SameConfig`: every start that finds a config file finds the one of the start
  before.

The inductive invariant is `ProcessInv`. To know that nothing runs when the node is
closed one must know what each Stop call has ended and that it stays ended: past the
stream's Stop no handler can start (`StreamEnds`), past the watcher's none of its
goroutines is left (`WatcherEnds`), and a pool that refuses implies that both are
over (`PoolEnds`), which is also why no event is refused. `GracefulAfterSignal` ties
the phases to the signal, `OpenInOrder` says that what is open is a prefix of redis,
node, gateway, and `NamesNeedGateway` that a revalidation needs the gateway.
`ConfigIsFound` says that the files found so far are what a search would find now; it
rests on two lemmas about the search, `OneReturn` (at most one path ends it) and
`SearchIsStable` (creating the default file does not change where it ends).

The assumptions are those of the modules: the bounds are natural numbers, the search
paths are a sequence, and the value for "no file" is not one of its positions.

**SiteWatchProofs** proves, for any set of domains and any number of changes:

- `ClearsAreJustified`: the watch set is cleared only after every change older than the
  session the watcher asked about has been applied;
- `ChangesArePending`: a status that is out of date, in the LRU or in Redis, broken
  although the website is active or active although it is removed, has a change on its
  way, unless the last Invalidate came too early for it or failed in Redis (`late`);
- `StopLeavesNothing`, of `BrokenWatcher` alone: when Stop has returned neither the loop
  nor a callback is running, because callbacks are waited for second;
- `DeletionsAreConfirmed`, of `BrokenWatcher` alone: a domain is dropped as deleted only
  after `DeletedConfirmCount` 404s in a row; `ComposedDeletionsAreConfirmed` says the
  same of the watcher in `SiteWatch`, where requests, reconnects and restarts surround it.

`SiteWatchInv` adds what the reconciler promises (`ReadyIsReplayed`; `ReconcilerProofs`
shows that it keeps the promise) and says of each place where a status may be what has
yet to reach it. Invalidate removes the LRU entry first: an outdated one there, or one on
its way into the cache, has a change of which neither step has been taken (`LruAhead`,
`FillAhead`), without which nothing could be said about the moment it is stored; for a
copy in Redis the second step is enough (`RedisPending`). For the watcher, `CountedIsMet` bounds the count of
a domain by the 404s really met, with the two places where the two differ by a step,
and `BelowThreshold` says that a count at the threshold is acted upon at once. The
assumption is that the threshold is positive.

**StatusCacheProofs** proves, for all TTLs, any number of requests, jobs and versions,
and every set of failures:

- `StalenessIsBounded` and `CertificatesRespectTheTtl`, the two action properties about
  the age of what the cache answers;
- `RevalidationIsExclusive`: the domain is pending exactly while one job revalidates it
  (an invariant no run lists).

The age of an entry is history, and the code compares only the time it has left; so the
invariant carries, for every copy of an entry wherever it is (LRU, Redis, the locals of
a request or job), that age and time left add up to at most the TTL of its value, that
degraded mode re-armed it, or that it has left the stale window (`AgeKnown`). An entry
read from Redis gets the time left there, so that one must also know that Redis holds
nothing expired (`StoresOK`) and that no time passes between the read and the insert
(`ReqOK`, for which `Tick` waits; the code does the two in a row).

**ContentCacheProofs** proves, for any CIDs and block sizes, any quotas and capacity of
the LRU, any legacy files and a disk that may fail at every step:

- `CountIsExact`: between operations the byte count is the sum of the files' sizes and
  within the quota, until a file operation fails or a flat file is replaced;
- `TrackedHasFile`: a tracked CID has a file, unless a Clear failed half-way;
- `RefusalsAreJustified`: Put refuses only a block larger than the whole cache, unless
  the disk failed it.

The sum is a fold, and what it returns for every function needs an induction over finite
sets. The library's induction theorems take the statement as a parameter, which the
provers cannot instantiate; instead, `Smallest` says that a nonempty set of
counterexamples has a smallest one (strict inclusion is well-founded on the subsets of a
finite set), and from it follow that the table of partial sums exists and is unique
(`TableExists`, `TablesAgree`), that a sum does not depend on the order of the elements
(`SumRemove`), and so what removing or writing one file does to it (`RemovedFile`,
`WrittenFile`). `Removed`, `RemovedOldest`, `Added` and `Walked` do the same for the LRU.

`CacheInv` holds in every state, also between the steps of an operation. `TrackedOnce`
is needed because a CID tracked twice would stay tracked after its file is gone.
`AlwaysOnDisk` adds that the walk over the disk starts with an empty LRU, since it
removes files without telling the LRU, and that Get has read what it touches. `Counted`
is the count at every moment. For a refusal one must know what an eviction has still to
free (`FreesTheRest`: what the block exceeds the room by, and the Put replaces nothing,
because a replacement of the same size always has room), so that an empty disk means
that the block itself is too large. `WritesWithinQuota` carries the room found, and the
size of the file to be replaced, to the write. The assumptions are the module's: no
block is empty, quotas and capacity are positive, and the legacy files finitely many.

**SeedPeerProofs** proves `WorkersCanBeStopped`, `FlagIsOwned` and `NoSignalLeaks` for
any number of workers, overlapping calls, connections and late notifications.
`CancelIsCurrent` ties the active flag, the cancel function and the stored ID together:
this is what makes the comparison at the end of a worker clear its own entry or nobody's.
`HeldUntilCancel` says how long a call may hold a cancel function it took under the
lock. `RegisteredInRound` and `SignalInRound` follow the channel, the `sync.Once` and
the registration through a round.

**PrewarmerProofs** proves, for every DAG and any number of callers and tasks:

- `RootsAreWalkedOnce`: from `OneHolder` (a root is with one call or one task) and
  `ActiveIsHeld` (the active set is the set of the roots held);
- `MarkedWalksCover`: when a walk marks its root, whatever it was listed (batch) or could
  reach (sequential walk) is cached, but for the blocks whose fetch failed, or that were
  removed under it; from `WalkCovers`, which says for both kinds of walk that what is
  owed and not cached is still ahead of it (`Ahead`). That the DAG is complete is not
  said: a partial list earns the mark as well (section 6).

The assumption on the DAG is the module's: `Reach` is closed under the children.

**LookupProofs** proves `SearchesDeliver` and `RoundsAgree` for any number of websites
and records. The merge gives up when both channels are nil: `NilIsClosed` and
`ClosedIsEmpty` say that a nil channel was closed and a closed one was empty.
`FinishedAgrees`, `IdleIsQuiet` and `StatusFollows` follow the three places where a round
reports: the metric of each goroutine, the failures and the library's status, which
differ while the round runs and when the library has given up on it.

Of the name system it proves `WatchersOnTheMapLive` for any number of watchers at once,
which the run cannot afford: a watcher that ends may delete another's entry by mistake,
yet never leaves its own on the map. `CleanSlots` says that an ended goroutine's
cancellation is not inherited. `NameRevalidationIsExclusive`: at most one job revalidates
the key, which is then pending, and a key that is pending without one was submitted to
the closed pool, in a process that is about to end.

**Only model-checked.** The liveness properties, because the prover handles neither
fairness nor ENABLED.

## 6. Where the code and its documents differ

Shown by a run and listed as findings:

1. `reconciler.go:54` "a gap cannot lose a deployment": one failed page ends the
   session's only run (`reconciler_gap`).
2. `status.go:90` "forcing the next request to revalidate": an answer on its way
   during the Invalidate is stored after it (`status_cache_invalidate`).

Found while modelling. Unless it says otherwise the models contain the behaviour; no
run is about it:

- A truncated page that does not advance ends the run as a success, and Ready
  follows (`PortalMayStall` set, ReadyMeansCaughtUp fails).
- CheckAccess reads the cache in KeepAlive and writes it in SetErrorShortTTL: an
  error can replace a response that another request cached in between. On a
  deadline, KeepAlive re-arms an unserviceable entry, and the next request is
  answered from it rather than by the portal.
- An error read back from Redis is untyped: a removed website answers 404 then, where
  the project's README says "410 Gone". `Converges` allows both codes.
- `/allowed` answers 503 to a question whose portal call is canceled or times out,
  while the comment above the handler says "Always returns 400 on failure".
- The watcher decides to clear its set before it takes the lock: a domain marked
  after a disconnect in between is forgotten. `ClearIsJustified` and `SiteRecovers`
  say what holds nevertheless.
- A status whose fetch, or whose read from Redis, crossed the change that should have
  invalidated it, and one whose delete in Redis failed (`status.go:95` ignores the
  error), stay until they expire or a poll of the watcher ends them (`late` in
  `SiteWatch`): `ChangePending` exempts them, and so does `SiteRecovers` while the stream
  is up, but not while it is down.
- Put leaves the legacy flat file of a block it stores and subtracts its size. It can
  evict the file it replaces and subtract its size twice, after a restart with a
  smaller quota, or when a crash or a failed write has left that file truncated
  (`content.go:249-266`; `sound`, the condition of `Accounting`, excludes both). A write
  that does not complete leaves a file that Get serves.
- `content.go:29` says "mu protects concurrent access to cache state", and DeleteBlock
  does not take it: beside a Put an update of the byte count would be lost. Nothing in
  the gateway calls DeleteBlock, and the model runs it on its own.
- A warmed mark is set after partial walks: failed blocks are counted and left out, and a
  list that is partial, or has CIDs that do not parse (`prewarm.go:325-334`,
  `dag_resolver.go:58-64`), counts as complete. It survives the eviction of blocks below
  the root. And when the root is evicted during its walk, `ClearWarmed` may run before
  the walk stores the mark (`prewarm.go:141` and `258`), which then stands for a root
  that is gone and keeps requests from submitting it, until an event does or the root is
  evicted once more, although `prewarm.go:466-468` says "the next request to that site
  triggers a fresh prewarm walk". `MarkedWalkCovers` says what a walk that marks its
  root has done.
- If ConnectSeedPeer overlaps DisconnectSeedPeer, the old worker's last
  `Store(false)` can hide the new worker's connection, and the Wait of the first
  call waits for the new worker too. No caller in the gateway overlaps them.
- A watcher of a name that ends compares and deletes its map entry in two steps. One
  that is registered in between disappears from the map and goes on, beside a third
  (not in the instance, which has one watcher at a time; `WatchersOnTheMapLive` holds
  nevertheless, for any number).
- The merge of a search takes the first record of either router: an older record of
  the one can win over a newer record of the other.
- A round of the health check that exceeds its timeout is reported as down and goes
  on beside the next one (bounded away), and Stop of the checker does not wait for it.
- A failed start and a server error return without the Stop calls: the watcher, the
  stream and the walks go on while the node and the Redis client are closed.
  `QuietBeforeClose` is about exits that follow a signal.
- During a graceful exit the reconcile run goes on: a walk it submits to the stopped
  pool is refused and its cursor advances all the same, so that the next start does
  not replay it. Requests and the name system may be refused as well.
- A request that outlives the graceful timeout of the server may submit a revalidation to
  the stopped pool of the name system: the job never runs and the key stays pending,
  without harm in a process that ends.
- An entry that is evicted from the IPNS store and cached again before the eviction
  callback runs keeps no watcher: the callback cancels the one it found on the map
  (`stale.go:99`). Until a later result starts one, the entry lives by its expiry.
- The name system's Stop cancels its watchers and waits only for revalidations, and
  nothing calls Close of the status cache, so that its revalidations may run when the
  Redis client has been closed.
- The config search creates a file at the first path where there is none, even if a
  later path has one, and gives up if it cannot, where the project's README says
  "first writable directory".

## 7. Not modelled

Metrics, tracing and logging only observe. Header selection, page rendering, host
validation, the DNSLink check and the API client are stateless. Decoding and
validation of the configuration are per field, and the result is read once, before
anything runs beside it. libp2p, bitswap, boxo, golang-lru, the worker pools, the
health checker library, Redis and the portal are external: their effect on the code's
state is modelled from how the code uses them. Several domains in one status cache,
or several keys in one IPNS store, interact only by pushing each other out of the
LRU, which is the action `Evict`.

## 8. Plan

Done: the modules above, the refinement of `Replay` by `Reconciler`, and the proofs of
section 5. Next, in this order:

1. Prewarmer composed with ContentCache (the eviction callback under the lock).
2. Namesys with two watchers at once in a run.
