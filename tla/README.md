# Fork Tales: a verification project

This directory holds TLA+ models of the Fork Tales runtime ("eta-mu", Part 64), the
TLC runs that check them on small instances and the theorems that TLAPS proves
about them. Every definition is translated from the source under `src/`;
`PROJECT.json` names the lines of each.

## 1. The system

Part 64 is a world simulation with a browser front end. One Python process
(`part64/code/world_web`) serves HTTP and WebSocket clients, builds catalogs of
files and presences, and steps a particle field. Around it run a Node crawler, a
native C engine, optional worker processes for simulation budgets, and Redis.

| Component | State it keeps | Operations | Talks to |
|---|---|---|---|
| Web graph weaver (`web_graph_weaver.js`) | frontier, URL graph, in-flight set, per-host delay and count, robots cache, opt-outs, entities | start, pause, resume, stop, opt-out, interactions, 120 ms tick, fetches | the web, the Python server by HTTP |
| C engine (`native/c_double_buffer_sim.c`, `c_double_buffer_backend.py`) | double-buffered arrays, four threads, a handle with a lock | create, start, stop, destroy, snapshot, field updates | Python by ctypes |
| Simulation slice offload (`sim_slice_bridge.py`, `sim_slice_budget_worker*.c`) | latest budget snapshot, pending job, Redis stream and reply keys | submit, poll, reply, fall back | Redis or a Unix socket |
| Presence runtime (`presence_runtime.py`) | leases, presence variables, particles with owner and version | lease, compare-and-set, upsert, hand over | Redis, other server instances |
| Docker snapshot cache (`docker_runtime.py`) | cached payload, refresh flag, condition variable | collect, wait, refresh | the Docker socket |
| Tick governor (`governor.py`) | filler queue, prices, last receipts | tick, enqueue, drain | the simulation loop |
| Server (`server.py`) | the catalog with its inbox, HTTP response caches, build locks, jobs | serve, refresh, sync, build, bootstrap | almost everything |
| Simulation (`simulation*.py`, `particle_*.py`) | particle field | step | the server, the C engine |
| LLM proxy (`docker-llm-proxy`) | credentials with counters, cooldowns, cycles and session bindings | acquire, call, cool, rotate, release | providers of language models |
| Agent runtime (`agent_runtime.py`), meta operations (`meta_ops.py`), resource economy, GitHub presence, embeddings bench | claims, ledgers, wallets, crawl state | | files, GPUs, GitHub |
| Front end (`part64/frontend`) | socket state, world snapshot | connect, retry, merge | the server's WebSocket |

What is hard here is the same in each part: state is read, something else runs
(an await, another thread, another process), and the state is used as if nothing
had. `PROJECT.json` lists each such place under "hazards", with its line.

## 2. The modules

Order of work: the crawler, whose documented duties depend on interleavings; the
C engine; the presence runtime; the slice offload; the proxy's key rotation; the
server's catalog and its builds with the Docker snapshot. What may follow is in
section 12.

| Module | Models | Checked by | Proved in |
|---|---|---|---|
| `WebGraphWeaver` | the crawl scheduler | `MCWebGraphWeaver`, `Weaver*.cfg` | `WebGraphWeaver_proofs` |
| `CDBEngine` | the C engine's threads and buffers | `MCCDBEngine`, `CDB*.cfg` | `CDBEngine_proofs` |
| `ParticleRegistry` | abstract: who owns a particle, who writes it, who is told | as `RegistrySpec` of `PresenceRuntime` | refined in `PresenceRuntime_proofs` |
| `PresenceRuntime` | `sync` of several servers over Redis | `MCPresenceRuntime`, `Presence*.cfg` | `PresenceRuntime_proofs` |
| `SimSlice` | the bridge thread, its double buffer, the Redis exchange, the C worker | itself, `SimSlice.cfg` | `SimSlice_proofs` |
| `KeyPool` | abstract: keys lent to requests, to so many at a time and to none twice | as `LendsAsPromised` of `KeyRotation` | refined in `KeyRotation_safety` |
| `KeyRotation` | requests of the LLM proxy that take, cool, rotate and release keys | `MCKeyRotation`, `KeyRotation*.cfg` | `KeyRotation_proofs`, `KeyRotation_safety` |
| `RuntimeCatalog` | the server's catalog, its refresh and its inbox | itself, `RuntimeCatalog.cfg` | `RuntimeCatalog_proofs` |
| `DockerSnapshot` | the single-flight read of the containers | composed into `SimulationHttp` | implemented in `SimulationHttp_proofs` |
| `SimulationHttp` | GET /api/simulation: caches, pause, build lock, and the snapshot the builder takes | itself, `SimulationHttp.cfg` | `SimulationHttp_proofs` |

Definitions whose comment begins with "Faulty" are variants of the definition
that follows them, each with one plausible mistake. No specification uses them:
putting one in the place of its definition makes TLC report the property that
guards against the mistake, which shows that the property can fail.

## 3. The crawl scheduler (`WebGraphWeaver`)

**State.** `frontier`, `inFlight`, `robots`, `optOut`, `apiActive`/`apiWait` and
`active`/`hostWait`/`backoff` are `FrontierQueue`, `inFlightUrls`, `RobotsCache`,
`optOutDomains`, `arxivApiState` and `domainState`. `nodes`, `status` and
`cooldown` are the URL nodes of `GraphStore`. A worker slot has a phase `pc`, an
`item` and, while it waits for the network, the time `left` until its
`AbortController` fires.

**Steps.** JavaScript runs one callback at a time, so a step is the code between
two awaits. `ticking` marks that `tick()` is on the stack. A continuation of a
resolved promise is a microtask: it runs before any timer, response or request
from a client, which is the conjunct `Quiet` of those. Microtasks run in any order
here; the code's order is one of them.

**Time.** Every clock value is kept as what remains of it, in units of the host
delay; `Elapse` takes one unit from all of them, but not past the moment a fetch
is aborted. In this form no clock has to be bounded.

**Abstracted.** The frontier's order: any ready item may be popped, where the code
prefers the oldest, then the highest score (partly random). Page contents: a
constant web gives the links, the mentions (nodes that are created but not
enqueued) and the redirects of each URL; whether a page repeats known content is
a free choice. The potential of a node: an interaction reaches the threshold or
it does not, and the node's depth is any depth a node can have. Terminal statuses
are one status, `settled`. The content-hash index, LLM analysis, entity movement,
pruning of `domainState` above 4000 hosts, event log and snapshot files are left
out.

**Runs.** `WeaverPages` has two slots, two pages of one host linking to each other
and two sets of limits, of which one makes the node limit bite; all control
calls may come at any moment. `WeaverSearch` has two arXiv searches on one host
that admits both, so that only `arxivApiState` keeps them apart, and checks under
`FairSpec` that slots return. Two slots are enough for every interleaving hazard listed,
each of which needs one other actor; the timers are 1 or 2 units, so that every
comparison of a timer with zero, and of the cooldown with the timeout, goes both
ways. Worker slots are interchangeable, hence the symmetry in `WeaverPages`.

**What holds.** The per-host counters, the in-flight set and the status
"fetching" are exact on every exit path and across `stop()`; the arXiv API has one
connection; a URL is cooling down for longer than its fetch can last, which is why
`stop()` followed by `start()` does not fetch a URL twice although `stop()` empties
the in-flight set; a slot comes back even if no server ever answers.

**What does not hold.** `_processItem` checks opt-out, host limit and crawl delay,
awaits `robots.txt`, and then starts the request without looking again. `WeaverCrawlDelay`
shows the consequence for the delay, against the guardrail C-69 of
`part64/world_state/constraints.md`. The same gap lets the host's limit be exceeded
and a host that has opted out meanwhile be fetched, and a redirect can lead to a page
that the rules held for its host forbid; the model has these behaviours, and they
are listed as hazards without a run each.

**Fairness.** The event loop runs what is due: weak fairness for the tick in
progress and for microtasks; strong fairness for the passing of time and for due
abort timers, because other callbacks may come between. No server is assumed to answer.

## 4. The C engine (`CDBEngine`)

**State and steps.** Each atomic load or store of a `readable` index is a step. A
thread's pass is the interval between its last load and its first flip: in it the
slots it loaded (`held`) are being read, and the slots `wslot` of its own buffers
written. `call` is the API call under way; the handle's lock admits one. `made`
and `joined` follow the threads through start, a failing start, stop and destroy.

**Abstracted.** The numbers, the quadtree, the force workers (forked and joined inside a
pass), the frame counters, and the order of memory operations weaker than the
acquire/release pairs the code uses on the indices.

**Runs.** `CDBPairs` has the two systems that own two buffers each, so that both
conflicts within a pair and across pairs occur; a slot conflict needs one reader
and one writer. It also checks, under `FairSpec`, that an ending engine ends.
`CDBSharedSlot` is the violation.

**What holds.** A pass never writes a slot that a newly arriving reader would be
given, although two buffers share one computed index; no thread outlives the
engine, even when only some threads could be created; stopping ends.

**What does not hold.** A reader that is slower than its owner's next pass reads a
slot being written, and a snapshot taken between the two flips of `integrate` mixes
two passes: `CDBSharedSlot` shows the first; the code's comments promise nothing about
the second.

**Fairness.** Weak fairness of each thread (the operating system runs it) and of the
API call under way.

## 5. The presence runtime (`PresenceRuntime`, `ParticleRegistry`)

**State.** `lease`, `owner`, `content`, `members`, `inbox` are the Redis keys
`p:{pid}:lease`, `d:{id}:state` (its owner and its other fields), `p:{pid}:particles` and
`p:{pid}:inbox`. `paused` and `print` are the process's `_presence_paused` and
`_particle_fingerprint`. A thread carries the locals of one `sync`: the presences
left (`todo`), the leases got (`active`), the rows of the current presence.

**Steps.** Redis runs a Lua script without interruption, so each script is one step
and everything between two of them can be interleaved. `Raise` is a call that
fails, `LoseReply` one that fails after its script has run; both end the sync where
the code's exception would. `Crash` and `Restart` lose the process's memory and keep
Redis. `Elapse` lets leases run down.

**Abstracted.** Versions are compared for equality only and never return to an old value, so
the model keeps whether the version a sync read is still current (`fresh`). The contents of variables
and of inbox entries are left out, and a particle's fields are one position. The
in-memory storage has the same operations for one process and is not modelled apart.

**Runs.** `PresenceLeases`: a process pauses, takes over, expires, crashes; two
processes of one thread, a lease of two units (so that a renewal can come before,
at and after half its time), one particle with two positions. `PresenceParticles`:
two presences and one particle in one process with two threads, so that both
hand-overs, the conflict and its retry, and every failure between two scripts
occur; it also checks the refinement. With one particle the limit `MaxWrites` cuts off
nothing in the runs: the theorems hold for any value of it.

**What holds.** A lease is its taker's for the time granted; a paused presence is taken over
when the other process is gone; the index and the owner fields agree; a particle
whose state is not its owner's is in the owner's inbox; the storage implements
`ParticleRegistry`. `DedupeSound`, that a row dropped as unchanged is in Redis, is
checked only for one thread per process and with no reply lost: the code promises
neither, and both are listed as hazards.

**What is not promised.** A sync does not look at its lease again, so it can still
write when another process has been granted the presence; and the version
compared is read after the wallet was, so the comparison protects nothing the
simulation has computed from. Both are hazards, and `RegistrySpec` shows what the
particles keep in spite of them.

**Fairness.** Weak fairness of `Begin` and `Sync` (simulations are built again and again, calls
return), strong fairness of `Lease` (Redis does not fail every call) and weak
fairness of time. Crashes and restarts are never required.

## 6. The slice offload (`SimSlice`)

**State and steps.** A caller's `submit` is the store under `_request_lock` and the setting of
the event outside it; `latest` is the load of the index and the load of the slot. The
bridge waits, takes the request, clears the event, asks, writes the inactive slot and
flips. Asking is `XADD`, polling for the reply key, deleting it; each may fail or time
out and then the fallback answers. The C worker connects, reads from its last
id, blocks, takes a job, replies; it may lose its connection, or restart, when its
last id is `$` again. With `SIM_SLICE_ASYNC` off, the callers ask themselves.

**Abstracted.** A request is its number, an answer is the number of its request; budgets,
the ages of snapshots and the difference between a reply and the fallback are not told
apart. The Unix-socket mode replaces the Redis exchange by one blocking call.

**Run.** `SimSlice` has two callers and three requests: the bridge can publish twice
between the two loads of a reader, which is what a double buffer has to withstand,
and a newer request can overwrite one that waits.

**What holds.** No request left in the mailbox is overlooked although the event is set
outside the lock; a reader does not get an answer older than the one published
when it began; every request is answered by itself or by a newer one, even without
a worker; the worker takes no job twice. The jobs added while the worker is
restarting are skipped, which the fallback covers.

**Fairness.** Threads run and Redis calls return or time out; of the worker nothing is
assumed.

## 7. The proxy's key rotation (`KeyRotation`, `KeyPool`)

**State.** `configured` is the provider's list in `all_credentials`; `inUse`, `cooling`,
`lockout`, `count` and `window` are `models_in_use`, `model_cooldowns`,
`key_cooldown_until`, `request_count` and the model's window; `exhausted` is the fair
cycle's data; `paused` is the `CooldownManager`; `affinity` the sessions' bindings. A
request has a `pc`, the `key` it holds and its locals: the keys it was given (`creds`),
those it has tried, the preferred one, the attempt, what is `left` of its deadline.

**Steps.** The proxy is one asyncio loop. A free lock does not suspend its taker, so a step
is the code between two suspensions: the call of the provider, a sleep, a wait for a
condition. `Loop` is the head of the retry loop and runs in the same turn as what
precedes it, so nothing comes between. `Take`, `Queue`, `NoneEligible` and `OutOfTime`
are the ways out of one turn of `acquire_key`; `Release` also wakes who waits for
the key. A streamed request hands its key to the generator (`Connect`), which gives it back
at its end, at an error, at a disconnection, or when the loop closes a generator
its consumer has dropped (`Abandon`, then `Close`).

**Abstracted.** Within a level any key may be chosen: usage counts, weighted choice and
sequential order only prefer one. Streamed and plain calls share one set of failures.
A window that is over is reset when it ends, where the code does so when
it next looks. An outcome of the provider is a choice among the classes the error
handler tells apart. Left out: priority multipliers, cycles across tiers and their
expiry, the usage file and its reload, tokens and costs. A request is answered once; an
error in the middle of a stream is tried again as before it began.

**Runs.** `KeyRotation`: two requests of one session, one streamed, two keys of which one is
removed and added, one slot per key, fair cycle on, cooldowns of 1 and 3 and a
deadline of 2, so that a cooldown can end before the deadline or not. Two requests are
enough for a key to be busy, wanted, bound, removed and released by the other.
`KeyRotationCap` is the violation.

**What holds.** The counters are exact on every way out; the limit is kept; a session is never sent to a
key the request was not given, even if the key was removed while another request was about to bind it;
a request that sleeps or fails beside a free key does so only because the fair cycle still
owes another, warm but busy key its turn (`NotStarved`); keys are lent as `KeyPool` says; every request ends.

**What does not hold.** The success that reaches a custom cap sets the key's cooldown and,
some lines further, deletes it: `KeyRotationCap`, against the code's own comment and the
documentation.

**Fairness.** The loop runs what is ready, time passes, and calls are answered or time out
(the HTTP client has timeouts). No answer is assumed to be a success.

## 8. The catalog (`RuntimeCatalog`)

**State and steps.** `kind`, `inbox`, `expired`, `snapshot` and `due` are the entries of
`_RUNTIME_CATALOG_CACHE`; a step is what the code does under one holding of
`_RUNTIME_CATALOG_CACHE_LOCK`. Requests go through `_runtime_catalog_base`; the refresh and the
sync are one thread each, guarded by locks that are tried and not waited for; the endpoint
`/api/eta-mu/sync` and the bootstrap sync in their own threads (`asker`), beside the sync thread.

**Abstracted.** The catalog is its kind and the inbox it shows, the inbox the number of documents
dropped. An empty snapshot and none are the same. Collecting in a process and in the request
itself are one step that succeeds or fails. The threads can always be started.

**Run.** Two requests, one document, and one fault (a failure or a reset): two requests are what the
double check is for; one document tells an old inbox from a new one; one fault
brings a fallback, or a request that collects while a bootstrap forgets.

**What holds.** Collections are not repeated without a reason. Writers do overwrite what is newer: a refresh stores
the snapshot it read before it collected, a fallback replaces a full catalog, a sync asked for while a
refresh runs is dropped. `CatchesUp` says that none of this lasts: once documents and failures stop
and requests do not, the catalog is full and shows the inbox as it is.

**Fairness.** Threads go on, the cache and the pause between syncs run out, and requests keep coming,
because the page polls and the WebSocket loop asks at every turn. The collect lock is strongly fair: Python's
locks promise no order, but whoever tries for ever gets it.

## 9. Building the simulation (`SimulationHttp`, `DockerSnapshot`)

**State and steps.** `body` and `file` are the body in memory and on disk with their ages; `backoff` the
failure state; `builder` the holder of `_SIMULATION_HTTP_BUILD_LOCK`. A request goes through the handler's
stages, and in each it may find an answer. The builder calls
`collect_docker_simulation_snapshot`, modelled by `DockerSnapshot`: `inFlight`, the cached `payload`
and its `age`, and the callers that wait, read, store and close. `SimulationHttp` instantiates
it for its requests and for the callers that do not hold the build lock.

**Abstracted.** A cache key is a value; one perspective; the compact mode and its cache are left
out; bodies have no contents, a snapshot is the number of its read. The answer from disk of a server
just started is allowed at any time. Emptying the caches is one step. A waiting caller may stop
waiting at any time, being notified or out of time. Sending an answer may fail, and the handler takes that for a failed
build.

**Run.** Two requests, another caller, one key, two reads: one builds while the other polls, falls back, or blocks;
the other caller makes the builder wait for a snapshot it does not read itself.

**What holds.** One thread at a time reads Docker, and a waiting caller that is not notified does not become a second
reader; snapshots do not go back; whatever fails, the flag and the lock come free and every request is answered.

**Fairness.** Threads go on, the Docker calls have timeouts and the waits deadlines; the build lock is strongly fair as above.

## 10. Theorems

TLAPS checks these for all values of the constants, under the assumptions
declared with the constants.

Crawler:

* `TypeCorrect`: `TypeOK` is inductive as it stands.
* `SingleConnection` and `CountExact`: every step has one of five effects on
  the requests under way (`Effect`: none; a worker begins or ends a page or API
  request). From this the two counters follow by cases; the host counter uses
  the finite-set facts on adding and removing one element.
* `FetchCovered`: needs the strengthening `LeftBounded`, that no request has more time
  left than the timeout. Without it another worker on the same URL that starts its
  cooldown anew could leave the first one uncovered. It rests on the
  assumption `CooldownOutlivesFetch`, true of the shipped defaults.
* `InFlightBacked` and `NeverStuck`: the URLs that are in the in-flight set or "fetching" (`Shown`) all have a worker
  (`Backed`). Every step begins one fetch and shows at most its URL, ends one and no longer shows
  its URL, or begins and ends none and shows no more (`Traced`); the proof is that every exit path is one of the three. A worker
  that ends therefore never leaves its URL behind, though another may be fetching the same one.
* `WorkInGraph`: nodes are never removed, what is enqueued is made a node before, and what a worker takes in hand was
  queued (`Grows`).

C engine, from one inductive invariant `IInv`:

* `Types`, `HiddenWrites`, `AlignedPairs`, `EngineOutlives`. `IInv` adds to the types `CallsAt` (what an API
  call under way implies for the threads and the number of joins), `ThreadsAt` (where a thread is tells what it
  holds and which slot it writes) and `HalfFlipped` (a system between its flips has moved exactly the buffers it
  already flipped, to the slot it wrote). `WritesHidden` alone is not inductive: that the slot computed from the
  first buffer is hidden in the second needs the two aligned, and they are aligned only outside of the flips.

Presence runtime:

* `TypeCorrect`: needs `Shape`, that a sync past its beginning has a presence left to
  visit and, while it writes a row, a row: without it `Current` could be anything.
* `LeaseSafe`: only `Take`, `Elapse` and steps that leave leases alone exist
  (`LeasesElsewhere`); a lease is taken only when it is free or one's own.
* `IndexSafe`, `StateSafe`, `Implements`: every step does nothing to the
  particles, writes one for its owner, or hands one over (`ParticleSteps`), which are
  the actions of `ParticleRegistry`.
* `DedupeSafe`: under the two assumptions the property speaks of, stated with the theorem: no reply is lost, and
  no two threads that build simulations belong to one process. `PresenceLeases` runs with both. The strengthening `MarksMeant`
  says what a fingerprint that is about to be written means.

Slice offload:

* `TypeCorrect`, `Noticed`, `ReadsCurrent`, `TakenInOrder`, from one inductive invariant
  `IInv`: `BridgeAt` (where the bridge is tells whether it has a request, and the
  mailbox is empty before it clears the event), `Newer` (published, served and waiting
  requests are in order, and the active slot is the published one) and `InTurn` (the
  worker's last id is the last job it took). `ReadsCurrent` does not follow from
  the alternation of slots alone: it needs that answers only get newer.

Key rotation:

* `TypeCorrect`: `TypeOK` is inductive; its last part, that a request has a key exactly while it
  holds one, is what lets `Release` speak of `key[r]`.
* `CountedExactly`: from the effects a step can have on who holds what (taken by one, released by one,
  unchanged) and the cardinality of a set with one element more or less.
* `LimitKept`: a key is taken only when it is idle or has room.
* `OfferedOnly`: needs nothing about `affinity`, which may name a removed key; the filter in `Preferred` is
  enough, and only `Start` writes the preferred key.
* `Implements`: every step lends a key, takes one back, or leaves `KeyPool` alone.
* `NoneStarved` (an action property): when no key is chosen, no level was left unlooked at (`AllLooked`: ranks are
  natural numbers, so a level with a key to take would have a least one), hence a warm key with room is held
  back by the fair cycle alone, and the key the cycle waits for ranks the same (`RankCases`). It needs that priorities
  lie between 1 and that of a key without one, 999: the providers' tables go from 1 to 10. With a best
  priority of 1000 the session's key would be taken for one without priority, and the property would fail.

Catalog:

* `TypeCorrect`, and `CollectedOnce` from the inductive invariant `TypeOK /\ OneCollects /\ Paid`: one request
  at a time is inside the collection, and whenever somebody is inside or there is no catalog, one more collection
  has been paid for by the first, a failure or a reset. `CollectsOnce` alone is not inductive: it says nothing of
  a collection under way.

Building the simulation:

* `SharesDocker`: every step of `SimulationHttp` is a step of one caller in `DockerSnapshot` or leaves it alone: the
  composition implements it, with the identity as refinement mapping.
* `SingleReader` and `SnapshotsForward`: from the invariant `Snapshots`, `DockerSnapshot`'s types with `OneReader` and `InOrder` (what was
  answered is not newer than what is cached, and that not newer than the last read). Answers alone are not inductive: a
  reader that stores late must still hold the newest read, which it does because it is the only one.
* `BuilderHoldsLock`: `TypeOK`, whose last part ties the holder of the build lock to the stage it is in. It assumes that
  `NoOne`, the value for a free lock, is not a request.

Model-checked only: liveness, which is outside the prover's reach (`SlotsReturn`, `EndingEnds`, `RequestServed`, `Failover`,
`CatchesUp`, and `RequestsEnd` of the proxy and of the server), and what the code does not keep (`CrawlDelayKept`, `NoSharedSlot`, `CapCools`). Every
other property of a run is a theorem.

## 11. What is not modelled

Most of the code by lines is numerical or converts text: the particle field and its samplers,
layouts, embeddings, the providers' formats in the proxy, catalogs, and tools. It runs in
one thread, on floating-point numbers or strings, and is out of TLC's reach or has no state to check.
Planned parts without a module are the tick governor's queue, the agent runtime's state file, the GitHub
crawl's state file and the front end's reconnection. `PROJECT.json` names each component with the reason.

## 12. Plan

1. Proofs: what the abstract modules promise of their own (`KeyPool`'s limit, `ParticleRegistry`'s inboxes), so that the
   limits of the detailed modules also follow from the refinements; the helpers on sequences of the C engine.
2. `TickGovernor`: the filler queue, what a drain keeps and what the limit cuts off.
3. Agent state and GitHub crawl state on disk, the front end's reconnection.
4. Key rotation: reload of the usage file, cycles across tiers.
5. Crawler: entities, the content-hash index, pruning of `domainState`.
