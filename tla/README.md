# TLA+ models of distconf and the gateway

The repository holds two programs: **distconf** (Go, `src/distconf`), a
replicated configuration store and service registry, and **lightweight-gateway**
(Python, `src/gateway`), an API gateway. This directory models distconf from its
replication protocol up to its SDK and its node processes, and the gateway's
request path. What is left out is named at the end.

## Inventory

| Part | State | Operations | Interacts with |
|---|---|---|---|
| `repl/leader.go` | log window, `compactIndex`, `savedSnap`, `commit`, `match`, `waiters`, `wakeCh`, broadcaster | Propose, commitLoop (+ compactLocked), FollowerAck/Reset, Catchup, EntriesAfter, Stop | streams, store, RPC handlers |
| `repl/stream.go`, `follower.go`, `server/cluster.go` | `peers`; per stream a handler, a receiving and a pushing goroutine; a follower's stream | AppendEntries, HandleStreamWithInitial, ApplyStream, reconnect | leader, store |
| `store/*.go` | keys (version, revision, expiry), instances, `rev`, event ring, `baselineSeq`, watchers | Apply*, WatchKV, WatchService, Discover, scans, snapshot export/restore | repl (apply), server |
| `sweeper` | ticker | scan, propose ExpireKeys/ExpireServices | store, leader |
| `server` (kv, watch, registry, node) | open streams | Get/Put/Delete/Watch, Register/Heartbeat/Discover/WatchInstances, Start/Stop | leader, store |
| `client` | known leader, connections, watch cursor, lease | retry and redirect loops, watchLoop, KeepAlive | server |
| gateway `circuitbreaker`, `loadbalancer` | state, window of results, probe count; active counts | allow, record_success/failure; pick, release | proxy |
| gateway `proxy`, `retry`, `app` | in-flight requests, drain event | attempt loop, streaming, shutdown | all gateway parts |
| gateway `ratelimit` | bucket (memory or Redis) | acquire | proxy |
| gateway `config`, `logging_setup` | - | parse, match route, format | - |

What is hard here: the goroutines of overlapping streams of one follower against
compaction and against each other; acks, resets and timeouts arriving late; a
bounded ring and bounded channels read by slow, reconnecting clients; snapshots
restored under live subscriptions; values and leases that expire while something
about them is under way; a retry of what may already be in the log; a shutdown
that waits for handlers, goroutines and other nodes; and, in the gateway,
cancellation in the middle of an attempt. `PROJECT.json` lists each hazard at its line.

What makes each part correct: followers hold prefixes of one log, what is
committed is held by a majority, callers of committed proposals are answered
(replication); no event is lost silently, events come in order (watch); expiry
never removes what was renewed, replicas agree on CAS results (store, registry);
a call ends, and with its answer its attempts have been decided (SDK); a lease
that is kept alive comes back, one that is not lapses (lease); probe slots and
active counts are returned (breaker, balancer); a bucket never admits more than
its rate (limiter); shutdown drains before it closes, and ends.

## Modules

```
ReplicatedLog <=implements= Replication <- ReplicationProofs <- ReplicationRefinement
                              |  one log, applied in order on every node
              KVStore <- Client     KVWatch     Registry     Node     Gateway
```

NodeProofs, KVStoreProofs, KVWatchProofs, RegistryProofs and GatewayProofs extend
the module they are about, ClientProofs extends Client and KVStoreProofs; the modules `MC*`
instantiate the models for TLC.

`KVStore`, `KVWatch` and `Registry` are three views of one state machine, driven
by the one log that Replication delivers; `Client` extends `KVStore` with the
SDK. `Node` has the processes around all of them.

### Replication

`Replication.tla` models `repl/leader.go`, `stream.go`, `follower.go`,
`broadcaster.go` and `Node.AppendEntries`. A step is one critical section of a
mutex, or one send or receive on a channel or stream. Operations are opaque
(`Ops`), so a replica's state is the sequence of operations applied, and its
revision the sequence's length, which is what `store.go` promises of `rev`.

* `log`, `compactIndex`, `savedSnap`, `lstate`, `match`, `waiters`: the fields of
  `Leader`; `commit` is `Len(lstate)` because commitLoop applies what it commits
  in the same critical section. `wake` is `wakeCh`; `results` the buffered
  channels of answered waiters; `proposer[i]` the call of Propose that appended
  index `i`.
* A stream of follower `f` lives in a slot `s`. `srv`, `rcv`, `push` are the
  control states of its handler, receiving and pushing goroutine; `last` and `li`
  the pusher's variables; `sub` its broadcaster subscription; `down`, `up` the
  messages in flight. With two slots an old stream winds down while a new one
  runs. A pusher that waits for a signal outlives its stream in the code; when
  its slot is reused it is dropped, since all it could do is fail to send.
* `ProposeAppend`/`ProposeNotify` separate the locked append from the signals
  after it; `PushCatchup`/`PushMark`/`PushSubscribe` and `PushCheck`/`PushSend`
  keep the separate critical sections of the pushing goroutine; `HandlerExit` and
  `HandlerReset` the two halves of the deferred cleanup.
* gRPC is external: ordered while the stream lives; acks that had arrived may
  still be read after a break; what the follower has not read is lost.

`Spec` has stream failures; `CrashSpec` adds follower restarts;
`LeaderCrashSpec` adds leader restarts; `FairSpec` adds fairness to `Spec`.

**Fairness.** Weak fairness of each goroutine's steps (Go schedules runnable
goroutines, and gRPC reports a broken stream), of the reconnect loop
(`FollowerRunner.Run` retries for ever) and of commitLoop while not stopped.
None for clients, failures, timeouts or Stop.

### ReplicatedLog

What replication promises to state machines and callers: a log that only grows,
copies that are prefixes of it and only grow, an index that is committed once a
majority holds the prefix up to it, and an "ok" for committed indexes only.
`Replication!Abstract` instantiates it: `hist` is what the leader has applied
followed by what its window still holds, `copy` the followers' states,
`committed` is `commit`, `reply[i]` what the call of Propose that appended `i`
was told. `ImplementsLog` says that every step of `Spec` is a step of it or a
stutter; streams, snapshots, compaction, resets and late acks disappear.

### KVStore

`KVStore.tla` models the keys of the state machine on every node: `ApplyPut`,
`ApplyDelete`, `ApplyExpireKeys`, `checkVersion`, `Get` (`store.go`), the
handlers that stamp and propose (`kv.go`), the sweeper's `expireKVs`
(`sweeper.go`), snapshots (`helpers.go`) and restarts.

* `kvs[n][k]` is n's `kvEntry`, with the value identified by the revision that
  wrote it; `rev[n]` how much of `log` n has applied. A follower may be ahead of
  the leader, which applies what is committed.
* `now` is the leader's clock, `skew[n]` how far n's is ahead. Expiry is stamped
  with the leader's clock and judged by each node with its own, when it applies.
* `result[i]` is the leader's answer to index i; followers' answers go nowhere.
* The sweeper is three steps, as in the code: scan, propose, wait or time out. A
  timed-out entry stays in the log.
* `RestoreSnapshot` exports and restores in one step: what the follower does in
  between is overwritten by the restore or makes it be ignored.

### Client

`Client.tla` extends it with `Put`, `Delete` and `Get` of the SDK: the cached
leader, discovery, the hint in a refusal, one automatic retry, the errors as far
as the SDK tells them apart. A connection may break before or after the leader
has the request, and the request may then run later (`stray`); a proposal may
time out; the caller's deadline may pass. `sent` collects the log indexes of a
call's attempts, for the properties. The client may start with the address of a
former leader. A leader that is shutting down is in `Node`.

**Fairness.** The leader's commit loop, each step of the sweeper (its ticker fires
for ever), and the steps of a call that nothing disturbs. None for faults,
timeouts, clients or followers.

### Registry

`Registry.tla` models one instance on the leader: `ApplyRegister`,
`ApplyHeartbeat`, `ApplyExpireServices`, `Discover`, `WatchService` with its
fan-out (`store.go`), the handlers of `registry.go`, `expireServices`, and on the
other side `Lease` (`lease.go`), the retry loops of `Register` and `Heartbeat`
and `WatchInstances` (`client.go`).

* `inst` is the `instEntry`, `owner` the process whose address it carries;
  `pending` the log entries not yet applied.
* `lease[p].pc` follows `KeepAlive`; a heartbeat reads the instance
  (`HeartbeatRead`), proposes (`HeartbeatPropose`) and is answered when its entry
  is applied, so that everything may happen in between.
* `watch` is the handler of `WatchInstances` with its channel, `view` what its
  client makes of it. `watch.lapsed` remembers that the subscription began over
  an entry that had expired and was not yet swept.
* `Cancel` is the end of the process or of its context at any point.
* `stray` holds the requests that their client has given up (by a failure or by
  `Cancel`) while their handler had not proposed yet. `Propose` appends without
  looking at the context, so `StrayRuns` stamps and appends them later; nobody
  waits for their results. A request may also be lost before it arrives.
* The clock is bounded while a lease lives or a request is under way, and then
  runs until the lease has lapsed.

**Fairness.** Commit loop, sweeper, handlers (given up or not), the keep-alive
goroutine and time. `StopSeen` is strongly fair: `select` in `KeepAlive` chooses among ready
cases at random, so the stop channel is not passed over for ever.

### Node

`Node.tla` models the processes: `runServe` and its signal (`main.go`), `Start`
and `Stop` (`node.go`), and what they start and wait for. A log is its length, a
store the index it has applied.

* `proc[n]` is where n's main goroutine is; the steps of `Stop` are separate, in
  their order: cancel, sweeper, leader, GracefulStop, wg.Wait.
* `Handlers(n)` are the RPCs that GracefulStop (external) waits for: writes,
  replication streams, clients' streams.
* Propose's check of `stopped` and its append are two steps, so a write may be
  appended after `Leader.Stop`. The commit loop may do another round with
  `stopCh` closed.
* A follower whose token the leader refuses retries for ever (`Admission`).
* A replication handler is there from its follower's first message on. Before
  that it is in its first `Recv` (`cluster.go:51`), which does not look at
  `stopCh` either; a follower sends its first message at once, and a connection
  that breaks ends the wait, so this is no state of its own.
* `Kill` takes a process at any point; it is not started again (restarts are in
  Replication and KVStore).
* `Close` of a watcher leaves its stream with the server, as in the code.

**Fairness.** Every goroutine of a node runs, and a proposal ends by its timeout.
`SweeperExits` is strongly fair for the reason above. Nothing is assumed of
clients: `StopReturns` has their streams going away as its premise.

### KVWatch

`KVWatch.tla` models one watch end to end: cursors, the ring, `WatchKV`, the live
channel and its removal (`store.go`), `RestoreSnapshot` (`helpers.go`), the
server's `watchLoop` and the SDK's `watchLoop`/`pumpWatch`. A log entry is the
sequence of keys it emits events for. Each node applies the same log at its own
pace, as `Replication` establishes. Handlers of abandoned streams are left out:
each has a watcher of its own and touches nothing else. `Window` stands for
gRPC's flow control, which is what makes a consumer slow.

`FairSpec` assumes that nodes apply, both loops run and the application reads.

### Gateway

`Gateway.tla` models the handlers of concurrent requests of one route
(`proxy.py`), their load balancer, the breakers of its upstreams, and shutdown
(`app.py`). The handlers are tasks of one event loop, so a step reaches from one
suspension to the next; the locks of balancer and breakers are never found taken
(only another of them is awaited while one is held), so pick with its calls of
allow, and the record and release after an attempt, belong to one step.

* `state`, `events`, `probes`: the fields of `CircuitBreaker`; `cooled[u]` stands
  for `now - opened_at >= open_seconds`. A breaker that records a result drops any
  number of its oldest samples, since any of them may have left the window.
* `active`, `rr`, `strategy`: `LoadBalancer`; `Rank` is the order of the
  candidates under either strategy, `Candidates` the result of both rounds of
  pick.
* `pc`: where a handler is suspended (`reading` its body, `sending`, reading the
  `errbody` of a retryable status, `backoff`, `streaming`); `at`, `attempt`,
  `tried` the locals of `_attempt_loop`.
* `BudgetExpires` is `asyncio.timeout` cancelling the loop, `Cancel` the server
  cancelling handlers after `drain_timeout`; both run only the `finally` of the
  middleware. Requests may still arrive on open connections while draining.
* `Cleanup` closes the session. After a forced shutdown it waits for no handler
  (phase `aborted`): aiohttp cancels the tasks that are left, and each learns of
  it when it runs next. After a drain in time (phase `closed`) none is left.
* The rate limiter, route matching and a client that leaves early are `Reject`.

The `MC*.tla` modules are what TLC runs; they add symmetry sets where the
properties allow. Definitions
introduced by "Mutant:" are deliberately wrong variants of the definition that
follows; nothing uses them but the mutation runs listed in `PROJECT.json`.

## Runs

| Run | Instance | Shows |
|---|---|---|
| ReplStreams | 1 follower, 2 slots, 2 operations, 2 entries, window of 1, 1 restart, 1 timeout | LogMatching, WindowConsistent, WaitersAnswered |
| ReplQuorum | 2 followers, 2 entries, compaction at every commit, 1 break | TypeOK, CommittedOnQuorum, ImplementsLog |
| ReplLiveness | 1 follower, 3 entries, window of 1, Stop, fair | NoPanic, NoRegress, AckedEntriesCommit |
| WatchResume | 2 nodes, 3 entries, ring of 3, buffer of 1, 1 break or restart, 1 snapshot | TypeOK, GapFree, StreamOrdered, ReplayComplete |
| WatchLiveness | 1 node, 3 entries, ring of 2, 1 break, fair | Delivered |
| KVReplicas | 2 nodes, skew up to 1, 1 key, 3 writes with TTL 0 or 1, clock to 2, 1 sweeper timeout, 1 restart | TypeOK, TtlFreeAgree, ExpirySparesFresh, CasOnce |
| ClientCalls | 1 client, 2 nodes, 1 write and any number of reads, 2 faults, 1 sweeper timeout, fair | ClientTypeOK, RedirectReaches, NoLateEffect, GetCoversValue, CallsReturn, Swept |
| RegistryLease | 1 process, TTL 2, clock to 3, 1 heartbeat and its retry, channel of 1, 1 fault, fair | TypeOK, NoGhost, MissesOnlyLapsed, ExpirySparesRenewed, NoRevival, LeaseRecovers, StoppedLapses |
| NodeStop | leader and follower, 1 write, 1 client stream, 1 sweep, fair | TypeOK, QuietWhenStopped, FollowerFrozen, StopReturns |
| GatewayRequests | 3 requests of 2 attempts, 2 upstreams, either strategy, trips on 1 failure, 1 trial | TypeOK, ActiveCovers, CleanShutdown, DrainCanEnd, OpenKeepsAway |

Why these bounds are enough for the cases of interest: two entries separate
"committed" from "appended" and let one of them be cut off by compaction, three
let a pusher be outside the window while a follower is inside, and a snapshot be
older than what its follower has applied (ReplLiveness, where streams end by
gaps and by the leader's shutdown and are opened again any number of times); one break or
restart with two slots gives an old and a new stream; two operations make a wrong
entry visible. The liveness properties need a quorum of one acknowledging
follower, which a single follower shows. In KVWatch three entries wrap
a ring of 2 or 3 in the middle of a batch, and a buffer and a window of 1 remove a subscriber at once.
In KVStore three writes are a value, its replacement and one that competes with
it; a clock to 2 lets a value expire before and after its replacement, and one
key is enough since keys do not meet, except in a batch of the sweeper, which
treats each by itself. One timeout of the sweeper is one round lost: in
ClientCalls its entry may be applied before, between or after the next scan, and
a value put meanwhile needs that scan. A client's second fault hits its retry. A heartbeat and
its retry give two under way, with the handler of the first still to run;
a channel of 1 closes a subscriber at its
second change. Two nodes without a third have no quorum once either is gone,
which is the hard case for Stop; the safety properties were also run with three.
In Gateway three requests allow a result from before the trip, a trial and a
third request at once; requests end, so no further bound is needed.
Deadlock is not checked: with the budgets used up and no more proposals the
system rightly rests.

What the properties say of the code:

* `LogMatching`: replayed windows, snapshots, gaps and overlapping streams never
  put a wrong or misplaced entry into a follower.
* `CommittedOnQuorum`: late acks, resets and reconnections never let commitLoop
  count a follower that does not hold the entry.
* `NoRegress`: pushers resend more than they account for (`li` is older than the
  entries read), so a snapshot older than the follower's state can arrive; the
  revision guard of `RestoreSnapshot` makes that harmless. Without the guard
  (`RestoredAlways`) ReplLiveness fails; with fewer than three entries it would
  not.
* `ImplementsLog`: all of the above at once, with what callers are told.
* `WaitersAnswered`: timeouts, compaction and commitLoop share `waiters`; no
  committed proposal is forgotten.
* `AckedEntriesCommit`: dropping a signal into the full `wakeCh` loses nothing.
* `GapFree`, `ReplayComplete`: the horizon check refuses every cursor for which
  the ring cannot be complete, and removal of a slow subscriber is always repaired
  from the ring. `GapFree` is `NoGap` while no snapshot was restored: see below.
* `TtlFreeAgree`, `CasOnce`, `ExpirySparesFresh`: for keys without TTL, versions
  do not depend on when, by which clock or by which way (log, replay, snapshot) a
  node got there; a version is won once; the guard protects every value that is
  alive for the leader, on nodes with other clocks too.
* `RedirectReaches`, `CallsReturn`, `NoLateEffect`: two rounds are enough from a
  stale address; once a write is answered, no earlier attempt of it can still
  take effect, unless a connection broke under it, when that cannot be known.
* `GetCoversValue`: the two locks of Get err on the safe side.
* `Swept`: an expiry whose proposal timed out is proposed again in the next
  round, whether or not the first entry is applied in between, until the leader
  has let go of the value; a sweeper that ends with its first timeout fails.
* `NoGhost`, `MissesOnlyLapsed`: a slow subscriber is never left with an instance
  that is gone; it can miss one that is there in one situation only, see below.
* `ExpirySparesRenewed`, `NoRevival`, `LeaseRecovers`, `StoppedLapses`: guard and
  aliveness check together make a lapsed lease lapsed and a renewed one renewed
  whatever order the entries take; failures end in a registration, and after Stop
  nothing in flight keeps the instance for good.
* `QuietWhenStopped`, `FollowerFrozen`, `StopReturns`: the order of Stop (sweeper,
  leader, server, goroutines) neither leaves something running nor waits for
  something that waits for it; stopping the leader before its server is what ends
  the replication streams of followers that stay up.
* `ActiveCovers`, `OpenKeepsAway`: retries, fail-over and late results never
  make the balancer release what another attempt holds, nor let pick's second
  round, which readmits tried upstreams, reach an open one. `ActiveCovers` is an
  inequality: that every attempt gives its own unit back is
  `ReleasedAfterAttempt`, which does not hold, see below.
* `CleanShutdown`, `DrainCanEnd`: the check of `drain_event`, the count and its
  event leave no window in which a request is missed or waited for in vain.

Runs expected to fail, each a disagreement between the code and what the
repository says of it (quoted in `PROJECT.json`, "findings"):

| Run | What happens |
|---|---|
| ReplCaughtUp | an entry appended between catch-up and subscription is not pushed until the next proposal |
| KVDiverge | a follower that applies a Put after the previous value's TTL has run out gives the key version 1, the leader, in time, version 2; no clock is wrong |

### Further disagreements

Stated as properties that the modules keep but no run of the list checks; TLC
refutes each when it takes the place of the properties in the named cfg:

* `ReadsCommitted` (ReplQuorum): a follower applies, and serves, entries that are
  not committed (`stream.go:52`), against `repl.go:12`.
* `NoPanic` (ReplLiveness, with `SPECIFICATION LeaderCrashSpec` and
  `MaxRestarts = 1`): a follower ahead of a restarted leader makes `Catchup`
  slice out of range (`leader.go:242`); `DESIGN.md:82` has it reset by an empty
  snapshot.
* `NoGap` (WatchResume): `RestoreSnapshot` keeps the watchers its comment says it
  removes (`helpers.go:113`), and a watcher registered across it silently misses
  events. Service watchers are told nothing of the snapshot's instances either.
* `RetrySafe` (ClientCalls): a conditional write that timed out and was applied
  all the same is retried by the SDK and reported as a conflict, and an
  unconditional one is applied twice; `errors.go:31-32` calls the retry safe
  because of CAS.
* `ViewConverges` (RegistryLease): an instance registered again over an entry
  that has expired but is not swept is announced to nobody (`store.go:255`), nor
  is a changed address; `registry.go:85` says no change of the final set is
  missed. `MissesOnlyLapsed` is what does hold.

* `ReleasedAfterAttempt` (GatewayRequests): an attempt cancelled by the time
  budget or by the forced shutdown, or whose error body cannot be read
  (`proxy.py:180`, `:349`), is not released, which `loadbalancer.py:52` demands
  after every attempt: `active` stays too high, and least connections avoids that
  upstream for good. `ActiveCovers` is what does hold.
* `ProbesReportBack` (GatewayRequests): a trial request cancelled by the time
  budget, left by its client or with an unreadable error body never reports back
  (`proxy.py:180`, `:392`, `:349`), and its half-open breaker refuses the upstream
  for good; `src/README.md:118-119` knows only success and failure.

Smaller ones met while modelling:

* the SDK's Get goes round the nodes (`client.go:188`), so reads can go back and
  miss the caller's own writes; `client.go:185` and `repl.go:13-14` say they do
  not;
* closing a `Watcher` or `DiscoverWatcher` leaves its stream open until the next
  event or the end of its context (`client.go:305`, `:505`), and `Stop` of the
  node it is on waits for it (`node.go:165`); a second SIGTERM is not listened to
  (`main.go:146-149`), so only SIGKILL ends such a process;
* `Stop` of a leader whose `Start` failed or was never called waits for the end of
  a sweeper that was not started (`node.go:157`, `sweeper.go:63`); runServe does
  not call it then;
* the commit loop is not waited for (`leader.go:84`): it may commit once more
  after `Stop` has returned. `Propose` may report "not the leader" for a write
  that is applied, when result and stop channel are both ready
  (`leader.go:123-135`);
* `Lease.Stop` panics when called twice (`lease.go:74`), unlike the other Stops;
* a heartbeat does not say who renews: a process that was replaced under the same
  instance id keeps its successor's lease alive (`registry.go:47`);
* the ack a follower sends when it reconnects only sets the catch-up position
  (`stream.go:143`), so an entry that it completes the majority for stays
  uncommitted until a further proposal (`repl.go:6` says it is committed once a
  majority has confirmed it);
* a client that moves to a lagging node is sent events again (`store.go:428`),
  while `client.go:298` says cursors strictly increase;
* a result from before the trip that arrives in HALF_OPEN decides in the trial's
  place (`circuitbreaker.py:86`), and after it reopens the breaker a second
  trial can be under way beside the first, against the comment at `:10`;
* an ack read by the receiving goroutine before, but recorded after, the
  handler's `FollowerReset` leaves an offline follower counted
  (`stream.go:159`; `leader.go:50` says it is not); it holds what it acked;
* `WatchKV` takes cursor 0 for "from the oldest retained event"
  (`store.go:374`), the SDK documents "only new events" (`client.go:310`), and a
  client that has had no event yet resumes with 0;
* `emitKVLocked` panics at the 4096th event of an index (`store.go:333`) though
  `subLimit` is documented as the number allowed (`store.go:22`).

## Proofs

The runs check small instances; the theorems below hold for every value of the
constants that the named assumptions admit. Each follows the same path: an
inductive invariant stronger than the property, which TLC was first asked to
confirm, one lemma with a step per action that it is preserved, and a temporal
step. The bounds on counters (`MaxIndex`, `MaxTime`, ...) are arbitrary naturals.

**ReplicationProofs** (`FollowersAssumption`: finitely many followers;
`SlotsAssumption`: `NoSlot` is no slot; `BoundsAssumption`).

* `TypeCorrect`, `LogsMatch`, `LeaderNeverPanics`, `WindowAlwaysConsistent`:
  `CrashSpec` implies always `TypeOK`, `LogMatching`, `NoPanic`,
  `WindowConsistent`. `LogMatching` is not inductive: what a follower applies
  comes from messages in flight, and those from positions kept by pushers.
  `HistoryInv` adds that every message in flight carries a part of the leader's
  history (`MessagesGenuine`), that positions lie inside the log
  (`PositionsInLog`), and `WindowConsistent`. The leader's history only grows
  (`LeaderStep`, `HistoryGrows`), so genuine messages stay genuine
  (`GenuineStable`), and what is put on a stream is genuine (`CatchupGenuine`,
  `EntriesGenuine`).
* `CommittedStaysOnQuorum` (`Spec => []CommittedOnQuorum`),
  `ReplicasNeverRegress` (`Spec => NoRegress`). `AcksHeld` says that followers
  hold what they have acked, in `match` and in flight; replicas only grow
  (`ReplicasGrow`), so the set counted by `Votes` is contained in the set of
  holders, and a majority once formed remains (`CardinalityMonotone`). Both are
  about `Spec`: a follower that restarts loses its memory, and they are false of
  `CrashSpec`.

**ReplicationRefinement** (the same assumptions).

* `CallersAnswered` (`CrashSpec => []WaitersAnswered`), by `ProposersInv`: results
  are for committed indexes, and a caller that waits for a committed index has
  its result under way.
* `Refinement` (`Spec => ImplementsLog`): every step is a step of `ReplicatedLog`
  or a stutter. `HistoryInv` makes every copy a prefix of the history,
  `CommittedOnQuorum` gives the majority behind a commit, `NoRegress` that copies
  only grow, `ProposersInv` that "ok" is answered for committed indexes only.

**NodeProofs** (`NodeAssumption`: finitely many nodes, the leader one of them,
`NoNode` none). `TypeCorrect`; `QuietStop` (`Spec => []QuietWhenStopped`) by
`StopOrder`: each state of `Stop` implies that what its earlier steps waited for
has ended, and nothing that has ended is started again; `FollowersFrozen`
(`Spec => FollowerFrozen`) from the same invariant.

**KVStoreProofs** (`LeaderAssumption`: the leader is a node; `RequestAssumption`:
TTLs and versions are naturals; `BoundsAssumption`). All rest on `TypeCorrect`,
on `ApplyEffect` (an entry works key by key, as `StepEntry` says) and on
`EntriesFromLog` (an entry of any store was written by the put at its revision,
which that node has applied).

* `ExpirySpares` (`Spec => []ExpirySparesFresh`), by `SweptExpired`: what the
  sweeper has scanned or proposed names a revision whose put carries an expiry
  that has passed. Revisions are never written twice, so it stays true.
* `CasWinsOnce` (`Spec => []CasOnce`), by `WinnersStand`: a put that won is
  either removed since, or the leader's entry is at least as new and has a
  higher version than that put expected; a second winner with the same
  expectation would contradict it.
* `ReplicasAgree` (`Spec => []TtlFreeAgree`), by `OneHistory`: there is one
  sequence of stores, the replay of the log without expiry, such that every node
  agrees with its `rev[n]`-th element on the keys that never had a TTL. A node
  that restarts or restores a snapshot takes another element of that sequence.

**ClientProofs** (adds `ClientAssumption`: `NoAddr` is no node; the budgets).

* `ClientsUseTheStore` (`ClientSpec => Spec`): clients move the cluster by its own
  operations only, so the theorems of KVStoreProofs hold under clients as well.
* `ClientTypeCorrect`, `RedirectsReach` (`[]RedirectReaches`), `NothingLate`
  (`[]NoLateEffect`), `GetsAreCovered` (`[]GetCoversValue`), by an invariant of
  each client: `InCall` (the open write has at most one entry per attempt, none
  after its index, and while nothing failed a second attempt knows the leader; an
  open Get holds what its node had applied), `Told` (a settled answer leaves no
  attempt unapplied) and `Consistent`. The cluster disturbs it only by growing
  (`StoreGrows`).

**KVWatchProofs** (`NodesAssumption`: the leader is a node; `SizesAssumption`).
Three invariants, each resting on the one before.

* `Stored`: what a node has applied is in the log, no batch of it too large, and
  its ring holds, in order, every event between its horizon and what it has
  applied (`RingKept`: overwriting the oldest raises the horizon past them;
  `RestoreSnapshot` sets it past the snapshot). With the first conjuncts it gives
  `ReplaysAll` (`Spec => ReplayComplete`) and `TypeCorrect` (`[]TypeOK`).
* `Flowing`: stream, backlog and channel follow each other, the server's cursor
  stands between what is on the stream and what is pending, and all of it is
  below the next cursor of its node, so what is fanned out next goes behind it.
  It gives `InOrder` (`[]StreamOrdered`).
* `Covered`: between the client's cursor and the server's nothing is missing on
  the stream (`WireCovers`), and from there to what the node has applied, or to
  the last event of a subscriber that was removed, nothing is missing in what is
  pending (`PendingCovers`). It gives `NothingMissed` (`[]GapFree`) and holds only
  while no follower has restored a snapshot: one that does moves `rev` without
  fanning out what it skips.
* `KindsCover` sorts the steps into six kinds, as a stream sees them (it rests, is
  fanned out to, sends, is received from, is subscribed, ends), and the last two
  invariants are proved kind by kind. `Picked` selects positions without
  recursion, because no prover here can reason about `SelectSeq`; `PickedPositions`
  says that it keeps the order and skips nothing.

**RegistryProofs** (`RegistryAssumption`: a positive TTL and buffer).
`TypeCorrect` by `Typed`, which bounds every revision and index by the log, and
`StrayTyped`, which does so for the requests given up; `ExpirySpares` (`[]ExpirySparesRenewed`) by `GuardsStale`: the guard that the
sweeper holds or has proposed is older than the instance or the instance has
lapsed, whatever happens before it is applied; `NeverRevived` (`NoRevival`);
`GhostFree` (`[]NoGhost`) and `OnlyLapsedMissed` (`[]MissesOnlyLapsed`) by
`InView`: what the subscriber will believe after it has read its channel agrees
with the table, except for an entry that had lapsed when it subscribed.

**GatewayProofs** (`GatewayAssumption`: finitely many requests, positive limits).
`TypeCorrect` by `Typed` (which bounds the breakers' counts of admitted trials,
not the trials under way: see above); `ActiveAlwaysCovers` (`[]ActiveCovers`), from
the fact that a handler releases only on leaving an attempt of its own;
`OpenKeepsAwayAlways` (`OpenKeepsAway`); `ShutdownIsClean` (`[]CleanShutdown`) and
`DrainCanAlwaysEnd` (`[]DrainCanEnd`) by `Counted`: `inflight` is the number of
busy handlers and the event is set exactly when it is zero.

### Only model-checked

* Liveness: `AckedEntriesCommit`, `CaughtUp`, `Delivered`, `CallsReturn`, `Swept`,
  `LeaseRecovers`, `StoppedLapses`, `StopReturns`. They rest on fairness, hence on
  ENABLED, which the prover does not handle.
* The runs that end in a violation (see Runs): TLC's counterexample is the point.

## Plan

Every invariant and action property that a passing run checks is a theorem. Next:
an abstract specification of a watch (an ordered feed that resumes without a gap,
or says that it cannot), with the proof that KVWatch implements it while no
snapshot is restored, and one of a lease for Registry.

## Not modelled

* Generated protobuf code, the client commands of the command line, logging, the
  mock upstream and the scripts: no state of their own, or only I/O.
* The comparison of tokens: a string equality, of which Node keeps the outcome.
* The gateway's rate limiter: an in-memory bucket that does floating-point
  arithmetic under one lock, and a script that Redis runs atomically. Nothing in
  either is interleaved, and whether rounding lets a request more through is not a
  question integers answer.
* The gateway's configuration and route matching, header forwarding and status
  codes: functions of one request, covered by tests.
* Sizes: namespaces, values, metadata and the contents of messages, except for
  what a property tells apart.
