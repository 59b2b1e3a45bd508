# Kerno in TLA+

Kerno attaches six eBPF programs to a Linux kernel, aggregates what they emit and
explains it: once (`kerno doctor`), as Prometheus metrics (`kerno start`) or live
(`kerno trace`, `kerno watch`). This directory models the parts of it where
goroutines, bounded buffers and shutdown meet, checks them with TLC and proves the
safety properties with TLAPS.

## The system

```
 hook (C) -> ring buffer -> readLoop -> chan -> consumer -> aggregates -> Snapshot -> rules -> report
 \_ BpfPrograms _/
           \___________ EventPipeline ____________/   \_ KeyedCollector, LRU _/   \_ DoctorSession _/

 pods -> informer -> indexes -> name of a cgroup -> poll of the cgroup tree -> Snapshot, gauge
 \_ KubernetesAdapter _/        \_ PodEnrichment _/  \___________ CgroupMemory _____________/
```

| Component | State it keeps | Operations | What is hard, and what makes it correct |
|---|---|---|---|
| Loaders (`internal/bpf/*.go`) | reader, links, channel | `Load`, `Events`, `readLoop`, `close` | three goroutines and the kernel; `close` races `readLoop`. Only the kernel may drop events, order is kept, shutdown ends. |
| Collectors (`internal/collector/*.go`) | totals and an LRU of per-key entries under a mutex | `Start`, `record`, `Snapshot`, `Stop` | `Snapshot` reads entries after unlocking. Nothing counted twice or lost, rows are counters the entry had, worst offenders first. |
| LRU (`collector/aggregator/lru.go`) | list and map | `Get`, `Put`, `Range` | at capacity exactly the least recently used key goes. |
| Histogram (`aggregator/histogram.go`) | 64 buckets, min, max | `Record`, `Percentile`, `Merge` | estimates stay within the observed range and are monotone in p. |
| OOM log (`collector/oom.go`) | the last 256 kills | `record`, `Snapshot` | the newest kills survive a storm; nothing is per window. |
| Registry (`collector/collector.go`) | map of collectors | `StartAll`, `Signals`, `StopAll` | collectors answer one after the other while all of them go on. |
| Doctor session (`cli/doctor.go`) | flags, build result | build, cycle, deferred shutdown | six early outs, each of which must stop and close everything; the exit code must tell the truth. |
| Engine and rules (`internal/doctor`) | history of ten snapshots | `Diagnose`, `Evaluate`, `RankFindings` | history stays consecutive; ranking is an order. |
| Prediction (`doctor/predict.go`, `eta.go`) | none | `Predict`, `linearSlope` | numeric edges: equal times, tiny slopes. |
| AI (`internal/ai`) | cache with expiry, token bucket | `Analyze`, `Get`, `Set`, `allow` | answers that arrive late or have expired, a refill that rounds, a map that only shrinks when something has expired. Fresh answers, metered calls, no starvation, bounded memory. |
| BPF programs (`bpf/c`) | hash maps of start times, ring buffers | the hooks of six programs | which hooks the kernel fires and in which order; ids and sectors that are used again; a full map, a full ring. A reported time belongs to whom it is reported for, is counted once, and a reader of the records is never misled by what has no hook. |
| Metrics bridge (`metrics/bridge.go`) | events seen per metric | `Start`, `record*`, `Stop` | the cardinality valve; nobody waits for its consumers. |
| Daemon (`cli/start.go`) | HTTP server | serve, shut down | order of the deferred calls. |
| Cgroup poller (`collector/cgroup_memory.go`) | samples of every path ever seen, snapshot, gauge | `poll`, `walkCgroups`, `Snapshot`, `Stop` | the tree changes under the walk, a path is used again by another group. Each limit is reported once, rates are of events that happened, the gauge shows the snapshot. |
| Memory poller (`collector/memory.go`) | last sample | `poll`, `Snapshot` | reads one file; nothing to interleave with. |
| Kubernetes adapter (`adapter/kubernetes.go`) | two indexes of pods, back-off | informer callbacks, `LookupByPath`, `runWithBackoff`, `Stop` | update as remove-then-add under two locks, a pod deleted and made again unseen, `Stop` racing `Start`. The indexes follow the informer, and a cluster that can be reached again is noticed. |
| Watch and trace commands | window maps | windows, streams | each event in exactly one window. |
| Spinner, rendering, configuration, chaos, packaging | little or none | | display, static data, load generation. |

They interact through the channel of `Events(ctx)`, the mutex of each collector, the
registry, and contexts: cancelling the context stops consumer and read loop, closing
the loader stops the reader. `PROJECT.json` lists every component with what is
modelled of it, and under `hazards` what can go wrong at which line.

## Modules

| Module | Models | Correspondence |
|---|---|---|
| `EventPipeline` | one loader with its consumer and owner | `rl`, `cons`, `main` are the positions of `readLoop`, of the consumer and of the owner; `ring`, `hand`, `ch`, `recorded` hold the events on their way. One action per step another goroutine can observe: evaluating `l.reader`, `Read`, each arm of a select, each statement of `close()`. `owner` picks the shutdown: `collector` (doctor), `bridge` (daemon, watch), `stream` (trace, audit). |
| `LossyFifo` | what a pipeline promises | abstract: a queue that refuses only when full, keeps order, and loses only what is unreadable or after closing. |
| `LRU` | the recency list as a sequence | pure operators: `Use` is a collector's `Get`, and on a miss its `Put`. |
| `KeyedCollector` | syscall, fd, tcp and sched collectors | `Record` is all of `record`, one step because it holds `c.mu`. `Snapshot` is one step for syscall, which builds its rows under the lock; for the others the lock covers `SnapshotLock`, and sorting, each load of a row and publication are steps of their own. Entries are objects with identity, so an evicted entry lives on in a snapshot's hands. |
| `DoctorSession` | one `kerno doctor` process | `main` is the position of `runDoctor`; collectors are counters that grow in the background and may die; `Signals` is one step per collector, in any order. Every return goes through `Return`: the deferred `StopAll`, then the deferred closers. |
| `AIAnalysis` | the AI phase of `Diagnose` | `phase` is the position of `Analyze`; the clock may tick between any two of its steps. `CacheHit`/`CacheMiss` are `Cache.Get`, `Call`/`Refuse` are `Complete` with its `allow`, `Answer` is the rest of `Analyze` with `Cache.Set` and its eviction. `calls`, `answers` and `returned` are history. |
| `BpfRuntime` | `kerno.h` and the BPF helpers | a hash map that refuses a new key when full, a ring buffer that refuses a record when full; a hook is one step. |
| `LatencyTracers` | `syscall_latency.c`, `disk_io.c`, `sched_delay.c` | one operator per hook, named after it; around them the kernel as far as it decides which hook may follow which: threads that die in a syscall and ids that are used again, requests that share a sector or are requeued, tasks that are woken before they sleep or queued by a preemption. `since`, `latest` and `refused` are history. |
| `EventTracers` | `tcp_monitor.c`, `fd_track.c`, `oom_track.c` | the same for the programs that keep nothing between two hooks: the states of a socket, descriptors that come and go with and without a hook, kills. |
| `BpfPrograms` | the six programs over their runtime | composes the two; `program` is the one attached, since they share nothing. |
| `KubernetesAdapter` | the adapter's goroutine, handlers, indexes and lookup | `loop` is the position of `runWithBackoff` and `run`; `copy` and `calls` are client-go's cache and the notifications it queues; `UpdateFunc` is two steps because it takes the lock twice. |
| `CgroupMemory` | the poll of the control groups | a frame of `walk` is a call of `walkCgroups`; `Frame`, `Descend` and `Return` are its beginning, its loop and its end; `Publish` and `SetGauge` are the locked part of `poll`. The kernel makes, removes and limits groups between any two. |
| `PodEnrichment` | what doctor builds of the two | `Named` is the call of `LookupByPath` from the walk; start, outages, shutdown and fairness. |
| `*Proofs` | theorems | see below. |
| `MC*` | instances for TLC | constants only. |

Abstractions. Without a limiter or a cache (`ai.rate_limit_per_minute: 0`, an empty
`ai.cache_ttl`) the AI phase has nothing to get wrong; `AIAnalysis` has both. A refill is
an exact rounding down: floating point may round a refill due at this very nanosecond to
one token less. An event is a number or a record of the fields a collector reads; its
bytes, and decoding but for success or failure, are left out. A histogram is its
largest value, which is what the ranking of a handful of values depends on. Which of
the threshold rules fires is a free choice in `DoctorSession`, except that a kill is
always critical (`evalOOMKillOccurred`) and that the healthy finding appears alone.
Two seconds of `Stop` are a step that may happen whenever the consumer has not yet
ended. `l.reader = nil` is an unsynchronised write: a read loop that evaluates the
field later may still see the old pointer. The panic this can cause is
`EventPipeline`'s; in `DoctorSession` closing a loader succeeds.

Of the kernel `LatencyTracers` and `EventTracers` keep which hooks fire and when. A hook
is never skipped (the kernel's recursion protection may), a disk request completes as a
whole, an OOM kill is one call of `oom_kill_process`. Requests of sector 0, which are the
flushes, are not stamped, as in the code. IPv6 sockets are the ones outside `IPv4`. The
fields that are always 0 (`rtt_us`, `retransmits`) and the comm and path strings are left
out. In `CgroupMemory` the list of children and the limit of a group are read in one
step, and so are its counters; the growth rate is a quotient of two samples that no
property depends on. A container id is a uid and a slot, so that no two pods share a
prefix of twelve characters; the uid of a static pod's cgroup, which is not that of its
mirror in the API, is one the adapter does not know.

## Runs

| Run | Question | Result |
|---|---|---|
| `pipeline` | Does user space lose, duplicate or reorder events, does shutdown end, does the pipeline implement `LossyFifo`? | holds, for the three owners |
| `pipeline_flush` | Does `Stop` flush buffered events, as `collector.go:29` says? | no |
| `pipeline_panic` | Is shutdown graceful, as `start.go:192` and `collector.go:85` say? | no: nil reader |
| `keyed_collectors` | LRU, totals and snapshots under racing `record` | holds |
| `snapshot_torn` | Is a snapshot point-in-time, as `collector.go:32` says? | no |
| `doctor_session` | Reports, kill log, history, exit code, shutdown order, progress | holds, for every combination of the flags that interact |
| `doctor_window` | Are the kills of a report those of its window, as `oom.go:16` and `signals.go:104` say? | no |
| `ai_analysis` | Freshness, redundancy, metering, starvation, size of the cache | holds |
| `bpf_programs` | Whose are the reported times, are they counted once, what does a full map cost, what can a reader know from the records? | holds, for the six programs |
| `bpf_runqueue` | Is the delay the time in the run queue, as `sched_delay.c:12` says? | no: a task woken before it slept keeps its stamp while it runs |
| `pod_enrichment` | Indexes against the informer, walk against a changing tree, rates, gauge, names in the end | holds |
| `ai_burst` | Is the limit a maximum for every minute, as `ratelimit.go:26` says? | no: up to twice as many |

What the properties say:

- `LossBudget`: accepted = recorded + unreadable + in flight, but for the one record
  `readLoop` may hold when the context is cancelled. `FifoOrder`: increasing order along
  the whole path. `FrozenAfterStop`: after a `Stop` without timeout, or the end of a
  stream, the aggregates never change.
- `EventuallyRecorded`, `ShutdownEnds`, `ReadLoopEnds`: a full channel or a bad record
  delays and does not wedge; every shutdown ends; no read loop is left behind.
- `LruExact`: the LRU holds exactly the keys used most recently. `EntriesAccountForTotals`:
  every event is in exactly one entry, live or evicted. `SnapshotRegular`: what a
  lock-free read of the entries may show and no more. `WorstOffendersFirst`: the ranking
  and the cut, for a collector that is quiet meanwhile.
- `OomLogIsNewest`, `HistoryIsRecent`: the two bounded logs hold the newest items,
  consecutive. `ReportIsComplete`: a report misses nothing recorded before its window
  ended, also by a collector that died. `ExitCodeTellsTheTruth`: `--exit-code` from the
  kill through rules, filter and printing to the exit status. `CleanShutdown`: no loader
  closed under a consumer that was waited for, none left open. `EveryCycleReports`:
  every cycle ends in output or in the end of the process.
- `AnalysisIsFresh`, `NoRedundantCalls`: the cache answers with what was asked for these
  findings within the TTL, and always does when it can. `CallsAreMetered`: from one call
  to another there are fewer calls than one bucket plus what accrues in between, which
  is the bound the code really gives (`2 * PerMinute` for a minute) where its comment
  promises half. `HalfTheBudgetIsUsable`: `allow` rounds down and forgets the fraction, so
  the budget can shrink, but never below half. `CacheIsBounded`: the cache has no bound of
  its own, and gets one from the limiter.
- `FromLatestStart`, `NoTimeTwice`: the stamp a time is taken from is the newest of its
  key, is used once, and the times of one key never overlap. `TimeIsItsOwn`: a syscall
  gets its own duration, a disk request never more than its own, though requests of two
  devices share keys. `MissedOnlyWhenFull`: what is under way is in the map unless the
  map was full. `SyncIsPromoted`: the three letters of `rwbs` that are looked at are
  enough for all the kernel can print.
- `StreamTellsConnections`: CONNECT and CLOSE tell which sockets are connected, despite
  failed connects and all the states without a record. `DeltaNeverOverstates`: opens less
  closes err, and only towards fewer descriptors than a process has.
- `IndexesFollowInformer`: both indexes are those of the informer's pods whenever the
  handlers have caught up. `LaterPollsAreNamed`: once the cluster stays reachable, every
  entry comes to bear the name of its pod, after any number of failed starts, outages
  and changes before.
- `LimitsReportedOnce`: nested groups are reported by the innermost with a limit, none
  twice and none missed for a change elsewhere in the tree. `RatesAreReal`: a path that
  changed hands is not given events that never happened. `GaugeMatchesSnapshot`: nothing
  of a pod that has gone stays in the gauge.

### Bounds

| Run | Bounds | Why enough |
|---|---|---|
| `pipeline` | ring and channel of 2, 5 events, event 2 unreadable | ring, channel and hand can all be full with one event to be dropped; every position of a goroutine meets every fill level. |
| `keyed_collectors` | 4 keys, capacity 3, 2 rows, 5 events, two latencies | an eviction, the return of the evicted key, ties and strict orders in the ranking, and a cut, all around one snapshot. Keys are symmetric: no operator orders them. |
| `ai_analysis` | 5 fingerprints, 2 calls in 4 ticks, TTL 1, cache limit 2, 6 ticks | a refill of half a token more than it counts, a burst, an idle spell, an expiry, and one more answer than the bound on the cache admits. Fingerprints are symmetric. |
| `doctor_session` | `oom` and one counter; log of 2 and 3 kills; history of 2 and 3 cycles | log and history both overflow; a collector fails to load, dies, or is late in every phase. |
| `bpf_programs` | 3 threads; 4 requests at sectors 1, 1, 2 and 0; 2 tasks on 1 CPU; an IPv4 and an IPv6 socket; a process of at most 2 descriptors; map of 1, ring of 2, 3 ticks | a map that is full for a second key, two operations on one key, an id in its second life, two records of one key, one record too many, a time below and one above the filter. |
| `pod_enrichment` | one name, two uids, one container slot, back-off of at most 2; a pod with a container and a service under the root; `high` up to 2 | a pod made again under its name, containers that change between two calls, all orders of outage and start. `Scenarios` divides what may happen between cluster and node: any tree with two changes during the polls and no cluster; a path used again and again; five changes of the cluster from each state of what works; some of both. |

`MaxEvents`, `MaxRecords`, `MaxCycles`, `MaxTime`, `MaxUid`, `MaxHigh`, `MaxFds` and `Scenarios` bound counters that the code does not bound;
the proofs hold for every value of them. The capacities are parameters (ring 256 KiB,
channels of 256 and 64, 4096 keys, 256 kills, 10 snapshots, 10 calls a minute, 100 cache entries). The violation runs use the
smallest instance that shows the case. Deadlock is not checked where the system stops:
a pipeline that is down, a session that has ended or used up its cycles, a clock at its
bound under a provider that does not answer.

### Fairness

`EventPipeline!Fairness`: each goroutine with something to do is scheduled (Go's
scheduler is preemptive and none of them holds a lock across a block), `Read` returns
when the ring has data or the reader was closed, and `Stop`'s timer fires. Nothing makes
hooks fire, reads fail or signals arrive. A select with two ready arms gets fairness for
the pair only where the code has just the pair (`Send \/ SendCancelled`); Go picks a ready
arm at random, and a consumer of a cancelled context that keeps finding events ends
with probability one, which is the weak fairness of `ConsumerExit`.
`DoctorSession!FairSpec`: `main` is scheduled and the timer of the window fires. The
interval of a continuous run is not assumed to pass. `Diagnose` is one step there: with an
AI analyzer that assumes a provider that answers or fails, which the code does not
enforce (no client timeout, and doctor's context is never cancelled).
`PodEnrichment!Fairness`: the goroutines of the adapter, of its handlers and of the
collector run and their timers fire, and client-go lists and notices changes as long as
the API server answers. That is continuous only while the server works, so that
`LaterPollsAreNamed` has to assume it. Outages, pods and groups come and go as they like.

## Proofs

All theorems hold for every value of the constants under the named assumptions
(capacities positive, bounds natural, `KeyCap` any integer). Every invariant and every
action property that a run checks, and the refinement of `LossyFifo`, is one of them.
Two tools come back in most modules. The provers cannot instantiate the library's
induction theorems, so induction goes by the least counterexample: a nonempty set of
numbers has a least element (`LeastNumber`, `FirstPath`, from `WFMin`), and below it the claim
holds. And a fact about sequences or functions that a step needs is a lemma over
parameters, not over the variables, so that it serves the state before a step and the
state after it.

**`EventPipelineProofs`** (`TypeOK`, `LossBudget`, `FifoOrder`, `FrozenAfterStop`,
`ImplementsLossyFifo`).
The budget is not inductive alone: that only one event can be lost needs that `readLoop`
holds a record exactly at its select and that it closes the channel exactly when it
exits (`Control`). The order needs each stage ordered, each below the stages behind it,
and all of them at most `emitted` (`Order`): the sequence of the whole path then
follows by lemmas on concatenation. `RefinesLossyFifo` proves `ImplementsLossyFifo`: under
`IInv`, a move between two stages leaves the queue `ch \o hand \o ring` as it is
(`RowReads`, `RowSends`), a hook appends to it or meets it full, the consumer takes its head,
and the record given up at a cancelled select is the one after `ch` (`RowLoses`).

**`LRUProofs`**. `UseKeepsOrder` gives a strictly increasing map from the positions
after a use to those before it, so that order properties transfer; `UseLength` and
`UseTracks` say what is kept and what is lost.

**`KeyedCollectorProofs`** (`TypeOK`, `LruExact`, `EntriesAccountForTotals`). `LruExact` with
the bound of `lastUse` is inductive by the LRU lemmas. Type correctness covers a
half-finished `Snapshot`; it needs that tracked keys have objects, that objects are
never removed, and that a half-read entry is the first of those to come (`Control`).
That the totals are sums over all entries ever allocated needs sums: a recorded event
adds the same to one summand and to the total (`SumsMatch`), by induction on how far the
sum has come.

**`KeyedSnapshotProofs`** (`SnapshotRegular`, `WorstOffendersFirst`), on top of the former.
`SInv` is about the objects seen under the lock: they have different keys and only grow
(`Held`); those to be ranked and those ranked share them out, and if nothing was
recorded meanwhile the latter are in order (`Ranking`); once ranked, the order they are
read in no longer changes (`Picked`, `Reading`); and what was loaded of each lies between
the lock and now (`Halfway`, `RowsAreTrue`). The lemmas are about the operators: "less" of
every collector is a strict weak order, an insertion where `less` says keeps a list
in order, and a sorted list has the rows it was made of.

**`DoctorSessionProofs`** (`TypeOK` and all five safety invariants). `Control` says what
each position of `main` implies for the loops, the closers and the exit code.
`ReportIsComplete` rests on `Snapshots`: what has been gathered lies between the end
of the window and now. `ExitCodeTellsTheTruth` is carried by `Severe` (a kill in the
signals is a critical finding, and a critical finding is printed) to `Told`, which
freezes when `main` returns. Both logs use one lemma, `NewestNext`.

**`AIAnalysisProofs`** (`TypeOK`, `AnalysisIsFresh`, `NoRedundantCalls`,
`CallsAreMetered`, `HalfTheBudgetIsUsable`, `CacheIsBounded`). Metering is inductive once the tokens left and the time up to `lastFill`
enter it (`Metered`): a refill adds no more than the time it moves `lastFill` by pays for,
and leaves less than one token of time uncounted (`BucketFacts`). The cache is related
to the history of answers from both sides: what an entry holds (`Cached`), and that an
answer younger than the TTL has an entry (`Remembered`). Half of the budget can be used because
from any moment on the calls made and the tokens left come to half of what the time is
worth, or to a whole bucket (`Budgeted`): a refill forgets less than one token and adds
at least one. The cache is bounded because every answer had a call of its own, in the
same order (`OneCallEach`), and what an eviction leaves is no older than a TTL (`Evicted`);
how many calls fit into a TTL is then a matter of metering.

**`BpfProgramsProofs`** (`TypeOK`, `FromLatestStart`, `NoTimeTwice`, `TimeIsItsOwn`,
`MissedOnlyWhenFull`, `StreamTellsConnections`, `DeltaNeverOverstates`, `SyncIsPromoted`). Each action of
the kernel is first reduced to what its hook does to map and ring: a stamp, a
measurement or nothing (`Effects`). The first two properties follow from that and from
no time being in the future (`Records`). The next two need whose stamp a key holds
(`ThreadsOwn`, `RequestsOwn`): a thread in user space has none and one in a syscall its
own, and a sector has one not older than any request issued there. The two about
records are inductive with their types. `SyncIsPromoted` follows the letters the kernel
appends for any combination of flags.

**`PodEnrichmentProofs`** (`TypeOK`, `IndexesFollowInformer`, `GaugeMatchesSnapshot`,
`LimitsReportedOnce`, `RatesAreReal`). The calls on
their way to the handlers describe a history of the copy, from what the handlers have
been told up to the copy (`History`); the indexes are those of its first state, less the
pod that a half-finished update has still to add (`Kept`). That a removal takes nothing of
another pod needs that every uid belongs to one name (`Owned`). The gauge, while it is
filled, shows the entries of the snapshot that have been taken off `found` (`Filling`).

The walk starts from the tree: that the recursion of `Above` has a solution at all is
shown with the least closed set (`AboveUnfolds`), and the rest (a path comes after those
above it, what is inside a group is inside one of its children, siblings are apart, the
depth grows by one) by least counterexample. The calls of `walkCgroups` are a path down
the tree (`Stack`). What a call has found since it began lies inside its group, and no
group that is found contains another that is found or yet to be visited (`Places`): with
that, `len(result) == 0` is the right question, and the results never overlap. Every group
that has kept its limit since the walk began is found, or something inside it, or is the
group of a call under way, or lies below a child still to be visited (`Complete`); when no
call is left, only the first case remains. Here the proof meets the two assumptions of
the property: a child is passed over only when it has gone, with all inside it, when it
could not be read, or below `MaxDepth`. For the rates, the events at a path since its last
sample are at least the growth of its counter, whoever has the path, also between the
reading of a sample and its publication (`Counted`).

Only model-checked: liveness (`EventuallyRecorded`, `ShutdownEnds`, `ReadLoopEnds`,
`EveryCycleReports`, `LaterPollsAreNamed`), since fairness and `ENABLED` are out of the
prover's reach, and the six runs that end in a violation.

## Not modelled

Rendering, configuration, providers and prompts, chaos, deployment: no behaviour of
their own beyond a call. `collector/memory.go` samples one file. The valve of the bridge
compares one counter. `vmlinux.h` is the kernel's types, generated, and nearly all the C
there is in the repository by lines; the programs that include it are modelled hook by
hook. Planned:

1. `Algorithms`: histogram percentiles, `RankFindings`, `linearSlope` and the threshold
   rules, against reference definitions over bounded inputs.
2. The windows of the watch commands, swapped while their reader counts.
3. Proofs of the steps the liveness properties rest on: what each step of a shutdown, of
   a walk or of a diagnosis brings closer to its end.
