# A verification project for the preemption-aware inference server

The program (`src/server`) serves a model over HTTP from spot instances that
may be preempted. A server queues requests by priority, batches them, and when
the cloud announces a preemption it drains: it stops taking work, hands its
queue to peers, finishes what the executor holds, and exits. A load router
splits clients between a spot and an on-demand pool.

The modules here model that program's control: every suspension point of its
asyncio tasks is a step, so that what TLC explores is every order in which the
event loop can run them. All paths below are relative to the repository.

- [Inventory](#inventory): components, state, operations, hazards
- [Modules](#modules): what models what, and the abstractions
- [Runs](#runs): what each run asks, its bounds, its fairness
- [Disagreements with the documentation](#disagreements-with-the-documentation)
- [Proofs](#proofs)
- [Not modelled](#not-modelled)
- [Plan](#plan)

## Inventory

| Component | Source | State | Operations |
|---|---|---|---|
| Request queue | `src/server/request_queue.py` | two deques, arrival counter, draining flag, one `asyncio.Condition` | `enqueue`, `get_next_batch`, `pull_batch`, `try_collect_batch`, `drain_all_pending`, `notify_draining` |
| Static scheduler | `src/server/batching_scheduler.py:115-147` | `_drain_mode`, `_inflight_count`, the batch in hand | `_run_static`, `enter_drain_mode`, `wait_idle` |
| Continuous scheduler | `src/server/batching_scheduler.py:149-249` | table of decode slots, blocked request, the same two fields | `_run_continuous`, `_fill_free_slots`, `_resolve_finished_slot` |
| Model worker | `src/server/model_worker.py` | the model, the cache of each sequence | `run_batch`, `start_sequence`, `decode_step` |
| Drain state | `src/server/drain_state.py` | RUNNING, DRAINING or DRAINED; an event | `begin_drain`, `mark_drained`, `wait_drained` |
| Preemption listener | `src/server/preemption_listener.py` | the drain task | metadata poll, SIGTERM, simulation, `trigger_drain`, `_orchestrate_drain`, `_migrate_pending_queue` |
| Peer forwarder | `src/server/peer_forwarder.py` | round-robin index, HTTP client | `forward_predict` |
| HTTP API | `src/server/api.py` | one future for each request | `/predict`, `/generate`, `/internal/drain`, `/healthz` |
| Load router | `src/server/load_router.py`, `router_app.py` | health and depth of each backend | `refresh_metrics`, `choose_pool`, `forward_predict` |
| Autoscaling arithmetic | `src/k8s/scripts/hpa_dry_run.py` | the depths read so far | `fetch_queue_depth`, `implied_replicas`, the advice |
| Metrics | `src/server/metrics.py`, `gpu_metrics.py` | counters, gauges | output |

How they interact. An HTTP handler calls `enqueue` and then awaits its future.
The scheduler awaits `pull_batch`, runs the batch in an executor thread and
completes the futures. A trigger calls `begin_drain`; the first to do so starts
one orchestration task, which calls `enter_drain_mode` on the scheduler (and
through it `notify_draining` on the queue), empties the deques with
`drain_all_pending`, forwards what it got to peers one at a time and completes
*those* futures, polls `_inflight_count` in `wait_idle`, calls `mark_drained`
and, by default, exits the process. So a future has two possible writers, the
deques two consumers, and the lock of the condition three kinds of client.
Between servers: the router and a draining peer post to the same `/predict`; the
router reads the gauge and the health of a pool from `/metrics` and `/healthz`,
the autoscaler the gauge alone.

What is hard:

- **Tasks interleave at every `await`.** The lock of the queue is contended only
  when somebody suspends while holding it, and there is one place in the code
  where that happens: `asyncio.wait_for(self._condition.wait(), ...)` runs
  `wait()` in a new task, and the caller sleeps with the lock held until that
  task has started. It is enough to make every other client of the lock queue.
- **A timeout races a notification and a lock.** The window of `pull_batch` may
  end while the scheduler sleeps on the condition, or while it has been notified
  and waits for the lock; both ways it must get the lock back before it can
  return the batch it has collected.
- **Checks and uses are apart.** A handler checks the drain state and appends to
  a deque after an `await`; `wait_idle` reads a count that is raised only after
  `pull_batch` returns.
- **A drain starts at any moment**, and the process exits at its end.
- **Parts fail**: the executor for a whole batch, a peer for one request, and a
  process as a whole while others wait for it.
- **Two servers may drain towards each other**, and a call that its caller has
  given up goes on where it is.
- **Readings are out of date**: the gauge of a queue that a drain has emptied, the
  router's view of a pool, one clock after another in a promotion scan.

What makes each component correct:

- Queue: nothing lost or taken twice; arrival order within a class; priorities
  as `_collect_batch` promises; no batch over its size; no sleeper left asleep.
- Static scheduler: what it takes it answers; it stops when draining.
- Drain: no request left behind, no request served twice, DRAINED only when the
  executor is empty, and it ends.
- Continuous scheduler: a slot holds one sequence, every sequence ends, each is
  counted and resolved once, and the drain sees what the slots hold.
- Gauge: never below the depth of the queue, and equal to it once things are
  quiet.
- Servers together: no call is served twice, none is reported a success unserved,
  and all are answered.
- Promotion: a batch item does not starve, and only items that come due during a
  scan overtake an older one.
- Router: a pool that stopped is in the end no choice, one that stays up always
  is, and what a failed call leaves as a depth never turns the weights.
- Autoscaling: the least replica count that brings the load under the target.

`PROJECT.json` lists the hazards one by one, at the line where each bites, with
the properties that cover it.

## Modules

| Module | Models | State |
|---|---|---|
| `RequestQueue` | `request_queue.py` and the asyncio lock, condition and event loop it uses | `interactive`, `batch`, `aged`, `sequence`, `next_sequence`, `draining`, `lockq`, `waiters`, `running`, `qpc`, `pulled` |
| `InferenceServer` | what both kinds of server share, over `RequestQueue`: the handlers, `/internal/drain`, the drain state, the orchestration and the migration | `fut`, `resp`, `spc`, `drain_mode`, `inflight_count`, `drain_state`, `opc`, `pending`, `migrated`, `drain_call`, `alive`, `queue_depth` |
| `StaticServer` | `_run_static` in an `InferenceServer` | |
| `ContinuousServer` | `_run_continuous` in an `InferenceServer`, with the decode step | `slots`, `generated`, `finished`, `observed` |
| `InferenceService` | the abstract specification: what becomes of each call at each of a set of servers | `phase`, `call`, `up` |
| `Cluster` | servers of `InferenceService` behind the router: their calls to each other, timeouts, deaths and replacements | and `route`, `reply`, `status`, `forward`, `runs` |
| `PromotionScan` | `_collect_batch` item by item, with a clock that moves | `interactive`, `batch`, `age`, `room`, `unread`, `promoted`, `remaining`, `due`, `pulled` |
| `Autoscaler` | `hpa_dry_run.py` | `args`, `depth`, `lowest`, `highest`, `depths`, `bare`, `outcome`, `desired`, `action` |
| `LoadRouter` | the router's refresh loop and `forward_predict`, and the backends as it sees them | `has_url`, `steady`, `up`, `load`, `healthy`, `queue_depth`, `depth_from`, `turn`, `probe`, `answer`, `sample`, `route`, `reply`, `status` |
| `MCStaticServer`, `MCContinuousServer`, `MCLoadRouter`, `MCCluster`, `MCAutoscaler` | symmetry sets, token limits, settings of the pools, the servers and their peers, and command lines for the runs | |
| `RequestQueueProofs`, `InferenceServerProofs` | lemmas about the queue's operators, and about the steps that both servers share | |
| `StaticServerProofs`, `ContinuousServerProofs`, `PromotionScanProofs`, `AutoscalerProofs`, `LoadRouterProofs`, `ClusterProofs` | the theorems about the module of that name; `ClusterProofs` is also about `Cluster` and `LoadRouter` together | |

`RequestQueue` has one action for each stretch of code between two suspension
points of a queue method; it has no clients. `InferenceServer` EXTENDS it and
gives its actions to the handlers and the orchestrator; `StaticServer` and
`ContinuousServer` EXTEND that, give the queue's actions to their scheduler's
loop, and have the initial state and the next-state relation. The name of an
action is that of the method with the step it models: `GetCollect`, `GetWait`,
`GetWoken` are the ways through `get_next_batch`; `WindowLock`, `WindowExtra`,
`WindowWait`, ... the ways through the second half of `pull_batch`; `OrchStart`
to `OrchFinish` are `_orchestrate_drain` from top to bottom. `qpc`, `spc` and
`opc` say where the scheduler is in the queue, in its own loop, and where the
orchestrator is. `map` in `PROJECT.json` gives the lines of each definition.

In `ContinuousServer` the slot table is the set of the requests that occupy a
slot, because nothing depends on which slot a sequence has. A turn of the loop is
`TurnResolve` (answer what finished, free its slots, ask the queue),
`StartSequences`, then `TurnDecode`, `StepDone` or `StepRaised`, `Slept`; with no
sequence at all it is `TurnIdle`, which waits in `get_next_batch`, or
`TurnIdleStop`. A decode step adds a token to every sequence; which sequences end
before their `max_tokens` is left open (`eos`). Peers run in the same mode, so a
migrated generative request always fails: the forwarder posts it to `/predict`,
which a generative server does not serve (`PeerOutcome`). `start_sequence` and
`decode_sequence` are taken not to raise. The static scheduler is the only user
of `pull_batch`, so the queue's lock is never contended in a generative server.

In `LoadRouter` a backend is "ok", "draining" or "unreachable" and changes as it
likes, except that the pools in `steady` stay up and answer in time. Which pools
have a URL and which are steady is chosen in the initial state from `Settings`. A refresh
goes through the pools in order (`turn`); `probe` is the call under way, the
backend's answer and its arrival are two steps, and a call may time out whatever
became of it. A draw by weight is any choice of positive weight.

Both readers of `/metrics` take a page without the gauge for a depth of 0:
`_parse_queue_depth` of the router and `fetch_queue_depth` of the autoscaler. Any page
may lack it in `LoadRouter` (`NoGauge`) and in `Autoscaler` (`FetchQueueDepth`). Each of
the two modules has a history variable beside the code's state, for the properties to
tell this 0 from others: `depth_from` says what each pool's depth was last set by (the
default of its creation, a gauge, a page without one, a failure), and `bare` which pods
showed no gauge. A gauge that is not a number is left out.

### The abstract service

`InferenceService` has no queue, no lock and no tasks. A call is at one place at a
time: "queued", "admitted" (taken by the scheduler), "running" (in the model),
"leaving" (taken by the drain, to be sent to a peer), "lost" (taken by a drain
without peers), finished ("ok", "error") or answered ("200", "500", "503"). It
says who may move it and when: a call is accepted only by a server that is RUNNING
and refused only by one that is not; a drain takes all that waits, at once, and
nothing else; it is over only when nothing waits, leaves or runs, and the process
that exits then takes with it what it has not answered. What the two servers
differ in is the constant `DrainWaits`: the drain of the continuous server also
waits for what its scheduler has taken, that of the static one does not (see
`open_batch` below).

`StaticServer` and `ContinuousServer` implement it. The refinement mapping is `Fate`
(`FateOf` of `InferenceServer`, given what the scheduler holds), which reads a
request's place off the detailed state: a future that is done, a place in a deque or
among the handlers that wait for the lock, in the scheduler's batch, in a slot, in
the list the orchestrator forwards. The sets `phase`, `call` and `up` are those of
one server. `ImplementsService`, which is `Service!Spec`, is a PROPERTY of two runs:
no step of the scheduler, of the orchestrator or of a handler moves a request in any
other way, in whatever order they come. That includes what the scheduler's sequence
of suspensions hides: `pull_batch` that collects in three steps is three `Admit`s, a
batch that fails is one `Finish`, and a `drain_all_pending` is one `HandOver`.

`Cluster` is built of the same actions, for several servers. A draining server's
`forward_predict` is a call of its peer's handler: `ForwardSend` is accepted there
(`Accept`) or not, and `ForwardAnswered`, `ForwardFails` and `ForwardTimesOut` are
the ways it ends. The process of a server may end at any moment (`Kill`), in a
drain or out of it, and a new one takes its place (`Replace`, which waits until the
connections to the old one are gone: a new process needs 20 s until it is ready,
which is longer than it takes to refuse a connection). The router sends a call to
any pool with a URL, as its view may be as old as one likes, and the time between
its choice and the arrival is part of the time before the choice. `runs` counts how
often the model has run for each call; it is not in the code.

`Cluster` meets `LoadRouter` in `ServersAreBackends`: `LoadRouter` lets a backend
change its state and answer in certain ways, and under the mapping `BackendState`
every step of the servers, and every step of a client's call, is one of these or
changes nothing the router could see. So the two halves fit: what `LoadRouter`
shows of a router with such backends holds of a router with these servers.

### The promotion scan

`RequestQueue` collects in one step and compares with one clock. The code compares
every item with a clock of its own. `PromotionScan` has the scan item by item and
lets time pass between two reads; `CollectsInOneStep` says that a scan in which no
item comes due is exactly `RequestQueue!CollectBatch`, with `aged` the number of
items that are due, and the other properties what holds when some do. Then the
batch need not be a prefix of the deque: an item read late may be due when an older
one, read early, was not. `ServedInOrder` of the servers is to be read with this
exception. Requests come back after they have been taken, so that arrivals never
end and starvation is a question.

### Slips

Definitions introduced by "Slip:" are plausible mistakes, such as a notification
or a check left out. No specification uses them. Each was put in the place of the
definition it is a slip of, and each makes the property it is paired with in
`PROJECT.json` (`mutants`) fail: the properties can tell the code from its
near-misses.

### asyncio

- `running` is the task between two of its suspension points; another task may
  run only when it is `NoTask`. An action that ends in an `await` which really
  suspends sets it to `NoTask`; one that goes on without suspending keeps it.
- The lock is the sequence `lockq`. An acquirer that finds it empty goes on at
  once; otherwise it joins the end, and its head owns the lock or has been handed
  it. asyncio hands the lock over in FIFO order, and a newcomer does not pass
  tasks that wait.
- `notify_all` empties `waiters`; a notified task then acquires the lock again,
  in a step of its own.
- `wait_for` is modelled with its inner task: `winhold` is the turn in which the
  puller sleeps with the lock held, `winwait` the sleep on the condition,
  `winqueue` the re-acquisition, `winowned` the turn between the inner task's
  return and the puller's, `winexpired` the cancelled task that must get the lock
  back before `wait_for` raises `TimeoutError`.
- The ready queue of the event loop is not modelled: any task that can run may
  run next. That allows orders the loop's FIFO ready queue would not produce, so
  the safety properties that pass hold for the code's orders too.

### Time

`aged` is how many items at the front of the batch deque have waited 80% of
their SLA. The deque is in order of arrival (`enqueue_time` and `sequence` are
set by the same statement), so the items due are a prefix of it; `TimePasses`
lengthens the prefix by one. One scan reads one clock in `RequestQueue`; the code
reads it anew for each item, which `PromotionScan` is about. The deadline of a
window may pass whenever the code looks at it (`WindowClose`) or while it sleeps (`WindowTimeout`,
`WindowTimeoutQueued`).

### What else is abstract

A request is its identity and its class; payloads, results, latencies and the
text of errors are left out. The executor and a peer answer with "ok" or "error"
when they like. The metadata poll, the simulation timer and SIGTERM all call
`trigger_drain` and are one action, enabled once because `begin_drain` lets one
caller through; one call of `/internal/drain` races it. Clients wait for ever and
a handler is not cancelled when its client leaves, which is how the framework
treats these handlers. The lock of `DrainManager` is never held across a
suspension, so `begin_drain`, `mark_drained` and the test in `wait_drained` are
single steps.

## Runs

| Run | Asks |
|---|---|
| `static_priority` | priorities on, peers present: types; each pending request held in exactly one place (`HeldOnce`); order within a class (`ServedInOrder`); no sleeping on work (`NoLostWakeup`); nothing behind a drain (`NothingStranded`); who rides in a batch (`PriorityOrder`); no pulling once the queue is flagged (`DrainStopsPulling`); the gauge is never below the depth of the queue (`GaugeNeverLow`) |
| `static_fifo` | priorities off, batches of three: one order of arrival over both deques, and batches that grow in three collections and keep within their size (`BatchBounded`); with the default exit, the abstract service (`ImplementsService`): nothing queued, in the executor or under way to a peer in the step that becomes DRAINED and exits |
| `static_live` | every accepted request is answered; a drain ends; the scheduler stops; the gauge ends at the depth of the queue (`GaugeCatchesUp`) |
| `static_no_peers` | without peers queued requests are dropped, and what the scheduler had taken is still answered (`AdmittedAnswered`) |
| `continuous` | priorities on, sequences of different lengths: token limits (`SequencesTypeOK`), each pending request in exactly one place, a slot being one (`HeldOnce`), no more sequences than slots (`SlotsWithinPool`), no step with a free slot while a request waits (`SlotsReusedAtOnce`); every accepted request is answered, a drain ends, the loop stops; the abstract service with `DrainWaits`, in which nothing at all is unfinished at DRAINED (`ImplementsService`) |
| `router` | the router with both pools, or with on-demand alone: on-demand stays up and is always a choice (`SteadyPoolServes`), the infinite depth of a failed call is never that of a choice, and when both pools are choices it is a gauge at the threshold that favours on-demand (`FailuresNeverWeigh`), spot, once it stops for good, is in the end no choice (`StoppedPoolIsLeft`), and no request is sent to a pool without a URL (`TypeOK`), although such a pool counts as healthy until its first turn |
| `cluster` | two servers that name each other as peers and exit when drained, one of them behind the router: no call runs twice (`ServedAtMostOnce`), success means served (`SuccessMeansServed`), every call is answered although no timeout need ever fire (`EveryCallAnswered`), the servers are backends as `LoadRouter` has them (`ServersAreBackends`) |
| `promotion_scan` | `CollectsInOneStep`; whatever the clock does, nothing is lost (`ScanLosesNothing`) and what was due keeps its turn (`DueItemsKeepTheirTurn`); a batch item is taken in the end (`BatchNeverStarves`), an interactive request only if there is room for it again and again (`InteractiveServedIfRoom`) |
| `autoscaler` | the advice is the least that is enough (`AdviceIsTight`), fits the load the pods had while they were read one by one, pods without a gauge counting as empty (`AdviceMatchesLoad`), and goes with the text (`TextMatchesNumber`) |
| `open_batch`, `dropped_uncounted`, `first_token_twice` | statements of the documentation that the code does not keep, see below |

`DrainWaits` of the two refinements is to be read beside `open_batch`: the promise
of `wait_idle` fails for the static scheduler, whose `pull_batch` holds admitted
requests that are not counted, and holds for the continuous one, although its
count is refreshed only once a turn. What it takes from the queue it decodes
without suspending in between, so no suspension ever sees a sequence that the
count of the last step omits.

**Bounds.** Two interactive and two batch requests with batches of two, in
`static_priority`: enough for both classes to have an order, for a batch to be
full with requests left over, for a promoted item and an interactive one to
compete for the last place, for two handlers to queue for the lock before and
after the orchestrator, and for a migration of several items to fail in the
middle. `static_fifo` raises the batch to three so that a batch can be filled in
three collections. The liveness runs use one interactive and two batch requests,
without symmetry. The continuous run has three requests for two slots, so that
one waits for a slot, with one token or two, so that sequences end in different
turns. The router has its two pools, one client, and depths below and at the
threshold; its clients share nothing but the view they read, so one is enough. The
cluster has two servers and two calls: enough for two servers to drain towards each
other with a call each, for a server to forward one call while another waits its
turn, and for a call to come back to the successor of the server it left. Only
"spot" is behind the router there; the pools name each other, so they are alike, and
"ondemand" gets its calls by migration. Both servers may be killed and replaced
without end, as nothing counts it. The promotion scan has three batch items and two
interactive requests for batches of at most two, and a threshold of two ticks: one
item may be due, one almost and one not. `age` stops at the threshold, the only value
it is compared with. The autoscaler has one or two pods, depths up to 3 with targets 1
and 2, so that averages fall below, at and above the target and half of it, and counts
from 0 to beyond the maximum. One drain is all there can be: the state never returns to
RUNNING. `aged` is at most the length of the deque and `next_sequence` at most
the number of requests, so no counter needs an artificial bound. In
`static_priority` and `static_fifo` requests of one class are
interchangeable (`SameClass`).

**Deadlock** is checked in every run but two. `Terminated` is the stutter of a server
that has exited or has drained and answered everybody. The run without peers
turns the check off: the callers of dropped requests wait for ever, which is what
`dropped_uncounted` is about, and the autoscaler's ends when the script does.

**Fairness** (`FairSpec`, `FairClusterSpec`, `Spec` of `PromotionScan`). Weak fairness
of `HandlerEnqueue` and `Respond` of each request, of the scheduler and of the
orchestrator: asyncio runs every ready task, in FIFO order, so a task that stays
ready runs. For the scheduler it also
covers the executor, which returns or raises, and for the orchestrator the peer's
answer, whose HTTP client gives up after 60 s. The window's timeout is a step of
the scheduler, so fairness of the scheduler never relies on it alone: when it
sleeps in the window, its timeout is what is enabled, and a timer fires. Nothing
is assumed of arrivals, of the start of a drain, of time, or of the outcome ok
rather than error. For the continuous scheduler the same covers each decode step
and the sleep between two. For the router, weak fairness of the refresh loop and
of the answer it waits for: the loop sleeps two seconds and its calls end within
three, in an answer or a timeout. Nothing is assumed of the backends or clients.
In the cluster, weak fairness of each handler, each scheduler and each orchestrator,
for the reasons above, and of the router's handler, which sees an answer or a broken
connection. The timeouts of 60 s are *not* fair, so `EveryCallAnswered` does not rely
on them; no drain, death or replacement is ever due. The scan and time are fair in
`PromotionScan`: the scheduler collects again as long as there is work.

What `GaugeNeverLow` and `GaugeCatchesUp` say together: nobody who reads the gauge
takes a queue for shorter than it is, and a gauge that shows too much is put right.
The drain that empties the deques sets no gauge; the handlers of the requests it took
do, in their `finally` clause.

`FailuresNeverWeigh` does not say that a choice has been asked. A pool is healthy with
depth 0 from its creation, so that until the first round both pools are choices that
nobody has asked, and a pool whose page lacks the gauge is taken for idle. In the same
way `AdviceMatchesLoad` does not bound the advice by the load of a pod that showed no
gauge: the script says nothing of it and counts 0. What both properties exclude is that
a *failed* call is counted as a depth.

`TextMatchesNumber` is stated for `--current-replicas` equal to the number of pods
asked. The text goes by the average over those pods, the number by
`--current-replicas`, which is 1 by default: with several `--url` and no count the
two disagree, and no document says that they must not.

`HeldOnce`, `GaugeCatchesUp` and `EveryAcceptedAnswered` are stated for a server with
peers; `AdmittedAnswered` is what is left without. `Fate` maps what the drain of such
a server drops to "lost", which no run exercises.

## Disagreements with the documentation

1. `open_batch`. `wait_idle` says "Block until all admitted work has completed"
   (`src/server/batching_scheduler.py:103`), but a batch enters `_inflight_count`
   only after `pull_batch` has returned (line 131). A drain that begins while
   `pull_batch` holds a batch open in its window finds the count 0, becomes
   DRAINED and, by default, exits with the batch unserved. What the code does
   guarantee is in `FinishDrain` of `InferenceService`: such a batch is *all* that
   can be left, and when the process does not exit it is still answered
   (`EveryAcceptedAnswered`).
2. `dropped_uncounted`. The counter described as "Requests dropped during drain
   (should remain 0)" (`src/server/metrics.py:42`) is never incremented. Without
   peers the drain empties the deques and leaves the futures pending, so it
   remains 0 while requests are dropped.
3. `first_token_twice`. "Record time-to-first-token after the first generated
   token appears" (`src/server/batching_scheduler.py:199`): the time of a
   completed sequence is observed there and again, the same value, when its slot is
   resolved (line 248), so every completed sequence counts twice in the histogram.

## Proofs

Every safety invariant, every action property and every refinement of a passing run
is a theorem for all values of the constants. The theorems assume what the modules ASSUME; the two about `HeldOnce` add
`HasPeers`, as the property is stated for a server with peers, and the one about the
router's backends that the servers are the router's pools. TLC
checked every inductive invariant on the constants of a run before it was proved. The
invariants of the two servers, the promotion scan and the autoscaler stand at the end of their modules,
under the properties; those that are about the queue and the drain, and so are shared,
in `RequestQueue` and `InferenceServer`.

### The static server

`StaticServerProofs` proves, for any finite set of requests, any batch size and
every combination of `PriorityScheduling`, `HasPeers` and `ExitOnComplete`:

| Theorem | States | Rests on |
|---|---|---|
| `TypeCorrect` | `Spec => []TypeOK` | `TypeInv` |
| `ArrivalsServedInOrder` | `Spec => []ServedInOrder` | `BatchInv` |
| `BatchesFit` | `Spec => []BatchBounded` | `BatchInv` |
| `GaugeIsNeverLow` | `Spec => []GaugeNeverLow` | `BatchInv` |
| `HeldAtMostOnce` | a request is in at most one place, and in none if it has a result | `BatchInv` |
| `AcceptedHeldOnce` | `Spec => []HeldOnce`, with `HasPeers` | `BatchInv` |
| `SchedulerNeverSleepsOnWork` | `Spec => []NoLostWakeup` | `WakeupInv` |
| `NothingStrandedAfterDrain` | `Spec => []NothingStranded` | `StrandedInv` |
| `QueueClosedByDrain` | `Spec => DrainStopsPulling` | `BatchInv`, `LockInv`, `PullInv` |
| `PrioritiesObeyed` | `Spec => PriorityOrder` | `BatchInv` |
| `StaticServerIsService` | `Spec => ImplementsService` | `BatchInv`, `StrandedInv` |

All of them rest on `TypeInv` as well. The modules ASSUME that the two classes are
disjoint, the set of requests finite, the tasks distinct from requests and from each
other, the batch size positive and the settings Boolean.

**TypeInv.** `TypeOK` is not inductive. That `inflight_count` stays a natural
number needs its value: it is the size of the batch while the executor runs, and
0 otherwise (and a batch is being pulled exactly when `spc = "pull"`). That the
room asked for in a later collection is a natural number needs that the batch is
still short wherever `qpc` is between the test at the top of the window and the
collection (`RoomPC`): the lock is released in between, but nobody else touches
the scheduler's batch. That a collection leaves well-formed deques and a
promotion mark within the batch deque is `CollectType`, which rests on
`TakeType`: both modes take a prefix of each deque. `DrainInv` adds that drain state,
orchestrator and migration list agree.

**BatchInv.** Four facts that need each other, together `ServingInv`, which is
parameterised by the set of requests the scheduler holds, so that
`InferenceServerProofs` proves for both servers that handlers and drain keep it.
`ArrivalInv`: a handler takes its number before it waits for the lock, but the lock is
fair, so the handlers in `lockq` are in order of their numbers, as are the deques, and
behind all that is in a deque. From it and from `CollectInOrder` (what is left of a deque
came after what was taken of it) follows `ServedInOrder`; without priorities both
deques are cut at one number (`FifoFirst`). `GaugeNeverLow` needs that whoever appends
sets the gauge before it suspends. `PlaceInv`: the queue with those that wait for its
lock, the scheduler's batch and the migration list have no request in common, no list
has one twice, and all they hold is pending; with peers they hold all that is pending.
`BatchInv` adds that a pull begins with an empty batch. `HeldOnce` counts; the lemma
`PlacesCounted` turns counts into these set facts.

**WakeupInv.** A waiter could go to sleep on a stale reading of the queue: in the
window the puller tests the deques and the flag, suspends, and only its inner
task goes to sleep. It is safe because the lock is held throughout, which is the
third conjunct: in `winhold` the scheduler is still the head of `lockq` and what
it saw is still true. Everything that appends or flags must own the lock, so it
cannot happen in that turn, and when it happens later it empties `waiters`.

**StrandedInv.** When `drain_all_pending` runs, handlers may already have passed
the draining check. They are in `lockq`, and the argument is about its order: no
handler is behind the orchestrator (`NoHandlerBehindOrch`). A handler joins only
while the server is RUNNING, when there is no orchestrator; the orchestrator joins
at the end. So when the orchestrator is the head, the rest of the queue has no
handler and never will. The lemmas `QueueJoin`, `QueueLeave` and `QueueRejoin` say
what the three ways `lockq` changes do to it; the last is the scheduler giving up
its place when its wait times out.

**LockInv, PullInv.** `pull_batch` itself tests the flag, but `get_next_batch` takes
whatever it finds, flag or no flag. Once the flag is set it finds nothing. Either the
scheduler slept: then the lock was free or in the hands of the running task, so the
drain that sets the flag and wakes it goes on without suspending, and has emptied the
deques before the scheduler gets the lock. Or the scheduler was in the queue for the lock
ahead of the drain (`SchedBeforeOrch`), and has taken what it takes before the flag.
`PullInv` says which of the two it is; it needs that the scheduler asks for the lock once
at a time, in known places (`LockInv`).

**The refinement.** Step by step: a lemma for each kind of step says how `Fate` changes
and which action of `InferenceService` that is. Many steps change nobody's `Fate`
(`ServiceStands`). It is `PlaceInv` that makes `Fate` a function of one place, so that a
step which moves a request from one place to another moves it for the service too;
`StrandedInv` makes the migration list all that waited, so that `drain_all_pending` is
one `HandOver`; `inflight_count`, by `TypeInv`, makes an idle scheduler one with nothing
in the model, so that the exit is `FinishDrain`.

### The generative server

`ContinuousServerProofs` proves, for any finite set of requests, any limits of tokens
and any number of slots:

| Theorem | States |
|---|---|
| `SequencesKeepToLimits` | `Spec => []SequencesTypeOK` |
| `SlotsNeverOverbooked` | `Spec => []SlotsWithinPool` |
| `FreeSlotsAreReused` | `Spec => SlotsReusedAtOnce` |
| `SequenceHeldOnce` | `Spec => []HeldOnce`, with `HasPeers` |
| `GenerativeServerIsService` | `Spec => ImplementsService`, with `DrainWaits` |
| `SequencesServedInOrder`, `GaugeOfSequencesIsNeverLow`, `IdleLoopNeverSleepsOnWork`, `NoSequenceStrandedAfterDrain`, `DrainStopsTheFilling` | `ServedInOrder`, `GaugeNeverLow`, `NoLostWakeup`, `NothingStranded` and `DrainStopsPulling` hold here too |

All but the one about sleeping, which is inductive as it stands, rest on one inductive
invariant, **LoopInv**. Its parts are about what makes this loop simpler than the
other and where it is subtler:

- `LockInv`: nobody suspends while owning the queue's lock, as nobody opens a window.
  So nobody ever waits for it, and the drain goes from its start to the end of
  `drain_all_pending` at one go.
- `TurnInv`: a turn of the loop too runs at one go, up to the decode step or to the wait
  for work. What has a slot and is not in `inflight_count` was taken in the turn
  that is running, while the server was not draining: hence `DrainWaits`, although the
  count is refreshed once a turn. The table is not overbooked because a collection
  asks for the slots that are free, and `get_next_batch`, for one, is asked when all are.
- `TokenInv`: no tokens before a slot; a sequence at its limit has finished; the
  finished ones have left the table before the next step. Without the last a step could
  add a token to a sequence that has all of its own.
- `NumbersInv`: arrived requests have numbers of their own. `FillInv`: after
  the filling the table is full, or nothing is ready, or the server drains.
  That a collection which leaves something has taken all it was asked for is
  `CollectFills`, and it is here that numbers must differ: without priorities both
  deques are cut at one number, and requests with the same one would be taken or left
  together.
- `BatchInv`: `ServingInv` for what has been taken and what has a slot.

The refinement goes step by step as above, with the same lemmas about the handlers'
and the drain's steps (`Fate...` in `InferenceServerProofs`).

### The promotion scan

`PromotionScanProofs` proves, for any requests, any threshold and any size of a batch:

- `CollectionLosesNothing`: `Spec => ScanLosesNothing`
- `DueItemsAreServedFirst`: `Spec => DueItemsKeepTheirTurn`
- `CollectionIsOneStep`: `Spec => CollectsInOneStep`

They speak of the step that ends a scan, which sees only what the scan has left; the
invariant, of three parts, is what the scan keeps true while time passes:

- `DequesInv`: nobody is in a deque twice, and nobody in `batch` is younger than the
  one behind. So those who are due are the first so many of it
  (`DueItemsAreFirst`), which is why `RequestQueue` can do with a number.
- `ScanInv`: what has been read is divided between `promoted` and `remaining`, each in
  the order of the deque.
- `PromotionInv`: who is promoted is due and fits; who was due at the start is promoted,
  from the front, as far as there is room, so such an item has the same place among
  the promoted as in the deque; and if nobody else was promoted, `remaining` is what comes
  after them.

The third theorem puts these together with `RequestQueue`'s operators: `promoted` is as
long as the lesser of `due` and `room`, the two cuts of the code are the two of
`CollectBatch`, and `aged` is counted anew in the deque that is left.

### The autoscaler

`AutoscalerProofs` proves, for any depths and any command lines with at least one pod
and a positive target:

- `AdviceIsLeastEnough`: `Spec => []AdviceIsTight`
- `AdviceFitsLoad`: `Spec => []AdviceMatchesLoad`
- `TextGoesWithNumber`: `Spec => []TextMatchesNumber`

**ReadingInv** is inductive: what was read of a pod is between the least and the most
its gauge has shown, or 0 for want of a gauge, and the advice is worked out from a reading of every pod. The rest is
arithmetic: `CeilingIsLeast` (the rounded quotient is the least number that is
enough), `ImpliedGrows` (more load never asks for fewer replicas) and `TotalCompares`
(larger depths have a larger total). The last is about a sum over any number of pods; as
the provers cannot use the library's induction, `SumExists` and `SumsCompare` are proved by
least counterexample, from the well-foundedness of `<` on the natural numbers.

### The router

`LoadRouterProofs` proves, for any set of clients, any depths and any choice of
configured and of steady pools:

- `RouterTypeCorrect`: `Spec => []TypeOK`
- `FailuresNeverCount`: `Spec => []FailuresNeverWeigh`
- `SteadyPoolsServe`: `Spec => []SteadyPoolServes`

Each has its inductive invariant. `ProbeInv` adds that an answer belongs to a
call under way, without which a late error could end a turn that is over.
`DepthInv` adds that a failure's depth has been replaced wherever the call for the
health is under way (`DepthIsNoFailures`: the health is set only after it), and that
without a gauge to go by the depth is 0 (`DepthWithoutGauge`), below any threshold. `SteadyInv` adds that a steady
backend is up and that an answer in its turn is a success, so the `except` clause
can only be about the other pool. They assume `PoolsAreConfigured` and
`DepthsAreNumbers`, in which `Infinite` is a number above all depths and the
threshold, as `float("inf")` is.

### The servers together

`ClusterProofs` proves, for any set of servers and of calls, any peers of each and
any servers behind the router:

- `TypeCorrect`: `ClusterSpec => []TypeOK`
- `CallServedAtMostOnce`: `ClusterSpec => []ServedAtMostOnce`
- `SuccessWasServed`: `ClusterSpec => []SuccessMeansServed`

They assume what the modules ASSUME: the router's servers and the peers are servers,
the servers with peers are those in `Migrating`, and no server is called "none".

**OnceInv.** That `runs` is at most 1 says nothing of who may run a call next. The
invariant gives every call that has not run at most one *owner* (`Owns`, `OneOwner`):
a server where it waits or has been taken by the scheduler, or whose drain has taken
it and not sent it yet. A server gains a call in two steps only. The router sends
it, when nobody has had it (`Unsent`), or a peer does, and the step in which the peer
accepts is the one in which the sender stops being its owner: from then on it awaits
an answer, and whatever it gets, a timeout of its own included, it does not queue the
call again. A run ends ownership, so nobody is left to run the call a second time. A
peer that accepts a call which its sender gives up is covered by this: the sender
owns nothing any more.

**SuccessInv.** A result is passed on, from the model to the server that ran the call
(`Ran`), to the server that forwarded it, to the router (`Told`) and to the client. No
link makes a success of anything else.

It also proves that the servers implement the backends of `LoadRouter`, for any set
of calls and one server for each pool:

- `ServersBehaveAsBackends`: `Server = Router!Pool` implies
  `ClusterSpec => ServersAreBackends`

Its invariant is that a server refuses only while it drains and holds no call once
it is gone (`Refusals`), and that a call which was not sent has no answer
(`Unanswered`). Without the first a new process could answer 503 for the one before
it, which `LoadRouter` does not expect of a backend that is "ok". The proof has one
lemma for each kind of step (`PoolsForward`, `PoolAnswers`, `PoolDrains`, ...); whatever
else the servers do is a stutter (`RouterStutters`).

### Only model-checked

- The liveness properties: `EveryAcceptedAnswered`, `DrainCompletes`, `SchedulerStops`,
  `GaugeCatchesUp`, `AdmittedAnswered`, `StoppedPoolIsLeft`, `EveryCallAnswered`,
  `BatchNeverStarves`, `InteractiveServedIfRoom`. Liveness under fairness is outside the
  prover's reach, as is ENABLED.
- `DrainedMeansAdmittedFinished`, `DropsAreCounted` and `FirstTokenObservedOnce`, which do
  not hold.

## Not modelled

- A `start_sequence` that raises in the continuous loop, outside its `try`, and ends
  it. It tokenizes a string and fills tensors, and raises only for a worker that is
  not loaded, which start-up excludes.
- `set_draining` of the queue, which nobody calls.
- `routing_snapshot` of the router, which only reports.
- `start` and `stop` of the scheduler, the listener, the forwarder and the router,
  and what start-up builds from the configuration: a process begins with all of it
  running, and ends with a kill.
- Which peer the round robin picks (any is), and retries inside the HTTP client (there
  are none in the code).
- Generative servers in `Cluster`: a migrated generative request always fails (see
  `ContinuousServer`), so they do nothing to each other.
- The tensor work of the model worker, metrics other than the gauge of the queue, the
  drop counter and the first-token histogram, the benchmarks, the load test (which
  drives the program from outside), and the manifests with the script that validates
  them.

## Plan

Done: `RequestQueue`, the two servers and the router with their runs and first
theorems; `InferenceService` and the two servers' refinement of it; `Cluster` with its
theorems; `PromotionScan`; `Autoscaler`. All safety properties of the two servers, the
router, the cluster, the promotion scan and the autoscaler are theorems. Nothing of the
plan is left.
