---------------------------- MODULE InferenceServer ----------------------------
(***************************************************************************)
(* What the two kinds of server share: the HTTP handlers, the drain state  *)
(* and the graceful drain that preemption, SIGTERM or POST /internal/drain *)
(* starts (api.py, drain_state.py, preemption_listener.py,                 *)
(* peer_forwarder.py and the drain half of batching_scheduler.py in        *)
(* src/server), over request_queue.py in RequestQueue.  The scheduler's    *)
(* loop is in StaticServer or ContinuousServer.                            *)
(*                                                                         *)
(* Each request is one HTTP call and one handler task; the scheduler and   *)
(* the drain orchestrator are one task each.  The peers that take migrated *)
(* requests answer when they like, with a result or an error.  A handler   *)
(* is not cancelled when its client goes away (the framework does not      *)
(* cancel it).                                                             *)
(***************************************************************************)
EXTENDS RequestQueue

CONSTANTS
  HasPeers,         \* PEER_URLS names a peer
  ExitOnComplete    \* DRAIN_EXIT_ON_COMPLETE = "1", the default

ASSUME SettingsAreBoolean == HasPeers \in BOOLEAN /\ ExitOnComplete \in BOOLEAN

VARIABLES
  fut,              \* the future each handler waits for
  resp,             \* the HTTP answer each request got
  spc,              \* where _run_static or _run_continuous is
  drain_mode,       \* the scheduler's _drain_mode
  inflight_count,   \* the scheduler's _inflight_count
  drain_state,      \* DrainManager._state
  opc,              \* where _orchestrate_drain is
  pending,          \* drained items not yet forwarded
  migrated,         \* items forwarded with success
  drain_call,       \* the POST /internal/drain call
  alive,            \* the process runs
  queue_depth       \* the gauge of that name

scheduler == <<spc, drain_mode, inflight_count>>
drain == <<drain_state, opc, pending, migrated, drain_call>>
process == <<alive, queue_depth>>
vars == <<qvars, fut, resp, scheduler, drain, process>>

SchedPC == {"loop",      \* top of the while loop
            "pull",      \* static: in pull_batch
            "infer",     \* static: awaits the executor, which runs the batch
            "fill",      \* continuous: in try_collect_batch
            "start",     \* continuous: it has returned
            "filled",    \* continuous: the free slots have been seen to
            "blocked",   \* continuous: in get_next_batch
            "step",      \* continuous: awaits the executor, which decodes
            "sleep",     \* continuous: between two steps
            "stopped"}   \* the loop has ended

OrchPC == {"none",       \* no drain task
           "start",      \* created, not run yet
           "notify",     \* enter_drain_mode: has or awaits the queue's lock
           "notified",   \* enter_drain_mode has returned
           "drainall",   \* drain_all_pending: has or awaits the queue's lock
           "forward",    \* awaits the peer's answer for Head(pending)
           "idle",       \* in wait_idle
           "done"}

-----------------------------------------------------------------------------
(* The handlers of POST /predict and POST /generate. *)

Reject(r) ==
  /\ alive
  /\ running = NoTask
  /\ resp[r] = "none" /\ fut[r] = "none"
  /\ drain_state # "RUNNING"
  /\ resp' = [resp EXCEPT ![r] = "503"]
  /\ UNCHANGED <<qvars, fut, scheduler, drain, process>>

\* Slip: no _reject_if_draining.
AcceptUnchecked(r) ==
  /\ alive
  /\ running = NoTask
  /\ resp[r] = "none" /\ fut[r] = "none"
  /\ fut' = [fut EXCEPT ![r] = "pending"]
  /\ RequestEnqueue(r)
  /\ UNCHANGED <<resp, scheduler, drain, process>>

Accept(r) ==
  /\ alive
  /\ running = NoTask
  /\ resp[r] = "none" /\ fut[r] = "none"
  /\ drain_state = "RUNNING"
  /\ fut' = [fut EXCEPT ![r] = "pending"]
  /\ RequestEnqueue(r)
  /\ UNCHANGED <<resp, scheduler, drain, process>>

\* Slip: the gauge is left to the scheduler.
HandlerEnqueueNoGauge(r) ==
  /\ alive
  /\ Enqueue(r)
  /\ UNCHANGED <<fut, resp, scheduler, drain, process>>

HandlerEnqueue(r) ==
  /\ alive
  /\ Enqueue(r)
  /\ queue_depth' = Depth'
  /\ UNCHANGED <<fut, resp, scheduler, drain, alive>>

\* Slip: no finally clause sets the gauge again.
RespondNoGauge(r) ==
  /\ alive
  /\ running = NoTask
  /\ resp[r] = "none"
  /\ fut[r] \in {"ok", "error"}
  /\ resp' = [resp EXCEPT ![r] = IF fut[r] = "ok" THEN "200" ELSE "500"]
  /\ UNCHANGED <<qvars, fut, scheduler, drain, process>>

Respond(r) ==
  /\ alive
  /\ running = NoTask
  /\ resp[r] = "none"
  /\ fut[r] \in {"ok", "error"}
  /\ resp' = [resp EXCEPT ![r] = IF fut[r] = "ok" THEN "200" ELSE "500"]
  /\ queue_depth' = Depth
  /\ UNCHANGED <<qvars, fut, scheduler, drain, alive>>

\* Complete, with outcome o, the futures of the requests in S that are not
\* done yet.
Resolve(S, o) ==
  fut' = [r \in Request |-> IF r \in S /\ fut[r] = "pending" THEN o ELSE fut[r]]

-----------------------------------------------------------------------------
(* The drain.  begin_drain lets one caller through; its lock is never held *)
(* across a suspension, so it is one step.                                 *)

BeginDrain ==
  IF drain_state = "RUNNING"
  THEN drain_state' = "DRAINING" /\ opc' = "start"
  ELSE UNCHANGED <<drain_state, opc>>

\* The metadata poll, the simulation timer or SIGTERM.
TriggerDrain ==
  /\ alive
  /\ running = NoTask
  /\ drain_state = "RUNNING"
  /\ BeginDrain
  /\ UNCHANGED <<qvars, fut, resp, scheduler, pending, migrated, drain_call, process>>

\* POST /internal/drain: trigger, then wait for DRAINED for at most 24 s.
InternalDrain ==
  /\ alive
  /\ running = NoTask
  /\ drain_call = "none"
  /\ BeginDrain
  /\ drain_call' = IF drain_state = "DRAINED" THEN "completed" ELSE "waiting"
  /\ UNCHANGED <<qvars, fut, resp, scheduler, pending, migrated, process>>

InternalDrainAnswer ==
  /\ alive
  /\ running = NoTask
  /\ drain_call = "waiting"
  /\ drain_call' = IF drain_state = "DRAINED" THEN "completed" ELSE "timedout"
  /\ UNCHANGED <<qvars, fut, resp, scheduler, drain_state, opc, pending, migrated, process>>

\* Slip: enter_drain_mode flags the queue and forgets the scheduler.
OrchStartNoMode ==
  /\ alive
  /\ opc = "start"
  /\ running = NoTask
  /\ opc' = "notify"
  /\ Acquire(Orch)
  /\ UNCHANGED <<deques, sequence, next_sequence, draining, waiters, puller, fut,
                 resp, scheduler, drain_state, pending, migrated, drain_call, process>>

OrchStart ==
  /\ alive
  /\ opc = "start"
  /\ running = NoTask
  /\ drain_mode' = TRUE
  /\ opc' = "notify"
  /\ Acquire(Orch)
  /\ UNCHANGED <<deques, sequence, next_sequence, draining, waiters, puller, fut,
                 resp, spc, inflight_count, drain_state, pending, migrated,
                 drain_call, process>>

OrchNotify ==
  /\ alive
  /\ opc = "notify"
  /\ NotifyDraining(Orch)
  /\ opc' = "notified"
  /\ UNCHANGED <<fut, resp, scheduler, drain_state, pending, migrated, drain_call, process>>

OrchMigrate ==
  /\ alive
  /\ opc = "notified"
  /\ opc' = "drainall"
  /\ Acquire(Orch)
  /\ UNCHANGED <<deques, sequence, next_sequence, draining, waiters, puller, fut,
                 resp, scheduler, drain_state, pending, migrated, drain_call, process>>

\* Slip: the forwarding is started in the background and not awaited.
OrchDrainAllDetached ==
  /\ alive
  /\ opc = "drainall"
  /\ DrainAllPending(Orch)
  /\ pending' = IF HasPeers THEN AllPending ELSE <<>>
  /\ opc' = "idle"
  /\ UNCHANGED <<fut, resp, scheduler, drain_state, migrated, drain_call, process>>

\* Without peers the drained items are only logged.
OrchDrainAll ==
  /\ alive
  /\ opc = "drainall"
  /\ DrainAllPending(Orch)
  /\ pending' = IF HasPeers THEN AllPending ELSE <<>>
  /\ opc' = IF pending' = <<>> THEN "idle" ELSE "forward"
  /\ UNCHANGED <<fut, resp, scheduler, drain_state, migrated, drain_call, process>>

\* Send Head(pending) to a peer; the first step of a round only suspends.
OrchForwardSend ==
  /\ alive
  /\ opc = "forward"
  /\ running = Orch
  /\ Suspend
  /\ UNCHANGED <<deques, sequence, next_sequence, draining, lockq, waiters, puller,
                 fut, resp, scheduler, drain, process>>

\* Slip: a failed forward is logged and the caller is left to wait.
OrchForwardedSwallow(o) ==
  /\ alive
  /\ opc = "forward"
  /\ running = NoTask
  /\ IF o = "ok" THEN Resolve({Head(pending)}, o) ELSE UNCHANGED fut
  /\ migrated' = IF o = "ok" THEN migrated + 1 ELSE migrated
  /\ pending' = Tail(pending)
  /\ opc' = IF pending' = <<>> THEN "idle" ELSE "forward"
  /\ running' \in IF pending' = <<>> THEN {Orch, NoTask} ELSE {Orch}
  /\ UNCHANGED <<deques, sequence, next_sequence, draining, lockq, waiters, puller,
                 resp, scheduler, drain_state, drain_call, process>>

\* forward_predict for Head(pending) returned or raised: outcome o.  After the
\* last item the HTTP client is closed, which suspends if it has a connection.
OrchForwarded(o) ==
  /\ alive
  /\ opc = "forward"
  /\ running = NoTask
  /\ Resolve({Head(pending)}, o)
  /\ migrated' = IF o = "ok" THEN migrated + 1 ELSE migrated
  /\ pending' = Tail(pending)
  /\ opc' = IF pending' = <<>> THEN "idle" ELSE "forward"
  /\ running' \in IF pending' = <<>> THEN {Orch, NoTask} ELSE {Orch}
  /\ UNCHANGED <<deques, sequence, next_sequence, draining, lockq, waiters, puller,
                 resp, scheduler, drain_state, drain_call, process>>

OrchPollIdle ==
  /\ alive
  /\ opc = "idle"
  /\ running = Orch
  /\ inflight_count > 0
  /\ Suspend
  /\ UNCHANGED <<deques, sequence, next_sequence, draining, lockq, waiters, puller,
                 fut, resp, scheduler, drain, process>>

\* mark_drained, then on_shutdown, which may exit the process there and then.
OrchFinish ==
  /\ alive
  /\ opc = "idle"
  /\ CanRun(Orch)
  /\ inflight_count = 0
  /\ drain_state' = "DRAINED"
  /\ opc' = "done"
  /\ alive' = ~ExitOnComplete
  /\ Suspend
  /\ UNCHANGED <<deques, sequence, next_sequence, draining, lockq, waiters, puller,
                 fut, resp, scheduler, pending, migrated, drain_call, queue_depth>>

-----------------------------------------------------------------------------
TimePasses ==
  /\ alive
  /\ PriorityScheduling
  /\ Age
  /\ UNCHANGED <<fut, resp, scheduler, drain, process>>

ServerInit ==
  /\ QInit
  /\ fut = [r \in Request |-> "none"]
  /\ resp = [r \in Request |-> "none"]
  /\ spc = "loop"
  /\ drain_mode = FALSE
  /\ inflight_count = 0
  /\ drain_state = "RUNNING"
  /\ opc = "none"
  /\ pending = <<>>
  /\ migrated = 0
  /\ drain_call = "none"
  /\ alive = TRUE
  /\ queue_depth = 0

HandlerNext ==
  \E r \in Request : Reject(r) \/ Accept(r) \/ HandlerEnqueue(r) \/ Respond(r)

OrchNext(peer) ==
  \/ OrchStart
  \/ OrchNotify
  \/ OrchMigrate
  \/ OrchDrainAll
  \/ OrchForwardSend
  \/ \E o \in peer : OrchForwarded(o)
  \/ OrchPollIdle
  \/ OrchFinish

\* peer: how a peer may answer.
DrainNext(peer) == TriggerDrain \/ InternalDrain \/ InternalDrainAnswer \/ OrchNext(peer)

\* The server has drained and every caller has its answer, or it has exited.
Finished ==
  \/ ~alive
  \/ /\ spc = "stopped" /\ opc = "done"
     /\ \A r \in Request : resp[r] # "none"
     /\ drain_call \in {"completed", "timedout"}

-----------------------------------------------------------------------------
(* Properties of either server. *)

\* Every variable keeps to the values the code can give it; `aged` never
\* counts items that have left the batch deque.
TypeOK ==
  /\ QTypeOK
  /\ fut \in [Request -> {"none", "pending", "ok", "error"}]
  /\ resp \in [Request -> {"none", "200", "500", "503"}]
  /\ spc \in SchedPC
  /\ drain_mode \in BOOLEAN
  /\ inflight_count \in Nat
  /\ drain_state \in {"RUNNING", "DRAINING", "DRAINED"}
  /\ opc \in OrchPC
  /\ pending \in Seq(Request)
  /\ migrated \in Nat
  /\ drain_call \in {"none", "waiting", "completed", "timedout"}
  /\ alive \in BOOLEAN
  /\ queue_depth \in Nat

Occurrences(r, s) == Cardinality({n \in 1..Len(s) : s[n] = r})

\* Whether r has arrived and has not been handed to the scheduler or to a peer.
IsWaiting(r) == r \in Range(lockq) \cup Range(interactive) \cup Range(batch)

\* Within a priority class (for all requests when PRIORITY_SCHEDULING is off)
\* nobody is served before an earlier arrival, however the handlers queued
\* for the lock: if q still waits, so does every later arrival of its class.
ServedInOrder ==
  \A q, r \in Request :
    /\ IsWaiting(q)
    /\ sequence[q] < sequence[r]
    /\ PriorityScheduling => (q \in InteractiveRequest) = (r \in InteractiveRequest)
    => IsWaiting(r)

\* The scheduler never sleeps on the condition, in get_next_batch or in the
\* window of pull_batch, while there is something to wake up for.
NoLostWakeup == Sched \in waiters => ~HasReady /\ ~draining

\* Once drain_all_pending has run, nothing is in the deques and no handler is
\* on its way to put something there: nobody would ever look at it.
NothingStranded ==
  opc \in {"forward", "idle", "done"} =>
    /\ ~HasReady
    /\ \A r \in Request : r \notin Range(lockq)

\* The gauge that the router and the autoscaler read is set only here and there,
\* and still it never shows less than what waits in the deques: nobody who reads
\* it takes a server for less loaded than it is.
GaugeNeverLow == queue_depth >= Depth

\* What the scheduler takes in one step.
Taken == pulled' \ pulled

\* The batch items due for promotion.
AgedItems == Range(SubSeq(batch, 1, aged))

\* A batch item that is not due rides only in space no interactive request
\* wants, and nobody else rides while an item that is due is left behind.
PriorityOrder ==
  [][PriorityScheduling /\ Taken # {} =>
       /\ Taken \cap BatchRequest \subseteq AgedItems \/ interactive' = <<>>
       /\ Taken \subseteq AgedItems \/ AgedItems \subseteq Taken]_vars

\* Once the drain has flagged the queue, the scheduler takes nothing more.
DrainStopsPulling == [][draining => Taken = {}]_vars

\* The gauge does not stay above the queue either: once requests have stopped to
\* come, some handler or the scheduler sets it after the last change of the
\* deques, the drain's included, which does not set it itself.  With peers.
GaugeCatchesUp == <>[](queue_depth = Depth)

\* Every accepted request is answered, drain or no drain.  With peers.
EveryAcceptedAnswered ==
  \A r \in Request : fut[r] = "pending" ~> resp[r] \in {"200", "500"}

\* A drain that has begun finishes.
DrainCompletes == drain_state = "DRAINING" ~> drain_state = "DRAINED"

\* The scheduler leaves its loop after a drain, wherever the drain found it.
SchedulerStops == drain_state = "DRAINING" ~> spc = "stopped"

\* What InferenceService calls the place where request r is, when the scheduler
\* has taken the requests in `taken` and runs those in `inModel`.
FateOf(r, taken, inModel) ==
  CASE ~alive -> "none"
    [] alive /\ resp[r] # "none" -> resp[r]
    [] alive /\ resp[r] = "none" /\ fut[r] # "pending" -> fut[r]
    [] OTHER ->
         IF IsWaiting(r) THEN "queued"
         ELSE IF r \in taken THEN "admitted"
         ELSE IF r \in inModel THEN "running"
         ELSE IF r \in Range(pending) THEN "leaving" ELSE "lost"

-----------------------------------------------------------------------------
(* Inductive invariants that both servers share.                           *)

Once(s) == \A m, n \in 1..Len(s) : s[m] = s[n] => m = n

\* A request whose future is pending waits, is among those the scheduler
\* holds, or is on the migration list, and it is in one of these places only.
\* Without peers the drain drops some.
PlaceInv(held) ==
  /\ Waiting \cap held = {}
  /\ Waiting \cap Range(pending) = {}
  /\ held \cap Range(pending) = {}
  /\ Once(pending)
  /\ \A r \in Waiting \cup held \cup Range(pending) : fut[r] = "pending"
  /\ HasPeers => \A r \in Request :
       fut[r] = "pending" => r \in Waiting \cup held \cup Range(pending)
  /\ \A r \in Request : fut[r] = "pending" => resp[r] = "none"

\* What neither the handlers, nor the drain, nor the scheduler that holds the
\* requests in `held` disturb.
ServingInv(held) ==
  /\ ArrivalInv
  /\ ServedInOrder
  /\ GaugeNeverLow
  /\ PlaceInv(held)

\* Whoever has arrived has a number, and no two have the same.
NumbersInv ==
  \A q, r \in Request :
    /\ fut[r] # "none" => sequence[r] > 0
    /\ sequence[q] = sequence[r] /\ sequence[r] > 0 => q = r

\* The drain state and the orchestrator's progress say the same, and there is
\* something to forward as long as the orchestrator forwards.
DrainInv ==
  /\ drain_state = "RUNNING" <=> opc = "none"
  /\ drain_state = "DRAINED" <=> opc = "done"
  /\ opc = "forward" <=> pending # <<>>

\* A step that is not the scheduler's.
SchedulerStands ==
  /\ qpc' = qpc /\ pulled' = pulled
  /\ spc' = spc /\ inflight_count' = inflight_count
=============================================================================
