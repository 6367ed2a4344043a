---------------------------- MODULE StaticServer ----------------------------
(***************************************************************************)
(* The classification server: the static batching scheduler, _run_static   *)
(* of src/server/batching_scheduler.py, in an InferenceServer.  The        *)
(* executor that runs the model returns when it likes, with the results of *)
(* the whole batch or an exception.                                        *)
(***************************************************************************)
EXTENDS InferenceServer

CONSTANT
  MaxBatchSize      \* MAX_BATCH_SIZE

ASSUME MaxBatchSizeIsPositive == MaxBatchSize \in Nat \ {0}

-----------------------------------------------------------------------------
(* The scheduler: _run_static. *)

SchedStop ==
  /\ alive
  /\ spc = "loop"
  /\ CanRun(Sched)
  /\ drain_mode /\ inflight_count = 0
  /\ spc' = "stopped"
  /\ Suspend
  /\ UNCHANGED <<deques, sequence, next_sequence, draining, lockq, waiters,
                 puller, fut, resp, drain_mode, inflight_count, drain, process>>

\* Slip: the loop does not look at _drain_mode before it pulls.
SchedPullAlways ==
  /\ alive
  /\ spc = "loop"
  /\ CanRun(Sched)
  /\ spc' = "pull"
  /\ GetStart(Sched)
  /\ UNCHANGED <<fut, resp, drain_mode, inflight_count, drain, process>>

SchedPull ==
  /\ alive
  /\ spc = "loop"
  /\ CanRun(Sched)
  /\ ~(drain_mode /\ inflight_count = 0)
  /\ spc' = "pull"
  /\ GetStart(Sched)
  /\ UNCHANGED <<fut, resp, drain_mode, inflight_count, drain, process>>

SchedPulling ==
  /\ alive
  /\ spc = "pull"
  /\ PullBatch(Sched, MaxBatchSize)
  /\ UNCHANGED <<fut, resp, scheduler, drain, process>>

\* pull_batch came back empty-handed.
SchedNoBatch ==
  /\ alive
  /\ qpc = "returned"
  /\ pulled = {}
  /\ qpc' = "idle"
  /\ IF drain_mode
     THEN spc' = "stopped" /\ Suspend
     ELSE spc' = "loop" /\ running' = Sched
  /\ UNCHANGED <<deques, sequence, next_sequence, draining, lockq, waiters,
                 pulled, fut, resp, drain_mode, inflight_count, drain, process>>

\* Only here does the batch enter the count that wait_idle looks at.
SchedInfer ==
  /\ alive
  /\ qpc = "returned"
  /\ pulled # {}
  /\ qpc' = "idle"
  /\ spc' = "infer"
  /\ queue_depth' = Depth
  /\ inflight_count' = inflight_count + Cardinality(pulled)
  /\ Suspend
  /\ UNCHANGED <<deques, sequence, next_sequence, draining, lockq, waiters,
                 pulled, fut, resp, drain_mode, drain, alive>>

\* Slip: the count is reduced after the results, not in a finally clause.
SchedResultsNoFinally(o) ==
  /\ alive
  /\ spc = "infer"
  /\ running = NoTask
  /\ Resolve(pulled, o)
  /\ inflight_count' = IF o = "ok" THEN inflight_count - Cardinality(pulled)
                        ELSE inflight_count
  /\ pulled' = {}
  /\ spc' = "loop"
  /\ running' = Sched
  /\ UNCHANGED <<deques, sequence, next_sequence, draining, lockq, waiters,
                 qpc, resp, drain_mode, drain, process>>

\* Slip: the exception is logged and not passed on to the futures.
SchedResultsSwallow(o) ==
  /\ alive
  /\ spc = "infer"
  /\ running = NoTask
  /\ IF o = "ok" THEN Resolve(pulled, o) ELSE UNCHANGED fut
  /\ inflight_count' = inflight_count - Cardinality(pulled)
  /\ pulled' = {}
  /\ spc' = "loop"
  /\ running' = Sched
  /\ UNCHANGED <<deques, sequence, next_sequence, draining, lockq, waiters,
                 qpc, resp, drain_mode, drain, process>>

\* The executor returns the results, or run_batch raised.
SchedResults(o) ==
  /\ alive
  /\ spc = "infer"
  /\ running = NoTask
  /\ Resolve(pulled, o)
  /\ inflight_count' = inflight_count - Cardinality(pulled)
  /\ pulled' = {}
  /\ spc' = "loop"
  /\ running' = Sched
  /\ UNCHANGED <<deques, sequence, next_sequence, draining, lockq, waiters,
                 qpc, resp, drain_mode, drain, process>>

-----------------------------------------------------------------------------
Outcome == {"ok", "error"}

Init == ServerInit

SchedNext ==
  \/ SchedStop
  \/ SchedPull
  \/ SchedPulling
  \/ SchedNoBatch
  \/ SchedInfer
  \/ \E o \in Outcome : SchedResults(o)

Terminated == Finished /\ UNCHANGED vars

Next == HandlerNext \/ SchedNext \/ DrainNext(Outcome) \/ TimePasses \/ Terminated

Spec == Init /\ [][Next]_vars

\* The event loop resumes every task that is ready, the executor returns and
\* a peer answers (its client gives up after 60 s).  Nothing makes a request
\* arrive, a drain start or time pass.
Fairness ==
  /\ \A r \in Request : WF_vars(HandlerEnqueue(r)) /\ WF_vars(Respond(r))
  /\ WF_vars(SchedNext)
  /\ WF_vars(OrchNext(Outcome))

FairSpec == Spec /\ Fairness

-----------------------------------------------------------------------------
(* Properties. *)

\* How many places hold request r: its handler on its way into a deque, a
\* deque, the scheduler's batch, or the migration list.
Holders(r) ==
  Occurrences(r, lockq) + Occurrences(r, interactive \o batch)
    + (IF r \in pulled THEN 1 ELSE 0) + Occurrences(r, pending)

\* An accepted request that has no result yet is held in exactly one place,
\* so the scheduler and the drain never both serve it and neither forgets it;
\* a finished one is held nowhere.  With peers to migrate to.
HeldOnce ==
  \A r \in Request : Holders(r) = IF fut[r] = "pending" THEN 1 ELSE 0

\* A batch never outgrows max_batch_size, although it is filled in several
\* collections with the lock released in between.
BatchBounded == Cardinality(pulled) <= MaxBatchSize

\* The docstring of wait_idle, which the drain awaits before DRAINED: "Block
\* until all admitted work has completed."
DrainedMeansAdmittedFinished == drain_state = "DRAINED" => pulled = {}

\* Requests that wait for a result nobody will produce any more.
Dropped == {r \in Request : fut[r] = "pending" /\ Holders(r) = 0}

\* No code increments the counter.
requests_dropped_total == 0

\* The counter "Requests dropped during drain" counts them.
DropsAreCounted == Cardinality(Dropped) = requests_dropped_total

\* What the scheduler has taken is answered even when a drain without peers
\* drops what it has not.
AdmittedAnswered ==
  \A r \in Request : r \in pulled ~> resp[r] \in {"200", "500"}

-----------------------------------------------------------------------------
(* The server as its callers see it. *)

\* What InferenceService calls the place where request r is.
Fate(r) ==
  IF spc = "infer" THEN FateOf(r, {}, pulled) ELSE FateOf(r, pulled, {})

Service ==
  INSTANCE InferenceService WITH
    Server <- {Sched},
    Call <- Request,
    Migrating <- IF HasPeers THEN {Sched} ELSE {},
    DrainWaits <- FALSE,
    phase <- [s \in {Sched} |-> drain_state],
    call <- [s \in {Sched} |-> [r \in Request |-> Fate(r)]],
    up <- IF alive THEN {Sched} ELSE {}

\* Seen from outside the server is a service: whatever its tasks do in between,
\* each call is in one place, is answered once, is refused only after the drain
\* began and handed over only while it waits, and the server exits with nothing
\* in the executor and nothing to migrate.
ImplementsService == Service!Spec

-----------------------------------------------------------------------------
(* Inductive invariants: what the proofs need besides the properties.      *)

TypeInv ==
  /\ TypeOK
  /\ qpc \in RoomPC => Cardinality(pulled) < MaxBatchSize
  /\ qpc # "idle" <=> spc = "pull"
  /\ inflight_count = IF spc = "infer" THEN Cardinality(pulled) ELSE 0
  /\ DrainInv

\* The batch is what the scheduler holds; it is empty where a pull begins.
BatchInv ==
  /\ ServingInv(pulled)
  /\ spc = "loop" \/ qpc \in {"get", "wait"} => pulled = {}
  /\ spc = "infer" => pulled # {}
  /\ BatchBounded

\* While wait_for starts its task the scheduler still owns the lock, so what
\* it saw when it decided to wait is still true when the task goes to sleep.
WakeupInv ==
  /\ NoLostWakeup
  /\ Sched \in waiters => qpc \in {"wait", "winwait"}
  /\ qpc = "winhold" =>
       /\ lockq # <<>> /\ Head(lockq) = Sched
       /\ ~HasReady /\ ~draining

OrchQueued(s) == \E n \in 1..Len(s) : s[n] = Orch

HandlerQueued(s) == \E n \in 1..Len(s) : s[n] \in Request

NoHandlerBehindOrch(s) ==
  \A m, n \in 1..Len(s) : m < n /\ s[m] = Orch => s[n] \notin Request

\* No handler queues for the lock behind the orchestrator: it would have been
\* let in after the drain began.
StrandedInv ==
  /\ opc \in {"forward", "idle", "done"} => ~HasReady /\ ~HandlerQueued(lockq)
  /\ drain_state = "RUNNING" => opc = "none"
  /\ OrchQueued(lockq) => opc # "none"
  /\ NoHandlerBehindOrch(lockq)

\* Scheduler and orchestrator ask for the lock once at a time, and the flags of
\* the drain follow the orchestrator's progress.
LockInv ==
  /\ Once(lockq)
  /\ Sched \in Range(lockq) <=> qpc \in LockPC
  /\ Orch \in Range(lockq) <=> opc \in {"notify", "drainall"}
  /\ opc = "notified" => running = Orch
  /\ qpc = "returned" => running = Sched
  /\ drain_mode <=> opc \notin {"none", "start"}
  /\ draining <=> opc \notin {"none", "start", "notify"}

SchedBeforeOrch(s) ==
  \A m, n \in 1..Len(s) : s[m] = Sched /\ s[n] = Orch => m < n

\* The scheduler sleeps in get_next_batch only while the lock is free or in the
\* hands of the running task.  So when the drain wakes it, the orchestrator has
\* emptied the deques before; in all other cases it is ahead of the orchestrator
\* in the queue for the lock.
PullInv ==
  /\ qpc = "wait" => lockq = <<>> \/ (lockq = <<running>> /\ running # Sched)
  /\ qpc = "get" =>
       \/ lockq = <<Sched>> /\ running = Sched /\ (draining => ~HasReady)
       \/ /\ ~draining
          /\ SchedBeforeOrch(lockq)
          /\ HasReady \/ Head(lockq) \in Request
=============================================================================
