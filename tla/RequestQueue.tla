---------------------------- MODULE RequestQueue ----------------------------
(***************************************************************************)
(* The priority-aware request queue of src/server/request_queue.py: two    *)
(* deques guarded by one asyncio.Condition, filled by the HTTP handlers,   *)
(* emptied by the scheduler (pull_batch) or by the drain orchestrator      *)
(* (drain_all_pending).                                                    *)
(*                                                                         *)
(* The module holds the queue's state and one action per step of each      *)
(* method; it has no clients of its own.  StaticServer supplies them.      *)
(*                                                                         *)
(* asyncio.  All tasks share one thread and a task runs until it suspends. *)
(* `running` is the task that is between two suspension points, NoTask     *)
(* when the event loop may resume any task.  The lock is asyncio's: an     *)
(* acquirer that finds it free goes on without suspending, any other       *)
(* joins a FIFO queue, so the lock is the sequence `lockq` whose head owns *)
(* it (or has been handed it and not resumed yet).                         *)
(*                                                                         *)
(* Time.  Only one comparison of clocks decides anything in a scan of the  *)
(* batch deque: has this item waited 80% of its SLA.  Items of a deque are *)
(* in order of enqueue_time, so the eligible items are a prefix of it, and *)
(* `aged` is the length of that prefix.  (The scan reads the clock anew    *)
(* for each item; that it crosses the threshold of two items within one    *)
(* scan, the later item first, is left out.)                               *)
(*                                                                         *)
(* A definition introduced by "Slip:" is a plausible mistake in the code   *)
(* that the definition below it models.  No specification uses it; put in  *)
(* that definition's place it shows what some property is there to catch.  *)
(***************************************************************************)
EXTENDS Integers, Sequences, FiniteSets, Functions

CONSTANTS
  InteractiveRequest,   \* requests with priority "interactive"
  BatchRequest,         \* requests with priority "batch"
  Sched,                \* the scheduler task
  Orch,                 \* the drain orchestration task
  NoTask,               \* the event loop is between two tasks
  PriorityScheduling    \* config.PRIORITY_SCHEDULING

Request == InteractiveRequest \cup BatchRequest
Task == Request \cup {Sched, Orch}

ASSUME PrioritiesDisjoint == InteractiveRequest \cap BatchRequest = {}
ASSUME RequestsFinite == IsFiniteSet(Request)
ASSUME TasksDistinct ==
  /\ {Sched, Orch, NoTask} \cap Request = {}
  /\ Sched # Orch /\ Sched # NoTask /\ Orch # NoTask
ASSUME PrioritySchedulingIsBoolean == PriorityScheduling \in BOOLEAN

VARIABLES
  interactive,    \* deque of waiting interactive requests
  batch,          \* deque of waiting batch requests
  aged,           \* how many at the front of batch are due for promotion
  sequence,       \* arrival number of each request, 0 before it arrives
  next_sequence,
  draining,       \* the queue's own _draining flag
  lockq,          \* owner of the lock, then the tasks that wait for it
  waiters,        \* tasks that sleep on the condition
  running,
  qpc,            \* where the scheduler is inside pull_batch/get_next_batch
  pulled          \* the batch it has collected: pull_batch's local `batch`

deques == <<interactive, batch, aged>>
condition == <<lockq, waiters, running>>
puller == <<qpc, pulled>>
qvars == <<deques, sequence, next_sequence, draining, condition, puller>>

PullPC == {"idle",       \* not inside the queue
           "get",        \* get_next_batch: has or awaits the lock
           "wait",       \* get_next_batch: sleeps until there is work
           "window",     \* pull_batch: at the top of the window loop
           "winlock",    \* pull_batch: has or awaits the lock
           "winhold",    \* wait_for made a task for wait(); lock still held
           "winwait",    \* that task sleeps on the condition
           "winqueue",   \* it was notified and awaits the lock
           "winowned",   \* it has the lock back
           "winexpired", \* the window ended first; it must get the lock back
           "returned"}   \* pull_batch has returned `pulled`

-----------------------------------------------------------------------------
(* The event loop and the condition. *)

CanRun(t) == running \in {NoTask, t}

Suspend == running' = NoTask

\* The acquirer goes on at once when the lock is free and nobody waits for it.
Acquire(t) ==
  /\ lockq' = Append(lockq, t)
  /\ running' = IF lockq = <<>> THEN t ELSE NoTask

Holds(t) ==
  /\ CanRun(t)
  /\ lockq # <<>>
  /\ Head(lockq) = t

Release == lockq' = Tail(lockq)

NotifyAll == waiters' = {}

-----------------------------------------------------------------------------
(* What a collection takes.  Each mode takes a prefix of each deque. *)

Least(m, n) == IF m <= n THEN m ELSE n

Drop(s, n) == SubSeq(s, n + 1, Len(s))

HasReady == interactive # <<>> \/ batch # <<>>

Depth == Len(interactive) + Len(batch)

\* Slip: the two deques are joined and cut without being sorted first.
UpToUnsorted(r) ==
  IF r \in InteractiveRequest
  THEN {q \in Range(interactive) : sequence[q] <= sequence[r]}
  ELSE Range(interactive) \cup {q \in Range(batch) : sequence[q] <= sequence[r]}

\* The requests at or before r in the combined order of arrival.
UpTo(r) ==
  {q \in Range(interactive) \cup Range(batch) : sequence[q] <= sequence[r]}

\* The positions of the deque s among the first k arrivals of both deques.
FifoFirst(s, k) == {n \in 1..Len(s) : Cardinality(UpTo(s[n])) <= k}

\* Slip: interactive requests leave no room for promoted ones.
TakeInteractiveFirst(k) == Least(Len(interactive), k)

\* Promoted batch items ride first, then interactive ones, then batch filler.
TakeInteractive(k) ==
  IF PriorityScheduling
  THEN Least(Len(interactive), k - Least(aged, k))
  ELSE Cardinality(FifoFirst(interactive, k))

TakeBatch(k) ==
  IF PriorityScheduling
  THEN Least(Len(batch), k - TakeInteractive(k))
  ELSE Cardinality(FifoFirst(batch, k))

Collected(k) ==
  Range(SubSeq(interactive, 1, TakeInteractive(k)))
    \cup Range(SubSeq(batch, 1, TakeBatch(k)))

\* _collect_batch: k is the room left in the caller's batch, never 0 here.
CollectBatch(k) ==
  /\ interactive' = Drop(interactive, TakeInteractive(k))
  /\ batch' = Drop(batch, TakeBatch(k))
  /\ aged' = IF aged <= TakeBatch(k) THEN 0 ELSE aged - TakeBatch(k)
  /\ pulled' = pulled \cup Collected(k)

-----------------------------------------------------------------------------
(* enqueue, by handler r: the item is numbered before the lock is taken. *)

RequestEnqueue(r) ==
  /\ next_sequence' = next_sequence + 1
  /\ sequence' = [sequence EXCEPT ![r] = next_sequence']
  /\ Acquire(r)
  /\ UNCHANGED <<deques, draining, waiters, puller>>

\* Slip: the scheduler is not told.
EnqueueSilently(r) ==
  /\ Holds(r)
  /\ IF r \in InteractiveRequest
     THEN interactive' = Append(interactive, r) /\ UNCHANGED batch
     ELSE batch' = Append(batch, r) /\ UNCHANGED interactive
  /\ Release
  /\ Suspend
  /\ UNCHANGED <<aged, sequence, next_sequence, draining, waiters, puller>>

\* Slip: appendleft.
EnqueueLeft(r) ==
  /\ Holds(r)
  /\ IF r \in InteractiveRequest
     THEN interactive' = <<r>> \o interactive /\ UNCHANGED batch
     ELSE batch' = <<r>> \o batch /\ UNCHANGED interactive
  /\ NotifyAll
  /\ Release
  /\ Suspend
  /\ UNCHANGED <<aged, sequence, next_sequence, draining, puller>>

Enqueue(r) ==
  /\ Holds(r)
  /\ IF r \in InteractiveRequest
     THEN interactive' = Append(interactive, r) /\ UNCHANGED batch
     ELSE batch' = Append(batch, r) /\ UNCHANGED interactive
  /\ NotifyAll
  /\ Release
  /\ Suspend
  /\ UNCHANGED <<aged, sequence, next_sequence, draining, puller>>

-----------------------------------------------------------------------------
(* notify_draining and drain_all_pending, by task t. *)

NotifyDraining(t) ==
  /\ Holds(t)
  /\ draining' = TRUE
  /\ NotifyAll
  /\ Release
  /\ running' = t
  /\ UNCHANGED <<deques, sequence, next_sequence, puller>>

\* Slip: only one of the deques is handed over.
InteractivePending == interactive

\* Nothing in a deque has been admitted, so the caller gets all of it.
AllPending == interactive \o batch

\* Slip: the batch deque is cleared but not the promotion mark that goes with it.
DrainAllPendingKeepAged(t) ==
  /\ Holds(t)
  /\ interactive' = <<>>
  /\ batch' = <<>>
  /\ NotifyAll
  /\ Release
  /\ running' = t
  /\ UNCHANGED <<aged, sequence, next_sequence, draining, puller>>

DrainAllPending(t) ==
  /\ Holds(t)
  /\ interactive' = <<>>
  /\ batch' = <<>>
  /\ aged' = 0
  /\ NotifyAll
  /\ Release
  /\ running' = t
  /\ UNCHANGED <<sequence, next_sequence, draining, puller>>

-----------------------------------------------------------------------------
(* get_next_batch(k), by task t. *)

GetStart(t) ==
  /\ qpc = "idle"
  /\ qpc' = "get"
  /\ Acquire(t)
  /\ UNCHANGED <<deques, sequence, next_sequence, draining, waiters, pulled>>

\* A ready item is collected even when the queue is draining.
GetCollect(t, k) ==
  /\ qpc = "get"
  /\ Holds(t)
  /\ HasReady
  /\ CollectBatch(k)
  /\ qpc' = IF Cardinality(pulled') < k THEN "window" ELSE "returned"
  /\ Release
  /\ running' = t
  /\ UNCHANGED <<sequence, next_sequence, draining, waiters>>

GetNothing(t) ==
  /\ qpc = "get"
  /\ Holds(t)
  /\ ~HasReady
  /\ draining
  /\ qpc' = "returned"
  /\ Release
  /\ running' = t
  /\ UNCHANGED <<deques, sequence, next_sequence, draining, waiters, pulled>>

GetWait(t) ==
  /\ qpc = "get"
  /\ Holds(t)
  /\ ~HasReady
  /\ ~draining
  /\ qpc' = "wait"
  /\ waiters' = waiters \cup {t}
  /\ Release
  /\ Suspend
  /\ UNCHANGED <<deques, sequence, next_sequence, draining, pulled>>

GetWoken(t) ==
  /\ qpc = "wait"
  /\ t \notin waiters
  /\ CanRun(t)
  /\ qpc' = "get"
  /\ Acquire(t)
  /\ UNCHANGED <<deques, sequence, next_sequence, draining, waiters, pulled>>

-----------------------------------------------------------------------------
(* The rest of pull_batch(k), by task t: the window in which a short batch *)
(* waits for more.  The deadline may pass whenever the clock is read.      *)

WindowClose(t) ==
  /\ qpc = "window"
  /\ CanRun(t)
  /\ qpc' = "returned"
  /\ running' = t
  /\ UNCHANGED <<deques, sequence, next_sequence, draining, lockq, waiters, pulled>>

WindowLock(t, k) ==
  /\ qpc = "window"
  /\ CanRun(t)
  /\ Cardinality(pulled) < k
  /\ ~draining
  /\ qpc' = "winlock"
  /\ Acquire(t)
  /\ UNCHANGED <<deques, sequence, next_sequence, draining, waiters, pulled>>

WindowDraining(t) ==
  /\ qpc = "winlock"
  /\ Holds(t)
  /\ draining
  /\ qpc' = "returned"
  /\ Release
  /\ running' = t
  /\ UNCHANGED <<deques, sequence, next_sequence, draining, waiters, pulled>>

\* Slip: the room already used is not subtracted.
WindowExtraFull(t, k) ==
  /\ qpc = "winlock"
  /\ Holds(t)
  /\ ~draining
  /\ HasReady
  /\ CollectBatch(k)
  /\ qpc' = "window"
  /\ Release
  /\ running' = t
  /\ UNCHANGED <<sequence, next_sequence, draining, waiters>>

WindowExtra(t, k) ==
  /\ qpc = "winlock"
  /\ Holds(t)
  /\ ~draining
  /\ HasReady
  /\ CollectBatch(k - Cardinality(pulled))
  /\ qpc' = "window"
  /\ Release
  /\ running' = t
  /\ UNCHANGED <<sequence, next_sequence, draining, waiters>>

\* asyncio.wait_for runs condition.wait() in a new task: the puller suspends
\* with the lock held, and only that task's first step gives it up.
WindowWait(t) ==
  /\ qpc = "winlock"
  /\ Holds(t)
  /\ ~draining
  /\ ~HasReady
  /\ qpc' = "winhold"
  /\ Suspend
  /\ UNCHANGED <<deques, sequence, next_sequence, draining, lockq, waiters, pulled>>

WindowSleep(t) ==
  /\ qpc = "winhold"
  /\ Holds(t)
  /\ qpc' = "winwait"
  /\ waiters' = waiters \cup {t}
  /\ Release
  /\ Suspend
  /\ UNCHANGED <<deques, sequence, next_sequence, draining, pulled>>

\* The puller itself resumes a turn of the loop after its task has the lock.
WindowWoken(t) ==
  /\ qpc = "winwait"
  /\ t \notin waiters
  /\ CanRun(t)
  /\ qpc' = IF lockq = <<>> THEN "winowned" ELSE "winqueue"
  /\ lockq' = Append(lockq, t)
  /\ Suspend
  /\ UNCHANGED <<deques, sequence, next_sequence, draining, waiters, pulled>>

WindowGranted(t) ==
  /\ qpc = "winqueue"
  /\ Holds(t)
  /\ qpc' = "winowned"
  /\ Suspend
  /\ UNCHANGED <<deques, sequence, next_sequence, draining, lockq, waiters, pulled>>

WindowCollect(t, k) ==
  /\ qpc = "winowned"
  /\ Holds(t)
  /\ IF draining
     THEN UNCHANGED <<deques, pulled>>
     ELSE CollectBatch(k - Cardinality(pulled))
  /\ qpc' = "window"
  /\ Release
  /\ running' = t
  /\ UNCHANGED <<sequence, next_sequence, draining, waiters>>

\* wait_for cancels its task, which takes the lock again before it ends.
WindowTimeout(t) ==
  /\ qpc = "winwait"
  /\ CanRun(t)
  /\ qpc' = "winexpired"
  /\ waiters' = waiters \ {t}
  /\ lockq' = Append(lockq, t)
  /\ Suspend
  /\ UNCHANGED <<deques, sequence, next_sequence, draining, pulled>>

\* Cancelled while it queues for the lock, it leaves its place and requeues.
WindowTimeoutQueued(t) ==
  /\ qpc = "winqueue"
  /\ CanRun(t)
  /\ qpc' = "winexpired"
  /\ \E n \in 1..Len(lockq) :
       /\ lockq[n] = t
       /\ lockq' = SubSeq(lockq, 1, n - 1) \o Append(Drop(lockq, n), t)
  /\ Suspend
  /\ UNCHANGED <<deques, sequence, next_sequence, draining, waiters, pulled>>

WindowExpired(t) ==
  /\ qpc = "winexpired"
  /\ Holds(t)
  /\ qpc' = "returned"
  /\ Release
  /\ running' = t
  /\ UNCHANGED <<deques, sequence, next_sequence, draining, waiters, pulled>>

PullBatch(t, k) ==
  \/ GetCollect(t, k)
  \/ GetNothing(t)
  \/ GetWait(t)
  \/ GetWoken(t)
  \/ WindowClose(t)
  \/ WindowLock(t, k)
  \/ WindowDraining(t)
  \/ WindowExtra(t, k)
  \/ WindowWait(t)
  \/ WindowSleep(t)
  \/ WindowWoken(t)
  \/ WindowGranted(t)
  \/ WindowCollect(t, k)
  \/ WindowTimeout(t)
  \/ WindowTimeoutQueued(t)
  \/ WindowExpired(t)

-----------------------------------------------------------------------------
\* try_collect_batch(k), by task t once it has the lock.
TryCollect(t, k) ==
  /\ Holds(t)
  /\ IF draining \/ ~HasReady
     THEN UNCHANGED <<deques, pulled>>
     ELSE CollectBatch(k)
  /\ Release
  /\ running' = t
  /\ UNCHANGED <<sequence, next_sequence, draining, waiters, qpc>>

-----------------------------------------------------------------------------
\* One more batch item has waited as long as promotion asks for.
Age ==
  /\ aged < Len(batch)
  /\ aged' = aged + 1
  /\ UNCHANGED <<interactive, batch, sequence, next_sequence, draining,
                 condition, puller>>

QInit ==
  /\ interactive = <<>>
  /\ batch = <<>>
  /\ aged = 0
  /\ sequence = [r \in Request |-> 0]
  /\ next_sequence = 0
  /\ draining = FALSE
  /\ lockq = <<>>
  /\ waiters = {}
  /\ running = NoTask
  /\ qpc = "idle"
  /\ pulled = {}

QTypeOK ==
  /\ interactive \in Seq(InteractiveRequest)
  /\ batch \in Seq(BatchRequest)
  /\ aged \in 0..Len(batch)
  /\ sequence \in [Request -> Nat]
  /\ next_sequence \in Nat
  /\ draining \in BOOLEAN
  /\ lockq \in Seq(Task)
  /\ waiters \subseteq Task
  /\ running \in Task \cup {NoTask}
  /\ qpc \in PullPC
  /\ pulled \subseteq Request

-----------------------------------------------------------------------------
(* What the proofs need to know of the order of arrival.                   *)

\* The requests that have arrived and have not been taken: their handlers wait
\* for the lock, or they are in a deque.
Waiting == Request \cap (Range(lockq) \cup Range(interactive) \cup Range(batch))

\* The requests in s are in order of their numbers.
InOrder(s, number) ==
  \A m, n \in 1..Len(s) :
    m < n /\ s[m] \in Request /\ s[n] \in Request => number[s[m]] < number[s[n]]

\* Numbers are given out before the lock is taken, and the lock is fair: the
\* handlers wait for it in order of arrival, behind all that is in the deques.
ArrivalInv ==
  /\ \A r \in Request : sequence[r] <= next_sequence
  /\ InOrder(lockq, sequence)
  /\ InOrder(interactive, sequence)
  /\ InOrder(batch, sequence)
  /\ \A q \in Range(interactive) \cup Range(batch), r \in Request \cap Range(lockq) :
       sequence[q] < sequence[r]

\* Where pull_batch has found room in its batch and has not filled it since.
RoomPC == {"winlock", "winhold", "winwait", "winqueue", "winowned"}

\* Where the scheduler owns the lock or waits for it.
LockPC == {"get", "winlock", "winhold", "winqueue", "winowned", "winexpired"}

\* The queue promises to serve the earlier of q and r first.
OrderPromised(q, r) ==
  PriorityScheduling => (q \in InteractiveRequest) = (r \in InteractiveRequest)

\* A step that takes the requests in C from the queue, and none that has to
\* stand back behind a request that stays.
TakesAhead(C) ==
  /\ C \subseteq Waiting
  /\ Waiting' = Waiting \ C
  /\ sequence' = sequence
  /\ \A q \in Waiting', r \in C : OrderPromised(q, r) => sequence[r] < sequence[q]
  /\ Depth' <= Depth
=============================================================================
