------------------------- MODULE StaticServerProofs -------------------------
(***************************************************************************)
(* Theorems about StaticServer, for any finite set of requests, any batch  *)
(* size and every combination of the settings.                             *)
(***************************************************************************)
EXTENDS StaticServer, InferenceServerProofs

USE DEF CanRun, Holds, Release, Suspend, NotifyAll, Acquire, process

-----------------------------------------------------------------------------
(* Type correctness. *)

\* The inductive step of TypeInv: one step per action of the scheduler.
LEMMA TypeInvStep ==
  ASSUME TypeInv, [Next]_vars
  PROVE  TypeInv'
<1> USE DEF TypeInv
<1>1. /\ TypeOK /\ DrainInv
      /\ MaxBatchSize \in Nat \ {0}
      /\ Sched \in Task
      /\ pulled \in SUBSET Request
      /\ IsFiniteSet(pulled) /\ Cardinality(pulled) \in Nat
      /\ lockq \in Seq(Task)
      /\ Depth \in Nat
  BY MaxBatchSizeIsPositive, SizeOfRequests, DepthType DEF TypeOK, QTypeOK, Task
<1>2. Append(lockq, Sched) \in Seq(Task)
  BY <1>1, LockQueueType
<1>3. TypeOK' /\ DrainInv' /\ SchedulerStands => TypeInv'
  BY DEF SchedulerStands
<1>4. ASSUME NEW r \in Request,
             Reject(r) \/ Accept(r) \/ HandlerEnqueue(r) \/ Respond(r)
      PROVE  TypeInv'
  BY <1>1, <1>3, <1>4, HandlerType
<1>5. CASE DrainNext(Outcome)
  BY <1>1, <1>3, <1>5, DrainType DEF Outcome
<1>6. CASE TimePasses
  BY <1>1, <1>3, <1>6, TimeType
<1>7. CASE SchedStop
  BY <1>7 DEF SchedStop, TypeOK, QTypeOK, DrainInv, SchedPC, deques, puller, drain
<1>8. CASE SchedPull
  BY <1>1, <1>2, <1>8
     DEF SchedPull, GetStart, TypeOK, QTypeOK, DrainInv, SchedPC, PullPC, RoomPC,
         deques, drain
<1>9. CASE SchedPulling
  <2>1. /\ QTypeOK'
        /\ (qpc \in RoomPC => Cardinality(pulled) < MaxBatchSize)'
        /\ qpc' # "idle"
    BY <1>1, <1>9, PullBatchType DEF SchedPulling, TypeOK
  <2>2. QED
    BY <1>9, <2>1 DEF SchedPulling, TypeOK, DrainInv, scheduler, drain
<1>10. CASE SchedNoBatch
  BY <1>1, <1>10
     DEF SchedNoBatch, TypeOK, QTypeOK, DrainInv, SchedPC, PullPC, RoomPC, deques, drain
<1>11. CASE SchedInfer
  BY <1>1, <1>11
     DEF SchedInfer, TypeOK, QTypeOK, DrainInv, SchedPC, PullPC, RoomPC, deques, drain
<1>12. ASSUME NEW o \in {"ok", "error"}, SchedResults(o) PROVE TypeInv'
  <2>1. fut' \in [Request -> {"none", "pending", "ok", "error"}]
    BY <1>12 DEF SchedResults, Resolve, TypeOK
  <2>2. qpc = "idle" /\ Cardinality({}) = 0
    BY <1>12, FS_EmptySet DEF SchedResults
  <2>3. inflight_count' = 0
    BY <1>1, <1>12 DEF SchedResults
  <2>4. QED
    BY <1>1, <1>12, <2>1, <2>2, <2>3
       DEF SchedResults, TypeOK, QTypeOK, DrainInv, SchedPC, RoomPC, deques, drain
<1>13. CASE UNCHANGED vars
  BY <1>13 DEF vars, TypeOK, QTypeOK, DrainInv, qvars, deques, condition, puller,
               scheduler, drain
<1>14. QED
  BY <1>4, <1>5, <1>6, <1>7, <1>8, <1>9, <1>10, <1>11, <1>12, <1>13
     DEF Next, HandlerNext, SchedNext, Outcome, Terminated

\* So it holds in every reachable state.
LEMMA TypeInvInvariant == Spec => []TypeInv
<1>1. ASSUME Init PROVE TypeInv
  BY <1>1, ServerInitType DEF Init, ServerInit, QInit, TypeInv, RoomPC
<1>2. TypeInv /\ [Next]_vars => TypeInv'
  BY TypeInvStep
<1>3. QED
  BY <1>1, <1>2, PTL DEF Spec

\* Every reachable state of the server has the types of TypeOK: in particular
\* the promotion mark never runs past the batch deque and the count of
\* requests in flight never goes below zero.
THEOREM TypeCorrect == Spec => []TypeOK
<1>1. TypeInv => TypeOK
  BY DEF TypeInv
<1>2. QED
  BY <1>1, TypeInvInvariant, PTL

-----------------------------------------------------------------------------
(* No lost wakeup. *)

\* WakeupInv through the steps of get_next_batch and pull_batch.
LEMMA PullBatchWakeup ==
  ASSUME TypeInv, WakeupInv, PullBatch(Sched, MaxBatchSize)
  PROVE  WakeupInv'
<1> USE DEF WakeupInv, NoLostWakeup, HasReady
<1> DEFINE k == MaxBatchSize
<1>1. CASE GetCollect(Sched, k)
  BY <1>1 DEF GetCollect
<1>2. CASE GetNothing(Sched)
  BY <1>2 DEF GetNothing, deques
<1>3. CASE GetWait(Sched)
  BY <1>3 DEF GetWait, deques
<1>4. CASE GetWoken(Sched)
  BY <1>4 DEF GetWoken, deques
<1>5. CASE WindowClose(Sched)
  BY <1>5 DEF WindowClose, deques
<1>6. CASE WindowLock(Sched, k)
  BY <1>6 DEF WindowLock, deques
<1>7. CASE WindowDraining(Sched)
  BY <1>7 DEF WindowDraining, deques
<1>8. CASE WindowExtra(Sched, k)
  BY <1>8 DEF WindowExtra
<1>9. CASE WindowWait(Sched)
  BY <1>9 DEF WindowWait, deques
<1>10. CASE WindowSleep(Sched)
  BY <1>10 DEF WindowSleep, deques
<1>11. CASE WindowWoken(Sched)
  BY <1>11 DEF WindowWoken, deques
<1>12. CASE WindowGranted(Sched)
  BY <1>12 DEF WindowGranted, deques
<1>13. CASE WindowCollect(Sched, k)
  BY <1>13 DEF WindowCollect
<1>14. CASE WindowTimeout(Sched)
  BY <1>14 DEF WindowTimeout, deques
<1>15. CASE WindowTimeoutQueued(Sched)
  BY <1>15 DEF WindowTimeoutQueued, deques
<1>16. CASE WindowExpired(Sched)
  BY <1>16 DEF WindowExpired, deques
<1>17. QED
  BY <1>1, <1>2, <1>3, <1>4, <1>5, <1>6, <1>7, <1>8, <1>9, <1>10, <1>11,
     <1>12, <1>13, <1>14, <1>15, <1>16 DEF PullBatch

\* The inductive step of WakeupInv.
LEMMA WakeupInvStep ==
  ASSUME TypeInv, WakeupInv, [Next]_vars
  PROVE  WakeupInv'
<1> USE DEF WakeupInv, NoLostWakeup, HasReady
<1>1. lockq \in Seq(Task)
  BY DEF TypeInv, TypeOK, QTypeOK
<1>2. \A t \in Task : lockq # <<>> =>
        Append(lockq, t) # <<>> /\ Head(Append(lockq, t)) = Head(lockq)
  BY <1>1, HeadOfAppend
<1>3. \A r \in Request : r # Sched /\ r \in Task
  BY TasksDistinct DEF Task
<1>4. ASSUME NEW r \in Request, Reject(r) \/ Respond(r) PROVE WakeupInv'
  BY <1>4 DEF Reject, Respond, qvars, deques, condition, puller
<1>5. ASSUME NEW r \in Request, Accept(r) PROVE WakeupInv'
  BY <1>2, <1>3, <1>5 DEF Accept, RequestEnqueue, deques, puller
<1>6. ASSUME NEW r \in Request, HandlerEnqueue(r) PROVE WakeupInv'
  BY <1>3, <1>6 DEF HandlerEnqueue, Enqueue, puller
<1>7. CASE SchedStop
  BY <1>7 DEF SchedStop, deques, puller
<1>8. CASE SchedPull
  BY <1>8 DEF SchedPull, GetStart, deques
<1>9. CASE SchedPulling
  BY <1>9, PullBatchWakeup DEF SchedPulling
<1>10. CASE SchedNoBatch \/ SchedInfer
  BY <1>10 DEF SchedNoBatch, SchedInfer, deques
<1>11. ASSUME NEW o \in {"ok", "error"}, SchedResults(o) PROVE WakeupInv'
  BY <1>11 DEF SchedResults, deques
<1>12. CASE TriggerDrain \/ InternalDrain \/ InternalDrainAnswer
  BY <1>12 DEF TriggerDrain, InternalDrain, InternalDrainAnswer, qvars, deques,
               condition, puller
<1>13. CASE OrchStart
  BY <1>2, <1>13 DEF OrchStart, Task, deques, puller
<1>14. CASE OrchNotify
  BY <1>14, TasksDistinct DEF OrchNotify, NotifyDraining, deques, puller
<1>15. CASE OrchMigrate
  BY <1>2, <1>15 DEF OrchMigrate, Task, deques, puller
<1>16. CASE OrchDrainAll
  BY <1>16, TasksDistinct DEF OrchDrainAll, DrainAllPending, puller
<1>17. CASE OrchForwardSend \/ OrchPollIdle
  BY <1>17 DEF OrchForwardSend, OrchPollIdle, deques, puller
<1>18. ASSUME NEW o \in {"ok", "error"}, OrchForwarded(o) PROVE WakeupInv'
  BY <1>18 DEF OrchForwarded, deques, puller
<1>19. CASE OrchFinish
  BY <1>19 DEF OrchFinish, deques, puller
<1>20. CASE TimePasses
  BY <1>20 DEF TimePasses, Age, condition, puller
<1>21. CASE UNCHANGED vars
  BY <1>21 DEF vars, qvars, deques, condition, puller
<1>22. QED
  BY <1>4, <1>5, <1>6, <1>7, <1>8, <1>9, <1>10, <1>11, <1>12, <1>13, <1>14,
     <1>15, <1>16, <1>17, <1>18, <1>19, <1>20, <1>21
     DEF Next, HandlerNext, SchedNext, DrainNext, OrchNext, Outcome, Terminated

\* However handlers, the window's timeout and the drain interleave, the
\* scheduler never sleeps on the condition while a request is queued or the
\* queue is draining.
THEOREM SchedulerNeverSleepsOnWork == Spec => []NoLostWakeup
<1>1. ASSUME Init PROVE WakeupInv
  BY <1>1 DEF Init, ServerInit, QInit, WakeupInv, NoLostWakeup
<1>2. TypeInv /\ WakeupInv /\ [Next]_vars => WakeupInv'
  BY WakeupInvStep
<1>3. WakeupInv => NoLostWakeup
  BY DEF WakeupInv
<1>4. QED
  BY <1>1, <1>2, <1>3, TypeInvInvariant, PTL DEF Spec

-----------------------------------------------------------------------------
(* Nothing stranded. *)

\* A task joins the queue for the lock.
LEMMA QueueJoin ==
  ASSUME NEW s \in Seq(Task), NEW t \in Task
  PROVE  /\ OrchQueued(Append(s, t)) => OrchQueued(s) \/ t = Orch
         /\ HandlerQueued(Append(s, t)) => HandlerQueued(s) \/ t \in Request
         /\ NoHandlerBehindOrch(s) /\ (OrchQueued(s) => t \notin Request)
              => NoHandlerBehindOrch(Append(s, t))
<1> DEFINE a == Append(s, t)
<1>1. /\ Len(s) \in Nat /\ Len(a) = Len(s) + 1
      /\ \A i \in 1..Len(s) : a[i] = s[i]
      /\ a[Len(s) + 1] = t
  BY AppendProperties, LenProperties
<1>2. \A n \in 1..Len(a) : n \in 1..Len(s) \/ n = Len(s) + 1
  BY <1>1
<1> HIDE DEF a
<1>3. OrchQueued(a) => OrchQueued(s) \/ t = Orch
  BY <1>1, <1>2 DEF OrchQueued
<1>4. HandlerQueued(a) => HandlerQueued(s) \/ t \in Request
  BY <1>1, <1>2 DEF HandlerQueued
<1>5. ASSUME NoHandlerBehindOrch(s), OrchQueued(s) => t \notin Request
      PROVE  NoHandlerBehindOrch(a)
  <2>1. SUFFICES ASSUME NEW m \in 1..Len(a), NEW n \in 1..Len(a),
                        m < n, a[m] = Orch
                 PROVE  a[n] \notin Request
    BY DEF NoHandlerBehindOrch
  <2>2. m \in 1..Len(s) /\ s[m] = Orch
    BY <1>1, <2>1
  <2>3. QED
    BY <1>1, <1>2, <1>5, <2>1, <2>2 DEF NoHandlerBehindOrch, OrchQueued
<1>6. QED
  BY <1>3, <1>4, <1>5 DEF a

\* The owner of the lock leaves the queue; behind the orchestrator there is
\* no handler.
LEMMA QueueLeave ==
  ASSUME NEW s \in Seq(Task), s # <<>>
  PROVE  /\ OrchQueued(Tail(s)) => OrchQueued(s)
         /\ HandlerQueued(Tail(s)) => HandlerQueued(s)
         /\ NoHandlerBehindOrch(s) => NoHandlerBehindOrch(Tail(s))
         /\ NoHandlerBehindOrch(s) /\ Head(s) = Orch => ~HandlerQueued(Tail(s))
<1> DEFINE u == Tail(s)
<1>1. /\ Len(s) \in Nat \ {0} /\ Len(u) = Len(s) - 1
      /\ \A i \in 1..Len(u) : u[i] = s[i + 1]
      /\ Head(s) = s[1]
  BY HeadTailProperties, EmptySeq
<1>2. \A i \in 1..Len(u) : i + 1 \in 1..Len(s)
  BY <1>1
<1> HIDE DEF u
<1>3. OrchQueued(u) => OrchQueued(s)
  BY <1>1, <1>2 DEF OrchQueued
<1>4. HandlerQueued(u) => HandlerQueued(s)
  BY <1>1, <1>2 DEF HandlerQueued
<1>5. ASSUME NoHandlerBehindOrch(s) PROVE NoHandlerBehindOrch(u)
  <2>1. SUFFICES ASSUME NEW m \in 1..Len(u), NEW n \in 1..Len(u),
                        m < n, u[m] = Orch
                 PROVE  u[n] \notin Request
    BY DEF NoHandlerBehindOrch
  <2>2. m + 1 < n + 1 /\ s[m + 1] = Orch /\ u[n] = s[n + 1]
    BY <1>1, <2>1
  <2>3. QED
    BY <1>2, <1>5, <2>2 DEF NoHandlerBehindOrch
<1>6. ASSUME NoHandlerBehindOrch(s), Head(s) = Orch PROVE ~HandlerQueued(u)
  <2>1. \A i \in 1..Len(u) : 1 < i + 1 /\ s[i + 1] \notin Request
    BY <1>1, <1>2, <1>6 DEF NoHandlerBehindOrch
  <2>2. QED
    BY <1>1, <2>1 DEF HandlerQueued
<1>7. QED
  BY <1>3, <1>4, <1>5, <1>6 DEF u

\* The scheduler gives up its place and joins again at the end.
LEMMA QueueRejoin ==
  ASSUME NEW s \in Seq(Task), NEW k \in 1..Len(s)
  PROVE  LET q == SubSeq(s, 1, k - 1) \o Append(Drop(s, k), Sched) IN
         /\ OrchQueued(q) => OrchQueued(s)
         /\ HandlerQueued(q) => HandlerQueued(s)
         /\ NoHandlerBehindOrch(s) => NoHandlerBehindOrch(q)
<1> DEFINE front == SubSeq(s, 1, k - 1)
           rest == Drop(s, k)
           q == front \o Append(rest, Sched)
<1>1. Len(s) \in Nat
  BY LenProperties
<1>2. /\ Len(q) = Len(s)
      /\ \A i \in 1..(k - 1) : q[i] = s[i]
      /\ \A i \in k..(Len(s) - 1) : q[i] = s[i + 1]
      /\ q[Len(s)] = Sched
  BY RejoinMoves
<1> HIDE DEF q
<1>3. \A n \in 1..Len(q) :
        \/ n \in 1..(k - 1) /\ q[n] = s[n]
        \/ n \in k..(Len(s) - 1) /\ n + 1 \in 1..Len(s) /\ q[n] = s[n + 1]
        \/ n = Len(s) /\ q[n] = Sched
  BY <1>1, <1>2
<1>4. Sched # Orch /\ Sched \notin Request
  BY TasksDistinct
<1>5. OrchQueued(q) => OrchQueued(s)
  BY <1>1, <1>3, <1>4 DEF OrchQueued
<1>6. HandlerQueued(q) => HandlerQueued(s)
  BY <1>1, <1>3, <1>4 DEF HandlerQueued
<1>7. ASSUME NoHandlerBehindOrch(s) PROVE NoHandlerBehindOrch(q)
  <2>1. SUFFICES ASSUME NEW m \in 1..Len(q), NEW n \in 1..Len(q),
                        m < n, q[m] = Orch, q[n] # Sched
                 PROVE  q[n] \notin Request
    BY <1>4 DEF NoHandlerBehindOrch
  <2>2. \A l \in 1..Len(q) : q[l] # Sched =>
          \E i \in 1..Len(s) : s[i] = q[l] /\ i = IF l < k THEN l ELSE l + 1
    <3>1. SUFFICES ASSUME NEW l \in 1..Len(q), q[l] # Sched
                   PROVE  \E i \in 1..Len(s) :
                            s[i] = q[l] /\ i = IF l < k THEN l ELSE l + 1
      OBVIOUS
    <3>2. CASE l \in 1..(k - 1) /\ q[l] = s[l]
      BY <1>1, <3>2
    <3>3. CASE l \in k..(Len(s) - 1) /\ l + 1 \in 1..Len(s) /\ q[l] = s[l + 1]
      BY <1>1, <3>3
    <3>4. QED
      BY <1>3, <3>1, <3>2, <3>3
  <2>3. PICK i \in 1..Len(s) : s[i] = q[m] /\ i = IF m < k THEN m ELSE m + 1
    BY <1>4, <2>1, <2>2
  <2>4. PICK j \in 1..Len(s) : s[j] = q[n] /\ j = IF n < k THEN n ELSE n + 1
    BY <2>1, <2>2
  <2>5. i < j
    BY <1>1, <1>2, <2>1, <2>3, <2>4
  <2>6. QED
    BY <1>7, <2>1, <2>3, <2>4, <2>5 DEF NoHandlerBehindOrch
<1>8. QED
  BY <1>5, <1>6, <1>7 DEF q, front, rest

\* What a step of the scheduler inside pull_batch leaves behind: it brings no
\* task but itself to the lock, and puts nothing into the deques.
LEMMA PullBatchQueue ==
  ASSUME TypeInv, NoHandlerBehindOrch(lockq), PullBatch(Sched, MaxBatchSize)
  PROVE  /\ OrchQueued(lockq') => OrchQueued(lockq)
         /\ HandlerQueued(lockq') => HandlerQueued(lockq)
         /\ NoHandlerBehindOrch(lockq')
         /\ ~HasReady => ~HasReady'
<1> USE DEF HasReady
<1> DEFINE k == MaxBatchSize
           Kept == /\ OrchQueued(lockq') => OrchQueued(lockq)
                   /\ HandlerQueued(lockq') => HandlerQueued(lockq)
                   /\ NoHandlerBehindOrch(lockq')
           Emptied == ~HasReady => ~HasReady'
<1>1. /\ k \in Nat \ {0}
      /\ Sched \in Task /\ Sched # Orch /\ Sched \notin Request
      /\ Cardinality(pulled) \in Nat
      /\ QTypeOK /\ lockq \in Seq(Task)
      /\ qpc \in RoomPC => Cardinality(pulled) < k
  BY MaxBatchSizeIsPositive, SizeOfRequests, TasksDistinct
     DEF TypeInv, TypeOK, QTypeOK, Task
<1>2. lockq' = lockq => Kept
  OBVIOUS
<1>3. lockq' = Append(lockq, Sched) => Kept
  BY <1>1, QueueJoin
<1>4. lockq # <<>> /\ lockq' = Tail(lockq) => Kept
  BY <1>1, QueueLeave
<1>5. \A n \in 1..Len(lockq) :
        lockq' = SubSeq(lockq, 1, n - 1) \o Append(Drop(lockq, n), Sched) => Kept
  BY <1>1, QueueRejoin
<1> SUFFICES Kept /\ Emptied
  OBVIOUS
<1> HIDE DEF Kept
<1>6. CASE GetCollect(Sched, k)
  BY <1>1, <1>4, <1>6, CollectAddsNothing DEF GetCollect
<1>7. CASE \/ GetNothing(Sched) \/ GetWait(Sched) \/ WindowDraining(Sched)
           \/ WindowSleep(Sched) \/ WindowExpired(Sched)
  BY <1>4, <1>7
     DEF GetNothing, GetWait, WindowDraining, WindowSleep, WindowExpired, deques
<1>8. CASE \/ GetWoken(Sched) \/ WindowLock(Sched, k) \/ WindowWoken(Sched)
           \/ WindowTimeout(Sched)
  BY <1>3, <1>8 DEF GetWoken, WindowLock, WindowWoken, WindowTimeout, deques
<1>9. CASE WindowClose(Sched) \/ WindowWait(Sched) \/ WindowGranted(Sched)
  BY <1>2, <1>9 DEF WindowClose, WindowWait, WindowGranted, deques
<1>10. CASE WindowExtra(Sched, k) \/ WindowCollect(Sched, k)
  <2>1. k - Cardinality(pulled) \in Nat
    BY <1>1, <1>10 DEF WindowExtra, WindowCollect, RoomPC
  <2>2. Kept
    BY <1>4, <1>10 DEF WindowExtra, WindowCollect
  <2>3. CASE CollectBatch(k - Cardinality(pulled))
    BY <1>1, <2>1, <2>2, <2>3, CollectAddsNothing
  <2>4. CASE UNCHANGED <<deques, pulled>>
    BY <2>2, <2>4 DEF deques
  <2>5. QED
    BY <1>10, <2>2, <2>3, <2>4 DEF WindowExtra, WindowCollect
<1>11. CASE WindowTimeoutQueued(Sched)
  BY <1>5, <1>11 DEF WindowTimeoutQueued, deques
<1>12. QED
  BY <1>6, <1>7, <1>8, <1>9, <1>10, <1>11 DEF PullBatch

\* The inductive step of StrandedInv.
LEMMA StrandedInvStep ==
  ASSUME TypeInv, StrandedInv, [Next]_vars
  PROVE  StrandedInv'
<1> USE DEF StrandedInv, HasReady
<1> DEFINE Past == opc \in {"forward", "idle", "done"}
<1>1. /\ lockq \in Seq(Task)
      /\ Orch \in Task /\ Sched \in Task
      /\ Sched # Orch /\ Sched \notin Request /\ Orch \notin Request
  BY TasksDistinct DEF TypeInv, TypeOK, QTypeOK, Task
<1>2. /\ lockq' = Append(lockq, Orch) =>
           /\ HandlerQueued(lockq') => HandlerQueued(lockq)
           /\ NoHandlerBehindOrch(lockq')
      /\ lockq' = Append(lockq, Sched) =>
           /\ OrchQueued(lockq') => OrchQueued(lockq)
           /\ HandlerQueued(lockq') => HandlerQueued(lockq)
           /\ NoHandlerBehindOrch(lockq')
      /\ lockq # <<>> /\ lockq' = Tail(lockq) =>
           /\ OrchQueued(lockq') => OrchQueued(lockq)
           /\ HandlerQueued(lockq') => HandlerQueued(lockq)
           /\ NoHandlerBehindOrch(lockq')
           /\ Head(lockq) = Orch => ~HandlerQueued(lockq')
  BY <1>1, QueueJoin, QueueLeave
<1>3. ASSUME NEW r \in Request, Reject(r) \/ Respond(r) PROVE StrandedInv'
  BY <1>3 DEF Reject, Respond, qvars, deques, condition, drain
<1>4. ASSUME NEW r \in Request, Accept(r) PROVE StrandedInv'
  <2>1. opc = "none" /\ ~OrchQueued(lockq) /\ opc' = opc /\ drain_state' = drain_state
    BY <1>4 DEF Accept, drain
  <2>2. r \in Task /\ r # Orch /\ lockq' = Append(lockq, r)
    BY <1>4, <1>1 DEF Accept, RequestEnqueue, Task
  <2>3. NoHandlerBehindOrch(lockq') /\ ~OrchQueued(lockq')
    BY <1>1, <2>1, <2>2, QueueJoin
  <2>4. QED
    BY <2>1, <2>3
<1>5. ASSUME NEW r \in Request, HandlerEnqueue(r) PROVE StrandedInv'
  <2>1. lockq # <<>> /\ lockq' = Tail(lockq) /\ Head(lockq) = r
    BY <1>5 DEF HandlerEnqueue, Enqueue
  <2>2. HandlerQueued(lockq)
    <3>1. 1 \in 1..Len(lockq) /\ Head(lockq) = lockq[1]
      BY <1>1, <2>1, HeadTailProperties, EmptySeq
    <3>2. QED
      BY <2>1, <3>1 DEF HandlerQueued
  <2>3. ~Past /\ UNCHANGED <<opc, drain_state>>
    BY <1>5, <2>2 DEF HandlerEnqueue, drain
  <2>4. QED
    BY <1>2, <2>1, <2>3
<1>6. CASE SchedStop \/ SchedNoBatch \/ SchedInfer
  BY <1>6 DEF SchedStop, SchedNoBatch, SchedInfer, deques, drain
<1>7. CASE SchedPull
  BY <1>2, <1>7 DEF SchedPull, GetStart, deques, drain
<1>8. CASE SchedPulling
  <2>1. PullBatch(Sched, MaxBatchSize) /\ UNCHANGED <<opc, drain_state>>
    BY <1>8 DEF SchedPulling, drain
  <2>2. /\ OrchQueued(lockq') => OrchQueued(lockq)
        /\ HandlerQueued(lockq') => HandlerQueued(lockq)
        /\ NoHandlerBehindOrch(lockq')
        /\ ~HasReady => ~HasReady'
    BY <2>1, PullBatchQueue
  <2>3. QED
    BY <2>1, <2>2
<1>9. ASSUME NEW o \in {"ok", "error"}, SchedResults(o) PROVE StrandedInv'
  BY <1>9 DEF SchedResults, deques, drain
<1>10. CASE TriggerDrain \/ InternalDrain
  BY <1>10 DEF TriggerDrain, InternalDrain, BeginDrain, qvars, deques, condition
<1>11. CASE InternalDrainAnswer
  BY <1>11 DEF InternalDrainAnswer, qvars, deques, condition
<1>12. CASE OrchStart \/ OrchMigrate
  BY <1>2, <1>12 DEF OrchStart, OrchMigrate
<1>13. CASE OrchNotify
  BY <1>2, <1>13 DEF OrchNotify, NotifyDraining
<1>14. CASE OrchDrainAll
  <2>1. ~HasReady' /\ ~HandlerQueued(lockq') /\ NoHandlerBehindOrch(lockq')
    BY <1>2, <1>14 DEF OrchDrainAll, DrainAllPending
  <2>2. drain_state # "RUNNING" /\ drain_state' = drain_state /\ opc' # "none"
    BY <1>14 DEF OrchDrainAll
  <2>3. QED
    BY <2>1, <2>2
<1>15. CASE OrchForwardSend \/ OrchPollIdle
  BY <1>15 DEF OrchForwardSend, OrchPollIdle, deques, drain
<1>16. ASSUME NEW o \in {"ok", "error"}, OrchForwarded(o) PROVE StrandedInv'
  BY <1>16 DEF OrchForwarded, deques
<1>17. CASE OrchFinish
  BY <1>17 DEF OrchFinish, deques
<1>18. CASE TimePasses
  <2>1. /\ batch # <<>> /\ UNCHANGED <<interactive, batch, lockq, opc, drain_state>>
    <3>1. aged \in Nat /\ Len(<<>>) = 0
      BY EmptySeq, LenProperties DEF TypeInv, TypeOK, QTypeOK
    <3>2. QED
      BY <1>18, <3>1 DEF TimePasses, Age, condition, drain
  <2>2. QED
    BY <2>1
<1>19. CASE UNCHANGED vars
  BY <1>19 DEF vars, qvars, deques, condition, drain
<1>20. QED
  BY <1>3, <1>4, <1>5, <1>6, <1>7, <1>8, <1>9, <1>10, <1>11, <1>12, <1>13,
     <1>14, <1>15, <1>16, <1>17, <1>18, <1>19
     DEF Next, HandlerNext, SchedNext, DrainNext, OrchNext, Outcome, Terminated

\* StrandedInv holds in every state.
LEMMA StrandedInvInvariant == Spec => []StrandedInv
<1>1. ASSUME Init PROVE StrandedInv
  BY <1>1, EmptySeq DEF Init, ServerInit, QInit, StrandedInv, OrchQueued, NoHandlerBehindOrch
<1>2. TypeInv /\ StrandedInv /\ [Next]_vars => StrandedInv'
  BY StrandedInvStep
<1>3. QED
  BY <1>1, <1>2, TypeInvInvariant, PTL DEF Spec

\* However many handlers were on their way to the queue when the drain began,
\* once drain_all_pending has run no request is left in a deque or comes there
\* later: the handlers queued for the lock before the orchestrator did, and no
\* handler is let in after.
THEOREM NothingStrandedAfterDrain == Spec => []NothingStranded
<1>1. TypeInv /\ StrandedInv => NothingStranded
  <2>1. SUFFICES ASSUME TypeInv, StrandedInv, opc \in {"forward", "idle", "done"},
                        NEW r \in Request, r \in Range(lockq)
                 PROVE  FALSE
    BY DEF NothingStranded, StrandedInv
  <2>2. DOMAIN lockq = 1..Len(lockq)
    BY LenProperties DEF TypeInv, TypeOK, QTypeOK
  <2>3. QED
    BY <2>1, <2>2 DEF StrandedInv, HandlerQueued, Range
<1>2. QED
  BY <1>1, TypeInvInvariant, StrandedInvInvariant, PTL

-----------------------------------------------------------------------------
(* Requests in one place, served in order, in batches that fit. *)

\* What pull_batch collects fits into the room that it computed before.
LEMMA PullBatchBounded ==
  ASSUME TypeInv, ArrivalInv, BatchBounded,
         qpc \in {"get", "wait"} => pulled = {},
         PullBatch(Sched, MaxBatchSize)
  PROVE  BatchBounded' /\ (qpc' \in {"get", "wait"} => pulled' = {})
<1> DEFINE k == MaxBatchSize
           Good == BatchBounded' /\ (qpc' \in {"get", "wait"} => pulled' = {})
<1>1. /\ QTypeOK /\ k \in Nat \ {0}
      /\ IsFiniteSet(pulled) /\ Cardinality(pulled) \in Nat
      /\ qpc \in RoomPC => Cardinality(pulled) < k
  BY MaxBatchSizeIsPositive, SizeOfRequests DEF TypeInv, TypeOK, QTypeOK
<1>2. ASSUME NEW n \in Nat, CollectBatch(n), Cardinality(pulled) + n <= k,
             qpc' \notin {"get", "wait"}
      PROVE  Good
  <2>1. IsFiniteSet(Collected(n)) /\ Cardinality(Collected(n)) \in 0..n
    BY <1>1, CollectFits DEF BatchBounded
  <2>2. pulled' = pulled \cup Collected(n)
    BY <1>2 DEF CollectBatch
  <2>3. Cardinality(pulled \cup Collected(n)) <= k
    <3>1. IsFiniteSet(pulled \cap Collected(n))
      BY <1>1, FS_Intersection
    <3>2. Cardinality(pulled \cap Collected(n)) \in Nat
      BY <3>1, FS_CardinalityType
    <3>3. Cardinality(pulled \cup Collected(n))
            = Cardinality(pulled) + Cardinality(Collected(n))
                - Cardinality(pulled \cap Collected(n))
      BY <1>1, <2>1, FS_Union
    <3>4. QED
      BY <1>1, <1>2, <2>1, <3>2, <3>3
  <2>4. QED
    BY <1>2, <2>2, <2>3 DEF BatchBounded
<1>3. pulled' = pulled /\ (qpc' \in {"get", "wait"} => pulled = {}) => Good
  BY DEF BatchBounded
<1> SUFFICES Good
  OBVIOUS
<1> HIDE DEF Good
<1>4. CASE GetCollect(Sched, k)
  <2>1. Cardinality(pulled) + k <= k
    BY <1>1, <1>4, FS_EmptySet DEF GetCollect
  <2>2. QED
    BY <1>1, <1>2, <1>4, <2>1 DEF GetCollect
<1>5. CASE \/ GetNothing(Sched) \/ WindowDraining(Sched) \/ WindowSleep(Sched)
           \/ WindowExpired(Sched) \/ WindowLock(Sched, k) \/ WindowWoken(Sched)
           \/ WindowTimeout(Sched) \/ WindowClose(Sched) \/ WindowWait(Sched)
           \/ WindowGranted(Sched) \/ WindowTimeoutQueued(Sched)
  BY <1>3, <1>5 DEF GetNothing, WindowDraining, WindowSleep, WindowExpired, WindowLock,
       WindowWoken, WindowTimeout, WindowClose, WindowWait, WindowGranted, WindowTimeoutQueued
<1>6. CASE GetWait(Sched) \/ GetWoken(Sched)
  BY <1>3, <1>6 DEF GetWait, GetWoken
<1>7. CASE WindowExtra(Sched, k) \/ WindowCollect(Sched, k)
  <2>1. /\ k - Cardinality(pulled) \in Nat
        /\ Cardinality(pulled) + (k - Cardinality(pulled)) <= k
        /\ qpc' = "window"
    BY <1>1, <1>7 DEF WindowExtra, WindowCollect, RoomPC
  <2>2. CASE CollectBatch(k - Cardinality(pulled))
    BY <1>2, <2>1, <2>2
  <2>3. CASE UNCHANGED <<deques, pulled>>
    BY <1>3, <2>1, <2>3
  <2>4. QED
    BY <1>7, <2>2, <2>3 DEF WindowExtra, WindowCollect
<1>8. QED
  BY <1>4, <1>5, <1>6, <1>7 DEF PullBatch

\* The inductive step of BatchInv.
LEMMA BatchInvStep ==
  ASSUME TypeInv, TypeInv', BatchInv, [Next]_vars
  PROVE  BatchInv'
<1>1. /\ TypeOK /\ TypeOK' /\ QTypeOK /\ DrainInv
      /\ pulled \in SUBSET Request
      /\ ServingInv(pulled) /\ ArrivalInv /\ BatchBounded
  BY DEF TypeInv, TypeOK, QTypeOK, BatchInv, ServingInv
<1>2. ASSUME SchedulerStands, ServingInv(pulled)' PROVE BatchInv'
  BY <1>2 DEF SchedulerStands, BatchInv, BatchBounded
<1>3. ASSUME NEW r \in Request,
             Reject(r) \/ Accept(r) \/ HandlerEnqueue(r) \/ Respond(r)
      PROVE  BatchInv'
  <2>1. SchedulerStands
    BY <1>1, <1>3, HandlerType
  <2>2. \A T \in SUBSET Request : ServingInv(T) => ServingInv(T)'
    BY <1>1, <1>3, HandlerServes
  <2>3. ServingInv(pulled)'
    BY <1>1, <2>1, <2>2 DEF SchedulerStands, ServingInv, PlaceInv
  <2>4. QED
    BY <1>2, <2>1, <2>3
<1>4. CASE DrainNext(Outcome)
  <2>1. SchedulerStands
    BY <1>1, <1>4, DrainType DEF Outcome
  <2>2. \A T \in SUBSET Request : ServingInv(T) => ServingInv(T)'
    BY <1>1, <1>4, DrainServes DEF Outcome
  <2>3. ServingInv(pulled)'
    BY <1>1, <2>1, <2>2 DEF SchedulerStands, ServingInv, PlaceInv
  <2>4. QED
    BY <1>2, <2>1, <2>3
<1>5. CASE TimePasses
  <2>1. SchedulerStands
    BY <1>1, <1>5, TimeType
  <2>2. \A T \in SUBSET Request : ServingInv(T) => ServingInv(T)'
    BY <1>1, <1>5, TimeServes
  <2>3. ServingInv(pulled)'
    BY <1>1, <2>1, <2>2 DEF SchedulerStands, ServingInv, PlaceInv
  <2>4. QED
    BY <1>2, <2>1, <2>3
<1>6. ASSUME ArrivalInv', Waiting' = Waiting, sequence' = sequence,
             interactive' = interactive, batch' = batch, pulled' = pulled,
             queue_depth' = queue_depth, pending' = pending, fut' = fut, resp' = resp
      PROVE  ServingInv(pulled)'
  <2>1. \A T : ServingInv(T) => ServingInv(T)'
    BY <1>1, <1>6, ServingKept
  <2>2. QED
    BY <1>1, <1>6, <2>1 DEF ServingInv, PlaceInv
<1>7. CASE SchedStop \/ SchedNoBatch \/ UNCHANGED vars
  <2>1. /\ interactive' = interactive /\ batch' = batch /\ lockq' = lockq
        /\ sequence' = sequence /\ next_sequence' = next_sequence
        /\ pending' = pending /\ fut' = fut /\ resp' = resp
        /\ queue_depth' = queue_depth /\ pulled' = pulled
    BY <1>7 DEF SchedStop, SchedNoBatch, vars, qvars, deques, condition, puller, drain
  <2>2. ArrivalInv' /\ Waiting' = Waiting
    BY <1>1, <2>1 DEF ArrivalInv, Waiting
  <2>3. ServingInv(pulled)'
    BY <1>6, <2>1, <2>2
  <2>4. QED
    BY <1>7, <2>1, <2>3 DEF SchedStop, SchedNoBatch, BatchInv, BatchBounded, vars,
                            qvars, puller, scheduler
<1>8. CASE SchedPull
  <2>1. /\ interactive' = interactive /\ batch' = batch
        /\ lockq' = Append(lockq, Sched)
        /\ sequence' = sequence /\ next_sequence' = next_sequence
        /\ pending' = pending /\ fut' = fut /\ resp' = resp
        /\ queue_depth' = queue_depth /\ pulled' = pulled
    BY <1>8 DEF SchedPull, GetStart, deques, drain
  <2>2. ArrivalInv' /\ Waiting' = Waiting
    BY <1>1, <2>1, LockJoined
  <2>3. ServingInv(pulled)'
    BY <1>6, <2>1, <2>2
  <2>4. QED
    BY <1>8, <2>1, <2>3 DEF SchedPull, BatchInv, BatchBounded
<1>9. CASE SchedPulling
  <2>1. /\ PullBatch(Sched, MaxBatchSize) /\ spc = "pull" /\ spc' = "pull"
        /\ pending' = pending /\ fut' = fut /\ resp' = resp
        /\ queue_depth' = queue_depth
    BY <1>9 DEF SchedPulling, scheduler, drain
  <2>2. PICK C \in SUBSET Waiting :
          ArrivalInv' /\ TakesAhead(C) /\ pulled' = pulled \cup C
    BY <1>1, <2>1, PullBatchTakes, MaxBatchSizeIsPositive DEF TypeInv
  <2>3. \A T \in SUBSET Request : ServingInv(T) => ServingInv(T \cup C)'
    BY <1>1, <2>1, <2>2, ServingTaken DEF Waiting
  <2>4. ServingInv(pulled)'
    BY <1>1, <2>2, <2>3 DEF ServingInv, PlaceInv
  <2>5. BatchBounded' /\ (qpc' \in {"get", "wait"} => pulled' = {})
    BY <1>1, <2>1, PullBatchBounded DEF BatchInv
  <2>6. QED
    BY <2>1, <2>4, <2>5 DEF BatchInv
<1>10. CASE SchedInfer
  <2>1. /\ interactive' = interactive /\ batch' = batch /\ lockq' = lockq
        /\ sequence' = sequence /\ next_sequence' = next_sequence
        /\ pending' = pending /\ fut' = fut /\ resp' = resp
        /\ queue_depth' = Depth /\ pulled' = pulled /\ pulled # {}
    BY <1>10 DEF SchedInfer, deques, drain
  <2>2. ArrivalInv' /\ Waiting' = Waiting
    BY <1>1, <2>1 DEF ArrivalInv, Waiting
  <2>3. ServedInOrder'
    BY <1>1, <2>1, <2>2, TakesNone, ServedAfterTaking DEF ServingInv
  <2>4. GaugeNeverLow'
    <3>1. Depth' = Depth /\ Depth \in Nat
      BY <1>1, <2>1, DepthType DEF Depth
    <3>2. QED
      BY <2>1, <3>1 DEF GaugeNeverLow
  <2>5. PlaceInv(pulled)'
    BY <1>1, <2>1, <2>2 DEF ServingInv, PlaceInv
  <2>6. QED
    BY <1>10, <2>1, <2>2, <2>3, <2>4, <2>5
       DEF SchedInfer, BatchInv, BatchBounded, ServingInv
<1>11. ASSUME NEW o \in {"ok", "error"}, SchedResults(o) PROVE BatchInv'
  <2>1. /\ interactive' = interactive /\ batch' = batch /\ lockq' = lockq
        /\ sequence' = sequence /\ next_sequence' = next_sequence
        /\ pending' = pending /\ Resolve(pulled, o) /\ resp' = resp
        /\ queue_depth' = queue_depth /\ pulled' = {}
        /\ qpc' = qpc /\ spc' = "loop"
    BY <1>11 DEF SchedResults, deques, drain
  <2>2. ArrivalInv' /\ Waiting' = Waiting
    BY <1>1, <2>1 DEF ArrivalInv, Waiting
  <2>3. \A T \in SUBSET Request : pulled = T /\ ServingInv(T) => ServingInv({})'
    <3>1. SUFFICES ASSUME NEW T \in SUBSET Request, pulled = T, ServingInv(T)
                   PROVE  ServingInv({})'
      OBVIOUS
    <3>2. ServingInv(T \ T)'
      BY <1>1, <2>1, <2>2, <3>1, ServingFinished
    <3>3. T \ T = {}
      OBVIOUS
    <3>4. QED
      BY <3>2, <3>3
  <2>4. ServingInv(pulled)'
    BY <1>1, <2>1, <2>3 DEF ServingInv, PlaceInv
  <2>5. BatchBounded'
    BY <2>1, FS_EmptySet, MaxBatchSizeIsPositive DEF BatchBounded
  <2>6. QED
    BY <2>1, <2>4, <2>5 DEF BatchInv
<1>12. QED
  BY <1>3, <1>4, <1>5, <1>7, <1>8, <1>9, <1>10, <1>11
     DEF Next, HandlerNext, SchedNext, Outcome, Terminated

\* So it holds in every reachable state.
LEMMA BatchInvInvariant == Spec => []BatchInv
<1>1. ASSUME Init PROVE BatchInv
  <2>1. /\ ServerInit /\ pulled = {} /\ spc = "loop" /\ qpc = "idle"
    BY <1>1 DEF Init, ServerInit, QInit
  <2>2. ServingInv({})
    BY <2>1, ServerInitServes
  <2>3. BatchBounded
    BY <2>1, FS_EmptySet, MaxBatchSizeIsPositive DEF BatchBounded
  <2>4. QED
    BY <2>1, <2>2, <2>3 DEF BatchInv
<1>2. TypeInv /\ TypeInv' /\ BatchInv /\ [Next]_vars => BatchInv'
  BY BatchInvStep
<1>3. QED
  BY <1>1, <1>2, TypeInvInvariant, PTL DEF Spec

\* A batch is within MAX_BATCH_SIZE although it is filled in several
\* collections, each of which computes the room that is left after the lock was
\* given up and taken again.
THEOREM BatchesFit == Spec => []BatchBounded
<1>1. BatchInv => BatchBounded
  BY DEF BatchInv
<1>2. QED
  BY <1>1, BatchInvInvariant, PTL

\* Within a class no request is taken from the queue, by the scheduler or by the
\* drain, while an earlier one still waits: arrival numbers are given out before
\* the fair lock is asked for, so they are the order in which handlers get it.
THEOREM ArrivalsServedInOrder == Spec => []ServedInOrder
<1>1. BatchInv => ServedInOrder
  BY DEF BatchInv, ServingInv
<1>2. QED
  BY <1>1, BatchInvInvariant, PTL

\* The gauge that the router and the autoscaler read is never below the number
\* of requests in the deques, in whatever order handlers and scheduler set it.
THEOREM GaugeIsNeverLow == Spec => []GaugeNeverLow
<1>1. BatchInv => GaugeNeverLow
  BY DEF BatchInv, ServingInv
<1>2. QED
  BY <1>1, BatchInvInvariant, PTL

\* How many places hold a request, from BatchInv.
LEMMA HoldersCounted ==
  ASSUME TypeInv, BatchInv, NEW r \in Request
  PROVE  Holders(r) = IF r \in Waiting \cup pulled \cup Range(pending) THEN 1 ELSE 0
<1>1. /\ TypeOK /\ ServingInv(pulled) /\ pulled \in SUBSET Request
  BY DEF TypeInv, TypeOK, QTypeOK, BatchInv
<1>2. \A T \in SUBSET Request : ServingInv(T) =>
        Occurrences(r, lockq) + Occurrences(r, interactive \o batch)
          + (IF r \in T THEN 1 ELSE 0) + Occurrences(r, pending)
        = IF r \in Waiting \cup T \cup Range(pending) THEN 1 ELSE 0
  BY <1>1, PlacesCounted
<1>3. QED
  BY <1>1, <1>2 DEF Holders

\* With or without peers, no request is held in two places at once, and what is
\* held anywhere has no result yet: the scheduler and the drain never both serve
\* a request, and nobody serves one twice.
THEOREM HeldAtMostOnce ==
  Spec => [](\A r \in Request : Holders(r) <= IF fut[r] = "pending" THEN 1 ELSE 0)
<1>1. ASSUME TypeInv, BatchInv, NEW r \in Request
      PROVE  Holders(r) <= IF fut[r] = "pending" THEN 1 ELSE 0
  <2>1. Holders(r) = IF r \in Waiting \cup pulled \cup Range(pending) THEN 1 ELSE 0
    BY <1>1, HoldersCounted
  <2>2. r \in Waiting \cup pulled \cup Range(pending) => fut[r] = "pending"
    BY <1>1 DEF BatchInv, ServingInv, PlaceInv
  <2>3. QED
    BY <2>1, <2>2
<1>2. TypeInv /\ BatchInv
        => \A r \in Request : Holders(r) <= IF fut[r] = "pending" THEN 1 ELSE 0
  BY <1>1
<1>3. QED
  BY <1>2, TypeInvInvariant, BatchInvInvariant, PTL

\* With peers to migrate to, an accepted request without a result is held in
\* exactly one place at every moment of a drain, and a finished one in none:
\* nothing is forgotten and nothing is served twice.
THEOREM AcceptedHeldOnce ==
  ASSUME HasPeers
  PROVE  Spec => []HeldOnce
<1>1. ASSUME TypeInv, BatchInv PROVE HeldOnce
  <2>1. SUFFICES ASSUME NEW r \in Request
                 PROVE  Holders(r) = IF fut[r] = "pending" THEN 1 ELSE 0
    BY DEF HeldOnce
  <2>2. Holders(r) = IF r \in Waiting \cup pulled \cup Range(pending) THEN 1 ELSE 0
    BY <1>1, HoldersCounted
  <2>3. r \in Waiting \cup pulled \cup Range(pending) <=> fut[r] = "pending"
    BY <1>1 DEF BatchInv, ServingInv, PlaceInv
  <2>4. QED
    BY <2>2, <2>3
<1>2. TypeInv /\ BatchInv => HeldOnce
  BY <1>1
<1>3. QED
  BY <1>2, TypeInvInvariant, BatchInvInvariant, PTL

-----------------------------------------------------------------------------
(* The drain stops the pulling. *)

\* LockInv through the steps of get_next_batch and pull_batch.
LEMMA PullBatchLock ==
  ASSUME TypeInv, LockInv, PullBatch(Sched, MaxBatchSize),
         opc' = opc, drain_mode' = drain_mode
  PROVE  LockInv'
<1> DEFINE k == MaxBatchSize
<1>1. /\ lockq \in Seq(Task) /\ Sched \in Task /\ Sched # Orch
      /\ running \in {NoTask, Sched} /\ running # Orch /\ draining' = draining
  BY TasksDistinct DEF TypeInv, TypeOK, QTypeOK, Task, PullBatch, GetCollect,
       GetNothing, GetWait, GetWoken, WindowClose, WindowLock, WindowDraining,
       WindowExtra, WindowWait, WindowSleep, WindowWoken, WindowGranted,
       WindowCollect, WindowTimeout, WindowTimeoutQueued, WindowExpired
<1>2. opc # "notified"
  BY <1>1 DEF LockInv
<1>3. ASSUME lockq' = Append(lockq, Sched), qpc \notin LockPC, qpc' \in LockPC
      PROVE  LockInv'
  <2>1. Sched \notin Range(lockq)
    BY <1>3 DEF LockInv
  <2>2. Once(lockq') /\ Range(lockq') = Range(lockq) \cup {Sched}
    BY <1>1, <1>3, <2>1, OnceAppend, RangeOfAppend DEF LockInv
  <2>3. QED
    BY <1>1, <1>2, <1>3, <2>2 DEF LockInv, LockPC
<1>4. ASSUME lockq # <<>>, Head(lockq) = Sched, lockq' = Tail(lockq), qpc' \notin LockPC,
             qpc' = "returned" => running' = Sched
      PROVE  LockInv'
  <2>1. /\ Once(lockq') /\ Sched \notin Range(lockq')
        /\ Range(lockq) = {Sched} \cup Range(lockq')
    BY <1>1, <1>4, OnceTail DEF LockInv
  <2>2. QED
    BY <1>1, <1>2, <1>4, <2>1 DEF LockInv
<1>5. ASSUME lockq' = lockq, qpc \in LockPC <=> qpc' \in LockPC,
             qpc' = "returned" => running' = Sched
      PROVE  LockInv'
  BY <1>1, <1>2, <1>5 DEF LockInv
<1>6. CASE GetCollect(Sched, k)
  BY <1>4, <1>6 DEF GetCollect, LockPC
<1>7. CASE GetNothing(Sched) \/ WindowDraining(Sched) \/ WindowExpired(Sched)
  BY <1>4, <1>7 DEF GetNothing, WindowDraining, WindowExpired, LockPC
<1>8. CASE GetWait(Sched) \/ WindowSleep(Sched)
  BY <1>4, <1>8 DEF GetWait, WindowSleep, LockPC
<1>9. CASE WindowExtra(Sched, k) \/ WindowCollect(Sched, k)
  BY <1>4, <1>9 DEF WindowExtra, WindowCollect, LockPC
<1>10. CASE GetWoken(Sched) \/ WindowLock(Sched, k)
  BY <1>3, <1>10 DEF GetWoken, WindowLock, LockPC
<1>11. CASE WindowWoken(Sched) \/ WindowTimeout(Sched)
  BY <1>3, <1>11 DEF WindowWoken, WindowTimeout, LockPC
<1>12. CASE WindowClose(Sched) \/ WindowWait(Sched) \/ WindowGranted(Sched)
  BY <1>5, <1>12 DEF WindowClose, WindowWait, WindowGranted, LockPC
<1>13. CASE WindowTimeoutQueued(Sched)
  <2>1. PICK n \in 1..Len(lockq) :
          /\ lockq[n] = Sched
          /\ lockq' = SubSeq(lockq, 1, n - 1) \o Append(Drop(lockq, n), Sched)
    BY <1>13 DEF WindowTimeoutQueued
  <2>2. Once(lockq') /\ Range(lockq') = Range(lockq)
    BY <1>1, <2>1, OnceRejoined DEF LockInv
  <2>3. qpc = "winqueue" /\ qpc' = "winexpired"
    BY <1>13 DEF WindowTimeoutQueued
  <2>4. QED
    BY <1>1, <1>2, <2>2, <2>3 DEF LockInv, LockPC
<1>14. QED
  BY <1>6, <1>7, <1>8, <1>9, <1>10, <1>11, <1>12, <1>13 DEF PullBatch

\* The inductive step of LockInv.
LEMMA LockInvStep ==
  ASSUME TypeInv, BatchInv, LockInv, [Next]_vars
  PROVE  LockInv'
<1>1. /\ lockq \in Seq(Task) /\ Sched \in Task /\ Orch \in Task
      /\ Sched # Orch /\ NoTask # Orch /\ NoTask # Sched
      /\ Sched \notin Request /\ Orch \notin Request
      /\ \A r \in Request : r \in Task
  BY TasksDistinct DEF TypeInv, TypeOK, QTypeOK, Task
<1>2. \A t \in Task : lockq' = Append(lockq, t) /\ t \notin Range(lockq) =>
        Once(lockq') /\ Range(lockq') = Range(lockq) \cup {t}
  BY <1>1, OnceAppend, RangeOfAppend DEF LockInv
<1>3. lockq # <<>> /\ lockq' = Tail(lockq) =>
        /\ Once(lockq') /\ Head(lockq) \notin Range(lockq')
        /\ Range(lockq) = {Head(lockq)} \cup Range(lockq')
  BY <1>1, OnceTail DEF LockInv
<1>4. ASSUME lockq' = lockq, qpc' = qpc, opc' = opc, drain_mode' = drain_mode,
             draining' = draining, running' = running \/ running \notin {Sched, Orch}
      PROVE  LockInv'
  BY <1>4 DEF LockInv
<1>5. ASSUME NEW r \in Request, Reject(r) \/ Respond(r) PROVE LockInv'
  BY <1>4, <1>5 DEF Reject, Respond, qvars, condition, puller, scheduler, drain
<1>6. ASSUME NEW r \in Request, Accept(r) PROVE LockInv'
  <2>1. /\ running = NoTask /\ lockq' = Append(lockq, r)
        /\ qpc' = qpc /\ opc' = opc /\ drain_mode' = drain_mode /\ draining' = draining
    BY <1>6 DEF Accept, RequestEnqueue, puller, scheduler, drain
  <2>2. r \notin Range(lockq)
    <3>1. fut[r] # "pending"
      BY <1>6 DEF Accept
    <3>2. r \notin Waiting
      BY <3>1 DEF BatchInv, ServingInv, PlaceInv
    <3>3. QED
      BY <3>2 DEF Waiting
  <2>3. Once(lockq') /\ Range(lockq') = Range(lockq) \cup {r}
    BY <1>1, <1>2, <2>1, <2>2
  <2>4. QED
    BY <1>1, <2>1, <2>3 DEF LockInv
<1>7. ASSUME NEW r \in Request, HandlerEnqueue(r) PROVE LockInv'
  BY <1>1, <1>3, <1>7 DEF HandlerEnqueue, Enqueue, LockInv, puller, scheduler, drain
<1>8. CASE SchedStop
  BY <1>1, <1>8 DEF SchedStop, LockInv, TypeInv, puller, drain
<1>9. CASE SchedPull
  BY <1>1, <1>2, <1>9 DEF SchedPull, GetStart, LockInv, LockPC, drain
<1>10. CASE SchedPulling
  BY <1>10, PullBatchLock DEF SchedPulling, scheduler, drain
<1>11. CASE SchedNoBatch \/ SchedInfer
  BY <1>1, <1>11 DEF SchedNoBatch, SchedInfer, LockInv, LockPC, drain
<1>12. ASSUME NEW o \in {"ok", "error"}, SchedResults(o) PROVE LockInv'
  BY <1>1, <1>12 DEF SchedResults, LockInv, drain
<1>13. CASE TriggerDrain \/ InternalDrain
  BY <1>1, <1>13 DEF TriggerDrain, InternalDrain, BeginDrain, LockInv, TypeInv, DrainInv,
                     qvars, condition, puller, scheduler
<1>14. CASE InternalDrainAnswer
  BY <1>4, <1>14 DEF InternalDrainAnswer, qvars, condition, puller, scheduler
<1>15. CASE OrchStart \/ OrchMigrate
  BY <1>1, <1>2, <1>15 DEF OrchStart, OrchMigrate, LockInv, puller, scheduler
<1>16. CASE OrchNotify
  BY <1>1, <1>3, <1>16 DEF OrchNotify, NotifyDraining, LockInv, puller, scheduler
<1>17. CASE OrchDrainAll
  BY <1>1, <1>3, <1>17 DEF OrchDrainAll, DrainAllPending, LockInv, puller, scheduler
<1>18. CASE OrchForwardSend \/ OrchPollIdle \/ OrchFinish
  BY <1>1, <1>18 DEF OrchForwardSend, OrchPollIdle, OrchFinish, LockInv, puller,
                     scheduler, drain
<1>19. ASSUME NEW o \in {"ok", "error"}, OrchForwarded(o) PROVE LockInv'
  BY <1>1, <1>19 DEF OrchForwarded, LockInv, puller, scheduler
<1>20. CASE TimePasses \/ UNCHANGED vars
  BY <1>4, <1>20 DEF TimePasses, Age, vars, qvars, condition, puller, scheduler, drain
<1>21. QED
  BY <1>5, <1>6, <1>7, <1>8, <1>9, <1>10, <1>11, <1>12, <1>13, <1>14, <1>15,
     <1>16, <1>17, <1>18, <1>19, <1>20
     DEF Next, HandlerNext, SchedNext, DrainNext, OrchNext, Outcome, Terminated

\* So it holds in every reachable state.
LEMMA LockInvInvariant == Spec => []LockInv
<1>1. ASSUME Init PROVE LockInv
  <2>1. /\ lockq = <<>> /\ qpc = "idle" /\ opc = "none"
        /\ drain_mode = FALSE /\ draining = FALSE
    BY <1>1 DEF Init, ServerInit, QInit
  <2>2. Range(<<>>) = {} /\ Once(<<>>)
    BY EmptySeq DEF Range, Once
  <2>3. QED
    BY <2>1, <2>2 DEF LockInv, LockPC
<1>2. TypeInv /\ BatchInv /\ LockInv /\ [Next]_vars => LockInv'
  BY LockInvStep
<1>3. QED
  BY <1>1, <1>2, TypeInvInvariant, BatchInvInvariant, PTL DEF Spec

\* The queue for the lock, where the scheduler keeps its place ahead of the
\* orchestrator.
LEMMA OrderAtLock ==
  ASSUME NEW s \in Seq(Task)
  PROVE  /\ \A t \in Task : SchedBeforeOrch(s) /\ t # Sched => SchedBeforeOrch(Append(s, t))
         /\ Orch \notin Range(s) => SchedBeforeOrch(Append(s, Sched))
         /\ s # <<>> /\ SchedBeforeOrch(s) => SchedBeforeOrch(Tail(s))
         /\ s # <<>> /\ SchedBeforeOrch(s) /\ Sched \in Range(s) => Head(s) # Orch
<1>1. Len(s) \in Nat /\ Sched # Orch /\ Sched \in Task
  BY LenProperties, TasksDistinct DEF Task
<1>2. ASSUME NEW t \in Task
      PROVE  /\ Append(s, t)[Len(s) + 1] = t
             /\ Len(Append(s, t)) = Len(s) + 1
             /\ \A i \in 1..Len(s) : Append(s, t)[i] = s[i]
  BY AppendProperties
<1>3. ASSUME NEW t \in Task, SchedBeforeOrch(s), t # Sched
      PROVE  SchedBeforeOrch(Append(s, t))
  <2>1. SUFFICES ASSUME NEW m \in 1..(Len(s) + 1), NEW n \in 1..(Len(s) + 1),
                        Append(s, t)[m] = Sched, Append(s, t)[n] = Orch
                 PROVE  m < n
    BY <1>2 DEF SchedBeforeOrch
  <2>2. m \in 1..Len(s)
    BY <1>1, <1>2, <1>3, <2>1
  <2>3. CASE n \in 1..Len(s)
    BY <1>2, <1>3, <2>1, <2>2, <2>3 DEF SchedBeforeOrch
  <2>4. CASE n = Len(s) + 1
    BY <1>1, <2>2, <2>4
  <2>5. QED
    BY <1>1, <2>3, <2>4
<1>4. ASSUME Orch \notin Range(s) PROVE SchedBeforeOrch(Append(s, Sched))
  <2>1. \A i \in 1..Len(s) : s[i] # Orch
    BY <1>4, RangeEquality
  <2>2. \A n \in 1..(Len(s) + 1) : Append(s, Sched)[n] # Orch
    <3>1. SUFFICES ASSUME NEW n \in 1..(Len(s) + 1) PROVE Append(s, Sched)[n] # Orch
      OBVIOUS
    <3>2. n \in 1..Len(s) \/ n = Len(s) + 1
      BY <1>1
    <3>3. QED
      BY <1>1, <1>2, <2>1, <3>2
  <2>3. QED
    BY <1>1, <1>2, <2>2 DEF SchedBeforeOrch
<1>5. ASSUME s # <<>> PROVE /\ Len(Tail(s)) = Len(s) - 1 /\ Len(s) >= 1 /\ Head(s) = s[1]
                            /\ \A i \in 1..Len(Tail(s)) : Tail(s)[i] = s[i + 1]
  BY <1>5, HeadTailProperties, EmptySeq
<1>6. ASSUME s # <<>>, SchedBeforeOrch(s) PROVE SchedBeforeOrch(Tail(s))
  <2>1. SUFFICES ASSUME NEW m \in 1..(Len(s) - 1), NEW n \in 1..(Len(s) - 1),
                        Tail(s)[m] = Sched, Tail(s)[n] = Orch
                 PROVE  m < n
    BY <1>5, <1>6 DEF SchedBeforeOrch
  <2>2. m + 1 \in 1..Len(s) /\ n + 1 \in 1..Len(s)
    BY <1>1
  <2>3. s[m + 1] = Sched /\ s[n + 1] = Orch
    BY <1>5, <1>6, <2>1
  <2>4. m + 1 < n + 1
    BY <1>6, <2>2, <2>3 DEF SchedBeforeOrch
  <2>5. QED
    BY <2>4
<1>7. ASSUME s # <<>>, SchedBeforeOrch(s), Sched \in Range(s) PROVE Head(s) # Orch
  <2>1. PICK m \in 1..Len(s) : s[m] = Sched
    BY <1>7, RangeEquality
  <2>2. 1 \in 1..Len(s) /\ ~(m < 1)
    BY <1>1, <1>5, <1>7
  <2>3. QED
    BY <1>5, <1>7, <2>1, <2>2 DEF SchedBeforeOrch
<1>8. QED
  BY <1>3, <1>4, <1>6, <1>7

\* The inductive step of PullInv.
LEMMA PullInvStep ==
  ASSUME TypeInv, BatchInv, StrandedInv, LockInv, PullInv, [Next]_vars
  PROVE  PullInv'
<1>1. /\ lockq \in Seq(Task) /\ Sched \in Task /\ Orch \in Task /\ NoTask \notin Task
      /\ Sched # Orch /\ Sched \notin Request
      /\ \A r \in Request : r \in Task /\ r # Sched
      /\ \A x : lockq = <<x>> => x \in Range(lockq) /\ x \in Task
  <2>1. /\ lockq \in Seq(Task) /\ Sched \in Task /\ Orch \in Task /\ NoTask \notin Task
        /\ Sched # Orch /\ Sched \notin Request
        /\ \A r \in Request : r \in Task /\ r # Sched
    BY TasksDistinct DEF TypeInv, TypeOK, QTypeOK, Task
  <2>2. ASSUME NEW x, lockq = <<x>> PROVE x \in Range(lockq) /\ x \in Task
    <3>1. Len(lockq) = 1 /\ lockq[1] = x /\ 1 \in 1..Len(lockq)
      BY <2>2
    <3>2. x \in Task
      BY <2>1, <3>1, ElementOfSeq
    <3>3. QED
      BY <2>1, <3>1, <3>2, RangeEquality
  <2>3. QED
    BY <2>1, <2>2
<1>2. \A t : /\ Append(<<>>, t) = <<t>> /\ Tail(<<t>>) = <<>> /\ <<t>> # <<>>
             /\ Head(<<t>>) = t
  OBVIOUS
<1>3. qpc = "wait" /\ running \notin Task \ {Sched} => lockq = <<>>
  BY <1>1 DEF PullInv
<1>4. qpc = "wait" /\ lockq # <<>> => lockq = <<Head(lockq)>> /\ running = Head(lockq)
  BY <1>2 DEF PullInv
<1>5. qpc = "get" => /\ Sched \in Range(lockq) /\ lockq # <<>>
                     /\ SchedBeforeOrch(lockq) => Head(lockq) # Orch
  <2>1. Range(<<>>) = {}
    BY EmptySeq DEF Range
  <2>2. QED
    BY <1>1, <2>1, OrderAtLock DEF LockInv, LockPC
<1>6. \A t \in Task \ {Sched} : lockq # <<>> /\ SchedBeforeOrch(lockq) =>
        /\ SchedBeforeOrch(Append(lockq, t))
        /\ Append(lockq, t) # <<>> /\ Head(Append(lockq, t)) = Head(lockq)
  BY <1>1, OrderAtLock, HeadOfAppend
<1>7. qpc' \notin {"get", "wait"} => PullInv'
  BY DEF PullInv
<1>8. ASSUME lockq' = lockq, running' = running, draining' = draining, qpc' = qpc,
             interactive' = interactive, batch' = batch
      PROVE  PullInv'
  BY <1>8 DEF PullInv, HasReady
\* A task other than the scheduler joins the queue for the lock.
<1>9. ASSUME NEW t \in Task \ {Sched}, Acquire(t), running \in {NoTask, t},
             t \notin Range(lockq),
             draining' = draining, qpc' = qpc, interactive' = interactive, batch' = batch
      PROVE  PullInv'
  <2>1. CASE qpc = "wait"
    <3>1. lockq = <<>>
      BY <1>1, <1>9, <2>1 DEF PullInv
    <3>2. lockq' = <<t>> /\ running' = t
      BY <1>2, <1>9, <3>1
    <3>3. QED
      BY <1>9, <2>1, <3>2 DEF PullInv
  <2>2. CASE qpc = "get"
    <3>1. /\ ~draining /\ SchedBeforeOrch(lockq)
          /\ HasReady \/ Head(lockq) \in Request
      BY <1>1, <1>9, <2>2 DEF PullInv
    <3>2. /\ SchedBeforeOrch(lockq') /\ Head(lockq') = Head(lockq)
      BY <1>5, <1>6, <1>9, <2>2, <3>1
    <3>3. QED
      BY <1>9, <2>2, <3>1, <3>2 DEF PullInv, HasReady
  <2>3. QED
    BY <1>7, <1>9, <2>1, <2>2
\* The owner of the lock leaves it, with a request in a deque if it is a handler.
<1>10. ASSUME NEW t \in Task \ {Sched}, Holds(t), Release, qpc' = qpc,
              t = Orch \/ (HasReady' /\ draining' = draining)
       PROVE  PullInv'
  <2>1. CASE qpc = "wait"
    <3>1. lockq' = <<>>
      BY <1>2, <1>4, <1>10, <2>1
    <3>2. QED
      BY <1>10, <2>1, <3>1 DEF PullInv
  <2>2. CASE qpc = "get"
    <3>1. /\ ~draining /\ SchedBeforeOrch(lockq) /\ t # Orch
      BY <1>1, <1>5, <1>10, <2>2 DEF PullInv
    <3>2. SchedBeforeOrch(lockq')
      BY <1>1, <1>10, <3>1, OrderAtLock
    <3>3. QED
      BY <1>10, <2>2, <3>1, <3>2 DEF PullInv
  <2>3. QED
    BY <1>7, <1>10, <2>1, <2>2
\* The orchestrator gives up the processor; it has no part in the lock.
<1>11. ASSUME lockq' = lockq, draining' = draining, qpc' = qpc,
              interactive' = interactive, batch' = batch,
              running \in {NoTask, Orch}, opc \notin {"notify", "drainall"}
       PROVE  PullInv'
  <2>1. Orch \notin Range(lockq)
    BY <1>11 DEF LockInv
  <2>3. CASE qpc = "wait"
    <3>1. lockq = <<>>
      BY <1>1, <1>11, <2>1, <2>3 DEF PullInv
    <3>2. QED
      BY <1>11, <2>3, <3>1 DEF PullInv
  <2>4. CASE qpc = "get"
    BY <1>1, <1>11, <2>4, TasksDistinct DEF PullInv, HasReady
  <2>5. QED
    BY <1>7, <1>11, <2>3, <2>4
<1>12. ASSUME NEW r \in Request, Reject(r) \/ Respond(r) PROVE PullInv'
  BY <1>8, <1>12 DEF Reject, Respond, qvars, deques, condition, puller
<1>13. ASSUME NEW r \in Request, Accept(r) PROVE PullInv'
  <2>1. r \notin Range(lockq)
    BY <1>13 DEF Accept, BatchInv, ServingInv, PlaceInv, Waiting
  <2>2. QED
    BY <1>1, <1>9, <1>13, <2>1 DEF Accept, RequestEnqueue, deques, puller
<1>14. ASSUME NEW r \in Request, HandlerEnqueue(r) PROVE PullInv'
  <2>1. HasReady'
    <3>1. interactive \in Seq(InteractiveRequest) /\ batch \in Seq(BatchRequest)
      BY DEF TypeInv, TypeOK, QTypeOK
    <3>2. r \in InteractiveRequest => Append(interactive, r) # <<>>
      BY <3>1, AppendProperties
    <3>3. r \notin InteractiveRequest => Append(batch, r) # <<>>
      BY <3>1, AppendProperties DEF Request
    <3>4. QED
      BY <1>14, <3>2, <3>3 DEF HandlerEnqueue, Enqueue, HasReady
  <2>2. QED
    BY <1>1, <1>10, <1>14, <2>1 DEF HandlerEnqueue, Enqueue, puller
<1>15. CASE SchedStop
  BY <1>7, <1>15 DEF SchedStop, TypeInv, puller
<1>16. CASE SchedPull
  <2>1. /\ qpc' = "get" /\ lockq' = Append(lockq, Sched)
        /\ running' = (IF lockq = <<>> THEN Sched ELSE NoTask)
        /\ draining' = draining
    BY <1>16 DEF SchedPull, GetStart, Acquire
  <2>2. ~draining /\ Orch \notin Range(lockq) /\ Sched \notin Range(lockq)
    BY <1>16 DEF SchedPull, GetStart, TypeInv, LockInv, LockPC
  <2>3. CASE lockq = <<>>
    BY <1>2, <2>1, <2>2, <2>3 DEF PullInv
  <2>4. CASE lockq # <<>>
    <3>1. Head(lockq) \in Range(lockq) /\ Head(lockq) \in Task
      BY <1>1, <2>4, TailIsDrop, RangeOfSeq
    <3>2. Head(lockq) \in Request
      BY <2>2, <3>1 DEF Task
    <3>3. SchedBeforeOrch(lockq') /\ Head(lockq') = Head(lockq)
      BY <1>1, <2>1, <2>2, <2>4, OrderAtLock, HeadOfAppend
    <3>4. QED
      BY <2>1, <2>2, <3>2, <3>3 DEF PullInv
  <2>5. QED
    BY <2>3, <2>4
<1>17. CASE SchedPulling
  <2>1. CASE GetWait(Sched)
    <3>1. lockq = <<Sched>>
      BY <1>1, <2>1 DEF GetWait, Holds, PullInv
    <3>2. lockq' = <<>>
      BY <1>2, <2>1, <3>1 DEF GetWait, Release
    <3>3. QED
      BY <2>1, <3>2 DEF GetWait, PullInv
  <2>2. CASE GetWoken(Sched)
    <3>1. lockq = <<>> /\ running \notin Task \ {Sched}
      BY <1>1, <1>3, <2>2 DEF GetWoken, CanRun
    <3>2. Orch \notin Range(lockq)
      BY <3>1, EmptySeq DEF Range
    <3>3. draining => opc \in {"forward", "idle", "done"}
      BY <1>1, <3>1, <3>2 DEF LockInv, TypeInv, TypeOK, OrchPC
    <3>4. lockq' = <<Sched>> /\ running' = Sched /\ UNCHANGED <<draining, interactive, batch>>
      BY <1>2, <2>2, <3>1 DEF GetWoken, Acquire, deques
    <3>5. QED
      BY <2>2, <3>3, <3>4 DEF GetWoken, PullInv, StrandedInv, HasReady
  <2>3. CASE ~GetWait(Sched) /\ ~GetWoken(Sched)
    <3>1. qpc' \notin {"get", "wait"}
      BY <1>17, <2>3 DEF SchedPulling, PullBatch, GetCollect, GetNothing, WindowClose,
           WindowLock, WindowDraining, WindowExtra, WindowWait, WindowSleep, WindowWoken,
           WindowGranted, WindowCollect, WindowTimeout, WindowTimeoutQueued, WindowExpired
    <3>2. QED
      BY <1>7, <3>1
  <2>4. QED
    BY <2>1, <2>2, <2>3
<1>18. CASE SchedNoBatch \/ SchedInfer
  BY <1>7, <1>18 DEF SchedNoBatch, SchedInfer
<1>19. ASSUME NEW o \in Outcome, SchedResults(o) PROVE PullInv'
  BY <1>7, <1>19 DEF SchedResults, TypeInv
<1>20. CASE TriggerDrain \/ InternalDrain \/ InternalDrainAnswer
  BY <1>8, <1>20 DEF TriggerDrain, InternalDrain, InternalDrainAnswer, qvars, deques,
                     condition, puller
<1>21. CASE OrchStart \/ OrchMigrate
  <2>1. Orch \notin Range(lockq) /\ Orch \in Task \ {Sched} /\ running \in {NoTask, Orch}
    BY <1>1, <1>21 DEF OrchStart, OrchMigrate, LockInv
  <2>2. QED
    BY <1>9, <1>21, <2>1 DEF OrchStart, OrchMigrate, deques, puller
<1>22. CASE OrchNotify \/ OrchDrainAll
  <2>1. Orch \in Task \ {Sched}
    BY <1>1
  <2>2. QED
    BY <1>10, <1>22, <2>1 DEF OrchNotify, OrchDrainAll, NotifyDraining, DrainAllPending,
                              puller
<1>23. ASSUME OrchForwardSend \/ OrchPollIdle \/ OrchFinish PROVE PullInv'
  BY <1>11, <1>23 DEF OrchForwardSend, OrchPollIdle, OrchFinish, CanRun, deques, puller
<1>24. ASSUME NEW o \in Outcome, OrchForwarded(o) PROVE PullInv'
  BY <1>11, <1>24 DEF OrchForwarded, deques, puller
<1>25. CASE TimePasses \/ UNCHANGED vars
  BY <1>8, <1>25 DEF TimePasses, Age, vars, qvars, deques, condition, puller
<1>26. QED
  BY <1>12, <1>13, <1>14, <1>15, <1>16, <1>17, <1>18, <1>19, <1>20, <1>21, <1>22,
     <1>23, <1>24, <1>25
     DEF Next, HandlerNext, SchedNext, DrainNext, OrchNext, Terminated

\* So it holds in every reachable state.
LEMMA PullInvInvariant == Spec => []PullInv
<1>1. Init => PullInv
  BY DEF Init, ServerInit, QInit, PullInv
<1>2. TypeInv /\ BatchInv /\ StrandedInv /\ LockInv /\ PullInv /\ [Next]_vars => PullInv'
  BY PullInvStep
<1>3. QED
  BY <1>1, <1>2, TypeInvInvariant, BatchInvInvariant, StrandedInvInvariant,
     LockInvInvariant, PTL DEF Spec

\* What a step takes: only a collection adds to the batch, and it happens in
\* get_next_batch, or in the window while the queue is not draining.
LEMMA WhoTakes ==
  ASSUME TypeInv, [Next]_vars, Taken # {}
  PROVE  \/ GetCollect(Sched, MaxBatchSize)
         \/ ~draining /\ \E k \in Nat : CollectBatch(k)
<1>1. /\ pulled' # pulled /\ pulled' # {}
  BY DEF Taken
<1>2. CASE SchedPulling
  <2>1. MaxBatchSize - Cardinality(pulled) \in Nat \/ qpc \notin {"winlock", "winowned"}
    <3>1. Cardinality(pulled) \in Nat
      BY SizeOfRequests DEF TypeInv, TypeOK, QTypeOK
    <3>2. QED
      BY <3>1, MaxBatchSizeIsPositive DEF TypeInv, RoomPC
  <2>2. QED
    BY <1>1, <1>2, <2>1 DEF SchedPulling, PullBatch, GetNothing, GetWait, GetWoken,
         WindowClose, WindowLock, WindowDraining, WindowExtra, WindowWait, WindowSleep,
         WindowWoken, WindowGranted, WindowCollect, WindowTimeout, WindowTimeoutQueued,
         WindowExpired
<1>3. CASE ~SchedPulling
  <2>1. ASSUME NEW r \in Request, Reject(r) \/ Accept(r) \/ HandlerEnqueue(r) \/ Respond(r)
        PROVE  FALSE
    BY <1>1, <2>1 DEF Reject, Accept, HandlerEnqueue, Respond, RequestEnqueue, Enqueue,
                      qvars, puller
  <2>2. CASE SchedStop \/ SchedPull \/ SchedNoBatch \/ SchedInfer
    BY <1>1, <2>2 DEF SchedStop, SchedPull, SchedNoBatch, SchedInfer, GetStart, puller
  <2>3. ASSUME NEW o \in Outcome, SchedResults(o) \/ OrchForwarded(o) PROVE FALSE
    BY <1>1, <2>3 DEF SchedResults, OrchForwarded, puller
  <2>4. CASE TriggerDrain \/ InternalDrain \/ InternalDrainAnswer
    BY <1>1, <2>4 DEF TriggerDrain, InternalDrain, InternalDrainAnswer, qvars, puller
  <2>5. CASE OrchStart \/ OrchNotify \/ OrchMigrate \/ OrchDrainAll
    BY <1>1, <2>5 DEF OrchStart, OrchNotify, OrchMigrate, OrchDrainAll, NotifyDraining,
                      DrainAllPending, puller
  <2>6. CASE OrchForwardSend \/ OrchPollIdle \/ OrchFinish
    BY <1>1, <2>6 DEF OrchForwardSend, OrchPollIdle, OrchFinish, puller
  <2>7. CASE TimePasses \/ UNCHANGED vars
    BY <1>1, <2>7 DEF TimePasses, Age, vars, qvars, puller
  <2>8. QED
    BY <1>3, <2>1, <2>2, <2>3, <2>4, <2>5, <2>6, <2>7
       DEF Next, HandlerNext, SchedNext, DrainNext, OrchNext, Terminated
<1>4. QED
  BY <1>2, <1>3

\* get_next_batch collects whatever is ready without a look at the draining
\* flag.  Still it never takes a request after the drain has flagged the queue:
\* the orchestrator empties the deques before the scheduler gets the lock, or
\* the scheduler was there before.
THEOREM QueueClosedByDrain == Spec => DrainStopsPulling
<1>1. TypeInv /\ LockInv /\ PullInv /\ [Next]_vars => [draining => Taken = {}]_vars
  <2>1. SUFFICES ASSUME TypeInv, LockInv, PullInv, [Next]_vars, draining, Taken # {}
                 PROVE  FALSE
    OBVIOUS
  <2>2. GetCollect(Sched, MaxBatchSize)
    BY <2>1, WhoTakes
  <2>3. QED
    BY <2>1, <2>2 DEF GetCollect, PullInv
<1>2. QED
  BY <1>1, TypeInvInvariant, LockInvInvariant, PullInvInvariant, PTL
     DEF Spec, DrainStopsPulling

\* Within a collection the priorities are obeyed: batch items that are due go
\* first, interactive requests next, batch filler last.
THEOREM PrioritiesObeyed == Spec => PriorityOrder
<1>1. TypeInv /\ BatchInv /\ [Next]_vars =>
        [PriorityScheduling /\ Taken # {} =>
           /\ Taken \cap BatchRequest \subseteq AgedItems \/ interactive' = <<>>
           /\ Taken \subseteq AgedItems \/ AgedItems \subseteq Taken]_vars
  <2>1. SUFFICES ASSUME TypeInv, BatchInv, [Next]_vars, PriorityScheduling, Taken # {}
                 PROVE  /\ Taken \cap BatchRequest \subseteq AgedItems \/ interactive' = <<>>
                        /\ Taken \subseteq AgedItems \/ AgedItems \subseteq Taken
    OBVIOUS
  <2>2. PICK k \in Nat : CollectBatch(k)
    BY <2>1, WhoTakes, MaxBatchSizeIsPositive DEF GetCollect
  <2>3. QTypeOK /\ Waiting \cap pulled = {}
    BY <2>1 DEF TypeInv, TypeOK, BatchInv, ServingInv, PlaceInv
  <2>4. QED
    BY <2>1, <2>2, <2>3, TakenByPriority
<1>2. QED
  BY <1>1, TypeInvInvariant, BatchInvInvariant, PTL DEF Spec, PriorityOrder

-----------------------------------------------------------------------------
(* The server implements InferenceService. *)

Shows(R, fate) ==
  \A r \in Request : Fate(r)' = IF r \in R THEN fate ELSE Fate(r)

\* In InferenceService's terms: a step that shows the calls in R going to `fate`.
LEMMA ServiceMoves ==
  ASSUME NEW R, NEW fate, Shows(R, fate)
  PROVE  Service!Moved(Sched, R, fate)
<1> DEFINE old == [r \in Request |-> Fate(r)]
           new == [r \in Request |-> Fate(r)']
           made == [r \in Request |-> IF r \in R THEN fate ELSE old[r]]
<1>1. new = made
  BY DEF Shows
<1>2. [s \in {Sched} |-> new] = [[s \in {Sched} |-> old] EXCEPT ![Sched] = made]
  <2> HIDE DEF old, new, made
  <2>1. QED
    BY <1>1
<1>3. QED
  BY <1>2 DEF Service!Moved

\* A step after which every request and the drain are where they were.
LEMMA ServiceStands ==
  ASSUME NEW fate, Shows({}, fate), drain_state' = drain_state, alive' = alive
  PROVE  UNCHANGED Service!services
<1>1. [r \in Request |-> Fate(r)]' = [r \in Request |-> Fate(r)]
  BY DEF Shows
<1>2. QED
  BY <1>1 DEF Service!services

\* The steps of a handler, of the scheduler and of the drain that a server of
\* InferenceService takes.
LEMMA ServiceHandles ==
  ASSUME alive, alive' = alive, drain_state' = drain_state, NEW r \in Request,
         \/ /\ drain_state = "RUNNING" /\ Fate(r) = "none" /\ Shows({r}, "queued")
         \/ /\ drain_state # "RUNNING" /\ Fate(r) = "none" /\ Shows({r}, "503")
         \/ /\ Fate(r) \in {"ok", "error"}
            /\ Shows({r}, IF Fate(r) = "ok" THEN "200" ELSE "500")
  PROVE  Service!Next
<1>1. /\ [s \in {Sched} |-> drain_state]' = [s \in {Sched} |-> drain_state]
      /\ (IF alive THEN {Sched} ELSE {})' = (IF alive THEN {Sched} ELSE {})
      /\ Sched \in (IF alive THEN {Sched} ELSE {})
  OBVIOUS
<1>2. [s \in {Sched} |-> [q \in Request |-> Fate(q)]][Sched][r] = Fate(r)
  OBVIOUS
<1>3. Service!Accept(Sched, r) \/ Service!Refuse(Sched, r) \/ Service!Respond(Sched, r)
  BY <1>1, <1>2, ServiceMoves DEF Service!Accept, Service!Refuse, Service!Respond
<1>4. QED
  BY <1>3 DEF Service!Next, Service!Handle

\* What the scheduler does is an action of the service.
LEMMA ServiceSchedules ==
  ASSUME alive, alive' = alive, drain_state' = drain_state,
         NEW R \in SUBSET Request, R # {}, NEW o \in {"ok", "error"},
         \/ Shows(R, "admitted") /\ \A r \in R : Fate(r) = "queued"
         \/ Shows(R, "running") /\ \A r \in Request : Fate(r) = "admitted" <=> r \in R
         \/ Shows(R, o) /\ \A r \in R : Fate(r) = "running"
  PROVE  Service!Next
<1>1. /\ [s \in {Sched} |-> drain_state]' = [s \in {Sched} |-> drain_state]
      /\ (IF alive THEN {Sched} ELSE {})' = (IF alive THEN {Sched} ELSE {})
      /\ Sched \in (IF alive THEN {Sched} ELSE {})
  OBVIOUS
<1>2. \A f : Service!In(Sched, {f}) = {r \in Request : Fate(r) = f}
  BY DEF Service!In
<1>3. CASE Shows(R, "admitted") /\ \A r \in R : Fate(r) = "queued"
  <2>1. R \in SUBSET Service!In(Sched, {"queued"})
    BY <1>2, <1>3
  <2>2. Service!Admit(Sched, R)
    BY <1>1, <1>3, <2>1, ServiceMoves DEF Service!Admit
  <2>3. QED
    BY <2>1, <2>2 DEF Service!Next, Service!Schedule
<1>4. CASE Shows(R, "running") /\ \A r \in Request : Fate(r) = "admitted" <=> r \in R
  <2>1. R = Service!In(Sched, {"admitted"})
    BY <1>2, <1>4
  <2>2. Service!Run(Sched)
    BY <1>1, <1>4, <2>1, ServiceMoves DEF Service!Run
  <2>3. QED
    BY <2>2 DEF Service!Next, Service!Schedule
<1>5. CASE Shows(R, o) /\ \A r \in R : Fate(r) = "running"
  <2>1. R \in SUBSET Service!In(Sched, {"running"})
    BY <1>2, <1>5
  <2>2. Service!Finish(Sched, R, o)
    BY <1>1, <1>5, <2>1, ServiceMoves DEF Service!Finish
  <2>3. QED
    BY <2>1, <2>2 DEF Service!Next, Service!Schedule
<1>6. QED
  BY <1>3, <1>4, <1>5

\* What the drain does is an action of the service.
LEMMA ServiceDrains ==
  ASSUME alive,
         \/ /\ alive' = alive /\ drain_state = "RUNNING" /\ drain_state' = "DRAINING"
            /\ Shows({}, "none")
         \/ /\ alive' = alive /\ drain_state = "DRAINING" /\ drain_state' = drain_state
            /\ \E R \in SUBSET Request :
                 /\ R # {} /\ \A r \in Request : Fate(r) = "queued" <=> r \in R
                 /\ Shows(R, IF HasPeers THEN "leaving" ELSE "lost")
         \/ /\ alive' = alive /\ drain_state' = drain_state
            /\ \E r \in Request, o \in {"ok", "error"} : Fate(r) = "leaving" /\ Shows({r}, o)
         \/ /\ drain_state = "DRAINING" /\ drain_state' = "DRAINED"
            /\ alive' = ~ExitOnComplete
            /\ \A r \in Request : Fate(r) \notin {"queued", "leaving", "running"}
            /\ IF ExitOnComplete THEN Shows(Request, "none") ELSE Shows({}, "none")
  PROVE  Service!Next
<1> DEFINE phase == [s \in {Sched} |-> drain_state]
           up == IF alive THEN {Sched} ELSE {}
           calls == [s \in {Sched} |-> [r \in Request |-> Fate(r)]]
<1>1. /\ Sched \in up
      /\ alive' = alive => up' = up
      /\ drain_state' = drain_state => phase' = phase
      /\ \A f : drain_state' = f => phase' = [phase EXCEPT ![Sched] = f]
      /\ phase[Sched] = drain_state
  OBVIOUS
<1>2. Shows({}, "none") => calls' = calls
  <2>1. Shows({}, "none") => [r \in Request |-> Fate(r)]' = [r \in Request |-> Fate(r)]
    BY DEF Shows
  <2>2. QED
    BY <2>1
<1>3. CASE /\ alive' = alive /\ drain_state = "RUNNING" /\ drain_state' = "DRAINING"
           /\ Shows({}, "none")
  <2>1. Service!BeginDrain(Sched)
    BY <1>1, <1>2, <1>3 DEF Service!BeginDrain
  <2>2. QED
    BY <2>1 DEF Service!Next, Service!Drain
<1>4. ASSUME alive' = alive, drain_state = "DRAINING", drain_state' = drain_state,
             NEW R \in SUBSET Request, R # {},
             \A r \in Request : Fate(r) = "queued" <=> r \in R,
             Shows(R, IF HasPeers THEN "leaving" ELSE "lost")
      PROVE  Service!Next
  <2>1. R = Service!In(Sched, {"queued"})
    BY <1>4 DEF Service!In
  <2>2. Sched \in (IF HasPeers THEN {Sched} ELSE {}) <=> HasPeers
    OBVIOUS
  <2>3. Service!HandOver(Sched)
    BY <1>1, <1>4, <2>1, <2>2, ServiceMoves DEF Service!HandOver
  <2>4. QED
    BY <2>3 DEF Service!Next, Service!Drain
<1>5. ASSUME alive' = alive, drain_state' = drain_state, NEW r \in Request,
             NEW o \in {"ok", "error"}, Fate(r) = "leaving", Shows({r}, o)
      PROVE  Service!Next
  <2>1. Service!Forwarded(Sched, r, o)
    BY <1>1, <1>5, ServiceMoves DEF Service!Forwarded
  <2>2. QED
    BY <2>1 DEF Service!Next, Service!Drain
<1>6. CASE /\ drain_state = "DRAINING" /\ drain_state' = "DRAINED"
           /\ alive' = ~ExitOnComplete
           /\ \A r \in Request : Fate(r) \notin {"queued", "leaving", "running"}
           /\ IF ExitOnComplete THEN Shows(Request, "none") ELSE Shows({}, "none")
  <2>1. Service!In(Sched, {"queued", "leaving", "running"}) = {}
    BY <1>6 DEF Service!In
  <2>2. ExitOnComplete => Service!Gone(Sched)
    <3>1. ExitOnComplete => up' = up \ {Sched}
      BY <1>6
    <3>2. QED
      BY <1>6, <3>1, ServiceMoves DEF Service!Gone
  <2>3. Service!FinishDrain(Sched)
    BY <1>1, <1>2, <1>6, <2>1, <2>2, SettingsAreBoolean DEF Service!FinishDrain
  <2>4. QED
    BY <2>3 DEF Service!Next, Service!Drain
<1>7. QED
  BY <1>3, <1>4, <1>5, <1>6

\* A queue for the lock without handlers is one without requests.
LEMMA NobodyQueued ==
  ASSUME NEW s \in Seq(Task), ~HandlerQueued(s)
  PROVE  Request \cap Range(s) = {}
BY RangeEquality DEF HandlerQueued

\* Every step of the server is a step of the service, or callers see nothing of it.
LEMMA ServiceStep ==
  ASSUME TypeInv, TypeInv', BatchInv, BatchInv', StrandedInv, StrandedInv', [Next]_vars
  PROVE  [Service!Next]_(Service!services)
<1> SUFFICES ASSUME NEW T, NEW M,
                    T = (IF spc = "infer" THEN {} ELSE pulled),
                    M = (IF spc = "infer" THEN pulled ELSE {})
             PROVE  [Service!Next]_(Service!services)
  OBVIOUS
<1>1. /\ TypeOK /\ TypeOK' /\ QTypeOK /\ DrainInv
      /\ T \in SUBSET Request /\ M \in SUBSET Request /\ T \cap M = {}
      /\ T \cup M = pulled /\ pulled \in SUBSET Request
      /\ lockq \in Seq(Task) /\ lockq' \in Seq(Task)
  BY DEF TypeInv, TypeOK, QTypeOK
<1>2. ServingInv(T \cup M) /\ ArrivalInv /\ PlaceInv(T \cup M)
  BY <1>1 DEF BatchInv, ServingInv
<1>3. \A r \in Request : Fate(r) = FateOf(r, T, M)
  BY DEF Fate
<1>4. alive => \A r \in Request :
        /\ Fate(r) = "queued" <=> r \in Waiting
        /\ Fate(r) = "admitted" <=> r \in T
        /\ Fate(r) = "running" <=> r \in M
        /\ Fate(r) = "leaving" <=> r \in Range(pending)
  BY <1>1, <1>2, <1>3, FateRead
<1>5. ASSUME SchedulerStands, NEW R, NEW fate, Goes(T, M, R, fate)
      PROVE  Shows(R, fate)
  <2>1. SUFFICES ASSUME NEW r \in Request PROVE Fate(r)' = FateOf(r, T, M)'
    BY <1>3, <1>5 DEF Goes, Shows
  <2>2. QED
    BY <1>5 DEF SchedulerStands, Fate, FateOf
<1>6. /\ opc = "idle" => Waiting = {}
      /\ opc' \in {"forward", "idle"} => Waiting' = {}
  <2>1. Range(<<>>) = {}
    BY EmptySeq DEF Range
  <2>2. opc = "idle" =>
          /\ interactive = <<>> /\ batch = <<>> /\ Request \cap Range(lockq) = {}
    BY <1>1, NobodyQueued DEF StrandedInv, HasReady
  <2>3. opc' \in {"forward", "idle"} =>
          /\ interactive' = <<>> /\ batch' = <<>> /\ Request \cap Range(lockq') = {}
    BY <1>1, NobodyQueued DEF StrandedInv, HasReady
  <2>4. QED
    BY <2>1, <2>2, <2>3 DEF Waiting
<1>7. ASSUME NEW r \in Request,
             Reject(r) \/ Accept(r) \/ HandlerEnqueue(r) \/ Respond(r)
      PROVE  [Service!Next]_(Service!services)
  <2>1. SchedulerStands
    BY <1>1, <1>7, HandlerType
  <2>2. /\ alive /\ alive' = alive /\ drain_state' = drain_state
        /\ \/ Goes(T, M, {}, "none")
           \/ /\ drain_state # "RUNNING" /\ FateOf(r, T, M) = "none"
              /\ Goes(T, M, {r}, "503")
           \/ /\ drain_state = "RUNNING" /\ FateOf(r, T, M) = "none"
              /\ Goes(T, M, {r}, "queued")
           \/ /\ FateOf(r, T, M) \in {"ok", "error"}
              /\ Goes(T, M, {r}, IF FateOf(r, T, M) = "ok" THEN "200" ELSE "500")
    BY <1>1, <1>2, <1>7, HandlerFates
  <2>3. QED
    BY <1>3, <1>5, <2>1, <2>2, ServiceHandles, ServiceStands
<1>8. CASE DrainNext(Outcome)
  <2>1. SchedulerStands
    BY <1>1, <1>8, DrainType DEF Outcome
  <2>2. spc # "infer" \/ inflight_count # 0
    <3>1. spc = "infer" => pulled # {}
      BY DEF BatchInv
    <3>2. IsFiniteSet(pulled)
      BY <1>1, SizeOfRequests
    <3>3. pulled # {} => Cardinality(pulled) # 0
      BY <3>2, FS_EmptySet
    <3>4. QED
      BY <3>1, <3>3 DEF TypeInv
  <2>3. /\ alive
        /\ \/ /\ Goes(T, M, {}, "none")
              /\ alive' = alive /\ drain_state' = drain_state
           \/ /\ Goes(T, M, {}, "none") /\ alive' = alive
              /\ drain_state = "RUNNING" /\ drain_state' = "DRAINING"
           \/ /\ alive' = alive /\ drain_state = "DRAINING" /\ drain_state' = drain_state
              /\ Waiting # {}
              /\ Goes(T, M, Waiting, IF HasPeers THEN "leaving" ELSE "lost")
           \/ /\ alive' = alive /\ drain_state' = drain_state
              /\ \E r \in Request, o \in {"ok", "error"} :
                   FateOf(r, T, M) = "leaving" /\ Goes(T, M, {r}, o)
           \/ /\ drain_state = "DRAINING" /\ drain_state' = "DRAINED"
              /\ alive' = ~ExitOnComplete
              /\ Waiting = {} /\ Range(pending) = {} /\ inflight_count = 0
              /\ IF ExitOnComplete THEN Goes(T, M, Request, "none")
                 ELSE Goes(T, M, {}, "none")
    BY <1>1, <1>2, <1>6, <1>8, DrainFates DEF Outcome
  <2>4. CASE /\ Goes(T, M, {}, "none")
             /\ alive' = alive /\ drain_state' = drain_state
    BY <1>5, <2>1, <2>4, ServiceStands
  <2>5. CASE /\ alive' = alive /\ drain_state = "DRAINING" /\ drain_state' = drain_state
             /\ Waiting # {}
             /\ Goes(T, M, Waiting, IF HasPeers THEN "leaving" ELSE "lost")
    <3>1. Waiting \in SUBSET Request /\ Shows(Waiting, IF HasPeers THEN "leaving" ELSE "lost")
      BY <1>5, <2>1, <2>5 DEF Waiting
    <3>2. QED
      BY <1>4, <2>3, <2>5, <3>1, ServiceDrains
  <2>6. CASE /\ drain_state = "DRAINING" /\ drain_state' = "DRAINED"
             /\ alive' = ~ExitOnComplete
             /\ Waiting = {} /\ Range(pending) = {} /\ inflight_count = 0
             /\ IF ExitOnComplete THEN Goes(T, M, Request, "none")
                ELSE Goes(T, M, {}, "none")
    <3>1. \A r \in Request : Fate(r) \notin {"queued", "leaving", "running"}
      BY <1>4, <2>2, <2>3, <2>6
    <3>2. IF ExitOnComplete THEN Shows(Request, "none") ELSE Shows({}, "none")
      BY <1>5, <2>1, <2>6
    <3>3. QED
      BY <2>3, <2>6, <3>1, <3>2, ServiceDrains
  <2>7. QED
    BY <1>3, <1>5, <2>1, <2>3, <2>4, <2>5, <2>6, ServiceDrains
\* A step after which every request is where it was.
<1>9. ASSUME Waiting' = Waiting, pending' = pending, fut' = fut, resp' = resp,
             alive' = alive, drain_state' = drain_state, pulled' = pulled,
             pulled = {} \/ spc' = spc \/ "infer" \notin {spc, spc'}
      PROVE  UNCHANGED Service!services
  <2>1. Goes(T, M, {}, "none")
    BY <1>9, FateKept
  <2>2. \A r \in Request : Fate(r)' = FateOf(r, T, M)'
    BY <1>9, FateCases DEF Fate, FateOf
  <2>3. QED
    BY <1>3, <1>9, <2>1, <2>2, ServiceStands DEF Goes, Shows
<1>10. CASE SchedStop \/ SchedPull \/ SchedNoBatch \/ TimePasses
  <2>1. /\ pending' = pending /\ fut' = fut /\ resp' = resp /\ alive' = alive
        /\ drain_state' = drain_state /\ pulled' = pulled
        /\ pulled = {} \/ spc' = spc \/ "infer" \notin {spc, spc'}
        /\ interactive' = interactive /\ batch' = batch
        /\ sequence' = sequence /\ next_sequence' = next_sequence
        /\ lockq' = lockq \/ lockq' = Append(lockq, Sched)
    BY <1>10 DEF SchedStop, SchedPull, GetStart, SchedNoBatch, TimePasses, Age, deques,
                 condition, puller, scheduler, drain, process
  <2>2. Waiting' = Waiting
    BY <1>1, <1>2, <2>1, LockJoined DEF Waiting
  <2>3. QED
    BY <1>9, <2>1, <2>2
<1>11. CASE SchedPulling
  <2>1. /\ PullBatch(Sched, MaxBatchSize) /\ spc = "pull" /\ spc' = "pull"
        /\ pending' = pending /\ fut' = fut /\ resp' = resp /\ drain_state' = drain_state
        /\ alive /\ alive' = alive
    BY <1>11 DEF SchedPulling, scheduler, drain, process
  <2>2. PICK C \in SUBSET Waiting : TakesAhead(C) /\ pulled' = pulled \cup C
    BY <1>1, <1>2, <2>1, PullBatchTakes, MaxBatchSizeIsPositive DEF TypeInv
  <2>3. Waiting' = Waiting \ C /\ C \in SUBSET Request
    BY <2>2 DEF TakesAhead, Waiting
  <2>4. CASE C = {}
    BY <1>9, <2>1, <2>2, <2>3, <2>4
  <2>5. CASE C # {}
    <3>1. \A r \in C : fut[r] = "pending" /\ resp[r] = "none"
      BY <1>2, <2>2 DEF PlaceInv, Waiting
    <3>2. T = pulled /\ M = {} /\ T \cap Waiting = {}
      BY <1>1, <1>2, <2>1 DEF PlaceInv
    <3>3. ASSUME NEW r \in Request
          PROVE  Fate(r)' = IF r \in C THEN "admitted" ELSE Fate(r)
      <4>1. Fate(r)' = FateOf(r, T \cup C, {})'
        BY <2>1, <2>2, <3>2 DEF Fate, FateOf
      <4>2. QED
        BY <1>3, <2>1, <2>3, <3>1, <3>2, <4>1, FateCases
    <3>4. Shows(C, "admitted") /\ \A r \in C : Fate(r) = "queued"
      BY <1>4, <2>1, <2>3, <3>3 DEF Shows
    <3>5. QED
      BY <2>1, <2>3, <2>5, <3>4, ServiceSchedules
  <2>6. QED
    BY <2>4, <2>5
<1>12. CASE SchedInfer
  <2>1. /\ Waiting' = Waiting /\ pulled # {} /\ pulled' = pulled /\ spc = "pull"
        /\ spc' = "infer" /\ pending' = pending /\ fut' = fut /\ resp' = resp
        /\ drain_state' = drain_state /\ alive /\ alive' = alive
    BY <1>12 DEF SchedInfer, TypeInv, deques, drain, Waiting
  <2>2. T = pulled /\ M = {} /\ T \cap Waiting = {}
        /\ \A r \in T : fut[r] = "pending" /\ resp[r] = "none"
    BY <1>1, <1>2, <2>1 DEF PlaceInv
  <2>3. ASSUME NEW r \in Request
        PROVE  Fate(r)' = IF r \in T THEN "running" ELSE Fate(r)
    <3>1. Fate(r)' = FateOf(r, {}, T)'
      BY <2>1, <2>2 DEF Fate, FateOf
    <3>2. QED
      BY <1>3, <2>1, <2>2, <3>1, FateCases
  <2>4. Shows(T, "running") /\ \A r \in Request : Fate(r) = "admitted" <=> r \in T
    BY <1>4, <2>1, <2>3 DEF Shows
  <2>5. QED
    BY <1>1, <2>1, <2>2, <2>4, ServiceSchedules
<1>13. ASSUME NEW o \in {"ok", "error"}, SchedResults(o) PROVE Service!Next
  <2>1. /\ Waiting' = Waiting /\ pulled' = {} /\ spc = "infer" /\ spc' = "loop"
        /\ Resolve(pulled, o) /\ pending' = pending /\ resp' = resp
        /\ drain_state' = drain_state /\ alive /\ alive' = alive
    BY <1>13 DEF SchedResults, deques, drain, process, Waiting
  <2>2. M = pulled /\ T = {} /\ M # {}
        /\ \A r \in M : fut[r] = "pending" /\ resp[r] = "none"
    BY <1>1, <1>2, <2>1 DEF PlaceInv, BatchInv
  <2>3. \A r \in Request : fut'[r] = IF r \in M THEN o ELSE fut[r]
    BY <1>1, <2>1, <2>2, ResolveFinishes
  <2>4. ASSUME NEW r \in Request
        PROVE  Fate(r)' = IF r \in M THEN o ELSE Fate(r)
    <3>1. Fate(r)' = FateOf(r, {}, {})'
      BY <2>1 DEF Fate, FateOf
    <3>2. QED
      BY <1>3, <2>1, <2>2, <2>3, <3>1, FateCases
  <2>5. Shows(M, o) /\ \A r \in M : Fate(r) = "running"
    BY <1>1, <1>4, <2>1, <2>4 DEF Shows
  <2>6. QED
    BY <1>1, <2>1, <2>2, <2>5, ServiceSchedules
<1>14. CASE UNCHANGED vars
  BY <1>9, <1>14 DEF vars, qvars, deques, condition, puller, scheduler, drain, process,
                     Waiting
<1>15. QED
  BY <1>7, <1>8, <1>10, <1>11, <1>12, <1>13, <1>14
     DEF Next, HandlerNext, SchedNext, Outcome, Terminated

\* Seen from outside the classification server is the service of
\* InferenceService: each call is in one place and is answered once, it is
\* refused only after the drain began, handed over only while it waits, and the
\* server leaves with nothing in the executor and nothing to migrate.
THEOREM StaticServerIsService == Spec => ImplementsService
<1>1. ASSUME Init PROVE Service!Init
  <2>1. \A r \in Request : Fate(r) = "none"
    BY <1>1, FateCases DEF Fate, Init, ServerInit
  <2>2. [r \in Request |-> Fate(r)] = [r \in Request |-> "none"]
    BY <2>1
  <2>3. QED
    BY <1>1, <2>2 DEF Service!Init, Init, ServerInit
<1>2. /\ TypeInv /\ TypeInv' /\ BatchInv /\ BatchInv' /\ StrandedInv /\ StrandedInv'
      /\ [Next]_vars
      => [Service!Next]_(Service!services)
  BY ServiceStep
<1>3. QED
  BY <1>1, <1>2, TypeInvInvariant, BatchInvInvariant, StrandedInvInvariant, PTL
     DEF Spec, ImplementsService, Service!Spec
=============================================================================
