------------------------ MODULE InferenceServerProofs ------------------------
(***************************************************************************)
(* What the handlers and the drain of either server preserve, whatever the *)
(* scheduler holds: the types, the order of service, the gauge and that    *)
(* each request is in one place.                                           *)
(***************************************************************************)
EXTENDS InferenceServer, RequestQueueProofs

USE DEF CanRun, Holds, Release, Suspend, NotifyAll, Acquire, process

-----------------------------------------------------------------------------
(* Types. *)

\* The depth of the queue is a natural number.
LEMMA DepthType ==
  ASSUME QTypeOK
  PROVE  Depth \in Nat
BY LenProperties DEF Depth, QTypeOK

\* Appending to a deque keeps the queue's types, with the gauge set to its depth.
LEMMA EnqueueType ==
  ASSUME TypeOK, DrainInv, NEW r \in Request, HandlerEnqueue(r)
  PROVE  TypeOK' /\ DrainInv' /\ SchedulerStands
<1>1. /\ lockq' = Tail(lockq) /\ lockq # <<>> /\ lockq \in Seq(Task)
      /\ interactive \in Seq(InteractiveRequest)
      /\ batch \in Seq(BatchRequest)
      /\ Len(batch) \in Nat
  BY LenProperties DEF HandlerEnqueue, Enqueue, TypeOK, QTypeOK
<1>2. r \in Task
  BY DEF Task
<1>3. lockq' \in Seq(Task)
  BY <1>1, <1>2, LockQueueType
<1>4. /\ interactive' \in Seq(InteractiveRequest)
      /\ batch' \in Seq(BatchRequest)
      /\ Len(batch') >= Len(batch) /\ Len(batch') \in Nat
  <2>1. CASE r \in InteractiveRequest
    <3>1. interactive' = Append(interactive, r) /\ batch' = batch
      BY <2>1 DEF HandlerEnqueue, Enqueue
    <3>2. QED
      BY <1>1, <2>1, <3>1, AppendProperties
  <2>2. CASE r \notin InteractiveRequest
    <3>1. batch' = Append(batch, r) /\ interactive' = interactive
      BY <2>2 DEF HandlerEnqueue, Enqueue
    <3>2. r \in BatchRequest
      BY <2>2 DEF Request
    <3>3. QED
      BY <1>1, <3>1, <3>2, AppendProperties
  <2>3. QED
    BY <2>1, <2>2
<1>5. aged' \in 0..Len(batch')
  <2>1. aged' = aged /\ aged \in 0..Len(batch)
    BY DEF HandlerEnqueue, Enqueue, TypeOK, QTypeOK
  <2>2. QED
    BY <1>1, <1>4, <2>1
<1>6. QTypeOK'
  <2>1. /\ waiters' = {} /\ running' = NoTask
        /\ UNCHANGED <<sequence, next_sequence, draining, qpc, pulled>>
    BY DEF HandlerEnqueue, Enqueue, puller
  <2>2. QED
    BY <1>3, <1>4, <1>5, <2>1 DEF TypeOK, QTypeOK
<1>7. queue_depth' \in Nat
  BY <1>4, LenProperties DEF HandlerEnqueue, Depth
<1>8. DrainInv'
  BY DEF HandlerEnqueue, DrainInv, drain
<1>9. QED
  BY <1>6, <1>7, <1>8 DEF HandlerEnqueue, Enqueue, TypeOK, SchedulerStands, puller,
                          scheduler, drain

\* The steps of a handler keep the types.
LEMMA HandlerType ==
  ASSUME TypeOK, DrainInv, NEW r \in Request,
         Reject(r) \/ Accept(r) \/ HandlerEnqueue(r) \/ Respond(r)
  PROVE  TypeOK' /\ DrainInv' /\ SchedulerStands
<1> USE DEF SchedulerStands, DrainInv
<1>1. CASE Reject(r)
  BY <1>1 DEF Reject, TypeOK, QTypeOK, qvars, deques, condition, puller,
              scheduler, drain
<1>2. CASE Accept(r)
  <2>1. r \in Task /\ lockq \in Seq(Task)
    BY DEF Task, TypeOK, QTypeOK
  <2>2. Append(lockq, r) \in Seq(Task)
    BY <2>1, LockQueueType
  <2>3. QED
    BY <1>2, <2>1, <2>2
       DEF Accept, RequestEnqueue, TypeOK, QTypeOK, deques, puller, scheduler, drain
<1>3. CASE HandlerEnqueue(r)
  BY <1>3, EnqueueType
<1>4. CASE Respond(r)
  <2>1. Depth \in Nat
    BY DepthType DEF TypeOK
  <2>2. QED
    BY <1>4, <2>1 DEF Respond, TypeOK, QTypeOK, qvars, deques, condition, puller,
              scheduler, drain
<1>5. QED
  BY <1>1, <1>2, <1>3, <1>4

\* The steps of the drain keep the types.
LEMMA DrainType ==
  ASSUME TypeOK, DrainInv, NEW peer \in SUBSET {"ok", "error"}, DrainNext(peer)
  PROVE  TypeOK' /\ DrainInv' /\ SchedulerStands
<1> USE DEF SchedulerStands, DrainInv
<1>1. /\ Orch \in Task /\ lockq \in Seq(Task) /\ pending \in Seq(Request)
  BY DEF TypeOK, QTypeOK, Task
<1>2. /\ Append(lockq, Orch) \in Seq(Task)
      /\ lockq # <<>> => Tail(lockq) \in Seq(Task)
  BY <1>1, LockQueueType
<1>3. CASE TriggerDrain
  BY <1>3 DEF TriggerDrain, BeginDrain, TypeOK, QTypeOK, OrchPC, qvars, deques,
               condition, puller, scheduler
<1>4. CASE InternalDrain
  BY <1>4 DEF InternalDrain, BeginDrain, TypeOK, QTypeOK, OrchPC, qvars, deques,
               condition, puller, scheduler
<1>5. CASE InternalDrainAnswer
  BY <1>5 DEF InternalDrainAnswer, TypeOK, QTypeOK, qvars, deques, condition,
               puller, scheduler
<1>6. CASE OrchStart
  BY <1>1, <1>2, <1>6 DEF OrchStart, TypeOK, QTypeOK, OrchPC, deques, puller
<1>7. CASE OrchNotify
  <2>1. DrainInv'
    BY <1>7 DEF OrchNotify
  <2>2. QED
    BY <1>1, <1>2, <1>7, <2>1
       DEF OrchNotify, NotifyDraining, TypeOK, QTypeOK, OrchPC, deques, puller, scheduler
<1>8. CASE OrchMigrate
  <2>1. DrainInv'
    BY <1>8 DEF OrchMigrate
  <2>2. QED
    BY <1>1, <1>2, <1>8, <2>1
       DEF OrchMigrate, TypeOK, QTypeOK, OrchPC, deques, puller, scheduler
<1>9. CASE OrchDrainAll
  <2>1. interactive \in Seq(Request) /\ batch \in Seq(Request)
    BY SeqMonotonic DEF TypeOK, QTypeOK, Request
  <2>2. AllPending \in Seq(Request) /\ <<>> \in Seq(Request)
    BY <2>1, ConcatProperties, EmptySeq DEF AllPending
  <2>3. /\ <<>> \in Seq(InteractiveRequest)
        /\ <<>> \in Seq(BatchRequest)
        /\ Len(<<>>) = 0
    BY EmptySeq
  <2>4. QED
    BY <1>1, <1>2, <1>9, <2>2, <2>3
       DEF OrchDrainAll, DrainAllPending, TypeOK, QTypeOK, OrchPC, puller, scheduler
<1>10. CASE OrchForwardSend
  BY <1>10 DEF OrchForwardSend, TypeOK, QTypeOK, deques, puller, scheduler, drain
<1>11. ASSUME NEW o \in {"ok", "error"}, OrchForwarded(o)
       PROVE  TypeOK' /\ DrainInv' /\ SchedulerStands
  <2>1. fut' \in [Request -> {"none", "pending", "ok", "error"}]
    BY <1>11 DEF OrchForwarded, Resolve, TypeOK
  <2>2. pending' \in Seq(Request)
    BY <1>1, <1>11, HeadTailProperties DEF OrchForwarded
  <2>3. QTypeOK'
    BY <1>1, <1>11 DEF OrchForwarded, TypeOK, QTypeOK, deques, puller
  <2>4. migrated' \in Nat
    BY <1>11 DEF OrchForwarded, TypeOK
  <2>5. opc' \in OrchPC /\ DrainInv'
    BY <1>11 DEF OrchForwarded, OrchPC
  <2>6. QED
    BY <1>11, <2>1, <2>2, <2>3, <2>4, <2>5
       DEF OrchForwarded, TypeOK, deques, puller, scheduler
<1>12. CASE OrchPollIdle
  BY <1>12 DEF OrchPollIdle, TypeOK, QTypeOK, deques, puller, scheduler, drain
<1>13. CASE OrchFinish
  BY <1>13, SettingsAreBoolean
     DEF OrchFinish, TypeOK, QTypeOK, OrchPC, deques, puller, scheduler
<1>14. QED
  BY <1>3, <1>4, <1>5, <1>6, <1>7, <1>8, <1>9, <1>10, <1>11, <1>12, <1>13
     DEF DrainNext, OrchNext

\* The passing of time keeps the types.
LEMMA TimeType ==
  ASSUME TypeOK, DrainInv, TimePasses
  PROVE  TypeOK' /\ DrainInv' /\ SchedulerStands
BY LenProperties DEF TimePasses, Age, TypeOK, QTypeOK, SchedulerStands, DrainInv,
                     condition, puller, scheduler, drain

\* The initial state of a server is well formed.
LEMMA ServerInitType ==
  ASSUME ServerInit
  PROVE  TypeOK /\ DrainInv
<1>1. /\ <<>> \in Seq(InteractiveRequest) /\ <<>> \in Seq(BatchRequest)
      /\ <<>> \in Seq(Task) /\ <<>> \in Seq(Request) /\ Len(<<>>) = 0
  BY EmptySeq
<1>2. QTypeOK
  <2>1. QInit
    BY DEF ServerInit
  <2>2. [r \in Request |-> 0] \in [Request -> Nat]
    OBVIOUS
  <2>3. /\ interactive = <<>> /\ batch = <<>> /\ aged = 0 /\ lockq = <<>>
        /\ sequence = [r \in Request |-> 0] /\ next_sequence = 0
        /\ draining = FALSE /\ waiters = {} /\ running = NoTask
        /\ qpc = "idle" /\ pulled = {}
    BY <2>1 DEF QInit
  <2>4. aged \in 0..Len(batch)
    BY <1>1, <2>3
  <2>5. sequence \in [Request -> Nat]
    BY <2>2, <2>3
  <2>6. QED
    BY <1>1, <2>3, <2>4, <2>5 DEF QTypeOK, PullPC
<1>3. QED
  BY <1>1, <1>2 DEF ServerInit, TypeOK, DrainInv, SchedPC, OrchPC

-----------------------------------------------------------------------------
(* The order of service, the gauge and the places of the requests. *)

\* Taking requests ahead of those that stay keeps the order of service.
LEMMA ServedAfterTaking ==
  ASSUME TypeOK, ServedInOrder, NEW C, TakesAhead(C)
  PROVE  ServedInOrder'
<1>1. \A r \in Request : IsWaiting(r) <=> r \in Waiting
  BY DEF IsWaiting, Waiting
<1>2. \A r \in Request : IsWaiting(r)' <=> r \in Waiting'
  BY DEF IsWaiting, Waiting
<1>3. \A r \in Request : sequence[r] \in Nat
  BY DEF TypeOK, QTypeOK
<1>4. ASSUME NEW q \in Request, NEW r \in Request, q \in Waiting',
             sequence[q] < sequence[r], OrderPromised(q, r)
      PROVE  r \in Waiting'
  <2>1. r \in Waiting
    BY <1>1, <1>4 DEF ServedInOrder, OrderPromised, TakesAhead
  <2>2. r \notin C
    BY <1>3, <1>4 DEF TakesAhead
  <2>3. QED
    BY <2>1, <2>2 DEF TakesAhead
<1>5. QED
  BY <1>2, <1>4 DEF ServedInOrder, OrderPromised, TakesAhead

\* So does an arrival: it is numbered after everybody else.
LEMMA ServedAfterArrival ==
  ASSUME TypeOK, ArrivalInv, ServedInOrder, NEW r \in Request,
         Waiting' = Waiting \cup {r},
         sequence' = [sequence EXCEPT ![r] = next_sequence + 1]
  PROVE  ServedInOrder'
<1>1. \A q \in Request : IsWaiting(q) <=> q \in Waiting
  BY DEF IsWaiting, Waiting
<1>2. \A q \in Request : IsWaiting(q)' <=> q \in Waiting'
  BY DEF IsWaiting, Waiting
<1>3. /\ next_sequence \in Nat
      /\ \A q \in Request : sequence[q] \in Nat /\ sequence[q] <= next_sequence
      /\ \A q \in Request : sequence'[q] = IF q = r THEN next_sequence + 1 ELSE sequence[q]
  BY DEF TypeOK, QTypeOK, ArrivalInv
<1>4. ASSUME NEW p \in Request, NEW q \in Request, p \in Waiting',
             sequence'[p] < sequence'[q], OrderPromised(p, q)
      PROVE  q \in Waiting'
  <2>1. p # r
    BY <1>3, <1>4
  <2>2. CASE q = r
    BY <2>2
  <2>3. CASE q # r
    BY <1>1, <1>3, <1>4, <2>1, <2>3 DEF ServedInOrder, OrderPromised
  <2>4. QED
    BY <2>2, <2>3
<1>5. QED
  BY <1>2, <1>4 DEF ServedInOrder, OrderPromised

\* A step that moves no request, and whose changes at the lock are in order.
LEMMA ServingKept ==
  ASSUME TypeOK, NEW T, ServingInv(T), ArrivalInv', Waiting' = Waiting,
         sequence' = sequence, interactive' = interactive, batch' = batch,
         queue_depth' = queue_depth, pending' = pending, fut' = fut, resp' = resp
  PROVE  ServingInv(T)'
<1>1. ServedInOrder'
  BY TakesNone, ServedAfterTaking DEF ServingInv, TypeOK
<1>2. GaugeNeverLow'
  BY DEF ServingInv, GaugeNeverLow, Depth
<1>3. PlaceInv(T)'
  BY DEF ServingInv, PlaceInv
<1>4. QED
  BY <1>1, <1>2, <1>3 DEF ServingInv

\* The steps of a handler.
LEMMA HandlerServes ==
  ASSUME TypeOK, DrainInv, NEW T \in SUBSET Request, ServingInv(T), NEW r \in Request,
         Reject(r) \/ Accept(r) \/ HandlerEnqueue(r) \/ Respond(r)
  PROVE  ServingInv(T)'
<1>1. QTypeOK /\ ArrivalInv /\ ServedInOrder /\ GaugeNeverLow /\ PlaceInv(T)
  BY DEF TypeOK, ServingInv
<1>2. fut \in [Request -> {"none", "pending", "ok", "error"}]
  BY DEF TypeOK
<1>3. CASE Reject(r) \/ Respond(r)
  <2>1. /\ interactive' = interactive /\ batch' = batch /\ lockq' = lockq
        /\ sequence' = sequence /\ next_sequence' = next_sequence
        /\ pending' = pending /\ fut' = fut
        /\ \A q \in Request : q # r => resp'[q] = resp[q]
        /\ fut[r] # "pending"
    BY <1>3 DEF Reject, Respond, qvars, deques, condition, drain, TypeOK
  <2>2. ArrivalInv' /\ Waiting' = Waiting
    BY <1>1, <2>1 DEF ArrivalInv, Waiting
  <2>3. ServedInOrder'
    BY <1>1, <2>1, <2>2, TakesNone, ServedAfterTaking
  <2>4. GaugeNeverLow'
    <3>1. Depth' = Depth /\ Depth \in Nat
      BY <1>1, <2>1, DepthType DEF Depth
    <3>2. QED
      BY <1>1, <1>3, <3>1 DEF Reject, Respond, GaugeNeverLow
  <2>5. PlaceInv(T)'
    BY <1>1, <2>1, <2>2 DEF PlaceInv
  <2>6. QED
    BY <2>2, <2>3, <2>4, <2>5 DEF ServingInv
<1>4. CASE Accept(r)
  <2>1. /\ fut[r] = "none" /\ resp[r] = "none"
        /\ fut' = [fut EXCEPT ![r] = "pending"]
        /\ resp' = resp /\ pending' = pending /\ queue_depth' = queue_depth
    BY <1>4 DEF Accept, drain
  <2>2. r \notin Waiting /\ r \notin T /\ r \notin Range(pending)
    BY <1>1, <2>1 DEF PlaceInv
  <2>3. /\ ArrivalInv' /\ Waiting' = Waiting \cup {r}
        /\ sequence' = [sequence EXCEPT ![r] = next_sequence + 1]
        /\ interactive' = interactive /\ batch' = batch
    BY <1>1, <1>4, <2>2, RequestArrived DEF Accept
  <2>4. ServedInOrder'
    BY <1>1, <2>3, ServedAfterArrival
  <2>5. GaugeNeverLow'
    BY <1>1, <2>1, <2>3 DEF GaugeNeverLow, Depth
  <2>6. \A q \in Request : fut'[q] = IF q = r THEN "pending" ELSE fut[q]
    BY <1>2, <2>1
  <2>7. Range(pending) \in SUBSET Request /\ Waiting \in SUBSET Request
    BY RangeOfSeq DEF TypeOK, Waiting
  <2>8. PlaceInv(T)'
    BY <1>1, <2>1, <2>2, <2>3, <2>6, <2>7 DEF PlaceInv
  <2>9. QED
    BY <2>3, <2>4, <2>5, <2>8 DEF ServingInv
<1>5. CASE HandlerEnqueue(r)
  <2>1. ArrivalInv' /\ Waiting' = Waiting /\ sequence' = sequence
    BY <1>1, <1>5, RequestEnqueued DEF HandlerEnqueue
  <2>2. fut' = fut /\ resp' = resp /\ pending' = pending /\ queue_depth' = Depth'
    BY <1>5 DEF HandlerEnqueue, drain
  <2>3. ServedInOrder'
    <3>1. \A q \in Request : IsWaiting(q)' <=> IsWaiting(q)
      BY <2>1 DEF IsWaiting, Waiting
    <3>2. QED
      BY <1>1, <2>1, <3>1 DEF ServedInOrder
  <2>4. GaugeNeverLow'
    <3>1. QTypeOK'
      BY <1>5, EnqueueType DEF TypeOK
    <3>2. Len(interactive') \in Nat /\ Len(batch') \in Nat
      BY <3>1, LenProperties DEF QTypeOK
    <3>3. QED
      BY <2>2, <3>2 DEF GaugeNeverLow, Depth
  <2>5. PlaceInv(T)'
    BY <1>1, <2>1, <2>2 DEF PlaceInv
  <2>6. QED
    BY <2>1, <2>3, <2>4, <2>5 DEF ServingInv
<1>6. QED
  BY <1>3, <1>4, <1>5

\* A sequence without repetitions whose head is removed.
LEMMA OnceTail ==
  ASSUME NEW S, NEW s \in Seq(S), s # <<>>, Once(s)
  PROVE  /\ Head(s) \in S /\ Once(Tail(s))
         /\ Range(s) = {Head(s)} \cup Range(Tail(s))
         /\ Head(s) \notin Range(Tail(s))
<1> DEFINE u == Tail(s)
<1>1. /\ Len(s) \in Nat \ {0} /\ u \in Seq(S) /\ Len(u) = Len(s) - 1
      /\ \A i \in 1..Len(u) : u[i] = s[i + 1]
      /\ Head(s) = s[1] /\ Head(s) \in S
  BY HeadTailProperties, EmptySeq
<1>2. Range(s) = {Head(s)} \cup Range(u)
  BY TailIsDrop
<1>3. Range(u) = {u[i] : i \in 1..Len(u)}
  BY <1>1, RangeEquality
<1> HIDE DEF u
<1>4. \A i \in 1..Len(u) : i + 1 \in 1..Len(s) /\ i + 1 # 1 /\ 1 \in 1..Len(s)
  BY <1>1
<1>5. Once(u)
  <2>1. SUFFICES ASSUME NEW m \in 1..Len(u), NEW n \in 1..Len(u), u[m] = u[n]
                 PROVE  m = n
    BY DEF Once
  <2>2. m + 1 = n + 1
    BY <1>1, <1>4, <2>1 DEF Once
  <2>3. QED
    BY <1>1, <2>2
<1>6. Head(s) \notin Range(u)
  BY <1>1, <1>3, <1>4 DEF Once
<1>7. QED
  BY <1>1, <1>2, <1>5, <1>6 DEF u

\* In a sequence of requests in order of arrival nobody occurs twice.
LEMMA OnceWhenInOrder ==
  ASSUME QTypeOK, NEW S, NEW s \in Seq(S), InOrder(s, sequence),
         NEW m \in 1..Len(s), NEW n \in 1..Len(s), s[m] = s[n], s[m] \in Request
  PROVE  m = n
<1>1. sequence[s[m]] \in Nat /\ Len(s) \in Nat
  BY LenProperties DEF QTypeOK
<1>2. ~(m < n) /\ ~(n < m)
  BY <1>1 DEF InOrder
<1>3. QED
  BY <1>1, <1>2

\* What the drain takes is the content of the deques, each request once.
LEMMA AllPendingOnce ==
  ASSUME QTypeOK, ArrivalInv
  PROVE  /\ AllPending \in Seq(Request)
         /\ Range(AllPending) = Range(interactive) \cup Range(batch)
         /\ Once(AllPending)
<1>1. /\ interactive \in Seq(InteractiveRequest) /\ batch \in Seq(BatchRequest)
      /\ interactive \in Seq(Request) /\ batch \in Seq(Request)
      /\ Len(interactive) \in Nat /\ Len(batch) \in Nat
  BY SeqMonotonic, LenProperties DEF QTypeOK, Request
<1>2. /\ AllPending \in Seq(Request)
      /\ Len(AllPending) = Len(interactive) + Len(batch)
      /\ \A i \in 1..(Len(interactive) + Len(batch)) :
           AllPending[i] = IF i <= Len(interactive) THEN interactive[i]
                           ELSE batch[i - Len(interactive)]
  BY <1>1, ConcatProperties DEF AllPending
<1>3. Range(AllPending) = Range(interactive) \cup Range(batch)
  <2>1. \A s \in Seq(Request), t \in Seq(Request) : Range(s \o t) = Range(s) \cup Range(t)
    BY RangeConcatenation
  <2>2. QED
    BY <1>1, <2>1 DEF AllPending
<1>4. /\ \A i \in 1..Len(interactive) : interactive[i] \in InteractiveRequest
      /\ \A i \in 1..Len(batch) : batch[i] \in BatchRequest
  BY <1>1, ElementOfSeq
<1>5. /\ \A m, n \in 1..Len(interactive) : interactive[m] = interactive[n] => m = n
      /\ \A m, n \in 1..Len(batch) : batch[m] = batch[n] => m = n
  BY <1>1, <1>4, OnceWhenInOrder DEF ArrivalInv, Request
<1>6. SUFFICES ASSUME NEW m \in 1..Len(AllPending), NEW n \in 1..Len(AllPending),
                      AllPending[m] = AllPending[n]
               PROVE  m = n
  BY <1>2, <1>3 DEF Once
<1>7. \A i \in 1..Len(AllPending) :
        \/ i \in 1..Len(interactive) /\ AllPending[i] = interactive[i]
        \/ /\ i > Len(interactive) /\ i - Len(interactive) \in 1..Len(batch)
           /\ AllPending[i] = batch[i - Len(interactive)]
  BY <1>1, <1>2
<1>8. CASE m \in 1..Len(interactive) /\ AllPending[m] = interactive[m]
  <2>1. n \in 1..Len(interactive) /\ AllPending[n] = interactive[n]
    BY <1>4, <1>6, <1>7, <1>8, PrioritiesDisjoint
  <2>2. QED
    BY <1>5, <1>6, <1>8, <2>1
<1>9. CASE /\ m > Len(interactive) /\ m - Len(interactive) \in 1..Len(batch)
           /\ AllPending[m] = batch[m - Len(interactive)]
  <2>1. /\ n > Len(interactive) /\ n - Len(interactive) \in 1..Len(batch)
        /\ AllPending[n] = batch[n - Len(interactive)]
    BY <1>4, <1>6, <1>7, <1>9, PrioritiesDisjoint
  <2>2. m - Len(interactive) = n - Len(interactive)
    BY <1>5, <1>6, <1>9, <2>1
  <2>3. QED
    BY <1>1, <1>2, <2>2
<1>10. QED
  BY <1>7, <1>8, <1>9

\* Resolving the futures in S, which are pending, finishes these requests.
LEMMA ResolveFinishes ==
  ASSUME TypeOK, NEW S \in SUBSET Request, NEW o, o # "pending", Resolve(S, o),
         \A r \in S : fut[r] = "pending"
  PROVE  \A r \in Request :
           /\ fut'[r] = IF r \in S THEN o ELSE fut[r]
           /\ fut'[r] = "pending" <=> fut[r] = "pending" /\ r \notin S
BY DEF Resolve

\* The steps of the drain.
LEMMA DrainServes ==
  ASSUME TypeOK, DrainInv, NEW T \in SUBSET Request, ServingInv(T),
         NEW peer \in SUBSET {"ok", "error"}, DrainNext(peer)
  PROVE  ServingInv(T)'
<1>1. /\ QTypeOK /\ ArrivalInv /\ ServedInOrder /\ GaugeNeverLow /\ PlaceInv(T)
      /\ pending \in Seq(Request)
  BY DEF TypeOK, ServingInv
<1>2. CASE \/ TriggerDrain \/ InternalDrain \/ InternalDrainAnswer
           \/ OrchForwardSend \/ OrchPollIdle \/ OrchFinish
  <2>1. /\ interactive' = interactive /\ batch' = batch /\ lockq' = lockq
        /\ sequence' = sequence /\ next_sequence' = next_sequence
        /\ pending' = pending /\ fut' = fut /\ resp' = resp
        /\ queue_depth' = queue_depth
    BY <1>2 DEF TriggerDrain, InternalDrain, InternalDrainAnswer, OrchForwardSend,
                OrchPollIdle, OrchFinish, qvars, deques, condition, drain
  <2>2. ArrivalInv' /\ Waiting' = Waiting
    BY <1>1, <2>1 DEF ArrivalInv, Waiting
  <2>3. QED
    BY <2>1, <2>2, ServingKept
<1>3. CASE OrchStart \/ OrchNotify \/ OrchMigrate
  <2>1. /\ interactive' = interactive /\ batch' = batch
        /\ sequence' = sequence /\ next_sequence' = next_sequence
        /\ pending' = pending /\ fut' = fut /\ resp' = resp
        /\ queue_depth' = queue_depth
        /\ \/ lockq' = Append(lockq, Orch)
           \/ lockq # <<>> /\ Head(lockq) = Orch /\ lockq' = Tail(lockq)
    BY <1>3 DEF OrchStart, OrchNotify, NotifyDraining, OrchMigrate, deques
  <2>2. ArrivalInv' /\ Waiting' = Waiting
    BY <1>1, <2>1, LockJoined, LockLeft
  <2>3. QED
    BY <2>1, <2>2, ServingKept
<1>4. CASE OrchDrainAll
  <2>1. /\ DrainAllPending(Orch) /\ pending = <<>>
        /\ pending' = IF HasPeers THEN AllPending ELSE <<>>
        /\ fut' = fut /\ resp' = resp /\ queue_depth' = queue_depth
    BY <1>4 DEF OrchDrainAll, DrainInv
  <2>2. ArrivalInv' /\ TakesAhead(Range(interactive) \cup Range(batch))
    BY <1>1, <2>1, AllDrained
  <2>3. ServedInOrder'
    BY <1>1, <2>2, ServedAfterTaking
  <2>4. GaugeNeverLow'
    <3>1. interactive' = <<>> /\ batch' = <<>> /\ Len(<<>>) = 0
      BY <2>1, EmptySeq DEF DrainAllPending
    <3>2. QED
      BY <2>1, <3>1 DEF GaugeNeverLow, Depth, TypeOK
  <2>5. Range(<<>>) = {} /\ Once(<<>>)
    BY EmptySeq DEF Once, Range
  <2>6. /\ Range(AllPending) = Range(interactive) \cup Range(batch)
        /\ Once(AllPending)
    BY <1>1, AllPendingOnce
  <2>7. PlaceInv(T)'
    BY <1>1, <2>1, <2>2, <2>5, <2>6 DEF PlaceInv, TakesAhead
  <2>8. QED
    BY <2>2, <2>3, <2>4, <2>7 DEF ServingInv
<1>5. ASSUME NEW o \in {"ok", "error"}, OrchForwarded(o)
      PROVE  ServingInv(T)'
  <2>1. /\ interactive' = interactive /\ batch' = batch /\ lockq' = lockq
        /\ sequence' = sequence /\ next_sequence' = next_sequence
        /\ resp' = resp /\ queue_depth' = queue_depth
        /\ pending # <<>> /\ pending' = Tail(pending)
        /\ Resolve({Head(pending)}, o)
    BY <1>5 DEF OrchForwarded, DrainInv, deques
  <2>2. ArrivalInv' /\ Waiting' = Waiting
    BY <1>1, <2>1 DEF ArrivalInv, Waiting
  <2>3. ServedInOrder'
    BY <1>1, <2>1, <2>2, TakesNone, ServedAfterTaking
  <2>4. GaugeNeverLow'
    BY <1>1, <2>1 DEF GaugeNeverLow, Depth
  <2>5. /\ Head(pending) \in Request /\ Once(pending')
        /\ Range(pending) = {Head(pending)} \cup Range(pending')
        /\ Head(pending) \notin Range(pending')
    BY <1>1, <2>1, OnceTail DEF PlaceInv
  <2>6. \A r \in Request :
          fut'[r] = "pending" <=> fut[r] = "pending" /\ r # Head(pending)
    BY <1>1, <2>1, <2>5, ResolveFinishes DEF PlaceInv
  <2>7. /\ Range(pending) \in SUBSET Request /\ Waiting \in SUBSET Request
    BY <1>1, RangeOfSeq DEF Waiting
  <2>8. PlaceInv(T)'
    BY <1>1, <2>1, <2>2, <2>5, <2>6, <2>7 DEF PlaceInv
  <2>9. QED
    BY <2>2, <2>3, <2>4, <2>8 DEF ServingInv
<1>6. QED
  BY <1>2, <1>3, <1>4, <1>5 DEF DrainNext, OrchNext

\* The passing of time.
LEMMA TimeServes ==
  ASSUME TypeOK, NEW T \in SUBSET Request, ServingInv(T), TimePasses
  PROVE  ServingInv(T)'
<1>1. /\ interactive' = interactive /\ batch' = batch /\ lockq' = lockq
      /\ sequence' = sequence /\ next_sequence' = next_sequence
      /\ pending' = pending /\ fut' = fut /\ resp' = resp
      /\ queue_depth' = queue_depth
  BY DEF TimePasses, Age, condition, drain
<1>2. ArrivalInv' /\ Waiting' = Waiting
  BY <1>1 DEF ServingInv, ArrivalInv, Waiting
<1>3. QED
  BY <1>1, <1>2, ServingKept

\* A server that starts holds nothing.
LEMMA ServerInitServes ==
  ASSUME ServerInit
  PROVE  ServingInv({})
<1>1. Range(<<>>) = {} /\ Len(<<>>) = 0
  BY EmptySeq DEF Range
<1>2. /\ interactive = <<>> /\ batch = <<>> /\ lockq = <<>> /\ pending = <<>>
      /\ sequence = [r \in Request |-> 0] /\ next_sequence = 0 /\ queue_depth = 0
      /\ fut = [r \in Request |-> "none"]
  BY DEF ServerInit, QInit
<1>3. Waiting = {}
  BY <1>1, <1>2 DEF Waiting
<1>4. ArrivalInv
  BY <1>1, <1>2 DEF ArrivalInv, InOrder
<1>5. ServedInOrder
  BY <1>2 DEF ServedInOrder
<1>6. GaugeNeverLow
  BY <1>1, <1>2 DEF GaugeNeverLow, Depth
<1>7. PlaceInv({})
  BY <1>1, <1>2, <1>3 DEF PlaceInv, Once
<1>8. QED
  BY <1>4, <1>5, <1>6, <1>7 DEF ServingInv

-----------------------------------------------------------------------------
(* Counting the places of a request. *)

\* An item that is in a sequence once at most is counted once or not at all.
LEMMA OccurrencesOfOne ==
  ASSUME NEW S, NEW s \in Seq(S), NEW r,
         \A m, n \in 1..Len(s) : s[m] = r /\ s[n] = r => m = n
  PROVE  Occurrences(r, s) = IF r \in Range(s) THEN 1 ELSE 0
<1> DEFINE D == {n \in 1..Len(s) : s[n] = r}
<1>1. Range(s) = {s[n] : n \in 1..Len(s)}
  BY RangeEquality
<1>2. CASE r \in Range(s)
  <2>1. PICK n \in 1..Len(s) : s[n] = r
    BY <1>1, <1>2
  <2>2. D = {n}
    BY <2>1
  <2>3. Cardinality({n}) = 1
    BY FS_Singleton
  <2>4. QED
    BY <1>2, <2>2, <2>3 DEF Occurrences
<1>3. CASE r \notin Range(s)
  <2>1. D = {}
    BY <1>1, <1>3
  <2>2. QED
    BY <1>3, <2>1, FS_EmptySet DEF Occurrences
<1>4. QED
  BY <1>2, <1>3

\* Whatever the scheduler holds, a request is in the queue, with the scheduler
\* or on the migration list once if it is there at all.
LEMMA PlacesCounted ==
  ASSUME TypeOK, NEW T \in SUBSET Request, ServingInv(T), NEW r \in Request
  PROVE  /\ Occurrences(r, lockq) + Occurrences(r, interactive \o batch)
              + (IF r \in T THEN 1 ELSE 0) + Occurrences(r, pending)
            = IF r \in Waiting \cup T \cup Range(pending) THEN 1 ELSE 0
         /\ Occurrences(r, lockq) \in Nat /\ Occurrences(r, interactive \o batch) \in Nat
         /\ Occurrences(r, pending) \in Nat
<1>1. /\ QTypeOK /\ ArrivalInv /\ PlaceInv(T)
      /\ lockq \in Seq(Task) /\ pending \in Seq(Request)
      /\ sequence[r] \in Nat
  BY DEF ServingInv, TypeOK, QTypeOK
<1>2. Occurrences(r, lockq) = IF r \in Range(lockq) THEN 1 ELSE 0
  <2>1. \A m, n \in 1..Len(lockq) : lockq[m] = r /\ lockq[n] = r => m = n
    BY <1>1, OnceWhenInOrder DEF ArrivalInv
  <2>2. QED
    BY <1>1, <2>1, OccurrencesOfOne
<1>3. Occurrences(r, interactive \o batch)
        = IF r \in Range(interactive) \cup Range(batch) THEN 1 ELSE 0
  <2>1. /\ AllPending \in Seq(Request) /\ Once(AllPending)
        /\ Range(AllPending) = Range(interactive) \cup Range(batch)
    BY <1>1, AllPendingOnce
  <2>2. \A m, n \in 1..Len(AllPending) : AllPending[m] = r /\ AllPending[n] = r => m = n
    BY <2>1 DEF Once
  <2>3. Occurrences(r, AllPending) = IF r \in Range(AllPending) THEN 1 ELSE 0
    BY <2>1, <2>2, OccurrencesOfOne
  <2>4. QED
    BY <2>1, <2>3 DEF AllPending
<1>4. Occurrences(r, pending) = IF r \in Range(pending) THEN 1 ELSE 0
  <2>1. \A m, n \in 1..Len(pending) : pending[m] = r /\ pending[n] = r => m = n
    BY <1>1 DEF PlaceInv, Once
  <2>2. QED
    BY <1>1, <2>1, OccurrencesOfOne
<1>5. ~(r \in Range(lockq) /\ r \in Range(interactive) \cup Range(batch))
  BY <1>1 DEF ArrivalInv
<1>6. /\ r \in Waiting <=> r \in Range(lockq) \/ r \in Range(interactive) \cup Range(batch)
      /\ ~(r \in Waiting /\ r \in T) /\ ~(r \in Waiting /\ r \in Range(pending))
      /\ ~(r \in T /\ r \in Range(pending))
  BY <1>1 DEF PlaceInv, Waiting
<1>7. QED
  BY <1>2, <1>3, <1>4, <1>5, <1>6

-----------------------------------------------------------------------------
(* What a scheduler does with the requests. *)

\* The scheduler, which holds T, takes C from the queue.
LEMMA ServingTaken ==
  ASSUME TypeOK, TypeOK', NEW T \in SUBSET Request, ServingInv(T),
         NEW C \in SUBSET Request, TakesAhead(C), ArrivalInv',
         queue_depth' = queue_depth, pending' = pending, fut' = fut, resp' = resp
  PROVE  ServingInv(T \cup C)'
<1>1. ServedInOrder'
  BY ServedAfterTaking DEF ServingInv
<1>2. GaugeNeverLow'
  <2>1. Depth \in Nat /\ Depth' \in Nat /\ queue_depth \in Nat
    BY LenProperties DEF Depth, TypeOK, QTypeOK
  <2>2. QED
    BY <2>1 DEF ServingInv, GaugeNeverLow, TakesAhead
<1>3. PlaceInv(T \cup C)'
  BY DEF ServingInv, PlaceInv, TakesAhead
<1>4. QED
  BY <1>1, <1>2, <1>3 DEF ServingInv

\* It finishes the requests S of those it holds.  It may set the gauge.
LEMMA ServingFinished ==
  ASSUME TypeOK, NEW T \in SUBSET Request, ServingInv(T), NEW S \in SUBSET T,
         NEW o \in {"ok", "error"}, Resolve(S, o), ArrivalInv', Waiting' = Waiting,
         sequence' = sequence, interactive' = interactive, batch' = batch,
         queue_depth' \in {queue_depth, Depth}, pending' = pending, resp' = resp
  PROVE  ServingInv(T \ S)'
<1>1. ServedInOrder'
  BY TakesNone, ServedAfterTaking DEF ServingInv, TypeOK
<1>2. GaugeNeverLow'
  <2>1. Depth' = Depth /\ Depth \in Nat
    BY DepthType DEF TypeOK, Depth
  <2>2. QED
    BY <2>1 DEF ServingInv, GaugeNeverLow
<1>3. \A r \in S : fut[r] = "pending"
  BY DEF ServingInv, PlaceInv
<1>4. \A r \in Request : fut'[r] = "pending" <=> fut[r] = "pending" /\ r \notin S
  BY <1>3, ResolveFinishes
<1>5. Range(pending) \in SUBSET Request /\ Waiting \in SUBSET Request
  BY RangeOfSeq DEF TypeOK, Waiting
<1>6. PlaceInv(T \ S)'
  BY <1>4, <1>5 DEF ServingInv, PlaceInv
<1>7. QED
  BY <1>1, <1>2, <1>6 DEF ServingInv

-----------------------------------------------------------------------------
(* The queue for the lock, when nobody is in it twice. *)

\* A newcomer at the end of a sequence leaves no item in it twice.
LEMMA OnceAppend ==
  ASSUME NEW S, NEW s \in Seq(S), NEW e \in S, Once(s), e \notin Range(s)
  PROVE  Once(Append(s, e))
<1> DEFINE a == Append(s, e)
<1>1. /\ Len(s) \in Nat /\ Len(a) = Len(s) + 1
      /\ \A i \in 1..Len(s) : a[i] = s[i]
      /\ a[Len(s) + 1] = e
  BY AppendProperties, LenProperties
<1>2. \A i \in 1..Len(a) : i \in 1..Len(s) \/ i = Len(s) + 1
  BY <1>1
<1>3. \A i \in 1..Len(s) : s[i] # e
  BY RangeEquality
<1> HIDE DEF a
<1>4. Once(a)
  BY <1>1, <1>2, <1>3 DEF Once
<1>5. QED
  BY <1>4 DEF a

\* Nor does the scheduler that moves to the end of the queue for the lock.
LEMMA OnceRejoined ==
  ASSUME lockq \in Seq(Task), NEW k \in 1..Len(lockq), lockq[k] = Sched, Once(lockq)
  PROVE  LET q == SubSeq(lockq, 1, k - 1) \o Append(Drop(lockq, k), Sched) IN
         Once(q) /\ Range(q) = Range(lockq)
<1> DEFINE q == SubSeq(lockq, 1, k - 1) \o Append(Drop(lockq, k), Sched)
           from(n) == IF n < k THEN n ELSE IF n < Len(lockq) THEN n + 1 ELSE k
<1>1. Len(lockq) \in Nat /\ Sched \in Task
  BY LenProperties DEF Task
<1>2. /\ Len(q) = Len(lockq)
      /\ \A i \in 1..(k - 1) : q[i] = lockq[i]
      /\ \A i \in k..(Len(lockq) - 1) : q[i] = lockq[i + 1]
      /\ q[Len(lockq)] = Sched
  BY RejoinMoves
<1>3. q \in Seq(Task)
  BY <1>1, LockQueueType
<1> HIDE DEF q
<1>4. \A n \in 1..Len(q) : from(n) \in 1..Len(lockq) /\ q[n] = lockq[from(n)]
  <2>1. SUFFICES ASSUME NEW n \in 1..Len(q)
                 PROVE  from(n) \in 1..Len(lockq) /\ q[n] = lockq[from(n)]
    OBVIOUS
  <2>2. CASE n < k
    BY <1>1, <1>2, <2>2
  <2>3. CASE ~(n < k) /\ n < Len(lockq)
    BY <1>1, <1>2, <2>3
  <2>4. CASE n = Len(lockq)
    BY <1>1, <1>2, <2>4
  <2>5. QED
    BY <1>1, <1>2, <2>2, <2>3, <2>4
<1>5. \A m, n \in 1..Len(q) : from(m) = from(n) => m = n
  BY <1>1, <1>2
<1>6. \A i \in 1..Len(lockq) : \E n \in 1..Len(q) : from(n) = i
  <2>1. SUFFICES ASSUME NEW i \in 1..Len(lockq) PROVE \E n \in 1..Len(q) : from(n) = i
    OBVIOUS
  <2>2. CASE i < k
    BY <1>1, <1>2, <2>2
  <2>3. CASE i = k
    <3>1. Len(lockq) \in 1..Len(q) /\ from(Len(lockq)) = k
      BY <1>1, <1>2
    <3>2. QED
      BY <2>3, <3>1
  <2>4. CASE i > k
    <3>1. i - 1 \in 1..Len(q) /\ from(i - 1) = i
      BY <1>1, <1>2, <2>4
    <3>2. QED
      BY <3>1
  <2>5. QED
    BY <1>1, <2>2, <2>3, <2>4
<1> HIDE DEF from
<1>7. Once(q)
  <2>1. SUFFICES ASSUME NEW m \in 1..Len(q), NEW n \in 1..Len(q), q[m] = q[n]
                 PROVE  m = n
    BY DEF Once
  <2>2. from(m) = from(n)
    BY <1>4, <2>1 DEF Once
  <2>3. QED
    BY <1>5, <2>2
<1>8. Range(lockq) = {lockq[i] : i \in 1..Len(lockq)} /\ Range(q) = {q[n] : n \in 1..Len(q)}
  BY <1>3, RangeEquality
<1>9. Range(q) = Range(lockq)
  <2>1. ASSUME NEW x \in Range(q) PROVE x \in Range(lockq)
    BY <1>4, <1>8
  <2>2. ASSUME NEW x \in Range(lockq) PROVE x \in Range(q)
    <3>1. PICK i \in 1..Len(lockq) : x = lockq[i]
      BY <1>8
    <3>2. PICK n \in 1..Len(q) : from(n) = i
      BY <1>6
    <3>3. QED
      BY <1>4, <1>8, <3>1, <3>2
  <2>3. QED
    BY <2>1, <2>2
<1>10. QED
  BY <1>7, <1>9 DEF q

\* The arithmetic of _collect_batch: of the items due for promotion either all
\* ride, or only they do; batch filler rides when no interactive request is left.
LEMMA TakenByPriority ==
  ASSUME QTypeOK, PriorityScheduling, Waiting \cap pulled = {}, NEW k \in Nat,
         CollectBatch(k)
  PROVE  /\ Taken \cap BatchRequest \subseteq AgedItems \/ interactive' = <<>>
         /\ Taken \subseteq AgedItems \/ AgedItems \subseteq Taken
<1> DEFINE ti == TakeInteractive(k)
           tb == TakeBatch(k)
           fi == Range(SubSeq(interactive, 1, ti))
           fb == Range(SubSeq(batch, 1, tb))
<1>1. /\ ti \in 0..Len(interactive) /\ tb \in 0..Len(batch) /\ aged \in 0..Len(batch)
      /\ interactive \in Seq(InteractiveRequest) /\ batch \in Seq(BatchRequest)
      /\ Len(interactive) \in Nat /\ Len(batch) \in Nat
  BY TakeType, LenProperties DEF QTypeOK
<1>2. /\ ti = Least(Len(interactive), k - Least(aged, k))
      /\ tb = Least(Len(batch), k - ti)
  BY DEF TakeInteractive, TakeBatch
<1>3. interactive' = Drop(interactive, ti) /\ pulled' = pulled \cup fi \cup fb
  BY DEF CollectBatch, Collected
<1> HIDE DEF ti, tb
<1>4. /\ \A x : x \in fi <=> \E i \in 1..ti : interactive[i] = x
      /\ Range(interactive) = fi \cup Range(Drop(interactive, ti))
  BY <1>1, RangeOfCut
<1>5. /\ \A x : x \in fb <=> \E i \in 1..tb : batch[i] = x
      /\ Range(batch) = fb \cup Range(Drop(batch, tb))
  BY <1>1, RangeOfCut
<1>6. \A x : x \in AgedItems <=> \E i \in 1..aged : batch[i] = x
  BY <1>1, RangeOfCut DEF AgedItems
<1>7. fi \in SUBSET InteractiveRequest
  BY <1>1, PrefixRange
<1>8. Taken = fi \cup fb
  <2>1. fi \cup fb \in SUBSET Waiting
    <3>1. fb \in SUBSET BatchRequest
      BY <1>1, PrefixRange
    <3>2. QED
      BY <1>4, <1>5, <1>7, <3>1 DEF Waiting, Request
  <2>2. QED
    BY <1>3, <2>1 DEF Taken
<1> HIDE DEF fi, fb
\* No filler: what is taken of the batch deque was due.
<1>9. tb <= aged => fb \subseteq AgedItems
  BY <1>1, <1>5, <1>6
<1>10. aged <= tb => AgedItems \subseteq fb
  BY <1>1, <1>5, <1>6
<1>11. tb > aged => interactive' = <<>>
  <2>1. tb > aged => ti = Len(interactive)
    BY <1>1, <1>2 DEF Least
  <2>2. Len(Drop(interactive, ti)) = Len(interactive) - ti
        /\ Drop(interactive, ti) \in Seq(InteractiveRequest)
    BY <1>1, DropType
  <2>3. QED
    BY <1>1, <1>3, <2>1, <2>2, EmptySeq
<1>12. tb < aged => ti = 0
  BY <1>1, <1>2 DEF Least
<1>13. ti = 0 => fi = {}
  BY <1>4
<1>14. Taken \cap BatchRequest \subseteq AgedItems \/ interactive' = <<>>
  BY <1>1, <1>7, <1>8, <1>9, <1>11, PrioritiesDisjoint
<1>15. QED
  BY <1>1, <1>8, <1>9, <1>10, <1>12, <1>13, <1>14

-----------------------------------------------------------------------------
(* What callers see of a step: the requests in R, and no others, go to     *)
(* `fate`.  T and M are what the scheduler has taken and what it runs.     *)

Goes(T, M, R, fate) ==
  \A r \in Request : FateOf(r, T, M)' = IF r \in R THEN fate ELSE FateOf(r, T, M)

\* Where a request is and what callers see of it are the same.
LEMMA FateRead ==
  ASSUME TypeOK, alive, NEW T \in SUBSET Request, NEW M \in SUBSET Request,
         T \cap M = {}, PlaceInv(T \cup M), NEW r \in Request
  PROVE  /\ FateOf(r, T, M) = "queued" <=> r \in Waiting
         /\ FateOf(r, T, M) = "admitted" <=> r \in T
         /\ FateOf(r, T, M) = "running" <=> r \in M
         /\ FateOf(r, T, M) = "leaving" <=> r \in Range(pending)
         /\ fut[r] # "pending" =>
              FateOf(r, T, M) = IF resp[r] # "none" THEN resp[r] ELSE fut[r]
<1>1. /\ fut[r] \in {"none", "pending", "ok", "error"}
      /\ resp[r] \in {"none", "200", "500", "503"}
      /\ IsWaiting(r) <=> r \in Waiting
  BY DEF TypeOK, IsWaiting, Waiting
<1>2. CASE fut[r] # "pending"
  <2>1. r \notin Waiting \cup T \cup M \cup Range(pending)
    BY <1>2 DEF PlaceInv
  <2>2. FateOf(r, T, M) = IF resp[r] # "none" THEN resp[r] ELSE fut[r]
    BY <1>2 DEF FateOf
  <2>3. QED
    BY <1>1, <1>2, <2>1, <2>2
<1>3. CASE fut[r] = "pending"
  <2>1. resp[r] = "none"
    BY <1>3 DEF PlaceInv
  <2>2. FateOf(r, T, M) = IF r \in Waiting THEN "queued"
                          ELSE IF r \in T THEN "admitted"
                          ELSE IF r \in M THEN "running"
                          ELSE IF r \in Range(pending) THEN "leaving" ELSE "lost"
    BY <1>1, <1>3, <2>1 DEF FateOf
  <2>3. QED
    BY <1>3, <2>2 DEF PlaceInv
<1>4. QED
  BY <1>2, <1>3

\* A step that moves no request.
LEMMA FateKept ==
  ASSUME NEW T, NEW M, Waiting' = Waiting, Range(pending)' = Range(pending),
         fut' = fut, resp' = resp, alive' = alive
  PROVE  Goes(T, M, {}, "none")
<1>1. ASSUME NEW r \in Request PROVE FateOf(r, T, M)' = FateOf(r, T, M)
  <2>1. IsWaiting(r)' <=> IsWaiting(r)
    BY DEF IsWaiting, Waiting
  <2>2. QED
    BY <2>1 DEF FateOf
<1>2. QED
  BY <1>1 DEF Goes

\* FateOf spelled out, before and after a step.
LEMMA FateCases ==
  ASSUME NEW T, NEW M, NEW r \in Request
  PROVE  /\ FateOf(r, T, M) =
              IF ~alive THEN "none"
              ELSE IF resp[r] # "none" THEN resp[r]
              ELSE IF fut[r] # "pending" THEN fut[r]
              ELSE IF r \in Waiting THEN "queued"
              ELSE IF r \in T THEN "admitted"
              ELSE IF r \in M THEN "running"
              ELSE IF r \in Range(pending) THEN "leaving" ELSE "lost"
         /\ FateOf(r, T, M)' =
              IF ~alive' THEN "none"
              ELSE IF resp'[r] # "none" THEN resp'[r]
              ELSE IF fut'[r] # "pending" THEN fut'[r]
              ELSE IF r \in Waiting' THEN "queued"
              ELSE IF r \in T THEN "admitted"
              ELSE IF r \in M THEN "running"
              ELSE IF r \in Range(pending') THEN "leaving" ELSE "lost"
<1>1. (IsWaiting(r) <=> r \in Waiting) /\ (IsWaiting(r)' <=> r \in Waiting')
  BY DEF IsWaiting, Waiting
<1>2. QED
  BY <1>1 DEF FateOf

\* What callers see of a handler's step.
LEMMA HandlerFates ==
  ASSUME TypeOK, DrainInv, NEW T \in SUBSET Request, NEW M \in SUBSET Request,
         T \cap M = {}, ServingInv(T \cup M), NEW r \in Request,
         Reject(r) \/ Accept(r) \/ HandlerEnqueue(r) \/ Respond(r)
  PROVE  /\ alive /\ alive' = alive /\ drain_state' = drain_state
         /\ \/ Goes(T, M, {}, "none")
            \/ /\ drain_state # "RUNNING" /\ FateOf(r, T, M) = "none"
               /\ Goes(T, M, {r}, "503")
            \/ /\ drain_state = "RUNNING" /\ FateOf(r, T, M) = "none"
               /\ Goes(T, M, {r}, "queued")
            \/ /\ FateOf(r, T, M) \in {"ok", "error"}
               /\ Goes(T, M, {r}, IF FateOf(r, T, M) = "ok" THEN "200" ELSE "500")
<1>1. /\ QTypeOK /\ ArrivalInv /\ PlaceInv(T \cup M)
      /\ fut \in [Request -> {"none", "pending", "ok", "error"}]
      /\ resp \in [Request -> {"none", "200", "500", "503"}]
      /\ alive /\ alive' = alive /\ drain_state' = drain_state /\ pending' = pending
  BY DEF TypeOK, ServingInv, Reject, Accept, HandlerEnqueue, Respond, process, drain
<1>2. CASE Reject(r) \/ Respond(r)
  <2>1. /\ Waiting' = Waiting /\ fut' = fut /\ resp[r] = "none" /\ fut[r] # "pending"
    BY <1>2 DEF Reject, Respond, qvars, deques, condition, Waiting
  <2>2. FateOf(r, T, M) = fut[r]
    BY <1>1, <2>1, FateCases
  <2>3. CASE Reject(r)
    <3>1. /\ fut[r] = "none" /\ drain_state # "RUNNING"
          /\ \A q \in Request : resp'[q] = IF q = r THEN "503" ELSE resp[q]
      BY <1>1, <2>3 DEF Reject
    <3>2. Goes(T, M, {r}, "503")
      <4>1. SUFFICES ASSUME NEW q \in Request
                     PROVE  FateOf(q, T, M)' = IF q = r THEN "503" ELSE FateOf(q, T, M)
        BY DEF Goes
      <4>2. QED
        BY <1>1, <2>1, <3>1, FateCases
    <3>3. QED
      BY <1>1, <2>2, <3>1, <3>2
  <2>4. CASE Respond(r)
    <3> DEFINE answer == IF fut[r] = "ok" THEN "200" ELSE "500"
    <3>1. /\ fut[r] \in {"ok", "error"} /\ answer # "none"
          /\ \A q \in Request : resp'[q] = IF q = r THEN answer ELSE resp[q]
      BY <1>1, <2>4 DEF Respond
    <3> HIDE DEF answer
    <3>2. Goes(T, M, {r}, answer)
      <4>1. SUFFICES ASSUME NEW q \in Request
                     PROVE  FateOf(q, T, M)' = IF q = r THEN answer ELSE FateOf(q, T, M)
        BY DEF Goes
      <4>2. QED
        BY <1>1, <2>1, <3>1, FateCases
    <3>3. QED
      BY <1>1, <2>2, <3>1, <3>2 DEF answer
  <2>5. QED
    BY <1>2, <2>3, <2>4
<1>3. CASE Accept(r)
  <2>1. /\ fut[r] = "none" /\ resp[r] = "none" /\ resp' = resp /\ drain_state = "RUNNING"
        /\ fut' = [fut EXCEPT ![r] = "pending"]
    BY <1>3 DEF Accept
  <2>2. Waiting' = Waiting \cup {r}
    <3>1. r \notin Waiting
      BY <1>1, <2>1 DEF PlaceInv
    <3>2. QED
      BY <1>1, <1>3, <3>1, RequestArrived DEF Accept
  <2>3. FateOf(r, T, M) = "none"
    BY <1>1, <2>1, FateCases
  <2>4. Goes(T, M, {r}, "queued")
    <3>1. SUFFICES ASSUME NEW q \in Request
                   PROVE  FateOf(q, T, M)' = IF q = r THEN "queued" ELSE FateOf(q, T, M)
      BY DEF Goes
    <3>2. fut'[q] = IF q = r THEN "pending" ELSE fut[q]
      BY <1>1, <2>1
    <3>3. QED
      BY <1>1, <2>1, <2>2, <3>2, FateCases
  <2>5. QED
    BY <1>1, <2>1, <2>3, <2>4
<1>4. CASE HandlerEnqueue(r)
  <2>1. Waiting' = Waiting
    BY <1>1, <1>4, RequestEnqueued DEF HandlerEnqueue
  <2>2. fut' = fut /\ resp' = resp
    BY <1>4 DEF HandlerEnqueue
  <2>3. QED
    BY <1>1, <2>1, <2>2, FateKept
<1>5. QED
  BY <1>2, <1>3, <1>4

\* What callers see of a step of the drain, if drain_all_pending leaves nobody
\* behind.
LEMMA DrainFates ==
  ASSUME TypeOK, DrainInv, NEW T \in SUBSET Request, NEW M \in SUBSET Request,
         T \cap M = {}, ServingInv(T \cup M), NEW peer \in SUBSET {"ok", "error"},
         opc = "idle" => Waiting = {},
         opc' \in {"forward", "idle"} => Waiting' = {},
         DrainNext(peer)
  PROVE  /\ alive
         /\ \/ /\ Goes(T, M, {}, "none")
               /\ alive' = alive /\ drain_state' = drain_state
            \/ /\ Goes(T, M, {}, "none") /\ alive' = alive
               /\ drain_state = "RUNNING" /\ drain_state' = "DRAINING"
            \/ /\ alive' = alive /\ drain_state = "DRAINING" /\ drain_state' = drain_state
               /\ Waiting # {}
               /\ Goes(T, M, Waiting, IF HasPeers THEN "leaving" ELSE "lost")
            \/ /\ alive' = alive /\ drain_state' = drain_state
               /\ \E r \in Request, o \in {"ok", "error"} :
                    FateOf(r, T, M) = "leaving" /\ Goes(T, M, {r}, o)
            \/ /\ drain_state = "DRAINING" /\ drain_state' = "DRAINED"
               /\ alive' = ~ExitOnComplete
               /\ Waiting = {} /\ Range(pending) = {} /\ inflight_count = 0
               /\ IF ExitOnComplete THEN Goes(T, M, Request, "none")
                  ELSE Goes(T, M, {}, "none")
<1>1. /\ QTypeOK /\ ArrivalInv /\ PlaceInv(T \cup M) /\ pending \in Seq(Request)
      /\ alive
  BY DEF TypeOK, ServingInv, DrainNext, OrchNext, TriggerDrain, InternalDrain,
         InternalDrainAnswer, OrchStart, OrchNotify, OrchMigrate, OrchDrainAll,
         OrchForwardSend, OrchForwarded, OrchPollIdle, OrchFinish
<1>2. CASE \/ TriggerDrain \/ InternalDrain \/ InternalDrainAnswer
           \/ OrchForwardSend \/ OrchPollIdle
  <2>1. /\ Waiting' = Waiting /\ pending' = pending /\ fut' = fut /\ resp' = resp
        /\ alive' = alive
    BY <1>2 DEF TriggerDrain, InternalDrain, InternalDrainAnswer, OrchForwardSend,
                OrchPollIdle, qvars, deques, condition, drain, process, Waiting
  <2>2. \/ drain_state' = drain_state
        \/ drain_state = "RUNNING" /\ drain_state' = "DRAINING"
    BY <1>2 DEF TriggerDrain, InternalDrain, BeginDrain, InternalDrainAnswer,
                OrchForwardSend, OrchPollIdle, drain
  <2>3. QED
    BY <1>1, <2>1, <2>2, FateKept
<1>3. CASE OrchStart \/ OrchNotify \/ OrchMigrate
  <2>1. /\ interactive' = interactive /\ batch' = batch
        /\ sequence' = sequence /\ next_sequence' = next_sequence
        /\ pending' = pending /\ fut' = fut /\ resp' = resp
        /\ drain_state' = drain_state /\ alive' = alive
        /\ \/ lockq' = Append(lockq, Orch)
           \/ lockq # <<>> /\ Head(lockq) = Orch /\ lockq' = Tail(lockq)
    BY <1>3 DEF OrchStart, OrchNotify, NotifyDraining, OrchMigrate, deques, process
  <2>2. Waiting' = Waiting
    BY <1>1, <2>1, LockJoined, LockLeft
  <2>3. QED
    BY <1>1, <2>1, <2>2, FateKept
<1>4. CASE OrchDrainAll
  <2> DEFINE C == Range(interactive) \cup Range(batch)
             fate == IF HasPeers THEN "leaving" ELSE "lost"
  <2>1. /\ DrainAllPending(Orch) /\ pending = <<>>
        /\ pending' = (IF HasPeers THEN AllPending ELSE <<>>)
        /\ fut' = fut /\ resp' = resp /\ alive' = alive
        /\ drain_state = "DRAINING" /\ drain_state' = drain_state
        /\ opc' \in {"forward", "idle"}
    BY <1>4 DEF OrchDrainAll, DrainInv, process, TypeOK
  <2>2. C \subseteq Waiting /\ Waiting' = Waiting \ C /\ Waiting' = {}
    BY <1>1, <2>1, AllDrained DEF TakesAhead
  <2>3. Range(<<>>) = {}
    BY EmptySeq DEF Range
  <2>4. Range(AllPending) = C
    BY <1>1, AllPendingOnce
  <2> HIDE DEF C
  <2>5. C = Waiting /\ Range(pending') = (IF HasPeers THEN Waiting ELSE {}) /\ Range(pending) = {}
    BY <2>1, <2>2, <2>3, <2>4
  <2>6. \A r \in Waiting : fut[r] = "pending" /\ resp[r] = "none" /\ r \notin T \cup M
                           /\ r \in Request
    BY <1>1 DEF PlaceInv, Waiting
  <2>7. CASE Waiting = {}
    BY <1>1, <2>1, <2>2, <2>5, <2>7, FateKept
  <2>8. CASE Waiting # {}
    <3>1. Goes(T, M, Waiting, fate)
      <4>1. SUFFICES ASSUME NEW q \in Request
                     PROVE  FateOf(q, T, M)' = IF q \in Waiting THEN fate ELSE FateOf(q, T, M)
        BY DEF Goes
      <4>2. QED
        BY <1>1, <2>1, <2>2, <2>5, <2>6, FateCases
    <3>2. QED
      BY <1>1, <2>1, <2>8, <3>1
  <2>9. QED
    BY <2>7, <2>8
<1>5. ASSUME NEW o \in {"ok", "error"}, OrchForwarded(o)
      PROVE  /\ alive' = alive /\ drain_state' = drain_state
             /\ \E r \in Request : FateOf(r, T, M) = "leaving" /\ Goes(T, M, {r}, o)
  <2> DEFINE h == Head(pending)
  <2>1. /\ Waiting' = Waiting /\ resp' = resp /\ alive' = alive /\ drain_state' = drain_state
        /\ pending # <<>> /\ pending' = Tail(pending)
        /\ Resolve({h}, o)
    BY <1>5 DEF OrchForwarded, DrainInv, deques, process, Waiting
  <2>2. /\ h \in Request /\ Range(pending) = {h} \cup Range(pending')
        /\ h \notin Range(pending')
    BY <1>1, <2>1, OnceTail DEF PlaceInv
  <2> HIDE DEF h
  <2>3. fut[h] = "pending" /\ resp[h] = "none" /\ h \notin Waiting \cup T \cup M
    BY <1>1, <2>2 DEF PlaceInv
  <2>4. \A q \in Request : fut'[q] = IF q = h THEN o ELSE fut[q]
    BY <2>1, <2>2, <2>3, ResolveFinishes
  <2>5. FateOf(h, T, M) = "leaving"
    BY <1>1, <2>2, FateRead
  <2>6. Goes(T, M, {h}, o)
    <3>1. SUFFICES ASSUME NEW q \in Request
                   PROVE  FateOf(q, T, M)' = IF q = h THEN o ELSE FateOf(q, T, M)
      BY DEF Goes
    <3>2. q # h => (q \in Range(pending') <=> q \in Range(pending))
      BY <2>2
    <3>3. QED
      BY <1>1, <2>1, <2>3, <2>4, <3>2, FateCases
  <2>7. QED
    BY <2>1, <2>2, <2>5, <2>6
<1>6. CASE OrchFinish
  <2>1. /\ Waiting' = Waiting /\ pending' = pending /\ fut' = fut /\ resp' = resp
        /\ drain_state = "DRAINING" /\ drain_state' = "DRAINED"
        /\ alive' = ~ExitOnComplete /\ inflight_count = 0 /\ opc = "idle"
        /\ pending = <<>>
    BY <1>6 DEF OrchFinish, deques, DrainInv, Waiting, TypeOK
  <2>2. Waiting = {} /\ Range(pending) = {}
    BY <2>1, EmptySeq DEF Range
  <2>3. ASSUME ExitOnComplete PROVE Goes(T, M, Request, "none")
    <3>1. ~alive'
      BY <2>1, <2>3
    <3>2. \A r \in Request : FateOf(r, T, M)' = "none"
      BY <3>1, FateCases
    <3>3. QED
      BY <3>2 DEF Goes
  <2>4. ASSUME ~ExitOnComplete PROVE Goes(T, M, {}, "none")
    <3>1. alive' = alive
      BY <1>1, <2>1, <2>4 DEF TypeOK
    <3>2. Range(pending)' = Range(pending)
      BY <2>1
    <3>3. QED
      BY <2>1, <3>1, <3>2, FateKept
  <2>5. QED
    BY <1>1, <2>1, <2>2, <2>3, <2>4
<1>7. QED
  BY <1>1, <1>2, <1>3, <1>4, <1>5, <1>6 DEF DrainNext, OrchNext

\* Neither the drain nor the scheduler gives out numbers.
LEMMA NumbersKept ==
  ASSUME NumbersInv, sequence' = sequence,
         \A r \in Request : fut'[r] # "none" => fut[r] # "none"
  PROVE  NumbersInv'
  BY DEF NumbersInv

\* Completing futures touches those only that are pending.
LEMMA NumbersResolved ==
  ASSUME NumbersInv, sequence' = sequence, NEW S, NEW o, Resolve(S, o)
  PROVE  NumbersInv'
<1>1. \A r \in Request : fut'[r] # "none" => fut[r] # "none"
  BY DEF Resolve
<1>2. QED
  BY <1>1, NumbersKept

\* Each handler gets the next number, higher than all before.
LEMMA NumbersStep ==
  ASSUME TypeOK, ArrivalInv, NumbersInv, NEW peer,
         HandlerNext \/ DrainNext(peer) \/ TimePasses
  PROVE  NumbersInv'
<1>1. /\ sequence \in [Request -> Nat] /\ next_sequence \in Nat
      /\ fut \in [Request -> {"none", "pending", "ok", "error"}]
  BY DEF TypeOK, QTypeOK
<1>2. ASSUME NEW r \in Request, Accept(r) PROVE NumbersInv'
  <2>1. /\ sequence' = [sequence EXCEPT ![r] = next_sequence + 1]
        /\ fut' = [fut EXCEPT ![r] = "pending"]
    BY <1>2 DEF Accept, RequestEnqueue
  <2>2. \A q \in Request : sequence[q] < next_sequence + 1 /\ sequence[q] \in Nat
    BY <1>1 DEF ArrivalInv
  <2>3. /\ sequence'[r] = next_sequence + 1 /\ sequence'[r] > 0
        /\ \A q \in Request : q # r => sequence'[q] = sequence[q] /\ fut'[q] = fut[q]
        /\ \A q \in Request : q # r => sequence'[q] # sequence'[r]
    BY <1>1, <2>1, <2>2
  <2>4. QED
    BY <2>3 DEF NumbersInv
<1>3. ASSUME NEW r \in Request, Reject(r) \/ HandlerEnqueue(r) \/ Respond(r)
      PROVE  NumbersInv'
  BY <1>3, NumbersKept DEF Reject, HandlerEnqueue, Enqueue, Respond, qvars
<1>4. CASE TriggerDrain \/ InternalDrain \/ InternalDrainAnswer \/ TimePasses
  BY <1>4, NumbersKept DEF TriggerDrain, InternalDrain, InternalDrainAnswer, TimePasses,
                           Age, qvars
<1>5. CASE \/ OrchStart \/ OrchNotify \/ OrchMigrate \/ OrchDrainAll
           \/ OrchForwardSend \/ OrchPollIdle \/ OrchFinish
  BY <1>5, NumbersKept DEF OrchStart, OrchNotify, NotifyDraining, OrchMigrate,
     OrchDrainAll, DrainAllPending, OrchForwardSend, OrchPollIdle, OrchFinish
<1>6. ASSUME NEW o \in peer, OrchForwarded(o) PROVE NumbersInv'
  BY <1>6, NumbersResolved DEF OrchForwarded
<1>7. QED
  BY <1>2, <1>3, <1>4, <1>5, <1>6 DEF HandlerNext, DrainNext, OrchNext

\* Two that wait do not have the same number.
LEMMA NumbersTell ==
  ASSUME TypeOK, NumbersInv, NEW T, PlaceInv(T), NEW q \in Waiting, NEW r \in Waiting,
         sequence[q] = sequence[r]
  PROVE  q = r
<1>1. q \in Request /\ r \in Request /\ fut[r] # "none"
  BY DEF Waiting, PlaceInv
<1>2. QED
  BY <1>1 DEF NumbersInv
=============================================================================
