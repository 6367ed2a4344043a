----------------------- MODULE ContinuousServerProofs -----------------------
(***************************************************************************)
(* Theorems about ContinuousServer, for any finite set of requests, any    *)
(* number of slots, any lengths of the answers and every combination of    *)
(* the settings.                                                           *)
(***************************************************************************)
EXTENDS ContinuousServer, InferenceServerProofs

USE DEF CanRun, Holds, Release, Suspend, NotifyAll, Acquire, process

\* A step of a handler, of the drain or of the clock.
Elsewhere ==
  /\ \/ \E r \in Request : Reject(r) \/ Accept(r) \/ HandlerEnqueue(r) \/ Respond(r)
     \/ DrainNext(PeerOutcome)
     \/ TimePasses
  /\ UNCHANGED sequences

-----------------------------------------------------------------------------
(* Type correctness. *)

\* The steps of handlers, drain and clock keep the types and leave the scheduler alone.
LEMMA ElsewhereType ==
  ASSUME TypeOK, DrainInv, Elsewhere
  PROVE  TypeOK' /\ DrainInv' /\ SchedulerStands
<1>1. ASSUME NEW r \in Request,
             Reject(r) \/ Accept(r) \/ HandlerEnqueue(r) \/ Respond(r)
      PROVE  TypeOK' /\ DrainInv' /\ SchedulerStands
  BY <1>1, HandlerType
<1>2. CASE DrainNext(PeerOutcome)
  <2>1. PeerOutcome \in SUBSET {"ok", "error"}
    BY DEF PeerOutcome
  <2>2. QED
    BY <1>2, <2>1, DrainType
<1>3. CASE TimePasses
  BY <1>3, TimeType
<1>4. QED
  BY <1>1, <1>2, <1>3 DEF Elsewhere

\* The inductive step of TypeOK and DrainInv.
LEMMA TypeStep ==
  ASSUME SequencesTypeOK, DrainInv, TurnInv, [Next]_allvars
  PROVE  TypeOK' /\ DrainInv'
<1>1. /\ TypeOK /\ QTypeOK /\ slots \in SUBSET Request /\ pulled \in SUBSET Request
      /\ MaxSlots \in Nat \ {0} /\ Sched \in Task /\ lockq \in Seq(Task)
      /\ IsFiniteSet(slots) /\ Cardinality(slots) \in Nat /\ Depth \in Nat
  BY PoolIsPositive, SizeOfRequests, DepthType DEF SequencesTypeOK, TypeOK, QTypeOK, Task
<1>2. /\ Append(lockq, Sched) \in Seq(Task)
      /\ lockq # <<>> => Tail(lockq) \in Seq(Task)
  BY <1>1, LockQueueType
<1>3. CASE Elsewhere
  BY <1>1, <1>3, ElsewhereType
<1>4. CASE TurnStop \/ TurnIdleStop
  BY <1>1, <1>4 DEF TurnStop, TurnIdleStop, LoopEnds, TypeOK, QTypeOK, DrainInv, SchedPC,
                    deques, puller, drain
<1>5. CASE TurnResolve
  <2>1. fut' \in [Request -> {"none", "pending", "ok", "error"}]
    BY <1>1, <1>5 DEF TurnResolve, ResolveFinished, Resolve, TypeOK
  <2>2. QTypeOK'
    BY <1>1, <1>2, <1>5 DEF TurnResolve, QTypeOK, deques, puller
  <2>3. QED
    BY <1>1, <1>5, <2>1, <2>2 DEF TurnResolve, TypeOK, DrainInv, SchedPC, drain
<1>6. CASE Fill
  <2>1. MaxSlots - Cardinality(slots) \in Nat
    BY <1>1, <1>6 DEF Fill, TurnInv
  <2>2. QTypeOK'
    <3>1. CASE draining \/ ~HasReady
      BY <1>1, <1>2, <1>6, <3>1 DEF Fill, TryCollect, QTypeOK, deques
    <3>2. CASE ~(draining \/ ~HasReady)
      BY <1>1, <1>2, <1>6, <2>1, <3>2, CollectType DEF Fill, TryCollect, QTypeOK
    <3>3. QED
      BY <3>1, <3>2
  <2>3. QED
    BY <1>1, <1>6, <2>2 DEF Fill, TypeOK, DrainInv, SchedPC, drain
<1>7. CASE StartSequences
  BY <1>1, <1>7 DEF StartSequences, TypeOK, QTypeOK, DrainInv, SchedPC, PullPC, deques,
                    condition, drain
<1>8. CASE TurnIdle
  BY <1>1, <1>2, <1>8 DEF TurnIdle, GetStart, TypeOK, QTypeOK, DrainInv, SchedPC, PullPC,
                          deques, drain
<1>9. CASE Blocked
  <2>1. /\ PullBatch(Sched, 1) /\ 1 \in Nat \ {0} /\ qpc # "idle"
        /\ qpc \in RoomPC => Cardinality(pulled) < 1
    BY <1>9 DEF Blocked, PullBatch, TurnInv, RoomPC
  <2>2. QTypeOK'
    BY <1>1, <2>1, PullBatchType
  <2>3. QED
    BY <1>1, <1>9, <2>2 DEF Blocked, TypeOK, DrainInv, scheduler, drain
<1>10. CASE TurnDecode
  BY <1>1, <1>10 DEF TurnDecode, TypeOK, QTypeOK, DrainInv, SchedPC, deques, puller, drain
<1>11. ASSUME NEW eos \in SUBSET slots, StepDone(eos) PROVE TypeOK' /\ DrainInv'
  BY <1>1, <1>11 DEF StepDone, TypeOK, QTypeOK, DrainInv, SchedPC, deques, puller, drain
<1>12. CASE StepRaised
  <2>1. fut' \in [Request -> {"none", "pending", "ok", "error"}]
    BY <1>1, <1>12 DEF StepRaised, Resolve, TypeOK
  <2>2. QED
    BY <1>1, <1>12, <2>1 DEF StepRaised, TypeOK, QTypeOK, DrainInv, SchedPC, deques,
                             puller, drain
<1>13. CASE Slept
  BY <1>1, <1>13 DEF Slept, TypeOK, QTypeOK, DrainInv, SchedPC, deques, puller, drain
<1>14. CASE UNCHANGED allvars
  BY <1>1, <1>14 DEF allvars, vars, TypeOK, QTypeOK, DrainInv, qvars, deques, condition,
                     puller, scheduler, drain
<1>15. QED
  BY <1>3, <1>4, <1>5, <1>6, <1>7, <1>8, <1>9, <1>10, <1>11, <1>12, <1>13, <1>14
     DEF Next, HandlerNext, SchedNext, Terminated, Elsewhere

\* A future that is done stays done.
LEMMA DoneStaysDone ==
  ASSUME TypeOK, Elsewhere
  PROVE  \A r \in Request : fut'[r] \in {"none", "pending"} => fut[r] \in {"none", "pending"}
<1>1. fut \in [Request -> {"none", "pending", "ok", "error"}]
  BY DEF TypeOK
<1>2. ASSUME NEW r \in Request,
             Reject(r) \/ Accept(r) \/ HandlerEnqueue(r) \/ Respond(r)
      PROVE  \A q \in Request : fut'[q] \in {"none", "pending"} => fut[q] \in {"none", "pending"}
  BY <1>1, <1>2 DEF Reject, Accept, HandlerEnqueue, Respond
<1>3. ASSUME NEW o \in PeerOutcome, OrchForwarded(o)
      PROVE  \A q \in Request : fut'[q] \in {"none", "pending"} => fut[q] \in {"none", "pending"}
  BY <1>1, <1>3 DEF OrchForwarded, Resolve, PeerOutcome
<1>4. CASE \/ TriggerDrain \/ InternalDrain \/ InternalDrainAnswer \/ OrchStart
           \/ OrchNotify \/ OrchMigrate \/ OrchDrainAll \/ OrchForwardSend
           \/ OrchPollIdle \/ OrchFinish \/ TimePasses
  BY <1>4 DEF TriggerDrain, InternalDrain, InternalDrainAnswer, OrchStart, OrchNotify,
              OrchMigrate, OrchDrainAll, OrchForwardSend, OrchPollIdle, OrchFinish,
              TimePasses
<1>5. QED
  BY <1>2, <1>3, <1>4 DEF Elsewhere, DrainNext, OrchNext

\* The inductive step of SequencesTypeOK and TokenInv.
LEMMA TokenStep ==
  ASSUME SequencesTypeOK, DrainInv, TokenInv, TurnInv, BatchInv, [Next]_allvars
  PROVE  SequencesTypeOK' /\ TokenInv'
<1>1. /\ TypeOK /\ TypeOK'
      /\ slots \in SUBSET Request /\ pulled \in SUBSET Request
      /\ generated \in [Request -> Nat] /\ observed \in [Request -> Nat]
      /\ \A r \in Request : generated[r] <= MaxTokens[r] /\ MaxTokens[r] \in Nat \ {0}
      /\ finished \in SUBSET Request /\ \A r \in finished : generated[r] > 0
      /\ fut \in [Request -> {"none", "pending", "ok", "error"}]
  BY TypeStep, TokensArePositive DEF SequencesTypeOK, TypeOK, QTypeOK
<1>2. \A r \in pulled \cup slots : fut[r] = "pending"
  BY DEF BatchInv, ServingInv, PlaceInv
<1>3. CASE Elsewhere
  BY <1>1, <1>3, ElsewhereType, DoneStaysDone
     DEF Elsewhere, SequencesTypeOK, TokenInv, sequences, SchedulerStands
<1>4. CASE TurnStop \/ TurnIdleStop
  <2>1. UNCHANGED <<fut, slots, generated, finished, observed>> /\ slots = {}
    BY <1>4 DEF TurnStop, TurnIdleStop, LoopEnds, sequences, TurnInv
  <2>2. QED
    BY <1>1, <2>1 DEF SequencesTypeOK, TokenInv
<1>5. CASE TurnResolve
  <2>1. /\ \A r \in Request :
             /\ fut'[r] = IF r \in slots \cap finished /\ fut[r] = "pending" THEN "ok" ELSE fut[r]
             /\ observed'[r] = IF r \in slots \cap finished /\ fut[r] = "pending"
                               THEN observed[r] + 1 ELSE observed[r]
        /\ observed' \in [Request -> Nat]
        /\ slots' = slots \ finished /\ generated' = generated /\ finished' = finished
    BY <1>1, <1>5 DEF TurnResolve, ResolveFinished, Resolve
  <2>2. SequencesTypeOK'
    BY <1>1, <2>1 DEF SequencesTypeOK
  <2>3. TokenInv'
    BY <1>1, <1>2, <2>1 DEF TokenInv
  <2>4. QED
    BY <2>2, <2>3
<1>6. CASE Fill \/ TurnIdle \/ Blocked \/ TurnDecode \/ Slept
  <2>1. UNCHANGED <<fut, slots, generated, finished, observed>>
    BY <1>6 DEF Fill, TurnIdle, Blocked, TurnDecode, Slept, sequences
  <2>2. spc' \in {"loop", "sleep"} \/ spc \notin {"loop", "sleep"}
    BY <1>6 DEF Fill, TurnIdle, Blocked, TurnDecode, Slept, scheduler
  <2>3. QED
    BY <1>1, <2>1, <2>2 DEF SequencesTypeOK, TokenInv
<1>7. CASE StartSequences
  <2>1. /\ slots' = slots \cup pulled
        /\ UNCHANGED <<fut, generated, finished, observed>>
        /\ spc' = "loop" \/ spc = "start"
    BY <1>7 DEF StartSequences
  <2>2. \A r \in pulled : generated[r] = 0 /\ r \notin finished
    BY <1>1, <1>2 DEF BatchInv, TokenInv
  <2>3. QED
    BY <1>1, <2>1, <2>2 DEF SequencesTypeOK, TokenInv
<1>8. ASSUME NEW eos \in SUBSET slots, StepDone(eos) PROVE SequencesTypeOK' /\ TokenInv'
  <2>1. /\ UNCHANGED <<fut, slots>> /\ spc = "step" /\ spc' = "sleep"
        /\ generated' \in [Request -> Nat] /\ observed' \in [Request -> Nat]
        /\ \A r \in Request :
             generated'[r] = IF r \in slots THEN generated[r] + 1 ELSE generated[r]
        /\ finished' = finished \cup eos \cup {r \in slots : generated'[r] >= MaxTokens[r]}
    BY <1>1, <1>8 DEF StepDone, DecodeStep
  <2>2. \A r \in slots : generated[r] < MaxTokens[r]
    BY <1>1, <2>1 DEF TokenInv
  <2>3. \A r \in Request : generated'[r] <= MaxTokens[r]
    BY <1>1, <2>1, <2>2
  <2>4. finished' \in SUBSET Request /\ \A r \in finished' : generated'[r] > 0
    BY <1>1, <2>1
  <2>5. SequencesTypeOK'
    BY <1>1, <2>1, <2>3, <2>4 DEF SequencesTypeOK
  <2>6. TokenInv'
    BY <1>1, <2>1 DEF TokenInv
  <2>7. QED
    BY <2>5, <2>6
<1>9. CASE StepRaised
  <2>1. /\ \A r \in Request : fut'[r] = IF r \in slots /\ fut[r] = "pending" THEN "error" ELSE fut[r]
        /\ slots' = {} /\ UNCHANGED <<generated, finished, observed>>
    BY <1>1, <1>9 DEF StepRaised, Resolve
  <2>2. QED
    BY <1>1, <1>2, <2>1 DEF SequencesTypeOK, TokenInv
<1>10. CASE UNCHANGED allvars
  BY <1>1, <1>10 DEF allvars, vars, sequences, scheduler, SequencesTypeOK, TokenInv
<1>11. QED
  BY <1>3, <1>4, <1>5, <1>6, <1>7, <1>8, <1>9, <1>10
     DEF Next, HandlerNext, SchedNext, Terminated, Elsewhere

-----------------------------------------------------------------------------
(* The lock and the turns of the loop. *)

\* A queue for the lock in which only the running task can be.
LEMMA LockAlone ==
  ASSUME lockq \in Seq(Task), lockq \in {<<>>, <<running>>}
  PROVE  /\ running = NoTask => lockq = <<>>
         /\ lockq # <<>> => /\ lockq = <<running>> /\ running = Head(lockq)
                            /\ Tail(lockq) = <<>>
         /\ \A t : /\ lockq = <<>> => Append(lockq, t) = <<t>>
                   /\ <<t>> # <<>>
                   /\ \A u : <<t>> = <<u>> => t = u
<1>1. \A t : /\ Append(<<>>, t) = <<t>> /\ Tail(<<t>>) = <<>> /\ <<t>> # <<>>
             /\ Head(<<t>>) = t /\ \A u : <<t>> = <<u>> => t = u
  OBVIOUS
<1>2. lockq = <<running>> => running \in Task
  <2>1. SUFFICES ASSUME lockq = <<running>> PROVE running \in Task
    OBVIOUS
  <2>2. Len(lockq) = 1 /\ lockq[1] = running /\ 1 \in 1..Len(lockq)
    BY <2>1
  <2>3. QED
    BY <2>2, ElementOfSeq
<1>3. NoTask \notin Task
  BY TasksDistinct DEF Task
<1>4. QED
  BY <1>1, <1>2, <1>3

\* The inductive step of LockInv.
LEMMA LockInvStep ==
  ASSUME SequencesTypeOK, DrainInv, LockInv, TurnInv, BatchInv, [Next]_allvars
  PROVE  LockInv'
<1>1. /\ QTypeOK /\ lockq \in Seq(Task) /\ Sched # Orch /\ Sched # NoTask /\ Orch # NoTask
      /\ \A r \in Request : r # Sched /\ r # Orch
      /\ opc \in OrchPC /\ drain_mode \in BOOLEAN /\ draining \in BOOLEAN
  BY TasksDistinct DEF SequencesTypeOK, TypeOK, QTypeOK
<1>2. /\ running = NoTask => lockq = <<>>
      /\ lockq # <<>> => lockq = <<running>> /\ running = Head(lockq) /\ Tail(lockq) = <<>>
      /\ \A t : /\ lockq = <<>> => Append(lockq, t) = <<t>>
                /\ <<t>> # <<>>
                /\ \A u : <<t>> = <<u>> => t = u
  BY <1>1, LockAlone DEF LockInv
<1>3. ASSUME lockq' = lockq, running' = running \/ lockq = <<>>, qpc' = qpc,
             spc' = spc \/ "fill" \notin {spc, spc'}, opc' = opc, opc = "notified" => running' = running,
             interactive' = interactive, batch' = batch, drain_mode' = drain_mode,
             draining' = draining
      PROVE  LockInv'
  BY <1>1, <1>2, <1>3 DEF LockInv, HasReady
<1>4. ASSUME NEW r \in Request, Reject(r) \/ Respond(r) PROVE LockInv'
  BY <1>3, <1>4 DEF Reject, Respond, qvars, deques, condition, puller, scheduler, drain
<1>5. ASSUME NEW r \in Request, Accept(r) PROVE LockInv'
  <2>1. /\ lockq = <<>> /\ lockq' = <<r>> /\ running' = r /\ opc = "none"
        /\ qpc' = qpc /\ spc' = spc /\ opc' = opc
        /\ drain_mode' = drain_mode /\ draining' = draining
    BY <1>1, <1>2, <1>5 DEF Accept, RequestEnqueue, DrainInv, puller, scheduler, drain
  <2>2. QED
    BY <1>1, <1>2, <2>1 DEF LockInv
<1>6. ASSUME NEW r \in Request, HandlerEnqueue(r) PROVE LockInv'
  <2>1. /\ lockq = <<r>> /\ lockq' = <<>> /\ opc = "none"
        /\ qpc' = qpc /\ spc' = spc /\ opc' = opc
        /\ drain_mode' = drain_mode /\ draining' = draining
    BY <1>1, <1>2, <1>6 DEF HandlerEnqueue, Enqueue, LockInv, puller, scheduler, drain
  <2>2. QED
    BY <1>1, <1>2, <2>1 DEF LockInv
<1>7. CASE TriggerDrain \/ InternalDrain \/ InternalDrainAnswer
  <2>1. /\ lockq = <<>> /\ UNCHANGED <<lockq, qpc, spc, interactive, batch, drain_mode, draining>>
        /\ opc' = opc \/ (opc = "none" /\ opc' = "start")
        /\ running' = running /\ running = NoTask
    BY <1>1, <1>2, <1>7 DEF TriggerDrain, InternalDrain, BeginDrain, InternalDrainAnswer,
                            DrainInv, qvars, deques, condition, puller, scheduler
  <2>2. QED
    BY <1>1, <1>2, <2>1 DEF LockInv, HasReady
<1>8. CASE OrchStart \/ OrchMigrate
  <2>1. /\ lockq = <<>> /\ lockq' = <<Orch>> /\ running' = Orch
        /\ UNCHANGED <<qpc, spc, draining>>
        /\ opc \in {"start", "notified"} /\ opc' = IF opc = "start" THEN "notify" ELSE "drainall"
        /\ drain_mode' = (opc = "start" \/ drain_mode)
    BY <1>1, <1>2, <1>8 DEF OrchStart, OrchMigrate, LockInv, puller, scheduler
  <2>2. QED
    BY <1>1, <1>2, <2>1 DEF LockInv
<1>9. CASE OrchNotify
  <2>1. /\ lockq = <<Orch>> /\ lockq' = <<>> /\ running' = Orch /\ opc = "notify"
        /\ opc' = "notified" /\ UNCHANGED <<qpc, spc, drain_mode>> /\ draining' = TRUE
    BY <1>1, <1>2, <1>9 DEF OrchNotify, NotifyDraining, LockInv, puller, scheduler
  <2>2. QED
    BY <1>1, <1>2, <2>1 DEF LockInv
<1>10. CASE OrchDrainAll
  <2>1. /\ lockq = <<Orch>> /\ lockq' = <<>> /\ running' = Orch /\ opc = "drainall"
        /\ opc' \in {"forward", "idle"} /\ UNCHANGED <<qpc, spc, drain_mode, draining>>
        /\ interactive' = <<>> /\ batch' = <<>>
    BY <1>1, <1>2, <1>10 DEF OrchDrainAll, DrainAllPending, LockInv, puller, scheduler
  <2>2. QED
    BY <1>1, <1>2, <2>1 DEF LockInv, HasReady
<1>11. ASSUME \/ OrchForwardSend \/ OrchPollIdle \/ OrchFinish
              \/ \E o \in PeerOutcome : OrchForwarded(o)
       PROVE  LockInv'
  <2>1. /\ UNCHANGED <<lockq, qpc, spc, interactive, batch, drain_mode, draining>>
        /\ opc \in {"forward", "idle"} /\ opc' \in {"forward", "idle", "done"}
        /\ running \in {NoTask, Orch} /\ running' \in {NoTask, Orch}
    BY <1>11 DEF OrchForwardSend, OrchPollIdle, OrchFinish, OrchForwarded, deques, puller,
                 scheduler, drain
  <2>2. lockq = <<>>
    BY <1>1, <1>2, <2>1 DEF LockInv
  <2>3. QED
    BY <1>1, <1>2, <2>1, <2>2 DEF LockInv, HasReady
<1>12. CASE TimePasses \/ UNCHANGED allvars
  BY <1>3, <1>12 DEF TimePasses, Age, allvars, vars, qvars, deques, condition, puller,
                     scheduler, drain
<1>13. CASE TurnStop \/ TurnIdleStop \/ TurnDecode \/ Slept \/ StepRaised
  <2>1. /\ UNCHANGED <<lockq, qpc, opc, interactive, batch, drain_mode, draining>>
        /\ running \in {NoTask, Sched} /\ "fill" \notin {spc, spc'} /\ qpc = "idle"
    BY <1>1, <1>13 DEF TurnStop, TurnIdleStop, LoopEnds, TurnDecode, Slept, StepRaised,
                       deques, puller, drain, TurnInv
  <2>2. lockq = <<>> /\ opc # "notified"
    BY <1>1, <1>2, <2>1 DEF LockInv
  <2>3. QED
    BY <1>1, <2>1, <2>2 DEF LockInv, HasReady
<1>14. ASSUME NEW eos \in SUBSET slots, StepDone(eos) PROVE LockInv'
  BY <1>2, <1>3, <1>14 DEF StepDone, deques, puller, drain
<1>15. CASE TurnResolve
  <2>1. /\ lockq = <<>> /\ opc # "notified" /\ running' = Sched
        /\ UNCHANGED <<qpc, opc, interactive, batch, drain_mode, draining>>
        /\ \/ spc' = "fill" /\ lockq' = <<Sched>>
           \/ spc' = "filled" /\ lockq' = <<>>
    BY <1>1, <1>2, <1>15 DEF TurnResolve, LockInv, deques, puller, drain, TurnInv
  <2>2. qpc = "idle"
    BY <1>15 DEF TurnResolve, TurnInv
  <2>3. QED
    BY <1>1, <1>2, <2>1, <2>2 DEF LockInv, HasReady
<1>16. CASE Fill
  <2>1. /\ lockq = <<Sched>> /\ lockq' = <<>> /\ running' = Sched /\ running = Sched
        /\ UNCHANGED <<qpc, opc, drain_mode, draining>> /\ spc' = "start" /\ qpc = "idle"
    BY <1>1, <1>2, <1>16 DEF Fill, TryCollect, LockInv, TurnInv, drain
  <2>2. ~HasReady => ~HasReady'
    BY <1>16 DEF Fill, TryCollect, HasReady, deques
  <2>3. QED
    BY <1>1, <1>2, <2>1, <2>2 DEF LockInv
<1>17. CASE StartSequences
  <2>1. /\ UNCHANGED <<lockq, running, opc, interactive, batch, drain_mode, draining>>
        /\ "fill" \notin {spc, spc'} /\ "get" \notin {qpc, qpc'}
    BY <1>17 DEF StartSequences, TurnInv, deques, condition, drain
  <2>2. QED
    BY <2>1 DEF LockInv, HasReady
<1>18. CASE TurnIdle
  <2>1. /\ lockq = <<>> /\ lockq' = <<Sched>> /\ running' = Sched /\ opc # "notified"
        /\ UNCHANGED <<opc, interactive, batch, drain_mode, draining>>
        /\ spc' = "blocked" /\ qpc' = "get"
    BY <1>1, <1>2, <1>18 DEF TurnIdle, GetStart, LockInv, TurnInv, deques, drain
  <2>2. QED
    BY <1>1, <1>2, <2>1 DEF LockInv, HasReady
<1>19. CASE Blocked
  <2>1. UNCHANGED <<spc, opc, drain_mode, draining>> /\ spc = "blocked"
    BY <1>19 DEF Blocked, GetCollect, GetNothing, GetWait, GetWoken, scheduler, drain
  <2>2. CASE GetCollect(Sched, 1) \/ GetNothing(Sched) \/ GetWait(Sched)
    <3>1. /\ lockq = <<Sched>> /\ lockq' = <<>> /\ running = Sched
          /\ qpc' # "get"
      BY <1>1, <1>2, <2>2 DEF GetCollect, GetNothing, GetWait, LockInv
    <3>2. ~HasReady => ~HasReady'
      BY <2>2 DEF GetCollect, GetNothing, GetWait, HasReady, deques
    <3>3. QED
      BY <1>1, <1>2, <2>1, <3>1, <3>2 DEF LockInv
  <2>3. CASE GetWoken(Sched)
    <3>1. /\ lockq = <<>> /\ lockq' = <<Sched>> /\ running' = Sched /\ opc # "notified"
          /\ qpc' = "get" /\ UNCHANGED <<interactive, batch>>
      BY <1>1, <1>2, <2>1, <2>3 DEF GetWoken, LockInv, deques
    <3>2. QED
      BY <1>1, <1>2, <2>1, <3>1 DEF LockInv, HasReady
  <2>4. QED
    BY <1>19, <2>2, <2>3 DEF Blocked
<1>20. QED
  BY <1>4, <1>5, <1>6, <1>7, <1>8, <1>9, <1>10, <1>11, <1>12, <1>13, <1>14, <1>15,
     <1>16, <1>17, <1>18, <1>19
     DEF Next, HandlerNext, DrainNext, OrchNext, SchedNext, Terminated

\* The drain takes no step while a turn of the loop is running.
LEMMA DrainOutsideTurn ==
  ASSUME LockInv, DrainNext(PeerOutcome)
  PROVE  running # Sched
<1>1. Sched # NoTask /\ Sched # Orch
  BY TasksDistinct
<1>2. CASE TriggerDrain \/ InternalDrain \/ InternalDrainAnswer
  BY <1>1, <1>2 DEF TriggerDrain, InternalDrain, InternalDrainAnswer
<1>3. CASE OrchStart \/ OrchNotify \/ OrchDrainAll
  BY <1>1, <1>3 DEF OrchStart, OrchNotify, NotifyDraining, OrchDrainAll, DrainAllPending
<1>4. CASE OrchForwardSend \/ OrchPollIdle \/ OrchFinish
  BY <1>1, <1>4 DEF OrchForwardSend, OrchPollIdle, OrchFinish
<1>5. ASSUME NEW o \in PeerOutcome, OrchForwarded(o) PROVE running # Sched
  BY <1>1, <1>5 DEF OrchForwarded
<1>6. CASE OrchMigrate
  BY <1>1, <1>6 DEF OrchMigrate, LockInv
<1>7. QED
  BY <1>2, <1>3, <1>4, <1>5, <1>6 DEF DrainNext, OrchNext

\* Nothing but the clock interferes with the turn of the loop that is running.
LEMMA ElsewhereWaits ==
  ASSUME LockInv, Elsewhere, running = Sched
  PROVE  /\ running' = Sched /\ drain_mode' = drain_mode
         /\ interactive' = interactive /\ batch' = batch
<1>1. Sched # NoTask /\ \A r \in Request : r # Sched
  BY TasksDistinct
<1>2. CASE TimePasses
  BY <1>2 DEF TimePasses, Age, condition, scheduler
<1>3. ASSUME NEW r \in Request, Reject(r) \/ Accept(r) \/ HandlerEnqueue(r) \/ Respond(r)
      PROVE  FALSE
  BY <1>1, <1>3 DEF Reject, Accept, HandlerEnqueue, Enqueue, Respond
<1>4. QED
  BY <1>2, <1>3, DrainOutsideTurn DEF Elsewhere

\* The inductive step of TurnInv.
LEMMA TurnInvStep ==
  ASSUME SequencesTypeOK, DrainInv, LockInv, TurnInv, BatchInv, [Next]_allvars
  PROVE  TurnInv'
<1>1. /\ QTypeOK /\ ArrivalInv /\ lockq \in Seq(Task)
      /\ Sched # Orch /\ Sched # NoTask /\ Orch # NoTask
      /\ slots \in SUBSET Request /\ pulled \in SUBSET Request
      /\ MaxSlots \in Nat \ {0} /\ inflight_count \in Nat
      /\ drain_mode \in BOOLEAN /\ opc \in OrchPC
  BY TasksDistinct, PoolIsPositive
     DEF SequencesTypeOK, TypeOK, QTypeOK, BatchInv, ServingInv
<1>2. /\ running = NoTask => lockq = <<>>
      /\ lockq # <<>> => lockq = <<running>> /\ running = Head(lockq)
      /\ \A t : <<t>> # <<>> /\ \A u : <<t>> = <<u>> => t = u
  BY <1>1, LockAlone DEF LockInv
<1>3. /\ IsFiniteSet(slots) /\ Cardinality(slots) \in Nat
      /\ slots # {} => Cardinality(slots) # 0
      /\ Cardinality({}) = 0
  BY <1>1, SizeOfRequests, FS_EmptySet
<1>4. \A S \in SUBSET Request : Cardinality(S) \in Nat /\ (Cardinality(S) = 0 <=> S = {})
  BY SizeOfRequests, FS_EmptySet
\* Without collecting, the scheduler keeps what it has or loses some of it.
<1>5. \A S \in SUBSET (slots \cup pulled) : Cardinality(S) <= MaxSlots
  <2>1. SUFFICES ASSUME NEW S \in SUBSET (slots \cup pulled) PROVE Cardinality(S) <= MaxSlots
    OBVIOUS
  <2>2. IsFiniteSet(slots \cup pulled) /\ Cardinality(slots \cup pulled) \in Nat
    BY <1>1, SizeOfRequests
  <2>3. Cardinality(S) <= Cardinality(slots \cup pulled)
    BY <2>2, FS_Subset
  <2>4. Cardinality(S) \in Nat
    BY <1>1, <1>4
  <2>5. QED
    BY <1>1, <2>2, <2>3, <2>4 DEF TurnInv
<1>6. CASE Elsewhere
  <2>1. /\ SchedulerStands /\ slots' = slots
        /\ running = Sched => running' = Sched /\ drain_mode' = drain_mode
    BY <1>6, ElsewhereType, ElsewhereWaits DEF Elsewhere, sequences, SequencesTypeOK
  <2>2. QED
    BY <2>1 DEF TurnInv, SchedulerStands
<1>7. CASE TurnStop \/ TurnIdleStop
  <2>1. /\ slots = {} /\ pulled = {} /\ slots' = {} /\ pulled' = {}
        /\ spc' = "stopped" /\ qpc' = "idle" /\ inflight_count' = 0
    BY <1>7 DEF TurnStop, TurnIdleStop, LoopEnds, sequences, puller, TurnInv
  <2>2. {} \cup {} = {} /\ Cardinality({} \cup {}) <= MaxSlots
    BY <1>1, <1>3
  <2>3. QED
    BY <2>1, <2>2 DEF TurnInv
<1>8. CASE TurnResolve
  <2>1. /\ pulled = {} /\ pulled' = {} /\ qpc = "idle" /\ qpc' = "idle"
        /\ slots' \in SUBSET slots /\ lockq = <<>> /\ running' = Sched
        /\ inflight_count' = inflight_count /\ drain_mode' = drain_mode
        /\ \/ spc' = "fill" /\ Cardinality(slots') < MaxSlots
           \/ spc' = "filled"
    BY <1>1, <1>2, <1>8 DEF TurnResolve, TurnInv, LockInv, puller
  <2>2. Cardinality(slots' \cup pulled') <= MaxSlots
    BY <1>5, <2>1
  <2>3. inflight_count' = 0 /\ slots' \cup pulled' # {} => ~drain_mode'
    BY <2>1 DEF TurnInv
  <2>4. QED
    BY <2>1, <2>2, <2>3 DEF TurnInv
<1>9. CASE Fill
  <2> DEFINE k == MaxSlots - Cardinality(slots)
  <2>1. /\ pulled = {} /\ qpc = "idle" /\ qpc' = "idle" /\ spc' = "start"
        /\ slots' = slots /\ running' = Sched /\ k \in Nat
        /\ Cardinality(slots) + k = MaxSlots
        /\ inflight_count' = inflight_count /\ drain_mode' = drain_mode
    BY <1>1, <1>3, <1>9 DEF Fill, TryCollect, TurnInv, LockInv, sequences
  <2>2. \/ pulled' = {}
        \/ pulled' = Collected(k) /\ ~draining
    BY <1>9, <2>1 DEF Fill, TryCollect, CollectBatch
  <2>3. IsFiniteSet(pulled') /\ Cardinality(pulled') \in 0..k
    <3>1. IsFiniteSet(Collected(k)) /\ Cardinality(Collected(k)) \in 0..k
      <4>1. k \in Nat
        BY <2>1
      <4> HIDE DEF k
      <4>2. QED
        BY <1>1, <4>1, CollectFits
    <3>2. IsFiniteSet({}) /\ Cardinality({}) \in 0..k
      BY <2>1, FS_EmptySet
    <3>3. QED
      BY <2>2, <3>1, <3>2
  <2>4. Cardinality(slots' \cup pulled') <= MaxSlots
    <3>1. Cardinality(slots \cup pulled')
            = Cardinality(slots) + Cardinality(pulled') - Cardinality(slots \cap pulled')
      BY <1>3, <2>3, FS_Union
    <3>2. Cardinality(slots \cap pulled') \in Nat
      BY <1>1, <1>4
    <3>3. QED
      BY <1>1, <1>3, <2>1, <2>3, <3>1, <3>2
  <2>5. ~draining => ~drain_mode
    BY <1>1, <1>2, <1>9 DEF Fill, LockInv
  <2>6. QED
    BY <2>1, <2>2, <2>4, <2>5 DEF TurnInv
<1>10. CASE StartSequences
  <2>1. /\ slots' = slots \cup pulled /\ pulled' = {} /\ running = Sched
        /\ running' = running /\ drain_mode' = drain_mode
        /\ inflight_count' = inflight_count
        /\ spc' \in {"filled", "loop"} /\ qpc' = "idle"
    BY <1>10 DEF StartSequences, TurnInv, condition
  <2>2. slots' \cup pulled' = slots \cup pulled
    BY <2>1
  <2>3. QED
    BY <2>1, <2>2 DEF TurnInv
<1>11. CASE TurnIdle
  <2>1. /\ slots = {} /\ slots' = {} /\ pulled = {} /\ pulled' = {}
        /\ spc' = "blocked" /\ qpc' = "get" /\ lockq = <<>> /\ running' = Sched
    BY <1>1, <1>2, <1>11 DEF TurnIdle, GetStart, TurnInv, LockInv, sequences
  <2>2. {} \cup {} = {} /\ Cardinality({} \cup {}) <= MaxSlots
    BY <1>1, <1>3
  <2>3. QED
    BY <2>1, <2>2 DEF TurnInv
<1>12. CASE Blocked
  <2>1. /\ spc = "blocked" /\ spc' = "blocked" /\ slots = {} /\ slots' = {}
        /\ inflight_count' = inflight_count /\ drain_mode' = drain_mode
        /\ {} \cup {} = {} /\ Cardinality({} \cup {}) <= MaxSlots
    BY <1>1, <1>3, <1>12 DEF Blocked, TurnInv, sequences, scheduler
  <2>2. CASE GetCollect(Sched, 1)
    <3>1. /\ pulled = {} /\ pulled' = Collected(1) /\ running' = Sched
          /\ Cardinality(pulled') < 1 => qpc' = "window"
          /\ qpc' \in {"window", "returned"}
          /\ HasReady /\ lockq = <<Sched>> /\ running = Sched
      BY <1>1, <1>2, <2>2 DEF GetCollect, CollectBatch, TurnInv, LockInv
    <3>2. IsFiniteSet(pulled') /\ Cardinality(pulled') \in 0..1
      BY <1>1, <3>1, CollectFits
    <3>3. pulled' # {} => qpc' = "returned"
      <4>1. pulled' # {} => Cardinality(pulled') # 0
        BY <3>2, FS_EmptySet
      <4>2. QED
        BY <2>2, <3>2, <4>1 DEF GetCollect
    <3>4. ~drain_mode
      BY <1>1, <1>2, <3>1 DEF LockInv, OrchPC
    <3>5. {} \cup pulled' = pulled' /\ Cardinality(pulled') <= MaxSlots
      BY <1>1, <3>2
    <3>6. QED
      BY <2>1, <3>1, <3>3, <3>4, <3>5 DEF TurnInv
  <2>3. CASE GetNothing(Sched) \/ GetWait(Sched)
    <3>1. /\ pulled = {} /\ pulled' = {} /\ qpc' \in {"returned", "wait"}
          /\ qpc' = "returned" => running' = Sched
      BY <2>3 DEF GetNothing, GetWait, TurnInv
    <3>2. QED
      BY <2>1, <3>1 DEF TurnInv
  <2>4. CASE GetWoken(Sched)
    <3>1. /\ pulled = {} /\ pulled' = {} /\ qpc' = "get" /\ lockq = <<>>
          /\ running' = Sched
      BY <1>1, <1>2, <2>1, <2>4 DEF GetWoken, TurnInv, LockInv
    <3>2. QED
      BY <2>1, <3>1 DEF TurnInv
  <2>5. QED
    BY <1>12, <2>2, <2>3, <2>4 DEF Blocked
<1>13. CASE TurnDecode
  <2>1. /\ slots # {} /\ slots' = slots /\ pulled = {} /\ pulled' = {}
        /\ inflight_count' = Cardinality(slots) /\ spc' = "step" /\ qpc' = "idle"
    BY <1>13 DEF TurnDecode, TurnInv, sequences, puller
  <2>2. QED
    BY <1>3, <2>1 DEF TurnInv
<1>14. ASSUME NEW eos \in SUBSET slots, StepDone(eos) PROVE TurnInv'
  <2>1. /\ slots # {} /\ slots' = slots /\ pulled = {} /\ pulled' = {}
        /\ inflight_count' = inflight_count /\ inflight_count = Cardinality(slots)
        /\ spc' = "sleep" /\ qpc' = "idle"
    BY <1>14 DEF StepDone, TurnInv, puller
  <2>2. QED
    BY <1>3, <2>1 DEF TurnInv
<1>15. CASE StepRaised
  <2>1. /\ slots' = {} /\ pulled' = {} /\ spc' = "loop" /\ qpc' = "idle"
        /\ {} \cup {} = {} /\ Cardinality({} \cup {}) <= MaxSlots
    BY <1>1, <1>3, <1>15 DEF StepRaised, TurnInv, puller
  <2>2. QED
    BY <2>1 DEF TurnInv
<1>16. CASE Slept
  <2>1. /\ slots' = slots /\ pulled' = {} /\ pulled = {} /\ spc' = "loop" /\ qpc' = "idle"
        /\ inflight_count' = inflight_count /\ inflight_count = Cardinality(slots)
        /\ running = NoTask
    BY <1>16 DEF Slept, TurnInv, sequences, puller
  <2>2. inflight_count = 0 => slots \cup pulled = {}
    BY <1>3, <2>1
  <2>3. QED
    BY <2>1, <2>2 DEF TurnInv
<1>17. CASE UNCHANGED allvars
  BY <1>17 DEF allvars, vars, qvars, condition, puller, scheduler, sequences, TurnInv
<1>18. QED
  BY <1>6, <1>7, <1>8, <1>9, <1>10, <1>11, <1>12, <1>13, <1>14, <1>15, <1>16, <1>17
     DEF Next, HandlerNext, SchedNext, Terminated, Elsewhere

-----------------------------------------------------------------------------
(* What the scheduler holds. *)

\* The inductive step of BatchInv.
LEMMA BatchInvStep ==
  ASSUME SequencesTypeOK, TypeOK', DrainInv, LockInv, TurnInv, BatchInv, [Next]_allvars
  PROVE  BatchInv'
<1>1. /\ TypeOK /\ QTypeOK /\ TypeOK' /\ lockq \in Seq(Task)
      /\ Sched # NoTask /\ ArrivalInv
      /\ slots \in SUBSET Request /\ pulled \in SUBSET Request
      /\ pulled \cup slots \in SUBSET Request
      /\ ServingInv(pulled \cup slots) /\ pulled \cap slots = {}
      /\ MaxSlots \in Nat \ {0} /\ Cardinality(slots) \in Nat
  BY TasksDistinct, PoolIsPositive, SizeOfRequests
     DEF SequencesTypeOK, TypeOK, QTypeOK, BatchInv, ServingInv
<1>2. /\ \A r \in pulled \cup slots : fut[r] = "pending"
      /\ (pulled \cup slots) \cap Waiting = {}
  BY <1>1 DEF ServingInv, PlaceInv
<1> DEFINE held == pulled \cup slots
<1>3. ASSUME NEW T, T = held, held' = T, (pulled \cap slots)' = {}, ServingInv(T) => ServingInv(T)'
      PROVE  BatchInv'
  <2>1. ServingInv(T)'
    BY <1>1, <1>3
  <2>2. ServingInv(pulled \cup slots)'
    BY <1>3, <2>1 DEF ServingInv, PlaceInv
  <2>3. QED
    BY <1>3, <2>2 DEF BatchInv
<1>4. CASE Elsewhere
  <2>1. SchedulerStands /\ slots' = slots
    BY <1>1, <1>4, ElsewhereType DEF Elsewhere, sequences
  <2>2. ASSUME NEW r \in Request, Reject(r) \/ Accept(r) \/ HandlerEnqueue(r) \/ Respond(r)
        PROVE  \A T \in SUBSET Request : ServingInv(T) => ServingInv(T)'
    BY <1>1, <2>2, HandlerServes
  <2>3. CASE DrainNext(PeerOutcome)
    <3>1. PeerOutcome \in SUBSET {"ok", "error"}
      BY DEF PeerOutcome
    <3>2. \A T \in SUBSET Request : ServingInv(T) => ServingInv(T)'
      BY <1>1, <2>3, <3>1, DrainServes
    <3>3. QED
      BY <1>1, <1>3, <2>1, <3>2 DEF SchedulerStands
  <2>4. CASE TimePasses
    <3>1. \A T \in SUBSET Request : ServingInv(T) => ServingInv(T)'
      BY <1>1, <2>4, TimeServes
    <3>2. QED
      BY <1>1, <1>3, <2>1, <3>1 DEF SchedulerStands
  <2>5. QED
    BY <1>1, <1>3, <1>4, <2>1, <2>2, <2>3, <2>4 DEF Elsewhere, SchedulerStands
\* A step that moves nothing.
<1>5. ASSUME interactive' = interactive, batch' = batch, sequence' = sequence,
             next_sequence' = next_sequence, queue_depth' = queue_depth,
             pending' = pending, fut' = fut, resp' = resp,
             held' = held, (pulled \cap slots)' = {},
             lockq' = lockq \/ lockq' = Append(lockq, Sched)
      PROVE  BatchInv'
  <2>1. ArrivalInv' /\ Waiting' = Waiting
    <3>1. CASE lockq' = lockq
      BY <1>1, <1>5, <3>1 DEF ArrivalInv, Waiting
    <3>2. CASE lockq' = Append(lockq, Sched)
      BY <1>1, <1>5, <3>2, LockJoined
    <3>3. QED
      BY <1>5, <3>1, <3>2
  <2>2. \A T : ServingInv(T) => ServingInv(T)'
    BY <1>1, <1>5, <2>1, ServingKept
  <2>3. QED
    BY <1>3, <1>5, <2>2
<1>6. CASE TurnStop \/ TurnIdleStop \/ TurnDecode \/ Slept
  BY <1>1, <1>5, <1>6 DEF TurnStop, TurnIdleStop, LoopEnds, TurnDecode, Slept, deques,
                          puller, drain, process, sequences
<1>7. ASSUME NEW eos \in SUBSET slots, StepDone(eos) PROVE BatchInv'
  BY <1>1, <1>5, <1>7 DEF StepDone, deques, puller, drain, process
<1>8. CASE TurnIdle
  BY <1>1, <1>5, <1>8 DEF TurnIdle, GetStart, deques, drain, process, sequences
<1>9. CASE StartSequences
  <2>1. held' = held /\ (pulled \cap slots)' = {}
    BY <1>9 DEF StartSequences
  <2>2. QED
    BY <1>5, <1>9, <2>1 DEF StartSequences, deques, condition, drain, process
<1>10. CASE UNCHANGED allvars
  BY <1>1, <1>5, <1>10 DEF allvars, vars, qvars, deques, condition, puller, drain, process,
                           sequences
\* A step that collects.
<1>11. ASSUME ArrivalInv', NEW C \in SUBSET Waiting, TakesAhead(C), pulled' = pulled \cup C,
              slots' = slots, queue_depth' = queue_depth, pending' = pending,
              fut' = fut, resp' = resp
       PROVE  BatchInv'
  <2>1. \A T \in SUBSET Request : ServingInv(T) => ServingInv(T \cup C)'
    BY <1>1, <1>11, ServingTaken DEF Waiting
  <2>2. PICK T \in SUBSET Request : T = held
    BY <1>1
  <2>3. (pulled \cup slots)' = T \cup C /\ ServingInv(T \cup C)'
    BY <1>1, <1>11, <2>1, <2>2
  <2>4. ServingInv(pulled \cup slots)'
    BY <2>3 DEF ServingInv, PlaceInv
  <2>5. (pulled \cap slots)' = {}
    BY <1>1, <1>2, <1>11
  <2>6. QED
    BY <2>4, <2>5 DEF BatchInv
<1>12. CASE Fill
  <2> DEFINE k == MaxSlots - Cardinality(slots)
  <2>1. /\ slots' = slots /\ queue_depth' = queue_depth /\ pending' = pending
        /\ fut' = fut /\ resp' = resp /\ TryCollect(Sched, k) /\ k \in Nat
    BY <1>1, <1>12 DEF Fill, TurnInv, drain, process, sequences
  <2> HIDE DEF k
  <2>2. PICK C \in SUBSET Waiting : ArrivalInv' /\ TakesAhead(C) /\ pulled' = pulled \cup C
    BY <1>1, <2>1, TryCollectTakes
  <2>3. QED
    BY <1>11, <2>1, <2>2
<1>13. CASE Blocked
  <2>1. /\ slots' = slots /\ queue_depth' = queue_depth /\ pending' = pending
        /\ fut' = fut /\ resp' = resp /\ PullBatch(Sched, 1) /\ 1 \in Nat
        /\ qpc \in RoomPC => Cardinality(pulled) < 1
    BY <1>13 DEF Blocked, PullBatch, TurnInv, RoomPC, drain, process, sequences
  <2>2. PICK C \in SUBSET Waiting : ArrivalInv' /\ TakesAhead(C) /\ pulled' = pulled \cup C
    BY <1>1, <2>1, PullBatchTakes
  <2>3. QED
    BY <1>11, <2>1, <2>2
\* A step that finishes requests that have a slot.
<1>14. ASSUME NEW S, S \subseteq slots, NEW o \in {"ok", "error"}, Resolve(S, o),
              slots' = slots \ S, pulled = {}, pulled' = {}, queue_depth' \in {queue_depth, Depth},
              pending' = pending, resp' = resp, interactive' = interactive, batch' = batch,
              sequence' = sequence, next_sequence' = next_sequence,
              lockq' = lockq \/ lockq' = Append(lockq, Sched)
       PROVE  BatchInv'
  <2>1. ArrivalInv' /\ Waiting' = Waiting
    <3>1. CASE lockq' = lockq
      BY <1>1, <1>14, <3>1 DEF ArrivalInv, Waiting
    <3>2. CASE lockq' = Append(lockq, Sched)
      BY <1>1, <1>14, <3>2, LockJoined
    <3>3. QED
      BY <1>14, <3>1, <3>2
  <2>2. \A T \in SUBSET Request : S \in SUBSET T /\ ServingInv(T) => ServingInv(T \ S)'
    BY <1>1, <1>14, <2>1, ServingFinished
  <2>3. PICK T \in SUBSET Request : T = slots /\ S \in SUBSET T
    BY <1>1, <1>14
  <2>4. ServingInv(T \ S)'
    <3>1. {} \cup slots = slots
      OBVIOUS
    <3>2. ServingInv(T)
      BY <1>1, <1>14, <2>3, <3>1
    <3>3. QED
      BY <2>2, <2>3, <3>2
  <2>5. (pulled \cup slots)' = T \ S /\ (pulled \cap slots)' = {}
    BY <1>14, <2>3
  <2>6. QED
    BY <2>4, <2>5 DEF BatchInv, ServingInv, PlaceInv
<1>15. CASE TurnResolve
  <2>1. /\ Resolve(slots \cap finished, "ok") /\ slots' = slots \ (slots \cap finished)
        /\ pulled = {} /\ pulled' = {} /\ queue_depth' = Depth
        /\ pending' = pending /\ resp' = resp /\ interactive' = interactive /\ batch' = batch
        /\ sequence' = sequence /\ next_sequence' = next_sequence
        /\ lockq' = lockq \/ lockq' = Append(lockq, Sched)
    BY <1>15 DEF TurnResolve, ResolveFinished, TurnInv, deques, puller, drain
  <2>2. QED
    BY <1>14, <2>1
<1>16. CASE StepRaised
  <2>1. /\ Resolve(slots, "error") /\ slots' = slots \ slots
        /\ pulled = {} /\ pulled' = {} /\ queue_depth' = queue_depth
        /\ pending' = pending /\ resp' = resp /\ interactive' = interactive /\ batch' = batch
        /\ sequence' = sequence /\ next_sequence' = next_sequence
        /\ lockq' = lockq
    BY <1>16 DEF StepRaised, TurnInv, deques, puller, drain, process
  <2>2. QED
    BY <1>14, <2>1
<1>17. QED
  BY <1>4, <1>6, <1>7, <1>8, <1>9, <1>10, <1>12, <1>13, <1>15, <1>16
     DEF Next, HandlerNext, SchedNext, Terminated, Elsewhere

\* The inductive step of NumbersInv.
LEMMA NumbersInvStep ==
  ASSUME SequencesTypeOK, BatchInv, NumbersInv, [Next]_allvars
  PROVE  NumbersInv'
<1>1. TypeOK /\ ArrivalInv
  BY DEF SequencesTypeOK, BatchInv, ServingInv
<1>2. CASE HandlerNext \/ DrainNext(PeerOutcome) \/ TimePasses
  BY <1>1, <1>2, NumbersStep
<1>3. CASE TurnStop \/ TurnIdleStop \/ TurnIdle \/ TurnDecode \/ Slept \/ StartSequences
  BY <1>3, NumbersKept DEF TurnStop, TurnIdleStop, TurnIdle, GetStart, TurnDecode, Slept,
                           StartSequences
<1>4. ASSUME NEW eos \in SUBSET slots, StepDone(eos) PROVE NumbersInv'
  BY <1>4, NumbersKept DEF StepDone
<1>5. CASE Fill
  BY <1>5, NumbersKept DEF Fill, TryCollect
<1>6. CASE Blocked
  BY <1>6, NumbersKept DEF Blocked, GetCollect, GetNothing, GetWait, GetWoken
<1>7. CASE TurnResolve
  BY <1>7, NumbersResolved DEF TurnResolve, ResolveFinished
<1>8. CASE StepRaised
  BY <1>8, NumbersResolved DEF StepRaised
<1>9. CASE UNCHANGED allvars
  BY <1>9, NumbersKept DEF allvars, vars, qvars
<1>10. QED
  BY <1>2, <1>3, <1>4, <1>5, <1>6, <1>7, <1>8, <1>9 DEF Next, SchedNext, Terminated

\* The inductive step of FillInv.
LEMMA FillInvStep ==
  ASSUME SequencesTypeOK, TypeOK', DrainInv, LockInv, TurnInv, BatchInv, NumbersInv,
         FillInv, [Next]_allvars
  PROVE  FillInv'
<1>1. /\ TypeOK /\ QTypeOK /\ lockq \in Seq(Task) /\ ArrivalInv
      /\ slots \in SUBSET Request /\ pulled \in SUBSET Request
      /\ PlaceInv(pulled \cup slots) /\ pulled \cap slots = {}
      /\ MaxSlots \in Nat \ {0}
      /\ IsFiniteSet(slots) /\ Cardinality(slots) \in Nat
      /\ \A S \in SUBSET slots : IsFiniteSet(S) /\ Cardinality(S) \in Nat
  BY PoolIsPositive, SizeOfRequests
     DEF SequencesTypeOK, TypeOK, QTypeOK, BatchInv, ServingInv
<1>2. CASE Elsewhere
  <2>1. SchedulerStands /\ slots' = slots
    BY <1>1, <1>2, ElsewhereType DEF Elsewhere, sequences
  <2>2. CASE spc \in {"start", "filled"}
    <3>1. running = Sched
      BY <2>2 DEF TurnInv
    <3>2. drain_mode' = drain_mode /\ interactive' = interactive /\ batch' = batch
      BY <1>2, <3>1, ElsewhereWaits
    <3>3. QED
      BY <2>1, <3>2 DEF FillInv, HasReady, SchedulerStands
  <2>3. QED
    BY <2>1, <2>2 DEF FillInv, SchedulerStands
<1>3. CASE \/ TurnStop \/ TurnIdleStop \/ TurnIdle \/ TurnDecode \/ Slept \/ StepRaised
           \/ \E eos \in SUBSET slots : StepDone(eos)
  BY <1>3 DEF FillInv, TurnStop, TurnIdleStop, LoopEnds, TurnIdle, TurnDecode, Slept,
              StepRaised, StepDone
<1>4. CASE Blocked
  BY <1>4 DEF FillInv, Blocked, scheduler
<1>5. CASE TurnResolve
  <2>1. CASE spc' = "filled"
    <3>1. ~(Cardinality(slots') < MaxSlots /\ ~drain_mode) /\ drain_mode' = drain_mode
      BY <1>5, <2>1 DEF TurnResolve
    <3>2. /\ Cardinality(slots \cup pulled) <= MaxSlots
          /\ slots' \in SUBSET slots /\ pulled = {}
      BY <1>5 DEF TurnResolve, TurnInv
    <3>3. slots \cup pulled = slots
      BY <3>2
    <3>4. Cardinality(slots') <= Cardinality(slots) /\ Cardinality(slots') \in Nat
      BY <1>1, <3>2, FS_Subset
    <3>5. Cardinality(slots') = MaxSlots \/ drain_mode'
      BY <1>1, <3>1, <3>2, <3>3, <3>4
    <3>6. QED
      BY <2>1, <3>5 DEF FillInv
  <2>2. CASE spc' # "filled"
    BY <1>5, <2>2 DEF FillInv, TurnResolve
  <2>3. QED
    BY <2>1, <2>2
<1>6. CASE Fill
  <2> DEFINE k == MaxSlots - Cardinality(slots)
  <2>1. /\ slots' = slots /\ spc' = "start" /\ drain_mode' = drain_mode
        /\ TryCollect(Sched, k) /\ k \in Nat /\ pulled = {}
    BY <1>1, <1>6 DEF Fill, TurnInv, sequences
  <2>2. k + Cardinality(slots) = MaxSlots
    BY <1>1
  <2> HIDE DEF k
  <2>3. CASE draining
    BY <2>1, <2>3 DEF LockInv, FillInv
  <2>4. CASE ~HasReady
    <3>1. ~HasReady'
      BY <2>1, <2>4 DEF TryCollect, deques, HasReady
    <3>2. QED
      BY <2>1, <3>1 DEF FillInv
  <2>5. CASE HasReady' /\ HasReady /\ ~draining
    <3>1. CollectBatch(k) /\ pulled' = Collected(k)
      BY <2>1, <2>5 DEF TryCollect, CollectBatch
    <3>2. \A q \in Range(interactive) \cup Range(batch) : q \in Waiting
      BY <1>1, RangeOfSeq DEF Waiting, QTypeOK, Request
    <3>3. \A q, r \in Range(interactive) \cup Range(batch) :
            sequence[q] = sequence[r] => q = r
      BY <1>1, <3>2, NumbersTell
    <3>4. Cardinality(Collected(k)) = k
      BY <1>1, <2>1, <2>5, <3>1, <3>3, CollectFills
    <3>5. Collected(k) \in SUBSET (Range(interactive) \cup Range(batch))
      BY <1>1, <2>1, <3>1, CollectMoves
    <3>6. slots \cap Collected(k) = {} /\ IsFiniteSet(Collected(k))
      BY <1>1, <2>1, <3>2, <3>5, CollectFits DEF PlaceInv
    <3>7. Cardinality(slots \cap Collected(k)) = 0
      BY <3>6, FS_EmptySet
    <3>8. Cardinality(slots \cup Collected(k))
            = Cardinality(slots) + Cardinality(Collected(k))
                - Cardinality(slots \cap Collected(k))
      BY <1>1, <3>6, FS_Union
    <3>9. Cardinality(slots' \cup pulled') = MaxSlots
      BY <1>1, <2>1, <2>2, <3>1, <3>4, <3>7, <3>8
    <3>10. QED
      BY <2>1, <3>9 DEF FillInv
  <2>6. CASE ~HasReady'
    BY <2>1, <2>6 DEF FillInv
  <2>7. QED
    BY <2>3, <2>4, <2>5, <2>6
<1>7. CASE StartSequences
  <2>1. /\ slots' = slots \cup pulled /\ drain_mode' = drain_mode
        /\ interactive' = interactive /\ batch' = batch
        /\ (spc = "start" /\ spc' = "filled") \/ spc' = "loop"
    BY <1>7 DEF StartSequences, deques
  <2>2. QED
    BY <2>1 DEF FillInv, HasReady
<1>8. CASE UNCHANGED allvars
  BY <1>8 DEF FillInv, HasReady, allvars, vars, qvars, deques, puller, scheduler, sequences
<1>9. QED
  BY <1>2, <1>3, <1>4, <1>5, <1>6, <1>7, <1>8
     DEF Next, HandlerNext, SchedNext, Terminated, Elsewhere

-----------------------------------------------------------------------------
(* The invariants together, and what follows from them. *)

\* The initial state satisfies them.
LEMMA LoopInvInit ==
  ASSUME Init
  PROVE  LoopInv
<1>1. /\ ServerInit /\ slots = {} /\ finished = {} /\ spc = "loop" /\ qpc = "idle"
      /\ pulled = {} /\ lockq = <<>> /\ running = NoTask /\ opc = "none"
      /\ drain_mode = FALSE /\ draining = FALSE
      /\ interactive = <<>> /\ batch = <<>>
  BY DEF Init, ServerInit, QInit
<1>2. /\ generated \in [Request -> Nat] /\ observed \in [Request -> Nat]
      /\ \A r \in Request : generated[r] = 0 /\ MaxTokens[r] \in Nat \ {0}
  BY TokensArePositive DEF Init
<1>3. SequencesTypeOK /\ DrainInv
  BY <1>1, <1>2, ServerInitType DEF SequencesTypeOK
<1>4. TokenInv
  BY <1>1, <1>2 DEF TokenInv
<1>5. LockInv
  <2>1. <<Sched>> # <<>> /\ <<Orch>> # <<>>
    OBVIOUS
  <2>2. QED
    BY <1>1, <2>1 DEF LockInv
<1>6. {} \cup {} = {} /\ {} \cap {} = {} /\ Cardinality({}) <= MaxSlots
  BY FS_EmptySet, PoolIsPositive
<1>7. TurnInv
  BY <1>1, <1>6 DEF TurnInv
<1>8. BatchInv
  BY <1>1, <1>6, ServerInitServes DEF BatchInv
<1>9. NumbersInv
  BY DEF NumbersInv, Init, ServerInit, QInit
<1>10. FillInv
  BY <1>1 DEF FillInv
<1>11. QED
  BY <1>3, <1>4, <1>5, <1>7, <1>8, <1>9, <1>10 DEF LoopInv

\* Every step keeps them.
LEMMA LoopInvStep ==
  ASSUME LoopInv, [Next]_allvars
  PROVE  LoopInv'
<1>1. /\ SequencesTypeOK /\ DrainInv /\ TokenInv /\ LockInv /\ TurnInv /\ BatchInv
      /\ NumbersInv /\ FillInv
  BY DEF LoopInv
<1>2. TypeOK' /\ DrainInv'
  BY <1>1, TypeStep
<1>3. SequencesTypeOK' /\ TokenInv'
  BY <1>1, TokenStep
<1>4. LockInv'
  BY <1>1, LockInvStep
<1>5. TurnInv'
  BY <1>1, TurnInvStep
<1>6. BatchInv'
  BY <1>1, <1>2, BatchInvStep
<1>7. NumbersInv'
  BY <1>1, NumbersInvStep
<1>8. FillInv'
  BY <1>1, <1>2, FillInvStep
<1>9. QED
  BY <1>2, <1>3, <1>4, <1>5, <1>6, <1>7, <1>8 DEF LoopInv

\* So they hold in every reachable state.
LEMMA LoopInvInvariant == Spec => []LoopInv
<1>1. Init => LoopInv
  BY LoopInvInit
<1>2. LoopInv /\ [Next]_allvars => LoopInv'
  BY LoopInvStep
<1>3. QED
  BY <1>1, <1>2, PTL DEF Spec

\* Every reachable state of the generative server has the types of
\* SequencesTypeOK: no sequence is decoded past its max_tokens, though a sequence
\* that has ended stays in its slot until the next turn and steps may fail.
THEOREM SequencesKeepToLimits == Spec => []SequencesTypeOK
<1>1. LoopInv => SequencesTypeOK
  BY DEF LoopInv
<1>2. QED
  BY <1>1, LoopInvInvariant, PTL

\* The slots that _run_continuous fills, from try_collect_batch in a turn or from
\* get_next_batch when it has run dry, are never more than MAX_SLOTS.
THEOREM SlotsNeverOverbooked == Spec => []SlotsWithinPool
<1>1. ASSUME LoopInv PROVE SlotsWithinPool
  <2>1. Cardinality(slots \cup pulled) <= MaxSlots /\ slots \in SUBSET (slots \cup pulled)
    BY <1>1 DEF LoopInv, TurnInv
  <2>2. slots \in SUBSET Request /\ slots \cup pulled \in SUBSET Request
    BY <1>1 DEF LoopInv, SequencesTypeOK, TypeOK, QTypeOK
  <2>3. IsFiniteSet(slots \cup pulled) /\ Cardinality(slots \cup pulled) \in Nat
    BY <2>2, SizeOfRequests
  <2>4. Cardinality(slots) <= Cardinality(slots \cup pulled) /\ Cardinality(slots) \in Nat
    BY <2>1, <2>2, <2>3, FS_Subset, SizeOfRequests
  <2>5. QED
    BY <2>1, <2>3, <2>4, PoolIsPositive DEF SlotsWithinPool
<1>2. LoopInv => SlotsWithinPool
  BY <1>1
<1>3. QED
  BY <1>2, LoopInvInvariant, PTL

\* The generative server too serves in order of arrival within a class.
THEOREM SequencesServedInOrder == Spec => []ServedInOrder
<1>1. LoopInv => ServedInOrder
  BY DEF LoopInv, BatchInv, ServingInv
<1>2. QED
  BY <1>1, LoopInvInvariant, PTL

\* Its gauge too never shows less than what waits in the deques.
THEOREM GaugeOfSequencesIsNeverLow == Spec => []GaugeNeverLow
<1>1. LoopInv => GaugeNeverLow
  BY DEF LoopInv, BatchInv, ServingInv
<1>2. QED
  BY <1>1, LoopInvInvariant, PTL

\* No step of the loop of _run_continuous starts to decode with a slot free while
\* a request waits, but for a drain: the slot is "immediately reassigned", as the
\* module's docstring has it, although try_collect_batch is asked only once a turn.
THEOREM FreeSlotsAreReused == Spec => SlotsReusedAtOnce
<1>1. ASSUME LoopInv, [Next]_allvars, spc' = "step", spc # "step"
      PROVE  Cardinality(slots) = MaxSlots \/ ~HasReady \/ drain_mode
  <2>1. FillInv /\ TypeOK /\ DrainInv
    BY <1>1 DEF LoopInv, SequencesTypeOK
  <2>2. spc = "filled"
    <3>1. CASE Elsewhere
      BY <1>1, <2>1, <3>1, ElsewhereType DEF SchedulerStands
    <3>2. CASE TurnStop \/ TurnResolve \/ Fill \/ StartSequences \/ TurnIdleStop \/ TurnIdle
      BY <1>1, <3>2 DEF TurnStop, TurnResolve, Fill, StartSequences, TurnIdleStop, TurnIdle,
                        LoopEnds
    <3>3. CASE TurnDecode
      BY <3>3 DEF TurnDecode
    <3>4. CASE \/ Blocked \/ StepRaised \/ Slept \/ UNCHANGED allvars
               \/ \E eos \in SUBSET slots : StepDone(eos)
      BY <1>1, <3>4 DEF Blocked, StepDone, StepRaised, Slept, allvars, vars, scheduler
    <3>5. QED
      BY <1>1, <3>1, <3>2, <3>3, <3>4
         DEF Next, HandlerNext, SchedNext, Terminated, Elsewhere
  <2>3. QED
    BY <2>1, <2>2 DEF FillInv
<1>2. LoopInv /\ [Next]_allvars =>
        [spc' = "step" /\ spc # "step" =>
           Cardinality(slots) = MaxSlots \/ ~HasReady \/ drain_mode]_allvars
  BY <1>1
<1>3. QED
  BY <1>2, LoopInvInvariant, PTL DEF Spec, SlotsReusedAtOnce

\* A queue for the lock that has only the scheduler or the drain in it.
LEMMA NobodyAtLock ==
  ASSUME NEW s \in {<<>>, <<Sched>>, <<Orch>>}
  PROVE  Request \cap Range(s) = {}
<1>1. Sched \notin Request /\ Orch \notin Request
  BY TasksDistinct
<1>2. Range(<<>>) = {} /\ \A t : Range(<<t>>) = {t}
  BY DEF Range
<1>3. QED
  BY <1>1, <1>2

\* Once the drain has migrated what waited, nothing is left behind for a scheduler
\* that will not look again: nobody suspends while he owns the queue's lock.
THEOREM NoSequenceStrandedAfterDrain == Spec => []NothingStranded
<1>1. ASSUME LoopInv PROVE NothingStranded
  <2>1. /\ opc \in {"forward", "idle", "done"} => ~HasReady
        /\ opc # "none" => lockq \in {<<>>, <<Sched>>, <<Orch>>}
    BY <1>1 DEF LoopInv, LockInv
  <2>2. opc # "none" => Request \cap Range(lockq) = {}
    BY <2>1, NobodyAtLock
  <2>3. QED
    BY <2>1, <2>2 DEF NothingStranded
<1>2. LoopInv => NothingStranded
  BY <1>1
<1>3. QED
  BY <1>2, LoopInvInvariant, PTL

\* The inductive step of NoLostWakeup.
LEMMA WakeupStep ==
  ASSUME NoLostWakeup, [Next]_allvars
  PROVE  NoLostWakeup'
<1> USE DEF NoLostWakeup, HasReady
<1>1. ASSUME NEW r \in Request, Reject(r) \/ Accept(r) \/ HandlerEnqueue(r) \/ Respond(r)
      PROVE  NoLostWakeup'
  BY <1>1 DEF Reject, Accept, RequestEnqueue, HandlerEnqueue, Enqueue, Respond, qvars,
              deques, condition
<1>2. CASE TriggerDrain \/ InternalDrain \/ InternalDrainAnswer \/ TimePasses
  BY <1>2 DEF TriggerDrain, InternalDrain, InternalDrainAnswer, TimePasses, Age, qvars,
              deques, condition
<1>3. CASE OrchStart \/ OrchNotify \/ OrchMigrate \/ OrchDrainAll
  BY <1>3 DEF OrchStart, OrchNotify, NotifyDraining, OrchMigrate, OrchDrainAll,
              DrainAllPending, deques
<1>4. CASE OrchForwardSend \/ OrchPollIdle \/ OrchFinish
  BY <1>4 DEF OrchForwardSend, OrchPollIdle, OrchFinish, deques
<1>5. ASSUME NEW o \in PeerOutcome, OrchForwarded(o) PROVE NoLostWakeup'
  BY <1>5 DEF OrchForwarded, deques
<1>6. CASE TurnStop \/ TurnResolve \/ TurnIdleStop \/ TurnIdle \/ TurnDecode \/ Slept
  BY <1>6 DEF TurnStop, TurnResolve, TurnIdleStop, TurnIdle, GetStart, TurnDecode, Slept,
              deques
<1>7. CASE StartSequences \/ StepRaised \/ \E eos \in SUBSET slots : StepDone(eos)
  BY <1>7 DEF StartSequences, StepRaised, StepDone, deques, condition
<1>8. CASE Fill
  BY <1>8 DEF Fill, TryCollect, deques
<1>9. CASE Blocked
  BY <1>9 DEF Blocked, GetCollect, GetNothing, GetWait, GetWoken, deques
<1>10. CASE UNCHANGED allvars
  BY <1>10 DEF allvars, vars, qvars, deques, condition
<1>11. QED
  BY <1>1, <1>2, <1>3, <1>4, <1>5, <1>6, <1>7, <1>8, <1>9, <1>10
     DEF Next, HandlerNext, DrainNext, OrchNext, SchedNext, Terminated

\* The generative scheduler that has run dry never sleeps in get_next_batch while
\* a request is queued or the queue is draining.
THEOREM IdleLoopNeverSleepsOnWork == Spec => []NoLostWakeup
<1>1. Init => NoLostWakeup
  BY DEF Init, ServerInit, QInit, NoLostWakeup
<1>2. NoLostWakeup /\ [Next]_allvars => NoLostWakeup'
  BY WakeupStep
<1>3. QED
  BY <1>1, <1>2, PTL DEF Spec

\* Once the drain has flagged the queue, the loop takes nothing more from it, not
\* even from get_next_batch, which would hand out what it finds to a server that
\* drains: the drain has then emptied the deques.
THEOREM DrainStopsTheFilling == Spec => [][draining => Taken = {}]_allvars
<1>1. ASSUME LoopInv, [Next]_allvars, draining PROVE Taken = {}
  <2>1. SequencesTypeOK /\ TypeOK /\ DrainInv /\ LockInv /\ TurnInv /\ lockq \in Seq(Task)
    BY <1>1 DEF LoopInv, SequencesTypeOK, TypeOK, QTypeOK
  <2>2. CASE Elsewhere
    BY <2>1, <2>2, ElsewhereType DEF SchedulerStands, Taken
  <2>3. CASE TurnStop \/ TurnResolve \/ TurnIdleStop \/ TurnIdle \/ TurnDecode \/ Slept
    BY <2>3 DEF TurnStop, TurnResolve, TurnIdleStop, TurnIdle, GetStart, TurnDecode, Slept,
                puller, Taken
  <2>4. CASE StartSequences \/ StepRaised \/ \E eos \in SUBSET slots : StepDone(eos)
    BY <2>4 DEF StartSequences, StepRaised, StepDone, puller, Taken
  <2>5. CASE Fill
    BY <1>1, <2>5 DEF Fill, TryCollect, Taken
  <2>6. ASSUME GetCollect(Sched, 1) PROVE FALSE
    <3>1. lockq # <<>> /\ Head(lockq) = Sched /\ HasReady
      BY <2>6 DEF GetCollect
    <3>2. running = Sched /\ lockq = <<running>>
      BY <2>1, <3>1, LockAlone DEF LockInv
    <3>3. Sched # Orch /\ <<Sched>> # <<Orch>>
      BY TasksDistinct
    <3>4. opc \notin {"none", "start", "notify"} /\ opc # "drainall" /\ opc # "notified"
      BY <1>1, <2>1, <3>2, <3>3 DEF LockInv
    <3>5. opc \in {"forward", "idle", "done"}
      BY <2>1, <3>4 DEF TypeOK, OrchPC
    <3>6. QED
      BY <2>1, <3>1, <3>5 DEF LockInv
  <2>7. CASE Blocked
    BY <2>6, <2>7 DEF Blocked, GetNothing, GetWait, GetWoken, Taken
  <2>8. CASE UNCHANGED allvars
    BY <2>8 DEF allvars, vars, qvars, puller, Taken
  <2>9. QED
    BY <1>1, <2>2, <2>3, <2>4, <2>5, <2>7, <2>8
       DEF Next, HandlerNext, SchedNext, Terminated, Elsewhere
<1>2. LoopInv /\ [Next]_allvars => [draining => Taken = {}]_allvars
  BY <1>1
<1>3. QED
  BY <1>2, LoopInvInvariant, PTL DEF Spec

\* How many places hold a request.
LEMMA PlacesOfSequence ==
  ASSUME LoopInv, NEW r \in Request
  PROVE  Holders(r) = IF r \in Waiting \cup pulled \cup slots \cup Range(pending)
                      THEN 1 ELSE 0
<1>1. /\ TypeOK /\ ServingInv(pulled \cup slots) /\ pulled \cap slots = {}
      /\ pulled \cup slots \in SUBSET Request
      /\ lockq \in Seq(Task) /\ pending \in Seq(Request)
  BY DEF LoopInv, SequencesTypeOK, TypeOK, QTypeOK, BatchInv
<1>2. \A T \in SUBSET Request : ServingInv(T) =>
        Occurrences(r, lockq) + Occurrences(r, interactive \o batch)
          + (IF r \in T THEN 1 ELSE 0) + Occurrences(r, pending)
        = IF r \in Waiting \cup T \cup Range(pending) THEN 1 ELSE 0
  BY <1>1, PlacesCounted
<1>3. /\ Cardinality({r} \cap pulled) = IF r \in pulled THEN 1 ELSE 0
      /\ Cardinality({r} \cap slots) = IF r \in slots THEN 1 ELSE 0
  <2>1. \A S : {r} \cap S = IF r \in S THEN {r} ELSE {}
    OBVIOUS
  <2>2. Cardinality({r}) = 1 /\ Cardinality({}) = 0
    BY FS_Singleton, FS_EmptySet
  <2>3. QED
    BY <2>1, <2>2
<1>4. /\ Occurrences(r, lockq) \in Nat /\ Occurrences(r, interactive \o batch) \in Nat
      /\ Occurrences(r, pending) \in Nat
  BY <1>1, PlacesCounted
<1>5. QED
  BY <1>1, <1>2, <1>3, <1>4 DEF Holders

\* With peers to migrate to, an accepted request without a result is in exactly
\* one place - with its handler, in a deque, taken for a slot, in a slot or on
\* the migration list - and a request with a result in none, whatever step of
\* the decoding fails and wherever a drain finds the loop.
THEOREM SequenceHeldOnce ==
  ASSUME HasPeers
  PROVE  Spec => []HeldOnce
<1>1. ASSUME LoopInv PROVE HeldOnce
  <2>1. SUFFICES ASSUME NEW r \in Request
                 PROVE  Holders(r) = IF fut[r] = "pending" THEN 1 ELSE 0
    BY DEF HeldOnce
  <2>2. Holders(r) = IF r \in Waiting \cup pulled \cup slots \cup Range(pending) THEN 1 ELSE 0
    BY <1>1, PlacesOfSequence
  <2>3. r \in Waiting \cup pulled \cup slots \cup Range(pending) <=> fut[r] = "pending"
    BY <1>1 DEF LoopInv, BatchInv, ServingInv, PlaceInv
  <2>4. QED
    BY <2>2, <2>3
<1>2. LoopInv => HeldOnce
  BY <1>1
<1>3. QED
  BY <1>2, LoopInvInvariant, PTL

-----------------------------------------------------------------------------
(* The server implements InferenceService. *)

Shows(R, fate) ==
  \A r \in Request : Fate(r)' = IF r \in R THEN fate ELSE Fate(r)

\* In InferenceService's terms: a step that shows the calls in R going to `fate`.
LEMMA ServiceMoves ==
  ASSUME NEW R, NEW fate, Shows(R, fate)
  PROVE  Service!Moved(Sched, R, fate)
<1> DEFINE old == [r \in Request |-> Fate(r)]
           new == [r \in Request |-> Fate(r)']
           made == [r \in Request |-> IF r \in R THEN fate ELSE old[r]]
<1>1. new = made
  BY DEF Shows
<1>2. [s \in {Sched} |-> new] = [[s \in {Sched} |-> old] EXCEPT ![Sched] = made]
  <2> HIDE DEF old, new, made
  <2>1. QED
    BY <1>1
<1>3. QED
  BY <1>2 DEF Service!Moved

\* A step after which every request and the drain are where they were.
LEMMA ServiceStands ==
  ASSUME NEW fate, Shows({}, fate), drain_state' = drain_state, alive' = alive
  PROVE  UNCHANGED Service!services
<1>1. [r \in Request |-> Fate(r)]' = [r \in Request |-> Fate(r)]
  BY DEF Shows
<1>2. QED
  BY <1>1 DEF Service!services

\* The steps of a handler, of the scheduler and of the drain that a server of
\* InferenceService takes.
LEMMA ServiceHandles ==
  ASSUME alive, alive' = alive, drain_state' = drain_state, NEW r \in Request,
         \/ /\ drain_state = "RUNNING" /\ Fate(r) = "none" /\ Shows({r}, "queued")
         \/ /\ drain_state # "RUNNING" /\ Fate(r) = "none" /\ Shows({r}, "503")
         \/ /\ Fate(r) \in {"ok", "error"}
            /\ Shows({r}, IF Fate(r) = "ok" THEN "200" ELSE "500")
  PROVE  Service!Next
<1>1. /\ [s \in {Sched} |-> drain_state]' = [s \in {Sched} |-> drain_state]
      /\ (IF alive THEN {Sched} ELSE {})' = (IF alive THEN {Sched} ELSE {})
      /\ Sched \in (IF alive THEN {Sched} ELSE {})
  OBVIOUS
<1>2. [s \in {Sched} |-> [q \in Request |-> Fate(q)]][Sched][r] = Fate(r)
  OBVIOUS
<1>3. Service!Accept(Sched, r) \/ Service!Refuse(Sched, r) \/ Service!Respond(Sched, r)
  BY <1>1, <1>2, ServiceMoves DEF Service!Accept, Service!Refuse, Service!Respond
<1>4. QED
  BY <1>3 DEF Service!Next, Service!Handle

\* What the scheduler does is an action of the service.
LEMMA ServiceSchedules ==
  ASSUME alive, alive' = alive, drain_state' = drain_state,
         NEW R \in SUBSET Request, R # {}, NEW o \in {"ok", "error"},
         \/ Shows(R, "admitted") /\ \A r \in R : Fate(r) = "queued"
         \/ Shows(R, "running") /\ \A r \in Request : Fate(r) = "admitted" <=> r \in R
         \/ Shows(R, o) /\ \A r \in R : Fate(r) = "running"
  PROVE  Service!Next
<1>1. /\ [s \in {Sched} |-> drain_state]' = [s \in {Sched} |-> drain_state]
      /\ (IF alive THEN {Sched} ELSE {})' = (IF alive THEN {Sched} ELSE {})
      /\ Sched \in (IF alive THEN {Sched} ELSE {})
  OBVIOUS
<1>2. \A f : Service!In(Sched, {f}) = {r \in Request : Fate(r) = f}
  BY DEF Service!In
<1>3. CASE Shows(R, "admitted") /\ \A r \in R : Fate(r) = "queued"
  <2>1. R \in SUBSET Service!In(Sched, {"queued"})
    BY <1>2, <1>3
  <2>2. Service!Admit(Sched, R)
    BY <1>1, <1>3, <2>1, ServiceMoves DEF Service!Admit
  <2>3. QED
    BY <2>1, <2>2 DEF Service!Next, Service!Schedule
<1>4. CASE Shows(R, "running") /\ \A r \in Request : Fate(r) = "admitted" <=> r \in R
  <2>1. R = Service!In(Sched, {"admitted"})
    BY <1>2, <1>4
  <2>2. Service!Run(Sched)
    BY <1>1, <1>4, <2>1, ServiceMoves DEF Service!Run
  <2>3. QED
    BY <2>2 DEF Service!Next, Service!Schedule
<1>5. CASE Shows(R, o) /\ \A r \in R : Fate(r) = "running"
  <2>1. R \in SUBSET Service!In(Sched, {"running"})
    BY <1>2, <1>5
  <2>2. Service!Finish(Sched, R, o)
    BY <1>1, <1>5, <2>1, ServiceMoves DEF Service!Finish
  <2>3. QED
    BY <2>1, <2>2 DEF Service!Next, Service!Schedule
<1>6. QED
  BY <1>3, <1>4, <1>5

\* What the drain does is an action of the service.
LEMMA ServiceDrains ==
  ASSUME alive,
         \/ /\ alive' = alive /\ drain_state = "RUNNING" /\ drain_state' = "DRAINING"
            /\ Shows({}, "none")
         \/ /\ alive' = alive /\ drain_state = "DRAINING" /\ drain_state' = drain_state
            /\ \E R \in SUBSET Request :
                 /\ R # {} /\ \A r \in Request : Fate(r) = "queued" <=> r \in R
                 /\ Shows(R, IF HasPeers THEN "leaving" ELSE "lost")
         \/ /\ alive' = alive /\ drain_state' = drain_state
            /\ \E r \in Request, o \in {"ok", "error"} : Fate(r) = "leaving" /\ Shows({r}, o)
         \/ /\ drain_state = "DRAINING" /\ drain_state' = "DRAINED"
            /\ alive' = ~ExitOnComplete
            /\ \A r \in Request : Fate(r) \notin {"queued", "leaving", "running", "admitted"}
            /\ IF ExitOnComplete THEN Shows(Request, "none") ELSE Shows({}, "none")
  PROVE  Service!Next
<1> DEFINE phase == [s \in {Sched} |-> drain_state]
           up == IF alive THEN {Sched} ELSE {}
           calls == [s \in {Sched} |-> [r \in Request |-> Fate(r)]]
<1>1. /\ Sched \in up
      /\ alive' = alive => up' = up
      /\ drain_state' = drain_state => phase' = phase
      /\ \A f : drain_state' = f => phase' = [phase EXCEPT ![Sched] = f]
      /\ phase[Sched] = drain_state
  OBVIOUS
<1>2. Shows({}, "none") => calls' = calls
  <2>1. Shows({}, "none") => [r \in Request |-> Fate(r)]' = [r \in Request |-> Fate(r)]
    BY DEF Shows
  <2>2. QED
    BY <2>1
<1>3. CASE /\ alive' = alive /\ drain_state = "RUNNING" /\ drain_state' = "DRAINING"
           /\ Shows({}, "none")
  <2>1. Service!BeginDrain(Sched)
    BY <1>1, <1>2, <1>3 DEF Service!BeginDrain
  <2>2. QED
    BY <2>1 DEF Service!Next, Service!Drain
<1>4. ASSUME alive' = alive, drain_state = "DRAINING", drain_state' = drain_state,
             NEW R \in SUBSET Request, R # {},
             \A r \in Request : Fate(r) = "queued" <=> r \in R,
             Shows(R, IF HasPeers THEN "leaving" ELSE "lost")
      PROVE  Service!Next
  <2>1. R = Service!In(Sched, {"queued"})
    BY <1>4 DEF Service!In
  <2>2. Sched \in (IF HasPeers THEN {Sched} ELSE {}) <=> HasPeers
    OBVIOUS
  <2>3. Service!HandOver(Sched)
    BY <1>1, <1>4, <2>1, <2>2, ServiceMoves DEF Service!HandOver
  <2>4. QED
    BY <2>3 DEF Service!Next, Service!Drain
<1>5. ASSUME alive' = alive, drain_state' = drain_state, NEW r \in Request,
             NEW o \in {"ok", "error"}, Fate(r) = "leaving", Shows({r}, o)
      PROVE  Service!Next
  <2>1. Service!Forwarded(Sched, r, o)
    BY <1>1, <1>5, ServiceMoves DEF Service!Forwarded
  <2>2. QED
    BY <2>1 DEF Service!Next, Service!Drain
<1>6. CASE /\ drain_state = "DRAINING" /\ drain_state' = "DRAINED"
           /\ alive' = ~ExitOnComplete
           /\ \A r \in Request : Fate(r) \notin {"queued", "leaving", "running", "admitted"}
           /\ IF ExitOnComplete THEN Shows(Request, "none") ELSE Shows({}, "none")
  <2>1. /\ Service!In(Sched, {"queued", "leaving", "running"}) = {}
        /\ Service!In(Sched, {"admitted"}) = {}
    BY <1>6 DEF Service!In
  <2>2. ExitOnComplete => Service!Gone(Sched)
    <3>1. ExitOnComplete => up' = up \ {Sched}
      BY <1>6
    <3>2. QED
      BY <1>6, <3>1, ServiceMoves DEF Service!Gone
  <2>3. Service!FinishDrain(Sched)
    BY <1>1, <1>2, <1>6, <2>1, <2>2, SettingsAreBoolean DEF Service!FinishDrain
  <2>4. QED
    BY <2>3 DEF Service!Next, Service!Drain
<1>7. QED
  BY <1>3, <1>4, <1>5, <1>6

\* Every step of the server is a step of the service, or callers see nothing of it.
LEMMA ServiceStep ==
  ASSUME LoopInv, LoopInv', [Next]_allvars
  PROVE  [Service!Next]_(Service!services)
<1>1. /\ TypeOK /\ TypeOK' /\ QTypeOK /\ DrainInv /\ LockInv /\ LockInv' /\ TurnInv
      /\ slots \in SUBSET Request /\ pulled \in SUBSET Request /\ pulled \cap slots = {}
      /\ lockq \in Seq(Task) /\ lockq' \in Seq(Task)
  BY DEF LoopInv, SequencesTypeOK, TypeOK, QTypeOK, BatchInv
<1>2. ServingInv(pulled \cup slots) /\ ArrivalInv /\ PlaceInv(pulled \cup slots)
  BY DEF LoopInv, BatchInv, ServingInv
<1>3. alive => \A r \in Request :
        /\ Fate(r) = "queued" <=> r \in Waiting
        /\ Fate(r) = "admitted" <=> r \in pulled
        /\ Fate(r) = "running" <=> r \in slots
        /\ Fate(r) = "leaving" <=> r \in Range(pending)
  BY <1>1, <1>2, FateRead DEF Fate
<1>4. \A r \in pulled \cup slots \cup Waiting : fut[r] = "pending" /\ resp[r] = "none"
  BY <1>1, <1>2 DEF PlaceInv, Waiting
<1>5. Waiting \cap pulled = {} /\ Waiting \cap slots = {}
  BY <1>2 DEF PlaceInv
<1>6. ASSUME SchedulerStands, slots' = slots, NEW T, NEW M, T = pulled, M = slots,
             NEW R, NEW fate, Goes(T, M, R, fate)
      PROVE  Shows(R, fate)
  <2>1. SUFFICES ASSUME NEW r \in Request PROVE Fate(r)' = FateOf(r, T, M)'
    BY <1>6 DEF Goes, Shows, Fate
  <2>2. QED
    BY <1>6 DEF SchedulerStands, Fate, FateOf
<1>7. /\ opc = "idle" => Waiting = {}
      /\ opc' \in {"forward", "idle"} => Waiting' = {}
  <2>1. Range(<<>>) = {}
    BY DEF Range
  <2>2. opc = "idle" =>
          /\ interactive = <<>> /\ batch = <<>> /\ Request \cap Range(lockq) = {}
    BY <1>1, NobodyAtLock DEF LockInv, HasReady
  <2>3. opc' \in {"forward", "idle"} =>
          /\ interactive' = <<>> /\ batch' = <<>> /\ Request \cap Range(lockq') = {}
    BY <1>1, NobodyAtLock DEF LockInv, HasReady
  <2>4. QED
    BY <2>1, <2>2, <2>3 DEF Waiting
<1>8. PICK T \in SUBSET Request, M \in SUBSET Request : T = pulled /\ M = slots
  BY <1>1
<1>9. ASSUME NEW r \in Request,
             Reject(r) \/ Accept(r) \/ HandlerEnqueue(r) \/ Respond(r), slots' = slots
      PROVE  [Service!Next]_(Service!services)
  <2>1. SchedulerStands
    BY <1>1, <1>9, HandlerType
  <2>2. /\ alive /\ alive' = alive /\ drain_state' = drain_state
        /\ \/ Goes(T, M, {}, "none")
           \/ /\ drain_state # "RUNNING" /\ FateOf(r, T, M) = "none"
              /\ Goes(T, M, {r}, "503")
           \/ /\ drain_state = "RUNNING" /\ FateOf(r, T, M) = "none"
              /\ Goes(T, M, {r}, "queued")
           \/ /\ FateOf(r, T, M) \in {"ok", "error"}
              /\ Goes(T, M, {r}, IF FateOf(r, T, M) = "ok" THEN "200" ELSE "500")
    BY <1>1, <1>2, <1>8, <1>9, HandlerFates
  <2>3. FateOf(r, T, M) = Fate(r)
    BY <1>8 DEF Fate
  <2>4. QED
    BY <1>6, <1>8, <1>9, <2>1, <2>2, <2>3, ServiceHandles, ServiceStands
<1>10. ASSUME DrainNext(PeerOutcome), slots' = slots
       PROVE  [Service!Next]_(Service!services)
  <2>1. PeerOutcome \in SUBSET {"ok", "error"}
    BY DEF PeerOutcome
  <2>2. SchedulerStands /\ running # Sched
    BY <1>1, <1>10, <2>1, DrainType, DrainOutsideTurn
  <2>3. inflight_count = 0 => pulled = {} /\ slots = {}
    BY <1>1, <2>2 DEF TurnInv
  <2>4. /\ alive
        /\ \/ /\ Goes(T, M, {}, "none")
              /\ alive' = alive /\ drain_state' = drain_state
           \/ /\ Goes(T, M, {}, "none") /\ alive' = alive
              /\ drain_state = "RUNNING" /\ drain_state' = "DRAINING"
           \/ /\ alive' = alive /\ drain_state = "DRAINING" /\ drain_state' = drain_state
              /\ Waiting # {}
              /\ Goes(T, M, Waiting, IF HasPeers THEN "leaving" ELSE "lost")
           \/ /\ alive' = alive /\ drain_state' = drain_state
              /\ \E r \in Request, o \in {"ok", "error"} :
                   FateOf(r, T, M) = "leaving" /\ Goes(T, M, {r}, o)
           \/ /\ drain_state = "DRAINING" /\ drain_state' = "DRAINED"
              /\ alive' = ~ExitOnComplete
              /\ Waiting = {} /\ Range(pending) = {} /\ inflight_count = 0
              /\ IF ExitOnComplete THEN Goes(T, M, Request, "none")
                 ELSE Goes(T, M, {}, "none")
    BY <1>1, <1>2, <1>7, <1>8, <1>10, <2>1, DrainFates
  <2>5. CASE /\ Goes(T, M, {}, "none")
             /\ alive' = alive /\ drain_state' = drain_state
    BY <1>6, <1>8, <1>10, <2>2, <2>5, ServiceStands
  <2>6. CASE /\ alive' = alive /\ drain_state = "DRAINING" /\ drain_state' = drain_state
             /\ Waiting # {}
             /\ Goes(T, M, Waiting, IF HasPeers THEN "leaving" ELSE "lost")
    <3>1. Waiting \in SUBSET Request /\ Shows(Waiting, IF HasPeers THEN "leaving" ELSE "lost")
      BY <1>6, <1>8, <1>10, <2>2, <2>6 DEF Waiting
    <3>2. QED
      BY <1>3, <2>4, <2>6, <3>1, ServiceDrains
  <2>7. CASE /\ drain_state = "DRAINING" /\ drain_state' = "DRAINED"
             /\ alive' = ~ExitOnComplete
             /\ Waiting = {} /\ Range(pending) = {} /\ inflight_count = 0
             /\ IF ExitOnComplete THEN Goes(T, M, Request, "none")
                ELSE Goes(T, M, {}, "none")
    <3>1. \A r \in Request : Fate(r) \notin {"queued", "leaving", "running", "admitted"}
      BY <1>3, <2>3, <2>4, <2>7
    <3>2. IF ExitOnComplete THEN Shows(Request, "none") ELSE Shows({}, "none")
      BY <1>6, <1>8, <1>10, <2>2, <2>7
    <3>3. QED
      BY <2>4, <2>7, <3>1, <3>2, ServiceDrains
  <2>8. \A r \in Request : FateOf(r, T, M) = Fate(r)
    BY <1>8 DEF Fate
  <2>9. QED
    BY <1>6, <1>8, <1>10, <2>2, <2>4, <2>5, <2>6, <2>7, <2>8, ServiceDrains
\* A step after which every request is where it was.
<1>11. ASSUME Waiting' = Waiting, pending' = pending, fut' = fut, resp' = resp,
              alive' = alive, drain_state' = drain_state, pulled' = pulled,
              slots' = slots
       PROVE  UNCHANGED Service!services
  <2>1. Goes(T, M, {}, "none")
    BY <1>11, FateKept
  <2>2. \A r \in Request : Fate(r)' = FateOf(r, T, M)'
    BY <1>8, <1>11, FateCases DEF Fate, FateOf
  <2>3. QED
    BY <1>8, <1>11, <2>1, <2>2, ServiceStands DEF Goes, Shows, Fate
<1>12. CASE \/ TurnStop \/ TurnIdleStop \/ TurnIdle \/ TurnDecode \/ Slept
            \/ \E eos \in SUBSET slots : StepDone(eos)
            \/ TimePasses /\ UNCHANGED sequences
  <2>1. /\ pending' = pending /\ fut' = fut /\ resp' = resp /\ alive' = alive
        /\ drain_state' = drain_state /\ pulled' = pulled /\ slots' = slots
        /\ interactive' = interactive /\ batch' = batch
        /\ sequence' = sequence /\ next_sequence' = next_sequence
        /\ lockq' = lockq \/ lockq' = Append(lockq, Sched)
    BY <1>12 DEF TurnStop, TurnIdleStop, LoopEnds, TurnIdle, GetStart, TurnDecode, Slept,
                 StepDone, TimePasses, Age, deques, condition, puller, scheduler, drain,
                 process, sequences
  <2>2. Waiting' = Waiting
    BY <1>1, <1>2, <2>1, LockJoined DEF Waiting
  <2>3. QED
    BY <1>11, <2>1, <2>2
<1>13. CASE Fill \/ Blocked
  <2>1. /\ pending' = pending /\ fut' = fut /\ resp' = resp /\ drain_state' = drain_state
        /\ alive /\ alive' = alive /\ slots' = slots
    BY <1>13 DEF Fill, Blocked, drain, process, sequences
  <2>2. \E C \in SUBSET Waiting : TakesAhead(C) /\ pulled' = pulled \cup C
    <3>1. CASE Fill
      <4> DEFINE k == MaxSlots - Cardinality(slots)
      <4>1. TryCollect(Sched, k) /\ k \in Nat
        BY <1>1, <3>1, PoolIsPositive, SizeOfRequests DEF Fill, TurnInv
      <4> HIDE DEF k
      <4>2. QED
        BY <1>1, <1>2, <4>1, TryCollectTakes
    <3>2. CASE Blocked
      <4>1. /\ PullBatch(Sched, 1) /\ 1 \in Nat
            /\ qpc \in RoomPC => Cardinality(pulled) < 1
        BY <1>1, <3>2 DEF Blocked, PullBatch, TurnInv, RoomPC
      <4>2. QED
        BY <1>1, <1>2, <4>1, PullBatchTakes
    <3>3. QED
      BY <1>13, <3>1, <3>2
  <2>3. PICK C \in SUBSET Waiting : TakesAhead(C) /\ pulled' = pulled \cup C
    BY <2>2
  <2>4. Waiting' = Waiting \ C /\ C \in SUBSET Request
    BY <2>3 DEF TakesAhead, Waiting
  <2>5. CASE C = {}
    BY <1>11, <2>1, <2>3, <2>4, <2>5
  <2>6. CASE C # {}
    <3>1. ASSUME NEW r \in Request
          PROVE  Fate(r)' = IF r \in C THEN "admitted" ELSE Fate(r)
      <4>1. Fate(r)' = FateOf(r, T \cup C, M)'
        BY <1>8, <2>1, <2>3 DEF Fate, FateOf
      <4>2. Fate(r) = FateOf(r, T, M)
        BY <1>8 DEF Fate
      <4>3. QED
        BY <1>4, <1>5, <1>8, <2>1, <2>4, <4>1, <4>2, FateCases
    <3>2. Shows(C, "admitted") /\ \A r \in C : Fate(r) = "queued"
      BY <1>3, <2>1, <2>4, <3>1 DEF Shows
    <3>3. QED
      BY <2>1, <2>4, <2>6, <3>2, ServiceSchedules
  <2>7. QED
    BY <2>5, <2>6
<1>14. CASE StartSequences
  <2>1. /\ Waiting' = Waiting /\ pulled' = {} /\ slots' = slots \cup pulled
        /\ pending' = pending /\ fut' = fut /\ resp' = resp
        /\ drain_state' = drain_state /\ alive /\ alive' = alive
    BY <1>14 DEF StartSequences, deques, condition, drain, process, Waiting
  <2>2. CASE pulled = {}
    BY <1>11, <2>1, <2>2
  <2>3. CASE pulled # {}
    <3>1. ASSUME NEW r \in Request
          PROVE  Fate(r)' = IF r \in T THEN "running" ELSE Fate(r)
      <4>1. Fate(r)' = FateOf(r, {}, M \cup T)'
        BY <1>8, <2>1 DEF Fate, FateOf
      <4>2. Fate(r) = FateOf(r, T, M)
        BY <1>8 DEF Fate
      <4>3. QED
        BY <1>4, <1>5, <1>8, <2>1, <4>1, <4>2, FateCases
    <3>2. Shows(T, "running") /\ \A r \in Request : Fate(r) = "admitted" <=> r \in T
      BY <1>3, <1>8, <2>1, <3>1 DEF Shows
    <3>3. QED
      BY <1>8, <2>1, <2>3, <3>2, ServiceSchedules
  <2>4. QED
    BY <2>2, <2>3
\* A step that finishes requests that have a slot.
<1>15. ASSUME NEW S \in SUBSET M, NEW o \in {"ok", "error"}, Resolve(S, o),
              slots' = slots \ S, pulled' = pulled, Waiting' = Waiting,
              pending' = pending, resp' = resp, drain_state' = drain_state,
              alive, alive' = alive
       PROVE  [Service!Next]_(Service!services)
  <2>1. \A r \in Request : fut'[r] = IF r \in S THEN o ELSE fut[r]
    BY <1>1, <1>4, <1>8, <1>15, ResolveFinishes
  <2>2. CASE S = {}
    <3>1. fut' = fut
      BY <1>1, <1>15, <2>1, <2>2 DEF Resolve, TypeOK
    <3>2. QED
      BY <1>11, <1>15, <2>2, <3>1
  <2>3. CASE S # {}
    <3>1. ASSUME NEW r \in Request
          PROVE  Fate(r)' = IF r \in S THEN o ELSE Fate(r)
      <4>1. Fate(r)' = FateOf(r, T, M \ S)'
        BY <1>8, <1>15 DEF Fate, FateOf
      <4>2. Fate(r) = FateOf(r, T, M)
        BY <1>8 DEF Fate
      <4>3. QED
        BY <1>4, <1>5, <1>8, <1>15, <2>1, <4>1, <4>2, FateCases
    <3>2. Shows(S, o) /\ \A r \in S : Fate(r) = "running"
      BY <1>1, <1>3, <1>8, <1>15, <3>1 DEF Shows
    <3>3. QED
      BY <1>1, <1>8, <1>15, <2>3, <3>2, ServiceSchedules
  <2>4. QED
    BY <2>2, <2>3
<1>16. CASE TurnResolve
  <2>1. /\ Resolve(slots \cap finished, "ok") /\ slots' = slots \ (slots \cap finished)
        /\ pulled' = pulled /\ pending' = pending /\ resp' = resp
        /\ drain_state' = drain_state /\ alive /\ alive' = alive
        /\ interactive' = interactive /\ batch' = batch
        /\ sequence' = sequence /\ next_sequence' = next_sequence
        /\ lockq' = lockq \/ lockq' = Append(lockq, Sched)
    BY <1>16 DEF TurnResolve, ResolveFinished, deques, puller, drain
  <2>2. Waiting' = Waiting
    BY <1>1, <1>2, <2>1, LockJoined DEF Waiting
  <2>3. slots \cap finished \in SUBSET M
    BY <1>8
  <2>4. QED
    BY <1>15, <2>1, <2>2, <2>3
<1>17. CASE StepRaised
  <2>1. /\ Resolve(slots, "error") /\ slots' = slots \ slots
        /\ pulled' = pulled /\ pending' = pending /\ resp' = resp
        /\ drain_state' = drain_state /\ alive /\ alive' = alive /\ Waiting' = Waiting
    BY <1>17 DEF StepRaised, deques, puller, drain, process, Waiting
  <2>2. slots \in SUBSET M
    BY <1>8
  <2>3. QED
    BY <1>15, <2>1, <2>2
<1>18. CASE UNCHANGED allvars
  BY <1>11, <1>18 DEF allvars, vars, qvars, deques, condition, puller, drain, process,
                      sequences, Waiting
<1>19. QED
  BY <1>9, <1>10, <1>12, <1>13, <1>14, <1>16, <1>17, <1>18
     DEF Next, HandlerNext, SchedNext, Terminated, sequences

\* Seen from outside the generative server is the service of InferenceService
\* too, and its drains wait: none ends before every sequence has left its slot
\* and nothing is between the queue and a slot, although inflight_count says
\* nothing of a request from the moment it is taken to the next step.
THEOREM GenerativeServerIsService == Spec => ImplementsService
<1>1. ASSUME Init PROVE Service!Init
  <2>1. \A r \in Request : Fate(r) = "none"
    BY <1>1, FateCases DEF Fate, Init, ServerInit
  <2>2. [r \in Request |-> Fate(r)] = [r \in Request |-> "none"]
    BY <2>1
  <2>3. QED
    BY <1>1, <2>2 DEF Service!Init, Init, ServerInit
<1>2. LoopInv /\ LoopInv' /\ [Next]_allvars => [Service!Next]_(Service!services)
  BY ServiceStep
<1>3. QED
  BY <1>1, <1>2, LoopInvInvariant, PTL DEF Spec, ImplementsService, Service!Spec
=============================================================================
