-------------------------- MODULE ContinuousServer --------------------------
(***************************************************************************)
(* The generative server: the continuous batching scheduler,               *)
(* _run_continuous of src/server/batching_scheduler.py, in an              *)
(* InferenceServer, with the decode step of src/server/model_worker.py.    *)
(*                                                                         *)
(* The slots of the table are alike, so the table is the set of requests   *)
(* that occupy one.  A decode step adds one token to every sequence; which *)
(* sequences end with it short of their max_tokens is the model's doing.   *)
(* Peers run in the same mode, so that none of them serves the /predict    *)
(* that a drain forwards to.  start_sequence and decode_sequence do not    *)
(* raise once the model is loaded.                                         *)
(***************************************************************************)
EXTENDS InferenceServer

CONSTANTS
  MaxSlots,      \* MAX_SLOTS
  MaxTokens      \* max_tokens of each request

ASSUME PoolIsPositive == MaxSlots \in Nat \ {0}
ASSUME TokensArePositive == MaxTokens \in [Request -> Nat \ {0}]

VARIABLES
  slots,         \* requests whose sequence occupies a slot
  generated,     \* tokens each sequence has
  finished,      \* sequences that reached their end
  observed       \* entries of each sequence in time_to_first_token_seconds

sequences == <<slots, generated, finished, observed>>
allvars == <<vars, sequences>>

-----------------------------------------------------------------------------
(* ModelWorker.step and _resolve_finished_slot. *)

\* Slip: > for >= in the test of max_tokens.
DecodeStepOffByOne(eos) ==
  /\ generated' = [r \in Request |->
       IF r \in slots THEN generated[r] + 1 ELSE generated[r]]
  /\ finished' = finished \cup eos \cup {r \in slots : generated'[r] > MaxTokens[r]}

\* Every sequence gets a token; it ends those of eos and those at their limit.
DecodeStep(eos) ==
  /\ generated' = [r \in Request |->
       IF r \in slots THEN generated[r] + 1 ELSE generated[r]]
  /\ finished' = finished \cup eos \cup {r \in slots : generated'[r] >= MaxTokens[r]}

\* The sequences in S are answered, and their first token observed once more.
ResolveFinished(S) ==
  /\ Resolve(S, "ok")
  /\ observed' = [r \in Request |->
       IF r \in S /\ fut[r] = "pending" THEN observed[r] + 1 ELSE observed[r]]

-----------------------------------------------------------------------------
(* _run_continuous. *)

\* Slip: the count is not cleared after the loop.
LoopEndsKeepCount ==
  /\ spc' = "stopped"
  /\ UNCHANGED inflight_count
  /\ Suspend

LoopEnds ==
  /\ spc' = "stopped"
  /\ inflight_count' = 0
  /\ Suspend

TurnStop ==
  /\ alive
  /\ spc = "loop"
  /\ CanRun(Sched)
  /\ drain_mode /\ inflight_count = 0
  /\ LoopEnds
  /\ UNCHANGED <<deques, sequence, next_sequence, draining, lockq, waiters, puller,
                 fut, resp, drain_mode, drain, process, sequences>>

\* Step 1 of a turn: answer the sequences that have finished and free their
\* slots; then ask the queue for as many requests as there are free slots.
TurnResolve ==
  /\ alive
  /\ spc = "loop"
  /\ CanRun(Sched)
  /\ ~(drain_mode /\ inflight_count = 0)
  /\ ResolveFinished(slots \cap finished)
  /\ slots' = slots \ finished
  /\ queue_depth' = Depth
  /\ IF Cardinality(slots') < MaxSlots /\ ~drain_mode
     THEN spc' = "fill" /\ Acquire(Sched)
     ELSE spc' = "filled" /\ running' = Sched /\ UNCHANGED lockq
  /\ UNCHANGED <<deques, sequence, next_sequence, draining, waiters, puller, resp,
                 drain_mode, inflight_count, drain, alive, generated, finished>>

\* Slip: the size of the pool instead of what is free of it.
FillAll ==
  /\ alive
  /\ spc = "fill"
  /\ TryCollect(Sched, MaxSlots)
  /\ spc' = "start"
  /\ UNCHANGED <<fut, resp, drain_mode, inflight_count, drain, process, sequences>>

\* Slip: one request at a time.
FillOne ==
  /\ alive
  /\ spc = "fill"
  /\ TryCollect(Sched, 1)
  /\ spc' = "start"
  /\ UNCHANGED <<fut, resp, drain_mode, inflight_count, drain, process, sequences>>

Fill ==
  /\ alive
  /\ spc = "fill"
  /\ TryCollect(Sched, MaxSlots - Cardinality(slots))
  /\ spc' = "start"
  /\ UNCHANGED <<fut, resp, drain_mode, inflight_count, drain, process, sequences>>

\* The requests that try_collect_batch or get_next_batch returned occupy slots.
\* After get_next_batch a new turn begins, for the slots still free.
StartSequences ==
  /\ alive
  /\ \/ spc = "start" /\ spc' = "filled" /\ UNCHANGED qpc
     \/ spc = "blocked" /\ qpc = "returned" /\ spc' = "loop" /\ qpc' = "idle"
  /\ slots' = slots \cup pulled
  /\ pulled' = {}
  /\ UNCHANGED <<deques, sequence, next_sequence, draining, condition, fut, resp,
                 drain_mode, inflight_count, drain, process, generated, finished,
                 observed>>

\* Slip: a server that is draining looks for work once more.
TurnIdleSpin ==
  /\ alive
  /\ spc = "filled"
  /\ slots = {}
  /\ drain_mode
  /\ spc' = "loop"
  /\ running' = Sched
  /\ UNCHANGED <<deques, sequence, next_sequence, draining, lockq, waiters, puller,
                 fut, resp, drain_mode, inflight_count, drain, process, sequences>>

TurnIdleStop ==
  /\ alive
  /\ spc = "filled"
  /\ slots = {}
  /\ drain_mode
  /\ LoopEnds
  /\ UNCHANGED <<deques, sequence, next_sequence, draining, lockq, waiters, puller,
                 fut, resp, drain_mode, drain, process, sequences>>

\* _assign_blocked_request.  The count keeps the value of the last step.
TurnIdle ==
  /\ alive
  /\ spc = "filled"
  /\ slots = {}
  /\ ~drain_mode
  /\ spc' = "blocked"
  /\ GetStart(Sched)
  /\ UNCHANGED <<fut, resp, drain_mode, inflight_count, drain, process, sequences>>

Blocked ==
  /\ alive
  /\ spc = "blocked"
  /\ \/ GetCollect(Sched, 1)
     \/ GetNothing(Sched)
     \/ GetWait(Sched)
     \/ GetWoken(Sched)
  /\ UNCHANGED <<fut, resp, scheduler, drain, process, sequences>>

\* Slip: the count is refreshed after the step.
TurnDecodeUncounted ==
  /\ alive
  /\ spc = "filled"
  /\ slots # {}
  /\ spc' = "step"
  /\ Suspend
  /\ UNCHANGED <<deques, sequence, next_sequence, draining, lockq, waiters, puller,
                 fut, resp, drain_mode, inflight_count, drain, process, sequences>>

TurnDecode ==
  /\ alive
  /\ spc = "filled"
  /\ slots # {}
  /\ inflight_count' = Cardinality(slots)
  /\ spc' = "step"
  /\ Suspend
  /\ UNCHANGED <<deques, sequence, next_sequence, draining, lockq, waiters, puller,
                 fut, resp, drain_mode, drain, process, sequences>>

\* The executor's step is done.  A first token enters the histogram.
StepDone(eos) ==
  /\ alive
  /\ spc = "step"
  /\ running = NoTask
  /\ DecodeStep(eos)
  /\ observed' = [r \in Request |->
       IF r \in slots /\ generated[r] = 0 THEN observed[r] + 1 ELSE observed[r]]
  /\ spc' = "sleep"
  /\ Suspend
  /\ UNCHANGED <<deques, sequence, next_sequence, draining, lockq, waiters, puller,
                 fut, resp, drain_mode, inflight_count, drain, process, slots>>

\* Slip: the exception is logged and not passed on to the futures.
StepRaisedSwallow ==
  /\ alive
  /\ spc = "step"
  /\ running = NoTask
  /\ slots' = {}
  /\ spc' = "loop"
  /\ running' = Sched
  /\ UNCHANGED <<deques, sequence, next_sequence, draining, lockq, waiters, puller,
                 fut, resp, drain_mode, inflight_count, drain, process, generated,
                 finished, observed>>

\* Slip: the slots are not freed.
StepRaisedKeepSlots ==
  /\ alive
  /\ spc = "step"
  /\ running = NoTask
  /\ Resolve(slots, "error")
  /\ spc' = "loop"
  /\ running' = Sched
  /\ UNCHANGED <<deques, sequence, next_sequence, draining, lockq, waiters, puller,
                 resp, drain_mode, inflight_count, drain, process, sequences>>

\* A step that raises fails every sequence that was in it.
StepRaised ==
  /\ alive
  /\ spc = "step"
  /\ running = NoTask
  /\ Resolve(slots, "error")
  /\ slots' = {}
  /\ spc' = "loop"
  /\ running' = Sched
  /\ UNCHANGED <<deques, sequence, next_sequence, draining, lockq, waiters, puller,
                 resp, drain_mode, inflight_count, drain, process, generated,
                 finished, observed>>

Slept ==
  /\ alive
  /\ spc = "sleep"
  /\ running = NoTask
  /\ spc' = "loop"
  /\ running' = Sched
  /\ UNCHANGED <<deques, sequence, next_sequence, draining, lockq, waiters, puller,
                 fut, resp, drain_mode, inflight_count, drain, process, sequences>>

-----------------------------------------------------------------------------
Init ==
  /\ ServerInit
  /\ slots = {}
  /\ generated = [r \in Request |-> 0]
  /\ finished = {}
  /\ observed = [r \in Request |-> 0]

SchedNext ==
  \/ TurnStop
  \/ TurnResolve
  \/ Fill
  \/ StartSequences
  \/ TurnIdleStop
  \/ TurnIdle
  \/ Blocked
  \/ TurnDecode
  \/ \E eos \in SUBSET slots : StepDone(eos)
  \/ StepRaised
  \/ Slept

\* A generative peer answers /predict with 404.
PeerOutcome == {"error"}

Terminated == Finished /\ UNCHANGED allvars

Next ==
  \/ (HandlerNext \/ DrainNext(PeerOutcome) \/ TimePasses) /\ UNCHANGED sequences
  \/ SchedNext
  \/ Terminated

Spec == Init /\ [][Next]_allvars

\* As for the static scheduler; the executor returns from each decode step.
Fairness ==
  /\ \A r \in Request :
       WF_allvars((HandlerEnqueue(r) \/ Respond(r)) /\ UNCHANGED sequences)
  /\ WF_allvars(SchedNext)
  /\ WF_allvars(OrchNext(PeerOutcome) /\ UNCHANGED sequences)

FairSpec == Spec /\ Fairness

-----------------------------------------------------------------------------
(* Properties. *)

\* The variables of the loop keep to their values: no sequence decodes past
\* its limit, and one is answered only after it has finished.
SequencesTypeOK ==
  /\ TypeOK
  /\ slots \subseteq Request
  /\ generated \in [Request -> Nat]
  /\ \A r \in Request : generated[r] <= MaxTokens[r]
  /\ finished \subseteq {r \in Request : generated[r] > 0}
  /\ observed \in [Request -> Nat]

\* How many places hold request r, see StaticServer; a slot is one more.
Holders(r) ==
  Occurrences(r, lockq) + Occurrences(r, interactive \o batch)
    + Cardinality({r} \cap pulled) + Cardinality({r} \cap slots)
    + Occurrences(r, pending)

\* An accepted request without a result is in exactly one place on its way to
\* one, a request with a result in none: neither a failed step nor a drain
\* duplicates or forgets a sequence.  With peers.
HeldOnce ==
  \A r \in Request : Holders(r) = IF fut[r] = "pending" THEN 1 ELSE 0

\* No more sequences run than there are slots, although requests enter the
\* table on two ways, each with its own count of what is free.
SlotsWithinPool == Cardinality(slots) <= MaxSlots

\* The module's docstring: "its slot is immediately reassigned to a waiting
\* request".  No step starts with a free slot while a request waits.
SlotsReusedAtOnce ==
  [][spc' = "step" /\ spc # "step" =>
       Cardinality(slots) = MaxSlots \/ ~HasReady \/ drain_mode]_allvars

\* What InferenceService calls the place where request r is.
Fate(r) == FateOf(r, pulled, slots)

Service ==
  INSTANCE InferenceService WITH
    Server <- {Sched},
    Call <- Request,
    Migrating <- IF HasPeers THEN {Sched} ELSE {},
    DrainWaits <- TRUE,
    phase <- [s \in {Sched} |-> drain_state],
    call <- [s \in {Sched} |-> [r \in Request |-> Fate(r)]],
    up <- IF alive THEN {Sched} ELSE {}

\* Seen from outside this server is a service too, and one that keeps the promise
\* the static server does not: DrainWaits, no drain ends while the scheduler has
\* something it has taken, although it counts its sequences only once a turn.
ImplementsService == Service!Spec

\* The comment of the observation after a step, "Record time-to-first-token
\* after the first generated token appears": one entry for each sequence.
FirstTokenObservedOnce == \A r \in Request : observed[r] <= 1

-----------------------------------------------------------------------------
(* Inductive invariants: what the proofs need besides the properties.      *)

\* A request has no tokens until it has a slot, a sequence at its limit has
\* finished, and step 1 of the turn has removed the finished ones.
TokenInv ==
  /\ \A r \in Request :
       /\ r \notin slots /\ fut[r] \in {"none", "pending"} => generated[r] = 0
       /\ generated[r] = MaxTokens[r] => r \in finished
  /\ spc \notin {"loop", "sleep"} => slots \cap finished = {}

\* Nobody suspends while he owns the queue's lock, so nobody ever waits for it,
\* and the drain runs from its start to the end of drain_all_pending at one go.
LockInv ==
  /\ lockq \in {<<>>, <<running>>}
  /\ lockq = <<Sched>> <=> spc = "fill" \/ qpc = "get"
  /\ lockq = <<Orch>> <=> opc \in {"notify", "drainall"}
  /\ opc = "notified" => running = Orch
  /\ opc # "none" => lockq \in {<<>>, <<Sched>>, <<Orch>>}
  /\ opc \in {"forward", "idle", "done"} => ~HasReady
  /\ drain_mode <=> opc \notin {"none", "start"}
  /\ draining <=> opc \notin {"none", "start", "notify"}

\* A turn of the loop runs at one go too, up to the step or until it blocks for
\* want of work; what it has taken and not counted yet it took before the drain.
TurnInv ==
  /\ spc \notin {"pull", "infer"}
  /\ qpc # "idle" <=> spc = "blocked"
  /\ qpc \in {"idle", "get", "wait", "window", "returned"}
  /\ spc \in {"fill", "start", "filled"} \/ qpc \in {"get", "returned"} => running = Sched
  /\ spc = "fill" => Cardinality(slots) < MaxSlots
  /\ spc = "blocked" => slots = {}
  /\ pulled # {} => spc = "start" \/ qpc = "returned"
  /\ Cardinality(slots \cup pulled) <= MaxSlots
  /\ spc = "step" => slots # {}
  /\ spc \in {"step", "sleep"} => inflight_count = Cardinality(slots)
  /\ inflight_count = 0 /\ slots \cup pulled # {} => running = Sched /\ ~drain_mode
  /\ spc = "stopped" => slots = {}

\* The turn has filled the table, or has left nothing to fill it with.
FillInv ==
  /\ spc = "start" =>
       Cardinality(slots \cup pulled) = MaxSlots \/ ~HasReady \/ drain_mode
  /\ spc = "filled" =>
       Cardinality(slots) = MaxSlots \/ ~HasReady \/ drain_mode

\* The scheduler holds what it has taken and what has a slot.
BatchInv == ServingInv(pulled \cup slots) /\ pulled \cap slots = {}

\* Together they are inductive.
LoopInv ==
  /\ SequencesTypeOK
  /\ DrainInv
  /\ TokenInv
  /\ LockInv
  /\ TurnInv
  /\ BatchInv
  /\ NumbersInv
  /\ FillInv
=============================================================================
