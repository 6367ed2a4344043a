--------------------------- MODULE InferenceService ---------------------------
(***************************************************************************)
(* What an inference server promises to those who call it, without its     *)
(* queue, its tasks and its locks: what becomes of each call, and when a   *)
(* server that drains may refuse, hand over, finish and exit.  StaticServer *)
(* and ContinuousServer implement one such server, Cluster is made of      *)
(* several.                                                                *)
(*                                                                         *)
(* Each action changes one server only.                                    *)
(***************************************************************************)
EXTENDS FiniteSets

CONSTANTS
  Server,           \* the servers
  Call,             \* what is asked of them, once each
  Migrating,        \* the servers that have a peer to migrate to
  DrainWaits,       \* a drain waits for all that the scheduler has taken
  ExitOnComplete    \* a server exits when it has drained

ASSUME MigratingServers == Migrating \subseteq Server
ASSUME PromisesAreBoolean == DrainWaits \in BOOLEAN /\ ExitOnComplete \in BOOLEAN

VARIABLES
  phase,            \* the drain state of each server
  call,             \* what has become of each call at each server
  up                \* the servers that run

services == <<phase, call, up>>

\* Where a call is that a server has accepted and not finished.
Open == {"queued",      \* waits for the scheduler
         "admitted",    \* taken by the scheduler, which may wait for more
         "running",     \* in the model
         "leaving",     \* taken by the drain, to be sent to a peer
         "lost"}        \* taken by the drain of a server without peers

Answered == {"200", "500", "503"}

Fate == {"none"} \cup Open \cup {"ok", "error"} \cup Answered

In(s, fates) == {r \in Call : call[s][r] \in fates}

Moved(s, R, fate) ==
  call' = [call EXCEPT ![s] = [r \in Call |-> IF r \in R THEN fate ELSE @[r]]]

-----------------------------------------------------------------------------
Accept(s, r) ==
  /\ s \in up /\ phase[s] = "RUNNING"
  /\ call[s][r] = "none"
  /\ Moved(s, {r}, "queued")
  /\ UNCHANGED <<phase, up>>

\* Slip: a server that runs refuses too, when a call waits already.
RefuseWhenBusy(s, r) ==
  /\ s \in up /\ (phase[s] # "RUNNING" \/ In(s, {"queued"}) # {})
  /\ call[s][r] = "none"
  /\ Moved(s, {r}, "503")
  /\ UNCHANGED <<phase, up>>

Refuse(s, r) ==
  /\ s \in up /\ phase[s] # "RUNNING"
  /\ call[s][r] = "none"
  /\ Moved(s, {r}, "503")
  /\ UNCHANGED <<phase, up>>

\* The scheduler may take calls until the drain has.
Admit(s, R) ==
  /\ s \in up
  /\ R # {} /\ R \subseteq In(s, {"queued"})
  /\ Moved(s, R, "admitted")
  /\ UNCHANGED <<phase, up>>

Run(s) ==
  /\ s \in up
  /\ In(s, {"admitted"}) # {}
  /\ Moved(s, In(s, {"admitted"}), "running")
  /\ UNCHANGED <<phase, up>>

\* The calls in R have run, or failed together.
Finish(s, R, o) ==
  /\ s \in up
  /\ R # {} /\ R \subseteq In(s, {"running"})
  /\ Moved(s, R, o)
  /\ UNCHANGED <<phase, up>>

Respond(s, r) ==
  /\ s \in up
  /\ call[s][r] \in {"ok", "error"}
  /\ Moved(s, {r}, IF call[s][r] = "ok" THEN "200" ELSE "500")
  /\ UNCHANGED <<phase, up>>

\* The process is gone, and what it had not answered with it.
Gone(s) == up' = up \ {s} /\ Moved(s, Call, "none")

-----------------------------------------------------------------------------
BeginDrain(s) ==
  /\ s \in up /\ phase[s] = "RUNNING"
  /\ phase' = [phase EXCEPT ![s] = "DRAINING"]
  /\ UNCHANGED <<call, up>>

\* All that waits goes at once, and nothing of what the scheduler has taken.
HandOver(s) ==
  /\ s \in up /\ phase[s] = "DRAINING"
  /\ In(s, {"queued"}) # {}
  /\ Moved(s, In(s, {"queued"}), IF s \in Migrating THEN "leaving" ELSE "lost")
  /\ UNCHANGED <<phase, up>>

\* A peer has answered, or could not be asked.
Forwarded(s, r, o) ==
  /\ s \in up
  /\ call[s][r] = "leaving"
  /\ Moved(s, {r}, o)
  /\ UNCHANGED <<phase, up>>

FinishDrain(s) ==
  /\ s \in up /\ phase[s] = "DRAINING"
  /\ In(s, {"queued", "leaving", "running"}) = {}
  /\ DrainWaits => In(s, {"admitted"}) = {}
  /\ phase' = [phase EXCEPT ![s] = "DRAINED"]
  /\ IF ExitOnComplete THEN Gone(s) ELSE UNCHANGED <<call, up>>

-----------------------------------------------------------------------------
Init ==
  /\ phase = [s \in Server |-> "RUNNING"]
  /\ call = [s \in Server |-> [r \in Call |-> "none"]]
  /\ up = Server

Handle(s) == \E r \in Call : Accept(s, r) \/ Refuse(s, r) \/ Respond(s, r)

Schedule(s) ==
  \/ \E R \in SUBSET In(s, {"queued"}) : Admit(s, R)
  \/ Run(s)
  \/ \E R \in SUBSET In(s, {"running"}), o \in {"ok", "error"} : Finish(s, R, o)

Drain(s) ==
  \/ BeginDrain(s)
  \/ HandOver(s)
  \/ \E r \in Call, o \in {"ok", "error"} : Forwarded(s, r, o)
  \/ FinishDrain(s)

Next == \E s \in Server : Handle(s) \/ Schedule(s) \/ Drain(s)

Spec == Init /\ [][Next]_services
=============================================================================
