-------------------------------- MODULE Cluster --------------------------------
(***************************************************************************)
(* The classification servers of both pools behind the router: each is a   *)
(* server of InferenceService, and what they do to each other is here.     *)
(* The router's calls and the calls by which a draining server migrates    *)
(* its queue (src/server/peer_forwarder.py) arrive at the same handler,    *)
(* and a server may drain, exit, be killed and be replaced at any moment.  *)
(*                                                                         *)
(* The router's view of the pools is left out: it may be as old as one     *)
(* likes, so a request goes to any pool with a URL.  LoadRouter has the    *)
(* view and leaves out the servers.                                        *)
(***************************************************************************)
EXTENDS InferenceService, Integers

CONSTANTS
  Peers,            \* the servers that PEER_URLS of each server names
  Routed            \* the servers that the router has a base_url for

ASSUME NoneIsNoServer == "none" \notin Server
ASSUME RouterChooses == Routed \subseteq Server
ASSUME PeersMigrate ==
  /\ Peers \in [Server -> SUBSET Server]
  /\ Migrating = {s \in Server : Peers[s] # {}}

VARIABLES
  route,            \* the server the router sent each call to
  reply,            \* what came back
  status,           \* what the client got
  forward,          \* the peer that each server's drain waits for, and for what
  runs              \* how often the model has run for each call

router == <<route, reply, status>>
vars == <<services, router, forward, runs>>

None == "none"

NoForward == [peer |-> None, of |-> None, accepted |-> FALSE]

Forwards == [peer : Server \cup {None}, of : Call \cup {None}, accepted : BOOLEAN]

Forwarding(s) == forward[s].peer # None

-----------------------------------------------------------------------------
(* The client's call: LoadRouter.forward_predict, and the server's answer. *)

\* The request is under way for as long as the router has not chosen a pool
\* here, which it does blindly.
Submit(c) ==
  /\ route[c] = None
  /\ \E s \in Routed :
       /\ route' = [route EXCEPT ![c] = s]
       /\ IF s \in up THEN Accept(s, c) \/ Refuse(s, c) ELSE UNCHANGED services
  /\ UNCHANGED <<reply, status, forward, runs>>

\* The answer goes to the router, if it still waits and it was its call.
Answer(s, c) ==
  /\ \/ Respond(s, c)
     \/ call[s][c] = "503" /\ s \in up /\ UNCHANGED services
  /\ reply' = IF route[c] = s /\ reply[c] = None
              THEN [reply EXCEPT ![c] = call'[s][c]] ELSE reply
  /\ UNCHANGED <<route, status, forward, runs>>

\* The process at the other end is gone.
ConnectionLost(c) ==
  /\ route[c] # None /\ reply[c] = None
  /\ route[c] \notin up
  /\ reply' = [reply EXCEPT ![c] = "error"]
  /\ UNCHANGED <<services, route, status, forward, runs>>

\* The router's client waits for 60 s; the server's handler goes on.
CallTimesOut(c) ==
  /\ route[c] # None /\ reply[c] = None
  /\ reply' = [reply EXCEPT ![c] = "error"]
  /\ UNCHANGED <<services, route, status, forward, runs>>

Deliver(c) ==
  /\ reply[c] # None /\ status[c] = None
  /\ status' = [status EXCEPT ![c] = IF reply[c] = "200" THEN "200" ELSE "500"]
  /\ UNCHANGED <<services, route, reply, forward, runs>>

-----------------------------------------------------------------------------
(* The servers. *)

ServerSchedules(s) ==
  /\ Schedule(s)
  /\ runs' = [c \in Call |->
       IF call[s][c] = "admitted" /\ call'[s][c] = "running" THEN runs[c] + 1
       ELSE runs[c]]
  /\ UNCHANGED <<router, forward>>

PreemptionNotice(s) ==
  /\ BeginDrain(s)
  /\ UNCHANGED <<router, forward, runs>>

\* The parts of a drain that concern nobody else.
DrainGoesOn(s) ==
  /\ HandOver(s) \/ FinishDrain(s)
  /\ UNCHANGED <<router, forward, runs>>

\* The platform ends the process, in a drain or out of it.
Kill(s) ==
  /\ s \in up
  /\ Gone(s)
  /\ phase' = [phase EXCEPT ![s] = "DRAINED"]
  /\ forward' = [forward EXCEPT ![s] = NoForward]
  /\ UNCHANGED <<router, runs>>

\* A new process takes its place.  It needs 20 s to become ready; by then the
\* calls of the old one have failed.
Replace(s) ==
  /\ s \notin up
  /\ \A c \in Call : route[c] = s => reply[c] # None
  /\ \A p \in Server : forward[p].peer # s
  /\ up' = up \cup {s}
  /\ phase' = [phase EXCEPT ![s] = "RUNNING"]
  /\ UNCHANGED <<call, router, forward, runs>>

-----------------------------------------------------------------------------
(* Migration: _migrate_pending_queue and PeerForwarder.forward_predict. *)

\* Whichever peer is next; nobody asks whether it is healthy.
ForwardSend(s) ==
  /\ s \in up /\ ~Forwarding(s)
  /\ \E c \in In(s, {"leaving"}), p \in Peers[s] :
       /\ IF p \in up /\ phase[p] = "RUNNING" THEN Accept(p, c) ELSE UNCHANGED services
       /\ forward' = [forward EXCEPT ![s] =
            [peer |-> p, of |-> c, accepted |-> p \in up /\ phase[p] = "RUNNING"]]
  /\ UNCHANGED <<router, runs>>

Awaited(s) == call[forward[s].peer][forward[s].of]

ForwardDone(s, o) ==
  /\ Forwarding(s)
  /\ Forwarded(s, forward[s].of, o)
  /\ forward' = [forward EXCEPT ![s] = NoForward]
  /\ UNCHANGED <<router, runs>>

ForwardAnswered(s) ==
  /\ Forwarding(s) /\ forward[s].accepted
  /\ \/ Awaited(s) = "200" /\ ForwardDone(s, "ok")
     \/ Awaited(s) = "500" /\ ForwardDone(s, "error")

\* Slip: no raise_for_status, a 503 is taken for a result.
ForwardFailsUnchecked(s) ==
  /\ Forwarding(s)
  /\ IF forward[s].accepted
       THEN forward[s].peer \notin up /\ ForwardDone(s, "error")
       ELSE ForwardDone(s, "ok")

\* Slip: a peer that drains leaves the call open instead of refusing it.
ForwardFailsWhenGone(s) ==
  /\ Forwarding(s)
  /\ forward[s].peer \notin up
  /\ ForwardDone(s, "error")

\* The peer drains as well and answers 503, or its process is gone.
ForwardFails(s) ==
  /\ Forwarding(s)
  /\ \/ forward[s].peer \notin up
     \/ ~forward[s].accepted
  /\ ForwardDone(s, "error")

\* Slip: a call whose forward timed out is queued here again.
ForwardTimesOutRequeues(s) == ForwardDone(s, "queued")

\* The HTTP client gives up after 60 s; the peer's handler goes on.
ForwardTimesOut(s) == ForwardDone(s, "error")

-----------------------------------------------------------------------------
ClusterInit ==
  /\ Init
  /\ route = [c \in Call |-> None]
  /\ reply = [c \in Call |-> None]
  /\ status = [c \in Call |-> None]
  /\ forward = [s \in Server |-> NoForward]
  /\ runs = [c \in Call |-> 0]

OrchestratorNext(s) ==
  \/ DrainGoesOn(s)
  \/ ForwardSend(s)
  \/ ForwardAnswered(s)
  \/ ForwardFails(s)

ClusterNext ==
  \/ \E c \in Call :
       \/ Submit(c)
       \/ ConnectionLost(c)
       \/ CallTimesOut(c)
       \/ Deliver(c)
  \/ \E s \in Server :
       \/ \E c \in Call : Answer(s, c)
       \/ ServerSchedules(s)
       \/ PreemptionNotice(s)
       \/ OrchestratorNext(s)
       \/ ForwardTimesOut(s)
       \/ Kill(s)
       \/ Replace(s)

ClusterSpec == ClusterInit /\ [][ClusterNext]_vars

\* The tasks of a process run, and a broken connection is noticed.  No timeout,
\* no drain, no crash and no replacement is ever due.
ClusterFairness ==
  /\ \A c \in Call : WF_vars(ConnectionLost(c) \/ Deliver(c))
  /\ \A s \in Server :
       /\ \A c \in Call : WF_vars(Answer(s, c))
       /\ WF_vars(ServerSchedules(s))
       /\ WF_vars(OrchestratorNext(s))

FairClusterSpec == ClusterSpec /\ ClusterFairness

-----------------------------------------------------------------------------
(* Properties. *)

\* The variables keep to their values, and a server waits for a peer only for a
\* call it has handed over, with none of it left when the drain is over.
TypeOK ==
  /\ phase \in [Server -> {"RUNNING", "DRAINING", "DRAINED"}]
  /\ call \in [Server -> [Call -> Fate]]
  /\ up \subseteq Server
  /\ route \in [Call -> Server \cup {None}]
  /\ reply \in [Call -> {"200", "500", "503", "error", None}]
  /\ status \in [Call -> {"200", "500", None}]
  /\ runs \in [Call -> Nat]
  /\ forward \in [Server -> Forwards]
  /\ \A s \in Server : Forwarding(s) =>
       /\ s \in up
       /\ forward[s].peer \in Peers[s]
       /\ forward[s].of \in In(s, {"leaving"})

\* However a call wanders between servers that drain, die, are replaced and give
\* up waiting for each other, the model runs for it once at most: a drain hands
\* over only what its scheduler has not taken, and nobody retries.
ServedAtMostOnce == \A c \in Call : runs[c] <= 1

\* A client is told of success only if the model has run for it, at whichever
\* server its call came to in the end.
SuccessMeansServed == \A c \in Call : status[c] = "200" => runs[c] > 0

\* Every call is answered without any timeout having to fire: servers that drain
\* towards each other do not wait for each other, as the one asked to take a call
\* refuses it while it drains itself.
EveryCallAnswered == \A c \in Call : route[c] # None ~> status[c] # None

\* What LoadRouter assumes of a backend, put against what servers do.
BackendState ==
  [s \in Server |->
     CASE s \notin up -> "unreachable"
       [] s \in up /\ phase[s] = "RUNNING" -> "ok"
       [] OTHER -> "draining"]

Router ==
  INSTANCE LoadRouter WITH
    Client <- Call,
    Settings <- {[has_url |-> Routed, steady |-> {}]},
    Depths <- {0}, PressureThreshold <- 1, Infinite <- 2,
    has_url <- Routed, steady <- {},
    up <- BackendState,
    load <- [s \in Server |-> 0],
    healthy <- [s \in Server |-> TRUE],
    queue_depth <- [s \in Server |-> 0],
    depth_from <- [s \in Server |-> "default"],
    turn <- 3, probe <- "none", answer <- None, sample <- 0

\* LoadRouter lets a backend change its state and answer in certain ways.  The
\* servers do nothing else, through drain, exit, death and replacement, so what
\* the router was shown to do with such backends it does with these.
ServersAreBackends == [][Router!Next]_(Router!vars)
=============================================================================
