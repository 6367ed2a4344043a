----------------------------- MODULE LoadRouter -----------------------------
(***************************************************************************)
(* The load router of src/server/load_router.py and router_app.py: a loop  *)
(* that asks each backend pool for its metrics and then for its health,    *)
(* and handlers that send a client's request to a pool chosen by weight.   *)
(*                                                                         *)
(* The pools themselves are outside the router: the module lets a backend  *)
(* drain, exit, fail, come back and change its queue depth at any moment.  *)
(* Steady pools do none of that, except for the depth.  A backend answers  *)
(* a call in one step and the router receives the answer in another, so an *)
(* answer may be out of date when it arrives.                              *)
(***************************************************************************)
EXTENDS Integers

CONSTANTS
  Client,             \* requests that clients make, one each
  Settings,           \* which pools may have a base_url and stay up
  Depths,             \* the values of a backend's queue_depth gauge
  Infinite,           \* stands for float("inf")
  PressureThreshold   \* QUEUE_PRESSURE_THRESHOLD

Pool == {"spot", "ondemand"}

\* The pools in the order of the list, 3 when the loop sleeps.
PoolAt(n) == IF n = 1 THEN "spot" ELSE "ondemand"

ASSUME PoolsAreConfigured ==
  \A s \in Settings : s.steady \subseteq s.has_url /\ s.has_url \subseteq Pool
ASSUME DepthsAreNumbers ==
  /\ Depths \subseteq Nat /\ 0 \in Depths
  /\ PressureThreshold \in Nat \ {0}
  /\ Infinite \in Nat /\ \A d \in Depths \cup {PressureThreshold} : d < Infinite

VARIABLES
  has_url,        \* the pools that have a base_url; never changes
  steady,         \* those that stay up and answer in time; never changes
  up,             \* each backend: "ok", "draining" or "unreachable"
  load,           \* and its queue_depth gauge
  healthy,        \* what the router takes them for
  queue_depth,
  depth_from,     \* a history variable: what that depth was set by
  turn,           \* number of the pool being refreshed
  probe,          \* the GET under way: "none", "metrics" or "health"
  answer,         \* the answer to it: "200", "503", "error" or None
  sample,         \* the gauge in the answer
  route,          \* the pool each request was sent to
  reply,          \* what that pool answered
  status          \* what the client got

settings == <<has_url, steady>>
backends == <<settings, up, load>>
view == <<healthy, queue_depth, depth_from>>
refresh == <<turn, probe, answer, sample>>
clients == <<route, reply, status>>
vars == <<backends, view, refresh, clients>>

None == "none"

\* What a page of metrics shows that has no queue_depth.
NoGauge == -1

-----------------------------------------------------------------------------
(* The backends. *)

BackendLoad(p) ==
  /\ up[p] # "unreachable"
  /\ \E d \in Depths \ {load[p]} : load' = [load EXCEPT ![p] = d]
  /\ UNCHANGED <<settings, up, view, refresh, clients>>

BackendDrain(p) ==
  /\ up[p] = "ok" /\ p \notin steady
  /\ up' = [up EXCEPT ![p] = "draining"]
  /\ UNCHANGED <<settings, load, view, refresh, clients>>

\* It exits after its drain, or fails.
BackendDown(p) ==
  /\ up[p] # "unreachable" /\ p \notin steady
  /\ up' = [up EXCEPT ![p] = "unreachable"]
  /\ UNCHANGED <<settings, load, view, refresh, clients>>

BackendUp(p) ==
  /\ up[p] = "unreachable"
  /\ up' = [up EXCEPT ![p] = "ok"]
  /\ load' = [load EXCEPT ![p] = 0]
  /\ UNCHANGED <<settings, view, refresh, clients>>

\* GET /metrics answers in every state of the server, GET /healthz with 200
\* only while it is RUNNING.  Whether the page has the gauge is left open.
BackendProbed(p) ==
  /\ p = PoolAt(turn)
  /\ probe # "none" /\ answer = None
  /\ answer' = CASE up[p] = "unreachable" -> "error"
                 [] up[p] = "draining" /\ probe = "health" -> "503"
                 [] OTHER -> "200"
  /\ sample' \in {load[p], NoGauge}
  /\ UNCHANGED <<backends, view, turn, probe, clients>>

\* A draining backend refuses new requests and still answers those that it had
\* accepted; "500" is any failure of its own and "error" a call that fails.
BackendReplies(c) ==
  /\ route[c] # None /\ reply[c] = None
  /\ \E s \in CASE up[route[c]] = "ok" -> {"200", "500", "error"}
                [] up[route[c]] = "draining" -> {"200", "500", "503", "error"}
                [] OTHER -> {"error"} :
       reply' = [reply EXCEPT ![c] = s]
  /\ UNCHANGED <<backends, view, refresh, route, status>>

-----------------------------------------------------------------------------
(* refresh_metrics, one pool after the other. *)

Current == PoolAt(turn)

NextPool ==
  /\ turn' = turn + 1 /\ probe' = "none" /\ answer' = None
  /\ UNCHANGED sample

ProbeStart ==
  /\ turn <= 2 /\ probe = "none"
  /\ Current \in has_url
  /\ probe' = "metrics"
  /\ UNCHANGED <<backends, view, turn, answer, sample, clients>>

\* A pool without a base_url is never healthy.
ProbeSkip ==
  /\ turn <= 2 /\ probe = "none"
  /\ Current \notin has_url
  /\ healthy' = [healthy EXCEPT ![Current] = FALSE]
  /\ queue_depth' = [queue_depth EXCEPT ![Current] = 0]
  /\ NextPool
  /\ UNCHANGED <<backends, depth_from, clients>>

\* _parse_queue_depth takes a page without the gauge for a depth of 0.
ProbeMetrics ==
  /\ probe = "metrics" /\ answer = "200"
  /\ LET gauge == sample # NoGauge
     IN  /\ queue_depth' = [queue_depth EXCEPT ![Current] = IF gauge THEN sample ELSE 0]
         /\ depth_from' = [depth_from EXCEPT ![Current] = IF gauge THEN "gauge" ELSE "missing"]
  /\ probe' = "health"
  /\ answer' = None
  /\ UNCHANGED <<backends, healthy, turn, sample, clients>>

\* Slip: a 503 is taken for an answer and the pool is left as it was.
ProbeHealthSticky ==
  /\ probe = "health" /\ answer \in {"200", "503"}
  /\ healthy' = [healthy EXCEPT ![Current] = @ \/ answer = "200"]
  /\ NextPool
  /\ UNCHANGED <<backends, queue_depth, depth_from, clients>>

ProbeHealth ==
  /\ probe = "health" /\ answer \in {"200", "503"}
  /\ healthy' = [healthy EXCEPT ![Current] = (answer = "200")]
  /\ NextPool
  /\ UNCHANGED <<backends, queue_depth, depth_from, clients>>

\* Slip: the depth is set, the health is not.
ProbeFailedDepthOnly ==
  /\ \/ answer = "error"
     \/ probe # "none" /\ Current \notin steady
  /\ queue_depth' = [queue_depth EXCEPT ![Current] = Infinite]
  /\ depth_from' = [depth_from EXCEPT ![Current] = "failure"]
  /\ NextPool
  /\ UNCHANGED <<backends, healthy, clients>>

\* Slip: the except clause is outside the loop over the pools.
ProbeFailedAll ==
  /\ \/ answer = "error"
     \/ probe # "none" /\ Current \notin steady
  /\ healthy' = [p \in Pool |-> FALSE]
  /\ queue_depth' = [p \in Pool |-> Infinite]
  /\ depth_from' = [p \in Pool |-> "failure"]
  /\ turn' = 3 /\ probe' = "none" /\ answer' = None
  /\ UNCHANGED <<backends, sample, clients>>

\* The call failed, or timed out whatever became of it.
ProbeFailed ==
  /\ \/ answer = "error"
     \/ probe # "none" /\ Current \notin steady
  /\ healthy' = [healthy EXCEPT ![Current] = FALSE]
  /\ queue_depth' = [queue_depth EXCEPT ![Current] = Infinite]
  /\ depth_from' = [depth_from EXCEPT ![Current] = "failure"]
  /\ NextPool
  /\ UNCHANGED <<backends, clients>>

RefreshAgain ==
  /\ turn = 3
  /\ turn' = 1
  /\ UNCHANGED <<backends, view, probe, answer, sample, clients>>

-----------------------------------------------------------------------------
(* POST /predict of the router: forward_predict. *)

Weight(p) ==
  LET pressure == \E q \in Pool : queue_depth[q] >= PressureThreshold
  IN  IF (p = "ondemand") = pressure THEN 9 ELSE 1

\* Slip: the pool's URL is not looked at.
PopulationByHealth == {p \in Pool : healthy[p] /\ Weight(p) >= 1}

\* The population that choose_pool draws from holds every healthy pool.
Population == {p \in has_url : healthy[p] /\ Weight(p) >= 1}

Forward(c) ==
  /\ route[c] = None /\ status[c] = None
  /\ \E p \in Population : route' = [route EXCEPT ![c] = p]
  /\ UNCHANGED <<backends, view, refresh, reply, status>>

NoHealthyPool(c) ==
  /\ route[c] = None /\ status[c] = None
  /\ Population = {}
  /\ status' = [status EXCEPT ![c] = "500"]
  /\ UNCHANGED <<backends, view, refresh, route, reply>>

\* raise_for_status: any answer but a success leaves the handler as an
\* exception.
Answer(c) ==
  /\ reply[c] # None /\ status[c] = None
  /\ status' = [status EXCEPT ![c] = IF reply[c] = "200" THEN "200" ELSE "500"]
  /\ UNCHANGED <<backends, view, refresh, route, reply>>

-----------------------------------------------------------------------------
Init ==
  /\ \E s \in Settings : has_url = s.has_url /\ steady = s.steady
  /\ up \in [Pool -> {"ok", "unreachable"}]
  /\ \A p \in steady : up[p] = "ok"
  /\ load = [p \in Pool |-> 0]
  /\ healthy = [p \in Pool |-> TRUE]
  /\ queue_depth = [p \in Pool |-> 0]
  /\ depth_from = [p \in Pool |-> "default"]
  /\ turn = 1 /\ probe = "none" /\ answer = None /\ sample = 0
  /\ route = [c \in Client |-> None]
  /\ reply = [c \in Client |-> None]
  /\ status = [c \in Client |-> None]

BackendNext ==
  \E p \in Pool : BackendLoad(p) \/ BackendDrain(p) \/ BackendDown(p) \/ BackendUp(p)

RefreshNext ==
  \/ ProbeStart
  \/ ProbeSkip
  \/ ProbeMetrics
  \/ ProbeHealth
  \/ ProbeFailed
  \/ RefreshAgain

ClientNext == \E c \in Client : Forward(c) \/ NoHealthyPool(c) \/ Answer(c)

Next ==
  \/ BackendNext
  \/ \E p \in Pool : BackendProbed(p)
  \/ \E c \in Client : BackendReplies(c)
  \/ RefreshNext
  \/ ClientNext

Spec == Init /\ [][Next]_vars

\* The loop sleeps for two seconds, its calls end within three: an answer, an
\* error or a timeout.
FairSpec == Spec /\ WF_vars(RefreshNext \/ \E p \in Pool : BackendProbed(p))

-----------------------------------------------------------------------------
(* Properties. *)

\* The router's variables keep to their values; a probe is only under way in
\* the turn of a pool that has a URL, and no request goes to a pool that has
\* none, although such a pool counts as healthy until its first turn.
TypeOK ==
  /\ steady \subseteq has_url /\ has_url \subseteq Pool
  /\ up \in [Pool -> {"ok", "draining", "unreachable"}]
  /\ load \in [Pool -> Depths]
  /\ healthy \in [Pool -> BOOLEAN]
  /\ queue_depth \in [Pool -> Depths \cup {Infinite}]
  /\ depth_from \in [Pool -> {"default", "gauge", "missing", "failure"}]
  /\ turn \in 1..3
  /\ answer \in {None, "200", "503", "error"}
  /\ sample \in Depths \cup {NoGauge}
  /\ probe \in {"none", "metrics", "health"}
  /\ probe # "none" => turn <= 2 /\ Current \in has_url
  /\ route \in [Client -> has_url \cup {None}]
  /\ reply \in [Client -> {"200", "500", "503", "error", None}]
  /\ status \in [Client -> {"200", "500", None}]

\* What a failed call leaves behind never counts in a draw: a pool is no choice
\* again before a later answer of /metrics has replaced its infinite depth,
\* although refresh_metrics sets depth and health at different moments and calls
\* fail in between.  So when both pools are choices, on-demand is favoured exactly
\* if one of them showed a gauge at the threshold when it was last asked.  That a
\* choice has been asked is not said: a pool is healthy with depth 0 from its
\* creation, and a page without the gauge gives 0 too.
FailuresNeverWeigh ==
  /\ \A p \in Population : depth_from[p] # "failure"
  /\ Population = Pool =>
       (Weight("ondemand") > Weight("spot") <=>
          \E p \in Pool : depth_from[p] = "gauge" /\ queue_depth[p] >= PressureThreshold)

\* A pool that stays up and answers in time is a choice for choose_pool at every
\* moment, so no client is told that there is no healthy pool, whatever the
\* other pool does and whenever its calls fail during refresh_metrics.
SteadyPoolServes == steady \subseteq Population

\* A pool that has stopped for good, drained or down, is in the end no choice for
\* choose_pool, in the middle of whatever call of refresh_metrics it stopped.
StoppedPoolIsLeft ==
  \A p \in Pool : <>[](up[p] # "ok") => <>[](~healthy[p])
=============================================================================
