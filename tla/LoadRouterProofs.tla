-------------------------- MODULE LoadRouterProofs --------------------------
(***************************************************************************)
(* Theorems of LoadRouter, for any set of clients, any depths, any choice  *)
(* of pools with a URL and of pools that stay up.                          *)
(***************************************************************************)
EXTENDS LoadRouter, TLAPS

USE DEF settings

\* A probe's answer belongs to a probe, and a probe to a turn.
ProbeInv ==
  /\ TypeOK
  /\ answer # None => probe # "none"

\* A choice has no failure's depth, and neither has a pool whose health is being
\* asked for, as the depth is read first.
DepthIsNoFailures ==
  /\ \A p \in Pool : healthy[p] => depth_from[p] # "failure"
  /\ probe = "health" => depth_from[Current] # "failure"

\* Without a gauge to go by the depth is 0.
DepthWithoutGauge ==
  \A p \in Pool : depth_from[p] \in {"default", "missing"} => queue_depth[p] = 0

DepthInv ==
  /\ ProbeInv
  /\ DepthIsNoFailures
  /\ DepthWithoutGauge

\* The calls to a steady pool succeed.
SteadyInv ==
  /\ ProbeInv
  /\ \A p \in steady : up[p] = "ok" /\ healthy[p]
  /\ Current \in steady /\ answer # None => answer = "200"

\* Each weight of _weights is positive, so the population of choose_pool is the
\* set of the healthy pools that have a URL.
LEMMA EveryHealthyPoolIsAChoice == Population = {p \in has_url : healthy[p]}
  BY DEF Population, Weight

LEMMA CurrentIsPool == Current \in Pool
  BY DEF Current, PoolAt, Pool

-----------------------------------------------------------------------------
LEMMA ProbeInvInit == Init => ProbeInv
  BY DepthsAreNumbers, PoolsAreConfigured
     DEF Init, ProbeInv, TypeOK, None

LEMMA ProbeInvBackend ==
  ASSUME ProbeInv, BackendNext
  PROVE  ProbeInv'
<1> USE DEF ProbeInv, TypeOK, None, Current
<1>1. PICK p \in Pool : BackendLoad(p) \/ BackendDrain(p) \/ BackendDown(p) \/ BackendUp(p)
  BY DEF BackendNext
<1>2. CASE BackendLoad(p)
  BY <1>2 DEF BackendLoad, view, refresh, clients
<1>3. CASE BackendDrain(p)
  BY <1>3 DEF BackendDrain, view, refresh, clients
<1>4. CASE BackendDown(p)
  BY <1>4 DEF BackendDown, view, refresh, clients
<1>5. CASE BackendUp(p)
  BY <1>5, DepthsAreNumbers DEF BackendUp, view, refresh, clients
<1> QED
  BY <1>1, <1>2, <1>3, <1>4, <1>5

LEMMA ProbeInvRefresh ==
  ASSUME ProbeInv, RefreshNext
  PROVE  ProbeInv'
<1> USE CurrentIsPool, DepthsAreNumbers DEF ProbeInv, TypeOK, None
<1>1. CASE ProbeStart
  BY <1>1 DEF ProbeStart, backends, view, clients, Current
<1>2. CASE ProbeSkip
  BY <1>2 DEF ProbeSkip, NextPool, backends, clients
<1>3. CASE ProbeMetrics
  BY <1>3 DEF ProbeMetrics, backends, clients, Current
<1>4. CASE ProbeHealth
  BY <1>4 DEF ProbeHealth, NextPool, backends, clients
<1>5. CASE ProbeFailed
  BY <1>5 DEF ProbeFailed, NextPool, backends, clients
<1>6. CASE RefreshAgain
  BY <1>6 DEF RefreshAgain, backends, view, clients
<1> QED
  BY <1>1, <1>2, <1>3, <1>4, <1>5, <1>6 DEF RefreshNext

LEMMA ProbeInvClient ==
  ASSUME ProbeInv, ClientNext
  PROVE  ProbeInv'
<1> USE DEF ProbeInv, TypeOK, None, Current
<1>1. PICK c \in Client : Forward(c) \/ NoHealthyPool(c) \/ Answer(c)
  BY DEF ClientNext
<1>2. CASE Forward(c)
  BY <1>2, EveryHealthyPoolIsAChoice DEF Forward, backends, view, refresh
<1>3. CASE NoHealthyPool(c)
  BY <1>3 DEF NoHealthyPool, backends, view, refresh
<1>4. CASE Answer(c)
  BY <1>4 DEF Answer, backends, view, refresh
<1> QED
  BY <1>1, <1>2, <1>3, <1>4

LEMMA ProbeInvNext == ProbeInv /\ [Next]_vars => ProbeInv'
<1> SUFFICES ASSUME ProbeInv, [Next]_vars
             PROVE  ProbeInv'
  OBVIOUS
<1>1. CASE BackendNext
  BY <1>1, ProbeInvBackend
<1>2. CASE \E p \in Pool : BackendProbed(p)
  BY <1>2 DEF BackendProbed, ProbeInv, TypeOK, None, Current, backends, view, clients
<1>3. CASE \E c \in Client : BackendReplies(c)
  BY <1>3 DEF BackendReplies, ProbeInv, TypeOK, None, Current, backends, view, refresh
<1>4. CASE RefreshNext
  BY <1>4, ProbeInvRefresh
<1>5. CASE ClientNext
  BY <1>5, ProbeInvClient
<1>6. CASE UNCHANGED vars
  BY <1>6 DEF vars, backends, view, refresh, clients, ProbeInv, TypeOK, None, Current
<1> QED
  BY <1>1, <1>2, <1>3, <1>4, <1>5, <1>6 DEF Next

\* The router's variables keep to their values, a probe is only under way in the
\* turn of a pool with a URL, and no request goes to a pool without one.
THEOREM RouterTypeCorrect == Spec => []TypeOK
<1>1. ProbeInv => TypeOK
  BY DEF ProbeInv
<1> QED
  BY <1>1, ProbeInvInit, ProbeInvNext, PTL DEF Spec

-----------------------------------------------------------------------------
LEMMA DepthInvInit == Init => DepthInv
  BY ProbeInvInit DEF Init, DepthInv, DepthIsNoFailures, DepthWithoutGauge

LEMMA DepthInvRefresh ==
  ASSUME DepthInv, RefreshNext
  PROVE  DepthIsNoFailures' /\ DepthWithoutGauge'
<1> USE CurrentIsPool
    DEF DepthInv, DepthIsNoFailures, DepthWithoutGauge, ProbeInv, TypeOK
<1>1. CASE ProbeStart
  BY <1>1 DEF ProbeStart, view
<1>2. CASE ProbeSkip
  BY <1>2 DEF ProbeSkip, NextPool
<1>3. CASE ProbeMetrics
  BY <1>3 DEF ProbeMetrics, Current
<1>4. CASE ProbeHealth
  BY <1>4 DEF ProbeHealth, NextPool
<1>5. CASE ProbeFailed
  BY <1>5 DEF ProbeFailed, NextPool
<1>6. CASE RefreshAgain
  BY <1>6 DEF RefreshAgain, view
<1> QED
  BY <1>1, <1>2, <1>3, <1>4, <1>5, <1>6 DEF RefreshNext

LEMMA DepthInvNext == DepthInv /\ [Next]_vars => DepthInv'
<1> SUFFICES ASSUME DepthInv, [Next]_vars
             PROVE  DepthInv'
  OBVIOUS
<1>1. ProbeInv'
  BY ProbeInvNext DEF DepthInv
<1>2. DepthIsNoFailures' /\ DepthWithoutGauge'
  <2>1. CASE UNCHANGED <<view, turn, probe>>
    BY <2>1 DEF DepthInv, DepthIsNoFailures, DepthWithoutGauge, view, Current
  <2>2. CASE RefreshNext
    BY <2>2, DepthInvRefresh
  <2>3. [Next]_vars => RefreshNext \/ UNCHANGED <<view, turn, probe>>
    BY DEF Next, BackendNext, BackendLoad, BackendDrain, BackendDown, BackendUp,
           BackendProbed, BackendReplies, ClientNext, Forward, NoHealthyPool, Answer,
           vars, view, refresh
  <2> QED
    BY <2>1, <2>2, <2>3
<1> QED
  BY <1>1, <1>2 DEF DepthInv

\* The weights favour on-demand under pressure and spot otherwise.
LEMMA PressureFavoursOndemand ==
  Weight("ondemand") > Weight("spot") <=>
    \E q \in Pool : queue_depth[q] >= PressureThreshold
<1> DEFINE pressure == \E q \in Pool : queue_depth[q] >= PressureThreshold
<1>1. /\ Weight("ondemand") = IF pressure THEN 9 ELSE 1
      /\ Weight("spot") = IF pressure THEN 1 ELSE 9
  BY Zenon DEF Weight
<1> HIDE DEF pressure
<1>2. CASE pressure
  <2>1. Weight("ondemand") = 9 /\ Weight("spot") = 1
    BY <1>1, <1>2
  <2> QED
    BY <1>2, <2>1 DEF pressure
<1>3. CASE ~pressure
  <2>1. Weight("ondemand") = 1 /\ Weight("spot") = 9
    BY <1>1, <1>3
  <2> QED
    BY <1>3, <2>1 DEF pressure
<1> QED
  BY <1>2, <1>3

\* No choice of choose_pool has the depth that a failed call leaves, and where both
\* pools are choices it is a gauge that was shown which decides the weights.
THEOREM FailuresNeverCount == Spec => []FailuresNeverWeigh
<1>1. ASSUME DepthInv PROVE FailuresNeverWeigh
  <2>1. /\ depth_from \in [Pool -> {"default", "gauge", "missing", "failure"}]
        /\ \A p \in Pool : healthy[p] => depth_from[p] # "failure"
        /\ \A p \in Pool : depth_from[p] \in {"default", "missing"} => queue_depth[p] = 0
        /\ PressureThreshold \in Nat \ {0} /\ has_url \subseteq Pool
    BY <1>1, DepthsAreNumbers
       DEF DepthInv, DepthIsNoFailures, DepthWithoutGauge, ProbeInv, TypeOK
  <2>2. \A p \in Population : depth_from[p] # "failure"
    BY <2>1, EveryHealthyPoolIsAChoice
  <2>3. ASSUME Population = Pool, NEW p \in Pool, queue_depth[p] >= PressureThreshold
        PROVE  depth_from[p] = "gauge"
    BY <2>1, <2>2, <2>3
  <2>4. QED
    BY <2>2, <2>3, PressureFavoursOndemand DEF FailuresNeverWeigh
<1>2. DepthInv => FailuresNeverWeigh
  BY <1>1
<1> QED
  BY <1>2, DepthInvInit, DepthInvNext, PTL DEF Spec

-----------------------------------------------------------------------------
LEMMA SteadyInvInit == Init => SteadyInv
  BY ProbeInvInit, PoolsAreConfigured DEF Init, SteadyInv

\* Nobody reconfigures a router.
LEMMA SettingsKept == [Next]_vars => has_url' = has_url /\ steady' = steady
  BY DEF Next, BackendNext, BackendLoad, BackendDrain, BackendDown, BackendUp,
         BackendProbed, BackendReplies, RefreshNext, ProbeStart, ProbeSkip,
         ProbeMetrics, ProbeHealth, ProbeFailed, RefreshAgain, ClientNext, Forward,
         NoHealthyPool, Answer, vars, backends

LEMMA SteadyInvNext == SteadyInv /\ [Next]_vars => SteadyInv'
<1> SUFFICES ASSUME SteadyInv, [Next]_vars
             PROVE  SteadyInv'
  OBVIOUS
<1> DEFINE Up == \A p \in steady : up[p] = "ok"
           Healthy == \A p \in steady : healthy[p]
           Calls == Current \in steady /\ answer # None => answer = "200"
<1>0. has_url' = has_url /\ steady' = steady
  BY SettingsKept
<1>1. ProbeInv'
  BY ProbeInvNext DEF SteadyInv
<1>2. Up'
  <2>1. CASE UNCHANGED up
    BY <1>0, <2>1 DEF SteadyInv
  <2>2. CASE BackendNext
    BY <1>0, <2>2
       DEF SteadyInv, ProbeInv, TypeOK, BackendNext, BackendLoad, BackendDrain,
           BackendDown, BackendUp
  <2>3. [Next]_vars => BackendNext \/ UNCHANGED up
    BY DEF Next, BackendProbed, BackendReplies, RefreshNext, ProbeStart, ProbeSkip,
           ProbeMetrics, ProbeHealth, ProbeFailed, RefreshAgain, ClientNext, Forward,
           NoHealthyPool, Answer, vars, backends
  <2> QED
    BY <2>1, <2>2, <2>3
<1>3. Healthy' /\ Calls'
  <2>1. CASE UNCHANGED <<view, turn, answer>>
    BY <1>0, <2>1 DEF SteadyInv, view, Current
  <2>2. CASE \E p \in Pool : BackendProbed(p)
    BY <1>0, <2>2 DEF SteadyInv, BackendProbed, view, Current
  <2>3. CASE RefreshNext
    <3> USE <1>0, CurrentIsPool DEF SteadyInv, ProbeInv, TypeOK
    <3>1. CASE ProbeStart
      BY <3>1 DEF ProbeStart, view, Current
    <3>2. CASE ProbeSkip
      BY <3>2 DEF ProbeSkip, NextPool
    <3>3. CASE ProbeMetrics
      BY <3>3 DEF ProbeMetrics
    <3>4. CASE ProbeHealth
      BY <3>4 DEF ProbeHealth, NextPool, None
    <3>5. CASE ProbeFailed
      BY <3>5 DEF ProbeFailed, NextPool, None
    <3>6. CASE RefreshAgain
      BY <3>6 DEF RefreshAgain, view, None
    <3> QED
      BY <2>3, <3>1, <3>2, <3>3, <3>4, <3>5, <3>6 DEF RefreshNext
  <2>4. [Next]_vars => \/ RefreshNext
                       \/ \E p \in Pool : BackendProbed(p)
                       \/ UNCHANGED <<view, turn, answer>>
    BY DEF Next, BackendNext, BackendLoad, BackendDrain, BackendDown, BackendUp,
           BackendReplies, ClientNext, Forward, NoHealthyPool, Answer, vars, view, refresh
  <2> QED
    BY <2>1, <2>2, <2>3, <2>4
<1> QED
  BY <1>1, <1>2, <1>3 DEF SteadyInv

\* A pool that stays up and answers in time is a choice at every moment.
THEOREM SteadyPoolsServe == Spec => []SteadyPoolServes
<1>1. SteadyInv => SteadyPoolServes
  BY EveryHealthyPoolIsAChoice
     DEF SteadyInv, SteadyPoolServes, ProbeInv, TypeOK
<1> QED
  BY <1>1, SteadyInvInit, SteadyInvNext, PTL DEF Spec
=============================================================================
