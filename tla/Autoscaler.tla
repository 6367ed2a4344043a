----------------------------- MODULE Autoscaler -----------------------------
(***************************************************************************)
(* The scaling advice of src/k8s/scripts/hpa_dry_run.py: it asks one pod   *)
(* after the other for its queue_depth, while these change, and works out  *)
(* how many replicas bring the average down to the target.                 *)
(*                                                                         *)
(* Depths and targets are whole numbers, so an average is compared with a  *)
(* target by way of the product.                                           *)
(***************************************************************************)
EXTENDS Integers, FiniteSetsExt

CONSTANTS
  Depths,       \* the values of a pod's queue_depth
  Arguments     \* of the command line: pods, current, target and max

ASSUME DepthsAreNumbers == Depths \subseteq Nat
ASSUME ArgumentsAreNumbers ==
  \A a \in Arguments :
    /\ a.pods \in Nat \ {0} /\ a.target \in Nat \ {0}
    /\ a.current \in Int /\ a.max \in Int

VARIABLES
  args,                 \* never change
  depth,                \* the gauge of each pod
  lowest, highest,      \* its extremes since the script began
  depths,               \* what the script has read, pod by pod
  bare,                 \* a history variable: the pods read that showed no gauge
  outcome,              \* "running", "failed" or "done"
  desired, action       \* what it prints

gauges == <<depth, lowest, highest>>
vars == <<args, gauges, depths, bare, outcome, desired, action>>

Pods == 1..args.pods

Total(d) == MapThenSumSet(LAMBDA p : d[p], DOMAIN d)

Least(m, n) == IF m <= n THEN m ELSE n
Most(m, n) == IF m <= n THEN n ELSE m

\* Slip: rounded down.
CeilingDown(m, n) == m \div n

Ceiling(m, n) == (m + n - 1) \div n

CurrentReplicas == Most(args.current, 1)

\* implied_replicas
Implied(total) ==
  IF total <= args.target * CurrentReplicas THEN CurrentReplicas
  ELSE Least(args.max, Most(CurrentReplicas, Ceiling(total, args.target)))

-----------------------------------------------------------------------------
DepthChanges(p) ==
  /\ outcome = "running"
  /\ \E d \in Depths \ {depth[p]} :
       /\ depth' = [depth EXCEPT ![p] = d]
       /\ lowest' = [lowest EXCEPT ![p] = Least(@, d)]
       /\ highest' = [highest EXCEPT ![p] = Most(@, d)]
  /\ UNCHANGED <<args, depths, bare, outcome, desired, action>>

Asked == Cardinality(DOMAIN depths) + 1

\* A page without the gauge counts as a depth of 0.
FetchQueueDepth ==
  /\ outcome = "running" /\ Asked \in Pods
  /\ \E found \in BOOLEAN :
       /\ depths' = [p \in 1..Asked |->
            IF p # Asked THEN depths[p] ELSE IF found THEN depth[p] ELSE 0]
       /\ bare' = IF found THEN bare ELSE bare \cup {Asked}
  /\ UNCHANGED <<args, gauges, outcome, desired, action>>

\* Slip: a pod that does not answer counts as empty.
FetchFailsAsZero ==
  /\ outcome = "running" /\ Asked \in Pods
  /\ depths' = [p \in 1..Asked |-> IF p = Asked THEN 0 ELSE depths[p]]
  /\ UNCHANGED <<args, gauges, bare, outcome, desired, action>>

\* SystemExit: no advice on part of the pods.
FetchFails ==
  /\ outcome = "running" /\ Asked \in Pods
  /\ outcome' = "failed"
  /\ UNCHANGED <<args, gauges, depths, bare, desired, action>>

\* Slip: an average at the target calls for more as well.
ActionAtTarget(total) ==
  CASE total >= args.target * args.pods -> "scale OUT"
    [] 2 * total < args.target * args.pods /\ args.current > 1 -> "scale IN"
    [] OTHER -> "hold steady"

\* The text goes by the pods that were asked, not by --current-replicas.
Action(total) ==
  CASE total > args.target * args.pods -> "scale OUT"
    [] 2 * total < args.target * args.pods /\ args.current > 1 -> "scale IN"
    [] OTHER -> "hold steady"

Report ==
  /\ outcome = "running" /\ DOMAIN depths = Pods
  /\ desired' = Implied(Total(depths))
  /\ action' = Action(Total(depths))
  /\ outcome' = "done"
  /\ UNCHANGED <<args, gauges, depths, bare>>

Init ==
  /\ args \in Arguments
  /\ depth \in [1..args.pods -> Depths]
  /\ lowest = depth /\ highest = depth
  /\ depths = [p \in {} |-> 0] /\ bare = {}
  /\ outcome = "running" /\ desired = 0 /\ action = "none"

Next ==
  \/ \E p \in Pods : DepthChanges(p)
  \/ FetchQueueDepth
  \/ FetchFails
  \/ Report

Spec == Init /\ [][Next]_vars

-----------------------------------------------------------------------------
(* Properties.  They ask for --current-replicas within --max-replicas: above *)
(* it implied_replicas has no range to keep to.                              *)

Sensible == outcome = "done" /\ CurrentReplicas <= args.max

\* The advice is the least number of replicas, no fewer than there are and no
\* more than the maximum, for which the average of what was read is within the
\* target, exactly at the target and with a current count of 0 too.
AdviceIsTight ==
  Sensible =>
    LET enough == {n \in CurrentReplicas..args.max : Total(depths) <= n * args.target}
    IN  desired = IF enough = {} THEN args.max ELSE Min(enough)

\* What counts of the load d: main goes on with 0 for a pod that answers without
\* the gauge, whatever its load.
Counted(d) == [p \in Pods |-> IF p \in bare THEN 0 ELSE d[p]]

\* The pods are read one after the other, so the total may be of no moment of
\* the run; the advice still lies between the ones for the least and for the
\* most that each pod had while the script ran, as more load never asks for
\* fewer replicas.  Only the pods that answered without the gauge are left out of
\* that load: a pod that cannot be read at all ends the script.
AdviceMatchesLoad ==
  Sensible =>
    desired \in Implied(Total(Counted(lowest)))..Implied(Total(Counted(highest)))

\* When all replicas are asked, and no others, the text and the number go
\* together: more replicas exactly when the text says so, unless there are as
\* many as may be, and never fewer.
TextMatchesNumber ==
  Sensible /\ args.pods = args.current =>
    /\ desired > args.current <=> action = "scale OUT" /\ args.current < args.max
    /\ action # "scale OUT" => desired = args.current

-----------------------------------------------------------------------------
(* The inductive invariant. *)

\* What has been read of a pod is between its extremes, or 0 for want of a gauge,
\* and the advice was worked out from a reading of every pod.
ReadingInv ==
  /\ args \in Arguments
  /\ {depth, lowest, highest} \subseteq [Pods -> Nat]
  /\ \A p \in Pods : lowest[p] <= depth[p] /\ depth[p] <= highest[p]
  /\ \E n \in 0..args.pods :
       /\ depths \in [1..n -> Nat] /\ bare \subseteq 1..n
       /\ \A p \in 1..n \ bare : lowest[p] <= depths[p] /\ depths[p] <= highest[p]
       /\ \A p \in bare : depths[p] = 0
  /\ outcome \in {"running", "failed", "done"}
  /\ outcome = "done" =>
       /\ DOMAIN depths = Pods
       /\ desired = Implied(Total(depths)) /\ action = Action(Total(depths))
=============================================================================
