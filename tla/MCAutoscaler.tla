---------------------------- MODULE MCAutoscaler ----------------------------
EXTENDS Autoscaler

\* Up to two pods, counts from 0 to the maximum and above it, two targets.
SmallArguments ==
  [pods : 1..2, current : 0..3, target : 1..2, max : {2, 3}]
=============================================================================
