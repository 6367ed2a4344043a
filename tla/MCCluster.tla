------------------------------ MODULE MCCluster ------------------------------
EXTENDS Cluster

BothPools == {"spot", "ondemand"}

\* deployment-spot.yaml names the on-demand pool; here on-demand names spot too.
Mutual == [s \in BothPools |-> BothPools \ {s}]
=============================================================================
