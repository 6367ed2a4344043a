------------------------- MODULE MCContinuousServer -------------------------
EXTENDS ContinuousServer, TLC

\* Requests of one class are interchangeable.
SameClass ==
  Permutations(InteractiveRequest) \cup Permutations(BatchRequest)

\* The lengths of the answers: all alike, or batch requests shorter.
TwoTokens == [r \in Request |-> 2]
LongInteractive == [r \in Request |-> IF r \in InteractiveRequest THEN 2 ELSE 1]
=============================================================================
