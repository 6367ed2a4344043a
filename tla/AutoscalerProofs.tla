-------------------------- MODULE AutoscalerProofs --------------------------
(***************************************************************************)
(* Theorems about Autoscaler, for any number of pods, any depths and any   *)
(* arguments of the command line.                                          *)
(***************************************************************************)
EXTENDS Autoscaler, TLAPS, FiniteSetTheorems, WellFoundedInduction

-----------------------------------------------------------------------------
(* Sums.  Each induction is told by its least counterexample. *)

\* A set of natural numbers with an element has a least one.
LEMMA LeastNatural ==
  ASSUME NEW S \in SUBSET Nat, S # {}
  PROVE  \E m \in S : \A n \in S : m <= n
<1> DEFINE R == {ss \in Nat \X Nat : ss[1] < ss[2]}
<1>1. IsWellFoundedOn(R, Nat)
  BY NatLessThanWellFounded DEF OpToRel
<1>2. \A x, y \in Nat : <<y, x>> \in R <=> y < x
  OBVIOUS
<1> HIDE DEF R
<1>3. PICK m \in S : \A n \in S : ~(<<n, m>> \in R)
  BY <1>1, WFMin
<1>4. \A n \in S : n \in Nat /\ m \in Nat /\ ~(n < m)
  BY <1>2, <1>3
<1>5. \A n \in S : m <= n
  BY <1>4
<1>6. QED
  BY <1>5

\* The element that a sum takes next.
First(s) == CHOOSE x \in s : TRUE

\* The sums of d over the subsets of P, from those over smaller ones.
Unfold(P, d, sum) ==
  [s \in SUBSET P |-> IF s = {} THEN 0 ELSE d[First(s)] + sum[s \ {First(s)}]]

\* A sum without its next element is one element shorter.
LEMMA FirstOut ==
  ASSUME NEW P, IsFiniteSet(P), NEW s \in SUBSET P
  PROVE  /\ Cardinality(s) \in Nat /\ Cardinality(s) <= Cardinality(P)
         /\ Cardinality(s) = 0 <=> s = {}
         /\ s # {} => /\ First(s) \in s
                      /\ s \ {First(s)} \in SUBSET P
                      /\ Cardinality(s \ {First(s)}) = Cardinality(s) - 1
<1>1. /\ IsFiniteSet(s) /\ Cardinality(s) \in Nat /\ Cardinality(s) <= Cardinality(P)
      /\ Cardinality(s) = 0 <=> s = {}
  BY FS_Subset, FS_EmptySet, FS_CardinalityType
<1>2. s # {} => First(s) \in s
  BY DEF First
<1>3. First(s) \in s => Cardinality(s \ {First(s)}) = Cardinality(s) - 1
  BY <1>1, FS_RemoveElement
<1>4. QED
  BY <1>1, <1>2, <1>3

\* There are such sums.
LEMMA SumExists ==
  ASSUME NEW P, IsFiniteSet(P), NEW d \in [P -> Nat]
  PROVE  \E sum : sum = Unfold(P, d, sum)
<1> DEFINE Upto(n, sum) ==
             \A s \in SUBSET P : Cardinality(s) <= n => sum[s] = Unfold(P, d, sum)[s]
           Bad == {n \in Nat : ~\E sum \in [SUBSET P -> Nat] : Upto(n, sum)}
<1>1. \A s \in SUBSET P :
        /\ Cardinality(s) \in Nat /\ Cardinality(s) <= Cardinality(P)
        /\ Cardinality(s) = 0 <=> s = {}
        /\ s # {} => /\ First(s) \in s /\ d[First(s)] \in Nat
                     /\ s \ {First(s)} \in SUBSET P
                     /\ Cardinality(s \ {First(s)}) = Cardinality(s) - 1
  BY FirstOut
<1>2. ASSUME NEW sum \in [SUBSET P -> Nat] PROVE Unfold(P, d, sum) \in [SUBSET P -> Nat]
  <2>1. \A s \in SUBSET P : s # {} => d[First(s)] + sum[s \ {First(s)}] \in Nat
    <3>1. SUFFICES ASSUME NEW s \in SUBSET P, s # {}
                   PROVE  d[First(s)] + sum[s \ {First(s)}] \in Nat
      OBVIOUS
    <3>2. d[First(s)] \in Nat /\ s \ {First(s)} \in SUBSET P
      BY <1>1, <3>1
    <3>3. QED
      BY <3>2
  <2>2. \A s \in SUBSET P :
          (IF s = {} THEN 0 ELSE d[First(s)] + sum[s \ {First(s)}]) \in Nat
    BY <2>1
  <2>3. QED
    BY <2>2 DEF Unfold
<1>3. ASSUME NEW n \in Nat, NEW sum \in [SUBSET P -> Nat], Upto(n, sum)
      PROVE  Upto(n + 1, Unfold(P, d, sum))
  <2>1. SUFFICES ASSUME NEW s \in SUBSET P, Cardinality(s) <= n + 1, s # {}
                 PROVE  sum[s \ {First(s)}] = Unfold(P, d, sum)[s \ {First(s)}]
    BY DEF Unfold
  <2>2. s \ {First(s)} \in SUBSET P /\ Cardinality(s \ {First(s)}) <= n
    BY <1>1, <2>1
  <2>3. QED
    BY <1>3, <2>2
<1>4. \E sum \in [SUBSET P -> Nat] : Upto(0, sum)
  <2> DEFINE zero == [s \in SUBSET P |-> 0]
  <2>1. \A s \in SUBSET P : Cardinality(s) <= 0 => s = {}
    <3>1. SUFFICES ASSUME NEW s \in SUBSET P, Cardinality(s) <= 0 PROVE s = {}
      OBVIOUS
    <3>2. Cardinality(s) \in Nat /\ (Cardinality(s) = 0 <=> s = {})
      BY <1>1
    <3>3. QED
      BY <3>1, <3>2
  <2>2. zero \in [SUBSET P -> Nat] /\ zero[{}] = 0
    OBVIOUS
  <2> HIDE DEF zero
  <2>3. Unfold(P, d, zero)[{}] = 0
    BY DEF Unfold
  <2>4. Upto(0, zero)
    BY <2>1, <2>2, <2>3
  <2>5. QED
    BY <2>2, <2>4
<1> HIDE DEF Upto
<1>5. \A n \in Nat : n \in Bad <=> ~\E sum \in [SUBSET P -> Nat] : Upto(n, sum)
  OBVIOUS
<1>6. Bad \in SUBSET Nat
  OBVIOUS
<1> HIDE DEF Bad
<1>7. Bad = {}
  <2>1. SUFFICES ASSUME Bad # {} PROVE FALSE
    OBVIOUS
  <2>2. PICK m \in Bad : \A n \in Bad : m <= n
    BY <1>6, <2>1, LeastNatural
  <2>3. m \in Nat /\ m # 0
    BY <1>4, <1>5, <1>6, <2>2
  <2>4. m - 1 \in Nat /\ ~(m <= m - 1) /\ (m - 1) + 1 = m
    BY <2>3
  <2>5. PICK sum \in [SUBSET P -> Nat] : Upto(m - 1, sum)
    BY <1>5, <2>2, <2>4
  <2>6. Upto(m, Unfold(P, d, sum))
    BY <1>3, <2>4, <2>5
  <2>7. QED
    BY <1>2, <1>5, <2>2, <2>3, <2>6
<1>8. Cardinality(P) \in Nat
  BY <1>1
<1>9. PICK sum \in [SUBSET P -> Nat] : Upto(Cardinality(P), sum)
  BY <1>5, <1>7, <1>8
<1>10. \A s \in SUBSET P : sum[s] = Unfold(P, d, sum)[s]
  BY <1>1, <1>9 DEF Upto
<1>11. sum = Unfold(P, d, sum)
  BY <1>10 DEF Unfold
<1>12. QED
  BY <1>11

\* Total is such a sum.
LEMMA TotalIsSum ==
  ASSUME NEW P, IsFiniteSet(P), NEW d \in [P -> Nat]
  PROVE  \E sum : sum = Unfold(P, d, sum) /\ Total(d) = sum[P]
<1> DEFINE it == CHOOSE sum : sum = Unfold(P, d, sum)
<1>1. Total(d) = it[P]
  BY DEF Total, MapThenSumSet, MapThenFoldSet, Unfold, First
<1>2. it = Unfold(P, d, it)
  BY SumExists
<1>3. QED
  BY <1>1, <1>2

\* A sum of smaller numbers is smaller; all sums are natural numbers.
LEMMA SumsCompare ==
  ASSUME NEW P, IsFiniteSet(P), NEW d \in [P -> Nat], NEW e \in [P -> Nat],
         \A p \in P : d[p] <= e[p],
         NEW f, f = Unfold(P, d, f), NEW g, g = Unfold(P, e, g)
  PROVE  \A s \in SUBSET P : f[s] \in Nat /\ g[s] \in Nat /\ f[s] <= g[s]
<1> DEFINE Good(s) == f[s] \in Nat /\ g[s] \in Nat /\ f[s] <= g[s]
           Bad == {n \in Nat : \E s \in SUBSET P : Cardinality(s) = n /\ ~Good(s)}
<1>1. SUFFICES ASSUME NEW t \in SUBSET P, ~Good(t) PROVE FALSE
  OBVIOUS
<1>2. Bad \in SUBSET Nat /\ Bad # {}
  BY <1>1, FirstOut
<1>3. PICK m \in Bad : \A n \in Bad : m <= n
  BY <1>2, LeastNatural
<1>4. PICK s \in SUBSET P : Cardinality(s) = m /\ ~Good(s)
  BY <1>3
<1>5. f[{}] = 0 /\ g[{}] = 0
  <2>1. Unfold(P, d, f)[{}] = 0 /\ Unfold(P, e, g)[{}] = 0
    BY DEF Unfold
  <2>2. QED
    BY <2>1
<1>6. s # {}
  BY <1>4, <1>5
<1> DEFINE x == First(s)
           r == s \ {x}
<1>7. /\ x \in P /\ r \in SUBSET P /\ m \in Nat
      /\ Cardinality(r) \in Nat /\ Cardinality(r) = m - 1
  BY <1>4, <1>6, FirstOut
<1>8. Good(r)
  <2>1. Cardinality(r) \notin Bad
    BY <1>3, <1>7
  <2>2. QED
    BY <1>7, <2>1
<1>9. f[s] = d[x] + f[r] /\ g[s] = e[x] + g[r]
  <2>1. Unfold(P, d, f)[s] = d[x] + f[r] /\ Unfold(P, e, g)[s] = e[x] + g[r]
    BY <1>6 DEF Unfold
  <2>2. QED
    BY <2>1
<1> HIDE DEF x, r
<1>10. d[x] \in Nat /\ e[x] \in Nat /\ d[x] <= e[x]
  BY <1>7
<1>11. QED
  BY <1>4, <1>8, <1>9, <1>10

\* More load in each pod is more load in total.
LEMMA TotalCompares ==
  ASSUME NEW P, IsFiniteSet(P), NEW d \in [P -> Nat], NEW e \in [P -> Nat],
         \A p \in P : d[p] <= e[p]
  PROVE  Total(d) \in Nat /\ Total(e) \in Nat /\ Total(d) <= Total(e)
<1>1. PICK f : f = Unfold(P, d, f) /\ Total(d) = f[P]
  BY TotalIsSum
<1>2. PICK g : g = Unfold(P, e, g) /\ Total(e) = g[P]
  BY TotalIsSum
<1>3. \A s \in SUBSET P : f[s] \in Nat /\ g[s] \in Nat /\ f[s] <= g[s]
  BY <1>1, <1>2, SumsCompare
<1>4. QED
  BY <1>1, <1>2, <1>3

-----------------------------------------------------------------------------
(* Arithmetic. *)

\* The ceiling of t / n is the least number whose n-fold is t or more.
LEMMA CeilingIsLeast ==
  ASSUME NEW t \in Nat, NEW n \in Nat \ {0}
  PROVE  /\ Ceiling(t, n) \in Int
         /\ \A m \in Int : t <= m * n <=> Ceiling(t, n) <= m
<1> DEFINE a == t + n - 1
           c == a \div n
<1>1. a \in Int /\ c \in Int /\ n * c <= a /\ a < n * c + n
  OBVIOUS
<1>2. Ceiling(t, n) = c
  BY DEF Ceiling
<1> HIDE DEF c
<1>3. n * c < t + n
  BY <1>1
<1>4. t <= n * c
  BY <1>1
<1>5. ASSUME NEW m \in Int, c <= m PROVE t <= m * n
  <2>1. n * c <= n * m
    BY <1>1, <1>5
  <2>2. QED
    BY <1>1, <1>4, <2>1
<1>6. ASSUME NEW m \in Int, ~(c <= m) PROVE ~(t <= m * n)
  <2>1. m + 1 <= c
    BY <1>1, <1>6
  <2>2. n * (m + 1) <= n * c
    BY <1>1, <2>1
  <2>3. n * (m + 1) = m * n + n
    OBVIOUS
  <2>4. QED
    BY <1>1, <1>3, <2>2, <2>3
<1>7. QED
  BY <1>1, <1>2, <1>5, <1>6

\* More load never asks for fewer replicas.
LEMMA ImpliedGrows ==
  ASSUME args.target \in Nat \ {0}, args.current \in Int, args.max \in Int,
         CurrentReplicas <= args.max, NEW s \in Nat, NEW t \in Nat, s <= t
  PROVE  Implied(s) \in Int /\ Implied(t) \in Int /\ Implied(s) <= Implied(t)
<1> DEFINE T == args.target
           C == CurrentReplicas
           cs == Ceiling(s, T)
           ct == Ceiling(t, T)
<1>1. C \in Int /\ T \in Nat \ {0} /\ T * C \in Int /\ C * T = T * C
  BY DEF CurrentReplicas, Most
<1>2. /\ cs \in Int /\ ct \in Int
      /\ s <= C * T <=> cs <= C
      /\ t <= C * T <=> ct <= C
      /\ s <= ct * T
      /\ s <= ct * T <=> cs <= ct
  <2>1. /\ cs \in Int /\ \A m \in Int : s <= m * T <=> cs <= m
        /\ ct \in Int /\ \A m \in Int : t <= m * T <=> ct <= m
    BY <1>1, CeilingIsLeast
  <2>2. t <= ct * T /\ ct * T \in Int
    BY <1>1, <2>1
  <2> HIDE DEF cs, ct, T, C
  <2>3. s <= ct * T
    BY <2>2
  <2>4. QED
    BY <1>1, <2>1, <2>3
<1>3. /\ Implied(s) = IF s <= T * C THEN C ELSE Least(args.max, Most(C, cs))
      /\ Implied(t) = IF t <= T * C THEN C ELSE Least(args.max, Most(C, ct))
  BY DEF Implied
<1> HIDE DEF cs, ct, T
<1>4. C <= args.max
  OBVIOUS
<1> HIDE DEF C
<1>5. /\ Implied(s) = IF cs <= C THEN C ELSE Least(args.max, Most(C, cs))
      /\ Implied(t) = IF ct <= C THEN C ELSE Least(args.max, Most(C, ct))
  BY <1>1, <1>2, <1>3
<1>6. cs <= ct
  BY <1>2
<1>7. QED
  BY <1>1, <1>2, <1>4, <1>5, <1>6 DEF Least, Most

-----------------------------------------------------------------------------
(* The invariant. *)

\* What the assumptions say of the command line.
LEMMA ArgumentTypes ==
  ASSUME args \in Arguments
  PROVE  /\ args.pods \in Nat \ {0} /\ args.target \in Nat \ {0}
         /\ args.current \in Int /\ args.max \in Int
         /\ CurrentReplicas \in Nat \ {0}
  BY ArgumentsAreNumbers DEF CurrentReplicas, Most

\* The script starts with nothing read.
LEMMA ReadingInvInit ==
  ASSUME Init
  PROVE  ReadingInv
<1>1. args \in Arguments /\ args.pods \in Nat \ {0}
  BY ArgumentTypes DEF Init
<1>2. /\ depth \in [Pods -> Nat] /\ lowest = depth /\ highest = depth
      /\ \A p \in Pods : depth[p] \in Nat
  BY DepthsAreNumbers DEF Init, Pods
<1>3. 0 \in 0..args.pods /\ 1..0 = {}
  BY <1>1
<1>4. depths \in [1..0 -> Nat] /\ bare = {}
  BY <1>3 DEF Init
<1>5. QED
  BY <1>1, <1>2, <1>3, <1>4 DEF Init, ReadingInv

\* Every step keeps what ReadingInv says.
LEMMA ReadingInvStep ==
  ASSUME ReadingInv, [Next]_vars
  PROVE  ReadingInv'
<1>1. /\ args \in Arguments /\ args.pods \in Nat \ {0}
      /\ depth \in [Pods -> Nat] /\ lowest \in [Pods -> Nat] /\ highest \in [Pods -> Nat]
      /\ \A p \in Pods : /\ depth[p] \in Nat /\ lowest[p] \in Nat /\ highest[p] \in Nat
                         /\ lowest[p] <= depth[p] /\ depth[p] <= highest[p]
      /\ outcome \in {"running", "failed", "done"}
  BY ArgumentTypes DEF ReadingInv
<1>2. PICK n \in 0..args.pods :
        /\ depths \in [1..n -> Nat] /\ bare \subseteq 1..n
        /\ \A p \in 1..n \ bare : lowest[p] <= depths[p] /\ depths[p] <= highest[p]
        /\ \A p \in bare : depths[p] = 0
  BY DEF ReadingInv
<1>3. n \in Nat /\ 1..n \in SUBSET Pods /\ DOMAIN depths = 1..n
  BY <1>1, <1>2 DEF Pods
<1>4. ASSUME NEW p \in Pods, DepthChanges(p) PROVE ReadingInv'
  <2>1. PICK d \in Depths :
          /\ depth' = [depth EXCEPT ![p] = d]
          /\ lowest' = [lowest EXCEPT ![p] = Least(lowest[p], d)]
          /\ highest' = [highest EXCEPT ![p] = Most(highest[p], d)]
          /\ args' = args /\ depths' = depths /\ bare' = bare
          /\ outcome = "running" /\ outcome' = outcome
    BY <1>4 DEF DepthChanges
  <2>2. /\ d \in Nat
        /\ Least(lowest[p], d) \in Nat /\ Most(highest[p], d) \in Nat
        /\ Least(lowest[p], d) <= lowest[p] /\ highest[p] <= Most(highest[p], d)
        /\ Least(lowest[p], d) <= d /\ d <= Most(highest[p], d)
    BY <1>1, <2>1, DepthsAreNumbers DEF Least, Most
  <2>3. /\ depth' \in [Pods -> Nat] /\ lowest' \in [Pods -> Nat] /\ highest' \in [Pods -> Nat]
        /\ \A q \in Pods : /\ lowest'[q] \in Nat /\ highest'[q] \in Nat
                           /\ lowest'[q] <= depth'[q] /\ depth'[q] <= highest'[q]
                           /\ lowest'[q] <= lowest[q] /\ highest[q] <= highest'[q]
    BY <1>1, <2>1, <2>2
  <2>4. \A q \in 1..n \ bare : lowest'[q] <= depths'[q] /\ depths'[q] <= highest'[q]
    <3>1. SUFFICES ASSUME NEW q \in 1..n \ bare
                   PROVE  lowest'[q] <= depths[q] /\ depths[q] <= highest'[q]
      BY <2>1
    <3>2. q \in Pods /\ depths[q] \in Nat
      BY <1>2, <1>3
    <3>3. lowest[q] <= depths[q] /\ depths[q] <= highest[q]
      BY <1>2
    <3>4. /\ lowest[q] \in Nat /\ highest[q] \in Nat
          /\ lowest'[q] \in Nat /\ highest'[q] \in Nat
          /\ lowest'[q] <= lowest[q] /\ highest[q] <= highest'[q]
      BY <1>1, <2>3, <3>2
    <3>5. \A i, j, k \in Nat : i <= j /\ j <= k => i <= k
      OBVIOUS
    <3>6. QED
      BY <3>2, <3>3, <3>4, <3>5, Zenon
  <2>5. Pods' = Pods
    BY <2>1 DEF Pods
  <2>6. QED
    BY <1>1, <1>2, <2>1, <2>3, <2>4, <2>5 DEF ReadingInv
<1>5. CASE FetchQueueDepth
  <2>1. Asked = n + 1
    <3>1. Cardinality(1..n) = n
      BY <1>3, FS_Interval
    <3>2. QED
      BY <1>3, <3>1 DEF Asked
  <2>2. /\ n + 1 \in Pods /\ n + 1 \in 0..args.pods
        /\ args' = args /\ depth' = depth /\ lowest' = lowest /\ highest' = highest
        /\ outcome = "running" /\ outcome' = outcome
    BY <1>1, <1>5, <2>1 DEF FetchQueueDepth, gauges, Pods
  <2>3. PICK found \in BOOLEAN :
          /\ depths' = [p \in 1..(n + 1) |->
               IF p # n + 1 THEN depths[p] ELSE IF found THEN depth[p] ELSE 0]
          /\ bare' = IF found THEN bare ELSE bare \cup {n + 1}
    BY <1>5, <2>1 DEF FetchQueueDepth
  <2>4. 1..(n + 1) = 1..n \cup {n + 1} /\ n + 1 \notin 1..n
    BY <1>3
  <2>5. /\ depths' \in [1..(n + 1) -> Nat]
        /\ \A p \in 1..n : depths'[p] = depths[p]
        /\ depths'[n + 1] = IF found THEN depth[n + 1] ELSE 0
    BY <1>1, <1>2, <2>2, <2>3, <2>4
  <2>6. /\ bare' \subseteq 1..(n + 1)
        /\ \A p \in bare' : p \in bare \/ (p = n + 1 /\ ~found)
        /\ \A p \in 1..(n + 1) \ bare' : p \in 1..n \ bare \/ (p = n + 1 /\ found)
    <3>1. CASE found
      BY <1>2, <2>3, <2>4, <3>1, Zenon
    <3>2. CASE ~found
      BY <1>2, <2>3, <2>4, <3>2, Zenon
    <3>3. QED
      BY <3>1, <3>2
  <2>7. \A p \in bare' : depths'[p] = 0
    BY <1>2, <2>5, <2>6
  <2>8. \A p \in 1..(n + 1) \ bare' : lowest[p] <= depths'[p] /\ depths'[p] <= highest[p]
    BY <1>1, <1>2, <2>2, <2>5, <2>6
  <2>9. Pods' = Pods
    BY <2>2 DEF Pods
  <2>10. QED
    BY <1>1, <2>2, <2>5, <2>6, <2>7, <2>8, <2>9 DEF ReadingInv
<1>6. CASE FetchFails
  <2>1. Pods' = Pods
    BY <1>6 DEF FetchFails, Pods
  <2>2. QED
    BY <1>1, <1>2, <1>6, <2>1 DEF FetchFails, gauges, ReadingInv
<1>7. CASE Report
  <2>1. args' = args /\ depths' = depths
    BY <1>7 DEF Report
  <2>2. Pods' = Pods
    BY <2>1 DEF Pods
  <2>3. Total(depths)' = Total(depths)
    BY <2>1
  <2>4. /\ Implied(Total(depths))' = Implied(Total(depths))
        /\ Action(Total(depths))' = Action(Total(depths))
    BY <2>1, <2>3 DEF Implied, Action, CurrentReplicas
  <2>5. QED
    BY <1>1, <1>2, <1>7, <2>1, <2>2, <2>3, <2>4 DEF Report, gauges, ReadingInv
<1>8. CASE UNCHANGED vars
  <2>1. args' = args /\ depths' = depths
    BY <1>8 DEF vars
  <2>2. Pods' = Pods
    BY <2>1 DEF Pods
  <2>3. Total(depths)' = Total(depths)
    BY <2>1
  <2>4. /\ Implied(Total(depths))' = Implied(Total(depths))
        /\ Action(Total(depths))' = Action(Total(depths))
    BY <2>1, <2>3 DEF Implied, Action, CurrentReplicas
  <2>5. QED
    BY <1>8, <2>1, <2>2, <2>3, <2>4 DEF vars, gauges, ReadingInv
<1>9. QED
  BY <1>4, <1>5, <1>6, <1>7, <1>8 DEF Next

\* So it holds in every reachable state.
LEMMA ReadingInvInvariant == Spec => []ReadingInv
<1>1. Init => ReadingInv
  BY ReadingInvInit
<1>2. ReadingInv /\ [Next]_vars => ReadingInv'
  BY ReadingInvStep
<1>3. QED
  BY <1>1, <1>2, PTL DEF Spec

\* The totals that the advice depends on: what was read is no less than the least
\* load that counts, and no more than the most.
LEMMA ReadTotals ==
  ASSUME ReadingInv, outcome = "done"
  PROVE  /\ Total(Counted(lowest)) \in Nat /\ Total(depths) \in Nat
         /\ Total(Counted(highest)) \in Nat
         /\ Total(Counted(lowest)) <= Total(depths)
         /\ Total(depths) <= Total(Counted(highest))
<1>1. /\ lowest \in [Pods -> Nat] /\ highest \in [Pods -> Nat] /\ depths \in [Pods -> Nat]
      /\ \A p \in Pods \ bare : lowest[p] <= depths[p] /\ depths[p] <= highest[p]
      /\ \A p \in Pods \cap bare : depths[p] = 0
  BY DEF ReadingInv
<1>2. /\ Counted(lowest) \in [Pods -> Nat] /\ Counted(highest) \in [Pods -> Nat]
      /\ \A p \in Pods : Counted(lowest)[p] <= depths[p] /\ depths[p] <= Counted(highest)[p]
  BY <1>1 DEF Counted
<1>3. IsFiniteSet(Pods)
  BY ArgumentTypes, FS_Interval DEF Pods, ReadingInv
<1>4. QED
  BY <1>1, <1>2, <1>3, TotalCompares

-----------------------------------------------------------------------------
(* The theorems. *)

\* implied_replicas gives the least number of replicas in range that brings the
\* average of what was read down to the target, for any depths and arguments.
THEOREM AdviceIsLeastEnough == Spec => []AdviceIsTight
<1>1. ASSUME ReadingInv, Sensible PROVE AdviceIsTight
  <2> DEFINE t == Total(depths)
             T == args.target
             C == CurrentReplicas
             c == Ceiling(t, T)
             enough == {n \in C..args.max : t <= n * T}
  <2>1. /\ T \in Nat \ {0} /\ C \in Nat /\ args.max \in Int /\ C <= args.max
        /\ t \in Nat /\ outcome = "done" /\ desired = Implied(t)
    BY <1>1, ArgumentTypes, ReadTotals DEF Sensible, ReadingInv
  <2>2. c \in Int /\ \A m \in Int : t <= m * T <=> c <= m
    BY <2>1, CeilingIsLeast
  <2>3. desired = IF t <= T * C THEN C ELSE Least(args.max, Most(C, c))
    BY <2>1 DEF Implied
  <2>4. t <= T * C <=> c <= C
    <3>1. T * C = C * T
      BY <2>1
    <3>2. QED
      BY <2>1, <2>2, <3>1
  <2>5. AdviceIsTight <=> desired = IF enough = {} THEN args.max ELSE Min(enough)
    BY <1>1 DEF AdviceIsTight
  <2> HIDE DEF c
  <2>6. \A n : n \in enough <=> n \in Int /\ C <= n /\ n <= args.max /\ c <= n
    BY <2>1, <2>2
  <2> HIDE DEF t, T, C, enough
  <2>7. ASSUME NEW m \in enough, \A n \in enough : m <= n PROVE Min(enough) = m
    <3>1. \A n \in enough : n \in Int
      BY <2>6
    <3>2. QED
      BY <2>7, <3>1 DEF Min
  <2>8. CASE c <= C
    <3>1. C \in enough /\ \A n \in enough : C <= n
      BY <2>1, <2>6, <2>8
    <3>2. QED
      BY <2>3, <2>4, <2>5, <2>7, <2>8, <3>1
  <2>9. CASE C < c /\ c <= args.max
    <3>1. c \in enough /\ \A n \in enough : c <= n
      BY <2>1, <2>2, <2>6, <2>9
    <3>2. desired = c
      BY <2>1, <2>2, <2>3, <2>4, <2>9 DEF Least, Most
    <3>3. QED
      BY <2>5, <2>7, <3>1, <3>2
  <2>10. CASE C < c /\ args.max < c
    <3>1. enough = {}
      BY <2>1, <2>2, <2>6, <2>10
    <3>2. desired = args.max
      BY <2>1, <2>2, <2>3, <2>4, <2>10 DEF Least, Most
    <3>3. QED
      BY <2>5, <3>1, <3>2
  <2>11. QED
    BY <2>1, <2>2, <2>8, <2>9, <2>10
<1>2. ReadingInv => AdviceIsTight
  BY <1>1 DEF AdviceIsTight
<1>3. QED
  BY <1>2, ReadingInvInvariant, PTL

\* The pods are fetched one after the other while their depths change; the advice
\* is still between those for the least and for the most that each pod had, a pod
\* that answers without the gauge counting as empty and no other being left out.
THEOREM AdviceFitsLoad == Spec => []AdviceMatchesLoad
<1>1. ASSUME ReadingInv, Sensible PROVE AdviceMatchesLoad
  <2>1. /\ args.target \in Nat \ {0} /\ args.current \in Int /\ args.max \in Int
        /\ CurrentReplicas <= args.max /\ outcome = "done"
        /\ desired = Implied(Total(depths))
    BY <1>1, ArgumentTypes DEF Sensible, ReadingInv
  <2>2. /\ Total(Counted(lowest)) \in Nat /\ Total(depths) \in Nat
        /\ Total(Counted(highest)) \in Nat
        /\ Total(Counted(lowest)) <= Total(depths)
        /\ Total(depths) <= Total(Counted(highest))
    BY <1>1, <2>1, ReadTotals
  <2>3. /\ Implied(Total(Counted(lowest))) \in Int /\ Implied(Total(depths)) \in Int
        /\ Implied(Total(Counted(highest))) \in Int
        /\ Implied(Total(Counted(lowest))) <= Implied(Total(depths))
        /\ Implied(Total(depths)) <= Implied(Total(Counted(highest)))
    BY <2>1, <2>2, ImpliedGrows
  <2>4. QED
    BY <2>1, <2>3 DEF AdviceMatchesLoad
<1>2. ReadingInv => AdviceMatchesLoad
  BY <1>1 DEF AdviceMatchesLoad
<1>3. QED
  BY <1>2, ReadingInvInvariant, PTL

\* When the replicas are those that were asked, main prints "scale OUT" exactly when
\* the number it prints is higher, unless there are as many as may be.
THEOREM TextGoesWithNumber == Spec => []TextMatchesNumber
<1>1. ASSUME ReadingInv, Sensible, args.pods = args.current PROVE TextMatchesNumber
  <2> DEFINE t == Total(depths)
             T == args.target
             C == args.current
             c == Ceiling(t, T)
  <2>1. /\ T \in Nat \ {0} /\ C \in Nat \ {0} /\ args.max \in Int
        /\ t \in Nat /\ outcome = "done" /\ desired = Implied(t) /\ action = Action(t)
    BY <1>1, ArgumentTypes, ReadTotals DEF Sensible, ReadingInv
  <2>2. CurrentReplicas = C /\ C <= args.max
    BY <1>1, <2>1 DEF Sensible, CurrentReplicas, Most
  \* x: the depth that the present replicas can have.
  <2>3. PICK x \in Nat : x = T * C /\ x = C * T
    BY <2>1
  <2>4. c \in Int /\ (t <= x <=> c <= C)
    BY <2>1, <2>3, CeilingIsLeast
  <2>5. desired = IF t <= x THEN C ELSE Least(args.max, Most(C, c))
    BY <2>1, <2>2, <2>3 DEF Implied
  <2>6. action = CASE t > x -> "scale OUT"
                   [] 2 * t < x /\ C > 1 -> "scale IN"
                   [] OTHER -> "hold steady"
    BY <1>1, <2>1, <2>3 DEF Action
  <2>7. TextMatchesNumber <=>
          /\ desired > C <=> action = "scale OUT" /\ C < args.max
          /\ action # "scale OUT" => desired = C
    BY <1>1 DEF TextMatchesNumber
  <2> HIDE DEF t, T, C, c
  <2>8. t \in Nat /\ C \in Nat /\ c \in Int /\ x \in Nat /\ args.max \in Int /\ C <= args.max
    BY <2>1, <2>2, <2>4
  <2>9. t > x <=> C < c
    BY <2>4, <2>8
  <2>10. action = "scale OUT" <=> t > x
    <3>1. ~(t > x /\ 2 * t < x)
      BY <2>8
    <3>2. QED
      BY <2>6, <3>1
  <2>11. CASE c <= C
    <3>1. t <= x /\ ~(t > x)
      BY <2>4, <2>8, <2>11
    <3>2. desired = C /\ action # "scale OUT"
      BY <2>5, <2>10, <3>1
    <3>3. ~(C > C)
      BY <2>8
    <3>4. QED
      BY <2>7, <3>2, <3>3
  <2>12. CASE C < c
    <3>1. ~(t <= x) /\ t > x
      BY <2>8, <2>9, <2>12
    <3>2. desired = Least(args.max, Most(C, c)) /\ action = "scale OUT"
      BY <2>5, <2>10, <3>1
    <3>3. Least(args.max, Most(C, c)) > C <=> C < args.max
      BY <2>8, <2>12 DEF Least, Most
    <3>4. QED
      BY <2>7, <3>2, <3>3
  <2>13. QED
    BY <2>8, <2>11, <2>12
<1>2. ReadingInv => TextMatchesNumber
  BY <1>1 DEF TextMatchesNumber
<1>3. QED
  BY <1>2, ReadingInvInvariant, PTL
=============================================================================
