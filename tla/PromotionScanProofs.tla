------------------------ MODULE PromotionScanProofs ------------------------
(***************************************************************************)
(* Theorems of PromotionScan, for any requests, any size of a batch and    *)
(* any threshold: what a scan does to the deques whatever the clock does   *)
(* between two reads, and that it is RequestQueue's one step when no item  *)
(* comes due meanwhile.                                                    *)
(***************************************************************************)
EXTENDS PromotionScan, SequenceTheorems, FiniteSetTheorems, TLAPS

-----------------------------------------------------------------------------
(* Sequences. *)

\* There are n positions up to the n-th.
LEMMA IntervalSize ==
  ASSUME NEW n \in Nat
  PROVE  IsFiniteSet(1..n) /\ Cardinality(1..n) = n
<1>1. 1 \in Int /\ n \in Int
  OBVIOUS
<1>2. IsFiniteSet(1..n) /\ Cardinality(1..n) = IF 1 > n THEN 0 ELSE n - 1 + 1
  BY <1>1, FS_Interval, Zenon
<1>3. QED
  BY <1>2

\* Cutting a deque after its n-th item.
LEMMA CutType ==
  ASSUME NEW S, NEW s \in Seq(S), NEW n \in 0..Len(s)
  PROVE  /\ SubSeq(s, 1, n) \in Seq(S) /\ Len(SubSeq(s, 1, n)) = n
         /\ \A i \in 1..n : SubSeq(s, 1, n)[i] = s[i]
         /\ SubSeq(s, n + 1, Len(s)) \in Seq(S)
         /\ Len(SubSeq(s, n + 1, Len(s))) = Len(s) - n
         /\ \A i \in 1..(Len(s) - n) : SubSeq(s, n + 1, Len(s))[i] = s[n + i]
<1>1. Len(s) \in Nat /\ \A i \in 1..Len(s) : s[i] \in S
  BY LenProperties, ElementOfSeq
<1>2. (\A i \in 1..n : s[i] \in S) /\ (\A i \in (n + 1)..Len(s) : s[i] \in S)
  BY <1>1
<1>3. /\ SubSeq(s, 1, n) \in Seq(S)
      /\ Len(SubSeq(s, 1, n)) = IF 1 <= n THEN n - 1 + 1 ELSE 0
      /\ \A i \in 1..(n - 1 + 1) : SubSeq(s, 1, n)[i] = s[1 + i - 1]
  BY <1>1, <1>2, SubSeqProperties
<1>4. /\ SubSeq(s, n + 1, Len(s)) \in Seq(S)
      /\ Len(SubSeq(s, n + 1, Len(s)))
           = IF n + 1 <= Len(s) THEN Len(s) - (n + 1) + 1 ELSE 0
      /\ \A i \in 1..(Len(s) - (n + 1) + 1) :
           SubSeq(s, n + 1, Len(s))[i] = s[(n + 1) + i - 1]
  BY <1>1, <1>2, SubSeqProperties
<1>5. QED
  BY <1>1, <1>3, <1>4

\* What is at some position of a deque is in it.
LEMMA InRange ==
  ASSUME NEW S, NEW s \in Seq(S)
  PROVE  /\ Len(s) \in Nat
         /\ \A x : x \in Range(s) <=> \E i \in 1..Len(s) : s[i] = x
         /\ \A i \in 1..Len(s) : s[i] \in S /\ s[i] \in Range(s)
BY LenProperties, ElementOfSeq, RangeEquality

\* Cutting a deque divides its items.
LEMMA CutRange ==
  ASSUME NEW S, NEW s \in Seq(S), NEW n \in 0..Len(s)
  PROVE  /\ \A x : x \in Range(SubSeq(s, 1, n)) <=> \E i \in 1..n : s[i] = x
         /\ \A x : x \in Range(SubSeq(s, n + 1, Len(s)))
                     <=> \E i \in (n + 1)..Len(s) : s[i] = x
<1> DEFINE front == SubSeq(s, 1, n)
           back == SubSeq(s, n + 1, Len(s))
<1>1. /\ front \in Seq(S) /\ Len(front) = n /\ \A i \in 1..n : front[i] = s[i]
      /\ back \in Seq(S) /\ Len(back) = Len(s) - n
      /\ \A i \in 1..(Len(s) - n) : back[i] = s[n + i]
  BY CutType
<1>2. Len(s) \in Nat
  BY LenProperties
<1> HIDE DEF front, back
<1>3. /\ \A x : x \in Range(front) <=> \E i \in 1..n : front[i] = x
      /\ \A x : x \in Range(back) <=> \E i \in 1..(Len(s) - n) : back[i] = x
  <2>1. \A x : x \in Range(front) <=> \E i \in 1..Len(front) : front[i] = x
    BY <1>1, InRange
  <2>2. \A x : x \in Range(back) <=> \E i \in 1..Len(back) : back[i] = x
    BY <1>1, InRange
  <2>3. QED
    BY <1>1, <2>1, <2>2
<1>4. \A x : x \in Range(front) <=> \E i \in 1..n : s[i] = x
  BY <1>1, <1>3
<1>5. ASSUME NEW x, NEW i \in (n + 1)..Len(s), s[i] = x PROVE x \in Range(back)
  <2>1. i - n \in 1..(Len(s) - n) /\ n + (i - n) = i
    BY <1>2
  <2>2. back[i - n] = x
    BY <1>1, <1>5, <2>1
  <2>3. QED
    BY <1>3, <2>1, <2>2
<1>6. ASSUME NEW x, x \in Range(back) PROVE \E i \in (n + 1)..Len(s) : s[i] = x
  <2>1. PICK i \in 1..(Len(s) - n) : back[i] = x
    BY <1>3, <1>6
  <2>2. s[n + i] = x /\ n + i \in (n + 1)..Len(s)
    BY <1>1, <1>2, <2>1
  <2>3. QED
    BY <2>2
<1>7. QED
  BY <1>4, <1>5, <1>6 DEF front, back

\* A deque of n items has at most n members, and n if nobody is in it twice.
LEMMA RangeSize ==
  ASSUME NEW S, NEW s \in Seq(S)
  PROVE  /\ IsFiniteSet(Range(s)) /\ Cardinality(Range(s)) \in 0..Len(s)
         /\ Once(s) => Cardinality(Range(s)) = Len(s)
<1> DEFINE n == Len(s)
           T == Range(s)
<1>1. n \in Nat /\ \A x : x \in T <=> \E i \in 1..n : s[i] = x
  BY InRange
<1>2. IsFiniteSet(1..n) /\ Cardinality(1..n) = n
  BY <1>1, IntervalSize
<1>3. s \in [1..n -> T]
  <2>1. s \in [1..n -> S]
    BY LenProperties
  <2>2. QED
    BY <1>1, <2>1
<1> HIDE DEF n, T
<1>4. s \in Surjection(1..n, T)
  BY <1>1, <1>3 DEF Surjection
<1>5. IsFiniteSet(T) /\ Cardinality(T) <= n
  BY <1>2, <1>4, FS_Surjection
<1>6. Cardinality(T) \in Nat
  BY <1>5, FS_CardinalityType
<1>7. ASSUME Once(s) PROVE Cardinality(T) = n
  <2>1. s \in Injection(1..n, T)
    BY <1>3, <1>7 DEF Injection, IsInjective, Once, n
  <2>2. QED
    BY <1>2, <1>4, <2>1, FS_Surjection
<1>8. QED
  BY <1>1, <1>5, <1>6, <1>7 DEF n, T

\* Where nobody is younger than the one behind, the members who are due are the
\* first so many.
LEMMA DueAreFirst ==
  ASSUME NEW S, NEW s \in Seq(S), Once(s), NEW a,
         \A i \in 1..Len(s) : a[s[i]] \in Nat,
         \A i, j \in 1..Len(s) : i < j => a[s[j]] <= a[s[i]]
  PROVE  LET D == {x \in Range(s) : a[x] >= PromotionThreshold} IN
         /\ Cardinality(D) \in 0..Len(s)
         /\ \A i \in 1..Len(s) : s[i] \in D <=> i <= Cardinality(D)
<1> DEFINE D == {x \in Range(s) : a[x] >= PromotionThreshold}
           P == {i \in 1..Len(s) : a[s[i]] >= PromotionThreshold}
           c == Cardinality(P)
<1>1. Len(s) \in Nat /\ \A x : x \in Range(s) <=> \E i \in 1..Len(s) : s[i] = x
  BY InRange
<1>2. IsFiniteSet(1..Len(s)) /\ Cardinality(1..Len(s)) = Len(s)
  BY <1>1, IntervalSize
<1>3. IsFiniteSet(P) /\ c \in Nat /\ c <= Len(s)
  <2>1. IsFiniteSet(P) /\ Cardinality(P) <= Cardinality(1..Len(s))
    BY <1>2, FS_Subset
  <2>2. QED
    BY <1>2, <2>1, FS_CardinalityType
<1>4. ASSUME NEW i \in P PROVE i \in 1..c
  <2>1. i \in Nat /\ i \in 1..Len(s) /\ a[s[i]] >= PromotionThreshold
    OBVIOUS
  <2>2. ASSUME NEW m \in 1..i PROVE m \in P
    <3>1. m \in 1..Len(s) /\ (m < i \/ m = i)
      BY <1>1, <2>1
    <3>2. a[s[m]] \in Nat /\ a[s[i]] \in Nat /\ a[s[i]] <= a[s[m]]
      BY <2>1, <3>1
    <3>3. QED
      BY <2>1, <3>1, <3>2, ThresholdIsPositive
  <2>3. 1..i \in SUBSET P
    BY <2>2
  <2>4. Cardinality(1..i) = i /\ Cardinality(1..i) <= c
    BY <1>3, <2>1, <2>3, IntervalSize, FS_Subset
  <2>5. QED
    BY <1>3, <2>1, <2>4
<1>5. P = 1..c
  <2>1. IsFiniteSet(1..c) /\ Cardinality(1..c) = c
    BY <1>3, IntervalSize
  <2>2. P \in SUBSET (1..c)
    BY <1>4
  <2>3. QED
    BY <2>1, <2>2, FS_Subset
<1> DEFINE f == [i \in 1..c |-> s[i]]
<1>6. \A i \in 1..Len(s) : s[i] \in D <=> i \in P
  BY <1>1
<1> HIDE DEF P, c
<1>7. f \in Bijection(1..c, D)
  <2>1. \A i \in 1..c : i \in 1..Len(s) /\ s[i] \in D
    BY <1>1, <1>3, <1>5, <1>6
  <2>2. \A x \in D : \E i \in 1..c : s[i] = x
    BY <1>1, <1>5, <1>6
  <2> HIDE DEF D
  <2>3. f \in [1..c -> D] /\ \A x \in D : \E i \in 1..c : f[i] = x
    BY <2>1, <2>2
  <2>4. \A i, j \in 1..c : f[i] = f[j] => i = j
    BY <2>1 DEF Once
  <2>5. QED
    BY <2>3, <2>4 DEF Bijection, Injection, Surjection, IsInjective
<1>8. Cardinality(D) = c
  <2>1. IsFiniteSet(1..c) /\ Cardinality(1..c) = c
    BY <1>3, IntervalSize
  <2> HIDE DEF D, f
  <2>2. QED
    BY <1>7, <2>1, FS_Bijection DEF ExistsBijection
<1>9. Cardinality(D) \in 0..Len(s)
  BY <1>1, <1>3, <1>8
<1>10. \A i \in 1..Len(s) : s[i] \in D <=> i <= Cardinality(D)
  <2> HIDE DEF D
  <2>1. QED
    BY <1>1, <1>3, <1>5, <1>6, <1>8
<1>11. QED
  BY <1>9, <1>10

\* Appending a newcomer, and cutting items off.
LEMMA OnceAppend ==
  ASSUME NEW S, NEW s \in Seq(S), NEW e \in S, Once(s), e \notin Range(s)
  PROVE  Once(Append(s, e))
<1>1. /\ Len(s) \in Nat /\ Len(Append(s, e)) = Len(s) + 1
      /\ \A i \in 1..Len(s) : Append(s, e)[i] = s[i]
      /\ Append(s, e)[Len(s) + 1] = e
  BY AppendProperties, LenProperties
<1>2. \A i \in 1..Len(s) : s[i] # e
  BY InRange
<1>3. QED
  BY <1>1, <1>2 DEF Once

LEMMA OnceCut ==
  ASSUME NEW S, NEW s \in Seq(S), NEW n \in 0..Len(s), Once(s)
  PROVE  Once(SubSeq(s, n + 1, Len(s)))
<1>1. /\ Len(s) \in Nat /\ Len(SubSeq(s, n + 1, Len(s))) = Len(s) - n
      /\ \A i \in 1..(Len(s) - n) : SubSeq(s, n + 1, Len(s))[i] = s[n + i]
  BY CutType, LenProperties
<1>2. QED
  BY <1>1 DEF Once

\* The item read next goes behind those read before.
LEMMA OrderAppend ==
  ASSUME batch \in Seq(BatchRequest), Once(batch), NEW k \in 1..Len(batch),
         NEW s \in Seq(BatchRequest), InBatchOrder(s),
         \A m \in 1..Len(s), i \in 1..Len(batch) : s[m] = batch[i] => i < k
  PROVE  InBatchOrder(Append(s, batch[k]))
<1>1. Len(batch) \in Nat /\ batch[k] \in BatchRequest
  BY InRange
<1>2. /\ Len(s) \in Nat /\ Len(Append(s, batch[k])) = Len(s) + 1
      /\ \A i \in 1..Len(s) : Append(s, batch[k])[i] = s[i]
      /\ Append(s, batch[k])[Len(s) + 1] = batch[k]
  BY <1>1, AppendProperties, LenProperties
<1>3. QED
  BY <1>1, <1>2 DEF InBatchOrder, Once

\* What follows the order of the deque has nobody twice.
LEMMA OrderedOnce ==
  ASSUME batch \in Seq(BatchRequest),
         NEW s \in Seq(BatchRequest), InBatchOrder(s), Range(s) \subseteq Range(batch)
  PROVE  /\ Once(s)
         /\ \A m \in 1..Len(s) : \E i \in 1..Len(batch) : s[m] = batch[i]
<1>1. Len(s) \in Nat /\ Len(batch) \in Nat
  BY InRange
<1>2. \A m \in 1..Len(s) : \E i \in 1..Len(batch) : s[m] = batch[i]
  <2>1. \A m \in 1..Len(s) : s[m] \in Range(batch)
    BY InRange
  <2>2. QED
    BY <2>1, InRange
<1>3. \A m, n \in 1..Len(s) : s[m] = s[n] => ~(m < n)
  BY <1>1, <1>2 DEF InBatchOrder
<1>4. QED
  BY <1>1, <1>2, <1>3 DEF Once

-----------------------------------------------------------------------------
(* The steps. *)

QueueInv == DequesInv /\ ScanInv /\ PromotionInv

\* What the two lists hold in a scan.
LEMMA ListsType ==
  ASSUME DequesInv, ScanInv, room > 0
  PROVE  /\ batch \in Seq(BatchRequest) /\ Once(batch)
         /\ promoted \in Seq(BatchRequest) /\ remaining \in Seq(BatchRequest)
         /\ unread \in Seq(BatchRequest)
         /\ Len(batch) \in Nat /\ Len(promoted) \in Nat /\ Len(remaining) \in Nat
         /\ Len(unread) \in Nat /\ ReadSoFar \in 0..Len(batch)
         /\ room \in Nat
         /\ \A i \in 1..Len(unread) : unread[i] = batch[ReadSoFar + i]
         /\ Once(promoted) /\ Once(remaining)
         /\ \A m \in 1..Len(promoted) : \E i \in 1..ReadSoFar : promoted[m] = batch[i]
         /\ \A m \in 1..Len(remaining) : \E i \in 1..ReadSoFar : remaining[m] = batch[i]
<1>1. /\ batch \in Seq(BatchRequest) /\ Once(batch)
      /\ promoted \in Seq(BatchRequest) /\ remaining \in Seq(BatchRequest)
      /\ room \in Nat /\ Len(unread) \in 0..Len(batch)
      /\ unread = SubSeq(batch, ReadSoFar + 1, Len(batch))
  BY BatchSizeIsPositive DEF DequesInv, ScanInv
<1>2. Len(batch) \in Nat /\ Len(promoted) \in Nat /\ Len(remaining) \in Nat
  BY <1>1, LenProperties
<1>3. Len(unread) \in Nat /\ ReadSoFar \in 0..Len(batch)
  BY <1>1, <1>2 DEF ReadSoFar
<1>4. /\ unread \in Seq(BatchRequest)
      /\ Len(unread) = Len(batch) - ReadSoFar
      /\ \A i \in 1..(Len(batch) - ReadSoFar) : unread[i] = batch[ReadSoFar + i]
  BY <1>1, <1>3, CutType
<1>5. /\ Once(promoted) /\ Once(remaining)
      /\ \A m \in 1..Len(promoted) : \E i \in 1..Len(batch) : promoted[m] = batch[i]
      /\ \A m \in 1..Len(remaining) : \E i \in 1..Len(batch) : remaining[m] = batch[i]
  BY <1>1, OrderedOnce DEF ScanInv
<1>6. /\ \A m \in 1..Len(promoted) : promoted[m] \in Range(promoted)
      /\ \A m \in 1..Len(remaining) : remaining[m] \in Range(remaining)
  BY <1>1, InRange
<1>7. \A i \in 1..Len(batch) :
        batch[i] \in Range(promoted) \cup Range(remaining) => i \in 1..ReadSoFar
  BY <1>2, <1>3 DEF ScanInv
<1>8. \A m \in 1..Len(promoted) : \E i \in 1..ReadSoFar : promoted[m] = batch[i]
  BY <1>5, <1>6, <1>7
<1>9. \A m \in 1..Len(remaining) : \E i \in 1..ReadSoFar : remaining[m] = batch[i]
  BY <1>5, <1>6, <1>7
<1>10. \A i \in 1..Len(unread) : unread[i] = batch[ReadSoFar + i]
  BY <1>2, <1>3, <1>4
<1>11. QED
  BY <1>1, <1>2, <1>3, <1>4, <1>5, <1>8, <1>9, <1>10

\* The lesser of two numbers.
LEMMA LeastBounds ==
  ASSUME NEW m \in Nat, NEW n \in Nat
  PROVE  /\ Least(m, n) \in 0..n /\ Least(m, n) <= m
         /\ Least(m, n) = m \/ Least(m, n) = n
BY DEF Least

\* How many the collection takes from the front of the interactive deque, and of
\* what the scan has left.
FromInteractive == Least(room - Len(promoted), Len(interactive))
FromRemaining == Least(room - Len(promoted) - FromInteractive, Len(remaining))

LEMMA FillTakes ==
  ASSUME QueueInv, Fill
  PROVE  /\ room > 0 /\ ReadSoFar = Len(batch) /\ Len(promoted) <= room
         /\ age' = age /\ room' = 0
         /\ FromInteractive \in 0..Len(interactive)
         /\ FromRemaining \in 0..Len(remaining)
         /\ Len(promoted) + FromInteractive + FromRemaining <= room
         /\ FromInteractive < Len(interactive) => FromRemaining = 0
         /\ interactive' = SubSeq(interactive, FromInteractive + 1, Len(interactive))
         /\ batch' = SubSeq(remaining, FromRemaining + 1, Len(remaining))
         /\ pulled' = Range(promoted) \cup Range(SubSeq(interactive, 1, FromInteractive))
                        \cup Range(SubSeq(remaining, 1, FromRemaining))
<1> DEFINE left == room - Len(promoted)
           a == FromInteractive
           b == FromRemaining
<1>1. /\ room > 0 /\ unread = <<>> /\ age' = age /\ room' = 0
      /\ interactive' = SubSeq(interactive, a + 1, Len(interactive))
      /\ pulled' = Range(promoted) \cup Range(SubSeq(interactive, 1, a))
                     \cup Range(Take(remaining, left - Len(Take(interactive, left))))
      /\ batch' = Leave(remaining, left - Len(Take(interactive, left)))
  BY DEF Fill, Take, Leave, FromInteractive
<1>2. /\ room \in Nat /\ Len(promoted) \in Nat /\ Len(remaining) \in Nat
      /\ Len(batch) \in Nat /\ Len(interactive) \in Nat /\ left \in Nat
      /\ Len(promoted) <= room
  <2>1. /\ room \in Nat /\ Len(promoted) \in Nat /\ Len(remaining) \in Nat
        /\ Len(batch) \in Nat /\ Len(promoted) <= room
    BY <1>1, ListsType DEF QueueInv, PromotionInv
  <2>2. Len(interactive) \in Nat
    BY LenProperties DEF QueueInv, DequesInv
  <2>3. QED
    BY <2>1, <2>2
<1>3. a \in 0..Len(interactive) /\ a <= left /\ (a = left \/ a = Len(interactive))
  BY <1>2, LeastBounds DEF FromInteractive
<1>4. Len(Take(interactive, left)) = a
  BY <1>3, CutType DEF Take, QueueInv, DequesInv, FromInteractive
<1>5. /\ batch' = SubSeq(remaining, b + 1, Len(remaining))
      /\ pulled' = Range(promoted) \cup Range(SubSeq(interactive, 1, a))
                     \cup Range(SubSeq(remaining, 1, b))
  BY <1>1, <1>4 DEF Take, Leave, FromRemaining
<1>6. b \in 0..Len(remaining) /\ b <= left - a
  <2>1. left - a \in Nat
    BY <1>2, <1>3
  <2>2. b = Least(left - a, Len(remaining))
    BY DEF FromRemaining
  <2> HIDE DEF left, a, b
  <2>3. QED
    BY <1>2, <2>1, <2>2, LeastBounds
<1>7. Len(unread) = 0 /\ ReadSoFar = Len(batch)
  BY <1>1, <1>2, EmptySeq DEF ReadSoFar
<1> HIDE DEF a, b
<1>8. Len(promoted) + a + b <= room /\ (a < Len(interactive) => b = 0)
  BY <1>2, <1>3, <1>6
<1>9. QED
  BY <1>1, <1>2, <1>3, <1>5, <1>6, <1>7, <1>8 DEF a, b

\* The deques, step by step.
LEMMA DequesHold == QueueInv /\ [Next]_vars => DequesInv'
<1> SUFFICES ASSUME QueueInv, [Next]_vars PROVE DequesInv'
  OBVIOUS
<1> USE DEF QueueInv
<1>0. /\ interactive \in Seq(InteractiveRequest) /\ Once(interactive)
      /\ batch \in Seq(BatchRequest) /\ Once(batch)
      /\ Len(interactive) \in Nat /\ Len(batch) \in Nat
      /\ age \in [BatchRequest -> Nat]
      /\ \A i, j \in 1..Len(batch) : i < j => age[batch[j]] <= age[batch[i]]
      /\ \A i \in 1..Len(batch) : batch[i] \in BatchRequest /\ batch[i] \in Range(batch)
  BY InRange DEF DequesInv
<1>1. ASSUME NEW r \in InteractiveRequest, ArriveInteractive(r) PROVE DequesInv'
  <2>1. interactive' \in Seq(InteractiveRequest) /\ Once(interactive)'
    BY <1>0, <1>1, OnceAppend, AppendProperties DEF ArriveInteractive, Once
  <2>2. batch' = batch /\ age' = age
    BY <1>1 DEF ArriveInteractive
  <2>3. QED
    BY <1>0, <2>1, <2>2 DEF DequesInv, Once
<1>2. ASSUME NEW b \in BatchRequest, ArriveBatch(b) PROVE DequesInv'
  <2>1. /\ batch' = Append(batch, b) /\ interactive' = interactive
        /\ age' = [age EXCEPT ![b] = 0] /\ b \notin Range(batch)
    BY <1>2 DEF ArriveBatch
  <2>2. /\ batch' \in Seq(BatchRequest) /\ Len(batch') = Len(batch) + 1
        /\ \A i \in 1..Len(batch) : batch'[i] = batch[i]
        /\ batch'[Len(batch) + 1] = b
    BY <1>0, <2>1, AppendProperties
  <2>3. Once(batch)'
    <3>1. Once(Append(batch, b))
      BY <1>0, <2>1, OnceAppend
    <3>2. QED
      BY <2>1, <3>1 DEF Once
  <2>4. age' \in [BatchRequest -> Nat] /\ age'[b] = 0
    BY <1>0, <2>1
  <2>5. \A i \in 1..Len(batch) : age'[batch'[i]] = age[batch[i]]
    BY <1>0, <2>1, <2>2
  <2>6. \A i, j \in 1..Len(batch') : i < j => age'[batch'[j]] <= age'[batch'[i]]
    <3> SUFFICES ASSUME NEW i \in 1..Len(batch'), NEW j \in 1..Len(batch'), i < j
                 PROVE  age'[batch'[j]] <= age'[batch'[i]]
      OBVIOUS
    <3>1. i \in 1..Len(batch) /\ age'[batch'[i]] = age[batch[i]] /\ age[batch[i]] \in Nat
      BY <1>0, <2>2, <2>5
    <3>2. CASE j = Len(batch) + 1
      BY <2>2, <2>4, <3>1, <3>2
    <3>3. CASE j \in 1..Len(batch)
      BY <1>0, <2>5, <3>1, <3>3
    <3>4. j = Len(batch) + 1 \/ j \in 1..Len(batch)
      <4>1. j \in 1..(Len(batch) + 1)
        BY <2>2
      <4>2. Len(batch) \in Nat
        BY <1>0
      <4>3. QED
        BY <4>1, <4>2
    <3>5. QED
      BY <3>2, <3>3, <3>4
  <2>7. QED
    BY <1>0, <2>1, <2>2, <2>3, <2>4, <2>6 DEF DequesInv, Once
<1>3. ASSUME Tick PROVE DequesInv'
  <2>1. /\ interactive' = interactive /\ batch' = batch
        /\ age' = [x \in BatchRequest |->
             IF x \in Range(batch) /\ age[x] < PromotionThreshold THEN age[x] + 1
             ELSE age[x]]
    BY <1>3 DEF Tick, deques
  <2>2. age' \in [BatchRequest -> Nat]
    BY <1>0, <2>1
  <2>3. \A i \in 1..Len(batch) :
          /\ age[batch[i]] \in Nat
          /\ age'[batch[i]] = IF age[batch[i]] < PromotionThreshold
                                THEN age[batch[i]] + 1 ELSE age[batch[i]]
    BY <1>0, <2>1
  <2>4. \A i, j \in 1..Len(batch) : i < j => age'[batch[j]] <= age'[batch[i]]
    <3> SUFFICES ASSUME NEW i \in 1..Len(batch), NEW j \in 1..Len(batch), i < j
                 PROVE  age'[batch[j]] <= age'[batch[i]]
      OBVIOUS
    <3>1. age[batch[j]] <= age[batch[i]]
      BY <1>0
    <3>2. QED
      BY <2>3, <3>1, ThresholdIsPositive
  <2>5. QED
    BY <1>0, <2>1, <2>2, <2>4 DEF DequesInv, Once
<1>4. ASSUME UNCHANGED <<interactive, batch, age>> PROVE DequesInv'
  BY <1>0, <1>4 DEF DequesInv, Once
<1>5. ASSUME Fill PROVE DequesInv'
  <2> DEFINE a == FromInteractive
             b == FromRemaining
  <2>1. /\ a \in 0..Len(interactive) /\ b \in 0..Len(remaining) /\ age' = age
        /\ interactive' = SubSeq(interactive, a + 1, Len(interactive))
        /\ batch' = SubSeq(remaining, b + 1, Len(remaining))
        /\ room > 0
    BY <1>5, FillTakes
  <2>2. /\ remaining \in Seq(BatchRequest) /\ Once(remaining) /\ Len(remaining) \in Nat
        /\ \A m \in 1..Len(remaining) : \E i \in 1..Len(batch) : remaining[m] = batch[i]
    BY <2>1, ListsType
  <2> HIDE DEF a, b
  <2>3. interactive' \in Seq(InteractiveRequest) /\ Once(interactive)'
    <3>1. Once(SubSeq(interactive, a + 1, Len(interactive)))
      BY <1>0, <2>1, OnceCut
    <3>2. QED
      BY <1>0, <2>1, <3>1, CutType DEF Once
  <2>4. /\ batch' \in Seq(BatchRequest) /\ Len(batch') = Len(remaining) - b
        /\ \A i \in 1..(Len(remaining) - b) : batch'[i] = remaining[b + i]
    BY <2>1, <2>2, CutType
  <2>5. Once(batch)'
    <3>1. Once(SubSeq(remaining, b + 1, Len(remaining)))
      BY <2>1, <2>2, OnceCut
    <3>2. QED
      BY <2>1, <3>1 DEF Once
  <2>6. \A m, n \in 1..Len(remaining) : m < n => age[remaining[n]] <= age[remaining[m]]
    <3> SUFFICES ASSUME NEW m \in 1..Len(remaining), NEW n \in 1..Len(remaining), m < n
                 PROVE  age[remaining[n]] <= age[remaining[m]]
      OBVIOUS
    <3>1. PICK i \in 1..Len(batch) : remaining[m] = batch[i]
      BY <2>2
    <3>2. PICK j \in 1..Len(batch) : remaining[n] = batch[j]
      BY <2>2
    <3>3. i < j
      BY <2>1, <3>1, <3>2 DEF ScanInv, InBatchOrder
    <3>4. QED
      BY <1>0, <3>1, <3>2, <3>3
  <2>7. \A i, j \in 1..Len(batch') : i < j => age'[batch'[j]] <= age'[batch'[i]]
    <3> SUFFICES ASSUME NEW i \in 1..Len(batch'), NEW j \in 1..Len(batch'), i < j
                 PROVE  age'[batch'[j]] <= age'[batch'[i]]
      OBVIOUS
    <3>1. /\ i \in 1..(Len(remaining) - b) /\ j \in 1..(Len(remaining) - b)
          /\ b \in Nat /\ Len(remaining) \in Nat
      BY <2>1, <2>2, <2>4
    <3>2. /\ b + i \in 1..Len(remaining) /\ b + j \in 1..Len(remaining)
          /\ b + i < b + j
      BY <3>1
    <3>3. batch'[i] = remaining[b + i] /\ batch'[j] = remaining[b + j]
      BY <2>4, <3>1
    <3>4. QED
      BY <2>1, <2>6, <3>2, <3>3
  <2>8. QED
    BY <1>0, <2>1, <2>3, <2>4, <2>5, <2>7 DEF DequesInv, Once
<1>6. QED
  BY <1>1, <1>2, <1>3, <1>4, <1>5 DEF Next, Collect, ScanStart, ScanItem, vars, deques

\* Reading one item: it goes behind one of the lists.
LEMMA ScanItemReads ==
  ASSUME QueueInv, ScanItem
  PROVE  /\ room > 0 /\ room' = room /\ batch' = batch /\ age' = age
         /\ due' = due /\ pulled' = pulled
         /\ Len(unread) \in 1..Len(batch)
         /\ ReadSoFar + 1 \in 1..Len(batch)
         /\ unread' = SubSeq(batch, ReadSoFar + 2, Len(batch))
         /\ Len(unread') = Len(unread) - 1
         /\ Len(batch) - Len(unread') = ReadSoFar + 1
         /\ \/ /\ batch[ReadSoFar + 1] \in DueItems /\ Len(promoted) < room
               /\ promoted' = Append(promoted, batch[ReadSoFar + 1])
               /\ remaining' = remaining
            \/ /\ batch[ReadSoFar + 1] \notin DueItems \/ Len(promoted) >= room
               /\ remaining' = Append(remaining, batch[ReadSoFar + 1])
               /\ promoted' = promoted
<1>1. /\ room > 0 /\ unread # <<>> /\ unread' = Tail(unread)
      /\ room' = room /\ batch' = batch /\ age' = age /\ due' = due /\ pulled' = pulled
  BY DEF ScanItem, deques
<1>2. /\ unread \in Seq(BatchRequest) /\ batch \in Seq(BatchRequest)
      /\ Len(batch) \in Nat /\ Len(unread) \in Nat /\ ReadSoFar \in 0..Len(batch)
      /\ room \in Nat /\ Len(promoted) \in Nat
      /\ unread = SubSeq(batch, ReadSoFar + 1, Len(batch))
      /\ \A i \in 1..Len(unread) : unread[i] = batch[ReadSoFar + i]
      /\ ReadSoFar = Len(batch) - Len(unread)
  BY <1>1, ListsType DEF QueueInv, ScanInv, ReadSoFar
<1>3. Len(unread) \in 1..Len(batch) /\ ReadSoFar + 1 \in 1..Len(batch)
  <2>1. Len(unread) # 0
    BY <1>1, <1>2, EmptySeq
  <2>2. QED
    BY <1>2, <2>1
<1>4. /\ Head(unread) = batch[ReadSoFar + 1]
      /\ Tail(unread) = SubSeq(batch, ReadSoFar + 2, Len(batch))
  <2>1. Len(batch) \in (ReadSoFar + 1)..Len(batch) /\ ReadSoFar + 1 + 1 = ReadSoFar + 2
    BY <1>2, <1>3
  <2>2. /\ Head(unread) = batch[ReadSoFar + 1]
        /\ Tail(unread) = SubSeq(batch, ReadSoFar + 1 + 1, Len(batch))
    BY <1>2, <1>3, <2>1, HeadTailOfSubSeq
  <2>3. QED
    BY <2>1, <2>2
<1>5. Len(Tail(unread)) = Len(unread) - 1
  BY <1>1, <1>2, HeadTailProperties
<1>6. unread' = SubSeq(batch, ReadSoFar + 2, Len(batch))
  BY <1>1, <1>4
<1>7. Len(unread') = Len(unread) - 1 /\ Len(batch) - Len(unread') = ReadSoFar + 1
  <2>1. Len(unread') = Len(unread) - 1
    BY <1>1, <1>5
  <2>2. Len(batch) \in Nat /\ Len(unread) \in Nat /\ ReadSoFar = Len(batch) - Len(unread)
    BY <1>2
  <2>3. QED
    BY <2>1, <2>2
<1>8. IsPromotionEligible(Head(unread)) <=> batch[ReadSoFar + 1] \in DueItems
  <2>1. batch[ReadSoFar + 1] \in Range(batch)
    BY <1>2, <1>3, InRange
  <2>2. QED
    BY <1>4, <2>1 DEF IsPromotionEligible, DueItems
<1>9. \/ /\ batch[ReadSoFar + 1] \in DueItems /\ Len(promoted) < room
         /\ promoted' = Append(promoted, batch[ReadSoFar + 1])
         /\ remaining' = remaining
      \/ /\ ~(batch[ReadSoFar + 1] \in DueItems /\ Len(promoted) < room)
         /\ remaining' = Append(remaining, batch[ReadSoFar + 1])
         /\ promoted' = promoted
  BY <1>4, <1>8, Zenon DEF ScanItem
<1>10. Len(promoted) < room \/ Len(promoted) >= room
  BY <1>2
<1>11. \/ /\ batch[ReadSoFar + 1] \in DueItems /\ Len(promoted) < room
          /\ promoted' = Append(promoted, batch[ReadSoFar + 1])
          /\ remaining' = remaining
       \/ /\ batch[ReadSoFar + 1] \notin DueItems \/ Len(promoted) >= room
          /\ remaining' = Append(remaining, batch[ReadSoFar + 1])
          /\ promoted' = promoted
  BY <1>9, <1>10, Zenon
<1>12. QED
  BY <1>1, <1>3, <1>6, <1>7, <1>11, Zenon

\* The scan, step by step.
LEMMA ScanHolds == QueueInv /\ [Next]_vars => ScanInv'
<1> SUFFICES ASSUME QueueInv, [Next]_vars PROVE ScanInv'
  OBVIOUS
<1> USE DEF QueueInv
<1>1. ASSUME room = 0, room' = room PROVE ScanInv'
  BY <1>1 DEF ScanInv
<1>2. ASSUME UNCHANGED <<batch, scan, pulled>> PROVE ScanInv'
  BY <1>2 DEF ScanInv, scan, ReadSoFar, InBatchOrder
<1>3. ASSUME NEW k \in 1..MaxBatchSize, ScanStart(k) PROVE ScanInv'
  <2>1. /\ room' = k /\ batch' = batch /\ unread' = batch /\ pulled' = {}
        /\ promoted' = <<>> /\ remaining' = <<>>
    BY <1>3 DEF ScanStart, deques
  <2>2. batch \in Seq(BatchRequest) /\ Len(batch) \in Nat
    BY LenProperties DEF DequesInv
  <2>3. /\ <<>> \in Seq(BatchRequest) /\ Len(<<>>) = 0
        /\ \A x : x \in Range(<<>>) <=> \E i \in 1..Len(<<>>) : <<>>[i] = x
    BY InRange, EmptySeq
  <2>4. ReadSoFar' = 0
    BY <2>1, <2>2 DEF ReadSoFar
  <2>5. batch = SubSeq(batch, 1, Len(batch))
    BY <2>2, SubSeqFull
  <2>6. Range(<<>>) = {}
    BY <2>3
  <2>7. room' \in 0..MaxBatchSize /\ Len(unread)' \in 0..Len(batch)'
    BY <2>1, <2>2, BatchSizeIsPositive
  <2>8. unread' = SubSeq(batch', ReadSoFar' + 1, Len(batch'))
    BY <2>1, <2>4, <2>5
  <2>9. Len(promoted') + Len(remaining') = ReadSoFar'
    BY <2>1, <2>3, <2>4
  <2>10. InBatchOrder(promoted)' /\ InBatchOrder(remaining)'
    BY <2>1, <2>3 DEF InBatchOrder
  <2>11. \A i \in 1..Len(batch') :
           i <= ReadSoFar' <=> batch'[i] \in Range(promoted') \cup Range(remaining')
    BY <2>1, <2>2, <2>4, <2>6
  <2>12. QED
    BY <2>1, <2>3, <2>6, <2>7, <2>8, <2>9, <2>10, <2>11 DEF ScanInv
<1>4. ASSUME ScanItem PROVE ScanInv'
  <2> DEFINE k == ReadSoFar + 1
             x == batch[k]
  <2>1. /\ room > 0 /\ room' = room /\ batch' = batch /\ pulled' = pulled
        /\ Len(unread) \in 1..Len(batch) /\ Len(unread') = Len(unread) - 1
        /\ k \in 1..Len(batch) /\ ReadSoFar' = k
        /\ unread' = SubSeq(batch, k + 1, Len(batch))
        /\ \/ promoted' = Append(promoted, x) /\ remaining' = remaining
           \/ remaining' = Append(remaining, x) /\ promoted' = promoted
    <3>1. ReadSoFar + 2 = k + 1
      <4>1. ReadSoFar \in Nat
        BY <1>4, ListsType, ScanItemReads
      <4>2. QED
        BY <4>1
    <3>2. ReadSoFar' = Len(batch') - Len(unread')
      BY DEF ReadSoFar
    <3>3. QED
      BY <1>4, <3>1, <3>2, ScanItemReads
  <2>2. /\ batch \in Seq(BatchRequest) /\ Once(batch) /\ Len(batch) \in Nat
        /\ promoted \in Seq(BatchRequest) /\ remaining \in Seq(BatchRequest)
        /\ Len(promoted) \in Nat /\ Len(remaining) \in Nat /\ ReadSoFar \in Nat
        /\ \A m \in 1..Len(promoted) : \E i \in 1..ReadSoFar : promoted[m] = batch[i]
        /\ \A m \in 1..Len(remaining) : \E i \in 1..ReadSoFar : remaining[m] = batch[i]
    BY <2>1, ListsType
  <2>3. x \in BatchRequest /\ x \in Range(batch)
    BY <2>1, <2>2, InRange
  <2> HIDE DEF k, x
  <2>4. k = ReadSoFar + 1 /\ x = batch[k]
    BY DEF k, x
  <2>5. ASSUME NEW s \in Seq(BatchRequest), InBatchOrder(s),
               \A m \in 1..Len(s) : \E i \in 1..ReadSoFar : s[m] = batch[i]
        PROVE  /\ Append(s, x) \in Seq(BatchRequest) /\ Len(Append(s, x)) = Len(s) + 1
               /\ \A m \in 1..Len(s) : Append(s, x)[m] = s[m] /\ s[m] # x
               /\ Append(s, x)[Len(s) + 1] = x
               /\ Range(Append(s, x)) = Range(s) \cup {x}
               /\ InBatchOrder(Append(s, x))
    <3>1. /\ Append(s, x) \in Seq(BatchRequest) /\ Len(Append(s, x)) = Len(s) + 1
          /\ \A m \in 1..Len(s) : Append(s, x)[m] = s[m]
          /\ Append(s, x)[Len(s) + 1] = x
      BY <2>3, AppendProperties
    <3>2. \A m \in 1..Len(s), i \in 1..Len(batch) : s[m] = batch[i] => i < k
      <4> SUFFICES ASSUME NEW m \in 1..Len(s), NEW i \in 1..Len(batch), s[m] = batch[i]
                   PROVE  i < k
        OBVIOUS
      <4>1. PICK j \in 1..ReadSoFar : s[m] = batch[j]
        BY <2>5
      <4>2. j \in 1..Len(batch) /\ j < k
        BY <2>1, <2>2, <2>4, <4>1
      <4>3. i = j
        BY <2>2, <4>1, <4>2 DEF Once
      <4>4. QED
        BY <4>2, <4>3
    <3>3. InBatchOrder(Append(s, x))
      BY <2>1, <2>2, <2>4, <2>5, <3>2, OrderAppend
    <3>4. \A m \in 1..Len(s) : s[m] # x
      <4>1. k \in 1..Len(batch) /\ ~(k < k) /\ x = batch[k]
        BY <2>1, <2>2, <2>4
      <4>2. QED
        BY <3>2, <4>1
    <3>5. Range(Append(s, x)) = Range(s) \cup {x}
      <4>1. Len(s) \in Nat /\ \A y : y \in Range(s) <=> \E i \in 1..Len(s) : s[i] = y
        BY InRange
      <4>2. \A y : y \in Range(Append(s, x))
                     <=> \E i \in 1..Len(Append(s, x)) : Append(s, x)[i] = y
        BY <3>1, InRange
      <4>3. \A y : y \in Range(Append(s, x)) <=> y \in Range(s) \/ y = x
        BY <3>1, <4>1, <4>2
      <4>4. QED
        BY <4>3
    <3>6. QED
      BY <3>1, <3>3, <3>4, <3>5
  <2>6. \A i \in 1..Len(batch) :
          i <= k <=> batch[i] \in Range(promoted) \cup Range(remaining) \cup {x}
    <3> SUFFICES ASSUME NEW i \in 1..Len(batch)
                 PROVE  i <= k <=> batch[i] \in Range(promoted) \cup Range(remaining) \cup {x}
      OBVIOUS
    <3>1. i <= ReadSoFar <=> batch[i] \in Range(promoted) \cup Range(remaining)
      BY <2>1 DEF ScanInv
    <3>2. i = k <=> batch[i] = x
      BY <2>1, <2>2, <2>4 DEF Once
    <3>3. i <= k <=> i <= ReadSoFar \/ i = k
      BY <2>2, <2>4
    <3>4. QED
      BY <3>1, <3>2, <3>3
  <2>7. /\ InBatchOrder(promoted) /\ InBatchOrder(remaining)
        /\ Range(promoted) \cup Range(remaining) \subseteq Range(batch)
        /\ Len(promoted) + Len(remaining) = ReadSoFar
        /\ \A m \in 1..Len(promoted), n \in 1..Len(remaining) : promoted[m] # remaining[n]
        /\ room \in 0..MaxBatchSize /\ pulled = {}
    BY <2>1 DEF ScanInv
  <2>8. room' \in 0..MaxBatchSize /\ pulled' = {} /\ Len(unread') \in 0..Len(batch')
    BY <2>1, <2>2, <2>7
  <2>9. unread' = SubSeq(batch', ReadSoFar' + 1, Len(batch'))
    BY <2>1
  <2>10. CASE promoted' = Append(promoted, x) /\ remaining' = remaining
    <3>1. /\ promoted' \in Seq(BatchRequest) /\ Len(promoted') = Len(promoted) + 1
          /\ \A m \in 1..Len(promoted) : promoted'[m] = promoted[m]
          /\ promoted'[Len(promoted) + 1] = x
          /\ Range(promoted') = Range(promoted) \cup {x}
          /\ InBatchOrder(Append(promoted, x))
      BY <2>2, <2>5, <2>7, <2>10
    <3>2. \A n \in 1..Len(remaining) : remaining[n] # x
      <4>1. /\ remaining \in Seq(BatchRequest) /\ InBatchOrder(remaining)
            /\ \A m \in 1..Len(remaining) : \E i \in 1..ReadSoFar : remaining[m] = batch[i]
        BY <2>2, <2>7
      <4>2. \A m \in 1..Len(remaining) : Append(remaining, x)[m] = remaining[m] /\ remaining[m] # x
        BY <2>5, <4>1
      <4>3. QED
        BY <4>2
    <3>3. InBatchOrder(promoted)' /\ InBatchOrder(remaining)'
      <4>1. /\ batch' = batch /\ remaining' = remaining /\ InBatchOrder(remaining)
            /\ promoted' = Append(promoted, x) /\ InBatchOrder(Append(promoted, x))
        BY <2>1, <2>7, <2>10, <3>1
      <4>2. InBatchOrder(remaining)'
        BY <4>1 DEF InBatchOrder
      <4>3. InBatchOrder(promoted)'
        BY <4>1 DEF InBatchOrder
      <4>4. QED
        BY <4>2, <4>3
    <3>4. Len(promoted') + Len(remaining') = ReadSoFar'
      BY <2>1, <2>2, <2>4, <2>7, <2>10, <3>1
    <3>5. \A m \in 1..Len(promoted'), n \in 1..Len(remaining') : promoted'[m] # remaining'[n]
      <4> SUFFICES ASSUME NEW m \in 1..Len(promoted'), NEW n \in 1..Len(remaining)
                   PROVE  promoted'[m] # remaining[n]
        BY <2>10
      <4>1. m \in 1..Len(promoted) \/ m = Len(promoted) + 1
        BY <2>2, <3>1
      <4>2. QED
        BY <2>7, <3>1, <3>2, <4>1
    <3>6. /\ \A i \in 1..Len(batch') :
               i <= ReadSoFar' <=> batch'[i] \in Range(promoted') \cup Range(remaining')
          /\ Range(promoted') \cup Range(remaining') \subseteq Range(batch')
      BY <2>1, <2>3, <2>6, <2>7, <2>10, <3>1
    <3>7. QED
      BY <2>2, <2>8, <2>9, <2>10, <3>1, <3>3, <3>4, <3>5, <3>6 DEF ScanInv
  <2>11. CASE remaining' = Append(remaining, x) /\ promoted' = promoted
    <3>1. /\ remaining' \in Seq(BatchRequest) /\ Len(remaining') = Len(remaining) + 1
          /\ \A m \in 1..Len(remaining) : remaining'[m] = remaining[m]
          /\ remaining'[Len(remaining) + 1] = x
          /\ Range(remaining') = Range(remaining) \cup {x}
          /\ InBatchOrder(Append(remaining, x))
      BY <2>2, <2>5, <2>7, <2>11
    <3>2. \A n \in 1..Len(promoted) : promoted[n] # x
      <4>1. /\ promoted \in Seq(BatchRequest) /\ InBatchOrder(promoted)
            /\ \A m \in 1..Len(promoted) : \E i \in 1..ReadSoFar : promoted[m] = batch[i]
        BY <2>2, <2>7
      <4>2. \A m \in 1..Len(promoted) : Append(promoted, x)[m] = promoted[m] /\ promoted[m] # x
        BY <2>5, <4>1
      <4>3. QED
        BY <4>2
    <3>3. InBatchOrder(promoted)' /\ InBatchOrder(remaining)'
      <4>1. /\ batch' = batch /\ promoted' = promoted /\ InBatchOrder(promoted)
            /\ remaining' = Append(remaining, x) /\ InBatchOrder(Append(remaining, x))
        BY <2>1, <2>7, <2>11, <3>1
      <4>2. InBatchOrder(promoted)'
        BY <4>1 DEF InBatchOrder
      <4>3. InBatchOrder(remaining)'
        BY <4>1 DEF InBatchOrder
      <4>4. QED
        BY <4>2, <4>3
    <3>4. Len(promoted') + Len(remaining') = ReadSoFar'
      BY <2>1, <2>2, <2>4, <2>7, <2>11, <3>1
    <3>5. \A m \in 1..Len(promoted'), n \in 1..Len(remaining') : promoted'[m] # remaining'[n]
      <4> SUFFICES ASSUME NEW m \in 1..Len(promoted), NEW n \in 1..Len(remaining')
                   PROVE  promoted[m] # remaining'[n]
        BY <2>11
      <4>1. n \in 1..Len(remaining) \/ n = Len(remaining) + 1
        BY <2>2, <3>1
      <4>2. QED
        BY <2>7, <3>1, <3>2, <4>1
    <3>6. /\ \A i \in 1..Len(batch') :
               i <= ReadSoFar' <=> batch'[i] \in Range(promoted') \cup Range(remaining')
          /\ Range(promoted') \cup Range(remaining') \subseteq Range(batch')
      BY <2>1, <2>3, <2>6, <2>7, <2>11, <3>1
    <3>7. QED
      BY <2>2, <2>8, <2>9, <2>11, <3>1, <3>3, <3>4, <3>5, <3>6 DEF ScanInv
  <2>12. QED
    BY <2>1, <2>10, <2>11
<1>5. ASSUME Fill PROVE ScanInv'
  BY <1>5, BatchSizeIsPositive DEF Fill, ScanInv
<1>6. ASSUME Tick PROVE ScanInv'
  BY <1>2, <1>6 DEF Tick, deques
<1>7. ASSUME NEW r \in InteractiveRequest, ArriveInteractive(r) PROVE ScanInv'
  BY <1>1, <1>7 DEF ArriveInteractive, scan
<1>8. ASSUME NEW b \in BatchRequest, ArriveBatch(b) PROVE ScanInv'
  BY <1>1, <1>8 DEF ArriveBatch, scan
<1>9. QED
  BY <1>2, <1>3, <1>4, <1>5, <1>6, <1>7, <1>8 DEF Next, Collect, vars, deques

\* Those who are due are the first so many of the deque.
LEMMA DueItemsAreFirst ==
  ASSUME DequesInv
  PROVE  /\ Cardinality(DueItems) \in 0..Len(batch)
         /\ \A i \in 1..Len(batch) : batch[i] \in DueItems <=> i <= Cardinality(DueItems)
<1>1. /\ batch \in Seq(BatchRequest) /\ Once(batch)
      /\ \A i, j \in 1..Len(batch) : i < j => age[batch[j]] <= age[batch[i]]
  BY DEF DequesInv
<1>2. \A i \in 1..Len(batch) : age[batch[i]] \in Nat
  BY <1>1, InRange DEF DequesInv
<1>3. QED
  BY <1>1, <1>2, DueAreFirst DEF DueItems

\* Reading an item while there is room: those that were due at the start have
\* all been promoted, in their order.
LEMMA DuePromotedInOrder ==
  ASSUME QueueInv, room > 0, Len(promoted) < room, ReadSoFar <= due
  PROVE  Len(promoted) = ReadSoFar /\ Len(remaining) = 0
<1>1. /\ promoted \in Seq(BatchRequest) /\ Len(promoted) \in Nat
      /\ Len(remaining) \in Nat /\ ReadSoFar \in Nat
      /\ Len(promoted) + Len(remaining) = ReadSoFar
  BY ListsType DEF QueueInv, ScanInv
<1>2. due \in Nat
  BY ListsType DEF QueueInv, PromotionInv
<1>3. CASE ReadSoFar = 0
  BY <1>1, <1>3
<1>4. CASE ReadSoFar > 0
  <2>1. ReadSoFar \in 1..due
    BY <1>1, <1>2, <1>4
  <2>2. batch[ReadSoFar] \in Range(promoted)
    BY <1>1, <2>1 DEF QueueInv, PromotionInv
  <2>3. PICK m \in 1..Len(promoted) : promoted[m] = batch[ReadSoFar]
    BY <1>1, <2>2, InRange
  <2>4. m = ReadSoFar
    BY <2>1, <2>3 DEF QueueInv, PromotionInv
  <2>5. QED
    BY <1>1, <2>3, <2>4
<1>5. QED
  BY <1>1, <1>3, <1>4

\* The promotions, step by step.
LEMMA PromotionHolds == QueueInv /\ [Next]_vars => PromotionInv'
<1> SUFFICES ASSUME QueueInv, [Next]_vars PROVE PromotionInv'
  OBVIOUS
<1>1. ASSUME room' = 0 PROVE PromotionInv'
  BY <1>1 DEF PromotionInv
<1>2. ASSUME UNCHANGED <<batch, scan>>, DueItems \subseteq DueItems' PROVE PromotionInv'
  <2>1. PromotionInv
    BY DEF QueueInv
  <2>2. /\ room' = room /\ batch' = batch /\ promoted' = promoted
        /\ remaining' = remaining /\ due' = due /\ ReadSoFar' = ReadSoFar
    BY <1>2 DEF scan, ReadSoFar
  <2>3. QED
    BY <1>2, <2>1, <2>2 DEF PromotionInv
<1>3. ASSUME NEW k \in 1..MaxBatchSize, ScanStart(k) PROVE PromotionInv'
  <2>1. /\ room' = k /\ batch' = batch /\ unread' = batch /\ age' = age
        /\ promoted' = <<>> /\ remaining' = <<>> /\ due' = Cardinality(DueItems)
    BY <1>3 DEF ScanStart, deques
  <2>2. /\ Cardinality(DueItems) \in 0..Len(batch) /\ Len(batch) \in Nat
        /\ \A i \in 1..Len(batch) : batch[i] \in DueItems <=> i <= Cardinality(DueItems)
    BY DueItemsAreFirst, LenProperties DEF QueueInv, DequesInv
  <2>3. /\ Len(<<>>) = 0 /\ Range(<<>>) = {}
    <3>1. /\ <<>> \in Seq(BatchRequest) /\ Len(<<>>) = 0
          /\ \A x : x \in Range(<<>>) <=> \E i \in 1..Len(<<>>) : <<>>[i] = x
      BY InRange, EmptySeq
    <3>2. QED
      BY <3>1
  <2>4. ReadSoFar' = 0 /\ DueItems' = DueItems
    BY <2>1, <2>2 DEF ReadSoFar, DueItems
  <2>5. \A i \in 1..due' : batch'[i] \in DueItems'
    BY <2>1, <2>2, <2>4
  <2>6. QED
    BY <2>1, <2>2, <2>3, <2>4, <2>5 DEF PromotionInv
<1>4. ASSUME ScanItem PROVE PromotionInv'
  <2> DEFINE k == ReadSoFar + 1
             x == batch[k]
  <2>1. /\ room > 0 /\ room' = room /\ batch' = batch /\ due' = due
        /\ ReadSoFar' = k /\ DueItems' = DueItems /\ k \in 1..Len(batch)
    <3>1. ReadSoFar' = Len(batch') - Len(unread')
      BY DEF ReadSoFar
    <3>2. QED
      BY <1>4, <3>1, ScanItemReads DEF DueItems
  <2>2. \/ /\ x \in DueItems /\ Len(promoted) < room
           /\ promoted' = Append(promoted, x) /\ remaining' = remaining
        \/ /\ x \notin DueItems \/ Len(promoted) >= room
           /\ remaining' = Append(remaining, x) /\ promoted' = promoted
    BY <1>4, ScanItemReads
  <2>3. /\ batch \in Seq(BatchRequest) /\ Once(batch) /\ Len(batch) \in Nat
        /\ promoted \in Seq(BatchRequest) /\ remaining \in Seq(BatchRequest)
        /\ Len(promoted) \in Nat /\ Len(remaining) \in Nat /\ ReadSoFar \in Nat
        /\ room \in Nat
    BY <2>1, ListsType DEF QueueInv
  <2>4. /\ Len(promoted) <= room /\ Range(promoted) \subseteq DueItems
        /\ due \in 0..Len(batch) /\ (\A i \in 1..due : batch[i] \in DueItems)
        /\ \A i \in 1..due :
             i <= ReadSoFar /\ (i <= room \/ Len(promoted) < room) => batch[i] \in Range(promoted)
        /\ \A m \in 1..Len(promoted), i \in 1..due : promoted[m] = batch[i] => m = i
        /\ (\A m \in 1..Len(promoted) : \E i \in 1..due : promoted[m] = batch[i]) =>
             \A n \in 1..Len(remaining) : remaining[n] = batch[Len(promoted) + n]
    BY <2>1 DEF QueueInv, PromotionInv
  <2>5. Len(promoted) + Len(remaining) = ReadSoFar
    BY <2>1 DEF QueueInv, ScanInv
  <2>6. x \in BatchRequest
    BY <2>1, <2>3, InRange
  <2>7. k <= due /\ Len(promoted) < room => Len(promoted) = ReadSoFar /\ Len(remaining) = 0
    <3>1. k <= due => ReadSoFar <= due
      BY <2>3, <2>4
    <3>2. QED
      BY <2>1, <3>1, DuePromotedInOrder
  <2>8. k = ReadSoFar + 1 /\ x = batch[k]
    OBVIOUS
  <2> HIDE DEF k, x
  <2>9. CASE /\ x \in DueItems /\ Len(promoted) < room
             /\ promoted' = Append(promoted, x) /\ remaining' = remaining
    <3>1. /\ Len(promoted') = Len(promoted) + 1
          /\ \A m \in 1..Len(promoted) : promoted'[m] = promoted[m]
          /\ promoted'[Len(promoted) + 1] = x
          /\ promoted' \in Seq(BatchRequest)
      BY <2>3, <2>6, <2>9, AppendProperties
    <3>2. Range(promoted') = Range(promoted) \cup {x}
      <4>1. /\ \A y : y \in Range(promoted) <=> \E i \in 1..Len(promoted) : promoted[i] = y
            /\ \A y : y \in Range(promoted') <=> \E i \in 1..Len(promoted') : promoted'[i] = y
        BY <2>3, <3>1, InRange
      <4>2. \A y : y \in Range(promoted') <=> y \in Range(promoted) \/ y = x
        BY <2>3, <3>1, <4>1
      <4>3. QED
        BY <4>2
    <3>3. Len(promoted') <= room' /\ Range(promoted') \subseteq DueItems'
      BY <2>1, <2>3, <2>4, <2>9, <3>1, <3>2
    <3>4. ASSUME NEW i \in 1..due, i <= k,
                 i <= room \/ Len(promoted') < room
          PROVE  batch[i] \in Range(promoted')
      <4>1. CASE i = k
        BY <2>8, <3>2, <4>1
      <4>2. CASE i <= ReadSoFar
        BY <2>4, <2>9, <3>2, <4>2
      <4>3. QED
        BY <2>3, <2>4, <2>8, <3>4, <4>1, <4>2
    <3>5. ASSUME NEW m \in 1..Len(promoted'), NEW i \in 1..due, promoted'[m] = batch[i]
          PROVE  m = i
      <4>1. CASE m \in 1..Len(promoted)
        BY <2>4, <3>1, <3>5, <4>1
      <4>2. CASE m = Len(promoted) + 1
        <5>1. batch[i] = batch[k] /\ i \in 1..Len(batch)
          BY <2>3, <2>4, <2>8, <3>1, <3>5, <4>2
        <5>2. i = k
          BY <2>1, <5>1, <2>3 DEF Once
        <5>3. k <= due
          BY <2>4, <5>2
        <5>4. QED
          BY <2>7, <2>8, <2>9, <4>2, <5>2, <5>3
      <4>3. m \in 1..(Len(promoted) + 1)
        BY <3>1
      <4>4. QED
        BY <2>3, <4>1, <4>2, <4>3
    <3>6. ASSUME \A m \in 1..Len(promoted') : \E i \in 1..due : promoted'[m] = batch[i]
          PROVE  Len(remaining') = 0
      <4>1. Len(promoted) + 1 \in 1..Len(promoted')
        BY <2>3, <3>1
      <4>2. PICK i \in 1..due : promoted'[Len(promoted) + 1] = batch[i]
        BY <3>6, <4>1
      <4>3. batch[k] = batch[i] /\ i \in 1..Len(batch) /\ i <= due
        BY <2>3, <2>4, <2>8, <3>1, <4>2
      <4>4. k = i
        BY <2>1, <2>3, <4>3 DEF Once
      <4>5. QED
        BY <2>7, <2>9, <4>3, <4>4
    <3>7. (\A m \in 1..Len(promoted') : \E i \in 1..due : promoted'[m] = batch[i]) =>
             \A n \in 1..Len(remaining') : remaining'[n] = batch[Len(promoted') + n]
      BY <3>6
    <3>8. QED
      BY <2>1, <2>4, <3>3, <3>4, <3>5, <3>7 DEF PromotionInv
  <2>10. CASE /\ x \notin DueItems \/ Len(promoted) >= room
              /\ remaining' = Append(remaining, x) /\ promoted' = promoted
    <3>1. /\ Len(remaining') = Len(remaining) + 1
          /\ \A m \in 1..Len(remaining) : remaining'[m] = remaining[m]
          /\ remaining'[Len(remaining) + 1] = x
      BY <2>3, <2>6, <2>10, AppendProperties
    <3>2. ASSUME NEW i \in 1..due, i <= k, i <= room \/ Len(promoted) < room
          PROVE  batch[i] \in Range(promoted)
      <4>1. CASE i = k
        <5>1. x \in DueItems
          BY <2>4, <2>8, <4>1
        <5>2. Len(promoted) >= room /\ i <= room
          BY <2>3, <2>10, <3>2, <5>1
        <5>3. Len(promoted) <= ReadSoFar /\ i = ReadSoFar + 1
          BY <2>3, <2>5, <2>8, <4>1
        <5>4. QED
          BY <2>3, <5>2, <5>3
      <4>2. CASE i <= ReadSoFar
        BY <2>4, <3>2, <4>2
      <4>3. QED
        BY <2>3, <2>4, <2>8, <3>2, <4>1, <4>2
    <3>3. ASSUME \A m \in 1..Len(promoted) : \E i \in 1..due : promoted[m] = batch[i],
                 NEW n \in 1..Len(remaining')
          PROVE  remaining'[n] = batch[Len(promoted) + n]
      <4>1. CASE n \in 1..Len(remaining)
        BY <2>4, <3>1, <3>3, <4>1
      <4>2. CASE n = Len(remaining) + 1
        <5>1. Len(promoted) + n = k
          BY <2>3, <2>5, <2>8, <4>2
        <5>2. QED
          BY <2>8, <3>1, <4>2, <5>1
      <4>3. n \in 1..(Len(remaining) + 1)
        BY <3>1
      <4>4. QED
        BY <2>3, <4>1, <4>2, <4>3
    <3>4. \A i \in 1..due :
             i <= k /\ (i <= room \/ Len(promoted) < room) => batch[i] \in Range(promoted)
      BY <3>2
    <3>5. (\A m \in 1..Len(promoted) : \E i \in 1..due : promoted[m] = batch[i]) =>
             \A n \in 1..Len(remaining') : remaining'[n] = batch[Len(promoted) + n]
      BY <3>3
    <3>6. QED
      BY <2>1, <2>4, <2>10, <3>4, <3>5 DEF PromotionInv
  <2>11. QED
    BY <2>2, <2>9, <2>10
<1>5. ASSUME Tick PROVE PromotionInv'
  <2>1. /\ batch' = batch /\ UNCHANGED scan
        /\ age' = [y \in BatchRequest |->
             IF y \in Range(batch) /\ age[y] < PromotionThreshold THEN age[y] + 1
             ELSE age[y]]
    BY <1>5 DEF Tick, deques
  <2>2. /\ batch \in Seq(BatchRequest) /\ age \in [BatchRequest -> Nat]
        /\ Range(batch) \subseteq BatchRequest
    <3>1. batch \in Seq(BatchRequest) /\ age \in [BatchRequest -> Nat]
      BY DEF QueueInv, DequesInv
    <3>2. QED
      BY <3>1, InRange
  <2>3. ASSUME NEW y \in DueItems PROVE y \in DueItems'
    <3>1. y \in Range(batch) /\ y \in BatchRequest /\ age[y] >= PromotionThreshold
      BY <2>2 DEF DueItems
    <3>2. age'[y] = age[y]
      BY <2>1, <2>2, <3>1, ThresholdIsPositive
    <3>3. QED
      BY <2>1, <3>1, <3>2 DEF DueItems
  <2>4. QED
    BY <1>2, <2>1, <2>3
<1>6. ASSUME UNCHANGED vars PROVE PromotionInv'
  BY <1>2, <1>6 DEF vars, deques, DueItems
<1>7. ASSUME NEW r \in InteractiveRequest, ArriveInteractive(r) PROVE PromotionInv'
  BY <1>1, <1>7 DEF ArriveInteractive, scan
<1>8. ASSUME NEW b \in BatchRequest, ArriveBatch(b) PROVE PromotionInv'
  BY <1>1, <1>8 DEF ArriveBatch, scan
<1>9. ASSUME Fill PROVE PromotionInv'
  BY <1>1, <1>9 DEF Fill
<1>10. QED
  BY <1>3, <1>4, <1>5, <1>6, <1>7, <1>8, <1>9 DEF Next, Collect

\* The three invariants hold from the start on.
THEOREM QueueInvHolds == Spec => []QueueInv
<1>1. Init => QueueInv
  <2> SUFFICES ASSUME Init PROVE QueueInv
    OBVIOUS
  <2>1. <<>> \in Seq(InteractiveRequest) /\ <<>> \in Seq(BatchRequest) /\ Len(<<>>) = 0
    BY EmptySeq
  <2>2. DequesInv
    BY <2>1 DEF Init, DequesInv, Once
  <2>3. ScanInv /\ PromotionInv
    BY BatchSizeIsPositive DEF Init, ScanInv, PromotionInv
  <2>4. QED
    BY <2>2, <2>3 DEF QueueInv
<1>2. QueueInv /\ [Next]_vars => QueueInv'
  BY DequesHold, ScanHolds, PromotionHolds DEF QueueInv
<1>3. QED
  BY <1>1, <1>2, PTL DEF Spec

-----------------------------------------------------------------------------
(* What a collection does. *)

\* At the end of a scan everything in the deque is on one of the lists.
LEMMA ScanIsDone ==
  ASSUME QueueInv, Fill
  PROVE  /\ Range(batch) = Range(promoted) \cup Range(remaining)
         /\ Range(promoted) \cap Range(remaining) = {}
         /\ Range(interactive) \subseteq InteractiveRequest
         /\ Range(batch) \subseteq BatchRequest
<1>1. room > 0 /\ ReadSoFar = Len(batch)
  BY FillTakes
<1>2. /\ batch \in Seq(BatchRequest) /\ interactive \in Seq(InteractiveRequest)
      /\ promoted \in Seq(BatchRequest) /\ remaining \in Seq(BatchRequest)
      /\ Len(batch) \in Nat
  BY <1>1, ListsType DEF QueueInv, DequesInv
<1>3. /\ \A m \in 1..Len(promoted), n \in 1..Len(remaining) : promoted[m] # remaining[n]
      /\ \A i \in 1..Len(batch) : batch[i] \in Range(promoted) \cup Range(remaining)
      /\ Range(promoted) \cup Range(remaining) \subseteq Range(batch)
  BY <1>1, <1>2 DEF QueueInv, ScanInv
<1>4. /\ \A x : x \in Range(batch) <=> \E i \in 1..Len(batch) : batch[i] = x
      /\ \A i \in 1..Len(batch) : batch[i] \in BatchRequest
      /\ \A x : x \in Range(interactive)
                  <=> \E i \in 1..Len(interactive) : interactive[i] = x
      /\ \A i \in 1..Len(interactive) : interactive[i] \in InteractiveRequest
      /\ \A x : x \in Range(promoted) <=> \E i \in 1..Len(promoted) : promoted[i] = x
      /\ \A x : x \in Range(remaining) <=> \E i \in 1..Len(remaining) : remaining[i] = x
  BY <1>2, InRange
<1>5. QED
  BY <1>3, <1>4

\* Where nobody is in a deque twice, cutting it leaves each item on one side.
LEMMA CutDivides ==
  ASSUME NEW S, NEW s \in Seq(S), NEW n \in 0..Len(s), Once(s)
  PROVE  /\ Range(SubSeq(s, n + 1, Len(s))) = Range(s) \ Range(SubSeq(s, 1, n))
         /\ Range(SubSeq(s, 1, n)) \subseteq Range(s)
         /\ IsFiniteSet(Range(SubSeq(s, 1, n)))
         /\ Cardinality(Range(SubSeq(s, 1, n))) \in 0..n
<1> DEFINE front == SubSeq(s, 1, n)
           back == SubSeq(s, n + 1, Len(s))
<1>1. /\ \A x : x \in Range(front) <=> \E i \in 1..n : s[i] = x
      /\ \A x : x \in Range(back) <=> \E i \in (n + 1)..Len(s) : s[i] = x
      /\ \A x : x \in Range(s) <=> \E i \in 1..Len(s) : s[i] = x
      /\ Len(s) \in Nat
  BY CutRange, InRange
<1>2. front \in Seq(S) /\ Len(front) = n
  BY CutType
<1>3. IsFiniteSet(Range(front)) /\ Cardinality(Range(front)) \in 0..n
  BY <1>2, RangeSize
<1> HIDE DEF front, back
<1>4. \A i \in 1..Len(s) : i \in 1..n \/ i \in (n + 1)..Len(s)
  BY <1>1
<1>5. /\ \A i \in 1..n : i \in 1..Len(s)
      /\ \A i \in (n + 1)..Len(s) : i \in 1..Len(s) /\ i \notin 1..n
  BY <1>1
<1>6. \A x : x \in Range(back) <=> x \in Range(s) /\ x \notin Range(front)
  BY <1>1, <1>4, <1>5 DEF Once
<1>7. \A x : x \in Range(front) => x \in Range(s)
  BY <1>1, <1>5
<1>8. Range(back) = Range(s) \ Range(front) /\ Range(front) \subseteq Range(s)
  BY <1>6, <1>7
<1>9. QED
  BY <1>3, <1>8 DEF front, back

LEMMA FillLosesNothing ==
  ASSUME QueueInv, Fill
  PROVE  LET left == Range(interactive') \cup Range(batch')
             all == Range(interactive) \cup Range(batch)
         IN  /\ pulled' = all \ left /\ left \subseteq all
             /\ Cardinality(pulled') <= room
             /\ \A x, y \in Range(batch') : Before(batch', x, y) => Before(batch, x, y)
<1> DEFINE a == FromInteractive
           b == FromRemaining
           A == Range(SubSeq(interactive, 1, a))
           B == Range(SubSeq(remaining, 1, b))
<1>1. /\ room > 0 /\ room \in Nat
      /\ a \in 0..Len(interactive) /\ b \in 0..Len(remaining)
      /\ Len(promoted) + a + b <= room
      /\ interactive' = SubSeq(interactive, a + 1, Len(interactive))
      /\ batch' = SubSeq(remaining, b + 1, Len(remaining))
      /\ pulled' = Range(promoted) \cup A \cup B
  BY FillTakes, ListsType DEF QueueInv
<1>2. /\ interactive \in Seq(InteractiveRequest) /\ Once(interactive)
      /\ remaining \in Seq(BatchRequest) /\ Once(remaining)
      /\ promoted \in Seq(BatchRequest) /\ Len(promoted) \in Nat
      /\ batch \in Seq(BatchRequest) /\ Len(batch) \in Nat /\ Len(remaining) \in Nat
      /\ \A m \in 1..Len(remaining) : \E i \in 1..Len(batch) : remaining[m] = batch[i]
      /\ InBatchOrder(remaining)
  <2>1. ReadSoFar = Len(batch)
    BY FillTakes
  <2>2. QED
    BY <1>1, <2>1, ListsType DEF QueueInv, DequesInv, ScanInv
<1> HIDE DEF a, b
<1>3. /\ Range(interactive') = Range(interactive) \ A /\ A \subseteq Range(interactive)
      /\ IsFiniteSet(A) /\ Cardinality(A) \in 0..a
  BY <1>1, <1>2, CutDivides
<1>4. /\ Range(batch') = Range(remaining) \ B /\ B \subseteq Range(remaining)
      /\ IsFiniteSet(B) /\ Cardinality(B) \in 0..b
  BY <1>1, <1>2, CutDivides
<1>5. /\ IsFiniteSet(Range(promoted)) /\ Cardinality(Range(promoted)) \in 0..Len(promoted)
  BY <1>2, RangeSize
<1>6. /\ Range(batch) = Range(promoted) \cup Range(remaining)
      /\ Range(promoted) \cap Range(remaining) = {}
      /\ Range(interactive) \cap Range(batch) = {}
  BY ScanIsDone, PrioritiesDisjoint
<1>7. Cardinality(pulled') <= room
  <2>1. /\ IsFiniteSet(Range(promoted) \cup A)
        /\ Cardinality(Range(promoted) \cup A)
             = Cardinality(Range(promoted)) + Cardinality(A) - Cardinality(Range(promoted) \cap A)
    BY <1>3, <1>5, FS_Union
  <2>2. Cardinality(Range(promoted) \cap A) \in Nat
    BY <1>3, FS_Intersection, FS_CardinalityType
  <2>3. /\ IsFiniteSet((Range(promoted) \cup A) \cup B)
        /\ Cardinality((Range(promoted) \cup A) \cup B)
             = Cardinality(Range(promoted) \cup A) + Cardinality(B)
                 - Cardinality((Range(promoted) \cup A) \cap B)
    BY <1>4, <2>1, FS_Union
  <2>4. Cardinality((Range(promoted) \cup A) \cap B) \in Nat
    BY <1>4, FS_Intersection, FS_CardinalityType
  <2> DEFINE P == Range(promoted)
  <2> HIDE DEF A, B, P
  <2>5. /\ Cardinality(P) \in Int /\ Cardinality(A) \in Int /\ Cardinality(B) \in Int
        /\ Cardinality(P) <= Len(promoted) /\ Cardinality(A) <= a /\ Cardinality(B) <= b
    BY <1>1, <1>2, <1>3, <1>4, <1>5 DEF P
  <2>6. Cardinality(P \cup A) <= Len(promoted) + a
    <3>1. Cardinality(P \cup A) = Cardinality(P) + Cardinality(A) - Cardinality(P \cap A)
      BY <2>1 DEF P
    <3>2. Cardinality(P \cap A) \in Nat /\ Len(promoted) \in Nat /\ a \in Int
      BY <1>1, <1>2, <2>2 DEF P
    <3>3. QED
      BY <2>5, <3>1, <3>2
  <2>7. Cardinality(pulled') = Cardinality(P \cup A) + Cardinality(B) - Cardinality((P \cup A) \cap B)
    BY <1>1, <2>3 DEF P
  <2>8. /\ Cardinality((P \cup A) \cap B) \in Nat /\ Cardinality(P \cup A) \in Int
        /\ Len(promoted) \in Nat /\ a \in Int /\ b \in Int /\ room \in Int
        /\ Len(promoted) + a + b <= room
    <3>1. Cardinality(P \cup A) \in Int
      BY <2>1, FS_CardinalityType DEF P
    <3>2. QED
      BY <1>1, <1>2, <2>4, <3>1 DEF P
  <2>9. QED
    BY <2>5, <2>6, <2>7, <2>8
<1>8. ASSUME NEW x, NEW y, Before(batch', x, y) PROVE Before(batch, x, y)
  <2>0. PICK m \in 1..Len(batch') :
          \E n \in m+1..Len(batch') : batch'[m] = x /\ batch'[n] = y
    BY <1>8 DEF Before
  <2>1. PICK n \in m+1..Len(batch') : batch'[m] = x /\ batch'[n] = y
    BY <2>0
  <2>2. /\ Len(batch') = Len(remaining) - b
        /\ \A i \in 1..(Len(remaining) - b) : batch'[i] = remaining[b + i]
    BY <1>1, <1>2, CutType
  <2>3. /\ b + m \in 1..Len(remaining) /\ b + n \in 1..Len(remaining) /\ b + m < b + n
        /\ m \in 1..(Len(remaining) - b) /\ n \in 1..(Len(remaining) - b)
    BY <1>1, <1>2, <2>1, <2>2
  <2>4. remaining[b + m] = x /\ remaining[b + n] = y
    BY <2>1, <2>2, <2>3
  <2>5. PICK i \in 1..Len(batch) : remaining[b + m] = batch[i]
    BY <1>2, <2>3
  <2>6. PICK j \in 1..Len(batch) : remaining[b + n] = batch[j]
    BY <1>2, <2>3
  <2>7. i < j
    BY <1>2, <2>3, <2>5, <2>6 DEF InBatchOrder
  <2>8. j \in i+1..Len(batch)
    BY <1>2, <2>7
  <2>9. QED
    BY <2>4, <2>5, <2>6, <2>8 DEF Before
<1>9. /\ pulled' = (Range(interactive) \cup Range(batch)) \ (Range(interactive') \cup Range(batch'))
      /\ Range(interactive') \cup Range(batch') \subseteq Range(interactive) \cup Range(batch)
  <2> HIDE DEF A, B
  <2>1. QED
    BY <1>1, <1>3, <1>4, <1>6
<1>10. QED
  BY <1>7, <1>8, <1>9

\* ScanLosesNothing, for _collect_batch with priorities on: whatever comes due
\* during the scan, each request of the two deques is taken or left, never both
\* and never dropped, the batch is within max_size, and the batch deque that the
\* code rebuilds keeps its order.
THEOREM CollectionLosesNothing == Spec => ScanLosesNothing
<1>1. QueueInv /\ [Next]_vars =>
        [Fill =>
           LET left == Range(interactive') \cup Range(batch')
               all == Range(interactive) \cup Range(batch)
           IN  /\ pulled' = all \ left /\ left \subseteq all
               /\ Cardinality(pulled') <= room
               /\ \A x, y \in Range(batch') : Before(batch', x, y) => Before(batch, x, y)]_vars
  BY FillLosesNothing
<1>2. QED
  BY <1>1, QueueInvHolds, PTL DEF Spec, ScanLosesNothing

LEMMA FillKeepsTheTurn ==
  ASSUME QueueInv, Fill
  PROVE  /\ \A n \in 1..due : n <= room => batch[n] \in pulled'
         /\ \A x \in Range(batch'), y \in pulled' : Before(batch, x, y) =>
              /\ y \notin {batch[n] : n \in 1..due}
              /\ y \in DueItems
         /\ interactive' # <<>> => pulled' \cap BatchRequest \subseteq DueItems
<1> DEFINE a == FromInteractive
           b == FromRemaining
           A == Range(SubSeq(interactive, 1, a))
           B == Range(SubSeq(remaining, 1, b))
<1>1. /\ room > 0 /\ room \in Nat /\ ReadSoFar = Len(batch)
      /\ a \in 0..Len(interactive) /\ b \in 0..Len(remaining)
      /\ a < Len(interactive) => b = 0
      /\ interactive' = SubSeq(interactive, a + 1, Len(interactive))
      /\ batch' = SubSeq(remaining, b + 1, Len(remaining))
      /\ pulled' = Range(promoted) \cup A \cup B
  BY FillTakes, ListsType DEF QueueInv
<1>2. /\ interactive \in Seq(InteractiveRequest) /\ Once(interactive)
      /\ Len(interactive) \in Nat
      /\ remaining \in Seq(BatchRequest) /\ Once(remaining) /\ Len(remaining) \in Nat
      /\ promoted \in Seq(BatchRequest) /\ Len(promoted) \in Nat
      /\ batch \in Seq(BatchRequest) /\ Len(batch) \in Nat /\ Once(batch)
      /\ InBatchOrder(remaining)
  BY <1>1, ListsType, InRange DEF QueueInv, DequesInv, ScanInv
<1>3. /\ Len(promoted) <= room /\ Range(promoted) \subseteq DueItems
      /\ due \in 0..Len(batch)
      /\ \A i \in 1..due :
           i <= ReadSoFar /\ (i <= room \/ Len(promoted) < room) => batch[i] \in Range(promoted)
      /\ \A m \in 1..Len(promoted), i \in 1..due : promoted[m] = batch[i] => m = i
  BY <1>1 DEF QueueInv, PromotionInv
<1>4. /\ Range(promoted) \cap Range(remaining) = {}
      /\ Range(interactive) \subseteq InteractiveRequest
      /\ Range(interactive) \cap BatchRequest = {}
      /\ Range(batch) \subseteq BatchRequest
  BY ScanIsDone, PrioritiesDisjoint
<1> HIDE DEF a, b
<1>5. /\ A \subseteq Range(interactive)
      /\ \A x : x \in B <=> \E i \in 1..b : remaining[i] = x
      /\ \A x : x \in Range(batch') <=> \E i \in (b + 1)..Len(remaining) : remaining[i] = x
      /\ Range(batch') \subseteq Range(remaining)
  <2>1. A \subseteq Range(interactive)
    BY <1>1, <1>2, CutDivides
  <2>2. /\ \A x : x \in B <=> \E i \in 1..b : remaining[i] = x
        /\ \A x : x \in Range(batch') <=> \E i \in (b + 1)..Len(remaining) : remaining[i] = x
    BY <1>1, <1>2, CutRange
  <2>3. Range(batch') \subseteq Range(remaining)
    BY <1>1, <1>2, CutDivides
  <2>4. QED
    BY <2>1, <2>2, <2>3
<1>6. ASSUME NEW n \in 1..due, n <= room PROVE batch[n] \in pulled'
  <2>1. n <= ReadSoFar
    BY <1>1, <1>2, <1>3
  <2>2. batch[n] \in Range(promoted)
    BY <1>3, <1>6, <2>1
  <2>3. QED
    BY <1>1, <2>2
<1>7. ASSUME NEW x \in Range(batch'), NEW y \in pulled', Before(batch, x, y)
      PROVE  y \notin {batch[n] : n \in 1..due} /\ y \in DueItems
  <2>1. PICK i \in 1..Len(batch) : \E j \in i+1..Len(batch) : batch[i] = x /\ batch[j] = y
    BY <1>7 DEF Before
  <2>2. PICK j \in i+1..Len(batch) : batch[i] = x /\ batch[j] = y
    BY <2>1
  <2>3. j \in 1..Len(batch) /\ i < j
    BY <1>2, <2>2
  <2>4. y \notin A
    BY <1>2, <1>4, <1>5, <2>2, <2>3, InRange
  <2>5. y \notin B
    <3> SUFFICES ASSUME y \in B PROVE FALSE
      OBVIOUS
    <3>1. PICK q \in 1..b : remaining[q] = y
      BY <1>5
    <3>2. PICK p \in (b + 1)..Len(remaining) : remaining[p] = x
      BY <1>5, <1>7
    <3>3. q \in 1..Len(remaining) /\ p \in 1..Len(remaining) /\ q < p
      BY <1>1, <1>2, <3>1, <3>2
    <3>4. j < i
      BY <1>2, <2>2, <2>3, <3>1, <3>2, <3>3 DEF InBatchOrder
    <3>5. QED
      BY <1>2, <2>3, <3>4
  <2>6. y \in Range(promoted)
    BY <1>1, <2>4, <2>5
  <2>7. ASSUME NEW n \in 1..due, y = batch[n] PROVE FALSE
    <3>1. n \in 1..Len(batch)
      BY <1>2, <1>3
    <3>2. n = j
      BY <1>2, <2>2, <2>3, <2>7, <3>1 DEF Once
    <3>3. PICK m \in 1..Len(promoted) : promoted[m] = y
      BY <1>2, <2>6, InRange
    <3>4. m = n
      BY <1>3, <2>7, <3>3
    <3>5. i \in 1..due /\ i <= room /\ i <= ReadSoFar
      BY <1>1, <1>2, <1>3, <2>3, <3>2, <3>3, <3>4
    <3>6. x \in Range(promoted)
      BY <1>3, <2>2, <3>5
    <3>7. QED
      BY <1>4, <1>5, <1>7, <3>6
  <2>8. QED
    BY <1>3, <2>6, <2>7
<1>8. ASSUME interactive' # <<>> PROVE pulled' \cap BatchRequest \subseteq DueItems
  <2>1. Len(SubSeq(interactive, a + 1, Len(interactive))) = Len(interactive) - a
    BY <1>1, <1>2, CutType
  <2>2. /\ SubSeq(interactive, a + 1, Len(interactive)) \in Seq(InteractiveRequest)
        /\ SubSeq(interactive, a + 1, Len(interactive)) # <<>>
    BY <1>1, <1>2, <1>8, CutType
  <2>3. Len(SubSeq(interactive, a + 1, Len(interactive))) # 0
    BY <2>2, EmptySeq
  <2>4. b = 0
    BY <1>1, <1>2, <2>1, <2>3
  <2>5. B = {}
    BY <1>5, <2>4
  <2>6. QED
    BY <1>1, <1>3, <1>4, <1>5, <2>5
<1>9. QED
  BY <1>6, <1>7, <1>8

\* DueItemsKeepTheirTurn, for the same scan: time that passes between two reads
\* makes no item that was due before it wait, lets only items that came due
\* meanwhile overtake, and never fills the batch with an item that is not due
\* while an interactive request stays behind.
THEOREM DueItemsAreServedFirst == Spec => DueItemsKeepTheirTurn
<1>1. QueueInv /\ [Next]_vars =>
        [Fill =>
           /\ \A n \in 1..due : n <= room => batch[n] \in pulled'
           /\ \A x \in Range(batch'), y \in pulled' : Before(batch, x, y) =>
                /\ y \notin {batch[n] : n \in 1..due}
                /\ y \in DueItems
           /\ interactive' # <<>> => pulled' \cap BatchRequest \subseteq DueItems]_vars
  BY FillKeepsTheTurn
<1>2. QED
  BY <1>1, QueueInvHolds, PTL DEF Spec, DueItemsKeepTheirTurn

\* When no item came due during the scan, the promoted items are the first of
\* the deque, as many as were due and fit.
LEMMA PromotedAreFirst ==
  ASSUME QueueInv, Fill, due = Cardinality(DueItems)
  PROVE  /\ Len(promoted) = Least(due, room)
         /\ Len(promoted) + Len(remaining) = Len(batch)
         /\ \A m \in 1..Len(promoted) : promoted[m] = batch[m]
         /\ \A n \in 1..Len(remaining) : remaining[n] = batch[Len(promoted) + n]
<1>1. /\ room > 0 /\ room \in Nat /\ ReadSoFar = Len(batch)
      /\ promoted \in Seq(BatchRequest) /\ Len(promoted) \in Nat
      /\ batch \in Seq(BatchRequest) /\ Len(batch) \in Nat
      /\ \A m \in 1..Len(promoted) : \E i \in 1..ReadSoFar : promoted[m] = batch[i]
  BY FillTakes, ListsType DEF QueueInv
<1>2. /\ Len(promoted) <= room /\ Range(promoted) \subseteq DueItems
      /\ due \in 0..Len(batch)
      /\ \A i \in 1..due :
           i <= ReadSoFar /\ (i <= room \/ Len(promoted) < room) => batch[i] \in Range(promoted)
      /\ \A m \in 1..Len(promoted), i \in 1..due : promoted[m] = batch[i] => m = i
      /\ (\A m \in 1..Len(promoted) : \E i \in 1..due : promoted[m] = batch[i]) =>
           \A n \in 1..Len(remaining) : remaining[n] = batch[Len(promoted) + n]
  BY <1>1 DEF QueueInv, PromotionInv
<1>3. \A i \in 1..Len(batch) : batch[i] \in DueItems <=> i <= due
  BY DueItemsAreFirst DEF QueueInv
<1>4. \A m \in 1..Len(promoted) : \E i \in 1..due : promoted[m] = batch[i]
  <2> SUFFICES ASSUME NEW m \in 1..Len(promoted)
               PROVE  \E i \in 1..due : promoted[m] = batch[i]
    OBVIOUS
  <2>1. PICK i \in 1..Len(batch) : promoted[m] = batch[i]
    BY <1>1
  <2>2. promoted[m] \in DueItems
    BY <1>1, <1>2, InRange
  <2>3. i \in 1..due
    BY <1>2, <1>3, <2>1, <2>2
  <2>4. QED
    BY <2>1, <2>3
<1>5. \A m \in 1..Len(promoted) : promoted[m] = batch[m] /\ m <= due
  BY <1>2, <1>4
<1>6. Len(promoted) <= due
  <2>1. CASE Len(promoted) = 0
    BY <1>2, <2>1
  <2>2. CASE Len(promoted) > 0
    <3>1. Len(promoted) \in 1..Len(promoted)
      BY <1>1, <2>2
    <3>2. QED
      BY <1>5, <3>1
  <2>3. QED
    BY <1>1, <2>1, <2>2
<1>7. ASSUME Len(promoted) < room PROVE due <= Len(promoted)
  <2>1. CASE due = 0
    BY <1>1, <2>1
  <2>2. CASE due > 0
    <3>1. due \in 1..due /\ due <= ReadSoFar
      BY <1>1, <1>2, <2>2
    <3>2. batch[due] \in Range(promoted)
      BY <1>2, <1>7, <3>1
    <3>3. PICK m \in 1..Len(promoted) : promoted[m] = batch[due]
      <4>1. \A x : x \in Range(promoted) <=> \E i \in 1..Len(promoted) : promoted[i] = x
        BY <1>1, InRange
      <4>2. QED
        BY <3>2, <4>1
    <3>4. m = due
      BY <1>2, <3>1, <3>3
    <3>5. QED
      BY <1>1, <3>3, <3>4
  <2>3. QED
    BY <1>2, <2>1, <2>2
<1>8. Len(promoted) = Least(due, room)
  BY <1>1, <1>2, <1>6, <1>7 DEF Least
<1>9. Len(promoted) + Len(remaining) = Len(batch)
  BY <1>1 DEF QueueInv, ScanInv
<1>10. QED
  BY <1>2, <1>4, <1>5, <1>8, <1>9

LEMMA FillIsOneStep ==
  ASSUME QueueInv, [Next]_vars, Fill, due = Cardinality(DueItems)
  PROVE  Queue!CollectBatch(room)
<1> DEFINE a == FromInteractive
           b == FromRemaining
           p == Len(promoted)
           t == p + b
<1>1. /\ room > 0 /\ room \in Nat /\ age' = age
      /\ a \in 0..Len(interactive) /\ b \in 0..Len(remaining) /\ p <= room
      /\ interactive' = SubSeq(interactive, a + 1, Len(interactive))
      /\ batch' = SubSeq(remaining, b + 1, Len(remaining))
      /\ pulled' = Range(promoted) \cup Range(SubSeq(interactive, 1, a))
                     \cup Range(SubSeq(remaining, 1, b))
      /\ pulled = {}
  <2>1. room > 0
    BY FillTakes
  <2>2. pulled = {} /\ room \in Nat
    BY <2>1, ListsType DEF QueueInv, ScanInv
  <2>3. QED
    BY <2>2, FillTakes
<1>2. /\ batch \in Seq(BatchRequest) /\ remaining \in Seq(BatchRequest)
      /\ interactive \in Seq(InteractiveRequest) /\ promoted \in Seq(BatchRequest)
      /\ Len(batch) \in Nat /\ Len(remaining) \in Nat /\ Len(interactive) \in Nat /\ p \in Nat
      /\ due \in 0..Len(batch)
  BY <1>1, ListsType, InRange DEF QueueInv, DequesInv, PromotionInv
<1>3. /\ p = Least(due, room) /\ p + Len(remaining) = Len(batch)
      /\ \A m \in 1..p : promoted[m] = batch[m]
      /\ \A n \in 1..Len(remaining) : remaining[n] = batch[p + n]
  BY PromotedAreFirst
<1>4. /\ a = Least(room - p, Len(interactive))
      /\ b = Least(room - p - a, Len(remaining))
  BY DEF FromInteractive, FromRemaining
<1> HIDE DEF a, b, p, t
<1>5. Queue!TakeInteractive(room) = a
  <2>1. Queue!TakeInteractive(room)
          = Queue!Least(Len(interactive), room - Queue!Least(Cardinality(DueItems), room))
    BY DEF Queue!TakeInteractive
  <2>2. Queue!Least(due, room) = p
    BY <1>3 DEF Least, Queue!Least
  <2>3. Queue!Least(Len(interactive), room - p) = Least(room - p, Len(interactive))
    <3>1. Len(interactive) \in Int /\ room - p \in Int
      BY <1>1, <1>2
    <3>2. QED
      BY <3>1 DEF Least, Queue!Least
  <2>4. QED
    BY <1>4, <2>1, <2>2, <2>3
<1>6. t \in 0..Len(batch) /\ t \in Nat
  BY <1>1, <1>2, <1>3 DEF t
<1>7. Queue!TakeBatch(room) = t
  <2>1. Queue!TakeBatch(room) = Queue!Least(Len(batch), room - a)
    BY <1>5 DEF Queue!TakeBatch
  <2>2. /\ Len(remaining) = Len(batch) - p
        /\ a \in Int /\ p \in Int /\ room \in Int /\ Len(batch) \in Int /\ Len(remaining) \in Int
    BY <1>1, <1>2, <1>3
  <2>3. Queue!Least(Len(batch), room - a) = p + Least(room - p - a, Len(remaining))
    BY <2>2 DEF Least, Queue!Least
  <2>4. QED
    BY <1>4, <2>1, <2>3 DEF t
<1>8. /\ SubSeq(batch, t + 1, Len(batch)) \in Seq(BatchRequest)
      /\ Len(SubSeq(batch, t + 1, Len(batch))) = Len(batch) - t
      /\ \A i \in 1..(Len(batch) - t) : SubSeq(batch, t + 1, Len(batch))[i] = batch[t + i]
  BY <1>2, <1>6, CutType
<1>9. /\ batch' \in Seq(BatchRequest) /\ Len(batch') = Len(batch) - t
      /\ \A i \in 1..(Len(batch) - t) : batch'[i] = batch[t + i]
  <2>1. /\ batch' \in Seq(BatchRequest) /\ Len(batch') = Len(remaining) - b
        /\ \A i \in 1..(Len(remaining) - b) : batch'[i] = remaining[b + i]
    BY <1>1, <1>2, CutType
  <2>2. Len(remaining) - b = Len(batch) - t
    BY <1>1, <1>2, <1>3 DEF t
  <2>3. ASSUME NEW i \in 1..(Len(remaining) - b) PROVE batch'[i] = batch[t + i]
    <3>1. b + i \in 1..Len(remaining) /\ p + (b + i) = t + i
      BY <1>1, <1>2 DEF t
    <3>2. QED
      BY <1>3, <2>1, <3>1
  <2>4. QED
    BY <2>1, <2>2, <2>3
<1>10. batch' = SubSeq(batch, t + 1, Len(batch))
  <2> DEFINE rest == SubSeq(batch, t + 1, Len(batch))
  <2>1. rest \in Seq(BatchRequest) /\ Len(rest) = Len(batch') /\ \A i \in 1..Len(batch') : batch'[i] = rest[i]
    BY <1>8, <1>9
  <2> HIDE DEF rest
  <2>2. batch' = rest
    BY <1>9, <2>1, SeqEqual
  <2>3. QED
    BY <2>2 DEF rest
<1>11. Range(promoted) \cup Range(SubSeq(remaining, 1, b)) = Range(SubSeq(batch, 1, t))
  <2>1. /\ \A x : x \in Range(promoted) <=> \E m \in 1..p : promoted[m] = x
        /\ \A x : x \in Range(SubSeq(remaining, 1, b)) <=> \E n \in 1..b : remaining[n] = x
        /\ \A x : x \in Range(SubSeq(batch, 1, t)) <=> \E i \in 1..t : batch[i] = x
    BY <1>1, <1>2, <1>6, InRange, CutRange DEF p
  <2>2. ASSUME NEW x, NEW i \in 1..t, batch[i] = x
        PROVE  x \in Range(promoted) \/ x \in Range(SubSeq(remaining, 1, b))
    <3>1. CASE i <= p
      <4>1. i \in 1..p /\ promoted[i] = x
        BY <1>2, <1>3, <2>2, <3>1
      <4>2. QED
        BY <2>1, <4>1
    <3>2. CASE i > p
      <4>1. i - p \in 1..b /\ i - p \in 1..Len(remaining) /\ p + (i - p) = i
        BY <1>1, <1>2, <3>2 DEF t
      <4>2. remaining[i - p] = x
        BY <1>3, <2>2, <4>1
      <4>3. QED
        BY <2>1, <4>1, <4>2
    <3>3. QED
      BY <1>2, <3>1, <3>2
  <2>3. ASSUME NEW x, NEW m \in 1..p, promoted[m] = x PROVE \E i \in 1..t : batch[i] = x
    <3>1. m \in 1..t /\ batch[m] = x
      BY <1>1, <1>2, <1>3, <2>3 DEF t
    <3>2. QED
      BY <3>1
  <2>4. ASSUME NEW x, NEW n \in 1..b, remaining[n] = x PROVE \E i \in 1..t : batch[i] = x
    <3>1. n \in 1..Len(remaining) /\ p + n \in 1..t
      BY <1>1, <1>2 DEF t
    <3>2. batch[p + n] = x
      BY <1>3, <2>4, <3>1
    <3>3. QED
      BY <3>1, <3>2
  <2>5. \A x : x \in Range(promoted) \/ x \in Range(SubSeq(remaining, 1, b))
                 <=> x \in Range(SubSeq(batch, 1, t))
    BY <2>1, <2>2, <2>3, <2>4
  <2>6. QED
    BY <2>5
<1>12. Cardinality(DueItems') = IF due <= t THEN 0 ELSE due - t
  <2> DEFINE c == Cardinality(DueItems')
  <2>1. DequesInv'
    BY DequesHold
  <2>2. /\ batch' \in Seq(BatchRequest) /\ Once(batch')
        /\ \A i, j \in 1..Len(batch') : i < j => age'[batch'[j]] <= age'[batch'[i]]
        /\ age' \in [BatchRequest -> Nat]
    BY <2>1 DEF DequesInv, Once
  <2>3. \A i \in 1..Len(batch') : age'[batch'[i]] \in Nat
    BY <2>2, InRange
  <2>4. DueItems' = {x \in Range(batch') : age'[x] >= PromotionThreshold}
    BY DEF DueItems
  <2>5. /\ c \in 0..Len(batch')
        /\ \A i \in 1..Len(batch') : batch'[i] \in DueItems' <=> i <= c
    BY <2>2, <2>3, <2>4, DueAreFirst
  <2>6. \A i \in 1..Len(batch) : batch[i] \in DueItems <=> i <= due
    BY DueItemsAreFirst DEF QueueInv
  <2>7. \A i \in 1..Len(batch') : i <= c <=> t + i <= due
    <3> SUFFICES ASSUME NEW i \in 1..Len(batch') PROVE i <= c <=> t + i <= due
      OBVIOUS
    <3>1. t + i \in 1..Len(batch) /\ batch'[i] = batch[t + i]
      BY <1>2, <1>6, <1>9
    <3>2. batch'[i] \in DueItems' <=> batch[t + i] \in DueItems
      <4>1. batch'[i] \in Range(batch') /\ batch[t + i] \in Range(batch)
        BY <1>2, <2>2, <3>1, InRange
      <4>2. QED
        BY <1>1, <3>1, <4>1 DEF DueItems
    <3>3. QED
      BY <2>5, <2>6, <3>1, <3>2
  <2> HIDE DEF c
  <2>8. /\ Len(batch') = Len(batch) - t /\ t \in 0..Len(batch) /\ Len(batch) \in Nat
        /\ due \in 0..Len(batch) /\ c \in 0..Len(batch')
    BY <1>2, <1>6, <1>9, <2>5 DEF c
  <2>9. CASE due <= t
    <3>1. c # 0 => 1 \in 1..Len(batch') /\ 1 <= c
      BY <2>8
    <3>2. c = 0
      BY <2>7, <2>8, <2>9, <3>1
    <3>3. QED
      BY <2>9, <3>2 DEF c
  <2>10. CASE due > t
    <3>1. due - t \in 1..Len(batch') /\ t + (due - t) <= due
      BY <2>8, <2>10
    <3>2. due - t <= c
      BY <2>7, <3>1
    <3>3. ASSUME c > due - t PROVE FALSE
      <4>1. c \in 1..Len(batch') /\ ~(t + c <= due) /\ c <= c
        BY <2>8, <2>10, <3>3
      <4>2. QED
        BY <2>7, <4>1
    <3>4. c = due - t /\ ~(due <= t)
      BY <2>8, <2>10, <3>2, <3>3
    <3>5. QED
      BY <3>4 DEF c
  <2>11. QED
    BY <2>8, <2>9, <2>10
<1>13. Queue!Collected(room) = Range(SubSeq(interactive, 1, a)) \cup Range(SubSeq(batch, 1, t))
  BY <1>5, <1>7 DEF Queue!Collected, Queue!Range, Range
<1>14. pulled' = pulled \cup Queue!Collected(room)
  BY <1>1, <1>11, <1>13
<1>15. /\ interactive' = Queue!Drop(interactive, Queue!TakeInteractive(room))
       /\ batch' = Queue!Drop(batch, Queue!TakeBatch(room))
  BY <1>1, <1>5, <1>7, <1>10 DEF Queue!Drop
<1>16. QED
  BY <1>7, <1>12, <1>14, <1>15 DEF Queue!CollectBatch

\* CollectsInOneStep, for the clock of _collect_batch: unless an item comes due
\* in the middle of a scan, reading the clock for every item does what
\* RequestQueue's one step with one clock does.
THEOREM CollectionIsOneStep == Spec => CollectsInOneStep
<1>1. QueueInv /\ [Next]_vars =>
        [Fill /\ due = Cardinality(DueItems) => Queue!CollectBatch(room)]_vars
  BY FillIsOneStep
<1>2. QED
  BY <1>1, QueueInvHolds, PTL DEF Spec, CollectsInOneStep
=============================================================================
