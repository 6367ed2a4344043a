------------------------- MODULE RequestQueueProofs -------------------------
(* Lemmas about the operators and the steps of RequestQueue. *)
EXTENDS RequestQueue, SequenceTheorems, FiniteSetTheorems, TLAPS

\* A set of requests is finite and has a size (RequestsFinite).
LEMMA SizeOfRequests ==
  ASSUME NEW S \in SUBSET Request
  PROVE  IsFiniteSet(S) /\ Cardinality(S) \in Nat
BY RequestsFinite, FS_Subset, FS_CardinalityType

\* There are n positions up to the n-th.
LEMMA IntervalSize ==
  ASSUME NEW n \in Nat
  PROVE  IsFiniteSet(1..n) /\ Cardinality(1..n) = n
<1>1. 1 \in Int /\ n \in Int
  OBVIOUS
<1>2. IsFiniteSet(1..n) /\ Cardinality(1..n) = IF 1 > n THEN 0 ELSE n - 1 + 1
  BY <1>1, FS_Interval, Zenon
<1>3. QED
  BY <1>2

\* Dropping the first n items of a deque leaves a deque that is n shorter.
LEMMA DropType ==
  ASSUME NEW S, NEW s \in Seq(S), NEW n \in 0..Len(s)
  PROVE  /\ Drop(s, n) \in Seq(S)
         /\ Len(Drop(s, n)) = Len(s) - n
         /\ \A i \in 1..(Len(s) - n) : Drop(s, n)[i] = s[n + i]
<1>1. Len(s) \in Nat /\ \A i \in 1..Len(s) : s[i] \in S
  BY LenProperties, ElementOfSeq
<1>2. \A i \in (n + 1)..Len(s) : s[i] \in S
  BY <1>1
<1>3. /\ SubSeq(s, n + 1, Len(s)) \in Seq(S)
      /\ Len(SubSeq(s, n + 1, Len(s)))
           = IF n + 1 <= Len(s) THEN Len(s) - (n + 1) + 1 ELSE 0
      /\ \A i \in 1..(Len(s) - (n + 1) + 1) :
           SubSeq(s, n + 1, Len(s))[i] = s[(n + 1) + i - 1]
  BY <1>1, <1>2, SubSeqProperties
<1>4. QED
  BY <1>1, <1>3 DEF Drop

\* The first n items of a deque, in their places.
LEMMA PrefixType ==
  ASSUME NEW S, NEW s \in Seq(S), NEW n \in 0..Len(s)
  PROVE  /\ SubSeq(s, 1, n) \in Seq(S)
         /\ Len(SubSeq(s, 1, n)) = n
         /\ \A i \in 1..n : SubSeq(s, 1, n)[i] = s[i]
<1>1. Len(s) \in Nat /\ \A i \in 1..n : s[i] \in S
  BY LenProperties, ElementOfSeq
<1>2. /\ SubSeq(s, 1, n) \in Seq(S)
      /\ Len(SubSeq(s, 1, n)) = IF 1 <= n THEN n - 1 + 1 ELSE 0
      /\ \A i \in 1..(n - 1 + 1) : SubSeq(s, 1, n)[i] = s[1 + i - 1]
  BY <1>1, SubSeqProperties
<1>3. QED
  BY <1>1, <1>2

\* Taking the first n items of a deque takes items of the deque.
LEMMA PrefixRange ==
  ASSUME NEW S, NEW s \in Seq(S), NEW n \in 0..Len(s)
  PROVE  Range(SubSeq(s, 1, n)) \subseteq S
BY PrefixType, RangeOfSeq

\* The FIFO rule takes no more of a deque than there is in it.
LEMMA FifoFirstSize ==
  ASSUME NEW s, NEW k, Len(s) \in Nat
  PROVE  Cardinality(FifoFirst(s, k)) \in 0..Len(s)
<1>1. IsFiniteSet(1..Len(s)) /\ Cardinality(1..Len(s)) = Len(s)
  BY IntervalSize
<1>2. FifoFirst(s, k) \in SUBSET (1..Len(s))
  BY DEF FifoFirst
<1>3. IsFiniteSet(FifoFirst(s, k)) /\ Cardinality(FifoFirst(s, k)) <= Len(s)
  BY <1>1, <1>2, FS_Subset
<1>4. QED
  BY <1>3, FS_CardinalityType

\* In both modes a collection takes a prefix of each deque.
LEMMA TakeType ==
  ASSUME QTypeOK, NEW k \in Nat
  PROVE  /\ TakeInteractive(k) \in 0..Len(interactive)
         /\ TakeBatch(k) \in 0..Len(batch)
<1>1. /\ Len(interactive) \in Nat /\ Len(batch) \in Nat
      /\ aged \in 0..Len(batch)
  BY LenProperties DEF QTypeOK
<1>2. CASE PriorityScheduling
  BY <1>1, <1>2 DEF TakeInteractive, TakeBatch, Least
<1>3. CASE ~PriorityScheduling
  BY <1>1, <1>3, FifoFirstSize DEF TakeInteractive, TakeBatch
<1>4. QED
  BY <1>2, <1>3

\* A collection keeps the deques, the promotion mark and the batch well formed.
LEMMA CollectType ==
  ASSUME QTypeOK, NEW k \in Nat, CollectBatch(k)
  PROVE  /\ interactive' \in Seq(InteractiveRequest)
         /\ batch' \in Seq(BatchRequest)
         /\ aged' \in 0..Len(batch')
         /\ pulled' \in SUBSET Request
<1>1. /\ TakeInteractive(k) \in 0..Len(interactive)
      /\ TakeBatch(k) \in 0..Len(batch)
      /\ interactive \in Seq(InteractiveRequest)
      /\ batch \in Seq(BatchRequest)
      /\ aged \in 0..Len(batch)
      /\ Len(batch) \in Nat
      /\ pulled \in SUBSET Request
  BY TakeType, LenProperties DEF QTypeOK
<1>2. interactive' \in Seq(InteractiveRequest)
  BY <1>1, DropType DEF CollectBatch
<1>3. batch' \in Seq(BatchRequest) /\ Len(batch') = Len(batch) - TakeBatch(k)
  BY <1>1, DropType DEF CollectBatch
<1>4. aged' \in 0..Len(batch')
  BY <1>1, <1>3 DEF CollectBatch
<1>5. Collected(k) \in SUBSET Request
  BY <1>1, PrefixRange DEF Collected, Request
<1>6. pulled' \in SUBSET Request
  BY <1>1, <1>5 DEF CollectBatch
<1>7. QED
  BY <1>2, <1>3, <1>4, <1>6

\* The queue for the lock stays a queue of tasks when a task joins it, when
\* its head leaves it, and when a task gives up its place and joins again.
LEMMA LockQueueType ==
  ASSUME lockq \in Seq(Task), NEW t \in Task
  PROVE  /\ Append(lockq, t) \in Seq(Task)
         /\ lockq # <<>> => Tail(lockq) \in Seq(Task)
         /\ \A n \in 1..Len(lockq) :
              SubSeq(lockq, 1, n - 1) \o Append(Drop(lockq, n), t) \in Seq(Task)
<1>1. Append(lockq, t) \in Seq(Task)
  BY AppendProperties
<1>2. lockq # <<>> => Tail(lockq) \in Seq(Task)
  BY HeadTailProperties
<1>3. ASSUME NEW n \in 1..Len(lockq)
      PROVE  SubSeq(lockq, 1, n - 1) \o Append(Drop(lockq, n), t) \in Seq(Task)
  <2>1. Len(lockq) \in Nat /\ \A i \in 1..(n - 1) : lockq[i] \in Task
    BY LenProperties, ElementOfSeq
  <2>2. SubSeq(lockq, 1, n - 1) \in Seq(Task)
    BY <2>1, SubSeqProperties
  <2>3. Drop(lockq, n) \in Seq(Task)
    BY <2>1, DropType
  <2>4. QED
    BY <2>2, <2>3, AppendProperties, ConcatProperties
<1>4. QED
  BY <1>1, <1>2, <1>3

\* A collection puts nothing into the deques.
LEMMA CollectAddsNothing ==
  ASSUME QTypeOK, NEW k \in Nat, CollectBatch(k), ~HasReady
  PROVE  ~HasReady'
<1>1. /\ TakeInteractive(k) \in 0..Len(interactive)
      /\ TakeBatch(k) \in 0..Len(batch)
  BY TakeType
<1>2. interactive = <<>> /\ batch = <<>> /\ Len(<<>>) = 0
  BY EmptySeq DEF HasReady
<1>3. /\ interactive \in Seq(InteractiveRequest)
      /\ batch \in Seq(BatchRequest)
  BY DEF QTypeOK
<1>4. interactive' \in Seq(InteractiveRequest) /\ Len(interactive') = 0
  <2>1. /\ interactive' = Drop(interactive, TakeInteractive(k))
        /\ Len(interactive) - TakeInteractive(k) = 0
    BY <1>1, <1>2 DEF CollectBatch
  <2>2. QED
    BY <1>1, <1>3, <2>1, DropType
<1>5. batch' \in Seq(BatchRequest) /\ Len(batch') = 0
  <2>1. /\ batch' = Drop(batch, TakeBatch(k))
        /\ Len(batch) - TakeBatch(k) = 0
    BY <1>1, <1>2 DEF CollectBatch
  <2>2. QED
    BY <1>1, <1>3, <2>1, DropType
<1>6. interactive' = <<>> /\ batch' = <<>>
  BY <1>4, <1>5, EmptySeq
<1>7. QED
  BY <1>6 DEF HasReady

\* Whoever joins the queue for the lock leaves its head in place.
LEMMA HeadOfAppend ==
  ASSUME NEW s \in Seq(Task), NEW t \in Task, s # <<>>
  PROVE  Append(s, t) # <<>> /\ Head(Append(s, t)) = Head(s)
<1>1. Head(Append(s, t)) = Head(s)
  BY HeadTailAppend
<1>2. Append(s, t) # <<>>
  BY AppendProperties
<1>3. QED
  BY <1>1, <1>2

-----------------------------------------------------------------------------
(* What is in a sequence, and in which order.                              *)

\* Joining the end of a sequence adds one element.
LEMMA RangeOfAppend ==
  ASSUME NEW S, NEW s \in Seq(S), NEW e \in S
  PROVE  Range(Append(s, e)) = Range(s) \cup {e}
<1> DEFINE a == Append(s, e)
<1>1. /\ a \in Seq(S) /\ Len(s) \in Nat
      /\ Len(a) = Len(s) + 1
      /\ \A i \in 1..Len(s) : a[i] = s[i]
      /\ a[Len(s) + 1] = e
  BY AppendProperties, LenProperties
<1> HIDE DEF a
<1>2. \A x : x \in Range(a) <=> \E i \in 1..Len(a) : a[i] = x
  BY <1>1, RangeEquality
<1>3. \A x : x \in Range(s) <=> \E i \in 1..Len(s) : s[i] = x
  BY RangeEquality
<1>4. ASSUME NEW x \in Range(a) PROVE x \in Range(s) \cup {e}
  <2>1. PICK i \in 1..(Len(s) + 1) : a[i] = x
    BY <1>1, <1>2
  <2>2. CASE i \in 1..Len(s)
    BY <1>1, <1>3, <2>1, <2>2
  <2>3. CASE i = Len(s) + 1
    BY <1>1, <2>1, <2>3
  <2>4. QED
    BY <1>1, <2>2, <2>3
<1>5. ASSUME NEW x \in Range(s) PROVE x \in Range(a)
  <2>1. PICK i \in 1..Len(s) : s[i] = x
    BY <1>3
  <2>2. i \in 1..Len(a) /\ a[i] = x
    BY <1>1, <2>1
  <2>3. QED
    BY <1>2, <2>2
<1>6. e \in Range(a)
  BY <1>1, <1>2
<1>7. QED
  BY <1>4, <1>5, <1>6 DEF a

\* Cutting s after position n splits its elements; both parts keep the order.
LEMMA RangeOfCut ==
  ASSUME NEW S, NEW s \in Seq(S), NEW n \in 0..Len(s)
  PROVE  /\ \A x : x \in Range(SubSeq(s, 1, n)) <=> \E i \in 1..n : s[i] = x
         /\ \A x : x \in Range(Drop(s, n)) <=> \E i \in (n + 1)..Len(s) : s[i] = x
         /\ Range(s) = Range(SubSeq(s, 1, n)) \cup Range(Drop(s, n))
<1>1. Len(s) \in Nat /\ \A i \in 1..Len(s) : s[i] \in S
  BY LenProperties, ElementOfSeq
<1>2. /\ SubSeq(s, 1, n) \in Seq(S)
      /\ Len(SubSeq(s, 1, n)) = n
      /\ \A i \in 1..n : SubSeq(s, 1, n)[i] = s[i]
  BY PrefixType
<1>3. \A x : x \in Range(SubSeq(s, 1, n)) <=> \E i \in 1..n : s[i] = x
  <2> DEFINE front == SubSeq(s, 1, n)
  <2>1. front \in Seq(S) /\ Len(front) = n /\ \A i \in 1..n : front[i] = s[i]
    BY <1>2
  <2> HIDE DEF front
  <2>2. \A x : x \in Range(front) <=> \E i \in 1..Len(front) : front[i] = x
    BY <2>1, RangeEquality
  <2>3. QED
    BY <2>1, <2>2 DEF front
<1>4. /\ Drop(s, n) \in Seq(S)
      /\ Len(Drop(s, n)) = Len(s) - n
      /\ \A i \in 1..(Len(s) - n) : Drop(s, n)[i] = s[n + i]
  BY DropType
<1>5. \A x : x \in Range(Drop(s, n)) <=> \E i \in 1..(Len(s) - n) : s[n + i] = x
  BY <1>4, RangeEquality
<1>6. ASSUME NEW x, NEW i \in (n + 1)..Len(s), s[i] = x PROVE x \in Range(Drop(s, n))
  <2>1. i - n \in 1..(Len(s) - n) /\ n + (i - n) = i
    BY <1>1
  <2>2. QED
    BY <1>5, <1>6, <2>1
<1>7. ASSUME NEW x, x \in Range(Drop(s, n)) PROVE \E i \in (n + 1)..Len(s) : s[i] = x
  <2>1. PICK i \in 1..(Len(s) - n) : s[n + i] = x
    BY <1>5, <1>7
  <2>2. n + i \in (n + 1)..Len(s)
    BY <1>1
  <2>3. QED
    BY <2>1, <2>2
<1>8. \A x : x \in Range(s) <=> \E i \in 1..Len(s) : s[i] = x
  BY RangeEquality
<1>9. Range(s) = Range(SubSeq(s, 1, n)) \cup Range(Drop(s, n))
  <2>1. ASSUME NEW x \in Range(s)
        PROVE  x \in Range(SubSeq(s, 1, n)) \cup Range(Drop(s, n))
    <3>1. PICK i \in 1..Len(s) : s[i] = x
      BY <1>8
    <3>2. i \in 1..n \/ i \in (n + 1)..Len(s)
      BY <1>1
    <3>3. QED
      BY <1>3, <1>6, <3>1, <3>2
  <2>2. ASSUME NEW x \in Range(SubSeq(s, 1, n)) \cup Range(Drop(s, n))
        PROVE  x \in Range(s)
    <3>1. PICK i \in 1..Len(s) : s[i] = x
      BY <1>1, <1>3, <1>7
    <3>2. QED
      BY <1>8, <3>1
  <2>3. QED
    BY <2>1, <2>2
<1>10. QED
  BY <1>3, <1>6, <1>7, <1>9

\* Releasing the lock drops its owner from the queue.
LEMMA TailIsDrop ==
  ASSUME NEW S, NEW s \in Seq(S), s # <<>>
  PROVE  /\ Tail(s) = Drop(s, 1) /\ 1 \in 0..Len(s)
         /\ Range(s) = {Head(s)} \cup Range(Tail(s))
<1>1. Len(s) \in Nat \ {0} /\ Head(s) = s[1]
  BY EmptySeq
<1>2. Tail(s) = Drop(s, 1)
  BY TailIsSubSeq DEF Drop
<1>3. 1 \in 0..Len(s)
  BY <1>1
<1>4. Range(s) = Range(SubSeq(s, 1, 1)) \cup Range(Drop(s, 1))
  BY <1>3, RangeOfCut
<1>5. Range(SubSeq(s, 1, 1)) = {s[1]}
  <2>1. \A x : x \in Range(SubSeq(s, 1, 1)) <=> \E i \in 1..1 : s[i] = x
    BY <1>3, RangeOfCut
  <2>2. QED
    BY <2>1
<1>6. QED
  BY <1>1, <1>2, <1>3, <1>4, <1>5

\* A sequence stays in order when its front is cut off; what is cut off comes
\* before the rest.
LEMMA OrderOfCut ==
  ASSUME NEW S, NEW s \in Seq(S), NEW n \in 0..Len(s), NEW number, InOrder(s, number)
  PROVE  /\ InOrder(SubSeq(s, 1, n), number) /\ InOrder(Drop(s, n), number)
         /\ \A q \in Range(SubSeq(s, 1, n)), r \in Range(Drop(s, n)) :
              q \in Request /\ r \in Request => number[q] < number[r]
<1>1. Len(s) \in Nat
  BY LenProperties
<1>2. /\ Len(Drop(s, n)) = Len(s) - n
      /\ \A i \in 1..(Len(s) - n) : Drop(s, n)[i] = s[n + i]
  BY DropType
<1>3. InOrder(Drop(s, n), number)
  <2>1. SUFFICES ASSUME NEW i \in 1..(Len(s) - n), NEW j \in 1..(Len(s) - n), i < j,
                        Drop(s, n)[i] \in Request, Drop(s, n)[j] \in Request
                 PROVE  number[Drop(s, n)[i]] < number[Drop(s, n)[j]]
    BY <1>2 DEF InOrder
  <2>2. n + i \in 1..Len(s) /\ n + j \in 1..Len(s) /\ n + i < n + j
    BY <1>1, <2>1
  <2>3. QED
    BY <1>2, <2>1, <2>2 DEF InOrder
<1>4. ASSUME NEW q \in Range(SubSeq(s, 1, n)), NEW r \in Range(Drop(s, n)),
             q \in Request, r \in Request
      PROVE  number[q] < number[r]
  <2>1. PICK i \in 1..n : s[i] = q
    BY RangeOfCut
  <2>2. PICK j \in (n + 1)..Len(s) : s[j] = r
    BY RangeOfCut
  <2>3. i \in 1..Len(s) /\ j \in 1..Len(s) /\ i < j
    BY <1>1
  <2>4. QED
    BY <1>4, <2>1, <2>2, <2>3 DEF InOrder
<1>5. InOrder(SubSeq(s, 1, n), number)
  <2>1. /\ Len(SubSeq(s, 1, n)) = n
        /\ \A i \in 1..n : SubSeq(s, 1, n)[i] = s[i] /\ i \in 1..Len(s)
    BY <1>1, PrefixType
  <2>2. QED
    BY <2>1 DEF InOrder
<1>6. QED
  BY <1>3, <1>4, <1>5

\* What joins the end after all the others leaves a sequence in order.
LEMMA OrderOfAppend ==
  ASSUME NEW S, NEW s \in Seq(S), NEW e \in S, NEW number, InOrder(s, number),
         e \in Request => \A q \in Request \cap Range(s) : number[q] < number[e]
  PROVE  InOrder(Append(s, e), number)
<1> DEFINE a == Append(s, e)
<1>1. /\ Len(s) \in Nat /\ Len(a) = Len(s) + 1
      /\ \A i \in 1..Len(s) : a[i] = s[i]
      /\ a[Len(s) + 1] = e
  BY AppendProperties, LenProperties
<1> HIDE DEF a
<1>2. SUFFICES ASSUME NEW i \in 1..(Len(s) + 1), NEW j \in 1..(Len(s) + 1), i < j,
                      a[i] \in Request, a[j] \in Request
               PROVE  number[a[i]] < number[a[j]]
  BY <1>1 DEF InOrder, a
<1>3. i \in 1..Len(s) /\ a[i] = s[i]
  BY <1>1, <1>2
<1>4. CASE j \in 1..Len(s)
  BY <1>1, <1>2, <1>3, <1>4 DEF InOrder
<1>5. CASE j = Len(s) + 1
  <2>1. s[i] \in Range(s)
    BY <1>3, RangeEquality
  <2>2. QED
    BY <1>1, <1>2, <1>3, <1>5, <2>1
<1>6. QED
  BY <1>1, <1>4, <1>5

\* The order goes by the numbers of the requests that are there.
LEMMA OrderKept ==
  ASSUME NEW S, NEW s \in Seq(S), NEW f, NEW g, InOrder(s, f),
         \A q \in Request \cap Range(s) : g[q] = f[q]
  PROVE  InOrder(s, g)
<1>1. \A i \in 1..Len(s) : s[i] \in Range(s)
  BY RangeEquality
<1>2. QED
  BY <1>1 DEF InOrder

-----------------------------------------------------------------------------
(* What a collection takes.                                                *)

\* A set of positions that holds, with each position, all those before it is
\* the first so many positions.
LEMMA InitialPositions ==
  ASSUME NEW L \in Nat, NEW D \in SUBSET (1..L), \A n \in D : \A m \in 1..n : m \in D
  PROVE  Cardinality(D) \in 0..L /\ D = 1..Cardinality(D)
<1>1. \A n \in Nat : IsFiniteSet(1..n) /\ Cardinality(1..n) = n
  BY IntervalSize
<1>2. IsFiniteSet(D) /\ Cardinality(D) <= L
  <2>1. IsFiniteSet(1..L) /\ Cardinality(1..L) = L
    BY <1>1
  <2>2. IsFiniteSet(D) /\ Cardinality(D) <= Cardinality(1..L)
    BY <2>1, FS_Subset, Zenon
  <2>3. QED
    BY <2>1, <2>2
<1>3. Cardinality(D) \in Nat
  BY <1>2, FS_CardinalityType
<1>4. \A n \in D : n \in 1..Cardinality(D)
  <2>1. TAKE n \in D
  <2>2. n \in Nat /\ 1..n \in SUBSET D
    OBVIOUS
  <2>3. Cardinality(1..n) <= Cardinality(D)
    BY <1>2, <2>2, FS_Subset
  <2>4. QED
    BY <1>1, <1>3, <2>2, <2>3
<1>5. D \in SUBSET (1..Cardinality(D))
  BY <1>4
<1>6. D = 1..Cardinality(D)
  BY <1>1, <1>3, <1>5, FS_Subset
<1>7. QED
  BY <1>2, <1>3, <1>6

\* The deques hold requests, each has a number, and so the set of those up to
\* one of them is finite and grows with the number.
LEMMA UpToGrows ==
  ASSUME QTypeOK, NEW q \in Request, NEW r \in Request, sequence[q] <= sequence[r]
  PROVE  /\ IsFiniteSet(UpTo(q)) /\ IsFiniteSet(UpTo(r))
         /\ UpTo(q) \in SUBSET UpTo(r)
         /\ Cardinality(UpTo(q)) \in Nat /\ Cardinality(UpTo(r)) \in Nat
         /\ Cardinality(UpTo(q)) <= Cardinality(UpTo(r))
<1>1. Range(interactive) \in SUBSET Request /\ Range(batch) \in SUBSET Request
  BY RangeOfSeq DEF QTypeOK, Request
<1>2. \A x \in Request : sequence[x] \in Nat
  BY DEF QTypeOK
<1>3. UpTo(q) \in SUBSET UpTo(r) /\ UpTo(r) \in SUBSET Request /\ UpTo(q) \in SUBSET Request
  BY <1>1, <1>2 DEF UpTo
<1>4. /\ IsFiniteSet(UpTo(q)) /\ IsFiniteSet(UpTo(r))
      /\ Cardinality(UpTo(q)) \in Nat /\ Cardinality(UpTo(r)) \in Nat
  BY <1>3, SizeOfRequests
<1>5. QED
  BY <1>3, <1>4, FS_Subset

\* Without priorities a collection takes what is first in a deque: what it
\* takes of it is among the first k arrivals, what it leaves is not.
LEMMA FifoFirstIsPrefix ==
  ASSUME QTypeOK, NEW s \in Seq(Request), InOrder(s, sequence), NEW k \in Nat
  PROVE  LET c == Cardinality(FifoFirst(s, k)) IN
         /\ c \in 0..Len(s)
         /\ \A n \in 1..Len(s) : n <= c <=> Cardinality(UpTo(s[n])) <= k
<1>1. Len(s) \in Nat /\ \A n \in 1..Len(s) : s[n] \in Request
  BY LenProperties, ElementOfSeq
<1>2. \A r \in Request : sequence[r] \in Nat
  BY DEF QTypeOK
<1>3. FifoFirst(s, k) \in SUBSET (1..Len(s))
  BY DEF FifoFirst
<1>4. ASSUME NEW n \in FifoFirst(s, k), NEW m \in 1..n PROVE m \in FifoFirst(s, k)
  <2>1. n \in 1..Len(s) /\ Cardinality(UpTo(s[n])) <= k
    BY DEF FifoFirst
  <2>2. m \in 1..Len(s) /\ (m = n \/ m < n)
    BY <1>1, <2>1
  <2>3. sequence[s[m]] <= sequence[s[n]] /\ s[m] \in Request /\ s[n] \in Request
    BY <1>1, <1>2, <2>1, <2>2 DEF InOrder
  <2>4. /\ Cardinality(UpTo(s[m])) \in Nat /\ Cardinality(UpTo(s[n])) \in Nat
        /\ Cardinality(UpTo(s[m])) <= Cardinality(UpTo(s[n]))
    BY <2>3, UpToGrows
  <2>5. QED
    BY <2>1, <2>2, <2>4 DEF FifoFirst
<1>5. /\ Cardinality(FifoFirst(s, k)) \in 0..Len(s)
      /\ FifoFirst(s, k) = 1..Cardinality(FifoFirst(s, k))
  BY <1>1, <1>3, <1>4, InitialPositions
<1>6. \A n \in 1..Len(s) :
        n \in FifoFirst(s, k) <=> Cardinality(UpTo(s[n])) <= k
  BY DEF FifoFirst
<1>7. \A n \in 1..Len(s) :
        n \in FifoFirst(s, k) <=> n <= Cardinality(FifoFirst(s, k))
  BY <1>1, <1>5
<1>8. QED
  BY <1>5, <1>6, <1>7

\* The first n items of a deque are at most n requests.
LEMMA PrefixSize ==
  ASSUME NEW S, NEW s \in Seq(S), NEW n \in 0..Len(s)
  PROVE  /\ IsFiniteSet(Range(SubSeq(s, 1, n)))
         /\ Cardinality(Range(SubSeq(s, 1, n))) \in 0..n
<1>1. n \in Nat /\ Len(s) \in Nat
  BY LenProperties
<1>2. IsFiniteSet(1..n) /\ Cardinality(1..n) = n
  BY <1>1, IntervalSize
<1> DEFINE T == Range(SubSeq(s, 1, n))
           f == [i \in 1..n |-> s[i]]
<1>3. \A x : x \in T <=> \E i \in 1..n : s[i] = x
  BY RangeOfCut
<1> HIDE DEF T
<1>4. f \in [1..n -> T]
  BY <1>3
<1>5. \A x \in T : \E i \in 1..n : f[i] = x
  BY <1>3
<1>6. f \in Surjection(1..n, T)
  BY <1>4, <1>5 DEF Surjection
<1>7. IsFiniteSet(T) /\ Cardinality(T) <= n
  BY <1>2, <1>6, FS_Surjection
<1>8. QED
  BY <1>1, <1>7, FS_CardinalityType DEF T

\* A collection moves what it takes out of the deques: it takes nothing else,
\* leaves the rest in order and is never larger than the room it was given.
LEMMA CollectMoves ==
  ASSUME QTypeOK, ArrivalInv, NEW k \in Nat, CollectBatch(k)
  PROVE  LET queued == Range(interactive) \cup Range(batch) IN
         /\ Collected(k) \in SUBSET queued
         /\ Range(interactive') \cup Range(batch') = queued \ Collected(k)
         /\ InOrder(interactive', sequence) /\ InOrder(batch', sequence)
<1> DEFINE ti == TakeInteractive(k)
           tb == TakeBatch(k)
           fi == Range(SubSeq(interactive, 1, ti))
           fb == Range(SubSeq(batch, 1, tb))
<1>1. /\ ti \in 0..Len(interactive) /\ tb \in 0..Len(batch)
      /\ interactive \in Seq(InteractiveRequest) /\ batch \in Seq(BatchRequest)
  BY TakeType DEF QTypeOK
<1>2. /\ interactive' = Drop(interactive, ti) /\ batch' = Drop(batch, tb)
      /\ Collected(k) = fi \cup fb
  BY DEF CollectBatch, Collected
<1> HIDE DEF ti, tb
<1>3. /\ Range(interactive) = fi \cup Range(interactive')
      /\ Range(batch) = fb \cup Range(batch')
  BY <1>1, <1>2, RangeOfCut
<1>4. /\ InOrder(interactive', sequence) /\ InOrder(batch', sequence)
      /\ \A q \in fi, r \in Range(interactive') :
           q \in Request /\ r \in Request => sequence[q] < sequence[r]
      /\ \A q \in fb, r \in Range(batch') :
           q \in Request /\ r \in Request => sequence[q] < sequence[r]
  BY <1>1, <1>2, OrderOfCut DEF ArrivalInv
<1>5. /\ Range(interactive) \in SUBSET InteractiveRequest
      /\ Range(batch) \in SUBSET BatchRequest
  BY <1>1, RangeOfSeq
<1> HIDE DEF fi, fb
<1>6. \A r \in Request : sequence[r] \in Nat
  BY DEF QTypeOK
<1>7. /\ fi \cap Range(interactive') = {} /\ fb \cap Range(batch') = {}
      /\ fi \cap Range(batch') = {} /\ fb \cap Range(interactive') = {}
  BY <1>3, <1>4, <1>5, <1>6, PrioritiesDisjoint DEF Request
<1>8. QED
  BY <1>2, <1>3, <1>4, <1>7

\* Whom a collection leaves behind came later than everyone it takes: of his
\* class, and of all when there are no priorities.
LEMMA CollectInOrder ==
  ASSUME QTypeOK, ArrivalInv, NEW k \in Nat, CollectBatch(k),
         NEW q \in Range(interactive') \cup Range(batch'), NEW r \in Collected(k),
         PriorityScheduling => (q \in InteractiveRequest) = (r \in InteractiveRequest)
  PROVE  sequence[r] < sequence[q]
<1> DEFINE ti == TakeInteractive(k)
           tb == TakeBatch(k)
           fi == Range(SubSeq(interactive, 1, ti))
           fb == Range(SubSeq(batch, 1, tb))
<1>1. /\ ti \in 0..Len(interactive) /\ tb \in 0..Len(batch)
      /\ interactive \in Seq(InteractiveRequest) /\ batch \in Seq(BatchRequest)
  BY TakeType DEF QTypeOK
<1>2. /\ interactive' = Drop(interactive, ti) /\ batch' = Drop(batch, tb)
      /\ Collected(k) = fi \cup fb
  BY DEF CollectBatch, Collected
<1>3. /\ Range(interactive) = fi \cup Range(interactive')
      /\ Range(batch) = fb \cup Range(batch')
  BY <1>1, <1>2, RangeOfCut
<1>4. /\ Range(interactive) \in SUBSET InteractiveRequest
      /\ Range(batch) \in SUBSET BatchRequest
  BY <1>1, RangeOfSeq
<1>5. q \in Request /\ r \in Request /\ \A x \in Request : sequence[x] \in Nat
  BY <1>2, <1>3, <1>4 DEF QTypeOK, Request
<1>6. CASE PriorityScheduling
  <2>1. /\ \A x \in fi, y \in Range(interactive') :
             x \in Request /\ y \in Request => sequence[x] < sequence[y]
        /\ \A x \in fb, y \in Range(batch') :
             x \in Request /\ y \in Request => sequence[x] < sequence[y]
    BY <1>1, <1>2, OrderOfCut DEF ArrivalInv
  <2>2. \/ q \in Range(interactive') /\ r \in fi
        \/ q \in Range(batch') /\ r \in fb
    BY <1>2, <1>3, <1>4, <1>6, PrioritiesDisjoint
  <2>3. QED
    BY <1>5, <2>1, <2>2
<1>7. CASE ~PriorityScheduling
  <2>1. ti = Cardinality(FifoFirst(interactive, k)) /\ tb = Cardinality(FifoFirst(batch, k))
    BY <1>7 DEF TakeInteractive, TakeBatch
  <2>2. interactive \in Seq(Request) /\ batch \in Seq(Request)
    BY <1>1, SeqMonotonic DEF Request
  <2>3. /\ \A n \in 1..Len(interactive) : n <= ti <=> Cardinality(UpTo(interactive[n])) <= k
        /\ \A n \in 1..Len(batch) : n <= tb <=> Cardinality(UpTo(batch[n])) <= k
    BY <2>1, <2>2, FifoFirstIsPrefix DEF ArrivalInv
  <2> HIDE DEF ti, tb
  <2>4. Len(interactive) \in Nat /\ Len(batch) \in Nat
    BY <1>1, LenProperties
  <2>5. Cardinality(UpTo(r)) <= k
    <3>1. CASE r \in fi
      <4>1. PICK n \in 1..ti : interactive[n] = r
        BY <1>1, <3>1, RangeOfCut
      <4>2. QED
        BY <1>1, <2>3, <2>4, <4>1
    <3>2. CASE r \in fb
      <4>1. PICK n \in 1..tb : batch[n] = r
        BY <1>1, <3>2, RangeOfCut
      <4>2. QED
        BY <1>1, <2>3, <2>4, <4>1
    <3>3. QED
      BY <1>2, <3>1, <3>2
  <2>6. ~(Cardinality(UpTo(q)) <= k)
    <3>1. CASE q \in Range(interactive')
      <4>1. PICK n \in (ti + 1)..Len(interactive) : interactive[n] = q
        BY <1>1, <1>2, <3>1, RangeOfCut
      <4>2. n \in 1..Len(interactive) /\ ~(n <= ti)
        BY <1>1, <2>4
      <4>3. QED
        BY <2>3, <4>1, <4>2
    <3>2. CASE q \in Range(batch')
      <4>1. PICK n \in (tb + 1)..Len(batch) : batch[n] = q
        BY <1>1, <1>2, <3>2, RangeOfCut
      <4>2. n \in 1..Len(batch) /\ ~(n <= tb)
        BY <1>1, <2>4
      <4>3. QED
        BY <2>3, <4>1, <4>2
    <3>3. QED
      BY <3>1, <3>2
  <2>7. ASSUME sequence[q] <= sequence[r] PROVE FALSE
    <3>1. /\ Cardinality(UpTo(q)) \in Nat /\ Cardinality(UpTo(r)) \in Nat
          /\ Cardinality(UpTo(q)) <= Cardinality(UpTo(r))
      BY <1>5, <2>7, UpToGrows
    <3>2. QED
      BY <2>5, <2>6, <3>1
  <2>8. QED
    BY <1>5, <2>7
<1>8. QED
  BY <1>6, <1>7

\* A collection fits into the room it was given.
LEMMA CollectFits ==
  ASSUME QTypeOK, ArrivalInv, NEW k \in Nat
  PROVE  /\ IsFiniteSet(Collected(k))
         /\ Cardinality(Collected(k)) \in 0..k
<1> DEFINE ti == TakeInteractive(k)
           tb == TakeBatch(k)
           fi == Range(SubSeq(interactive, 1, ti))
           fb == Range(SubSeq(batch, 1, tb))
<1>1. /\ ti \in 0..Len(interactive) /\ tb \in 0..Len(batch)
      /\ interactive \in Seq(InteractiveRequest) /\ batch \in Seq(BatchRequest)
      /\ Len(interactive) \in Nat /\ Len(batch) \in Nat
  BY TakeType, LenProperties DEF QTypeOK
<1>2. Collected(k) = fi \cup fb
  BY DEF Collected
<1>3. CASE PriorityScheduling
  <2>1. tb = Least(Len(batch), k - ti)
    BY <1>3 DEF TakeBatch
  <2> HIDE DEF ti, tb
  <2>2. ti + tb <= k
    BY <1>1, <2>1 DEF Least
  <2>3. /\ IsFiniteSet(fi) /\ Cardinality(fi) \in 0..ti
        /\ IsFiniteSet(fb) /\ Cardinality(fb) \in 0..tb
    BY <1>1, PrefixSize
  <2> HIDE DEF fi, fb
  <2>4. IsFiniteSet(fi \cap fb) /\ Cardinality(fi \cap fb) \in Nat
    BY <2>3, FS_Intersection, FS_CardinalityType
  <2>5. /\ IsFiniteSet(fi \cup fb)
        /\ Cardinality(fi \cup fb) = Cardinality(fi) + Cardinality(fb) - Cardinality(fi \cap fb)
    BY <2>3, FS_Union
  <2>6. Cardinality(fi \cup fb) \in Nat
    BY <2>5, FS_CardinalityType
  <2>7. QED
    BY <1>1, <1>2, <2>2, <2>3, <2>4, <2>5, <2>6
<1>4. CASE ~PriorityScheduling
  <2>1. ti = Cardinality(FifoFirst(interactive, k)) /\ tb = Cardinality(FifoFirst(batch, k))
    BY <1>4 DEF TakeInteractive, TakeBatch
  <2>2. interactive \in Seq(Request) /\ batch \in Seq(Request)
    BY <1>1, SeqMonotonic DEF Request
  <2>3. /\ \A n \in 1..Len(interactive) : n <= ti <=> Cardinality(UpTo(interactive[n])) <= k
        /\ \A n \in 1..Len(batch) : n <= tb <=> Cardinality(UpTo(batch[n])) <= k
    BY <2>1, <2>2, FifoFirstIsPrefix DEF ArrivalInv
  <2> HIDE DEF ti, tb
  <2>4. \A x \in Request : sequence[x] \in Nat
    BY DEF QTypeOK
  <2>5. /\ \A x : x \in fi <=> \E n \in 1..ti : interactive[n] = x
        /\ \A x : x \in fb <=> \E n \in 1..tb : batch[n] = x
    BY <1>1, RangeOfCut
  <2>6. /\ \A n \in 1..Len(interactive) : interactive[n] \in Request
        /\ \A n \in 1..Len(batch) : batch[n] \in Request
        /\ Range(interactive) = {interactive[n] : n \in 1..Len(interactive)}
        /\ Range(batch) = {batch[n] : n \in 1..Len(batch)}
    BY <2>2, ElementOfSeq, RangeEquality
  <2> HIDE DEF fi, fb
  <2>7. /\ \A x \in fi : /\ ti \in 1..Len(interactive)
                         /\ sequence[x] <= sequence[interactive[ti]]
                         /\ x \in Request /\ x \in Range(interactive)
        /\ \A x \in fb : /\ tb \in 1..Len(batch)
                         /\ sequence[x] <= sequence[batch[tb]]
                         /\ x \in Request /\ x \in Range(batch)
    <3>1. ASSUME NEW x \in fi
          PROVE  /\ ti \in 1..Len(interactive)
                 /\ sequence[x] <= sequence[interactive[ti]]
                 /\ x \in Request /\ x \in Range(interactive)
      <4>1. PICK n \in 1..ti : interactive[n] = x
        BY <2>5
      <4>2. /\ n \in 1..Len(interactive) /\ ti \in 1..Len(interactive)
            /\ n = ti \/ n < ti
        BY <1>1
      <4>3. QED
        BY <2>4, <2>6, <4>1, <4>2 DEF ArrivalInv, InOrder
    <3>2. ASSUME NEW x \in fb
          PROVE  /\ tb \in 1..Len(batch)
                 /\ sequence[x] <= sequence[batch[tb]]
                 /\ x \in Request /\ x \in Range(batch)
      <4>1. PICK n \in 1..tb : batch[n] = x
        BY <2>5
      <4>2. /\ n \in 1..Len(batch) /\ tb \in 1..Len(batch)
            /\ n = tb \/ n < tb
        BY <1>1
      <4>3. QED
        BY <2>4, <2>6, <4>1, <4>2 DEF ArrivalInv, InOrder
    <3>3. QED
      BY <3>1, <3>2
  <2>8. CASE fi \cup fb = {}
    BY <1>2, <2>8, FS_EmptySet
  \* The later of the two last items is at or after everything that is taken.
  <2>9. ASSUME NEW x \in Request, \A y \in fi \cup fb : sequence[y] <= sequence[x],
               Cardinality(UpTo(x)) <= k
        PROVE  IsFiniteSet(Collected(k)) /\ Cardinality(Collected(k)) \in 0..k
    <3>1. fi \cup fb \in SUBSET UpTo(x)
      BY <2>7, <2>9 DEF UpTo
    <3>2. sequence[x] <= sequence[x]
      BY <2>4, <2>9
    <3>3. IsFiniteSet(UpTo(x)) /\ Cardinality(UpTo(x)) \in Nat
      BY <2>9, <3>2, UpToGrows
    <3>4. /\ IsFiniteSet(fi \cup fb)
          /\ Cardinality(fi \cup fb) <= Cardinality(UpTo(x))
      BY <3>1, <3>3, FS_Subset
    <3>5. Cardinality(fi \cup fb) \in Nat
      BY <3>4, FS_CardinalityType
    <3>6. QED
      BY <1>2, <2>9, <3>3, <3>4, <3>5
  <2>10. /\ fi # {} => /\ interactive[ti] \in Request
                       /\ Cardinality(UpTo(interactive[ti])) <= k
         /\ fb # {} => /\ batch[tb] \in Request
                       /\ Cardinality(UpTo(batch[tb])) <= k
    BY <1>1, <2>3, <2>6, <2>7
  <2>11. CASE fi # {} /\ fb # {} /\ sequence[batch[tb]] <= sequence[interactive[ti]]
    <3>1. \A y \in fi \cup fb : sequence[y] <= sequence[interactive[ti]]
      BY <2>4, <2>7, <2>10, <2>11
    <3>2. QED
      BY <2>9, <2>10, <2>11, <3>1
  <2>12. CASE fi # {} /\ fb # {} /\ sequence[interactive[ti]] <= sequence[batch[tb]]
    <3>1. \A y \in fi \cup fb : sequence[y] <= sequence[batch[tb]]
      BY <2>4, <2>7, <2>10, <2>12
    <3>2. QED
      BY <2>9, <2>10, <2>12, <3>1
  <2>13. CASE fi # {} /\ fb = {}
    BY <2>7, <2>9, <2>10, <2>13
  <2>14. CASE fi = {} /\ fb # {}
    BY <2>7, <2>9, <2>10, <2>14
  <2>15. QED
    BY <2>4, <2>8, <2>10, <2>11, <2>12, <2>13, <2>14
<1>5. QED
  BY <1>3, <1>4

\* Two sequences in order, the first before the second, are one in order.
LEMMA OrderOfConcat ==
  ASSUME NEW S, NEW s \in Seq(S), NEW t \in Seq(S), NEW number,
         InOrder(s, number), InOrder(t, number),
         \A q \in Range(s), r \in Range(t) :
           q \in Request /\ r \in Request => number[q] < number[r]
  PROVE  InOrder(s \o t, number)
<1> DEFINE c == s \o t
<1>1. /\ Len(s) \in Nat /\ Len(t) \in Nat /\ Len(c) = Len(s) + Len(t)
      /\ \A i \in 1..(Len(s) + Len(t)) :
           c[i] = IF i <= Len(s) THEN s[i] ELSE t[i - Len(s)]
  BY ConcatProperties, LenProperties
<1> HIDE DEF c
<1>2. \A i \in 1..Len(c) : \/ i \in 1..Len(s) /\ c[i] = s[i]
                           \/ ~(i <= Len(s)) /\ i - Len(s) \in 1..Len(t) /\ c[i] = t[i - Len(s)]
  BY <1>1
<1>3. /\ \A i \in 1..Len(s) : s[i] \in Range(s)
      /\ \A i \in 1..Len(t) : t[i] \in Range(t)
  BY RangeEquality
<1>4. SUFFICES ASSUME NEW i \in 1..Len(c), NEW j \in 1..Len(c), i < j,
                      c[i] \in Request, c[j] \in Request
               PROVE  number[c[i]] < number[c[j]]
  BY DEF InOrder, c
<1>5. CASE i \in 1..Len(s) /\ c[i] = s[i] /\ j \in 1..Len(s) /\ c[j] = s[j]
  BY <1>4, <1>5 DEF InOrder
<1>6. CASE /\ i \in 1..Len(s) /\ c[i] = s[i]
           /\ j - Len(s) \in 1..Len(t) /\ c[j] = t[j - Len(s)]
  BY <1>3, <1>4, <1>6
<1>7. CASE /\ ~(i <= Len(s)) /\ i - Len(s) \in 1..Len(t) /\ c[i] = t[i - Len(s)]
           /\ j - Len(s) \in 1..Len(t) /\ c[j] = t[j - Len(s)]
  <2>1. i - Len(s) < j - Len(s)
    BY <1>1, <1>4
  <2>2. QED
    BY <1>4, <1>7, <2>1 DEF InOrder
<1>8. ~(~(i <= Len(s)) /\ j \in 1..Len(s))
  BY <1>1, <1>4
<1>9. QED
  BY <1>2, <1>5, <1>6, <1>7, <1>8

-----------------------------------------------------------------------------
(* Steps of the lock and the deques.                                       *)

\* The owner leaves the queue for the lock: the others keep their order, and
\* are behind it.
LEMMA OrderOfTail ==
  ASSUME NEW S, NEW s \in Seq(S), s # <<>>, NEW number, InOrder(s, number)
  PROVE  /\ InOrder(Tail(s), number)
         /\ \A q \in Range(Tail(s)) :
              Head(s) \in Request /\ q \in Request => number[Head(s)] < number[q]
<1>1. Tail(s) = Drop(s, 1) /\ 1 \in 0..Len(s)
  BY TailIsDrop
<1>2. /\ InOrder(Drop(s, 1), number)
      /\ \A q \in Range(SubSeq(s, 1, 1)), r \in Range(Drop(s, 1)) :
           q \in Request /\ r \in Request => number[q] < number[r]
  BY <1>1, OrderOfCut
<1>3. Head(s) \in Range(SubSeq(s, 1, 1))
  <2>1. s[1] = Head(s)
    BY EmptySeq
  <2>2. \A x : x \in Range(SubSeq(s, 1, 1)) <=> \E i \in 1..1 : s[i] = x
    BY <1>1, RangeOfCut
  <2>3. QED
    BY <2>1, <2>2
<1>4. QED
  BY <1>1, <1>2, <1>3

\* The scheduler and the orchestrator come and go in the queue for the lock
\* without disturbing the handlers in it.
LEMMA LockJoined ==
  ASSUME QTypeOK, ArrivalInv, NEW t \in {Sched, Orch}, lockq' = Append(lockq, t),
         interactive' = interactive, batch' = batch,
         sequence' = sequence, next_sequence' = next_sequence
  PROVE  ArrivalInv' /\ Waiting' = Waiting
<1>1. lockq \in Seq(Task) /\ t \in Task /\ t \notin Request
  BY TasksDistinct DEF QTypeOK, Task
<1>2. Range(lockq') = Range(lockq) \cup {t} /\ InOrder(lockq', sequence)
  BY <1>1, RangeOfAppend, OrderOfAppend DEF ArrivalInv
<1>3. QED
  BY <1>1, <1>2 DEF ArrivalInv, Waiting

\* Its owner leaves the lock, the scheduler or the drain.
LEMMA LockLeft ==
  ASSUME QTypeOK, ArrivalInv, lockq # <<>>, Head(lockq) \in {Sched, Orch},
         lockq' = Tail(lockq), interactive' = interactive, batch' = batch,
         sequence' = sequence, next_sequence' = next_sequence
  PROVE  ArrivalInv' /\ Waiting' = Waiting
<1>1. lockq \in Seq(Task) /\ Head(lockq) \notin Request
  BY TasksDistinct DEF QTypeOK
<1>2. Range(lockq) = {Head(lockq)} \cup Range(lockq') /\ InOrder(lockq', sequence)
  BY <1>1, TailIsDrop, OrderOfTail DEF ArrivalInv
<1>3. QED
  BY <1>1, <1>2 DEF ArrivalInv, Waiting

\* The scheduler whose window has ended moves to the end of the queue for the lock.
LEMMA LockRejoined ==
  ASSUME QTypeOK, ArrivalInv, NEW n \in 1..Len(lockq), lockq[n] = Sched,
         lockq' = SubSeq(lockq, 1, n - 1) \o Append(Drop(lockq, n), Sched),
         interactive' = interactive, batch' = batch,
         sequence' = sequence, next_sequence' = next_sequence
  PROVE  ArrivalInv' /\ Waiting' = Waiting
<1> DEFINE front == SubSeq(lockq, 1, n - 1)
           rest == Drop(lockq, n)
<1>1. /\ lockq \in Seq(Task) /\ Sched \in Task /\ Sched \notin Request
      /\ Len(lockq) \in Nat
  BY TasksDistinct, LenProperties DEF QTypeOK, Task
<1>2. n - 1 \in 0..Len(lockq) /\ n \in 0..Len(lockq)
  BY <1>1
<1>3. /\ \A x : x \in Range(front) <=> \E i \in 1..(n - 1) : lockq[i] = x
      /\ \A x : x \in Range(rest) <=> \E i \in (n + 1)..Len(lockq) : lockq[i] = x
      /\ Range(lockq) = {lockq[i] : i \in 1..Len(lockq)}
  <2>1. \A x : x \in Range(front) <=> \E i \in 1..(n - 1) : lockq[i] = x
    BY <1>1, <1>2, RangeOfCut
  <2>2. \A x : x \in Range(rest) <=> \E i \in (n + 1)..Len(lockq) : lockq[i] = x
    BY <1>1, <1>2, RangeOfCut
  <2>3. QED
    BY <1>1, <2>1, <2>2, RangeEquality
<1>4. /\ front \in Seq(Task) /\ rest \in Seq(Task)
      /\ InOrder(front, sequence) /\ InOrder(rest, sequence)
  BY <1>1, <1>2, OrderOfCut, PrefixType, DropType DEF ArrivalInv
<1> HIDE DEF front, rest
<1>5. /\ Append(rest, Sched) \in Seq(Task)
      /\ Range(Append(rest, Sched)) = Range(rest) \cup {Sched}
      /\ InOrder(Append(rest, Sched), sequence)
  BY <1>1, <1>4, RangeOfAppend, OrderOfAppend, AppendProperties
<1>6. \A q \in Range(front), r \in Range(rest) :
        q \in Request /\ r \in Request => sequence[q] < sequence[r]
  <2>1. SUFFICES ASSUME NEW q \in Range(front), NEW r \in Range(rest),
                        q \in Request, r \in Request
                 PROVE  sequence[q] < sequence[r]
    OBVIOUS
  <2>2. PICK i \in 1..(n - 1) : lockq[i] = q
    BY <1>3
  <2>3. PICK j \in (n + 1)..Len(lockq) : lockq[j] = r
    BY <1>3
  <2>4. i \in 1..Len(lockq) /\ j \in 1..Len(lockq) /\ i < j
    BY <1>1
  <2>5. QED
    BY <2>1, <2>2, <2>3, <2>4 DEF ArrivalInv, InOrder
<1>7. InOrder(lockq', sequence)
  <2>1. \A q \in Range(front), r \in Range(Append(rest, Sched)) :
          q \in Request /\ r \in Request => sequence[q] < sequence[r]
    BY <1>1, <1>5, <1>6
  <2>2. InOrder(front \o Append(rest, Sched), sequence)
    BY <1>4, <1>5, <2>1, OrderOfConcat
  <2>3. QED
    BY <2>2 DEF front, rest
<1>8. Range(lockq') = Range(front) \cup Range(rest) \cup {Sched}
  <2>1. Range(front \o Append(rest, Sched)) = Range(front) \cup Range(Append(rest, Sched))
    <3>1. \A s \in Seq(Task), t \in Seq(Task) : Range(s \o t) = Range(s) \cup Range(t)
      BY RangeConcatenation
    <3>2. QED
      BY <1>4, <1>5, <3>1
  <2>2. lockq' = front \o Append(rest, Sched)
    BY DEF front, rest
  <2>3. QED
    BY <1>5, <2>1, <2>2
<1>9. Range(lockq) = Range(front) \cup Range(rest) \cup {Sched}
  <2>1. ASSUME NEW x \in Range(lockq) PROVE x \in Range(front) \cup Range(rest) \cup {Sched}
    <3>1. PICK i \in 1..Len(lockq) : lockq[i] = x
      BY <1>3
    <3>2. i \in 1..(n - 1) \/ i = n \/ i \in (n + 1)..Len(lockq)
      BY <1>1
    <3>3. QED
      BY <1>3, <3>1, <3>2
  <2>2. ASSUME NEW x \in Range(front) \cup Range(rest) \cup {Sched} PROVE x \in Range(lockq)
    <3>1. PICK i \in 1..Len(lockq) : lockq[i] = x
      BY <1>1, <1>3
    <3>2. QED
      BY <1>3, <3>1
  <2>3. QED
    BY <2>1, <2>2
<1>10. QED
  BY <1>1, <1>7, <1>8, <1>9 DEF ArrivalInv, Waiting

\* A request arrives with the highest number and at the end of the queue.
LEMMA RequestArrived ==
  ASSUME QTypeOK, ArrivalInv, NEW r \in Request, r \notin Waiting, RequestEnqueue(r)
  PROVE  /\ ArrivalInv' /\ Waiting' = Waiting \cup {r}
         /\ sequence' = [sequence EXCEPT ![r] = next_sequence + 1]
         /\ interactive' = interactive /\ batch' = batch
<1>1. /\ lockq \in Seq(Task) /\ r \in Task /\ next_sequence \in Nat
      /\ interactive \in Seq(InteractiveRequest) /\ batch \in Seq(BatchRequest)
      /\ sequence \in [Request -> Nat]
  BY DEF QTypeOK, Task
<1>2. /\ lockq' = Append(lockq, r) /\ next_sequence' = next_sequence + 1
      /\ sequence' = [sequence EXCEPT ![r] = next_sequence + 1]
      /\ interactive' = interactive /\ batch' = batch
  BY DEF RequestEnqueue, Acquire, deques
<1>3. r \notin Range(lockq) /\ r \notin Range(interactive) /\ r \notin Range(batch)
  BY DEF Waiting
<1>4. /\ sequence'[r] = next_sequence + 1
      /\ \A q \in Request : q # r => sequence'[q] = sequence[q]
      /\ \A q \in Request : sequence[q] \in Nat /\ sequence[q] <= next_sequence
  BY <1>1, <1>2 DEF ArrivalInv
<1>5. /\ InOrder(lockq, sequence') /\ InOrder(interactive, sequence')
      /\ InOrder(batch, sequence')
  BY <1>1, <1>3, <1>4, OrderKept DEF ArrivalInv
<1>6. Range(lockq') = Range(lockq) \cup {r}
  BY <1>1, <1>2, RangeOfAppend
<1>7. InOrder(lockq', sequence')
  <2>1. \A q \in Request \cap Range(lockq) : sequence'[q] < sequence'[r]
    BY <1>1, <1>3, <1>4
  <2>2. QED
    BY <1>1, <1>2, <1>5, <2>1, OrderOfAppend
<1>8. Range(interactive) \in SUBSET Request /\ Range(batch) \in SUBSET Request
  BY <1>1, RangeOfSeq DEF Request
<1>9. \A q \in Range(interactive') \cup Range(batch'), x \in Request \cap Range(lockq') :
        sequence'[q] < sequence'[x]
  BY <1>1, <1>2, <1>3, <1>4, <1>6, <1>8 DEF ArrivalInv
<1>10. \A q \in Request : sequence'[q] <= next_sequence'
  BY <1>1, <1>2, <1>4
<1>11. ArrivalInv'
  BY <1>2, <1>5, <1>7, <1>9, <1>10 DEF ArrivalInv
<1>12. QED
  BY <1>2, <1>6, <1>11 DEF Waiting

\* A handler with the lock moves its request to the end of a deque.
LEMMA RequestEnqueued ==
  ASSUME QTypeOK, ArrivalInv, NEW r \in Request, Enqueue(r)
  PROVE  ArrivalInv' /\ Waiting' = Waiting /\ sequence' = sequence
<1>1. /\ lockq \in Seq(Task) /\ lockq # <<>> /\ Head(lockq) = r
      /\ interactive \in Seq(InteractiveRequest) /\ batch \in Seq(BatchRequest)
      /\ \A q \in Request : sequence[q] \in Nat
  BY DEF QTypeOK, Enqueue, Holds
<1>2. /\ lockq' = Tail(lockq) /\ sequence' = sequence /\ next_sequence' = next_sequence
      /\ IF r \in InteractiveRequest
         THEN interactive' = Append(interactive, r) /\ batch' = batch
         ELSE batch' = Append(batch, r) /\ interactive' = interactive
  BY DEF Enqueue, Release
<1>3. Range(lockq) = {r} \cup Range(lockq') /\ InOrder(lockq', sequence)
  BY <1>1, <1>2, TailIsDrop, OrderOfTail DEF ArrivalInv
<1>4. \A q \in Request \cap Range(lockq') : sequence[r] < sequence[q]
  BY <1>1, <1>2, OrderOfTail DEF ArrivalInv
<1>5. \A q \in Range(interactive) \cup Range(batch) : sequence[q] < sequence[r]
  BY <1>3 DEF ArrivalInv
<1>6. /\ Range(interactive') \cup Range(batch') = Range(interactive) \cup Range(batch) \cup {r}
      /\ InOrder(interactive', sequence) /\ InOrder(batch', sequence)
  <2>1. CASE r \in InteractiveRequest
    <3>1. interactive' = Append(interactive, r) /\ batch' = batch
      BY <1>2, <2>1
    <3>2. Range(interactive') = Range(interactive) \cup {r}
      BY <1>1, <2>1, <3>1, RangeOfAppend
    <3>3. InOrder(interactive, sequence) /\ InOrder(batch, sequence)
      BY DEF ArrivalInv
    <3>4. InOrder(Append(interactive, r), sequence)
      BY <1>1, <1>5, <2>1, <3>3, OrderOfAppend
    <3>5. QED
      BY <3>1, <3>2, <3>3, <3>4
  <2>2. CASE r \notin InteractiveRequest
    <3>1. r \in BatchRequest
      BY <2>2 DEF Request
    <3>2. batch' = Append(batch, r) /\ interactive' = interactive
      BY <1>2, <2>2
    <3>3. Range(batch') = Range(batch) \cup {r}
      BY <1>1, <3>1, <3>2, RangeOfAppend
    <3>4. InOrder(interactive, sequence) /\ InOrder(batch, sequence)
      BY DEF ArrivalInv
    <3>5. InOrder(Append(batch, r), sequence)
      BY <1>1, <1>5, <3>1, <3>4, OrderOfAppend
    <3>6. QED
      BY <3>2, <3>3, <3>4, <3>5
  <2>3. QED
    BY <2>1, <2>2
<1>7. ArrivalInv'
  BY <1>2, <1>3, <1>4, <1>6 DEF ArrivalInv
<1>8. Waiting' = Waiting
  BY <1>3, <1>6 DEF Waiting
<1>9. QED
  BY <1>2, <1>7, <1>8

\* The orchestrator empties the deques; the handlers behind it stay.
LEMMA AllDrained ==
  ASSUME QTypeOK, ArrivalInv, DrainAllPending(Orch)
  PROVE  ArrivalInv' /\ TakesAhead(Range(interactive) \cup Range(batch))
<1>1. lockq \in Seq(Task) /\ lockq # <<>> /\ Head(lockq) = Orch /\ Orch \notin Request
  BY TasksDistinct DEF QTypeOK, DrainAllPending, Holds
<1>2. /\ lockq' = Tail(lockq) /\ sequence' = sequence /\ next_sequence' = next_sequence
      /\ interactive' = <<>> /\ batch' = <<>>
  BY DEF DrainAllPending, Release
<1>3. Range(lockq) = {Orch} \cup Range(lockq') /\ InOrder(lockq', sequence)
  BY <1>1, <1>2, TailIsDrop, OrderOfTail DEF ArrivalInv
<1>4. Range(<<>>) = {} /\ InOrder(<<>>, sequence)
  <2>1. Len(<<>>) = 0 /\ DOMAIN <<>> = 1..0
    BY EmptySeq
  <2>2. 1..0 = {}
    OBVIOUS
  <2>3. QED
    BY <2>1, <2>2 DEF Range, InOrder
<1>5. \A r \in Request : sequence[r] \in Nat
  BY DEF QTypeOK
<1>6. \A q \in Range(interactive) \cup Range(batch) : q \notin Request \cap Range(lockq)
  BY <1>5 DEF ArrivalInv
<1>7. Range(interactive) \cup Range(batch) \subseteq Request
  BY RangeOfSeq DEF QTypeOK, Request
<1>8. /\ Waiting' = Waiting \ (Range(interactive) \cup Range(batch))
      /\ Waiting' \subseteq Request \cap Range(lockq)
      /\ Range(interactive) \cup Range(batch) \subseteq Waiting
  BY <1>1, <1>2, <1>3, <1>4, <1>6, <1>7 DEF Waiting
<1>9. \A q \in Waiting', r \in Range(interactive) \cup Range(batch) : sequence[r] < sequence[q]
  BY <1>8 DEF ArrivalInv
<1>10. Depth' <= Depth
  BY <1>2, EmptySeq, LenProperties DEF Depth, QTypeOK
<1>11. ArrivalInv'
  BY <1>2, <1>3, <1>4 DEF ArrivalInv
<1>12. QED
  BY <1>2, <1>8, <1>9, <1>10, <1>11 DEF TakesAhead

\* A collection leaves no more in the deques than there was.
LEMMA CollectShrinks ==
  ASSUME QTypeOK, NEW k \in Nat, CollectBatch(k)
  PROVE  Depth' <= Depth
<1>1. TakeInteractive(k) \in 0..Len(interactive) /\ TakeBatch(k) \in 0..Len(batch)
  BY TakeType
<1>2. /\ interactive' = Drop(interactive, TakeInteractive(k))
      /\ batch' = Drop(batch, TakeBatch(k))
  BY DEF CollectBatch
<1>3. /\ Len(interactive') = Len(interactive) - TakeInteractive(k)
      /\ Len(batch') = Len(batch) - TakeBatch(k)
  BY <1>1, <1>2, DropType DEF QTypeOK
<1>4. Len(interactive) \in Nat /\ Len(batch) \in Nat
  BY LenProperties DEF QTypeOK
<1>5. QED
  BY <1>1, <1>3, <1>4 DEF Depth

\* A collection under the lock: those it takes no longer wait, all others do.
LEMMA CollectedUnderLock ==
  ASSUME QTypeOK, ArrivalInv, NEW k \in Nat, CollectBatch(k),
         lockq # <<>>, Head(lockq) = Sched, lockq' = Tail(lockq),
         sequence' = sequence, next_sequence' = next_sequence
  PROVE  ArrivalInv' /\ TakesAhead(Collected(k))
<1>1. lockq \in Seq(Task) /\ Sched \notin Request
  BY TasksDistinct DEF QTypeOK
<1>2. Range(lockq) = {Sched} \cup Range(lockq') /\ InOrder(lockq', sequence)
  BY <1>1, TailIsDrop, OrderOfTail DEF ArrivalInv
<1>3. /\ Collected(k) \in SUBSET (Range(interactive) \cup Range(batch))
      /\ Range(interactive') \cup Range(batch')
           = (Range(interactive) \cup Range(batch)) \ Collected(k)
      /\ InOrder(interactive', sequence) /\ InOrder(batch', sequence)
  BY CollectMoves
<1>4. Range(interactive) \in SUBSET Request /\ Range(batch) \in SUBSET Request
  BY RangeOfSeq DEF QTypeOK, Request
<1>5. \A r \in Request : sequence[r] \in Nat
  BY DEF QTypeOK
<1>6. \A q \in Range(interactive) \cup Range(batch) : q \notin Request \cap Range(lockq)
  BY <1>5 DEF ArrivalInv
<1>7. ArrivalInv'
  BY <1>2, <1>3 DEF ArrivalInv
<1>8. /\ Collected(k) \subseteq Waiting /\ Waiting' = Waiting \ Collected(k)
      /\ Collected(k) \subseteq Request
  BY <1>1, <1>2, <1>3, <1>4, <1>6 DEF Waiting
<1>9. ASSUME NEW q \in Waiting', NEW r \in Collected(k), OrderPromised(q, r)
      PROVE  sequence[r] < sequence[q]
  <2>1. CASE q \in Range(interactive') \cup Range(batch')
    BY <1>9, <2>1, CollectInOrder DEF OrderPromised
  <2>2. CASE q \in Request \cap Range(lockq)
    BY <1>3, <2>2 DEF ArrivalInv
  <2>3. QED
    BY <1>2, <2>1, <2>2 DEF Waiting
<1>10. Depth' <= Depth
  BY CollectShrinks
<1>11. QED
  BY <1>7, <1>8, <1>9, <1>10 DEF TakesAhead

\* A step that leaves deques and numbers alone, and no request leaves or joins.
LEMMA TakesNone ==
  ASSUME QTypeOK, Waiting' = Waiting, sequence' = sequence,
         interactive' = interactive, batch' = batch
  PROVE  TakesAhead({})
<1>1. Depth \in Nat /\ Depth' = Depth
  BY LenProperties DEF QTypeOK, Depth
<1>2. QED
  BY <1>1 DEF TakesAhead

\* Whatever pull_batch does, the requests that it adds to its batch leave the
\* queue ahead of those they have to precede, and no other leaves.
LEMMA PullBatchTakes ==
  ASSUME QTypeOK, ArrivalInv, NEW k \in Nat, PullBatch(Sched, k),
         qpc \in RoomPC => Cardinality(pulled) < k
  PROVE  /\ ArrivalInv'
         /\ \E C \in SUBSET Waiting : TakesAhead(C) /\ pulled' = pulled \cup C
<1> USE DEF Holds, Release, Acquire
<1> DEFINE Good == /\ ArrivalInv'
                   /\ \E C \in SUBSET Waiting : TakesAhead(C) /\ pulled' = pulled \cup C
<1>1. Cardinality(pulled) \in Nat
  BY SizeOfRequests DEF QTypeOK
<1> DEFINE Same == /\ interactive' = interactive /\ batch' = batch
                   /\ pulled' = pulled
                   /\ sequence' = sequence /\ next_sequence' = next_sequence
<1>2. /\ Same /\ ArrivalInv' /\ Waiting' = Waiting => Good
      /\ Same /\ lockq' = lockq => Good
      /\ Same /\ lockq' = Append(lockq, Sched) => Good
      /\ Same /\ lockq # <<>> /\ Head(lockq) = Sched /\ lockq' = Tail(lockq) => Good
      /\ \A n \in 1..Len(lockq) :
           /\ Same
           /\ lockq[n] = Sched
           /\ lockq' = SubSeq(lockq, 1, n - 1) \o Append(Drop(lockq, n), Sched)
           => Good
  <2>1. ASSUME Same, ArrivalInv', Waiting' = Waiting PROVE Good
    <3>1. TakesAhead({}) /\ pulled' = pulled \cup {}
      BY <2>1, TakesNone
    <3>2. QED
      BY <2>1, <3>1
  <2>2. Same /\ lockq' = lockq => ArrivalInv' /\ Waiting' = Waiting
    BY DEF ArrivalInv, Waiting
  <2>3. Same /\ lockq' = Append(lockq, Sched) => ArrivalInv' /\ Waiting' = Waiting
    BY LockJoined
  <2>4. Same /\ lockq # <<>> /\ Head(lockq) = Sched /\ lockq' = Tail(lockq)
          => ArrivalInv' /\ Waiting' = Waiting
    BY LockLeft
  <2>5. \A n \in 1..Len(lockq) :
          /\ Same
          /\ lockq[n] = Sched
          /\ lockq' = SubSeq(lockq, 1, n - 1) \o Append(Drop(lockq, n), Sched)
          => ArrivalInv' /\ Waiting' = Waiting
    BY LockRejoined
  <2> HIDE DEF Good, Same
  <2>6. QED
    BY <2>1, <2>2, <2>3, <2>4, <2>5
<1>3. ASSUME NEW n \in Nat, CollectBatch(n), sequence' = sequence,
             next_sequence' = next_sequence,
             lockq # <<>>, Head(lockq) = Sched, lockq' = Tail(lockq)
      PROVE  Good
  <2>1. ArrivalInv' /\ TakesAhead(Collected(n))
    BY <1>3, CollectedUnderLock
  <2>2. pulled' = pulled \cup Collected(n) /\ Collected(n) \in SUBSET Waiting
    BY <1>3, <2>1 DEF CollectBatch, TakesAhead
  <2>3. QED
    BY <2>1, <2>2
<1> SUFFICES Good
  OBVIOUS
<1> HIDE DEF Good
<1>4. CASE GetCollect(Sched, k)
  BY <1>3, <1>4 DEF GetCollect
<1>5. CASE \/ GetNothing(Sched) \/ GetWait(Sched) \/ WindowDraining(Sched)
           \/ WindowSleep(Sched) \/ WindowExpired(Sched)
  BY <1>2, <1>5 DEF GetNothing, GetWait, WindowDraining, WindowSleep,
                    WindowExpired, deques
<1>6. CASE \/ GetWoken(Sched) \/ WindowLock(Sched, k) \/ WindowWoken(Sched)
           \/ WindowTimeout(Sched)
  BY <1>2, <1>6 DEF GetWoken, WindowLock, WindowWoken, WindowTimeout, deques
<1>7. CASE WindowClose(Sched) \/ WindowWait(Sched) \/ WindowGranted(Sched)
  BY <1>2, <1>7 DEF WindowClose, WindowWait, WindowGranted, deques
<1>8. CASE WindowExtra(Sched, k) \/ WindowCollect(Sched, k)
  <2>1. k - Cardinality(pulled) \in Nat
    BY <1>1, <1>8 DEF WindowExtra, WindowCollect, RoomPC
  <2>2. /\ sequence' = sequence /\ next_sequence' = next_sequence
        /\ lockq # <<>> /\ Head(lockq) = Sched /\ lockq' = Tail(lockq)
        /\ CollectBatch(k - Cardinality(pulled)) \/ UNCHANGED <<deques, pulled>>
    BY <1>8 DEF WindowExtra, WindowCollect
  <2>3. CASE CollectBatch(k - Cardinality(pulled))
    BY <1>3, <2>1, <2>2, <2>3
  <2>4. CASE UNCHANGED <<deques, pulled>>
    BY <1>2, <2>2, <2>4 DEF deques
  <2>5. QED
    BY <2>2, <2>3, <2>4
<1>9. CASE WindowTimeoutQueued(Sched)
  BY <1>2, <1>9 DEF WindowTimeoutQueued, deques
<1>10. QED
  BY <1>4, <1>5, <1>6, <1>7, <1>8, <1>9 DEF PullBatch

\* try_collect_batch, likewise.
LEMMA TryCollectTakes ==
  ASSUME QTypeOK, ArrivalInv, NEW k \in Nat, TryCollect(Sched, k)
  PROVE  /\ ArrivalInv'
         /\ \E C \in SUBSET Waiting : TakesAhead(C) /\ pulled' = pulled \cup C
<1>1. /\ sequence' = sequence /\ next_sequence' = next_sequence
      /\ lockq # <<>> /\ Head(lockq) = Sched /\ lockq' = Tail(lockq)
  BY DEF TryCollect, Holds, Release
<1>2. CASE CollectBatch(k)
  <2>1. ArrivalInv' /\ TakesAhead(Collected(k))
    BY <1>1, <1>2, CollectedUnderLock
  <2>2. pulled' = pulled \cup Collected(k) /\ Collected(k) \in SUBSET Waiting
    BY <1>2, <2>1 DEF CollectBatch, TakesAhead
  <2>3. QED
    BY <2>1, <2>2
<1>3. CASE UNCHANGED <<deques, pulled>>
  <2>1. interactive' = interactive /\ batch' = batch /\ pulled' = pulled \cup {}
    BY <1>3 DEF deques
  <2>2. ArrivalInv' /\ Waiting' = Waiting
    BY <1>1, <2>1, LockLeft
  <2>3. TakesAhead({})
    BY <1>1, <2>1, <2>2, TakesNone
  <2>4. QED
    BY <2>1, <2>2, <2>3
<1>4. QED
  BY <1>2, <1>3 DEF TryCollect

\* A task gives up its place in the queue for the lock and joins at the end.
LEMMA RejoinMoves ==
  ASSUME NEW s \in Seq(Task), NEW k \in 1..Len(s)
  PROVE  LET q == SubSeq(s, 1, k - 1) \o Append(Drop(s, k), Sched) IN
         /\ Len(q) = Len(s)
         /\ \A i \in 1..(k - 1) : q[i] = s[i]
         /\ \A i \in k..(Len(s) - 1) : q[i] = s[i + 1]
         /\ q[Len(s)] = Sched
<1> DEFINE front == SubSeq(s, 1, k - 1)
           rest == Drop(s, k)
           q == front \o Append(rest, Sched)
<1>1. Len(s) \in Nat /\ \A i \in 1..Len(s) : s[i] \in Task
  BY LenProperties, ElementOfSeq
<1>2. /\ front \in Seq(Task) /\ Len(front) = k - 1
      /\ \A i \in 1..(k - 1) : front[i] = s[i]
  <2>1. \A i \in 1..(k - 1) : s[i] \in Task
    BY <1>1
  <2>2. /\ front \in Seq(Task)
        /\ Len(front) = IF 1 <= k - 1 THEN (k - 1) - 1 + 1 ELSE 0
        /\ \A i \in 1..((k - 1) - 1 + 1) : front[i] = s[1 + i - 1]
    BY <1>1, <2>1, SubSeqProperties
  <2>3. QED
    BY <1>1, <2>2
<1>3. /\ rest \in Seq(Task) /\ Len(rest) = Len(s) - k
      /\ \A i \in 1..(Len(s) - k) : rest[i] = s[k + i]
  BY <1>1, DropType
<1> HIDE DEF front, rest
<1>4. /\ Append(rest, Sched) \in Seq(Task)
      /\ Len(Append(rest, Sched)) = Len(rest) + 1
      /\ \A i \in 1..Len(rest) : Append(rest, Sched)[i] = rest[i]
      /\ Append(rest, Sched)[Len(rest) + 1] = Sched
  <2>1. Sched \in Task
    BY DEF Task
  <2>2. QED
    BY <1>3, <2>1, AppendProperties
<1>5. /\ Len(q) = Len(s)
      /\ \A i \in 1..(k - 1) : q[i] = s[i]
      /\ \A i \in k..(Len(s) - 1) : q[i] = s[i + 1]
      /\ q[Len(s)] = Sched
  <2>1. /\ Len(q) = Len(front) + Len(Append(rest, Sched))
        /\ \A i \in 1..(Len(front) + Len(Append(rest, Sched))) :
             q[i] = IF i <= Len(front) THEN front[i]
                    ELSE Append(rest, Sched)[i - Len(front)]
    BY <1>2, <1>4, ConcatProperties
  <2>2. Len(q) = Len(s)
    BY <1>1, <1>2, <1>3, <1>4, <2>1
  <2>3. \A i \in 1..(k - 1) : q[i] = s[i]
    BY <1>1, <1>2, <1>3, <1>4, <2>1
  <2>4. \A i \in k..(Len(s) - 1) : q[i] = s[i + 1]
    <3>1. TAKE i \in k..(Len(s) - 1)
    <3>2. q[i] = Append(rest, Sched)[i - (k - 1)]
      BY <1>1, <1>2, <1>3, <1>4, <2>1
    <3>3. i - (k - 1) \in 1..Len(rest)
      BY <1>1, <1>3
    <3>4. k + (i - (k - 1)) = i + 1
      BY <1>1
    <3>5. QED
      BY <1>3, <1>4, <3>2, <3>3, <3>4
  <2>5. q[Len(s)] = Sched
    <3>1. /\ Len(s) \in 1..(Len(front) + Len(Append(rest, Sched)))
          /\ ~(Len(s) <= Len(front))
          /\ Len(s) - Len(front) = Len(rest) + 1
      BY <1>1, <1>2, <1>3, <1>4
    <3>2. q[Len(s)] = Append(rest, Sched)[Len(rest) + 1]
      BY <2>1, <3>1
    <3>3. QED
      BY <1>4, <3>2
  <2>6. QED
    BY <2>2, <2>3, <2>4, <2>5
<1>6. QED
  BY <1>5 DEF q, front, rest

\* Each step of get_next_batch and pull_batch keeps the queue's variables
\* well formed, and the batch short wherever the code relies on its room.
LEMMA PullBatchType ==
  ASSUME QTypeOK, NEW k \in Nat \ {0},
         qpc \in RoomPC => Cardinality(pulled) < k,
         qpc # "idle",
         PullBatch(Sched, k)
  PROVE  /\ QTypeOK'
         /\ (qpc \in RoomPC => Cardinality(pulled) < k)'
         /\ qpc' # "idle"
<1> USE DEF CanRun, Holds, Release, Suspend, NotifyAll, Acquire
<1>1. /\ k \in Nat \ {0}
      /\ Sched \in Task
      /\ IsFiniteSet(pulled) /\ Cardinality(pulled) \in Nat
      /\ lockq \in Seq(Task)
  BY SizeOfRequests DEF QTypeOK, Task
<1>2. /\ Append(lockq, Sched) \in Seq(Task)
      /\ lockq # <<>> => Tail(lockq) \in Seq(Task)
      /\ \A n \in 1..Len(lockq) :
           SubSeq(lockq, 1, n - 1) \o Append(Drop(lockq, n), Sched) \in Seq(Task)
  BY <1>1, LockQueueType
<1>3. CASE GetCollect(Sched, k)
  BY <1>1, <1>2, <1>3, CollectType
     DEF GetCollect, QTypeOK, RoomPC, PullPC
<1>4. CASE GetNothing(Sched)
  BY <1>1, <1>2, <1>4 DEF GetNothing, QTypeOK, RoomPC, PullPC, deques
<1>5. CASE GetWait(Sched)
  BY <1>1, <1>2, <1>5 DEF GetWait, QTypeOK, RoomPC, PullPC, deques
<1>6. CASE GetWoken(Sched)
  BY <1>1, <1>2, <1>6 DEF GetWoken, QTypeOK, RoomPC, PullPC, deques
<1>7. CASE WindowClose(Sched)
  BY <1>1, <1>7 DEF WindowClose, QTypeOK, RoomPC, PullPC, deques
<1>8. CASE WindowLock(Sched, k)
  BY <1>1, <1>2, <1>8 DEF WindowLock, QTypeOK, RoomPC, PullPC, deques
<1>9. CASE WindowDraining(Sched)
  BY <1>1, <1>2, <1>9 DEF WindowDraining, QTypeOK, RoomPC, PullPC, deques
<1>10. CASE WindowExtra(Sched, k)
  <2>1. k - Cardinality(pulled) \in Nat
    BY <1>1, <1>10 DEF WindowExtra, RoomPC
  <2>2. QED
    BY <1>1, <1>2, <1>10, <2>1, CollectType
       DEF WindowExtra, QTypeOK, RoomPC, PullPC
<1>11. CASE WindowWait(Sched)
  BY <1>1, <1>11 DEF WindowWait, QTypeOK, RoomPC, PullPC, deques
<1>12. CASE WindowSleep(Sched)
  BY <1>1, <1>2, <1>12 DEF WindowSleep, QTypeOK, RoomPC, PullPC, deques
<1>13. CASE WindowWoken(Sched)
  BY <1>1, <1>2, <1>13 DEF WindowWoken, QTypeOK, RoomPC, PullPC, deques
<1>14. CASE WindowGranted(Sched)
  BY <1>1, <1>14 DEF WindowGranted, QTypeOK, RoomPC, PullPC, deques
<1>15. CASE WindowCollect(Sched, k)
  <2>1. k - Cardinality(pulled) \in Nat
    BY <1>1, <1>15 DEF WindowCollect, RoomPC
  <2>2. CASE draining
    BY <1>1, <1>2, <1>15, <2>2
       DEF WindowCollect, QTypeOK, RoomPC, PullPC, deques
  <2>3. CASE ~draining
    BY <1>1, <1>2, <1>15, <2>1, <2>3, CollectType
       DEF WindowCollect, QTypeOK, RoomPC, PullPC
  <2>4. QED
    BY <2>2, <2>3
<1>16. CASE WindowTimeout(Sched)
  BY <1>1, <1>2, <1>16 DEF WindowTimeout, QTypeOK, RoomPC, PullPC, deques
<1>17. CASE WindowTimeoutQueued(Sched)
  BY <1>1, <1>2, <1>17 DEF WindowTimeoutQueued, QTypeOK, RoomPC, PullPC, deques
<1>18. CASE WindowExpired(Sched)
  BY <1>1, <1>2, <1>18 DEF WindowExpired, QTypeOK, RoomPC, PullPC, deques
<1>19. QED
  BY <1>3, <1>4, <1>5, <1>6, <1>7, <1>8, <1>9, <1>10, <1>11, <1>12, <1>13,
     <1>14, <1>15, <1>16, <1>17, <1>18 DEF PullBatch

\* The first n items of a deque are n different requests.
LEMMA PrefixCounted ==
  ASSUME QTypeOK, NEW s \in Seq(Request), InOrder(s, sequence), NEW n \in 0..Len(s)
  PROVE  Cardinality(Range(SubSeq(s, 1, n))) = n
<1>1. n \in Nat /\ Len(s) \in Nat /\ \A i \in 1..Len(s) : s[i] \in Request
  BY LenProperties, ElementOfSeq
<1>2. IsFiniteSet(1..n) /\ Cardinality(1..n) = n
  BY <1>1, IntervalSize
<1> DEFINE T == Range(SubSeq(s, 1, n))
           f == [i \in 1..n |-> s[i]]
<1>3. \A x : x \in T <=> \E i \in 1..n : s[i] = x
  BY RangeOfCut
<1> HIDE DEF T
<1>4. f \in [1..n -> T] /\ \A x \in T : \E i \in 1..n : f[i] = x
  BY <1>3
<1>5. ASSUME NEW i \in 1..n, NEW j \in 1..n, f[i] = f[j] PROVE i = j
  <2>1. i \in 1..Len(s) /\ j \in 1..Len(s) /\ s[i] = s[j] /\ i \in Nat /\ j \in Nat
    BY <1>1, <1>5
  <2>2. sequence[s[i]] \in Nat
    BY <1>1, <2>1 DEF QTypeOK
  <2>3. ~(i < j) /\ ~(j < i)
    BY <1>1, <2>1, <2>2 DEF InOrder
  <2>4. QED
    BY <2>1, <2>3
<1>6. f \in Bijection(1..n, T)
  BY <1>4, <1>5 DEF Bijection, Injection, Surjection, IsInjective
<1>7. Cardinality(T) = n
  BY <1>2, <1>6, FS_Bijection DEF ExistsBijection
<1>8. QED
  BY <1>7 DEF T

\* The first item of a deque came before the others.
LEMMA FirstIsLeast ==
  ASSUME QTypeOK, NEW s \in Seq(Request), s # <<>>, InOrder(s, sequence)
  PROVE  \E x \in Range(s) :
           x \in Request /\ \A y \in Range(s) : sequence[x] <= sequence[y]
<1>1. /\ Len(s) \in Nat /\ Len(s) # 0 /\ \A n \in 1..Len(s) : s[n] \in Request
      /\ Range(s) = {s[n] : n \in 1..Len(s)}
  BY LenProperties, ElementOfSeq, RangeEquality, EmptySeq
<1>2. 1 \in 1..Len(s) /\ \A n \in 1..Len(s) : n = 1 \/ 1 < n
  BY <1>1
<1>3. \A n \in 1..Len(s) : sequence[s[1]] <= sequence[s[n]]
  BY <1>1, <1>2 DEF InOrder, QTypeOK
<1>4. QED
  BY <1>1, <1>2, <1>3

\* Who leaves something in the deques has taken as much as he had room for.
LEMMA CollectFills ==
  ASSUME QTypeOK, ArrivalInv, NEW k \in Nat, CollectBatch(k), HasReady',
         \A q, r \in Range(interactive) \cup Range(batch) :
           sequence[q] = sequence[r] => q = r
  PROVE  Cardinality(Collected(k)) = k
<1> DEFINE ti == TakeInteractive(k)
           tb == TakeBatch(k)
           fi == Range(SubSeq(interactive, 1, ti))
           fb == Range(SubSeq(batch, 1, tb))
<1>1. /\ ti \in 0..Len(interactive) /\ tb \in 0..Len(batch)
      /\ interactive \in Seq(InteractiveRequest) /\ batch \in Seq(BatchRequest)
      /\ interactive \in Seq(Request) /\ batch \in Seq(Request)
      /\ Len(interactive) \in Nat /\ Len(batch) \in Nat
  BY TakeType, LenProperties, SeqMonotonic DEF QTypeOK, Request
<1>2. /\ Collected(k) = fi \cup fb
      /\ interactive' = Drop(interactive, ti) /\ batch' = Drop(batch, tb)
  BY DEF Collected, CollectBatch
<1>3. ti < Len(interactive) \/ tb < Len(batch)
  <2>1. Len(interactive') = Len(interactive) - ti /\ Len(batch') = Len(batch) - tb
    BY <1>1, <1>2, DropType
  <2>2. interactive' # <<>> => Len(interactive') # 0
    BY <1>1, <1>2, DropType, EmptySeq
  <2>3. batch' # <<>> => Len(batch') # 0
    BY <1>1, <1>2, DropType, EmptySeq
  <2> HIDE DEF ti, tb
  <2>4. QED
    BY <1>1, <2>1, <2>2, <2>3 DEF HasReady
<1>4. CASE PriorityScheduling
  <2>1. /\ ti = Least(Len(interactive), k - Least(aged, k))
        /\ tb = Least(Len(batch), k - ti)
        /\ aged \in 0..Len(batch)
    BY <1>4 DEF TakeInteractive, TakeBatch, QTypeOK
  <2> HIDE DEF ti, tb
  <2>2. ti + tb = k
    <3>1. /\ aged \in Nat /\ aged <= Len(batch) /\ ti \in Nat /\ tb \in Nat
          /\ Len(interactive) \in Nat /\ Len(batch) \in Nat
      BY <1>1, <2>1
    <3>2. PICK d \in Nat : d = Least(aged, k) /\ d <= aged /\ d <= k
      BY <3>1 DEF Least
    <3>3. PICK e \in Nat : e = k - d
      BY <3>2
    <3>4. ti = Least(Len(interactive), e)
      BY <2>1, <3>2, <3>3
    <3>5. PICK c \in Nat : c = k - ti
      <4>1. ti <= e
        BY <3>1, <3>3, <3>4 DEF Least
      <4>2. k - ti \in Nat
        BY <3>1, <3>2, <3>3, <4>1
      <4>3. QED
        BY <4>2
    <3>6. tb = Least(Len(batch), c)
      BY <2>1, <3>5
    <3>7. CASE ti < Len(interactive)
      <4>1. ti = e
        BY <3>1, <3>3, <3>4, <3>7 DEF Least
      <4>2. c = d /\ c <= Len(batch)
        BY <3>1, <3>2, <3>3, <3>5, <4>1
      <4>3. QED
        BY <3>1, <3>5, <3>6, <4>2 DEF Least
    <3>8. CASE tb < Len(batch)
      BY <3>1, <3>5, <3>6, <3>8 DEF Least
    <3>9. QED
      BY <1>3, <3>7, <3>8
  <2>3. /\ IsFiniteSet(fi) /\ Cardinality(fi) = ti
        /\ IsFiniteSet(fb) /\ Cardinality(fb) = tb
    BY <1>1, PrefixSize, PrefixCounted DEF ArrivalInv
  <2>4. fi \cap fb = {}
    BY <1>1, PrefixRange, PrioritiesDisjoint
  <2> HIDE DEF fi, fb
  <2>5. Cardinality(fi \cup fb) = Cardinality(fi) + Cardinality(fb) - Cardinality(fi \cap fb)
    BY <2>3, FS_Union
  <2>6. Cardinality(fi \cap fb) = 0
    BY <2>4, FS_EmptySet
  <2>7. QED
    BY <1>1, <1>2, <2>2, <2>3, <2>5, <2>6
<1>5. CASE ~PriorityScheduling
  <2>1. ti = Cardinality(FifoFirst(interactive, k)) /\ tb = Cardinality(FifoFirst(batch, k))
    BY <1>5 DEF TakeInteractive, TakeBatch
  <2>2. /\ \A n \in 1..Len(interactive) : n <= ti <=> Cardinality(UpTo(interactive[n])) <= k
        /\ \A n \in 1..Len(batch) : n <= tb <=> Cardinality(UpTo(batch[n])) <= k
    <3>1. interactive \in Seq(Request) /\ batch \in Seq(Request)
      BY <1>1
    <3>2. InOrder(interactive, sequence) /\ InOrder(batch, sequence)
      BY DEF ArrivalInv
    <3> HIDE DEF ti, tb
    <3>3. \A n \in 1..Len(interactive) : n <= ti <=> Cardinality(UpTo(interactive[n])) <= k
      BY <2>1, <3>1, <3>2, FifoFirstIsPrefix
    <3>4. \A n \in 1..Len(batch) : n <= tb <=> Cardinality(UpTo(batch[n])) <= k
      BY <2>1, <3>1, <3>2, FifoFirstIsPrefix
    <3>5. QED
      BY <3>3, <3>4
  <2> DEFINE queued == Range(interactive) \cup Range(batch)
             left == Range(interactive') \cup Range(batch')
  <2>3. /\ left = queued \ Collected(k)
        /\ InOrder(interactive', sequence) /\ InOrder(batch', sequence)
        /\ interactive' \in Seq(Request) /\ batch' \in Seq(Request)
    BY <1>1, <1>2, CollectMoves, DropType
  <2>4. \A x \in left : ~(Cardinality(UpTo(x)) <= k)
    <3> HIDE DEF ti, tb
    <3>1. SUFFICES ASSUME NEW x \in left PROVE ~(Cardinality(UpTo(x)) <= k)
      OBVIOUS
    <3>2. CASE x \in Range(interactive')
      <4>1. PICK n \in (ti + 1)..Len(interactive) : interactive[n] = x
        BY <1>1, <1>2, <3>2, RangeOfCut
      <4>2. n \in 1..Len(interactive) /\ ~(n <= ti)
        BY <1>1
      <4>3. QED
        BY <2>2, <4>1, <4>2
    <3>3. CASE x \in Range(batch')
      <4>1. PICK n \in (tb + 1)..Len(batch) : batch[n] = x
        BY <1>1, <1>2, <3>3, RangeOfCut
      <4>2. n \in 1..Len(batch) /\ ~(n <= tb)
        BY <1>1
      <4>3. QED
        BY <2>2, <4>1, <4>2
    <3>4. QED
      BY <3>2, <3>3
  \* The first that is left behind comes next after all who are taken.
  <2>5. PICK x \in left : \A y \in left : sequence[x] <= sequence[y]
    <3> Range(<<>>) = {}
      BY EmptySeq DEF Range
    <3>1. CASE interactive' = <<>>
      <4>1. batch' # <<>> /\ left = Range(batch')
        BY <3>1 DEF HasReady
      <4>2. QED
        BY <2>3, <4>1, FirstIsLeast
    <3>2. CASE batch' = <<>>
      <4>1. interactive' # <<>> /\ left = Range(interactive')
        BY <3>2 DEF HasReady
      <4>2. QED
        BY <2>3, <4>1, FirstIsLeast
    <3>3. CASE interactive' # <<>> /\ batch' # <<>>
      <4>1. PICK a \in Range(interactive') :
              a \in Request /\ \A y \in Range(interactive') : sequence[a] <= sequence[y]
        BY <2>3, <3>3, FirstIsLeast
      <4>2. PICK b \in Range(batch') :
              b \in Request /\ \A y \in Range(batch') : sequence[b] <= sequence[y]
        BY <2>3, <3>3, FirstIsLeast
      <4>3. /\ \A y \in left : sequence[y] \in Nat
            /\ sequence[a] \in Nat /\ sequence[b] \in Nat
        BY <2>3, RangeOfSeq DEF QTypeOK
      <4>4. CASE sequence[a] <= sequence[b]
        <5>1. \A y \in left : sequence[a] <= sequence[y]
          BY <4>1, <4>2, <4>3, <4>4
        <5>2. QED
          BY <5>1
      <4>5. CASE sequence[b] <= sequence[a]
        <5>1. \A y \in left : sequence[b] <= sequence[y]
          BY <4>1, <4>2, <4>3, <4>5
        <5>2. QED
          BY <5>1
      <4>6. QED
        BY <4>3, <4>4, <4>5
    <3>4. QED
      BY <3>1, <3>2, <3>3
  <2>6. queued \in SUBSET Request /\ \A y \in Request : sequence[y] \in Nat
    BY <1>1, RangeOfSeq DEF QTypeOK
  <2>7. UpTo(x) \in SUBSET (Collected(k) \cup {x})
    <3>1. SUFFICES ASSUME NEW y \in queued, sequence[y] <= sequence[x], y \notin Collected(k)
                   PROVE  y = x
      BY DEF UpTo
    <3>2. sequence[x] <= sequence[y] /\ x \in queued
      BY <2>3, <2>5, <3>1
    <3>3. sequence[x] = sequence[y]
      BY <2>6, <3>1, <3>2
    <3>4. QED
      BY <3>2, <3>3
  <2>8. IsFiniteSet(Collected(k)) /\ Cardinality(Collected(k)) \in 0..k /\ x \notin Collected(k)
    BY <2>3, CollectFits
  <2>9. /\ IsFiniteSet(Collected(k) \cup {x})
        /\ Cardinality(Collected(k) \cup {x}) = Cardinality(Collected(k)) + 1
    BY <2>8, FS_AddElement
  <2>10. /\ Cardinality(UpTo(x)) <= Cardinality(Collected(k) \cup {x})
         /\ Cardinality(UpTo(x)) \in Nat
    BY <2>7, <2>9, FS_Subset, FS_CardinalityType
  <2>11. ~(Cardinality(UpTo(x)) <= k)
    BY <2>4
  <2>12. QED
    BY <2>8, <2>9, <2>10, <2>11
<1>6. QED
  BY <1>4, <1>5
=============================================================================
