--------------------------- MODULE PromotionScan ---------------------------
(***************************************************************************)
(* _collect_batch of src/server/request_queue.py with priorities on, item  *)
(* by item.  Nothing else runs while it scans the batch deque, but time    *)
(* passes: each item is compared with a clock of its own.  RequestQueue    *)
(* collects in one step with one clock; this module says when it may.      *)
(*                                                                         *)
(* A request that was taken may come back, so that arrivals never end.     *)
(***************************************************************************)
EXTENDS Integers, Sequences, FiniteSets, Functions

CONSTANTS
  InteractiveRequest,
  BatchRequest,
  MaxBatchSize,         \* the largest room a caller has
  PromotionThreshold    \* the age, in ticks, at which a batch item is due

ASSUME PrioritiesDisjoint == InteractiveRequest \cap BatchRequest = {}
ASSUME BatchSizeIsPositive == MaxBatchSize \in Nat \ {0}
ASSUME ThresholdIsPositive == PromotionThreshold \in Nat \ {0}

VARIABLES
  interactive, batch,   \* the deques
  age,                  \* of each batch item, up to the threshold
  room,                 \* max_size while a scan is under way, else 0
  unread,               \* the items of batch that the scan has not read
  promoted, remaining,  \* and what it did with those it has
  due,                  \* how many were due when it began
  pulled                \* what the last collection has taken

deques == <<interactive, batch>>
scan == <<room, unread, promoted, remaining, due>>
vars == <<deques, age, scan, pulled>>

DueItems == {b \in Range(batch) : age[b] >= PromotionThreshold}

IsPromotionEligible(b) == age[b] >= PromotionThreshold

-----------------------------------------------------------------------------
ArriveInteractive(r) ==
  /\ room = 0
  /\ r \notin Range(interactive)
  /\ interactive' = Append(interactive, r)
  /\ UNCHANGED <<batch, age, scan, pulled>>

ArriveBatch(b) ==
  /\ room = 0
  /\ b \notin Range(batch)
  /\ batch' = Append(batch, b)
  /\ age' = [age EXCEPT ![b] = 0]
  /\ UNCHANGED <<interactive, scan, pulled>>

\* Between two scans, or between two reads of one.
Tick ==
  /\ age' = [b \in BatchRequest |->
       IF b \in Range(batch) /\ age[b] < PromotionThreshold THEN age[b] + 1
       ELSE age[b]]
  /\ UNCHANGED <<deques, scan, pulled>>

-----------------------------------------------------------------------------
ScanStart(k) ==
  /\ room = 0 /\ interactive \o batch # <<>>
  /\ room' = k
  /\ unread' = batch
  /\ promoted' = <<>> /\ remaining' = <<>>
  /\ due' = Cardinality(DueItems)
  /\ pulled' = {}
  /\ UNCHANGED <<deques, age>>

\* Slip: an item that is not due goes to the front of what remains.
ScanItemToFront ==
  /\ room > 0 /\ unread # <<>>
  /\ IF IsPromotionEligible(Head(unread)) /\ Len(promoted) < room
       THEN promoted' = Append(promoted, Head(unread)) /\ UNCHANGED remaining
       ELSE remaining' = <<Head(unread)>> \o remaining /\ UNCHANGED promoted
  /\ unread' = Tail(unread)
  /\ UNCHANGED <<deques, age, room, due, pulled>>

ScanItem ==
  /\ room > 0 /\ unread # <<>>
  /\ IF IsPromotionEligible(Head(unread)) /\ Len(promoted) < room
       THEN promoted' = Append(promoted, Head(unread)) /\ UNCHANGED remaining
       ELSE remaining' = Append(remaining, Head(unread)) /\ UNCHANGED promoted
  /\ unread' = Tail(unread)
  /\ UNCHANGED <<deques, age, room, due, pulled>>

Least(m, n) == IF m <= n THEN m ELSE n

Take(s, n) == SubSeq(s, 1, Least(n, Len(s)))
Leave(s, n) == SubSeq(s, Least(n, Len(s)) + 1, Len(s))

\* Slip: batch items fill the room before interactive requests do.
FillBatchFirst ==
  LET left == room - Len(promoted)
      space == left - Len(Take(remaining, left))
  IN  /\ room > 0 /\ unread = <<>>
      /\ batch' = Leave(remaining, left)
      /\ interactive' = Leave(interactive, space)
      /\ pulled' = Range(promoted) \cup Range(Take(interactive, space))
                     \cup Range(Take(remaining, left))
      /\ room' = 0 /\ promoted' = <<>> /\ remaining' = <<>> /\ due' = 0
      /\ UNCHANGED <<age, unread>>

\* Slip: the scan's remaining items do not replace the deque.
FillFromDeque ==
  LET left == room - Len(promoted)
      space == left - Len(Take(interactive, left))
  IN  /\ room > 0 /\ unread = <<>>
      /\ interactive' = Leave(interactive, left)
      /\ batch' = Leave(batch, space)
      /\ pulled' = Range(promoted) \cup Range(Take(interactive, left))
                     \cup Range(Take(batch, space))
      /\ room' = 0 /\ promoted' = <<>> /\ remaining' = <<>> /\ due' = 0
      /\ UNCHANGED <<age, unread>>

\* Slip: promoted items get only what interactive requests leave.
FillInteractiveFirst ==
  LET rest == promoted \o remaining
      space == room - Len(Take(interactive, room))
  IN  /\ room > 0 /\ unread = <<>>
      /\ interactive' = Leave(interactive, room)
      /\ batch' = Leave(rest, space)
      /\ pulled' = Range(Take(interactive, room)) \cup Range(Take(rest, space))
      /\ room' = 0 /\ promoted' = <<>> /\ remaining' = <<>> /\ due' = 0
      /\ UNCHANGED <<age, unread>>

\* What the promoted items leave is filled with interactive requests, and what
\* these leave with batch items.
Fill ==
  LET left == room - Len(promoted)
      space == left - Len(Take(interactive, left))
  IN  /\ room > 0 /\ unread = <<>>
      /\ interactive' = Leave(interactive, left)
      /\ batch' = Leave(remaining, space)
      /\ pulled' = Range(promoted) \cup Range(Take(interactive, left))
                     \cup Range(Take(remaining, space))
      /\ room' = 0 /\ promoted' = <<>> /\ remaining' = <<>> /\ due' = 0
      /\ UNCHANGED <<age, unread>>

-----------------------------------------------------------------------------
Init ==
  /\ interactive = <<>> /\ batch = <<>>
  /\ age = [b \in BatchRequest |-> 0]
  /\ room = 0 /\ unread = <<>> /\ promoted = <<>> /\ remaining = <<>> /\ due = 0
  /\ pulled = {}

Collect == (\E k \in 1..MaxBatchSize : ScanStart(k)) \/ ScanItem \/ Fill

Next ==
  \/ \E r \in InteractiveRequest : ArriveInteractive(r)
  \/ \E b \in BatchRequest : ArriveBatch(b)
  \/ Tick
  \/ Collect

\* The scheduler collects again and again, and time passes.
Spec == Init /\ [][Next]_vars /\ WF_vars(Collect) /\ WF_vars(Tick)

-----------------------------------------------------------------------------
(* Properties. *)

Queue ==
  INSTANCE RequestQueue WITH
    aged <- Cardinality(DueItems),
    PriorityScheduling <- TRUE,
    Sched <- "sched", Orch <- "orch", NoTask <- "no task",
    sequence <- [r \in InteractiveRequest \cup BatchRequest |-> 0],
    next_sequence <- 0, draining <- FALSE,
    lockq <- <<>>, waiters <- {}, running <- "no task", qpc <- "idle"

\* Unless an item comes due in the middle of a scan, the scan does what the one
\* step of RequestQueue does.
CollectsInOneStep == [][Fill /\ due = Cardinality(DueItems) => Queue!CollectBatch(room)]_vars

Before(s, x, y) == \E m \in 1..Len(s) : \E n \in m+1..Len(s) : s[m] = x /\ s[n] = y

\* When some do, each request is taken or left all the same, never both, the
\* batch is within its size, and what is left keeps its order.
ScanLosesNothing ==
  [][Fill =>
       LET left == Range(interactive') \cup Range(batch')
           all == Range(interactive) \cup Range(batch)
       IN  /\ pulled' = all \ left /\ left \subseteq all
           /\ Cardinality(pulled') <= room
           /\ \A x, y \in Range(batch') : Before(batch', x, y) => Before(batch, x, y)]_vars

\* Whatever the clock does during a scan, the items that were due before it are
\* taken first, as far as there is room, so only items that came due meanwhile
\* overtake an older one; and an item that is not due leaves no interactive
\* request behind.
DueItemsKeepTheirTurn ==
  [][Fill =>
       /\ \A n \in 1..due : n <= room => batch[n] \in pulled'
       /\ \A x \in Range(batch'), y \in pulled' : Before(batch, x, y) =>
            /\ y \notin {batch[n] : n \in 1..due}
            /\ y \in DueItems
       /\ interactive' # <<>> => pulled' \cap BatchRequest \subseteq DueItems]_vars

\* What promotion is for: a batch item is taken in the end, however many
\* interactive requests keep coming.
BatchNeverStarves ==
  \A b \in BatchRequest : b \in Range(batch) ~> b \notin Range(batch)

\* Interactive requests have no such promise: a supply of due items that fills
\* every batch keeps them waiting.  They are taken in the end if again and again
\* a collection has room for more than what is due.
InteractiveServedIfRoom ==
  []<>(room > 0 /\ unread = <<>> /\ Len(promoted) < room) =>
    \A r \in InteractiveRequest : r \in Range(interactive) ~> r \notin Range(interactive)

-----------------------------------------------------------------------------
(* Inductive invariants: what the proofs need besides the properties.      *)

Once(s) == \A m, n \in 1..Len(s) : s[m] = s[n] => m = n

\* Nobody is in a deque twice, and who is further ahead in batch is no younger.
DequesInv ==
  /\ interactive \in Seq(InteractiveRequest) /\ Once(interactive)
  /\ batch \in Seq(BatchRequest) /\ Once(batch)
  /\ age \in [BatchRequest -> Nat]
  /\ \A i, j \in 1..Len(batch) : i < j => age[batch[j]] <= age[batch[i]]

ReadSoFar == Len(batch) - Len(unread)

\* The items of s follow each other as they do in batch.
InBatchOrder(s) ==
  \A m, n \in 1..Len(s), i, j \in 1..Len(batch) :
    m < n /\ s[m] = batch[i] /\ s[n] = batch[j] => i < j

\* The scan divides what it has read among the two lists, in the order of the deque.
ScanInv ==
  /\ room \in 0..MaxBatchSize
  /\ room > 0 =>
       /\ pulled = {}
       /\ Len(unread) \in 0..Len(batch)
       /\ unread = SubSeq(batch, ReadSoFar + 1, Len(batch))
       /\ {promoted, remaining} \subseteq Seq(BatchRequest)
       /\ Len(promoted) + Len(remaining) = ReadSoFar
       /\ \A m \in 1..Len(promoted), n \in 1..Len(remaining) : promoted[m] # remaining[n]
       /\ \A i \in 1..Len(batch) :
            i <= ReadSoFar <=> batch[i] \in Range(promoted) \cup Range(remaining)
       /\ Range(promoted) \cup Range(remaining) \subseteq Range(batch)
       /\ InBatchOrder(promoted) /\ InBatchOrder(remaining)

\* What is promoted is due and fits; what was due at the start is promoted as far
\* as there is room, from the front; and unless an item came due meanwhile, the
\* items that remain are those behind the promoted ones.
PromotionInv ==
  room > 0 =>
    /\ Len(promoted) <= room
    /\ Range(promoted) \subseteq DueItems
    /\ due \in 0..Len(batch)
    /\ \A i \in 1..due : batch[i] \in DueItems
    /\ \A i \in 1..due :
         i <= ReadSoFar /\ (i <= room \/ Len(promoted) < room) => batch[i] \in Range(promoted)
    /\ \A m \in 1..Len(promoted), i \in 1..due : promoted[m] = batch[i] => m = i
    /\ (\A m \in 1..Len(promoted) : \E i \in 1..due : promoted[m] = batch[i]) =>
         \A n \in 1..Len(remaining) : remaining[n] = batch[Len(promoted) + n]
=============================================================================
