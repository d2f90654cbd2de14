-------------------------- MODULE CounterGuardProofs --------------------------
(***************************************************************************)
(* GuardInv holds of every batch, however long, and of every sequence of   *)
(* batches; and what the guard makes of batches of a known history: a      *)
(* counter that rises, one that is replaced, one foreign sample, and one   *)
(* that rises but is judged by a foreign value on record.                  *)
(***************************************************************************)
EXTENDS CounterGuard, TLAPS

LEMMA EmptyBatch ==
  ASSUME NEW S PROVE <<>> \in Seq(S) /\ Len(<<>>) = 0 /\ 1..Len(<<>>) = {}
OBVIOUS

LEMMA GuardInit == Init => GuardInv
<1> SUFFICES ASSUME Init PROVE GuardInv
  OBVIOUS
<1>1. batch \in Seq(Nat \cup {NoValue}) /\ Len(batch) = 0 /\ Position = {} /\ 1..(1 - 1) = {}
  BY EmptyBatch DEF Init, Position
<1>2. judgedBy \in [Position -> Nat \cup {NoValue}]
  BY DEF Init, Position, NotJudged
<1>3. TypeOK
  <2>1. i \in 1..(Len(batch) + 1)
    BY <1>1 DEF Init
  <2>2. known \in Nat \cup {NoValue} /\ floor \in Nat \cup {NoValue} /\ newest \in Nat \cup {NoValue}
    BY DEF Init
  <2>3. accepted \in SUBSET Position /\ rejected \in SUBSET Position /\ resets \in SUBSET accepted
    BY DEF Init
  <2> QED
    BY <1>1, <1>2, <2>1, <2>2, <2>3 DEF TypeOK
<1>4. Partition /\ RejectedReturned
  BY <1>1 DEF Init, Partition, RejectedReturned
<1> QED
  BY <1>3, <1>4 DEF GuardInv

LEMMA BeginStep ==
  ASSUME GuardInv, NEW b \in Batches, Begin(b)
  PROVE  GuardInv'
<1>1. b \in Seq(Nat \cup {NoValue}) /\ Len(b) \in Nat
  BY CounterGuardAssumption
<1>2. i = 1 /\ accepted = {} /\ rejected = {} /\ resets = {}
  BY DEF GuardInv, TypeOK, Partition, Begin, Position
<1>3. TypeOK'
  BY <1>1, <1>2 DEF GuardInv, TypeOK, Begin, LastKnown, NotJudged, Position, NoValue
<1> QED
  BY <1>2, <1>3 DEF GuardInv, Partition, RejectedReturned, Begin

\* A step that judges the samples i..n-1: what was judged before stays judged.
LEMMA JudgeStep ==
  ASSUME GuardInv, ~Finished, NEW n \in (i + 1)..(Len(batch) + 1), Judge(n)
  PROVE  /\ i \in Position /\ i..(n - 1) \subseteq Position
         /\ batch' = batch /\ Position' = Position
         /\ i' \in 1..(Len(batch') + 1)
         /\ judgedBy' \in [Position -> Nat \cup {NoValue}]
         /\ \A j \in 1..(i - 1) : judgedBy'[j] = judgedBy[j]
         /\ \A j \in i..(n - 1) : judgedBy'[j] = floor
         /\ 1..(i' - 1) = 1..(i - 1) \cup i..(n - 1)
         /\ 1..(i - 1) \cap i..(n - 1) = {}
<1>1. Len(batch) \in Nat /\ i \in 1..Len(batch)
  BY DEF GuardInv, TypeOK, Finished
<1> QED
  BY <1>1 DEF GuardInv, TypeOK, Judge, Position

LEMMA AcceptStep ==
  ASSUME GuardInv, ~Finished, NEW n \in (i + 1)..(Len(batch) + 1), Accept(n),
         \A j \in i..(n - 1) : Readable(j),
         floor' \in Nat \cup {NoValue}, resets' \in SUBSET accepted'
  PROVE  GuardInv'
<1>1. Judge(n) /\ accepted' = accepted \cup i..(n - 1) /\ rejected' = rejected
  BY DEF Accept
<1>2. TypeOK'
  BY <1>1, JudgeStep DEF GuardInv, TypeOK, Judge
<1>3. Partition'
  BY <1>1, JudgeStep DEF GuardInv, Partition, Readable
<1>4. RejectedReturned'
  <2> SUFFICES ASSUME NEW j \in rejected, Readable(j)
               PROVE  \E k \in (j + 1)..(j + Confirm) :
                        /\ k \in Position /\ Readable(k)
                        /\ batch[k] >= judgedBy'[j] - Tolerance
                        /\ batch[j] > judgedBy'[j] => batch[k] < batch[j] - Tolerance
    BY <1>1, JudgeStep DEF RejectedReturned, Readable
  <2>1. j \in 1..(i - 1)
    BY DEF GuardInv, Partition
  <2> QED
    BY <1>1, <2>1, JudgeStep DEF GuardInv, RejectedReturned
<1> QED
  BY <1>2, <1>3, <1>4 DEF GuardInv

LEMMA RejectStep ==
  ASSUME GuardInv, ~Finished, NEW n \in (i + 1)..(Len(batch) + 1), Reject(n),
         \A j \in i..(n - 1) : Readable(j) =>
           \E k \in (j + 1)..(j + Confirm) :
             /\ k \in Position /\ Readable(k)
             /\ batch[k] >= floor - Tolerance
             /\ batch[j] > floor => batch[k] < batch[j] - Tolerance
  PROVE  GuardInv'
<1>1. Judge(n) /\ rejected' = rejected \cup i..(n - 1) /\ UNCHANGED <<accepted, floor, resets>>
  BY DEF Reject
<1>2. TypeOK'
  BY <1>1, JudgeStep DEF GuardInv, TypeOK, Judge
<1>3. Partition'
  BY <1>1, JudgeStep DEF GuardInv, Partition, Readable
<1>4. RejectedReturned'
  <2> SUFFICES ASSUME NEW j \in rejected', Readable(j)
               PROVE  \E k \in (j + 1)..(j + Confirm) :
                        /\ k \in Position /\ Readable(k)
                        /\ batch[k] >= judgedBy'[j] - Tolerance
                        /\ batch[j] > judgedBy'[j] => batch[k] < batch[j] - Tolerance
    BY <1>1, JudgeStep DEF RejectedReturned, Readable
  <2>1. CASE j \in rejected
    <3>1. j \in 1..(i - 1)
      BY <2>1 DEF GuardInv, Partition
    <3> QED
      BY <1>1, <2>1, <3>1, JudgeStep DEF GuardInv, RejectedReturned
  <2>2. CASE j \in i..(n - 1)
    BY <1>1, <2>2, JudgeStep
  <2> QED
    BY <1>1, <2>1, <2>2
<1> QED
  BY <1>2, <1>3, <1>4 DEF GuardInv

\* What is known of the sample to be judged.
LEMMA Current ==
  ASSUME GuardInv, ~Finished
  PROVE  /\ i + 1 \in (i + 1)..(Len(batch) + 1)
         /\ i..((i + 1) - 1) = {i}
         /\ \A j \in Position : Readable(j) => batch[j] \in Nat
BY DEF GuardInv, TypeOK, Finished, Position, Readable

LEMMA UnreadableStep == ASSUME GuardInv, Unreadable PROVE GuardInv'
BY Current, RejectStep DEF Unreadable

LEMMA FirstStep == ASSUME GuardInv, First PROVE GuardInv'
<1>1. batch[i] \in Nat
  BY Current DEF First, GuardInv, TypeOK, Finished, Position
<1>2. resets' \in SUBSET accepted'
  BY DEF First, Accept, GuardInv, TypeOK
<1> QED
  BY <1>1, <1>2, Current, AcceptStep DEF First

LEMMA FlatStep == ASSUME GuardInv, Flat PROVE GuardInv'
<1>1. resets' \in SUBSET accepted' /\ floor' \in Nat \cup {NoValue}
  BY DEF Flat, Accept, GuardInv, TypeOK
<1> QED
  BY <1>1, Current, AcceptStep DEF Flat, Judgeable

LEMMA RiseStep == ASSUME GuardInv, Rise PROVE GuardInv'
<1>1. CASE Reappears
  <2>1. \A k \in Position : Readable(k) /\ ~Low(k) => batch[k] >= floor - Tolerance
    BY Current, CounterGuardAssumption DEF Low, Rise, Judgeable, GuardInv, TypeOK
  <2>2. \E k \in (i + 1)..(i + Confirm) :
          k \in Position /\ Readable(k) /\ batch[k] >= floor - Tolerance
            /\ batch[k] < batch[i] - Tolerance
    BY <1>1, <2>1 DEF Reappears
  <2> QED
    BY <1>1, <2>2, Current, RejectStep DEF Rise, Judgeable
<1>2. CASE ~Reappears
  <2>1. batch[i] \in Nat
    BY Current DEF Rise, Judgeable, GuardInv, TypeOK, Finished, Position
  <2>2. resets' \in SUBSET accepted'
    BY <1>2 DEF Rise, Accept, GuardInv, TypeOK
  <2> QED
    BY <1>2, <2>1, <2>2, Current, AcceptStep DEF Rise, Judgeable
<1> QED
  BY <1>1, <1>2

LEMMA FallStep == ASSUME GuardInv, Fall PROVE GuardInv'
<1>1. PICK n \in (i + 1)..(Len(batch) + 1) :
        /\ FallsUntil(n)
        /\ \/ /\ n = i + Confirm
              /\ Accept(n)
              /\ resets' = resets \cup {i}
              /\ floor' \in NewFloor(n)
           \/ /\ Returned(n)
              /\ Reject(n)
           \/ /\ n # i + Confirm /\ ~Returned(n)
              /\ Accept(n)
              /\ UNCHANGED <<floor, resets>>
  BY DEF Fall
<1>2. ~Finished /\ floor \in Nat /\ i \in Nat /\ n \in Nat /\ i \in i..(n - 1)
  BY DEF Fall, Judgeable, GuardInv, TypeOK
<1>3. \A j \in i..(n - 1) : Low(j)
  BY <1>1 DEF FallsUntil
<1>4. \A j \in i..(n - 1) : Readable(j) /\ batch[j] \in Nat /\ batch[j] < floor - Tolerance
  BY <1>2, <1>3, Current DEF Low
<1>5. CASE Accept(n) /\ resets' = resets \cup {i} /\ floor' \in NewFloor(n)
  <2>1. floor' \in Nat
    BY <1>4, <1>5 DEF NewFloor, Highest
  <2>2. resets' \in SUBSET accepted'
    BY <1>2, <1>5 DEF Accept, GuardInv, TypeOK
  <2> QED
    BY <1>2, <1>4, <1>5, <2>1, <2>2, AcceptStep
<1>6. CASE Returned(n) /\ Reject(n)
  <2>1. n \in Position /\ Readable(n) /\ n < i + Confirm /\ n # i + Confirm
    BY <1>2, <1>6, CounterGuardAssumption DEF Returned
  <2>2. batch[n] \in Nat /\ batch[n] >= floor - Tolerance
    BY <1>1, <1>2, <2>1, Current, CounterGuardAssumption DEF FallsUntil, Low
  <2>3. \A j \in i..(n - 1) : n \in (j + 1)..(j + Confirm) /\ ~(batch[j] > floor)
    BY <1>2, <1>4, <2>1, CounterGuardAssumption
  <2> QED
    BY <1>2, <1>6, <2>1, <2>2, <2>3, RejectStep
<1>7. CASE Accept(n) /\ UNCHANGED <<floor, resets>>
  <2>1. resets' \in SUBSET accepted'
    BY <1>7 DEF Accept, GuardInv, TypeOK
  <2> QED
    BY <1>2, <1>4, <1>7, <2>1, AcceptStep
<1> QED
  BY <1>1, <1>5, <1>6, <1>7

LEMMA ReturnStep == ASSUME GuardInv, Return PROVE GuardInv'
<1>1. newest' \in Nat \cup {NoValue}
  BY DEF Return, GuardInv, TypeOK, Position
<1>2. batch' \in Seq(Nat \cup {NoValue}) /\ Len(batch') = 0 /\ Position' = {} /\ 1..(1 - 1) = {}
  BY EmptyBatch DEF Return, Position
<1>3. judgedBy' \in [Position' -> Nat \cup {NoValue}]
  BY <1>2 DEF Return, Position, NotJudged
<1>4. TypeOK'
  <2>1. i' \in 1..(Len(batch') + 1)
    BY <1>2 DEF Return
  <2>2. known' \in Nat \cup {NoValue} /\ floor' \in Nat \cup {NoValue}
    BY DEF Return
  <2>3. accepted' \in SUBSET Position' /\ rejected' \in SUBSET Position' /\ resets' \in SUBSET accepted'
    BY DEF Return
  <2> QED
    BY <1>1, <1>2, <1>3, <2>1, <2>2, <2>3 DEF TypeOK
<1>5. Partition' /\ RejectedReturned'
  BY <1>2 DEF Return, Partition, RejectedReturned
<1> QED
  BY <1>4, <1>5 DEF GuardInv

LEMMA GuardNext == GuardInv /\ [Next]_vars => GuardInv'
<1> SUFFICES ASSUME GuardInv, [Next]_vars PROVE GuardInv'
  OBVIOUS
<1>1. CASE UNCHANGED vars
  BY <1>1 DEF vars, GuardInv, TypeOK, Partition, RejectedReturned, Position, Readable
<1> QED
  BY <1>1, BeginStep, UnreadableStep, FirstStep, RiseStep, FlatStep, FallStep, ReturnStep DEF Next

-------------------------------------------------------------------------------
\* The loop of guard_counter_samples keeps its invariant, for every batch.
THEOREM GuardInvariant == Spec => []GuardInv
BY GuardInit, GuardNext, PTL DEF Spec

\* A sample is refused only when a reading after it, within CONFIRM_SAMPLES, is
\* back on the track it was judged by.
THEOREM RejectionSafety == Spec => []RejectedReturned
<1>1. GuardInv => RejectedReturned
  BY DEF GuardInv
<1> QED
  BY <1>1, GuardInvariant, PTL

-------------------------------------------------------------------------------
\* The levels of the samples at S and of the value on record.
Level(S) == {batch[j] : j \in S} \cup ({known} \ {NoValue})

\* The meter is replaced at q by one that counts from a lower base.
ReplacedAt(q) ==
  /\ \A j \in Position : Readable(j)
  /\ Continues(1..(q - 1)) /\ Ascending(q..Len(batch))
  /\ Level(1..(q - 1)) # {} /\ \A j \in q..Len(batch), v \in Level(1..(q - 1)) : batch[j] < v - Tolerance
  /\ q + Confirm <= Len(batch) + 1

\* The sample at p is of another meter, the others are of this one.
ForeignAt(p) ==
  /\ \A j \in Position : Readable(j)
  /\ Continues(Position \ {p})
  /\ p < Len(batch) /\ (p > 1 \/ known # NoValue)
  /\ \/ \A v \in Level(Position \ {p}) : batch[p] > v + Tolerance
     \/ \A v \in Level(Position \ {p}) : batch[p] < v - Tolerance

\* The floor is a level of the samples at S, or there is none yet; and none of
\* those still to come is below it.
OnTrack(S) ==
  /\ floor \in Level(S) \/ (i = 1 /\ floor = NoValue /\ known = NoValue)
  /\ \A j \in S : j >= i => floor <= batch[j]

RisingInv ==
  LET readable == {j \in Position : Readable(j)} IN
  Continues(readable) =>
    /\ accepted = {j \in readable : j < i}
    /\ resets = {}
    /\ \A j \in readable : j >= i => floor <= batch[j]

ReplacedInv ==
  \A q \in Position : ReplacedAt(q) =>
    /\ rejected = {}
    /\ i <= q => resets = {} /\ OnTrack(1..(q - 1))
    /\ i > q => resets = {q} /\ floor # NoValue /\ \A j \in Position : j >= i => floor <= batch[j]

ForeignInv ==
  \A p \in Position : ForeignAt(p) =>
    /\ resets = {}
    /\ rejected = IF i <= p THEN {} ELSE {p}
    /\ OnTrack(Position \ {p})

KeptInv == RisingInv /\ ReplacedInv /\ ForeignInv

Judging == Unreadable \/ First \/ Rise \/ Flat \/ Fall

\* The values are naturals, and the level of some of them is one.
LEMMA LevelType ==
  ASSUME GuardInv
  PROVE  /\ Tolerance \in Nat /\ Confirm \in Nat \ {0} /\ Len(batch) \in Nat /\ i \in Nat /\ i >= 1
         /\ floor \in Nat \cup {NoValue} /\ known \in Nat \cup {NoValue} /\ NoValue = -1
         /\ \A j \in Position : Readable(j) => batch[j] \in Nat
         /\ \A S \in SUBSET Position : (\A j \in S : Readable(j)) => Level(S) \subseteq Nat
<1>1. \A j \in Position : batch[j] \in Nat \cup {NoValue}
  BY DEF GuardInv, TypeOK, Position
<1>2. known \in Nat \cup {NoValue} /\ floor \in Nat \cup {NoValue} /\ Len(batch) \in Nat /\ i \in 1..(Len(batch) + 1)
  BY DEF GuardInv, TypeOK
<1> QED
  BY <1>1, <1>2, CounterGuardAssumption DEF Readable, Level, NoValue

\* The batch is judged from its first sample to its last.
LEMMA JudgingMoves ==
  ASSUME GuardInv, Judging
  PROVE  /\ i \in Position /\ ~Finished
         /\ batch' = batch /\ known' = known /\ Position' = Position
         /\ i' \in Nat /\ i < i'
<1>1. ~Finished
  BY DEF Judging, Unreadable, First, Rise, Flat, Fall, Judgeable
<1>2. \E n \in (i + 1)..(Len(batch) + 1) : Judge(n)
  BY <1>1, Current DEF Judging, Unreadable, First, Rise, Flat, Fall, Accept, Reject
<1>3. PICK n \in (i + 1)..(Len(batch) + 1) : Judge(n)
  BY <1>2
<1>4. i \in Position /\ batch' = batch /\ Position' = Position
  BY <1>1, <1>3, JudgeStep
<1> QED
  BY <1>1, <1>3, <1>4, LevelType DEF Judge

LEMMA RisingStep ==
  ASSUME GuardInv, RisingInv, Judging
  PROVE  RisingInv'
<1> DEFINE readable == {j \in Position : Readable(j)}
<1>1. /\ i \in Position /\ ~Finished
      /\ batch' = batch /\ known' = known /\ Position' = Position
  BY JudgingMoves
<1>2. readable' = readable /\ Continues(readable)' = Continues(readable)
  BY <1>1 DEF Readable, Continues, Ascending
<1>3. SUFFICES ASSUME Continues(readable)
               PROVE  /\ accepted' = {j \in readable : j < i'}
                      /\ resets' = {}
                      /\ \A j \in readable : j >= i' => floor' <= batch[j]
  BY <1>1, <1>2 DEF RisingInv
<1>4. /\ accepted = {j \in readable : j < i} /\ resets = {}
      /\ \A j \in readable : j >= i => floor <= batch[j]
  BY <1>3 DEF RisingInv
<1>5. /\ i \in Nat /\ i..((i + 1) - 1) = {i} /\ floor \in Int /\ Tolerance \in Nat
      /\ \A j \in readable : j \in Nat /\ batch[j] \in Nat
  BY LevelType, Current, <1>1 DEF Position
<1>6. \A j \in readable : j > i /\ Readable(i) => batch[i] <= batch[j]
  BY <1>1, <1>3, <1>5 DEF Continues, Ascending
<1>7. Readable(i) => accepted \cup {i} = {j \in readable : j < i + 1}
  <2>1. ASSUME Readable(i), NEW j \in readable PROVE j < i + 1 <=> j < i \/ j = i
    BY <1>5, <2>1
  <2>2. Readable(i) => i \in readable
    BY <1>1
  <2> HIDE DEF readable
  <2> QED
    BY <1>4, <2>1, <2>2
<1>8. ASSUME Readable(i), NEW x, x = floor \/ x = batch[i], NEW j \in readable, j >= i + 1 PROVE x <= batch[j]
  <2>1. j > i /\ j >= i
    BY <1>5, <1>8
  <2> QED
    BY <1>4, <1>6, <1>8, <2>1
<1>9. CASE Unreadable
  <2>1. ~Readable(i) /\ i' = i + 1 /\ UNCHANGED <<accepted, resets, floor>>
    BY <1>9 DEF Unreadable, Reject, Judge
  <2> QED
    BY <1>4, <1>5, <2>1
<1>10. CASE First
  <2>1. Readable(i) /\ i' = i + 1 /\ accepted' = accepted \cup {i} /\ resets' = resets /\ floor' = batch[i]
    BY <1>5, <1>10 DEF First, Accept, Judge
  <2> QED
    BY <1>4, <1>7, <1>8, <2>1
<1>11. CASE Rise
  <2>1. Readable(i) /\ ~Reappears
    <3>1. SUFFICES ASSUME Readable(i), Reappears PROVE FALSE
      BY <1>11 DEF Rise, Judgeable
    <3>2. PICK j \in (i + 1)..(i + Confirm) : j \in Position /\ Readable(j) /\ batch[j] < batch[i] - Tolerance
      BY <3>1 DEF Reappears
    <3> QED
      BY <1>1, <1>5, <1>6, <3>1, <3>2
  <2>2. i' = i + 1 /\ accepted' = accepted \cup {i} /\ resets' = resets /\ floor' = batch[i]
    BY <1>5, <1>11, <2>1 DEF Rise, Accept, Judge
  <2> QED
    BY <1>4, <1>7, <1>8, <2>1, <2>2
<1>12. CASE Flat
  <2>1. Readable(i) /\ i' = i + 1 /\ accepted' = accepted \cup {i} /\ UNCHANGED <<resets, floor>>
    BY <1>5, <1>12 DEF Flat, Accept, Judge, Judgeable
  <2> QED
    BY <1>4, <1>7, <1>8, <2>1
<1>13. CASE Fall
  BY <1>1, <1>4, <1>5, <1>13 DEF Fall, Low
<1> QED
  BY <1>9, <1>10, <1>11, <1>12, <1>13 DEF Judging

\* A sample of a track that rises, and does not reappear below this sample, is
\* accepted as it comes.
LEMMA TrackStep ==
  ASSUME GuardInv, Judging, NEW S \in SUBSET Position, i \in S, Readable(i),
         \A j \in S : Readable(j),
         \A j \in S : j >= i => floor <= batch[j] /\ batch[i] <= batch[j],
         floor # NoValue => ~Reappears
  PROVE  /\ i' = i + 1 /\ rejected' = rejected /\ resets' = resets
         /\ floor' = batch[i] \/ (floor' = floor /\ floor # NoValue)
         /\ \A j \in S : j >= i + 1 => floor' <= batch[j]
<1>1. /\ i \in Nat /\ floor \in Int /\ Tolerance \in Nat
      /\ \A j \in S : j \in Nat /\ batch[j] \in Nat
  BY LevelType DEF Position
<1>2. /\ i' = i + 1 /\ rejected' = rejected /\ resets' = resets
      /\ floor' = batch[i] \/ (floor' = floor /\ floor # NoValue)
  <2>1. CASE Unreadable
    BY <2>1 DEF Unreadable
  <2>2. CASE First
    BY <2>2 DEF First, Accept, Judge
  <2>3. CASE Rise
    BY <2>3 DEF Rise, Judgeable, Accept, Judge
  <2>4. CASE Flat
    BY <2>4 DEF Flat, Judgeable, Accept, Judge
  <2>5. CASE Fall
    BY <1>1, <2>5 DEF Fall, Low
  <2> QED
    BY <2>1, <2>2, <2>3, <2>4, <2>5 DEF Judging
<1>3. ASSUME NEW j \in S, j >= i + 1 PROVE floor' <= batch[j]
  BY <1>1, <1>2, <1>3
<1> QED
  BY <1>2, <1>3

\* The facts of a replaced meter that its samples are judged by.
LEMMA ReplacedFacts ==
  ASSUME GuardInv, NEW q \in Position, ReplacedAt(q)
  PROVE  /\ \A j \in Position : Readable(j) /\ batch[j] \in Nat /\ j \in Nat
         /\ \A j, k \in Position : (j < k /\ (k < q \/ q <= j)) => batch[j] <= batch[k]
         /\ \A j \in Position : j < q => known <= batch[j]
         /\ Level(1..(q - 1)) \subseteq Nat /\ Level(1..(q - 1)) # {}
         /\ \A j \in Position : j >= q => \A v \in Level(1..(q - 1)) : batch[j] < v - Tolerance
         /\ q + Confirm <= Len(batch) + 1
         /\ q \in Nat /\ 1..(q - 1) \subseteq Position
<1>1. q \in Nat /\ Len(batch) \in Nat /\ q <= Len(batch) /\ 1..(q - 1) \subseteq Position
  BY LevelType DEF Position
<1>2. \A j \in Position : j \in Nat /\ (j < q => j \in 1..(q - 1)) /\ (j >= q => j \in q..Len(batch))
  BY <1>1 DEF Position
<1>3. \A j \in Position : Readable(j) /\ batch[j] \in Nat
  BY LevelType DEF ReplacedAt
<1>4. Level(1..(q - 1)) \subseteq Nat
  BY <1>1, <1>3, LevelType
<1>5. ASSUME NEW j \in Position, NEW k \in Position, j < k, k < q \/ q <= j PROVE batch[j] <= batch[k]
  <2>1. CASE k < q
    <3>1. j \in 1..(q - 1) /\ k \in 1..(q - 1)
      BY <1>1, <1>2, <1>5, <2>1
    <3> QED
      BY <1>5, <3>1 DEF ReplacedAt, Continues, Ascending
  <2>2. CASE q <= j
    <3>1. j \in q..Len(batch) /\ k \in q..Len(batch)
      BY <1>1, <1>2, <1>5, <2>2
    <3> QED
      BY <1>5, <3>1 DEF ReplacedAt, Ascending
  <2> QED
    BY <1>5, <2>1, <2>2
<1> QED
  BY <1>1, <1>2, <1>3, <1>4, <1>5 DEF ReplacedAt, Continues

\* A replaced meter: the first Confirm samples of the new one are accepted
\* together, as a reset, and all the others one by one.
LEMMA ReplacedStep ==
  ASSUME GuardInv, ReplacedInv, Judging
  PROVE  ReplacedInv'
<1>1. /\ i \in Position /\ ~Finished /\ i' \in Nat /\ i < i'
      /\ batch' = batch /\ known' = known /\ Position' = Position
  BY JudgingMoves
<1>2. ASSUME NEW q \in Position PROVE ReplacedAt(q)' = ReplacedAt(q)
  BY <1>1 DEF ReplacedAt, Readable, Continues, Ascending, Level
<1>3. SUFFICES ASSUME NEW q \in Position, ReplacedAt(q)
               PROVE  /\ rejected' = {}
                      /\ i' <= q => resets' = {} /\ OnTrack(1..(q - 1))'
                      /\ i' > q => resets' = {q} /\ floor' # NoValue /\ \A j \in Position : j >= i' => floor' <= batch[j]
  BY <1>1, <1>2 DEF ReplacedInv
<1>4. /\ rejected = {}
      /\ i <= q => resets = {} /\ OnTrack(1..(q - 1))
      /\ i > q => resets = {q} /\ floor # NoValue /\ \A j \in Position : j >= i => floor <= batch[j]
  BY <1>3 DEF ReplacedInv
<1>5. /\ \A j \in Position : Readable(j) /\ batch[j] \in Nat /\ j \in Nat
      /\ \A j, k \in Position : (j < k /\ (k < q \/ q <= j)) => batch[j] <= batch[k]
      /\ Level(1..(q - 1)) \subseteq Nat /\ Level(1..(q - 1)) # {}
      /\ \A j \in Position : j >= q => \A v \in Level(1..(q - 1)) : batch[j] < v - Tolerance
      /\ q + Confirm <= Len(batch) + 1
      /\ q \in Nat /\ 1..(q - 1) \subseteq Position
  BY <1>3, ReplacedFacts
<1>6. i \in Nat /\ floor \in Int /\ Tolerance \in Nat /\ Confirm \in Nat \ {0} /\ NoValue = -1 /\ Len(batch) \in Nat
  BY LevelType
<1>7. CASE i < q
  <2> DEFINE S == 1..(q - 1)
  <2>1. i \in S
    BY <1>1, <1>5, <1>6, <1>7 DEF Position
  <2>2. \A j \in S : j >= i => floor <= batch[j] /\ batch[i] <= batch[j]
    BY <1>1, <1>4, <1>5, <1>6, <1>7 DEF OnTrack
  <2>3. floor # NoValue => ~Reappears
    <3>1. SUFFICES ASSUME floor # NoValue, NEW j \in (i + 1)..(i + Confirm), j \in Position, ~Low(j),
                          batch[j] < batch[i] - Tolerance
                   PROVE  FALSE
      BY DEF Reappears
    <3>2. CASE j < q
      BY <1>1, <1>5, <1>6, <3>1, <3>2
    <3>3. CASE j >= q
      BY <1>4, <1>5, <1>6, <1>7, <3>1, <3>3 DEF OnTrack, Low
    <3> QED
      BY <1>5, <3>1, <3>2, <3>3
  <2>4. /\ i' = i + 1 /\ rejected' = rejected /\ resets' = resets
        /\ floor' = batch[i] \/ (floor' = floor /\ floor # NoValue)
        /\ \A j \in S : j >= i + 1 => floor' <= batch[j]
    <3>1. S \in SUBSET Position /\ Readable(i) /\ \A j \in S : Readable(j)
      BY <1>1, <1>5
    <3> HIDE DEF S
    <3> QED
      BY <2>1, <2>2, <2>3, <3>1, TrackStep
  <2>5. floor' \in Level(S)
    <3>1. floor # NoValue => floor \in Level(S)
      BY <1>4, <1>5, <1>6, <1>7 DEF OnTrack
    <3>2. batch[i] \in Level(S)
      BY <2>1 DEF Level
    <3> QED
      BY <2>4, <3>1, <3>2
  <2>6. Level(S)' = Level(S) /\ i' <= q
    BY <1>1, <1>5, <1>6, <1>7, <2>4 DEF Level
  <2>7. OnTrack(S)'
    BY <1>1, <2>4, <2>5, <2>6 DEF OnTrack
  <2> QED
    BY <1>4, <1>5, <1>6, <1>7, <2>4, <2>6, <2>7
<1>8. CASE i = q
  <2>1. floor \in Level(1..(q - 1))
    <3>1. SUFFICES ASSUME q = 1, known = NoValue PROVE FALSE
      BY <1>4, <1>5, <1>6, <1>8 DEF OnTrack
    <3> QED
      BY <1>5, <3>1 DEF Level
  <2>2. \A j \in Position : j >= q => Low(j)
    BY <1>5, <2>1 DEF Low
  <2>3. Fall
    <3>1. Low(i) /\ Readable(i) /\ floor # NoValue
      BY <1>1, <1>5, <1>6, <1>8, <2>1, <2>2
    <3>2. batch[i] < floor - Tolerance /\ batch[i] \in Nat
      BY <1>1, <1>5, <3>1 DEF Low
    <3> QED
      BY <1>6, <3>1, <3>2 DEF Judging, Unreadable, First, Rise, Flat
  <2>4. PICK n \in (i + 1)..(Len(batch) + 1) :
          /\ FallsUntil(n)
          /\ \/ /\ n = i + Confirm
                /\ Accept(n)
                /\ resets' = resets \cup {i}
                /\ floor' \in NewFloor(n)
             \/ /\ Returned(n)
                /\ Reject(n)
             \/ /\ n # i + Confirm /\ ~Returned(n)
                /\ Accept(n)
                /\ UNCHANGED <<floor, resets>>
    BY <2>3 DEF Fall
  <2>5. n = i + Confirm
    <3>1. SUFFICES ASSUME n < i + Confirm PROVE Low(n)
      BY <1>6, <2>4 DEF FallsUntil
    <3>2. n \in Position /\ n >= q
      BY <1>5, <1>6, <1>8, <2>4, <3>1 DEF Position
    <3> QED
      BY <2>2, <3>2
  <2>6. /\ Accept(n) /\ resets' = {q} /\ floor' \in Highest(n) /\ i' = n /\ rejected' = {}
    BY <1>4, <1>8, <2>4, <2>5 DEF Returned, NewFloor, Accept, Judge
  <2>7. PICK h \in i..(n - 1) : floor' = batch[h]
    BY <2>6 DEF Highest
  <2>8. h \in Position /\ h >= q /\ h < n /\ n \in Nat
    BY <1>1, <1>6, <1>8, <2>4, <2>7 DEF Position
  <2>9. \A j \in Position : j >= n => floor' <= batch[j]
    BY <1>5, <2>7, <2>8
  <2>10. floor' # NoValue /\ n > q
    BY <1>5, <1>6, <1>8, <2>4, <2>7, <2>8
  <2> QED
    BY <1>5, <2>6, <2>8, <2>9, <2>10
<1>9. CASE i > q
  <2>1. \A j \in Position : j >= i => floor <= batch[j] /\ batch[i] <= batch[j]
    <3> SUFFICES ASSUME NEW j \in Position, j >= i PROVE floor <= batch[j] /\ batch[i] <= batch[j]
      OBVIOUS
    <3>1. floor <= batch[j]
      BY <1>4, <1>9
    <3>2. j = i \/ (i < j /\ q <= i)
      BY <1>5, <1>6, <1>9
    <3>3. batch[i] <= batch[j]
      <4>1. batch[i] \in Nat
        BY <1>1, <1>5
      <4>2. CASE j = i
        BY <4>1, <4>2
      <4>3. CASE i < j /\ q <= i
        BY <1>1, <1>5, <4>3
      <4> QED
        BY <3>2, <4>2, <4>3
    <3> QED
      BY <3>1, <3>3
  <2>2. ~Reappears
    <3>1. SUFFICES ASSUME NEW j \in (i + 1)..(i + Confirm), j \in Position, batch[j] < batch[i] - Tolerance
                   PROVE  FALSE
      BY DEF Reappears
    <3>2. batch[i] <= batch[j]
      BY <1>6, <2>1, <3>1
    <3> QED
      BY <1>1, <1>5, <1>6, <3>1, <3>2
  <2>3. /\ i' = i + 1 /\ rejected' = rejected /\ resets' = resets
        /\ floor' = batch[i] \/ (floor' = floor /\ floor # NoValue)
        /\ \A j \in Position : j >= i + 1 => floor' <= batch[j]
    BY <1>1, <1>5, <2>1, <2>2, TrackStep
  <2>4. floor' # NoValue
    BY <1>1, <1>5, <1>6, <2>3
  <2> QED
    BY <1>4, <1>5, <1>6, <1>9, <2>3, <2>4
<1> QED
  BY <1>5, <1>6, <1>7, <1>8, <1>9

\* A foreign sample is refused by the reading after it, and the others are
\* accepted one by one.
LEMMA ForeignStep ==
  ASSUME GuardInv, ForeignInv, Judging, Confirm >= 2
  PROVE  ForeignInv'
<1>1. /\ i \in Position /\ ~Finished /\ i' \in Nat /\ i < i'
      /\ batch' = batch /\ known' = known /\ Position' = Position
  BY JudgingMoves
<1>2. ASSUME NEW p \in Position PROVE ForeignAt(p)' = ForeignAt(p)
  BY <1>1 DEF ForeignAt, Readable, Continues, Ascending, Level
<1>3. SUFFICES ASSUME NEW p \in Position, ForeignAt(p)
               PROVE  /\ resets' = {}
                      /\ rejected' = IF i' <= p THEN {} ELSE {p}
                      /\ OnTrack(Position \ {p})'
  BY <1>1, <1>2 DEF ForeignInv
<1> DEFINE S == Position \ {p}
<1>4. resets = {} /\ rejected = (IF i <= p THEN {} ELSE {p}) /\ OnTrack(S)
  BY <1>3 DEF ForeignInv
<1>5. /\ i \in Nat /\ floor \in Int /\ Tolerance \in Nat /\ Confirm \in Nat \ {0} /\ NoValue = -1 /\ Len(batch) \in Nat
      /\ \A j \in Position : Readable(j) /\ batch[j] \in Nat /\ j \in Nat
      /\ p \in Nat
  BY <1>3, LevelType DEF ForeignAt, Position
<1>6. Level(S) \subseteq Nat /\ \A j \in S : batch[j] \in Level(S)
  <2>1. S \in SUBSET Position /\ \A j \in S : Readable(j)
    BY <1>5
  <2> QED
    BY <2>1, LevelType DEF Level
<1>7. \A j, k \in S : j < k => batch[j] <= batch[k]
  BY <1>3 DEF ForeignAt, Continues, Ascending
<1>8. \/ \A v \in Level(S) : batch[p] > v + Tolerance
      \/ \A v \in Level(S) : batch[p] < v - Tolerance
  BY <1>3 DEF ForeignAt
<1>9. floor # NoValue => floor \in Level(S)
  BY <1>4 DEF OnTrack
<1>10. Level(S)' = Level(S)
  BY <1>1 DEF Level
<1> HIDE DEF S
<1>11. CASE i # p
  <2>1. i \in S /\ S \in SUBSET Position /\ Readable(i) /\ \A j \in S : Readable(j)
    BY <1>1, <1>5, <1>11 DEF S
  <2>2. ASSUME NEW j \in S, j >= i PROVE floor <= batch[j] /\ batch[i] <= batch[j]
    <3>1. floor <= batch[j]
      BY <1>4, <2>2 DEF OnTrack
    <3>2. j \in Nat /\ batch[i] \in Nat
      BY <1>5, <2>1
    <3>3. CASE j = i
      BY <3>1, <3>2, <3>3
    <3>4. CASE j # i
      BY <1>5, <1>7, <2>1, <2>2, <3>1, <3>2, <3>4
    <3> QED
      BY <3>1, <3>3, <3>4
  <2>3. floor # NoValue => ~Reappears
    <3>1. SUFFICES ASSUME floor # NoValue, NEW j \in (i + 1)..(i + Confirm), j \in Position, ~Low(j),
                          batch[j] < batch[i] - Tolerance
                   PROVE  FALSE
      BY DEF Reappears
    <3>2. batch[i] \in Nat /\ batch[i] \in Level(S) /\ batch[j] \in Nat
      BY <1>5, <1>6, <2>1, <3>1
    <3>3. CASE j = p
      <4>1. ~(batch[j] < floor - Tolerance) /\ floor \in Level(S)
        BY <1>5, <1>9, <3>1 DEF Low
      <4>2. ~(batch[p] > batch[i] + Tolerance)
        BY <1>5, <3>1, <3>2, <3>3
      <4> QED
        BY <1>8, <3>2, <3>3, <4>1, <4>2
    <3>4. CASE j # p
      <4>1. batch[i] <= batch[j]
        BY <1>5, <2>2, <3>1, <3>4 DEF S
      <4> QED
        BY <1>5, <3>1, <3>2, <4>1
    <3> QED
      BY <3>3, <3>4
  <2>4. /\ i' = i + 1 /\ rejected' = rejected /\ resets' = resets
        /\ floor' = batch[i] \/ (floor' = floor /\ floor # NoValue)
        /\ \A j \in S : j >= i + 1 => floor' <= batch[j]
    BY <2>1, <2>2, <2>3, TrackStep
  <2>5. floor' \in Level(S)
    BY <1>6, <1>9, <2>1, <2>4
  <2>6. OnTrack(S)'
    BY <1>1, <1>10, <2>4, <2>5 DEF OnTrack, S
  <2>7. i <= p <=> i' <= p
    BY <1>5, <1>11, <2>4
  <2> QED
    BY <1>4, <2>4, <2>6, <2>7 DEF S
<1>12. CASE i = p
  <2>1. p < Len(batch) /\ (p > 1 \/ known # NoValue)
    BY <1>3 DEF ForeignAt
  <2>2. floor \in Level(S) /\ floor \in Nat
    BY <1>4, <1>5, <1>6, <1>12, <2>1 DEF OnTrack
  <2>3. /\ p + 1 \in S /\ p + 1 \in Position /\ batch[p + 1] \in Level(S) /\ batch[p + 1] \in Nat
        /\ floor <= batch[p + 1]
    <3>1. p + 1 \in S /\ p + 1 \in Position
      BY <1>5, <2>1 DEF S, Position
    <3> QED
      BY <1>4, <1>5, <1>6, <1>12, <3>1 DEF OnTrack
  <2>4. ~Low(p + 1)
    BY <1>5, <2>2, <2>3 DEF Low
  <2>5. Readable(p) /\ batch[p] \in Nat /\ ~Finished /\ floor # NoValue
    BY <1>1, <1>5, <2>2
  <2>6. ASSUME Reject(i + 1) PROVE resets' = {} /\ rejected' = (IF i' <= p THEN {} ELSE {p}) /\ OnTrack(S)'
    <3>1. i' = i + 1 /\ rejected' = rejected \cup {i} /\ UNCHANGED <<floor, resets>>
      BY <1>5, <2>6 DEF Reject, Judge
    <3>2. i <= p /\ ~(i' <= p) /\ \A j \in Position : j >= i' => j >= i
      BY <1>5, <1>12, <3>1
    <3>3. OnTrack(S)'
      BY <1>1, <1>4, <1>10, <2>2, <3>1, <3>2 DEF OnTrack, S
    <3> QED
      BY <1>4, <1>12, <3>1, <3>2, <3>3
  <2>7. CASE batch[p] > floor + Tolerance
    <3>1. batch[p] > batch[p + 1] + Tolerance
      BY <1>5, <1>8, <2>2, <2>3, <2>5, <2>7
    <3>2. Reappears
      <4>1. p + 1 \in (i + 1)..(i + Confirm) /\ batch[p + 1] < batch[i] - Tolerance
        BY <1>5, <1>12, <2>3, <2>5, <3>1
      <4> QED
        BY <1>5, <2>3, <2>4, <4>1 DEF Reappears
    <3>3. Rise
      BY <1>5, <1>12, <2>2, <2>5, <2>7 DEF Judging, Unreadable, First, Flat, Fall, Low
    <3> QED
      BY <2>6, <3>2, <3>3 DEF Rise, S
  <2>8. CASE batch[p] < floor - Tolerance
    <3>1. Fall
      BY <1>5, <1>12, <2>2, <2>5, <2>8 DEF Judging, Unreadable, First, Flat, Rise
    <3>2. PICK n \in (i + 1)..(Len(batch) + 1) :
            /\ FallsUntil(n)
            /\ \/ n = i + Confirm
               \/ Returned(n) /\ Reject(n)
               \/ n # i + Confirm /\ ~Returned(n)
      BY <3>1 DEF Fall
    <3>3. n = p + 1
      <4>1. SUFFICES ASSUME n > p + 1 PROVE FALSE
        BY <1>5, <1>12, <3>2
      <4>2. p + 1 \in i..(n - 1)
        BY <1>5, <1>12, <3>2, <4>1
      <4> QED
        BY <2>4, <3>2, <4>2 DEF FallsUntil
    <3>4. Returned(n)
      BY <1>5, <1>12, <2>3, <3>3 DEF Returned
    <3>5. n # i + Confirm
      BY <1>5, <1>12, <3>3
    <3>6. Reject(i + 1)
      BY <1>12, <3>2, <3>3, <3>4, <3>5
    <3> QED
      BY <2>6, <3>6 DEF S
  <2> QED
    BY <1>8, <2>2, <2>7, <2>8 DEF S
<1> QED
  BY <1>11, <1>12

\* Between two batches there is nothing to say.
LEMMA EmptyKept ==
  ASSUME GuardInv, batch = <<>>
  PROVE  KeptInv
<1>1. Position = {} /\ accepted = {} /\ resets = {}
  BY EmptyBatch DEF Position, GuardInv, TypeOK
<1> QED
  BY <1>1 DEF KeptInv, RisingInv, ReplacedInv, ForeignInv

LEMMA KeptInit == Init => KeptInv
BY GuardInit, EmptyKept DEF Init

\* A batch begins at its first sample, with what is on record for a level.
LEMMA BeginKept ==
  ASSUME GuardInv, NEW b \in Batches, Begin(b)
  PROVE  KeptInv'
<1>1. GuardInv'
  BY BeginStep
<1>2. /\ i' = 1 /\ accepted' = {} /\ rejected' = {} /\ resets' = {} /\ floor' = known'
  BY EmptyBatch DEF Begin, GuardInv, TypeOK, Position
<1>3. /\ known' \in Nat \cup {NoValue} /\ NoValue = -1 /\ Position' = 1..Len(batch') /\ Len(batch') \in Nat
      /\ \A j \in Position' : j \in Nat /\ j >= 1
  BY <1>1 DEF GuardInv, TypeOK, Position, NoValue
<1>4. ASSUME NEW S \in SUBSET (Position'), Continues(S)' PROVE OnTrack(S)'
  BY <1>2, <1>3, <1>4 DEF Continues, OnTrack, Level
<1>5. RisingInv'
  <2> DEFINE readable == {j \in Position : Readable(j)}
  <2> SUFFICES ASSUME Continues(readable)'
               PROVE  /\ accepted' = {j \in readable' : j < i'}
                      /\ resets' = {}
                      /\ \A j \in readable' : j >= i' => floor' <= batch'[j]
    BY DEF RisingInv
  <2>1. \A j \in readable' : known' <= batch'[j] /\ ~(j < 1)
    BY <1>3 DEF Continues
  <2> HIDE DEF readable
  <2> QED
    BY <1>2, <2>1
<1>6. ReplacedInv'
  <2> SUFFICES ASSUME NEW q \in Position', ReplacedAt(q)'
               PROVE  OnTrack(1..(q - 1))'
    BY <1>2, <1>3 DEF ReplacedInv
  <2>1. Continues(1..(q - 1))' /\ 1..(q - 1) \in SUBSET (Position')
    BY <1>3 DEF ReplacedAt
  <2> QED
    BY <1>4, <2>1
<1>7. ForeignInv'
  <2> SUFFICES ASSUME NEW p \in Position', ForeignAt(p)'
               PROVE  OnTrack(Position \ {p})'
    BY <1>2, <1>3 DEF ForeignInv
  <2>1. Continues(Position \ {p})'
    BY DEF ForeignAt
  <2> QED
    BY <1>2, <1>3, <2>1 DEF Continues, OnTrack, Level
<1> QED
  BY <1>5, <1>6, <1>7 DEF KeptInv

LEMMA KeptStutters ==
  ASSUME UNCHANGED vars
  PROVE  (RisingInv <=> RisingInv') /\ (ReplacedInv <=> ReplacedInv') /\ (ForeignInv <=> ForeignInv')
<1>1. UNCHANGED <<batch, known, i, floor, accepted, rejected, resets>> /\ Position' = Position
  BY DEF vars, Position
<1>2. ASSUME NEW S PROVE Continues(S)' = Continues(S) /\ OnTrack(S)' = OnTrack(S)
  BY <1>1 DEF Continues, Ascending, OnTrack, Level
<1>3. RisingInv <=> RisingInv'
  BY <1>1 DEF RisingInv, Readable, Continues, Ascending
<1>4. ASSUME NEW q PROVE ReplacedAt(q)' = ReplacedAt(q) /\ ForeignAt(q)' = ForeignAt(q)
  BY <1>1 DEF ReplacedAt, ForeignAt, Readable, Continues, Ascending, Level
<1>5. ReplacedInv <=> ReplacedInv'
  BY <1>1, <1>4 DEF ReplacedInv, OnTrack, Level
<1>6. ForeignInv <=> ForeignInv'
  BY <1>1, <1>4 DEF ForeignInv, OnTrack, Level
<1> QED
  BY <1>3, <1>5, <1>6

LEMMA ReturnKept == GuardInv /\ Return => KeptInv'
<1> SUFFICES ASSUME GuardInv, Return PROVE KeptInv'
  OBVIOUS
<1>1. Position' = {} /\ accepted' = {} /\ resets' = {}
  BY EmptyBatch DEF Position, Return
<1> QED
  BY <1>1 DEF KeptInv, RisingInv, ReplacedInv, ForeignInv

LEMMA KeptNext == GuardInv /\ RisingInv /\ ReplacedInv /\ [Next]_vars => RisingInv' /\ ReplacedInv'
BY KeptStutters, BeginKept, RisingStep, ReplacedStep, ReturnKept DEF Next, Judging, KeptInv

LEMMA ForeignNext == Confirm >= 2 /\ GuardInv /\ ForeignInv /\ [Next]_vars => ForeignInv'
BY KeptStutters, BeginKept, ForeignStep, ReturnKept DEF Next, Judging, KeptInv

\* A counter that only rises is stored as it is, and one that is replaced by a
\* meter of a lower base loses no reading either: its reset is recorded once,
\* where it happened, if the batch holds CONFIRM_SAMPLES readings of it.
THEOREM GenuineSafety == Spec => []GenuineKept
<1>1. Spec => [](GuardInv /\ RisingInv /\ ReplacedInv)
  BY GuardInit, GuardNext, KeptInit, KeptNext, PTL DEF Spec, KeptInv
<1>2. GuardInv /\ RisingInv => RisingKept
  <2> DEFINE readable == {j \in Position : Readable(j)}
  <2> SUFFICES ASSUME GuardInv, RisingInv, Finished, Continues(readable) PROVE accepted = readable /\ resets = {}
    BY DEF RisingKept
  <2>1. \A j \in readable : j < i
    BY LevelType DEF Finished, Position
  <2> QED
    BY <2>1 DEF RisingInv
<1>3. GuardInv /\ ReplacedInv => ResetKept
  <2> SUFFICES ASSUME GuardInv, ReplacedInv, Finished, NEW q \in Position, ReplacedAt(q)
               PROVE  rejected = {} /\ resets = {q}
    BY DEF ResetKept, ReplacedAt, Level
  <2>1. i > q
    BY LevelType DEF Finished, Position
  <2> QED
    BY <2>1 DEF ReplacedInv
<1> QED
  BY <1>1, <1>2, <1>3, PTL DEF GenuineKept

\* "Two is enough to reject a lone interloper": one foreign sample, above or
\* below everything the meter reads, is refused, and no other is.  Two is also
\* what it takes: with a look-ahead of one a low interloper is its own confirmation.
THEOREM ForeignSafety == Confirm >= 2 => (Spec => []LoneIntruderRejected)
<1> SUFFICES ASSUME Confirm >= 2 PROVE Spec => []LoneIntruderRejected
  OBVIOUS
<1>1. Spec => [](GuardInv /\ ForeignInv)
  BY GuardInit, GuardNext, KeptInit, ForeignNext, PTL DEF Spec, KeptInv
<1>2. GuardInv /\ ForeignInv => LoneIntruderRejected
  <2> SUFFICES ASSUME GuardInv, ForeignInv, Finished, NEW p \in Position, ForeignAt(p)
               PROVE  rejected = {p} /\ resets = {}
    BY DEF LoneIntruderRejected, ForeignAt, Level
  <2>1. ~(i <= p)
    BY LevelType DEF Finished, Position
  <2> QED
    BY <2>1 DEF ForeignInv
<1> QED
  BY <1>1, <1>2, PTL

-------------------------------------------------------------------------------
\* What can be read of a batch, and what of that was refused.
ReadableOnes == {j \in Position : Readable(j)}
Lost == rejected \cap ReadableOnes

\* Of readings that rise, none to come is below the floor, unless the floor still
\* is what was on record; and that can change once only.
Cleared == floor # NoValue /\ \A j \in ReadableOnes : j >= i => floor - Tolerance <= batch[j]

MisledInv ==
  Ascending(ReadableOnes) =>
    /\ \A j, k \in Lost : k < j + Confirm - 1
    /\ \A j, k \in resets : j = k
    /\ Lost = {} \/ resets = {}
    /\ \A j \in Lost \cup resets : batch[j] < known - Tolerance
    /\ (floor = known /\ Lost = {} /\ resets = {}) \/ Cleared

\* What a step makes of rising readings.  It goes on as before, or the floor is now
\* the genuine one; it loses the readings it judges, or records a reset, only where
\* the floor was not.
LEMMA MisledJudged ==
  ASSUME GuardInv, Judging, Ascending(ReadableOnes)
  PROVE  /\ ReadableOnes' = ReadableOnes
         /\ \/ UNCHANGED <<Lost, resets>> /\ (Cleared' \/ (floor' = floor /\ ~Cleared))
            \/ /\ UNCHANGED Lost /\ resets' = resets \cup {i}
               /\ ~Cleared /\ floor # NoValue /\ batch[i] < floor - Tolerance /\ Cleared'
            \/ /\ UNCHANGED resets /\ ~Cleared /\ floor # NoValue /\ Cleared'
               /\ \E n \in (i + 1)..(i + Confirm - 1) :
                    Lost' = Lost \cup i..(n - 1) /\ \A j \in i..(n - 1) : batch[j] < floor - Tolerance
<1> DEFINE R == ReadableOnes
<1>1. /\ i \in Position /\ ~Finished
      /\ batch' = batch /\ known' = known /\ Position' = Position
      /\ i' \in Nat /\ i < i'
  BY JudgingMoves
<1>2. R' = R
  BY <1>1 DEF ReadableOnes, Readable
<1>3. /\ i \in Nat /\ i..((i + 1) - 1) = {i} /\ floor \in Int /\ Tolerance \in Nat /\ Confirm \in Nat \ {0}
      /\ Len(batch) \in Nat /\ NoValue = -1
      /\ \A j \in R : j \in Nat /\ batch[j] \in Nat
  BY LevelType, Current, <1>1 DEF Position, ReadableOnes
<1>4. ASSUME Readable(i), NEW j \in R, j >= i PROVE batch[i] <= batch[j]
  <2>1. i \in R
    BY <1>1, <1>4 DEF ReadableOnes
  <2> QED
    BY <1>3, <1>4, <2>1 DEF Ascending
<1>5. Cleared' <=> floor' # NoValue /\ \A j \in R : j >= i' => floor' - Tolerance <= batch[j]
  BY <1>1, <1>2 DEF Cleared
<1>6. Cleared /\ floor' = floor => Cleared'
  BY <1>1, <1>3, <1>5 DEF Cleared
<1>7. Readable(i) /\ floor' = batch[i] => Cleared'
  <2>1. ASSUME Readable(i), floor' = batch[i], NEW j \in R, j >= i' PROVE floor' - Tolerance <= batch[j]
    <3>1. j >= i
      BY <1>1, <1>3, <2>1
    <3>2. i \in R
      BY <1>1, <2>1 DEF ReadableOnes
    <3> QED
      BY <1>3, <1>4, <2>1, <3>1, <3>2
  <2>2. Readable(i) => batch[i] # NoValue
    BY DEF Readable
  <2> QED
    BY <1>5, <2>1, <2>2
<1>8. CASE Unreadable
  <2>1. ~Readable(i) /\ rejected' = rejected \cup {i} /\ UNCHANGED <<resets, floor>>
    BY <1>3, <1>8 DEF Unreadable, Reject, Judge
  <2>2. Lost' = Lost
    BY <1>2, <2>1 DEF Lost, ReadableOnes
  <2> QED
    BY <1>2, <1>6, <2>1, <2>2
<1>9. CASE First
  <2>1. Readable(i) /\ rejected' = rejected /\ resets' = resets /\ floor' = batch[i]
    BY <1>9 DEF First, Accept
  <2> QED
    BY <1>2, <1>7, <2>1 DEF Lost
<1>10. CASE Rise
  <2>1. Readable(i) /\ ~Reappears
    <3>1. SUFFICES ASSUME Readable(i), Reappears PROVE FALSE
      BY <1>10 DEF Rise, Judgeable
    <3>2. PICK j \in (i + 1)..(i + Confirm) : j \in Position /\ Readable(j) /\ batch[j] < batch[i] - Tolerance
      BY <3>1 DEF Reappears
    <3>3. j \in R /\ i \in R /\ j >= i
      BY <1>1, <1>3, <3>1, <3>2 DEF ReadableOnes
    <3> QED
      BY <1>3, <1>4, <3>1, <3>2, <3>3
  <2>2. rejected' = rejected /\ resets' = resets /\ floor' = batch[i]
    BY <1>10, <2>1 DEF Rise, Accept
  <2> QED
    BY <1>2, <1>7, <2>1, <2>2 DEF Lost
<1>11. CASE Flat
  <2>1. rejected' = rejected /\ UNCHANGED <<resets, floor>>
    BY <1>11 DEF Flat, Accept
  <2> QED
    BY <1>2, <1>6, <2>1 DEF Lost
<1>12. CASE Fall
  <2>1. Readable(i) /\ floor # NoValue /\ Low(i)
    BY <1>12 DEF Fall, Judgeable
  <2>2. i \in R /\ batch[i] < floor - Tolerance
    BY <1>1, <2>1 DEF ReadableOnes, Low
  <2>3. ~Cleared
    BY <1>3, <2>2 DEF Cleared
  <2>4. PICK n \in (i + 1)..(Len(batch) + 1) :
          /\ FallsUntil(n)
          /\ \/ /\ n = i + Confirm
                /\ Accept(n)
                /\ resets' = resets \cup {i}
                /\ floor' \in NewFloor(n)
             \/ /\ Returned(n)
                /\ Reject(n)
             \/ /\ n # i + Confirm /\ ~Returned(n)
                /\ Accept(n)
                /\ UNCHANGED <<floor, resets>>
    BY <1>12 DEF Fall
  <2>5. \A j \in i..(n - 1) : j \in R /\ j >= i /\ batch[j] < floor - Tolerance
    BY <1>3, <2>4 DEF FallsUntil, Low, ReadableOnes
  <2>6. i' = n
    BY <2>4 DEF Accept, Reject, Judge
  <2>7. CASE Accept(n) /\ resets' = resets \cup {i} /\ floor' \in NewFloor(n)
    <3>1. PICK m \in i..(n - 1) : floor' = batch[m]
      BY <2>7 DEF NewFloor, Highest
    <3>2. m \in R /\ m < n /\ floor' # NoValue
      BY <1>3, <2>4, <2>5, <3>1
    <3>3. \A j \in R : j >= n => batch[m] <= batch[j]
      BY <1>3, <2>4, <3>2 DEF Ascending
    <3>4. Cleared'
      BY <1>3, <1>5, <2>6, <3>1, <3>2, <3>3
    <3>5. rejected' = rejected
      BY <2>7 DEF Accept
    <3> QED
      BY <1>2, <2>1, <2>2, <2>3, <2>7, <3>4, <3>5 DEF Lost
  <2>8. CASE Returned(n) /\ Reject(n)
    <3>1. rejected' = rejected \cup i..(n - 1) /\ UNCHANGED <<floor, resets>>
      BY <2>8 DEF Reject
    <3>2. Lost' = Lost \cup i..(n - 1)
      BY <1>2, <2>5, <3>1 DEF Lost
    <3>3. n < i + Confirm /\ n \in R /\ floor - Tolerance <= batch[n]
      <4>1. n < i + Confirm /\ n \in Position /\ Readable(n) /\ ~Low(n)
        BY <1>3, <2>4, <2>8 DEF Returned, FallsUntil
      <4>2. n \in R
        BY <4>1 DEF ReadableOnes
      <4> QED
        BY <1>3, <4>1, <4>2 DEF Low
    <3>4. \A j \in R : j >= n => batch[n] <= batch[j]
      BY <1>3, <2>4, <3>3 DEF Ascending
    <3>5. Cleared'
      BY <1>3, <1>5, <2>1, <2>6, <3>1, <3>3, <3>4
    <3>6. n \in (i + 1)..(i + Confirm - 1)
      BY <1>3, <2>4, <3>3
    <3> QED
      BY <1>2, <2>1, <2>3, <2>5, <3>1, <3>2, <3>5, <3>6
  <2>9. CASE Accept(n) /\ UNCHANGED <<floor, resets>>
    <3>1. UNCHANGED Lost
      BY <1>2, <2>9 DEF Accept, Lost
    <3> QED
      BY <1>2, <2>3, <2>9, <3>1
  <2> QED
    BY <2>4, <2>7, <2>8, <2>9
<1> QED
  BY <1>8, <1>9, <1>10, <1>11, <1>12 DEF Judging

\* So the floor leaves what is on record once, and readings are lost by that step or not at all.
LEMMA MisledStep ==
  ASSUME GuardInv, MisledInv, Judging
  PROVE  MisledInv'
<1>1. batch' = batch /\ known' = known /\ ReadableOnes' = ReadableOnes
  BY JudgingMoves DEF ReadableOnes, Readable
<1> SUFFICES ASSUME Ascending(ReadableOnes) PROVE MisledInv'
  BY <1>1 DEF MisledInv, Ascending
<1>2. /\ \A j, k \in Lost : k < j + Confirm - 1
      /\ \A j, k \in resets : j = k
      /\ Lost = {} \/ resets = {}
      /\ \A j \in Lost \cup resets : batch[j] < known - Tolerance
      /\ (floor = known /\ Lost = {} /\ resets = {}) \/ Cleared
  BY DEF MisledInv
<1>3. i \in Nat /\ Confirm \in Nat
  BY LevelType
<1>4. CASE UNCHANGED <<Lost, resets>> /\ (Cleared' \/ (floor' = floor /\ ~Cleared))
  BY <1>1, <1>2, <1>4 DEF MisledInv
<1>5. CASE /\ UNCHANGED Lost /\ resets' = resets \cup {i}
           /\ ~Cleared /\ floor # NoValue /\ batch[i] < floor - Tolerance /\ Cleared'
  BY <1>1, <1>2, <1>5 DEF MisledInv
<1>6. CASE /\ UNCHANGED resets /\ ~Cleared /\ floor # NoValue /\ Cleared'
           /\ \E n \in (i + 1)..(i + Confirm - 1) :
                Lost' = Lost \cup i..(n - 1) /\ \A j \in i..(n - 1) : batch[j] < floor - Tolerance
  <2>1. PICK n \in (i + 1)..(i + Confirm - 1) :
          Lost' = Lost \cup i..(n - 1) /\ \A j \in i..(n - 1) : batch[j] < floor - Tolerance
    BY <1>6
  <2>2. Lost' = i..(n - 1) /\ resets' = {} /\ floor = known
    BY <1>2, <1>6, <2>1
  <2>3. \A j, k \in i..(n - 1) : k < j + Confirm - 1
    BY <1>3, <2>1
  <2> QED
    BY <1>1, <1>6, <2>1, <2>2, <2>3 DEF MisledInv
<1> QED
  BY <1>4, <1>5, <1>6, MisledJudged

LEMMA MisledInit == Init => MisledInv
<1> SUFFICES ASSUME Init PROVE MisledInv
  OBVIOUS
<1>1. rejected = {} /\ resets = {} /\ floor = known
  BY DEF Init
<1> QED
  BY <1>1 DEF MisledInv, Lost

LEMMA MisledNext == GuardInv /\ MisledInv /\ [Next]_vars => MisledInv'
<1> SUFFICES ASSUME GuardInv, MisledInv, [Next]_vars PROVE MisledInv'
  OBVIOUS
<1>1. CASE (\E b \in Batches : Begin(b)) \/ Return
  <2>1. rejected' = {} /\ resets' = {} /\ floor' = known'
    BY <1>1, EmptyBatch DEF Begin, Return, GuardInv, TypeOK, Position
  <2> QED
    BY <2>1 DEF MisledInv, Lost
<1>2. CASE Judging
  BY <1>2, MisledStep
<1>3. CASE UNCHANGED vars
  BY <1>3 DEF vars, MisledInv, Lost, Cleared, ReadableOnes, Readable, Position, Ascending
<1> QED
  BY <1>1, <1>2, <1>3 DEF Next, Judging

(***************************************************************************)
(* Whatever is on record, a foreign reading kept as undecided included:    *)
(* of readings that rise, fewer than CONFIRM_SAMPLES are refused, or one   *)
(* reset is recorded, and the newest of them is stored.                    *)
(***************************************************************************)
THEOREM MisledSafety == Spec => []MisledOnce
<1>1. Spec => [](GuardInv /\ MisledInv)
  BY GuardInit, GuardNext, MisledInit, MisledNext, PTL DEF Spec
<1>2. GuardInv /\ MisledInv => MisledOnce
  <2> SUFFICES ASSUME GuardInv, MisledInv, Finished, Ascending(ReadableOnes)
               PROVE  /\ \A j, k \in Lost : k < j + Confirm - 1
                      /\ \A j, k \in resets : j = k
                      /\ Lost = {} \/ resets = {}
                      /\ \A j \in Lost \cup resets : batch[j] < known - Tolerance
                      /\ \A j \in ReadableOnes : (\A k \in ReadableOnes : k <= j) => j \in accepted
    BY DEF MisledOnce, Lost, ReadableOnes
  <2>1. ASSUME NEW j \in ReadableOnes, \A k \in ReadableOnes : k <= j PROVE j \in accepted
    <3>1. j \in accepted \cup rejected
      BY LevelType DEF Finished, GuardInv, Partition, ReadableOnes, Position
    <3>2. ASSUME j \in rejected PROVE FALSE
      <4>1. PICK k \in (j + 1)..(j + Confirm) : k \in Position /\ Readable(k)
        BY <3>2 DEF GuardInv, RejectedReturned, ReadableOnes
      <4>2. k <= j /\ j \in Nat /\ Confirm \in Nat
        BY <2>1, <4>1, LevelType DEF ReadableOnes, Position
      <4> QED
        BY <4>1, <4>2
    <3> QED
      BY <3>1, <3>2
  <2> QED
    BY <2>1 DEF MisledInv
<1> QED
  BY <1>1, <1>2, PTL
===============================================================================
