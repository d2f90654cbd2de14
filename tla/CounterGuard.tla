----------------------------- MODULE CounterGuard -----------------------------
(***************************************************************************)
(* The guard on cumulative counters (core/counter_guard.py): the loop of   *)
(* guard_counter_samples over the samples of one property, batch after     *)
(* batch of one Device.  A batch of the run DAG is judged against the      *)
(* newest value on record, a batch of a backfill on its own.               *)
(*                                                                         *)
(* Samples are known by their position in the batch, sorted by instant.    *)
(* Values are naturals, in units no larger than the tolerance.             *)
(***************************************************************************)
EXTENDS Integers, Sequences

CONSTANTS
  Batches,      \* the batches a gate may deliver: sequences of values
  Confirm,      \* CONFIRM_SAMPLES
  Tolerance     \* TOLERANCE

NoValue == -1   \* a value that is no number; also "no value on record"

ASSUME CounterGuardAssumption ==
  /\ Batches \subseteq Seq(Nat \cup {NoValue})
  /\ Confirm \in Nat \ {0}
  /\ Tolerance \in Nat

VARIABLES
  batch,        \* the samples, ordered
  known,        \* last_known
  i,            \* the sample to be judged next
  floor,        \* the established level
  accepted,     \* positions of samples to store
  rejected,     \* positions of samples refused
  resets,       \* positions at which a reset was recorded
  newest,       \* Orion: lastReadingValue of the property's summary
  judgedBy      \* history: judgedBy[j], the floor sample j was judged by

vars == <<batch, known, i, floor, accepted, rejected, resets, newest, judgedBy>>

Position == 1..Len(batch)
Readable(j) == batch[j] # NoValue
NotJudged(b) == [j \in 1..Len(b) |-> NoValue]

Init ==
  /\ batch = <<>>
  /\ known = NoValue
  /\ i = 1
  /\ floor = NoValue
  /\ accepted = {}
  /\ rejected = {}
  /\ resets = {}
  /\ newest = NoValue
  /\ judgedBy = NotJudged(<<>>)

Finished == i > Len(batch)

\* What a batch is judged by: the newest value on record, nothing for a backfill
\* or when Orion does not answer.
LastKnown == {newest, NoValue}

\* A call of the guard begins.
Begin(b) ==
  /\ batch = <<>>
  /\ batch' = b
  /\ known' \in LastKnown
  /\ floor' = known'
  /\ judgedBy' = NotJudged(b)
  /\ UNCHANGED <<i, accepted, rejected, resets, newest>>

\* The samples i..n-1 are judged together.
Judge(n) ==
  /\ i' = n
  /\ judgedBy' = [j \in Position |-> IF i <= j /\ j < n THEN floor ELSE judgedBy[j]]
  /\ UNCHANGED <<batch, known, newest>>

Accept(n) ==
  /\ Judge(n)
  /\ accepted' = accepted \cup i..(n - 1)
  /\ UNCHANGED rejected

Reject(n) ==
  /\ Judge(n)
  /\ rejected' = rejected \cup i..(n - 1)
  /\ UNCHANGED <<accepted, floor, resets>>

Unreadable ==
  /\ ~Finished
  /\ ~Readable(i)
  /\ Reject(i + 1)

\* The first level there is.
First ==
  /\ ~Finished
  /\ Readable(i) /\ floor = NoValue
  /\ Accept(i + 1)
  /\ floor' = batch[i]
  /\ UNCHANGED resets

Judgeable == ~Finished /\ Readable(i) /\ floor # NoValue

Low(j) == j \in Position /\ Readable(j) /\ batch[j] < floor - Tolerance

\* The old track is seen again within the look-ahead: a sample below this one
\* that is not below the floor.
ReappearsFlat ==   \* mutation
  \E j \in (i + 1)..(i + Confirm) : j \in Position /\ Readable(j) /\ ~Low(j) /\ batch[j] <= batch[i]

Reappears ==
  \E j \in (i + 1)..(i + Confirm) :
    /\ j \in Position /\ Readable(j) /\ ~Low(j)
    /\ batch[j] < batch[i] - Tolerance

Rise ==
  /\ Judgeable
  /\ batch[i] > floor + Tolerance
  /\ IF Reappears
     THEN Reject(i + 1)
     ELSE /\ Accept(i + 1)
          /\ floor' = batch[i]
          /\ UNCHANGED resets

Flat ==
  /\ Judgeable
  /\ batch[i] >= floor - Tolerance /\ batch[i] <= floor + Tolerance
  /\ Accept(i + 1)
  /\ UNCHANGED <<floor, resets>>

\* i..n-1 are the samples of a fall, Confirm at most.
FallsUntil(n) ==
  /\ n <= i + Confirm
  /\ \A j \in i..(n - 1) : Low(j)
  /\ n = i + Confirm \/ ~Low(n)

\* Back on the old track before the new level was confirmed.
ReturnedOrEnded(n) == n < i + Confirm   \* mutation
ReturnedNever(n) == FALSE   \* mutation
Returned(n) == n < i + Confirm /\ n \in Position /\ Readable(n)

Highest(n) == {batch[j] : j \in {k \in i..(n - 1) : \A l \in i..(n - 1) : batch[l] <= batch[k]}}
NewFloorForgotten(n) == {floor}   \* mutation
NewFloor(n) == Highest(n)

\* A fall: a reset when the new level holds, foreign when the old track returns,
\* kept when the batch ends, or a value is unreadable, before that is decided.
Fall ==
  /\ Judgeable
  /\ Low(i)
  /\ \E n \in (i + 1)..(Len(batch) + 1) :
       /\ FallsUntil(n)
       /\ \/ /\ n = i + Confirm
             /\ Accept(n)
             /\ resets' = resets \cup {i}
             /\ floor' \in NewFloor(n)
          \/ /\ Returned(n)
             /\ Reject(n)
          \/ /\ n # i + Confirm /\ ~Returned(n)
             /\ Accept(n)
             /\ UNCHANGED <<floor, resets>>

\* The accepted samples are stored, and the newest of them refreshes the summary;
\* or the write fails, or the summary is newer than the batch.
Return ==
  /\ batch # <<>> /\ Finished
  /\ \/ \E j \in accepted : (\A k \in accepted : k <= j) /\ newest' = batch[j]
     \/ UNCHANGED newest
  /\ batch' = <<>>
  /\ known' = NoValue
  /\ i' = 1
  /\ floor' = NoValue
  /\ accepted' = {}
  /\ rejected' = {}
  /\ resets' = {}
  /\ judgedBy' = NotJudged(<<>>)

Next ==
  \/ \E b \in Batches : Begin(b)
  \/ Unreadable
  \/ First
  \/ Rise
  \/ Flat
  \/ Fall
  \/ Return

Spec == Init /\ [][Next]_vars

-------------------------------------------------------------------------------
TypeOK ==
  /\ batch \in Seq(Nat \cup {NoValue})
  /\ known \in Nat \cup {NoValue}
  /\ i \in 1..(Len(batch) + 1)
  /\ floor \in Nat \cup {NoValue}
  /\ accepted \in SUBSET Position
  /\ rejected \in SUBSET Position
  /\ resets \in SUBSET accepted
  /\ newest \in Nat \cup {NoValue}
  /\ judgedBy \in [Position -> Nat \cup {NoValue}]

\* guard_counter_samples: "Returns every input sample in exactly one of accepted /
\* rejected".  Every sample passed so far is in one of the two, and only values
\* that are numbers are stored.
Partition ==
  /\ accepted \cap rejected = {}
  /\ accepted \cup rejected = 1..(i - 1)
  /\ \A j \in accepted : Readable(j)

\* "A sample is rejected only when the readings after it return to the earlier
\* track": soon after it there is a sample at or above the level it was judged
\* by, and below it if it was a rise.
RejectedReturned ==
  \A j \in rejected : Readable(j) =>
    \E k \in (j + 1)..(j + Confirm) :
      /\ k \in Position /\ Readable(k)
      /\ batch[k] >= judgedBy[j] - Tolerance
      /\ batch[j] > judgedBy[j] => batch[k] < batch[j] - Tolerance

Ascending(S) ==
  \A j, k \in S : j < k => batch[j] <= batch[k]

\* The readings at S never fall below what was on record.
Continues(S) == Ascending(S) /\ \A j \in S : known <= batch[j]

\* A counter that only rises is stored as it is.
RisingKept ==
  LET readable == {j \in Position : Readable(j)} IN
  Finished /\ Continues(readable) => accepted = readable /\ resets = {}

\* "Two is enough to reject a lone interloper": one foreign sample, above or below
\* everything the meter reads, is refused, and nothing else is.
LoneIntruderRejected ==
  Finished =>
    \A p \in Position :
      LET genuine == Position \ {p}
          level == {batch[j] : j \in genuine} \cup ({known} \ {NoValue}) IN
      /\ \A j \in Position : Readable(j)
      /\ Continues(genuine)
      /\ p < Len(batch) /\ (p > 1 \/ known # NoValue)
      /\ \/ \A v \in level : batch[p] > v + Tolerance
         \/ \A v \in level : batch[p] < v - Tolerance
      => rejected = {p} /\ resets = {}

\* A meter that is replaced and counts up from a lower base loses no reading, and
\* its reset is recorded once.
ResetKept ==
  Finished =>
    \A q \in Position :
      LET before == 1..(q - 1)
          after == q..Len(batch)
          level == {batch[j] : j \in before} \cup ({known} \ {NoValue}) IN
      /\ \A j \in Position : Readable(j)
      /\ Continues(before) /\ Ascending(after)
      /\ level # {} /\ \A j \in after, v \in level : batch[j] < v - Tolerance
      /\ q + Confirm <= Len(batch) + 1
      => rejected = {} /\ resets = {q}

\* What a foreign reading costs that came last in its batch.  It was kept as
\* undecided and is what the next batch is judged by.  If the meter's readings
\* rise, fewer than Confirm of them are refused, in a row and below what is on
\* record, or one reset is recorded that never was, never both; and the newest
\* reading is stored, so the batch after that is judged by a genuine one.
MisledOnce ==
  LET readable == {j \in Position : Readable(j)}
      lost == rejected \cap readable IN
  Finished /\ Ascending(readable) =>
    /\ \A j, k \in lost : k < j + Confirm - 1
    /\ \A j, k \in resets : j = k
    /\ lost = {} \/ resets = {}
    /\ \A j \in lost \cup resets : batch[j] < known - Tolerance
    /\ \A j \in readable : (\A k \in readable : k <= j) => j \in accepted

\* A genuine counter loses no reading.
GenuineKept == RisingKept /\ ResetKept

\* The inductive invariant.
GuardInv ==
  /\ TypeOK
  /\ Partition
  /\ RejectedReturned
===============================================================================
