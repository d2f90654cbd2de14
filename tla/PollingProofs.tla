----------------------------- MODULE PollingProofs -----------------------------
(***************************************************************************)
(* PollingInv is inductive, for any fields, schedule, alignment, lengths   *)
(* of attempts and of back-off, and however reads and writes fail; and     *)
(* what the reader's side makes of what is stored: the freshness the       *)
(* verification script reports, the statistics of the client, and what it  *)
(* charges the periods of a counter.                                       *)
(***************************************************************************)
EXTENDS Consumer, FiniteSetTheorems, WellFoundedInduction, TLAPS

LEMMA PollingConstants ==
  /\ Field \subseteq Nat /\ Counter \subseteq Field
  /\ Align \in Nat \ {0} /\ Duration \in Nat /\ Retries \in Nat /\ RetryDelay \in Nat /\ Horizon \in Nat
  /\ None \notin Nat
BY PollingAssumption

LEMMA SubtractBound ==
  ASSUME NEW a \in Nat, NEW b \in Nat, NEW c \in Nat, a <= b + c
  PROVE  a - c <= b
OBVIOUS

\* A slot is a multiple of Align, and the last one not beyond its instant.
LEMMA SlotBounds ==
  ASSUME NEW t \in 0..Horizon
  PROVE  /\ Slot(t) \in Slots
         /\ Slot(t) <= t /\ t < Slot(t) + Align
         /\ \A k \in Slots : k <= t => k <= Slot(t)
<1>1. Align \in Nat \ {0} /\ Horizon \in Nat /\ t \in Nat /\ t <= Horizon
  BY PollingConstants
<1> DEFINE q == t \div Align
<1>2. q \in Nat /\ q * Align <= t /\ t < q * Align + Align
  BY <1>1
<1>3. q * Align \in Nat /\ (q * Align) % Align = 0
  BY <1>1, <1>2
<1>4. ASSUME NEW k \in Slots, k <= t PROVE k <= q * Align
  <2>1. k \in Nat /\ k % Align = 0
    BY DEF Slots
  <2> DEFINE p == k \div Align
  <2>2. p \in Nat /\ k = p * Align
    BY <1>1, <2>1
  <2>3. p <= q
    BY <1>1, <1>2, <2>1, <2>2, <1>4
  <2>4. p * Align <= q * Align
    BY <1>1, <1>2, <2>2, <2>3
  <2> QED
    BY <2>2, <2>4
<1> QED
  BY <1>1, <1>2, <1>3, <1>4 DEF Slot, Slots

LEMMA NothingType ==
  /\ Nothing \in [Field -> Reading \cup {None}]
  /\ \A f \in Field : Nothing[f] = None
BY DEF Nothing

LEMMA ZeroSlot == 0 \in Slots
<1>1. Align \in Nat \ {0} /\ Horizon \in Nat
  BY PollingConstants
<1> QED
  BY <1>1 DEF Slots

LEMMA PollingInit == Init => PollingInv
<1> SUFFICES ASSUME Init PROVE PollingInv
  OBVIOUS
<1>1. \A f \in Field : raw[f] = None /\ summary[f] = None /\ \A k \in Slots : points[f][k] = None
  BY DEF Init, Nothing
<1>2. clock \in 0..Horizon /\ clock = 0 /\ reset = 0 /\ began = 0
  BY PollingConstants DEF Init
<1>3. points \in [Field -> [Slots -> Reading \cup {None}]]
  BY DEF Init
<1>4. raw \in [Field -> Reading \cup {None}] /\ summary \in [Field -> Slots \cup {None}]
  BY NothingType DEF Init
<1>5. AgeIsBacked /\ StampIsHonest
  BY <1>1 DEF AgeIsBacked, StampIsHonest
<1> QED
  BY <1>1, <1>2, <1>3, <1>4, <1>5, ZeroSlot DEF Init, PollingInv, TypeOK, Got

\* What stays as it is when nothing is stored.
LEMMA StoreKept ==
  ASSUME PollingInv, UNCHANGED storeVars
  PROVE  AgeIsBacked' /\ StampIsHonest'
BY DEF PollingInv, TypeOK, storeVars, AgeIsBacked, StampIsHonest

LEMMA TickStep ==
  ASSUME PollingInv, Tick
  PROVE  PollingInv'
<1>1. /\ clock < Horizon /\ clock' = clock + 1
      /\ task \in {"reading", "storing", "marking"} => clock < began + Duration
      /\ UNCHANGED <<reset, task, began, toRead, raw, stamp, points, summary>>
  BY DEF Tick, taskVars, storeVars
<1>2. Got' = Got
  BY <1>1 DEF Got
<1>3. clock \in Nat /\ clock' \in 0..Horizon /\ reset' \in 0..clock' /\ began \in Nat /\ Duration \in Nat
  BY <1>1, PollingConstants DEF PollingInv, TypeOK
<1>4. \A f \in Got : began <= raw[f].at /\ raw[f].at <= clock'
  <2>1. \A f \in Got : raw[f].at \in Int
    BY DEF PollingInv, TypeOK, Got, Reading
  <2> QED
    BY <1>1, <1>3, <2>1 DEF PollingInv, TypeOK
<1>5. \A f \in Field : \A k \in Slots : points[f][k] # None => k <= clock' /\ points[f][k].at <= clock'
  <2>1. ASSUME NEW f \in Field, NEW k \in Slots, points[f][k] # None PROVE k <= clock' /\ points[f][k].at <= clock'
    <3>1. k <= clock /\ points[f][k].at <= clock
      BY <2>1 DEF PollingInv, TypeOK
    <3>2. points[f][k] \in Reading
      BY <2>1 DEF PollingInv, TypeOK
    <3>3. k \in Int /\ points[f][k].at \in Int
      BY <3>2 DEF Slots, Reading
    <3> QED
      BY <1>1, <1>3, <3>1, <3>3
  <2> QED
    BY <2>1
<1>6. stamp \in Nat
  BY DEF PollingInv, TypeOK, Slots
<1>7. task \in {"reading", "storing", "marking"} => began <= clock' /\ clock' <= began + Duration
  BY <1>1, <1>3 DEF PollingInv, TypeOK
<1>8. task = "storing" => stamp <= clock'
  BY <1>1, <1>3, <1>6 DEF PollingInv, TypeOK
<1>9. AgeIsBacked' /\ StampIsHonest'
  BY <1>1, StoreKept DEF storeVars
<1> QED
  BY <1>1, <1>2, <1>3, <1>4, <1>5, <1>7, <1>8, <1>9 DEF PollingInv, TypeOK

LEMMA ResetStep ==
  ASSUME PollingInv, Reset
  PROVE  PollingInv'
<1>1. reset' = clock /\ UNCHANGED <<clock, task, began, toRead, raw, stamp, points, summary>>
  BY DEF Reset, taskVars, storeVars
<1>2. Got' = Got
  BY <1>1 DEF Got
<1>3. AgeIsBacked' /\ StampIsHonest'
  BY <1>1, StoreKept DEF storeVars
<1>4. reset' \in 0..clock'
  BY <1>1 DEF PollingInv, TypeOK
<1> QED
  BY <1>1, <1>2, <1>3, <1>4 DEF PollingInv, TypeOK

\* An attempt begins: all that is stored was stored before.
LEMMA AttemptStep ==
  ASSUME PollingInv, NEW n, Attempt(n), UNCHANGED <<clock, reset, storeVars>>
  PROVE  PollingInv'
<1>1. /\ task' = "reading" /\ began' = clock /\ toRead' = Field /\ raw' = Nothing /\ stamp' = 0
      /\ UNCHANGED <<clock, reset, points, summary>>
  BY DEF Attempt, storeVars
<1>2. Got' = {}
  BY <1>1, NothingType DEF Got
<1>3. AgeIsBacked' /\ StampIsHonest'
  BY StoreKept
<1>4. clock \in Nat /\ clock <= clock /\ clock <= clock + Duration
  BY PollingConstants DEF PollingInv, TypeOK
<1>5. raw' \in [Field -> Reading \cup {None}] /\ stamp' \in Slots
  BY <1>1, NothingType, ZeroSlot
<1> QED
  BY <1>1, <1>2, <1>3, <1>4, <1>5 DEF PollingInv, TypeOK

\* A task that has ended, or waits for its next attempt, holds nothing.
LEMMA OverStep ==
  ASSUME PollingInv, task' \in {"idle", "waiting"}, began' \in Nat, toRead' = {}, raw' = Nothing, stamp' = 0,
         UNCHANGED <<clock, reset, points>>, AgeIsBacked', StampIsHonest', summary' \in [Field -> Slots \cup {None}]
  PROVE  PollingInv'
<1>1. Got' = {}
  BY NothingType DEF Got
<1>2. raw' \in [Field -> Reading \cup {None}] /\ stamp' \in Slots
  BY NothingType, ZeroSlot
<1> QED
  BY <1>1, <1>2 DEF PollingInv, TypeOK

LEMMA RaisedEnds ==
  ASSUME PollingInv, Raised \/ Ended
  PROVE  task' \in {"idle", "waiting"} /\ began' \in Nat /\ toRead' = {} /\ raw' = Nothing /\ stamp' = 0
<1>1. clock + RetryDelay \in Nat
  BY PollingConstants DEF PollingInv, TypeOK
<1> QED
  BY <1>1 DEF Raised, Ended

LEMMA ReadStep ==
  ASSUME PollingInv, Read
  PROVE  PollingInv'
<1>1. PICK silent \in SUBSET NextFields :
        raw' = [f \in Field |->
          IF f \in NextFields \ silent THEN [value |-> ValueOf(f), at |-> clock] ELSE raw[f]]
  BY DEF Read
<1>2. /\ task = "reading" /\ toRead' = toRead \ NextFields
      /\ UNCHANGED <<clock, reset, task, began, stamp, points, summary>>
  BY DEF Read, storeVars
<1>3. \A f \in Field : [value |-> ValueOf(f), at |-> clock] \in Reading
  <2>1. clock \in Nat /\ reset \in Nat /\ clock \in 0..Horizon
    BY PollingConstants DEF PollingInv, TypeOK
  <2>2. \A f \in Field : ValueOf(f) \in Int
    BY <2>1 DEF ValueOf
  <2> QED
    BY <2>1, <2>2 DEF Reading
<1>4. raw' \in [Field -> Reading \cup {None}]
  BY <1>1, <1>3 DEF PollingInv, TypeOK
<1>5. began <= clock /\ clock <= clock
  BY <1>2, PollingConstants DEF PollingInv, TypeOK
<1>6. ASSUME NEW f \in Got' PROVE began <= raw'[f].at /\ raw'[f].at <= clock
  <2>1. f \in Field /\ raw'[f] # None
    BY DEF Got
  <2>2. CASE f \in NextFields \ silent
    BY <1>1, <1>5, <2>1, <2>2
  <2>3. CASE f \notin NextFields \ silent
    BY <1>1, <2>1, <2>3 DEF Got, PollingInv, TypeOK
  <2> QED
    BY <2>2, <2>3
<1>7. AgeIsBacked' /\ StampIsHonest'
  BY <1>2, StoreKept DEF storeVars
<1> QED
  BY <1>2, <1>4, <1>6, <1>7 DEF PollingInv, TypeOK

LEMMA SampleStep ==
  ASSUME PollingInv, Sample
  PROVE  PollingInv'
<1>1. task = "reading" /\ UNCHANGED <<clock, reset, points, summary>>
  BY DEF Sample, storeVars
<1>2. AgeIsBacked' /\ StampIsHonest'
  BY <1>1, StoreKept DEF storeVars
<1>3. CASE Got = {}
  <2>1. Ended
    BY <1>3 DEF Sample
  <2> QED
    BY <1>1, <1>2, <2>1, OverStep, RaisedEnds DEF PollingInv, TypeOK
<1>4. CASE Got # {}
  <2>1. task' = "storing" /\ stamp' = Slot(clock) /\ UNCHANGED <<began, toRead, raw>>
    BY <1>4 DEF Sample, Stamp
  <2>2. Got' = Got
    BY <2>1 DEF Got
  <2>3. /\ clock \in Nat /\ began \in Nat /\ Duration \in Nat /\ Align \in Nat
        /\ began <= clock /\ clock <= began + Duration
    BY <1>1, PollingConstants DEF PollingInv, TypeOK
  <2>4. /\ stamp' \in Slots /\ stamp' \in Nat /\ stamp' <= clock /\ clock < stamp' + Align
        /\ \A k \in Slots : k <= clock => k <= stamp'
    BY <2>1, SlotBounds DEF PollingInv, TypeOK, Slots
  <2>5. \A f \in Field : \A k \in Slots : points[f][k] # None => k <= stamp'
    BY <2>4 DEF PollingInv, TypeOK
  <2>6. ASSUME NEW f \in Got PROVE stamp' - Duration <= raw[f].at /\ raw[f].at < stamp' + Align
    <3>1. raw[f].at \in Int
      BY DEF PollingInv, TypeOK, Got, Reading
    <3>2. began <= raw[f].at /\ raw[f].at <= clock
      BY DEF PollingInv, TypeOK
    <3>3. stamp' - Duration <= began /\ clock < stamp' + Align
      <4>1. stamp' \in Nat /\ stamp' <= clock /\ clock < stamp' + Align
        BY <2>4
      <4>2. stamp' <= began + Duration
        BY <2>3, <4>1
      <4>3. stamp' - Duration <= began
        BY <2>3, <4>1, <4>2, SubtractBound
      <4> QED
        BY <4>1, <4>3
    <3>4. stamp' - Duration \in Int /\ stamp' + Align \in Int
      BY <2>3, <2>4
    <3> QED
      BY <2>3, <3>1, <3>2, <3>3, <3>4
  <2> QED
    BY <1>1, <1>2, <2>1, <2>2, <2>3, <2>4, <2>5, <2>6 DEF PollingInv, TypeOK
<1> QED
  BY <1>3, <1>4

\* What a batch is stored over is older, and so is all that lies before it.
LEMMA WrittenHolds ==
  ASSUME PollingInv, task = "storing", points' = Written
  PROVE  /\ points' \in [Field -> [Slots -> Reading \cup {None}]]
         /\ \A f \in Field : \A k \in Slots : points'[f][k] # None => k <= clock /\ points'[f][k].at <= clock
         /\ \A f \in Got : points'[f][stamp] # None
         /\ \A f \in Field : summary[f] # None => points'[f][summary[f]] # None
         /\ \A f \in Field : \A k \in Slots : points'[f][k] # None =>
              /\ k - Duration <= points'[f][k].at
              /\ points'[f][k].at < k + Align
              /\ \A j \in Slots : j < k /\ points'[f][j] # None => points'[f][j].at <= points'[f][k].at
<1>1. /\ stamp \in Slots /\ stamp \in Int /\ clock \in Int /\ began \in Int
      /\ stamp <= clock /\ began <= clock
  BY DEF PollingInv, TypeOK, Slots
<1>2. ASSUME NEW f \in Field, NEW k \in Slots
      PROVE  points'[f][k] = IF f \in Got /\ k = stamp THEN raw[f] ELSE points[f][k]
  BY <1>1, <1>2 DEF Written, PollingInv, TypeOK
<1>3. \A f \in Got : /\ f \in Field /\ raw[f] # None /\ raw[f] \in Reading /\ raw[f].at \in Int
                     /\ began <= raw[f].at /\ raw[f].at <= clock
                     /\ stamp - Duration <= raw[f].at /\ raw[f].at < stamp + Align
  BY DEF Got, PollingInv, TypeOK, Reading
<1>4. ASSUME NEW f \in Field, NEW k \in Slots, points[f][k] # None
      PROVE  /\ k \in Int /\ points[f][k].at \in Int /\ points[f][k].at <= began /\ points[f][k].at <= clock
             /\ k <= stamp /\ k <= clock
  <2>1. points[f][k] \in Reading
    BY <1>4 DEF PollingInv, TypeOK
  <2>2. k \in Int /\ points[f][k].at \in Int
    BY <2>1 DEF Reading, Slots
  <2>3. points[f][k].at <= began /\ points[f][k].at <= clock /\ k <= stamp /\ k <= clock
    BY <1>4 DEF PollingInv, TypeOK
  <2> QED
    BY <2>2, <2>3
<1>5. points' \in [Field -> [Slots -> Reading \cup {None}]]
  BY <1>1, <1>3 DEF Written, PollingInv, TypeOK
<1>6. ASSUME NEW f \in Field, NEW k \in Slots, points'[f][k] # None
      PROVE  k <= clock /\ points'[f][k].at <= clock
  BY <1>1, <1>2, <1>3, <1>4, <1>6
<1>7. \A f \in Got : points'[f][stamp] # None
  BY <1>1, <1>2, <1>3
<1>8. ASSUME NEW f \in Field, summary[f] # None PROVE points'[f][summary[f]] # None
  <2>1. summary[f] \in Slots /\ points[f][summary[f]] # None
    BY <1>8 DEF PollingInv, TypeOK, AgeIsBacked
  <2> QED
    BY <1>2, <1>3, <2>1
<1>9. ASSUME NEW f \in Field, NEW k \in Slots, points'[f][k] # None
      PROVE  k - Duration <= points'[f][k].at /\ points'[f][k].at < k + Align
  BY <1>1, <1>2, <1>3, <1>9 DEF PollingInv, TypeOK, StampIsHonest
<1>10. ASSUME NEW f \in Field, NEW k \in Slots, NEW j \in Slots,
              points'[f][k] # None, points'[f][j] # None, j < k
       PROVE  points'[f][j].at <= points'[f][k].at
  <2>1. CASE f \in Got /\ k = stamp
    <3>1. points'[f][k] = raw[f] /\ points'[f][j] = points[f][j]
      BY <1>1, <1>2, <1>10, <2>1 DEF Slots
    <3>2. points[f][j].at \in Int /\ points[f][j].at <= began
      BY <1>4, <1>10, <3>1
    <3>3. raw[f].at \in Int /\ began <= raw[f].at
      BY <1>3, <2>1
    <3> QED
      BY <1>1, <3>1, <3>2, <3>3
  <2>2. CASE ~(f \in Got /\ k = stamp)
    <3>1. points'[f][k] = points[f][k]
      BY <1>2, <2>2
    <3>2. k <= stamp
      BY <1>4, <1>10, <3>1
    <3>3. points'[f][j] = points[f][j]
      BY <1>1, <1>2, <1>10, <3>2 DEF Slots
    <3> QED
      BY <1>10, <3>1, <3>3 DEF PollingInv, TypeOK, StampIsHonest
  <2> QED
    BY <2>1, <2>2
<1> QED
  BY <1>5, <1>6, <1>7, <1>8, <1>9, <1>10

LEMMA StoreStep ==
  ASSUME PollingInv, Store
  PROVE  PollingInv'
<1>1. task = "storing" /\ UNCHANGED <<clock, reset, summary>>
  BY DEF Store
<1>2. PICK applied, answered \in BOOLEAN :
        /\ answered => applied
        /\ points' = IF applied THEN Written ELSE points
        /\ IF answered THEN task' = "marking" /\ UNCHANGED <<began, attempt, toRead, raw, stamp>> ELSE Ended
  BY DEF Store, Counted
<1>3. CASE applied
  <2>1. points' = Written
    BY <1>2, <1>3
  <2>2. AgeIsBacked'
    BY <1>1, <2>1, WrittenHolds DEF AgeIsBacked
  <2>3. StampIsHonest'
    BY <1>1, <2>1, WrittenHolds DEF StampIsHonest
  <2>4. CASE answered
    <3>1. task' = "marking" /\ UNCHANGED <<began, toRead, raw, stamp>>
      BY <1>2, <2>4
    <3>2. Got' = Got
      BY <3>1 DEF Got
    <3>3. /\ points' \in [Field -> [Slots -> Reading \cup {None}]]
          /\ \A f \in Field : \A k \in Slots : points'[f][k] # None => k <= clock /\ points'[f][k].at <= clock
          /\ \A f \in Got : points'[f][stamp] # None
      BY <1>1, <2>1, WrittenHolds
    <3> QED
      BY <1>1, <2>2, <2>3, <3>1, <3>2, <3>3 DEF PollingInv, TypeOK
  <2>5. CASE ~answered
    <3>1. /\ points' \in [Field -> [Slots -> Reading \cup {None}]]
          /\ \A f \in Field : \A k \in Slots : points'[f][k] # None => k <= clock /\ points'[f][k].at <= clock
      BY <1>1, <2>1, WrittenHolds
    <3>2. Ended
      BY <1>2, <2>5
    <3>3. /\ task' = "idle" /\ began' = 0 /\ toRead' = {} /\ raw' = Nothing /\ stamp' = 0
          /\ Got' = {}
      BY <3>2, NothingType DEF Ended, Got
    <3>4. raw' \in [Field -> Reading \cup {None}] /\ stamp' \in Slots
      BY <3>3, NothingType, ZeroSlot
    <3> QED
      BY <1>1, <2>2, <2>3, <3>1, <3>3, <3>4 DEF PollingInv, TypeOK
  <2> QED
    BY <2>4, <2>5
<1>4. CASE ~applied
  <2>1. Ended /\ UNCHANGED storeVars
    BY <1>1, <1>2, <1>4 DEF storeVars
  <2> QED
    BY <1>1, <2>1, StoreKept, RaisedEnds, OverStep DEF PollingInv, TypeOK, storeVars
<1> QED
  BY <1>3, <1>4

LEMMA MarkStep ==
  ASSUME PollingInv, Mark
  PROVE  PollingInv'
<1>1. PICK missed \in SUBSET Got :
        summary' = [f \in Field |-> IF f \in Got \ missed THEN stamp ELSE summary[f]]
  BY DEF Mark
<1>2. task = "marking" /\ UNCHANGED <<clock, reset, points>> /\ (Raised \/ Ended)
  BY DEF Mark
<1>3. AgeIsBacked'
  BY <1>1, <1>2 DEF PollingInv, TypeOK, AgeIsBacked
<1>4. StampIsHonest'
  BY <1>2 DEF PollingInv, TypeOK, StampIsHonest
<1>5. summary' \in [Field -> Slots \cup {None}]
  BY <1>1 DEF PollingInv, TypeOK
<1> QED
  BY <1>2, <1>3, <1>4, <1>5, RaisedEnds, OverStep

LEMMA PollingNext == PollingInv /\ [Next]_vars => PollingInv'
<1> SUFFICES ASSUME PollingInv, [Next]_vars PROVE PollingInv'
  OBVIOUS
<1>1. CASE Tick
  BY <1>1, TickStep
<1>2. CASE Reset
  BY <1>2, ResetStep
<1>3. CASE Run
  BY <1>3, AttemptStep DEF Run
<1>4. CASE Retry
  BY <1>4, AttemptStep DEF Retry
<1>5. CASE Unreachable
  BY <1>5, StoreKept, RaisedEnds, OverStep DEF Unreachable, storeVars, PollingInv, TypeOK
<1>6. CASE Read
  BY <1>6, ReadStep
<1>7. CASE Sample
  BY <1>7, SampleStep
<1>8. CASE Store
  BY <1>8, StoreStep
<1>9. CASE Mark
  BY <1>9, MarkStep
<1>10. CASE UNCHANGED vars
  <2>1. UNCHANGED <<clock, reset, task, began, toRead, raw, stamp, points, summary, storeVars>>
    BY <1>10 DEF vars, taskVars, storeVars
  <2>2. AgeIsBacked' /\ StampIsHonest'
    BY <2>1, StoreKept
  <2>3. Got' = Got
    BY <2>1 DEF Got
  <2> QED
    BY <2>1, <2>2, <2>3 DEF PollingInv, TypeOK
<1> QED
  BY <1>1, <1>2, <1>3, <1>4, <1>5, <1>6, <1>7, <1>8, <1>9, <1>10 DEF Next

\* The strengthening that is inductive: what an attempt is about to store is
\* newer, in value and in stamp, than anything stored before it began.
THEOREM PollingInvariant == Spec => []PollingInv
<1> QED
  BY PollingInit, PollingNext, PTL DEF Spec

\* Whatever age the client gives a reading, history has that reading.
THEOREM AgeSafety == Spec => []AgeIsBacked
<1>1. PollingInv => AgeIsBacked
  BY DEF PollingInv, TypeOK
<1> QED
  BY <1>1, PollingInvariant, PTL

\* A point says when its value was read, over retries of the same slot and
\* attempts that run into the next one.
THEOREM StampSafety == Spec => []StampIsHonest
<1>1. PollingInv => StampIsHonest
  BY DEF PollingInv, TypeOK
<1> QED
  BY <1>1, PollingInvariant, PTL

-------------------------------------------------------------------------------
\* Any minute of the hour comes within an hour of any instant.
LEMMA MinuteComes ==
  ASSUME NEW t \in Nat, NEW m \in 0..(Span - 1)
  PROVE  \E d \in (t + 1)..(t + Span) : d % Span = m
<1>1. Span \in Nat \ {0} /\ m \in Nat /\ m < Span
  BY PollingAssumption
<1> DEFINE q == t \div Span
           r == t % Span
<1>2. q \in Nat /\ r \in Nat /\ r < Span /\ t = q * Span + r
  BY <1>1
<1>3. ASSUME NEW k \in Nat PROVE (k * Span + m) % Span = m
  BY <1>1
<1>4. (q + 1) * Span = q * Span + Span /\ q * Span \in Nat
  BY <1>1, <1>2
<1>5. CASE r < m
  <2>1. q * Span + m \in (t + 1)..(t + Span)
    BY <1>1, <1>2, <1>4, <1>5
  <2> QED
    BY <1>2, <1>3, <2>1
<1>6. CASE m <= r
  <2>1. (q + 1) * Span + m \in (t + 1)..(t + Span)
    BY <1>1, <1>2, <1>4, <1>6
  <2> QED
    BY <1>2, <1>3, <2>1
<1> QED
  BY <1>1, <1>2, <1>5, <1>6

LEMMA MultipleComes ==
  ASSUME NEW t \in Nat, NEW s \in Nat \ {0}
  PROVE  \E d \in (t + 1)..(t + s) : d % Span \in 0..(Span - 1) /\ (d % Span) % s = 0
<1>1. Span \in Nat \ {0}
  BY PollingAssumption
<1> DEFINE q == t \div Span
           r == t % Span
           k == r \div s
           next == (k + 1) * s
<1>2. q \in Nat /\ r \in Nat /\ r < Span /\ t = q * Span + r
  BY <1>1
<1>3. k \in Nat /\ next \in Nat /\ r < next /\ next <= r + s
  <2>1. k \in Nat /\ k * s <= r /\ r < k * s + s
    BY <1>2
  <2>2. next = k * s + s /\ k * s \in Nat
    BY <2>1
  <2> QED
    BY <1>2, <2>1, <2>2
<1>4. next % s = 0 /\ 0 % s = 0
  BY <1>3
<1>5. ASSUME NEW n \in Nat, NEW m \in 0..(Span - 1) PROVE (n * Span + m) % Span = m
  BY <1>1
<1>6. (q + 1) * Span = q * Span + Span /\ q * Span \in Nat
  BY <1>1, <1>2
<1> HIDE DEF q, r, k, next
<1>7. CASE next < Span
  <2>1. next \in 0..(Span - 1) /\ q * Span + next \in (t + 1)..(t + s)
    BY <1>1, <1>2, <1>3, <1>6, <1>7
  <2>2. (q * Span + next) % Span = next
    BY <1>2, <1>5, <2>1
  <2> QED
    BY <1>4, <2>1, <2>2
<1>8. CASE Span <= next
  <2>1. 0 \in 0..(Span - 1) /\ (q + 1) * Span + 0 \in (t + 1)..(t + s)
    BY <1>1, <1>2, <1>3, <1>6, <1>8
  <2>2. ((q + 1) * Span + 0) % Span = 0
    BY <1>2, <1>5, <2>1
  <2> QED
    BY <1>4, <2>1, <2>2
<1> QED
  BY <1>1, <1>3, <1>7, <1>8

LEMMA RunComes ==
  ASSUME schedule \in Schedules, NEW t \in Nat
  PROVE  Gap(schedule) \in Nat /\ \E d \in (t + 1)..(t + Gap(schedule)) : Due(d)
<1>1. Span \in Nat \ {0}
  BY PollingAssumption
<1>2. CASE schedule.form = "step"
  <2>1. schedule.step \in Nat \ {0}
    BY <1>2, SchedulesAssumption
  <2>2. PICK d \in (t + 1)..(t + schedule.step) : d % Span \in 0..(Span - 1) /\ (d % Span) % schedule.step = 0
    BY <2>1, MultipleComes
  <2>3. d % Span \in Minutes(schedule) /\ d > 0
    BY <1>2, <2>2 DEF Minutes
  <2> QED
    BY <1>2, <2>1, <2>3 DEF Due, Gap
<1>3. CASE schedule.form # "step"
  <2>1. PICK m \in 0..(Span - 1) : m \in schedule.minutes
    BY <1>3, SchedulesAssumption
  <2>2. PICK d \in (t + 1)..(t + Span) : d % Span = m
    BY MinuteComes
  <2>3. d % Span \in Minutes(schedule) /\ d > 0
    BY <1>1, <1>3, <2>1, <2>2 DEF Minutes
  <2> QED
    BY <1>1, <1>3, <2>3 DEF Due, Gap
<1> QED
  BY <1>2, <1>3

\* What is known of a field that every run has stored.  A run that is under way
\* has read it or is going to; every run began soon after the newest reading,
\* and as long as none is queued none has come due since.
Storing == {"reading", "storing", "marking"}
LastOn(f) == summary[f] + Align - 1
Soon(f, t) == t <= LastOn(f) + Gap(schedule) \/ t <= LastOn(f) + Duration
FreshInv ==
  /\ schedule \in Schedules
  /\ \A f \in Field \ trouble :
       /\ task # "waiting"
       /\ task = "reading" => f \in toRead \cup Got
       /\ task \in {"storing", "marking"} => f \in Got /\ began < stamp + Align
       /\ task \in Storing /\ ~queued => \A t \in (began + 1)..clock : ~Due(t)
       /\ summary[f] # None =>
            /\ Soon(f, IF task = "idle" THEN clock ELSE began)
            /\ task = "idle" /\ ~queued => \A t \in (LastOn(f) + 1)..clock : ~Due(t)

LEMMA FreshInit == Init => FreshInv
BY PollingConstants DEF Init, FreshInv, Storing

\* A step that changes neither the task nor what it has read, nor the clock.
LEMMA FreshKept ==
  ASSUME FreshInv,
         UNCHANGED <<schedule, clock, queued, task, began, toRead, raw, stamp, summary, trouble>>
  PROVE  FreshInv'
<1>1. Got' = Got
  BY DEF Got
<1>2. ASSUME NEW f \in Field, NEW t PROVE Soon(f, t)' = Soon(f, t) /\ LastOn(f)' = LastOn(f)
  BY DEF Soon, LastOn, Gap
<1>3. \A t : Due(t)' = Due(t)
  BY DEF Due, Minutes
<1> QED
  BY <1>1, <1>2, <1>3 DEF FreshInv

LEMMA TickFresh ==
  ASSUME PollingInv, FreshInv, Tick
  PROVE  FreshInv'
<1>1. /\ clock' = clock + 1 /\ queued' = (queued \/ Due(clock + 1)) /\ (~queued \/ task # "idle")
      /\ UNCHANGED <<schedule, task, began, toRead, raw, stamp, summary, trouble>>
  BY DEF Tick, taskVars, storeVars
<1>2. Got' = Got
  BY <1>1 DEF Got
<1>3. clock \in Nat /\ clock + 1 \in Nat /\ began \in Nat /\ Align \in Nat \ {0} /\ Duration \in Nat
  BY PollingConstants DEF PollingInv, TypeOK
<1>4. \A t : Due(t)' = Due(t)
  BY <1>1 DEF Due, Minutes
<1> SUFFICES ASSUME NEW f \in Field \ trouble
             PROVE  /\ task \in Storing /\ ~queued' => \A t \in (began + 1)..clock' : ~Due(t)
                    /\ summary[f] # None =>
                         /\ Soon(f, IF task = "idle" THEN clock' ELSE began)
                         /\ task = "idle" /\ ~queued' => \A t \in (LastOn(f) + 1)..clock' : ~Due(t)
  BY <1>1, <1>2, <1>4 DEF FreshInv, LastOn, Soon, Gap
<1>5. ASSUME NEW t, NEW b \in Int, ~queued', \A u \in (b + 1)..clock : ~Due(u), t \in (b + 1)..clock' PROVE ~Due(t)
  <2>1. t = clock + 1 \/ t \in (b + 1)..clock
    BY <1>1, <1>3, <1>5
  <2> QED
    BY <1>1, <1>5, <2>1
<1>6. ASSUME task \in Storing, ~queued' PROVE \A t \in (began + 1)..clock' : ~Due(t)
  <2>1. ~queued
    BY <1>1, <1>6, Zenon
  <2>2. \A u \in (began + 1)..clock : ~Due(u)
    BY <1>6, <2>1, Zenon DEF FreshInv
  <2>3. began \in Int
    BY <1>3
  <2> QED
    BY <1>5, <1>6, <2>2, <2>3, Zenon
<1>7. ASSUME summary[f] # None
      PROVE  /\ Soon(f, IF task = "idle" THEN clock' ELSE began)
             /\ task = "idle" /\ ~queued' => \A t \in (LastOn(f) + 1)..clock' : ~Due(t)
  <2>1. summary[f] \in Nat /\ LastOn(f) \in Nat
    BY <1>3, <1>7 DEF PollingInv, TypeOK, Slots, LastOn
  <2>3. CASE task # "idle"
    BY <1>7, <2>3 DEF FreshInv
  <2>4. CASE task = "idle"
    <3>1. \A t \in (LastOn(f) + 1)..clock : ~Due(t)
      BY <1>1, <1>7, <2>4 DEF FreshInv
    <3>2. Soon(f, clock + 1)
      <4>1. PICK d \in (LastOn(f) + 1)..(LastOn(f) + Gap(schedule)) : Due(d)
        BY <2>1, RunComes DEF FreshInv
      <4>2. Gap(schedule) \in Nat /\ d \in Nat /\ LastOn(f) + 1 <= d /\ d <= LastOn(f) + Gap(schedule)
        BY <2>1, <4>1, RunComes DEF FreshInv
      <4>3. ~(d <= clock)
        BY <1>3, <3>1, <4>1, <4>2
      <4> QED
        BY <1>3, <2>1, <4>2, <4>3 DEF Soon
    <3> QED
      BY <1>1, <1>5, <2>1, <2>4, <3>1, <3>2
  <2> QED
    BY <2>3, <2>4
<1> QED
  BY <1>6, <1>7

LEMMA AttemptFresh ==
  ASSUME PollingInv, FreshInv, NEW n, Attempt(n), (task = "idle" /\ queued' = FALSE) \/ task = "waiting",
         UNCHANGED <<schedule, clock, summary, trouble>>
  PROVE  FreshInv'
<1>1. task' = "reading" /\ began' = clock /\ toRead' = Field
  BY DEF Attempt
<1>2. clock \in Nat
  BY PollingConstants DEF PollingInv, TypeOK
<1>3. ASSUME NEW f \in Field \ trouble
      PROVE  summary[f] # None => Soon(f, clock)'
  <2>1. summary[f] # None => Soon(f, clock)
    BY DEF FreshInv
  <2> QED
    BY <2>1 DEF Soon, LastOn, Gap
<1> QED
  BY <1>1, <1>2, <1>3 DEF FreshInv, Storing

LEMMA ReadFresh ==
  ASSUME PollingInv, FreshInv, Read
  PROVE  FreshInv'
<1>1. PICK silent \in SUBSET NextFields :
        /\ IF silent = {} THEN UNCHANGED <<faults, trouble>> ELSE Fault(silent)
        /\ raw' = [f \in Field |->
             IF f \in NextFields \ silent THEN [value |-> ValueOf(f), at |-> clock] ELSE raw[f]]
  BY DEF Read
<1>2. /\ task = "reading" /\ toRead' = toRead \ NextFields
      /\ UNCHANGED <<schedule, clock, queued, task, began, stamp, summary>>
  BY DEF Read, storeVars
<1>3. trouble \cup silent = trouble'
  BY <1>1 DEF Fault
<1>4. ASSUME NEW f \in Field \ trouble' PROVE f \in toRead' \cup Got'
  <2>1. f \in Field \ trouble /\ f \notin silent /\ f \in toRead \cup Got
    BY <1>2, <1>3 DEF FreshInv
  <2>2. CASE f \in NextFields
    <3>1. raw'[f] = [value |-> ValueOf(f), at |-> clock]
      BY <1>1, <2>1, <2>2
    <3>2. [value |-> ValueOf(f), at |-> clock] # None
      <4>1. clock \in Nat /\ ValueOf(f) \in Int
        BY PollingConstants DEF PollingInv, TypeOK, ValueOf
      <4> QED
        BY <4>1, PollingAssumption
    <3> QED
      BY <3>1, <3>2 DEF Got
  <2>3. CASE f \notin NextFields
    BY <1>1, <1>2, <2>1, <2>3 DEF Got
  <2> QED
    BY <2>2, <2>3
<1>5. \A f, t : Soon(f, t)' = Soon(f, t) /\ LastOn(f)' = LastOn(f)
  BY <1>2 DEF Soon, LastOn, Gap
<1>6. \A t : Due(t)' = Due(t)
  BY <1>2 DEF Due, Minutes
<1> QED
  BY <1>2, <1>3, <1>4, <1>5, <1>6 DEF FreshInv

\* With a field that no run has missed, the gate has something to store.
LEMMA SampleFresh ==
  ASSUME PollingInv, FreshInv, Sample
  PROVE  FreshInv'
<1>1. /\ task = "reading" /\ toRead = {}
      /\ UNCHANGED <<schedule, clock, queued, summary, trouble>>
  BY DEF Sample, storeVars
<1> SUFFICES ASSUME NEW f \in Field \ trouble PROVE FreshInv'
  BY <1>1 DEF FreshInv
<1>2. f \in Got
  BY <1>1 DEF FreshInv
<1>3. task' = "storing" /\ stamp' = Slot(clock) /\ UNCHANGED <<began, toRead, raw>>
  BY <1>2 DEF Sample, Stamp
<1>4. \A g \in Field \ trouble : g \in Got'
  BY <1>1, <1>3 DEF FreshInv, Got
<1>5. began < stamp' + Align
  <2>1. clock \in 0..Horizon /\ began \in Nat /\ began <= clock
    BY <1>1 DEF PollingInv, TypeOK
  <2>2. clock < Slot(clock) + Align /\ Slot(clock) \in Slots
    BY <2>1, SlotBounds
  <2>3. clock \in Nat /\ Slot(clock) \in Nat /\ Align \in Nat
    BY <2>1, <2>2, PollingConstants DEF Slots
  <2> QED
    BY <1>3, <2>1, <2>2, <2>3
<1>6. \A g, t : Soon(g, t)' = Soon(g, t) /\ LastOn(g)' = LastOn(g)
  BY <1>1 DEF Soon, LastOn, Gap
<1>7. \A t : Due(t)' = Due(t)
  BY <1>1 DEF Due, Minutes
<1> QED
  BY <1>1, <1>3, <1>4, <1>5, <1>6, <1>7 DEF FreshInv, Storing

\* With a field that no run has missed, every batch has been answered.
LEMMA StoreFresh ==
  ASSUME PollingInv, FreshInv, Store
  PROVE  FreshInv'
<1>1. PICK applied, answered \in BOOLEAN :
        /\ IF answered THEN UNCHANGED <<faults, trouble>> ELSE Fault(Field)
        /\ IF answered THEN task' = "marking" /\ UNCHANGED <<began, attempt, toRead, raw, stamp>> ELSE Ended
  BY DEF Store, Counted
<1>2. task = "storing" /\ UNCHANGED <<schedule, clock, queued, summary>>
  BY DEF Store
<1>3. CASE ~answered
  <2>1. Field \subseteq trouble'
    BY <1>1, <1>3 DEF Fault
  <2> QED
    BY <1>2, <2>1 DEF FreshInv
<1>4. CASE answered
  <2>1. task' = "marking" /\ UNCHANGED <<trouble, began, raw, stamp>> /\ Got' = Got
    BY <1>1, <1>4 DEF Got
  <2>2. \A g, t : Soon(g, t)' = Soon(g, t) /\ LastOn(g)' = LastOn(g)
    BY <1>2 DEF Soon, LastOn, Gap
  <2>3. \A t : Due(t)' = Due(t)
    BY <1>2 DEF Due, Minutes
  <2> QED
    BY <1>2, <2>1, <2>2, <2>3 DEF FreshInv, Storing
<1> QED
  BY <1>3, <1>4

\* The summary of such a field moves to the stamp of the run that ends.
LEMMA MarkFresh ==
  ASSUME PollingInv, FreshInv, Mark
  PROVE  FreshInv'
<1>1. PICK missed \in SUBSET Got, marked \in BOOLEAN :
        /\ summary' = [f \in Field |-> IF f \in Got \ missed THEN stamp ELSE summary[f]]
        /\ IF missed = {} /\ marked THEN UNCHANGED <<faults, trouble>> ELSE Fault(IF marked THEN missed ELSE Field)
        /\ IF marked THEN Ended ELSE Raised
  BY DEF Mark
<1>2. task = "marking" /\ UNCHANGED <<schedule, clock, queued>>
  BY DEF Mark
<1>3. CASE ~marked
  <2>1. Field \subseteq trouble'
    BY <1>1, <1>3 DEF Fault
  <2> QED
    BY <1>2, <2>1 DEF FreshInv
<1>4. CASE marked
  <2>1. task' = "idle" /\ trouble \cup missed = trouble'
    BY <1>1, <1>4 DEF Ended, Fault
  <2>2. /\ clock \in Nat /\ began \in Nat /\ stamp \in Nat /\ Align \in Nat /\ Duration \in Nat
        /\ clock <= began + Duration
    BY <1>2, PollingConstants DEF PollingInv, TypeOK, Slots
  <2>3. ASSUME NEW f \in Field \ trouble'
        PROVE  /\ clock <= LastOn(f)' + Duration
               /\ ~queued => \A t \in (LastOn(f)' + 1)..clock : ~Due(t)
    <3>1. f \in Field \ trouble /\ f \in Got \ missed /\ began < stamp + Align
      BY <1>2, <2>1 DEF FreshInv
    <3>2. LastOn(f)' = stamp + Align - 1
      BY <1>1, <3>1 DEF LastOn
    <3>3. ~queued => \A t \in (began + 1)..clock : ~Due(t)
      BY <1>2, <3>1 DEF FreshInv, Storing
    <3>4. \A t \in (stamp + Align - 1 + 1)..clock : t \in (began + 1)..clock
      BY <2>2, <3>1
    <3> QED
      BY <2>2, <3>1, <3>2, <3>3, <3>4
  <2>4. \A t : Due(t)' = Due(t)
    BY <1>2 DEF Due, Minutes
  <2> QED
    BY <1>2, <2>1, <2>3, <2>4 DEF FreshInv, Storing, Soon
<1> QED
  BY <1>3, <1>4

LEMMA FreshNext == PollingInv /\ FreshInv /\ [Next]_vars => FreshInv'
<1> SUFFICES ASSUME PollingInv, FreshInv, [Next]_vars PROVE FreshInv'
  OBVIOUS
<1>1. CASE Run
  BY <1>1, AttemptFresh DEF Run, storeVars
<1>2. CASE Retry
  BY <1>2, AttemptFresh DEF Retry, storeVars
<1>3. CASE Unreachable
  <2>1. trouble' = Field /\ schedule' = schedule
    BY <1>3 DEF Unreachable
  <2> QED
    BY <2>1 DEF FreshInv
<1>4. CASE Reset \/ UNCHANGED vars
  <2>1. UNCHANGED <<schedule, clock, queued, task, began, toRead, raw, stamp, summary, trouble>>
    BY <1>4 DEF Reset, vars, taskVars, storeVars
  <2> QED
    BY <2>1, FreshKept
<1> QED
  BY <1>1, <1>2, <1>3, <1>4, TickFresh, ReadFresh, SampleFresh, StoreFresh, MarkFresh DEF Next

LEMMA IntervalType ==
  ASSUME NEW s \in Schedules, Regular(s)
  PROVE  Interval(s) \in Nat
<1>1. Span \in Nat \ {0}
  BY PollingAssumption
<1>2. CASE s.form = "step"
  BY <1>2, SchedulesAssumption DEF Interval
<1>3. CASE s.form = "fixed"
  BY <1>1, <1>3 DEF Interval
<1>4. CASE s.form = "list"
  <2> DEFINE n == Cardinality(s.minutes)
             each == Span \div n
  <2>1. s.minutes # {} /\ IsFiniteSet(s.minutes)
    <3>1. s.minutes \subseteq 0..(Span - 1) /\ s.minutes # {}
      BY <1>4, SchedulesAssumption
    <3>2. IsFiniteSet(0..(Span - 1))
      BY <1>1, FS_Interval
    <3> QED
      BY <3>1, <3>2, FS_Subset
  <2>2. n \in Nat \ {0}
    BY <2>1, FS_CardinalityType, FS_EmptySet
  <2>3. each \in Nat
    BY <1>1, <2>2
  <2> HIDE DEF n, each
  <2>4. \E x \in {1, each} : \A y \in {1, each} : x >= y
    BY <2>3
  <2>5. Max({1, each}) \in {1, each}
    BY <2>4, Zenon DEF Max
  <2> QED
    BY <1>4, <2>3, <2>5 DEF Interval, n, each
<1> QED
  BY <1>2, <1>3, <1>4 DEF Regular

\* Where the factor leaves the room, a field that no run has missed is not
\* reported as stale: whatever becomes of the other fields, however long the
\* attempts take, and if runs hold each other up.
THEOREM FreshSafety == Timely => (Spec => []HealthyIsFresh)
<1> SUFFICES ASSUME Timely PROVE Spec => []HealthyIsFresh
  OBVIOUS
<1>1. PollingInv /\ FreshInv => HealthyIsFresh
  <2> SUFFICES ASSUME PollingInv, FreshInv, Regular(schedule), NEW f \in Field \ trouble, summary[f] # None
               PROVE  ~(Age(f) > Interval(schedule) * Tolerance)
    BY DEF HealthyIsFresh, Stale
  <2>1. /\ clock \in Nat /\ began \in Nat /\ summary[f] \in Nat /\ Align \in Nat \ {0} /\ Duration \in Nat
        /\ Gap(schedule) \in Nat
    BY PollingConstants, RunComes DEF PollingInv, TypeOK, Slots, FreshInv
  <2>2. PICK wait \in {Gap(schedule), Duration} : clock <= LastOn(f) + wait + Duration
    <3>1. CASE task = "idle"
      BY <2>1, <3>1 DEF FreshInv, Soon, LastOn
    <3>2. CASE task # "idle"
      <4>1. task \in Storing /\ Soon(f, began)
        BY <3>2 DEF FreshInv, PollingInv, TypeOK, Storing
      <4>2. clock <= began + Duration
        BY <4>1 DEF PollingInv, Storing
      <4> QED
        BY <2>1, <4>1, <4>2 DEF Soon, LastOn
    <3> QED
      BY <3>1, <3>2
  <2>3. wait + Duration + Align - 1 <= Interval(schedule) * Tolerance
    BY DEF Timely, FreshInv
  <2>4. Interval(schedule) * Tolerance \in Int
    BY IntervalType, PollingAssumption DEF FreshInv
  <2> QED
    BY <2>1, <2>2, <2>3, <2>4 DEF Age, LastOn
<1> QED
  BY <1>1, PollingInit, PollingNext, FreshInit, FreshNext, PTL DEF Spec

-------------------------------------------------------------------------------
\* A strict and total order on a finite set, as the set of its pairs, has an end:
\* the elements have as many ranks as there are elements, so one has rank 0.
LEMMA OrderEnds ==
  ASSUME NEW S, IsFiniteSet(S), S # {}, NEW R,
         \A x \in S : <<x, x>> \notin R,
         \A x, y \in S : x # y => <<x, y>> \in R \/ <<y, x>> \in R,
         \A x, y, z \in S : <<x, y>> \in R /\ <<y, z>> \in R => <<x, z>> \in R
  PROVE  \E m \in S : \A x \in S : <<m, x>> \notin R
<1> DEFINE Beyond(x) == {y \in S : <<x, y>> \in R}
           n == Cardinality(S)
           rank == [x \in S |-> Cardinality(Beyond(x))]
<1>1. n \in Nat /\ n # 0
  BY FS_CardinalityType, FS_EmptySet
<1>2. ASSUME NEW x \in S
      PROVE  IsFiniteSet(Beyond(x)) /\ Cardinality(Beyond(x)) \in 0..(n - 1)
  <2>1. Beyond(x) \subseteq S \ {x}
    OBVIOUS
  <2>2. IsFiniteSet(S \ {x}) /\ Cardinality(S \ {x}) = n - 1
    BY FS_RemoveElement
  <2> HIDE DEF Beyond, n
  <2>3. IsFiniteSet(Beyond(x)) /\ Cardinality(Beyond(x)) <= n - 1
    BY <2>1, <2>2, FS_Subset
  <2> QED
    BY <1>1, <2>3, FS_CardinalityType
<1>3. ASSUME NEW x \in S, NEW y \in S, <<x, y>> \in R
      PROVE  rank[y] < rank[x]
  <2>1. Beyond(y) \subseteq Beyond(x) \ {y} /\ y \in Beyond(x)
    BY <1>3
  <2>2. IsFiniteSet(Beyond(x) \ {y}) /\ Cardinality(Beyond(x) \ {y}) = Cardinality(Beyond(x)) - 1
    BY <1>2, <2>1, FS_RemoveElement
  <2>3. /\ Cardinality(Beyond(x)) \in Nat /\ Cardinality(Beyond(y)) \in Nat
        /\ rank[x] = Cardinality(Beyond(x)) /\ rank[y] = Cardinality(Beyond(y))
    BY <1>2, FS_CardinalityType
  <2> HIDE DEF Beyond, rank
  <2>4. Cardinality(Beyond(y)) <= Cardinality(Beyond(x)) - 1
    BY <2>1, <2>2, FS_Subset
  <2> QED
    BY <2>3, <2>4
<1>4. rank \in Injection(S, 0..(n - 1))
  <2>1. rank \in [S -> 0..(n - 1)]
    BY <1>2
  <2>2. ASSUME NEW x \in S, NEW y \in S, x # y PROVE rank[x] # rank[y]
    <3>1. rank[x] < rank[y] \/ rank[y] < rank[x]
      BY <1>3, <2>2
    <3> QED
      BY <2>1, <3>1
  <2> HIDE DEF rank
  <2> QED
    BY <2>1, <2>2 DEF Injection, IsInjective
<1>5. IsFiniteSet(0..(n - 1)) /\ Cardinality(0..(n - 1)) = n
  <2> HIDE DEF n
  <2>1. n - 1 \in Nat /\ n - 1 - 0 + 1 = n /\ ~(0 > n - 1)
    BY <1>1
  <2> QED
    BY <2>1, FS_Interval
<1>6. rank \in Surjection(S, 0..(n - 1))
  BY <1>4, <1>5, FS_Injection
<1>7. 0 \in 0..(n - 1)
  BY <1>1
<1>8. PICK m \in S : rank[m] = 0
  BY <1>6, <1>7 DEF Surjection
<1>9. Beyond(m) = {}
  BY <1>2, <1>8, FS_EmptySet
<1> QED
  BY <1>9

\* What FiniteSetsExt takes as the largest and the smallest number of a finite
\* set are that.
LEMMA ExtremesOf ==
  ASSUME NEW S \in SUBSET Int, IsFiniteSet(S), S # {}
  PROVE  /\ Max(S) \in S /\ \A x \in S : x <= Max(S)
         /\ Min(S) \in S /\ \A x \in S : Min(S) <= x
<1> DEFINE U == {p \in S \X S : p[1] < p[2]}
           D == {p \in S \X S : p[2] < p[1]}
<1>1. \A x, y \in S : (<<x, y>> \in U <=> x < y) /\ (<<x, y>> \in D <=> y < x)
  OBVIOUS
<1>2. \E m \in S : \A x \in S : <<m, x>> \notin U
  <2> HIDE DEF U, D
  <2>1. /\ \A x \in S : <<x, x>> \notin U
        /\ \A x, y \in S : x # y => <<x, y>> \in U \/ <<y, x>> \in U
        /\ \A x, y, z \in S : <<x, y>> \in U /\ <<y, z>> \in U => <<x, z>> \in U
    BY <1>1
  <2> QED
    BY <2>1, OrderEnds
<1>3. \E m \in S : \A x \in S : <<m, x>> \notin D
  <2> HIDE DEF U, D
  <2>1. /\ \A x \in S : <<x, x>> \notin D
        /\ \A x, y \in S : x # y => <<x, y>> \in D \/ <<y, x>> \in D
        /\ \A x, y, z \in S : <<x, y>> \in D /\ <<y, z>> \in D => <<x, z>> \in D
    BY <1>1
  <2> QED
    BY <2>1, OrderEnds
<1> HIDE DEF U, D
<1>4. \E m \in S : \A x \in S : m >= x
  <2>1. PICK m \in S : \A x \in S : <<m, x>> \notin U
    BY <1>2
  <2>2. \A x \in S : ~(m < x) /\ m \in Int /\ x \in Int
    BY <1>1, <2>1
  <2> QED
    BY <2>2
<1>5. \E m \in S : \A x \in S : m <= x
  <2>1. PICK m \in S : \A x \in S : <<m, x>> \notin D
    BY <1>3
  <2>2. \A x \in S : ~(x < m) /\ m \in Int /\ x \in Int
    BY <1>1, <2>1
  <2> QED
    BY <2>2
<1>6. Max(S) \in S /\ \A x \in S : Max(S) >= x
  BY <1>4, Zenon DEF Max
<1>7. Min(S) \in S /\ \A x \in S : Min(S) <= x
  BY <1>5, Zenon DEF Min
<1> QED
  BY <1>6, <1>7

-------------------------------------------------------------------------------
\* The chunks of a batch are all of it.
LEMMA ChunksCover ==
  ASSUME NEW b \in Batches
  PROVE  UNION {ChunkOf(b, i) : i \in 1..Chunks(b)} = Range(b)
<1>1. MaxSeries \in Nat \ {0} /\ b \in Seq(Field \cup DOMAIN Others)
  BY ConsumerAssumption
<1>2. Len(b) \in Nat /\ DOMAIN b = 1..Len(b)
  BY <1>1
<1> DEFINE ChunkEnd(i) == Min({i * MaxSeries, Len(b)})
<1>3. ASSUME NEW i \in Nat
      PROVE  ChunkEnd(i) = IF i * MaxSeries <= Len(b) THEN i * MaxSeries ELSE Len(b)
  <2> DEFINE m == i * MaxSeries
             l == Len(b)
  <2>1. m \in Nat /\ l \in Nat
    BY <1>1, <1>2
  <2> HIDE DEF m, l
  <2>2. \E x \in {m, l} : \A y \in {m, l} : x <= y
    BY <2>1
  <2>3. Min({m, l}) \in {m, l} /\ \A y \in {m, l} : Min({m, l}) <= y
    BY <2>2, Zenon DEF Min
  <2>4. Min({m, l}) = IF m <= l THEN m ELSE l
    BY <2>1, <2>3
  <2> QED
    BY <2>4 DEF m, l
<1>4. ASSUME NEW i \in Nat
      PROVE  /\ ChunkEnd(i) \in Nat /\ ChunkEnd(i) <= Len(b)
             /\ \A j \in 1..Len(b) : j <= i * MaxSeries => j <= ChunkEnd(i)
  <2>1. i * MaxSeries \in Nat
    BY <1>1
  <2>2. ChunkEnd(i) = IF i * MaxSeries <= Len(b) THEN i * MaxSeries ELSE Len(b)
    BY <1>3
  <2> DEFINE m == i * MaxSeries
             l == Len(b)
             e == ChunkEnd(i)
  <2>3. m \in Nat /\ l \in Nat /\ e = IF m <= l THEN m ELSE l
    BY <1>2, <2>1, <2>2
  <2> HIDE DEF m, l, e
  <2>4. e \in Nat /\ e <= l /\ \A j \in 1..l : j <= m => j <= e
    BY <2>3
  <2> QED
    BY <2>4 DEF m, l, e
<1>5. Chunks(b) \in Nat
  BY <1>1, <1>2 DEF Chunks
<1>6. ASSUME NEW i \in 1..Chunks(b) PROVE ChunkOf(b, i) \subseteq Range(b)
  <2>1. i \in Nat /\ i >= 1
    BY <1>5
  <2>2. ChunkEnd(i) <= Len(b) /\ ChunkEnd(i) \in Nat
    BY <1>2, <1>4, <2>1
  <2>3. (i - 1) * MaxSeries + 1 \in Nat /\ (i - 1) * MaxSeries + 1 >= 1
    <3>1. i - 1 \in Nat
      BY <2>1
    <3>2. (i - 1) * MaxSeries \in Nat
      BY <1>1, <3>1
    <3> QED
      BY <3>2
  <2> DEFINE from == (i - 1) * MaxSeries + 1
             to == ChunkEnd(i)
  <2> HIDE DEF from, to
  <2>4. from..to \subseteq 1..Len(b)
    BY <1>2, <2>2, <2>3 DEF from, to
  <2> QED
    BY <1>2, <2>4 DEF ChunkOf, Range, from, to
<1>7. ASSUME NEW j \in 1..Len(b) PROVE \E i \in 1..Chunks(b) : b[j] \in ChunkOf(b, i)
  <2> DEFINE q == (j - 1) \div MaxSeries
             i == q + 1
  <2>1. j - 1 \in Nat /\ j \in Nat /\ j <= Len(b)
    BY <1>2
  <2>2. q \in Nat /\ q * MaxSeries <= j - 1 /\ j - 1 < q * MaxSeries + MaxSeries
    BY <1>1, <2>1
  <2> HIDE DEF q
  <2>3. (q + 1) * MaxSeries = q * MaxSeries + MaxSeries
    BY <1>1, <2>2
  <2>4. i <= Chunks(b)
    <3> DEFINE t == Len(b) + MaxSeries - 1
               c == t \div MaxSeries
    <3>1. t \in Nat /\ (q + 1) * MaxSeries <= t
      BY <1>1, <1>2, <2>1, <2>2, <2>3
    <3>2. c \in Nat /\ t < c * MaxSeries + MaxSeries
      BY <1>1, <3>1
    <3> HIDE DEF c, t
    <3>3. (c + 1) * MaxSeries = c * MaxSeries + MaxSeries
      BY <1>1, <3>2
    <3>4. q + 1 < c + 1
      <4>1. SUFFICES ASSUME q + 1 >= c + 1 PROVE FALSE
        BY <2>2, <3>2
      <4>2. (q + 1) * MaxSeries >= (c + 1) * MaxSeries
        BY <1>1, <2>2, <3>2, <4>1
      <4>3. (q + 1) * MaxSeries \in Nat /\ (c + 1) * MaxSeries \in Nat
        BY <1>1, <2>2, <3>2
      <4> QED
        BY <3>1, <3>2, <3>3, <4>2, <4>3
    <3>5. q + 1 <= c
      BY <2>2, <3>2, <3>4
    <3> QED
      BY <3>5 DEF Chunks, c, t
  <2>5. i \in 1..Chunks(b) /\ i \in Nat /\ i - 1 = q
    BY <1>5, <2>2, <2>4
  <2>6. j <= ChunkEnd(i)
    <3>1. i * MaxSeries = q * MaxSeries + MaxSeries
      BY <2>3
    <3>2. q * MaxSeries \in Nat
      BY <1>1, <2>2
    <3>3. j <= i * MaxSeries
      BY <1>1, <2>1, <2>2, <3>1, <3>2
    <3> QED
      BY <1>4, <2>5, <3>3
  <2>7. j \in ((i - 1) * MaxSeries + 1)..ChunkEnd(i)
    <3>1. ChunkEnd(i) \in Nat
      BY <1>4, <2>5
    <3>2. q * MaxSeries \in Nat
      BY <1>1, <2>2
    <3> DEFINE qm == q * MaxSeries
               to == ChunkEnd(i)
    <3> HIDE DEF qm, to, i
    <3>3. j \in (qm + 1)..to
      BY <2>1, <2>2, <2>6, <3>1, <3>2 DEF qm, to
    <3> QED
      BY <2>5, <3>3 DEF qm, to
  <2> QED
    BY <2>5, <2>7 DEF ChunkOf
<1> QED
  BY <1>2, <1>6, <1>7 DEF Range

\* The points of a series that a query finds are finitely many, and integers.
LEMMA VisibleType ==
  ASSUME PollingInv, NEW s \in Field \cup DOMAIN Others
  PROVE  LET v == Visible(s) IN
         /\ DOMAIN v \subseteq 0..Horizon /\ IsFiniteSet(DOMAIN v)
         /\ v = [k \in DOMAIN v |-> v[k]]
         /\ \A k \in DOMAIN v : v[k].value \in Int
<1> DEFINE v == Visible(s)
<1>1. Horizon \in Nat /\ None \notin [value : Int, at : Nat]
  BY PollingAssumption
<1>2. Stored(s) \in [Slots -> [value : Int, at : Nat] \cup {None}]
  <2>1. CASE s \in Field
    <3>1. points[s] \in [Slots -> Reading \cup {None}]
      BY <2>1 DEF PollingInv, TypeOK
    <3>2. Reading \subseteq [value : Int, at : Nat]
      BY DEF Reading
    <3> QED
      BY <2>1, <3>1, <3>2 DEF Stored
  <2>2. CASE s \notin Field
    BY <2>2, ConsumerAssumption DEF Stored, Slots
  <2> QED
    BY <2>1, <2>2
<1>3. DOMAIN v \subseteq 0..Horizon /\ v = [k \in DOMAIN v |-> v[k]]
  BY DEF Visible, Slots
<1>4. \A k \in DOMAIN v : v[k].value \in Int
  BY <1>2 DEF Visible
<1>5. IsFiniteSet(DOMAIN v)
  <2>1. IsFiniteSet(0..Horizon)
    BY <1>1, FS_Interval
  <2> QED
    BY <1>3, <2>1, FS_Subset
<1> QED
  BY <1>3, <1>4, <1>5

\* Their values have a largest and a smallest one.
LEMMA ValuesType ==
  ASSUME NEW v, IsFiniteSet(DOMAIN v), DOMAIN v # {}, \A k \in DOMAIN v : v[k].value \in Int
  PROVE  /\ Max(Values(v)) \in Values(v) /\ Min(Values(v)) \in Values(v)
         /\ \A x \in Values(v) : Min(Values(v)) <= x /\ x <= Max(Values(v))
<1> DEFINE f == [k \in DOMAIN v |-> v[k].value]
<1>1. f \in Surjection(DOMAIN v, Values(v))
  BY DEF Surjection, Values
<1>2. IsFiniteSet(Values(v))
  BY <1>1, FS_Surjection
<1>3. Values(v) \in SUBSET Int /\ Values(v) # {}
  BY DEF Values
<1> QED
  BY <1>2, <1>3, ExtremesOf

\* The rows of a figure: one for each series of the batch that has points, or
\* that has one above the threshold.
LEMMA RowsAre ==
  ASSUME NEW b \in Batches, NEW series, NEW figure \in Figures
  PROVE  LET rows == Rows(figure, b, series) IN
         /\ DOMAIN rows = {s \in Range(b) : /\ DOMAIN series[s] # {}
                                            /\ figure = "over" => Above(series[s]) # {}}
         /\ \A s \in DOMAIN rows : Figure(figure, series[s]) = {rows[s]}
<1> DEFINE rows == Rows(figure, b, series)
<1>1. ASSUME NEW v
      PROVE  /\ Figure(figure, v) # {} <=> DOMAIN v # {} /\ (figure = "over" => Above(v) # {})
             /\ Figure(figure, v) # {} => \E x : Figure(figure, v) = {x}
  <2>1. CASE DOMAIN v = {} \/ (figure = "over" /\ Above(v) = {})
    BY <2>1, Zenon DEF Figure
  <2>2. CASE ~(DOMAIN v = {} \/ (figure = "over" /\ Above(v) = {}))
    <3>1. figure \in {"mean", "max", "min", "n", "over"}
      BY DEF Figures
    <3>2. \E x : Figure(figure, v) = {x}
      <4>1. CASE figure = "mean"
        BY <2>2, <4>1 DEF Figure
      <4>2. CASE figure = "max"
        BY <2>2, <4>2 DEF Figure
      <4>3. CASE figure = "min"
        BY <2>2, <4>3 DEF Figure
      <4>4. CASE figure = "n"
        BY <2>2, <4>4 DEF Figure
      <4>5. CASE figure = "over"
        BY <2>2, <4>5 DEF Figure
      <4> QED
        BY <3>1, <4>1, <4>2, <4>3, <4>4, <4>5
    <3> QED
      BY <2>2, <3>2
  <2> QED
    BY <2>1, <2>2
<1>2. rows = [s \in {r \in Range(b) : Figure(figure, series[r]) # {}} |-> CHOOSE x \in Figure(figure, series[s]) : TRUE]
  BY ChunksCover DEF Rows
<1>3. DOMAIN rows = {r \in Range(b) : Figure(figure, series[r]) # {}}
  BY <1>2
<1>4. ASSUME NEW s \in DOMAIN rows PROVE Figure(figure, series[s]) = {rows[s]}
  <2>1. rows[s] = CHOOSE x \in Figure(figure, series[s]) : TRUE
    BY <1>2, <1>3
  <2>2. PICK y : Figure(figure, series[s]) = {y}
    BY <1>1, <1>3
  <2> HIDE DEF rows
  <2> QED
    BY <2>1, <2>2
<1> QED
  BY <1>1, <1>3, <1>4

\* Whenever it is called, for any batch and any size of the chunks, stats_many
\* has an entry for just the series that have points, with the figures of all of
\* their points; a series without exceedances counts none of them.
THEOREM StatsSafety == Spec => []StatsAreExact
<1>1. PollingInv => StatsAreExact
  <2> SUFFICES ASSUME PollingInv, NEW b \in Batches
               PROVE  LET result == StatsMany(b) IN
                      /\ DOMAIN result = {s \in Range(b) : DOMAIN Visible(s) # {}}
                      /\ \A s \in DOMAIN result :
                           LET v == Visible(s)
                               values == Values(v)
                               got == result[s] IN
                           /\ got.n = Cardinality(DOMAIN v)
                           /\ got.mean = <<Total(v), got.n>>
                           /\ got.over = Cardinality(Above(v))
                           /\ {got.min, got.max} \subseteq values
                           /\ \A x \in values : got.min <= x /\ x <= got.max
    BY DEF StatsAreExact
  <2> DEFINE series == [s \in Range(b) |-> Visible(s)]
             rows == [g \in Figures |-> Rows(g, b, series)]
             result == StatsMany(b)
             found == {s \in Range(b) : DOMAIN Visible(s) # {}}
  <2>1. Range(b) \subseteq Field \cup DOMAIN Others
    BY ConsumerAssumption DEF Range
  <2>2. ASSUME NEW g \in Figures
        PROVE  /\ DOMAIN rows[g] = {s \in Range(b) : /\ DOMAIN Visible(s) # {}
                                                     /\ g = "over" => Above(Visible(s)) # {}}
               /\ \A s \in DOMAIN rows[g] : Figure(g, Visible(s)) = {rows[g][s]}
    <3> HIDE DEF series
    <3>1. rows[g] = Rows(g, b, series)
      OBVIOUS
    <3>2. \A s \in Range(b) : series[s] = Visible(s)
      BY DEF series
    <3> HIDE DEF rows
    <3>3. /\ DOMAIN Rows(g, b, series) = {s \in Range(b) : /\ DOMAIN series[s] # {}
                                                           /\ g = "over" => Above(series[s]) # {}}
          /\ \A s \in DOMAIN Rows(g, b, series) : Figure(g, series[s]) = {Rows(g, b, series)[s]}
      BY RowsAre, Zenon
    <3>4. /\ DOMAIN rows[g] = {s \in Range(b) : /\ DOMAIN series[s] # {}
                                                /\ g = "over" => Above(series[s]) # {}}
          /\ \A s \in DOMAIN rows[g] : Figure(g, series[s]) = {rows[g][s]}
      BY <3>1, <3>3, Zenon
    <3> QED
      BY <3>2, <3>4
  <2>3. result = [s \in DOMAIN rows["n"] \cap DOMAIN rows["mean"] |->
                   [n |-> rows["n"][s], mean |-> rows["mean"][s], over |-> Or(rows["over"], s, 0),
                    min |-> Or(rows["min"], s, rows["mean"][s]), max |-> Or(rows["max"], s, rows["mean"][s])]]
    BY DEF StatsMany
  <2> HIDE DEF rows, series, result
  <2>4. {"n", "mean", "over", "min", "max"} \subseteq Figures
    BY DEF Figures
  <2>5. \A g \in Figures \ {"over"} : DOMAIN rows[g] = found
    BY <2>2
  <2>6. DOMAIN result = found
    BY <2>3, <2>4, <2>5
  <2>7. ASSUME NEW s \in found
        PROVE  /\ result[s].n = Cardinality(DOMAIN Visible(s))
               /\ result[s].mean = <<Total(Visible(s)), Cardinality(DOMAIN Visible(s))>>
               /\ result[s].over = Cardinality(Above(Visible(s)))
               /\ result[s].min = Min(Values(Visible(s))) /\ result[s].max = Max(Values(Visible(s)))
    <3> DEFINE v == Visible(s)
    <3>1. DOMAIN v # {} /\ s \in Range(b)
      OBVIOUS
    <3>2. /\ result[s].n = rows["n"][s] /\ result[s].mean = rows["mean"][s]
          /\ result[s].over = Or(rows["over"], s, 0)
          /\ result[s].min = Or(rows["min"], s, rows["mean"][s])
          /\ result[s].max = Or(rows["max"], s, rows["mean"][s])
      BY <2>3, <2>6
    <3>3. result[s].min = rows["min"][s] /\ result[s].max = rows["max"][s]
      BY <2>4, <2>5, <3>2 DEF Or
    <3>4. \A g \in Figures \ {"over"} : Figure(g, v) = {rows[g][s]}
      BY <2>2, <2>5
    <3> HIDE DEF v, found
    <3>5. Figure("n", v) = {Cardinality(DOMAIN v)}
      BY <3>1 DEF Figure
    <3>6. Figure("mean", v) = {<<Total(v), Cardinality(DOMAIN v)>>}
      BY <3>1 DEF Figure
    <3>7. Figure("min", v) = {Min(Values(v))} /\ Figure("max", v) = {Max(Values(v))}
      BY <3>1 DEF Figure
    <3>8. Or(rows["over"], s, 0) = Cardinality(Above(v))
      <4>1. CASE Above(v) = {}
        <5>1. s \notin DOMAIN rows["over"]
          BY <2>2, <2>4, <4>1 DEF v
        <5> QED
          BY <4>1, <5>1, FS_EmptySet DEF Or
      <4>2. CASE Above(v) # {}
        <5>1. s \in DOMAIN rows["over"]
          BY <2>2, <2>4, <3>1, <4>2 DEF v
        <5>2. Figure("over", v) = {rows["over"][s]}
          BY <2>2, <2>4, <5>1 DEF v
        <5>3. Figure("over", v) = {Cardinality(Above(v))}
          BY <3>1, <4>2 DEF Figure
        <5> QED
          BY <5>1, <5>2, <5>3 DEF Or
      <4> QED
        BY <4>1, <4>2
    <3>9. /\ rows["n"][s] = Cardinality(DOMAIN v) /\ rows["mean"][s] = <<Total(v), Cardinality(DOMAIN v)>>
          /\ rows["min"][s] = Min(Values(v)) /\ rows["max"][s] = Max(Values(v))
      BY <2>4, <3>4, <3>5, <3>6, <3>7
    <3> QED
      BY <3>2, <3>3, <3>8, <3>9 DEF v
  <2>8. ASSUME NEW s \in found
        PROVE  /\ Max(Values(Visible(s))) \in Values(Visible(s)) /\ Min(Values(Visible(s))) \in Values(Visible(s))
               /\ \A x \in Values(Visible(s)) : Min(Values(Visible(s))) <= x /\ x <= Max(Values(Visible(s)))
    BY <2>1, VisibleType, ValuesType
  <2> HIDE DEF found
  <2>9. \A s \in DOMAIN result :
          /\ result[s].n = Cardinality(DOMAIN Visible(s))
          /\ result[s].mean = <<Total(Visible(s)), result[s].n>>
          /\ result[s].over = Cardinality(Above(Visible(s)))
          /\ {result[s].min, result[s].max} \subseteq Values(Visible(s))
          /\ \A x \in Values(Visible(s)) : result[s].min <= x /\ x <= result[s].max
    BY <2>6, <2>7, <2>8
  <2> QED
    BY <2>6, <2>9 DEF result, found
<1> QED
  BY <1>1, PollingInvariant, PTL

(***************************************************************************)
(* The readings of a counter, for the sums of what it is charged.          *)
(***************************************************************************)
\* What is known of the readings of a counter.  A reading tells when its counter
\* was last at zero; of two readings in a row either that is the same, or the
\* counter was reset after the first of them.
Zero(p) == p.at - p.value
Follows(p, q) == Zero(p) = Zero(q) \/ p.at <= Zero(q)
Known(p) == p.value \in Nat /\ Zero(p) \in Nat /\ (Zero(p) = reset \/ p.at <= reset)
CountInv ==
  /\ resets \in Nat
  /\ resets = 0 => reset = 0
  /\ \A f \in Counter :
       /\ raw[f] # None => Known(raw[f])
       /\ \A k \in Slots : points[f][k] # None =>
            /\ Known(points[f][k])
            /\ \A j \in Slots : j < k /\ points[f][j] # None => Follows(points[f][j], points[f][k])
            /\ task \in {"reading", "storing"} /\ raw[f] # None => Follows(points[f][k], raw[f])

LEMMA CountTypes ==
  ASSUME PollingInv
  PROVE  /\ Counter \subseteq Field /\ clock \in Nat /\ reset \in Nat /\ reset <= clock /\ began \in Nat
         /\ \A f \in Field : raw[f] # None => raw[f].at \in Nat /\ raw[f].value \in Int /\ raw[f].at <= clock
         /\ \A f \in Field : \A k \in Slots : points[f][k] # None =>
              points[f][k].at \in Nat /\ points[f][k].value \in Int /\ points[f][k].at <= clock
<1>1. Counter \subseteq Field /\ clock \in Nat /\ reset \in Nat /\ reset <= clock /\ began \in Nat
  BY PollingConstants DEF PollingInv, TypeOK
<1>2. ASSUME NEW f \in Field, raw[f] # None
      PROVE  raw[f].at \in Nat /\ raw[f].value \in Int /\ raw[f].at <= clock
  <2>1. raw[f] \in Reading /\ f \in Got
    BY <1>2 DEF PollingInv, TypeOK, Got
  <2> QED
    BY <2>1 DEF PollingInv, Reading
<1>3. ASSUME NEW f \in Field, NEW k \in Slots, points[f][k] # None
      PROVE  points[f][k].at \in Nat /\ points[f][k].value \in Int /\ points[f][k].at <= clock
  <2>1. points[f][k] \in Reading
    BY <1>3 DEF PollingInv, TypeOK
  <2> QED
    BY <1>3, <2>1 DEF PollingInv, Reading
<1> QED
  BY <1>1, <1>2, <1>3

LEMMA CountInit == Init => CountInv
<1> SUFFICES ASSUME Init PROVE CountInv
  OBVIOUS
<1>1. Counter \subseteq Field
  BY PollingConstants
<1>2. \A f \in Field : raw[f] = None /\ \A k \in Slots : points[f][k] = None
  BY DEF Init, Nothing
<1> QED
  BY <1>1, <1>2 DEF Init, CountInv

\* A step that neither reads nor stores, though an attempt may end.
LEMMA CountKept ==
  ASSUME PollingInv, CountInv, UNCHANGED <<reset, resets, points>>,
         (UNCHANGED raw /\ (task' \in {"reading", "storing"} => task \in {"reading", "storing"})) \/ raw' = Nothing
  PROVE  CountInv'
<1>1. ASSUME NEW f \in Counter, raw'[f] # None
      PROVE  raw'[f] = raw[f] /\ (task' \in {"reading", "storing"} => task \in {"reading", "storing"})
  BY <1>1, CountTypes, NothingType
<1>2. ASSUME NEW p PROVE Known(p)' <=> Known(p)
  BY DEF Known, Zero
<1> QED
  BY <1>1, <1>2 DEF CountInv, Known, Zero

\* A reset comes after all that was read.
LEMMA ResetCount ==
  ASSUME PollingInv, CountInv, Reset
  PROVE  CountInv'
<1>1. reset' = clock /\ resets' = resets + 1 /\ UNCHANGED <<task, raw, points>>
  BY DEF Reset, taskVars, storeVars
<1>2. resets' \in Nat /\ resets' # 0
  BY <1>1 DEF CountInv
<1>3. ASSUME NEW p, Known(p), p.at <= clock PROVE Known(p)'
  BY <1>1, <1>3 DEF Known, Zero
<1> QED
  BY <1>1, <1>2, <1>3, CountTypes DEF CountInv

LEMMA ReadCount ==
  ASSUME PollingInv, CountInv, Read
  PROVE  CountInv'
<1>1. PICK silent \in SUBSET NextFields :
        raw' = [f \in Field |->
          IF f \in NextFields \ silent THEN [value |-> ValueOf(f), at |-> clock] ELSE raw[f]]
  BY DEF Read
<1>2. task = "reading" /\ UNCHANGED <<task, reset, resets, points>>
  BY DEF Read, storeVars
<1>3. ASSUME NEW f \in Counter, raw'[f] # None
      PROVE  raw'[f] = raw[f] \/ (Known(raw'[f]) /\ Zero(raw'[f]) = reset)
  <2>1. CASE f \in NextFields \ silent
    <3>1. raw'[f] = [value |-> clock - reset, at |-> clock]
      BY <1>1, <2>1, CountTypes DEF ValueOf
    <3> QED
      BY <3>1, CountTypes DEF Known, Zero
  <2>2. CASE f \notin NextFields \ silent
    BY <1>1, <2>2, CountTypes
  <2> QED
    BY <2>1, <2>2
<1>4. ASSUME NEW f \in Counter, raw'[f] # None, NEW k \in Slots, points[f][k] # None
      PROVE  Follows(points[f][k], raw'[f])
  <2>1. CASE raw'[f] = raw[f]
    BY <1>2, <1>4, <2>1 DEF CountInv
  <2>2. CASE Zero(raw'[f]) = reset
    <3>1. Known(points[f][k])
      BY <1>4 DEF CountInv
    <3> QED
      BY <2>2, <3>1 DEF Known, Follows
  <2> QED
    BY <1>3, <1>4, <2>1, <2>2
<1>5. ASSUME NEW p PROVE Known(p)' <=> Known(p)
  BY <1>2 DEF Known, Zero
<1>6. \A f \in Counter : raw'[f] # None => Known(raw'[f])
  BY <1>3 DEF CountInv
<1> QED
  BY <1>2, <1>4, <1>5, <1>6 DEF CountInv, Known, Zero

\* What is stored has nothing after it.
LEMMA StoreCount ==
  ASSUME PollingInv, CountInv, Store
  PROVE  CountInv'
<1>1. task = "storing" /\ UNCHANGED <<reset, resets>>
  BY DEF Store
<1>2. PICK applied \in BOOLEAN : points' = IF applied THEN Written ELSE points
  BY DEF Store
<1>3. raw' = Nothing \/ (UNCHANGED raw /\ task' = "marking")
  BY DEF Store, Ended
<1>4. CASE ~applied
  BY <1>1, <1>2, <1>3, <1>4, CountKept
<1>5. CASE applied
  <2>1. ASSUME NEW f \in Field, NEW k \in Slots
        PROVE  points'[f][k] = IF f \in Got /\ k = stamp THEN raw[f] ELSE points[f][k]
    BY <1>2, <1>5, <2>1 DEF Written, PollingInv, TypeOK
  <2>2. ASSUME NEW f \in Counter, NEW k \in Slots, points'[f][k] # None
        PROVE  Known(points'[f][k])
    BY <2>1, <2>2, CountTypes DEF CountInv, Got
  <2>3. ASSUME NEW f \in Counter, NEW k \in Slots, NEW j \in Slots,
               points'[f][k] # None, points'[f][j] # None, j < k
        PROVE  Follows(points'[f][j], points'[f][k])
    <3>1. f \in Field /\ stamp \in Int /\ k \in Int /\ j \in Int
      <4>1. f \in Field
        BY CountTypes
      <4>2. stamp \in Slots
        BY DEF PollingInv, TypeOK
      <4> QED
        BY <4>1, <4>2 DEF Slots
    <3>2. ASSUME NEW i \in Slots, points[f][i] # None PROVE i <= stamp
      BY <1>1, <3>1, <3>2 DEF PollingInv
    <3>3. CASE f \in Got /\ k = stamp
      <4>1. points'[f][k] = raw[f] /\ raw[f] # None /\ points'[f][j] = points[f][j]
        BY <2>1, <2>3, <3>1, <3>3 DEF Got
      <4> QED
        BY <1>1, <2>3, <4>1 DEF CountInv
    <3>4. CASE ~(f \in Got /\ k = stamp)
      <4>1. points'[f][k] = points[f][k]
        BY <2>1, <3>1, <3>4
      <4>2. points'[f][j] = points[f][j]
        BY <2>1, <2>3, <3>1, <3>2, <4>1
      <4> QED
        BY <2>3, <4>1, <4>2 DEF CountInv
    <3> QED
      BY <3>3, <3>4
  <2>4. ASSUME NEW f \in Counter, raw'[f] # None PROVE raw'[f] = raw[f] /\ task' = "marking"
    BY <1>3, <2>4, CountTypes, NothingType
  <2>5. ASSUME NEW p PROVE Known(p)' <=> Known(p)
    BY <1>1 DEF Known, Zero
  <2> QED
    BY <1>1, <2>2, <2>3, <2>4, <2>5 DEF CountInv, Known, Zero
<1> QED
  BY <1>4, <1>5

\* CountInv is inductive, beside PollingInv.
LEMMA CountNext == PollingInv /\ CountInv /\ [Next]_vars => CountInv'
<1> SUFFICES ASSUME PollingInv, CountInv, [Next]_vars PROVE CountInv'
  OBVIOUS
<1>1. CASE Tick
  BY <1>1, CountKept DEF Tick, taskVars, storeVars, boundVars
<1>2. CASE Reset
  BY <1>2, ResetCount
<1>3. CASE Run
  BY <1>3, CountKept DEF Run, Attempt, storeVars, boundVars
<1>4. CASE Retry
  BY <1>4, CountKept DEF Retry, Attempt, storeVars, boundVars
<1>5. CASE Unreachable
  BY <1>5, CountKept DEF Unreachable, Raised, Ended, storeVars, boundVars
<1>6. CASE Read
  BY <1>6, ReadCount
<1>7. CASE Sample
  BY <1>7, CountKept DEF Sample, Ended, storeVars, boundVars
<1>8. CASE Store
  BY <1>8, StoreCount
<1>9. CASE Mark
  BY <1>9, CountKept DEF Mark, Raised, Ended
<1>10. CASE UNCHANGED vars
  BY <1>10, CountKept DEF vars, taskVars, storeVars, boundVars
<1> QED
  BY <1>1, <1>2, <1>3, <1>4, <1>5, <1>6, <1>7, <1>8, <1>9, <1>10 DEF Next

(***************************************************************************)
(* Induction, over a set of numbers: the least number outside it would     *)
(* have its predecessor inside.  And the sum over a finite set, as the     *)
(* fold of the properties defines it, which takes the elements in an order *)
(* of its own: that there is such a sum, that it does not depend on the    *)
(* set it was defined for, and that any element may be taken out of it.    *)
(***************************************************************************)
LEMMA Induct ==
  ASSUME NEW K, 0 \in K, \A n \in Nat : n \in K => n + 1 \in K
  PROVE  Nat \subseteq K
<1> DEFINE L == Nat \ K
<1> SUFFICES ASSUME L # {} PROVE FALSE
  OBVIOUS
<1>1. PICK m \in L : \A k \in L : <<k, m>> \notin OpToRel(<, Nat)
  <2>1. L \subseteq Nat
    OBVIOUS
  <2> HIDE DEF L
  <2> QED
    BY <2>1, WFMin, NatLessThanWellFounded, Zenon
<1>2. m \in Nat \ {0} /\ m - 1 \in Nat /\ m - 1 < m
  OBVIOUS
<1>3. m - 1 \in L
  <2>1. m - 1 \in K => (m - 1) + 1 \in K
    BY <1>2
  <2> QED
    BY <1>2, <2>1
<1>4. <<m - 1, m>> \in OpToRel(<, Nat)
  <2>1. m \in Nat
    BY <1>2
  <2> HIDE DEF L
  <2> QED
    BY <1>2, <2>1, Zenon DEF OpToRel
<1> HIDE DEF L
<1> QED
  BY <1>1, <1>3, <1>4, Zenon

\* The element taken out of s, what a sum is at the sets it is computed from, and the fold.
First(s) == CHOOSE x \in s : TRUE
IsSum(h, g, S) == h = [s \in SUBSET S |-> IF s = {} THEN 0 ELSE h[s \ {First(s)}] + g[First(s)]]
Sum(g, S) == FoldSet(LAMBDA p, total : total + g[p], 0, S)

LEMMA SumIs ==
  ASSUME NEW g, NEW S, NEW h, IsSum(h, g, S)
  PROVE \E k : IsSum(k, g, S) /\ Sum(g, S) = k[S]
<1> DEFINE k == CHOOSE i : i = [s \in SUBSET S |-> IF s = {} THEN 0 ELSE i[s \ {CHOOSE x \in s : TRUE}] + g[CHOOSE x \in s : TRUE]]
<1>1. k = [s \in SUBSET S |-> IF s = {} THEN 0 ELSE k[s \ {CHOOSE x \in s : TRUE}] + g[CHOOSE x \in s : TRUE]]
  BY Zenon DEF IsSum, First
<1>2. Sum(g, S) = k[S]
  BY Zenon DEF Sum, FoldSet, MapThenFoldSet
<1> HIDE DEF k
<1> QED
  BY <1>1, <1>2, Zenon DEF IsSum, First

LEMMA FirstIn ==
  ASSUME NEW s, s # {}
  PROVE  First(s) \in s
BY DEF First

\* What remains without one element is smaller by one.
LEMMA OneLess ==
  ASSUME NEW s, IsFiniteSet(s), NEW x \in s
  PROVE  /\ IsFiniteSet(s \ {x})
         /\ Cardinality(s) \in Nat /\ Cardinality(s \ {x}) \in Nat
         /\ Cardinality(s) = Cardinality(s \ {x}) + 1
<1>1. IsFiniteSet(s \ {x}) /\ Cardinality(s \ {x}) = Cardinality(s) - 1
  BY FS_RemoveElement, Zenon
<1>2. Cardinality(s) \in Nat /\ Cardinality(s \ {x}) \in Nat
  BY <1>1, FS_CardinalityType, Zenon
<1> QED
  BY <1>1, <1>2

\* By induction on the size of the sets it is defined for.
LEMMA SumExists ==
  ASSUME NEW g, NEW S, IsFiniteSet(S)
  PROVE  \E h : IsSum(h, g, S)
<1> DEFINE Small(n) == {s \in SUBSET S : Cardinality(s) <= n}
           Eq(h, n) == h = [s \in Small(n) |-> IF s = {} THEN 0 ELSE h[s \ {First(s)}] + g[First(s)]]
           K == {n \in Nat : \E h : Eq(h, n)}
<1>1. \A s \in SUBSET S : IsFiniteSet(s) /\ Cardinality(s) \in Nat /\ Cardinality(s) <= Cardinality(S) /\ Cardinality(S) \in Nat
  BY FS_Subset, FS_CardinalityType
<1>2. ASSUME NEW n \in Nat, NEW s \in Small(n + 1), s # {}
      PROVE  s \ {First(s)} \in Small(n) /\ First(s) \in s
  <2>1. First(s) \in s
    BY <1>2, FirstIn
  <2>2. Cardinality(s) \in Nat /\ Cardinality(s \ {First(s)}) \in Nat /\ Cardinality(s) = Cardinality(s \ {First(s)}) + 1
    BY <1>1, <2>1, OneLess
  <2> QED
    BY <2>1, <2>2
<1>3. 0 \in K
  <2> DEFINE h == [s \in Small(0) |-> 0]
  <2>1. \A s \in Small(0) : s = {}
    <3>1. ASSUME NEW s \in Small(0) PROVE s = {}
      BY <1>1, FS_EmptySet
    <3> QED
      BY <3>1
  <2>2. Eq(h, 0)
    BY <2>1
  <2> QED
    BY <2>2
<1>4. ASSUME NEW n \in Nat, n \in K PROVE n + 1 \in K
  <2>1. PICK h : Eq(h, n)
    BY <1>4
  <2> DEFINE i == [s \in Small(n + 1) |-> IF s = {} THEN 0 ELSE h[s \ {First(s)}] + g[First(s)]]
  <2>2. ASSUME NEW s \in Small(n) PROVE i[s] = h[s]
    <3>1. s \in Small(n + 1)
      BY <1>1
    <3>2. i[s] = IF s = {} THEN 0 ELSE h[s \ {First(s)}] + g[First(s)]
      BY <3>1
    <3>3. h[s] = IF s = {} THEN 0 ELSE h[s \ {First(s)}] + g[First(s)]
      BY <2>1
    <3> QED
      BY <3>2, <3>3
  <2>3. ASSUME NEW s \in Small(n + 1), s # {} PROVE i[s \ {First(s)}] = h[s \ {First(s)}]
    BY <1>2, <2>2, <2>3
  <2> HIDE DEF Small
  <2>4. Eq(i, n + 1)
    BY <2>3
  <2> HIDE DEF i, Eq
  <2>5. \E j : Eq(j, n + 1)
    BY <2>4, Zenon
  <2> QED
    BY <2>5
<1>5. Nat \subseteq K
  <2> HIDE DEF K
  <2> QED
    BY <1>3, <1>4, Induct
<1>6. PICK h : Eq(h, Cardinality(S))
  BY <1>1, <1>5
<1>7. Small(Cardinality(S)) = SUBSET S
  BY <1>1
<1> QED
  BY <1>6, <1>7 DEF IsSum

\* The sum of a set does not depend on the set it was defined for.
LEMMA SumUnique ==
  ASSUME NEW g, NEW S, IsFiniteSet(S), NEW h, NEW i, NEW T \in SUBSET S, IsSum(h, g, S), IsSum(i, g, T)
  PROVE  h[T] = i[T]
<1> DEFINE K == {n \in Nat : \A s \in SUBSET T : Cardinality(s) = n => h[s] = i[s]}
<1>1. \A s \in SUBSET T : IsFiniteSet(s) /\ Cardinality(s) \in Nat /\ s \in SUBSET S
  BY FS_Subset, FS_CardinalityType
<1>2. ASSUME NEW s \in SUBSET T
      PROVE  /\ h[s] = IF s = {} THEN 0 ELSE h[s \ {First(s)}] + g[First(s)]
             /\ i[s] = IF s = {} THEN 0 ELSE i[s \ {First(s)}] + g[First(s)]
  BY <1>1, Zenon DEF IsSum
<1>3. 0 \in K
  <2>1. \A s \in SUBSET T : Cardinality(s) = 0 => s = {}
    BY <1>1, FS_EmptySet
  <2> QED
    BY <1>2, <2>1
<1>4. ASSUME NEW n \in Nat, n \in K PROVE n + 1 \in K
  <2>1. ASSUME NEW s \in SUBSET T, Cardinality(s) = n + 1 PROVE h[s] = i[s]
    <3>1. CASE s = {}
      BY <1>2, <3>1
    <3>2. CASE s # {}
      <4>1. First(s) \in s
        BY <3>2, FirstIn
      <4>2. Cardinality(s \ {First(s)}) = n
        BY <1>1, <2>1, <4>1, OneLess
      <4>3. h[s \ {First(s)}] = i[s \ {First(s)}]
        BY <1>4, <4>2
      <4> QED
        BY <1>2, <3>2, <4>3
    <3> QED
      BY <3>1, <3>2
  <2> QED
    BY <2>1
<1>5. Nat \subseteq K
  <2> HIDE DEF K
  <2> QED
    BY <1>3, <1>4, Induct
<1> QED
  BY <1>1, <1>5

LEMMA SumEmpty ==
  ASSUME NEW g
  PROVE  Sum(g, {}) = 0
<1>1. PICK k : IsSum(k, g, {}) /\ Sum(g, {}) = k[{}]
  BY SumExists, SumIs, FS_EmptySet
<1> QED
  BY <1>1 DEF IsSum

LEMMA SumFirst ==
  ASSUME NEW g, NEW S, IsFiniteSet(S), S # {}
  PROVE  Sum(g, S) = Sum(g, S \ {First(S)}) + g[First(S)]
<1> DEFINE T == S \ {First(S)}
<1>1. IsFiniteSet(T) /\ T \in SUBSET S /\ S \in SUBSET S
  BY FS_Subset
<1>2. PICK k : IsSum(k, g, S) /\ Sum(g, S) = k[S]
  BY SumExists, SumIs
<1>3. PICK i : IsSum(i, g, T) /\ Sum(g, T) = i[T]
  BY <1>1, SumExists, SumIs
<1>4. k[T] = i[T]
  BY <1>1, <1>2, <1>3, SumUnique
<1>5. k[S] = k[T] + g[First(S)]
  BY <1>1, <1>2, Zenon DEF IsSum
<1> QED
  BY <1>2, <1>3, <1>4, <1>5

LEMMA SumType ==
  ASSUME NEW S, IsFiniteSet(S), NEW g, \A x \in S : g[x] \in Int
  PROVE  Sum(g, S) \in Int
<1> DEFINE K == {n \in Nat : \A s \in SUBSET S : Cardinality(s) = n => Sum(g, s) \in Int}
<1>1. \A s \in SUBSET S : IsFiniteSet(s) /\ Cardinality(s) \in Nat
  BY FS_Subset, FS_CardinalityType
<1>2. 0 \in K
  <2>1. \A s \in SUBSET S : Cardinality(s) = 0 => s = {}
    BY <1>1, FS_EmptySet
  <2> QED
    BY <2>1, SumEmpty
<1>3. ASSUME NEW n \in Nat, n \in K PROVE n + 1 \in K
  <2>1. ASSUME NEW s \in SUBSET S, Cardinality(s) = n + 1 PROVE Sum(g, s) \in Int
    <3>1. s # {}
      BY <2>1, FS_EmptySet
    <3>2. First(s) \in s /\ g[First(s)] \in Int
      BY <3>1, FirstIn
    <3>3. Cardinality(s \ {First(s)}) = n
      BY <1>1, <2>1, <3>2, OneLess
    <3>4. Sum(g, s \ {First(s)}) \in Int
      BY <1>3, <3>3
    <3> QED
      BY <1>1, <3>1, <3>2, <3>4, SumFirst
  <2> QED
    BY <2>1
<1>4. Nat \subseteq K
  <2> HIDE DEF K
  <2> QED
    BY <1>2, <1>3, Induct
<1> QED
  BY <1>1, <1>4

\* In whatever order its elements are chosen, any of them may come last.
LEMMA SumLess ==
  ASSUME NEW S, IsFiniteSet(S), NEW g, \A x \in S : g[x] \in Int, NEW y \in S
  PROVE  Sum(g, S) = Sum(g, S \ {y}) + g[y]
<1> DEFINE K == {n \in Nat : \A s \in SUBSET S : Cardinality(s) = n => \A x \in s : Sum(g, s) = Sum(g, s \ {x}) + g[x]}
<1>1. \A s \in SUBSET S : /\ IsFiniteSet(s) /\ Cardinality(s) \in Nat /\ Sum(g, s) \in Int
                         /\ \A x : s \ {x} \in SUBSET S
  <2>1. ASSUME NEW s \in SUBSET S
        PROVE  /\ IsFiniteSet(s) /\ Cardinality(s) \in Nat /\ Sum(g, s) \in Int
               /\ \A x : s \ {x} \in SUBSET S
    <3>1. IsFiniteSet(s) /\ Cardinality(s) \in Nat
      BY FS_Subset, FS_CardinalityType
    <3> QED
      BY <3>1, SumType
  <2> QED
    BY <2>1
<1>2. 0 \in K
  <2>1. \A s \in SUBSET S : Cardinality(s) = 0 => s = {}
    BY <1>1, FS_EmptySet
  <2> QED
    BY <2>1
<1>3. ASSUME NEW n \in Nat, n \in K PROVE n + 1 \in K
  <2>1. ASSUME NEW s \in SUBSET S, Cardinality(s) = n + 1, NEW x \in s PROVE Sum(g, s) = Sum(g, s \ {x}) + g[x]
    <3> DEFINE c == First(s)
    <3>1. c \in s
      BY FirstIn
    <3>2. Sum(g, s) = Sum(g, s \ {c}) + g[c]
      BY <1>1, SumFirst
    <3> HIDE DEF c
    <3>3. CASE x = c
      BY <3>2, <3>3
    <3>4. CASE x # c
      <4>1. Cardinality(s \ {c}) = n /\ Cardinality(s \ {x}) = n
        BY <1>1, <2>1, <3>1, OneLess
      <4>2. x \in s \ {c} /\ c \in s \ {x} /\ s \ {c} \in SUBSET S /\ s \ {x} \in SUBSET S
        BY <3>1, <3>4
      <4>3. Sum(g, s \ {c}) = Sum(g, (s \ {c}) \ {x}) + g[x] /\ Sum(g, s \ {x}) = Sum(g, (s \ {x}) \ {c}) + g[c]
        BY <1>3, <4>1, <4>2
      <4>4. (s \ {c}) \ {x} = (s \ {x}) \ {c} /\ (s \ {c}) \ {x} \in SUBSET S
        BY <4>2
      <4>5. Sum(g, (s \ {c}) \ {x}) \in Int /\ g[c] \in Int /\ g[x] \in Int
        BY <1>1, <3>1, <4>4
      <4>6. Sum(g, (s \ {c}) \ {x}) = Sum(g, (s \ {x}) \ {c})
        BY <4>4, Zenon
      <4> HIDE DEF Sum
      <4> QED
        BY <3>2, <4>3, <4>5, <4>6
    <3> QED
      BY <3>3, <3>4
  <2> QED
    BY <2>1
<1>4. Nat \subseteq K
  <2> HIDE DEF K
  <2> QED
    BY <1>2, <1>3, Induct
<1> QED
  BY <1>1, <1>4

\* What is needed of the points of a counter.
IsCount(v) ==
  /\ DOMAIN v \subseteq Nat /\ IsFiniteSet(DOMAIN v) /\ DOMAIN v # {}
  /\ \A k \in DOMAIN v :
       /\ v[k].at \in Nat /\ v[k].value \in Nat /\ Zero(v[k]) \in Nat
       /\ \A j \in DOMAIN v : j < k => v[j].at <= v[k].at /\ Follows(v[j], v[k])

\* Of two points, the one read later counts at least what is charged for it.
Charge(p, q) == IF q.value >= p.value THEN q.value - p.value ELSE 0
LEMMA ChargeBound ==
  ASSUME NEW p, NEW q, p.at \in Nat, p.value \in Nat, q.at \in Nat, q.value \in Nat, Zero(p) \in Nat, Zero(q) \in Nat,
         p.at <= q.at, Follows(p, q)
  PROVE  /\ Charge(p, q) \in Int /\ Charge(p, q) <= q.at - p.at
         /\ Zero(p) = 0 /\ Zero(q) = 0 => Charge(p, q) = q.at - p.at
BY DEF Charge, Follows, Zero

\* The last point of each period, and the order of these.
LEMMA PeriodEnds ==
  ASSUME NEW v, IsCount(v)
  PROVE  /\ Periods(v) \subseteq Nat /\ IsFiniteSet(Periods(v)) /\ Periods(v) # {}
         /\ \A p \in Periods(v) : /\ LastKey(v, p) \in DOMAIN v
                                  /\ LastKey(v, p) \div Every = p
                                  /\ \A k \in DOMAIN v : k \div Every = p => k <= LastKey(v, p)
         /\ \A p, q \in Periods(v) : p < q => LastKey(v, p) < LastKey(v, q)
<1>1. Every \in Nat \ {0}
  BY ConsumerAssumption
<1>2. Periods(v) \subseteq Nat /\ Periods(v) # {}
  BY <1>1 DEF Periods, IsCount
<1>3. IsFiniteSet(Periods(v))
  <2> DEFINE f == [k \in DOMAIN v |-> k \div Every]
  <2>1. f \in Surjection(DOMAIN v, Periods(v))
    BY DEF Surjection, Periods
  <2>2. IsFiniteSet(DOMAIN v)
    BY DEF IsCount
  <2> HIDE DEF f
  <2> QED
    BY <2>1, <2>2, FS_Surjection
<1>4. ASSUME NEW p \in Periods(v)
      PROVE  /\ LastKey(v, p) \in DOMAIN v
             /\ LastKey(v, p) \div Every = p
             /\ \A k \in DOMAIN v : k \div Every = p => k <= LastKey(v, p)
  <2> DEFINE S == {k \in DOMAIN v : k \div Every = p}
  <2>1. S \in SUBSET Int /\ S # {} /\ S \subseteq DOMAIN v
    BY DEF IsCount, Periods
  <2>2. IsFiniteSet(S)
    BY <2>1, FS_Subset DEF IsCount
  <2>3. Max(S) \in S /\ \A k \in S : k <= Max(S)
    <3> HIDE DEF S
    <3> QED
      BY <2>1, <2>2, ExtremesOf
  <2>4. LastKey(v, p) = Max(S)
    BY DEF LastKey
  <2> QED
    BY <2>3, <2>4
<1>5. ASSUME NEW p \in Periods(v), NEW q \in Periods(v), p < q PROVE LastKey(v, p) < LastKey(v, q)
  <2> DEFINE j == LastKey(v, p)
             k == LastKey(v, q)
  <2>1. j \in Nat /\ k \in Nat /\ j \div Every = p /\ k \div Every = q
    BY <1>4 DEF IsCount
  <2>2. p \in Nat /\ q \in Nat
    BY <1>2
  <2> HIDE DEF j, k
  <2>3. ASSUME k <= j PROVE k \div Every <= j \div Every
    BY <1>1, <2>1, <2>3
  <2>4. ~(k <= j)
    BY <1>5, <2>1, <2>2, <2>3
  <2> QED
    BY <2>1, <2>4 DEF j, k
<1> QED
  BY <1>2, <1>3, <1>4, <1>5

\* The period before, and what is charged for the time from then on.
LEMMA AmountBound ==
  ASSUME NEW v, IsCount(v), NEW p \in Periods(v) \ {Min(Periods(v))}
  PROVE  LET before == {q \in Periods(v) : q < p}
             b == Max(before)
             from == v[LastKey(v, b)].at
             to == v[LastKey(v, p)].at
         IN /\ b \in before /\ \A q \in before : q <= b
            /\ from \in Nat /\ to \in Nat
            /\ Amount(v, p) \in Int /\ Amount(v, p) <= to - from
            /\ (\A k \in DOMAIN v : Zero(v[k]) = 0) => Amount(v, p) = to - from
<1> DEFINE before == {q \in Periods(v) : q < p}
           b == Max(before)
<1>1. Periods(v) \in SUBSET Int /\ IsFiniteSet(Periods(v)) /\ Periods(v) # {}
  BY PeriodEnds
<1>2. Min(Periods(v)) \in Periods(v) /\ \A q \in Periods(v) : Min(Periods(v)) <= q
  BY <1>1, ExtremesOf
<1>3. before \in SUBSET Int /\ before # {}
  BY <1>1, <1>2
<1>4. IsFiniteSet(before)
  BY <1>1, FS_Subset
<1>5. b \in before /\ \A q \in before : q <= b
  <2> HIDE DEF before
  <2> QED
    BY <1>3, <1>4, ExtremesOf
<1> HIDE DEF b
<1>6. b \in Periods(v) /\ b < p
  BY <1>5
<1> DEFINE x == v[LastKey(v, b)]
           y == v[LastKey(v, p)]
<1>7. LastKey(v, b) \in DOMAIN v /\ LastKey(v, p) \in DOMAIN v /\ LastKey(v, b) < LastKey(v, p)
  BY <1>6, PeriodEnds
<1>8. /\ x.at \in Nat /\ x.value \in Nat /\ Zero(x) \in Nat /\ y.at \in Nat /\ y.value \in Nat /\ Zero(y) \in Nat
      /\ x.at <= y.at /\ Follows(x, y)
  BY <1>7 DEF IsCount
<1>9. Amount(v, p) = Charge(x, y)
  BY DEF Amount, LastOf, Charge, b
<1>10. (\A k \in DOMAIN v : Zero(v[k]) = 0) => Zero(x) = 0 /\ Zero(y) = 0
  BY <1>7
<1> HIDE DEF x, y, before
<1>11. /\ Charge(x, y) \in Int /\ Charge(x, y) <= y.at - x.at
       /\ Zero(x) = 0 /\ Zero(y) = 0 => Charge(x, y) = y.at - x.at
  BY <1>8, ChargeBound
<1> QED
  BY <1>5, <1>8, <1>9, <1>10, <1>11 DEF b, x, y, before

\* Up to any period, and so up to the last, the amounts add up to no more than what was counted.
LEMMA AmountsAddUp ==
  ASSUME NEW v, IsCount(v)
  PROVE  LET c == Consumption(v)
             sum == Sum(c, DOMAIN c)
             first == LastKey(v, Min(Periods(v)))
             last == Max(DOMAIN v)
         IN /\ sum <= v[last].at - v[first].at
            /\ (\A k \in DOMAIN v : Zero(v[k]) = 0) => sum = v[last].at - v[first].at
<1> DEFINE P == Periods(v)
           c == Consumption(v)
           UpTo(q) == {p \in DOMAIN c : p <= q}
           at(q) == v[LastKey(v, q)].at
           m == Min(P)
           Exact == \A k \in DOMAIN v : Zero(v[k]) = 0
           Right(q) == /\ Sum(c, UpTo(q)) <= at(q) - at(m)
                       /\ Exact => Sum(c, UpTo(q)) = at(q) - at(m)
           K == {n \in Nat : \A q \in P : q <= n => Right(q)}
<1>1. P \subseteq Nat /\ IsFiniteSet(P) /\ P # {} /\ P \in SUBSET Int
  BY PeriodEnds
<1>2. m \in P /\ \A q \in P : m <= q
  <2> HIDE DEF P
  <2> QED
    BY <1>1, ExtremesOf
<1>3. DOMAIN c = P \ {m} /\ \A p \in P \ {m} : c[p] = Amount(v, p)
  BY DEF Consumption
<1>4. ASSUME NEW q \in P PROVE at(q) \in Nat
  BY PeriodEnds DEF IsCount
<1>5. \A p \in DOMAIN c : c[p] \in Int
  BY <1>3, AmountBound
<1>6. ASSUME NEW q PROVE IsFiniteSet(UpTo(q)) /\ Sum(c, UpTo(q)) \in Int
  <2>1. UpTo(q) \subseteq P
    BY <1>3
  <2>2. IsFiniteSet(UpTo(q))
    BY <1>1, <2>1, FS_Subset
  <2>3. \A p \in UpTo(q) : c[p] \in Int
    BY <1>5
  <2> HIDE DEF UpTo, c
  <2> QED
    BY <2>2, <2>3, SumType
<1>7. Right(m)
  <2>1. UpTo(m) = {}
    BY <1>1, <1>2, <1>3
  <2>2. Sum(c, UpTo(m)) = 0
    <3> HIDE DEF UpTo, c
    <3> QED
      BY <2>1, SumEmpty
  <2>3. at(m) \in Nat
    BY <1>2, <1>4
  <2> HIDE DEF at, c, UpTo, m, Exact
  <2> QED
    BY <2>2, <2>3
<1>8. ASSUME NEW q \in P, q # m, \A p \in P : p < q => Right(p) PROVE Right(q)
  <2> DEFINE before == {p \in P : p < q}
             b == Max(before)
  <2>1. /\ b \in before /\ \A p \in before : p <= b
        /\ c[q] \in Int /\ c[q] <= at(q) - at(b) /\ (Exact => c[q] = at(q) - at(b))
    BY <1>3, <1>8, AmountBound
  <2> HIDE DEF b
  <2>2. b \in P /\ b < q
    BY <2>1
  <2>3. Right(b)
    BY <1>8, <2>2
  <2>4. q \in UpTo(q) /\ UpTo(q) \ {q} = UpTo(b)
    <3>1. q \in UpTo(q)
      BY <1>1, <1>3, <1>8
    <3>2. ASSUME NEW p \in P PROVE (p <= q /\ p # q) <=> p <= b
      <4>1. p \in Nat /\ q \in Nat /\ b \in Nat
        BY <1>1, <2>2
      <4>2. p < q => p <= b
        BY <2>1
      <4> QED
        BY <2>2, <4>1, <4>2
    <3>3. DOMAIN c \subseteq P
      BY <1>3
    <3> QED
      BY <3>1, <3>2, <3>3
  <2>5. Sum(c, UpTo(q)) = Sum(c, UpTo(q) \ {q}) + c[q]
    <3>1. \A p \in UpTo(q) : c[p] \in Int
      BY <1>5
    <3>2. IsFiniteSet(UpTo(q)) /\ q \in UpTo(q)
      BY <1>6, <2>4
    <3> HIDE DEF UpTo, c
    <3> QED
      BY <3>1, <3>2, SumLess
  <2>6. Sum(c, UpTo(q)) = Sum(c, UpTo(b)) + c[q]
    BY <2>4, <2>5, Zenon
  <2>7. at(q) \in Nat /\ at(b) \in Nat /\ at(m) \in Nat /\ Sum(c, UpTo(b)) \in Int
    BY <1>2, <1>4, <1>6, <2>2
  <2>8. /\ Sum(c, UpTo(b)) <= at(b) - at(m)
        /\ Exact => Sum(c, UpTo(b)) = at(b) - at(m)
    BY <2>3
  <2> HIDE DEF at, c, UpTo, m, Exact, before
  <2> QED
    BY <2>1, <2>6, <2>7, <2>8
<1>9. ASSUME NEW q \in P, \A p \in P : p < q => Right(p) PROVE Right(q)
  <2> HIDE DEF Right
  <2> QED
    BY <1>7, <1>8, <1>9
<1> HIDE DEF Right, P
<1>10. 0 \in K
  BY <1>1, <1>9
<1>11. ASSUME NEW n \in Nat, n \in K PROVE n + 1 \in K
  <2>1. ASSUME NEW q \in P, q <= n + 1 PROVE Right(q)
    <3>1. \A p \in P : p < q => p <= n /\ p \in Nat
      BY <1>1, <2>1
    <3>2. \A p \in P : p < q => Right(p)
      BY <1>11, <3>1
    <3> QED
      BY <1>9, <3>2
  <2> QED
    BY <2>1
<1>12. Nat \subseteq K
  <2> HIDE DEF K
  <2> QED
    BY <1>10, <1>11, Induct
<1>13. ASSUME NEW q \in P PROVE Right(q)
  BY <1>1, <1>12, <1>13
<1> DEFINE z == Max(P)
<1>14. z \in P /\ \A q \in P : q <= z
  BY <1>1, ExtremesOf
<1> HIDE DEF z
<1>15. UpTo(z) = DOMAIN c
  BY <1>3, <1>14
<1>16. LastKey(v, z) = Max(DOMAIN v)
  <2>1. DOMAIN v \in SUBSET Int /\ IsFiniteSet(DOMAIN v) /\ DOMAIN v # {}
    BY DEF IsCount
  <2> DEFINE l == Max(DOMAIN v)
             k == LastKey(v, z)
  <2>2. l \in DOMAIN v /\ \A j \in DOMAIN v : j <= l
    BY <2>1, ExtremesOf
  <2>3. l \div Every \in P
    BY <2>2 DEF Periods, P
  <2>4. k \in DOMAIN v /\ k \div Every = z /\ \A j \in DOMAIN v : j \div Every = z => j <= k
    BY <1>14, PeriodEnds DEF P
  <2>5. l \in Nat /\ k \in Nat /\ Every \in Nat \ {0}
    BY <2>2, <2>4, ConsumerAssumption DEF IsCount
  <2>6. k <= l /\ l \div Every <= z
    BY <1>14, <2>2, <2>3, <2>4
  <2> HIDE DEF l, k
  <2>7. k <= l => k \div Every <= l \div Every
    BY <2>5
  <2>8. l \div Every = z
    <3>1. l \div Every \in Nat /\ k \div Every \in Nat
      BY <2>5
    <3> QED
      BY <2>4, <2>6, <2>7, <3>1
  <2>9. l <= k
    BY <2>2, <2>4, <2>8
  <2> QED
    BY <2>5, <2>6, <2>9 DEF l, k
<1>17. Right(z)
  BY <1>13, <1>14
<1>18. /\ Sum(c, DOMAIN c) <= v[Max(DOMAIN v)].at - v[LastKey(v, m)].at
       /\ Exact => Sum(c, DOMAIN c) = v[Max(DOMAIN v)].at - v[LastKey(v, m)].at
  BY <1>15, <1>16, <1>17, Zenon DEF Right
<1> QED
  BY <1>18 DEF P

\* What the client sees of a counter is such a count.
LEMMA CountedVisible ==
  ASSUME PollingInv, CountInv, NEW f \in Counter, DOMAIN Visible(f) # {}
  PROVE  IsCount(Visible(f)) /\ (resets = 0 => \A k \in DOMAIN Visible(f) : Zero(Visible(f)[k]) = 0)
<1> DEFINE v == Visible(f)
<1>1. f \in Field /\ reset \in Nat
  BY CountTypes
<1>2. DOMAIN v \subseteq 0..Horizon /\ IsFiniteSet(DOMAIN v)
  BY <1>1, VisibleType
<1>3. ASSUME NEW k \in DOMAIN v PROVE k \in Slots /\ points[f][k] # None /\ v[k] = points[f][k]
  BY <1>1 DEF Visible, Stored
<1>4. ASSUME NEW k \in DOMAIN v
      PROVE  /\ v[k].at \in Nat /\ v[k].value \in Nat /\ Zero(v[k]) \in Nat
             /\ \A j \in DOMAIN v : j < k => v[j].at <= v[k].at /\ Follows(v[j], v[k])
             /\ resets = 0 => Zero(v[k]) = 0
  <2>1. k \in Slots /\ points[f][k] # None /\ v[k] = points[f][k]
    BY <1>3
  <2>2. Known(points[f][k]) /\ points[f][k].at \in Nat
    BY <1>1, <2>1, CountTypes DEF CountInv
  <2>3. ASSUME NEW j \in DOMAIN v, j < k PROVE v[j].at <= v[k].at /\ Follows(v[j], v[k])
    <3>1. j \in Slots /\ points[f][j] # None /\ v[j] = points[f][j]
      BY <1>3
    <3>2. points[f][j].at <= points[f][k].at
      BY <1>1, <2>1, <2>3, <3>1 DEF PollingInv, StampIsHonest
    <3>3. Follows(points[f][j], points[f][k])
      BY <2>1, <2>3, <3>1 DEF CountInv
    <3> QED
      BY <2>1, <3>1, <3>2, <3>3
  <2>4. resets = 0 => Zero(points[f][k]) = 0
    BY <2>2 DEF CountInv, Known, Zero
  <2> HIDE DEF v
  <2> QED
    BY <2>1, <2>2, <2>3, <2>4 DEF Known
<1> HIDE DEF v
<1> QED
  BY <1>2, <1>4 DEF IsCount, v

LEMMA ConsumptionAre ==
  ASSUME PollingInv, CountInv
  PROVE  ConsumptionAdds
<1> SUFFICES ASSUME NEW f \in Counter, DOMAIN Visible(f) # {}
             PROVE  LET v == Visible(f)
                        periods == Consumption(v)
                        sum == FoldSet(LAMBDA p, total : total + periods[p], 0, DOMAIN periods)
                        first == LastKey(v, Min(Periods(v)))
                        last == Max(DOMAIN v)
                    IN /\ sum <= v[last].at - v[first].at
                       /\ resets = 0 => sum = v[last].at - v[first].at
  BY DEF ConsumptionAdds
<1> DEFINE v == Visible(f)
           c == Consumption(v)
<1>1. FoldSet(LAMBDA p, total : total + c[p], 0, DOMAIN c) = Sum(c, DOMAIN c)
  BY DEF Sum
<1>2. IsCount(v) /\ (resets = 0 => \A k \in DOMAIN v : Zero(v[k]) = 0)
  BY CountedVisible
<1> QED
  BY <1>1, <1>2, AmountsAddUp, Zenon

(***************************************************************************)
(* What the periods of a counter are charged adds up to no more than the   *)
(* counter counted between the first and the last point it is taken from,  *)
(* whatever runs were missed, retried or stored twice and whenever the     *)
(* counter was reset; to exactly that, if it never was.                    *)
(***************************************************************************)
THEOREM ConsumptionSafety == Spec => []ConsumptionAdds
<1>1. Init => PollingInv /\ CountInv
  BY PollingInit, CountInit
<1>2. PollingInv /\ CountInv /\ [Next]_vars => (PollingInv /\ CountInv)'
  BY PollingNext, CountNext
<1>3. PollingInv /\ CountInv => ConsumptionAdds
  BY ConsumptionAre
<1> QED
  BY <1>1, <1>2, <1>3, PTL DEF Spec
===============================================================================
