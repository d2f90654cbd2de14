---------------------------- MODULE PipelineProofs ----------------------------
(***************************************************************************)
(* Theorems of Pipeline, for every value of its constants, and their       *)
(* proofs.  The invariant they rest on is in PipelineInv.                  *)
(***************************************************************************)
EXTENDS PipelineInv, WellFoundedInduction, TLAPS

-------------------------------------------------------------------------------
(* Numbers and maxima.                                                     *)

\* A set of naturals bounded by b has a largest element.
LEMMA BoundedHasMax ==
  ASSUME NEW b \in Nat, NEW S \in SUBSET (0..b), S # {}
  PROVE  \E m \in S : \A s \in S : s <= m
<1> DEFINE T == {b - s : s \in S}
<1>1. T \subseteq Nat /\ T # {}
  <2>1. ASSUME NEW x \in T PROVE x \in Nat
    <3>1. PICK s \in S : x = b - s
      BY <2>1
    <3>2. s \in Nat /\ s <= b
      BY <3>1
    <3>3. QED
      BY <3>1, <3>2
  <2>2. PICK s \in S : TRUE
    OBVIOUS
  <2>3. b - s \in T
    BY <2>2
  <2>4. QED
    BY <2>1, <2>3
<1>2. \E x \in T : \A y \in T : ~(y < x)
  <2> HIDE DEF T
  <2>1. IsWellFoundedOn(OpToRel(<, Nat), Nat)
    BY NatLessThanWellFounded
  <2>2. \E x \in T : \A y \in T : ~(<<y, x>> \in OpToRel(<, Nat))
    BY <1>1, <2>1, WFMin
  <2>3. QED
    BY <1>1, <2>2 DEF OpToRel
<1>3. PICK m \in S : \A y \in T : ~(y < b - m)
  BY <1>2
<1>4. \A s \in S : s <= m
  BY <1>3
<1>5. QED
  BY <1>4

\* NewestOf a nonempty set of readings that all lie at or before b.
LEMMA NewestOfProps ==
  ASSUME NEW b \in Nat, NEW S \in SUBSET Reading, S # {},
         \A r \in S : Stamp[r] <= b
  PROVE  /\ NewestOf(S) \in Nat
         /\ \E r \in S : Stamp[r] = NewestOf(S)
         /\ \A r \in S : Stamp[r] <= NewestOf(S)
<1> DEFINE N == {Stamp[r] : r \in S}
<1>1. N \in SUBSET (0..b) /\ N # {}
  BY SourceAssumption
<1>2. \E m \in N : \A s \in N : s <= m
  BY <1>1, BoundedHasMax
<1>3. \E m \in N : \A s \in N : m >= s
  BY <1>1, <1>2
<1>4. NewestOf(S) \in N /\ \A s \in N : NewestOf(S) >= s
  BY <1>3 DEF NewestOf, Max
<1>5. QED
  BY <1>1, <1>4

-------------------------------------------------------------------------------
(* The steps, sorted by what they touch.                                   *)

\* A step of the shared write path touches nothing but its own variables.
WriteOnly(t) == WriteStep(t) /\ UNCHANGED <<sourceVars, runVars, backfillVars, passVars>>

RunOwn ==
  /\ RunLoad \/ RunBegin \/ RunFetch \/ RunFetched \/ RunAdvance \/ RunFinish \/ RunFails
  /\ UNCHANGED <<backfillVars, passVars>>

WalkOwn ==
  /\ BackfillMode = "cursor"
  /\ \/ \E dry \in BOOLEAN : BackfillLoad(watermark, dry)
     \/ BackfillSkip \/ BackfillBegin \/ BackfillFetch \/ BackfillReachesFloor
     \/ BackfillLoopEnds \/ BackfillWritten \/ BackfillSave \/ BackfillFinish \/ BackfillFails
  /\ UNCHANGED <<runVars, passVars>>

PassOwn ==
  /\ BackfillMode = "stateless"
  /\ PassLoad \/ PassBegin \/ PassFetch \/ PassWritten \/ PassEnds \/ PassFinish \/ PassFails
  /\ UNCHANGED <<runVars, backfillVars>>

LEMMA StepCases ==
  ASSUME [Next]_vars
  PROVE  \/ Upstream \/ Time
         \/ \E t \in Task : WriteOnly(t)
         \/ RunOwn \/ WalkOwn \/ PassOwn
         \/ UNCHANGED vars
<1>1. CASE Run
  BY <1>1 DEF Run, RunNext, RunOwn, WriteOnly, Task
<1>2. CASE BackfillMode = "cursor" /\ BackfillNext(watermark) /\ UNCHANGED <<runVars, passVars>>
  BY <1>2 DEF BackfillNext, WalkOwn, WriteOnly, Task
<1>3. CASE BackfillMode = "stateless" /\ PassNext /\ UNCHANGED <<runVars, backfillVars>>
  BY <1>3 DEF PassNext, PassOwn, WriteOnly, Task
<1>4. QED
  BY <1>1, <1>2, <1>3 DEF Next, Backfill

-------------------------------------------------------------------------------
(* Types.                                                                  *)

LEMMA ConstantTypes ==
  /\ Stamp \in [Reading -> Nat] /\ \A r \in Reading : Stamp[r] # 0
  /\ PropOf \in [Reading -> Property]
  /\ MaxLate \in Nat /\ LiveLookback \in Nat /\ RewriteLookback \in Nat
  /\ MaxWindow \in Nat /\ HistoryStart \in Nat /\ RunSpan \in Nat
  /\ BackfillWindow \in Nat /\ Floor \in Nat /\ Floor # 0 /\ WindowsPerRun \in Nat
  /\ PassStart \in Nat /\ PassWindow \in Nat
  /\ RunRetries \in Nat /\ BackfillRetries \in Nat /\ PassRetries \in Nat
  /\ StartClock \in Nat /\ MaxVersion \in Nat \ {0}
  /\ HistoryStart <= Floor
  /\ RunSpan + MaxLate < LiveLookback + RewriteLookback
BY SourceAssumption, WritePathAssumption, RunDagAssumption, BackfillDagAssumption,
   StatelessBackfillAssumption, PipelineAssumption

LEMMA TypeInit == Init => TypeOK
<1> SUFFICES ASSUME Init PROVE TypeOK
  OBVIOUS
<1> USE ConstantTypes DEF Version, Instant, Nothing, NoSeen, NoDoc
<1>1. clock \in Nat /\ source \in [Reading -> Version]
  <2>1. {0, 1} \subseteq Version
    OBVIOUS
  <2>2. QED
    BY <2>1 DEF Init, SourceInit
<1>2. /\ stored \in [Reading -> Version]
      /\ lastReadingAt \in [Property -> Instant]
      /\ faults \in Nat /\ rejected \in SUBSET Reading /\ dropped \in SUBSET Reading
  BY DEF Init, WriteInit
<1>3. pc \in [Task -> PC]
  BY DEF Init, WriteInit, PC
<1>4. samples \in [Task -> [Reading -> Version]]
  BY DEF Init, WriteInit
<1>5. /\ accepted \in [Task -> SUBSET Reading]
      /\ pending \in [Task -> SUBSET Reading]
      /\ written \in [Task -> SUBSET Reading]
      /\ toRefresh \in [Task -> SUBSET Property]
  BY DEF Init, WriteInit
<1>6. seen \in [Task -> (Property \cup {"none"}) \X Instant]
  BY DEF Init, WriteInit
<1>7. QED
  BY <1>1, <1>2, <1>3, <1>4, <1>5, <1>6
  DEF Init, RunInit, BackfillInit, PassInit, TypeOK

LEMMA RunStartType ==
  ASSUME NEW doc \in Nat, NEW now \in Nat
  PROVE  RunStart(doc, now) \in Nat /\ HistoryStart <= RunStart(doc, now)
BY ConstantTypes DEF RunStart, Larger

LEMMA FetchType ==
  ASSUME TypeOK, NEW a \in Nat, NEW b \in Nat, NEW inclusive \in BOOLEAN
  PROVE  /\ Fetch(a, b, inclusive) \in [Reading -> Version]
         /\ \A r \in Reading : Fetch(a, b, inclusive)[r] > 0 =>
              source[r] > 0 /\ a <= Stamp[r] /\ Stamp[r] <= b
         /\ \A r \in Reading : source[r] > 0 /\ a < Stamp[r] /\ Stamp[r] <= b =>
              Fetch(a, b, inclusive)[r] = source[r]
BY ConstantTypes DEF TypeOK, Fetch, Version

\* What every step that begins, repeats or leaves a write path has to keep.
LEMMA NewestPointType ==
  ASSUME TypeOK, PublishedInv, NEW t \in Task, TaskInv(t), NEW p \in PropertiesOf(accepted[t])
  PROVE  /\ NewestPoint(t, p) \in Nat
         /\ \E r \in accepted[t] : PropOf[r] = p /\ Stamp[r] = NewestPoint(t, p)
         /\ \A r \in accepted[t] : PropOf[r] = p => Stamp[r] <= NewestPoint(t, p)
<1> DEFINE S == {r \in accepted[t] : PropOf[r] = p}
<1>1. S # {}
  BY DEF PropertiesOf
<1>2. S \in SUBSET Reading
  BY DEF TypeOK
<1>3. \A r \in S : Stamp[r] <= clock
  BY DEF TypeOK, PublishedInv, TaskInv, Present
<1>4. clock \in Nat
  BY DEF TypeOK
<1>5. NewestPoint(t, p) = NewestOf(S)
  BY DEF NewestPoint
<1> HIDE DEF S
<1>6. /\ NewestOf(S) \in Nat
      /\ \E r \in S : Stamp[r] = NewestOf(S)
      /\ \A r \in S : Stamp[r] <= NewestOf(S)
  BY <1>1, <1>2, <1>3, <1>4, NewestOfProps
<1>7. QED
  BY <1>5, <1>6 DEF S

LEMMA NewestType ==
  ASSUME TypeOK, PublishedInv, TaskInv("run"), written["run"] # {}
  PROVE  /\ Newest \in Nat
         /\ \E r \in Present(samples["run"]) : Stamp[r] = Newest
         /\ \A r \in Present(samples["run"]) : Stamp[r] <= Newest
<1> DEFINE S == Present(samples["run"])
<1>1. S # {}
  BY DEF TaskInv
<1>2. S \in SUBSET Reading
  BY DEF Present
<1>3. \A r \in S : Stamp[r] <= clock
  BY DEF PublishedInv, Present, Task
<1>4. clock \in Nat
  BY DEF TypeOK
<1>5. Newest = NewestOf(S)
  BY DEF Newest
<1> HIDE DEF S
<1>6. /\ NewestOf(S) \in Nat
      /\ \E r \in S : Stamp[r] = NewestOf(S)
      /\ \A r \in S : Stamp[r] <= NewestOf(S)
  BY <1>1, <1>2, <1>3, <1>4, NewestOfProps
<1>7. QED
  BY <1>5, <1>6 DEF S

LEMMA TypeWrite ==
  ASSUME TypeOK, PublishedInv, NEW t \in Task, TaskInv(t), WriteOnly(t)
  PROVE  TypeOK'
<1> USE DEF WriteOnly, WriteStep, sourceVars, runVars, runLocals, backfillVars, backfillState,
            backfillLocals, passVars, storeVars, historyVars
<1>1. CASE WriteBatch(t)
  BY <1>1 DEF WriteBatch, StoreBatch, TypeOK
<1>2. CASE WriteBatchFails(t)
  BY <1>2 DEF WriteBatchFails, StoreBatch, Fault, TypeOK
<1>3. CASE EndBatches(t)
  BY <1>3, ConstantTypes DEF EndBatches, SummariesToRefresh, Goto, PC, TypeOK
<1>4. CASE SummaryGet(t)
  <2>1. PICK p \in toRefresh[t] :
          \/ seen' = [seen EXCEPT ![t] = <<p, lastReadingAt[p]>>] /\ UNCHANGED faults
          \/ seen' = [seen EXCEPT ![t] = <<p, 0>>] /\ Fault
    BY <1>4 DEF SummaryGet
  <2>2. /\ <<p, lastReadingAt[p]>> \in (Property \cup {"none"}) \X Instant
        /\ <<p, 0>> \in (Property \cup {"none"}) \X Instant
    BY DEF Instant, TypeOK
  <2>3. seen' \in [Task -> (Property \cup {"none"}) \X Instant]
    BY <2>1, <2>2 DEF TypeOK
  <2>4. faults' \in Nat
    BY <2>1 DEF Fault, TypeOK
  <2>5. QED
    BY <1>4, <2>3, <2>4 DEF SummaryGet, Goto, PC, TypeOK
<1>5. CASE SummaryPatch(t)
  <2>1. seen[t][1] \in PropertiesOf(accepted[t])
    BY <1>5 DEF SummaryPatch, TaskInv
  <2>2. NewestPoint(t, seen[t][1]) \in Nat
    BY <2>1, NewestPointType
  <2>3. lastReadingAt' \in [Property -> Instant]
    BY <1>5, <2>2 DEF SummaryPatch, Instant, TypeOK
  <2>4. seen' \in [Task -> (Property \cup {"none"}) \X Instant]
    <3>1. NoSeen \in (Property \cup {"none"}) \X Instant
      BY DEF NoSeen, Instant
    <3>2. QED
      BY <1>5, <3>1 DEF SummaryPatch, TypeOK
  <2>5. QED
    BY <1>5, <2>2, <2>3, <2>4 DEF SummaryPatch, Fault, Goto, PC, TypeOK
<1>6. CASE EndWrite(t)
  BY <1>6 DEF EndWrite, Goto, PC, TypeOK
<1>7. QED
  BY <1>1, <1>2, <1>3, <1>4, <1>5, <1>6

\* The samples of a window, merged or handed to _write, are versions.
LEMMA NoSeenType == NoSeen \in (Property \cup {"none"}) \X Instant
BY DEF NoSeen, Instant

LEMMA BeginWriteType ==
  ASSUME TypeOK, NEW t \in Task, NEW batch \in [Reading -> Version], BeginWrite(t, batch)
  PROVE  /\ pc' \in [Task -> PC] /\ samples' \in [Task -> [Reading -> Version]]
         /\ accepted' \in [Task -> SUBSET Reading] /\ pending' \in [Task -> SUBSET Reading]
         /\ rejected' \in SUBSET Reading
         /\ UNCHANGED <<written, toRefresh, seen, storeVars, dropped, faults>>
<1>1. PICK reject \in IF Guarded THEN SUBSET Present(batch) ELSE {{}} :
        LET keep == Present(batch) \ reject IN
        /\ samples' = [samples EXCEPT ![t] = batch]
        /\ accepted' = [accepted EXCEPT ![t] = keep]
        /\ pending' = [pending EXCEPT ![t] = keep]
        /\ rejected' = rejected \cup reject
        /\ Goto(t, "write")
        /\ UNCHANGED <<written, toRefresh, seen, storeVars, dropped, faults>>
  BY DEF BeginWrite
<1>2. reject \in SUBSET Reading /\ Present(batch) \in SUBSET Reading
  BY <1>1, WritePathAssumption DEF Present
<1>3. QED
  BY <1>1, <1>2 DEF TypeOK, Goto, PC

LEMMA ForgetType ==
  ASSUME TypeOK, NEW t \in Task, Forget(t)
  PROVE  /\ samples' \in [Task -> [Reading -> Version]]
         /\ accepted' \in [Task -> SUBSET Reading]
         /\ pending' \in [Task -> SUBSET Reading]
         /\ written' \in [Task -> SUBSET Reading]
         /\ toRefresh' \in [Task -> SUBSET Property]
         /\ seen' \in [Task -> (Property \cup {"none"}) \X Instant]
<1>1. Nothing \in [Reading -> Version]
  BY ConstantTypes DEF Nothing, Version
<1>2. QED
  BY <1>1, NoSeenType DEF Forget, TypeOK

LEMMA GotoType ==
  ASSUME TypeOK, NEW t \in Task, NEW label \in PC, Goto(t, label)
  PROVE  pc' \in [Task -> PC]
BY DEF Goto, TypeOK

LEMMA TypeRun ==
  ASSUME TypeOK, PublishedInv, TaskInv("run"), RunOwn
  PROVE  TypeOK'
<1> USE DEF RunOwn, backfillVars, backfillState, backfillLocals, passVars,
            sourceVars, storeVars, historyVars
<1>0. "run" \in Task
  BY DEF Task
<1>1. CASE RunLoad
  BY <1>1, <1>0, GotoType DEF RunLoad, PC, Instant, TypeOK
<1>2. CASE RunBegin
  <2>1. RunStart(runDoc, clock) \in Nat
    BY RunStartType DEF TypeOK, Instant
  <2>2. QED
    BY <1>2, <2>1, <1>0, GotoType DEF RunBegin, PC, TypeOK, Instant
<1>3. CASE RunFetch
  <2>1. PICK inclusive \in BOOLEAN :
          LET b == Smaller(runFrom + MaxWindow, runNow)
              got == KeepNew(Fetch(runFrom, b, inclusive), runDoc) IN
          /\ samples' = [samples EXCEPT !["run"] =
                           [r \in Reading |-> IF got[r] > 0 THEN got[r] ELSE @[r]]]
          /\ runFrom' = b
    BY <1>3 DEF RunFetch
  <2>2. Smaller(runFrom + MaxWindow, runNow) \in Nat
    BY ConstantTypes DEF Smaller, TypeOK, Instant
  <2> DEFINE got == KeepNew(Fetch(runFrom, Smaller(runFrom + MaxWindow, runNow), inclusive), runDoc)
  <2>3. got \in [Reading -> Version]
    <3>1. Fetch(runFrom, Smaller(runFrom + MaxWindow, runNow), inclusive) \in [Reading -> Version]
      BY <2>2, FetchType DEF TypeOK, Instant
    <3>2. 0 \in Version
      BY ConstantTypes DEF Version
    <3>3. QED
      BY <3>1, <3>2 DEF KeepNew
  <2> HIDE DEF got
  <2>4. samples' = [samples EXCEPT !["run"] =
                     [r \in Reading |-> IF got[r] > 0 THEN got[r] ELSE @[r]]]
    BY <2>1 DEF got
  <2>5. samples' \in [Task -> [Reading -> Version]]
    BY <2>3, <2>4, <1>0 DEF TypeOK
  <2>6. runFrom' \in Instant
    BY <2>1, <2>2 DEF Instant
  <2>7. QED
    BY <1>3, <2>5, <2>6 DEF RunFetch, TypeOK
<1>4. CASE RunFetched
  <2>1. CASE Present(samples["run"]) = {}
    BY <1>4, <2>1, <1>0, GotoType DEF RunFetched, runVars, runLocals, PC, TypeOK
  <2>2. CASE Present(samples["run"]) # {}
    <3>1. BeginWrite("run", samples["run"])
      BY <1>4, <2>2 DEF RunFetched
    <3>2. samples["run"] \in [Reading -> Version]
      BY <1>0 DEF TypeOK
    <3>3. QED
      BY <1>4, <3>1, <3>2, <1>0, BeginWriteType DEF RunFetched, runVars, runLocals, TypeOK
  <2>3. QED
    BY <2>1, <2>2
<1>5. CASE RunAdvance
  <2>1. watermark' \in Instant /\ base' \in Instant
    <3>1. CASE Advances(Newest)
      <4>1. written["run"] # {}
        BY <3>1 DEF Advances
      <4>2. Newest \in Nat
        BY <4>1, NewestType
      <4>3. RunStart(runDoc, runNow) \in Nat
        BY RunStartType DEF TypeOK, Instant
      <4>4. QED
        BY <1>5, <3>1, <4>2, <4>3 DEF RunAdvance, TypeOK, Instant
    <3>2. CASE ~Advances(Newest)
      BY <1>5, <3>2 DEF RunAdvance, TypeOK
    <3>3. QED
      BY <3>1, <3>2
  <2>2. QED
    BY <1>5, <2>1, <1>0, GotoType DEF RunAdvance, runLocals, PC, TypeOK
<1>6. CASE RunFinish
  BY <1>6, <1>0, GotoType, ForgetType DEF RunFinish, RunForget, PC, Instant, TypeOK
<1>7. CASE RunFails
  BY <1>7, <1>0, GotoType, ForgetType DEF RunFails, RunForget, Fault, PC, Instant, TypeOK
<1>8. QED
  BY <1>1, <1>2, <1>3, <1>4, <1>5, <1>6, <1>7

LEMMA TypeWalk ==
  ASSUME TypeOK, WalkOwn
  PROVE  TypeOK'
<1> USE DEF WalkOwn, runVars, runLocals, passVars, sourceVars, storeVars, historyVars,
            backfillVars, backfillState, backfillLocals
<1>0. "backfill" \in Task
  BY DEF Task
<1>1. ASSUME NEW dry \in BOOLEAN, BackfillLoad(watermark, dry) PROVE TypeOK'
  BY <1>1, <1>0, GotoType DEF BackfillLoad, PC, Instant, TypeOK
<1>2. CASE BackfillSkip
  BY <1>2, <1>0, GotoType DEF BackfillSkip, PC, TypeOK
<1>3. CASE BackfillBegin
  BY <1>3, <1>0, GotoType, ConstantTypes DEF BackfillBegin, PC, Instant, TypeOK
<1>4. CASE BackfillFetch
  <2> DEFINE a == LowerBound(bfCursor)
  <2>1. a \in Nat
    BY ConstantTypes DEF LowerBound, TypeOK, Instant
  <2>2. PICK inclusive \in BOOLEAN :
          LET got == KeepWalkingBack(Fetch(a, bfCursor, inclusive), bfCursor) IN
          \/ /\ Present(got) = {}
             /\ bfStreak' = CountEmpty(bfStreak)
             /\ bfDone' = (bfStreak' >= EmptyThreshold)
             /\ bfCursor' = a
             /\ UNCHANGED <<storeVars, taskVars, historyVars, faults, bfFrom>>
          \/ /\ Present(got) # {} /\ bfDry
             /\ bfStreak' = StreakAfterSamples
             /\ bfCursor' = a
             /\ UNCHANGED <<storeVars, taskVars, historyVars, faults, bfFrom, bfDone>>
          \/ /\ Present(got) # {} /\ ~bfDry
             /\ bfStreak' = StreakAfterSamples
             /\ bfFrom' = a
             /\ BeginWrite("backfill", got)
             /\ UNCHANGED <<bfCursor, bfDone>>
    BY <1>4 DEF BackfillFetch
  <2> HIDE DEF a
  <2> DEFINE got == KeepWalkingBack(Fetch(a, bfCursor, inclusive), bfCursor)
  <2>3. got \in [Reading -> Version]
    <3>1. Fetch(a, bfCursor, inclusive) \in [Reading -> Version]
      BY <2>1, FetchType DEF TypeOK, Instant
    <3>2. 0 \in Version
      BY ConstantTypes DEF Version
    <3>3. QED
      BY <3>1, <3>2 DEF KeepWalkingBack
  <2>4. bfLeft' \in Nat /\ UNCHANGED <<clock, source, cursor, emptyStreak, doneAt, bfDoc, bfDry, bfTry>>
    BY <1>4 DEF BackfillFetch, TypeOK
  <2>5. CASE /\ bfStreak' = CountEmpty(bfStreak)
             /\ bfDone' = (bfStreak' >= EmptyThreshold)
             /\ bfCursor' = a
             /\ UNCHANGED <<storeVars, taskVars, historyVars, faults, bfFrom>>
    BY <2>1, <2>4, <2>5 DEF CountEmpty, taskVars, Instant, TypeOK
  <2>6. CASE /\ bfStreak' = StreakAfterSamples
             /\ bfCursor' = a
             /\ UNCHANGED <<storeVars, taskVars, historyVars, faults, bfFrom, bfDone>>
    BY <2>1, <2>4, <2>6 DEF StreakAfterSamples, taskVars, Instant, TypeOK
  <2>7. CASE /\ bfStreak' = StreakAfterSamples
             /\ bfFrom' = a
             /\ BeginWrite("backfill", got)
             /\ UNCHANGED <<bfCursor, bfDone>>
    <3> HIDE DEF got
    <3>1. QED
      BY <2>1, <2>3, <2>4, <2>7, <1>0, BeginWriteType DEF StreakAfterSamples, Instant, TypeOK
  <2>8. QED
    BY <2>2, <2>5, <2>6, <2>7
<1>5. CASE BackfillReachesFloor
  BY <1>5, <1>0, GotoType DEF BackfillReachesFloor, PC, TypeOK
<1>6. CASE BackfillLoopEnds
  BY <1>6, <1>0, GotoType DEF BackfillLoopEnds, PC, TypeOK
<1>7. CASE BackfillWritten
  BY <1>7, <1>0, GotoType, ForgetType DEF BackfillWritten, CursorAfter, PC, Instant, TypeOK
<1>8. CASE BackfillSave
  BY <1>8, <1>0, GotoType DEF BackfillSave, Persists, PC, Instant, TypeOK
<1>9. CASE BackfillFinish
  BY <1>9, <1>0, GotoType, ForgetType
  DEF BackfillFinish, BackfillForget, NoDoc, PC, Instant, TypeOK
<1>10. CASE BackfillFails
  <2>1. /\ Forget("backfill")
        /\ bfCursor' = 0 /\ bfStreak' = 0 /\ bfFrom' = 0 /\ bfLeft' = 0 /\ bfDone' = FALSE
        /\ UNCHANGED <<sourceVars, storeVars, historyVars, backfillState>>
    BY <1>10 DEF BackfillFails, BackfillForget
  <2>2. pc' \in [Task -> PC]
    BY <1>10, <1>0, GotoType DEF BackfillFails, PC
  <2>3. faults' \in Nat
    BY <1>10 DEF BackfillFails, Fault, TypeOK
  <2>4. /\ bfDoc' \in [watermark : Instant, cursor : Instant, streak : Nat, done : Instant]
        /\ bfDry' \in BOOLEAN /\ bfTry' \in Nat
    <3>1. CASE bfTry < BackfillRetries
      BY <1>10, <3>1 DEF BackfillFails, TypeOK
    <3>2. CASE ~(bfTry < BackfillRetries)
      <4>1. bfDoc' = NoDoc /\ bfDry' = FALSE /\ bfTry' = 0
        BY <1>10, <3>2 DEF BackfillFails
      <4>2. NoDoc \in [watermark : Instant, cursor : Instant, streak : Nat, done : Instant]
        BY DEF NoDoc, Instant
      <4>3. QED
        BY <4>1, <4>2
    <3>3. QED
      BY <3>1, <3>2
  <2>5. /\ samples' \in [Task -> [Reading -> Version]]
        /\ accepted' \in [Task -> SUBSET Reading]
        /\ pending' \in [Task -> SUBSET Reading]
        /\ written' \in [Task -> SUBSET Reading]
        /\ toRefresh' \in [Task -> SUBSET Property]
        /\ seen' \in [Task -> (Property \cup {"none"}) \X Instant]
    BY <2>1, <1>0, ForgetType
  <2>6. /\ bfCursor' \in Instant /\ bfStreak' \in Nat /\ bfFrom' \in Instant
        /\ bfLeft' \in Nat /\ bfDone' \in BOOLEAN
    BY <2>1 DEF Instant
  <2>7. UNCHANGED <<clock, source, stored, lastReadingAt, rejected, dropped, cursor, emptyStreak,
                    doneAt, watermark, base, runDoc, runLoaded, runNow, runFrom, runTry,
                    passUntil, passEnd, passFrom, passDry, passTry>>
    BY <2>1
  <2>8. QED
    BY <2>2, <2>3, <2>4, <2>5, <2>6, <2>7 DEF TypeOK
<1>11. QED
  BY <1>1, <1>2, <1>3, <1>4, <1>5, <1>6, <1>7, <1>8, <1>9, <1>10

LEMMA TypePass ==
  ASSUME TypeOK, PassOwn
  PROVE  TypeOK'
<1> USE DEF PassOwn, runVars, runLocals, backfillVars, backfillState, backfillLocals,
            sourceVars, storeVars, historyVars
<1>0. "backfill" \in Task
  BY DEF Task
<1>1. CASE PassLoad
  <2>1. passUntil' \in Instant
    BY <1>1, ConstantTypes DEF PassLoad, Instant, TypeOK
  <2>2. QED
    BY <1>1, <2>1, <1>0, GotoType DEF PassLoad, PC, TypeOK
<1>2. CASE PassBegin
  <2>1. pc' \in [Task -> PC]
    BY <1>2, <1>0, GotoType DEF PassBegin, PC
  <2>2. passEnd' \in Instant /\ passFrom' \in Instant
    BY <1>2, ConstantTypes DEF PassBegin, Instant, TypeOK
  <2>3. QED
    BY <1>2, <2>1, <2>2 DEF PassBegin, TypeOK
<1>3. CASE PassFetch
  <2> DEFINE b == Smaller(passFrom + PassWindow, passEnd)
  <2>1. b \in Nat
    BY ConstantTypes DEF Smaller, TypeOK, Instant
  <2>2. PICK inclusive \in BOOLEAN :
          LET got == Fetch(passFrom, b, inclusive) IN
          /\ passFrom' = NextWindowFrom(b)
          /\ IF Present(got) = {} \/ passDry
             THEN UNCHANGED writeVars
             ELSE BeginWrite("backfill", got)
    BY <1>3 DEF PassFetch
  <2> HIDE DEF b
  <2> DEFINE got == Fetch(passFrom, b, inclusive)
  <2>3. got \in [Reading -> Version]
    BY <2>1, FetchType DEF TypeOK, Instant
  <2> HIDE DEF got
  <2>4. passFrom' \in Instant
    BY <2>1, <2>2 DEF NextWindowFrom, Instant
  <2>5. CASE UNCHANGED writeVars
    BY <1>3, <2>4, <2>5 DEF PassFetch, writeVars, taskVars, TypeOK
  <2>6. CASE BeginWrite("backfill", got)
    BY <1>3, <2>3, <2>4, <2>6, <1>0, BeginWriteType DEF PassFetch, TypeOK
  <2>7. QED
    BY <2>2, <2>5, <2>6 DEF got
<1>4. CASE PassWritten
  BY <1>4, <1>0, GotoType, ForgetType DEF PassWritten, passVars, PC, TypeOK
<1>5. CASE PassEnds
  BY <1>5, <1>0, GotoType DEF PassEnds, passVars, PC, TypeOK
<1>6. CASE PassFinish
  BY <1>6, <1>0, GotoType, ForgetType DEF PassFinish, PassForget, PC, Instant, TypeOK
<1>7. CASE PassFails
  <2>1. /\ Forget("backfill") /\ passEnd' = 0 /\ passFrom' = 0
        /\ UNCHANGED <<sourceVars, storeVars, historyVars>>
    BY <1>7 DEF PassFails, PassForget
  <2>2. pc' \in [Task -> PC]
    BY <1>7, <1>0, GotoType DEF PassFails, PC
  <2>3. faults' \in Nat /\ passUntil' \in Instant /\ passDry' \in BOOLEAN /\ passTry' \in Nat
    <3>1. faults' \in Nat
      BY <1>7 DEF PassFails, Fault, TypeOK
    <3>2. CASE passTry < PassRetries
      BY <1>7, <3>1, <3>2 DEF PassFails, TypeOK
    <3>3. CASE ~(passTry < PassRetries)
      <4>1. passTry' = 0 /\ passUntil' = 0 /\ passDry' = FALSE
        BY <1>7, <3>3 DEF PassFails
      <4>2. QED
        BY <3>1, <4>1 DEF Instant
    <3>4. QED
      BY <3>2, <3>3
  <2>4. /\ samples' \in [Task -> [Reading -> Version]]
        /\ accepted' \in [Task -> SUBSET Reading]
        /\ pending' \in [Task -> SUBSET Reading]
        /\ written' \in [Task -> SUBSET Reading]
        /\ toRefresh' \in [Task -> SUBSET Property]
        /\ seen' \in [Task -> (Property \cup {"none"}) \X Instant]
    BY <2>1, <1>0, ForgetType
  <2>5. passEnd' \in Instant /\ passFrom' \in Instant
    BY <2>1 DEF Instant
  <2>6. UNCHANGED <<clock, source, stored, lastReadingAt, rejected, dropped, cursor, emptyStreak,
                    doneAt, bfDoc, bfCursor, bfStreak, bfFrom, bfLeft, bfDone, bfDry, bfTry,
                    watermark, base, runDoc, runLoaded, runNow, runFrom, runTry>>
    BY <2>1
  <2>7. QED
    BY <2>2, <2>3, <2>4, <2>5, <2>6 DEF TypeOK
<1>8. QED
  BY <1>1, <1>2, <1>3, <1>4, <1>5, <1>6, <1>7

\* Every step keeps the types, given what the tasks' samples look like.
LEMMA TypeStep ==
  ASSUME TypeOK, PublishedInv, \A t \in Task : TaskInv(t), [Next]_vars
  PROVE  TypeOK'
<1> USE DEF vars, sourceVars, writeVars, storeVars, taskVars, historyVars, runVars, runLocals,
            backfillVars, backfillState, backfillLocals, passVars
<1>1. CASE Upstream
  <2>1. PICK r \in Reading : Publish(r)
    BY <1>1 DEF Upstream
  <2>2. source' \in [Reading -> Version]
    BY <2>1, ConstantTypes DEF Publish, Version, TypeOK
  <2>3. QED
    BY <1>1, <2>1, <2>2 DEF Upstream, Publish, TypeOK
<1>2. CASE Time
  BY <1>2 DEF Time, Tick, TypeOK
<1>3. CASE UNCHANGED vars
  BY <1>3 DEF TypeOK
<1>4. "run" \in Task
  BY DEF Task
<1>5. QED
  BY <1>1, <1>2, <1>3, <1>4, StepCases, TypeWrite, TypeRun, TypeWalk, TypePass

-------------------------------------------------------------------------------
(* What is kept stays kept, and a task's variables are its own.            *)

\* Whatever InfluxDB holds it goes on holding, at one version or another.
StoreGrows ==
  /\ \A r \in Reading : stored[r] > 0 => stored'[r] > 0
  /\ rejected \subseteq rejected'
  /\ dropped \subseteq dropped'

LEMMA StoreBatchGrows ==
  ASSUME TypeOK, NEW t \in Task, TaskInv(t), NEW batch \in SUBSET pending[t],
         StoreBatch(t, batch)
  PROVE  /\ \A r \in Reading : stored[r] > 0 => stored'[r] > 0
         /\ \A r \in batch : stored'[r] > 0
<1>1. \A r \in batch : r \in Reading /\ samples[t][r] > 0
  BY DEF TaskInv, Present
<1>2. QED
  BY <1>1 DEF StoreBatch

LEMMA WriteGrows ==
  ASSUME TypeOK, NEW t \in Task, TaskInv(t), WriteOnly(t)
  PROVE  StoreGrows
<1> USE DEF WriteOnly, WriteStep, storeVars, historyVars, StoreGrows
<1>1. CASE WriteBatch(t)
  <2>1. PICK batch \in SUBSET pending[t] : StoreBatch(t, batch)
    BY <1>1 DEF WriteBatch
  <2>2. QED
    BY <1>1, <2>1, StoreBatchGrows DEF WriteBatch
<1>2. CASE WriteBatchFails(t)
  <2>1. PICK batch \in SUBSET pending[t], applied \in BOOLEAN :
          IF applied THEN StoreBatch(t, batch) ELSE UNCHANGED stored
    BY <1>2 DEF WriteBatchFails
  <2>2. QED
    BY <1>2, <2>1, StoreBatchGrows DEF WriteBatchFails
<1>3. CASE EndBatches(t)
  BY <1>3 DEF EndBatches
<1>4. CASE SummaryGet(t)
  BY <1>4 DEF SummaryGet
<1>5. CASE SummaryPatch(t)
  BY <1>5 DEF SummaryPatch
<1>6. CASE EndWrite(t)
  BY <1>6 DEF EndWrite
<1>7. QED
  BY <1>1, <1>2, <1>3, <1>4, <1>5, <1>6

LEMMA BeginWriteGrows ==
  ASSUME NEW t \in Task, NEW batch, BeginWrite(t, batch)
  PROVE  StoreGrows
BY DEF BeginWrite, StoreGrows, storeVars

LEMMA RunGrows == RunOwn => StoreGrows
<1> SUFFICES ASSUME RunOwn PROVE StoreGrows
  OBVIOUS
<1> USE DEF RunOwn, storeVars, historyVars
<1>1. CASE RunFetched
  <2>1. "run" \in Task
    BY DEF Task
  <2>2. QED
    BY <1>1, <2>1, BeginWriteGrows DEF RunFetched, StoreGrows
<1>2. CASE RunLoad \/ RunBegin \/ RunFetch \/ RunAdvance \/ RunFinish \/ RunFails
  BY <1>2 DEF RunLoad, RunBegin, RunFetch, RunAdvance, RunFinish, RunFails, StoreGrows
<1>3. QED
  BY <1>1, <1>2

LEMMA WalkGrows == WalkOwn => StoreGrows
<1> SUFFICES ASSUME WalkOwn PROVE StoreGrows
  OBVIOUS
<1> USE DEF WalkOwn, storeVars, historyVars
<1>1. CASE BackfillFetch
  <2>1. "backfill" \in Task
    BY DEF Task
  <2>2. (\E batch : BeginWrite("backfill", batch)) \/ UNCHANGED <<storeVars, historyVars>>
    BY <1>1 DEF BackfillFetch
  <2>3. QED
    BY <2>1, <2>2, BeginWriteGrows DEF StoreGrows
<1>2. CASE \/ \E dry \in BOOLEAN : BackfillLoad(watermark, dry)
           \/ BackfillSkip \/ BackfillBegin \/ BackfillReachesFloor \/ BackfillLoopEnds
           \/ BackfillWritten \/ BackfillSave \/ BackfillFinish \/ BackfillFails
  BY <1>2 DEF BackfillLoad, BackfillSkip, BackfillBegin, BackfillReachesFloor, BackfillLoopEnds,
     BackfillWritten, BackfillSave, BackfillFinish, BackfillFails, StoreGrows
<1>3. QED
  BY <1>1, <1>2

LEMMA PassGrows == PassOwn => StoreGrows
<1> SUFFICES ASSUME PassOwn PROVE StoreGrows
  OBVIOUS
<1> USE DEF PassOwn, storeVars, historyVars
<1>1. CASE PassFetch
  <2>1. "backfill" \in Task
    BY DEF Task
  <2>2. (\E batch : BeginWrite("backfill", batch)) \/ UNCHANGED writeVars
    BY <1>1 DEF PassFetch
  <2>3. QED
    BY <2>1, <2>2, BeginWriteGrows DEF StoreGrows, writeVars
<1>2. CASE PassLoad \/ PassBegin \/ PassWritten \/ PassEnds \/ PassFinish \/ PassFails
  BY <1>2 DEF PassLoad, PassBegin, PassWritten, PassEnds, PassFinish, PassFails, StoreGrows
<1>3. QED
  BY <1>1, <1>2

LEMMA StepGrows ==
  ASSUME TypeOK, \A t \in Task : TaskInv(t), [Next]_vars
  PROVE  StoreGrows /\ \A r \in Reading : Kept(r) => Kept(r)'
<1>1. ASSUME Upstream \/ Time \/ UNCHANGED vars PROVE StoreGrows
  BY <1>1 DEF Upstream, Time, vars, writeVars, storeVars, historyVars, StoreGrows
<1>2. StoreGrows
  BY <1>1, StepCases, WriteGrows, RunGrows, WalkGrows, PassGrows
<1>3. QED
  BY <1>2 DEF StoreGrows, Kept

\* The task variables of t do not change.
TaskFrame(t) ==
  /\ pc'[t] = pc[t] /\ samples'[t] = samples[t] /\ accepted'[t] = accepted[t]
  /\ pending'[t] = pending[t] /\ written'[t] = written[t]
  /\ toRefresh'[t] = toRefresh[t] /\ seen'[t] = seen[t]

LEMMA WriteFrame ==
  ASSUME TypeOK, NEW t \in Task, NEW u \in Task, t # u, WriteOnly(t)
  PROVE  TaskFrame(u)
<1> USE DEF WriteOnly, WriteStep, TypeOK, TaskFrame, Goto
<1>1. CASE WriteBatch(t)
  BY <1>1 DEF WriteBatch
<1>2. CASE WriteBatchFails(t)
  BY <1>2 DEF WriteBatchFails
<1>3. CASE EndBatches(t)
  BY <1>3 DEF EndBatches
<1>4. CASE SummaryGet(t)
  BY <1>4 DEF SummaryGet
<1>5. CASE SummaryPatch(t)
  BY <1>5 DEF SummaryPatch
<1>6. CASE EndWrite(t)
  BY <1>6 DEF EndWrite
<1>7. QED
  BY <1>1, <1>2, <1>3, <1>4, <1>5, <1>6

LEMMA RunFrame == TypeOK /\ RunOwn => TaskFrame("backfill")
<1> SUFFICES ASSUME TypeOK, RunOwn PROVE TaskFrame("backfill")
  OBVIOUS
<1> USE DEF RunOwn, TypeOK, Task, TaskFrame, Goto, Forget
<1>1. CASE RunLoad \/ RunBegin \/ RunFetch \/ RunAdvance
  BY <1>1 DEF RunLoad, RunBegin, RunFetch, RunAdvance
<1>2. CASE RunFetched
  BY <1>2 DEF RunFetched, BeginWrite
<1>3. CASE RunFinish \/ RunFails
  BY <1>3 DEF RunFinish, RunFails, RunForget
<1>4. QED
  BY <1>1, <1>2, <1>3

LEMMA WalkFrame == TypeOK /\ WalkOwn => TaskFrame("run")
<1> SUFFICES ASSUME TypeOK, WalkOwn PROVE TaskFrame("run")
  OBVIOUS
<1> USE DEF WalkOwn, TypeOK, Task, TaskFrame, Goto, Forget
<1>1. CASE BackfillFetch
  <2>1. (\E batch : BeginWrite("backfill", batch)) \/ UNCHANGED taskVars
    BY <1>1 DEF BackfillFetch
  <2>2. QED
    BY <2>1 DEF BeginWrite, taskVars
<1>2. CASE \/ \E dry \in BOOLEAN : BackfillLoad(watermark, dry)
           \/ BackfillSkip \/ BackfillBegin \/ BackfillReachesFloor \/ BackfillLoopEnds
           \/ BackfillSave
  BY <1>2 DEF BackfillLoad, BackfillSkip, BackfillBegin, BackfillReachesFloor, BackfillLoopEnds,
     BackfillSave
<1>3. CASE BackfillWritten \/ BackfillFinish \/ BackfillFails
  BY <1>3 DEF BackfillWritten, BackfillFinish, BackfillFails, BackfillForget
<1>4. QED
  BY <1>1, <1>2, <1>3

LEMMA PassFrame == TypeOK /\ PassOwn => TaskFrame("run")
<1> SUFFICES ASSUME TypeOK, PassOwn PROVE TaskFrame("run")
  OBVIOUS
<1> USE DEF PassOwn, TypeOK, Task, TaskFrame, Goto, Forget
<1>1. CASE PassFetch
  <2>1. (\E batch : BeginWrite("backfill", batch)) \/ UNCHANGED writeVars
    BY <1>1 DEF PassFetch
  <2>2. QED
    BY <2>1 DEF BeginWrite, writeVars, taskVars
<1>2. CASE PassLoad \/ PassBegin \/ PassEnds
  BY <1>2 DEF PassLoad, PassBegin, PassEnds
<1>3. CASE PassWritten \/ PassFinish \/ PassFails
  BY <1>3 DEF PassWritten, PassFinish, PassFails, PassForget
<1>4. QED
  BY <1>1, <1>2, <1>3

-------------------------------------------------------------------------------
(* What is published, and what a task holds.                               *)

LEMMA PublishedStep ==
  ASSUME TypeOK, PublishedInv, [Next]_vars
  PROVE  PublishedInv' /\ clock <= clock' /\ \A r \in Reading : source[r] <= source'[r]
<1>1. CASE Upstream
  <2>1. PICK r \in Reading : Publish(r)
    BY <1>1 DEF Upstream
  <2>2. QED
    BY <1>1, <2>1, ConstantTypes
    DEF Upstream, Publish, PublishedInv, TypeOK, writeVars, taskVars, Version, Task
<1>2. CASE Time
  BY <1>2, ConstantTypes DEF Time, Tick, PublishedInv, TypeOK, writeVars, taskVars, Version, Task
<1>3. ASSUME UNCHANGED <<sourceVars, samples>>
      PROVE  PublishedInv' /\ clock <= clock' /\ \A r \in Reading : source[r] <= source'[r]
  BY <1>3 DEF PublishedInv, sourceVars, TypeOK, Version
<1>4. ASSUME NEW t \in Task, WriteOnly(t) PROVE UNCHANGED <<sourceVars, samples>>
  BY <1>4 DEF WriteOnly, WriteStep, WriteBatch, WriteBatchFails, EndBatches, SummaryGet,
     SummaryPatch, EndWrite
<1>5. ASSUME NEW t \in Task, UNCHANGED sourceVars, TaskFrame(IF t = "run" THEN "backfill" ELSE "run"),
             \A r \in Reading : samples'[t][r] > 0 => source[r] > 0
      PROVE  PublishedInv' /\ clock <= clock' /\ \A r \in Reading : source[r] <= source'[r]
  BY <1>5 DEF PublishedInv, sourceVars, TypeOK, Version, Task, TaskFrame
<1>6. ASSUME NEW t \in Task, Forget(t) PROVE \A r \in Reading : samples'[t][r] > 0 => source[r] > 0
  BY <1>6 DEF Forget, Nothing, TypeOK
<1>7. ASSUME NEW t \in Task, NEW batch, BeginWrite(t, batch),
             \A r \in Reading : batch[r] > 0 => source[r] > 0
      PROVE  \A r \in Reading : samples'[t][r] > 0 => source[r] > 0
  BY <1>7 DEF BeginWrite, TypeOK
<1>8. ASSUME NEW t \in Task, UNCHANGED samples
      PROVE  \A r \in Reading : samples'[t][r] > 0 => source[r] > 0
  BY <1>8 DEF PublishedInv
<1>t. "run" \in Task /\ "backfill" \in Task
  BY DEF Task
<1>9. ASSUME RunOwn
      PROVE  UNCHANGED sourceVars /\ \A r \in Reading : samples'["run"][r] > 0 => source[r] > 0
  <2>1. UNCHANGED sourceVars
    BY <1>9 DEF RunOwn, RunLoad, RunBegin, RunFetch, RunFetched, RunAdvance, RunFinish, RunFails,
       sourceVars
  <2>2. CASE RunLoad \/ RunBegin \/ RunAdvance
    BY <2>1, <2>2, <1>8, <1>t DEF RunLoad, RunBegin, RunAdvance
  <2>3. CASE RunFinish \/ RunFails
    BY <2>1, <2>3, <1>6, <1>t DEF RunFinish, RunFails, RunForget
  <2>4. CASE RunFetched
    <3>1. CASE BeginWrite("run", samples["run"])
      BY <2>1, <3>1, <1>7, <1>t DEF PublishedInv
    <3>2. CASE UNCHANGED samples
      BY <2>1, <3>2, <1>8, <1>t
    <3>3. QED
      BY <2>4, <3>1, <3>2 DEF RunFetched
  <2>5. CASE RunFetch
    <3> DEFINE b == Smaller(runFrom + MaxWindow, runNow)
    <3>1. PICK inclusive \in BOOLEAN :
            samples' = [samples EXCEPT !["run"] =
              [r \in Reading |-> IF KeepNew(Fetch(runFrom, b, inclusive), runDoc)[r] > 0
                                 THEN KeepNew(Fetch(runFrom, b, inclusive), runDoc)[r] ELSE @[r]]]
      BY <2>5 DEF RunFetch
    <3>2. b \in Nat
      BY ConstantTypes DEF Smaller, TypeOK, Instant
    <3> HIDE DEF b
    <3>3. \A r \in Reading : Fetch(runFrom, b, inclusive)[r] > 0 => source[r] > 0
      BY <3>2, FetchType DEF TypeOK, Instant
    <3>4. \A r \in Reading : KeepNew(Fetch(runFrom, b, inclusive), runDoc)[r] > 0 => source[r] > 0
      BY <3>3 DEF KeepNew
    <3>5. QED
      BY <2>1, <3>1, <3>4, <1>t DEF PublishedInv, TypeOK
  <2>6. QED
    BY <1>9, <2>2, <2>3, <2>4, <2>5 DEF RunOwn
<1>10. ASSUME WalkOwn
       PROVE  UNCHANGED sourceVars /\ \A r \in Reading : samples'["backfill"][r] > 0 => source[r] > 0
  <2>1. UNCHANGED sourceVars
    BY <1>10 DEF WalkOwn, BackfillLoad, BackfillSkip, BackfillBegin, BackfillFetch,
       BackfillReachesFloor, BackfillLoopEnds, BackfillWritten, BackfillSave, BackfillFinish,
       BackfillFails, sourceVars
  <2>2. CASE UNCHANGED samples
    BY <2>1, <2>2, <1>8, <1>t
  <2>3. CASE Forget("backfill")
    BY <2>1, <2>3, <1>6, <1>t
  <2>4. CASE BackfillFetch
    <3> DEFINE a == LowerBound(bfCursor)
    <3>1. (\E inclusive \in BOOLEAN :
             BeginWrite("backfill", KeepWalkingBack(Fetch(a, bfCursor, inclusive), bfCursor)))
          \/ UNCHANGED samples
      BY <2>4 DEF BackfillFetch, taskVars
    <3>2. a \in Nat
      BY ConstantTypes DEF LowerBound, TypeOK, Instant
    <3> HIDE DEF a
    <3>3. ASSUME NEW inclusive \in BOOLEAN,
                 BeginWrite("backfill", KeepWalkingBack(Fetch(a, bfCursor, inclusive), bfCursor))
          PROVE  \A r \in Reading : samples'["backfill"][r] > 0 => source[r] > 0
      <4>1. \A r \in Reading : Fetch(a, bfCursor, inclusive)[r] > 0 => source[r] > 0
        BY <3>2, FetchType DEF TypeOK, Instant
      <4>2. \A r \in Reading :
              KeepWalkingBack(Fetch(a, bfCursor, inclusive), bfCursor)[r] > 0 => source[r] > 0
        BY <4>1 DEF KeepWalkingBack
      <4>3. QED
        BY <3>3, <4>2, <1>7, <1>t
    <3>4. QED
      BY <2>1, <2>2, <3>1, <3>3
  <2>5. UNCHANGED samples \/ Forget("backfill") \/ BackfillFetch
    BY <1>10 DEF WalkOwn, BackfillLoad, BackfillSkip, BackfillBegin, BackfillReachesFloor,
       BackfillLoopEnds, BackfillWritten, BackfillSave, BackfillFinish, BackfillFails, BackfillForget
  <2>6. QED
    BY <2>2, <2>3, <2>4, <2>5
<1>11. ASSUME PassOwn
       PROVE  UNCHANGED sourceVars /\ \A r \in Reading : samples'["backfill"][r] > 0 => source[r] > 0
  <2>1. UNCHANGED sourceVars
    BY <1>11 DEF PassOwn, PassLoad, PassBegin, PassFetch, PassWritten, PassEnds, PassFinish,
       PassFails, sourceVars
  <2>2. CASE UNCHANGED samples
    BY <2>1, <2>2, <1>8, <1>t
  <2>3. CASE Forget("backfill")
    BY <2>1, <2>3, <1>6, <1>t
  <2>4. CASE PassFetch
    <3> DEFINE b == Smaller(passFrom + PassWindow, passEnd)
    <3>1. (\E inclusive \in BOOLEAN : BeginWrite("backfill", Fetch(passFrom, b, inclusive)))
          \/ UNCHANGED samples
      BY <2>4 DEF PassFetch, writeVars, taskVars
    <3>2. b \in Nat
      BY ConstantTypes DEF Smaller, TypeOK, Instant
    <3> HIDE DEF b
    <3>3. ASSUME NEW inclusive \in BOOLEAN, BeginWrite("backfill", Fetch(passFrom, b, inclusive))
          PROVE  \A r \in Reading : samples'["backfill"][r] > 0 => source[r] > 0
      <4>1. \A r \in Reading : Fetch(passFrom, b, inclusive)[r] > 0 => source[r] > 0
        BY <3>2, FetchType DEF TypeOK, Instant
      <4>2. QED
        BY <3>3, <4>1, <1>7, <1>t
    <3>4. QED
      BY <2>1, <2>2, <3>1, <3>3
  <2>5. UNCHANGED samples \/ Forget("backfill") \/ PassFetch
    BY <1>11 DEF PassOwn, PassLoad, PassBegin, PassWritten, PassEnds, PassFinish, PassFails,
       PassForget
  <2>6. QED
    BY <2>2, <2>3, <2>4, <2>5
<1>12. CASE RunOwn
  BY <1>12, <1>9, <1>5, <1>t, RunFrame
<1>13. CASE WalkOwn
  BY <1>13, <1>10, <1>5, <1>t, WalkFrame
<1>14. CASE PassOwn
  BY <1>14, <1>11, <1>5, <1>t, PassFrame
<1>15. CASE UNCHANGED vars
  BY <1>15, <1>3 DEF vars, writeVars, taskVars
<1>16. QED
  BY <1>1, <1>2, <1>3, <1>4, <1>12, <1>13, <1>14, <1>15, StepCases

LEMMA TaskFrameInv ==
  ASSUME NEW t \in Task, TypeOK, StoreGrows, TaskInv(t), TaskFrame(t)
  PROVE  TaskInv(t)'
<1>1. written[t] \subseteq Reading /\ accepted[t] \subseteq Reading
  BY DEF TypeOK
<1>2. \A r \in Reading : Kept(r) => Kept(r)'
  BY DEF StoreGrows, Kept
<1>3. /\ pc'[t] = pc[t] /\ samples'[t] = samples[t] /\ accepted'[t] = accepted[t]
      /\ pending'[t] = pending[t] /\ written'[t] = written[t]
      /\ toRefresh'[t] = toRefresh[t] /\ seen'[t] = seen[t]
  BY DEF TaskFrame
<1>4. /\ Present(samples'[t]) = Present(samples[t])
      /\ PropertiesOf(accepted'[t]) = PropertiesOf(accepted[t])
  BY <1>3
<1>5. QED
  BY <1>1, <1>2, <1>3, <1>4 DEF TaskInv, StoreGrows

\* A task that moves to a place outside the write path, its variables unchanged.
LEMMA TaskGotoInv ==
  ASSUME NEW t \in Task, TypeOK, StoreGrows, TaskInv(t), NEW label, Goto(t, label),
         label \notin Writing,
         label \in {"idle", "ready", "fetch"} => pc[t] \in {"idle", "ready", "fetch"},
         UNCHANGED <<samples, accepted, pending, written, toRefresh, seen>>
  PROVE  TaskInv(t)'
<1>1. written[t] \subseteq Reading
  BY DEF TypeOK
<1>2. pc'[t] = label
  BY DEF Goto, TypeOK
<1>3. QED
  BY <1>1, <1>2 DEF TaskInv, StoreGrows, Writing

\* A task that forgets its variables, outside the write path.
LEMMA TaskForgetInv ==
  ASSUME NEW t \in Task, TypeOK, Forget(t), NEW label, Goto(t, label), label \notin Writing
  PROVE  TaskInv(t)'
<1>1. /\ pc'[t] = label /\ accepted'[t] = {} /\ pending'[t] = {} /\ written'[t] = {}
      /\ toRefresh'[t] = {}
  BY DEF Forget, Goto, TypeOK
<1>2. QED
  BY <1>1 DEF TaskInv, Writing

LEMMA TaskBeginWriteInv ==
  ASSUME NEW t \in Task, TypeOK, TaskInv(t), pc[t] = "fetch",
         NEW batch \in [Reading -> Version], BeginWrite(t, batch)
  PROVE  TaskInv(t)'
<1>1. PICK reject \in IF Guarded THEN SUBSET Present(batch) ELSE {{}} :
        LET keep == Present(batch) \ reject IN
        /\ samples' = [samples EXCEPT ![t] = batch]
        /\ accepted' = [accepted EXCEPT ![t] = keep]
        /\ pending' = [pending EXCEPT ![t] = keep]
        /\ rejected' = rejected \cup reject
        /\ Goto(t, "write")
        /\ UNCHANGED <<written, toRefresh, seen, storeVars, dropped, faults>>
  BY DEF BeginWrite
<1>2. accepted[t] = {} /\ written[t] = {} /\ toRefresh[t] = {}
  BY DEF TaskInv, PropertiesOf
<1>3. /\ samples'[t] = batch /\ accepted'[t] = Present(batch) \ reject
      /\ pending'[t] = Present(batch) \ reject /\ rejected' = rejected \cup reject
      /\ pc'[t] = "write" /\ written'[t] = {} /\ toRefresh'[t] = {}
  BY <1>1, <1>2 DEF TypeOK, Goto
<1>4. QED
  BY <1>3 DEF TaskInv, Writing

LEMMA TaskWriteInv ==
  ASSUME NEW t \in Task, TypeOK, PublishedInv, StoreGrows, TaskInv(t), WriteOnly(t)
  PROVE  TaskInv(t)'
<1> USE DEF WriteOnly, WriteStep, historyVars, storeVars
<1>r. /\ accepted[t] \subseteq Reading /\ written[t] \subseteq Reading
      /\ pending[t] \subseteq Reading
  BY DEF TypeOK
<1>k. \A r \in Reading : Kept(r) => Kept(r)'
  BY DEF StoreGrows, Kept
<1>1. CASE WriteBatch(t)
  <2>1. PICK batch \in SUBSET pending[t] :
          /\ StoreBatch(t, batch)
          /\ pending' = [pending EXCEPT ![t] = @ \ batch]
          /\ written' = [written EXCEPT ![t] = @ \cup batch]
    BY <1>1 DEF WriteBatch
  <2>2. \A r \in batch : stored'[r] > 0
    BY <2>1, StoreBatchGrows
  <2>3. /\ pending'[t] = pending[t] \ batch /\ written'[t] = written[t] \cup batch
        /\ pc[t] = "write"
        /\ UNCHANGED <<pc, samples, accepted, toRefresh, seen, rejected, dropped>>
    BY <1>1, <2>1 DEF WriteBatch, TypeOK
  <2>4. \A r \in written'[t] : stored'[r] > 0
    BY <2>2, <2>3, <1>r DEF StoreGrows, TaskInv
  <2>5. QED
    BY <2>3, <2>4 DEF TaskInv, Writing
<1>2. CASE WriteBatchFails(t)
  <2>1. PICK batch \in SUBSET pending[t] : pending' = [pending EXCEPT ![t] = @ \ batch]
    BY <1>2 DEF WriteBatchFails
  <2>2. /\ pending'[t] = pending[t] \ batch /\ pc[t] = "write"
        /\ UNCHANGED <<pc, samples, accepted, written, toRefresh, seen, rejected, dropped>>
    BY <1>2, <2>1 DEF WriteBatchFails, TypeOK
  <2>3. QED
    BY <2>2, <1>r DEF TaskInv, Writing, StoreGrows
<1>3. CASE EndBatches(t)
  <2>1. /\ pc[t] = "write" /\ pc'[t] = "refresh" /\ pending[t] = {}
        /\ toRefresh'[t] = SummariesToRefresh(t)
        /\ dropped' = IF written[t] = {} THEN dropped ELSE dropped \cup (accepted[t] \ written[t])
        /\ UNCHANGED <<stored, samples, accepted, pending, written, seen, rejected>>
    BY <1>3 DEF EndBatches, Goto, TypeOK
  <2>2. toRefresh'[t] \subseteq PropertiesOf(accepted[t])
    BY <2>1 DEF SummariesToRefresh, PropertiesOf
  <2>3. written[t] # {} => \A r \in accepted[t] : Kept(r)'
    BY <2>1 DEF Kept, TaskInv
  <2>4. QED
    BY <2>1, <2>2, <2>3 DEF TaskInv, Writing
<1>4. CASE SummaryGet(t)
  <2>1. PICK p \in toRefresh[t] : seen'[t][1] = p
    BY <1>4 DEF SummaryGet, TypeOK
  <2>2. /\ pc[t] = "refresh" /\ pc'[t] = "patch"
        /\ UNCHANGED <<stored, samples, accepted, pending, written, toRefresh, rejected, dropped>>
    BY <1>4 DEF SummaryGet, Goto, TypeOK
  <2>3. p \in PropertiesOf(accepted[t])
    BY DEF TaskInv
  <2>4. QED
    BY <2>1, <2>2, <2>3, <1>r, <1>k DEF TaskInv, Writing
<1>5. CASE SummaryPatch(t)
  <2>1. /\ pc[t] = "patch" /\ pc'[t] = "refresh"
        /\ toRefresh'[t] \subseteq toRefresh[t]
        /\ UNCHANGED <<stored, samples, accepted, pending, written, rejected, dropped>>
    BY <1>5 DEF SummaryPatch, Goto, TypeOK
  <2>2. QED
    BY <2>1, <1>r, <1>k DEF TaskInv, Writing
<1>6. CASE EndWrite(t)
  <2>1. /\ pc[t] = "refresh" /\ pc'[t] = "written"
        /\ UNCHANGED <<stored, samples, accepted, pending, written, toRefresh, seen, rejected, dropped>>
    BY <1>6 DEF EndWrite, Goto, TypeOK
  <2>2. QED
    BY <2>1, <1>r, <1>k DEF TaskInv, Writing
<1>7. QED
  BY <1>1, <1>2, <1>3, <1>4, <1>5, <1>6

LEMMA TaskRunInv ==
  ASSUME TypeOK, PublishedInv, StoreGrows, TaskInv("run"), RunOwn
  PROVE  TaskInv("run")'
<1>t. "run" \in Task
  BY DEF Task
<1>w. Writing = {"write", "refresh", "patch", "written"}
  BY DEF Writing
<1>1. CASE RunLoad
  BY <1>1, <1>t, <1>w, TaskGotoInv DEF RunLoad
<1>2. CASE RunBegin
  BY <1>2, <1>t, <1>w, TaskGotoInv DEF RunBegin
<1>3. CASE RunFetch
  <2>1. /\ pc["run"] = "fetch"
        /\ UNCHANGED <<pc, accepted, pending, written, toRefresh, seen, stored, rejected, dropped>>
    BY <1>3 DEF RunFetch, storeVars, historyVars
  <2>2. QED
    BY <2>1 DEF TaskInv, Writing
<1>4. CASE RunFetched
  <2>1. CASE Present(samples["run"]) = {}
    BY <1>4, <2>1, <1>t, <1>w, TaskGotoInv DEF RunFetched
  <2>2. CASE Present(samples["run"]) # {}
    <3>1. samples["run"] \in [Reading -> Version]
      BY <1>t DEF TypeOK
    <3>2. QED
      BY <1>4, <2>2, <3>1, <1>t, TaskBeginWriteInv DEF RunFetched
  <2>3. QED
    BY <2>1, <2>2
<1>5. CASE RunAdvance
  BY <1>5, <1>t, <1>w, TaskGotoInv DEF RunAdvance
<1>6. CASE RunFinish
  BY <1>6, <1>t, <1>w, TaskForgetInv DEF RunFinish, RunForget
<1>7. CASE RunFails
  BY <1>7, <1>t, <1>w, TaskForgetInv DEF RunFails, RunForget
<1>8. QED
  BY <1>1, <1>2, <1>3, <1>4, <1>5, <1>6, <1>7 DEF RunOwn

LEMMA TaskWalkInv ==
  ASSUME TypeOK, StoreGrows, TaskInv("backfill"), WalkOwn
  PROVE  TaskInv("backfill")'
<1>t. "backfill" \in Task
  BY DEF Task
<1>w. Writing = {"write", "refresh", "patch", "written"}
  BY DEF Writing
<1>1. ASSUME NEW dry \in BOOLEAN, BackfillLoad(watermark, dry) PROVE TaskInv("backfill")'
  BY <1>1, <1>t, <1>w, TaskGotoInv DEF BackfillLoad
<1>2. CASE BackfillSkip
  BY <1>2, <1>t, <1>w, TaskGotoInv DEF BackfillSkip
<1>3. CASE BackfillBegin
  BY <1>3, <1>t, <1>w, TaskGotoInv DEF BackfillBegin
<1>4. CASE BackfillFetch
  <2> DEFINE a == LowerBound(bfCursor)
  <2>1. a \in Nat
    BY ConstantTypes DEF LowerBound, TypeOK, Instant
  <2>2. (\E inclusive \in BOOLEAN :
           BeginWrite("backfill", KeepWalkingBack(Fetch(a, bfCursor, inclusive), bfCursor)))
        \/ UNCHANGED taskVars
    BY <1>4 DEF BackfillFetch
  <2>3. pc["backfill"] = "fetch"
    BY <1>4 DEF BackfillFetch
  <2>4. CASE UNCHANGED taskVars
    BY <2>4, <1>t, TaskFrameInv DEF TaskFrame, taskVars
  <2> HIDE DEF a
  <2>5. ASSUME NEW inclusive \in BOOLEAN,
               BeginWrite("backfill", KeepWalkingBack(Fetch(a, bfCursor, inclusive), bfCursor))
        PROVE  TaskInv("backfill")'
    <3>1. Fetch(a, bfCursor, inclusive) \in [Reading -> Version]
      BY <2>1, FetchType DEF TypeOK, Instant
    <3>2. 0 \in Version
      BY ConstantTypes DEF Version
    <3>3. KeepWalkingBack(Fetch(a, bfCursor, inclusive), bfCursor) \in [Reading -> Version]
      BY <3>1, <3>2 DEF KeepWalkingBack
    <3>4. QED
      BY <2>3, <2>5, <3>3, <1>t, TaskBeginWriteInv
  <2>6. QED
    BY <2>2, <2>4, <2>5
<1>5. CASE BackfillReachesFloor
  BY <1>5, <1>t, <1>w, TaskGotoInv DEF BackfillReachesFloor
<1>6. CASE BackfillLoopEnds
  BY <1>6, <1>t, <1>w, TaskGotoInv DEF BackfillLoopEnds
<1>7. CASE BackfillWritten
  BY <1>7, <1>t, <1>w, TaskForgetInv DEF BackfillWritten
<1>8. CASE BackfillSave
  BY <1>8, <1>t, <1>w, TaskGotoInv DEF BackfillSave
<1>9. CASE BackfillFinish
  BY <1>9, <1>t, <1>w, TaskForgetInv DEF BackfillFinish, BackfillForget
<1>10. CASE BackfillFails
  BY <1>10, <1>t, <1>w, TaskForgetInv DEF BackfillFails, BackfillForget
<1>11. QED
  BY <1>1, <1>2, <1>3, <1>4, <1>5, <1>6, <1>7, <1>8, <1>9, <1>10 DEF WalkOwn

LEMMA TaskPassInv ==
  ASSUME TypeOK, StoreGrows, TaskInv("backfill"), PassOwn
  PROVE  TaskInv("backfill")'
<1>t. "backfill" \in Task
  BY DEF Task
<1>w. Writing = {"write", "refresh", "patch", "written"}
  BY DEF Writing
<1>1. CASE PassLoad
  BY <1>1, <1>t, <1>w, TaskGotoInv DEF PassLoad
<1>2. CASE PassBegin
  BY <1>2, <1>t, <1>w, TaskGotoInv DEF PassBegin
<1>3. CASE PassFetch
  <2> DEFINE b == Smaller(passFrom + PassWindow, passEnd)
  <2>1. b \in Nat
    BY ConstantTypes DEF Smaller, TypeOK, Instant
  <2>2. (\E inclusive \in BOOLEAN : BeginWrite("backfill", Fetch(passFrom, b, inclusive)))
        \/ UNCHANGED writeVars
    BY <1>3 DEF PassFetch
  <2>3. pc["backfill"] = "fetch"
    BY <1>3 DEF PassFetch
  <2>4. CASE UNCHANGED writeVars
    BY <2>4, <1>t, TaskFrameInv DEF TaskFrame, writeVars, taskVars
  <2> HIDE DEF b
  <2>5. ASSUME NEW inclusive \in BOOLEAN, BeginWrite("backfill", Fetch(passFrom, b, inclusive))
        PROVE  TaskInv("backfill")'
    <3>1. Fetch(passFrom, b, inclusive) \in [Reading -> Version]
      BY <2>1, FetchType DEF TypeOK, Instant
    <3>2. QED
      BY <2>3, <2>5, <3>1, <1>t, TaskBeginWriteInv
  <2>6. QED
    BY <2>2, <2>4, <2>5
<1>4. CASE PassWritten
  BY <1>4, <1>t, <1>w, TaskForgetInv DEF PassWritten
<1>5. CASE PassEnds
  BY <1>5, <1>t, <1>w, TaskGotoInv DEF PassEnds
<1>6. CASE PassFinish
  BY <1>6, <1>t, <1>w, TaskForgetInv DEF PassFinish, PassForget
<1>7. CASE PassFails
  BY <1>7, <1>t, <1>w, TaskForgetInv DEF PassFails, PassForget
<1>8. QED
  BY <1>1, <1>2, <1>3, <1>4, <1>5, <1>6, <1>7 DEF PassOwn

\* The part of the invariant that says what tasks hold, and that it is typed.
HoldInv == TypeOK /\ PublishedInv /\ \A t \in Task : TaskInv(t)

LEMMA HoldStep == HoldInv /\ [Next]_vars => HoldInv' /\ StoreGrows
<1> SUFFICES ASSUME HoldInv, [Next]_vars PROVE HoldInv' /\ StoreGrows
  OBVIOUS
<1> USE DEF HoldInv
<1>1. StoreGrows
  BY StepGrows
<1>2. TypeOK'
  BY TypeStep
<1>3. PublishedInv'
  BY PublishedStep
<1>t. Task = {"run", "backfill"}
  BY DEF Task
<1>4. ASSUME NEW t \in Task PROVE TaskInv(t)'
  <2>1. CASE Upstream \/ Time \/ UNCHANGED vars
    BY <1>1, <2>1, TaskFrameInv DEF Upstream, Time, vars, writeVars, taskVars, TaskFrame
  <2>2. ASSUME NEW u \in Task, WriteOnly(u) PROVE TaskInv(t)'
    BY <1>1, <2>2, WriteFrame, TaskFrameInv, TaskWriteInv
  <2>3. CASE RunOwn
    BY <1>1, <1>t, <2>3, RunFrame, TaskFrameInv, TaskRunInv
  <2>4. CASE WalkOwn
    BY <1>1, <1>t, <2>4, WalkFrame, TaskFrameInv, TaskWalkInv
  <2>5. CASE PassOwn
    BY <1>1, <1>t, <2>5, PassFrame, TaskFrameInv, TaskPassInv
  <2>6. QED
    BY <2>1, <2>2, <2>3, <2>4, <2>5, StepCases
<1>6. QED
  BY <1>1, <1>2, <1>3, <1>4

\* The constants, and the initial states, satisfy HoldInv.
LEMMA HoldInit == Init => HoldInv
<1> SUFFICES ASSUME Init PROVE HoldInv
  OBVIOUS
<1>1. PublishedInv
  BY ConstantTypes DEF Init, SourceInit, WriteInit, PublishedInv, Nothing
<1>2. ASSUME NEW t \in Task PROVE TaskInv(t)
  BY <1>2 DEF Init, WriteInit, TaskInv, Writing
<1>3. QED
  BY <1>1, <1>2, TypeInit DEF HoldInv

\* Every variable of the pipeline keeps its type: in particular every instant
\* written to Orion-LD (the watermark, the cursor, done_at, the summaries'
\* lastReadingAt) is a natural number, whatever windows, clamps, retries and
\* failed batches it was computed from.
THEOREM TypeCorrect == Spec => []TypeOK
<1>1. Init => HoldInv
  BY HoldInit
<1>2. HoldInv /\ [Next]_vars => HoldInv'
  BY HoldStep
<1>3. HoldInv => TypeOK
  BY DEF HoldInv
<1>4. QED
  BY <1>1, <1>2, <1>3, PTL DEF Spec

-------------------------------------------------------------------------------
(* The watermark of the run DAG.                                           *)

RunInv ==
  /\ WatermarkInv
  /\ RunDocInv
  /\ RunFetchInv
  /\ RunRetryInv
  /\ WatermarkCovers

LEMMA KeptGrows ==
  ASSUME StoreGrows
  PROVE  \A r \in Reading : Kept(r) => Kept(r)'
BY DEF StoreGrows, Kept

\* Steps of the backfill, and of the run's write path, leave RunInv alone.
LEMMA RunInvTransfer ==
  ASSUME HoldInv, RunInv, StoreGrows, UNCHANGED <<sourceVars, runVars>>,
         samples'["run"] = samples["run"],
         pc'["run"] = pc["run"] \/ (pc["run"] \in Writing /\ pc'["run"] \in Writing)
  PROVE  RunInv'
<1>1. UNCHANGED <<clock, source, watermark, runDoc, runLoaded, runNow, runFrom, runTry, base>>
  BY DEF sourceVars, runVars, runLocals
<1>2. \A r \in Reading : Kept(r) => Kept(r)'
  BY KeptGrows
<1>3. WatermarkInv'
  BY <1>1 DEF RunInv, WatermarkInv
<1>4. RunDocInv'
  BY <1>1 DEF RunInv, RunDocInv, Writing
<1>5. RunReach' = RunReach
  BY <1>1 DEF RunReach
<1>6. RunFetchInv'
  BY <1>1, <1>5 DEF RunInv, RunFetchInv, RunUpTo, Writing, Fetching
<1>7. RunRetryInv'
  BY <1>1, <1>2, <1>5 DEF RunInv, RunRetryInv, Writing, Fetching
<1>8. WatermarkCovers'
  BY <1>1, <1>2 DEF RunInv, WatermarkCovers, Covered, Settled
<1>9. QED
  BY <1>3, <1>4, <1>6, <1>7, <1>8 DEF RunInv

\* RunStart without a watermark is monotone in the clock, and its reach.
LEMMA RunStartProps ==
  ASSUME NEW now \in Nat, NEW later \in Nat, now <= later, NEW doc \in Nat
  PROVE  /\ RunStart(doc, now) \in Nat
         /\ HistoryStart <= RunStart(doc, now)
         /\ RunStart(doc, now) <= RunStart(doc, later)
         /\ RunStart(0, now) = HistoryStart \/ RunStart(0, now) = now - LiveLookback - RewriteLookback
         /\ doc # 0 => \/ RunStart(doc, now) = HistoryStart
                       \/ RunStart(doc, now) = doc - RewriteLookback
         /\ RewriteLookback = 0 => doc <= RunStart(doc, now)
BY ConstantTypes DEF RunStart, Larger

\* A publication: the reading is new only if nothing relies on it yet.
LEMMA RunInvUpstream ==
  ASSUME SourceSettles, HoldInv, RunInv, StoreGrows, Upstream
  PROVE  RunInv'
<1>1. PICK q \in Reading : Publish(q)
  BY DEF Upstream
<1>2. /\ clock <= Stamp[q] + MaxLate /\ UNCHANGED clock
      /\ \A r \in Reading : source'[r] > 0 /\ ~(source[r] > 0) => r = q
      /\ \A r \in Reading : source[r] > 0 => source'[r] > 0
  BY <1>1 DEF Publish, HoldInv, TypeOK, Version
<1>3. UNCHANGED <<watermark, runDoc, runLoaded, runNow, runFrom, base, pc, samples>>
  BY DEF Upstream, writeVars, taskVars, runVars, runLocals
<1>4. \A r \in Reading : Kept(r) => Kept(r)'
  BY KeptGrows
<1>t. /\ clock \in Nat /\ watermark \in Nat /\ runLoaded \in Nat /\ runNow \in Nat
      /\ Stamp \in [Reading -> Nat] /\ MaxLate \in Nat /\ RewriteLookback \in Nat
  BY ConstantTypes DEF HoldInv, TypeOK, Instant
<1>5. WatermarkInv'
  BY <1>2, <1>3 DEF RunInv, WatermarkInv
<1>6. RunDocInv'
  BY <1>2, <1>3 DEF RunInv, RunDocInv
<1>7. RunReach' = RunReach
  BY <1>3 DEF RunReach
<1>8. RunFetchInv'
  <2>1. ASSUME pc["run"] \in Fetching, NEW r \in Reading, source'[r] > 0, RunReach < Stamp[r],
               Stamp[r] <= RunUpTo, Stamp[r] + MaxLate < runNow
        PROVE  samples["run"][r] > 0
    <3>1. runNow <= clock
      BY <2>1 DEF RunInv, RunFetchInv
    <3>2. r # q
      BY <2>1, <3>1, <1>2, <1>t
    <3>3. QED
      BY <2>1, <3>2, <1>2 DEF RunInv, RunFetchInv
  <2>2. RunUpTo' = RunUpTo
    BY <1>3 DEF RunUpTo
  <2>3. QED
    BY <2>1, <2>2, <1>2, <1>3, <1>7 DEF RunInv, RunFetchInv
<1>9. RunRetryInv'
  <2>1. ASSUME pc["run"] # "idle", NEW r \in Reading, source'[r] > 0, Stamp[r] + MaxLate < runLoaded
        PROVE  source[r] > 0
    <3>1. runLoaded <= clock
      BY <2>1 DEF RunInv, RunDocInv
    <3>2. QED
      BY <2>1, <3>1, <1>2, <1>t
  <2>2. QED
    BY <2>1, <1>2, <1>3, <1>4, <1>7 DEF RunInv, RunRetryInv
<1>10. WatermarkCovers'
  <2>1. ASSUME watermark # 0, NEW r \in Reading, source'[r] > 0, Stamp[r] <= Settled
        PROVE  source[r] > 0
    <3>1. watermark <= clock /\ \E s \in Reading : source[s] > 0 /\ Stamp[s] = watermark
      BY <2>1 DEF RunInv, WatermarkInv
    <3>2. CASE r # q
      BY <2>1, <3>2, <1>2
    <3>3. CASE r = q
      <4>1. CASE MaxLate < RewriteLookback
        BY <2>1, <3>1, <3>3, <4>1, <1>2, <1>t DEF Settled
      <4>2. CASE MaxLate = 0 /\ \A a, b \in Reading : Stamp[a] = Stamp[b] => a = b
        <5>1. Stamp[r] = watermark
          BY <2>1, <3>1, <3>3, <4>2, <1>2, <1>t DEF Settled
        <5>2. QED
          BY <3>1, <4>2, <5>1
      <4>3. QED
        BY <4>1, <4>2 DEF SourceSettles
    <3>4. QED
      BY <3>2, <3>3
  <2>2. QED
    BY <2>1, <1>3, <1>4 DEF RunInv, WatermarkCovers, Covered, Settled
<1>11. QED
  BY <1>5, <1>6, <1>8, <1>9, <1>10 DEF RunInv

LEMMA RunInvTime ==
  ASSUME HoldInv, RunInv, StoreGrows, Time
  PROVE  RunInv'
<1>1. /\ clock' = clock + 1 /\ UNCHANGED source
      /\ pc["run"] # "idle" => clock < runLoaded + RunSpan
      /\ UNCHANGED <<watermark, runDoc, runLoaded, runNow, runFrom, base, pc, samples, stored,
                     rejected, dropped>>
  BY DEF Time, Tick, writeVars, storeVars, taskVars, historyVars, runVars, runLocals
<1>t. /\ clock \in Nat /\ watermark \in Nat /\ runLoaded \in Nat /\ runNow \in Nat /\ base \in Nat
      /\ MaxLate \in Nat /\ RunSpan \in Nat
  BY ConstantTypes DEF HoldInv, TypeOK, Instant
<1>2. WatermarkInv'
  BY <1>1, <1>t, ConstantTypes DEF RunInv, WatermarkInv
<1>3. RunDocInv'
  BY <1>1, <1>t DEF RunInv, RunDocInv
<1>4. RunReach' = RunReach /\ RunUpTo' = RunUpTo
  BY <1>1 DEF RunReach, RunUpTo
<1>5. RunFetchInv'
  BY <1>1, <1>4, <1>t DEF RunInv, RunFetchInv
<1>6. RunRetryInv'
  <2>1. RunStart(0, clock) <= RunStart(0, clock') /\ RunStart(0, clock) \in Nat
        /\ RunStart(0, clock') \in Nat
    <3>1. clock \in Nat /\ clock' \in Nat /\ clock <= clock' /\ clock' <= clock'
      BY <1>1, <1>t
    <3>2. RunStart(0, clock) <= RunStart(0, clock')
      BY <3>1, RunStartProps
    <3>3. QED
      BY <3>1, <3>2, RunStartType
  <2>2. \A r \in Reading : Kept(r) => Kept(r)'
    BY KeptGrows
  <2>3. CASE pc["run"] # "idle" /\ runDoc = 0 /\ watermark # 0
    <3>1. /\ base <= RunStart(0, clock)
          /\ pc["run"] \in Fetching => base <= RunReach
          /\ \A r \in Reading :
               source[r] > 0 /\ base < Stamp[r] /\ Stamp[r] + MaxLate < runLoaded => Kept(r)
      BY <2>3 DEF RunInv, RunRetryInv
    <3>2. base <= RunStart(0, clock')
      BY <2>1, <3>1, <1>t
    <3>3. QED
      BY <1>1, <1>4, <2>2, <3>1, <3>2 DEF RunRetryInv
  <2>4. QED
    BY <2>3, <1>1 DEF RunRetryInv
<1>7. WatermarkCovers'
  BY <1>1 DEF RunInv, WatermarkCovers, Covered, Settled, Kept
<1>8. QED
  BY <1>2, <1>3, <1>5, <1>6, <1>7 DEF RunInv

\* Types and constants, as the arithmetic of the run needs them.
LEMMA RunTypes ==
  ASSUME HoldInv
  PROVE  /\ clock \in Nat /\ watermark \in Nat /\ base \in Nat /\ runDoc \in Nat
         /\ runLoaded \in Nat /\ runNow \in Nat /\ runFrom \in Nat
         /\ Stamp \in [Reading -> Nat] /\ \A r \in Reading : Stamp[r] > 0
         /\ MaxLate \in Nat /\ RewriteLookback \in Nat /\ LiveLookback \in Nat
         /\ HistoryStart \in Nat /\ RunSpan \in Nat /\ MaxWindow \in Nat
         /\ RunSpan + MaxLate < LiveLookback + RewriteLookback
         /\ RunReach \in Nat
<1>1. runDoc \in Nat /\ runNow \in Nat
  BY DEF HoldInv, TypeOK, Instant
<1>2. RunReach \in Nat
  BY <1>1, RunStartType DEF RunReach
<1>3. \A r \in Reading : Stamp[r] > 0
  BY ConstantTypes
<1>4. QED
  BY <1>2, <1>3, ConstantTypes DEF HoldInv, TypeOK, Instant

\* The steps of the run that set neither the watermark nor its reach.
LEMMA RunInvFrame ==
  ASSUME HoldInv, RunInv, StoreGrows, UNCHANGED <<sourceVars, watermark, base>>
  PROVE  WatermarkInv' /\ WatermarkCovers'
<1>1. \A r \in Reading : Kept(r) => Kept(r)'
  BY KeptGrows
<1>2. QED
  BY <1>1 DEF RunInv, WatermarkInv, WatermarkCovers, Covered, Settled, sourceVars

LEMMA RunInvLoad ==
  ASSUME HoldInv, RunInv, StoreGrows, RunLoad
  PROVE  RunInv'
<1>t. pc \in [Task -> PC] /\ "run" \in Task
  BY DEF HoldInv, TypeOK, Task
<1>1. /\ pc["run"] = "idle" /\ pc'["run"] = "ready" /\ runDoc' = watermark /\ runLoaded' = clock
      /\ UNCHANGED <<clock, source, watermark, base, samples>>
  BY <1>t DEF RunLoad, Goto, sourceVars
<1>2. WatermarkInv' /\ WatermarkCovers'
  BY <1>1, RunInvFrame DEF sourceVars
<1>3. RunDocInv'
  BY <1>1, RunTypes DEF RunInv, RunDocInv, WatermarkInv
<1>4. RunFetchInv'
  BY <1>1 DEF RunInv, RunFetchInv, Fetching, Writing
<1>5. RunRetryInv'
  BY <1>1 DEF RunRetryInv
<1>6. QED
  BY <1>2, <1>3, <1>4, <1>5 DEF RunInv

LEMMA RunInvBegin ==
  ASSUME HoldInv, RunInv, StoreGrows, RunBegin
  PROVE  RunInv'
<1>t. pc \in [Task -> PC] /\ "run" \in Task
  BY DEF HoldInv, TypeOK, Task
<1>1. /\ pc["run"] = "ready" /\ pc'["run"] = "fetch" /\ runNow' = clock
      /\ runFrom' = RunStart(runDoc, clock)
      /\ UNCHANGED <<clock, source, watermark, base, samples, runDoc, runLoaded>>
  BY <1>t DEF RunBegin, Goto, sourceVars
<1>2. WatermarkInv' /\ WatermarkCovers'
  BY <1>1, RunInvFrame DEF sourceVars
<1>3. RunDocInv'
  BY <1>1 DEF RunInv, RunDocInv
<1>4. RunReach' = runFrom' /\ runFrom' \in Nat
  BY <1>1, RunTypes, RunStartType DEF RunReach
<1>5. RunFetchInv'
  <2>1. \A r \in Reading : samples'["run"][r] = 0
    BY <1>1 DEF RunInv, RunFetchInv
  <2>2. runLoaded <= clock
    BY <1>1 DEF RunInv, RunDocInv
  <2>3. RunUpTo' = runFrom'
    BY <1>1 DEF RunUpTo
  <2>4. \A r \in Reading : ~(RunReach' < Stamp[r] /\ Stamp[r] <= RunUpTo')
    BY <1>4, <2>3, RunTypes
  <2>5. QED
    BY <1>1, <1>4, <2>1, <2>2, <2>4, RunTypes DEF RunFetchInv
<1>6. RunRetryInv'
  <2>1. \A r \in Reading : Kept(r) => Kept(r)'
    BY KeptGrows
  <2>2. CASE runDoc = 0 /\ watermark # 0
    <3>1. base <= RunStart(0, clock) /\ RunReach' = RunStart(0, clock)
      BY <1>1, <1>4, <2>2 DEF RunInv, RunRetryInv
    <3>2. QED
      BY <1>1, <2>1, <2>2, <3>1 DEF RunInv, RunRetryInv
  <2>3. QED
    BY <1>1, <2>2 DEF RunRetryInv
<1>7. QED
  BY <1>2, <1>3, <1>5, <1>6 DEF RunInv

LEMMA RunInvFetch ==
  ASSUME HoldInv, RunInv, StoreGrows, RunFetch
  PROVE  RunInv'
<1>t. pc \in [Task -> PC] /\ "run" \in Task /\ samples \in [Task -> [Reading -> Version]]
  BY DEF HoldInv, TypeOK, Task
<1>1. /\ pc["run"] = "fetch" /\ runFrom < runNow
      /\ UNCHANGED <<clock, source, pc, watermark, base, runDoc, runLoaded, runNow, stored,
                     rejected, dropped>>
  BY DEF RunFetch, sourceVars, storeVars, historyVars
<1> DEFINE b == Smaller(runFrom + MaxWindow, runNow)
<1>2. PICK inclusive \in BOOLEAN :
        /\ samples' = [samples EXCEPT !["run"] =
             [r \in Reading |-> IF KeepNew(Fetch(runFrom, b, inclusive), runDoc)[r] > 0
                                THEN KeepNew(Fetch(runFrom, b, inclusive), runDoc)[r] ELSE @[r]]]
        /\ runFrom' = b
  BY DEF RunFetch
<1>3. b \in Nat /\ b <= runNow /\ runFrom <= b
  BY <1>1, RunTypes DEF Smaller
<1> HIDE DEF b
<1> DEFINE f == Fetch(runFrom, b, inclusive)
<1>4. /\ \A r \in Reading : f[r] > 0 => runFrom <= Stamp[r] /\ Stamp[r] <= b
      /\ \A r \in Reading : source[r] > 0 /\ runFrom < Stamp[r] /\ Stamp[r] <= b => f[r] > 0
  <2>1. TypeOK /\ runFrom \in Nat
    BY RunTypes DEF HoldInv
  <2>2. /\ \A r \in Reading : f[r] > 0 => source[r] > 0 /\ runFrom <= Stamp[r] /\ Stamp[r] <= b
        /\ \A r \in Reading : source[r] > 0 /\ runFrom < Stamp[r] /\ Stamp[r] <= b
             => f[r] = source[r]
    BY <1>3, <2>1, FetchType
  <2>3. QED
    BY <2>2
<1> HIDE DEF f
<1>5. /\ \A r \in Reading : KeepNew(f, runDoc)[r] = IF Stamp[r] > FloorMs(runDoc) THEN f[r] ELSE 0
      /\ \A r \in Reading :
           samples'["run"][r] = IF KeepNew(f, runDoc)[r] > 0 THEN KeepNew(f, runDoc)[r]
                                ELSE samples["run"][r]
  BY <1>2, <1>t DEF KeepNew, f
<1>6. \A r \in Reading : Stamp[r] > RunReach => Stamp[r] > FloorMs(runDoc)
  <2>1. CASE RewriteLookback = 0
    <3>1. runDoc <= RunReach
      BY <2>1, RunTypes, RunStartProps DEF RunReach
    <3>2. QED
      BY <2>1, <3>1, RunTypes DEF FloorMs
  <2>2. CASE RewriteLookback # 0
    BY <2>2, RunTypes DEF FloorMs
  <2>3. QED
    BY <2>1, <2>2
<1>7. WatermarkInv' /\ WatermarkCovers'
  BY <1>1, RunInvFrame DEF sourceVars
<1>8. RunDocInv'
  BY <1>1 DEF RunInv, RunDocInv
<1>9. RunReach' = RunReach /\ RunUpTo' = b /\ RunUpTo = runFrom
  BY <1>1, <1>2 DEF RunReach, RunUpTo
<1>10. RunFetchInv'
  <2>1. /\ runLoaded <= runNow /\ runNow <= clock /\ RunReach <= runFrom
        /\ \A r \in Reading :
             source[r] > 0 /\ RunReach < Stamp[r] /\ Stamp[r] <= runFrom
               /\ Stamp[r] + MaxLate < runNow => samples["run"][r] > 0
        /\ \A r \in Reading :
             samples["run"][r] > 0 => RunReach <= Stamp[r] /\ Stamp[r] <= runNow
    BY <1>1, <1>9 DEF RunInv, RunFetchInv, Fetching
  <2>2. ASSUME NEW r \in Reading, source[r] > 0, RunReach < Stamp[r], Stamp[r] <= b,
               Stamp[r] + MaxLate < runNow
        PROVE  samples'["run"][r] > 0
    <3>1. CASE Stamp[r] <= runFrom
      BY <2>1, <2>2, <3>1, <1>5
    <3>2. CASE runFrom < Stamp[r]
      BY <2>2, <3>2, <1>4, <1>5, <1>6
    <3>3. QED
      BY <3>1, <3>2, RunTypes
  <2>3. ASSUME NEW r \in Reading, samples'["run"][r] > 0
        PROVE  RunReach <= Stamp[r] /\ Stamp[r] <= runNow
    <3>1. CASE KeepNew(f, runDoc)[r] > 0
      <4>1. f[r] > 0
        BY <3>1, <1>5
      <4>2. QED
        BY <4>1, <1>3, <1>4, <2>1, RunTypes
    <3>2. CASE ~(KeepNew(f, runDoc)[r] > 0)
      BY <2>1, <2>3, <3>2, <1>5
    <3>3. QED
      BY <3>1, <3>2
  <2>4. RunReach <= b
    BY <2>1, <1>3, RunTypes
  <2>5. QED
    BY <1>1, <1>2, <1>9, <2>1, <2>2, <2>3, <2>4 DEF RunFetchInv
<1>11. RunRetryInv'
  <2>1. \A r \in Reading : Kept(r)' <=> Kept(r)
    BY <1>1 DEF Kept
  <2>2. QED
    BY <1>1, <1>9, <2>1 DEF RunInv, RunRetryInv
<1>12. QED
  BY <1>7, <1>8, <1>10, <1>11 DEF RunInv

\* The task goes on, or ends, with nothing the invariant speaks of changed.
LEMMA RunInvFetched ==
  ASSUME HoldInv, RunInv, StoreGrows, RunFetched
  PROVE  RunInv'
<1>t. pc \in [Task -> PC] /\ "run" \in Task /\ samples \in [Task -> [Reading -> Version]]
  BY DEF HoldInv, TypeOK, Task
<1>1. /\ pc["run"] = "fetch" /\ runFrom >= runNow
      /\ UNCHANGED <<clock, source, watermark, base, runDoc, runLoaded, runNow, runFrom>>
  BY DEF RunFetched, sourceVars, runVars, runLocals
<1>2. /\ samples'["run"] = samples["run"]
      /\ pc'["run"] = "finished" \/ pc'["run"] = "write"
  BY <1>t DEF RunFetched, BeginWrite, Goto
<1>3. WatermarkInv' /\ WatermarkCovers'
  BY <1>1, RunInvFrame DEF sourceVars
<1>4. RunDocInv'
  BY <1>1, <1>2 DEF RunInv, RunDocInv
<1>5. RunReach' = RunReach
  BY <1>1 DEF RunReach
<1>6. RunFetchInv'
  <2>1. RunUpTo = runFrom /\ RunUpTo' = runNow
    BY <1>1, <1>2 DEF RunUpTo
  <2>2. \A r \in Reading : Stamp[r] <= runNow => Stamp[r] <= runFrom
    BY <1>1, RunTypes
  <2>3. QED
    BY <1>1, <1>2, <1>5, <2>1, <2>2 DEF RunInv, RunFetchInv, Fetching
<1>7. RunRetryInv'
  <2>1. \A r \in Reading : Kept(r) => Kept(r)'
    BY KeptGrows
  <2>2. QED
    BY <1>1, <1>2, <1>5, <2>1 DEF RunInv, RunRetryInv, Fetching
<1>8. QED
  BY <1>3, <1>4, <1>6, <1>7 DEF RunInv

\* A task that ends or is retried.
LEMMA RunInvForget ==
  ASSUME HoldInv, RunInv, StoreGrows, RunFinish \/ RunFails
  PROVE  RunInv'
<1>t. pc \in [Task -> PC] /\ "run" \in Task /\ samples \in [Task -> [Reading -> Version]]
  BY DEF HoldInv, TypeOK, Task
<1>1. /\ pc["run"] # "idle" /\ samples'["run"] = Nothing
      /\ UNCHANGED <<clock, source, watermark, base>>
      /\ \/ pc'["run"] = "ready" /\ UNCHANGED <<runDoc, runLoaded>>
         \/ pc'["run"] = "idle" /\ runDoc' = 0 /\ runLoaded' = 0
  BY <1>t DEF RunFinish, RunFails, RunForget, Forget, Goto, sourceVars
<1>2. WatermarkInv' /\ WatermarkCovers'
  BY <1>1, RunInvFrame DEF sourceVars
<1>3. RunDocInv'
  BY <1>1, RunTypes DEF RunInv, RunDocInv
<1>4. RunFetchInv'
  BY <1>1 DEF RunFetchInv, Fetching, Writing, Nothing
<1>5. RunRetryInv'
  <2>1. \A r \in Reading : Kept(r) => Kept(r)'
    BY KeptGrows
  <2>2. QED
    BY <1>1, <2>1 DEF RunInv, RunRetryInv, Fetching, Writing
<1>6. QED
  BY <1>2, <1>3, <1>4, <1>5 DEF RunInv

\* The step that moves the watermark: everything up to the new one is kept.
LEMMA RunInvAdvances ==
  ASSUME SourceSettles, HoldInv, RunInv, pc["run"] = "written", Advances(Newest)
  PROVE  /\ Newest \in Nat /\ RunReach <= Newest /\ Newest <= runNow /\ runDoc < Newest
         /\ \E r \in Reading : source[r] > 0 /\ Stamp[r] = Newest
         /\ \A r \in Reading :
              source[r] > 0 /\ RunReach < Stamp[r] /\ Stamp[r] + MaxLate < runNow => Kept(r)
         /\ \A r \in Reading :
              source[r] > 0 /\ RunReach < Stamp[r] /\ Stamp[r] <= Newest - RewriteLookback
                => Kept(r)
<1>t. "run" \in Task /\ TypeOK /\ PublishedInv /\ TaskInv("run")
  BY DEF HoldInv, Task
<1>1. written["run"] # {} /\ runDoc < Newest
  <2>1. written["run"] # {} /\ Newest > runDoc
    BY DEF Advances
  <2>2. Newest \in Nat
    BY <1>t, <2>1, NewestType
  <2>3. QED
    BY <2>1, <2>2, RunTypes
<1>2. /\ Newest \in Nat
      /\ \E r \in Present(samples["run"]) : Stamp[r] = Newest
  BY <1>1, <1>t, NewestType
<1>3. \A r \in Reading : samples["run"][r] > 0 => Kept(r)
  <2>1. \A r \in accepted["run"] : Kept(r)
    BY <1>1, <1>t DEF TaskInv, Writing
  <2>2. Present(samples["run"]) \ accepted["run"] \subseteq rejected
    BY <1>t DEF TaskInv, Writing
  <2>3. QED
    BY <2>1, <2>2 DEF Present, Kept
<1>4. /\ \A r \in Reading :
           source[r] > 0 /\ RunReach < Stamp[r] /\ Stamp[r] <= runNow
             /\ Stamp[r] + MaxLate < runNow => samples["run"][r] > 0
      /\ \A r \in Reading : samples["run"][r] > 0 => RunReach <= Stamp[r] /\ Stamp[r] <= runNow
  BY DEF RunInv, RunFetchInv, Fetching, Writing, RunUpTo
<1>5. PICK n \in Reading : samples["run"][n] > 0 /\ Stamp[n] = Newest
  BY <1>2 DEF Present
<1>6. RunReach <= Newest /\ Newest <= runNow /\ source[n] > 0
  BY <1>4, <1>5, <1>t DEF PublishedInv
<1>7. ASSUME NEW r \in Reading, source[r] > 0, RunReach < Stamp[r], Stamp[r] + MaxLate < runNow
      PROVE  Kept(r)
  <2>1. Stamp[r] <= runNow
    BY <1>7, RunTypes
  <2>2. QED
    BY <1>7, <2>1, <1>3, <1>4
<1>8. ASSUME NEW r \in Reading, source[r] > 0, RunReach < Stamp[r],
             Stamp[r] <= Newest - RewriteLookback
      PROVE  Kept(r)
  <2>1. CASE MaxLate < RewriteLookback
    <3>1. Stamp[r] + MaxLate < runNow
      BY <1>2, <1>6, <1>8, <2>1, RunTypes
    <3>2. QED
      BY <1>7, <1>8, <3>1
  <2>2. CASE MaxLate = 0 /\ \A a, c \in Reading : Stamp[a] = Stamp[c] => a = c
    <3>1. CASE Stamp[r] < runNow
      BY <1>7, <1>8, <2>2, <3>1, RunTypes
    <3>2. CASE ~(Stamp[r] < runNow)
      <4>1. Stamp[r] = Newest
        BY <1>2, <1>6, <1>8, <3>2, RunTypes
      <4>2. r = n
        BY <1>5, <2>2, <4>1
      <4>3. QED
        BY <1>3, <1>5, <4>2
    <3>3. QED
      BY <3>1, <3>2
  <2>3. QED
    BY <2>1, <2>2 DEF SourceSettles
<1>9. QED
  BY <1>1, <1>2, <1>5, <1>6, <1>7, <1>8

LEMMA RunInvAdvance ==
  ASSUME SourceSettles, HoldInv, RunInv, StoreGrows, RunAdvance
  PROVE  RunInv'
<1>t. pc \in [Task -> PC] /\ "run" \in Task /\ samples \in [Task -> [Reading -> Version]]
  BY DEF HoldInv, TypeOK, Task
<1>1. /\ pc["run"] = "written" /\ pc'["run"] = "finished"
      /\ UNCHANGED <<clock, source, samples, stored, rejected, dropped,
                     runDoc, runLoaded, runNow, runFrom>>
  BY <1>t DEF RunAdvance, Goto, sourceVars, storeVars, historyVars, runLocals
<1>2. RunFetchInv'
  BY <1>1 DEF RunFetchInv, Fetching, Writing
<1>3. CASE ~Advances(Newest)
  <2>1. UNCHANGED <<watermark, base>>
    BY <1>3 DEF RunAdvance
  <2>2. WatermarkInv' /\ WatermarkCovers'
    BY <1>1, <2>1, RunInvFrame DEF sourceVars
  <2>3. RunDocInv'
    BY <1>1, <2>1 DEF RunInv, RunDocInv
  <2>4. RunRetryInv'
    <3>1. \A r \in Reading : Kept(r) => Kept(r)'
      BY KeptGrows
    <3>2. QED
      BY <1>1, <2>1, <3>1 DEF RunInv, RunRetryInv, Fetching, Writing
  <2>5. QED
    BY <1>2, <2>2, <2>3, <2>4 DEF RunInv
<1>4. CASE Advances(Newest)
  <2>1. watermark' = Newest /\ base' = IF watermark = 0 THEN RunReach ELSE base
    BY <1>4 DEF RunAdvance, RunReach
  <2>2. /\ Newest \in Nat /\ RunReach <= Newest /\ Newest <= runNow /\ runDoc < Newest
        /\ \E r \in Reading : source[r] > 0 /\ Stamp[r] = Newest
        /\ \A r \in Reading :
             source[r] > 0 /\ RunReach < Stamp[r] /\ Stamp[r] + MaxLate < runNow => Kept(r)
        /\ \A r \in Reading :
             source[r] > 0 /\ RunReach < Stamp[r] /\ Stamp[r] <= Newest - RewriteLookback
               => Kept(r)
    BY <1>1, <1>4, RunInvAdvances
  <2>3. /\ runLoaded <= runNow /\ runNow <= clock /\ runLoaded <= clock
        /\ clock <= runLoaded + RunSpan
    BY <1>1 DEF RunInv, RunFetchInv, RunDocInv, Fetching, Writing
  <2>4. HistoryStart <= RunReach
    BY RunTypes, RunStartType DEF RunReach
  <2>5. /\ watermark = 0 => runDoc = 0
        /\ runDoc # 0 => base <= runDoc
        /\ runDoc <= watermark
    BY RunTypes DEF RunInv, RunDocInv
  <2>6. runDoc = 0 => \/ RunReach = HistoryStart
                      \/ RunReach = runNow - LiveLookback - RewriteLookback
    BY RunTypes, RunStartProps DEF RunReach
  <2>7. runDoc # 0 => RunReach = HistoryStart \/ RunReach = runDoc - RewriteLookback
    BY RunTypes, RunStartProps DEF RunReach
  <2>8. watermark # 0 => /\ HistoryStart <= base
                         /\ base = HistoryStart \/ base + MaxLate < clock
    BY DEF RunInv, WatermarkInv
  <2>9. watermark # 0 /\ runDoc = 0 =>
          /\ base <= RunReach
          /\ \A r \in Reading :
               source[r] > 0 /\ base < Stamp[r] /\ Stamp[r] + MaxLate < runLoaded => Kept(r)
    BY <1>1 DEF RunInv, RunRetryInv, Fetching, Writing
  <2>10. \A r \in Reading : Kept(r)' <=> Kept(r)
    BY <1>1 DEF Kept
  <2>11. WatermarkInv'
    <3>1. base' <= watermark'
      <4>1. CASE watermark = 0
        BY <2>1, <2>2, <4>1
      <4>2. CASE watermark # 0 /\ runDoc = 0
        BY <2>1, <2>2, <2>9, <4>2, RunTypes
      <4>3. CASE watermark # 0 /\ runDoc # 0
        BY <2>1, <2>2, <2>5, <4>3, RunTypes
      <4>4. QED
        BY <4>1, <4>2, <4>3
    <3>2. HistoryStart <= base'
      BY <2>1, <2>4, <2>8
    <3>3. base' = HistoryStart \/ base' + MaxLate < clock
      <4>1. CASE watermark = 0
        BY <2>1, <2>3, <2>5, <2>6, <4>1, RunTypes
      <4>2. CASE watermark # 0
        BY <2>1, <2>8, <4>2
      <4>3. QED
        BY <4>1, <4>2
    <3>4. watermark' <= clock
      BY <2>1, <2>2, <2>3, RunTypes
    <3>5. QED
      BY <1>1, <2>1, <2>2, <3>1, <3>2, <3>3, <3>4 DEF WatermarkInv
  <2>12. RunDocInv'
    <3>1. runDoc <= watermark'
      BY <2>1, <2>2, RunTypes
    <3>2. runDoc # 0 => base' <= runDoc
      BY <2>1, <2>5, RunTypes
    <3>3. QED
      BY <1>1, <2>3, <3>1, <3>2 DEF RunDocInv
  <2>13. RunRetryInv'
    <3>1. CASE watermark = 0
      <4>1. base' = RunReach /\ runDoc = 0
        BY <2>1, <2>5, <3>1
      <4>2. RunReach <= RunStart(0, clock)
        BY <2>3, <4>1, RunTypes, RunStartProps DEF RunReach
      <4>3. \A r \in Reading : Stamp[r] + MaxLate < runLoaded => Stamp[r] + MaxLate < runNow
        BY <2>3, RunTypes
      <4>4. QED
        BY <1>1, <2>2, <2>10, <4>1, <4>2, <4>3 DEF RunRetryInv, Fetching, Writing
    <3>2. CASE watermark # 0
      <4>1. base' = base
        BY <2>1, <3>2
      <4>2. QED
        BY <1>1, <2>10, <3>2, <4>1 DEF RunInv, RunRetryInv, Fetching, Writing
    <3>3. QED
      BY <3>1, <3>2
  <2>14. WatermarkCovers'
    <3>1. ASSUME NEW r \in Reading, source[r] > 0, base' < Stamp[r],
                 Stamp[r] <= Newest - RewriteLookback
          PROVE  Kept(r)
      <4>1. CASE RunReach < Stamp[r]
        BY <2>2, <3>1, <4>1
      <4>2. CASE ~(RunReach < Stamp[r])
        <5>1. watermark # 0 /\ base' = base
          BY <2>1, <3>1, <4>2
        <5>2. RunReach # HistoryStart
          BY <2>8, <3>1, <4>2, <5>1, RunTypes
        <5>3. CASE runDoc = 0
          <6>1. Stamp[r] <= runNow - LiveLookback - RewriteLookback
            BY <2>6, <4>2, <5>2, <5>3, RunTypes
          <6>2. Stamp[r] + MaxLate < runLoaded
            BY <2>3, <6>1, RunTypes
          <6>3. QED
            BY <2>9, <3>1, <5>1, <5>3, <6>2
        <5>4. CASE runDoc # 0
          <6>1. Stamp[r] <= watermark - RewriteLookback
            BY <2>5, <2>7, <4>2, <5>2, <5>4, RunTypes
          <6>2. QED
            BY <3>1, <5>1, <6>1 DEF RunInv, WatermarkCovers, Covered, Settled
        <5>5. QED
          BY <5>3, <5>4
      <4>3. QED
        BY <4>1, <4>2
    <3>2. QED
      BY <1>1, <2>1, <2>10, <3>1 DEF WatermarkCovers, Covered, Settled
  <2>15. QED
    BY <1>2, <2>11, <2>12, <2>13, <2>14 DEF RunInv
<1>5. QED
  BY <1>3, <1>4

\* A step of the write path, of either task, seen from the run.
LEMMA WriteFromRun ==
  ASSUME HoldInv, NEW t \in Task, WriteOnly(t)
  PROVE  /\ samples'["run"] = samples["run"]
         /\ pc'["run"] = pc["run"] \/ (pc["run"] \in Writing /\ pc'["run"] \in Writing)
<1>1. pc \in [Task -> PC] /\ "run" \in Task
  BY DEF HoldInv, TypeOK, Task
<1>2. QED
  BY <1>1 DEF WriteOnly, WriteStep, WriteBatch, WriteBatchFails, EndBatches, SummaryGet,
     SummaryPatch, EndWrite, Goto, Writing

LEMMA RunInvStep ==
  ASSUME SourceSettles, HoldInv, RunInv, [Next]_vars
  PROVE  RunInv'
<1>1. StoreGrows /\ TypeOK
  BY HoldStep DEF HoldInv
<1>2. CASE Upstream
  BY <1>1, <1>2, RunInvUpstream
<1>3. CASE Time
  BY <1>1, <1>3, RunInvTime
<1>4. ASSUME NEW t \in Task, WriteOnly(t) PROVE RunInv'
  BY <1>1, <1>4, WriteFromRun, RunInvTransfer DEF WriteOnly
<1>5. CASE RunOwn
  BY <1>1, <1>5, RunInvLoad, RunInvBegin, RunInvFetch, RunInvFetched, RunInvAdvance, RunInvForget
  DEF RunOwn
<1>6. CASE WalkOwn
  <2>1. UNCHANGED <<sourceVars, runVars>>
    BY <1>6 DEF WalkOwn, BackfillLoad, BackfillSkip, BackfillBegin, BackfillFetch,
       BackfillReachesFloor, BackfillLoopEnds, BackfillWritten, BackfillSave, BackfillFinish,
       BackfillFails, sourceVars
  <2>2. QED
    BY <1>1, <1>6, <2>1, WalkFrame, RunInvTransfer DEF TaskFrame
<1>7. CASE PassOwn
  <2>1. UNCHANGED <<sourceVars, runVars>>
    BY <1>7 DEF PassOwn, PassLoad, PassBegin, PassFetch, PassWritten, PassEnds, PassFinish,
       PassFails, sourceVars
  <2>2. QED
    BY <1>1, <1>7, <2>1, PassFrame, RunInvTransfer DEF TaskFrame
<1>8. CASE UNCHANGED vars
  BY <1>1, <1>8, RunInvTransfer DEF vars, writeVars, taskVars
<1>9. QED
  BY <1>2, <1>3, <1>4, <1>5, <1>6, <1>7, <1>8, StepCases

LEMMA RunInvInit == Init => RunInv
<1> SUFFICES ASSUME Init PROVE RunInv
  OBVIOUS
<1>1. watermark = 0 /\ runDoc = 0 /\ pc["run"] = "idle" /\ \A r \in Reading : samples["run"][r] = 0
  BY DEF Init, WriteInit, RunInit, Nothing, Task
<1>2. QED
  BY <1>1 DEF RunInv, WatermarkInv, RunDocInv, RunFetchInv, RunRetryInv, WatermarkCovers,
     Fetching, Writing

\* The watermark never passes a reading.  For an upstream whose readings settle
\* within the span that every run reads again, or that publishes each at its
\* instant: whatever fails, is retried from a stale document, or runs
\* concurrently, every published reading between the reach of the first run and
\* the watermark is in InfluxDB, was refused by the counter guard, or was in a
\* batch that failed beside one that was written.
THEOREM WatermarkSafety == SourceSettles => (Spec => []WatermarkCovers)
<1> SUFFICES ASSUME SourceSettles PROVE Spec => []WatermarkCovers
  OBVIOUS
<1>1. Init => HoldInv /\ RunInv
  BY HoldInit, RunInvInit
<1>2. HoldInv /\ RunInv /\ [Next]_vars => (HoldInv /\ RunInv)'
  BY HoldStep, RunInvStep
<1>3. RunInv => WatermarkCovers
  BY DEF RunInv
<1>4. QED
  BY <1>1, <1>2, <1>3, PTL DEF Spec

-------------------------------------------------------------------------------
(* The walk of the cursor backfill.                                        *)

\* WalkedTo(lo) in the next state, for an lo that does not change.
WalkedToNext(lo) ==
  /\ watermark' # 0 /\ HistoryStart <= lo
  /\ \A r \in Reading : source'[r] > 0 /\ lo < Stamp[r] /\ Stamp[r] <= base' => Kept(r)'

\* Once there is a watermark its base is fixed, and nothing is published any
\* more between the start of history and that base.
LEMMA BaseIsFixed ==
  ASSUME HoldInv, RunInv, watermark # 0, [Next]_vars
  PROVE  /\ watermark' # 0 /\ base' = base
         /\ \A r \in Reading :
              source'[r] > 0 /\ HistoryStart < Stamp[r] /\ Stamp[r] <= base => source[r] > 0
<1>t. "run" \in Task /\ TypeOK /\ PublishedInv /\ TaskInv("run")
  BY DEF HoldInv, Task
<1>1. CASE Upstream
  <2>1. PICK q \in Reading : Publish(q)
    BY <1>1 DEF Upstream
  <2>2. /\ clock <= Stamp[q] + MaxLate
        /\ \A r \in Reading : source'[r] > 0 /\ ~(source[r] > 0) => r = q
    BY <2>1 DEF Publish, HoldInv, TypeOK
  <2>3. base = HistoryStart \/ base + MaxLate < clock
    BY DEF RunInv, WatermarkInv
  <2>4. UNCHANGED <<watermark, base>>
    BY <1>1 DEF Upstream, runVars
  <2>5. ASSUME NEW r \in Reading, source'[r] > 0, HistoryStart < Stamp[r], Stamp[r] <= base
        PROVE  source[r] > 0
    <3>1. r # q
      BY <2>2, <2>3, <2>5, RunTypes
    <3>2. QED
      BY <2>2, <2>5, <3>1
  <2>6. QED
    BY <2>4, <2>5
<1>2. ASSUME UNCHANGED <<source, watermark, base>>
      PROVE  /\ watermark' # 0 /\ base' = base
             /\ \A r \in Reading :
                  source'[r] > 0 /\ HistoryStart < Stamp[r] /\ Stamp[r] <= base => source[r] > 0
  BY <1>2
<1>3. CASE Time \/ UNCHANGED vars \/ \E t \in Task : WriteOnly(t)
  BY <1>2, <1>3 DEF Time, Tick, vars, WriteOnly, sourceVars, runVars
<1>4. CASE RunAdvance
  <2>1. CASE Advances(Newest)
    <3>1. Newest \in Nat /\ Newest > runDoc
      BY <1>t, <2>1, NewestType DEF Advances
    <3>2. Newest # 0
      BY <3>1, RunTypes
    <3>3. watermark' = Newest /\ base' = base /\ source' = source
      BY <1>4, <2>1 DEF RunAdvance, sourceVars
    <3>4. QED
      BY <3>2, <3>3
  <2>2. CASE ~Advances(Newest)
    BY <1>2, <1>4, <2>2 DEF RunAdvance, sourceVars
  <2>3. QED
    BY <2>1, <2>2
<1>5. CASE RunLoad \/ RunBegin \/ RunFetch \/ RunFetched \/ RunFinish \/ RunFails
  BY <1>2, <1>5 DEF RunLoad, RunBegin, RunFetch, RunFetched, RunFinish, RunFails, sourceVars, runVars
<1>6. CASE WalkOwn
  BY <1>2, <1>6 DEF WalkOwn, BackfillLoad, BackfillSkip, BackfillBegin, BackfillFetch,
     BackfillReachesFloor, BackfillLoopEnds, BackfillWritten, BackfillSave, BackfillFinish,
     BackfillFails, sourceVars, runVars
<1>7. CASE PassOwn
  BY <1>2, <1>7 DEF PassOwn, PassLoad, PassBegin, PassFetch, PassWritten, PassEnds, PassFinish,
     PassFails, sourceVars, runVars
<1>8. QED
  BY <1>1, <1>3, <1>4, <1>5, <1>6, <1>7, StepCases DEF RunOwn

LEMMA WalkedToStep ==
  ASSUME HoldInv, RunInv, [Next]_vars
  PROVE  \A lo \in Nat : WalkedTo(lo) => WalkedToNext(lo)
<1> SUFFICES ASSUME NEW lo \in Nat, WalkedTo(lo) PROVE WalkedToNext(lo)
  OBVIOUS
<1>1. /\ watermark' # 0 /\ base' = base
      /\ \A r \in Reading :
           source'[r] > 0 /\ HistoryStart < Stamp[r] /\ Stamp[r] <= base => source[r] > 0
  BY BaseIsFixed DEF WalkedTo
<1>2. \A r \in Reading : Kept(r) => Kept(r)'
  BY HoldStep, KeptGrows
<1>3. ASSUME NEW r \in Reading, source'[r] > 0, lo < Stamp[r], Stamp[r] <= base
      PROVE  Kept(r)'
  <2>1. HistoryStart < Stamp[r]
    BY <1>3, RunTypes DEF WalkedTo
  <2>2. QED
    BY <1>1, <1>2, <1>3, <2>1 DEF WalkedTo, LowCovered
<1>4. QED
  BY <1>1, <1>3 DEF WalkedTo, WalkedToNext

\* Types, as the walk needs them.
LEMMA WalkTypes ==
  ASSUME HoldInv
  PROVE  /\ cursor \in Nat /\ doneAt \in Nat /\ bfCursor \in Nat /\ bfFrom \in Nat
         /\ bfDoc.cursor \in Nat /\ bfDoc.watermark \in Nat
         /\ Floor \in Nat /\ Floor # 0 /\ HistoryStart <= Floor /\ BackfillWindow \in Nat
         /\ LowerBound(bfCursor) \in Nat /\ Floor <= LowerBound(bfCursor)
<1>1. bfCursor \in Nat
  BY DEF HoldInv, TypeOK, Instant
<1>2. LowerBound(bfCursor) \in Nat /\ Floor <= LowerBound(bfCursor)
  BY <1>1, ConstantTypes DEF LowerBound
<1>3. QED
  BY <1>2, ConstantTypes DEF HoldInv, TypeOK, Instant

LEMMA CursorTransfer ==
  ASSUME HoldInv, RunInv, CursorInv, [Next]_vars, UNCHANGED <<cursor, doneAt, bfDoc>>
  PROVE  CursorInv'
<1>1. \A lo \in Nat : WalkedTo(lo) => WalkedToNext(lo)
  BY WalkedToStep
<1>2. cursor # 0 => WalkedToNext(cursor')
  BY <1>1, WalkTypes DEF CursorInv
<1>3. doneAt # 0 => WalkedToNext(doneAt')
  BY <1>1, WalkTypes DEF CursorInv
<1>4. bfDoc.cursor # 0 => WalkedToNext(bfDoc'.cursor)
  BY <1>1, WalkTypes DEF CursorInv
<1>5. bfDoc.watermark # 0 => watermark' # 0 /\ base' = base /\ base <= bfDoc.watermark
  BY BaseIsFixed DEF CursorInv
<1>6. QED
  BY <1>2, <1>3, <1>4, <1>5 DEF CursorInv, WalkedTo, LowCovered, WalkedToNext

\* What WalkInv says of a place of the walk, in terms of the walk's variables.
LEMMA WalkTransfer ==
  ASSUME HoldInv, RunInv, WalkInv, [Next]_vars, UNCHANGED <<bfCursor, bfFrom, bfDry>>,
         samples'["backfill"] = samples["backfill"],
         \/ pc'["backfill"] = pc["backfill"]
         \/ pc["backfill"] \in Writing /\ pc'["backfill"] \in Writing
         \/ pc'["backfill"] \in {"idle", "ready", "finished"}
         \/ pc["backfill"] = "fetch" /\ pc'["backfill"] = "save"
  PROVE  WalkInv'
<1> SUFFICES ASSUME BackfillMode = "cursor" PROVE WalkInv'
  BY DEF WalkInv
<1>1. ASSUME pc'["backfill"] \in Fetching \cup {"save"}
      PROVE  /\ bfCursor # 0 /\ watermark' # 0 /\ HistoryStart <= bfCursor
             /\ ~bfDry => WalkedToNext(bfCursor)
  <2>1. pc["backfill"] \in Fetching \cup {"save"}
    BY <1>1 DEF Fetching, Writing
  <2>2. /\ bfCursor # 0 /\ watermark # 0 /\ HistoryStart <= bfCursor
        /\ ~bfDry => LowCovered(bfCursor)
    BY <2>1 DEF WalkInv
  <2>3. QED
    BY <2>2, BaseIsFixed, WalkedToStep, WalkTypes DEF WalkedTo
<1>2. ASSUME pc'["backfill"] \in Writing
      PROVE  /\ ~bfDry /\ bfFrom # 0 /\ HistoryStart <= bfFrom
             /\ \A r \in Reading :
                  source'[r] > 0 /\ bfFrom < Stamp[r] /\ Stamp[r] <= bfCursor /\ Stamp[r] <= base'
                    => samples["backfill"][r] > 0
  <2>1. pc["backfill"] \in Writing
    BY <1>2 DEF Writing
  <2>2. /\ ~bfDry /\ bfFrom # 0 /\ HistoryStart <= bfFrom /\ watermark # 0
        /\ \A r \in Reading :
             source[r] > 0 /\ bfFrom < Stamp[r] /\ Stamp[r] <= bfCursor /\ Stamp[r] <= base
               => samples["backfill"][r] > 0
    BY <2>1 DEF WalkInv, Fetching
  <2>3. /\ base' = base
        /\ \A r \in Reading :
             source'[r] > 0 /\ HistoryStart < Stamp[r] /\ Stamp[r] <= base => source[r] > 0
    BY <2>2, BaseIsFixed
  <2>4. \A r \in Reading : bfFrom < Stamp[r] => HistoryStart < Stamp[r]
    BY <2>2, RunTypes, WalkTypes
  <2>5. QED
    BY <2>2, <2>3, <2>4
<1>3. QED
  BY <1>1, <1>2 DEF WalkInv, WalkedToNext, LowCovered

LEMMA WalkOwnFrame ==
  ASSUME HoldInv, RunInv, CursorInv, WalkInv, [Next]_vars, WalkOwn,
         \/ BackfillSkip \/ BackfillReachesFloor \/ BackfillLoopEnds
         \/ BackfillFinish \/ BackfillFails \/ \E dry \in BOOLEAN : BackfillLoad(watermark, dry)
  PROVE  CursorInv' /\ WalkInv'
<1>t. pc \in [Task -> PC] /\ "backfill" \in Task
  BY DEF HoldInv, TypeOK, Task
<1>1. CASE BackfillSkip \/ BackfillReachesFloor \/ BackfillLoopEnds
  <2>1. /\ UNCHANGED <<cursor, doneAt, bfDoc, bfCursor, bfFrom, bfDry, samples>>
        /\ \/ pc'["backfill"] = "finished"
           \/ pc["backfill"] = "fetch" /\ pc'["backfill"] = "save"
    BY <1>1, <1>t DEF BackfillSkip, BackfillReachesFloor, BackfillLoopEnds, Goto, backfillVars,
       backfillState, backfillLocals
  <2>2. QED
    BY <2>1, CursorTransfer, WalkTransfer
<1>2. CASE BackfillFinish \/ BackfillFails
  <2>1. /\ UNCHANGED <<cursor, doneAt>>
        /\ pc'["backfill"] \in {"idle", "ready"}
        /\ bfDoc' = bfDoc \/ bfDoc' = NoDoc
    BY <1>2, <1>t DEF BackfillFinish, BackfillFails, Goto, backfillState
  <2>2. WalkInv'
    BY <2>1 DEF WalkInv, Fetching, Writing
  <2>3. CASE bfDoc' = bfDoc
    BY <2>1, <2>2, <2>3, CursorTransfer
  <2>4. CASE bfDoc' = NoDoc
    <3>1. \A lo \in Nat : WalkedTo(lo) => WalkedToNext(lo)
      BY WalkedToStep
    <3>2. cursor # 0 => WalkedToNext(cursor')
      BY <2>1, <3>1, WalkTypes DEF CursorInv
    <3>3. doneAt # 0 => WalkedToNext(doneAt')
      BY <2>1, <3>1, WalkTypes DEF CursorInv
    <3>4. bfDoc'.cursor = 0 /\ bfDoc'.watermark = 0
      BY <2>4 DEF NoDoc
    <3>5. QED
      BY <2>1, <2>2, <3>2, <3>3, <3>4 DEF CursorInv, WalkedTo, LowCovered, WalkedToNext
  <2>5. QED
    BY <2>1, <2>3, <2>4
<1>3. ASSUME NEW dry \in BOOLEAN, BackfillLoad(watermark, dry) PROVE CursorInv' /\ WalkInv'
  <2>1. /\ UNCHANGED <<cursor, doneAt, watermark, base>>
        /\ pc'["backfill"] = "ready"
        /\ bfDoc'.cursor = cursor /\ bfDoc'.watermark = watermark
    BY <1>3, <1>t DEF BackfillLoad, Goto, backfillState, WalkOwn, runVars
  <2>2. WalkInv'
    BY <2>1 DEF WalkInv, Fetching, Writing
  <2>3. \A lo \in Nat : WalkedTo(lo) => WalkedToNext(lo)
    BY WalkedToStep
  <2>4. cursor # 0 => WalkedToNext(cursor')
    BY <2>1, <2>3, WalkTypes DEF CursorInv
  <2>5. doneAt # 0 => WalkedToNext(doneAt')
    BY <2>1, <2>3, WalkTypes DEF CursorInv
  <2>6. watermark # 0 => base <= watermark
    BY DEF RunInv, WatermarkInv
  <2>7. QED
    BY <2>1, <2>2, <2>4, <2>5, <2>6 DEF CursorInv, WalkedTo, LowCovered, WalkedToNext
<1>4. QED
  BY <1>1, <1>2, <1>3

LEMMA WalkBegin ==
  ASSUME HoldInv, RunInv, CursorInv, WalkInv, [Next]_vars, WalkOwn, BackfillBegin
  PROVE  CursorInv' /\ WalkInv'
<1>t. pc \in [Task -> PC] /\ "backfill" \in Task
  BY DEF HoldInv, TypeOK, Task
<1>1. /\ bfDoc.watermark # 0 /\ pc'["backfill"] = "fetch"
      /\ bfCursor' = IF bfDoc.cursor # 0 THEN bfDoc.cursor ELSE bfDoc.watermark
      /\ UNCHANGED <<cursor, doneAt, bfDoc, watermark, base, source, stored, rejected, dropped>>
  BY <1>t DEF BackfillBegin, Goto, backfillState, WalkOwn, runVars, sourceVars, storeVars,
     historyVars
<1>2. CursorInv'
  BY <1>1, CursorTransfer
<1>3. watermark # 0 /\ base <= bfDoc.watermark /\ HistoryStart <= base
  BY <1>1 DEF CursorInv, RunInv, WatermarkInv
<1>4. bfCursor' # 0 /\ HistoryStart <= bfCursor' /\ LowCovered(bfCursor')
  <2>1. CASE bfDoc.cursor # 0
    BY <1>1, <2>1 DEF CursorInv, WalkedTo
  <2>2. CASE bfDoc.cursor = 0
    <3>1. \A r \in Reading : ~(bfDoc.watermark < Stamp[r] /\ Stamp[r] <= base)
      BY <1>3, RunTypes, WalkTypes
    <3>2. QED
      BY <1>1, <1>3, <2>2, <3>1, RunTypes, WalkTypes DEF LowCovered
  <2>3. QED
    BY <2>1, <2>2
<1>5. LowCovered(bfCursor)'
  BY <1>1, <1>4 DEF LowCovered, Kept
<1>6. WalkInv'
  BY <1>1, <1>3, <1>4, <1>5 DEF WalkInv, Writing
<1>7. QED
  BY <1>2, <1>6

LEMMA WalkFetch ==
  ASSUME HoldInv, RunInv, CursorInv, WalkInv, [Next]_vars, WalkOwn, BackfillFetch
  PROVE  CursorInv' /\ WalkInv'
<1>t. /\ pc \in [Task -> PC] /\ "backfill" \in Task /\ samples \in [Task -> [Reading -> Version]]
      /\ BackfillMode = "cursor"
  BY DEF HoldInv, TypeOK, Task, WalkOwn
<1>1. /\ pc["backfill"] = "fetch"
      /\ UNCHANGED <<cursor, doneAt, bfDoc, bfDry, watermark, base, clock, source>>
  BY DEF BackfillFetch, backfillState, WalkOwn, runVars, sourceVars
<1>2. CursorInv'
  BY <1>1, CursorTransfer
<1>3. /\ bfCursor # 0 /\ watermark # 0 /\ HistoryStart <= bfCursor
      /\ ~bfDry => LowCovered(bfCursor)
  BY <1>1, <1>t DEF WalkInv, Fetching
<1>4. \A r \in Reading : Kept(r) => Kept(r)'
  BY HoldStep, KeptGrows
<1> DEFINE a == LowerBound(bfCursor)
<1>5. a \in Nat /\ a # 0 /\ HistoryStart <= a
  BY WalkTypes, RunTypes
<1>6. PICK inclusive \in BOOLEAN :
        LET got == KeepWalkingBack(Fetch(a, bfCursor, inclusive), bfCursor) IN
        \/ /\ Present(got) = {}
           /\ bfCursor' = a
           /\ UNCHANGED taskVars
        \/ /\ bfDry
           /\ bfCursor' = a
           /\ UNCHANGED taskVars
        \/ /\ ~bfDry
           /\ bfFrom' = a
           /\ BeginWrite("backfill", got)
           /\ UNCHANGED bfCursor
  BY DEF BackfillFetch
<1> HIDE DEF a
<1> DEFINE got == KeepWalkingBack(Fetch(a, bfCursor, inclusive), bfCursor)
<1>7. \A r \in Reading : source[r] > 0 /\ a < Stamp[r] /\ Stamp[r] <= bfCursor => got[r] > 0
  <2>1. TypeOK /\ bfCursor \in Nat
    BY WalkTypes DEF HoldInv
  <2>2. \A r \in Reading : source[r] > 0 /\ a < Stamp[r] /\ Stamp[r] <= bfCursor =>
          Fetch(a, bfCursor, inclusive)[r] = source[r]
    BY <1>5, <2>1, FetchType
  <2>3. QED
    BY <2>2 DEF KeepWalkingBack, KeepAtCursor
<1> HIDE DEF got
<1>8. CASE Present(got) = {} /\ bfCursor' = a /\ UNCHANGED taskVars
  <2>1. pc'["backfill"] = "fetch"
    BY <1>1, <1>8 DEF taskVars
  <2>2. ASSUME ~bfDry, NEW r \in Reading, source[r] > 0, a < Stamp[r], Stamp[r] <= base
        PROVE  Kept(r)'
    <3>1. ~(Stamp[r] <= bfCursor)
      BY <2>2, <1>7, <1>8 DEF Present
    <3>2. QED
      BY <2>2, <3>1, <1>3, <1>4, RunTypes, WalkTypes DEF LowCovered
  <2>3. WalkInv'
    BY <1>1, <1>3, <1>5, <1>8, <2>1, <2>2 DEF WalkInv, Writing, LowCovered
  <2>4. QED
    BY <1>2, <2>3
<1>9. CASE bfDry /\ bfCursor' = a /\ UNCHANGED taskVars
  <2>1. pc'["backfill"] = "fetch"
    BY <1>1, <1>9 DEF taskVars
  <2>2. WalkInv'
    BY <1>1, <1>3, <1>5, <1>9, <2>1 DEF WalkInv, Writing
  <2>3. QED
    BY <1>2, <2>2
<1>10. CASE ~bfDry /\ bfFrom' = a /\ BeginWrite("backfill", got) /\ UNCHANGED bfCursor
  <2>1. samples'["backfill"] = got /\ pc'["backfill"] = "write"
    BY <1>10, <1>t DEF BeginWrite, Goto
  <2>2. LowCovered(bfCursor)'
    BY <1>1, <1>3, <1>4, <1>10 DEF LowCovered
  <2>3. WalkInv'
    BY <1>1, <1>3, <1>5, <1>7, <1>10, <2>1, <2>2 DEF WalkInv
  <2>4. QED
    BY <1>2, <2>3
<1>11. QED
  BY <1>6, <1>8, <1>9, <1>10 DEF got

LEMMA WalkWritten ==
  ASSUME HoldInv, RunInv, CursorInv, WalkInv, [Next]_vars, WalkOwn, BackfillWritten
  PROVE  CursorInv' /\ WalkInv'
<1>t. pc \in [Task -> PC] /\ "backfill" \in Task /\ BackfillMode = "cursor"
  BY DEF HoldInv, TypeOK, Task, WalkOwn
<1>1. /\ pc["backfill"] = "written"
      /\ pc'["backfill"] = (IF written["backfill"] # {} THEN "fetch" ELSE "save")
      /\ bfCursor' = (IF written["backfill"] # {} THEN bfFrom ELSE bfCursor)
      /\ UNCHANGED <<cursor, doneAt, bfDoc, bfDry, watermark, base, clock, source>>
  BY <1>t DEF BackfillWritten, CursorAfter, Goto, backfillState, WalkOwn, runVars, sourceVars
<1>2. CursorInv'
  BY <1>1, CursorTransfer
<1>3. /\ bfCursor # 0 /\ watermark # 0 /\ HistoryStart <= bfCursor /\ LowCovered(bfCursor)
      /\ ~bfDry /\ bfFrom # 0 /\ HistoryStart <= bfFrom
      /\ \A r \in Reading :
           source[r] > 0 /\ bfFrom < Stamp[r] /\ Stamp[r] <= bfCursor /\ Stamp[r] <= base
             => samples["backfill"][r] > 0
  BY <1>1, <1>t DEF WalkInv, Fetching, Writing
<1>4. \A r \in Reading : Kept(r) => Kept(r)'
  BY HoldStep, KeptGrows
<1>5. CASE written["backfill"] # {}
  <2>1. \A r \in Reading : samples["backfill"][r] > 0 => Kept(r)
    <3>1. TaskInv("backfill")
      BY <1>t DEF HoldInv
    <3>2. QED
      BY <1>1, <1>5, <3>1 DEF TaskInv, Writing, Present, Kept
  <2>2. ASSUME NEW r \in Reading, source[r] > 0, bfFrom < Stamp[r], Stamp[r] <= base
        PROVE  Kept(r)
    <3>1. CASE Stamp[r] <= bfCursor
      BY <2>1, <2>2, <3>1, <1>3
    <3>2. CASE ~(Stamp[r] <= bfCursor)
      BY <2>2, <3>2, <1>3, RunTypes, WalkTypes DEF LowCovered
    <3>3. QED
      BY <3>1, <3>2
  <2>3. LowCovered(bfCursor)'
    BY <1>1, <1>4, <1>5, <2>2 DEF LowCovered
  <2>4. WalkInv'
    BY <1>1, <1>3, <1>5, <2>3 DEF WalkInv, Writing
  <2>5. QED
    BY <1>2, <2>4
<1>6. CASE written["backfill"] = {}
  <2>1. LowCovered(bfCursor)'
    BY <1>1, <1>3, <1>4, <1>6 DEF LowCovered
  <2>2. WalkInv'
    BY <1>1, <1>3, <1>6, <2>1 DEF WalkInv, Writing
  <2>3. QED
    BY <1>2, <2>2
<1>7. QED
  BY <1>5, <1>6

LEMMA WalkSave ==
  ASSUME HoldInv, RunInv, CursorInv, WalkInv, [Next]_vars, WalkOwn, BackfillSave
  PROVE  CursorInv' /\ WalkInv'
<1>t. pc \in [Task -> PC] /\ "backfill" \in Task /\ BackfillMode = "cursor"
  BY DEF HoldInv, TypeOK, Task, WalkOwn
<1>1. /\ pc["backfill"] = "save" /\ pc'["backfill"] = "finished"
      /\ UNCHANGED <<bfDoc, watermark, base>>
      /\ \/ UNCHANGED <<cursor, doneAt>>
         \/ ~bfDry /\ cursor' = bfCursor /\ (doneAt' = bfCursor \/ doneAt' = doneAt)
  BY <1>t DEF BackfillSave, Persists, Goto, backfillState, backfillLocals, WalkOwn, runVars
<1>2. WalkInv'
  BY <1>1 DEF WalkInv, Fetching, Writing
<1>3. CASE UNCHANGED <<cursor, doneAt>>
  BY <1>1, <1>2, <1>3, CursorTransfer
<1>4. CASE ~bfDry /\ cursor' = bfCursor /\ (doneAt' = bfCursor \/ doneAt' = doneAt)
  <2>1. \A lo \in Nat : WalkedTo(lo) => WalkedToNext(lo)
    BY WalkedToStep
  <2>2. WalkedTo(bfCursor)
    BY <1>1, <1>4, <1>t DEF WalkInv, Fetching, WalkedTo
  <2>3. WalkedToNext(cursor')
    BY <1>4, <2>1, <2>2, WalkTypes
  <2>4. doneAt' # 0 => WalkedToNext(doneAt')
    BY <1>4, <2>1, <2>2, WalkTypes DEF CursorInv
  <2>5. bfDoc.cursor # 0 => WalkedToNext(bfDoc'.cursor)
    BY <1>1, <2>1, WalkTypes DEF CursorInv
  <2>6. bfDoc.watermark # 0 => watermark' # 0 /\ base' <= bfDoc'.watermark
    BY <1>1 DEF CursorInv
  <2>7. QED
    BY <1>1, <1>2, <2>3, <2>4, <2>5, <2>6 DEF CursorInv, WalkedTo, LowCovered, WalkedToNext
<1>5. QED
  BY <1>1, <1>3, <1>4

LEMMA WriteFromWalk ==
  ASSUME HoldInv, NEW t \in Task, WriteOnly(t)
  PROVE  /\ samples'["backfill"] = samples["backfill"]
         /\ \/ pc'["backfill"] = pc["backfill"]
            \/ pc["backfill"] \in Writing /\ pc'["backfill"] \in Writing
<1>1. pc \in [Task -> PC] /\ "backfill" \in Task
  BY DEF HoldInv, TypeOK, Task
<1>2. QED
  BY <1>1 DEF WriteOnly, WriteStep, WriteBatch, WriteBatchFails, EndBatches, SummaryGet,
     SummaryPatch, EndWrite, Goto, Writing

LEMMA WalkStep ==
  ASSUME HoldInv, RunInv, CursorInv, WalkInv, [Next]_vars
  PROVE  CursorInv' /\ WalkInv'
<1> USE DEF backfillVars, backfillState, backfillLocals
<1>1. CASE Upstream \/ Time \/ UNCHANGED vars
  BY <1>1, CursorTransfer, WalkTransfer DEF Upstream, Time, vars, writeVars, taskVars
<1>2. ASSUME NEW t \in Task, WriteOnly(t) PROVE CursorInv' /\ WalkInv'
  <2>1. UNCHANGED <<cursor, doneAt, bfDoc, bfCursor, bfFrom, bfDry>>
    BY <1>2 DEF WriteOnly
  <2>2. QED
    BY <1>2, <2>1, WriteFromWalk, CursorTransfer, WalkTransfer
<1>3. CASE RunOwn
  <2>1. UNCHANGED <<cursor, doneAt, bfDoc, bfCursor, bfFrom, bfDry>>
    BY <1>3 DEF RunOwn
  <2>2. TaskFrame("backfill")
    BY <1>3, RunFrame DEF HoldInv
  <2>3. QED
    BY <2>1, <2>2, CursorTransfer, WalkTransfer DEF TaskFrame
<1>4. CASE WalkOwn
  BY <1>4, WalkOwnFrame, WalkBegin, WalkFetch, WalkWritten, WalkSave DEF WalkOwn
<1>5. CASE PassOwn
  <2>1. UNCHANGED <<cursor, doneAt, bfDoc>> /\ BackfillMode # "cursor"
    BY <1>5 DEF PassOwn
  <2>2. QED
    BY <2>1, CursorTransfer DEF WalkInv
<1>6. QED
  BY <1>1, <1>2, <1>3, <1>4, <1>5, StepCases

LEMMA WalkInit == Init => CursorInv /\ WalkInv
<1> SUFFICES ASSUME Init PROVE CursorInv /\ WalkInv
  OBVIOUS
<1>1. cursor = 0 /\ doneAt = 0 /\ bfDoc.cursor = 0 /\ bfDoc.watermark = 0 /\ pc["backfill"] = "idle"
  BY DEF Init, WriteInit, BackfillInit, NoDoc, Task
<1>2. QED
  BY <1>1 DEF CursorInv, WalkInv, Fetching, Writing

\* What the walk covered below base, and the run above it, meet.
LEMMA CoversMeet ==
  ASSUME HoldInv, RunInv, NEW lo \in Nat, WalkedTo(lo)
  PROVE  Covered(lo, Settled)
<1> SUFFICES ASSUME NEW r \in Reading, source[r] > 0, lo < Stamp[r], Stamp[r] <= Settled
             PROVE  Kept(r)
  BY DEF Covered
<1>1. CASE Stamp[r] <= base
  BY <1>1 DEF WalkedTo, LowCovered
<1>2. CASE ~(Stamp[r] <= base)
  <2>1. base < Stamp[r]
    BY <1>2, RunTypes
  <2>2. QED
    BY <2>1 DEF WalkedTo, RunInv, WatermarkCovers, Covered
<1>3. QED
  BY <1>1, <1>2

\* The conjunction of all of it, which every step preserves.
THEOREM InductiveInvariant == SourceSettles => (Spec => []IInv)
<1> SUFFICES ASSUME SourceSettles PROVE Spec => []IInv
  OBVIOUS
<1>1. IInv <=> HoldInv /\ RunInv /\ CursorInv /\ WalkInv
  BY DEF IInv, HoldInv, RunInv
<1>2. IInv' <=> HoldInv' /\ RunInv' /\ CursorInv' /\ WalkInv'
  BY DEF IInv, HoldInv, RunInv
<1>3. Init => IInv
  BY <1>1, HoldInit, RunInvInit, WalkInit
<1>4. IInv /\ [Next]_vars => IInv'
  BY <1>1, <1>2, HoldStep, RunInvStep, WalkStep
<1>5. QED
  BY <1>3, <1>4, PTL DEF Spec

\* The cursor backfill leaves nothing behind: between its cursor, or the mark it
\* was declared done at, and the watermark nothing published is missing, however
\* its runs fail, retry from stale documents, stop at a window that could not be
\* written, and interleave with the live run.
THEOREM BackfillSafety == SourceSettles => (Spec => []BackfillCovers)
<1> SUFFICES ASSUME SourceSettles PROVE Spec => []BackfillCovers
  OBVIOUS
<1>1. IInv => BackfillCovers
  <2>1. IInv => HoldInv /\ RunInv /\ CursorInv
    BY DEF IInv, HoldInv, RunInv
  <2>2. QED
    BY <2>1, CoversMeet, WalkTypes DEF BackfillCovers, CursorInv
<1>2. Spec => []IInv
  BY InductiveInvariant
<1>3. QED
  BY <1>1, <1>2, PTL
===============================================================================
