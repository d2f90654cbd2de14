------------------------------ MODULE MarkProofs ------------------------------
(***************************************************************************)
(* Theorems on what the two tasks of a Device leave behind: the marks in   *)
(* Orion-LD others read (the watermark and the summaries only move         *)
(* forward, a summary is backed by a reading in InfluxDB and is up to      *)
(* date, the backfill is done only where its windows were empty), and what *)
(* a stateless pass or a run that reads a span again leaves in InfluxDB.   *)
(***************************************************************************)
EXTENDS PipelineProofs

-------------------------------------------------------------------------------
(* Summaries.                                                              *)

InStore(r) == stored[r] > 0 \/ r \in dropped

\* While a task has a summary to refresh, what it accepted is stored, but for
\* failed batches of a call that wrote another.
BackedInv(t) == pc[t] = "patch" \/ toRefresh[t] # {} => \A r \in accepted[t] : InStore(r)

SummaryInv == SummaryIsBacked /\ \A t \in Task : BackedInv(t)

LEMMA InStoreGrows ==
  ASSUME StoreGrows
  PROVE  \A r \in Reading : InStore(r) => InStore(r)'
BY DEF StoreGrows, InStore

LEMMA BackedKept ==
  ASSUME NEW t \in Task, TypeOK, StoreGrows, BackedInv(t), accepted'[t] = accepted[t],
         pc'[t] = "patch" \/ toRefresh'[t] # {} => pc[t] = "patch" \/ toRefresh[t] # {}
  PROVE  BackedInv(t)'
<1>1. accepted[t] \subseteq Reading
  BY DEF TypeOK
<1>2. QED
  BY <1>1, InStoreGrows DEF BackedInv

LEMMA SummaryKept ==
  ASSUME TypeOK, StoreGrows, SummaryIsBacked, lastReadingAt' = lastReadingAt
  PROVE  SummaryIsBacked'
BY InStoreGrows DEF SummaryIsBacked, InStore

\* The steps of a task outside the write path refresh nothing, and leave nothing
\* to refresh that was not there.
Quiet(t) ==
  /\ lastReadingAt' = lastReadingAt
  /\ pc'[t] # "patch"
  /\ toRefresh'[t] = {} \/ (toRefresh'[t] = toRefresh[t] /\ accepted'[t] = accepted[t])

LEMMA QuietKeeps ==
  ASSUME HoldInv, StoreGrows, SummaryInv, NEW t \in Task, Quiet(t),
         \A u \in Task \ {t} : TaskFrame(u)
  PROVE  SummaryInv'
<1>1. BackedInv(t)'
  <2>1. CASE toRefresh'[t] = {}
    BY <2>1 DEF BackedInv, Quiet
  <2>2. CASE toRefresh'[t] = toRefresh[t] /\ accepted'[t] = accepted[t]
    BY <2>2, BackedKept DEF SummaryInv, HoldInv, Quiet
  <2> QED
    BY <2>1, <2>2 DEF Quiet
<1>2. ASSUME NEW u \in Task \ {t} PROVE BackedInv(u)'
  BY <1>2, BackedKept DEF SummaryInv, HoldInv, TaskFrame
<1> QED
  BY <1>1, <1>2, SummaryKept DEF SummaryInv, HoldInv, Quiet

\* _write begins with nothing to refresh.
LEMMA BeginWriteQuiet ==
  ASSUME TypeOK, NEW t \in Task, TaskInv(t), pc[t] = "fetch", NEW batch, BeginWrite(t, batch)
  PROVE  Quiet(t)
<1>1. toRefresh[t] = {}
  BY DEF TaskInv, PropertiesOf
<1>2. pc'[t] = "write" /\ toRefresh' = toRefresh /\ lastReadingAt' = lastReadingAt
  BY DEF BeginWrite, Goto, TypeOK, storeVars
<1> QED
  BY <1>1, <1>2 DEF Quiet

LEMMA ForgetQuiet ==
  ASSUME TypeOK, NEW t \in Task, Forget(t), UNCHANGED storeVars, pc'[t] # "patch"
  PROVE  Quiet(t)
BY DEF TypeOK, Forget, storeVars, Quiet

LEMMA RunQuiet ==
  ASSUME HoldInv, RunOwn
  PROVE  Quiet("run")
<1>t. TypeOK /\ TaskInv("run") /\ "run" \in Task /\ pc \in [Task -> PC]
  BY DEF HoldInv, TypeOK, Task
<1>1. CASE RunLoad \/ RunBegin \/ RunFetch \/ RunAdvance
  BY <1>t, <1>1 DEF RunLoad, RunBegin, RunFetch, RunAdvance, Goto, storeVars, Quiet
<1>2. CASE RunFetched
  <2>1. CASE Present(samples["run"]) = {}
    BY <1>t, <1>2, <2>1 DEF RunFetched, Goto, storeVars, Quiet
  <2>2. CASE Present(samples["run"]) # {}
    BY <1>t, <1>2, <2>2, BeginWriteQuiet DEF RunFetched
  <2> QED
    BY <2>1, <2>2
<1>3. CASE RunFinish \/ RunFails
  <2>1. pc'["run"] # "patch"
    BY <1>t, <1>3 DEF RunFinish, RunFails, Goto
  <2> QED
    BY <1>t, <1>3, <2>1, ForgetQuiet DEF RunFinish, RunFails, RunForget
<1> QED
  BY <1>1, <1>2, <1>3 DEF RunOwn

LEMMA WalkQuiet ==
  ASSUME HoldInv, WalkOwn
  PROVE  Quiet("backfill")
<1>t. TypeOK /\ TaskInv("backfill") /\ "backfill" \in Task /\ pc \in [Task -> PC]
  BY DEF HoldInv, TypeOK, Task
<1>1. CASE \/ \E dry \in BOOLEAN : BackfillLoad(watermark, dry)
           \/ BackfillSkip \/ BackfillBegin \/ BackfillReachesFloor \/ BackfillLoopEnds
           \/ BackfillSave
  BY <1>t, <1>1 DEF BackfillLoad, BackfillSkip, BackfillBegin, BackfillReachesFloor,
     BackfillLoopEnds, BackfillSave, Goto, storeVars, Quiet
<1>2. CASE BackfillFetch
  <2>1. \/ \E batch : BeginWrite("backfill", batch)
        \/ UNCHANGED <<storeVars, taskVars>>
    BY <1>2 DEF BackfillFetch
  <2>2. pc["backfill"] = "fetch"
    BY <1>2 DEF BackfillFetch
  <2>3. CASE UNCHANGED <<storeVars, taskVars>>
    BY <2>2, <2>3 DEF storeVars, taskVars, Quiet
  <2> QED
    BY <1>t, <2>1, <2>2, <2>3, BeginWriteQuiet
<1>3. CASE BackfillWritten \/ BackfillFinish \/ BackfillFails
  <2>1. Forget("backfill") /\ UNCHANGED storeVars
    BY <1>3 DEF BackfillWritten, BackfillFinish, BackfillFails, BackfillForget
  <2>2. pc'["backfill"] # "patch"
    BY <1>t, <1>3 DEF BackfillWritten, BackfillFinish, BackfillFails, Goto
  <2> QED
    BY <1>t, <2>1, <2>2, ForgetQuiet
<1> QED
  BY <1>1, <1>2, <1>3 DEF WalkOwn

LEMMA PassQuiet ==
  ASSUME HoldInv, PassOwn
  PROVE  Quiet("backfill")
<1>t. TypeOK /\ TaskInv("backfill") /\ "backfill" \in Task /\ pc \in [Task -> PC]
  BY DEF HoldInv, TypeOK, Task
<1>1. CASE PassLoad \/ PassBegin \/ PassEnds
  BY <1>t, <1>1 DEF PassLoad, PassBegin, PassEnds, Goto, storeVars, Quiet
<1>2. CASE PassFetch
  <2>1. (\E batch : BeginWrite("backfill", batch)) \/ UNCHANGED writeVars
    BY <1>2 DEF PassFetch
  <2>2. pc["backfill"] = "fetch"
    BY <1>2 DEF PassFetch
  <2>3. CASE UNCHANGED writeVars
    BY <2>2, <2>3 DEF writeVars, storeVars, taskVars, Quiet
  <2> QED
    BY <1>t, <2>1, <2>2, <2>3, BeginWriteQuiet
<1>3. CASE PassWritten \/ PassFinish \/ PassFails
  <2>1. Forget("backfill") /\ UNCHANGED storeVars
    BY <1>3 DEF PassWritten, PassFinish, PassFails, PassForget
  <2>2. pc'["backfill"] # "patch"
    BY <1>t, <1>3 DEF PassWritten, PassFinish, PassFails, Goto
  <2> QED
    BY <1>t, <2>1, <2>2, ForgetQuiet
<1> QED
  BY <1>1, <1>2, <1>3 DEF PassOwn

\* The write path.  EndBatches turns what was written, and what was not beside
\* it, into work for refresh_summaries; SummaryPatch advertises one of them.
LEMMA SummaryWrite ==
  ASSUME HoldInv, StoreGrows, SummaryInv, NEW t \in Task, WriteOnly(t)
  PROVE  SummaryInv'
<1> USE DEF WriteOnly, WriteStep
<1>t. TypeOK /\ TaskInv(t) /\ PublishedInv /\ BackedInv(t) /\ SummaryIsBacked /\ pc \in [Task -> PC]
  BY DEF HoldInv, SummaryInv, TypeOK
<1>o. ASSUME NEW u \in Task, u # t PROVE BackedInv(u)'
  BY <1>t, <1>o, WriteFrame, BackedKept DEF SummaryInv, TaskFrame
<1>1. CASE WriteBatch(t) \/ WriteBatchFails(t)
  <2>1. UNCHANGED <<lastReadingAt, pc, accepted, toRefresh>>
    BY <1>1 DEF WriteBatch, WriteBatchFails
  <2>2. BackedInv(t)'
    BY <1>t, <2>1, BackedKept
  <2> QED
    BY <1>t, <1>o, <2>1, <2>2, SummaryKept DEF SummaryInv
<1>2. CASE EndBatches(t)
  <2>1. /\ toRefresh'[t] # {} => written[t] # {}
        /\ written[t] # {} => dropped' = dropped \cup (accepted[t] \ written[t])
        /\ pc'[t] = "refresh"
        /\ UNCHANGED <<stored, lastReadingAt, accepted, written>>
    BY <1>t, <1>2 DEF EndBatches, SummariesToRefresh, Goto, TypeOK, storeVars
  <2>2. \A r \in written[t] : stored[r] > 0
    BY <1>t DEF TaskInv
  <2>3. BackedInv(t)'
    BY <2>1, <2>2 DEF BackedInv, InStore
  <2> QED
    BY <1>t, <1>o, <2>1, <2>3, SummaryKept DEF SummaryInv
<1>3. CASE SummaryGet(t) \/ EndWrite(t)
  <2>1. /\ UNCHANGED <<lastReadingAt, accepted, toRefresh>>
        /\ pc'[t] = "patch" => toRefresh[t] # {}
    BY <1>t, <1>3 DEF SummaryGet, EndWrite, Goto, storeVars
  <2>2. BackedInv(t)'
    BY <1>t, <2>1, BackedKept
  <2> QED
    BY <1>t, <1>o, <2>1, <2>2, SummaryKept DEF SummaryInv
<1>4. CASE SummaryPatch(t)
  <2> DEFINE p == seen[t][1]
  <2>1. /\ pc[t] = "patch"
        /\ UNCHANGED <<stored, dropped, accepted>>
        /\ \/ lastReadingAt' = [lastReadingAt EXCEPT ![p] = NewestPoint(t, p)]
           \/ UNCHANGED lastReadingAt
    BY <1>4 DEF SummaryPatch, historyVars
  <2>2. BackedInv(t)'
    BY <1>t, <2>1, BackedKept
  <2>3. PICK r \in accepted[t] : PropOf[r] = p /\ Stamp[r] = NewestPoint(t, p)
    BY <1>t, <2>1, NewestPointType DEF TaskInv
  <2>4. InStore(r) /\ r \in Reading
    BY <1>t, <2>1 DEF BackedInv, TypeOK
  <2> HIDE DEF p
  <2>5. ASSUME NEW q \in Property, lastReadingAt'[q] # 0
        PROVE  \E s \in Reading : /\ PropOf[s] = q /\ Stamp[s] = lastReadingAt'[q]
                                  /\ stored'[s] > 0 \/ s \in dropped'
    <3>1. CASE lastReadingAt'[q] = lastReadingAt[q]
      BY <1>t, <2>1, <2>5, <3>1 DEF SummaryIsBacked
    <3>2. CASE lastReadingAt'[q] # lastReadingAt[q]
      <4>1. q = p /\ lastReadingAt'[q] = NewestPoint(t, p)
        BY <1>t, <2>1, <3>2 DEF TypeOK
      <4> QED
        BY <2>1, <2>3, <2>4, <4>1 DEF InStore
    <3> QED
      BY <3>1, <3>2
  <2> QED
    BY <1>o, <2>2, <2>5 DEF SummaryInv, SummaryIsBacked
<1> QED
  BY <1>1, <1>2, <1>3, <1>4

LEMMA SummaryStep == HoldInv /\ SummaryInv /\ [Next]_vars => SummaryInv'
<1> SUFFICES ASSUME HoldInv, SummaryInv, [Next]_vars PROVE SummaryInv'
  OBVIOUS
<1>1. StoreGrows /\ TypeOK
  BY HoldStep DEF HoldInv
<1>t. Task = {"run", "backfill"}
  BY DEF Task
<1>2. CASE Upstream \/ Time \/ UNCHANGED vars
  <2>1. UNCHANGED writeVars
    BY <1>2 DEF Upstream, Time, vars
  <2>2. UNCHANGED <<lastReadingAt, pc, accepted, toRefresh>>
    BY <2>1 DEF writeVars, storeVars, taskVars
  <2> QED
    BY <1>1, <2>2, SummaryKept, BackedKept DEF SummaryInv
<1>3. ASSUME NEW t \in Task, WriteOnly(t) PROVE SummaryInv'
  BY <1>1, <1>3, SummaryWrite
<1>4. CASE RunOwn
  BY <1>1, <1>t, <1>4, RunQuiet, RunFrame, QuietKeeps
<1>5. CASE WalkOwn
  BY <1>1, <1>t, <1>5, WalkQuiet, WalkFrame, QuietKeeps
<1>6. CASE PassOwn
  BY <1>1, <1>t, <1>6, PassQuiet, PassFrame, QuietKeeps
<1> QED
  BY <1>2, <1>3, <1>4, <1>5, <1>6, StepCases

\* What a summary advertises is in InfluxDB: whichever batches, GETs and POSTs
\* failed, however many tasks refresh it and however they interleave, lastReadingAt
\* names a reading that is stored, or one whose batch failed beside another.
THEOREM BackingSafety == Spec => []SummaryIsBacked
<1>1. Init => SummaryInv
  <2> SUFFICES ASSUME Init PROVE SummaryInv
    OBVIOUS
  <2>1. lastReadingAt = [p \in Property |-> 0]
    BY DEF Init, WriteInit
  <2>2. \A t \in Task : pc[t] = "idle" /\ toRefresh[t] = {}
    BY DEF Init, WriteInit
  <2> QED
    BY <2>1, <2>2 DEF SummaryInv, SummaryIsBacked, BackedInv
<1>2. Init => HoldInv
  BY HoldInit
<1>3. HoldInv /\ SummaryInv /\ [Next]_vars => (HoldInv /\ SummaryInv)'
  BY HoldStep, SummaryStep
<1>4. SummaryInv => SummaryIsBacked
  BY DEF SummaryInv
<1> QED
  BY <1>1, <1>2, <1>3, <1>4, PTL DEF Spec

-------------------------------------------------------------------------------
(* The watermark.                                                          *)

\* The reading r the watermark stands at.  An attempt whose document is older
\* than the watermark fetches r again once its windows pass it.
Marks(r) ==
  /\ source[r] > 0 /\ Stamp[r] = watermark
  /\ pc["run"] \in Fetching /\ runDoc < watermark /\ RunReach < watermark /\ watermark <= RunUpTo
       => samples["run"][r] > 0

\* The samples of an attempt lie between its start and its end, which is not
\* before the watermark: only its own last step moves it.
AttemptInv ==
  /\ pc["run"] \in Fetching =>
       /\ runNow <= clock /\ watermark <= runNow /\ RunReach <= runFrom
       /\ \A r \in Reading : samples["run"][r] > 0 => RunReach <= Stamp[r] /\ Stamp[r] <= runNow
  /\ pc["run"] \in {"idle", "ready"} => \A r \in Reading : samples["run"][r] = 0

MarkInv ==
  /\ watermark # 0 => \E r \in Reading : Marks(r)
  /\ watermark <= clock
  /\ runDoc <= watermark
  /\ AttemptInv

\* Steps that leave the run's variables alone.
LEMMA MarkTransfer ==
  ASSUME HoldInv, MarkInv, UNCHANGED runVars, clock' \in Nat, clock <= clock',
         \A r \in Reading : source[r] > 0 => source'[r] > 0,
         samples'["run"] = samples["run"],
         pc'["run"] = pc["run"] \/ (pc["run"] \in Writing /\ pc'["run"] \in Writing)
  PROVE  MarkInv'
<1>1. UNCHANGED <<watermark, runDoc, runNow, runFrom>>
  BY DEF runVars, runLocals
<1>2. RunReach' = RunReach /\ RunUpTo' = RunUpTo
  BY <1>1 DEF RunReach, RunUpTo, Writing
<1>3. \A r \in Reading : Marks(r) => Marks(r)'
  BY <1>1, <1>2 DEF Marks, Fetching
<1>4. watermark' <= clock' /\ (pc'["run"] \in Fetching => runNow' <= clock')
  BY <1>1, RunTypes DEF MarkInv, AttemptInv, Fetching
<1>5. AttemptInv'
  BY <1>1, <1>2, <1>4 DEF MarkInv, AttemptInv, Fetching, Writing
<1> QED
  BY <1>1, <1>3, <1>4, <1>5 DEF MarkInv

LEMMA MarkUpstream ==
  ASSUME HoldInv, MarkInv, Upstream \/ Time \/ UNCHANGED vars
  PROVE  MarkInv'
<1>1. UNCHANGED <<runVars, pc, samples>>
  BY DEF Upstream, Time, vars, writeVars, taskVars
<1>2. clock' \in Nat /\ clock <= clock' /\ \A r \in Reading : source[r] > 0 => source'[r] > 0
  <2>1. clock \in Nat /\ source \in [Reading -> Version]
    BY DEF HoldInv, TypeOK
  <2>2. CASE Upstream
    BY <2>1, <2>2 DEF Upstream, Publish, Version
  <2>3. CASE Time
    BY <2>1, <2>3 DEF Time, Tick
  <2>4. CASE UNCHANGED vars
    BY <2>1, <2>4 DEF vars, sourceVars
  <2> QED
    BY <2>2, <2>3, <2>4
<1> QED
  BY <1>1, <1>2, MarkTransfer

\* A run that loads the device, begins an attempt, ends or is retried.
LEMMA MarkRunOutside ==
  ASSUME HoldInv, MarkInv, RunLoad \/ RunBegin \/ RunFinish \/ RunFails
  PROVE  MarkInv'
<1>t. pc \in [Task -> PC] /\ "run" \in Task /\ samples \in [Task -> [Reading -> Version]]
  BY DEF HoldInv, TypeOK, Task
<1>1. CASE ~RunBegin
  <2>1. /\ UNCHANGED <<clock, source, watermark>>
        /\ pc'["run"] \in {"idle", "ready"}
        /\ runDoc' \in {0, runDoc, watermark}
        /\ \A r \in Reading : samples'["run"][r] = 0
    BY <1>1, <1>t
    DEF RunLoad, RunFinish, RunFails, RunForget, Forget, Goto, Nothing, sourceVars, MarkInv,
        AttemptInv
  <2>2. \A r \in Reading : Marks(r) => Marks(r)'
    BY <2>1 DEF Marks, Fetching, Writing
  <2>3. AttemptInv'
    BY <2>1 DEF AttemptInv, Fetching, Writing
  <2> QED
    BY <2>1, <2>2, <2>3, RunTypes DEF MarkInv
<1>2. CASE RunBegin
  <2>1. /\ pc["run"] = "ready" /\ pc'["run"] = "fetch" /\ runNow' = clock
        /\ runFrom' = RunStart(runDoc, clock)
        /\ UNCHANGED <<clock, source, watermark, samples, runDoc>>
    BY <1>2, <1>t DEF RunBegin, Goto, sourceVars
  <2>2. RunReach' = runFrom' /\ RunUpTo' = runFrom' /\ runFrom' \in Nat
    BY <2>1, RunTypes, RunStartType DEF RunReach, RunUpTo
  <2>3. ~(RunReach' < watermark /\ watermark <= RunUpTo')
    BY <2>2, RunTypes
  <2>4. \A r \in Reading : Marks(r) => Marks(r)'
    BY <2>1, <2>3 DEF Marks
  <2>5. \A r \in Reading : samples'["run"][r] = 0
    BY <2>1 DEF MarkInv, AttemptInv
  <2>6. AttemptInv'
    BY <2>1, <2>2, <2>5, RunTypes DEF MarkInv, AttemptInv
  <2> QED
    BY <2>1, <2>4, <2>6 DEF MarkInv
<1> QED
  BY <1>1, <1>2

LEMMA MarkRunFetched ==
  ASSUME HoldInv, MarkInv, RunFetched
  PROVE  MarkInv'
<1>t. pc \in [Task -> PC] /\ "run" \in Task /\ samples \in [Task -> [Reading -> Version]]
  BY DEF HoldInv, TypeOK, Task
<1>1. /\ pc["run"] = "fetch" /\ runFrom >= runNow
      /\ UNCHANGED <<clock, source, watermark, runDoc, runNow, runFrom>>
  BY DEF RunFetched, sourceVars, runVars, runLocals
<1>2. /\ samples'["run"] = samples["run"]
      /\ pc'["run"] = "finished" \/ pc'["run"] = "write"
  BY <1>t DEF RunFetched, BeginWrite, Goto
<1>3. RunReach' = RunReach /\ RunUpTo = runFrom /\ RunUpTo' = runNow
  BY <1>1, <1>2 DEF RunReach, RunUpTo
<1>4. watermark <= runFrom
  BY <1>1, RunTypes DEF MarkInv, AttemptInv, Fetching
<1>5. \A r \in Reading : Marks(r) => Marks(r)'
  BY <1>1, <1>2, <1>3, <1>4 DEF Marks, Fetching
<1>6. AttemptInv'
  BY <1>1, <1>2, <1>3 DEF MarkInv, AttemptInv, Fetching
<1> QED
  BY <1>1, <1>5, <1>6 DEF MarkInv

\* A window: it has every published reading inside it, that at the watermark too.
LEMMA MarkRunFetch ==
  ASSUME HoldInv, MarkInv, RunFetch
  PROVE  MarkInv'
<1>t. "run" \in Task /\ samples \in [Task -> [Reading -> Version]]
  BY DEF HoldInv, TypeOK, Task
<1>1. /\ pc["run"] = "fetch" /\ runFrom < runNow
      /\ UNCHANGED <<clock, source, pc, watermark, runDoc, runNow>>
  BY DEF RunFetch, sourceVars
<1> DEFINE b == Smaller(runFrom + MaxWindow, runNow)
<1>2. PICK inclusive \in BOOLEAN :
        /\ samples' = [samples EXCEPT !["run"] =
             [r \in Reading |-> IF KeepNew(Fetch(runFrom, b, inclusive), runDoc)[r] > 0
                                THEN KeepNew(Fetch(runFrom, b, inclusive), runDoc)[r] ELSE @[r]]]
        /\ runFrom' = b
  BY DEF RunFetch
<1>3. b \in Nat /\ b <= runNow /\ runFrom <= b
  BY <1>1, RunTypes DEF Smaller
<1> HIDE DEF b
<1> DEFINE f == Fetch(runFrom, b, inclusive)
<1>4. /\ \A r \in Reading : f[r] > 0 => runFrom <= Stamp[r] /\ Stamp[r] <= b
      /\ \A r \in Reading : source[r] > 0 /\ runFrom < Stamp[r] /\ Stamp[r] <= b => f[r] > 0
  <2>1. TypeOK /\ runFrom \in Nat
    BY RunTypes DEF HoldInv
  <2>2. /\ \A r \in Reading : f[r] > 0 => source[r] > 0 /\ runFrom <= Stamp[r] /\ Stamp[r] <= b
        /\ \A r \in Reading : source[r] > 0 /\ runFrom < Stamp[r] /\ Stamp[r] <= b
             => f[r] = source[r]
    BY <1>3, <2>1, FetchType
  <2> QED
    BY <2>2
<1> HIDE DEF f
<1>5. /\ \A r \in Reading : KeepNew(f, runDoc)[r] = IF Stamp[r] > FloorMs(runDoc) THEN f[r] ELSE 0
      /\ \A r \in Reading :
           samples'["run"][r] = IF KeepNew(f, runDoc)[r] > 0 THEN KeepNew(f, runDoc)[r]
                                ELSE samples["run"][r]
  BY <1>2, <1>t DEF KeepNew, f
<1>6. RunReach' = RunReach /\ RunUpTo' = b /\ RunUpTo = runFrom
  BY <1>1, <1>2 DEF RunReach, RunUpTo
<1>7. ASSUME NEW r \in Reading, Marks(r) PROVE Marks(r)'
  <2>1. SUFFICES ASSUME runDoc < watermark, RunReach < watermark, watermark <= b
                 PROVE  samples'["run"][r] > 0
    BY <1>1, <1>6, <1>7 DEF Marks
  <2>2. CASE watermark <= runFrom
    <3>1. samples["run"][r] > 0
      BY <1>1, <1>6, <1>7, <2>1, <2>2 DEF Marks, Fetching
    <3> QED
      BY <1>5, <3>1
  <2>3. CASE runFrom < watermark
    <3>1. f[r] > 0
      BY <1>4, <1>7, <2>1, <2>3 DEF Marks
    <3>2. FloorMs(runDoc) < Stamp[r]
      BY <1>7, <2>1, RunTypes DEF Marks, FloorMs
    <3> QED
      BY <1>5, <3>1, <3>2
  <2> QED
    BY <2>2, <2>3, RunTypes
<1>8. /\ runNow <= clock /\ watermark <= runNow /\ RunReach <= runFrom
      /\ \A r \in Reading : samples["run"][r] > 0 => RunReach <= Stamp[r] /\ Stamp[r] <= runNow
  BY <1>1 DEF MarkInv, AttemptInv, Fetching
<1>9. ASSUME NEW r \in Reading, samples'["run"][r] > 0
      PROVE  RunReach <= Stamp[r] /\ Stamp[r] <= runNow
  <2>1. CASE KeepNew(f, runDoc)[r] > 0
    <3>1. f[r] > 0
      BY <1>5, <2>1
    <3> QED
      BY <1>3, <1>4, <1>8, <3>1, RunTypes
  <2>2. CASE ~(KeepNew(f, runDoc)[r] > 0)
    BY <1>5, <1>8, <1>9, <2>2
  <2> QED
    BY <2>1, <2>2
<1>10. AttemptInv'
  <2>1. RunReach <= b
    BY <1>3, <1>8, RunTypes
  <2> QED
    BY <1>1, <1>2, <1>6, <1>8, <1>9, <2>1 DEF AttemptInv
<1> QED
  BY <1>1, <1>7, <1>10 DEF MarkInv

\* The step that moves the watermark moves it forward: an attempt whose document
\* is behind either starts past the watermark or has the reading it stands at.
LEMMA AdvanceForward ==
  ASSUME HoldInv, MarkInv, pc["run"] = "written", Advances(Newest)
  PROVE  /\ Newest \in Nat /\ watermark <= Newest /\ Newest <= runNow /\ runDoc < Newest
         /\ \E r \in Reading : source[r] > 0 /\ Stamp[r] = Newest
<1>t. "run" \in Task /\ TypeOK /\ PublishedInv /\ TaskInv("run")
  BY DEF HoldInv, Task
<1>1. written["run"] # {} /\ Newest > runDoc
  BY DEF Advances
<1>2. /\ Newest \in Nat
      /\ \E r \in Present(samples["run"]) : Stamp[r] = Newest
      /\ \A r \in Present(samples["run"]) : Stamp[r] <= Newest
  BY <1>1, <1>t, NewestType
<1>3. PICK n \in Reading : samples["run"][n] > 0 /\ Stamp[n] = Newest
  BY <1>2 DEF Present
<1>4. /\ watermark <= runNow
      /\ \A r \in Reading : samples["run"][r] > 0 => RunReach <= Stamp[r] /\ Stamp[r] <= runNow
  BY DEF MarkInv, AttemptInv, Fetching, Writing
<1>5. RunReach <= Newest /\ Newest <= runNow /\ source[n] > 0
  BY <1>3, <1>4, <1>t DEF PublishedInv
<1>6. runDoc < Newest
  BY <1>1, <1>2, RunTypes
<1>7. watermark <= Newest
  <2>1. CASE watermark <= runDoc \/ watermark <= RunReach
    BY <1>2, <1>5, <1>6, <2>1, RunTypes
  <2>2. CASE runDoc < watermark /\ RunReach < watermark
    <3>1. watermark # 0 /\ RunUpTo = runNow /\ pc["run"] \in Fetching
      BY <2>2, RunTypes DEF RunUpTo, Fetching, Writing
    <3>2. PICK r \in Reading : Marks(r)
      BY <3>1 DEF MarkInv
    <3>3. samples["run"][r] > 0 /\ Stamp[r] = watermark
      BY <1>4, <2>2, <3>1, <3>2 DEF Marks
    <3> QED
      BY <1>2, <3>3 DEF Present
  <2> QED
    BY <2>1, <2>2, RunTypes
<1> QED
  BY <1>2, <1>3, <1>5, <1>6, <1>7

LEMMA MarkRunAdvance ==
  ASSUME HoldInv, MarkInv, RunAdvance
  PROVE  MarkInv'
<1>t. pc \in [Task -> PC] /\ "run" \in Task
  BY DEF HoldInv, TypeOK, Task
<1>1. /\ pc["run"] = "written" /\ pc'["run"] = "finished"
      /\ UNCHANGED <<clock, source, runDoc>>
  BY <1>t DEF RunAdvance, Goto, sourceVars, runLocals
<1>2. AttemptInv'
  BY <1>1 DEF AttemptInv, Fetching, Writing
<1>3. pc'["run"] \notin Fetching
  BY <1>1 DEF Fetching, Writing
<1>4. CASE ~Advances(Newest)
  <2>1. watermark' = watermark
    BY <1>4 DEF RunAdvance
  <2> QED
    BY <1>1, <1>2, <1>3, <2>1 DEF MarkInv, Marks
<1>5. CASE Advances(Newest)
  <2>1. watermark' = Newest
    BY <1>5 DEF RunAdvance
  <2>2. /\ Newest \in Nat /\ Newest <= runNow /\ runDoc < Newest
        /\ \E r \in Reading : source[r] > 0 /\ Stamp[r] = Newest
    BY <1>1, <1>5, AdvanceForward
  <2>3. runNow <= clock
    BY <1>1 DEF MarkInv, AttemptInv, Fetching, Writing
  <2>4. Newest <= clock /\ runDoc <= Newest
    BY <2>2, <2>3, RunTypes
  <2> QED
    BY <1>1, <1>2, <1>3, <2>1, <2>2, <2>4 DEF MarkInv, Marks
<1> QED
  BY <1>4, <1>5

LEMMA MarkStep == HoldInv /\ MarkInv /\ [Next]_vars => MarkInv'
<1> SUFFICES ASSUME HoldInv, MarkInv, [Next]_vars PROVE MarkInv'
  OBVIOUS
<1>1. TypeOK /\ clock \in Nat
  BY DEF HoldInv, TypeOK
<1>2. CASE Upstream \/ Time \/ UNCHANGED vars
  BY <1>2, MarkUpstream
<1>3. ASSUME NEW t \in Task, WriteOnly(t) PROVE MarkInv'
  <2>1. UNCHANGED <<sourceVars, runVars>>
    BY <1>3 DEF WriteOnly
  <2>2. clock' = clock /\ source' = source
    BY <2>1 DEF sourceVars
  <2> QED
    BY <1>1, <1>3, <2>1, <2>2, WriteFromRun, MarkTransfer
<1>4. CASE RunOwn
  BY <1>4, MarkRunOutside, MarkRunFetch, MarkRunFetched, MarkRunAdvance DEF RunOwn
<1>5. CASE WalkOwn \/ PassOwn
  <2>1. UNCHANGED <<sourceVars, runVars>>
    BY <1>5 DEF WalkOwn, BackfillLoad, BackfillSkip, BackfillBegin, BackfillFetch,
       BackfillReachesFloor, BackfillLoopEnds, BackfillWritten, BackfillSave, BackfillFinish,
       BackfillFails, PassOwn, PassLoad, PassBegin, PassFetch, PassWritten, PassEnds, PassFinish,
       PassFails, sourceVars
  <2>2. pc'["run"] = pc["run"] /\ samples'["run"] = samples["run"]
    BY <1>1, <1>5, WalkFrame, PassFrame DEF TaskFrame
  <2>3. clock' = clock /\ source' = source
    BY <2>1 DEF sourceVars
  <2> QED
    BY <1>1, <2>1, <2>2, <2>3, MarkTransfer
<1> QED
  BY <1>2, <1>3, <1>4, <1>5, StepCases

\* Only the last step of a run moves the watermark.
LEMMA MarkForward == HoldInv /\ MarkInv /\ [Next]_vars => watermark' >= watermark
<1> SUFFICES ASSUME HoldInv, MarkInv, [Next]_vars PROVE watermark' >= watermark
  OBVIOUS
<1>1. watermark \in Nat
  BY RunTypes
<1>2. CASE RunAdvance
  <2>1. CASE Advances(Newest)
    <3>1. pc["run"] = "written" /\ watermark' = Newest
      BY <1>2, <2>1 DEF RunAdvance
    <3> QED
      BY <1>1, <2>1, <3>1, AdvanceForward
  <2>2. CASE ~Advances(Newest)
    BY <1>1, <1>2, <2>2 DEF RunAdvance
  <2> QED
    BY <2>1, <2>2
<1>3. CASE ~RunAdvance
  <2>1. CASE Upstream \/ Time \/ UNCHANGED vars
    BY <1>1, <2>1 DEF Upstream, Time, vars, runVars
  <2>2. ASSUME NEW t \in Task, WriteOnly(t) PROVE watermark' >= watermark
    BY <1>1, <2>2 DEF WriteOnly, runVars
  <2>3. CASE RunOwn
    BY <1>1, <1>3, <2>3 DEF RunOwn, RunLoad, RunBegin, RunFetch, RunFetched, RunFinish, RunFails,
       runVars
  <2>4. CASE WalkOwn \/ PassOwn
    BY <1>1, <2>4 DEF WalkOwn, BackfillLoad, BackfillSkip, BackfillBegin, BackfillFetch,
       BackfillReachesFloor, BackfillLoopEnds, BackfillWritten, BackfillSave, BackfillFinish,
       BackfillFails, PassOwn, PassLoad, PassBegin, PassFetch, PassWritten, PassEnds, PassFinish,
       PassFails, runVars
  <2> QED
    BY <2>1, <2>2, <2>3, <2>4, StepCases
<1> QED
  BY <1>2, <1>3

\* The first states satisfy the invariants of the marks.
LEMMA MarkInit == Init => MarkInv
<1> SUFFICES ASSUME Init PROVE MarkInv
  OBVIOUS
<1>1. watermark = 0 /\ runDoc = 0 /\ clock \in Nat /\ pc["run"] = "idle"
  BY ConstantTypes DEF Init, RunInit, SourceInit, WriteInit, Task
<1>2. \A r \in Reading : samples["run"][r] = 0
  BY DEF Init, WriteInit, Task, Nothing
<1> QED
  BY <1>1, <1>2 DEF MarkInv, AttemptInv, Fetching, Writing

\* The watermark of a Device never moves back: not when an attempt is retried from
\* the document of an earlier load after the watermark was already patched, not
\* when its batches fail, and whatever the upstream revises.
THEOREM WatermarkAdvances == Spec => WatermarkMonotone
<1>1. Init => MarkInv
  BY MarkInit
<1>2. Init => HoldInv
  BY HoldInit
<1>3. HoldInv /\ MarkInv /\ [Next]_vars => (HoldInv /\ MarkInv)'
  BY HoldStep, MarkStep
<1>4. HoldInv /\ MarkInv /\ [Next]_vars => [watermark' >= watermark]_vars
  BY MarkForward
<1> QED
  BY <1>1, <1>2, <1>3, <1>4, PTL DEF Spec, WatermarkMonotone

-------------------------------------------------------------------------------
(* What every step keeps, whatever the upstream does.                      *)

\* The upstream changes a reading only until it is MaxLate old.
LEMMA SourceChange ==
  ASSUME TypeOK, [Next]_vars
  PROVE  /\ \A r \in Reading : source'[r] # source[r] => clock <= Stamp[r] + MaxLate
         /\ \A r \in Reading : source[r] > 0 => source'[r] > 0
<1>t. source \in [Reading -> Version]
  BY DEF TypeOK
<1>1. CASE Upstream
  <2>1. PICK q \in Reading : Publish(q)
    BY <1>1 DEF Upstream
  <2> QED
    BY <1>t, <2>1, ConstantTypes DEF Publish, Version
<1>2. CASE source' = source
  BY <1>2
<1>3. CASE Time \/ UNCHANGED vars \/ \E t \in Task : WriteOnly(t)
  BY <1>2, <1>3 DEF Time, Tick, vars, WriteOnly, sourceVars
<1>4. CASE RunOwn
  BY <1>2, <1>4 DEF RunOwn, RunLoad, RunBegin, RunFetch, RunFetched, RunAdvance, RunFinish,
     RunFails, sourceVars
<1>5. CASE WalkOwn
  BY <1>2, <1>5 DEF WalkOwn, BackfillLoad, BackfillSkip, BackfillBegin, BackfillFetch,
     BackfillReachesFloor, BackfillLoopEnds, BackfillWritten, BackfillSave, BackfillFinish,
     BackfillFails, sourceVars
<1>6. CASE PassOwn
  BY <1>2, <1>6 DEF PassOwn, PassLoad, PassBegin, PassFetch, PassWritten, PassEnds, PassFinish,
     PassFails, sourceVars
<1> QED
  BY <1>1, <1>3, <1>4, <1>5, <1>6, StepCases

\* Only the last step of a run touches the watermark or its base.
LEMMA MarkFrame ==
  ASSUME [Next]_vars, ~RunAdvance
  PROVE  UNCHANGED <<watermark, base>>
<1>1. CASE Upstream \/ Time \/ UNCHANGED vars \/ \E t \in Task : WriteOnly(t)
  BY <1>1 DEF Upstream, Time, vars, WriteOnly, runVars
<1>2. CASE RunOwn
  BY <1>2 DEF RunOwn, RunLoad, RunBegin, RunFetch, RunFetched, RunFinish, RunFails, runVars
<1>3. CASE WalkOwn \/ PassOwn
  BY <1>3 DEF WalkOwn, PassOwn, runVars
<1> QED
  BY <1>1, <1>2, <1>3, StepCases

\* The reach of the run that sets the first watermark is the start of history,
\* or what lies below it was settled when the run began.
BaseInv == watermark # 0 => base = HistoryStart \/ base + MaxLate < clock

LEMMA BaseStep ==
  ASSUME HoldInv, MarkInv, BaseInv, [Next]_vars
  PROVE  BaseInv' /\ (watermark # 0 => watermark' # 0 /\ base' = base)
<1>1. clock <= clock' /\ clock' \in Nat
  BY PublishedStep, HoldStep, RunTypes DEF HoldInv, TypeOK
<1>2. watermark # 0 => watermark' # 0
  <2>1. watermark' >= watermark /\ watermark' \in Nat
    BY MarkForward, HoldStep DEF HoldInv, TypeOK, Instant
  <2> QED
    BY <2>1, RunTypes
<1>3. CASE UNCHANGED <<watermark, base>>
  BY <1>1, <1>3, RunTypes DEF BaseInv
<1>4. CASE RunAdvance /\ ~UNCHANGED <<watermark, base>>
  <2>1. /\ pc["run"] = "written" /\ Advances(Newest)
        /\ base' = IF watermark = 0 THEN RunReach ELSE base
    BY <1>4 DEF RunAdvance, RunReach
  <2>2. CASE watermark # 0
    BY <1>1, <1>2, <2>1, <2>2, RunTypes DEF BaseInv
  <2>3. CASE watermark = 0
    <3>1. runDoc = 0 /\ runNow <= clock
      BY <2>1, <2>3, RunTypes DEF MarkInv, AttemptInv, Fetching, Writing
    <3>2. \/ RunReach = HistoryStart
          \/ RunReach = runNow - LiveLookback - RewriteLookback
      BY <3>1, RunTypes, RunStartProps DEF RunReach
    <3> QED
      BY <1>1, <2>1, <2>3, <3>1, <3>2, RunTypes DEF BaseInv
  <2> QED
    BY <2>2, <2>3
<1> QED
  BY <1>2, <1>3, <1>4, MarkFrame

-------------------------------------------------------------------------------
(* The empty windows the walk counts.                                      *)

\* The end of the k windows above lo.
Above(lo, k) == lo + k * BackfillWindow

LEMMA AboveFacts ==
  /\ \A lo, k \in Nat : Above(lo, k) \in Nat
  /\ \A lo \in Nat : Above(lo, 0) = lo
  /\ \A lo, k \in Nat : Above(lo, k + 1) = Above(lo + BackfillWindow, k)
  /\ \A lo, k, n \in Nat : k <= n => Above(lo, k) <= Above(lo, n)
<1>t. BackfillWindow \in Nat
  BY ConstantTypes
<1>1. \A lo, k \in Nat : k * BackfillWindow \in Nat
  BY <1>t
<1>2. \A lo \in Nat : Above(lo, 0) = lo
  BY <1>t DEF Above
<1>3. ASSUME NEW lo \in Nat, NEW k \in Nat PROVE Above(lo, k + 1) = Above(lo + BackfillWindow, k)
  <2>1. (k + 1) * BackfillWindow = k * BackfillWindow + BackfillWindow
    BY <1>t, SMT
  <2> QED
    BY <1>t, <1>1, <2>1 DEF Above
<1>4. ASSUME NEW lo \in Nat, NEW k \in Nat, NEW n \in Nat, k <= n
      PROVE  Above(lo, k) <= Above(lo, n)
  <2>1. PICK d \in Nat : n = k + d
    <3>1. n - k \in Nat /\ n = k + (n - k)
      BY <1>4
    <3> QED
      BY <3>1
  <2>2. n * BackfillWindow = k * BackfillWindow + d * BackfillWindow
    BY <1>t, <2>1, SMT
  <2> QED
    BY <1>t, <1>1, <2>1, <2>2 DEF Above
<1>5. \A lo, k \in Nat : Above(lo, k) \in Nat
  BY <1>1 DEF Above
<1> QED
  BY <1>2, <1>3, <1>4, <1>5

\* The k windows above lo are empty, as far down from base as the walk counts.
StreakOf(lo, k) ==
  lo > Floor =>
    \A r \in Reading : lo < Stamp[r] /\ Stamp[r] <= base /\ Stamp[r] <= Above(lo, k) => source[r] = 0

StreakNext(lo, k) ==
  lo > Floor =>
    \A r \in Reading : lo < Stamp[r] /\ Stamp[r] <= base' /\ Stamp[r] <= Above(lo, k) => source'[r] = 0

\* What is persisted of the walk, and the document read from it.
SavedInv ==
  /\ cursor # 0 \/ doneAt # 0 \/ bfDoc.cursor # 0 \/ bfDoc.watermark # 0 => watermark # 0
  /\ cursor = 0 => emptyStreak = 0
  /\ bfDoc.cursor = 0 => bfDoc.streak = 0
  /\ StreakOf(cursor, emptyStreak)
  /\ StreakOf(bfDoc.cursor, bfDoc.streak)
  /\ StreakOf(doneAt, EmptyThreshold)

\* The walk itself.
StreakInv ==
  BackfillMode = "cursor" =>
    /\ pc["backfill"] \in Fetching \cup {"save"} =>
         /\ watermark # 0 /\ bfCursor # 0
         /\ StreakOf(bfCursor, bfStreak)
         /\ bfDone => bfCursor <= Floor \/ bfStreak >= EmptyThreshold
    /\ pc["backfill"] \in Writing => bfStreak = 0 /\ ~bfDone /\ bfFrom # 0

DoneInv == BaseInv /\ SavedInv /\ StreakInv

LEMMA StreakTypes ==
  ASSUME HoldInv
  PROVE  /\ cursor \in Nat /\ emptyStreak \in Nat /\ doneAt \in Nat /\ bfCursor \in Nat
         /\ bfStreak \in Nat /\ bfDoc.cursor \in Nat /\ bfDoc.streak \in Nat
         /\ bfDoc.watermark \in Nat /\ bfFrom \in Nat /\ EmptyThreshold \in Nat
         /\ watermark \in Nat /\ base \in Nat /\ Floor \in Nat /\ Floor # 0
         /\ BackfillWindow \in Nat
BY BackfillDagAssumption DEF HoldInv, TypeOK, Instant

\* A window found empty stays empty: it lies below the base, where nothing is
\* published any more.
LEMMA StreakStep ==
  ASSUME HoldInv, MarkInv, BaseInv, [Next]_vars
  PROVE  \A lo, k \in Nat : (lo # 0 => watermark # 0) /\ StreakOf(lo, k) => StreakNext(lo, k)
<1> SUFFICES ASSUME NEW lo \in Nat, NEW k \in Nat, lo # 0 => watermark # 0, StreakOf(lo, k),
                    lo > Floor, NEW r \in Reading, lo < Stamp[r], Stamp[r] <= base',
                    Stamp[r] <= Above(lo, k)
             PROVE  source'[r] = 0
  BY DEF StreakNext
<1>1. watermark # 0 /\ base' = base
  BY BaseStep, StreakTypes
<1>2. source[r] = 0
  BY <1>1 DEF StreakOf
<1>3. base = HistoryStart \/ base + MaxLate < clock
  BY <1>1 DEF BaseInv
<1>4. ~(clock <= Stamp[r] + MaxLate)
  BY <1>1, <1>3, RunTypes, WalkTypes
<1> QED
  BY <1>2, <1>4, SourceChange DEF HoldInv

\* A streak of no window claims nothing, and a streak claims no less than the
\* streaks shorter than it.
LEMMA NoStreak ==
  ASSUME HoldInv, NEW lo \in Nat
  PROVE  StreakOf(lo, 0)
BY AboveFacts, RunTypes DEF StreakOf

LEMMA ShorterStreak ==
  ASSUME HoldInv, NEW lo \in Nat, NEW k \in Nat, NEW n \in Nat, k <= n, StreakOf(lo, n)
  PROVE  StreakOf(lo, k)
<1>1. Above(lo, k) <= Above(lo, n) /\ Above(lo, k) \in Nat /\ Above(lo, n) \in Nat
  BY AboveFacts
<1> QED
  BY <1>1, RunTypes DEF StreakOf

\* What is saved holds on in the next state, before the step changes it.
LEMMA SavedNext ==
  ASSUME HoldInv, MarkInv, BaseInv, SavedInv, [Next]_vars
  PROVE  /\ cursor # 0 \/ doneAt # 0 \/ bfDoc.cursor # 0 \/ bfDoc.watermark # 0 => watermark' # 0
         /\ StreakNext(cursor, emptyStreak)
         /\ StreakNext(bfDoc.cursor, bfDoc.streak)
         /\ StreakNext(doneAt, EmptyThreshold)
BY BaseStep, StreakStep, StreakTypes DEF SavedInv

LEMMA SavedTransfer ==
  ASSUME HoldInv, MarkInv, BaseInv, SavedInv, [Next]_vars,
         UNCHANGED <<cursor, emptyStreak, doneAt, bfDoc>>
  PROVE  SavedInv'
BY SavedNext DEF SavedInv, StreakOf, StreakNext

LEMMA StreakTransfer ==
  ASSUME HoldInv, MarkInv, BaseInv, StreakInv, [Next]_vars, UNCHANGED <<bfCursor, bfStreak, bfFrom, bfDone>>,
         \/ pc'["backfill"] = pc["backfill"]
         \/ pc["backfill"] \in Writing /\ pc'["backfill"] \in Writing
         \/ pc'["backfill"] \in {"idle", "ready", "finished"}
         \/ pc["backfill"] = "fetch" /\ pc'["backfill"] = "save"
  PROVE  StreakInv'
<1> SUFFICES ASSUME BackfillMode = "cursor" PROVE StreakInv'
  BY DEF StreakInv
<1>1. ASSUME pc'["backfill"] \in Fetching \cup {"save"}
      PROVE  /\ watermark' # 0 /\ bfCursor # 0
             /\ StreakNext(bfCursor, bfStreak)
             /\ bfDone => bfCursor <= Floor \/ bfStreak >= EmptyThreshold
  <2>1. pc["backfill"] \in Fetching \cup {"save"}
    BY <1>1 DEF Fetching, Writing
  <2> QED
    BY <2>1, BaseStep, StreakStep, StreakTypes DEF StreakInv
<1>2. ASSUME pc'["backfill"] \in Writing PROVE bfStreak = 0 /\ ~bfDone /\ bfFrom # 0
  BY <1>2 DEF StreakInv, Writing
<1> QED
  BY <1>1, <1>2 DEF StreakInv, StreakOf, StreakNext
LEMMA DoneFrame ==
  ASSUME HoldInv, MarkInv, DoneInv, [Next]_vars, WalkOwn,
         \/ BackfillSkip \/ BackfillReachesFloor \/ BackfillLoopEnds
         \/ BackfillFinish \/ BackfillFails \/ \E dry \in BOOLEAN : BackfillLoad(watermark, dry)
  PROVE  SavedInv' /\ StreakInv'
<1>t. pc \in [Task -> PC] /\ "backfill" \in Task
  BY DEF HoldInv, TypeOK, Task
<1>d. BaseInv /\ SavedInv /\ StreakInv
  BY DEF DoneInv
<1>1. CASE BackfillSkip \/ BackfillLoopEnds
  <2>1. /\ UNCHANGED <<cursor, emptyStreak, doneAt, bfDoc, bfCursor, bfStreak, bfFrom, bfDone>>
        /\ \/ pc'["backfill"] = "finished"
           \/ pc["backfill"] = "fetch" /\ pc'["backfill"] = "save"
    BY <1>1, <1>t DEF BackfillSkip, BackfillLoopEnds, Goto, backfillVars, backfillState,
       backfillLocals
  <2> QED
    BY <1>d, <2>1, SavedTransfer, StreakTransfer
<1>2. CASE BackfillReachesFloor
  <2>1. /\ UNCHANGED <<cursor, emptyStreak, doneAt, bfDoc, bfCursor, bfStreak>>
        /\ pc["backfill"] = "fetch" /\ pc'["backfill"] = "save" /\ bfCursor <= Floor
    BY <1>2, <1>t DEF BackfillReachesFloor, Goto, backfillState
  <2>2. StreakOf(bfCursor, bfStreak)'
    BY <2>1, StreakTypes DEF StreakOf
  <2>3. BackfillMode = "cursor" => watermark' # 0 /\ bfCursor # 0
    BY <1>d, <2>1, BaseStep DEF StreakInv, Fetching
  <2>4. StreakInv'
    BY <2>1, <2>2, <2>3 DEF StreakInv, Writing
  <2> QED
    BY <1>d, <2>1, <2>4, SavedTransfer
<1>3. CASE BackfillFinish \/ BackfillFails
  <2>1. /\ UNCHANGED <<cursor, emptyStreak, doneAt>>
        /\ pc'["backfill"] \in {"idle", "ready"}
        /\ bfDoc' = bfDoc \/ bfDoc' = NoDoc
    BY <1>3, <1>t DEF BackfillFinish, BackfillFails, Goto, backfillState
  <2>2. StreakInv'
    BY <2>1 DEF StreakInv, Fetching, Writing
  <2>3. CASE bfDoc' = bfDoc
    BY <1>d, <2>1, <2>2, <2>3, SavedTransfer
  <2>4. CASE bfDoc' = NoDoc
    <3>1. bfDoc'.cursor = 0 /\ bfDoc'.watermark = 0 /\ bfDoc'.streak = 0
      BY <2>4 DEF NoDoc
    <3>2. StreakOf(bfDoc.cursor, bfDoc.streak)'
      BY <3>1, StreakTypes DEF StreakOf
    <3>3. /\ cursor # 0 \/ doneAt # 0 => watermark' # 0
          /\ StreakNext(cursor, emptyStreak) /\ StreakNext(doneAt, EmptyThreshold)
      BY <1>d, SavedNext
    <3>4. SavedInv'
      BY <1>d, <2>1, <3>1, <3>2, <3>3 DEF SavedInv, StreakOf, StreakNext
    <3> QED
      BY <2>2, <3>4
  <2> QED
    BY <2>1, <2>3, <2>4
<1>4. ASSUME NEW dry \in BOOLEAN, BackfillLoad(watermark, dry) PROVE SavedInv' /\ StreakInv'
  <2>1. /\ UNCHANGED <<cursor, emptyStreak, doneAt, watermark, base>>
        /\ pc'["backfill"] = "ready"
        /\ bfDoc'.cursor = cursor /\ bfDoc'.watermark = watermark /\ bfDoc'.streak = emptyStreak
    BY <1>4, <1>t DEF BackfillLoad, Goto, backfillState, WalkOwn, runVars
  <2>2. StreakInv'
    BY <2>1 DEF StreakInv, Fetching, Writing
  <2>3. /\ cursor # 0 \/ doneAt # 0 => watermark' # 0
        /\ StreakNext(cursor, emptyStreak) /\ StreakNext(doneAt, EmptyThreshold)
    BY <1>d, SavedNext
  <2>4. SavedInv'
    BY <1>d, <2>1, <2>3 DEF SavedInv, StreakOf, StreakNext
  <2> QED
    BY <2>2, <2>4
<1> QED
  BY <1>1, <1>2, <1>3, <1>4

\* An attempt goes on with the streak of its document; without a cursor it
\* begins at the watermark, with no streak.
LEMMA DoneBegin ==
  ASSUME HoldInv, MarkInv, DoneInv, [Next]_vars, WalkOwn, BackfillBegin
  PROVE  SavedInv' /\ StreakInv'
<1>t. pc \in [Task -> PC] /\ "backfill" \in Task
  BY DEF HoldInv, TypeOK, Task
<1>d. BaseInv /\ SavedInv
  BY DEF DoneInv
<1>1. /\ bfDoc.watermark # 0 /\ pc'["backfill"] = "fetch" /\ ~bfDone'
      /\ bfCursor' = IF bfDoc.cursor # 0 THEN bfDoc.cursor ELSE bfDoc.watermark
      /\ bfStreak' = bfDoc.streak
      /\ UNCHANGED <<cursor, emptyStreak, doneAt, bfDoc, watermark, base, source>>
  BY <1>t DEF BackfillBegin, Goto, backfillState, WalkOwn, runVars, sourceVars
<1>2. watermark' # 0 /\ bfCursor' # 0
  BY <1>1, <1>d DEF SavedInv
<1>3. StreakOf(bfCursor', bfStreak')
  BY <1>1, <1>d, NoStreak, StreakTypes DEF SavedInv
<1>4. StreakOf(bfCursor, bfStreak)'
  BY <1>1, <1>3 DEF StreakOf
<1>5. StreakInv'
  BY <1>1, <1>2, <1>4 DEF StreakInv, Writing
<1> QED
  BY <1>d, <1>1, <1>5, SavedTransfer

\* A window that is found empty is added below the streak.
LEMMA DoneFetch ==
  ASSUME HoldInv, MarkInv, DoneInv, [Next]_vars, WalkOwn, BackfillFetch
  PROVE  SavedInv' /\ StreakInv'
<1>t. /\ pc \in [Task -> PC] /\ "backfill" \in Task /\ BackfillMode = "cursor" /\ TypeOK
      /\ source \in [Reading -> Version]
  BY DEF HoldInv, TypeOK, Task, WalkOwn
<1>d. BaseInv /\ SavedInv
  BY DEF DoneInv
<1>1. /\ pc["backfill"] = "fetch" /\ bfCursor > Floor /\ ~bfDone
      /\ UNCHANGED <<cursor, emptyStreak, doneAt, bfDoc, watermark, base, source>>
  BY DEF BackfillFetch, backfillState, WalkOwn, runVars, sourceVars
<1>2. SavedInv'
  BY <1>d, <1>1, SavedTransfer
<1>3. watermark # 0 /\ bfCursor # 0 /\ StreakOf(bfCursor, bfStreak)
  BY <1>1, <1>t DEF DoneInv, StreakInv, Fetching
<1> DEFINE a == LowerBound(bfCursor)
<1>4. PICK inclusive \in BOOLEAN :
        LET got == KeepWalkingBack(Fetch(a, bfCursor, inclusive), bfCursor) IN
        \/ /\ Present(got) = {}
           /\ bfStreak' = bfStreak + 1
           /\ bfDone' = (bfStreak' >= EmptyThreshold)
           /\ bfCursor' = a
           /\ UNCHANGED taskVars
        \/ /\ bfStreak' = 0 /\ bfCursor' = a
           /\ UNCHANGED <<taskVars, bfDone>>
        \/ /\ bfStreak' = 0 /\ bfFrom' = a
           /\ BeginWrite("backfill", got)
           /\ UNCHANGED <<bfCursor, bfDone>>
  BY DEF BackfillFetch, CountEmpty, StreakAfterSamples
<1>5. a \in Nat /\ a # 0 /\ (a > Floor => a + BackfillWindow = bfCursor)
  BY <1>1, WalkTypes DEF LowerBound
<1> HIDE DEF a
<1> DEFINE got == KeepWalkingBack(Fetch(a, bfCursor, inclusive), bfCursor)
<1>6. \A r \in Reading : source[r] > 0 /\ a < Stamp[r] /\ Stamp[r] <= bfCursor => got[r] > 0
  <2>1. \A r \in Reading : source[r] > 0 /\ a < Stamp[r] /\ Stamp[r] <= bfCursor =>
          Fetch(a, bfCursor, inclusive)[r] = source[r]
    BY <1>t, <1>5, WalkTypes, FetchType
  <2> QED
    BY <2>1 DEF KeepWalkingBack, KeepAtCursor
<1> HIDE DEF got
<1>7. CASE /\ Present(got) = {} /\ bfStreak' = bfStreak + 1
           /\ bfDone' = (bfStreak' >= EmptyThreshold) /\ bfCursor' = a /\ UNCHANGED taskVars
  <2>1. ASSUME a > Floor, NEW r \in Reading, a < Stamp[r], Stamp[r] <= base,
               Stamp[r] <= Above(a, bfStreak + 1)
        PROVE  source[r] = 0
    <3>1. Stamp[r] <= Above(bfCursor, bfStreak)
      <4>1. Above(a, bfStreak + 1) = Above(a + BackfillWindow, bfStreak)
        BY <1>5, AboveFacts, StreakTypes
      <4> QED
        BY <1>5, <2>1, <4>1
    <3>2. CASE Stamp[r] <= bfCursor
      <4>1. ~(source[r] > 0)
        BY <1>6, <1>7, <2>1, <3>2 DEF Present
      <4> QED
        BY <1>t, <4>1, ConstantTypes DEF Version
    <3>3. CASE bfCursor < Stamp[r]
      BY <1>1, <1>3, <2>1, <3>1, <3>3 DEF StreakOf
    <3> QED
      BY <3>2, <3>3, RunTypes, WalkTypes
  <2>2. StreakOf(a, bfStreak + 1)
    BY <2>1 DEF StreakOf
  <2>3. StreakOf(bfCursor, bfStreak)'
    BY <1>1, <1>7, <2>2 DEF StreakOf
  <2>4. pc' = pc
    BY <1>7 DEF taskVars
  <2>5. StreakInv'
    BY <1>1, <1>3, <1>5, <1>7, <2>3, <2>4 DEF StreakInv, Writing
  <2> QED
    BY <1>2, <2>5
<1>8. CASE bfStreak' = 0 /\ bfCursor' = a /\ UNCHANGED <<taskVars, bfDone>>
  <2>1. StreakOf(a, 0)
    BY <1>5, NoStreak
  <2>2. StreakOf(bfCursor, bfStreak)'
    BY <1>1, <1>8, <2>1 DEF StreakOf
  <2>3. pc' = pc
    BY <1>8 DEF taskVars
  <2>4. StreakInv'
    BY <1>1, <1>3, <1>5, <1>8, <2>2, <2>3 DEF StreakInv, Writing
  <2> QED
    BY <1>2, <2>4
<1>9. CASE bfStreak' = 0 /\ bfFrom' = a /\ BeginWrite("backfill", got) /\ UNCHANGED <<bfCursor, bfDone>>
  <2>1. StreakOf(bfCursor, 0)
    BY NoStreak, StreakTypes
  <2>2. StreakOf(bfCursor, bfStreak)'
    BY <1>1, <1>9, <2>1 DEF StreakOf
  <2>3. StreakInv'
    BY <1>1, <1>3, <1>5, <1>9, <2>2 DEF StreakInv
  <2> QED
    BY <1>2, <2>3
<1> QED
  BY <1>4, <1>7, <1>8, <1>9 DEF got

LEMMA DoneWritten ==
  ASSUME HoldInv, MarkInv, DoneInv, [Next]_vars, WalkOwn, BackfillWritten
  PROVE  SavedInv' /\ StreakInv'
<1>t. pc \in [Task -> PC] /\ "backfill" \in Task /\ BackfillMode = "cursor"
  BY DEF HoldInv, TypeOK, Task, WalkOwn
<1>d. BaseInv /\ SavedInv
  BY DEF DoneInv
<1>1. /\ pc["backfill"] = "written" /\ pc'["backfill"] \notin Writing
      /\ bfCursor' \in {bfFrom, bfCursor}
      /\ UNCHANGED <<cursor, emptyStreak, doneAt, bfDoc, bfStreak, bfDone, watermark, base, source>>
  BY <1>t DEF BackfillWritten, CursorAfter, Goto, backfillState, WalkOwn, runVars, sourceVars,
     Writing
<1>2. watermark # 0 /\ bfCursor # 0 /\ bfStreak = 0 /\ ~bfDone /\ bfFrom # 0
  BY <1>1, <1>t DEF DoneInv, StreakInv, Fetching, Writing
<1>3. StreakOf(bfCursor', 0)
  BY <1>1, NoStreak, StreakTypes
<1>4. StreakOf(bfCursor, bfStreak)'
  BY <1>1, <1>2, <1>3 DEF StreakOf
<1>5. StreakInv'
  BY <1>1, <1>2, <1>4 DEF StreakInv
<1> QED
  BY <1>d, <1>1, <1>5, SavedTransfer

\* The mark of the end is saved at the floor, or below a full streak.
LEMMA DoneSave ==
  ASSUME HoldInv, MarkInv, DoneInv, [Next]_vars, WalkOwn, BackfillSave
  PROVE  SavedInv' /\ StreakInv'
<1>t. pc \in [Task -> PC] /\ "backfill" \in Task /\ BackfillMode = "cursor"
  BY DEF HoldInv, TypeOK, Task, WalkOwn
<1>d. BaseInv /\ SavedInv
  BY DEF DoneInv
<1>1. /\ pc["backfill"] = "save" /\ pc'["backfill"] = "finished"
      /\ UNCHANGED <<bfDoc, watermark, base, source>>
      /\ \/ UNCHANGED <<cursor, emptyStreak, doneAt>>
         \/ /\ cursor' = bfCursor /\ emptyStreak' = bfStreak
            /\ doneAt' = IF bfDone THEN bfCursor ELSE doneAt
  BY <1>t DEF BackfillSave, Persists, Goto, backfillState, backfillLocals, WalkOwn, runVars,
     sourceVars
<1>2. StreakInv'
  BY <1>1 DEF StreakInv, Fetching, Writing
<1>3. CASE UNCHANGED <<cursor, emptyStreak, doneAt>>
  BY <1>d, <1>1, <1>2, <1>3, SavedTransfer
<1>4. CASE /\ cursor' = bfCursor /\ emptyStreak' = bfStreak
           /\ doneAt' = IF bfDone THEN bfCursor ELSE doneAt
  <2>1. /\ watermark # 0 /\ bfCursor # 0 /\ StreakOf(bfCursor, bfStreak)
        /\ bfDone => bfCursor <= Floor \/ bfStreak >= EmptyThreshold
    BY <1>1, <1>t DEF DoneInv, StreakInv
  <2>2. StreakOf(cursor', emptyStreak')
    BY <1>4, <2>1
  <2>3. StreakOf(doneAt', EmptyThreshold)
    <3>1. CASE ~bfDone
      BY <1>4, <1>d, <3>1 DEF SavedInv
    <3>2. CASE bfDone /\ bfCursor <= Floor
      BY <1>4, <3>2, StreakTypes DEF StreakOf
    <3>3. CASE bfDone /\ bfStreak >= EmptyThreshold
      BY <1>4, <2>1, <3>3, ShorterStreak, StreakTypes
    <3> QED
      BY <2>1, <3>1, <3>2, <3>3
  <2>4. /\ StreakOf(cursor, emptyStreak)' /\ StreakOf(doneAt, EmptyThreshold)'
        /\ StreakOf(bfDoc.cursor, bfDoc.streak)'
    BY <1>d, <1>1, <2>2, <2>3 DEF StreakOf, SavedInv
  <2>5. SavedInv'
    BY <1>d, <1>1, <1>4, <2>1, <2>4 DEF SavedInv
  <2> QED
    BY <1>2, <2>5
<1> QED
  BY <1>1, <1>3, <1>4

LEMMA DoneStep == HoldInv /\ MarkInv /\ DoneInv /\ [Next]_vars => DoneInv'
<1> SUFFICES ASSUME HoldInv, MarkInv, DoneInv, [Next]_vars PROVE DoneInv'
  OBVIOUS
<1> USE DEF backfillVars, backfillState, backfillLocals
<1>d. BaseInv /\ SavedInv /\ StreakInv
  BY DEF DoneInv
<1>b. BaseInv'
  BY <1>d, BaseStep
<1>s. SavedInv' /\ StreakInv'
  <2>1. CASE Upstream \/ Time \/ UNCHANGED vars
    BY <1>d, <2>1, SavedTransfer, StreakTransfer DEF Upstream, Time, vars, writeVars, taskVars
  <2>2. ASSUME NEW t \in Task, WriteOnly(t) PROVE SavedInv' /\ StreakInv'
    <3>1. UNCHANGED <<cursor, emptyStreak, doneAt, bfDoc, bfCursor, bfStreak, bfFrom, bfDone>>
      BY <2>2 DEF WriteOnly
    <3> QED
      BY <1>d, <2>2, <3>1, WriteFromWalk, SavedTransfer, StreakTransfer
  <2>3. CASE RunOwn
    <3>1. UNCHANGED <<cursor, emptyStreak, doneAt, bfDoc, bfCursor, bfStreak, bfFrom, bfDone>>
      BY <2>3 DEF RunOwn
    <3>2. TaskFrame("backfill")
      BY <2>3, RunFrame DEF HoldInv
    <3> QED
      BY <1>d, <3>1, <3>2, SavedTransfer, StreakTransfer DEF TaskFrame
  <2>4. CASE WalkOwn
    BY <2>4, DoneFrame, DoneBegin, DoneFetch, DoneWritten, DoneSave DEF WalkOwn
  <2>5. CASE PassOwn
    <3>1. UNCHANGED <<cursor, emptyStreak, doneAt, bfDoc>> /\ BackfillMode # "cursor"
      BY <2>5 DEF PassOwn
    <3> QED
      BY <1>d, <3>1, SavedTransfer DEF StreakInv
  <2> QED
    BY <2>1, <2>2, <2>3, <2>4, <2>5, StepCases
<1> QED
  BY <1>b, <1>s DEF DoneInv

\* The backfill declares itself done above its floor only where EmptyThreshold
\* windows in a row are empty: the streak it counts over many runs, retries from a
\* stale document and dry runs in between never claims a window that held a
\* reading, and nothing is published into a counted window afterwards, as late as
\* the upstream may be.
THEOREM DoneSafety == Spec => []DoneIsJustified
<1>1. Init => DoneInv
  <2> SUFFICES ASSUME Init PROVE DoneInv
    OBVIOUS
  <2>1. /\ watermark = 0 /\ cursor = 0 /\ emptyStreak = 0 /\ doneAt = 0 /\ bfDoc = NoDoc
        /\ pc["backfill"] = "idle"
    BY DEF Init, RunInit, BackfillInit, WriteInit, Task
  <2> QED
    BY <2>1, ConstantTypes
    DEF DoneInv, BaseInv, SavedInv, StreakInv, StreakOf, NoDoc, Fetching, Writing
<1>2. Init => HoldInv /\ MarkInv
  BY HoldInit, MarkInit
<1>3. HoldInv /\ MarkInv /\ DoneInv /\ [Next]_vars => (HoldInv /\ MarkInv /\ DoneInv)'
  BY HoldStep, MarkStep, DoneStep
<1>4. DoneInv => DoneIsJustified
  BY DEF DoneInv, SavedInv, StreakOf, Above, DoneIsJustified
<1> QED
  BY <1>1, <1>2, <1>3, <1>4, PTL DEF Spec

-------------------------------------------------------------------------------
(* A write path that meets no fault.                                       *)

\* Without a fault every accepted point is still to be written, or written.
AccountInv(t) ==
  /\ pc[t] \in Writing /\ faults = 0 => accepted[t] \subseteq pending[t] \cup written[t]
  /\ pc[t] \in Writing \ {"write"} => pending[t] = {}

\* Faults are only ever added.
LEMMA FaultsGrow ==
  ASSUME TypeOK, [Next]_vars
  PROVE  (faults' = 0 => faults = 0) /\ (MaxFaults = 0 /\ faults = 0 => faults' = 0)
<1>t. faults \in Nat
  BY DEF TypeOK
<1>1. CASE Upstream \/ Time \/ UNCHANGED vars
  BY <1>1 DEF Upstream, Time, vars, writeVars
<1>2. ASSUME NEW t \in Task, WriteOnly(t)
      PROVE  (faults' = 0 => faults = 0) /\ (MaxFaults = 0 /\ faults = 0 => faults' = 0)
  BY <1>t, <1>2 DEF WriteOnly, WriteStep, WriteBatch, WriteBatchFails, EndBatches, SummaryGet,
     SummaryPatch, EndWrite, Fault
<1>3. CASE RunOwn
  BY <1>t, <1>3 DEF RunOwn, RunLoad, RunBegin, RunFetch, RunFetched, RunAdvance, RunFinish,
     RunFails, BeginWrite, Fault
<1>4. CASE WalkOwn
  <2>1. CASE BackfillFetch
    <3>1. (\E batch : BeginWrite("backfill", batch)) \/ UNCHANGED faults
      BY <2>1 DEF BackfillFetch
    <3> QED
      BY <3>1 DEF BeginWrite
  <2>2. CASE ~BackfillFetch
    BY <1>t, <1>4, <2>2 DEF WalkOwn, BackfillLoad, BackfillSkip, BackfillBegin,
       BackfillReachesFloor, BackfillLoopEnds, BackfillWritten, BackfillSave, BackfillFinish,
       BackfillFails, Fault
  <2> QED
    BY <2>1, <2>2
<1>5. CASE PassOwn
  BY <1>t, <1>5 DEF PassOwn, PassLoad, PassBegin, PassFetch, PassWritten, PassEnds, PassFinish,
     PassFails, BeginWrite, writeVars, Fault
<1> QED
  BY <1>1, <1>2, <1>3, <1>4, <1>5, StepCases

LEMMA AccountWrite ==
  ASSUME HoldInv, NEW t \in Task, AccountInv(t), WriteOnly(t)
  PROVE  AccountInv(t)'
<1> USE DEF WriteOnly, WriteStep
<1>t. /\ pc \in [Task -> PC] /\ pending \in [Task -> SUBSET Reading] /\ faults \in Nat
      /\ written \in [Task -> SUBSET Reading]
  BY DEF HoldInv, TypeOK
<1>1. CASE WriteBatch(t)
  BY <1>1, <1>t DEF WriteBatch, AccountInv, Writing
<1>2. CASE WriteBatchFails(t)
  BY <1>2, <1>t DEF WriteBatchFails, Fault, AccountInv, Writing
<1>3. CASE EndBatches(t)
  BY <1>3, <1>t DEF EndBatches, Goto, AccountInv, Writing
<1>4. CASE SummaryGet(t)
  BY <1>4, <1>t DEF SummaryGet, Fault, Goto, AccountInv, Writing
<1>5. CASE SummaryPatch(t)
  BY <1>5, <1>t DEF SummaryPatch, Fault, Goto, AccountInv, Writing
<1>6. CASE EndWrite(t)
  BY <1>6, <1>t DEF EndWrite, Goto, AccountInv, Writing
<1> QED
  BY <1>1, <1>2, <1>3, <1>4, <1>5, <1>6

LEMMA AccountBegin ==
  ASSUME HoldInv, NEW t \in Task, NEW batch, BeginWrite(t, batch)
  PROVE  AccountInv(t)'
<1>1. /\ pc \in [Task -> PC] /\ accepted \in [Task -> SUBSET Reading]
      /\ pending \in [Task -> SUBSET Reading]
  BY DEF HoldInv, TypeOK
<1> QED
  BY <1>1 DEF BeginWrite, Goto, AccountInv, Writing

LEMMA AccountFrame ==
  ASSUME TypeOK, [Next]_vars, NEW t \in Task, AccountInv(t), TaskFrame(t)
  PROVE  AccountInv(t)'
BY FaultsGrow DEF AccountInv, TaskFrame

\* A task outside its write path, before and after the step, or leaving it.
LEMMA AccountOutside ==
  ASSUME NEW t \in Task, pc'[t] \notin Writing
  PROVE  AccountInv(t)'
BY DEF AccountInv

LEMMA AccountRun ==
  ASSUME HoldInv, AccountInv("run"), RunOwn
  PROVE  AccountInv("run")'
<1>t. pc \in [Task -> PC] /\ "run" \in Task
  BY DEF HoldInv, TypeOK, Task
<1>1. CASE RunLoad \/ RunBegin \/ RunFetch \/ RunAdvance \/ RunFinish \/ RunFails
  <2>1. pc'["run"] \notin Writing
    BY <1>t, <1>1 DEF RunLoad, RunBegin, RunFetch, RunAdvance, RunFinish, RunFails, Goto, Writing
  <2> QED
    BY <1>t, <2>1, AccountOutside
<1>2. CASE RunFetched
  BY <1>t, <1>2, AccountBegin, AccountOutside DEF RunFetched, Goto, Writing
<1> QED
  BY <1>1, <1>2 DEF RunOwn

LEMMA AccountWalk ==
  ASSUME HoldInv, AccountInv("backfill"), WalkOwn
  PROVE  AccountInv("backfill")'
<1>t. pc \in [Task -> PC] /\ "backfill" \in Task
  BY DEF HoldInv, TypeOK, Task
<1>1. CASE BackfillFetch
  <2>1. (\E batch : BeginWrite("backfill", batch)) \/ UNCHANGED taskVars
    BY <1>1 DEF BackfillFetch
  <2>2. CASE UNCHANGED taskVars
    <3>1. pc'["backfill"] = "fetch"
      BY <1>1, <2>2 DEF BackfillFetch, taskVars
    <3> QED
      BY <1>t, <3>1, AccountOutside DEF Writing
  <2> QED
    BY <1>t, <2>1, <2>2, AccountBegin
<1>2. CASE ~BackfillFetch
  <2>1. pc'["backfill"] \notin Writing
    BY <1>t, <1>2 DEF WalkOwn, BackfillLoad, BackfillSkip, BackfillBegin, BackfillReachesFloor,
       BackfillLoopEnds, BackfillWritten, BackfillSave, BackfillFinish, BackfillFails, Goto, Writing
  <2> QED
    BY <1>t, <2>1, AccountOutside
<1> QED
  BY <1>1, <1>2

LEMMA AccountPass ==
  ASSUME HoldInv, AccountInv("backfill"), PassOwn
  PROVE  AccountInv("backfill")'
<1>t. pc \in [Task -> PC] /\ "backfill" \in Task
  BY DEF HoldInv, TypeOK, Task
<1>1. CASE PassFetch
  <2>1. (\E batch : BeginWrite("backfill", batch)) \/ UNCHANGED writeVars
    BY <1>1 DEF PassFetch
  <2>2. CASE UNCHANGED writeVars
    <3>1. pc'["backfill"] = "fetch"
      BY <1>1, <2>2 DEF PassFetch, writeVars, taskVars
    <3> QED
      BY <1>t, <3>1, AccountOutside DEF Writing
  <2> QED
    BY <1>t, <2>1, <2>2, AccountBegin
<1>2. CASE ~PassFetch
  <2>1. pc'["backfill"] \notin Writing
    BY <1>t, <1>2 DEF PassOwn, PassLoad, PassBegin, PassWritten, PassEnds, PassFinish, PassFails,
       Goto, Writing
  <2> QED
    BY <1>t, <2>1, AccountOutside
<1> QED
  BY <1>1, <1>2

LEMMA AccountStep ==
  ASSUME HoldInv, \A t \in Task : AccountInv(t), [Next]_vars
  PROVE  \A t \in Task : AccountInv(t)'
<1>t. Task = {"run", "backfill"} /\ TypeOK
  BY DEF Task, HoldInv
<1> TAKE t \in Task
<1>1. CASE Upstream \/ Time \/ UNCHANGED vars
  BY <1>t, <1>1, AccountFrame DEF Upstream, Time, vars, writeVars, taskVars, TaskFrame
<1>2. ASSUME NEW u \in Task, WriteOnly(u) PROVE AccountInv(t)'
  BY <1>t, <1>2, WriteFrame, AccountFrame, AccountWrite
<1>3. CASE RunOwn
  BY <1>t, <1>3, RunFrame, AccountFrame, AccountRun
<1>4. CASE WalkOwn
  BY <1>t, <1>4, WalkFrame, AccountFrame, AccountWalk
<1>5. CASE PassOwn
  BY <1>t, <1>5, PassFrame, AccountFrame, AccountPass
<1> QED
  BY <1>1, <1>2, <1>3, <1>4, <1>5, StepCases

-------------------------------------------------------------------------------
(* The stateless pass.                                                     *)

Passing == {"fetch", "finished"} \cup Writing

\* What the pass has come past and is still to be kept, it holds.
Passed(r) == Kept(r) \/ (pc["backfill"] \in Writing /\ samples["backfill"][r] > 0)

PassInv ==
  BackfillMode = "stateless" =>
    /\ passUntil <= clock
    /\ pc["backfill"] \in Passing => passEnd <= clock
    /\ pc["backfill"] = "finished" => passFrom >= passEnd
    /\ pc["backfill"] \in Passing /\ ~passDry /\ faults = 0 =>
         \A r \in Reading :
           source[r] > 0 /\ PassStart < Stamp[r] /\ Stamp[r] <= passFrom
             /\ Stamp[r] + MaxLate < passEnd => Passed(r)

LEMMA PassTypes ==
  ASSUME HoldInv
  PROVE  /\ clock \in Nat /\ passUntil \in Nat /\ passEnd \in Nat /\ passFrom \in Nat
         /\ PassStart \in Nat /\ PassWindow \in Nat /\ MaxLate \in Nat /\ faults \in Nat
         /\ Stamp \in [Reading -> Nat]
BY ConstantTypes DEF HoldInv, TypeOK, Instant

\* Steps that leave the pass, and the samples it is storing, alone.
LEMMA PassTransfer ==
  ASSUME HoldInv, PassInv, [Next]_vars, UNCHANGED passVars,
         samples'["backfill"] = samples["backfill"],
         \/ pc'["backfill"] = pc["backfill"]
         \/ pc["backfill"] \in Writing /\ pc'["backfill"] \in Writing
  PROVE  PassInv'
<1> SUFFICES ASSUME BackfillMode = "stateless" PROVE PassInv'
  BY DEF PassInv
<1>1. UNCHANGED <<passUntil, passEnd, passFrom, passDry>>
  BY DEF passVars
<1>2. clock <= clock' /\ clock' \in Nat
  BY PublishedStep, HoldStep DEF HoldInv, TypeOK
<1>3. faults' = 0 => faults = 0
  BY FaultsGrow DEF HoldInv
<1>4. \A r \in Reading : Passed(r) => Passed(r)'
  <2>1. \A r \in Reading : Kept(r) => Kept(r)'
    BY HoldStep, KeptGrows
  <2> QED
    BY <2>1 DEF Passed
<1>5. pc'["backfill"] \in Passing => pc["backfill"] \in Passing
  BY DEF Passing
<1>6. pc'["backfill"] = "finished" => pc["backfill"] = "finished"
  BY DEF Writing
<1>7. ASSUME pc["backfill"] \in Passing, NEW r \in Reading, source'[r] > 0,
             Stamp[r] + MaxLate < passEnd
      PROVE  source[r] > 0
  <2>1. ~(clock <= Stamp[r] + MaxLate)
    BY <1>7, PassTypes DEF PassInv
  <2> QED
    BY <1>7, <2>1, SourceChange DEF HoldInv
<1> QED
  BY <1>1, <1>2, <1>3, <1>4, <1>5, <1>6, <1>7, PassTypes DEF PassInv
\* A pass that is loaded or begins, has come past nothing yet.
LEMMA PassBegins ==
  ASSUME HoldInv, PassInv, PassOwn, PassLoad \/ PassBegin
  PROVE  PassInv'
<1>t. pc \in [Task -> PC] /\ "backfill" \in Task
  BY DEF HoldInv, TypeOK, Task
<1>1. CASE PassLoad
  <2>1. pc'["backfill"] = "ready" /\ clock' = clock
    BY <1>1, <1>t DEF PassLoad, Goto, sourceVars
  <2>2. passUntil' <= clock
    BY <1>1, PassTypes DEF PassLoad
  <2> QED
    BY <2>1, <2>2 DEF PassInv, Passing, Writing
<1>2. CASE PassBegin
  <2>1. /\ pc'["backfill"] = "fetch" /\ clock' = clock /\ passUntil' = passUntil
        /\ passEnd' = (IF passUntil = 0 THEN clock ELSE passUntil) /\ passFrom' = PassStart
    BY <1>2, <1>t DEF PassBegin, Goto, sourceVars
  <2>2. BackfillMode = "stateless" => passUntil' <= clock' /\ passEnd' <= clock'
    BY <2>1, PassTypes DEF PassInv
  <2>3. \A r \in Reading : ~(PassStart < Stamp[r] /\ Stamp[r] <= passFrom')
    BY <2>1, PassTypes
  <2> QED
    BY <2>1, <2>2, <2>3 DEF PassInv
<1> QED
  BY <1>1, <1>2

\* A window: what it fetched is to be stored, unless the run is dry.
LEMMA PassFetches ==
  ASSUME HoldInv, PassInv, [Next]_vars, PassOwn, PassFetch
  PROVE  PassInv'
<1>t. /\ pc \in [Task -> PC] /\ "backfill" \in Task /\ BackfillMode = "stateless" /\ TypeOK
      /\ samples \in [Task -> [Reading -> Version]]
  BY DEF HoldInv, TypeOK, Task, PassOwn
<1>1. /\ pc["backfill"] = "fetch" /\ passFrom < passEnd
      /\ UNCHANGED <<clock, source, passUntil, passEnd, passDry>>
  BY DEF PassFetch, sourceVars
<1> DEFINE b == Smaller(passFrom + PassWindow, passEnd)
<1>2. PICK inclusive \in BOOLEAN :
        LET got == Fetch(passFrom, b, inclusive) IN
        /\ passFrom' = b
        /\ \/ (Present(got) = {} \/ passDry) /\ UNCHANGED writeVars
           \/ BeginWrite("backfill", got)
  BY DEF PassFetch, NextWindowFrom
<1>3. b \in Nat
  BY PassTypes DEF Smaller
<1> HIDE DEF b
<1> DEFINE got == Fetch(passFrom, b, inclusive)
<1>4. /\ \A r \in Reading : source[r] > 0 /\ passFrom < Stamp[r] /\ Stamp[r] <= b =>
           got[r] = source[r]
  BY <1>t, <1>3, PassTypes, FetchType
<1> HIDE DEF got
<1>5. /\ passUntil <= clock /\ passEnd <= clock
      /\ ~passDry /\ faults = 0 =>
           \A r \in Reading :
             source[r] > 0 /\ PassStart < Stamp[r] /\ Stamp[r] <= passFrom
               /\ Stamp[r] + MaxLate < passEnd => Kept(r)
  BY <1>1, <1>t DEF PassInv, Passing, Passed, Writing
<1>6. \A r \in Reading : Kept(r) => Kept(r)'
  BY HoldStep, KeptGrows
<1>7. faults' = 0 => faults = 0
  BY <1>t, FaultsGrow
<1>8. pc'["backfill"] \in {"fetch", "write"}
  BY <1>1, <1>2, <1>t DEF writeVars, taskVars, BeginWrite, Goto
<1>9. ASSUME ~passDry, faults = 0, NEW r \in Reading, source[r] > 0, PassStart < Stamp[r],
             Stamp[r] <= b, Stamp[r] + MaxLate < passEnd
      PROVE  Passed(r)'
  <2>1. CASE Stamp[r] <= passFrom
    BY <1>5, <1>6, <1>9, <2>1 DEF Passed
  <2>2. CASE passFrom < Stamp[r]
    <3>1. got[r] > 0
      BY <1>4, <1>9, <2>2
    <3>2. BeginWrite("backfill", got)
      BY <1>2, <1>9, <3>1 DEF Present, got
    <3>3. samples'["backfill"] = got /\ pc'["backfill"] = "write"
      BY <1>t, <3>2 DEF BeginWrite, Goto
    <3> QED
      BY <3>1, <3>3 DEF Passed, Writing
  <2> QED
    BY <2>1, <2>2, PassTypes
<1> QED
  BY <1>1, <1>2, <1>5, <1>7, <1>8, <1>9 DEF PassInv

\* _write returned: what the window fetched is kept.
LEMMA PassWrites ==
  ASSUME HoldInv, PassInv, AccountInv("backfill"), [Next]_vars, PassOwn, PassWritten
  PROVE  PassInv'
<1>t. /\ pc \in [Task -> PC] /\ "backfill" \in Task /\ BackfillMode = "stateless"
      /\ TaskInv("backfill")
  BY DEF HoldInv, TypeOK, Task, PassOwn
<1>1. /\ pc["backfill"] = "written" /\ pc'["backfill"] = "fetch"
      /\ UNCHANGED <<clock, source, faults, passUntil, passEnd, passFrom, passDry>>
  BY <1>t DEF PassWritten, Goto, sourceVars, passVars
<1>2. faults = 0 => \A r \in Reading : Passed(r) => Kept(r)
  <2> SUFFICES ASSUME faults = 0, NEW r \in Reading, samples["backfill"][r] > 0 PROVE Kept(r)
    BY DEF Passed
  <2>1. accepted["backfill"] \subseteq written["backfill"]
    BY <1>1 DEF AccountInv, Writing
  <2>2. r \in accepted["backfill"] \/ r \in rejected
    BY <1>1, <1>t DEF TaskInv, Writing, Present
  <2> QED
    BY <1>t, <2>1, <2>2 DEF TaskInv, Kept
<1>3. \A r \in Reading : Kept(r) => Kept(r)'
  BY HoldStep, KeptGrows
<1>4. pc["backfill"] \in Passing
  BY <1>1 DEF Passing, Writing
<1> QED
  BY <1>1, <1>2, <1>3, <1>4, <1>t DEF PassInv, Passed

LEMMA PassLeaves ==
  ASSUME HoldInv, PassInv, [Next]_vars, PassOwn, PassEnds \/ PassFinish \/ PassFails
  PROVE  PassInv'
<1>t. /\ pc \in [Task -> PC] /\ "backfill" \in Task /\ BackfillMode = "stateless"
  BY DEF HoldInv, TypeOK, Task, PassOwn
<1>1. CASE PassEnds
  <2>1. /\ pc["backfill"] = "fetch" /\ pc'["backfill"] = "finished" /\ passFrom >= passEnd
        /\ UNCHANGED <<clock, source, faults, passUntil, passEnd, passFrom, passDry>>
    BY <1>1, <1>t DEF PassEnds, Goto, sourceVars, passVars
  <2>2. \A r \in Reading : Kept(r) => Kept(r)'
    BY HoldStep, KeptGrows
  <2>3. pc["backfill"] \in Passing /\ pc["backfill"] \notin Writing
    BY <2>1 DEF Passing, Writing
  <2> QED
    BY <2>1, <2>2, <2>3 DEF PassInv, Passed
<1>2. CASE PassFinish \/ PassFails
  <2>1. /\ pc'["backfill"] \in {"idle", "ready"} /\ clock' = clock
        /\ passUntil' \in {0, passUntil}
    BY <1>2, <1>t DEF PassFinish, PassFails, Goto, sourceVars
  <2>2. passUntil' <= clock'
    BY <1>t, <2>1, PassTypes DEF PassInv
  <2> QED
    BY <2>1, <2>2 DEF PassInv, Passing, Writing
<1> QED
  BY <1>1, <1>2

LEMMA PassStep ==
  ASSUME HoldInv, PassInv, AccountInv("backfill"), [Next]_vars
  PROVE  PassInv'
<1>1. CASE Upstream \/ Time \/ UNCHANGED vars
  BY <1>1, PassTransfer DEF Upstream, Time, vars, writeVars, taskVars
<1>2. ASSUME NEW t \in Task, WriteOnly(t) PROVE PassInv'
  BY <1>2, WriteFromWalk, PassTransfer DEF WriteOnly
<1>3. CASE RunOwn
  <2>1. TaskFrame("backfill") /\ UNCHANGED passVars
    BY <1>3, RunFrame DEF HoldInv, RunOwn
  <2> QED
    BY <2>1, PassTransfer DEF TaskFrame
<1>4. CASE WalkOwn
  <2>1. BackfillMode # "stateless"
    BY <1>4 DEF WalkOwn
  <2> QED
    BY <2>1 DEF PassInv
<1>5. CASE PassOwn
  BY <1>5, PassBegins, PassFetches, PassWrites, PassLeaves DEF PassOwn
<1> QED
  BY <1>1, <1>2, <1>3, <1>4, <1>5, StepCases

\* A stateless pass leaves no hole: one that finishes without a fault has kept
\* every reading of its span that was settled before its end, whatever else the
\* run DAG wrote at the same time and wherever its windows were cut.
THEOREM PassSafety == Spec => []PassCovers
<1>1. Init => PassInv /\ \A t \in Task : AccountInv(t)
  <2> SUFFICES ASSUME Init PROVE PassInv /\ \A t \in Task : AccountInv(t)
    OBVIOUS
  <2>1. passUntil = 0 /\ clock \in Nat /\ \A t \in Task : pc[t] = "idle"
    BY ConstantTypes DEF Init, PassInit, SourceInit, WriteInit
  <2>2. pc["backfill"] = "idle"
    BY <2>1 DEF Task
  <2> QED
    BY <2>1, <2>2 DEF PassInv, AccountInv, Passing, Writing
<1>2. Init => HoldInv
  BY HoldInit
<1> DEFINE Inv == HoldInv /\ PassInv /\ \A t \in Task : AccountInv(t)
<1>3. Inv /\ [Next]_vars => Inv'
  <2> SUFFICES ASSUME Inv, [Next]_vars PROVE Inv'
    OBVIOUS
  <2>1. AccountInv("backfill")
    BY DEF Task
  <2> QED
    BY <2>1, HoldStep, PassStep, AccountStep
<1>4. Inv => PassCovers
  <2> SUFFICES ASSUME HoldInv, PassInv, BackfillMode = "stateless", pc["backfill"] = "finished",
                      ~passDry, faults = 0, NEW r \in Reading, source[r] > 0,
                      PassStart < Stamp[r], Stamp[r] + MaxLate < passEnd
               PROVE  Kept(r)
    BY DEF PassCovers
  <2>1. pc["backfill"] \in Passing /\ pc["backfill"] \notin Writing
    BY DEF Passing, Writing
  <2>2. Stamp[r] <= passFrom
    BY PassTypes DEF PassInv
  <2> QED
    BY <2>1, <2>2 DEF PassInv, Passed
<1> QED
  BY <1>1, <1>2, <1>3, <1>4, PTL DEF Spec

-------------------------------------------------------------------------------
(* Revisions.                                                              *)

\* InfluxDB has what the upstream has.
Fresh(r) == stored[r] = source[r] \/ r \in rejected \/ r \in dropped

\* What an attempt fetched of readings that were settled when it began is what
\* the upstream still has, and what it wrote is in InfluxDB: no other task writes.
FreshSamples ==
  /\ pc["backfill"] = "idle"
  /\ pc["run"] \in Fetching =>
       \A r \in Reading :
         samples["run"][r] > 0 /\ Stamp[r] + MaxLate < runNow => samples["run"][r] = source[r]
  /\ pc["run"] \in Writing => \A r \in written["run"] : stored[r] = samples["run"][r]
  /\ pc["run"] \in Writing \ {"write"} /\ written["run"] # {} =>
       \A r \in accepted["run"] : stored[r] = samples["run"][r] \/ r \in dropped

\* As RunRetryInv: what was settled by the load of a run whose first attempt set
\* the watermark has landed.
FreshRetry ==
  pc["run"] # "idle" /\ runDoc = 0 /\ watermark # 0 =>
    \A r \in Reading :
      source[r] > 0 /\ base < Stamp[r] /\ Stamp[r] + MaxLate < runLoaded => Fresh(r)

LandInv == RevisionsLand /\ FreshSamples /\ FreshRetry

\* Readings below the settled span are older than the attempt.
LEMMA SettledIsOld ==
  ASSUME HoldInv, MarkInv, MaxLate < RewriteLookback, NEW r \in Reading, Stamp[r] <= Settled
  PROVE  /\ Stamp[r] + MaxLate < clock
         /\ pc["run"] \in Fetching => Stamp[r] + MaxLate < runNow
BY RunTypes DEF MarkInv, AttemptInv, Settled

LEMMA LandUpstream ==
  ASSUME HoldInv, RunInv, MarkInv, MaxLate < RewriteLookback, LandInv, [Next]_vars,
         UNCHANGED <<writeVars, runVars>>
  PROVE  LandInv'
<1>t. /\ source \in [Reading -> Version] /\ TypeOK
  BY DEF HoldInv, TypeOK
<1>1. /\ UNCHANGED <<pc, samples, accepted, written, stored, rejected, dropped>>
      /\ UNCHANGED <<watermark, base, runDoc, runLoaded, runNow>>
  BY DEF writeVars, storeVars, taskVars, historyVars, runVars, runLocals
<1>2. \A r \in Reading : Stamp[r] + MaxLate < clock => source'[r] = source[r]
  <2> SUFFICES ASSUME NEW r \in Reading, Stamp[r] + MaxLate < clock PROVE source'[r] = source[r]
    OBVIOUS
  <2>1. ~(clock <= Stamp[r] + MaxLate)
    BY RunTypes
  <2> QED
    BY <1>t, <2>1, SourceChange
<1>3. RevisionsLand'
  <2> SUFFICES ASSUME watermark # 0, NEW r \in Reading, source'[r] > 0, base < Stamp[r],
                      Stamp[r] <= Settled
               PROVE  Fresh(r)'
    BY <1>1 DEF RevisionsLand, Settled, Fresh
  <2>1. source'[r] = source[r]
    BY <1>2, SettledIsOld
  <2> QED
    BY <1>1, <2>1 DEF LandInv, RevisionsLand, Fresh
<1>4. FreshSamples'
  <2>1. ASSUME pc["run"] \in Fetching, NEW r \in Reading, samples["run"][r] > 0,
               Stamp[r] + MaxLate < runNow
        PROVE  samples["run"][r] = source'[r]
    <3>1. Stamp[r] + MaxLate < clock
      BY <2>1, RunTypes DEF MarkInv, AttemptInv
    <3> QED
      BY <1>2, <2>1, <3>1 DEF LandInv, FreshSamples
  <2> QED
    BY <1>1, <2>1 DEF LandInv, FreshSamples
<1>5. FreshRetry'
  <2> SUFFICES ASSUME pc["run"] # "idle", runDoc = 0, watermark # 0, NEW r \in Reading,
                      source'[r] > 0, base < Stamp[r], Stamp[r] + MaxLate < runLoaded
               PROVE  Fresh(r)'
    BY <1>1 DEF FreshRetry
  <2>1. Stamp[r] + MaxLate < clock
    BY RunTypes DEF RunInv, RunDocInv
  <2> QED
    BY <1>1, <1>2, <2>1 DEF LandInv, FreshRetry, Fresh
<1> QED
  BY <1>3, <1>4, <1>5 DEF LandInv

\* A batch of an attempt does not put an older version in the place of a newer.
LEMMA LandBatch ==
  ASSUME HoldInv, RunInv, MarkInv, MaxLate < RewriteLookback, LandInv, pc["run"] = "write",
         NEW batch \in SUBSET pending["run"], StoreBatch("run", batch) \/ stored' = stored,
         UNCHANGED <<sourceVars, runVars, rejected, dropped, pc, samples, accepted>>,
         \/ written' = written
         \/ written' = [written EXCEPT !["run"] = @ \cup batch] /\ StoreBatch("run", batch)
  PROVE  LandInv'
<1>t. /\ "run" \in Task /\ TaskInv("run") /\ written \in [Task -> SUBSET Reading]
      /\ stored \in [Reading -> Version] /\ batch \subseteq Reading
      /\ accepted \in [Task -> SUBSET Reading] /\ pc["run"] \in Fetching
  BY DEF HoldInv, TypeOK, Task, Fetching, Writing
<1>1. UNCHANGED <<source, watermark, base, runDoc, runLoaded, runNow>>
  BY DEF sourceVars, runVars, runLocals
<1>2. \A r \in Reading : stored'[r] = stored[r] \/ (r \in batch /\ stored'[r] = samples["run"][r])
  BY DEF StoreBatch
<1>3. \A r \in batch : samples["run"][r] > 0
  BY <1>t DEF TaskInv, Present
<1>4. \A r \in Reading : Stamp[r] + MaxLate < runNow /\ Fresh(r) => Fresh(r)'
  BY <1>t, <1>1, <1>2, <1>3 DEF LandInv, FreshSamples, Fresh
<1>5. RevisionsLand'
  <2> SUFFICES ASSUME watermark # 0, NEW r \in Reading, source[r] > 0, base < Stamp[r],
                      Stamp[r] <= Settled
               PROVE  Fresh(r)'
    BY <1>1 DEF RevisionsLand, Settled, Fresh
  <2>1. Fresh(r)
    BY DEF LandInv, RevisionsLand, Fresh
  <2> QED
    BY <1>t, <1>4, <2>1, SettledIsOld
<1>6. FreshSamples'
  <2>1. ASSUME NEW r \in written'["run"] PROVE stored'[r] = samples["run"][r]
    <3>1. r \in Reading /\ (r \in written["run"] \/ r \in batch)
      BY <1>t, <2>1
    <3>2. CASE r \in written["run"]
      BY <1>2, <3>1, <3>2 DEF LandInv, FreshSamples, Writing
    <3>3. CASE r \notin written["run"]
      BY <1>t, <2>1, <3>1, <3>3 DEF StoreBatch
    <3> QED
      BY <3>2, <3>3
  <2> QED
    BY <1>1, <2>1 DEF LandInv, FreshSamples
<1>7. FreshRetry'
  <2> SUFFICES ASSUME pc["run"] # "idle", runDoc = 0, watermark # 0, NEW r \in Reading,
                      source[r] > 0, base < Stamp[r], Stamp[r] + MaxLate < runLoaded
               PROVE  Fresh(r)'
    BY <1>1 DEF FreshRetry
  <2>1. Stamp[r] + MaxLate < runNow
    BY <1>t, RunTypes DEF RunInv, RunFetchInv
  <2> QED
    BY <1>4, <2>1 DEF LandInv, FreshRetry
<1> QED
  BY <1>5, <1>6, <1>7 DEF LandInv

\* Steps that store nothing, change no document and keep the marks.
LEMMA LandTransfer ==
  ASSUME LandInv, UNCHANGED <<source, stored, watermark, base>>,
         rejected \subseteq rejected', dropped \subseteq dropped',
         \/ pc'["run"] # "idle" /\ pc["run"] # "idle" /\ UNCHANGED <<runDoc, runLoaded>>
         \/ pc'["run"] = "idle" \/ runDoc' = watermark,
         FreshSamples'
  PROVE  LandInv'
<1>1. \A r \in Reading : Fresh(r) => Fresh(r)'
  BY DEF Fresh
<1>2. RevisionsLand'
  BY <1>1 DEF LandInv, RevisionsLand, Fresh, Settled
<1>3. FreshRetry'
  BY <1>1 DEF LandInv, FreshRetry
<1> QED
  BY <1>2, <1>3 DEF LandInv

LEMMA LandWrite ==
  ASSUME HoldInv, RunInv, MarkInv, MaxLate < RewriteLookback, LandInv, WriteOnly("run")
  PROVE  LandInv'
<1> USE DEF WriteOnly, WriteStep
<1>t. /\ "run" \in Task /\ pc \in [Task -> PC] /\ TaskInv("run") /\ "backfill" \in Task
      /\ pc["backfill"] = "idle"
  BY DEF HoldInv, TypeOK, Task, LandInv, FreshSamples
<1>1. CASE WriteBatch("run") \/ WriteBatchFails("run")
  <2>1. PICK batch \in SUBSET pending["run"] :
          /\ StoreBatch("run", batch) \/ stored' = stored
          /\ \/ written' = written
             \/ written' = [written EXCEPT !["run"] = @ \cup batch] /\ StoreBatch("run", batch)
    BY <1>1 DEF WriteBatch, WriteBatchFails
  <2>2. pc["run"] = "write" /\ UNCHANGED <<rejected, dropped, pc, samples, accepted>>
    BY <1>1 DEF WriteBatch, WriteBatchFails, historyVars
  <2> QED
    BY <2>1, <2>2, LandBatch
<1>2. CASE EndBatches("run") \/ SummaryGet("run") \/ SummaryPatch("run") \/ EndWrite("run")
  <2>1. /\ UNCHANGED <<source, watermark, base, runDoc, runLoaded, runNow>>
        /\ UNCHANGED <<stored, samples, accepted, written, rejected>>
        /\ pc["run"] \in Writing /\ pc'["run"] \in Writing /\ pc'["backfill"] = "idle"
    BY <1>2, <1>t DEF EndBatches, SummaryGet, SummaryPatch, EndWrite, Goto, Writing, storeVars,
       historyVars, sourceVars, runVars, runLocals
  <2>2. dropped \subseteq dropped'
    BY <1>2 DEF EndBatches, SummaryGet, SummaryPatch, EndWrite, historyVars
  <2>3. \A r \in accepted["run"] :
          written["run"] # {} => stored[r] = samples["run"][r] \/ r \in dropped'
    <3>1. CASE EndBatches("run")
      <4>1. \A r \in written["run"] : stored[r] = samples["run"][r]
        BY <2>1 DEF LandInv, FreshSamples
      <4> QED
        BY <3>1, <4>1 DEF EndBatches
    <3>2. CASE ~EndBatches("run")
      <4>1. pc["run"] \in Writing \ {"write"}
        BY <1>2, <3>2 DEF SummaryGet, SummaryPatch, EndWrite, Writing
      <4> QED
        BY <2>2, <4>1 DEF LandInv, FreshSamples
    <3> QED
      BY <3>1, <3>2
  <2>4. FreshSamples'
    BY <2>1, <2>3 DEF LandInv, FreshSamples, Fetching
  <2>5. pc["run"] # "idle" /\ pc'["run"] # "idle"
    BY <2>1 DEF Writing
  <2> QED
    BY <2>1, <2>2, <2>4, <2>5, LandTransfer
<1> QED
  BY <1>1, <1>2

LEMMA LandRunOutside ==
  ASSUME HoldInv, MarkInv, LandInv, RunLoad \/ RunBegin \/ RunFinish \/ RunFails
  PROVE  LandInv'
<1>t. /\ "run" \in Task /\ pc \in [Task -> PC] /\ samples \in [Task -> [Reading -> Version]]
      /\ pc["backfill"] = "idle" /\ "backfill" \in Task
  BY DEF HoldInv, TypeOK, Task, LandInv, FreshSamples
<1>1. /\ UNCHANGED <<source, stored, watermark, base, rejected, dropped>>
      /\ pc'["run"] \in {"idle", "ready", "fetch"} /\ pc'["backfill"] = "idle"
  BY <1>t DEF RunLoad, RunBegin, RunFinish, RunFails, Goto, sourceVars, storeVars, historyVars
<1>2. \/ pc'["run"] # "idle" /\ pc["run"] # "idle" /\ UNCHANGED <<runDoc, runLoaded>>
      \/ pc'["run"] = "idle" \/ runDoc' = watermark
  BY <1>t DEF RunLoad, RunBegin, RunFinish, RunFails, Goto
<1>3. pc'["run"] \in Fetching => \A r \in Reading : samples'["run"][r] = 0
  <2>1. CASE RunBegin
    BY <2>1 DEF RunBegin, MarkInv, AttemptInv
  <2>2. CASE ~RunBegin
    BY <1>t, <2>2 DEF RunLoad, RunFinish, RunFails, Goto, Fetching, Writing
  <2> QED
    BY <2>1, <2>2
<1>4. FreshSamples'
  BY <1>1, <1>3 DEF FreshSamples, Writing
<1> QED
  BY <1>1, <1>2, <1>4, LandTransfer

LEMMA LandRunFetch ==
  ASSUME HoldInv, LandInv, RunFetch
  PROVE  LandInv'
<1>t. /\ "run" \in Task /\ samples \in [Task -> [Reading -> Version]] /\ TypeOK
      /\ source \in [Reading -> Version]
  BY DEF HoldInv, TypeOK, Task
<1>1. /\ pc["run"] = "fetch" /\ runFrom < runNow
      /\ UNCHANGED <<source, pc, watermark, base, runDoc, runLoaded, runNow, stored, rejected,
                     dropped>>
  BY DEF RunFetch, sourceVars, storeVars, historyVars
<1>2. \A r \in Reading : samples'["run"][r] = samples["run"][r] \/ samples'["run"][r] = source[r]
  BY <1>t DEF RunFetch, KeepNew, Fetch
<1>3. FreshSamples'
  BY <1>1, <1>2 DEF LandInv, FreshSamples, Fetching, Writing
<1> QED
  BY <1>1, <1>3, LandTransfer

LEMMA LandRunFetched ==
  ASSUME HoldInv, LandInv, RunFetched
  PROVE  LandInv'
<1>t. /\ "run" \in Task /\ samples \in [Task -> [Reading -> Version]] /\ TypeOK
      /\ pc \in [Task -> PC] /\ TaskInv("run") /\ "backfill" \in Task
  BY DEF HoldInv, TypeOK, Task
<1>1. /\ pc["run"] = "fetch"
      /\ UNCHANGED <<source, watermark, base, runDoc, runLoaded, runNow, stored, dropped>>
      /\ rejected \subseteq rejected'
  BY DEF RunFetched, BeginWrite, sourceVars, runVars, runLocals, storeVars, historyVars
<1>2. /\ samples'["run"] = samples["run"] /\ written'["run"] = {}
      /\ pc'["run"] \in {"finished", "write"} /\ pc'["backfill"] = pc["backfill"]
  BY <1>t DEF RunFetched, BeginWrite, Goto, TaskInv
<1>3. FreshSamples'
  BY <1>1, <1>2 DEF LandInv, FreshSamples, Fetching, Writing
<1> QED
  BY <1>1, <1>2, <1>3, LandTransfer

\* The step that moves the watermark: what it passes has landed.
LEMMA LandRunAdvance ==
  ASSUME HoldInv, RunInv, MarkInv, MaxLate < RewriteLookback, LandInv, RunAdvance
  PROVE  LandInv'
<1>t. /\ "run" \in Task /\ pc \in [Task -> PC] /\ TaskInv("run") /\ "backfill" \in Task
  BY DEF HoldInv, TypeOK, Task
<1>1. /\ pc["run"] = "written" /\ pc'["run"] = "finished" /\ pc'["backfill"] = pc["backfill"]
      /\ UNCHANGED <<source, samples, stored, rejected, dropped, runDoc, runLoaded, runNow>>
  BY <1>t DEF RunAdvance, Goto, sourceVars, storeVars, historyVars, runLocals
<1>2. FreshSamples'
  BY <1>1 DEF LandInv, FreshSamples, Fetching, Writing
<1>3. CASE ~Advances(Newest)
  <2>1. UNCHANGED <<watermark, base>>
    BY <1>3 DEF RunAdvance
  <2> QED
    BY <1>1, <1>2, <2>1, LandTransfer
<1>4. CASE Advances(Newest)
  <2>1. watermark' = Newest /\ base' = IF watermark = 0 THEN RunReach ELSE base
    BY <1>4 DEF RunAdvance, RunReach
  <2>2. Newest \in Nat /\ Newest <= runNow
    BY <1>1, <1>4, AdvanceForward
  <2>3. /\ runLoaded <= runNow /\ runNow <= clock /\ clock <= runLoaded + RunSpan
        /\ \A r \in Reading :
             source[r] > 0 /\ RunReach < Stamp[r] /\ Stamp[r] <= runNow
               /\ Stamp[r] + MaxLate < runNow => samples["run"][r] > 0
    BY <1>1 DEF RunInv, RunFetchInv, RunDocInv, Fetching, Writing, RunUpTo
  <2>4. ASSUME NEW r \in Reading, source[r] > 0, RunReach < Stamp[r], Stamp[r] + MaxLate < runNow
        PROVE  Fresh(r)
    <3>1. samples["run"][r] > 0
      BY <2>3, <2>4, RunTypes
    <3>2. samples["run"][r] = source[r]
      BY <1>1, <2>4, <3>1 DEF LandInv, FreshSamples, Fetching, Writing
    <3>3. written["run"] # {}
      BY <1>4 DEF Advances
    <3>4. r \in accepted["run"] \/ r \in rejected
      BY <1>1, <1>t, <3>1 DEF TaskInv, Writing, Present
    <3> QED
      BY <1>1, <3>2, <3>3, <3>4 DEF LandInv, FreshSamples, Writing, Fresh
  <2>5. \A r \in Reading : Fresh(r) => Fresh(r)'
    BY <1>1 DEF Fresh
  <2>6. ASSUME watermark # 0, NEW r \in Reading, source[r] > 0, base < Stamp[r],
               Stamp[r] <= RunReach, Stamp[r] <= runNow
        PROVE  Fresh(r)
    <3>1. HistoryStart <= base
      BY <2>6 DEF RunInv, WatermarkInv
    <3>2. CASE runDoc # 0
      <4>1. RunReach = HistoryStart \/ RunReach = runDoc - RewriteLookback
        BY <3>2, RunTypes, RunStartProps DEF RunReach
      <4>2. Stamp[r] <= Settled
        BY <2>6, <3>1, <4>1, RunTypes DEF MarkInv, Settled
      <4> QED
        BY <2>6, <4>2 DEF LandInv, RevisionsLand, Fresh
    <3>3. CASE runDoc = 0
      <4>1. RunReach = HistoryStart \/ RunReach = runNow - LiveLookback - RewriteLookback
        BY <3>3, RunTypes, RunStartProps DEF RunReach
      <4>2. Stamp[r] + MaxLate < runLoaded
        BY <2>3, <2>6, <3>1, <4>1, RunTypes
      <4> QED
        BY <1>1, <2>6, <3>3, <4>2 DEF LandInv, FreshRetry
    <3> QED
      BY <3>2, <3>3
  <2>7. RevisionsLand'
    <3> SUFFICES ASSUME NEW r \in Reading, source[r] > 0, base' < Stamp[r],
                        Stamp[r] <= Newest - RewriteLookback
                 PROVE  Fresh(r)'
      BY <1>1, <2>1 DEF RevisionsLand, Settled, Fresh
    <3>1. Stamp[r] + MaxLate < runNow
      BY <2>2, RunTypes
    <3>2. CASE RunReach < Stamp[r]
      BY <2>4, <2>5, <3>1, <3>2
    <3>3. CASE ~(RunReach < Stamp[r])
      BY <2>1, <2>5, <2>6, <3>1, <3>3, RunTypes
    <3> QED
      BY <3>2, <3>3
  <2>8. FreshRetry'
    <3> SUFFICES ASSUME runDoc = 0, NEW r \in Reading, source[r] > 0, base' < Stamp[r],
                        Stamp[r] + MaxLate < runLoaded
                 PROVE  Fresh(r)'
      BY <1>1 DEF FreshRetry
    <3>1. Stamp[r] + MaxLate < runNow
      BY <2>3, RunTypes
    <3>2. CASE RunReach < Stamp[r]
      BY <2>4, <2>5, <3>1, <3>2
    <3>3. CASE ~(RunReach < Stamp[r])
      BY <2>1, <2>5, <2>6, <3>1, <3>3, RunTypes
    <3> QED
      BY <3>2, <3>3
  <2> QED
    BY <1>2, <2>7, <2>8 DEF LandInv
<1> QED
  BY <1>3, <1>4

LEMMA LandStep ==
  ASSUME BackfillMode = "none", MaxLate < RewriteLookback,
         HoldInv, RunInv, MarkInv, LandInv, [Next]_vars
  PROVE  LandInv'
<1>1. CASE Upstream \/ Time \/ UNCHANGED vars
  BY <1>1, LandUpstream DEF Upstream, Time, vars
<1>2. ASSUME NEW t \in Task, WriteOnly(t) PROVE LandInv'
  <2>1. t = "run"
    BY <1>2 DEF Task, LandInv, FreshSamples, WriteOnly, WriteStep, WriteBatch, WriteBatchFails,
       EndBatches, SummaryGet, SummaryPatch, EndWrite
  <2> QED
    BY <1>2, <2>1, LandWrite
<1>3. CASE RunOwn
  BY <1>3, LandRunOutside, LandRunFetch, LandRunFetched, LandRunAdvance DEF RunOwn
<1> QED
  BY <1>1, <1>2, <1>3, StepCases DEF WalkOwn, PassOwn

\* Revisions land: for a gate without a backfill, which reads again a longer span
\* than the upstream goes on revising, InfluxDB holds the upstream's latest version of
\* everything below that span, whatever fails, and whatever a retry writes again
\* from the document it was loaded with.
THEOREM RevisionSafety ==
  BackfillMode = "none" /\ MaxLate < RewriteLookback => (Spec => []RevisionsLand)
<1> SUFFICES ASSUME BackfillMode = "none", MaxLate < RewriteLookback
             PROVE  Spec => []RevisionsLand
  OBVIOUS
<1>1. Init => LandInv
  <2> SUFFICES ASSUME Init PROVE LandInv
    OBVIOUS
  <2>1. watermark = 0 /\ pc["run"] = "idle" /\ pc["backfill"] = "idle"
    BY DEF Init, RunInit, WriteInit, Task
  <2> QED
    BY <2>1 DEF LandInv, RevisionsLand, FreshSamples, FreshRetry, Fetching, Writing
<1>2. Init => HoldInv /\ RunInv /\ MarkInv
  BY HoldInit, RunInvInit, MarkInit
<1>3. HoldInv /\ RunInv /\ MarkInv /\ LandInv /\ [Next]_vars
        => (HoldInv /\ RunInv /\ MarkInv /\ LandInv)'
  BY HoldStep, RunInvStep, MarkStep, LandStep DEF SourceSettles
<1>4. LandInv => RevisionsLand
  BY DEF LandInv
<1> QED
  BY <1>1, <1>2, <1>3, <1>4, PTL DEF Spec

-------------------------------------------------------------------------------
(* Summaries that are up to date.                                          *)

\* The gates whose two tasks cannot get in each other's way at a summary: those
\* without a backfill; and those with a cursor backfill and one property whose
\* samples are not guarded, where the walk only stores what is older than the
\* watermark and a summary is never behind it.
OneSummary ==
  \/ BackfillMode = "none"
  \/ /\ BackfillMode = "cursor"
     /\ ~Guarded
     /\ \A p, q \in Property : p = q

\* The walk stays below the watermark.
BehindInv ==
  /\ cursor <= watermark /\ bfDoc.cursor <= watermark /\ bfDoc.watermark <= watermark
  /\ bfCursor <= watermark /\ bfFrom <= watermark
  /\ \A r \in Reading : samples["backfill"][r] > 0 => Stamp[r] <= watermark

LEMMA BehindTransfer ==
  ASSUME HoldInv, MarkInv, BehindInv, [Next]_vars,
         UNCHANGED <<cursor, bfDoc, bfCursor, bfFrom>>,
         samples'["backfill"] = samples["backfill"]
  PROVE  BehindInv'
<1>1. watermark <= watermark' /\ watermark' \in Nat
  BY MarkForward, HoldStep, RunTypes DEF HoldInv, TypeOK, Instant
<1> QED
  BY <1>1, RunTypes, StreakTypes DEF BehindInv

LEMMA BehindFetch ==
  ASSUME HoldInv, BehindInv, WalkOwn, BackfillFetch
  PROVE  BehindInv'
<1>t. /\ "backfill" \in Task /\ samples \in [Task -> [Reading -> Version]] /\ TypeOK
  BY DEF HoldInv, TypeOK, Task
<1>1. /\ bfCursor > Floor
      /\ UNCHANGED <<cursor, bfDoc, watermark>>
  BY DEF BackfillFetch, backfillState, WalkOwn, runVars
<1> DEFINE a == LowerBound(bfCursor)
<1>2. PICK inclusive \in BOOLEAN :
        LET got == KeepWalkingBack(Fetch(a, bfCursor, inclusive), bfCursor) IN
        \/ /\ bfCursor' = a
           /\ UNCHANGED <<samples, bfFrom>>
        \/ /\ bfFrom' = a
           /\ BeginWrite("backfill", got)
           /\ UNCHANGED bfCursor
  BY DEF BackfillFetch, taskVars
<1>3. a \in Nat /\ a <= bfCursor
  BY <1>1, WalkTypes DEF LowerBound
<1> HIDE DEF a
<1> DEFINE got == KeepWalkingBack(Fetch(a, bfCursor, inclusive), bfCursor)
<1>4. \A r \in Reading : got[r] > 0 => Stamp[r] <= bfCursor
  BY DEF KeepWalkingBack, KeepAtCursor
<1> HIDE DEF got
<1>5. CASE bfCursor' = a /\ UNCHANGED <<samples, bfFrom>>
  BY <1>1, <1>3, <1>5, RunTypes, StreakTypes DEF BehindInv
<1>6. CASE bfFrom' = a /\ BeginWrite("backfill", got) /\ UNCHANGED bfCursor
  <2>1. samples'["backfill"] = got
    BY <1>6, <1>t DEF BeginWrite
  <2> QED
    BY <1>1, <1>3, <1>4, <1>6, <2>1, RunTypes, StreakTypes DEF BehindInv
<1> QED
  BY <1>2, <1>5, <1>6 DEF got

LEMMA BehindWalk ==
  ASSUME HoldInv, BehindInv, WalkOwn
  PROVE  BehindInv'
<1>t. /\ "backfill" \in Task /\ samples \in [Task -> [Reading -> Version]]
      /\ watermark \in Nat /\ bfCursor \in Nat /\ UNCHANGED watermark
  BY StreakTypes DEF HoldInv, TypeOK, Task, WalkOwn, runVars
<1>1. ASSUME NEW dry \in BOOLEAN, BackfillLoad(watermark, dry) PROVE BehindInv'
  BY <1>t, <1>1 DEF BackfillLoad, backfillState, BehindInv
<1>2. CASE BackfillSkip \/ BackfillReachesFloor \/ BackfillLoopEnds
  BY <1>t, <1>2 DEF BackfillSkip, BackfillReachesFloor, BackfillLoopEnds, backfillVars,
     backfillState, backfillLocals, BehindInv
<1>3. CASE BackfillBegin
  BY <1>t, <1>3 DEF BackfillBegin, backfillState, BehindInv
<1>4. CASE BackfillFetch
  BY <1>4, BehindFetch
<1>5. CASE BackfillWritten
  BY <1>t, <1>5 DEF BackfillWritten, CursorAfter, Forget, Nothing, backfillState, BehindInv
<1>6. CASE BackfillSave
  BY <1>t, <1>6 DEF BackfillSave, backfillState, backfillLocals, BehindInv
<1>7. CASE BackfillFinish \/ BackfillFails
  BY <1>t, <1>7 DEF BackfillFinish, BackfillFails, BackfillForget, Forget, Nothing, NoDoc,
     backfillState, BehindInv
<1> QED
  BY <1>1, <1>2, <1>3, <1>4, <1>5, <1>6, <1>7 DEF WalkOwn

LEMMA BehindStep ==
  ASSUME HoldInv, MarkInv, BehindInv, [Next]_vars, BackfillMode # "stateless"
  PROVE  BehindInv'
<1>1. CASE Upstream \/ Time \/ UNCHANGED vars
  BY <1>1, BehindTransfer DEF Upstream, Time, vars, writeVars, taskVars, backfillVars,
     backfillState, backfillLocals
<1>2. ASSUME NEW t \in Task, WriteOnly(t) PROVE BehindInv'
  BY <1>2, WriteFromWalk, BehindTransfer DEF WriteOnly, backfillVars, backfillState,
     backfillLocals
<1>3. CASE RunOwn
  <2>1. TaskFrame("backfill") /\ UNCHANGED backfillVars
    BY <1>3, RunFrame DEF HoldInv, RunOwn
  <2> QED
    BY <2>1, BehindTransfer DEF TaskFrame, backfillVars, backfillState, backfillLocals
<1>4. CASE WalkOwn
  BY <1>4, BehindWalk
<1> QED
  BY <1>1, <1>2, <1>3, <1>4, StepCases DEF PassOwn

\* The guard of a gate without cumulative properties refuses nothing.
RefusesNothing == ~Guarded => rejected = {}

LEMMA RefusesStep ==
  ASSUME RefusesNothing, [Next]_vars
  PROVE  RefusesNothing'
<1>1. \A t, batch : BeginWrite(t, batch) => RefusesNothing'
  BY DEF BeginWrite, RefusesNothing
<1>2. CASE UNCHANGED rejected
  BY <1>2 DEF RefusesNothing
<1>3. CASE Upstream \/ Time \/ UNCHANGED vars
  BY <1>2, <1>3 DEF Upstream, Time, vars, writeVars, historyVars
<1>4. ASSUME NEW t \in Task, WriteOnly(t) PROVE RefusesNothing'
  BY <1>2, <1>4 DEF WriteOnly, WriteStep, WriteBatch, WriteBatchFails, EndBatches, SummaryGet,
     SummaryPatch, EndWrite, historyVars
<1>5. CASE RunOwn
  BY <1>1, <1>2, <1>5 DEF RunOwn, RunLoad, RunBegin, RunFetch, RunFetched, RunAdvance, RunFinish,
     RunFails, historyVars
<1>6. CASE WalkOwn
  <2>1. CASE BackfillFetch
    <3>1. (\E batch : BeginWrite("backfill", batch)) \/ UNCHANGED historyVars
      BY <2>1 DEF BackfillFetch
    <3> QED
      BY <1>1, <1>2, <3>1 DEF historyVars
  <2>2. CASE ~BackfillFetch
    BY <1>2, <1>6, <2>2 DEF WalkOwn, BackfillLoad, BackfillSkip, BackfillBegin,
       BackfillReachesFloor, BackfillLoopEnds, BackfillWritten, BackfillSave, BackfillFinish,
       BackfillFails, historyVars
  <2> QED
    BY <2>1, <2>2
<1>7. CASE PassOwn
  BY <1>1, <1>2, <1>7 DEF PassOwn, PassLoad, PassBegin, PassFetch, PassWritten, PassEnds,
     PassFinish, PassFails, writeVars, historyVars
<1> QED
  BY <1>3, <1>4, <1>5, <1>6, <1>7, StepCases
\* The stored reading r is newer than its summary only while the run has it among
\* the batches written, or its property among the summaries to refresh.
Due(r) ==
  \/ pc["run"] = "write" /\ r \in written["run"]
  \/ pc["run"] \in {"refresh", "patch"} /\ r \in accepted["run"] /\ PropOf[r] \in toRefresh["run"]

CurrentInv ==
  /\ BackfillMode = "none" => pc["backfill"] = "idle"
  /\ pc["run"] = "patch" => seen["run"][1] \in toRefresh["run"]
  /\ faults = 0 =>
       /\ \A r \in Reading : stored[r] > 0 => Stamp[r] <= lastReadingAt[PropOf[r]] \/ Due(r)
       /\ pc["run"] = "patch" => seen["run"][2] = lastReadingAt[seen["run"][1]]
       /\ pc["backfill"] = "patch" =>
            \A r \in accepted["backfill"] : Stamp[r] <= seen["backfill"][2]
       /\ BackfillMode = "cursor" => \A p \in Property : watermark <= lastReadingAt[p]

LEMMA ShowTypes ==
  ASSUME HoldInv
  PROVE  /\ lastReadingAt \in [Property -> Nat] /\ PropOf \in [Reading -> Property]
         /\ Stamp \in [Reading -> Nat] /\ watermark \in Nat /\ stored \in [Reading -> Version]
         /\ seen \in [Task -> (Property \cup {"none"}) \X Nat] /\ faults \in Nat
         /\ pc \in [Task -> PC] /\ "run" \in Task /\ "backfill" \in Task
         /\ accepted \in [Task -> SUBSET Reading] /\ written \in [Task -> SUBSET Reading]
         /\ pending \in [Task -> SUBSET Reading] /\ toRefresh \in [Task -> SUBSET Property]
BY ConstantTypes DEF HoldInv, TypeOK, Task, Instant

\* Steps outside the run's write path, with the summaries, the store and the
\* watermark as they were.
LEMMA CurrentTransfer ==
  ASSUME HoldInv, CurrentInv, [Next]_vars,
         UNCHANGED <<stored, lastReadingAt, watermark>>,
         pc'["backfill"] = "patch" => pc["backfill"] = "patch" /\ UNCHANGED <<accepted, seen>>,
         BackfillMode = "none" => pc'["backfill"] = "idle",
         \/ TaskFrame("run")
         \/ pc["run"] \notin {"write", "refresh", "patch"} /\ pc'["run"] # "patch"
  PROVE  CurrentInv'
<1>1. faults' = 0 => faults = 0
  BY FaultsGrow DEF HoldInv
<1>2. \A r \in Reading : Due(r) => Due(r)'
  BY DEF Due, TaskFrame
<1>3. pc'["run"] = "patch" => pc["run"] = "patch" /\ TaskFrame("run")
  BY DEF TaskFrame
<1> QED
  BY <1>1, <1>2, <1>3 DEF CurrentInv, TaskFrame

LEMMA CurrentRunOwn ==
  ASSUME HoldInv, MarkInv, CurrentInv, AccountInv("run"), RefusesNothing, OneSummary,
         [Next]_vars, RunOwn
  PROVE  CurrentInv'
<1>t. /\ pc \in [Task -> PC] /\ "run" \in Task /\ TypeOK /\ TaskInv("run")
  BY DEF HoldInv, TypeOK, Task
<1>f. TaskFrame("backfill")
  BY <1>t, RunFrame
<1>1. CASE RunFails
  <2>1. faults' # 0
    BY <1>1, ShowTypes DEF RunFails, Fault
  <2>2. pc'["run"] # "patch"
    BY <1>1, <1>t DEF RunFails, Goto
  <2> QED
    BY <1>f, <2>1, <2>2 DEF CurrentInv, TaskFrame
<1>2. CASE RunLoad \/ RunBegin \/ RunFetch \/ RunFetched \/ RunFinish
  <2>1. /\ UNCHANGED <<stored, lastReadingAt, watermark>>
        /\ pc["run"] \notin {"write", "refresh", "patch"} /\ pc'["run"] # "patch"
    BY <1>2, <1>t DEF RunLoad, RunBegin, RunFetch, RunFetched, RunFinish, BeginWrite, Goto,
       storeVars, runVars
  <2>2. pc'["backfill"] = "patch" =>
          pc["backfill"] = "patch" /\ accepted'["backfill"] = accepted["backfill"]
            /\ seen'["backfill"] = seen["backfill"]
    BY <1>f DEF TaskFrame
  <2>3. faults' = 0 => faults = 0
    BY <1>t, FaultsGrow
  <2>4. \A r \in Reading : ~Due(r)
    BY <2>1 DEF Due
  <2> QED
    BY <1>f, <2>1, <2>2, <2>3, <2>4 DEF CurrentInv, TaskFrame
<1>3. CASE RunAdvance
  <2>1. /\ pc["run"] = "written" /\ pc'["run"] = "finished"
        /\ UNCHANGED <<stored, lastReadingAt, faults>>
    BY <1>3, <1>t DEF RunAdvance, Goto, storeVars
  <2>2. \A r \in Reading : ~Due(r)
    BY <2>1 DEF Due
  <2>3. ASSUME faults = 0, BackfillMode = "cursor", NEW p \in Property
        PROVE  watermark' <= lastReadingAt[p]
    <3>1. CASE ~Advances(Newest)
      BY <1>3, <2>3, <3>1 DEF RunAdvance, CurrentInv
    <3>2. CASE Advances(Newest)
      <4>1. watermark' = Newest /\ written["run"] # {}
        BY <1>3, <3>2 DEF RunAdvance, Advances
      <4>2. PICK n \in Present(samples["run"]) : Stamp[n] = Newest
        BY <1>t, <4>1, NewestType DEF HoldInv
      <4>3. ~Guarded /\ \A q \in Property : p = q
        BY <2>3 DEF OneSummary
      <4>4. n \in accepted["run"]
        BY <1>t, <2>1, <4>2, <4>3 DEF TaskInv, Writing, RefusesNothing
      <4>5. n \in Reading /\ stored[n] > 0
        BY <1>t, <2>1, <2>3, <4>2, <4>4 DEF AccountInv, Writing, TaskInv, Present
      <4>6. Stamp[n] <= lastReadingAt[PropOf[n]]
        BY <2>2, <2>3, <4>5 DEF CurrentInv
      <4> QED
        BY <4>1, <4>2, <4>3, <4>5, <4>6, ShowTypes
    <3> QED
      BY <3>1, <3>2
  <2> QED
    BY <1>f, <2>1, <2>2, <2>3 DEF CurrentInv, TaskFrame
<1> QED
  BY <1>1, <1>2, <1>3 DEF RunOwn

LEMMA CurrentWalk ==
  ASSUME HoldInv, CurrentInv, [Next]_vars, WalkOwn
  PROVE  CurrentInv'
<1>1. Quiet("backfill") /\ TaskFrame("run") /\ watermark' = watermark /\ BackfillMode = "cursor"
  BY WalkQuiet, WalkFrame DEF HoldInv, WalkOwn, runVars
<1>2. stored' = stored
  <2>1. CASE BackfillFetch
    BY <2>1 DEF BackfillFetch, BeginWrite, storeVars
  <2>2. CASE ~BackfillFetch
    BY <2>2 DEF WalkOwn, BackfillLoad, BackfillSkip, BackfillBegin, BackfillReachesFloor,
       BackfillLoopEnds, BackfillWritten, BackfillSave, BackfillFinish, BackfillFails, storeVars
  <2> QED
    BY <2>1, <2>2
<1> QED
  BY <1>1, <1>2, CurrentTransfer DEF Quiet

\* The run's write path: what it stores is due, and what is due is shown.
LEMMA CurrentRunWrite ==
  ASSUME HoldInv, CurrentInv, [Next]_vars, WriteOnly("run")
  PROVE  CurrentInv'
<1> USE DEF WriteOnly, WriteStep
<1>t. /\ TypeOK /\ PublishedInv /\ TaskInv("run") /\ "run" \in Task /\ "backfill" \in Task
      /\ watermark' = watermark
  BY DEF HoldInv, Task, runVars
<1>f. TaskFrame("backfill")
  BY <1>t, WriteFrame
<1>g. faults' = 0 => faults = 0
  BY <1>t, FaultsGrow
<1>1. CASE WriteBatchFails("run")
  <2>1. faults' # 0 /\ pc' = pc /\ pc["run"] # "patch"
    BY <1>1, ShowTypes DEF WriteBatchFails, Fault
  <2> QED
    BY <1>f, <2>1 DEF CurrentInv, TaskFrame
<1>2. CASE WriteBatch("run")
  <2>1. /\ pc["run"] = "write" /\ UNCHANGED <<pc, lastReadingAt, faults>>
        /\ \A r \in Reading : stored'[r] = stored[r] \/ r \in written'["run"]
        /\ written["run"] \subseteq written'["run"]
    BY <1>2, ShowTypes DEF WriteBatch, StoreBatch
  <2>2. \A r \in Reading : stored'[r] > 0 => stored[r] > 0 \/ Due(r)'
    BY <2>1 DEF Due
  <2>3. \A r \in Reading : Due(r) => Due(r)'
    BY <2>1 DEF Due
  <2> QED
    BY <1>f, <1>t, <2>1, <2>2, <2>3 DEF CurrentInv, TaskFrame
<1>3. CASE EndBatches("run")
  <2>1. /\ pc["run"] = "write" /\ pc'["run"] = "refresh"
        /\ UNCHANGED <<stored, lastReadingAt, accepted, faults>>
        /\ written["run"] # {} => toRefresh'["run"] = PropertiesOf(accepted["run"])
    BY <1>3, ShowTypes DEF EndBatches, SummariesToRefresh, PropertiesOf, Goto, storeVars
  <2>2. \A r \in Reading : Due(r) => Due(r)'
    BY <1>t, <2>1 DEF Due, TaskInv, PropertiesOf
  <2> QED
    BY <1>f, <1>t, <2>1, <2>2 DEF CurrentInv, TaskFrame
<1>4. CASE SummaryGet("run")
  <2>1. /\ pc["run"] = "refresh" /\ pc'["run"] = "patch"
        /\ UNCHANGED <<stored, lastReadingAt, accepted, toRefresh>>
        /\ seen'["run"][1] \in toRefresh["run"]
        /\ faults' = 0 => seen'["run"][2] = lastReadingAt[seen'["run"][1]]
    BY <1>4, ShowTypes DEF SummaryGet, Fault, Goto, storeVars
  <2>2. \A r \in Reading : Due(r) => Due(r)'
    BY <2>1 DEF Due
  <2> QED
    BY <1>f, <1>g, <1>t, <2>1, <2>2 DEF CurrentInv, TaskFrame
<1>5. CASE SummaryPatch("run")
  <2> DEFINE p == seen["run"][1]
  <2> DEFINE want == NewestPoint("run", p)
  <2>1. /\ pc["run"] = "patch" /\ pc'["run"] = "refresh"
        /\ UNCHANGED <<stored, accepted>>
        /\ toRefresh'["run"] = toRefresh["run"] \ {p}
    BY <1>5, ShowTypes DEF SummaryPatch, Goto
  <2>2. p \in PropertiesOf(accepted["run"]) /\ p \in Property
    BY <1>t, <2>1, ShowTypes DEF TaskInv, PropertiesOf
  <2>3. want \in Nat /\ \A r \in accepted["run"] : PropOf[r] = p => Stamp[r] <= want
    BY <1>t, <2>2, NewestPointType
  <2>4. faults' = 0 =>
          \/ want > seen["run"][2] /\ lastReadingAt' = [lastReadingAt EXCEPT ![p] = want]
          \/ ~(want > seen["run"][2]) /\ lastReadingAt' = lastReadingAt
    BY <1>5, ShowTypes DEF SummaryPatch, IsNewer, Fault
  <2>5. faults = 0 => seen["run"][2] = lastReadingAt[p]
    BY <2>1 DEF CurrentInv
  <2> HIDE DEF p, want
  <2>6. faults' = 0 => /\ want <= lastReadingAt'[p]
                       /\ \A q \in Property : lastReadingAt[q] <= lastReadingAt'[q]
    BY <1>g, <2>2, <2>3, <2>4, <2>5, ShowTypes
  <2>7. ASSUME faults' = 0, NEW r \in Reading, stored[r] > 0
        PROVE  Stamp[r] <= lastReadingAt'[PropOf[r]] \/ Due(r)'
    <3>1. CASE Stamp[r] <= lastReadingAt[PropOf[r]]
      <4>1. lastReadingAt' \in [Property -> Nat]
        BY HoldStep DEF HoldInv, TypeOK, Instant
      <4> QED
        BY <2>6, <2>7, <3>1, <4>1, ShowTypes
    <3>2. CASE Due(r) /\ PropOf[r] = p
      <4>1. Stamp[r] <= want /\ lastReadingAt'[p] \in Nat
        BY <2>1, <2>2, <2>3, <3>2, HoldStep DEF Due, HoldInv, TypeOK, Instant
      <4> QED
        BY <2>3, <2>6, <2>7, <3>2, <4>1, ShowTypes
    <3>3. CASE Due(r) /\ PropOf[r] # p
      BY <2>1, <3>3 DEF Due
    <3> QED
      BY <1>g, <2>7, <3>1, <3>2, <3>3 DEF CurrentInv
  <2>8. lastReadingAt' \in [Property -> Nat]
    BY HoldStep DEF HoldInv, TypeOK, Instant
  <2>9. ASSUME faults' = 0, BackfillMode = "cursor", NEW q \in Property
        PROVE  watermark <= lastReadingAt'[q]
    BY <1>g, <2>6, <2>8, <2>9, ShowTypes DEF CurrentInv
  <2> QED
    BY <1>f, <1>g, <1>t, <2>1, <2>7, <2>9 DEF CurrentInv, TaskFrame
<1>6. CASE EndWrite("run")
  <2>1. /\ pc["run"] = "refresh" /\ pc'["run"] = "written" /\ toRefresh["run"] = {}
        /\ UNCHANGED <<stored, lastReadingAt, faults>>
    BY <1>6, ShowTypes DEF EndWrite, Goto, storeVars
  <2>2. \A r \in Reading : ~Due(r)
    BY <2>1 DEF Due
  <2> QED
    BY <1>f, <1>t, <2>1, <2>2 DEF CurrentInv, TaskFrame
<1> QED
  BY <1>1, <1>2, <1>3, <1>4, <1>5, <1>6

\* The write path of the walk: it stores nothing newer than the watermark, so its
\* comparison with the summary never lets it patch one.
LEMMA CurrentWalkWrite ==
  ASSUME HoldInv, CurrentInv, BehindInv, BackfillMode = "cursor", [Next]_vars,
         WriteOnly("backfill")
  PROVE  CurrentInv'
<1> USE DEF WriteOnly, WriteStep
<1>t. /\ TypeOK /\ PublishedInv /\ TaskInv("backfill") /\ "run" \in Task /\ "backfill" \in Task
      /\ watermark' = watermark
  BY DEF HoldInv, Task, runVars
<1>f. TaskFrame("run")
  BY <1>t, WriteFrame
<1>g. faults' = 0 => faults = 0
  BY <1>t, FaultsGrow
<1>d. \A r \in Reading : Due(r) => Due(r)'
  BY <1>f DEF Due, TaskFrame
<1>b. \A r \in accepted["backfill"] : r \in Reading /\ Stamp[r] <= watermark
  BY <1>t, ShowTypes DEF BehindInv, TaskInv, Present
<1>1. CASE WriteBatchFails("backfill")
  <2>1. faults' # 0 /\ pc' = pc
    BY <1>1, ShowTypes DEF WriteBatchFails, Fault
  <2> QED
    BY <1>f, <2>1 DEF CurrentInv, TaskFrame
<1>2. CASE WriteBatch("backfill")
  <2>1. /\ pc["backfill"] = "write" /\ UNCHANGED <<pc, lastReadingAt, faults>>
        /\ \A r \in Reading : stored'[r] = stored[r] \/ r \in accepted["backfill"]
    BY <1>2, <1>t, ShowTypes DEF WriteBatch, StoreBatch, TaskInv
  <2>2. ASSUME faults = 0, NEW r \in Reading, stored'[r] > 0
        PROVE  Stamp[r] <= lastReadingAt[PropOf[r]] \/ Due(r)'
    <3>1. CASE stored'[r] = stored[r]
      BY <1>d, <2>2, <3>1 DEF CurrentInv
    <3>2. CASE r \in accepted["backfill"]
      <4>1. watermark <= lastReadingAt[PropOf[r]]
        BY <2>2, ShowTypes DEF CurrentInv
      <4> QED
        BY <1>b, <3>2, <4>1, ShowTypes
    <3> QED
      BY <2>1, <3>1, <3>2
  <2> QED
    BY <1>f, <1>t, <2>1, <2>2 DEF CurrentInv, TaskFrame
<1>3. CASE EndBatches("backfill") \/ EndWrite("backfill")
  <2>1. /\ pc'["backfill"] # "patch" /\ UNCHANGED <<stored, lastReadingAt, faults>>
    BY <1>3, ShowTypes DEF EndBatches, EndWrite, Goto, storeVars
  <2> QED
    BY <1>d, <1>f, <1>t, <2>1 DEF CurrentInv, TaskFrame
<1>4. CASE SummaryGet("backfill")
  <2>1. /\ UNCHANGED <<stored, lastReadingAt, accepted>>
        /\ faults' = 0 =>
             \E p \in toRefresh["backfill"] : seen'["backfill"][2] = lastReadingAt[p]
    BY <1>4, ShowTypes DEF SummaryGet, Fault, storeVars
  <2>2. ASSUME faults' = 0, NEW r \in accepted["backfill"]
        PROVE  Stamp[r] <= seen'["backfill"][2]
    <3>1. PICK p \in Property : seen'["backfill"][2] = lastReadingAt[p]
      BY <2>1, <2>2, ShowTypes
    <3>2. watermark <= lastReadingAt[p]
      BY <1>g, <2>2 DEF CurrentInv
    <3> QED
      BY <1>b, <2>2, <3>1, <3>2, ShowTypes
  <2> QED
    BY <1>d, <1>f, <1>g, <1>t, <2>1, <2>2 DEF CurrentInv, TaskFrame
<1>5. CASE SummaryPatch("backfill")
  <2> DEFINE p == seen["backfill"][1]
  <2>1. pc["backfill"] = "patch" /\ pc'["backfill"] = "refresh" /\ stored' = stored
    BY <1>5, ShowTypes DEF SummaryPatch, Goto
  <2>2. faults = 0 => ~(NewestPoint("backfill", p) > seen["backfill"][2])
    <3>1. p \in PropertiesOf(accepted["backfill"])
      BY <1>t, <2>1 DEF TaskInv
    <3>2. PICK r \in accepted["backfill"] : Stamp[r] = NewestPoint("backfill", p)
      BY <1>t, <3>1, NewestPointType
    <3>3. faults = 0 => Stamp[r] <= seen["backfill"][2]
      BY <2>1, <3>2 DEF CurrentInv
    <3> QED
      BY <1>b, <3>2, <3>3, ShowTypes
  <2>3. faults' = 0 => lastReadingAt' = lastReadingAt
    BY <1>5, <1>g, <2>2 DEF SummaryPatch, IsNewer
  <2> QED
    BY <1>d, <1>f, <1>g, <1>t, <2>1, <2>3 DEF CurrentInv, TaskFrame
<1> QED
  BY <1>1, <1>2, <1>3, <1>4, <1>5

ShowInv == CurrentInv /\ BehindInv /\ RefusesNothing /\ \A t \in Task : AccountInv(t)

LEMMA ShowStep ==
  ASSUME OneSummary, HoldInv, MarkInv, ShowInv, [Next]_vars
  PROVE  ShowInv'
<1>i. /\ CurrentInv /\ BehindInv /\ RefusesNothing /\ AccountInv("run")
      /\ BackfillMode # "stateless"
  BY DEF ShowInv, Task, OneSummary
<1>1. BehindInv' /\ RefusesNothing' /\ \A t \in Task : AccountInv(t)'
  BY <1>i, BehindStep, RefusesStep, AccountStep DEF ShowInv
<1>2. CurrentInv'
  <2>1. CASE Upstream \/ Time \/ UNCHANGED vars
    BY <1>i, <2>1, CurrentTransfer DEF Upstream, Time, vars, writeVars, storeVars, taskVars,
       runVars, TaskFrame, CurrentInv
  <2>2. ASSUME NEW t \in Task, WriteOnly(t) PROVE CurrentInv'
    <3>1. CASE t = "run"
      BY <1>i, <2>2, <3>1, CurrentRunWrite
    <3>2. CASE t = "backfill"
      <4>1. pc["backfill"] # "idle"
        BY <2>2, <3>2 DEF WriteOnly, WriteStep, WriteBatch, WriteBatchFails, EndBatches,
           SummaryGet, SummaryPatch, EndWrite
      <4>2. BackfillMode = "cursor"
        BY <1>i, <4>1 DEF CurrentInv, OneSummary
      <4> QED
        BY <1>i, <2>2, <3>2, <4>2, CurrentWalkWrite
    <3> QED
      BY <3>1, <3>2 DEF Task
  <2>3. CASE RunOwn
    BY <1>i, <2>3, CurrentRunOwn
  <2>4. CASE WalkOwn
    BY <1>i, <2>4, CurrentWalk
  <2> QED
    BY <1>i, <2>1, <2>2, <2>3, <2>4, StepCases DEF PassOwn
<1> QED
  BY <1>1, <1>2 DEF ShowInv

LEMMA ShowInit == Init => ShowInv
<1> SUFFICES ASSUME Init PROVE ShowInv
  OBVIOUS
<1>1. /\ watermark = 0 /\ cursor = 0 /\ bfDoc = NoDoc /\ bfCursor = 0 /\ bfFrom = 0
      /\ rejected = {} /\ stored = Nothing /\ lastReadingAt = [p \in Property |-> 0]
      /\ pc = [t \in Task |-> "idle"] /\ samples = [t \in Task |-> Nothing]
  BY DEF Init, RunInit, BackfillInit, WriteInit
<1>2. CurrentInv
  BY <1>1, ConstantTypes DEF CurrentInv, Nothing, Task
<1>3. BehindInv
  BY <1>1 DEF BehindInv, Nothing, NoDoc, Task
<1>4. \A t \in Task : AccountInv(t)
  BY <1>1 DEF AccountInv, Writing
<1> QED
  BY <1>1, <1>2, <1>3, <1>4 DEF ShowInv, RefusesNothing

\* As long as no call failed, a summary shows the newest stored reading whenever no
\* task is in its write path: for a gate without a backfill, and for one with a
\* cursor backfill, one property and no guard.  (With two properties the walk can
\* be ahead of a property's summary, and the two tasks' GETs and POSTs interleave.)
THEOREM CurrentSafety == OneSummary => (Spec => []SummaryIsCurrent)
<1> SUFFICES ASSUME OneSummary PROVE Spec => []SummaryIsCurrent
  OBVIOUS
<1>1. Init => HoldInv /\ MarkInv /\ ShowInv
  BY HoldInit, MarkInit, ShowInit
<1>2. HoldInv /\ MarkInv /\ ShowInv /\ [Next]_vars => (HoldInv /\ MarkInv /\ ShowInv)'
  BY HoldStep, MarkStep, ShowStep
<1>3. ShowInv => SummaryIsCurrent
  <2> SUFFICES ASSUME ShowInv, faults = 0,
                      \A t \in Task : pc[t] \in {"idle", "ready", "fetch", "written", "save", "finished"},
                      NEW r \in Reading, stored[r] > 0
               PROVE  Stamp[r] <= lastReadingAt[PropOf[r]]
    BY DEF SummaryIsCurrent
  <2>1. ~Due(r)
    BY DEF Due, Task
  <2> QED
    BY <2>1 DEF ShowInv, CurrentInv
<1> QED
  BY <1>1, <1>2, <1>3, PTL DEF Spec

\* Where the two tasks do not both refresh it, a summary moves forward only.
LEMMA ShowForward ==
  ASSUME OneSummary, HoldInv, ShowInv, [Next]_vars, faults' = 0
  PROVE  \A p \in Property : lastReadingAt'[p] >= lastReadingAt[p]
<1>t. /\ TypeOK /\ PublishedInv /\ \A t \in Task : TaskInv(t)
      /\ CurrentInv /\ BehindInv /\ BackfillMode # "stateless" /\ faults = 0
  BY FaultsGrow DEF HoldInv, ShowInv, OneSummary
<1>k. ASSUME UNCHANGED lastReadingAt PROVE \A p \in Property : lastReadingAt'[p] >= lastReadingAt[p]
  BY <1>k, ShowTypes
<1>1. CASE Upstream \/ Time \/ UNCHANGED vars
  BY <1>1, <1>k DEF Upstream, Time, vars, writeVars, storeVars
<1>2. ASSUME NEW t \in Task, WriteOnly(t)
      PROVE  \A p \in Property : lastReadingAt'[p] >= lastReadingAt[p]
  <2>1. CASE SummaryPatch(t)
    <3> DEFINE p == seen[t][1]
               want == NewestPoint(t, p)
    <3>1. pc[t] = "patch"
      BY <2>1 DEF SummaryPatch
    <3>2. p \in PropertiesOf(accepted[t]) /\ p \in Property
      BY <1>t, <3>1, ShowTypes DEF TaskInv, PropertiesOf
    <3>3. want \in Nat /\ \E r \in accepted[t] : Stamp[r] = want
      BY <1>t, <3>2, NewestPointType
    <3>4. \/ want > seen[t][2] /\ lastReadingAt' = [lastReadingAt EXCEPT ![p] = want]
          \/ UNCHANGED lastReadingAt
      BY <2>1 DEF SummaryPatch, IsNewer
    <3>5. CASE t = "run"
      <4>1. seen["run"][2] = lastReadingAt[p]
        BY <1>t, <3>1, <3>5 DEF CurrentInv
      <4> HIDE DEF p, want
      <4> QED
        BY <3>2, <3>3, <3>4, <3>5, <4>1, ShowTypes
    <3>6. CASE t = "backfill"
      <4>1. \A r \in accepted["backfill"] : Stamp[r] <= seen["backfill"][2]
        BY <1>t, <3>1, <3>6 DEF CurrentInv
      <4>2. seen["backfill"][2] \in Nat
        BY ShowTypes DEF Task
      <4> HIDE DEF p, want
      <4>3. ~(want > seen[t][2])
        BY <3>3, <3>6, <4>1, <4>2
      <4> QED
        BY <1>k, <3>4, <4>3
    <3> QED
      BY <3>5, <3>6 DEF Task
  <2>2. CASE ~SummaryPatch(t)
    BY <1>2, <1>k, <2>2 DEF WriteOnly, WriteStep, WriteBatch, WriteBatchFails, EndBatches,
       SummaryGet, EndWrite, storeVars
  <2> QED
    BY <2>1, <2>2
<1>3. CASE RunOwn
  BY <1>3, <1>k DEF RunOwn, RunLoad, RunBegin, RunFetch, RunFetched, RunAdvance, RunFinish,
     RunFails, BeginWrite, storeVars
<1>4. CASE WalkOwn
  <2>1. UNCHANGED storeVars
    BY <1>4 DEF WalkOwn, BackfillLoad, BackfillSkip, BackfillBegin, BackfillFetch,
       BackfillReachesFloor, BackfillLoopEnds, BackfillWritten, BackfillSave, BackfillFinish,
       BackfillFails, BeginWrite, writeVars
  <2> QED
    BY <1>k, <2>1 DEF storeVars
<1> QED
  BY <1>t, <1>1, <1>2, <1>3, <1>4, StepCases DEF PassOwn

\* What README.md promises of every summary holds where the race of two tasks for it
\* cannot happen, and no call fails: it never moves back, whatever is published late,
\* revised or walked over.
THEOREM ForwardSafety == OneSummary /\ MaxFaults = 0 => (Spec => SummaryMonotone)
<1> SUFFICES ASSUME OneSummary, MaxFaults = 0 PROVE Spec => SummaryMonotone
  OBVIOUS
<1> DEFINE Forward == \A p \in Property : lastReadingAt'[p] >= lastReadingAt[p]
           Calm == faults = 0 /\ HoldInv /\ MarkInv /\ ShowInv
<1>1. Init => Calm
  BY HoldInit, MarkInit, ShowInit DEF Init, WriteInit
<1>2. Calm /\ [Next]_vars => Calm'
  BY HoldStep, MarkStep, ShowStep, FaultsGrow DEF HoldInv
<1>3. Calm /\ [Next]_vars => [Forward]_vars
  BY <1>2, ShowForward
<1> QED
  BY <1>1, <1>2, <1>3, PTL DEF Spec, SummaryMonotone
===============================================================================
