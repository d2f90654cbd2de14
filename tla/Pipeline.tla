------------------------------- MODULE Pipeline -------------------------------
(***************************************************************************)
(* One Device with its run DAG and its backfill DAG, concurrently, against *)
(* one upstream, one InfluxDB bucket and one Orion-LD broker.              *)
(***************************************************************************)
EXTENDS RunDag, BackfillDag, StatelessBackfill

CONSTANT BackfillMode    \* Gate.backfill_mode

ASSUME PipelineAssumption ==
  /\ BackfillMode \in {"cursor", "stateless", "none"}
  /\ HistoryStart <= Floor
  /\ RunSpan + MaxLate < LiveLookback + RewriteLookback

vars == <<sourceVars, writeVars, runVars, backfillVars, passVars>>

Init ==
  /\ SourceInit
  /\ WriteInit
  /\ RunInit
  /\ BackfillInit
  /\ PassInit

\* Time passes, but the attempts of one run all fall within RunSpan of its load.
Time ==
  /\ Tick
  /\ pc["run"] # "idle" => clock < runLoaded + RunSpan
  /\ UNCHANGED <<writeVars, runVars, backfillVars, passVars>>

Upstream ==
  /\ \E r \in Reading : Publish(r)
  /\ UNCHANGED <<writeVars, runVars, backfillVars, passVars>>

Run == RunNext /\ UNCHANGED <<backfillVars, passVars>>

\* build_dags: which backfill DAG a gate has, if any.
Backfill ==
  \/ /\ BackfillMode = "cursor"
     /\ BackfillNext(watermark)
     /\ UNCHANGED <<runVars, passVars>>
  \/ /\ BackfillMode = "stateless"
     /\ PassNext
     /\ UNCHANGED <<runVars, backfillVars>>

Next == Upstream \/ Time \/ Run \/ Backfill

Spec == Init /\ [][Next]_vars

\* Airflow keeps scheduling both DAGs, and a task that is started either
\* finishes or fails.  Nothing is promised of the upstream, nor of people: a
\* dry run may be triggered any number of times, but the scheduled, ordinary
\* run of the cursor backfill is not starved by it.
ScheduledBackfill ==
  /\ BackfillMode = "cursor"
  /\ BackfillLoad(watermark, FALSE)
  /\ UNCHANGED <<runVars, passVars>>

Fairness ==
  /\ WF_vars(Run)
  /\ WF_vars(Backfill /\ pc["backfill"] # "idle")
  /\ SF_vars(ScheduledBackfill)

FairSpec == Spec /\ Fairness

-------------------------------------------------------------------------------
\* The values every variable may take.
TypeOK ==
  /\ clock \in Nat
  /\ source \in [Reading -> Version]
  /\ stored \in [Reading -> Version]
  /\ lastReadingAt \in [Property -> Instant]
  /\ pc \in [Task -> PC]
  /\ samples \in [Task -> [Reading -> Version]]
  /\ accepted \in [Task -> SUBSET Reading]
  /\ pending \in [Task -> SUBSET Reading]
  /\ written \in [Task -> SUBSET Reading]
  /\ toRefresh \in [Task -> SUBSET Property]
  /\ seen \in [Task -> (Property \cup {"none"}) \X Instant]
  /\ faults \in Nat
  /\ rejected \in SUBSET Reading
  /\ dropped \in SUBSET Reading
  /\ watermark \in Instant
  /\ base \in Instant
  /\ runDoc \in Instant
  /\ runLoaded \in Instant
  /\ runNow \in Instant
  /\ runFrom \in Instant
  /\ runTry \in Nat
  /\ cursor \in Instant
  /\ emptyStreak \in Nat
  /\ doneAt \in Instant
  /\ bfDoc \in [watermark : Instant, cursor : Instant, streak : Nat, done : Instant]
  /\ bfCursor \in Instant
  /\ bfStreak \in Nat
  /\ bfFrom \in Instant
  /\ bfLeft \in Nat
  /\ bfDone \in BOOLEAN
  /\ bfDry \in BOOLEAN
  /\ bfTry \in Nat
  /\ passUntil \in Instant
  /\ passEnd \in Instant
  /\ passFrom \in Instant
  /\ passDry \in BOOLEAN
  /\ passTry \in Nat

-------------------------------------------------------------------------------
\* r is in InfluxDB, or the counter guard refused it, or it was in a failed
\* batch of a call that wrote another batch.
Kept(r) == stored[r] > 0 \/ r \in rejected \/ r \in dropped

Covered(lo, hi) ==
  \A r \in Reading : source[r] > 0 /\ lo < Stamp[r] /\ Stamp[r] <= hi => Kept(r)

\* Every run re-reads what lies above this.
Settled == watermark - RewriteLookback

\* From the reach of the first run that set a watermark up to the watermark
\* (less the span every run reads again) nothing published is missing: no
\* crash, retry from a stale document or failed write lets the watermark of
\* build_run_dag pass a reading, except a batch that failed beside another.
WatermarkCovers == watermark # 0 => Covered(base, Settled)

\* The cursor walk of build_backfill_dag leaves nothing behind: between its
\* cursor, or the mark it was done at, and the watermark nothing is missing.
BackfillCovers ==
  /\ cursor # 0 => Covered(cursor, Settled)
  /\ doneAt # 0 => Covered(doneAt, Settled)

\* The walk stops above its floor only where EmptyThreshold windows in a row
\* were empty, over however many runs and retries the streak was carried.
DoneIsJustified ==
  doneAt > Floor =>
    \A r \in Reading :
      /\ doneAt < Stamp[r] /\ Stamp[r] <= base
      /\ Stamp[r] <= doneAt + EmptyThreshold * BackfillWindow
      => source[r] = 0

\* A stateless pass that met no fault stored every reading of its span that was
\* no longer changing upstream.
PassCovers ==
  BackfillMode = "stateless" /\ pc["backfill"] = "finished" /\ ~passDry /\ faults = 0 =>
    \A r \in Reading :
      source[r] > 0 /\ PassStart < Stamp[r] /\ Stamp[r] + MaxLate < passEnd => Kept(r)

\* Without a backfill, InfluxDB holds the upstream's latest version of
\* everything at or below the span that is re-read: revisions land.
RevisionsLand ==
  watermark # 0 =>
    \A r \in Reading :
      source[r] > 0 /\ base < Stamp[r] /\ Stamp[r] <= Settled
        => stored[r] = source[r] \/ r \in rejected \/ r \in dropped

\* A summary never advertises an instant InfluxDB has no reading for, except
\* that of a point whose batch failed beside another.
SummaryIsBacked ==
  \A p \in Property : lastReadingAt[p] # 0 =>
    \E r \in Reading : /\ PropOf[r] = p /\ Stamp[r] = lastReadingAt[p]
                       /\ stored[r] > 0 \/ r \in dropped

\* As long as no call failed, a summary shows the newest stored reading of its
\* property whenever neither task is in the middle of its write path.
SummaryIsCurrent ==
  faults = 0 /\ (\A t \in Task : pc[t] \in {"idle", "ready", "fetch", "written", "save", "finished"}) =>
    \A p \in Property : \A r \in Reading :
      PropOf[r] = p /\ stored[r] > 0 => Stamp[r] <= lastReadingAt[p]

\* The watermark never moves back, whatever document a retry works from.
WatermarkMonotone == [][watermark' >= watermark]_vars

\* A summary's snapshot never moves back (README.md, adding-a-gate.md).
SummaryMonotone == [][\A p \in Property : lastReadingAt'[p] >= lastReadingAt[p]]_vars

\* Everything published in reach of the live ingestion is eventually kept.
EveryReadingArrives ==
  \A r \in Reading :
    source[r] > 0 /\ watermark # 0 /\ base < Stamp[r] ~> Kept(r)

\* Once there is a watermark the cursor backfill eventually declares itself done.
BackfillCompletes == watermark # 0 ~> doneAt # 0
===============================================================================
