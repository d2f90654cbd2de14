------------------------------ MODULE PipelineInv ------------------------------
(***************************************************************************)
(* The inductive invariant behind the safety properties of Pipeline: what  *)
(* holds of the tasks' local variables between two of their steps.         *)
(***************************************************************************)
EXTENDS Pipeline

\* What the upstream must satisfy for the watermark to be safe: readings settle
\* within the span every run reads again; or, for a gate that reads nothing
\* again, they appear at their instant and no two share one.
SourceSettles ==
  \/ MaxLate < RewriteLookback
  \/ MaxLate = 0 /\ \A r, s \in Reading : Stamp[r] = Stamp[s] => r = s

Writing == {"write", "refresh", "patch", "written"}
Fetching == Writing \cup {"fetch"}

PropertiesOf(S) == {PropOf[r] : r \in S}

\* Nothing is published, or read, before its instant.
PublishedInv ==
  /\ \A r \in Reading : source[r] > 0 => Stamp[r] <= clock
  /\ \A t \in Task : \A r \in Reading : samples[t][r] > 0 => source[r] > 0

\* The write path of task t handles samples it fetched, and accounts for each.
TaskInv(t) ==
  /\ accepted[t] \subseteq Present(samples[t])
  /\ pending[t] \subseteq accepted[t]
  /\ written[t] \subseteq accepted[t]
  /\ toRefresh[t] \subseteq PropertiesOf(accepted[t])
  /\ pc[t] = "patch" => seen[t][1] \in PropertiesOf(accepted[t])
  /\ pc[t] \in {"idle", "ready", "fetch"} => accepted[t] = {}
  /\ \A r \in written[t] : stored[r] > 0
  /\ pc[t] \in Writing => Present(samples[t]) \ accepted[t] \subseteq rejected
  /\ pc[t] \in Writing \ {"write"} /\ written[t] # {} =>
       \A r \in accepted[t] : Kept(r)

\* The watermark, and the reach of the run that set the first one.
WatermarkInv ==
  watermark # 0 =>
    /\ watermark <= clock
    /\ base <= watermark
    /\ HistoryStart <= base
    /\ base = HistoryStart \/ base + MaxLate < clock
    /\ \E r \in Reading : source[r] > 0 /\ Stamp[r] = watermark

RunReach == RunStart(runDoc, runNow)
RunUpTo == IF pc["run"] = "fetch" THEN runFrom ELSE runNow

\* The document of a run is its device's watermark, or an earlier one.
RunDocInv ==
  /\ runDoc <= watermark
  /\ runDoc # 0 => base <= runDoc
  /\ pc["run"] # "idle" => runLoaded <= clock /\ clock <= runLoaded + RunSpan
  /\ pc["run"] = "idle" => runDoc = 0

\* An attempt has every reading that was settled when it began and lies between
\* its start and the window it has reached; and nothing outside its span.  It
\* begins with no samples.
RunFetchInv ==
  /\ pc["run"] \in Fetching =>
       /\ runLoaded <= runNow /\ runNow <= clock
       /\ RunReach <= runFrom
       /\ \A r \in Reading :
            source[r] > 0 /\ RunReach < Stamp[r] /\ Stamp[r] <= RunUpTo
              /\ Stamp[r] + MaxLate < runNow => samples["run"][r] > 0
       /\ \A r \in Reading :
            samples["run"][r] > 0 => RunReach <= Stamp[r] /\ Stamp[r] <= runNow
  /\ pc["run"] \in {"idle", "ready"} => \A r \in Reading : samples["run"][r] = 0

\* A run without a watermark in its document set the first one in an earlier
\* attempt: what was settled by its load is kept.
RunRetryInv ==
  pc["run"] # "idle" /\ runDoc = 0 /\ watermark # 0 =>
    /\ base <= RunStart(0, clock)
    /\ pc["run"] \in Fetching => base <= RunReach
    /\ \A r \in Reading :
         source[r] > 0 /\ base < Stamp[r] /\ Stamp[r] + MaxLate < runLoaded => Kept(r)

\* Below the reach of the live ingestion, everything above lo is kept.
LowCovered(lo) ==
  \A r \in Reading : source[r] > 0 /\ lo < Stamp[r] /\ Stamp[r] <= base => Kept(r)

\* lo is a place the walk may have come down to.
WalkedTo(lo) == watermark # 0 /\ HistoryStart <= lo /\ LowCovered(lo)

\* The persisted state of the walk, and the document read from it.
CursorInv ==
  /\ cursor # 0 => WalkedTo(cursor)
  /\ doneAt # 0 => WalkedTo(doneAt)
  /\ bfDoc.cursor # 0 => WalkedTo(bfDoc.cursor)
  /\ bfDoc.watermark # 0 => watermark # 0 /\ base <= bfDoc.watermark

\* The walk itself, and the window it is storing.
WalkInv ==
  BackfillMode = "cursor" =>
    /\ pc["backfill"] \in Fetching \cup {"save"} =>
         /\ bfCursor # 0 /\ watermark # 0 /\ HistoryStart <= bfCursor
         /\ ~bfDry => LowCovered(bfCursor)
    /\ pc["backfill"] \in Writing =>
         /\ ~bfDry /\ bfFrom # 0 /\ HistoryStart <= bfFrom
         /\ \A r \in Reading :
              source[r] > 0 /\ bfFrom < Stamp[r] /\ Stamp[r] <= bfCursor /\ Stamp[r] <= base
                => samples["backfill"][r] > 0

IInv ==
  /\ TypeOK
  /\ PublishedInv
  /\ \A t \in Task : TaskInv(t)
  /\ WatermarkInv
  /\ RunDocInv
  /\ RunFetchInv
  /\ RunRetryInv
  /\ WatermarkCovers
  /\ CursorInv
  /\ WalkInv
===============================================================================
