-------------------------------- MODULE RunDag --------------------------------
(***************************************************************************)
(* The scheduled DAG <key>_run of one Device (dags/factory.py,             *)
(* build_run_dag), for a gate that is not `rolling`.                       *)
(*                                                                         *)
(* load_devices reads the watermark into the task's document; every        *)
(* attempt of the task, retries included, works from that same document.   *)
(* All windows are fetched first, then _write stores them, then the        *)
(* watermark is patched.  max_active_runs=1: one run at a time.            *)
(***************************************************************************)
EXTENDS WritePath

CONSTANTS
  LiveLookback,     \* Gate.live_lookback: reach of a run that has no watermark
  RewriteLookback,  \* Gate.rewrite_lookback: re-fetched before the watermark
  MaxWindow,        \* Gate.max_window: longest span per request
  HistoryStart,     \* Gate.history_start; 0 when the gate has none
  RunRetries,       \* default_args["retries"]
  RunSpan           \* bound on the time from load_devices to the last attempt's
                    \* fetch: execution_timeout and retry_delay of each attempt

ASSUME RunDagAssumption ==
  /\ LiveLookback \in Nat \ {0}
  /\ RewriteLookback \in Nat
  /\ MaxWindow \in Nat \ {0}
  /\ HistoryStart \in Nat
  /\ RunRetries \in Nat
  /\ RunSpan \in Nat

VARIABLES
  watermark,    \* Orion: lastIngestedAt of the Device, 0 if none
  runDoc,       \* last_ingested_ms in the task's document
  runLoaded,    \* when load_devices ran
  runNow,       \* `now` of the attempt
  runFrom,      \* lower bound of the next window to fetch
  runTry,       \* retries used
  base          \* history: `start` of the attempt that set the first watermark

runLocals == <<runDoc, runLoaded, runNow, runFrom, runTry>>
runVars == <<watermark, runLocals, base>>

RunInit ==
  /\ watermark = 0
  /\ runDoc = 0
  /\ runLoaded = 0
  /\ runNow = 0
  /\ runFrom = 0
  /\ runTry = 0
  /\ base = 0

\* `start` of an attempt: from the document's watermark, not the stored one.
RunStart(doc, now) ==
  Larger((IF doc # 0 THEN doc ELSE now - LiveLookback) - RewriteLookback, HistoryStart)

\* floor_ms: nothing at or below the watermark, unless recent values are rewritten.
FloorMsAlways(doc) == doc   \* mutation
FloorMs(doc) == IF RewriteLookback = 0 THEN doc ELSE 0

\* The filter on each fetched window.
KeepNew(fetched, doc) ==
  [r \in Reading |-> IF Stamp[r] > FloorMs(doc) THEN fetched[r] ELSE 0]

-------------------------------------------------------------------------------
\* The scheduler starts a run: load_devices reads the Device.
RunLoad ==
  /\ pc["run"] = "idle"
  /\ runDoc' = watermark
  /\ runLoaded' = clock
  /\ Goto("run", "ready")
  /\ UNCHANGED <<sourceVars, storeVars, samples, accepted, pending, written, toRefresh, seen,
                 historyVars, faults, watermark, runNow, runFrom, runTry, base>>

\* An attempt of ingest(doc) begins.
RunBegin ==
  /\ pc["run"] = "ready"
  /\ runNow' = clock
  /\ runFrom' = RunStart(runDoc, clock)
  /\ Goto("run", "fetch")
  /\ UNCHANGED <<sourceVars, storeVars, samples, accepted, pending, written, toRefresh, seen,
                 historyVars, faults, watermark, runDoc, runLoaded, runTry, base>>

\* One window (a, b] of _windows(start, now, max_window).
RunFetch ==
  /\ pc["run"] = "fetch"
  /\ runFrom < runNow
  /\ \E inclusive \in BOOLEAN :
       LET b == Smaller(runFrom + MaxWindow, runNow)
           got == KeepNew(Fetch(runFrom, b, inclusive), runDoc) IN
       /\ samples' = [samples EXCEPT !["run"] =
                        [r \in Reading |-> IF got[r] > 0 THEN got[r] ELSE @[r]]]
       /\ runFrom' = b
  /\ UNCHANGED <<sourceVars, storeVars, pc, accepted, pending, written, toRefresh, seen,
                 historyVars, faults, watermark, runDoc, runLoaded, runNow, runTry, base>>

\* Every window is fetched: no samples ends the task, otherwise _write begins.
RunFetched ==
  /\ pc["run"] = "fetch"
  /\ runFrom >= runNow
  /\ IF Present(samples["run"]) = {}
     THEN /\ Goto("run", "finished")
          /\ UNCHANGED <<storeVars, samples, accepted, pending, written, toRefresh, seen,
                         historyVars, faults>>
     ELSE BeginWrite("run", samples["run"])
  /\ UNCHANGED <<sourceVars, runVars>>

\* newest is taken over all samples; the watermark moves when something was
\* written and newest is past the document's watermark.
NewestWritten == NewestOf(written["run"])   \* mutation
Newest == NewestOf(Present(samples["run"]))
AdvancesUnwritten(newest) == newest > runDoc   \* mutation
Advances(newest) == written["run"] # {} /\ newest > runDoc

RunAdvance ==
  /\ pc["run"] = "written"
  /\ IF Advances(Newest)
     THEN /\ watermark' = Newest
          /\ base' = IF watermark = 0 THEN RunStart(runDoc, runNow) ELSE base
     ELSE UNCHANGED <<watermark, base>>
  /\ Goto("run", "finished")
  /\ UNCHANGED <<sourceVars, storeVars, samples, accepted, pending, written, toRefresh, seen,
                 historyVars, faults, runLocals>>

RunForget ==
  /\ Forget("run")
  /\ runNow' = 0
  /\ runFrom' = 0

\* The task is recorded as a success.
RunFinish ==
  /\ pc["run"] = "finished"
  /\ RunForget
  /\ runDoc' = 0
  /\ runLoaded' = 0
  /\ runTry' = 0
  /\ Goto("run", "idle")
  /\ UNCHANGED <<sourceVars, storeVars, historyVars, faults, watermark, base>>

\* A call raised, the attempt timed out or its worker died, at any point up to
\* the recording of its success.  Airflow retries with the same document, or
\* gives the run up.
RunFails ==
  /\ pc["run"] # "idle"
  /\ Fault
  /\ RunForget
  /\ IF runTry < RunRetries
     THEN /\ runTry' = runTry + 1
          /\ Goto("run", "ready")
          /\ UNCHANGED <<runDoc, runLoaded>>
     ELSE /\ runTry' = 0
          /\ runDoc' = 0
          /\ runLoaded' = 0
          /\ Goto("run", "idle")
  /\ UNCHANGED <<sourceVars, storeVars, historyVars, watermark, base>>

RunNext ==
  \/ RunLoad
  \/ RunBegin
  \/ RunFetch
  \/ RunFetched
  \/ WriteStep("run") /\ UNCHANGED <<sourceVars, runVars>>
  \/ RunAdvance
  \/ RunFinish
  \/ RunFails
===============================================================================
