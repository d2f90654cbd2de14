------------------------------ MODULE BackfillDag ------------------------------
(***************************************************************************)
(* The DAG <key>_backfill of one Device in cursor mode (dags/factory.py,   *)
(* build_backfill_dag): a walk backwards from the live watermark, some     *)
(* windows per run, its position and the count of consecutive empty        *)
(* windows kept on the Device entity.                                      *)
(***************************************************************************)
EXTENDS WritePath

CONSTANTS
  BackfillWindow,   \* params["window_days"]
  WindowsPerRun,    \* params["windows_per_run"]
  EmptyThreshold,   \* params["empty_streak_threshold"]
  Floor,            \* params["floor_iso"]
  BackfillRetries   \* default_args["retries"]

ASSUME BackfillDagAssumption ==
  /\ BackfillWindow \in Nat \ {0}
  /\ WindowsPerRun \in Nat \ {0}
  /\ EmptyThreshold \in Nat \ {0}
  /\ Floor \in Nat \ {0}
  /\ BackfillRetries \in Nat

VARIABLES
  cursor,       \* Orion: backfillCursorAt, 0 if none
  emptyStreak,  \* Orion: backfillEmptyStreak
  doneAt,       \* Orion: backfillDoneAt, 0 if none
  bfDoc,        \* the task's document: the Device as load_devices read it
  bfCursor,     \* cursor_ms of the attempt
  bfStreak,     \* streak of the attempt
  bfFrom,       \* lower bound of the window being stored
  bfLeft,       \* iterations of the loop still allowed
  bfDone,       \* `done` of the attempt
  bfDry,        \* params["dry_run"] of the DAG run
  bfTry         \* retries used

backfillState == <<cursor, emptyStreak, doneAt>>
backfillLocals == <<bfDoc, bfCursor, bfStreak, bfFrom, bfLeft, bfDone, bfDry, bfTry>>
backfillVars == <<backfillState, backfillLocals>>

NoDoc == [watermark |-> 0, cursor |-> 0, streak |-> 0, done |-> 0]

BackfillInit ==
  /\ cursor = 0
  /\ emptyStreak = 0
  /\ doneAt = 0
  /\ bfDoc = NoDoc
  /\ bfCursor = 0
  /\ bfStreak = 0
  /\ bfFrom = 0
  /\ bfLeft = 0
  /\ bfDone = FALSE
  /\ bfDry = FALSE
  /\ bfTry = 0

\* keep_while_walking_back: inclusive at the cursor.
KeepBelowCursor(stamp, at) == stamp < at   \* mutation
KeepAtCursor(stamp, at) == stamp <= at

KeepWalkingBack(fetched, at) ==
  [r \in Reading |-> IF KeepAtCursor(Stamp[r], at) THEN fetched[r] ELSE 0]

LowerBound(at) ==
  IF at - BackfillWindow >= Floor THEN at - BackfillWindow ELSE Floor

-------------------------------------------------------------------------------
\* The scheduler starts a run, or a person triggers one, perhaps a dry one:
\* load_devices reads the Device, watermark included.
BackfillLoad(watermark, dry) ==
  /\ pc["backfill"] = "idle"
  /\ bfDoc' = [watermark |-> watermark, cursor |-> cursor,
               streak |-> emptyStreak, done |-> doneAt]
  /\ bfDry' = dry
  /\ Goto("backfill", "ready")
  /\ UNCHANGED <<sourceVars, storeVars, samples, accepted, pending, written, toRefresh, seen,
                 historyVars, faults, backfillState, bfCursor, bfStreak, bfFrom, bfLeft,
                 bfDone, bfTry>>

\* Already done, or no live watermark yet: the task returns.
BackfillSkip ==
  /\ pc["backfill"] = "ready"
  /\ bfDoc.done # 0 \/ bfDoc.watermark = 0
  /\ Goto("backfill", "finished")
  /\ UNCHANGED <<sourceVars, storeVars, samples, accepted, pending, written, toRefresh, seen,
                 historyVars, faults, backfillVars>>

\* An attempt begins where the document's cursor is, or at its watermark.
BackfillBegin ==
  /\ pc["backfill"] = "ready"
  /\ bfDoc.done = 0 /\ bfDoc.watermark # 0
  /\ bfCursor' = IF bfDoc.cursor # 0 THEN bfDoc.cursor ELSE bfDoc.watermark
  /\ bfStreak' = bfDoc.streak
  /\ bfLeft' = WindowsPerRun
  /\ bfDone' = FALSE
  /\ Goto("backfill", "fetch")
  /\ UNCHANGED <<sourceVars, storeVars, samples, accepted, pending, written, toRefresh, seen,
                 historyVars, faults, backfillState, bfDoc, bfFrom, bfDry, bfTry>>

\* One iteration: fetch (a, cursor].  An empty window counts towards the
\* streak; a window with samples resets it and, unless dry, goes to _write.
CountEmpty(streak) == streak + 1
StreakNotReset == bfStreak   \* mutation
StreakAfterSamples == 0

BackfillFetch ==
  /\ pc["backfill"] = "fetch"
  /\ bfLeft > 0 /\ ~bfDone
  /\ bfCursor > Floor
  /\ bfLeft' = bfLeft - 1
  /\ \E inclusive \in BOOLEAN :
       LET a == LowerBound(bfCursor)
           got == KeepWalkingBack(Fetch(a, bfCursor, inclusive), bfCursor) IN
       \/ /\ Present(got) = {}
          /\ bfStreak' = CountEmpty(bfStreak)
          /\ bfDone' = (bfStreak' >= EmptyThreshold)
          /\ bfCursor' = a
          /\ UNCHANGED <<storeVars, taskVars, historyVars, faults, bfFrom>>
       \/ /\ Present(got) # {} /\ bfDry
          /\ bfStreak' = StreakAfterSamples
          /\ bfCursor' = a
          /\ UNCHANGED <<storeVars, taskVars, historyVars, faults, bfFrom, bfDone>>
       \/ /\ Present(got) # {} /\ ~bfDry
          /\ bfStreak' = StreakAfterSamples
          /\ bfFrom' = a
          /\ BeginWrite("backfill", got)
          /\ UNCHANGED <<bfCursor, bfDone>>
  /\ UNCHANGED <<sourceVars, backfillState, bfDoc, bfDry, bfTry>>

\* The top of the loop finds the cursor at the floor.
BackfillReachesFloor ==
  /\ pc["backfill"] = "fetch"
  /\ bfLeft > 0 /\ ~bfDone
  /\ bfCursor <= Floor
  /\ bfDone' = TRUE
  /\ Goto("backfill", "save")
  /\ UNCHANGED <<sourceVars, storeVars, samples, accepted, pending, written, toRefresh, seen,
                 historyVars, faults, backfillState, bfDoc, bfCursor, bfStreak, bfFrom,
                 bfLeft, bfDry, bfTry>>

\* The loop is over: enough windows, or done.
BackfillLoopEnds ==
  /\ pc["backfill"] = "fetch"
  /\ bfLeft = 0 \/ bfDone
  /\ Goto("backfill", "save")
  /\ UNCHANGED <<sourceVars, storeVars, samples, accepted, pending, written, toRefresh, seen,
                 historyVars, faults, backfillVars>>

\* _write returned: the cursor moves to the window's lower bound, unless the
\* window wrote nothing, which ends the loop where it is.
CursorNotMoved(wrote) == bfCursor   \* mutation
CursorAfter(wrote) == IF wrote THEN bfFrom ELSE bfCursor

BackfillWritten ==
  /\ pc["backfill"] = "written"
  /\ bfCursor' = CursorAfter(written["backfill"] # {})
  /\ Goto("backfill", IF written["backfill"] # {} THEN "fetch" ELSE "save")
  /\ bfFrom' = 0
  /\ Forget("backfill")
  /\ UNCHANGED <<sourceVars, storeVars, historyVars, faults, backfillState, bfDoc, bfStreak,
                 bfLeft, bfDone, bfDry, bfTry>>

\* patch_backfill_state, one request; done_at is only ever added.
PersistsAlways == TRUE   \* mutation
Persists == ~bfDry

BackfillSave ==
  /\ pc["backfill"] = "save"
  /\ IF Persists
     THEN /\ cursor' = bfCursor
          /\ emptyStreak' = bfStreak
          /\ doneAt' = IF bfDone THEN bfCursor ELSE doneAt
     ELSE UNCHANGED backfillState
  /\ Goto("backfill", "finished")
  /\ UNCHANGED <<sourceVars, storeVars, samples, accepted, pending, written, toRefresh, seen,
                 historyVars, faults, backfillLocals>>

BackfillForget ==
  /\ Forget("backfill")
  /\ bfCursor' = 0
  /\ bfStreak' = 0
  /\ bfFrom' = 0
  /\ bfLeft' = 0
  /\ bfDone' = FALSE

BackfillFinish ==
  /\ pc["backfill"] = "finished"
  /\ BackfillForget
  /\ bfDoc' = NoDoc
  /\ bfDry' = FALSE
  /\ bfTry' = 0
  /\ Goto("backfill", "idle")
  /\ UNCHANGED <<sourceVars, storeVars, historyVars, faults, backfillState>>

\* A call raised, the attempt timed out or its worker died: a retry with the
\* same document, or the run is given up.
BackfillFails ==
  /\ pc["backfill"] # "idle"
  /\ Fault
  /\ BackfillForget
  /\ IF bfTry < BackfillRetries
     THEN /\ bfTry' = bfTry + 1
          /\ Goto("backfill", "ready")
          /\ UNCHANGED <<bfDoc, bfDry>>
     ELSE /\ bfTry' = 0
          /\ bfDoc' = NoDoc
          /\ bfDry' = FALSE
          /\ Goto("backfill", "idle")
  /\ UNCHANGED <<sourceVars, storeVars, historyVars, backfillState>>

BackfillNext(watermark) ==
  \/ \E dry \in BOOLEAN : BackfillLoad(watermark, dry)
  \/ BackfillSkip
  \/ BackfillBegin
  \/ BackfillFetch
  \/ BackfillReachesFloor
  \/ BackfillLoopEnds
  \/ WriteStep("backfill") /\ UNCHANGED <<sourceVars, backfillVars>>
  \/ BackfillWritten
  \/ BackfillSave
  \/ BackfillFinish
  \/ BackfillFails
===============================================================================
