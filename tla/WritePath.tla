------------------------------ MODULE WritePath ------------------------------
(***************************************************************************)
(* The shared write path of the run and backfill tasks (dags/factory.py,   *)
(* _write): guard, write to InfluxDB in batches, refresh the summaries.    *)
(*                                                                         *)
(* Both tasks of a Device execute it, concurrently, against the same       *)
(* InfluxDB series and the same summary entities.  Each InfluxDB batch,    *)
(* each summary GET and each summary PATCH is a step of its own, because   *)
(* the other task or a crash can come between any two of them.             *)
(***************************************************************************)
EXTENDS Source, FiniteSetsExt

CONSTANTS
  Property,     \* the Device's controlledProperties
  PropOf,       \* PropOf[r]: the property reading r belongs to
  BatchSize,    \* INFLUX_BATCH_SIZE
  Guarded,      \* TRUE if the gate has cumulative properties
  MaxFaults     \* bound on the faults (failed calls, killed tasks) of a behaviour

ASSUME WritePathAssumption ==
  /\ IsFiniteSet(Property)
  /\ PropOf \in [Reading -> Property]
  /\ BatchSize \in Nat \ {0}
  /\ Guarded \in BOOLEAN
  /\ MaxFaults \in Nat

Task == {"run", "backfill"}

PC == {"idle", "ready", "fetch", "write", "refresh", "patch", "written", "save", "finished"}

VARIABLES
  stored,         \* InfluxDB: stored[r] is the version written at r's instant, 0 if none
  lastReadingAt,  \* Orion: lastReadingAt[p] of the summary of property p, 0 if none
  pc,             \* where each task is
  samples,        \* samples[t]: what task t fetched, as versions
  accepted,       \* accepted[t]: the samples the counter guard let through
  pending,        \* pending[t]: accepted points not yet handed to write_many
  written,        \* written[t]: points write_many counted as written in this call
  toRefresh,      \* toRefresh[t]: properties whose summary is still to be refreshed
  seen,           \* seen[t]: property being refreshed and the lastReadingAt its GET returned
  faults,         \* faults so far
  rejected,       \* history: readings the counter guard refused
  dropped         \* history: readings of a failed batch of a call that wrote another batch

storeVars == <<stored, lastReadingAt>>
taskVars == <<pc, samples, accepted, pending, written, toRefresh, seen>>
historyVars == <<rejected, dropped>>
writeVars == <<storeVars, taskVars, historyVars, faults>>

NoSeen == <<"none", 0>>

WriteInit ==
  /\ stored = Nothing
  /\ lastReadingAt = [p \in Property |-> 0]
  /\ pc = [t \in Task |-> "idle"]
  /\ samples = [t \in Task |-> Nothing]
  /\ accepted = [t \in Task |-> {}]
  /\ pending = [t \in Task |-> {}]
  /\ written = [t \in Task |-> {}]
  /\ toRefresh = [t \in Task |-> {}]
  /\ seen = [t \in Task |-> NoSeen]
  /\ faults = 0
  /\ rejected = {}
  /\ dropped = {}

Goto(t, label) == pc' = [pc EXCEPT ![t] = label]

\* A fault the environment may inject: at most MaxFaults of them.
Fault ==
  /\ faults < MaxFaults
  /\ faults' = faults + 1

\* The task forgets its local variables: it returned, or its process died.
Forget(t) ==
  /\ samples' = [samples EXCEPT ![t] = Nothing]
  /\ accepted' = [accepted EXCEPT ![t] = {}]
  /\ pending' = [pending EXCEPT ![t] = {}]
  /\ written' = [written EXCEPT ![t] = {}]
  /\ toRefresh' = [toRefresh EXCEPT ![t] = {}]
  /\ seen' = [seen EXCEPT ![t] = NoSeen]

-------------------------------------------------------------------------------
\* _write begins with `batch` as the samples of task t.  Which readings the
\* counter guard rejects depends on values this module does not have: any
\* subset may be, for a gate with cumulative properties, none otherwise.
BeginWrite(t, batch) ==
  \E reject \in IF Guarded THEN SUBSET Present(batch) ELSE {{}} :
    LET keep == Present(batch) \ reject IN
    /\ samples' = [samples EXCEPT ![t] = batch]
    /\ accepted' = [accepted EXCEPT ![t] = keep]
    /\ pending' = [pending EXCEPT ![t] = keep]
    /\ rejected' = rejected \cup reject
    /\ Goto(t, "write")
    /\ UNCHANGED <<written, toRefresh, seen, storeVars, dropped, faults>>

\* write_many on one batch: InfluxDB takes it, overwriting by instant.
StoreBatch(t, batch) ==
  stored' = [r \in Reading |-> IF r \in batch THEN samples[t][r] ELSE stored[r]]

BatchOf(t, batch) ==
  /\ batch # {}
  /\ Cardinality(batch) = Min({BatchSize, Cardinality(pending[t])})

WriteBatch(t) ==
  /\ pc[t] = "write"
  /\ \E batch \in SUBSET pending[t] :
       /\ BatchOf(t, batch)
       /\ StoreBatch(t, batch)
       /\ pending' = [pending EXCEPT ![t] = @ \ batch]
       /\ written' = [written EXCEPT ![t] = @ \cup batch]
  /\ UNCHANGED <<lastReadingAt, pc, samples, accepted, toRefresh, seen, historyVars, faults>>

\* write_many swallows the exception and returns 0; the next batch is still
\* tried.  A request that timed out may have been applied all the same.
WriteBatchFails(t) ==
  /\ pc[t] = "write"
  /\ Fault
  /\ \E batch \in SUBSET pending[t], applied \in BOOLEAN :
       /\ BatchOf(t, batch)
       /\ IF applied THEN StoreBatch(t, batch) ELSE UNCHANGED stored
       /\ pending' = [pending EXCEPT ![t] = @ \ batch]
  /\ UNCHANGED <<lastReadingAt, pc, samples, accepted, written, toRefresh, seen, historyVars>>

\* All batches were tried.  Unless nothing was written, the summaries of every
\* property among the points are refreshed, those of failed batches included.
SummariesToRefreshAlways(t) == {PropOf[r] : r \in accepted[t]}   \* mutation

SummariesToRefresh(t) ==
  IF written[t] = {} THEN {} ELSE {PropOf[r] : r \in accepted[t]}

EndBatches(t) ==
  /\ pc[t] = "write"
  /\ pending[t] = {}
  /\ toRefresh' = [toRefresh EXCEPT ![t] = SummariesToRefresh(t)]
  /\ dropped' = IF written[t] = {} THEN dropped
                ELSE dropped \cup (accepted[t] \ written[t])
  /\ Goto(t, "refresh")
  /\ UNCHANGED <<storeVars, samples, accepted, pending, written, seen, rejected, faults>>

-------------------------------------------------------------------------------
\* refresh_summaries: the newest point of property p among those of this call.
NewestOf(S) == Max({Stamp[r] : r \in S})
NewestPoint(t, p) == NewestOf({r \in accepted[t] : PropOf[r] = p})

\* patch_summary_if_newer, first request: GET the stored lastReadingAt.  When
\* it cannot be read the summary counts as having none.
SummaryGet(t) ==
  /\ pc[t] = "refresh"
  /\ \E p \in toRefresh[t] :
       \/ /\ seen' = [seen EXCEPT ![t] = <<p, lastReadingAt[p]>>]
          /\ UNCHANGED faults
       \/ /\ Fault
          /\ seen' = [seen EXCEPT ![t] = <<p, 0>>]
  /\ Goto(t, "patch")
  /\ UNCHANGED <<storeVars, samples, accepted, pending, written, toRefresh, historyVars>>

\* ... then the comparison with what that GET returned.
IsNewerUnchecked(have, want) == TRUE   \* mutation
IsNewer(have, want) == want > have

\* Second request: POST the newer reading, or skip.  A failure is counted
\* and swallowed by refresh_summaries.
SummaryPatch(t) ==
  LET p == seen[t][1]
      want == NewestPoint(t, p) IN
  /\ pc[t] = "patch"
  /\ \/ /\ IsNewer(seen[t][2], want)
        /\ lastReadingAt' = [lastReadingAt EXCEPT ![p] = want]
        /\ UNCHANGED faults
     \/ /\ ~IsNewer(seen[t][2], want)
        /\ UNCHANGED <<lastReadingAt, faults>>
     \/ /\ IsNewer(seen[t][2], want)
        /\ Fault
        /\ UNCHANGED lastReadingAt
  /\ toRefresh' = [toRefresh EXCEPT ![t] = @ \ {p}]
  /\ seen' = [seen EXCEPT ![t] = NoSeen]
  /\ Goto(t, "refresh")
  /\ UNCHANGED <<stored, samples, accepted, pending, written, historyVars>>

\* _write returns.
EndWrite(t) ==
  /\ pc[t] = "refresh"
  /\ toRefresh[t] = {}
  /\ Goto(t, "written")
  /\ UNCHANGED <<storeVars, samples, accepted, pending, written, toRefresh, seen, historyVars, faults>>

WriteStep(t) ==
  \/ WriteBatch(t)
  \/ WriteBatchFails(t)
  \/ EndBatches(t)
  \/ SummaryGet(t)
  \/ SummaryPatch(t)
  \/ EndWrite(t)
===============================================================================
