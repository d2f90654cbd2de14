--------------------------- MODULE StatelessBackfill ---------------------------
(***************************************************************************)
(* The DAG <key>_backfill of one Device in stateless mode                  *)
(* (dags/factory.py, build_backfill_dag): a manually triggered pass        *)
(* forwards over [start_date, end_date), which keeps no state in Orion and *)
(* does not stop at a window that could not be written.                    *)
(***************************************************************************)
EXTENDS WritePath

CONSTANTS
  PassStart,    \* params["start_date"]
  PassWindow,   \* params["window_days"]
  PassRetries   \* default_args["retries"]

ASSUME StatelessBackfillAssumption ==
  /\ PassStart \in Nat \ {0}
  /\ PassWindow \in Nat \ {0}
  /\ PassRetries \in Nat

VARIABLES
  passUntil,    \* params["end_date"]; 0 when left empty, for now
  passEnd,      \* `end` of the attempt
  passFrom,     \* lower bound of the next window
  passDry,      \* params["dry_run"]
  passTry       \* retries used

passVars == <<passUntil, passEnd, passFrom, passDry, passTry>>

PassInit ==
  /\ passUntil = 0
  /\ passEnd = 0
  /\ passFrom = 0
  /\ passDry = FALSE
  /\ passTry = 0

\* A person triggers a pass, with or without an end date.
PassLoad ==
  /\ pc["backfill"] = "idle"
  /\ passUntil' \in {0} \cup PassStart..clock
  /\ passDry' \in BOOLEAN
  /\ Goto("backfill", "ready")
  /\ UNCHANGED <<sourceVars, storeVars, samples, accepted, pending, written, toRefresh, seen,
                 historyVars, faults, passEnd, passFrom, passTry>>

\* parse_end_datetime: now, unless a date was given.
PassBegin ==
  /\ pc["backfill"] = "ready"
  /\ passEnd' = IF passUntil = 0 THEN clock ELSE passUntil
  /\ passFrom' = PassStart
  /\ Goto("backfill", "fetch")
  /\ UNCHANGED <<sourceVars, storeVars, samples, accepted, pending, written, toRefresh, seen,
                 historyVars, faults, passUntil, passDry, passTry>>

\* windows(): the next window begins where this one ended.
NextWindowAfter(b) == b + 1   \* mutation
NextWindowFrom(b) == b

\* One window (a, b]; samples go to _write unless the run is dry.
PassFetch ==
  /\ pc["backfill"] = "fetch"
  /\ passFrom < passEnd
  /\ \E inclusive \in BOOLEAN :
       LET b == Smaller(passFrom + PassWindow, passEnd)
           got == Fetch(passFrom, b, inclusive) IN
       /\ passFrom' = NextWindowFrom(b)
       /\ IF Present(got) = {} \/ passDry
          THEN UNCHANGED writeVars
          ELSE BeginWrite("backfill", got)
  /\ UNCHANGED <<sourceVars, passUntil, passEnd, passDry, passTry>>

\* _write returned: the pass goes on, whatever was written.
PassWritten ==
  /\ pc["backfill"] = "written"
  /\ Forget("backfill")
  /\ Goto("backfill", "fetch")
  /\ UNCHANGED <<sourceVars, storeVars, historyVars, faults, passVars>>

PassEnds ==
  /\ pc["backfill"] = "fetch"
  /\ passFrom >= passEnd
  /\ Goto("backfill", "finished")
  /\ UNCHANGED <<sourceVars, storeVars, samples, accepted, pending, written, toRefresh, seen,
                 historyVars, faults, passVars>>

PassForget ==
  /\ Forget("backfill")
  /\ passEnd' = 0
  /\ passFrom' = 0

PassFinish ==
  /\ pc["backfill"] = "finished"
  /\ PassForget
  /\ passUntil' = 0
  /\ passDry' = FALSE
  /\ passTry' = 0
  /\ Goto("backfill", "idle")
  /\ UNCHANGED <<sourceVars, storeVars, historyVars, faults>>

\* As for the other tasks: a retry from the start of the pass, or the end of it.
PassFails ==
  /\ pc["backfill"] # "idle"
  /\ Fault
  /\ PassForget
  /\ IF passTry < PassRetries
     THEN /\ passTry' = passTry + 1
          /\ Goto("backfill", "ready")
          /\ UNCHANGED <<passUntil, passDry>>
     ELSE /\ passTry' = 0
          /\ passUntil' = 0
          /\ passDry' = FALSE
          /\ Goto("backfill", "idle")
  /\ UNCHANGED <<sourceVars, storeVars, historyVars>>

PassNext ==
  \/ PassLoad
  \/ PassBegin
  \/ PassFetch
  \/ WriteStep("backfill") /\ UNCHANGED <<sourceVars, passVars>>
  \/ PassWritten
  \/ PassEnds
  \/ PassFinish
  \/ PassFails
===============================================================================
