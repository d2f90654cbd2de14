------------------------------- MODULE Polling -------------------------------
(***************************************************************************)
(* The polling gates (modbus, bacnet, s7, snmp) and the rolling branch of  *)
(* the run DAG: one Device whose fields are read when a run is due, and    *)
(* stamped with the time at which the last of them was.                    *)
(*                                                                         *)
(* A tick is a minute.  Every field has a value for every minute: that of  *)
(* a counter is the minutes since it was last reset.  A point is           *)
(* [value, at], where `at` is when the value was read.                     *)
(***************************************************************************)
EXTENDS Integers, FiniteSetsExt

CONSTANTS
  Field,          \* what is read, as 1..n, which is the order of the field map
  Counter,        \* the cumulative ones
  Readers,        \* "connected" (modbus, s7), "datagram" (bacnet), "single" (snmp)
  Align,          \* align_s
  Span,           \* minutes of the hour
  Schedules,      \* the minute fields the schedule may have
  Duration,       \* the longest an attempt takes
  Retries,        \* of a task
  RetryDelay,
  Tolerance,      \* ARGS.tolerance of the verification script
  Horizon,        \* bound on the clock
  MaxFaults,      \* bound on the failures of one behaviour, refused connections apart
  MaxResets,      \* bound on the resets of one behaviour
  None

ASSUME PollingAssumption ==
  /\ Field \subseteq Nat
  /\ Counter \subseteq Field
  /\ {Align, Span} \subseteq Nat \ {0}
  /\ {Duration, Retries, RetryDelay, Tolerance, Horizon} \subseteq Nat
  /\ None \notin Nat /\ None \notin [value : Int, at : Nat]

\* A schedule's minute field is a step, a list, a range or one fixed value.
ASSUME SchedulesAssumption ==
  \A s \in Schedules :
    /\ s.form \in {"step", "list", "range", "fixed"}
    /\ s.form = "step" => s.step \in Nat \ {0}
    /\ s.form # "step" => s.minutes # {} /\ s.minutes \subseteq 0..(Span - 1)

VARIABLES
  reader, schedule,    \* of the gate
  clock,
  reset,          \* when the counters were last at zero
  task,           \* "idle", "reading", "storing", "marking", "waiting"
  queued,         \* a run is due and has not begun
  began,          \* when the attempt began, or the next one may
  attempt,
  toRead, raw,    \* the fields still to read, and what was read
  stamp,          \* of the samples
  points,         \* what InfluxDB holds
  summary,        \* lastReadingAt of each field's summary
  faults, resets,
  trouble         \* history: the fields that have ever missed a reading

taskVars == <<task, began, attempt, toRead, raw, stamp>>
storeVars == <<points, summary>>
boundVars == <<faults, resets>>
vars == <<reader, schedule, clock, reset, taskVars, queued, storeVars, boundVars, trouble>>

\* The minutes at which a schedule's minute field has a run begin, and the
\* longest normal gap between two, as core/cadence.py has it.
Minutes(s) ==
  IF s.form = "step" THEN {m \in 0..(Span - 1) : m % s.step = 0} ELSE s.minutes
UnitOfList(s) ==   \* mutation
  IF s.form = "step" THEN s.step ELSE 1
Interval(s) ==
  CASE s.form = "step" -> s.step
    [] s.form = "list" -> Max({1, Span \div Cardinality(s.minutes)})
    [] s.form = "range" -> 1
    [] s.form = "fixed" -> Span
Due(t) == t > 0 /\ t % Span \in Minutes(schedule)

Slot(t) == (t \div Align) * Align
Slots == {k \in 0..Horizon : k % Align = 0}
Nothing == [f \in Field |-> None]
Got == {f \in Field : raw[f] # None}
ValueOf(f) == IF f \in Counter THEN clock - reset ELSE clock % 3

Init ==
  /\ reader \in Readers
  /\ schedule \in Schedules
  /\ clock = 0
  /\ reset = 0
  /\ task = "idle"
  /\ queued = FALSE
  /\ began = 0
  /\ attempt = 0
  /\ toRead = {}
  /\ raw = Nothing
  /\ stamp = 0
  /\ points = [f \in Field |-> [k \in Slots |-> None]]
  /\ summary = [f \in Field |-> None]
  /\ faults = 0
  /\ resets = 0
  /\ trouble = {}

Fault(fields) ==
  /\ faults < MaxFaults
  /\ faults' = faults + 1
  /\ trouble' = trouble \cup fields

-------------------------------------------------------------------------------
\* An attempt begins when it may, ends within its Duration, and a run that
\* comes due meanwhile waits: max_active_runs is 1.
Tick ==
  /\ clock < Horizon
  /\ ~queued \/ task # "idle"
  /\ task \in {"reading", "storing", "marking"} => clock < began + Duration
  /\ task = "waiting" => clock < began
  /\ clock' = clock + 1
  /\ queued' = (queued \/ Due(clock + 1))
  /\ UNCHANGED <<reader, schedule, reset, taskVars, storeVars, boundVars, trouble>>

Reset ==
  /\ resets < MaxResets
  /\ reset # clock
  /\ reset' = clock
  /\ resets' = resets + 1
  /\ UNCHANGED <<reader, schedule, clock, taskVars, queued, storeVars, faults, trouble>>

Attempt(n) ==
  /\ task' = "reading"
  /\ began' = clock
  /\ attempt' = n
  /\ toRead' = Field
  /\ raw' = Nothing
  /\ stamp' = 0

Run ==
  /\ task = "idle"
  /\ queued
  /\ queued' = FALSE
  /\ Attempt(1)
  /\ UNCHANGED <<reader, schedule, clock, reset, storeVars, boundVars, trouble>>

Retry ==
  /\ task = "waiting"
  /\ clock = began
  /\ Attempt(attempt + 1)
  /\ UNCHANGED <<reader, schedule, clock, reset, queued, storeVars, boundVars, trouble>>

Ended ==
  /\ task' = "idle"
  /\ began' = 0
  /\ attempt' = 0
  /\ toRead' = {}
  /\ raw' = Nothing
  /\ stamp' = 0

Raised ==
  IF attempt <= Retries
  THEN /\ task' = "waiting"
       /\ began' = clock + RetryDelay
       /\ toRead' = {}
       /\ raw' = Nothing
       /\ stamp' = 0
       /\ UNCHANGED attempt
  ELSE Ended

\* read(): a connection that cannot be made, or breaks, raises, and so do a GET
\* that is not answered and a block too short to decode; a field that cannot be
\* read, or is no number, is left out.
Unreachable ==
  /\ task = "reading"
  /\ toRead # {}
  /\ reader # "datagram"
  /\ trouble' = Field
  /\ Raised
  /\ UNCHANGED <<reader, schedule, clock, reset, queued, storeVars, boundVars>>

NextFields == IF reader = "single" THEN toRead ELSE {Min(toRead)}

Read ==
  /\ task = "reading"
  /\ toRead # {}
  /\ toRead' = toRead \ NextFields
  /\ \E silent \in SUBSET NextFields :
       /\ IF silent = {} THEN UNCHANGED <<faults, trouble>> ELSE Fault(silent)
       /\ raw' = [f \in Field |->
            IF f \in NextFields \ silent THEN [value |-> ValueOf(f), at |-> clock] ELSE raw[f]]
  /\ UNCHANGED <<reader, schedule, clock, reset, task, queued, began, attempt, stamp, storeVars, resets>>

\* The samples are stamped when the last field is read; with none there is
\* nothing to store.
StampNext == Slot(clock) + Align   \* mutation
Stamp == Slot(clock)

Sample ==
  /\ task = "reading"
  /\ toRead = {}
  /\ IF Got = {}
     THEN Ended
     ELSE /\ task' = "storing"
          /\ stamp' = Stamp
          /\ UNCHANGED <<began, attempt, toRead, raw>>
  /\ UNCHANGED <<reader, schedule, clock, reset, queued, storeVars, boundVars, trouble>>

\* One batch.  If InfluxDB does not answer, nothing counts as written, and the
\* run ends as a success.
Written == [f \in Field |-> IF f \in Got THEN [points[f] EXCEPT ![stamp] = raw[f]] ELSE points[f]]

Anyway(written) == TRUE   \* mutation
Counted(written) == written

Store ==
  /\ task = "storing"
  /\ \E applied, answered \in BOOLEAN :
       /\ answered => applied
       /\ points' = IF applied THEN Written ELSE points
       /\ IF answered THEN UNCHANGED <<faults, trouble>> ELSE Fault(Field)
       /\ IF Counted(answered)
          THEN task' = "marking" /\ UNCHANGED <<began, attempt, toRead, raw, stamp>>
          ELSE Ended
  /\ UNCHANGED <<reader, schedule, clock, reset, queued, summary, resets>>

\* The summaries, any of which may fail, and the watermark, whose failure is
\* the task's.
Mark ==
  /\ task = "marking"
  /\ \E missed \in SUBSET Got, marked \in BOOLEAN :
       /\ summary' = [f \in Field |-> IF f \in Got \ missed THEN stamp ELSE summary[f]]
       /\ IF missed = {} /\ marked THEN UNCHANGED <<faults, trouble>> ELSE Fault(IF marked THEN missed ELSE Field)
       /\ IF marked THEN Ended ELSE Raised
  /\ UNCHANGED <<reader, schedule, clock, reset, queued, points, resets>>

Next == Tick \/ Reset \/ Run \/ Retry \/ Unreachable \/ Read \/ Sample \/ Store \/ Mark
===============================================================================
