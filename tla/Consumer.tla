------------------------------- MODULE Consumer -------------------------------
(***************************************************************************)
(* The reader's side: the client library (src/clients/python) that asks    *)
(* Orion-LD and InfluxDB for what a polling gate stores meanwhile, and the *)
(* freshness section of the verification script.                           *)
(*                                                                         *)
(* A series is a field of the polled Device, or one of other Devices whose *)
(* points do not change.  A batch of series is read in chunks, and the     *)
(* statistics of a batch in one query per figure and chunk.  A call is an  *)
(* operator on the state it finds: a reading stored between two of its     *)
(* queries, which run at the same time, is outside this model.             *)
(***************************************************************************)
EXTENDS Polling, Sequences, SequencesExt

CONSTANTS
  Others,         \* the points of other series: [series -> [Slots -> point]]
  Batches,        \* the sequences of series that are asked for
  MaxSeries,      \* MAX_SERIES_PER_QUERY
  Threshold,
  Every,          \* the period of consumption
  Instants        \* when the client calls stats_many, a bound on its calls

ASSUME ConsumerAssumption ==
  /\ DOMAIN Others \cap Field = {}
  /\ Batches \subseteq Seq(Field \cup DOMAIN Others)
  /\ {MaxSeries, Every} \subseteq Nat \ {0}
  /\ \A s \in DOMAIN Others : Others[s] \in [{k \in 0..Horizon : k % Align = 0} -> [value : Int, at : Nat] \cup {None}]
  /\ Threshold \in Int

Series == Field \cup DOMAIN Others
Stored(s) == IF s \in Field THEN points[s] ELSE Others[s]

\* range(start): up to now, which is not included.
Visible(s) == [k \in {j \in Slots : j < clock /\ Stored(s)[j] # None} |-> Stored(s)[k]]

-------------------------------------------------------------------------------
\* The row of a series in the answer of a query, as a set: there is none without
\* a point, or without one above the threshold.
Total(v) == FoldSet(LAMBDA k, sum : sum + v[k].value, 0, DOMAIN v)
Values(v) == {v[k].value : k \in DOMAIN v}
Above(v) == {k \in DOMAIN v : v[k].value > Threshold}
Figures == {"mean", "max", "min", "n", "over"}
Figure(figure, v) ==
  IF DOMAIN v = {} \/ (figure = "over" /\ Above(v) = {}) THEN {}
  ELSE CASE figure = "mean" -> {<<Total(v), Cardinality(DOMAIN v)>>}
         [] figure = "max" -> {Max(Values(v))}
         [] figure = "min" -> {Min(Values(v))}
         [] figure = "n" -> {Cardinality(DOMAIN v)}
         [] figure = "over" -> {Cardinality(Above(v))}

\* _run_chunked: series i .. i + MAX_SERIES_PER_QUERY - 1, whose rows are put
\* together.
FullChunks(b) == Len(b) \div MaxSeries   \* mutation
Chunks(b) == (Len(b) + MaxSeries - 1) \div MaxSeries
ChunkOf(b, i) == {b[j] : j \in ((i - 1) * MaxSeries + 1)..Min({i * MaxSeries, Len(b)})}
Rows(figure, b, series) ==
  LET asked == UNION {ChunkOf(b, i) : i \in 1..Chunks(b)}
  IN [s \in {r \in asked : Figure(figure, series[r]) # {}} |-> CHOOSE x \in Figure(figure, series[s]) : TRUE]

\* stats_many.  A series without exceedances has no row of "over", one without
\* points none at all and no entry in the result.
Or(rows, s, default) == IF s \in DOMAIN rows THEN rows[s] ELSE default
StatsMany(b) ==
  LET series == [s \in Range(b) |-> Visible(s)]
      rows == [g \in Figures |-> Rows(g, b, series)] IN
  [s \in DOMAIN rows["n"] \cap DOMAIN rows["mean"] |->
    [n |-> rows["n"][s], mean |-> rows["mean"][s], over |-> Or(rows["over"], s, 0),
     min |-> Or(rows["min"], s, rows["mean"][s]), max |-> Or(rows["max"], s, rows["mean"][s])]]

\* consumption, and series_many with difference: the last value of each period
\* that has one, less that of the period before; a fall is discarded
\* (core/counter_guard.py:27): it has no amount, and counts nothing here.
Periods(v) == {k \div Every : k \in DOMAIN v}
SumOf(v, p) == FoldSet(LAMBDA k, sum : sum + v[k].value, 0, {k \in DOMAIN v : k \div Every = p})   \* mutation
LastKey(v, p) == Max({k \in DOMAIN v : k \div Every = p})
LastOf(v, p) == v[LastKey(v, p)].value
Amount(v, p) ==
  LET before == LastOf(v, Max({q \in Periods(v) : q < p})) IN
  IF LastOf(v, p) >= before THEN LastOf(v, p) - before ELSE 0
Consumption(v) == [p \in Periods(v) \ {Min(Periods(v))} |-> Amount(v, p)]

\* reading_age_hours of a summary, and the freshness the script reports of it.
Age(f) == clock - summary[f]
Stale(f) == summary[f] # None /\ Age(f) > Interval(schedule) * Tolerance

-------------------------------------------------------------------------------
Spec == Init /\ [][Next]_vars

\* A point says when its value was read: in its slot, or before it by no more
\* than an attempt lasts, and in the order of the points.
StampIsHonest ==
  \A f \in Field : \A k \in Slots : points[f][k] # None =>
    /\ k - Duration <= points[f][k].at
    /\ points[f][k].at < k + Align
    /\ \A j \in Slots : j < k /\ points[f][j] # None => points[f][j].at <= points[f][k].at

\* Whatever age the client gives a reading, history has that reading.
AgeIsBacked == \A f \in Field : summary[f] # None => points[f][summary[f]] # None

\* The inductive invariant behind the two.  Nothing is stored from beyond the
\* clock; while an attempt reads or is about to store, all there is was stored
\* before it began; and what it marks as stored is.
Reading == [value : Int, at : 0..Horizon]
TypeOK ==
  /\ clock \in 0..Horizon
  /\ reset \in 0..clock
  /\ began \in Nat
  /\ task \in {"idle", "reading", "storing", "marking", "waiting"}
  /\ toRead \subseteq Field
  /\ stamp \in Slots
  /\ raw \in [Field -> Reading \cup {None}]
  /\ points \in [Field -> [Slots -> Reading \cup {None}]]
  /\ summary \in [Field -> Slots \cup {None}]

PollingInv ==
  /\ TypeOK
  /\ task \in {"reading", "storing", "marking"} => began <= clock /\ clock <= began + Duration
  /\ \A f \in Got : began <= raw[f].at /\ raw[f].at <= clock
  /\ \A f \in Field : \A k \in Slots : points[f][k] # None =>
       /\ k <= clock /\ points[f][k].at <= clock
       /\ task \in {"reading", "storing"} => k <= began /\ points[f][k].at <= began
       /\ task = "storing" => k <= stamp
  /\ task = "storing" => /\ stamp <= clock
                        /\ \A f \in Got : stamp - Duration <= raw[f].at /\ raw[f].at < stamp + Align
  /\ task = "marking" => \A f \in Got : points[f][stamp] # None
  /\ AgeIsBacked
  /\ StampIsHonest

\* The schedules whose readings the factor ARGS.tolerance lets pass: steps, one
\* minute, and lists with no more minutes than the factor allows for.
Regular(s) ==
  \/ s.form \in {"step", "fixed"}
  \/ s.form = "list" /\ Cardinality(s.minutes) < Tolerance

\* A run is due within this many minutes of any instant.
Gap(s) == IF s.form = "step" THEN s.step ELSE Span

\* The room that the factor leaves a regular schedule: for the gap between two
\* runs, or an attempt that holds up the next, for the attempt that stores, and
\* for the alignment of its stamp.
Timely ==
  \A s \in Schedules :
    Regular(s) =>
      \A wait \in {Gap(s), Duration} : wait + Duration + Align - 1 <= Interval(s) * Tolerance

\* The script does not report a summary as stale while each of the runs stores
\* its field, whatever becomes of the other fields (cadence.py:38).
HealthyIsFresh == Regular(schedule) => \A f \in Field \ trouble : ~Stale(f)

\* Whenever it is called, stats_many has an entry for just the series asked for
\* that have points, and in it the figures of all of them, however the batch is
\* chunked ("Every figure is exact").
StatsAreExact ==
  clock \in Instants => \A b \in Batches :
    LET result == StatsMany(b) IN
    /\ DOMAIN result = {s \in Range(b) : DOMAIN Visible(s) # {}}
    /\ \A s \in DOMAIN result :
         LET v == Visible(s)
             values == Values(v)
             got == result[s] IN
         /\ got.n = Cardinality(DOMAIN v)
         /\ got.mean = <<Total(v), got.n>>
         /\ got.over = Cardinality(Above(v))
         /\ {got.min, got.max} \subseteq values
         /\ \A x \in values : got.min <= x /\ x <= got.max

\* The periods of a counter never add up to more than it has counted between the
\* readings they lie between, over resets, missed runs and retries; and they
\* add up to just that if it was not reset.
ConsumptionAdds ==
  \A f \in Counter :
    LET v == Visible(f)
        periods == Consumption(v)
        sum == FoldSet(LAMBDA p, total : total + periods[p], 0, DOMAIN periods)
        first == LastKey(v, Min(Periods(v)))
        last == Max(DOMAIN v)
    IN DOMAIN v # {} =>
         /\ sum <= v[last].at - v[first].at
         /\ resets = 0 => sum = v[last].at - v[first].at
===============================================================================
