------------------------------ MODULE GateFetch ------------------------------
(***************************************************************************)
(* Gate.fetch of the windowed gates: one Device, one window, one request   *)
(* after the other, each through the request policy of HttpClient, while   *)
(* the upstream goes on publishing.                                        *)
(*                                                                         *)
(* A reading is <<property, instant>>.  The upstream's order of the        *)
(* readings of one instant is that of their properties.                    *)
(***************************************************************************)
EXTENDS Gates

CONSTANTS
  Property,       \* the Device's properties, as 1..n
  Horizon,        \* the last instant
  Window,         \* the windows <<start, end>> fetch may be called with
  Limit,          \* rows per answer: limit, last_n, max_values, page size
  MaxPages,       \* paginate.max_pages
  DayLength,      \* instants per calendar day
  Kinds,          \* the gates in question
  Unsigned,       \* the sets of properties the upstream may keep as unsigned
  MaxHistory,     \* bound on the readings published before the first call
  MaxLater        \* bound on those published later

ASSUME GateFetchAssumption ==
  /\ Property \subseteq Nat
  /\ IsFiniteSet(Property) /\ Property # {}
  /\ Horizon \in Nat
  /\ Window \subseteq (0..Horizon) \X (0..Horizon)
  /\ Limit \in Nat \ {0}
  /\ MaxPages \in Nat \ {0}
  /\ DayLength \in Nat \ {0}
  /\ Unsigned \subseteq SUBSET Property

ASSUME KindsAssumption ==
  \A g \in Kinds :
    /\ g.parts \in {"whole", "property", "typed", "day", "past"}
    /\ g.answers \in {"all", "oldest", "newest", "page", "after"}
    /\ {g.low, g.high, g.wide, g.filters, g.skips} \subseteq BOOLEAN
    /\ g.parts \in {"day", "past"} => g.low /\ g.high
    /\ g.answers = "after" => g.parts = "property" /\ ~g.low /\ ~g.wide
    /\ g.parts = "typed" => g.answers # "page" /\ ~g.skips
    /\ "ok" \notin g.policy.again

VARIABLES
  gate,           \* the gate
  unsigned,       \* the properties its upstream keeps as unsigned
  source,         \* readings published so far
  window,         \* <<start, end>> of the call
  todo,           \* requests still to make
  asked,          \* the request being made
  rows,           \* samples so far
  status,         \* "idle", "asking", "answered", "raised"
  answer,         \* what the last call returned
  owed,           \* history: what the upstream had of the window at the start
  withheld        \* history: what was cut off, not asked for or passed over

callVars == <<window, todo, asked, rows, status, answer, owed, withheld>>
vars == <<gate, unsigned, source, callVars, httpVars>>

Reading == Property \X (1..Horizon)
At(r) == r[2]
Day(i) == i \div DayLength

\* One request: properties, span, and how far in the pages it is.
NoRequest == [props |-> {}, from |-> 0, to |-> 0, page |-> 0]
Request(props, from, to) == [props |-> props, from |-> from, to |-> to, page |-> 1]

\* What fetch sets out to ask.  Calendar days reach beyond the window at both
\* ends; the days that are "past" are those before today, which is the day of
\* the last instant of all windows.
DaySpan(d) == Request(Property, d * DayLength, d * DayLength + DayLength - 1)
Parts(g, w) ==
  CASE g.parts = "whole" -> {Request(Property, w[1], w[2])}
    [] g.parts = "typed" -> {Request(Property \ unsigned, w[1], w[2])}
    [] g.parts = "property" -> {Request({p}, w[1], w[2]) : p \in Property}
    [] g.parts = "day" -> {DaySpan(d) : d \in Day(w[1])..Day(w[2])}
    [] g.parts = "past" -> {DaySpan(d) : d \in Day(w[1])..Min({Day(w[2]), Day(Horizon) - 1})}

\* The rows the upstream has for a request.
Covers(g, q, i) == (q.from < i \/ (g.low /\ q.from = i)) /\ (i < q.to \/ (g.high /\ q.to = i))
Matching(g, q) == {r \in source : r[1] \in q.props /\ Covers(g, q, At(r))}

Before(r, s) == At(r) < At(s) \/ (At(r) = At(s) /\ r[1] < s[1])
Rank(S, r) == Cardinality({s \in S : Before(s, r)})

\* The upstream counts rows: of a wide gate, the readings of one instant are one.
RowOfEach(g, r) == r   \* mutation
RowOf(g, r) == IF g.wide THEN <<0, At(r)>> ELSE r
RowsOf(g, S) == {RowOf(g, s) : s \in S}
RowRank(g, S, r) == Rank(RowsOf(g, S), RowOf(g, r))

\* ... and those it answers.
Answered(g, q) ==
  LET all == Matching(g, q) IN
  CASE g.answers = "all" -> all
    [] g.answers \in {"oldest", "after"} -> {r \in all : RowRank(g, all, r) < Limit}
    [] g.answers = "newest" ->
         {r \in all : LET own == {s \in all : s[1] = r[1]} IN Rank(own, r) >= Cardinality(own) - Limit}
    [] g.answers = "page" -> {r \in all : RowRank(g, all, r) \div Limit = q.page - 1}

\* The request that follows an answer, if there is one.  The loop over pages
\* ends with the first short one.
FullPage(g, got) == Cardinality(RowsOf(g, got)) = Limit
LastOf(got) == Max({At(r) : r \in got})
NextAfterSame(got) == LastOf(got)   \* mutation
NextAfterSkip(got) == LastOf(got) + 2   \* mutation
NextAfter(got) == LastOf(got) + 1
FollowUp(g, q, got) ==
  CASE g.answers = "page" /\ FullPage(g, got) /\ q.page < MaxPages -> {[q EXCEPT !.page = @ + 1]}
    [] g.answers = "after" /\ FullPage(g, got) /\ LastOf(got) < q.to ->
         {[q EXCEPT !.from = NextAfter(got) - 1]}
    [] g.parts = "typed" /\ got = {} /\ q.props = Property \ unsigned ->
         {Request(unsigned, q.from, q.to)}
    [] OTHER -> {}

\* What an answer lacks, and no request will ask for.
LeftOut(g, q, got) ==
  CASE g.answers \in {"oldest", "newest"} -> Matching(g, q) \ got
    [] g.answers = "page" -> {r \in Matching(g, q) : RowRank(g, Matching(g, q), r) >= MaxPages * Limit}
    [] OTHER -> {}
NotAsked(g, q, got) ==
  IF g.parts = "typed" /\ got # {} THEN {r \in source : r[1] \notin q.props} ELSE {}

Keep(g, got) == {r \in got : g.filters => window[1] < At(r) /\ At(r) <= window[2]}

-------------------------------------------------------------------------------
Init ==
  /\ gate \in Kinds
  /\ unsigned \in IF gate.parts = "typed" THEN Unsigned ELSE {{}}
  /\ source \in {S \in SUBSET Reading : Cardinality(S) <= MaxHistory}
  /\ window = <<0, 0>>
  /\ todo = {}
  /\ asked = NoRequest
  /\ rows = {}
  /\ status = "idle"
  /\ answer = {}
  /\ owed = {}
  /\ withheld = {}
  /\ HttpInit

Publish ==
  /\ Cardinality(source) < MaxHistory + MaxLater
  /\ \E r \in Reading \ source : source' = source \cup {r}
  /\ UNCHANGED <<gate, unsigned, callVars, httpVars>>

\* The window proper: what a caller may count on.  The archive of Open-Meteo is
\* asked up to yesterday, and a query may exclude its upper bound.
InReach(g, w, i) ==
  /\ w[1] < i
  /\ i < w[2] \/ (g.high /\ i = w[2])
  /\ g.parts = "past" => Day(i) < Day(Horizon)

Begin ==
  /\ status # "asking"
  /\ \E w \in Window :
       /\ window' = w
       /\ todo' = Parts(gate, w)
       /\ owed' = {r \in source : InReach(gate, w, At(r))}
  /\ status' = "asking"
  /\ rows' = {}
  /\ answer' = {}
  /\ withheld' = {}
  /\ UNCHANGED <<gate, unsigned, source, asked, httpVars>>

Ask ==
  /\ status = "asking"
  /\ asked = NoRequest
  /\ \E q \in todo : asked' = q /\ todo' = todo \ {q}
  /\ Call
  /\ UNCHANGED <<gate, unsigned, source, window, rows, status, answer, owed, withheld>>

\* An attempt that HttpClient repeats.
TryAgain ==
  /\ \E outcome \in Outcome : Retries(gate.policy, outcome) /\ Send(gate.policy, outcome)
  /\ UNCHANGED <<gate, unsigned, source, callVars>>

Answer ==
  LET got == Answered(gate, asked) IN
  /\ Send(gate.policy, "ok")
  /\ rows' = rows \cup Keep(gate, got)
  /\ todo' = todo \cup FollowUp(gate, asked, got)
  /\ withheld' = withheld \cup LeftOut(gate, asked, got) \cup NotAsked(gate, asked, got)
  /\ asked' = NoRequest
  /\ UNCHANGED <<gate, unsigned, source, window, status, answer, owed>>

\* The request failed for good.  Most gates let it raise; some pass the point
\* over and go on with the others.
PassesOverAll(g) == TRUE   \* mutation
PassesOver(g) == g.skips

Fail ==
  /\ \E outcome \in Outcome \ {"ok"} : ~Retries(gate.policy, outcome) /\ Send(gate.policy, outcome)
  /\ IF PassesOver(gate)
     THEN /\ withheld' = withheld \cup Matching(gate, asked)
          /\ UNCHANGED <<status, todo, rows>>
     ELSE /\ status' = "raised"
          /\ todo' = {}
          /\ rows' = {}
          /\ UNCHANGED withheld
  /\ asked' = NoRequest
  /\ UNCHANGED <<gate, unsigned, source, window, answer, owed>>

Return ==
  /\ status = "asking"
  /\ asked = NoRequest
  /\ todo = {}
  /\ status' = "answered"
  /\ answer' = rows
  /\ rows' = {}
  /\ UNCHANGED <<gate, unsigned, source, window, todo, asked, owed, withheld, httpVars>>

Wait ==
  /\ Pass
  /\ UNCHANGED <<gate, unsigned, source, callVars>>

FetchStep == Ask \/ TryAgain \/ Answer \/ Fail \/ Return \/ Wait
Next == Publish \/ Begin \/ FetchStep

\* The task that called fetch goes on; nobody has to call it.
Spec == Init /\ [][Next]_vars /\ WF_vars(FetchStep)

-------------------------------------------------------------------------------
Done == status = "answered"

\* What an answer lacks of the window was cut off by a limit, is of a type that
\* was not asked for, or belongs to a point that could not be read: paging, the
\* bounds of a request and the filter of fetch lose nothing.
Accounted == Done => owed \subseteq answer \cup withheld

\* The inductive invariant behind it.  What is owed has been answered or is
\* withheld, or a request that is still to come is for it: a page that it is on
\* or before, since publishing only moves readings to later pages, or one for
\* the other type.
Awaits(q, r) ==
  /\ Covers(gate, q, At(r))
  /\ \/ /\ r[1] \in q.props
        /\ gate.answers = "page" => (q.page - 1) * Limit <= RowRank(gate, Matching(gate, q), r)
     \/ /\ gate.parts = "typed"
        /\ q.props = Property \ unsigned
        /\ r[1] \in unsigned

Inside(r) == window[1] < At(r) /\ At(r) <= window[2]
Requests == [props : SUBSET Property, from : Nat, to : Nat, page : 1..MaxPages]
Coming == todo \cup ({asked} \ {NoRequest})

TypeOK ==
  /\ gate \in Kinds
  /\ unsigned \subseteq Property
  /\ source \subseteq Reading
  /\ window \in (0..Horizon) \X (0..Horizon)
  /\ status \in {"idle", "asking", "answered", "raised"}
  /\ attempt \in Nat
  /\ rows \cup answer \cup owed \subseteq source
  /\ Coming \subseteq Requests

FetchInv ==
  /\ TypeOK
  /\ \A q \in Coming : gate.answers = "after" => \E p \in Property : q.props = {p}
  /\ attempt = 0 <=> asked = NoRequest
  /\ attempt > 0 => status = "asking"
  /\ status # "asking" => todo = {}
  /\ \A r \in owed : Inside(r)
  /\ gate.filters => \A r \in rows \cup answer : Inside(r)
  /\ status = "asking" => \A r \in owed \ (rows \cup withheld) : \E q \in Coming : Awaits(q, r)
  /\ Accounted

\* A gate whose answers keep the oldest rows of the whole Device lets the
\* watermark move no further than what it returned.
KeepsOrder(g) ==
  /\ ~g.skips
  /\ g.answers \in {"all", "page", "after", "oldest"}
  /\ g.answers \in {"page", "oldest"} => g.parts \in {"whole", "typed"}
  /\ g.parts = "typed" => unsigned \in {{}, Property}

\* Where every reading is a row, a limit may fall between two of one instant.
SplitsInstants(g) == g.answers \in {"page", "oldest"} /\ ~g.wide

\* What is missing from an answer is later than all it holds, so a caller that
\* stores the answer, and asks from its newest instant on, exclusive, gets the
\* rest.  (The run DAG asks so after the last window of a run, not after those
\* before it.)  A gate that splits instants may lack readings of its newest
\* instant, and those the caller does not see again.
WatermarkSafe ==
  Done /\ KeepsOrder(gate) =>
    \A r \in owed \ answer, s \in answer :
      At(s) < At(r) \/ (SplitsInstants(gate) /\ At(s) = At(r))

\* How many requests one may lead to, itself included.
Chain(q) ==
  CASE gate.answers = "page" -> MaxPages - q.page + 1
    [] gate.answers = "after" -> Max({q.to - q.from, 1})
    [] gate.parts = "typed" /\ q.props = Property \ unsigned -> 2
    [] OTHER -> 1

\* Paging gets somewhere, whatever the upstream publishes between two pages: an
\* answer leads to one more request at most, and that to fewer than this one.
PagingAdvances ==
  [][attempt > 0 /\ attempt' = 0 =>
       \A p, q \in todo' \ todo : p = q /\ Chain(q) \in 1..(Chain(asked) - 1)]_vars

\* A call comes to an end, whatever the upstream publishes and however it fails.
FetchEnds == status = "asking" ~> status # "asking"

-------------------------------------------------------------------------------
\* The gates that meet the contract of Gate.fetch in full: no limit cuts their
\* answers, no failure is passed over, and they leave no type unasked.
MeetsContract(g) ==
  /\ ~g.skips
  /\ g.high
  /\ g.answers \in {"all", "after"}
  /\ g.parts \notin {"typed", "past"}

Promised(x, none) == IF MeetsContract(gate) THEN x ELSE none

Contract == INSTANCE FetchContract WITH
  Bound <- 0..Horizon,
  status <- Promised(status, "idle"),
  owed <- Promised(owed, {}),
  answer <- Promised(answer, {})

ImplementsContract == Contract!Spec
===============================================================================
