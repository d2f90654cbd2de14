---------------------------- MODULE GateFetchProofs ----------------------------
(***************************************************************************)
(* FetchInv is inductive: for any upstream, limits, windows, failures and  *)
(* gates of the kinds KindsAssumption admits, fetch accounts for what it   *)
(* owes; the gates that promise the contract of Gate.fetch keep it; and    *)
(* those that cut their answers off keep their order.                      *)
(***************************************************************************)
EXTENDS GateFetch, FiniteSetTheorems, TLAPS

\* Readings in the order of the upstream.
LEMMA ReadingType ==
  /\ IsFiniteSet(Reading)
  /\ \A r \in Reading : r = <<r[1], r[2]>> /\ r[1] \in Property /\ r[1] \in Nat /\ At(r) \in Nat /\ At(r) \in 1..Horizon
<1>1. IsFiniteSet(1..Horizon) /\ IsFiniteSet(Property)
  BY GateFetchAssumption, FS_Interval
<1>2. IsFiniteSet(Reading)
  BY <1>1, FS_Product DEF Reading
<1>3. ASSUME NEW r \in Reading
      PROVE  r = <<r[1], r[2]>> /\ r[1] \in Property /\ r[2] \in 1..Horizon
  BY DEF Reading
<1>4. Property \subseteq Nat /\ 1..Horizon \subseteq Nat
  BY GateFetchAssumption
<1> QED
  BY <1>2, <1>3, <1>4 DEF At

\* What the upstream counts: readings, and instants if a row holds all of one.
Row == (Property \cup {0}) \X (1..Horizon)

LEMMA RowType ==
  /\ IsFiniteSet(Row) /\ Reading \subseteq Row
  /\ \A r \in Row : r = <<r[1], r[2]>> /\ r[1] \in Nat /\ At(r) \in Nat
<1>1. IsFiniteSet(1..Horizon) /\ IsFiniteSet(Property \cup {0})
  <2>1. IsFiniteSet(1..Horizon)
    BY GateFetchAssumption, FS_Interval
  <2>2. IsFiniteSet(Property \cup {0})
    BY GateFetchAssumption, FS_AddElement
  <2> QED
    BY <2>1, <2>2
<1>2. IsFiniteSet(Row)
  BY <1>1, FS_Product DEF Row
<1>3. ASSUME NEW r \in Row
      PROVE  r = <<r[1], r[2]>> /\ r[1] \in Property \cup {0} /\ r[2] \in 1..Horizon
  BY DEF Row
<1>4. Property \subseteq Nat /\ 1..Horizon \subseteq Nat
  BY GateFetchAssumption
<1>5. Reading \subseteq Row
  BY DEF Reading, Row
<1> QED
  BY <1>2, <1>3, <1>4, <1>5 DEF At

LEMMA BeforeOrder ==
  ASSUME NEW r \in Row, NEW s \in Row, NEW t \in Row
  PROVE  /\ ~Before(r, r)
         /\ Before(r, s) /\ Before(s, t) => Before(r, t)
         /\ r = s \/ Before(r, s) \/ Before(s, r)
BY RowType DEF Before, At

LEMMA RankType ==
  ASSUME NEW S \in SUBSET Row, NEW r \in Row
  PROVE  /\ IsFiniteSet(S) /\ Cardinality(S) \in Nat
         /\ IsFiniteSet({s \in S : Before(s, r)})
         /\ Rank(S, r) \in Nat
         /\ r \in S => Rank(S, r) < Cardinality(S)
<1>1. IsFiniteSet(S) /\ Cardinality(S) \in Nat
  BY RowType, FS_Subset, FS_CardinalityType
<1> DEFINE B == {s \in S : Before(s, r)}
<1>2. IsFiniteSet(B) /\ Cardinality(B) \in Nat /\ Cardinality(B) <= Cardinality(S)
  BY <1>1, FS_Subset, FS_CardinalityType
<1>3. r \in S => B # S
  BY BeforeOrder
<1>4. Cardinality(S) = Cardinality(B) => S = B
  BY <1>1, FS_Subset
<1> QED
  BY <1>1, <1>2, <1>3, <1>4 DEF Rank

LEMMA RankOrdered ==
  ASSUME NEW S \in SUBSET Row, NEW s \in S, NEW r \in S, Before(s, r)
  PROVE  Rank(S, s) < Rank(S, r)
<1> DEFINE B(x) == {y \in S : Before(y, x)}
<1>1. B(s) \subseteq B(r)
  BY BeforeOrder
<1>2. s \in B(r) /\ s \notin B(s)
  BY BeforeOrder
<1>3. IsFiniteSet(B(r)) /\ Cardinality(B(r)) \in Nat /\ Cardinality(B(s)) \in Nat
  BY RankType DEF Rank
<1>4. Cardinality(B(s)) <= Cardinality(B(r)) /\ (Cardinality(B(r)) = Cardinality(B(s)) => B(r) = B(s))
  BY <1>1, <1>3, FS_Subset
<1> HIDE DEF B
<1>5. Cardinality(B(s)) < Cardinality(B(r))
  BY <1>2, <1>3, <1>4
<1> QED
  BY <1>5 DEF Rank, B

LEMMA RankGrows ==
  ASSUME NEW T \in SUBSET Row, NEW S \in SUBSET T, NEW r \in Row
  PROVE  Rank(S, r) <= Rank(T, r)
<1>1. {s \in S : Before(s, r)} \subseteq {s \in T : Before(s, r)} /\ IsFiniteSet({s \in T : Before(s, r)})
  BY RankType
<1> QED
  BY <1>1, FS_Subset DEF Rank

\* The ranks of a set are 0 to its size less one, each of them once.
LEMMA RankBijection ==
  ASSUME NEW S \in SUBSET Row
  PROVE  /\ \A r, s \in S : Rank(S, r) = Rank(S, s) => r = s
         /\ \A k \in 0..(Cardinality(S) - 1) : \E r \in S : Rank(S, r) = k
<1>1. IsFiniteSet(S) /\ Cardinality(S) \in Nat
  BY RankType, FS_EmptySet, RowType, FS_Subset, FS_CardinalityType
<1>2. ASSUME NEW r \in S, NEW s \in S, Rank(S, r) = Rank(S, s) PROVE r = s
  <2>1. Rank(S, r) \in Nat /\ Rank(S, s) \in Nat
    BY RankType
  <2> QED
    BY <1>2, <2>1, BeforeOrder, RankOrdered
<1> DEFINE K == 0..(Cardinality(S) - 1)
           f == [r \in S |-> Rank(S, r)]
<1>3. ASSUME NEW r \in S PROVE Rank(S, r) \in K
  <2>1. Rank(S, r) \in Nat /\ Rank(S, r) < Cardinality(S)
    BY RankType
  <2> QED
    BY <1>1, <2>1
<1>4. f \in Injection(S, K)
  BY <1>2, <1>3, Zenon DEF Injection, IsInjective
<1>5. IsFiniteSet(K) /\ Cardinality(K) = Cardinality(S)
  BY <1>1, FS_Interval
<1>6. f \in Surjection(S, K)
  BY <1>4, <1>5, FS_Injection
<1>7. \A k \in K : \E r \in S : f[r] = k
  BY <1>6, Zenon DEF Surjection
<1> QED
  BY <1>2, <1>7

\* Of a set with an element beyond them, n consecutive ranks are n elements.
LEMMA RankSlice ==
  ASSUME NEW S \in SUBSET Row, NEW a \in Nat, NEW n \in Nat, NEW x \in S, a + n <= Rank(S, x)
  PROVE  Cardinality({r \in S : a <= Rank(S, r) /\ Rank(S, r) < a + n}) = n
<1> DEFINE C == {r \in S : a <= Rank(S, r) /\ Rank(S, r) < a + n}
           K == a..(a + n - 1)
           f == [r \in C |-> Rank(S, r)]
<1>1. \A r \in S : Rank(S, r) \in Nat
  BY RankType
<1>2. Cardinality(S) \in Nat /\ a + n < Cardinality(S)
  <2>1. Cardinality(S) \in Nat /\ Rank(S, x) \in Nat /\ Rank(S, x) < Cardinality(S)
    BY RankType
  <2> QED
    BY <2>1
<1>3. \A r \in C : Rank(S, r) \in K
  BY <1>1
<1>4. \A r, s \in C : Rank(S, r) = Rank(S, s) => r = s
  BY RankBijection
<1>5. f \in Injection(C, K)
  BY <1>3, <1>4, Zenon DEF Injection, IsInjective
<1>6. ASSUME NEW k \in K PROVE \E r \in C : f[r] = k
  <2>1. k \in 0..(Cardinality(S) - 1) /\ a <= k /\ k < a + n
    BY <1>2
  <2>2. PICK r \in S : Rank(S, r) = k
    BY <2>1, RankBijection
  <2> QED
    BY <2>1, <2>2
<1>7. f \in Surjection(C, K)
  BY <1>5, <1>6, Zenon DEF Surjection, Injection
<1>8. IsFiniteSet(K) /\ Cardinality(K) = n
  BY FS_Interval
<1> QED
  BY <1>5, <1>7, <1>8, FS_Injection

LEMMA LastOfType ==
  ASSUME NEW S \in SUBSET Reading, S # {}
  PROVE  LastOf(S) \in Nat /\ (\A r \in S : At(r) <= LastOf(S)) /\ \E r \in S : At(r) = LastOf(S)
<1> S \in SUBSET Row
  BY RowType
<1>1. Cardinality(S) \in Nat /\ Cardinality(S) # 0
  <2>1. PICK r \in S : TRUE
    OBVIOUS
  <2> QED
    BY <2>1, RankType, FS_EmptySet
<1>2. PICK m \in S : Rank(S, m) = Cardinality(S) - 1
  BY <1>1, RankBijection
<1>3. ASSUME NEW r \in S PROVE At(r) <= At(m)
  <2>1. ~Before(m, r)
    <3>1. SUFFICES ASSUME Before(m, r) PROVE FALSE
      OBVIOUS
    <3>2. Rank(S, m) < Rank(S, r)
      BY <3>1, RankOrdered
    <3>3. Rank(S, r) \in Nat /\ Rank(S, r) < Cardinality(S)
      BY RankType
    <3> QED
      BY <1>1, <1>2, <3>2, <3>3
  <2>2. At(r) \in Nat /\ At(m) \in Nat
    BY ReadingType
  <2> QED
    BY <2>1, <2>2 DEF Before
<1> DEFINE T == {At(r) : r \in S}
<1>4. At(m) \in T /\ \A y \in T : At(m) >= y
  BY <1>3, ReadingType
<1>5. Max(T) \in T /\ \A y \in T : Max(T) >= y
  BY <1>4, Zenon DEF Max
<1>6. LastOf(S) = Max(T)
  BY DEF LastOf
<1> QED
  BY <1>5, <1>6, ReadingType

\* The rows of readings, and where a reading's row is among them.
LEMMA RowsType ==
  ASSUME NEW g, NEW S \in SUBSET Reading, NEW r \in Reading
  PROVE  /\ RowsOf(g, S) \in SUBSET Row /\ RowOf(g, r) \in Row
         /\ r \in S => RowOf(g, r) \in RowsOf(g, S)
         /\ RowRank(g, S, r) \in Nat
<1>1. ASSUME NEW s \in Reading PROVE RowOf(g, s) \in Row
  BY ReadingType DEF RowOf, Row, Reading, At
<1>2. RowsOf(g, S) \in SUBSET Row
  BY <1>1 DEF RowsOf
<1>3. Rank(RowsOf(g, S), RowOf(g, r)) \in Nat
  BY <1>1, <1>2, RankType
<1> QED
  BY <1>1, <1>2, <1>3 DEF RowsOf, RowRank

\* More readings only move a row further back.
LEMMA RowRankGrows ==
  ASSUME NEW g, NEW T \in SUBSET Reading, NEW S \in SUBSET T, NEW r \in Reading
  PROVE  RowRank(g, S, r) <= RowRank(g, T, r)
<1>1. RowsOf(g, S) \in SUBSET RowsOf(g, T)
  BY DEF RowsOf
<1>2. RowsOf(g, T) \in SUBSET Row /\ RowOf(g, r) \in Row
  BY RowsType
<1> QED
  BY <1>1, <1>2, RankGrows DEF RowRank

\* An earlier row holds no later reading, and none of the same instant if rows
\* hold whole instants.
LEMMA RowRankOrdered ==
  ASSUME NEW g, NEW S \in SUBSET Reading, NEW s \in S, NEW r \in S, RowRank(g, S, s) < RowRank(g, S, r)
  PROVE  At(s) < At(r) \/ (~g.wide /\ At(s) = At(r))
<1> DEFINE R == RowsOf(g, S)
           a == RowOf(g, s)
           b == RowOf(g, r)
<1>1. R \in SUBSET Row /\ a \in R /\ b \in R
  BY RowsType
<1>2. Rank(R, a) < Rank(R, b) /\ Rank(R, a) \in Nat /\ Rank(R, b) \in Nat
  BY RowsType DEF RowRank
<1>3. At(a) = At(s) /\ At(b) = At(r) /\ (g.wide => a[1] = b[1])
  BY DEF RowOf, At
<1>4. At(s) \in Nat /\ At(r) \in Nat
  BY ReadingType
<1>5. a[1] \in Nat /\ b[1] \in Nat
  BY <1>1, RowType
<1> HIDE DEF R, a, b
<1>6. ~Before(b, a) /\ a # b
  BY <1>1, <1>2, RankOrdered
<1>7. Before(a, b)
  BY <1>1, <1>6, BeforeOrder
<1> QED
  BY <1>3, <1>4, <1>5, <1>7 DEF Before

\* Of rows with one beyond them, those of n consecutive ranks are n.
LEMMA RowSlice ==
  ASSUME NEW g, NEW S \in SUBSET Reading, NEW a \in Nat, NEW n \in Nat, NEW x \in S,
         a + n <= RowRank(g, S, x)
  PROVE  Cardinality(RowsOf(g, {r \in S : a <= RowRank(g, S, r) /\ RowRank(g, S, r) < a + n})) = n
<1> DEFINE R == RowsOf(g, S)
<1>1. R \in SUBSET Row /\ RowOf(g, x) \in R
  BY RowsType
<1>2. a + n <= Rank(R, RowOf(g, x))
  BY DEF RowRank
<1>3. RowsOf(g, {r \in S : a <= RowRank(g, S, r) /\ RowRank(g, S, r) < a + n})
        = {y \in R : a <= Rank(R, y) /\ Rank(R, y) < a + n}
  BY DEF RowsOf, RowRank
<1> HIDE DEF R
<1>4. Cardinality({y \in R : a <= Rank(R, y) /\ Rank(R, y) < a + n}) = n
  BY <1>1, <1>2, RankSlice
<1> QED
  BY <1>3, <1>4

LEMMA FullPageSome ==
  ASSUME NEW g, NEW S, FullPage(g, S)
  PROVE  S # {}
<1>1. S = {} => RowsOf(g, S) = {}
  BY DEF RowsOf
<1> QED
  BY <1>1, GateFetchAssumption, FS_EmptySet DEF FullPage

-------------------------------------------------------------------------------
LEMMA DivBounds ==
  ASSUME NEW i \in Nat, NEW m \in Nat \ {0}
  PROVE  i \div m \in Nat /\ (i \div m) * m <= i /\ i < (i \div m) * m + m
OBVIOUS

LEMMA DivMonotone ==
  ASSUME NEW i \in Nat, NEW j \in Nat, i <= j, NEW m \in Nat \ {0}
  PROVE  i \div m <= j \div m
BY DivBounds

LEMMA DivPage ==
  ASSUME NEW i \in Nat, NEW p \in Nat \ {0}, NEW m \in Nat \ {0}
  PROVE  i \div m = p - 1 <=> ((p - 1) * m <= i /\ i < (p - 1) * m + m)
BY DivBounds

LEMMA MatchingType ==
  ASSUME FetchInv, NEW q
  PROVE  Matching(gate, q) \subseteq source /\ Matching(gate, q) \subseteq Reading
BY DEF FetchInv, TypeOK, Matching

\* What a page does not hold is on a later one, and the page is full then.
LEMMA PageLeaves ==
  ASSUME FetchInv, NEW q \in Requests, gate.answers = "page",
         NEW r \in Matching(gate, q), r \notin Answered(gate, q), (q.page - 1) * Limit <= RowRank(gate, Matching(gate, q), r)
  PROVE  FullPage(gate, Answered(gate, q)) /\ q.page * Limit <= RowRank(gate, Matching(gate, q), r)
<1> DEFINE all == Matching(gate, q)
           a == (q.page - 1) * Limit
<1>1. Limit \in Nat \ {0} /\ q.page \in Nat \ {0} /\ q.page - 1 \in Nat /\ a \in Nat
  BY GateFetchAssumption DEF Requests
<1>2. all \subseteq Reading /\ \A s \in all : RowRank(gate, all, s) \in Nat
  BY MatchingType, RowsType
<1>3. Answered(gate, q) = {s \in all : RowRank(gate, all, s) \div Limit = q.page - 1}
  BY DEF Answered
<1>4. Answered(gate, q) = {s \in all : a <= RowRank(gate, all, s) /\ RowRank(gate, all, s) < a + Limit}
  BY <1>1, <1>2, <1>3, DivPage
<1>5. a + Limit <= RowRank(gate, all, r)
  BY <1>1, <1>2, <1>4
<1>6. Cardinality(RowsOf(gate, Answered(gate, q))) = Limit
  <2>1. r \in all /\ Limit \in Nat /\ a \in Nat /\ all \in SUBSET Reading
    BY <1>1, <1>2
  <2> HIDE DEF all, a
  <2>2. Cardinality(RowsOf(gate, {s \in all : a <= RowRank(gate, all, s) /\ RowRank(gate, all, s) < a + Limit})) = Limit
    BY <1>5, <2>1, RowSlice
  <2> QED
    BY <1>4, <2>2
<1>7. q.page * Limit = a + Limit
  BY <1>1
<1> QED
  BY <1>5, <1>6, <1>7 DEF FullPage

\* What an answer of the first rows does not hold is later than all of them.
LEMMA AfterLeaves ==
  ASSUME FetchInv, NEW q \in Requests, gate.answers = "after", NEW p \in Property, q.props = {p},
         NEW r \in Matching(gate, q), r \notin Answered(gate, q)
  PROVE  FullPage(gate, Answered(gate, q)) /\ LastOf(Answered(gate, q)) < At(r)
<1> DEFINE all == Matching(gate, q)
           got == Answered(gate, q)
<1>1. Limit \in Nat /\ Limit # 0
  BY GateFetchAssumption
<1>2. all \subseteq Reading /\ \A s \in all : RowRank(gate, all, s) \in Nat
  BY MatchingType, RowsType
<1>3. got = {s \in all : RowRank(gate, all, s) < Limit}
  BY DEF Answered
<1>4. 0 + Limit <= RowRank(gate, all, r)
  BY <1>1, <1>2, <1>3
<1>5. got = {s \in all : 0 <= RowRank(gate, all, s) /\ RowRank(gate, all, s) < 0 + Limit}
  BY <1>1, <1>2, <1>3
<1>6. FullPage(gate, got)
  <2>1. Cardinality(RowsOf(gate, {s \in all : 0 <= RowRank(gate, all, s) /\ RowRank(gate, all, s) < 0 + Limit})) = Limit
    BY <1>1, <1>2, <1>4, RowSlice
  <2> QED
    BY <1>5, <2>1 DEF FullPage
<1>7. got # {} /\ got \subseteq Reading
  BY <1>2, <1>3, <1>6, FullPageSome
<1>8. PICK s \in got : At(s) = LastOf(got)
  BY <1>7, LastOfType
<1>9. r[1] = s[1] /\ r # s /\ r \in Reading /\ s \in Reading
  BY <1>2, <1>3 DEF Matching
<1>10. RowRank(gate, all, s) < RowRank(gate, all, r)
  BY <1>1, <1>2, <1>3, <1>4
<1>11. At(s) <= At(r) /\ (At(s) = At(r) => s = r)
  BY <1>2, <1>3, <1>9, <1>10, RowRankOrdered, ReadingType DEF At
<1>12. At(s) < At(r)
  BY <1>9, <1>11, ReadingType
<1> QED
  BY <1>6, <1>8, <1>12

-------------------------------------------------------------------------------
LEMMA NoRequestIsNone == NoRequest \notin Requests
BY DEF NoRequest, Requests

LEMMA FetchInit == Init => FetchInv
<1> SUFFICES ASSUME Init PROVE FetchInv
  OBVIOUS
<1>1. gate \in Kinds /\ unsigned \subseteq Property /\ source \subseteq Reading
  BY GateFetchAssumption DEF Init
<1>2. window \in (0..Horizon) \X (0..Horizon)
  BY GateFetchAssumption DEF Init
<1>3. Coming = {}
  BY DEF Init, Coming
<1> QED
  BY <1>1, <1>2, <1>3 DEF Init, FetchInv, TypeOK, HttpInit, Accounted, Done

\* Publishing moves readings to later pages only.
LEMMA PublishStep ==
  ASSUME FetchInv, Publish
  PROVE  FetchInv'
<1>1. source \subseteq source' /\ source' \subseteq Reading
  BY DEF FetchInv, TypeOK, Publish
<1>2. UNCHANGED <<gate, unsigned, window, todo, asked, rows, status, answer, owed, withheld, attempt>>
  BY DEF Publish, callVars, httpVars
<1>3. Coming' = Coming
  BY <1>2 DEF Coming
<1>4. ASSUME NEW q \in Coming, NEW r \in owed, Awaits(q, r) PROVE Awaits(q, r)'
  <2>1. Matching(gate, q) \subseteq Matching(gate, q)' /\ Matching(gate, q)' \subseteq Reading
    BY <1>1, <1>2 DEF Matching
  <2>2. r \in Reading /\ q \in Requests
    BY DEF FetchInv, TypeOK
  <2>3. RowRank(gate, Matching(gate, q), r) <= RowRank(gate, Matching(gate, q)', r)
    BY <2>1, <2>2, RowRankGrows
  <2>4. /\ RowRank(gate, Matching(gate, q), r) \in Nat
        /\ RowRank(gate, Matching(gate, q)', r) \in Nat
        /\ (q.page - 1) * Limit \in Int
    <3>1. Matching(gate, q) \in SUBSET Reading /\ Matching(gate, q)' \in SUBSET Reading
      BY <2>1
    <3>2. RowRank(gate, Matching(gate, q), r) \in Nat
      BY <2>2, <3>1, RowsType
    <3>3. RowRank(gate, Matching(gate, q)', r) \in Nat
      BY <2>2, <3>1, RowsType
    <3>4. q.page \in Int /\ Limit \in Int
      BY <2>2, GateFetchAssumption DEF Requests
    <3> QED
      BY <3>2, <3>3, <3>4
  <2>5. RowRank(gate, Matching(gate, q), r)' = RowRank(gate, Matching(gate, q)', r)
    BY <1>2 DEF RowRank, RowsOf, RowOf, Rank, Before, At
  <2> QED
    BY <1>2, <1>4, <2>3, <2>4, <2>5 DEF Awaits, Covers
<1>5. status' = "asking" => \A r \in owed' \ (rows' \cup withheld') : \E q \in Coming' : Awaits(q, r)'
  BY <1>2, <1>3, <1>4 DEF FetchInv, TypeOK
<1> QED
  BY <1>1, <1>2, <1>3, <1>5 DEF FetchInv, TypeOK, Accounted, Done, Inside

\* The first requests of a call cover all it owes.
LEMMA PartsCover ==
  ASSUME FetchInv, NEW w \in Window, NEW r \in source, InReach(gate, w, At(r))
  PROVE  \E q \in Parts(gate, w) : /\ Covers(gate, q, At(r))
                                  /\ q.page = 1
                                  /\ \/ r[1] \in q.props
                                     \/ gate.parts = "typed" /\ q.props = Property \ unsigned /\ r[1] \in unsigned
<1>1. r[1] \in Property /\ At(r) \in Nat /\ At(r) \in 1..Horizon
  BY ReadingType DEF FetchInv, TypeOK
<1>2. w[1] \in Nat /\ w[2] \in Nat /\ w[1] < At(r) /\ At(r) <= w[2] /\ (At(r) < w[2] \/ gate.high)
  BY <1>1, GateFetchAssumption DEF InReach
<1>3. gate.parts \in {"whole", "property", "typed", "day", "past"}
  BY KindsAssumption DEF FetchInv, TypeOK
<1>4. CASE gate.parts = "whole"
  <2>1. Request(Property, w[1], w[2]) \in Parts(gate, w)
    BY <1>4 DEF Parts
  <2> QED
    BY <1>1, <1>2, <2>1 DEF Request, Covers
<1>5. CASE gate.parts = "typed"
  <2>1. Request(Property \ unsigned, w[1], w[2]) \in Parts(gate, w)
    BY <1>5 DEF Parts
  <2> QED
    BY <1>1, <1>2, <1>5, <2>1 DEF Request, Covers
<1>6. CASE gate.parts = "property"
  <2>1. Request({r[1]}, w[1], w[2]) \in Parts(gate, w)
    BY <1>1, <1>6 DEF Parts
  <2> QED
    BY <1>1, <1>2, <2>1 DEF Request, Covers
<1>7. CASE gate.parts \in {"day", "past"}
  <2> DEFINE d == Day(At(r))
  <2>1. d \in Nat /\ Day(w[1]) <= d /\ d <= Day(w[2]) /\ Day(w[1]) \in Nat /\ Day(w[2]) \in Nat
    BY <1>1, <1>2, GateFetchAssumption, DivBounds, DivMonotone DEF Day
  <2>2. d * DayLength \in Nat /\ d * DayLength <= At(r) /\ At(r) <= d * DayLength + DayLength - 1
    BY <1>1, GateFetchAssumption, DivBounds DEF Day
  <2>3. gate.low /\ gate.high
    BY <1>7, KindsAssumption DEF FetchInv, TypeOK
  <2>4. DaySpan(d) \in Parts(gate, w)
    <3>1. CASE gate.parts = "day"
      BY <2>1, <3>1 DEF Parts
    <3>2. CASE gate.parts = "past"
      <4>1. Day(Horizon) \in Nat /\ d < Day(Horizon)
        BY <3>2, GateFetchAssumption, DivBounds DEF InReach, Day
      <4> DEFINE T == {Day(w[2]), Day(Horizon) - 1}
      <4>2. \E x \in T : \A y \in T : x <= y
        BY <2>1, <4>1
      <4>3. Min(T) \in T
        BY <4>2, Zenon DEF Min
      <4>4. d <= Min(T) /\ Min(T) \in Int
        BY <2>1, <4>1, <4>3
      <4>5. d \in Day(w[1])..Min(T)
        BY <2>1, <4>4
      <4> QED
        BY <3>2, <4>5 DEF Parts
    <3> QED
      BY <1>7, <3>1, <3>2
  <2>5. /\ DaySpan(d).from = d * DayLength /\ DaySpan(d).to = d * DayLength + DayLength - 1
        /\ DaySpan(d).props = Property /\ DaySpan(d).page = 1
    BY DEF DaySpan, Request
  <2>6. DayLength \in Nat
    BY GateFetchAssumption
  <2>7. Covers(gate, DaySpan(d), At(r))
    BY <1>1, <2>2, <2>3, <2>5, <2>6 DEF Covers
  <2> QED
    BY <1>1, <2>4, <2>5, <2>7
<1> QED
  BY <1>3, <1>4, <1>5, <1>6, <1>7

LEMMA PartsType ==
  ASSUME FetchInv, NEW w \in Window, NEW q \in Parts(gate, w)
  PROVE  q \in Requests /\ (gate.answers = "after" => \E p \in Property : q.props = {p})
<1>1. w[1] \in Nat /\ w[2] \in Nat /\ 1 \in 1..MaxPages
  BY GateFetchAssumption
<1>2. gate.parts \in {"whole", "property", "typed", "day", "past"} /\ (gate.answers = "after" => gate.parts = "property")
  BY KindsAssumption DEF FetchInv, TypeOK
<1>3. CASE gate.parts \in {"whole", "typed"}
  BY <1>1, <1>2, <1>3 DEF Parts, Request, Requests
<1>4. CASE gate.parts = "property"
  <2>1. PICK p \in Property : q = Request({p}, w[1], w[2])
    BY <1>4 DEF Parts
  <2> QED
    BY <1>1, <2>1 DEF Request, Requests
<1>5. CASE gate.parts \in {"day", "past"}
  <2>1. PICK d \in Int : d >= Day(w[1]) /\ q = DaySpan(d)
    BY <1>5 DEF Parts
  <2>2. d \in Nat
    BY <1>1, <2>1, GateFetchAssumption, DivBounds DEF Day
  <2>3. d * DayLength \in Nat /\ d * DayLength + DayLength - 1 \in Nat
    BY <2>2, GateFetchAssumption
  <2> QED
    BY <1>1, <1>2, <1>5, <2>1, <2>3 DEF DaySpan, Request, Requests
<1> QED
  BY <1>2, <1>3, <1>4, <1>5

LEMMA BeginStep ==
  ASSUME FetchInv, Begin
  PROVE  FetchInv'
<1>1. PICK w \in Window : /\ window' = w
                         /\ todo' = Parts(gate, w)
                         /\ owed' = {r \in source : InReach(gate, w, At(r))}
  BY DEF Begin
<1>2. /\ status # "asking" /\ status' = "asking" /\ rows' = {} /\ answer' = {} /\ withheld' = {}
      /\ UNCHANGED <<gate, unsigned, source, asked, attempt>>
  BY DEF Begin, httpVars
<1>3. asked = NoRequest /\ attempt = 0
  BY <1>2 DEF FetchInv, TypeOK
<1>4. Coming' = Parts(gate, w)
  BY <1>1, <1>2, <1>3 DEF Coming
<1>5. Coming' \subseteq Requests /\ \A q \in Coming' : gate'.answers = "after" => \E p \in Property : q.props = {p}
  BY <1>2, <1>4, PartsType
<1>6. window' \in (0..Horizon) \X (0..Horizon)
  BY <1>1, GateFetchAssumption
<1>7. \A r \in owed' : Inside(r)'
  <2>1. ASSUME NEW r \in source, InReach(gate, w, At(r)) PROVE w[1] < At(r) /\ At(r) <= w[2]
    BY <2>1, ReadingType, GateFetchAssumption DEF InReach, FetchInv, TypeOK
  <2> QED
    BY <1>1, <2>1 DEF Inside, At
<1>8. \A r \in owed' : \E q \in Coming' : Awaits(q, r)'
  <2> SUFFICES ASSUME NEW r \in source, InReach(gate, w, At(r)) PROVE \E q \in Coming' : Awaits(q, r)'
    BY <1>1
  <2>1. PICK q \in Parts(gate, w) :
          /\ Covers(gate, q, At(r))
          /\ q.page = 1
          /\ r[1] \in q.props \/ (gate.parts = "typed" /\ q.props = Property \ unsigned /\ r[1] \in unsigned)
    BY PartsCover
  <2>2. (q.page - 1) * Limit = 0
    BY <2>1, GateFetchAssumption
  <2>3. RowRank(gate, Matching(gate, q), r) \in Nat
    BY MatchingType, RowsType DEF FetchInv, TypeOK
  <2>4. Awaits(q, r)
    BY <2>1, <2>2, <2>3 DEF Awaits
  <2>5. Awaits(q, r)'
    BY <1>2, <2>4 DEF Awaits, Covers, Matching, RowRank, RowsOf, RowOf, Rank, Before, At
  <2> QED
    BY <1>4, <2>5
<1> QED
  BY <1>1, <1>2, <1>3, <1>5, <1>6, <1>7, <1>8 DEF FetchInv, TypeOK, Accounted, Done

LEMMA AwaitsStable ==
  ASSUME UNCHANGED <<gate, unsigned, source>>, NEW q, NEW r
  PROVE  Awaits(q, r)' <=> Awaits(q, r)
BY DEF Awaits, Covers, Matching, RowRank, RowsOf, RowOf, Rank, Before, At

\* Steps that leave the requests to come as they are.
LEMMA AskStep ==
  ASSUME FetchInv, Ask
  PROVE  FetchInv'
<1>1. PICK q \in todo : asked' = q /\ todo' = todo \ {q}
  BY DEF Ask
<1>2. /\ status = "asking" /\ asked = NoRequest /\ attempt' = 1
      /\ UNCHANGED <<gate, unsigned, source, window, rows, status, answer, owed, withheld>>
  BY DEF Ask, Call
<1>3. q \in Requests /\ q # NoRequest
  BY NoRequestIsNone DEF FetchInv, TypeOK, Coming
<1>4. Coming' = Coming
  BY <1>1, <1>2, <1>3 DEF Coming
<1>5. status' = "asking" => \A r \in owed' \ (rows' \cup withheld') : \E p \in Coming' : Awaits(p, r)'
  BY <1>2, <1>4, AwaitsStable DEF FetchInv, TypeOK
<1> QED
  BY <1>1, <1>2, <1>3, <1>4, <1>5 DEF FetchInv, TypeOK, Accounted, Done, Inside

LEMMA QuietStep ==
  ASSUME FetchInv, UNCHANGED <<gate, unsigned, source, callVars>>,
         attempt' \in Nat, attempt' = 0 <=> attempt = 0
  PROVE  FetchInv'
<1>1. UNCHANGED <<gate, unsigned, source, window, todo, asked, rows, status, answer, owed, withheld>>
  BY DEF callVars
<1>2. Coming' = Coming
  BY <1>1 DEF Coming
<1>3. status' = "asking" => \A r \in owed' \ (rows' \cup withheld') : \E p \in Coming' : Awaits(p, r)'
  BY <1>1, <1>2, AwaitsStable DEF FetchInv, TypeOK
<1>4. attempt' > 0 <=> attempt > 0
  BY DEF FetchInv, TypeOK
<1> QED
  BY <1>1, <1>2, <1>3, <1>4 DEF FetchInv, TypeOK, Accounted, Done, Inside

LEMMA ReturnStep ==
  ASSUME FetchInv, Return
  PROVE  FetchInv'
<1>1. /\ status = "asking" /\ asked = NoRequest /\ todo = {}
      /\ status' = "answered" /\ answer' = rows /\ rows' = {}
      /\ UNCHANGED <<gate, unsigned, source, window, todo, asked, owed, withheld, attempt>>
  BY DEF Return, httpVars
<1>2. Coming = {} /\ Coming' = {}
  BY <1>1 DEF Coming
<1>3. owed \subseteq rows \cup withheld
  BY <1>1, <1>2 DEF FetchInv, TypeOK
<1>4. attempt = 0
  BY <1>1 DEF FetchInv, TypeOK
<1> QED
  BY <1>1, <1>2, <1>3, <1>4 DEF FetchInv, TypeOK, Accounted, Done, Inside

\* What is awaited of the request being made: it is answered, it is left out,
\* or a request that follows is for it.
LEMMA AnswerLeaves ==
  ASSUME FetchInv, NEW q \in Coming, NEW r \in owed, Awaits(q, r),
         r \notin Keep(gate, Answered(gate, q)),
         r \notin LeftOut(gate, q, Answered(gate, q)),
         r \notin NotAsked(gate, q, Answered(gate, q))
  PROVE  \E n \in FollowUp(gate, q, Answered(gate, q)) : Awaits(n, r)
<1> DEFINE got == Answered(gate, q)
           all == Matching(gate, q)
<1>1. /\ q \in Requests /\ r \in source /\ r \in Reading /\ Inside(r) /\ gate \in Kinds
      /\ Covers(gate, q, At(r))
  BY DEF FetchInv, TypeOK, Awaits
<1>2. all \in SUBSET Reading
  BY MatchingType
<1>3. r \notin got
  BY <1>1 DEF Keep, Inside
<1>4. gate.answers \in {"all", "oldest", "newest", "page", "after"}
  BY <1>1, KindsAssumption
<1>5. CASE r[1] \in q.props
  <2>1. r \in all
    BY <1>1, <1>5 DEF Matching
  <2>2. CASE gate.answers = "all"
    BY <1>3, <2>1, <2>2 DEF Answered
  <2>3. CASE gate.answers \in {"oldest", "newest"}
    BY <1>3, <2>1, <2>3 DEF LeftOut
  <2>4. CASE gate.answers = "page"
    <3>1. (q.page - 1) * Limit <= RowRank(gate, all, r)
      BY <1>1, <2>1, <2>4, <1>5 DEF Awaits
    <3>2. FullPage(gate, got) /\ q.page * Limit <= RowRank(gate, all, r)
      BY <1>1, <1>3, <2>1, <2>4, <3>1, PageLeaves
    <3>3. q.page \in 1..MaxPages /\ MaxPages \in Nat /\ Limit \in Nat
      BY <1>1, GateFetchAssumption DEF Requests
    <3>4. RowRank(gate, all, r) \in Nat
      BY <1>1, <1>2, RowsType
    <3>5. q.page < MaxPages
      <4>1. SUFFICES ASSUME q.page = MaxPages PROVE FALSE
        BY <3>3
      <4>2. ~(RowRank(gate, all, r) >= MaxPages * Limit)
        BY <2>1, <2>4 DEF LeftOut
      <4> QED
        BY <3>2, <3>3, <3>4, <4>1, <4>2
    <3> DEFINE n == [q EXCEPT !.page = @ + 1]
    <3>6. n \in FollowUp(gate, q, got)
      BY <1>1, <2>4, <3>2, <3>5, KindsAssumption DEF FollowUp
    <3>7. n.props = q.props /\ n.from = q.from /\ n.to = q.to /\ n.page - 1 = q.page
      BY <1>1, <3>3 DEF Requests
    <3>8. Matching(gate, n) = all /\ Covers(gate, n, At(r))
      BY <1>1, <3>7 DEF Matching, Covers
    <3> QED
      BY <1>5, <3>2, <3>6, <3>7, <3>8 DEF Awaits
  <2>5. CASE gate.answers = "after"
    <3>1. PICK p \in Property : q.props = {p}
      BY <2>5 DEF FetchInv, TypeOK
    <3>2. FullPage(gate, got) /\ LastOf(got) < At(r)
      BY <1>1, <1>3, <2>1, <2>5, <3>1, AfterLeaves
    <3>3. got # {} /\ got \in SUBSET Reading
      <4>1. got \in SUBSET Reading
        BY <1>2, <2>5 DEF Answered
      <4> QED
        BY <3>2, <4>1, FullPageSome
    <3>4. LastOf(got) \in Nat /\ At(r) \in Nat
      BY <1>1, <3>3, LastOfType, ReadingType
    <3>5. q.from \in Nat /\ q.to \in Nat /\ At(r) <= q.to
      BY <1>1, <3>4 DEF Requests, Covers
    <3> DEFINE n == [q EXCEPT !.from = NextAfter(got) - 1]
    <3>6. n \in FollowUp(gate, q, got)
      <4>1. gate.parts # "typed" /\ gate.answers # "page"
        BY <1>1, <2>5, KindsAssumption
      <4>2. LastOf(got) < q.to
        BY <3>2, <3>4, <3>5
      <4>3. FollowUp(gate, q, got) = {n}
        BY <2>5, <3>2, <4>1, <4>2 DEF FollowUp
      <4> QED
        BY <4>3
    <3>7. n.props = q.props /\ n.from = LastOf(got) /\ n.to = q.to
      BY <1>1, <3>4 DEF Requests, NextAfter
    <3>8. Covers(gate, n, At(r))
      BY <1>1, <3>2, <3>7 DEF Covers
    <3> QED
      BY <1>5, <2>5, <3>6, <3>7, <3>8 DEF Awaits
  <2> QED
    BY <1>4, <2>2, <2>3, <2>4, <2>5
<1>6. CASE r[1] \notin q.props
  <2>1. gate.parts = "typed" /\ q.props = Property \ unsigned /\ r[1] \in unsigned
    BY <1>6 DEF Awaits
  <2>2. got = {}
    BY <1>1, <1>6, <2>1 DEF NotAsked
  <2>3. gate.answers # "after"
    BY <1>1, <2>1, KindsAssumption
  <2>4. gate.answers # "page"
    BY <1>1, <2>1, KindsAssumption
  <2>5. FollowUp(gate, q, got) = {Request(unsigned, q.from, q.to)}
    BY <2>1, <2>2, <2>3, <2>4 DEF FollowUp
  <2>6. Covers(gate, Request(unsigned, q.from, q.to), At(r))
    BY <1>1 DEF Covers, Request
  <2> QED
    BY <2>1, <2>4, <2>5, <2>6 DEF Awaits, Request
<1> QED
  BY <1>5, <1>6

LEMMA FollowUpType ==
  ASSUME FetchInv, NEW q \in Coming, NEW n \in FollowUp(gate, q, Answered(gate, q))
  PROVE  n \in Requests /\ (gate.answers = "after" => \E p \in Property : n.props = {p})
<1> DEFINE got == Answered(gate, q)
<1>1. q \in Requests /\ gate \in Kinds
  BY DEF FetchInv, TypeOK
<1>2. CASE gate.answers = "page" /\ q.page < MaxPages /\ n = [q EXCEPT !.page = @ + 1]
  BY <1>1, <1>2, GateFetchAssumption DEF Requests
<1>3. CASE gate.answers = "after" /\ FullPage(gate, got) /\ n = [q EXCEPT !.from = NextAfter(got) - 1]
  <2>1. got \in SUBSET Reading
    BY <1>3, MatchingType DEF Answered
  <2>2. got # {}
    BY <1>3, FullPageSome
  <2>3. LastOf(got) \in Nat
    BY <2>1, <2>2, LastOfType
  <2> HIDE DEF got
  <2>4. n.props = q.props /\ n \in Requests
    BY <1>1, <1>3, <2>3 DEF Requests, NextAfter
  <2> QED
    BY <1>3, <2>4 DEF FetchInv, TypeOK
<1>4. CASE gate.parts = "typed" /\ n = Request(unsigned, q.from, q.to)
  <2>1. gate.answers # "after"
    BY <1>1, <1>4, KindsAssumption
  <2> QED
    BY <1>1, <1>4, <2>1, GateFetchAssumption DEF Request, Requests, FetchInv, TypeOK
<1> QED
  BY <1>2, <1>3, <1>4 DEF FollowUp

LEMMA AnswerStep ==
  ASSUME FetchInv, Answer
  PROVE  FetchInv'
<1> DEFINE got == Answered(gate, asked)
<1>1. /\ rows' = rows \cup Keep(gate, got)
      /\ todo' = todo \cup FollowUp(gate, asked, got)
      /\ withheld' = withheld \cup LeftOut(gate, asked, got) \cup NotAsked(gate, asked, got)
      /\ asked' = NoRequest
      /\ UNCHANGED <<gate, unsigned, source, window, status, answer, owed>>
  BY DEF Answer
<1>2. gate \in Kinds /\ "ok" \notin gate.policy.again
  BY KindsAssumption DEF FetchInv, TypeOK
<1>3. attempt > 0 /\ attempt' = 0
  BY <1>2 DEF Answer, Send, Retries
<1>4. status = "asking" /\ asked # NoRequest /\ asked \in Coming
  BY <1>3 DEF FetchInv, TypeOK, Coming
<1>5. Coming' = (Coming \ {asked}) \cup FollowUp(gate, asked, got) \/ Coming' = Coming \cup FollowUp(gate, asked, got)
  <2>1. NoRequest \notin todo \cup FollowUp(gate, asked, got)
    BY <1>4, FollowUpType, NoRequestIsNone DEF FetchInv, TypeOK, Coming
  <2> QED
    BY <1>1, <1>4, <2>1 DEF Coming
<1>6. /\ Coming' \subseteq Requests
      /\ \A q \in Coming' : gate'.answers = "after" => \E p \in Property : q.props = {p}
  BY <1>1, <1>4, <1>5, FollowUpType DEF FetchInv, TypeOK
<1>7. Keep(gate, got) \subseteq source /\ (gate.filters => \A r \in Keep(gate, got) : Inside(r))
  <2>1. got \subseteq source
    BY <1>2, MatchingType, KindsAssumption DEF Answered
  <2> QED
    BY <2>1 DEF Keep, Inside
<1>8. ASSUME NEW r \in owed \ (rows' \cup withheld') PROVE \E q \in Coming' : Awaits(q, r)
  <2>1. PICK q \in Coming : Awaits(q, r)
    BY <1>1, <1>4 DEF FetchInv, TypeOK
  <2>2. CASE q = asked
    <3>1. \E n \in FollowUp(gate, asked, got) : Awaits(n, r)
      BY <1>1, <1>4, <2>1, <2>2, AnswerLeaves
    <3> QED
      BY <1>5, <3>1
  <2>3. CASE q # asked
    BY <1>5, <2>1, <2>3
  <2> QED
    BY <2>2, <2>3
<1>9. status' = "asking" => \A r \in owed' \ (rows' \cup withheld') : \E q \in Coming' : Awaits(q, r)'
  BY <1>1, <1>8, AwaitsStable
<1> HIDE DEF got
<1> QED
  BY <1>1, <1>3, <1>4, <1>6, <1>7, <1>9 DEF FetchInv, TypeOK, Accounted, Done, Inside

LEMMA FailStep ==
  ASSUME FetchInv, Fail
  PROVE  FetchInv'
<1>1. /\ attempt > 0 /\ attempt' = 0 /\ asked' = NoRequest
      /\ UNCHANGED <<gate, unsigned, source, window, answer, owed>>
  BY DEF Fail, Send
<1>2. status = "asking" /\ asked # NoRequest /\ asked \in Coming
  BY <1>1 DEF FetchInv, TypeOK, Coming
<1>3. CASE gate.skips
  <2>1. withheld' = withheld \cup Matching(gate, asked) /\ UNCHANGED <<status, todo, rows>>
    BY <1>3 DEF Fail, PassesOver
  <2>2. Coming \subseteq Coming' \cup {asked} /\ Coming' \subseteq Coming
    BY <1>1, <1>2, <2>1 DEF Coming
  <2>3. gate.parts # "typed"
    BY <1>3, KindsAssumption DEF FetchInv, TypeOK
  <2>4. ASSUME NEW r \in owed \ (rows' \cup withheld') PROVE \E q \in Coming' : Awaits(q, r)
    <3>1. PICK q \in Coming : Awaits(q, r)
      BY <1>2, <2>1 DEF FetchInv, TypeOK
    <3>2. r \in Matching(gate, q)
      BY <2>3, <3>1 DEF Awaits, Matching, FetchInv, TypeOK
    <3> QED
      BY <2>1, <2>2, <3>1, <3>2
  <2>5. status' = "asking" => \A r \in owed' \ (rows' \cup withheld') : \E q \in Coming' : Awaits(q, r)'
    BY <1>1, <2>4, AwaitsStable
  <2> QED
    BY <1>1, <1>2, <2>1, <2>2, <2>5 DEF FetchInv, TypeOK, Accounted, Done, Inside
<1>4. CASE ~gate.skips
  <2>1. status' = "raised" /\ todo' = {} /\ rows' = {}
    BY <1>4 DEF Fail, PassesOver
  <2>2. Coming' = {}
    BY <1>1, <2>1 DEF Coming
  <2> QED
    BY <1>1, <2>1, <2>2 DEF FetchInv, TypeOK, Accounted, Done, Inside
<1> QED
  BY <1>3, <1>4

LEMMA FetchNext == FetchInv /\ [Next]_vars => FetchInv'
<1> SUFFICES ASSUME FetchInv, [Next]_vars PROVE FetchInv'
  OBVIOUS
<1>1. attempt \in Nat /\ (attempt > 0 <=> attempt # 0)
  BY DEF FetchInv, TypeOK
<1>2. CASE Publish
  BY <1>2, PublishStep
<1>3. CASE Begin
  BY <1>3, BeginStep
<1>4. CASE Ask
  BY <1>4, AskStep
<1>5. CASE TryAgain
  <2>1. attempt > 0 /\ attempt' = attempt + 1 /\ UNCHANGED <<gate, unsigned, source, callVars>>
    BY <1>5 DEF TryAgain, Send
  <2> QED
    BY <1>1, <2>1, QuietStep
<1>6. CASE Answer
  BY <1>6, AnswerStep
<1>7. CASE Fail
  BY <1>7, FailStep
<1>8. CASE Return
  BY <1>8, ReturnStep
<1>9. CASE Wait
  <2>1. attempt' = attempt /\ UNCHANGED <<gate, unsigned, source, callVars>>
    BY <1>9 DEF Wait, Pass
  <2> QED
    BY <1>1, <2>1, QuietStep
<1>10. CASE UNCHANGED vars
  <2>1. attempt' = attempt /\ UNCHANGED <<gate, unsigned, source, callVars>>
    BY <1>10 DEF vars, httpVars
  <2> QED
    BY <1>1, <2>1, QuietStep
<1> QED
  BY <1>2, <1>3, <1>4, <1>5, <1>6, <1>7, <1>8, <1>9, <1>10 DEF Next, FetchStep

\* Of every gate of the admitted kinds, and whatever its upstream publishes and
\* however it fails: what a call owes has been answered, is withheld, or a
\* request still to come is for it.
THEOREM GateInvariant == Spec => []FetchInv
<1> QED
  BY FetchInit, FetchNext, PTL DEF Spec

\* What an answer of fetch lacks of its window was cut off by a limit, is of a
\* type not asked for, or belongs to a point that could not be read.
THEOREM AccountedSafety == Spec => []Accounted
<1>1. FetchInv => Accounted
  BY DEF FetchInv, TypeOK
<1> QED
  BY <1>1, GateInvariant, PTL

-------------------------------------------------------------------------------
\* A gate that meets the contract never withholds anything.
Whole == MeetsContract(gate) => withheld = {}

LEMMA WholeInit == Init => Whole
BY DEF Init, Whole

LEMMA WholeNext == FetchInv /\ Whole /\ [Next]_vars => Whole'
<1> SUFFICES ASSUME FetchInv, Whole, [Next]_vars, MeetsContract(gate)' PROVE withheld' = {}
  BY DEF Whole
<1>1. gate' = gate
  BY DEF Next, FetchStep, Publish, Begin, Ask, TryAgain, Answer, Fail, Return, Wait, vars
<1>2. MeetsContract(gate) /\ withheld = {}
  BY <1>1 DEF MeetsContract, Whole
<1>3. CASE Begin
  BY <1>3 DEF Begin
<1>4. CASE Answer
  <2>1. LeftOut(gate, asked, Answered(gate, asked)) = {}
    BY <1>2 DEF LeftOut, MeetsContract
  <2>2. NotAsked(gate, asked, Answered(gate, asked)) = {}
    BY <1>2 DEF NotAsked, MeetsContract
  <2> QED
    BY <1>2, <1>4, <2>1, <2>2 DEF Answer
<1>5. CASE Fail
  BY <1>2, <1>5 DEF Fail, PassesOver, MeetsContract
<1>6. CASE Publish \/ Ask \/ TryAgain \/ Return \/ Wait \/ UNCHANGED vars
  <2>1. withheld' = withheld
    BY <1>6 DEF Publish, Ask, TryAgain, Return, Wait, vars, callVars
  <2> QED
    BY <1>2, <2>1
<1> QED
  BY <1>3, <1>4, <1>5, <1>6 DEF Next, FetchStep

LEMMA ContractInit == Init => Contract!Init
<1>1. Init => source \in SUBSET Reading
  BY DEF Init
<1> QED
  BY <1>1 DEF Init, Contract!Init, Promised

LEMMA ContractNext == FetchInv /\ Whole /\ [Next]_vars => [Contract!Next]_(Contract!vars)
<1> SUFFICES ASSUME FetchInv, Whole, [Next]_vars PROVE [Contract!Next]_(Contract!vars)
  OBVIOUS
<1>1. gate' = gate
  BY DEF Next, FetchStep, Publish, Begin, Ask, TryAgain, Answer, Fail, Return, Wait, vars
<1>2. CASE Publish
  <2>1. UNCHANGED <<gate, status, owed, answer>>
    BY <1>2 DEF Publish, callVars
  <2> QED
    BY <1>2, <2>1 DEF Publish, Contract!Publish, Contract!Next, Promised, MeetsContract
<1>3. CASE ~Publish /\ ~MeetsContract(gate)
  <2>1. source' = source
    BY <1>3 DEF Next, FetchStep, Begin, Ask, TryAgain, Answer, Fail, Return, Wait, vars
  <2> QED
    BY <1>1, <1>3, <2>1 DEF Contract!vars, Promised
<1>4. CASE MeetsContract(gate) /\ Begin
  <2>1. PICK w \in Window : owed' = {r \in source : InReach(gate, w, At(r))}
    BY <1>4 DEF Begin
  <2>2. w[1] \in 0..Horizon /\ w[2] \in 0..Horizon
    BY GateFetchAssumption
  <2>3. \A r \in source : InReach(gate, w, At(r)) <=> w[1] < At(r) /\ At(r) <= w[2]
    <3>1. \A r \in source : At(r) \in Nat
      BY ReadingType DEF FetchInv, TypeOK
    <3> QED
      BY <1>4, <2>2, <3>1 DEF InReach, MeetsContract
  <2>4. owed' = {r \in source : w[1] < At(r) /\ At(r) <= w[2]}
    BY <2>1, <2>3
  <2>5. status # "asking" /\ status' = "asking" /\ answer' = {} /\ source' = source
    BY <1>4 DEF Begin
  <2> QED
    BY <1>1, <1>4, <2>2, <2>4, <2>5 DEF Contract!Begin, Contract!Next, Promised
<1>5. CASE MeetsContract(gate) /\ Fail
  <2>1. status = "asking"
    BY <1>5 DEF Fail, Send, FetchInv, TypeOK
  <2>2. status' = "raised" /\ UNCHANGED <<source, owed, answer>>
    BY <1>5 DEF Fail, PassesOver, MeetsContract
  <2> QED
    BY <1>1, <1>5, <2>1, <2>2 DEF Contract!Raise, Contract!Next, Promised
<1>6. CASE MeetsContract(gate) /\ Return
  <2>1. /\ status = "asking" /\ asked = NoRequest /\ todo = {} /\ status' = "answered" /\ answer' = rows
        /\ UNCHANGED <<source, owed>>
    BY <1>6 DEF Return
  <2>2. Coming = {}
    BY <2>1 DEF Coming
  <2>3. owed \subseteq rows /\ rows \in SUBSET source
    BY <1>6, <2>1, <2>2 DEF FetchInv, TypeOK, Whole
  <2> QED
    BY <1>1, <1>6, <2>1, <2>3 DEF Contract!Return, Contract!Next, Promised
<1>7. CASE MeetsContract(gate) /\ (Ask \/ TryAgain \/ Answer \/ Wait \/ UNCHANGED vars)
  <2>1. UNCHANGED <<source, status, owed, answer>>
    BY <1>7 DEF Ask, TryAgain, Answer, Wait, vars, callVars
  <2> QED
    BY <1>1, <1>7, <2>1 DEF Contract!vars, Promised
<1> QED
  BY <1>2, <1>3, <1>4, <1>5, <1>6, <1>7 DEF Next, FetchStep

\* The gates that meet the contract of Gate.fetch implement the safety part of
\* FetchContract: a call returns published readings with all it owes among
\* them, or raises and returns nothing.
THEOREM ContractSafety == Spec => Contract!Init /\ [][Contract!Next]_(Contract!vars)
<1>1. Spec => [](FetchInv /\ Whole)
  BY FetchInit, FetchNext, WholeInit, WholeNext, PTL DEF Spec
<1> QED
  BY <1>1, ContractInit, ContractNext, PTL DEF Spec

-------------------------------------------------------------------------------
\* The requests of a gate that keeps order: those of a typed gate are for all
\* properties or for none.  If its answers are cut off, there is one at a time,
\* for the whole window; nothing has been answered before the only answer, and
\* what is owed and has not been answered is on this page or on a later one, and
\* is later than what has been answered, or a tie that the gate may split.
CutsOff(g) == g.answers \in {"oldest", "page"}
Samples == rows \cup answer
OneSpan ==
  /\ \A p, q \in Coming : p = q
  /\ asked \notin todo
  /\ \A q \in Coming : q.props \in {{}, Property} /\ \A r \in owed : Covers(gate, q, At(r))
Pages ==
  gate.answers = "page" =>
    \A q \in Coming : \A r \in owed \ rows : (q.page - 1) * Limit <= RowRank(gate, Matching(gate, q), r)
Precedes(s, r) == At(s) < At(r) \/ (SplitsInstants(gate) /\ At(s) = At(r))
InOrder == \A r \in owed \ Samples, s \in Samples : Precedes(s, r)
CutInv ==
  /\ OneSpan
  /\ Pages
  /\ gate.answers = "oldest" /\ Coming # {} => rows = {}
  /\ InOrder
FullInv ==
  /\ gate.parts = "typed" => \A q \in Coming : q.props \in {{}, Property}
  /\ withheld = {}
OrderInv ==
  /\ status = "asking" => answer = {}
  /\ status # "asking" => rows = {}
  /\ KeepsOrder(gate) => IF CutsOff(gate) THEN CutInv ELSE FullInv

LEMMA OrderStart == Init => OrderInv
<1> SUFFICES ASSUME Init PROVE OrderInv
  OBVIOUS
<1>1. /\ todo = {} /\ asked = NoRequest /\ Coming = {} /\ rows = {} /\ answer = {} /\ owed = {} /\ withheld = {}
      /\ status = "idle"
  BY DEF Init, Coming
<1> QED
  BY <1>1 DEF OrderInv, CutInv, FullInv, OneSpan, Pages, InOrder, Samples

LEMMA KeepsOrderType ==
  ASSUME FetchInv
  PROVE  /\ gate.answers \in {"all", "oldest", "newest", "page", "after"}
         /\ gate.parts \in {"whole", "property", "typed", "day", "past"}
         /\ gate.answers = "after" => gate.parts = "property"
         /\ gate.answers = "page" => gate.parts # "typed"
         /\ "ok" \notin gate.policy.again
BY KindsAssumption DEF FetchInv, TypeOK

LEMMA KeepsOrderStable == [Next]_vars => gate' = gate /\ unsigned' = unsigned /\ KeepsOrder(gate)' = KeepsOrder(gate)
<1> SUFFICES ASSUME [Next]_vars PROVE gate' = gate /\ unsigned' = unsigned
  BY DEF KeepsOrder
<1> QED
  BY DEF Next, FetchStep, Publish, Begin, Ask, TryAgain, Answer, Fail, Return, Wait, vars, callVars

\* Readings published during a call only move what is owed to later pages.
LEMMA PublishOrder ==
  ASSUME FetchInv, OrderInv, Publish
  PROVE  OrderInv'
<1>1. source \subseteq source' /\ source' \subseteq Reading
  BY DEF FetchInv, TypeOK, Publish
<1>2. UNCHANGED <<gate, unsigned, window, todo, asked, rows, status, answer, owed, withheld>>
  BY DEF Publish, callVars
<1>3. Coming' = Coming /\ Samples' = Samples
  BY <1>2 DEF Coming, Samples
<1>4. KeepsOrder(gate)' = KeepsOrder(gate)
  BY <1>2 DEF KeepsOrder
<1>5. ASSUME NEW q \in Coming, NEW r \in owed, (q.page - 1) * Limit <= RowRank(gate, Matching(gate, q), r)
      PROVE  (q.page - 1) * Limit <= RowRank(gate, Matching(gate, q), r)'
  <2>1. Matching(gate, q) \in SUBSET Matching(gate, q)' /\ Matching(gate, q)' \in SUBSET Reading
    BY <1>1, <1>2 DEF Matching
  <2>2. r \in Reading /\ q \in Requests /\ Matching(gate, q) \in SUBSET Reading
    BY <2>1 DEF FetchInv, TypeOK
  <2>3. RowRank(gate, Matching(gate, q), r) <= RowRank(gate, Matching(gate, q)', r)
    BY <2>1, <2>2, RowRankGrows
  <2>4. RowRank(gate, Matching(gate, q), r) \in Nat
    BY <2>2, RowsType
  <2>5. RowRank(gate, Matching(gate, q)', r) \in Nat
    BY <2>1, <2>2, RowsType
  <2>6. (q.page - 1) * Limit \in Int
    BY <2>2, GateFetchAssumption DEF Requests
  <2>7. RowRank(gate, Matching(gate, q), r)' = RowRank(gate, Matching(gate, q)', r)
    BY <1>2 DEF RowRank, RowsOf, RowOf, Rank, Before, At
  <2> QED
    BY <1>5, <2>3, <2>4, <2>5, <2>6, <2>7
<1>6. OneSpan => OneSpan'
  BY <1>2, <1>3 DEF OneSpan, Covers, At
<1>7. Pages => Pages'
  BY <1>2, <1>3, <1>5 DEF Pages
<1>8. InOrder => InOrder'
  BY <1>2, <1>3 DEF InOrder, Precedes, SplitsInstants, At
<1>9. CutInv => CutInv'
  BY <1>2, <1>3, <1>6, <1>7, <1>8 DEF CutInv
<1>10. FullInv => FullInv'
  BY <1>2, <1>3 DEF FullInv
<1> QED
  BY <1>2, <1>4, <1>9, <1>10 DEF OrderInv, CutsOff

\* A gate whose answers are cut off makes one request for the whole window.
LEMMA BeginOrder ==
  ASSUME FetchInv, OrderInv, Begin
  PROVE  OrderInv'
<1>1. PICK w \in Window : /\ window' = w
                         /\ todo' = Parts(gate, w)
                         /\ owed' = {r \in source : InReach(gate, w, At(r))}
  BY DEF Begin
<1>2. /\ status # "asking" /\ status' = "asking" /\ rows' = {} /\ answer' = {} /\ withheld' = {}
      /\ UNCHANGED <<gate, unsigned, source, asked, attempt>>
  BY DEF Begin, httpVars
<1>3. asked = NoRequest
  BY <1>2 DEF FetchInv, TypeOK
<1>4. Coming' = Parts(gate, w) /\ Samples' = {}
  BY <1>1, <1>2, <1>3 DEF Coming, Samples
<1>5. SUFFICES ASSUME KeepsOrder(gate) PROVE IF CutsOff(gate) THEN CutInv' ELSE FullInv'
  BY <1>2 DEF OrderInv, KeepsOrder, CutsOff
<1>6. gate.parts = "typed" => \A q \in Parts(gate, w) : q.props \in {{}, Property}
  <2>1. ASSUME gate.parts = "typed" PROVE Parts(gate, w) = {Request(Property \ unsigned, w[1], w[2])}
    BY <2>1 DEF Parts
  <2>2. gate.parts = "typed" => Property \ unsigned \in {{}, Property}
    BY <1>5 DEF KeepsOrder
  <2> QED
    BY <2>1, <2>2 DEF Request
<1>7. CASE ~CutsOff(gate)
  BY <1>2, <1>4, <1>6, <1>7 DEF FullInv
<1>8. CASE CutsOff(gate)
  <2>1. gate.parts \in {"whole", "typed"}
    BY <1>5, <1>8 DEF KeepsOrder, CutsOff
  <2> DEFINE props == IF gate.parts = "whole" THEN Property ELSE Property \ unsigned
             one == Request(props, w[1], w[2])
  <2>2. Parts(gate, w) = {one} /\ one.page = 1
    BY <2>1 DEF Parts, Request
  <2>3. one.props \in {{}, Property}
    BY <1>6, <2>1, <2>2 DEF Request
  <2> HIDE DEF one
  <2>4. \A r \in owed' : Covers(gate, one, At(r))
    BY <1>1, <2>2, PartsCover
  <2>5. OneSpan'
    <3>1. asked' \notin todo'
      BY <1>1, <1>2, <1>3, PartsType, NoRequestIsNone
    <3> QED
      BY <1>2, <1>4, <2>2, <2>3, <2>4, <3>1 DEF OneSpan, Covers, At
  <2>6. Pages'
    <3>1. ASSUME NEW q \in Coming', NEW r \in owed' PROVE (q.page - 1) * Limit <= RowRank(gate, Matching(gate, q), r)'
      <4>1. (q.page - 1) * Limit = 0
        BY <1>4, <2>2, GateFetchAssumption
      <4>2. Matching(gate, q)' \in SUBSET Reading /\ r \in Reading
        BY <1>1, <1>2 DEF FetchInv, TypeOK, Matching
      <4>3. RowRank(gate, Matching(gate, q)', r) \in Nat
        BY <4>2, RowsType
      <4>4. RowRank(gate, Matching(gate, q), r)' = RowRank(gate, Matching(gate, q)', r)
        BY <1>2 DEF RowRank, RowsOf, RowOf, Rank, Before, At
      <4> QED
        BY <4>1, <4>3, <4>4
    <3> QED
      BY <3>1 DEF Pages
  <2> QED
    BY <1>2, <1>4, <1>8, <2>5, <2>6 DEF CutInv, InOrder
<1> QED
  BY <1>7, <1>8

\* Steps that leave the requests to come, and what has been answered, as they are.
LEMMA StillOrder ==
  ASSUME FetchInv, OrderInv, UNCHANGED <<gate, unsigned, source, rows, status, answer, owed, withheld>>,
         Coming' = Coming, asked' \notin todo' \/ UNCHANGED <<asked, todo>>
  PROVE  OrderInv'
<1>1. KeepsOrder(gate)' = KeepsOrder(gate) /\ Samples' = Samples
  BY DEF KeepsOrder, Samples
<1>2. OneSpan => OneSpan'
  BY DEF OneSpan, Covers, At
<1>3. Pages => Pages'
  BY DEF Pages, Matching, RowRank, RowsOf, RowOf, Rank, Before, Covers, At
<1>4. InOrder => InOrder'
  BY <1>1 DEF InOrder, Precedes, SplitsInstants, At
<1> QED
  BY <1>1, <1>2, <1>3, <1>4 DEF OrderInv, CutInv, FullInv, CutsOff

LEMMA AskOrder ==
  ASSUME FetchInv, OrderInv, Ask
  PROVE  OrderInv'
<1>1. PICK q \in todo : asked' = q /\ todo' = todo \ {q}
  BY DEF Ask
<1>2. asked = NoRequest /\ UNCHANGED <<gate, unsigned, source, rows, status, answer, owed, withheld>>
  BY DEF Ask
<1>3. q # NoRequest
  BY NoRequestIsNone DEF FetchInv, TypeOK, Coming
<1>4. Coming' = Coming /\ asked' \notin todo'
  BY <1>1, <1>2, <1>3 DEF Coming
<1> QED
  BY <1>2, <1>4, StillOrder

\* What the answer of a cut off gate leaves follows what it holds, and is on a
\* later page if there are pages.
LEMMA CutLeaves ==
  ASSUME FetchInv, OrderInv, KeepsOrder(gate), CutsOff(gate), asked \in Coming,
         NEW r \in owed, r \notin Keep(gate, Answered(gate, asked)), r \notin rows
  PROVE  /\ \A s \in Answered(gate, asked) : Precedes(s, r)
         /\ asked.props = Property /\ gate.answers = "page"
              => /\ FullPage(gate, Answered(gate, asked))
                 /\ asked.page * Limit <= RowRank(gate, Matching(gate, asked), r)
<1> DEFINE all == Matching(gate, asked)
           got == Answered(gate, asked)
<1>1. /\ asked \in Requests /\ r \in Reading /\ Inside(r) /\ r \in source /\ all \in SUBSET Reading
      /\ Covers(gate, asked, At(r)) /\ asked.props \in {{}, Property}
  BY MatchingType DEF FetchInv, TypeOK, OrderInv, CutInv, OneSpan
<1>2. r \notin got
  BY <1>1 DEF Keep, Inside
<1>3. CASE asked.props = {}
  <2>1. got = {}
    BY <1>3 DEF Answered, Matching, CutsOff
  <2>2. asked.props # Property
    BY <1>1, <1>3, ReadingType
  <2> QED
    BY <2>1, <2>2
<1>4. CASE asked.props = Property
  <2>1. r \in all
    BY <1>1, <1>4, ReadingType DEF Matching
  <2>2. ASSUME NEW s \in all, RowRank(gate, all, s) < RowRank(gate, all, r) PROVE Precedes(s, r)
    BY <1>1, <2>1, <2>2, RowRankOrdered DEF Precedes, SplitsInstants, CutsOff
  <2>3. Limit \in Nat /\ Limit # 0 /\ asked.page \in Nat \ {0} /\ RowRank(gate, all, r) \in Nat
        /\ \A s \in all : RowRank(gate, all, s) \in Nat
    <3>1. \A s \in all : RowRank(gate, all, s) \in Nat
      BY <1>1, RowsType
    <3> QED
      BY <1>1, <2>1, <3>1, GateFetchAssumption DEF Requests
  <2>4. CASE gate.answers = "oldest"
    <3>1. got = {s \in all : RowRank(gate, all, s) < Limit}
      BY <2>4 DEF Answered
    <3>2. \A s \in got : s \in all /\ RowRank(gate, all, s) < RowRank(gate, all, r)
      BY <1>2, <2>1, <2>3, <3>1
    <3> QED
      BY <2>2, <2>4, <3>2
  <2>5. CASE gate.answers = "page"
    <3>1. (asked.page - 1) * Limit <= RowRank(gate, all, r)
      BY <2>5 DEF OrderInv, CutInv, Pages
    <3>2. FullPage(gate, got) /\ asked.page * Limit <= RowRank(gate, all, r)
      BY <1>1, <1>2, <2>1, <2>5, <3>1, PageLeaves
    <3>3. ASSUME NEW s \in got PROVE s \in all /\ RowRank(gate, all, s) < RowRank(gate, all, r)
      <4>1. s \in all /\ RowRank(gate, all, s) \div Limit = asked.page - 1
        BY <2>5 DEF Answered
      <4>2. RowRank(gate, all, s) \in Nat /\ asked.page \in Nat \ {0} /\ Limit \in Nat \ {0}
        BY <2>3, <4>1
      <4>3. RowRank(gate, all, s) < (asked.page - 1) * Limit + Limit
        BY <4>1, <4>2, DivPage
      <4>4. (asked.page - 1) * Limit + Limit = asked.page * Limit
        BY <4>2
      <4>5. asked.page * Limit \in Nat
        BY <4>2
      <4> QED
        BY <2>3, <3>2, <4>1, <4>2, <4>3, <4>4, <4>5
    <3> QED
      BY <2>2, <3>2, <3>3
  <2> QED
    BY <2>4, <2>5 DEF CutsOff
<1> QED
  BY <1>1, <1>3, <1>4

\* The request that follows an answer of a cut off gate is for the same window:
\* the next page, or the other type if this one had nothing.
LEMMA CutFollows ==
  ASSUME FetchInv, KeepsOrder(gate), CutsOff(gate), asked \in Coming, asked.props \in {{}, Property},
         NEW n \in FollowUp(gate, asked, Answered(gate, asked))
  PROVE  /\ FollowUp(gate, asked, Answered(gate, asked)) = {n}
         /\ n.from = asked.from /\ n.to = asked.to /\ n.props \in {{}, Property}
         /\ gate.answers = "oldest" => Answered(gate, asked) = {}
         /\ gate.answers = "page" => /\ n.page - 1 = asked.page
                                     /\ n.props = asked.props
                                     /\ FullPage(gate, Answered(gate, asked))
<1> DEFINE got == Answered(gate, asked)
<1>1. asked \in Requests /\ MaxPages \in Nat /\ gate.answers \in {"oldest", "page"}
  BY GateFetchAssumption DEF FetchInv, TypeOK, CutsOff
<1>2. CASE gate.answers = "page"
  <2> DEFINE next == [asked EXCEPT !.page = @ + 1]
  <2>1. gate.parts # "typed"
    BY <1>2, KeepsOrderType
  <2>2. FullPage(gate, got) /\ FollowUp(gate, asked, got) = {next}
    BY <1>2, <2>1 DEF FollowUp
  <2>3. next.props = asked.props /\ next.from = asked.from /\ next.to = asked.to /\ next.page - 1 = asked.page
    BY <1>1 DEF Requests
  <2>4. n = next
    BY <2>2
  <2> HIDE DEF next
  <2> QED
    BY <1>2, <2>2, <2>3, <2>4
<1>3. CASE gate.answers = "oldest"
  <2> DEFINE other == Request(unsigned, asked.from, asked.to)
  <2>1. gate.parts = "typed" /\ got = {} /\ FollowUp(gate, asked, got) = {other}
    BY <1>3 DEF FollowUp
  <2>2. unsigned \in {{}, Property}
    BY <2>1 DEF KeepsOrder
  <2> QED
    BY <1>3, <2>1, <2>2 DEF Request
<1> QED
  BY <1>1, <1>2, <1>3

LEMMA AnswerOrder ==
  ASSUME FetchInv, OrderInv, Answer
  PROVE  OrderInv'
<1> DEFINE got == Answered(gate, asked)
<1>1. /\ rows' = rows \cup Keep(gate, got)
      /\ todo' = todo \cup FollowUp(gate, asked, got)
      /\ withheld' = withheld \cup LeftOut(gate, asked, got) \cup NotAsked(gate, asked, got)
      /\ asked' = NoRequest
      /\ UNCHANGED <<gate, unsigned, source, window, status, answer, owed>>
  BY DEF Answer
<1>2. attempt > 0
  BY DEF Answer, Send
<1>3. status = "asking" /\ answer = {} /\ asked # NoRequest /\ asked \in Coming /\ asked \in Requests
  BY <1>2 DEF FetchInv, TypeOK, Coming, OrderInv
<1>4. SUFFICES ASSUME KeepsOrder(gate) PROVE IF CutsOff(gate) THEN CutInv' ELSE FullInv'
  BY <1>1, <1>3 DEF OrderInv, KeepsOrder, CutsOff
<1>5. \A n \in FollowUp(gate, asked, got) : n \in Requests /\ n # NoRequest
  BY <1>3, FollowUpType, NoRequestIsNone
<1>6. CASE ~CutsOff(gate)
  <2>1. FullInv /\ gate.answers \in {"all", "after"}
    BY <1>4, <1>6 DEF OrderInv, KeepsOrder, CutsOff
  <2>2. LeftOut(gate, asked, got) = {}
    BY <2>1 DEF LeftOut
  <2>3. NotAsked(gate, asked, got) = {}
    <3>1. SUFFICES ASSUME gate.parts = "typed", got # {}, NEW r \in source PROVE r[1] \in asked.props
      BY DEF NotAsked
    <3>2. asked.props \in {{}, Property} /\ gate.answers = "all"
      BY <1>3, <2>1, <3>1, KeepsOrderType DEF FullInv
    <3>3. got = {} \/ asked.props = Property
      BY <3>2 DEF Answered, Matching
    <3> QED
      BY <3>1, <3>3, ReadingType DEF FetchInv, TypeOK
  <2>4. ASSUME gate.parts = "typed", NEW n \in FollowUp(gate, asked, got) PROVE n.props \in {{}, Property}
    <3>1. gate.answers = "all" /\ unsigned \in {{}, Property}
      BY <1>4, <2>1, <2>4, KeepsOrderType DEF KeepsOrder
    <3>2. n = Request(unsigned, asked.from, asked.to)
      BY <2>4, <3>1 DEF FollowUp
    <3> QED
      BY <3>1, <3>2 DEF Request
  <2>5. Coming' \subseteq Coming \cup FollowUp(gate, asked, got)
    BY <1>1 DEF Coming
  <2> QED
    BY <1>1, <1>6, <2>1, <2>2, <2>3, <2>4, <2>5 DEF FullInv
<1>7. CASE CutsOff(gate)
  <2>1. CutInv /\ OneSpan /\ Pages /\ InOrder
    BY <1>4, <1>7 DEF OrderInv, CutInv
  <2>2. todo = {} /\ asked.props \in {{}, Property} /\ \A r \in owed : Covers(gate, asked, At(r))
    BY <1>3, <2>1 DEF OneSpan, Coming
  <2>3. Coming' = FollowUp(gate, asked, got) /\ asked' \notin todo' /\ Samples' = rows'
    BY <1>1, <1>3, <1>5, <2>2 DEF Coming, Samples
  <2>4. ASSUME NEW n \in FollowUp(gate, asked, got)
        PROVE  /\ FollowUp(gate, asked, got) = {n}
               /\ n.from = asked.from /\ n.to = asked.to /\ n.props \in {{}, Property}
               /\ gate.answers = "oldest" => got = {}
               /\ gate.answers = "page" => n.page - 1 = asked.page /\ n.props = asked.props /\ FullPage(gate, got)
    BY <1>3, <1>4, <1>7, <2>2, CutFollows
  <2>5. OneSpan'
    BY <1>1, <2>2, <2>3, <2>4 DEF OneSpan, Covers, At
  <2>6. Pages'
    <3>1. SUFFICES ASSUME gate.answers = "page", NEW n \in FollowUp(gate, asked, got), NEW r \in owed, r \notin rows'
                   PROVE  ((n.page - 1) * Limit <= RowRank(gate, Matching(gate, n), r))'
      BY <1>1, <2>3 DEF Pages
    <3>2. asked.props = Property
      <4>1. FullPage(gate, got)
        BY <2>4, <3>1
      <4>2. asked.props = {} => got = {}
        BY <3>1 DEF Answered, Matching
      <4> QED
        BY <2>2, <4>1, <4>2, FullPageSome
    <3>3. asked.page * Limit <= RowRank(gate, Matching(gate, asked), r)
      BY <1>1, <1>3, <1>4, <1>7, <3>1, <3>2, CutLeaves
    <3>4. Matching(gate, n)' = Matching(gate, asked) /\ n.page - 1 = asked.page
      BY <1>1, <2>4, <3>1 DEF Matching, Covers, At
    <3>5. RowRank(gate, Matching(gate, n), r)' = RowRank(gate, Matching(gate, asked), r)
      BY <1>1, <3>4 DEF RowRank, RowsOf, RowOf, Rank, Before, At
    <3> QED
      BY <3>3, <3>4, <3>5
  <2>7. gate.answers = "oldest" /\ Coming' # {} => rows' = {}
    <3>1. SUFFICES ASSUME gate.answers = "oldest", NEW n \in FollowUp(gate, asked, got) PROVE rows' = {}
      BY <2>3
    <3>2. rows = {} /\ got = {}
      BY <1>3, <2>1, <2>4, <3>1 DEF CutInv
    <3> QED
      BY <1>1, <3>2 DEF Keep
  <2>8. InOrder'
    <3>1. SUFFICES ASSUME NEW r \in owed, r \notin rows', NEW s \in rows' PROVE Precedes(s, r)
      BY <1>1, <2>3 DEF InOrder, Precedes, SplitsInstants, At
    <3>2. CASE s \in rows
      BY <1>1, <1>3, <2>1, <3>1, <3>2 DEF InOrder, Samples
    <3>3. CASE s \in got
      BY <1>1, <1>3, <1>4, <1>7, <3>1, <3>3, CutLeaves
    <3> QED
      BY <1>1, <3>1, <3>2, <3>3 DEF Keep
  <2> QED
    BY <1>1, <1>7, <2>5, <2>6, <2>7, <2>8 DEF CutInv
<1> QED
  BY <1>6, <1>7

LEMMA FailOrder ==
  ASSUME FetchInv, OrderInv, Fail
  PROVE  OrderInv'
<1>1. attempt > 0 /\ asked' = NoRequest /\ UNCHANGED <<gate, unsigned, source, answer, owed>>
  BY DEF Fail, Send
<1>2. status = "asking" /\ answer = {}
  BY <1>1 DEF FetchInv, TypeOK, OrderInv
<1>3. CASE gate.skips
  <2>1. UNCHANGED status
    BY <1>3 DEF Fail, PassesOver
  <2> QED
    BY <1>1, <1>2, <1>3, <2>1 DEF OrderInv, KeepsOrder
<1>4. CASE ~gate.skips
  <2>1. status' = "raised" /\ todo' = {} /\ rows' = {} /\ UNCHANGED withheld
    BY <1>4 DEF Fail, PassesOver
  <2>2. Coming' = {} /\ Samples' = {}
    BY <1>1, <1>2, <2>1 DEF Coming, Samples
  <2> QED
    BY <1>1, <1>2, <2>1, <2>2 DEF OrderInv, KeepsOrder, CutsOff, CutInv, FullInv, OneSpan, Pages, InOrder
<1> QED
  BY <1>3, <1>4

LEMMA ReturnOrder ==
  ASSUME FetchInv, OrderInv, Return
  PROVE  OrderInv'
<1>1. /\ status = "asking" /\ asked = NoRequest /\ todo = {}
      /\ status' = "answered" /\ answer' = rows /\ rows' = {}
      /\ UNCHANGED <<gate, unsigned, source, todo, asked, owed, withheld>>
  BY DEF Return
<1>2. Coming' = {} /\ answer = {} /\ Samples' = Samples
  BY <1>1 DEF Coming, Samples, OrderInv
<1> QED
  BY <1>1, <1>2 DEF OrderInv, KeepsOrder, CutsOff, CutInv, FullInv, OneSpan, Pages, InOrder, Precedes, SplitsInstants, At

LEMMA OrderNext == FetchInv /\ OrderInv /\ [Next]_vars => OrderInv'
<1> SUFFICES ASSUME FetchInv, OrderInv, [Next]_vars PROVE OrderInv'
  OBVIOUS
<1>1. CASE TryAgain \/ Wait \/ UNCHANGED vars
  <2>1. UNCHANGED <<gate, unsigned, source, callVars>>
    BY <1>1 DEF TryAgain, Wait, vars
  <2>2. Coming' = Coming /\ UNCHANGED <<gate, unsigned, source, todo, asked, rows, status, answer, owed, withheld>>
    BY <2>1 DEF callVars, Coming
  <2> QED
    BY <2>2, StillOrder
<1> QED
  BY <1>1, PublishOrder, BeginOrder, AskOrder, AnswerOrder, FailOrder, ReturnOrder DEF Next, FetchStep

\* Of a gate whose answers keep the oldest rows of the whole Device, what an
\* answer lacks of its window is later than all it holds: a watermark moved to
\* its newest reading has passed nothing, but for readings of that very instant
\* where the gate's limit counts readings.
THEOREM WatermarkSafety == Spec => []WatermarkSafe
<1>1. Spec => [](FetchInv /\ OrderInv)
  BY FetchInit, FetchNext, OrderStart, OrderNext, PTL DEF Spec
<1>2. FetchInv /\ OrderInv => WatermarkSafe
  <2> SUFFICES ASSUME FetchInv, OrderInv, Done, KeepsOrder(gate)
               PROVE  \A r \in owed \ answer, s \in answer : Precedes(s, r)
    BY DEF WatermarkSafe, Precedes
  <2>1. CASE CutsOff(gate)
    BY <2>1 DEF OrderInv, CutInv, InOrder, Samples, Done
  <2>2. CASE ~CutsOff(gate)
    BY <2>2 DEF OrderInv, FullInv, FetchInv, Accounted, Done
  <2> QED
    BY <2>1, <2>2
<1> QED
  BY <1>1, <1>2, PTL

-------------------------------------------------------------------------------
LEMMA LargerOf ==
  ASSUME NEW a \in Int, NEW b \in Int
  PROVE  Max({a, b}) = IF a >= b THEN a ELSE b
BY DEF Max

\* Chain, by the kind of gate.
LEMMA ChainOf ==
  ASSUME FetchInv, NEW q \in Requests
  PROVE  /\ gate.answers = "page" => Chain(q) = MaxPages - q.page + 1
         /\ gate.answers = "after" => Chain(q) = IF q.to - q.from >= 1 THEN q.to - q.from ELSE 1
         /\ gate.answers \notin {"page", "after"} =>
              Chain(q) = IF gate.parts = "typed" /\ q.props = Property \ unsigned THEN 2 ELSE 1
<1>1. gate.answers \in {"page", "after"} => gate.parts # "typed"
  BY KindsAssumption DEF FetchInv, TypeOK
<1>2. q.to - q.from \in Int
  BY DEF Requests
<1>3. gate.answers = "page" => Chain(q) = MaxPages - q.page + 1
  BY <1>1 DEF Chain
<1>4. gate.answers = "after" => Chain(q) = IF q.to - q.from >= 1 THEN q.to - q.from ELSE 1
  <2>1. Max({q.to - q.from, 1}) = IF q.to - q.from >= 1 THEN q.to - q.from ELSE 1
    BY <1>2, LargerOf
  <2> QED
    BY <1>1, <2>1 DEF Chain
<1>5. gate.answers \notin {"page", "after"} =>
        Chain(q) = IF gate.parts = "typed" /\ q.props = Property \ unsigned THEN 2 ELSE 1
  BY DEF Chain
<1> QED
  BY <1>3, <1>4, <1>5

\* Where the rows of one property are asked for from an instant on, exclusive, the last
\* of a full answer is later than that instant.
LEMMA AfterMoves ==
  ASSUME FetchInv, NEW q \in Coming, gate.answers = "after", FullPage(gate, Answered(gate, q))
  PROVE  LastOf(Answered(gate, q)) \in Nat /\ q.from < LastOf(Answered(gate, q))
<1> DEFINE got == Answered(gate, q)
<1>1. ~gate.low /\ q \in Requests
  BY KindsAssumption DEF FetchInv, TypeOK
<1>2. got \in SUBSET Matching(gate, q) /\ got \in SUBSET Reading
  BY MatchingType DEF Answered
<1>3. got # {}
  BY FullPageSome
<1> HIDE DEF got
<1>4. LastOf(got) \in Nat /\ \E r \in got : At(r) = LastOf(got)
  BY <1>2, <1>3, LastOfType
<1>5. PICK r \in got : At(r) = LastOf(got)
  BY <1>4
<1>6. q.from < At(r)
  BY <1>1, <1>2, <1>5 DEF Matching, Covers
<1> QED
  BY <1>4, <1>5, <1>6 DEF got

\* One request follows an answer, if any, and has fewer to come.
LEMMA FollowUpAdvances ==
  ASSUME FetchInv, NEW q \in Coming, NEW p \in FollowUp(gate, q, Answered(gate, q))
  PROVE  Chain(p) \in 1..(Chain(q) - 1) /\ FollowUp(gate, q, Answered(gate, q)) = {p}
<1> DEFINE got == Answered(gate, q)
<1>1. q \in Requests /\ gate \in Kinds /\ p \in Requests
  BY FollowUpType DEF FetchInv, TypeOK
<1>2. /\ Chain(q) \in Int
      /\ q.page \in 1..MaxPages /\ MaxPages \in Nat /\ q.from \in Nat /\ q.to \in Nat
  BY <1>1, ChainOf, GateFetchAssumption DEF Requests
<1>6. gate.answers \in {"page", "after"} => gate.parts # "typed"
  BY <1>1, KindsAssumption
<1>3. CASE gate.answers = "page" /\ FullPage(gate, got) /\ q.page < MaxPages
  <2>1. FollowUp(gate, q, got) = {[q EXCEPT !.page = @ + 1]}
    BY <1>3, <1>6 DEF FollowUp
  <2>2. p.page = q.page + 1
    BY <1>1, <2>1 DEF Requests
  <2> QED
    BY <1>1, <1>2, <1>3, <2>1, <2>2, ChainOf
<1>4. CASE gate.answers = "after" /\ FullPage(gate, got) /\ LastOf(got) < q.to
  <2>1. FollowUp(gate, q, got) = {[q EXCEPT !.from = NextAfter(got) - 1]}
    BY <1>4, <1>6 DEF FollowUp
  <2>2. LastOf(got) \in Nat /\ q.from < LastOf(got)
    BY <1>4, AfterMoves
  <2>3. p.from = NextAfter(got) - 1 /\ p.to = q.to
    BY <1>1, <2>1 DEF Requests
  <2>4. NextAfter(got) - 1 = LastOf(got)
    BY <2>2 DEF NextAfter
  <2> HIDE DEF got
  <2>5. Chain(p) = q.to - LastOf(got) /\ Chain(q) = q.to - q.from
    BY <1>1, <1>2, <1>4, <2>2, <2>3, <2>4, ChainOf
  <2> QED
    BY <1>2, <1>4, <2>1, <2>2, <2>5 DEF got
<1>5. CASE /\ ~(gate.answers = "page" /\ FullPage(gate, got) /\ q.page < MaxPages)
           /\ ~(gate.answers = "after" /\ FullPage(gate, got) /\ LastOf(got) < q.to)
  <2>1. gate.parts = "typed" /\ q.props = Property \ unsigned /\ FollowUp(gate, q, got) = {Request(unsigned, q.from, q.to)}
    BY <1>5 DEF FollowUp
  <2>2. gate.answers \notin {"page", "after"}
    BY <1>1, <2>1, KindsAssumption
  <2>3. p.props = unsigned
    BY <2>1 DEF Request
  <2>4. unsigned # Property \ unsigned
    BY GateFetchAssumption DEF FetchInv, TypeOK
  <2> QED
    BY <1>1, <2>1, <2>2, <2>3, <2>4, ChainOf
<1> QED
  BY <1>3, <1>4, <1>5

(***************************************************************************)
(* Paging does not go round in circles: each answer leads to at most one   *)
(* more request, and that to fewer than its own, whatever is published     *)
(* meanwhile.  So a call makes no more requests than its first ones allow. *)
(***************************************************************************)
THEOREM AdvanceSafety == Spec => PagingAdvances
<1>1. ASSUME FetchInv, Next, attempt > 0, attempt' = 0
      PROVE  \A p, q \in todo' \ todo : p = q /\ Chain(q) \in 1..(Chain(asked) - 1)
  <2>1. asked \in Coming /\ attempt \in Nat
    BY <1>1 DEF FetchInv, TypeOK, Coming
  <2>2. CASE Answer
    <3>1. todo' \ todo \subseteq FollowUp(gate, asked, Answered(gate, asked))
      BY <2>2 DEF Answer
    <3> QED
      BY <2>1, <3>1, <1>1, FollowUpAdvances
  <2>3. CASE Fail
    BY <2>3 DEF Fail
  <2>4. CASE Publish \/ Begin \/ Return \/ Wait
    BY <1>1, <2>4 DEF Publish, Begin, Return, Wait, Pass, httpVars
  <2>5. CASE Ask
    BY <1>1, <2>5 DEF Ask, Call
  <2>6. CASE TryAgain
    <3>1. attempt' = attempt + 1
      BY <2>6 DEF TryAgain, Send
    <3> QED
      BY <1>1, <2>1, <3>1
  <2> QED
    BY <1>1, <2>2, <2>3, <2>4, <2>5, <2>6 DEF Next, FetchStep
<1>2. FetchInv /\ [Next]_vars =>
        [attempt > 0 /\ attempt' = 0 =>
           \A p, q \in todo' \ todo : p = q /\ Chain(q) \in 1..(Chain(asked) - 1)]_vars
  BY <1>1
<1> QED
  BY <1>2, GateInvariant, PTL DEF Spec, PagingAdvances
===============================================================================
