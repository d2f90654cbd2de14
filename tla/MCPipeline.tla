------------------------------ MODULE MCPipeline ------------------------------
(***************************************************************************)
(* Instances of Pipeline for TLC.  A reading of a Device with one property *)
(* is named by its instant, of one with two by <<property, instant>>.      *)
(***************************************************************************)
EXTENDS PipelineInv

OneProperty == {"power"}
OneSeries == 2..5
OneSeriesStamp == [r \in OneSeries |-> r]
OneSeriesProperty == [r \in OneSeries |-> "power"]

LateSeries == 3..6
LateSeriesStamp == [r \in LateSeries |-> r]
LateSeriesProperty == [r \in LateSeries |-> "power"]

ShortSeries == 2..4
ShortSeriesStamp == [r \in ShortSeries |-> r]
ShortSeriesProperty == [r \in ShortSeries |-> "power"]

TinySeries == 2..3
TinySeriesStamp == [r \in TinySeries |-> r]
TinySeriesProperty == [r \in TinySeries |-> "power"]

TwoProperties == {"power", "energy"}
TwoSeries == {<<"power", 2>>, <<"energy", 2>>, <<"power", 4>>}
TwoSeriesStamp == [r \in TwoSeries |-> r[2]]
TwoSeriesProperty == [r \in TwoSeries |-> r[1]]
===============================================================================
