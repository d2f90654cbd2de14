------------------------------ MODULE MCRegistry ------------------------------
(***************************************************************************)
(* Instances of Registry for TLC.                                          *)
(***************************************************************************)
EXTENDS Registry, TLC

CONSTANTS d1, d2, r1, r2

TwoDevices == {d1, d2}
OneProperty == {"power"}
OneAttr == {"refBuilding"}
Types == (d1 :> "Device" @@ d2 :> "MarketPriceFeed")
Plain == [props |-> {"power"}, attrs |-> {}]
Full == [props |-> {"power"}, attrs |-> {"refBuilding"}]
SomeEntries == (d1 :> {Plain, Full} @@ d2 :> {Plain})
TwoRuns == {r1, r2}
Runs == Permutations(TwoRuns)

Sound(key) == [key |-> key, valid |-> TRUE, enabled |-> TRUE, builds |-> TRUE]
Unbuilt(key) == [Sound(key) EXCEPT !.builds = FALSE]
Off(entry) == [entry EXCEPT !.enabled = FALSE]
SomeFiles == {<<Sound("g"), Off(Unbuilt("h"))>>, <<Sound("g"), Sound("g")>>}
===============================================================================
