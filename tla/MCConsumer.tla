------------------------------ MODULE MCConsumer ------------------------------
(***************************************************************************)
(* Instances of Consumer for TLC.                                          *)
(***************************************************************************)
EXTENDS Consumer

TwoFields == {1, 2}
Energy == {1}
AllReaders == {"connected", "datagram", "single"}
SomeSchedules ==
  {[form |-> "step", step |-> 2, minutes |-> {}], [form |-> "fixed", step |-> 0, minutes |-> {1}],
   [form |-> "list", step |-> 0, minutes |-> {0, 1}], [form |-> "range", step |-> 0, minutes |-> {0, 1}]}
Neighbours == [s \in {3} |-> [k \in Slots |-> IF k = 2 THEN [value |-> 2, at |-> 2] ELSE None]]
AtFour == {4}
ThreeSeries == {<<1, 2, 3>>, <<3, 1>>}
===============================================================================
