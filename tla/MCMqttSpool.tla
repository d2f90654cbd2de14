------------------------------ MODULE MCMqttSpool ------------------------------
(***************************************************************************)
(* Instances of MqttSpool for TLC: three Devices, the prefix of one of     *)
(* which continues that of another with a dash.                            *)
(***************************************************************************)
EXTENDS MqttSpool

Devices == {"meter", "meter-2", "gas"}
Messages == {"m1", "m2"}

\* m1 is for the Device apart, m2 also for one that is not.
Routing == [m \in Messages |-> IF m = "m1" THEN {"gas"} ELSE {"gas", "meter-2"}]

\* meter-*.jsonl also matches the files of meter-2.
OverlappingFiles == [d \in Devices |-> IF d = "meter" THEN {"meter", "meter-2"} ELSE {d}]
===============================================================================
