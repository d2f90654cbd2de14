---------------------------- MODULE MCCounterGuard ----------------------------
(***************************************************************************)
(* An instance of CounterGuard for TLC: every short batch of small values. *)
(***************************************************************************)
EXTENDS CounterGuard

ShortBatches == UNION {[1..n -> 0..3 \cup {NoValue}] : n \in 1..4}
===============================================================================
