---------------------------- MODULE FetchContract ----------------------------
(***************************************************************************)
(* What the DAGs may rely on when they call Gate.fetch (gates/base.py).    *)
(*                                                                         *)
(* A call is asked for a window; the readings of it that the upstream had  *)
(* when the call began are owed.  The call comes to an end: it returns a   *)
(* set of published readings with everything owed in it, or it raises and  *)
(* returns nothing.  Readings published meanwhile may be in the answer or  *)
(* not, and readings outside the window do no harm: the callers filter.    *)
(***************************************************************************)
EXTENDS Integers

CONSTANTS
  Reading,      \* readings a Device may ever produce
  At(_),        \* the instant of a reading
  Bound         \* the instants a window may begin or end at

VARIABLES source, status, owed, answer

vars == <<source, status, owed, answer>>

Init ==
  /\ source \in SUBSET Reading
  /\ status = "idle"
  /\ owed = {}
  /\ answer = {}

Publish ==
  /\ \E r \in Reading \ source : source' = source \cup {r}
  /\ UNCHANGED <<status, owed, answer>>

Begin ==
  /\ status # "asking"
  /\ status' = "asking"
  /\ \E a, b \in Bound : owed' = {r \in source : a < At(r) /\ At(r) <= b}
  /\ answer' = {}
  /\ UNCHANGED source

Return ==
  /\ status = "asking"
  /\ status' = "answered"
  /\ \E A \in SUBSET source : owed \subseteq A /\ answer' = A
  /\ UNCHANGED <<source, owed>>

Raise ==
  /\ status = "asking"
  /\ status' = "raised"
  /\ UNCHANGED <<source, owed, answer>>

Next == Publish \/ Begin \/ Return \/ Raise

Spec == Init /\ [][Next]_vars /\ WF_vars(Return \/ Raise)
===============================================================================
