-------------------------------- MODULE Source --------------------------------
(***************************************************************************)
(* The upstream system one Device is read from, and the wall clock.        *)
(*                                                                         *)
(* A reading is an opaque identity (one controlledProperty of the Device   *)
(* at one instant).  What the upstream holds for it is a version: 0 while  *)
(* it has not been published, then 1, 2, ... as the upstream revises it.   *)
(* The upstream is not part of the repository; what is assumed of it is    *)
(* the contract of Gate.fetch (gates/base.py) and MaxLate, a bound on how  *)
(* long after its instant a reading may still appear or be revised.        *)
(* Instants are natural numbers; 0 is the epoch, which the code uses for   *)
(* "no watermark yet", so no reading is stamped 0.                         *)
(***************************************************************************)
EXTENDS Integers, FiniteSets

CONSTANTS
  Reading,      \* the readings the Device may ever produce
  Stamp,        \* Stamp[r]: the instant of reading r
  MaxLate,      \* a reading may change upstream until Stamp[r] + MaxLate
  MaxVersion,   \* bound on the versions of a reading
  StartClock,   \* the clock when the model starts: history exists before it
  MaxClock      \* bound on the clock

ASSUME SourceAssumption ==
  /\ IsFiniteSet(Reading)
  /\ Stamp \in [Reading -> Nat \ {0}]
  /\ MaxLate \in Nat
  /\ MaxVersion \in Nat \ {0}
  /\ StartClock \in Nat \ {0}
  /\ MaxClock \in Nat

VARIABLES
  clock,        \* wall clock, shared by the upstream and the Airflow workers
  source        \* source[r]: the version the upstream serves, 0 if none

sourceVars == <<clock, source>>

Version == 0..MaxVersion
Instant == Nat

Larger(a, b) == IF a >= b THEN a ELSE b
Smaller(a, b) == IF a <= b THEN a ELSE b

Nothing == [r \in Reading |-> 0]
Present(f) == {r \in Reading : f[r] > 0}

\* History already published when the model starts lies at or before its clock.
SourceInit ==
  /\ clock = StartClock
  /\ source \in {s \in [Reading -> {0, 1}] :
                   \A r \in Reading : s[r] > 0 => Stamp[r] <= StartClock}

\* A reading appears, or a published one is revised.  Never before its instant,
\* never more than MaxLate after it.
Publish(r) ==
  /\ source[r] < MaxVersion
  /\ Stamp[r] <= clock
  /\ clock <= Stamp[r] + MaxLate
  /\ source' = [source EXCEPT ![r] = @ + 1]
  /\ UNCHANGED clock

Tick ==
  /\ clock < MaxClock
  /\ clock' = clock + 1
  /\ UNCHANGED source

\* What Gate.fetch(device, a, b) returns: the readings in (a, b], at the version
\* the upstream serves now.  An upstream whose lower bound is inclusive also
\* returns the readings at a; the callers must not rely on either.
Fetch(a, b, inclusive) ==
  [r \in Reading |->
     IF Stamp[r] <= b /\ (a < Stamp[r] \/ (inclusive /\ a = Stamp[r]))
     THEN source[r] ELSE 0]
===============================================================================
