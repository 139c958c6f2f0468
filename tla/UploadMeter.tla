---------------------------- MODULE UploadMeter ----------------------------
(***************************************************************************)
(* What the upload quota promises, as a meter with a ceiling: uploads are  *)
(* held first, and charged when they are stored.  A hold that has lapsed   *)
(* no longer counts, yet its upload may still be charged: that is the only *)
(* way past the ceiling, and "over" says how much went that way.           *)
(***************************************************************************)
EXTENDS Integers

CONSTANTS
  Limit,   \* uploads a month the plan allows
  Amounts  \* numbers of files an upload may have

MeterAssumption == Limit \in Nat /\ Amounts \subseteq Nat \ {0}

VARIABLES
  used,  \* uploads charged in this period
  over,  \* those of them charged after their hold lapsed
  held   \* uploads held and not lapsed

vars == <<used, over, held>>

Init == used = 0 /\ over = 0 /\ held = 0

\* A hold is granted only while everything charged in time and held fits.
Hold(a) ==
  /\ used + held + a <= Limit + over
  /\ held' = held + a
  /\ UNCHANGED <<used, over>>

\* Holds are cancelled or lapse.
Lapse ==
  /\ held' \in 0..held
  /\ UNCHANGED <<used, over>>

Charge(a) ==
  /\ a <= held
  /\ used' = used + a
  /\ held' = held - a
  /\ UNCHANGED over

ChargeLate(a) ==
  /\ used' = used + a
  /\ over' = over + a
  /\ UNCHANGED held

\* The count starts again, with what is held in the period it now stands for.
Restart ==
  /\ used' = 0 /\ over' = 0
  /\ held' \in 0..Limit

Next ==
  \/ \E a \in Amounts : Hold(a) \/ Charge(a) \/ ChargeLate(a)
  \/ Lapse \/ Restart

Spec == Init /\ [][Next]_vars

MeterTypeOK == used \in Nat /\ over \in Nat /\ held \in Nat

\* reserve_upload_quota's promise that concurrent requests cannot both pass: what
\* is charged in time and what is held never exceed the plan together.
NeverOversold == used + held <= Limit + over
=============================================================================
