-------------------------- MODULE MCSchedulePeriods --------------------------
(***************************************************************************)
(* Instances of SchedulePeriods with days of six hours over four days.     *)
(***************************************************************************)
EXTENDS SchedulePeriods, TLC

FourDays == 0 .. 3

\* A zone with one offset all year, and one whose clocks go forward on day 2.
FixedZone == [d \in FourDays |-> -2]
SpringZone == [d \in FourDays |-> IF d < 2 THEN -2 ELSE -1]
Utc == [d \in FourDays |-> 0]
=============================================================================
