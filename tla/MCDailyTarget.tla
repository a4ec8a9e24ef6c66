----------------------------- MODULE MCDailyTarget -----------------------------
(* Instances of DailyTarget for TLC. *)
EXTENDS DailyTarget, TLC

CONSTANTS s1, s2

\* Two plans that name different stocks, and the plan that names none.
SomePlans == {s1 :> 1, s2 :> 1, Empty}

===============================================================================
