-------------------------- MODULE MCWeeklyRebalance --------------------------
(* One symbol to sell, two to buy; cash and floor pay for the first of them.*)
EXTENDS WeeklyRebalanceProperties

Three == 1..3
Held == <<1, 0, 0>>
Aimed == <<0, 3, 1>>
=============================================================================
