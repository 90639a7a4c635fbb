----------------------------- MODULE MCCalendar -----------------------------
(***************************************************************************)
(* An instance of BSCalendar for TLC: the six-day week that is the default *)
(* of the code, and a holiday every 13 days, which over the 21 years of    *)
(* the table meets every weekday and every place in a month.               *)
(***************************************************************************)
EXTENDS BSCalendar

SundayToFriday == 0..5
Every13Days == {d \in 0..7669 : d % 13 = 5}
=============================================================================
