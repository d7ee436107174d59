---------------------------- MODULE MCPeriodClock ----------------------------
(* Instance of PeriodClock for TLC: a little over a year from December 2023 *)
(* (a leap year follows), from 2024 (its last days are in week 1 of 2025),  *)
(* from 2026 (week 53) and from 2099 (2100 has no leap day); in UTC, ahead  *)
(* of it and behind it, and under a name nobody knows.                      *)
EXTENDS PeriodClock

MCOffset == [z \in {"UTC", "Asia/Tokyo", "America/Bogota"} |->
               CASE z = "UTC" -> 0 [] z = "Asia/Tokyo" -> 9 [] OTHER -> -5]
MCNames  == DOMAIN MCOffset \union {"Mars/Olympus"}
MCStarts == {<<y, 12, 20>> : y \in {2023, 2024, 2026, 2099}}
=============================================================================
