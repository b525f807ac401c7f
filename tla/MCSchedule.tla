------------------------------ MODULE MCSchedule ------------------------------
(***************************************************************************)
(* Schedule across the ends of months, a leap year's February, that of a   *)
(* century that has none, and the turn of a year.                          *)
(***************************************************************************)
EXTENDS Schedule

BirthsSmall == {Date(2023, 12, 27), Date(2024, 1, 29), Date(2100, 2, 25)}

\* Parsed and evaluated: every shape, and the days some months do not have.
Evaluated ==
  {Weekly(0), Weekly(6), Ordinal("first", 0), Ordinal("first", 3), Ordinal("last", 4),
   Monthly(0), Monthly(1), Monthly(29), Monthly(31),
   OneShot(Date(2024, 2, 29)), OneShot(Date(2023, 12, 1))}

\* Parsed: the ordinals the month search has no case for.
Parsed == {Ordinal("second", 1), Ordinal("fourth", 1)}

OneBirth == {Date(2024, 1, 29)}

=============================================================================
