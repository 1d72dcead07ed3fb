------------------------------- MODULE DayFilter -------------------------------
(***************************************************************************)
(* The date filter of AppointmentsService.findAll.  The day begins at      *)
(* midnight UTC and ends where setDate(getDate() + 1) leads, which counts  *)
(* days on the wall clock of the process.                                  *)
(*                                                                         *)
(* A time zone is a record: its offset to UTC changes from before to after *)
(* at the instant change.                                                  *)
(***************************************************************************)
EXTENDS OperatingHours

WallClock(t, zone) == t + (IF t < zone.change THEN zone.before ELSE zone.after)

\* The instant a wall clock shows w: the first one if there are two, and with the old
\* offset if there is none.
InstantOf(w, zone) ==
    IF w - zone.before < zone.change \/ w - zone.after < zone.change
    THEN w - zone.before ELSE w - zone.after

\* Mutant: the day ends at the next midnight of the wall clock.
NextMidnight(day, zone) ==
    InstantOf((WallClock(day, zone) \div UnitsPerDay + 1) * UnitsPerDay, zone)

NextDay(day, zone) == InstantOf(WallClock(day, zone) + UnitsPerDay, zone)

\* startTime: { gte: day, lt: nextDay }.
OnDay(start, date, zone) ==
    LET day == date * UnitsPerDay IN day <= start /\ start < NextDay(day, zone)

=============================================================================
