---------------------------- MODULE OperatingHours ----------------------------
(***************************************************************************)
(* When an appointment may take place: AvailabilityService.computeEndTime  *)
(* and AppointmentsService.validateOperatingHours.                         *)
(*                                                                         *)
(* An instant is a natural number of time units counted from midnight UTC  *)
(* at the start of some Sunday.  The code counts milliseconds and reads    *)
(* hours and minutes out of a Date; a unit here is any whole fraction of a *)
(* minute, so that "the seconds of a Date" are still there to be ignored.  *)
(***************************************************************************)
EXTENDS Integers

CONSTANTS
    UnitsPerMinute,   \* resolution of an instant
    MinutesPerDay,    \* 1440 in the code
    OpenMinutes,      \* minute of the day at which a dealership opens
    CloseMinutes,     \* minute of the day at which it closes
    ServiceCatalog    \* service type -> duration in minutes

ASSUME ClockAssumption ==
    /\ UnitsPerMinute \in Nat \ {0}
    /\ MinutesPerDay \in Nat \ {0}
    /\ OpenMinutes \in Nat /\ CloseMinutes \in Nat
    /\ OpenMinutes < CloseMinutes /\ CloseMinutes < MinutesPerDay

ASSUME CatalogAssumption ==
    \A s \in DOMAIN ServiceCatalog : ServiceCatalog[s] \in Nat \ {0}

-----------------------------------------------------------------------------

UnitsPerDay == MinutesPerDay * UnitsPerMinute

Duration(service) == ServiceCatalog[service] * UnitsPerMinute

ComputeEndTime(start, service) == start + Duration(service)

(***************************************************************************)
(* The calendar fields of an instant: the UTC date, the weekday (0 is      *)
(* Sunday) and getUTCHours() * 60 + getUTCMinutes(), which drops seconds.  *)
(***************************************************************************)
UTCDate(t) == t \div UnitsPerDay
UTCDay(t) == UTCDate(t) % 7
MinuteOfDay(t) == (t % UnitsPerDay) \div UnitsPerMinute

Sunday == 0

InOpeningHours(t) == OpenMinutes <= MinuteOfDay(t) /\ MinuteOfDay(t) <= CloseMinutes

\* Mutant: only the start has to lie in the opening hours.
ValidStart(start, end) ==
    /\ UTCDate(start) = UTCDate(end)
    /\ UTCDay(start) # Sunday
    /\ InOpeningHours(start)

ValidOperatingHours(start, end) ==
    /\ UTCDate(start) = UTCDate(end)
    /\ UTCDay(start) # Sunday /\ UTCDay(end) # Sunday
    /\ InOpeningHours(start)
    /\ InOpeningHours(end)

=============================================================================
