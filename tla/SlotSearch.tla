------------------------------- MODULE SlotSearch -------------------------------
(***************************************************************************)
(* The pure computations against reference definitions.  An asked instant  *)
(* walks through a whole week; at each instant of Froms, on and off the    *)
(* slot grid, jobs are then added up to MaxJobs, in every way, to a        *)
(* dealership.                                                             *)
(***************************************************************************)
EXTENDS Slots, DayFilter

CONSTANTS
    Bays, Technicians,   \* of the dealership, all qualified
    Froms,               \* instants at which a slot is asked for
    JobStarts, MaxJobs,  \* bounds of an instance
    Zones                \* time zones the process may run in

\* A clock is put forward or back by no more than the hours between closing time and
\* midnight, or between midnight and opening time.
ASSUME SearchAssumption ==
    /\ JobStarts \subseteq Nat
    /\ \A zone \in Zones :
          /\ zone.before \in Int /\ zone.after \in Int /\ zone.change \in Int
          /\ zone.after - zone.before <= UnitsPerDay - (CloseMinutes + 1) * UnitsPerMinute
          /\ zone.before - zone.after <= OpenMinutes * UnitsPerMinute

VARIABLES jobs, service, from

vars == <<jobs, service, from>>

Init == jobs = {} /\ service \in DOMAIN ServiceCatalog /\ from = 0

LastInstant == 7 * UnitsPerDay - 1

AskLater == jobs = {} /\ from < LastInstant /\ from' = from + 1 /\ UNCHANGED <<jobs, service>>

\* Jobs may overlap on a resource: the search must not rely on their being disjoint.
BookJob ==
    /\ from \in Froms /\ Cardinality(jobs) < MaxJobs
    /\ \E b \in Bays, t \in Technicians, s \in JobStarts, work \in DOMAIN ServiceCatalog :
          jobs' = jobs \union {[bay |-> b, tech |-> t, start |-> s, end |-> ComputeEndTime(s, work)]}
    /\ UNCHANGED <<service, from>>

Stop == (from = LastInstant \/ Cardinality(jobs) = MaxJobs) /\ UNCHANGED vars

Spec == Init /\ [][AskLater \/ BookJob \/ Stop]_vars

-----------------------------------------------------------------------------
(* Operating hours.  Reference: the opening windows as intervals, Monday (day 1) to
   Saturday (day 6). *)

End == ComputeEndTime(from, service)
Opening(day) == day * UnitsPerDay + OpenMinutes * UnitsPerMinute
Closing(day) == day * UnitsPerDay + CloseMinutes * UnitsPerMinute

\* validateOperatingHours accepts a window exactly when one weekday's opening
\* interval, the whole closing minute included, holds all of it: the separate checks
\* of dates, weekdays and minutes leave no gap at midnight, at the ends of a
\* week or for a service that would run past closing.
WindowInsideOneDay ==
    ValidOperatingHours(from, End) <=>
        \E day \in 1..6 : Opening(day) <= from /\ End < Closing(day) + UnitsPerMinute

\* The list of a day has exactly the appointments of that UTC day, in whatever zone
\* the process runs and although a change of the clock makes the filtered day an
\* hour longer or shorter: nothing is ever booked in that hour.
DayFilterExact ==
    jobs = {} /\ ValidOperatingHours(from, End) =>
        \A zone \in Zones, date \in 0..7 : OnDay(from, date, zone) <=> UTCDate(from) = date

-----------------------------------------------------------------------------
(* Slots. *)

Offer == FindNextAvailable(jobs, Bays, Technicians, service, from)

\* Reference: a start is open if the window fits the search span and, looking at
\* every job and not only the fetched ones, some bay and technician are free.
OpenAt(s) ==
    LET end == ComputeEndTime(s, service)
    IN  /\ from <= s /\ end <= from + SearchSpan
        /\ \E b \in Bays, t \in Technicians :
              ~ \E j \in jobs : (j.bay = b \/ j.tech = t) /\ \E i \in s..(end - 1) : j.start <= i /\ i < j.end

\* A window findNextAvailable returns is on the grid, inside the search span, and
\* really free: the jobs its first query leaves out never occupy it.
OfferIsFree == Offer # NoSlot => Offer % SlotStep = 0 /\ OpenAt(Offer)

\* Looking only where a job ends misses nothing on the grid: no earlier aligned
\* start is open, and null means that none is open in the whole span.
EarliestOnGrid ==
    \A s \in from..(from + SearchSpan) :
        s % SlotStep = 0 /\ OpenAt(s) => Offer # NoSlot /\ Offer <= s

\* appointments.controller.ts:33 and system-design.md:466: the slot in a 409 is one the
\* client can book instead, so it passes the validation the refused start passed.
OfferIsBookable ==
    ValidOperatingHours(from, End) /\ Offer # NoSlot
        => ValidOperatingHours(Offer, ComputeEndTime(Offer, service))

=============================================================================
