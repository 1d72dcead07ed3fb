---------------------------- MODULE SlotSearchProofs ----------------------------
(***************************************************************************)
(* The pure computations agree with their reference definitions, for every *)
(* clock, catalogue, span of the search, dealership, set of jobs and time  *)
(* zone.                                                                   *)
(***************************************************************************)
EXTENDS SlotSearch, SlotsProofs

-----------------------------------------------------------------------------
(* Time. *)

LEMMA DayType == UnitsPerDay \in Nat \ {0} /\ UnitsPerMinute \in Nat \ {0}
<1>1. MinutesPerDay \in Nat \ {0} /\ UnitsPerMinute \in Nat \ {0}
  BY ClockAssumption
<1>2. \A m, n \in Nat \ {0} : m * n \in Nat \ {0}
  OBVIOUS
<1> QED
  BY <1>1, <1>2 DEF UnitsPerDay

\* An instant is as many whole days and units as UTCDate and the remainder say.
LEMMA DateOf ==
    ASSUME NEW t \in Nat
    PROVE  /\ UTCDate(t) \in Nat /\ t % UnitsPerDay \in 0..(UnitsPerDay - 1)
           /\ t = UnitsPerDay * UTCDate(t) + (t % UnitsPerDay)
  BY DayType, Division DEF UTCDate

\* The date is the day within which an instant lies.
LEMMA DateUnique ==
    ASSUME NEW t \in Nat, NEW day \in Nat,
           UnitsPerDay * day <= t, t < UnitsPerDay * day + UnitsPerDay
    PROVE  UTCDate(t) = day /\ t % UnitsPerDay = t - UnitsPerDay * day
<1> DEFINE r == t - UnitsPerDay * day
<1>1. r \in 0..(UnitsPerDay - 1) /\ t = UnitsPerDay * day + r
  BY DayType
<1> QED
  BY <1>1, DayType, DivisionUnique DEF UTCDate

\* A quotient is compared with a number as the dividend with its multiples.
LEMMA QuotientBounds ==
    ASSUME NEW r \in Nat, NEW u \in Nat \ {0}, NEW m \in Nat
    PROVE  /\ m <= r \div u <=> m * u <= r
           /\ r \div u <= m <=> r < (m + 1) * u
<1> DEFINE q == r \div u
           s == r % u
<1>1. q \in Nat /\ s \in 0..(u - 1) /\ r = u * q + s
  BY Division
<1> HIDE DEF q, s
<1>2. \A x, y \in Nat : x <= y => x * u <= y * u
  OBVIOUS
<1>3. ASSUME m <= q
      PROVE  m * u <= r
  BY <1>1, <1>2, <1>3
<1>4. ASSUME ~ (m <= q)
      PROVE  ~ (m * u <= r)
  <2>1. (q + 1) * u <= m * u
    BY <1>1, <1>2, <1>4
  <2> QED
    BY <1>1, <2>1
<1>5. ASSUME q <= m
      PROVE  r < (m + 1) * u
  <2>1. (q + 1) * u <= (m + 1) * u
    BY <1>1, <1>2, <1>5
  <2> QED
    BY <1>1, <2>1
<1>6. ASSUME ~ (q <= m)
      PROVE  ~ (r < (m + 1) * u)
  <2>1. (m + 1) * u <= q * u
    BY <1>1, <1>2, <1>6
  <2> QED
    BY <1>1, <2>1
<1> QED
  BY <1>3, <1>4, <1>5, <1>6 DEF q

\* Opening and closing time are instants of their day, and closing is not the last minute.
LEMMA OpeningHoursType ==
    /\ OpenMinutes * UnitsPerMinute \in Nat
    /\ (CloseMinutes + 1) * UnitsPerMinute \in Nat
    /\ OpenMinutes * UnitsPerMinute < (CloseMinutes + 1) * UnitsPerMinute
    /\ (CloseMinutes + 1) * UnitsPerMinute <= UnitsPerDay
    /\ CloseMinutes * UnitsPerMinute + UnitsPerMinute = (CloseMinutes + 1) * UnitsPerMinute
<1>1. /\ UnitsPerMinute \in Nat \ {0} /\ OpenMinutes \in Nat /\ CloseMinutes \in Nat /\ MinutesPerDay \in Nat
      /\ OpenMinutes + 1 <= CloseMinutes + 1 /\ CloseMinutes + 1 <= MinutesPerDay
  BY ClockAssumption
<1>2. \A x, y, u \in Nat : x <= y => x * u <= y * u
  OBVIOUS
<1>3. /\ (OpenMinutes + 1) * UnitsPerMinute <= (CloseMinutes + 1) * UnitsPerMinute
      /\ (CloseMinutes + 1) * UnitsPerMinute <= MinutesPerDay * UnitsPerMinute
  BY <1>1, <1>2
<1>4. /\ (OpenMinutes + 1) * UnitsPerMinute = OpenMinutes * UnitsPerMinute + UnitsPerMinute
      /\ (CloseMinutes + 1) * UnitsPerMinute = CloseMinutes * UnitsPerMinute + UnitsPerMinute
  BY <1>1
<1>5. /\ OpenMinutes * UnitsPerMinute \in Nat /\ (CloseMinutes + 1) * UnitsPerMinute \in Nat
      /\ MinutesPerDay * UnitsPerMinute \in Nat
  BY <1>1
<1> QED
  BY <1>1, <1>3, <1>4, <1>5 DEF UnitsPerDay

\* The comparison of minutes is one of instants: the opening hours of a day begin with
\* the opening minute and end with the closing minute.
LEMMA OpeningHoursInterval ==
    ASSUME NEW t \in Nat, NEW day \in Nat, UTCDate(t) = day
    PROVE  InOpeningHours(t) <=> Opening(day) <= t /\ t < Closing(day) + UnitsPerMinute
<1> DEFINE r == t % UnitsPerDay
           open == OpenMinutes * UnitsPerMinute
           close == (CloseMinutes + 1) * UnitsPerMinute
           midnight == UnitsPerDay * day
<1>1. r \in Nat /\ t = midnight + r
  BY DateOf
<1>2. InOpeningHours(t) <=> open <= r /\ r < close
  BY <1>1, ClockAssumption, QuotientBounds DEF InOpeningHours, MinuteOfDay
<1>3. open \in Nat /\ close \in Nat /\ CloseMinutes * UnitsPerMinute = close - UnitsPerMinute
  BY OpeningHoursType, ClockAssumption
<1>4. midnight \in Nat /\ midnight = day * UnitsPerDay
  BY DayType
<1>5. Opening(day) = midnight + open /\ Closing(day) + UnitsPerMinute = midnight + close
  BY <1>3, <1>4, ClockAssumption DEF Opening, Closing
<1> HIDE DEF r, open, close, midnight
<1> QED
  BY <1>1, <1>2, <1>3, <1>4, <1>5

\* An instant within the opening hours of some day is of that date.
LEMMA OpeningHoursDate ==
    ASSUME NEW t \in Nat, NEW day \in Nat, Opening(day) <= t, t < Closing(day) + UnitsPerMinute
    PROVE  UTCDate(t) = day
<1> DEFINE open == OpenMinutes * UnitsPerMinute
           close == (CloseMinutes + 1) * UnitsPerMinute
           midnight == UnitsPerDay * day
<1>1. /\ open \in Nat /\ close \in Nat /\ close <= UnitsPerDay /\ UnitsPerDay \in Nat
      /\ CloseMinutes * UnitsPerMinute = close - UnitsPerMinute
  BY OpeningHoursType, ClockAssumption, DayType
<1>2. midnight \in Nat /\ midnight = day * UnitsPerDay
  BY DayType
<1>3. midnight + open <= t /\ t < midnight + close
  BY <1>1, <1>2, ClockAssumption DEF Opening, Closing
<1> HIDE DEF open, close, midnight
<1>4. midnight <= t /\ t < midnight + UnitsPerDay
  BY <1>1, <1>2, <1>3
<1> QED
  BY <1>4, DateUnique DEF midnight

\* validateOperatingHours accepts a window, of any length and at any time, exactly when
\* it lies within the opening hours of one day that is not a Sunday.
THEOREM AcceptedWindows ==
    ASSUME NEW start \in Nat, NEW end \in Nat, start <= end
    PROVE  ValidOperatingHours(start, end) <=>
              \E day \in Nat : /\ day % 7 # Sunday
                               /\ Opening(day) <= start /\ end < Closing(day) + UnitsPerMinute
<1>1. ASSUME ValidOperatingHours(start, end)
      PROVE  \E day \in Nat : /\ day % 7 # Sunday
                              /\ Opening(day) <= start /\ end < Closing(day) + UnitsPerMinute
  <2>1. UTCDate(start) \in Nat /\ UTCDate(end) = UTCDate(start) /\ UTCDate(start) % 7 # Sunday
    BY <1>1, DateOf DEF ValidOperatingHours, UTCDay
  <2>2. Opening(UTCDate(start)) <= start /\ end < Closing(UTCDate(start)) + UnitsPerMinute
    BY <1>1, <2>1, OpeningHoursInterval DEF ValidOperatingHours
  <2> QED
    BY <2>1, <2>2
<1>2. ASSUME NEW day \in Nat, day % 7 # Sunday,
             Opening(day) <= start, end < Closing(day) + UnitsPerMinute
      PROVE  ValidOperatingHours(start, end)
  <2>1. Opening(day) \in Nat /\ Closing(day) + UnitsPerMinute \in Nat
    BY DayType, ClockAssumption DEF Opening, Closing
  <2>2. start < Closing(day) + UnitsPerMinute /\ Opening(day) <= end
    BY <1>2, <2>1
  <2>3. UTCDate(start) = day /\ UTCDate(end) = day
    BY <1>2, <2>2, OpeningHoursDate
  <2>4. InOpeningHours(start) /\ InOpeningHours(end)
    BY <1>2, <2>2, <2>3, OpeningHoursInterval
  <2> QED
    BY <1>2, <2>3, <2>4 DEF ValidOperatingHours, UTCDay
<1> QED
  BY <1>1, <1>2

-----------------------------------------------------------------------------
(* The day filter. *)

\* A change of the clock moves the end of the filtered day, but not into opening hours.
LEMMA NextDayBounds ==
    ASSUME NEW t \in Nat, NEW zone \in Zones
    PROVE  /\ NextDay(t, zone) \in Int
           /\ t + (CloseMinutes + 1) * UnitsPerMinute <= NextDay(t, zone)
           /\ NextDay(t, zone) <= t + UnitsPerDay + OpenMinutes * UnitsPerMinute
<1> DEFINE open == OpenMinutes * UnitsPerMinute
           close == (CloseMinutes + 1) * UnitsPerMinute
<1>1. open \in Nat /\ close \in Nat /\ open < close /\ close <= UnitsPerDay /\ UnitsPerDay \in Nat
  BY OpeningHoursType, DayType
<1>2. /\ zone.before \in Int /\ zone.after \in Int /\ zone.change \in Int
      /\ zone.after - zone.before <= UnitsPerDay - close /\ zone.before - zone.after <= open
  BY SearchAssumption
<1> HIDE DEF open, close
<1>3. CASE t < zone.change
  <2>1. NextDay(t, zone) \in {t + UnitsPerDay, t + UnitsPerDay + zone.before - zone.after}
    BY <1>1, <1>2, <1>3 DEF NextDay, InstantOf, WallClock
  <2> QED
    BY <1>1, <1>2, <2>1 DEF open, close
<1>4. CASE ~ (t < zone.change)
  <2>1. NextDay(t, zone) = t + UnitsPerDay
    BY <1>1, <1>2, <1>4 DEF NextDay, InstantOf, WallClock
  <2> QED
    BY <1>1, <2>1 DEF open, close
<1> QED
  BY <1>3, <1>4

\* The list of a day has exactly the appointments of that UTC date, whatever time zone
\* the process runs in and on whichever day its clock changes: nothing is booked in the
\* hours by which the end of the filtered day may be off.
THEOREM DaySelected ==
    ASSUME NEW start \in Nat, NEW end \in Nat, start <= end, ValidOperatingHours(start, end),
           NEW zone \in Zones, NEW date \in Nat
    PROVE  OnDay(start, date, zone) <=> UTCDate(start) = date
<1> DEFINE open == OpenMinutes * UnitsPerMinute
           close == (CloseMinutes + 1) * UnitsPerMinute
           day == UTCDate(start)
           midnight(n) == UnitsPerDay * n
<1>1. /\ open \in Nat /\ close \in Nat /\ open < close /\ close <= UnitsPerDay /\ UnitsPerDay \in Nat
      /\ CloseMinutes * UnitsPerMinute = close - UnitsPerMinute
  BY OpeningHoursType, DayType, ClockAssumption
<1>2. day \in Nat /\ midnight(day) + open <= start /\ start < midnight(day) + close
  <2>1. day \in Nat /\ Opening(day) <= start /\ start < Closing(day) + UnitsPerMinute
    BY DateOf, OpeningHoursInterval DEF ValidOperatingHours
  <2>2. midnight(day) \in Nat /\ midnight(day) = day * UnitsPerDay
    BY <2>1, DayType
  <2> HIDE DEF day
  <2> QED
    BY <1>1, <2>1, <2>2, ClockAssumption DEF Opening, Closing
<1>3. midnight(date) \in Nat /\ midnight(day) \in Nat
  BY <1>1, <1>2
<1>4. /\ NextDay(midnight(date), zone) \in Int
      /\ midnight(date) + close <= NextDay(midnight(date), zone)
      /\ NextDay(midnight(date), zone) <= midnight(date) + UnitsPerDay + open
  BY <1>3, NextDayBounds
<1>5. OnDay(start, date, zone) <=> midnight(date) <= start /\ start < NextDay(midnight(date), zone)
  <2>1. midnight(date) = date * UnitsPerDay
    BY <1>1
  <2> QED
    BY <2>1 DEF OnDay
<1>6. \A m, n \in Nat : m < n => midnight(m) + UnitsPerDay <= midnight(n)
  <2>1. ASSUME NEW m \in Nat, NEW n \in Nat, m < n
        PROVE  midnight(m) + UnitsPerDay <= midnight(n)
    <3>1. \A x, y, u \in Nat : x <= y => u * x <= u * y
      OBVIOUS
    <3>2. UnitsPerDay * (m + 1) <= UnitsPerDay * n
      BY <1>1, <2>1, <3>1
    <3> QED
      BY <1>1, <3>2
  <2> QED
    BY <2>1
<1>7. CASE date = day
  BY <1>1, <1>2, <1>3, <1>4, <1>5, <1>7
<1>8. CASE date < day
  <2>1. midnight(date) + UnitsPerDay <= midnight(day)
    BY <1>2, <1>6, <1>8
  <2> HIDE DEF open, close, day, midnight
  <2>2. NextDay(midnight(date), zone) <= start
    BY <1>1, <1>2, <1>3, <1>4, <2>1
  <2>3. ~ (start < NextDay(midnight(date), zone))
    BY <1>4, <2>2
  <2>4. day # date
    BY <1>2, <1>8
  <2> QED
    BY <1>5, <2>3, <2>4 DEF day
<1>9. CASE day < date
  <2>1. midnight(day) + UnitsPerDay <= midnight(date)
    BY <1>2, <1>6, <1>9
  <2> HIDE DEF open, close, day, midnight
  <2>2. ~ (midnight(date) <= start)
    BY <1>1, <1>2, <1>3, <2>1
  <2>3. day # date
    BY <1>2, <1>9
  <2> QED
    BY <1>5, <2>2, <2>3 DEF day
<1> QED
  BY <1>2, <1>7, <1>8, <1>9

-----------------------------------------------------------------------------
(* The states of SlotSearch. *)

SearchInv ==
    /\ from \in 0..LastInstant
    /\ service \in DOMAIN ServiceCatalog
    /\ \A j \in jobs : j.start \in Nat /\ j.end \in Nat /\ j.start < j.end

LEMMA SearchInvariance == Spec => []SearchInv
<1>1. Init => SearchInv
  <2>1. UnitsPerDay \in Nat \ {0} /\ 0 \in 0..(7 * UnitsPerDay - 1)
    BY DayType
  <2> QED
    BY <2>1 DEF Init, SearchInv, LastInstant
<1>2. SearchInv /\ [AskLater \/ BookJob \/ Stop]_vars => SearchInv'
  <2> SUFFICES ASSUME SearchInv, [AskLater \/ BookJob \/ Stop]_vars
               PROVE  SearchInv'
    OBVIOUS
  <2>1. CASE AskLater
    <3>1. LastInstant \in Int
      BY DayType DEF LastInstant
    <3>2. LastInstant' = LastInstant
      BY DEF LastInstant, UnitsPerDay
    <3> QED
      BY <2>1, <3>1, <3>2 DEF SearchInv, AskLater
  <2>2. CASE BookJob
    <3>1. PICK b \in Bays, t \in Technicians, s \in JobStarts, work \in DOMAIN ServiceCatalog :
              jobs' = jobs \union {[bay |-> b, tech |-> t, start |-> s, end |-> ComputeEndTime(s, work)]}
      BY <2>2 DEF BookJob
    <3>2. s \in Nat /\ ComputeEndTime(s, work) \in Nat /\ s < ComputeEndTime(s, work)
      <4>1. s \in Nat /\ Duration(work) \in Nat \ {0}
        BY SearchAssumption, DurationType
      <4> QED
        BY <4>1 DEF ComputeEndTime
    <3> QED
      BY <2>2, <3>1, <3>2 DEF SearchInv, BookJob, LastInstant, UnitsPerDay
  <2>3. CASE UNCHANGED vars
    BY <2>3 DEF SearchInv, vars, LastInstant, UnitsPerDay
  <2> QED
    BY <2>1, <2>2, <2>3 DEF Stop
<1> QED
  BY <1>1, <1>2, PTL DEF Spec

LEMMA AskedWindow ==
    ASSUME SearchInv
    PROVE  from \in Nat /\ End \in Nat /\ from < End
<1>1. from \in Nat
  BY DayType DEF SearchInv, LastInstant
<1>2. Duration(service) \in Nat \ {0}
  BY DurationType DEF SearchInv
<1> QED
  BY <1>1, <1>2 DEF End, ComputeEndTime

\* validateOperatingHours accepts exactly the windows within the opening hours of a
\* weekday.
THEOREM WindowsAreInsideOneDay == Spec => []WindowInsideOneDay
<1>1. SearchInv => WindowInsideOneDay
  <2> SUFFICES ASSUME SearchInv
               PROVE  WindowInsideOneDay
    OBVIOUS
  <2>1. from \in Nat /\ End \in Nat /\ from <= End
    BY AskedWindow
  <2>2. ASSUME NEW day \in Nat, Opening(day) <= from
        PROVE  day < 7
    <3>1. OpenMinutes * UnitsPerMinute \in Nat /\ UnitsPerDay \in Nat \ {0}
      BY OpeningHoursType, DayType
    <3>2. day * UnitsPerDay < 7 * UnitsPerDay
      <4>1. day * UnitsPerDay \in Nat
        BY <3>1
      <4> QED
        BY <2>1, <2>2, <3>1, <4>1 DEF SearchInv, LastInstant, Opening
    <3>3. \A x, y, u \in Nat : x <= y => x * u <= y * u
      OBVIOUS
    <3>4. ~ (7 <= day)
      BY <3>1, <3>2, <3>3
    <3> QED
      BY <3>4
  <2>3. \A day \in Nat : day < 7 => (day % 7 # Sunday <=> day \in 1..6)
    BY DEF Sunday
  <2>4. 1..6 \subseteq Nat
    OBVIOUS
  <2>5. (\E day \in Nat : day % 7 # Sunday /\ Opening(day) <= from /\ End < Closing(day) + UnitsPerMinute)
           <=> \E day \in 1..6 : Opening(day) <= from /\ End < Closing(day) + UnitsPerMinute
    BY <2>2, <2>3, <2>4
  <2> QED
    BY <2>1, <2>5, AcceptedWindows DEF WindowInsideOneDay
<1> QED
  BY SearchInvariance, <1>1, PTL

\* The list of a day has exactly the appointments of that day, although its end is
\* computed on a clock that changes.
THEOREM DayFilterIsExact == Spec => []DayFilterExact
<1>1. SearchInv => DayFilterExact
  <2> SUFFICES ASSUME SearchInv, ValidOperatingHours(from, End), NEW zone \in Zones, NEW date \in 0..7
               PROVE  OnDay(from, date, zone) <=> UTCDate(from) = date
    BY DEF DayFilterExact
  <2>1. from \in Nat /\ End \in Nat /\ from <= End /\ date \in Nat
    BY AskedWindow
  <2> QED
    BY <2>1, DaySelected
<1> QED
  BY SearchInvariance, <1>1, PTL

\* Two ways to say that a pair of resources is free: no job of theirs shares an instant
\* with the window.
LEMMA OpenIsPairFree ==
    ASSUME SearchInv, NEW s \in Nat
    PROVE  OpenAt(s) <=> /\ from <= s /\ ComputeEndTime(s, service) <= SearchEnd(from)
                         /\ PairFree(jobs, Bays, Technicians, s, ComputeEndTime(s, service))
<1> DEFINE end == ComputeEndTime(s, service)
<1>1. end \in Nat /\ s < end
  <2>1. Duration(service) \in Nat \ {0}
    BY DurationType DEF SearchInv
  <2> QED
    BY <2>1 DEF ComputeEndTime
<1> HIDE DEF end
<1>2. ASSUME NEW j \in jobs
      PROVE  Overlaps(s, end, j.start, j.end) <=> \E i \in s..(end - 1) : j.start <= i /\ i < j.end
  <2>1. j.start \in Nat /\ j.end \in Nat /\ j.start < j.end
    BY DEF SearchInv
  <2>2. ASSUME Overlaps(s, end, j.start, j.end), s <= j.start
        PROVE  \E i \in s..(end - 1) : j.start <= i /\ i < j.end
    <3>1. j.start \in s..(end - 1)
      BY <1>1, <2>1, <2>2 DEF Overlaps
    <3> QED
      BY <2>1, <3>1
  <2>3. ASSUME Overlaps(s, end, j.start, j.end), j.start < s
        PROVE  \E i \in s..(end - 1) : j.start <= i /\ i < j.end
    <3>1. s \in s..(end - 1) /\ j.start <= s /\ s < j.end
      BY <1>1, <2>1, <2>3 DEF Overlaps
    <3> QED
      BY <3>1
  <2>4. ASSUME NEW i \in s..(end - 1), j.start <= i, i < j.end
        PROVE  Overlaps(s, end, j.start, j.end)
    BY <1>1, <2>1, <2>4 DEF Overlaps
  <2> QED
    BY <2>1, <2>2, <2>3, <2>4
<1>3. \A b \in Bays, t \in Technicians :
          (\A j \in jobs : Overlaps(s, end, j.start, j.end) => j.bay # b /\ j.tech # t)
             <=> ~ \E j \in jobs : /\ j.bay = b \/ j.tech = t
                                   /\ \E i \in s..(end - 1) : j.start <= i /\ i < j.end
  BY <1>2
<1>4. PairFree(jobs, Bays, Technicians, s, end)
         <=> \E b \in Bays, t \in Technicians :
                ~ \E j \in jobs : /\ j.bay = b \/ j.tech = t
                                  /\ \E i \in s..(end - 1) : j.start <= i /\ i < j.end
  BY <1>3 DEF PairFree
<1> QED
  BY <1>4 DEF OpenAt, SearchEnd, end

\* A window that is offered is free, whatever jobs the queries leave out.
THEOREM OffersAreFree == Spec => []OfferIsFree
<1>1. SearchInv => OfferIsFree
  <2> SUFFICES ASSUME SearchInv, Offer # NoSlot
               PROVE  Offer % SlotStep = 0 /\ OpenAt(Offer)
    BY DEF OfferIsFree
  <2>1. from \in Nat /\ service \in DOMAIN ServiceCatalog /\ \A j \in jobs : j.start \in Nat /\ j.end \in Nat
    BY AskedWindow DEF SearchInv
  <2>2. Offer \in Nat
    BY <2>1, FindNextAvailableType DEF Offer
  <2>3. /\ from <= Offer /\ ComputeEndTime(Offer, service) <= SearchEnd(from) /\ Offer % SlotStep = 0
        /\ PairFree(jobs, Bays, Technicians, Offer, ComputeEndTime(Offer, service))
    BY <2>1, OfferedSlotIsFree DEF Offer
  <2> QED
    BY <2>2, <2>3, OpenIsPairFree
<1> QED
  BY SearchInvariance, <1>1, PTL

\* No instant of the grid before the offered one, or none at all if none is offered, has
\* a bay and a technician free.
THEOREM OffersAreEarliest == Spec => []EarliestOnGrid
<1>1. SearchInv => EarliestOnGrid
  <2> SUFFICES ASSUME SearchInv, NEW s \in from..(from + SearchSpan), s % SlotStep = 0, OpenAt(s)
               PROVE  Offer # NoSlot /\ Offer <= s
    BY DEF EarliestOnGrid
  <2>1. from \in Nat /\ service \in DOMAIN ServiceCatalog /\ \A j \in jobs : j.start \in Nat /\ j.end \in Nat
    BY AskedWindow DEF SearchInv
  <2>2. s \in Nat
    BY <2>1, SlotAssumption
  <2>3. /\ from <= s /\ ComputeEndTime(s, service) <= SearchEnd(from)
        /\ PairFree(jobs, Bays, Technicians, s, ComputeEndTime(s, service))
    BY <2>2, OpenIsPairFree
  <2>4. Offer \in Nat /\ Offer <= s
    BY <2>1, <2>2, <2>3, NoEarlierSlotIsFree DEF Offer
  <2> QED
    BY <2>4, SlotAssumption
<1> QED
  BY SearchInvariance, <1>1, PTL

=============================================================================
