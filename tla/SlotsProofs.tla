------------------------------ MODULE SlotsProofs ------------------------------
(***************************************************************************)
(* What findNextAvailable returns, for every set of jobs.                  *)
(***************************************************************************)
EXTENDS Slots, WellFoundedInduction, TLAPS

\* Min of FiniteSetsExt is the least element of a nonempty set of naturals.
LEMMA MinOfNaturals ==
    ASSUME NEW S \in SUBSET Nat, S # {}
    PROVE  Min(S) \in S /\ \A y \in S : Min(S) <= y
<1> DEFINE Less == {ss \in Nat \X Nat : ss[1] < ss[2]}
<1>1. IsWellFoundedOn(Less, Nat)
  BY NatLessThanWellFounded, Zenon DEF OpToRel
<1>2. ASSUME NEW x \in Nat, NEW y \in Nat, x < y
      PROVE  <<x, y>> \in Less
  BY <1>2
<1> HIDE DEF Less
<1>3. PICK x \in S : \A y \in S : <<y, x>> \notin Less
  BY <1>1, WFMin
<1>4. ASSUME NEW y \in S
      PROVE  x <= y
  <2>1. x \in Nat /\ y \in Nat
    OBVIOUS
  <2>2. ~ (y < x)
    BY <1>2, <1>3, <2>1, Zenon
  <2> QED
    BY <2>1, <2>2
<1> QED
  BY <1>4 DEF Min

LEMMA DurationType ==
    ASSUME NEW service \in DOMAIN ServiceCatalog
    PROVE  Duration(service) \in Nat \ {0}
<1>1. ServiceCatalog[service] \in Nat \ {0} /\ UnitsPerMinute \in Nat \ {0}
  BY CatalogAssumption, ClockAssumption
<1>2. \A m, n \in Nat \ {0} : m * n \in Nat \ {0}
  OBVIOUS
<1> QED
  BY <1>1, <1>2 DEF Duration

\* Rounding up never goes back and moves by less than one step of the grid.
LEMMA RoundUpBounds ==
    ASSUME NEW t \in Nat
    PROVE  RoundUpToSlot(t) \in Nat /\ t <= RoundUpToSlot(t) /\ RoundUpToSlot(t) < t + SlotStep
<1>1. SlotStep \in Nat \ {0}
  BY SlotAssumption
<1>2. t % SlotStep \in 0..(SlotStep - 1)
  BY <1>1
<1> QED
  BY <1>1, <1>2 DEF RoundUpToSlot

-----------------------------------------------------------------------------
(* The grid. *)

\* Division with remainder by a positive divisor.
LEMMA Division ==
    ASSUME NEW a \in Nat, NEW b \in Nat \ {0}
    PROVE  /\ a \div b \in Nat /\ a % b \in 0..(b - 1)
           /\ a = b * (a \div b) + (a % b)
  OBVIOUS

\* Quotient and remainder are the only ones.
LEMMA DivisionUnique ==
    ASSUME NEW a \in Nat, NEW b \in Nat \ {0}, NEW q \in Nat, NEW r \in 0..(b - 1), a = b * q + r
    PROVE  a \div b = q /\ a % b = r
<1> DEFINE p == a \div b
           m == a % b
<1>1. p \in Nat /\ m \in 0..(b - 1) /\ a = b * p + m
  BY Division
<1> HIDE DEF p, m
<1>2. b * (p - q) = r - m
  BY <1>1
<1>3. p = q
  <2>1. ASSUME p >= q + 1
        PROVE  FALSE
    <3>1. b * (p - q) >= b
      BY <1>1, <2>1
    <3> QED
      BY <1>1, <1>2, <3>1
  <2>2. ASSUME p <= q - 1
        PROVE  FALSE
    <3>1. b * (p - q) <= -b
      BY <1>1, <2>2
    <3> QED
      BY <1>1, <1>2, <3>1
  <2> QED
    BY <1>1, <2>1, <2>2
<1>4. m = r
  BY <1>1, <1>3
<1> QED
  BY <1>3, <1>4 DEF p, m

\* Rounding up leads to the grid.
LEMMA RoundUpOnGrid ==
    ASSUME NEW t \in Nat
    PROVE  RoundUpToSlot(t) % SlotStep = 0
<1> DEFINE q == t \div SlotStep
           r == t % SlotStep
<1>1. SlotStep \in Nat \ {0}
  BY SlotAssumption
<1>2. q \in Nat /\ r \in 0..(SlotStep - 1) /\ t = SlotStep * q + r
  BY <1>1, Division
<1>3. CASE r = 0
  BY <1>3 DEF RoundUpToSlot
<1>4. CASE r # 0
  <2>1. RoundUpToSlot(t) = t + SlotStep - r
    BY <1>4 DEF RoundUpToSlot
  <2> HIDE DEF q, r
  <2>2. RoundUpToSlot(t) = SlotStep * (q + 1) + 0
    BY <1>1, <1>2, <2>1
  <2>3. q + 1 \in Nat /\ 0 \in 0..(SlotStep - 1) /\ RoundUpToSlot(t) \in Nat
    BY <1>1, <1>2, RoundUpBounds
  <2> QED
    BY <1>1, <2>2, <2>3, DivisionUnique
<1> QED
  BY <1>3, <1>4

\* No instant of the grid lies between an instant and the one it is rounded up to.
LEMMA RoundUpIsNext ==
    ASSUME NEW t \in Nat, NEW s \in Nat, s % SlotStep = 0, t <= s
    PROVE  RoundUpToSlot(t) <= s
<1> DEFINE u == RoundUpToSlot(t)
           i == u \div SlotStep
           j == s \div SlotStep
<1>1. SlotStep \in Nat \ {0}
  BY SlotAssumption
<1>2. u \in Nat /\ u < t + SlotStep /\ u % SlotStep = 0
  BY RoundUpBounds, RoundUpOnGrid
<1> HIDE DEF u
<1>3. i \in Nat /\ j \in Nat /\ u = SlotStep * i /\ s = SlotStep * j
  BY <1>1, <1>2, Division
<1> HIDE DEF i, j
<1>4. SlotStep * (i - j) < SlotStep
  BY <1>1, <1>2, <1>3
<1>5. i <= j
  <2>1. ASSUME i >= j + 1
        PROVE  FALSE
    <3>1. SlotStep * (i - j) >= SlotStep
      BY <1>1, <1>3, <2>1
    <3> QED
      BY <1>1, <1>3, <1>4, <3>1
  <2> QED
    BY <1>3, <2>1
<1>6. SlotStep * i <= SlotStep * j
  BY <1>1, <1>3, <1>5
<1> QED
  BY <1>3, <1>6 DEF u

\* Every candidate is on the grid.
LEMMA CandidatesOnGrid ==
    ASSUME NEW jobs, \A j \in jobs : j.end \in Nat, NEW from \in Nat
    PROVE  \A c \in Candidates(jobs, from) : c % SlotStep = 0
  BY RoundUpOnGrid DEF Candidates, FetchedJobs

\* Candidates are instants of the search span.
LEMMA CandidatesType ==
    ASSUME NEW jobs, \A j \in jobs : j.end \in Nat, NEW from \in Nat
    PROVE  \A c \in Candidates(jobs, from) : c \in Nat /\ from <= c
<1> SUFFICES ASSUME NEW c \in Candidates(jobs, from)
             PROVE  c \in Nat /\ from <= c
  OBVIOUS
<1>1. CASE c = RoundUpToSlot(from)
  BY <1>1, RoundUpBounds
<1>2. CASE c >= from /\ \E j \in FetchedJobs(jobs, from) : c = RoundUpToSlot(j.end)
  BY <1>2, RoundUpBounds DEF FetchedJobs
<1> QED
  BY <1>1, <1>2 DEF Candidates

\* The result of findNextAvailable is an instant or null.
LEMMA FindNextAvailableType ==
    ASSUME NEW jobs, \A j \in jobs : j.end \in Nat, NEW bays, NEW techs, NEW service, NEW from \in Nat
    PROVE  FindNextAvailable(jobs, bays, techs, service, from) \in Nat \union {NoSlot}
<1> DEFINE open == OpenStarts(jobs, bays, techs, service, from)
<1>1. open \subseteq Nat
  BY CandidatesType DEF OpenStarts
<1>2. CASE open = {}
  BY <1>2 DEF FindNextAvailable
<1>3. CASE open # {}
  <2>1. Min(open) \in Nat
    BY <1>1, <1>3, MinOfNaturals
  <2> QED
    BY <1>3, <2>1 DEF FindNextAvailable
<1> QED
  BY <1>2, <1>3

\* The window findNextAvailable returns starts on the grid and no earlier than asked, ends
\* inside the search span, and some bay and technician are free throughout it, whichever jobs of
\* the dealership there are: the first query may leave out only jobs that cannot
\* overlap a window of the search.
THEOREM OfferedSlotIsFree ==
    ASSUME NEW jobs, \A j \in jobs : j.start \in Nat /\ j.end \in Nat,
           NEW bays, NEW techs, NEW service \in DOMAIN ServiceCatalog, NEW from \in Nat,
           FindNextAvailable(jobs, bays, techs, service, from) # NoSlot
    PROVE  LET slot == FindNextAvailable(jobs, bays, techs, service, from)
               end == ComputeEndTime(slot, service)
           IN  /\ from <= slot /\ end <= SearchEnd(from) /\ slot % SlotStep = 0
               /\ PairFree(jobs, bays, techs, slot, end)
<1> DEFINE open == OpenStarts(jobs, bays, techs, service, from)
           slot == FindNextAvailable(jobs, bays, techs, service, from)
           end == ComputeEndTime(slot, service)
<1>1. slot \in open
  <2>1. open # {}
    BY DEF FindNextAvailable
  <2>2. open \subseteq Nat
    BY CandidatesType DEF OpenStarts
  <2>3. Min(open) \in open
    BY <2>1, <2>2, MinOfNaturals
  <2> QED
    BY <2>1, <2>3 DEF FindNextAvailable
<1>2. /\ slot \in Nat /\ from <= slot /\ slot % SlotStep = 0
      /\ end <= SearchEnd(from)
      /\ PairFree(FetchedJobs(jobs, from), bays, techs, slot, end)
  BY <1>1, CandidatesType, CandidatesOnGrid DEF OpenStarts
<1>3. end \in Nat /\ slot < end
  BY <1>2, DurationType DEF ComputeEndTime
<1>4. SearchEnd(from) \in Nat
  BY SlotAssumption DEF SearchEnd
<1> HIDE DEF open, slot, end
<1>5. ASSUME NEW j \in jobs, Overlaps(slot, end, j.start, j.end)
      PROVE  j \in FetchedJobs(jobs, from)
  BY <1>2, <1>3, <1>4, <1>5 DEF Overlaps, FetchedJobs
<1>6. PairFree(jobs, bays, techs, slot, end)
  BY <1>2, <1>5 DEF PairFree
<1> QED
  BY <1>2, <1>6 DEF slot, end

\* The latest candidate up to some instant exists, for the asked instant is one.
LEMMA LatestCandidate ==
    ASSUME NEW jobs, \A j \in jobs : j.end \in Nat, NEW from \in Nat,
           NEW s \in Nat, s % SlotStep = 0, from <= s
    PROVE  \E c \in Candidates(jobs, from) :
              c <= s /\ \A e \in Candidates(jobs, from) : e <= s => e <= c
<1> DEFINE Gaps == {g \in Nat : \E c \in Candidates(jobs, from) : g + c = s}
           first == RoundUpToSlot(from)
<1>1. first \in Candidates(jobs, from) /\ first \in Nat /\ first <= s
  BY RoundUpBounds, RoundUpIsNext DEF Candidates
<1>2. Gaps \in SUBSET Nat /\ s - first \in Gaps
  <2>1. s - first \in Nat /\ (s - first) + first = s
    BY <1>1
  <2> QED
    BY <1>1, <2>1
<1>3. Min(Gaps) \in Gaps /\ \A g \in Gaps : Min(Gaps) <= g
  BY <1>2, MinOfNaturals
<1>4. PICK c \in Candidates(jobs, from) : Min(Gaps) + c = s
  BY <1>3
<1>5. ASSUME NEW e \in Candidates(jobs, from), e <= s
      PROVE  e <= c
  <2>1. e \in Nat /\ c \in Nat /\ Min(Gaps) \in Nat
    BY <1>3, CandidatesType
  <2>2. s - e \in Nat /\ (s - e) + e = s
    BY <1>5, <2>1
  <2>3. s - e \in Gaps
    BY <2>2
  <2>4. Min(Gaps) <= s - e
    BY <1>3, <2>3
  <2> HIDE DEF Gaps
  <2> QED
    BY <1>4, <2>1, <2>4
<1>6. c <= s
  <2>1. c \in Nat /\ Min(Gaps) \in Nat
    BY <1>3, CandidatesType
  <2> HIDE DEF Gaps
  <2> QED
    BY <1>4, <2>1
<1> QED
  BY <1>5, <1>6

\* Looking only at the asked instant and where a job ends misses nothing on the grid:
\* whenever some bay and technician are free from an instant of the grid on, the window
\* findNextAvailable returns starts there or earlier.  What makes it so: whatever is in
\* the way of the latest candidate up to a free start ends by that start, and its
\* end, rounded up, would be a later candidate.
THEOREM NoEarlierSlotIsFree ==
    ASSUME NEW jobs, \A j \in jobs : j.start \in Nat /\ j.end \in Nat,
           NEW bays, NEW techs, NEW service \in DOMAIN ServiceCatalog, NEW from \in Nat,
           NEW s \in Nat, s % SlotStep = 0, from <= s,
           ComputeEndTime(s, service) <= SearchEnd(from),
           PairFree(jobs, bays, techs, s, ComputeEndTime(s, service))
    PROVE  LET slot == FindNextAvailable(jobs, bays, techs, service, from)
           IN  slot \in Nat /\ slot <= s
<1> DEFINE open == OpenStarts(jobs, bays, techs, service, from)
           d == Duration(service)
<1>1. d \in Nat \ {0} /\ SearchEnd(from) \in Nat
  BY DurationType, SlotAssumption DEF SearchEnd
<1>2. s + d <= SearchEnd(from) /\ PairFree(jobs, bays, techs, s, s + d)
  BY DEF ComputeEndTime
<1> HIDE DEF d
<1>3. PICK c \in Candidates(jobs, from) :
          c <= s /\ \A e \in Candidates(jobs, from) : e <= s => e <= c
  BY LatestCandidate
<1>4. c \in Nat /\ from <= c
  BY CandidatesType
<1>5. PICK b \in bays, t \in techs :
          \A j \in jobs : Overlaps(s, s + d, j.start, j.end) => j.bay # b /\ j.tech # t
  BY <1>2 DEF PairFree
<1>6. ASSUME NEW j \in jobs, Overlaps(c, c + d, j.start, j.end), ~ Overlaps(s, s + d, j.start, j.end)
      PROVE  FALSE
  <2>1. j.start \in Nat /\ j.end \in Nat
    OBVIOUS
  <2>2. j.start < c + d /\ c < j.end /\ j.end <= s
    BY <1>1, <1>3, <1>4, <1>6, <2>1 DEF Overlaps
  <2>3. j \in FetchedJobs(jobs, from)
    BY <1>1, <1>2, <1>3, <1>4, <2>1, <2>2 DEF FetchedJobs
  <2> DEFINE e == RoundUpToSlot(j.end)
  <2>4. e \in Nat /\ j.end <= e /\ e <= s
    BY <2>1, <2>2, RoundUpBounds, RoundUpIsNext
  <2>5. e >= from /\ e < SearchEnd(from)
    <3> HIDE DEF e
    <3> QED
      BY <1>1, <1>2, <1>4, <2>1, <2>2, <2>4
  <2>6. e \in Candidates(jobs, from)
    BY <2>3, <2>5 DEF Candidates
  <2> HIDE DEF e
  <2>7. e <= c
    BY <1>3, <2>4, <2>6
  <2> QED
    BY <1>4, <2>1, <2>2, <2>4, <2>7
<1>7. PairFree(FetchedJobs(jobs, from), bays, techs, c, c + d)
  BY <1>5, <1>6 DEF PairFree, FetchedJobs
<1>8. c + d <= SearchEnd(from)
  BY <1>1, <1>2, <1>3, <1>4
<1>9. c \in open
  BY <1>7, <1>8 DEF OpenStarts, ComputeEndTime, d
<1>10. open \in SUBSET Nat
  BY CandidatesType DEF OpenStarts
<1> HIDE DEF open
<1>11. Min(open) \in Nat /\ Min(open) <= c
  BY <1>9, <1>10, MinOfNaturals
<1>12. FindNextAvailable(jobs, bays, techs, service, from) = Min(open)
  BY <1>9 DEF FindNextAvailable, open
<1> QED
  BY <1>3, <1>4, <1>11, <1>12

=============================================================================
