--------------------------------- MODULE Slots ---------------------------------
(***************************************************************************)
(* SlotsService.findNextAvailable: the window offered in a 409 response    *)
(* and by GET /slots/next-available.                                       *)
(*                                                                         *)
(* A job is what the search reads of an appointment: a record with fields  *)
(* bay, tech, start and end.  The search is a function of the jobs of the  *)
(* dealership (cancelled ones already filtered out), of its bays and of    *)
(* its technicians qualified for the service.                              *)
(***************************************************************************)
EXTENDS OperatingHours, FiniteSetsExt

CONSTANTS
    SlotStep,     \* SLOT_STEP_MS: candidate starts lie on this grid
    SearchSpan,   \* MAX_SEARCH_DAYS: how far past the asked instant to look
    NoSlot        \* the null result

ASSUME SlotAssumption ==
    /\ SlotStep \in Nat \ {0}
    /\ SearchSpan \in Nat
    /\ NoSlot \notin Nat

-----------------------------------------------------------------------------

RoundUpToSlot(t) ==
    LET remainder == t % SlotStep IN IF remainder = 0 THEN t ELSE t + SlotStep - remainder

\* Half-open windows [s1, e1) and [s2, e2) share an instant.
Overlaps(s1, e1, s2, e2) == s1 < e2 /\ s2 < e1

SearchEnd(from) == from + SearchSpan

\* Mutant: a job already running at the asked instant is not fetched.
JobsStartingLater(jobs, from) == {j \in jobs : j.start >= from /\ j.start <= SearchEnd(from)}

FetchedJobs(jobs, from) == {j \in jobs : j.end >= from /\ j.start <= SearchEnd(from)}

\* Mutant: the asked instant itself is not tried.
CandidatesAfterJobs(jobs, from) ==
    LET afterJobs == {RoundUpToSlot(j.end) : j \in FetchedJobs(jobs, from)}
    IN  {c \in afterJobs : c >= from /\ c < SearchEnd(from)}

Candidates(jobs, from) ==
    LET afterJobs == {RoundUpToSlot(j.end) : j \in FetchedJobs(jobs, from)}
    IN  {RoundUpToSlot(from)} \union {c \in afterJobs : c >= from /\ c < SearchEnd(from)}

\* Mutant: a job is in the way only if it takes both the bay and the technician.
PairNotTaken(jobs, bays, techs, start, end) ==
    \E b \in bays, t \in techs :
        \A j \in jobs : Overlaps(start, end, j.start, j.end) => j.bay # b \/ j.tech # t

\* Some bay and some technician have no job overlapping [start, end).
PairFree(jobs, bays, techs, start, end) ==
    \E b \in bays, t \in techs :
        \A j \in jobs : Overlaps(start, end, j.start, j.end) => j.bay # b /\ j.tech # t

OpenStarts(jobs, bays, techs, service, from) ==
    {c \in Candidates(jobs, from) :
        LET end == ComputeEndTime(c, service)
        IN  end <= SearchEnd(from) /\ PairFree(FetchedJobs(jobs, from), bays, techs, c, end)}

\* Candidates are tried in increasing order and the first open one is returned.
FindNextAvailable(jobs, bays, techs, service, from) ==
    LET open == OpenStarts(jobs, bays, techs, service, from)
    IN  IF open = {} THEN NoSlot ELSE Min(open)

=============================================================================
