----------------------------- MODULE SerialProofs -----------------------------
(***************************************************************************)
(* Requests handled one at a time never double-book: a snapshot taken by   *)
(* the only request at work cannot be old.  They are decided as by the     *)
(* calendar of Reservations, one step for each request.                    *)
(***************************************************************************)
EXTENDS BookingProofs

\* The tables a search looks at do not change between its snapshot and its lock, for
\* nobody else is at work; so no lock is ever stale.
SerialInv ==
    \A p \in Requests :
        /\ stale[p] = {}
        /\ pc[p] \in {"scanBay", "scanTech"} => seen[p] = Booked
        /\ ~ Quiet(p) => \A q \in Requests \ {p} : Quiet(q)

\* Handling requests one at a time is one of the ways of handling them.
LEMMA SerialIsNext == SerialNext => Next
  BY DEF SerialNext, Next

LEMMA SerialBookingInv == SerialSpec => []BookingInv
<1>1. BookingInv /\ [SerialNext]_vars => BookingInv'
  BY SerialIsNext, TypesKept, ProgressKept, ExclusiveRowsKept, ClaimsEligibleKept, ScanSoundKept, HeldRowsFreeKept,
     KeysConsistentKept, OwnBookingKept, EventsWrittenKept, DuplicateKept, ReferencesKept,
     DoubleBookingKept, KeyBookedOnceKept
     DEF BookingInv
<1> QED BY InitImpliesInv, <1>1, PTL DEF SerialSpec

\* A step of the only request at work leaves it the only one.
LEMMA AloneKept ==
    ASSUME TypeOK, SerialInv, [SerialNext]_vars, NEW p \in Requests, ~ Quiet(p)'
    PROVE  \A q \in Requests \ {p} : Quiet(q)'
<1>1. CASE UNCHANGED vars
  BY <1>1 DEF vars, SerialInv, Quiet
<1>2. ASSUME NEW q \in Requests, \A r \in Requests \ {q} : Quiet(r), Arrive(q) \/ Proceed(q) \/ Fail(q)
      PROVE  \A r \in Requests \ {p} : Quiet(r)'
  <2>1. \A r \in Requests \ {q} : pc'[r] = pc[r]
    BY <1>2 DEF TypeOK, Arrive, ReplaySaved, RejectInvalid, BeginTransaction, Proceed, RecheckHit, RecheckMiss,
       Find, Skip, Lock, Refuse, Insert, InsertDuplicate, InsertDangling, Commit, Respond, ResolveDuplicate, Suggest, Fail, Goto
  <2> QED BY <1>2, <2>1 DEF Quiet
<1>3. CASE (\E a \in Requests : Cancel(a)) \/ ChangeRegistry \/ Tick \/ AllAnswered
  BY <1>3 DEF SerialInv, Quiet, Cancel, ChangeRegistry, Tick, AllAnswered, vars
<1> QED BY <1>1, <1>2, <1>3 DEF SerialNext

\* No request locks a resource after a booking it has not seen.
LEMMA NothingStale ==
    ASSUME BookingInv, SerialInv, [SerialNext]_vars, NEW p \in Requests
    PROVE  stale'[p] = {}
<1> USE DEF BookingInv, TypeOK, SerialInv, statement
<1>1. CASE UNCHANGED vars
  BY <1>1 DEF vars
<1>2. ASSUME NEW q \in Requests, NEW k \in Kinds, Lock(q, k) PROVE stale'[p] = {}
  <2>1. seen[q] = Booked
    BY <1>2 DEF Lock, Kinds, ScanAt
  <2>2. \A r : ~ Unseen(k, r, q)
    BY <2>1 DEF Unseen
  <2>3. stale' = stale
    BY <1>2, <2>2 DEF Lock
  <2> QED BY <2>3
<1>3. ASSUME NEW q \in Requests, Rollback(q) PROVE stale'[p] = {}
  BY <1>3 DEF Rollback
<1>4. ASSUME NEW q \in Requests, Arrive(q) \/ Fail(q) \/ Cancel(q) \/ (\E k \in Kinds : Find(q, k) \/ Skip(q, k) \/ Refuse(q, k))
      PROVE  stale'[p] = {}
  BY <1>3, <1>4 DEF Arrive, ReplaySaved, RejectInvalid, BeginTransaction, Fail, Cancel, Find, Skip, Refuse
<1>5. ASSUME NEW q \in Requests,
             \/ RecheckHit(q) \/ RecheckMiss(q) \/ Insert(q) \/ InsertDuplicate(q) \/ InsertDangling(q) \/ Commit(q)
             \/ Respond(q) \/ ResolveDuplicate(q) \/ Suggest(q)
      PROVE  stale'[p] = {}
  BY <1>3, <1>5 DEF RecheckHit, RecheckMiss, Insert, InsertDuplicate, InsertDangling, Commit, Respond, ResolveDuplicate, Suggest
<1>6. CASE ChangeRegistry \/ Tick \/ AllAnswered
  BY <1>6 DEF ChangeRegistry, Tick, AllAnswered, vars
<1> QED BY <1>1, <1>2, <1>4, <1>5, <1>6 DEF SerialNext, Proceed

\* While a request searches, its snapshot is the present state of the table.
LEMMA SnapshotKept ==
    ASSUME BookingInv, SerialInv, [SerialNext]_vars, NEW p \in Requests, pc'[p] \in {"scanBay", "scanTech"}
    PROVE  seen'[p] = Booked'
<1> USE DEF BookingInv, TypeOK, SerialInv, statement, tables, Booked, Goto
<1>1. CASE UNCHANGED vars
  BY <1>1 DEF vars
<1>2. ASSUME NEW k \in Kinds, Find(p, k) \/ Skip(p, k) PROVE seen'[p] = Booked'
  BY <1>2 DEF Find, Skip, Kinds, ScanAt
<1>3. ASSUME NEW q \in Requests, \A r \in Requests \ {q} : Quiet(r), Arrive(q) \/ Proceed(q) \/ Fail(q)
      PROVE  \E k \in Kinds : Find(p, k) \/ Skip(p, k)
  <2>1. q = p
    <3>1. \A r \in Requests \ {q} : pc'[r] = pc[r]
      BY <1>3 DEF Arrive, ReplaySaved, RejectInvalid, BeginTransaction, Proceed, RecheckHit, RecheckMiss,
         Find, Skip, Lock, Refuse, Insert, InsertDuplicate, InsertDangling, Commit, Respond, ResolveDuplicate, Suggest, Fail
    <3> QED BY <1>3, <3>1 DEF Quiet
  <2>2. ~ Arrive(p) /\ ~ Fail(p)
    BY DEF Arrive, ReplaySaved, RejectInvalid, BeginTransaction, Fail
  <2>3. ~ (\E k \in Kinds : Lock(p, k) \/ Refuse(p, k))
    BY DEF Lock, Refuse, Kinds, AfterLock
  <2>4. ~ RecheckHit(p) /\ ~ RecheckMiss(p) /\ ~ Insert(p) /\ ~ InsertDuplicate(p) /\ ~ InsertDangling(p) /\ ~ Commit(p)
    BY DEF RecheckHit, RecheckMiss, FindAt, Insert, InsertDuplicate, InsertDangling, Commit
  <2>5. ~ Respond(p) /\ ~ ResolveDuplicate(p) /\ ~ Suggest(p)
    BY DEF Respond, ResolveDuplicate, Suggest
  <2> QED BY <1>3, <2>1, <2>2, <2>3, <2>4, <2>5 DEF Proceed
<1>4. CASE ChangeRegistry \/ Tick \/ AllAnswered
  BY <1>4 DEF ChangeRegistry, Tick, AllAnswered, vars
<1>5. ASSUME \A q \in Requests : Quiet(q), \E a \in Requests : Cancel(a)
      PROVE  FALSE
  BY <1>5 DEF Quiet, Cancel
<1> QED BY <1>1, <1>2, <1>3, <1>4, <1>5 DEF SerialNext

-----------------------------------------------------------------------------

LEMMA SerialInvariance == SerialSpec => []SerialInv
<1>1. Init => SerialInv
  BY DEF Init, SerialInv, Quiet
<1>2. BookingInv /\ SerialInv /\ [SerialNext]_vars => SerialInv'
  <2> SUFFICES ASSUME BookingInv, SerialInv, [SerialNext]_vars PROVE SerialInv'
    OBVIOUS
  <2>1. TypeOK
    BY DEF BookingInv
  <2> QED BY <2>1, AloneKept, NothingStale, SnapshotKept DEF SerialInv
<1> QED BY SerialBookingInv, <1>1, <1>2, PTL DEF SerialSpec

\* Handled one at a time, create() gives no bay and no technician two live
\* appointments at overlapping times.
THEOREM SerialBookingsAreExclusive == SerialSpec => []NoDoubleBooking
<1>1. BookingInv /\ SerialInv => NoDoubleBooking
  <2> SUFFICES ASSUME BookingInv, SerialInv,
                      NEW a \in Active, NEW b \in Active, NEW k \in Kinds,
                      a # b, SameWindow(a, b), claim[a][k] = claim[b][k]
               PROVE  FALSE
    BY DEF NoDoubleBooking
  <2>1. k \in stale[a] \union stale[b]
    BY DEF BookingInv, DoubleBookingNeedsStaleRead
  <2>2. stale[a] = {} /\ stale[b] = {}
    BY DEF SerialInv, Active
  <2> QED BY <2>1, <2>2
<1> QED BY SerialBookingInv, SerialInvariance, <1>1, PTL

-----------------------------------------------------------------------------
(* Requests handled one at a time are decided as by Reservations. *)

Searching == {"findBay", "scanBay", "findTech", "scanTech", "insert", "commit"}

\* What a request has found out since it arrived is still so: the rows it tries are
\* those free now, and nothing has been saved for its key.
NothingChanges ==
    \A p \in Requests :
        /\ pc[p] = "idle" => dto[p] = NoInput
        /\ \A k \in Kinds : pc[p] = ScanAt[k] => cand[p] = FreeRows(k, p)
        /\ pc[p] \in Searching => ~ Saved(KeyOf(p))

\* While a request is at work, every step is its own, the clock's or none.
LEMMA OwnStep ==
    ASSUME SerialInv, [SerialNext]_vars, NEW p \in Requests, ~ Quiet(p)
    PROVE  Proceed(p) \/ Fail(p) \/ Tick \/ UNCHANGED vars
<1>1. ~ Arrive(p)
  BY DEF Quiet, Arrive, ReplaySaved, RejectInvalid, BeginTransaction
<1> QED
  BY <1>1 DEF SerialNext, AllAnswered

LEMMA NeverIdleAgain ==
    ASSUME TypeOK, [Next]_vars, NEW p \in Requests, pc'[p] = "idle"
    PROVE  pc[p] = "idle" /\ ~ Arrive(p)
<1> USE DEF TypeOK, Goto
<1>1. ASSUME NEW q \in Requests, Arrive(q)
      PROVE  pc[p] = "idle" /\ p # q
  BY <1>1 DEF Arrive, ReplaySaved, RejectInvalid, BeginTransaction
<1>2. ASSUME NEW q \in Requests, NEW k \in Kinds, Find(q, k) \/ Skip(q, k) \/ Lock(q, k) \/ Refuse(q, k)
      PROVE  pc[p] = "idle"
  BY <1>2 DEF Find, Skip, Lock, Refuse, Kinds, ScanAt, AfterLock
<1>3. ASSUME NEW q \in Requests,
             \/ RecheckHit(q) \/ RecheckMiss(q) \/ Insert(q) \/ InsertDuplicate(q) \/ InsertDangling(q)
             \/ Commit(q) \/ Cancel(q)
      PROVE  pc[p] = "idle"
  BY <1>3 DEF RecheckHit, RecheckMiss, FindAt, Insert, InsertDuplicate, InsertDangling, Commit, Cancel
<1>4. ASSUME NEW q \in Requests, Respond(q) \/ ResolveDuplicate(q) \/ Suggest(q) \/ Fail(q)
      PROVE  pc[p] = "idle"
  BY <1>4 DEF Respond, ResolveDuplicate, Suggest, Fail
<1>5. ASSUME Tick \/ ChangeRegistry \/ UNCHANGED vars
      PROVE  pc[p] = "idle"
  BY <1>5 DEF Tick, ChangeRegistry, vars
<1>6. ~ Arrive(p)
  BY <1>1
<1> QED
  BY <1>1, <1>2, <1>3, <1>4, <1>5, <1>6 DEF Next, Proceed, AllAnswered

\* The rows a request has to try are all it may lock: none is skipped, none is added.
LEMMA CandidatesKept ==
    ASSUME BookingInv, SerialInv, NothingChanges, [SerialNext]_vars,
           NEW p \in Requests, NEW k \in Kinds, pc'[p] = ScanAt[k]
    PROVE  cand'[p] = FreeRows(k, p)'
<1> USE DEF BookingInv
<1>1. (\E j \in Kinds : Find(p, j) \/ Skip(p, j)) \/ Tick \/ UNCHANGED vars
  <2>1. CASE ~ Quiet(p)
    <3>1. ~ Fail(p) /\ ~ (\E j \in Kinds : Lock(p, j) \/ Refuse(p, j))
      BY DEF TypeOK, Fail, Lock, Refuse, Kinds, ScanAt, AfterLock, Goto
    <3>2. ~ RecheckHit(p) /\ ~ RecheckMiss(p) /\ ~ Insert(p) /\ ~ InsertDuplicate(p) /\ ~ InsertDangling(p)
      BY DEF TypeOK, RecheckHit, RecheckMiss, FindAt, Insert, InsertDuplicate, InsertDangling, Goto, Kinds, ScanAt
    <3>3. ~ Commit(p) /\ ~ Respond(p) /\ ~ ResolveDuplicate(p) /\ ~ Suggest(p)
      BY DEF TypeOK, Commit, Respond, ResolveDuplicate, Suggest, Goto, Kinds, ScanAt
    <3> QED
      BY <2>1, <3>1, <3>2, <3>3, OwnStep DEF Proceed
  <2>2. CASE Quiet(p)
    <3>1. (\E j \in Kinds : Find(p, j)) \/ pc[p] = ScanAt[k]
      BY SerialIsNext, ScanStep DEF vars
    <3> QED
      BY <2>2, <3>1 DEF Quiet, Kinds, ScanAt
  <2> QED
    BY <2>1, <2>2
<1>2. ASSUME UNCHANGED <<dto, claim, status, registry>>
      PROVE  FreeRows(k, p)' = FreeRows(k, p)
  BY <1>2 DEF FreeRows, Eligible, Registered, Active, SameWindow, EndOf
<1>3. ASSUME NEW j \in Kinds, Find(p, j)
      PROVE  cand'[p] = FreeRows(k, p)'
  <2>1. j = k
    BY <1>3 DEF TypeOK, Find, Goto, Kinds, ScanAt
  <2>2. cand'[p] = FreeRows(k, p) /\ UNCHANGED <<dto, claim, status, registry>>
    BY <1>3, <2>1 DEF TypeOK, Find, tables
  <2> QED
    BY <1>2, <2>2
<1>4. ASSUME NEW j \in Kinds, Skip(p, j)
      PROVE  FALSE
  <2>1. PICK r \in cand[p] : ~ Lockable(j, r, p)
    BY <1>4 DEF Skip
  <2>2. r \in Registered
    BY <1>4, <2>1 DEF Skip, NothingChanges, FreeRows
  <2>3. LockedByOther(j, r, p)
    BY <2>1, <2>2 DEF Lockable
  <2>4. \A q \in Requests \ {p} : Quiet(q)
    BY <1>4 DEF SerialInv, Quiet, Skip, Kinds, ScanAt
  <2> QED
    BY <2>3, <2>4 DEF LockedByOther, InTransaction, TransactionSteps, Quiet
<1>5. CASE Tick \/ UNCHANGED vars
  <2>1. UNCHANGED <<pc, cand, dto, claim, status, registry>>
    BY <1>5 DEF Tick, vars, statement, tables
  <2> QED
    BY <1>2, <2>1 DEF NothingChanges
<1> QED
  BY <1>1, <1>3, <1>4, <1>5

\* No key is saved for a request that is searching: only itself could commit it.
LEMMA KeyStaysFree ==
    ASSUME BookingInv, SerialInv, NothingChanges, [SerialNext]_vars,
           NEW p \in Requests, pc'[p] \in Searching
    PROVE  ~ Saved(KeyOf(p))'
<1> USE DEF BookingInv
<1>1. ~ Quiet(p)
  <2>1. ASSUME Quiet(p)
        PROVE  FALSE
    <3>1. ASSUME NEW q \in Requests, Arrive(q)
          PROVE  FALSE
      BY <2>1, <3>1, ArrivalStep DEF Quiet, Searching
    <3>2. ASSUME NEW q \in Requests, Proceed(q) \/ Fail(q)
          PROVE  q # p
      BY <2>1, <3>2 DEF Quiet, Proceed, RecheckHit, RecheckMiss, Find, Skip, Lock, Refuse, Kinds, FindAt, ScanAt,
         Insert, InsertDuplicate, InsertDangling, Commit, Respond, ResolveDuplicate, Suggest, Fail
    <3>3. ASSUME NEW q \in Requests, Proceed(q) \/ Fail(q), q # p
          PROVE  pc'[p] = pc[p]
      BY <3>3 DEF TypeOK, Goto, Proceed, RecheckHit, RecheckMiss, Find, Skip, Lock, Refuse,
         Insert, InsertDuplicate, InsertDangling, Commit, Respond, ResolveDuplicate, Suggest, Fail
    <3>4. ASSUME (\E a \in Requests : Cancel(a)) \/ ChangeRegistry \/ Tick \/ UNCHANGED vars
          PROVE  pc'[p] = pc[p]
      BY <3>4 DEF Cancel, ChangeRegistry, Tick, vars
    <3> QED
      BY <2>1, <3>1, <3>2, <3>3, <3>4 DEF SerialNext, AllAnswered, Quiet, Searching
  <2> QED
    BY <2>1
<1>2. ~ Commit(p)
  BY CommitStep DEF Searching
<1>3. dto'[p] = dto[p]
  <2>1. ~ Arrive(p)
    BY <1>1, ArrivalStep DEF Quiet
  <2> QED
    BY <2>1, SerialIsNext, HoldingsStep, LockStep DEF Keeps, Drops
<1>4. UNCHANGED <<idempotency, status>> \/ KeyOf(p) \notin Keys \/ idempotency'[KeyOf(p)] = idempotency[KeyOf(p)]
  <2>1. ASSUME KeyOf(p) \in Keys, idempotency'[KeyOf(p)] # idempotency[KeyOf(p)]
        PROVE  FALSE
    <3>1. PICK q \in Requests : Commit(q)
      BY <2>1, SerialIsNext, RecordStep
    <3>2. ~ Quiet(q) /\ q # p
      BY <1>2, <3>1, CommitStep DEF Quiet
    <3> QED
      BY <1>1, <3>2 DEF SerialInv
  <2> QED
    BY <2>1
<1>5. ~ Saved(KeyOf(p))
  <2>1. CASE pc[p] \in Searching
    BY <2>1 DEF NothingChanges
  <2>2. CASE pc[p] \notin Searching
    <3>1. ~ (\E k \in Kinds : Find(p, k) \/ Skip(p, k) \/ Lock(p, k) \/ Refuse(p, k))
      BY <2>2 DEF Find, Skip, Lock, Refuse, Kinds, FindAt, ScanAt, Searching
    <3>2. ~ Insert(p) /\ ~ InsertDuplicate(p) /\ ~ InsertDangling(p) /\ ~ Commit(p)
      BY <2>2 DEF Insert, InsertDuplicate, InsertDangling, Commit, Searching
    <3>3. ~ RecheckHit(p) /\ ~ Respond(p) /\ ~ ResolveDuplicate(p) /\ ~ Suggest(p) /\ ~ Fail(p)
      BY DEF TypeOK, Goto, RecheckHit, Respond, ResolveDuplicate, Suggest, Fail, Searching
    <3>4. ~ (Tick \/ UNCHANGED vars)
      BY <2>2 DEF Tick, vars
    <3> QED
      BY <1>1, <3>1, <3>2, <3>3, <3>4, OwnStep DEF Proceed, RecheckMiss
  <2> QED
    BY <2>1, <2>2
<1> QED
  BY <1>3, <1>4, <1>5 DEF Saved, KeyOf

LEMMA NothingChangesKept ==
    BookingInv /\ SerialInv /\ NothingChanges /\ [SerialNext]_vars => NothingChanges'
<1> SUFFICES ASSUME BookingInv, SerialInv, NothingChanges, [SerialNext]_vars, NEW p \in Requests
             PROVE  /\ pc'[p] = "idle" => dto'[p] = NoInput'
                    /\ \A k \in Kinds : pc'[p] = ScanAt[k] => cand'[p] = FreeRows(k, p)'
                    /\ pc'[p] \in Searching => ~ Saved(KeyOf(p))'
  BY DEF NothingChanges
<1>1. ASSUME pc'[p] = "idle"
      PROVE  dto'[p] = NoInput
  <2>1. pc[p] = "idle" /\ ~ Arrive(p)
    BY <1>1, SerialIsNext, NeverIdleAgain DEF BookingInv
  <2> QED
    BY <2>1, SerialIsNext, HoldingsStep, LockStep DEF Keeps, Drops, NothingChanges
<1> QED
  BY <1>1, CandidatesKept, KeyStaysFree DEF NoInput

\* The calendar has the same free resources as the tables.
LEMMA SameEnd ==
    ASSUME NEW start, NEW service
    PROVE  Atomic!ComputeEndTime(start, service) = ComputeEndTime(start, service)
  BY DEF Atomic!ComputeEndTime, Atomic!Duration, ComputeEndTime, Duration

LEMMA SameFree ==
    ASSUME NEW p \in Requests, NEW k \in Kinds
    PROVE  Atomic!Free(k, dto[p]) = FreeRows(k, p)
<1>1. Atomic!Suitable(k, dto[p]) = Eligible(k, dto[p])
  BY DEF Atomic!Suitable, Atomic!Resources, Eligible, Pool
<1>2. ASSUME NEW a \in Active
      PROVE  /\ Reservation(a).uses[k] = claim[a][k]
             /\ Atomic!Meet(Reservation(a).input, dto[p]) <=> SameWindow(a, p)
  BY SameEnd DEF Reservation, Atomic!Meet, SameWindow, Overlaps, EndOf
<1>3. ASSUME NEW r
      PROVE  (\E e \in {Reservation(a) : a \in Active} : e.uses[k] = r /\ Atomic!Meet(e.input, dto[p]))
                <=> (\E a \in Active : claim[a][k] = r /\ SameWindow(a, p))
  BY <1>2
<1> QED
  BY <1>1, <1>3 DEF Atomic!Free, FreeRows

Calendar == {Reservation(a) : a \in Active}
Verdicts == [p \in Requests |-> Verdict(p)]

\* A step that changes neither tables nor answers leaves the calendar alone.
LEMMA CalendarStep ==
    ASSUME BookingInv, [Next]_vars, UNCHANGED status
    PROVE  Calendar' = Calendar
<1>1. ASSUME NEW a \in Active
      PROVE  Reservation(a)' = Reservation(a)
  BY TableStep DEF Active, Booked, Keeps, Reservation
<1>2. Active' = Active
  BY DEF Active
<1> QED
  BY <1>1, <1>2 DEF Calendar

LEMMA InsideStep ==
    ASSUME BookingInv, [Next]_vars, UNCHANGED <<dto, status, idempotency, registry>>,
           \A q \in Requests : Verdict(q)' = Verdict(q)
    PROVE  UNCHANGED Atomic!vars
<1>1. Calendar' = Calendar
  BY CalendarStep
<1>2. Verdicts' = Verdicts
  BY DEF Verdicts
<1>3. Registered' = Registered
  BY DEF Registered, Entities
<1> QED
  BY <1>1, <1>2, <1>3 DEF Atomic!vars, Calendar, Verdicts

\* A request that gets its answer was undecided, and nobody else's answer changes.
LEMMA DecideStep ==
    ASSUME BookingInv, NEW p \in Requests, NEW code, NEW a,
           pc[p] \notin {"respond", "done", "suggest"}, Verdict(p)' = [status |-> code, appointment |-> a],
           \A q \in Requests \ {p} : pc'[q] = pc[q] /\ resp'[q] = resp[q]
    PROVE  Atomic!Decide(p, Atomic!Told(code, a))
<1>1. Verdict(p) = [status |-> 0, appointment |-> Nobody]
  BY DEF BookingInv, Progress, Verdict, NoAnswer
<1>2. \A q \in Requests \ {p} : Verdict(q)' = Verdict(q)
  BY DEF Verdict
<1>3. Verdicts' = [Verdicts EXCEPT ![p] = [status |-> code, appointment |-> a]]
  BY <1>2 DEF Verdicts
<1> QED
  BY <1>1, <1>3 DEF Atomic!Decide, Atomic!Told, Atomic!Undecided, Verdicts

\* What is asked is asked once, on arrival.
LEMMA AskAgain ==
    ASSUME BookingInv, NEW p \in Requests, pc[p] # "idle", UNCHANGED dto
    PROVE  dto[p] \in Inputs /\ Atomic!Ask(p, dto[p])
<1>1. dto' = [dto EXCEPT ![p] = dto[p]]
  BY DEF BookingInv, TypeOK
<1> QED
  BY <1>1 DEF BookingInv, Progress, Atomic!Ask

LEMMA ArrivalsMap ==
    ASSUME BookingInv, NothingChanges, [Next]_vars, NEW p \in Requests, NEW d \in Inputs,
           ReplaySaved(p, d) \/ RejectInvalid(p, d) \/ BeginTransaction(p, d)
    PROVE  Atomic!Next
<1> USE DEF BookingInv, TypeOK, tables, Reply, Goto
<1>1. /\ pc[p] = "idle" /\ dto' = [dto EXCEPT ![p] = d] /\ UNCHANGED <<status, idempotency, registry>>
      /\ \A q \in Requests \ {p} : pc'[q] = pc[q] /\ resp'[q] = resp[q]
  BY DEF ReplaySaved, RejectInvalid, BeginTransaction
<1>2. Atomic!Ask(p, d)
  BY <1>1 DEF NothingChanges, Atomic!Ask
<1>3. Calendar' = Calendar /\ Registered' = Registered
  BY <1>1, CalendarStep DEF Registered, Entities
<1>4. CASE ReplaySaved(p, d)
  <2>1. Verdict(p)' = [status |-> 201, appointment |-> idempotency[d.key]]
    BY <1>4 DEF ReplaySaved, Answer, Verdict
  <2>2. Atomic!Decide(p, Atomic!Told(201, idempotency[d.key]))
    BY <1>1, <2>1, DecideStep
  <2>3. Atomic!Known(d)
    BY <1>4 DEF ReplaySaved, Saved, Atomic!Known
  <2>4. Atomic!Replay(p, d)
    BY <1>1, <1>2, <1>3, <2>2, <2>3 DEF Atomic!Replay, Calendar
  <2> QED
    BY <2>4 DEF Atomic!Next
<1>5. CASE RejectInvalid(p, d)
  <2>1. Verdict(p)' = [status |-> 400, appointment |-> Nobody]
    BY <1>5 DEF RejectInvalid, Answer, Verdict
  <2>2. Atomic!Decide(p, Atomic!Told(400, Nobody))
    BY <1>1, <2>1, DecideStep
  <2>3. ~ Atomic!Known(d)
    BY <1>5 DEF RejectInvalid, Saved, Atomic!Known
  <2>4. Atomic!Reject(p, d)
    BY <1>1, <1>2, <1>3, <2>2, <2>3 DEF Atomic!Reject, Calendar
  <2> QED
    BY <2>4 DEF Atomic!Next
<1>6. CASE BeginTransaction(p, d)
  <2>1. \A q \in Requests : Verdict(q)' = Verdict(q)
    BY <1>1, <1>6 DEF BeginTransaction, Verdict
  <2>2. Atomic!Receive(p, d)
    BY <1>1, <1>2, <1>3, <2>1 DEF Atomic!Receive, Calendar
  <2> QED
    BY <2>2 DEF Atomic!Next
<1> QED
  BY <1>4, <1>5, <1>6

\* A saved response is returned.
LEMMA ReplaysMap ==
    ASSUME BookingInv, [Next]_vars, NEW p \in Requests, pc[p] \in {"recheck", "duplicate"}, Saved(KeyOf(p)),
           Reply(p, Answer(201, idempotency[KeyOf(p)], NoSlot)), UNCHANGED <<dto, tables, registry>>,
           Goto(p, "respond") \/ Goto(p, "done")
    PROVE  Atomic!Replay(p, dto[p])
<1> USE DEF BookingInv, TypeOK, tables, Reply, Goto
<1>1. dto[p] \in Inputs /\ Atomic!Ask(p, dto[p])
  BY AskAgain
<1>2. Calendar' = Calendar /\ Registered' = Registered
  BY CalendarStep DEF Registered, Entities
<1>3. Verdict(p)' = [status |-> 201, appointment |-> idempotency[KeyOf(p)]]
  BY DEF Answer, Verdict
<1>4. Atomic!Decide(p, Atomic!Told(201, idempotency[KeyOf(p)]))
  BY <1>3, DecideStep
<1>5. Atomic!Known(dto[p])
  BY DEF Saved, KeyOf, Atomic!Known
<1> QED
  BY <1>1, <1>2, <1>4, <1>5 DEF Atomic!Replay, Calendar, KeyOf

\* A request is refused when one kind of resource has nothing free.
LEMMA RefusalsMap ==
    ASSUME BookingInv, NothingChanges, [Next]_vars, NEW p \in Requests, NEW k \in Kinds, Refuse(p, k)
    PROVE  Atomic!Refuse(p, dto[p])
<1> USE DEF BookingInv, TypeOK, tables, Goto
<1>1. /\ pc[p] \in Searching /\ pc[p] = ScanAt[k] /\ pc'[p] = "suggest" /\ cand[p] = {}
      /\ UNCHANGED <<dto, status, idempotency, registry, resp>>
      /\ \A q \in Requests \ {p} : pc'[q] = pc[q]
  BY DEF Refuse, Kinds, ScanAt, Searching
<1>2. dto[p] \in Inputs /\ Atomic!Ask(p, dto[p])
  BY <1>1, AskAgain DEF Searching
<1>3. Calendar' = Calendar /\ Registered' = Registered
  BY <1>1, CalendarStep DEF Registered, Entities
<1>4. Atomic!Free(k, dto[p]) = {}
  BY <1>1, SameFree DEF NothingChanges
<1>5. Atomic!Bookable(dto[p])
  BY <1>1 DEF NothingChanges, Searching, Progress, Saved, KeyOf, Atomic!Bookable, Atomic!Known
<1>6. Verdict(p)' = [status |-> 409, appointment |-> Nobody]
  BY <1>1 DEF Progress, Searching, NoAnswer, Verdict
<1>7. Atomic!Decide(p, Atomic!Told(409, Nobody))
  BY <1>1, <1>6, DecideStep DEF Searching
<1> QED
  BY <1>1, <1>2, <1>3, <1>4, <1>5, <1>7 DEF Atomic!Refuse, Calendar, Kinds, Atomic!Kinds

\* What a request commits is free at that moment.
LEMMA CommitsMap ==
    ASSUME BookingInv, SerialInv, NothingChanges, [Next]_vars, NEW p \in Requests, Commit(p)
    PROVE  Atomic!Reserve(p, dto[p])
<1> USE DEF BookingInv
<1>1. /\ pc[p] = "commit" /\ pc'[p] = "respond" /\ p \notin Booked /\ p \in Requests
      /\ \A q \in Requests \ {p} : pc'[q] = pc[q] /\ resp'[q] = resp[q]
      /\ UNCHANGED <<dto, claim, registry>>
  BY CommitStep DEF statement, Commit
<1>2. dto[p] \in Inputs /\ Atomic!Ask(p, dto[p])
  BY <1>1, AskAgain
<1>3. Atomic!Bookable(dto[p]) /\ dto[p].customer \in Registered
  BY <1>1 DEF NothingChanges, Searching, Progress, Saved, KeyOf, ReferencesExist, Atomic!Bookable, Atomic!Known
<1>4. claim[p] \in [Atomic!Kinds -> Bays \union Technicians]
  <2>1. \A k \in Kinds : claim[p][k] \in Bays \union Technicians
    BY CommitStep DEF TypeOK
  <2> QED
    BY <2>1 DEF TypeOK, Kinds, Atomic!Kinds
<1>5. ASSUME NEW k \in Atomic!Kinds
      PROVE  claim[p][k] \in Atomic!Free(k, dto[p])
  <2>1. k \in Kinds /\ claim[p][k] # Nobody /\ InTransaction(p)
    BY <1>1, <1>5, CommitStep DEF Kinds, Atomic!Kinds, InTransaction, TransactionSteps
  <2>2. claim[p][k] \in Eligible(k, dto[p]) \intersect Registered
    BY <2>1 DEF ClaimsEligible, ReferencesExist
  <2>3. \A a \in Active : ~ (claim[a][k] = claim[p][k] /\ SameWindow(a, p))
    BY <2>1 DEF HeldRowsFree, SerialInv
  <2> QED
    BY <2>1, <2>2, <2>3, SameFree DEF FreeRows
<1>6. Calendar' = Calendar \union {[request |-> p, uses |-> claim[p], input |-> dto[p]]}
  <2>1. Active' = Active \union {p}
    BY DEF TypeOK, Commit, Active
  <2>2. \A a : Reservation(a)' = Reservation(a)
    BY <1>1 DEF Reservation
  <2> QED
    BY <2>1, <2>2 DEF Calendar, Reservation
<1>7. idempotency' = IF dto[p].key \in Keys THEN [idempotency EXCEPT ![dto[p].key] = p] ELSE idempotency
  BY DEF Commit, HasKey, KeyOf
<1>8. Verdict(p)' = [status |-> 201, appointment |-> p]
  BY <1>1 DEF TypeOK, Commit, Reply, Answer, Verdict
<1>9. Atomic!Decide(p, Atomic!Told(201, p))
  BY <1>1, <1>8, DecideStep
<1>10. Registered' = Registered
  BY <1>1 DEF Registered, Entities
<1> QED
  BY <1>2, <1>3, <1>4, <1>5, <1>6, <1>7, <1>9, <1>10 DEF Atomic!Reserve, Calendar

\* A request that fails is told so; what it has booked stays.
LEMMA LossesMap ==
    ASSUME BookingInv, [Next]_vars, NEW p \in Requests, Reply(p, Answer(500, Nobody, NoSlot)), Goto(p, "done"),
           UNCHANGED <<dto, status, idempotency, registry>>
    PROVE  Atomic!Lose(p)
<1> USE DEF BookingInv, TypeOK, Reply, Goto
<1>1. Calendar' = Calendar /\ Registered' = Registered
  BY CalendarStep DEF Registered, Entities
<1>2. Verdict(p)' = [status |-> 500, appointment |-> Nobody]
  BY DEF Answer, Verdict
<1>3. \A q \in Requests \ {p} : Verdict(q)' = Verdict(q)
  BY DEF Verdict
<1>4. Verdicts' = [Verdicts EXCEPT ![p] = Atomic!Told(500, Nobody)]
  BY <1>2, <1>3 DEF Verdicts, Atomic!Told
<1> QED
  BY <1>1, <1>4 DEF Atomic!Lose, Calendar, Verdicts

LEMMA CancellationsMap ==
    ASSUME BookingInv, NEW a \in Requests, Cancel(a)
    PROVE  Atomic!Cancel
<1> USE DEF BookingInv, TypeOK
<1>1. a \in Active /\ Active' = Active \ {a} /\ UNCHANGED <<pc, dto, claim, idempotency, resp, registry>>
  BY DEF Cancel, Active, statement
<1>2. \A b : Reservation(b)' = Reservation(b)
  BY <1>1 DEF Reservation
<1>3. \A b \in Active \ {a} : Reservation(b) # Reservation(a)
  BY DEF Reservation
<1>4. Calendar' = Calendar \ {Reservation(a)} /\ Reservation(a) \in Calendar
  BY <1>1, <1>2, <1>3 DEF Calendar
<1>5. Registered' = Registered /\ Verdicts' = Verdicts
  BY <1>1 DEF Registered, Entities, Verdicts, Verdict
<1> QED
  BY <1>1, <1>4, <1>5 DEF Atomic!Cancel, Calendar, Verdicts

LEMMA DeletionsMap ==
    ASSUME BookingInv, [Next]_vars, ChangeRegistry
    PROVE  Atomic!ChangePresent
<1>1. UNCHANGED <<pc, dto, claim, status, idempotency, resp>>
  BY DEF ChangeRegistry, statement, tables
<1>2. Calendar' = Calendar /\ Verdicts' = Verdicts
  BY <1>1, CalendarStep DEF Verdicts, Verdict
<1>3. ASSUME NEW a \in Active
      PROVE  dto[a].customer \in Registered' /\ \A k \in Kinds : claim[a][k] \in Registered'
  <2>1. a \in Booked /\ a \in Requests /\ a \in Booked'
    BY <1>1 DEF Active, Booked
  <2>2. \A k \in Kinds : claim[a][k] # Nobody
    BY <2>1 DEF BookingInv, TypeOK, HoldingsFollowSteps, Kinds
  <2> QED
    BY <1>1, <2>1, <2>2, ReferencesKept DEF ReferencesExist
<1>4. \A e \in Calendar : e.input.customer \in Registered' /\ \A k \in Kinds : e.uses[k] \in Registered'
  BY <1>3 DEF Calendar, Reservation
<1> QED
  BY <1>1, <1>2, <1>4 DEF Atomic!ChangePresent, Calendar, Verdicts, Kinds, Atomic!Kinds

\* Every step of the requests handled one at a time is a step of Reservations or none.
LEMMA StepsMap ==
    ASSUME BookingInv, SerialInv, NothingChanges, [SerialNext]_vars
    PROVE  Atomic!Next \/ UNCHANGED Atomic!vars
<1> USE DEF BookingInv, TypeOK, tables, Goto, Reply
<1>1. ASSUME NEW p \in Requests, Arrive(p)
      PROVE  Atomic!Next
  BY <1>1, SerialIsNext, ArrivalsMap DEF Arrive
<1>2. ASSUME NEW p \in Requests, RecheckHit(p) \/ (ResolveDuplicate(p) /\ Saved(KeyOf(p)))
      PROVE  Atomic!Next
  <2>1. Atomic!Replay(p, dto[p])
    BY <1>2, SerialIsNext, ReplaysMap DEF RecheckHit, ResolveDuplicate
  <2>2. dto[p] \in Inputs
    BY <1>2 DEF RecheckHit, ResolveDuplicate, Progress
  <2> QED
    BY <2>1, <2>2 DEF Atomic!Next
<1>3. ASSUME NEW p \in Requests, NEW k \in Kinds, Refuse(p, k)
      PROVE  Atomic!Next
  <2>1. Atomic!Refuse(p, dto[p])
    BY <1>3, SerialIsNext, RefusalsMap
  <2>2. dto[p] \in Inputs
    BY <1>3 DEF Refuse, Progress, Kinds, ScanAt
  <2> QED
    BY <2>1, <2>2 DEF Atomic!Next
<1>4. ASSUME NEW p \in Requests, Commit(p)
      PROVE  Atomic!Next
  BY <1>4, SerialIsNext, CommitsMap DEF Commit, Progress, Atomic!Next
<1>5. ASSUME NEW p \in Requests, Fail(p) \/ InsertDangling(p) \/ (ResolveDuplicate(p) /\ ~ Saved(KeyOf(p)))
      PROVE  Atomic!Next
  BY <1>5, SerialIsNext, LossesMap DEF Fail, InsertDangling, ResolveDuplicate, Atomic!Next
<1>6. ASSUME NEW p \in Requests, NEW k \in Kinds, Find(p, k) \/ Skip(p, k) \/ Lock(p, k)
      PROVE  UNCHANGED Atomic!vars
  <2>1. UNCHANGED <<dto, status, idempotency, registry>>
    BY <1>6 DEF Find, Skip, Lock
  <2>2. \A q \in Requests : Verdict(q)' = Verdict(q)
    BY <1>6 DEF Find, Skip, Lock, Verdict, Kinds, FindAt, ScanAt, AfterLock
  <2> QED
    BY <2>1, <2>2, SerialIsNext, InsideStep
<1>7. ASSUME NEW p \in Requests, RecheckMiss(p) \/ Insert(p) \/ InsertDuplicate(p)
      PROVE  UNCHANGED Atomic!vars
  <2>1. UNCHANGED <<dto, status, idempotency, registry>>
    BY <1>7 DEF RecheckMiss, Insert, InsertDuplicate
  <2>2. \A q \in Requests : Verdict(q)' = Verdict(q)
    BY <1>7 DEF RecheckMiss, Insert, InsertDuplicate, Verdict, FindAt
  <2> QED
    BY <2>1, <2>2, SerialIsNext, InsideStep
<1>8. ASSUME NEW p \in Requests, Respond(p) \/ Suggest(p)
      PROVE  UNCHANGED Atomic!vars
  <2>1. UNCHANGED <<dto, status, idempotency, registry>>
    BY <1>8 DEF Respond, Suggest
  <2>2. \A q \in Requests : Verdict(q)' = Verdict(q)
    BY <1>8 DEF Respond, Suggest, Verdict, Answer, Progress, NoAnswer
  <2> QED
    BY <2>1, <2>2, SerialIsNext, InsideStep
<1>9. ASSUME Tick \/ UNCHANGED vars
      PROVE  UNCHANGED Atomic!vars
  <2>1. UNCHANGED <<pc, dto, status, idempotency, resp, registry>>
    BY <1>9 DEF Tick, vars
  <2>2. \A q \in Requests : Verdict(q)' = Verdict(q)
    BY <2>1 DEF Verdict
  <2> QED
    BY <2>1, <2>2, SerialIsNext, InsideStep
<1>10. ASSUME NEW a \in Requests, Cancel(a)
       PROVE  Atomic!Next
  BY <1>10, CancellationsMap DEF Atomic!Next
<1>11. ASSUME ChangeRegistry
       PROVE  Atomic!Next
  BY <1>11, SerialIsNext, DeletionsMap DEF Atomic!Next
<1> QED
  BY <1>1, <1>2, <1>3, <1>4, <1>5, <1>6, <1>7, <1>8, <1>9, <1>10, <1>11 DEF SerialNext, Proceed, AllAnswered

\* Handled one at a time, create() behaves as the one-step calendar of Reservations,
\* through failures, cancellations, retries and deletions.
THEOREM SerialBookingIsAtomic == SerialSpec => AsIfAtomic
<1>1. Init => Atomic!Init
  <2> SUFFICES ASSUME Init
               PROVE  Atomic!Init
    OBVIOUS
  <2>1. Calendar = {}
    BY DEF Init, Calendar, Active
  <2>2. \A p \in Requests : Verdict(p) = Atomic!Undecided
    BY DEF Init, Verdict, NoAnswer, Atomic!Undecided, Atomic!Told
  <2> QED
    BY <2>1, <2>2 DEF Init, Calendar, Atomic!Init
<1>2. Init => NothingChanges
  BY DEF Init, NothingChanges, Searching, ScanAt, Kinds
<1>3. BookingInv /\ SerialInv /\ NothingChanges /\ [SerialNext]_vars => [Atomic!Next]_Atomic!vars
  BY StepsMap
<1> QED
  BY SerialBookingInv, SerialInvariance, NothingChangesKept, <1>1, <1>2, <1>3, PTL
     DEF SerialSpec, AsIfAtomic, Atomic!Spec

-----------------------------------------------------------------------------
(* The slot in a refusal. *)

\* Between a refusal and its answer the refused request still has no free resource of
\* some kind and no saved response, and no answer contradicts itself.
RefusalsStand ==
    /\ \A p \in Requests : pc[p] = "suggest" => \E k \in Kinds : FreeRows(k, p) = {}
    /\ RefusedSlotNotOffered
    /\ RetryNeverRefused

\* What is offered at the asked start would be free there: findNextAvailable and the two
\* searches agree on a table that does not change.
LEMMA OfferedStartIsFree ==
    ASSUME BookingInv, NEW p \in Requests, pc[p] = "suggest", SuggestedSlot(dto[p]) = dto[p].start
    PROVE  \A k \in Kinds : FreeRows(k, p) # {}
<1> USE DEF BookingInv
<1> DEFINE d == dto[p]
           J == DealershipJobs(d.dealership)
           B == Eligible("bay", d) \intersect Registered
           T == Eligible("tech", d) \intersect Registered
<1>1. d.start \in Nat /\ d.service \in DOMAIN ServiceCatalog /\ d.start # NoSlot
  BY BookingAssumption, SlotAssumption DEF Progress
<1>2. ASSUME NEW a \in Active
      PROVE  a \in Booked /\ dto[a].start \in Nat /\ EndOf(a) \in Nat
  <2>1. a \in Booked /\ dto[a] \in Inputs /\ dto[a].service \in DOMAIN ServiceCatalog
    BY DEF Active, Booked, Progress
  <2>2. dto[a].start \in Nat
    BY <2>1, BookingAssumption
  <2> QED
    BY <2>1, <2>2, DurationType DEF EndOf, ComputeEndTime
<1>3. \A j \in J : j.start \in Nat /\ j.end \in Nat
  BY <1>2 DEF DealershipJobs
<1>4. PairFree(J, B, T, d.start, EndOf(p))
  <2>1. FindNextAvailable(J, B, T, d.service, d.start) = d.start
    BY DEF SuggestedSlot
  <2> HIDE DEF d, J, B, T
  <2>2. PairFree(J, B, T, d.start, ComputeEndTime(d.start, d.service))
    BY <1>1, <1>3, <2>1, OfferedSlotIsFree
  <2> QED
    BY <2>2 DEF EndOf, d
<1>5. PICK b \in B, t \in T :
          \A j \in J : Overlaps(d.start, EndOf(p), j.start, j.end) => j.bay # b /\ j.tech # t
  BY <1>4 DEF PairFree
<1>6. ASSUME NEW a \in Active, NEW k \in Kinds, NEW r \in Eligible(k, d), claim[a][k] = r, SameWindow(a, p)
      PROVE  \E j \in J : /\ Overlaps(d.start, EndOf(p), j.start, j.end)
                          /\ j.bay = claim[a]["bay"] /\ j.tech = claim[a]["tech"]
  <2>1. claim[a][k] # Nobody
    <3>1. a \in Booked /\ a \in Requests
      BY <1>2 DEF Booked
    <3>2. claim[a]["bay"] # Nobody /\ claim[a]["tech"] # Nobody
      BY <3>1 DEF TypeOK, HoldingsFollowSteps
    <3> QED
      BY <3>2 DEF Kinds
  <2>2. r \in Eligible(k, dto[a])
    BY <1>6, <2>1 DEF ClaimsEligible, Active
  <2>3. dto[a].dealership = d.dealership
    BY <1>6, <2>2 DEF Eligible
  <2> DEFINE j == [bay |-> claim[a]["bay"], tech |-> claim[a]["tech"], start |-> dto[a].start, end |-> EndOf(a)]
  <2>4. j \in J
    BY <1>6, <2>3 DEF DealershipJobs
  <2>5. Overlaps(d.start, EndOf(p), j.start, j.end)
    BY <1>6 DEF SameWindow, Overlaps
  <2> QED
    BY <2>4, <2>5
<1>7. b \in FreeRows("bay", p)
  BY <1>5, <1>6 DEF FreeRows, Kinds
<1>8. t \in FreeRows("tech", p)
  BY <1>5, <1>6 DEF FreeRows, Kinds
<1> QED
  BY <1>7, <1>8 DEF Kinds

\* A request comes to ask for another slot only by its own refusal.
LEMMA SuggestStep ==
    ASSUME TypeOK, [Next]_vars, NEW p \in Requests, pc'[p] = "suggest"
    PROVE  pc[p] = "suggest" \/ \E k \in Kinds : Refuse(p, k)
<1> USE DEF TypeOK, Goto
<1>1. ASSUME NEW q \in Requests, Arrive(q) \/ Fail(q) \/ Cancel(q)
      PROVE  pc[p] = "suggest"
  BY <1>1 DEF Arrive, ReplaySaved, RejectInvalid, BeginTransaction, Fail, Cancel
<1>2. ASSUME NEW q \in Requests, NEW k \in Kinds, Find(q, k) \/ Skip(q, k) \/ Lock(q, k)
      PROVE  pc[p] = "suggest"
  BY <1>2 DEF Find, Skip, Lock, Kinds, ScanAt, AfterLock
<1>3. ASSUME NEW q \in Requests, NEW k \in Kinds, Refuse(q, k)
      PROVE  pc[p] = "suggest" \/ q = p
  BY <1>3 DEF Refuse
<1>4. ASSUME NEW q \in Requests,
             RecheckHit(q) \/ RecheckMiss(q) \/ Insert(q) \/ InsertDuplicate(q) \/ InsertDangling(q)
      PROVE  pc[p] = "suggest"
  BY <1>4 DEF RecheckHit, RecheckMiss, FindAt, Insert, InsertDuplicate, InsertDangling
<1>5. ASSUME NEW q \in Requests, Commit(q) \/ Respond(q) \/ ResolveDuplicate(q) \/ Suggest(q)
      PROVE  pc[p] = "suggest"
  BY <1>5 DEF Commit, Respond, ResolveDuplicate, Suggest
<1>6. ASSUME Tick \/ ChangeRegistry \/ UNCHANGED vars
      PROVE  pc[p] = "suggest"
  BY <1>6 DEF Tick, ChangeRegistry, vars
<1> QED
  BY <1>1, <1>2, <1>3, <1>4, <1>5, <1>6 DEF Next, Proceed, AllAnswered

\* An answer of 409 is an old one or the one that comes with a slot.
LEMMA ConflictStep ==
    ASSUME BookingInv, [Next]_vars, NEW p \in Requests, resp'[p].status = 409
    PROVE  \/ resp'[p] = resp[p] /\ dto'[p] = dto[p]
           \/ Suggest(p)
<1> DEFINE Old == resp'[p] = resp[p] /\ dto'[p] = dto[p]
<1> USE DEF BookingInv, TypeOK, Reply, tables, Answer
<1>1. ASSUME NEW q \in Requests, Arrive(q)
      PROVE  Old
  <2>1. CASE q # p
    BY <1>1, <2>1 DEF Arrive, ReplaySaved, RejectInvalid, BeginTransaction
  <2>2. CASE q = p
    <3>1. resp[p].status = 0
      BY <1>1, <2>2, ArrivalStep DEF Progress, NoAnswer
    <3> QED
      BY <1>1, <2>2, <3>1 DEF Arrive, ReplaySaved, RejectInvalid, BeginTransaction
  <2> QED
    BY <2>1, <2>2
<1>2. ASSUME NEW q \in Requests, RecheckHit(q) \/ ResolveDuplicate(q) \/ Fail(q) \/ InsertDangling(q) \/ Commit(q)
      PROVE  Old
  BY <1>2 DEF RecheckHit, ResolveDuplicate, Fail, InsertDangling, Commit
<1>3. ASSUME NEW q \in Requests, Suggest(q)
      PROVE  Old \/ Suggest(p)
  <2>1. CASE q # p
    BY <1>3, <2>1 DEF Suggest
  <2> QED
    BY <1>3, <2>1
<1>4. ASSUME NEW q \in Requests, RecheckMiss(q) \/ Insert(q) \/ InsertDuplicate(q) \/ Respond(q) \/ Cancel(q)
      PROVE  Old
  BY <1>4 DEF RecheckMiss, Insert, InsertDuplicate, Respond, Cancel
<1>5. ASSUME NEW q \in Requests, NEW k \in Kinds, Find(q, k) \/ Skip(q, k) \/ Lock(q, k) \/ Refuse(q, k)
      PROVE  Old
  BY <1>5 DEF Find, Skip, Lock, Refuse
<1>6. ASSUME Tick \/ ChangeRegistry \/ UNCHANGED vars
      PROVE  Old
  BY <1>6 DEF Tick, ChangeRegistry, vars
<1> HIDE DEF Old
<1>7. Old \/ Suggest(p)
  BY <1>1, <1>2, <1>3, <1>4, <1>5, <1>6 DEF Next, Proceed, AllAnswered
<1> QED
  BY <1>7 DEF Old

\* A refused request is the only one at work until it has its answer.
LEMMA RefusedWaits ==
    ASSUME BookingInv, SerialInv, [SerialNext]_vars, NEW p \in Requests, pc[p] = "suggest", pc'[p] = "suggest"
    PROVE  Tick \/ UNCHANGED vars
<1>1. ~ Fail(p) /\ ~ Suggest(p)
  BY DEF BookingInv, TypeOK, Fail, Suggest, Goto
<1>2. ~ Proceed(p)
  BY <1>1 DEF Proceed, RecheckHit, RecheckMiss, Find, Skip, Lock, Refuse, Kinds, FindAt, ScanAt,
     Insert, InsertDuplicate, InsertDangling, Commit, Respond, ResolveDuplicate
<1> QED
  BY <1>1, <1>2, OwnStep DEF Quiet

\* Nothing becomes free for a refused request before it has its answer.
LEMMA StillNothingFree ==
    ASSUME BookingInv, SerialInv, NothingChanges, RefusalsStand, [SerialNext]_vars,
           NEW p \in Requests, pc'[p] = "suggest"
    PROVE  \E k \in Kinds : FreeRows(k, p)' = {}
<1> USE DEF BookingInv
<1>1. CASE pc[p] = "suggest"
  <2>2. Tick \/ UNCHANGED vars
    BY <1>1, RefusedWaits
  <2>3. UNCHANGED <<dto, claim, status, registry>>
    BY <2>2 DEF Tick, vars, statement, tables
  <2>4. \A k \in Kinds : FreeRows(k, p)' = FreeRows(k, p)
    BY <2>3 DEF FreeRows, Eligible, Registered, Active, SameWindow, EndOf
  <2> QED
    BY <1>1, <2>4 DEF RefusalsStand
<1>2. ASSUME NEW k \in Kinds, Refuse(p, k)
      PROVE  FreeRows(k, p)' = {}
  <2>1. pc[p] = ScanAt[k] /\ cand[p] = {} /\ UNCHANGED <<dto, status, registry>>
    BY <1>2 DEF Refuse, tables
  <2>2. FreeRows(k, p) = {}
    BY <2>1 DEF NothingChanges
  <2>3. p \notin Active
    BY <2>1 DEF Progress, Kinds, ScanAt, Active, Booked
  <2>4. Active' = Active /\ \A a \in Active : claim'[a] = claim[a]
    BY <1>2, <2>1, <2>3 DEF TypeOK, Refuse, Rollback, Active
  <2> QED
    BY <2>1, <2>2, <2>4 DEF FreeRows, Eligible, Registered, SameWindow, EndOf
<1> QED
  BY <1>1, <1>2, SerialIsNext, SuggestStep

\* Nor does its key come to be saved.
LEMMA StillNotSaved ==
    ASSUME BookingInv, SerialInv, NothingChanges, RefusalsStand, [SerialNext]_vars,
           NEW p \in Requests, pc'[p] = "suggest"
    PROVE  ~ Saved(KeyOf(p))'
<1> USE DEF BookingInv
<1>1. CASE pc[p] = "suggest"
  <2>1. UNCHANGED <<dto, idempotency>>
    BY <1>1, RefusedWaits DEF Tick, vars, tables
  <2> QED
    BY <1>1, <2>1 DEF RefusalsStand, RetryNeverRefused, Saved, KeyOf
<1>2. ASSUME NEW k \in Kinds, Refuse(p, k)
      PROVE  ~ Saved(KeyOf(p))'
  <2>1. pc[p] \in Searching /\ UNCHANGED <<dto, idempotency>>
    BY <1>2 DEF Refuse, tables, Kinds, ScanAt, Searching
  <2> QED
    BY <2>1 DEF NothingChanges, Saved, KeyOf
<1> QED
  BY <1>1, <1>2, SerialIsNext, SuggestStep

LEMMA RefusalsStandKept ==
    BookingInv /\ SerialInv /\ NothingChanges /\ RefusalsStand /\ [SerialNext]_vars => RefusalsStand'
<1> SUFFICES ASSUME BookingInv, SerialInv, NothingChanges, RefusalsStand, [SerialNext]_vars, NEW p \in Requests
             PROVE  /\ pc'[p] = "suggest" => \E k \in Kinds : FreeRows(k, p)' = {}
                    /\ resp'[p].status = 409 => resp'[p].slot # dto'[p].start
                    /\ pc'[p] = "suggest" => ~ Saved(KeyOf(p))'
  BY DEF RefusalsStand, RefusedSlotNotOffered, RetryNeverRefused, Kinds
<1>1. ASSUME Suggest(p)
      PROVE  resp'[p].slot # dto'[p].start
  <2>1. pc[p] = "suggest" /\ resp'[p].slot = SuggestedSlot(dto[p]) /\ dto' = dto
    BY <1>1 DEF BookingInv, TypeOK, Suggest, Reply, Answer
  <2> QED
    BY <2>1, OfferedStartIsFree DEF RefusalsStand
<1>2. ASSUME resp'[p].status = 409
      PROVE  resp'[p].slot # dto'[p].start
  BY <1>1, <1>2, SerialIsNext, ConflictStep DEF RefusalsStand, RefusedSlotNotOffered
<1> QED
  BY <1>2, StillNothingFree, StillNotSaved

LEMMA RefusalsInvariance == SerialSpec => []RefusalsStand
<1>1. Init => NothingChanges /\ RefusalsStand
  <2>1. Init => NothingChanges
    BY DEF Init, NothingChanges, Searching, ScanAt, Kinds
  <2>2. Init => RefusalsStand
    BY DEF Init, RefusalsStand, RefusedSlotNotOffered, RetryNeverRefused, NoAnswer
  <2> QED
    BY <2>1, <2>2
<1> QED
  BY SerialBookingInv, SerialInvariance, NothingChangesKept, RefusalsStandKept, <1>1, PTL DEF SerialSpec

\* Handled one at a time, a refusal never offers the start it refuses: the search for
\* another slot and the two locking searches agree, through the rollback and
\* the time in between.
THEOREM SerialRefusalsAreHonest == SerialSpec => []RefusedSlotNotOffered
<1>1. RefusalsStand => RefusedSlotNotOffered
  BY DEF RefusalsStand
<1> QED
  BY RefusalsInvariance, <1>1, PTL

\* And no retry is refused whose booking is saved: that takes another request at work
\* between its second lookup of the key and its search.
THEOREM SerialRetriesAreReplayed == SerialSpec => []RetryNeverRefused
<1>1. RefusalsStand => RetryNeverRefused
  BY DEF RefusalsStand
<1> QED
  BY RefusalsInvariance, <1>1, PTL

=============================================================================
