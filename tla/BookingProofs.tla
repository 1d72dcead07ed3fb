----------------------------- MODULE BookingProofs -----------------------------
(***************************************************************************)
(* The safety properties of Booking hold of every behaviour, for any sets  *)
(* of requests, resources, keys and inputs.  BookingInv is inductive; each *)
(* of its conjuncts is preserved by every step of a request as long as all *)
(* of them held before.                                                    *)
(***************************************************************************)
EXTENDS BookingInvariant, SlotsProofs

-----------------------------------------------------------------------------
(* Facts about states. *)

LEMMA WindowsSymmetric ==
    ASSUME NEW a, NEW p, SameWindow(a, p)
    PROVE  SameWindow(p, a)
  BY DEF SameWindow, Overlaps

\* The search for another slot returns an instant or null in every reachable state.
LEMMA SuggestedSlotType ==
    ASSUME TypeOK, Progress, NEW p \in Requests, pc[p] = "suggest"
    PROVE  SuggestedSlot(dto[p]) \in Nat \union {NoSlot}
<1>1. dto[p].start \in Nat
  BY BookingAssumption DEF Progress
<1>2. ASSUME NEW a \in Active
      PROVE  EndOf(a) \in Nat
  <2>1. a \in Booked /\ dto[a] \in Inputs /\ dto[a].service \in DOMAIN ServiceCatalog
    BY DEF Active, Booked, Progress
  <2>2. dto[a].start \in Nat
    BY <2>1, BookingAssumption
  <2> QED
    BY <2>1, <2>2, DurationType DEF EndOf, ComputeEndTime
<1>3. \A j \in DealershipJobs(dto[p].dealership) : j.end \in Nat
  BY <1>2 DEF DealershipJobs
<1> QED
  BY <1>1, <1>3, FindNextAvailableType DEF SuggestedSlot

-----------------------------------------------------------------------------
(* Initiation. *)

LEMMA InitImpliesInv == Init => BookingInv
<1> SUFFICES ASSUME Init
             PROVE  BookingInv
  OBVIOUS
<1> USE DEF Init
<1>1. Booked = {} /\ Active = {}
  BY DEF Booked, Active
<1>2. TypeOK
  <2>1. resp \in [Requests -> Response]
    BY SlotAssumption DEF NoAnswer, Response
  <2>2. claim \in [Requests -> [Kinds -> Bays \union Technicians \union {Nobody}]]
    BY DEF Unclaimed
  <2>3. HoldingsFollowSteps
    BY <1>1 DEF HoldingsFollowSteps, Unclaimed, Kinds, HoldsBay, HoldsTechnician
  <2> QED
    BY <2>1, <2>2, <2>3 DEF TypeOK, Steps, Outcomes
<1>3. \A p \in Requests : ~ InTransaction(p) /\ resp[p].status = 0
  BY DEF InTransaction, TransactionSteps, NoAnswer
<1> QED
  BY <1>1, <1>2, <1>3 DEF BookingInv, Progress, ExclusiveRows, ClaimsEligible, ScanSound,
     HeldRowsFree, KeysConsistent, OwnBookingWithoutKey, EventsWritten,
     DuplicateMeansTaken, ReferencesExist, DoubleBookingNeedsStaleRead, KeyBookedOnce, Unclaimed, Kinds, ScanAt

-----------------------------------------------------------------------------
(* Consecution, one conjunct of BookingInv at a time. *)

\* Types are kept, and what a request holds stays in line with the step it reached.
LEMMA TypesKept == BookingInv /\ [Next]_vars => TypeOK'
<1> SUFFICES ASSUME BookingInv, [Next]_vars
             PROVE  TypeOK'
  OBVIOUS
<1> USE DEF BookingInv
<1> USE DEF statement, tables, Goto, Reply, Count, Publish
<1>1. ASSUME NEW p \in Requests, NEW d \in Inputs, ReplaySaved(p, d)
      PROVE  TypeOK'
  BY <1>1, SlotAssumption DEF ReplaySaved, TypeOK, Steps, HoldingsFollowSteps, HoldsBay,
     HoldsTechnician, Saved, Answer, Response, Booked
<1>2. ASSUME NEW p \in Requests, NEW d \in Inputs, RejectInvalid(p, d)
      PROVE  TypeOK'
  BY <1>2, SlotAssumption DEF RejectInvalid, TypeOK, Steps, HoldingsFollowSteps, HoldsBay,
     HoldsTechnician, Answer, Response, Booked
<1>3. ASSUME NEW p \in Requests, NEW d \in Inputs, BeginTransaction(p, d)
      PROVE  TypeOK'
  BY <1>3 DEF BeginTransaction, TypeOK, Steps, TransactionSteps, HoldingsFollowSteps, HoldsBay,
     HoldsTechnician, Booked
<1>4. ASSUME NEW p \in Requests, RecheckHit(p)
      PROVE  TypeOK'
  BY <1>4, SlotAssumption DEF RecheckHit, TypeOK, Steps, HoldingsFollowSteps, HoldsBay,
     HoldsTechnician, Saved, Answer, Response, Booked
<1>5. ASSUME NEW p \in Requests, RecheckMiss(p)
      PROVE  TypeOK'
  BY <1>5 DEF RecheckMiss, TypeOK, Steps, TransactionSteps, FindAt, HoldingsFollowSteps, HoldsBay,
     HoldsTechnician, Booked
<1>6. ASSUME NEW p \in Requests, NEW k \in Kinds, Find(p, k)
      PROVE  TypeOK'
  BY <1>6 DEF Find, TypeOK, Steps, TransactionSteps, FindAt, ScanAt, Kinds, FreeRows, Eligible, Pool,
     HoldingsFollowSteps, HoldsBay, HoldsTechnician, Booked
<1>7. ASSUME NEW p \in Requests, NEW k \in Kinds, Skip(p, k)
      PROVE  TypeOK'
  BY <1>7 DEF Skip, TypeOK, ScanAt, Kinds, HoldingsFollowSteps, Booked
<1>8. ASSUME NEW p \in Requests, NEW k \in Kinds, Lock(p, k)
      PROVE  TypeOK'
  BY <1>8, BookingAssumption DEF Lock, TypeOK, Steps, TransactionSteps, ScanAt, AfterLock, Kinds,
     HoldingsFollowSteps, HoldsBay, HoldsTechnician, Booked
<1>9. ASSUME NEW p \in Requests, NEW k \in Kinds, Refuse(p, k)
      PROVE  TypeOK'
  BY <1>9 DEF Refuse, Rollback, Unclaimed, TypeOK, Steps, ScanAt, ConflictOutcome, Outcomes, Kinds,
     HoldingsFollowSteps, HoldsBay, HoldsTechnician, Booked, Progress
<1>10. ASSUME NEW p \in Requests, Insert(p)
      PROVE  TypeOK'
  BY <1>10 DEF Insert, TypeOK, Steps, TransactionSteps, HoldingsFollowSteps, HoldsBay,
     HoldsTechnician, Booked
<1>11. ASSUME NEW p \in Requests, InsertDuplicate(p)
      PROVE  TypeOK'
  BY <1>11 DEF InsertDuplicate, Rollback, Unclaimed, TypeOK, Steps, Kinds, HoldingsFollowSteps,
     HoldsBay, HoldsTechnician, Booked, Progress
<1>20. ASSUME NEW p \in Requests, InsertDangling(p)
      PROVE  TypeOK'
  BY <1>20, SlotAssumption DEF InsertDangling, Rollback, Unclaimed, TypeOK, Steps, Kinds, Answer, Response,
     HoldingsFollowSteps, HoldsBay, HoldsTechnician, Booked, Progress
<1>12. ASSUME NEW p \in Requests, Commit(p)
      PROVE  TypeOK'
  BY <1>12, SlotAssumption DEF Commit, TypeOK, Steps, HasKey, Answer, Response, Event,
     HoldingsFollowSteps, HoldsBay, HoldsTechnician, Booked
<1>13. ASSUME NEW p \in Requests, Respond(p)
      PROVE  TypeOK'
  BY <1>13 DEF Respond, TypeOK, Steps, Outcomes, HoldingsFollowSteps, HoldsBay, HoldsTechnician, Booked
<1>14. ASSUME NEW p \in Requests, ResolveDuplicate(p)
      PROVE  TypeOK'
  BY <1>14, SlotAssumption DEF ResolveDuplicate, TypeOK, Steps, Saved, Answer, Response,
     HoldingsFollowSteps, HoldsBay, HoldsTechnician, Booked
<1>15. ASSUME NEW p \in Requests, Suggest(p)
      PROVE  TypeOK'
  BY <1>15, SuggestedSlotType DEF Suggest, TypeOK, Steps, Answer, Response,
     HoldingsFollowSteps, HoldsBay, HoldsTechnician, Booked
<1>16. ASSUME NEW p \in Requests, Fail(p)
      PROVE  TypeOK'
  <2>1. /\ pc' = [pc EXCEPT ![p] = "done"] /\ "done" \in Steps
        /\ resp' = [resp EXCEPT ![p] = Answer(500, Nobody, NoSlot)]
        /\ Answer(500, Nobody, NoSlot) \in Response
        /\ UNCHANGED <<dto, status, idempotency, outbox, metrics, registry, now>>
    BY <1>16, SlotAssumption DEF Fail, Answer, Response, Steps
  <2>2. CASE InTransaction(p)
    <3>1. Rollback(p) /\ p \notin Booked
      BY <1>16, <2>2 DEF Fail, InTransaction, TransactionSteps, Progress
    <3>2. HoldingsFollowSteps'
      BY <2>1, <3>1 DEF Rollback, Unclaimed, TypeOK, Kinds, HoldingsFollowSteps, HoldsBay,
         HoldsTechnician, Booked
    <3> QED
      BY <2>1, <3>1, <3>2 DEF Rollback, Unclaimed, TypeOK
  <2>3. CASE ~ InTransaction(p)
    BY <1>16, <2>1, <2>3 DEF Fail, InTransaction, TransactionSteps, TypeOK, HoldingsFollowSteps,
       HoldsBay, HoldsTechnician, Booked
  <2> QED
    BY <2>2, <2>3
<1>17. ASSUME NEW p \in Requests, Cancel(p)
      PROVE  TypeOK'
  BY <1>17 DEF Cancel, TypeOK, Event, Outcomes, HoldingsFollowSteps, Booked
<1>18. CASE Tick \/ ChangeRegistry
  BY <1>18 DEF Tick, ChangeRegistry, Register, Remove, TypeOK, HoldingsFollowSteps, Booked
<1>19. CASE UNCHANGED vars
  BY <1>19 DEF vars, TypeOK, HoldingsFollowSteps, Booked
<1> QED
  BY <1>1, <1>2, <1>3, <1>4, <1>5, <1>6, <1>7, <1>8, <1>9, <1>10, <1>11, <1>12, <1>13, <1>14, <1>15,
     <1>16, <1>17, <1>18, <1>19, <1>20 DEF Next, Arrive, Proceed, AllAnswered

\* Progress: a request is booked and answered only at the end of its transaction.
LEMMA ProgressKept == BookingInv /\ [Next]_vars => Progress'
<1> SUFFICES ASSUME BookingInv, [Next]_vars
             PROVE  Progress'
  OBVIOUS
<1> USE DEF BookingInv, TypeOK, Progress, Booked, statement, tables, Goto, Reply
<1>1. ASSUME NEW p \in Requests, Arrive(p)
      PROVE  Progress'
  BY <1>1 DEF Arrive, ReplaySaved, RejectInvalid, BeginTransaction, Acceptable
<1>2. ASSUME NEW p \in Requests, RecheckHit(p) \/ RecheckMiss(p) \/ Insert(p) \/ Respond(p)
      PROVE  Progress'
  BY <1>2 DEF RecheckHit, RecheckMiss, Insert, Respond, FindAt
<1>3. ASSUME NEW p \in Requests, NEW k \in Kinds, Find(p, k) \/ Skip(p, k) \/ Lock(p, k) \/ Refuse(p, k)
      PROVE  Progress'
  BY <1>3 DEF Find, Skip, Lock, Refuse, Kinds, FindAt, ScanAt, AfterLock
<1>4. ASSUME NEW p \in Requests, InsertDuplicate(p) \/ InsertDangling(p) \/ ResolveDuplicate(p) \/ Suggest(p) \/ Fail(p)
      PROVE  Progress'
  BY <1>4 DEF InsertDuplicate, InsertDangling, ResolveDuplicate, Suggest, Fail
<1>5. ASSUME NEW p \in Requests, Commit(p)
      PROVE  Progress'
  BY <1>5 DEF Commit
<1>6. ASSUME NEW p \in Requests, Cancel(p)
      PROVE  Progress'
  BY <1>6 DEF Cancel
<1>7. CASE Tick \/ ChangeRegistry \/ UNCHANGED vars
  BY <1>7 DEF Tick, ChangeRegistry, vars
<1> QED
  BY <1>1, <1>2, <1>3, <1>4, <1>5, <1>6, <1>7 DEF Next, Proceed, AllAnswered

\* A step leaves what q holds as it is, or is one of the steps of q that change it:
\* its arrival, a lock, or the end of its transaction without a commit.
Keeps(q) ==
    /\ claim'[q] = claim[q] /\ stale'[q] = stale[q] /\ dto'[q] = dto[q]
    /\ InTransaction(q)' => InTransaction(q)
Drops(q) == claim'[q] = Unclaimed /\ dto'[q] = dto[q] /\ ~ InTransaction(q)' /\ q \notin Booked'

LEMMA HoldingsStep ==
    BookingInv /\ [Next]_vars =>
        \A q \in Requests : Keeps(q) \/ Drops(q) \/ Arrive(q) \/ \E k \in Kinds : Lock(q, k)
<1> SUFFICES ASSUME BookingInv, [Next]_vars, NEW q \in Requests, ~ Arrive(q),
                    ~ \E k \in Kinds : Lock(q, k)
             PROVE  Keeps(q) \/ Drops(q)
  OBVIOUS
<1> USE DEF BookingInv, TypeOK, InTransaction, TransactionSteps, statement, tables, Goto, Keeps
<1>1. ASSUME NEW p \in Requests, Arrive(p)
      PROVE  Keeps(q)
  BY <1>1 DEF Arrive, ReplaySaved, RejectInvalid, BeginTransaction
<1>2. ASSUME NEW p \in Requests, NEW k \in Kinds, Find(p, k) \/ Skip(p, k) \/ Lock(p, k)
      PROVE  Keeps(q)
  <2>1. CASE Find(p, k)
    BY <2>1 DEF Find, Kinds, FindAt
  <2>2. CASE Skip(p, k)
    BY <2>2 DEF Skip
  <2>3. CASE Lock(p, k)
    <3>1. p # q
      BY <2>3, Zenon
    <3> QED
      BY <2>3, <3>1 DEF Lock
  <2> QED
    BY <1>2, <2>1, <2>2, <2>3
<1>3. ASSUME NEW p \in Requests, RecheckHit(p) \/ RecheckMiss(p) \/ Insert(p) \/ Commit(p)
      PROVE  Keeps(q)
  BY <1>3 DEF RecheckHit, RecheckMiss, FindAt, Insert, Commit
<1>4. ASSUME NEW p \in Requests, Respond(p) \/ ResolveDuplicate(p) \/ Suggest(p) \/ Cancel(p)
      PROVE  Keeps(q)
  BY <1>4 DEF Respond, ResolveDuplicate, Suggest, Cancel
<1>5. ASSUME NEW p \in Requests, NEW step \in {"suggest", "duplicate", "done"}, InTransaction(p),
             Rollback(p), Goto(p, step), UNCHANGED <<dto, status>>
      PROVE  Keeps(q) \/ Drops(q)
  BY <1>5 DEF Rollback, Drops, Booked, Progress
<1>6. ASSUME NEW p \in Requests, NEW k \in Kinds, Refuse(p, k)
      PROVE  Keeps(q) \/ Drops(q)
  <2>1. InTransaction(p)
    BY <1>6 DEF Refuse, Kinds, ScanAt
  <2>2. Rollback(p) /\ Goto(p, "suggest") /\ UNCHANGED <<dto, status>>
    BY <1>6 DEF Refuse
  <2> QED
    BY <1>5, <2>1, <2>2
<1>7. ASSUME NEW p \in Requests, InsertDuplicate(p) \/ InsertDangling(p)
      PROVE  Keeps(q) \/ Drops(q)
  BY <1>5, <1>7 DEF InsertDuplicate, InsertDangling
<1>8. ASSUME NEW p \in Requests, Fail(p)
      PROVE  Keeps(q) \/ Drops(q)
  <2>1. CASE InTransaction(p)
    <3>1. Rollback(p) /\ Goto(p, "done") /\ UNCHANGED <<dto, status>>
      BY <1>8, <2>1 DEF Fail
    <3> QED
      BY <1>5, <2>1, <3>1
  <2>2. CASE ~ InTransaction(p)
    BY <1>8, <2>2 DEF Fail
  <2> QED
    BY <2>1, <2>2
<1>9. CASE Tick \/ ChangeRegistry \/ UNCHANGED vars
  BY <1>9 DEF Tick, ChangeRegistry, vars
<1> QED
  BY <1>1, <1>2, <1>3, <1>4, <1>6, <1>7, <1>8, <1>9 DEF Next, Proceed, AllAnswered

\* A request that arrives holds nothing; nobody else is touched.
LEMMA ArrivalStep ==
    ASSUME BookingInv, NEW p \in Requests, Arrive(p)
    PROVE  /\ \A k \in Kinds : claim[p][k] = Nobody
           /\ p \notin Booked
           /\ UNCHANGED <<statement, tables, metrics, registry, now>>
           /\ \A q \in Requests \ {p} : pc'[q] = pc[q] /\ dto'[q] = dto[q]
           /\ pc[p] = "idle" /\ pc'[p] \in {"recheck", "done"}
<1>1. /\ pc[p] = "idle" /\ pc'[p] \in {"recheck", "done"}
      /\ UNCHANGED <<statement, tables, metrics, registry, now>>
      /\ \A q \in Requests \ {p} : pc'[q] = pc[q] /\ dto'[q] = dto[q]
  BY DEF BookingInv, TypeOK, Arrive, ReplaySaved, RejectInvalid, BeginTransaction, Goto
<1>2. p \notin Booked /\ \A k \in Kinds : claim[p][k] = Nobody
  BY <1>1 DEF BookingInv, TypeOK, Progress, HoldingsFollowSteps, HoldsBay, HoldsTechnician, Kinds
<1> QED
  BY <1>1, <1>2

\* A lock changes what its own request holds of that kind, and nothing else.
LEMMA LockStep ==
    ASSUME BookingInv, NEW p \in Requests, NEW k \in Kinds, Lock(p, k)
    PROVE  /\ \A q \in Requests \ {p} : Keeps(q)
           /\ \A j \in Kinds \ {k} : claim'[p][j] = claim[p][j] /\ (j \in stale'[p] <=> j \in stale[p])
           /\ pc[p] = ScanAt[k] /\ InTransaction(p) /\ p \notin Booked
           /\ UNCHANGED <<dto, tables, resp, registry>>
           /\ claim'[p][k] \in cand[p]
           /\ claim'[p][k] \in Registered /\ ~ LockedByOther(k, claim'[p][k], p)
           /\ Unseen(k, claim'[p][k], p) => k \in stale'[p]
<1> USE DEF BookingInv, TypeOK, Lock, Lockable, Goto, Keeps, InTransaction
<1>1. pc[p] = ScanAt[k] /\ InTransaction(p) /\ p \notin Booked /\ UNCHANGED <<dto, tables, resp, registry>>
  BY DEF Kinds, ScanAt, TransactionSteps, Progress, tables
<1>2. \A q \in Requests \ {p} : Keeps(q)
  OBVIOUS
<1>3. /\ \A j \in Kinds \ {k} : claim'[p][j] = claim[p][j] /\ (j \in stale'[p] <=> j \in stale[p])
      /\ claim'[p][k] \in cand[p]
      /\ claim'[p][k] \in Registered /\ ~ LockedByOther(k, claim'[p][k], p)
      /\ Unseen(k, claim'[p][k], p) => k \in stale'[p]
  OBVIOUS
<1> QED
  BY <1>1, <1>2, <1>3

\* A row is locked only when no other open transaction holds it.
LEMMA ExclusiveRowsKept == BookingInv /\ [Next]_vars => ExclusiveRows'
<1> SUFFICES ASSUME BookingInv, [Next]_vars,
                    NEW p \in Requests, NEW q \in Requests, NEW k \in Kinds, p # q,
                    InTransaction(p)', InTransaction(q)', claim'[p][k] = claim'[q][k],
                    claim'[p][k] # Nobody
             PROVE  FALSE
  BY DEF ExclusiveRows
<1> USE DEF BookingInv
<1>1. ASSUME NEW r \in Requests, r \in {p, q}
      PROVE  ~ Arrive(r) /\ ~ Drops(r)
  BY <1>1, ArrivalStep DEF Drops, Unclaimed, statement
<1>2. CASE Keeps(p) /\ Keeps(q)
  BY <1>2 DEF Keeps, ExclusiveRows
<1>3. ASSUME NEW x \in {p, q}, NEW y \in {p, q}, x # y, NEW j \in Kinds, Lock(x, j)
      PROVE  FALSE
  <2>1. Keeps(y) /\ InTransaction(x) /\ InTransaction(y)
    BY <1>3, LockStep DEF Keeps
  <2>2. CASE j = k
    BY <1>3, <2>1, <2>2, LockStep DEF Keeps, LockedByOther
  <2>3. CASE j # k
    BY <1>3, <2>1, <2>3, LockStep DEF Keeps, ExclusiveRows
  <2> QED
    BY <2>2, <2>3
<1> QED
  BY <1>1, <1>2, <1>3, HoldingsStep

\* The row of an appointment and the outbox change together, by a commit or by a
\* cancellation.
LEMMA ChangeStep ==
    ASSUME [Next]_vars
    PROVE  \/ UNCHANGED <<status, outbox>>
           \/ \E p \in Requests : Commit(p)
           \/ \E p \in Requests : Cancel(p)
<1> USE DEF tables
<1>1. ASSUME NEW p \in Requests, Arrive(p) \/ RecheckHit(p) \/ RecheckMiss(p) \/ Insert(p)
      PROVE  UNCHANGED <<status, outbox>>
  BY <1>1 DEF Arrive, ReplaySaved, RejectInvalid, BeginTransaction, RecheckHit, RecheckMiss, Insert
<1>2. ASSUME NEW p \in Requests, NEW k \in Kinds, Find(p, k) \/ Skip(p, k) \/ Lock(p, k) \/ Refuse(p, k)
      PROVE  UNCHANGED <<status, outbox>>
  BY <1>2 DEF Find, Skip, Lock, Refuse
<1>3. ASSUME NEW p \in Requests,
             InsertDuplicate(p) \/ InsertDangling(p) \/ Respond(p) \/ ResolveDuplicate(p) \/ Suggest(p) \/ Fail(p)
      PROVE  UNCHANGED <<status, outbox>>
  BY <1>3 DEF InsertDuplicate, InsertDangling, Respond, ResolveDuplicate, Suggest, Fail
<1>4. ASSUME Tick \/ ChangeRegistry \/ UNCHANGED vars
      PROVE  UNCHANGED <<status, outbox>>
  BY <1>4 DEF Tick, ChangeRegistry, vars
<1> QED
  BY <1>1, <1>2, <1>3, <1>4 DEF Next, Proceed, AllAnswered

\* Appointments only come with a commit, and a booked one keeps its row's data.
LEMMA TableStep ==
    ASSUME BookingInv, [Next]_vars, NEW a \in Requests
    PROVE  /\ a \in Booked => a \in Booked' /\ Keeps(a)
           /\ a \in Booked' => a \in Booked \/ Commit(a)
           /\ a \in Active' => a \in Active \/ Commit(a)
<1> USE DEF BookingInv, TypeOK, Booked, Active
<1>1. ASSUME NEW p \in Requests, Commit(p)
      PROVE  status' = [status EXCEPT ![p] = "CONFIRMED"]
  BY <1>1 DEF Commit
<1>2. ASSUME NEW p \in Requests, Cancel(p)
      PROVE  status' = [status EXCEPT ![p] = "CANCELLED"] /\ status[p] = "CONFIRMED"
  BY <1>2 DEF Cancel
<1>3. a \in Booked => a \in Booked'
  BY <1>1, <1>2, ChangeStep
<1>4. a \in Booked => Keeps(a)
  <2> SUFFICES ASSUME a \in Booked
               PROVE  Keeps(a)
    OBVIOUS
  <2>1. ~ Drops(a)
    BY <1>3 DEF Drops
  <2>2. ~ Arrive(a)
    BY ArrivalStep
  <2>3. \A k \in Kinds : ~ Lock(a, k)
    BY LockStep
  <2> QED
    BY <2>1, <2>2, <2>3, HoldingsStep
<1>5. a \in Booked' => a \in Booked \/ Commit(a)
  BY <1>1, <1>2, ChangeStep
<1>6. a \in Active' => a \in Active \/ Commit(a)
  BY <1>1, <1>2, ChangeStep
<1> QED
  BY <1>3, <1>4, <1>5, <1>6

\* The two steps that make an inserted row visible, seen from the other requests.
LEMMA InsertStep ==
    ASSUME BookingInv, NEW p \in Requests, Insert(p)
    PROVE  /\ \A q \in Requests \ {p} : pc'[q] = pc[q]
           /\ UNCHANGED <<dto, statement, tables, resp>>
  BY DEF BookingInv, TypeOK, Insert, Goto

LEMMA CommitStep ==
    ASSUME BookingInv, NEW p \in Requests, Commit(p)
    PROVE  /\ pc[p] = "commit" /\ pc'[p] = "respond" /\ p \notin Booked /\ p \in Booked'
           /\ \A q \in Requests \ {p} : pc'[q] = pc[q] /\ resp'[q] = resp[q]
           /\ \A k \in Kinds : claim[p][k] # Nobody
           /\ UNCHANGED <<dto, statement>>
           /\ resp'[p].appointment = p
<1>1. pc[p] = "commit" /\ pc'[p] = "respond" /\ p \notin Booked /\ p \in Booked'
  BY DEF BookingInv, TypeOK, Commit, Goto, Progress, Booked
<1>2. \A k \in Kinds : claim[p][k] # Nobody
  BY <1>1 DEF BookingInv, TypeOK, HoldingsFollowSteps, HoldsBay, HoldsTechnician, Kinds
<1>3. /\ \A q \in Requests \ {p} : pc'[q] = pc[q] /\ resp'[q] = resp[q]
      /\ UNCHANGED <<dto, statement>>
      /\ resp'[p] = Answer(201, p, NoSlot)
  BY DEF BookingInv, TypeOK, Commit, Goto, Reply
<1> QED
  BY <1>1, <1>2, <1>3 DEF Answer

LEMMA WindowKept ==
    ASSUME NEW a, NEW p, dto'[a] = dto[a], dto'[p] = dto[p]
    PROVE  SameWindow(a, p)' <=> SameWindow(a, p)
  BY DEF SameWindow, EndOf

\* Only rows of the WHERE clause are ever locked.
LEMMA ClaimsEligibleKept == BookingInv /\ [Next]_vars => ClaimsEligible'
<1> SUFFICES ASSUME BookingInv, [Next]_vars, NEW p \in Requests, NEW k \in Kinds,
                    claim'[p][k] # Nobody
             PROVE  claim'[p][k] \in Eligible(k, dto'[p])
  BY DEF ClaimsEligible, Eligible, Pool
<1> USE DEF BookingInv
<1>1. CASE Keeps(p)
  BY <1>1 DEF Keeps, ClaimsEligible
<1>2. CASE Drops(p) \/ Arrive(p)
  BY <1>2, ArrivalStep DEF Drops, Unclaimed, statement
<1>3. ASSUME NEW j \in Kinds, Lock(p, j)
      PROVE  claim'[p][k] \in Eligible(k, dto'[p])
  <2>1. CASE j = k
    BY <1>3, <2>1, LockStep DEF ScanSound
  <2>2. CASE j # k
    BY <1>3, <2>2, LockStep DEF ClaimsEligible
  <2> QED
    BY <2>1, <2>2
<1> QED
  BY <1>1, <1>2, <1>3, HoldingsStep

\* A transaction holding a row keeps every later booking of it away; what was booked
\* before it locked the row is in its snapshot, or the lock is marked stale.
LEMMA HeldRowsFreeKept == BookingInv /\ [Next]_vars => HeldRowsFree'
<1> SUFFICES ASSUME BookingInv, [Next]_vars, NEW p \in Requests, NEW a \in Requests, NEW k \in Kinds,
                    a \in Active', InTransaction(p)', claim'[p][k] # Nobody,
                    claim'[a][k] = claim'[p][k], SameWindow(a, p)'
             PROVE  k \in stale'[p]
  BY DEF HeldRowsFree, Active
<1> USE DEF BookingInv
<1>1. ~ Arrive(p) /\ ~ Drops(p)
  BY ArrivalStep DEF Drops, Unclaimed, statement
<1>2. InTransaction(p) /\ dto'[p] = dto[p]
  BY <1>1, HoldingsStep, LockStep DEF Keeps
<1>3. a \in Active /\ Keeps(a)
  <2>1. CASE a \in Active
    BY <2>1, TableStep DEF Active, Booked
  <2>2. CASE Commit(a)
    <3>1. a # p
      BY <2>2, CommitStep DEF InTransaction, TransactionSteps
    <3>2. InTransaction(a) /\ claim'[a] = claim[a] /\ claim'[p] = claim[p]
      BY <2>2, CommitStep DEF InTransaction, TransactionSteps, statement
    <3> QED
      BY <1>2, <3>1, <3>2 DEF ExclusiveRows
  <2> QED
    BY <2>1, <2>2, TableStep
<1>4. SameWindow(a, p)
  BY <1>2, <1>3, WindowKept DEF Keeps
<1>5. CASE Keeps(p)
  BY <1>2, <1>3, <1>4, <1>5 DEF Keeps, HeldRowsFree
<1>6. CASE Lock(p, k)
  <2>1. a \in Booked /\ claim[a][k] = claim'[p][k] /\ claim'[p][k] \in cand[p]
    BY <1>3, <1>6, LockStep DEF Keeps, Active, Booked
  <2>2. a \notin seen[p]
    BY <1>3, <1>4, <1>6, <2>1, LockStep DEF ScanSound
  <2> QED
    BY <1>6, <2>1, <2>2, LockStep DEF Unseen
<1>7. ASSUME NEW j \in Kinds \ {k}, Lock(p, j)
      PROVE  k \in stale'[p]
  BY <1>2, <1>3, <1>4, <1>7, LockStep DEF Keeps, HeldRowsFree
<1> QED
  BY <1>1, <1>5, <1>6, <1>7, HoldingsStep

\* The second of two appointments to commit held its row while the first was live.
LEMMA DoubleBookingKept == BookingInv /\ [Next]_vars => DoubleBookingNeedsStaleRead'
<1> SUFFICES ASSUME BookingInv, [Next]_vars, NEW a \in Requests, NEW b \in Requests, NEW k \in Kinds,
                    a \in Active', b \in Active', a # b, claim'[a][k] = claim'[b][k],
                    SameWindow(a, b)'
             PROVE  k \in stale'[a] \union stale'[b]
  BY DEF DoubleBookingNeedsStaleRead, Active
<1> USE DEF BookingInv
<1>1. ASSUME NEW x \in Requests, NEW y \in Requests, x # y, x \in Active, Commit(y),
             claim'[x][k] = claim'[y][k], SameWindow(x, y)'
      PROVE  k \in stale'[y]
  <2>1. UNCHANGED <<dto, statement>> /\ InTransaction(y) /\ claim[y][k] # Nobody
    BY <1>1, CommitStep DEF InTransaction, TransactionSteps
  <2>2. SameWindow(x, y)
    BY <1>1, <2>1, WindowKept
  <2> QED
    BY <1>1, <2>1, <2>2 DEF HeldRowsFree, statement
<1>2. CASE a \in Active /\ b \in Active
  <2>1. Keeps(a) /\ Keeps(b)
    BY <1>2, TableStep DEF Active, Booked
  <2>2. SameWindow(a, b)
    BY <2>1, WindowKept DEF Keeps
  <2> QED
    BY <1>2, <2>1, <2>2 DEF Keeps, DoubleBookingNeedsStaleRead
<1>3. CASE a \in Active /\ Commit(b)
  BY <1>1, <1>3
<1>4. CASE b \in Active /\ Commit(a)
  <2>1. SameWindow(b, a)'
    BY DEF SameWindow, Overlaps
  <2> QED
    BY <1>1, <1>4, <2>1
<1>5. ~ (Commit(a) /\ Commit(b))
  BY CommitStep
<1> QED
  BY <1>2, <1>3, <1>4, <1>5, TableStep

\* While a SELECT runs, its snapshot stays and the rows it has to try only shrink.
LEMMA ScanStep ==
    ASSUME BookingInv, [Next]_vars, NEW q \in Requests
    PROVE  \/ \E k \in Kinds : Find(q, k)
           \/ /\ seen'[q] \subseteq seen[q] /\ cand'[q] \subseteq cand[q]
              /\ \A k \in Kinds : pc'[q] = ScanAt[k] => pc[q] = ScanAt[k] /\ seen'[q] = seen[q]
<1> DEFINE Narrows == /\ seen'[q] \subseteq seen[q] /\ cand'[q] \subseteq cand[q]
                      /\ \A k \in Kinds : pc'[q] = ScanAt[k] => pc[q] = ScanAt[k] /\ seen'[q] = seen[q]
<1> SUFFICES ASSUME \A k \in Kinds : ~ Find(q, k)
             PROVE  Narrows
  OBVIOUS
<1> USE DEF BookingInv, TypeOK, ScanAt, Kinds, statement, Goto
<1>1. ASSUME NEW p \in Requests, NEW k \in Kinds, Find(p, k)
      PROVE  Narrows
  <2>1. p # q
    BY <1>1, Zenon
  <2> QED
    BY <1>1, <2>1 DEF Find
<1>2. ASSUME NEW p \in Requests, NEW k \in Kinds, Skip(p, k)
      PROVE  Narrows
  BY <1>2 DEF Skip
<1>3. ASSUME NEW p \in Requests, NEW k \in Kinds, Lock(p, k)
      PROVE  Narrows
  BY <1>3 DEF Lock, AfterLock
<1>4. ASSUME NEW p \in Requests, NEW k \in Kinds, Refuse(p, k)
      PROVE  Narrows
  BY <1>4 DEF Refuse, Rollback
<1>5. ASSUME NEW p \in Requests, Arrive(p) \/ RecheckHit(p) \/ RecheckMiss(p)
      PROVE  Narrows
  BY <1>5 DEF Arrive, ReplaySaved, RejectInvalid, BeginTransaction, RecheckHit, RecheckMiss, FindAt
<1>6. ASSUME NEW p \in Requests, Insert(p) \/ InsertDuplicate(p) \/ InsertDangling(p) \/ Commit(p) \/ Respond(p)
      PROVE  Narrows
  BY <1>6 DEF Insert, InsertDuplicate, InsertDangling, Rollback, Commit, Respond
<1>7. ASSUME NEW p \in Requests, ResolveDuplicate(p) \/ Suggest(p) \/ Cancel(p)
      PROVE  Narrows
  BY <1>7 DEF ResolveDuplicate, Suggest, Cancel
<1>8. ASSUME NEW p \in Requests, Fail(p)
      PROVE  Narrows
  <2>1. Rollback(p) \/ UNCHANGED statement
    BY <1>8 DEF Fail
  <2>2. Goto(p, "done")
    BY <1>8 DEF Fail
  <2> QED
    BY <2>1, <2>2 DEF Rollback
<1>9. CASE Tick \/ ChangeRegistry \/ UNCHANGED vars
  BY <1>9 DEF Tick, ChangeRegistry, vars
<1> HIDE DEF Narrows
<1> QED
  BY <1>1, <1>2, <1>3, <1>4, <1>5, <1>6, <1>7, <1>8, <1>9 DEF Next, Proceed, AllAnswered

\* Rows free in a snapshot stay so: a later booking is not in the snapshot.
LEMMA ScanSoundKept == BookingInv /\ [Next]_vars => ScanSound'
<1> SUFFICES ASSUME BookingInv, [Next]_vars, NEW p \in Requests, NEW k \in Kinds
             PROVE  /\ seen'[p] \subseteq Booked'
                    /\ pc'[p] = ScanAt[k] =>
                          /\ cand'[p] \subseteq Eligible(k, dto'[p])
                          /\ \A a \in Active' \intersect seen'[p] :
                                SameWindow(a, p)' => claim'[a][k] \notin cand'[p]
  BY DEF ScanSound, Eligible, Pool
<1> USE DEF BookingInv
<1>1. ASSUME NEW j \in Kinds, Find(p, j)
      PROVE  /\ seen'[p] = Booked /\ cand'[p] = FreeRows(j, p) /\ pc'[p] = ScanAt[j]
             /\ UNCHANGED <<dto, claim, tables>>
  BY <1>1 DEF Find, Goto, TypeOK
<1>2. CASE \E j \in Kinds : Find(p, j)
  <2>1. PICK j \in Kinds : Find(p, j)
    BY <1>2
  <2>2. Booked' = Booked /\ Active' = Active
    BY <1>1, <2>1 DEF Booked, Active, tables
  <2>3. CASE j = k
    <3>1. \A a \in Active : SameWindow(a, p)' => claim'[a][k] \notin cand'[p]
      BY <1>1, <2>1, <2>3, WindowKept DEF FreeRows
    <3> QED
      BY <1>1, <2>1, <2>2, <2>3, <3>1 DEF FreeRows
  <2>4. CASE j # k
    BY <1>1, <2>1, <2>2, <2>4 DEF ScanAt, Kinds
  <2> QED
    BY <2>3, <2>4
<1>3. CASE /\ seen'[p] \subseteq seen[p] /\ cand'[p] \subseteq cand[p]
           /\ pc'[p] = ScanAt[k] => pc[p] = ScanAt[k] /\ seen'[p] = seen[p]
  <2>1. seen'[p] \subseteq Booked'
    <3>1. seen[p] \subseteq Booked /\ Booked \subseteq Requests
      BY DEF ScanSound, Booked
    <3> QED
      BY <1>3, <3>1, TableStep
  <2>2. ASSUME pc'[p] = ScanAt[k]
        PROVE  pc[p] = ScanAt[k] /\ seen'[p] = seen[p] /\ dto'[p] = dto[p]
    <3>1. pc[p] = ScanAt[k] /\ seen'[p] = seen[p]
      BY <1>3, <2>2
    <3>2. ~ Arrive(p)
      BY <3>1, ArrivalStep DEF ScanAt, Kinds
    <3> QED
      BY <3>1, <3>2, HoldingsStep, LockStep DEF Keeps, Drops
  <2>3. ASSUME pc'[p] = ScanAt[k], NEW a \in Active' \intersect seen'[p], SameWindow(a, p)'
        PROVE  claim'[a][k] \notin cand'[p]
    <3>1. a \in Requests /\ a \in Booked /\ a \in seen[p]
      BY <2>2, <2>3 DEF ScanSound, Active, Booked
    <3>2. Keeps(a) /\ ~ Commit(a)
      BY <3>1, TableStep, CommitStep
    <3>3. a \in Active
      BY <2>3, <3>1, <3>2, TableStep
    <3>4. SameWindow(a, p)
      BY <2>2, <2>3, <3>2, WindowKept DEF Keeps
    <3> QED
      BY <1>3, <2>2, <2>3, <3>1, <3>2, <3>3, <3>4 DEF Keeps, ScanSound
  <2> QED
    BY <1>3, <2>1, <2>2, <2>3 DEF ScanSound
<1> QED
  BY <1>2, <1>3, ScanStep

\* A record appears only with the commit of the request it names.
LEMMA RecordStep ==
    ASSUME BookingInv, [Next]_vars, NEW key \in Keys, idempotency'[key] # idempotency[key]
    PROVE  \E p \in Requests : Commit(p) /\ KeyOf(p) = key /\ idempotency'[key] = p
<1> USE DEF BookingInv, TypeOK, tables
<1>1. ASSUME NEW p \in Requests, Arrive(p) \/ RecheckHit(p) \/ RecheckMiss(p) \/ Insert(p)
      PROVE  UNCHANGED idempotency
  BY <1>1 DEF Arrive, ReplaySaved, RejectInvalid, BeginTransaction, RecheckHit, RecheckMiss, Insert
<1>2. ASSUME NEW p \in Requests, NEW k \in Kinds, Find(p, k) \/ Skip(p, k) \/ Lock(p, k) \/ Refuse(p, k)
      PROVE  UNCHANGED idempotency
  BY <1>2 DEF Find, Skip, Lock, Refuse
<1>3. ASSUME NEW p \in Requests,
             InsertDuplicate(p) \/ InsertDangling(p) \/ Respond(p) \/ ResolveDuplicate(p) \/ Suggest(p) \/ Fail(p) \/ Cancel(p)
      PROVE  UNCHANGED idempotency
  BY <1>3 DEF InsertDuplicate, InsertDangling, Respond, ResolveDuplicate, Suggest, Fail, Cancel
<1>4. ASSUME Tick \/ ChangeRegistry \/ UNCHANGED vars
      PROVE  UNCHANGED idempotency
  BY <1>4 DEF Tick, ChangeRegistry, vars
<1>5. ASSUME NEW p \in Requests, Commit(p)
      PROVE  KeyOf(p) = key /\ idempotency'[key] = p
  BY <1>5 DEF Commit, HasKey
<1> QED
  BY <1>1, <1>2, <1>3, <1>4, <1>5 DEF Next, Proceed, AllAnswered

\* A record, once written, is never replaced: whoever commits a key was alone with it.
LEMMA RecordKept ==
    ASSUME BookingInv, [Next]_vars, NEW key \in Keys, idempotency[key] # Nobody
    PROVE  idempotency'[key] = idempotency[key]
<1> USE DEF BookingInv
<1> SUFFICES ASSUME idempotency'[key] # idempotency[key]
             PROVE  FALSE
  OBVIOUS
<1>1. PICK p \in Requests : Commit(p) /\ KeyOf(p) = key
  BY RecordStep
<1>2. idempotency[key] \in Booked /\ KeyOf(idempotency[key]) = key
  BY DEF KeysConsistent
<1>3. p \notin Booked /\ ~ KeyTaken(p)
  BY <1>1, CommitStep DEF KeysConsistent
<1>4. key # NoKey
  BY BookingAssumption
<1> QED
  BY <1>1, <1>2, <1>3, <1>4 DEF KeyTaken, SameStoredKey

\* A request reaches its commit by inserting; its row's key does not change then.
LEMMA CommitPending ==
    ASSUME BookingInv, [Next]_vars, NEW q \in Requests, pc'[q] = "commit"
    PROVE  (pc[q] = "commit" \/ Insert(q)) /\ dto'[q] = dto[q]
<1> USE DEF BookingInv, TypeOK, Goto
<1>1. ASSUME NEW p \in Requests, Arrive(p) \/ RecheckHit(p) \/ RecheckMiss(p)
      PROVE  pc[q] = "commit"
  BY <1>1 DEF Arrive, ReplaySaved, RejectInvalid, BeginTransaction, RecheckHit, RecheckMiss, FindAt
<1>2. ASSUME NEW p \in Requests, NEW k \in Kinds, Find(p, k) \/ Skip(p, k) \/ Lock(p, k) \/ Refuse(p, k)
      PROVE  pc[q] = "commit"
  BY <1>2 DEF Find, Skip, Lock, Refuse, Kinds, ScanAt, AfterLock
<1>3. ASSUME NEW p \in Requests,
             InsertDuplicate(p) \/ InsertDangling(p) \/ Respond(p) \/ ResolveDuplicate(p) \/ Suggest(p) \/ Fail(p)
      PROVE  pc[q] = "commit"
  BY <1>3 DEF InsertDuplicate, InsertDangling, Respond, ResolveDuplicate, Suggest, Fail
<1>4. ASSUME NEW p \in Requests, Commit(p) \/ Cancel(p)
      PROVE  pc[q] = "commit"
  BY <1>4 DEF Commit, Cancel
<1>5. ASSUME Tick \/ ChangeRegistry \/ UNCHANGED vars
      PROVE  pc[q] = "commit"
  BY <1>5 DEF Tick, ChangeRegistry, vars
<1>6. ASSUME NEW p \in Requests, Insert(p)
      PROVE  pc[q] = "commit" \/ p = q
  BY <1>6, InsertStep
<1>7. pc[q] = "commit" \/ Insert(q)
  BY <1>1, <1>2, <1>3, <1>4, <1>5, <1>6 DEF Next, Proceed, AllAnswered
<1>8. pc[q] # "idle"
  BY <1>7 DEF Insert
<1>9. ~ Arrive(q)
  BY <1>8, ArrivalStep
<1> QED
  BY <1>7, <1>9, HoldingsStep, LockStep DEF Keeps, Drops

\* Of the transactions with a key, one at most gets past its insert.
LEMMA KeysConsistentKept == BookingInv /\ [Next]_vars => KeysConsistent'
<1> SUFFICES ASSUME BookingInv, [Next]_vars
             PROVE  KeysConsistent'
  OBVIOUS
<1> USE DEF BookingInv
<1>1. ASSUME NEW key \in Keys, idempotency'[key] # Nobody
      PROVE  idempotency'[key] \in Booked' /\ dto'[idempotency'[key]].key = key
  <2>1. CASE idempotency'[key] = idempotency[key]
    <3>1. idempotency[key] \in Booked /\ KeyOf(idempotency[key]) = key
      BY <1>1, <2>1 DEF KeysConsistent
    <3>2. idempotency[key] \in Requests
      BY <3>1 DEF Booked
    <3> QED
      BY <2>1, <3>1, <3>2, TableStep DEF Keeps, KeyOf
  <2>2. CASE idempotency'[key] # idempotency[key]
    <3>1. PICK p \in Requests : Commit(p) /\ KeyOf(p) = key /\ idempotency'[key] = p
      BY <2>2, RecordStep
    <3> QED
      BY <3>1, CommitStep DEF KeyOf
  <2> QED
    BY <2>1, <2>2
<1>2. ASSUME NEW p \in Requests, pc'[p] = "commit", NEW q \in Requests, SameStoredKey(p, q)',
             pc'[q] = "commit"
      PROVE  FALSE
  <2>1. SameStoredKey(p, q) /\ SameStoredKey(q, p)
    BY <1>2, CommitPending DEF SameStoredKey, KeyOf
  <2>2. CASE pc[p] = "commit" /\ pc[q] = "commit"
    BY <2>1, <2>2 DEF KeysConsistent, KeyInserting
  <2>3. CASE Insert(p)
    <3>1. pc[q] = "commit"
      BY <1>2, <2>1, <2>3, InsertStep DEF SameStoredKey
    <3> QED
      BY <2>1, <2>3, <3>1 DEF Insert, KeyInserting
  <2>4. CASE Insert(q)
    <3>1. pc[p] = "commit"
      BY <1>2, <2>1, <2>4, InsertStep DEF SameStoredKey
    <3> QED
      BY <2>1, <2>4, <3>1 DEF Insert, KeyInserting
  <2> QED
    BY <1>2, <2>2, <2>3, <2>4, CommitPending
<1>3. ASSUME NEW p \in Requests, pc'[p] = "commit", NEW q \in Requests, q \in Booked', SameStoredKey(p, q)'
      PROVE  FALSE
  <2>1. dto'[p] = dto[p] /\ dto'[q] = dto[q]
    BY <1>3, CommitPending, TableStep, CommitStep DEF Keeps
  <2>2. SameStoredKey(p, q)
    BY <1>3, <2>1 DEF SameStoredKey, KeyOf
  <2>3. CASE q \in Booked
    BY <1>3, <2>2, <2>3, CommitPending DEF KeysConsistent, KeyTaken, Insert
  <2>4. CASE Commit(q)
    <3>1. p # q /\ pc[p] = "commit" /\ pc[q] = "commit"
      BY <1>3, <2>2, <2>4, CommitStep DEF SameStoredKey
    <3> QED
      BY <2>2, <3>1 DEF KeysConsistent, KeyInserting
  <2> QED
    BY <1>3, <2>3, <2>4, TableStep
<1>4. Booked' \subseteq Requests
  BY DEF Booked
<1> QED
  BY <1>1, <1>2, <1>3, <1>4 DEF KeysConsistent, KeyInserting, KeyTaken, KeyOf

\* An answer of success is an old one, the commit's, or the replay of a record.
LEMMA AnswerStep ==
    ASSUME BookingInv, [Next]_vars, NEW p \in Requests, resp'[p].status = 201
    PROVE  \/ resp'[p] = resp[p] /\ dto'[p] = dto[p]
           \/ Commit(p)
           \/ /\ Saved(dto'[p].key) /\ resp'[p].appointment = idempotency[dto'[p].key]
              /\ idempotency' = idempotency
<1> DEFINE Replayed == /\ Saved(dto'[p].key) /\ resp'[p].appointment = idempotency[dto'[p].key]
                       /\ idempotency' = idempotency
           Old == resp'[p] = resp[p] /\ dto'[p] = dto[p]
<1> USE DEF BookingInv, TypeOK, Reply, tables
<1>1. ASSUME NEW q \in Requests, Arrive(q)
      PROVE  Old \/ Replayed
  <2>1. CASE q # p
    BY <1>1, <2>1 DEF Arrive, ReplaySaved, RejectInvalid, BeginTransaction
  <2>2. CASE q = p
    <3>1. resp[p].status = 0
      BY <1>1, <2>2, ArrivalStep DEF Progress, NoAnswer
    <3> QED
      BY <1>1, <2>2, <3>1 DEF Arrive, ReplaySaved, RejectInvalid, BeginTransaction, Answer
  <2> QED
    BY <2>1, <2>2
<1>2. ASSUME NEW q \in Requests, RecheckHit(q) \/ ResolveDuplicate(q)
      PROVE  Old \/ Replayed
  BY <1>2 DEF RecheckHit, ResolveDuplicate, Answer, KeyOf
<1>3. ASSUME NEW q \in Requests, Suggest(q) \/ Fail(q) \/ InsertDangling(q)
      PROVE  Old
  BY <1>3 DEF Suggest, Fail, InsertDangling, Answer
<1>4. ASSUME NEW q \in Requests, Commit(q)
      PROVE  Old \/ Commit(p)
  BY <1>4, CommitStep
<1>5. ASSUME NEW q \in Requests, RecheckMiss(q) \/ Insert(q) \/ InsertDuplicate(q) \/ Respond(q) \/ Cancel(q)
      PROVE  Old
  BY <1>5 DEF RecheckMiss, Insert, InsertDuplicate, Respond, Cancel
<1>6. ASSUME NEW q \in Requests, NEW k \in Kinds, Find(q, k) \/ Skip(q, k) \/ Lock(q, k) \/ Refuse(q, k)
      PROVE  Old
  BY <1>6 DEF Find, Skip, Lock, Refuse
<1>7. ASSUME Tick \/ ChangeRegistry \/ UNCHANGED vars
      PROVE  Old
  BY <1>7 DEF Tick, ChangeRegistry, vars
<1> HIDE DEF Old, Replayed
<1>8. Old \/ Replayed \/ Commit(p)
  BY <1>1, <1>2, <1>3, <1>4, <1>5, <1>6, <1>7 DEF Next, Proceed, AllAnswered
<1> QED
  BY <1>8 DEF Old, Replayed

\* A record written by a commit names the committing request.
LEMMA CommitRecord ==
    ASSUME BookingInv, NEW p \in Requests, Commit(p), HasKey(p)
    PROVE  idempotency'[KeyOf(p)] = p /\ p # Nobody
  BY BookingAssumption DEF BookingInv, TypeOK, Commit, HasKey

LEMMA OwnBookingKept == BookingInv /\ [Next]_vars => OwnBookingWithoutKey'
<1> SUFFICES ASSUME BookingInv, [Next]_vars, NEW p \in Requests, resp'[p].status = 201
             PROVE  IF dto'[p].key \in Keys THEN idempotency'[dto'[p].key] # Nobody
                    ELSE resp'[p].appointment = p /\ p \in Booked'
  BY DEF OwnBookingWithoutKey, HasKey, KeyOf
<1> USE DEF BookingInv
<1>1. CASE resp'[p] = resp[p] /\ dto'[p] = dto[p]
  BY <1>1, RecordKept, TableStep DEF OwnBookingWithoutKey, HasKey, KeyOf
<1>2. CASE Commit(p)
  <2>1. dto' = dto /\ resp'[p].appointment = p /\ p \in Booked'
    BY <1>2, CommitStep
  <2>2. HasKey(p) => idempotency'[KeyOf(p)] # Nobody
    BY <1>2, CommitRecord
  <2> QED
    BY <2>1, <2>2 DEF HasKey, KeyOf
<1>3. CASE Saved(dto'[p].key) /\ idempotency' = idempotency
  BY <1>3 DEF Saved
<1> QED
  BY <1>1, <1>2, <1>3, AnswerStep

\* A second booking with a key would have to commit beside or after the first.
LEMMA KeyBookedOnceKept == BookingInv /\ [Next]_vars => KeyBookedOnce'
<1> SUFFICES ASSUME BookingInv, [Next]_vars
             PROVE  KeyBookedOnce'
  OBVIOUS
<1> USE DEF BookingInv
<1>1. ASSUME NEW a \in Requests, NEW b \in Requests, a \in Booked', b \in Booked', SameStoredKey(a, b)'
      PROVE  FALSE
  <2>1. dto'[a] = dto[a] /\ dto'[b] = dto[b]
    BY <1>1, TableStep, CommitStep DEF Keeps
  <2>2. SameStoredKey(a, b) /\ SameStoredKey(b, a)
    BY <1>1, <2>1 DEF SameStoredKey, KeyOf
  <2>3. CASE a \in Booked /\ b \in Booked
    BY <2>2, <2>3 DEF KeyBookedOnce
  <2>4. ASSUME NEW x \in Requests, NEW y \in Requests, x \in Booked, Commit(y), SameStoredKey(y, x)
        PROVE  FALSE
    BY <2>4, CommitStep DEF KeysConsistent, KeyTaken
  <2>5. ~ (Commit(a) /\ Commit(b))
    BY <2>2, CommitStep DEF SameStoredKey
  <2> QED
    BY <1>1, <2>2, <2>3, <2>4, <2>5, TableStep
<1>2. ASSUME NEW a \in Requests, a \in Booked', dto'[a].key \in Keys
      PROVE  idempotency'[dto'[a].key] = a
  <2>1. CASE a \in Booked
    <3>1. dto'[a] = dto[a]
      BY <2>1, TableStep DEF Keeps
    <3>2. idempotency[dto[a].key] = a /\ a # Nobody
      BY <1>2, <2>1, <3>1, BookingAssumption DEF KeyBookedOnce, HasKey, KeyOf
    <3> QED
      BY <1>2, <3>1, <3>2, RecordKept
  <2>2. CASE Commit(a)
    BY <1>2, <2>2, CommitStep, CommitRecord DEF HasKey, KeyOf
  <2> QED
    BY <1>2, <2>1, <2>2, TableStep
<1>3. ASSUME NEW p \in Requests, resp'[p].status = 201, dto'[p].key \in Keys
      PROVE  resp'[p].appointment = idempotency'[dto'[p].key]
  <2>1. CASE resp'[p] = resp[p] /\ dto'[p] = dto[p]
    BY <1>3, <2>1, RecordKept DEF KeyBookedOnce, OwnBookingWithoutKey, HasKey, KeyOf
  <2>2. CASE Commit(p)
    <3>1. dto' = dto /\ resp'[p].appointment = p
      BY <2>2, CommitStep
    <3>2. HasKey(p) => idempotency'[KeyOf(p)] = p
      BY <2>2, CommitRecord
    <3> QED
      BY <1>3, <3>1, <3>2 DEF HasKey, KeyOf
  <2>3. CASE resp'[p].appointment = idempotency[dto'[p].key] /\ idempotency' = idempotency
    BY <2>3
  <2> QED
    BY <1>3, <2>1, <2>2, <2>3, AnswerStep
<1>4. Booked' \subseteq Requests
  BY DEF Booked
<1> QED
  BY <1>1, <1>2, <1>3, <1>4 DEF KeyBookedOnce, HasKey, KeyOf

LEMMA EventsWrittenKept == BookingInv /\ [Next]_vars => EventsWritten'
<1> SUFFICES ASSUME BookingInv, [Next]_vars
             PROVE  EventsWritten'
  OBVIOUS
<1> USE DEF BookingInv, TypeOK, EventsWritten, Booked, Active
<1>1. CASE UNCHANGED <<status, outbox>>
  BY <1>1
<1>2. ASSUME NEW p \in Requests, Commit(p)
      PROVE  EventsWritten'
  <2>1. status[p] = "ABSENT"
    BY <1>2 DEF Commit, Progress
  <2>2. Booked' = Booked \union {p} /\ (Booked \ Active)' = Booked \ Active
    BY <1>2, <2>1 DEF Commit
  <2>3. outbox' = outbox \union {[type |-> "appointment.created", appointment |-> p]}
    BY <1>2 DEF Commit, Publish
  <2> HIDE DEF Booked, Active
  <2> QED
    BY <2>2, <2>3
<1>3. ASSUME NEW p \in Requests, Cancel(p)
      PROVE  EventsWritten'
  <2>1. Booked' = Booked /\ (Booked \ Active)' = (Booked \ Active) \union {p}
    BY <1>3 DEF Cancel
  <2>2. outbox' = outbox \union {[type |-> "appointment.cancelled", appointment |-> p]}
    BY <1>3 DEF Cancel, Publish
  <2> HIDE DEF Booked, Active
  <2> QED
    BY <2>1, <2>2
<1> QED
  BY <1>1, <1>2, <1>3, ChangeStep

\* A request reaches its last lookup by a failed insert.
LEMMA DuplicatePending ==
    ASSUME BookingInv, [Next]_vars, NEW q \in Requests, pc'[q] = "duplicate"
    PROVE  (pc[q] = "duplicate" \/ InsertDuplicate(q)) /\ dto'[q] = dto[q]
<1> USE DEF BookingInv, TypeOK, Goto
<1>1. ASSUME NEW p \in Requests, Arrive(p) \/ RecheckHit(p) \/ RecheckMiss(p) \/ Insert(p)
      PROVE  pc[q] = "duplicate"
  BY <1>1 DEF Arrive, ReplaySaved, RejectInvalid, BeginTransaction, RecheckHit, RecheckMiss, FindAt, Insert
<1>2. ASSUME NEW p \in Requests, NEW k \in Kinds, Find(p, k) \/ Skip(p, k) \/ Lock(p, k) \/ Refuse(p, k)
      PROVE  pc[q] = "duplicate"
  BY <1>2 DEF Find, Skip, Lock, Refuse, Kinds, ScanAt, AfterLock
<1>3. ASSUME NEW p \in Requests,
             InsertDangling(p) \/ Respond(p) \/ ResolveDuplicate(p) \/ Suggest(p) \/ Fail(p)
      PROVE  pc[q] = "duplicate"
  BY <1>3 DEF InsertDangling, Respond, ResolveDuplicate, Suggest, Fail
<1>4. ASSUME NEW p \in Requests, Commit(p) \/ Cancel(p)
      PROVE  pc[q] = "duplicate"
  BY <1>4 DEF Commit, Cancel
<1>5. ASSUME Tick \/ ChangeRegistry \/ UNCHANGED vars
      PROVE  pc[q] = "duplicate"
  BY <1>5 DEF Tick, ChangeRegistry, vars
<1>6. ASSUME NEW p \in Requests, InsertDuplicate(p)
      PROVE  pc[q] = "duplicate" \/ p = q
  BY <1>6 DEF InsertDuplicate
<1>7. pc[q] = "duplicate" \/ InsertDuplicate(q)
  BY <1>1, <1>2, <1>3, <1>4, <1>5, <1>6 DEF Next, Proceed, AllAnswered
<1>8. ~ Arrive(q) /\ \A k \in Kinds : ~ Lock(q, k)
  BY <1>7, ArrivalStep, LockStep DEF InsertDuplicate, ScanAt, Kinds
<1> QED
  BY <1>7, <1>8, HoldingsStep DEF Keeps, Drops

\* A key in the table is never taken out again.
LEMMA DuplicateKept == BookingInv /\ [Next]_vars => DuplicateMeansTaken'
<1> SUFFICES ASSUME BookingInv, [Next]_vars, NEW p \in Requests, pc'[p] = "duplicate"
             PROVE  \E q \in Booked' : SameStoredKey(p, q)'
  BY DEF DuplicateMeansTaken, KeyTaken
<1> USE DEF BookingInv
<1>1. KeyTaken(p) /\ dto'[p] = dto[p]
  BY DuplicatePending DEF DuplicateMeansTaken, InsertDuplicate
<1>2. PICK q \in Booked : SameStoredKey(p, q)
  BY <1>1 DEF KeyTaken
<1>3. q \in Booked' /\ dto'[q] = dto[q]
  BY <1>2, TableStep DEF Booked, Keeps
<1> QED
  BY <1>1, <1>2, <1>3 DEF SameStoredKey, KeyOf

\* A row that an open transaction has locked or an appointment refers to is not deleted.
LEMMA RegistryStep ==
    ASSUME BookingInv, [Next]_vars
    PROVE  /\ \A r \in Registered : RowLocked(r) \/ Referenced(r) => r \in Registered'
           /\ \A p \in Requests : Insert(p) \/ Commit(p) \/ (\E k \in Kinds : Lock(p, k)) => UNCHANGED registry
<1> USE DEF BookingInv, TypeOK
<1>1. ASSUME NEW p \in Requests, Arrive(p) \/ RecheckHit(p) \/ RecheckMiss(p) \/ Insert(p)
      PROVE  UNCHANGED registry
  BY <1>1 DEF Arrive, ReplaySaved, RejectInvalid, BeginTransaction, RecheckHit, RecheckMiss, Insert
<1>2. ASSUME NEW p \in Requests, NEW k \in Kinds, Find(p, k) \/ Skip(p, k) \/ Lock(p, k) \/ Refuse(p, k)
      PROVE  UNCHANGED registry
  BY <1>2 DEF Find, Skip, Lock, Refuse
<1>3. ASSUME NEW p \in Requests,
             InsertDuplicate(p) \/ InsertDangling(p) \/ Respond(p) \/ ResolveDuplicate(p) \/ Suggest(p) \/ Fail(p)
      PROVE  UNCHANGED registry
  BY <1>3 DEF InsertDuplicate, InsertDangling, Respond, ResolveDuplicate, Suggest, Fail
<1>4. ASSUME NEW p \in Requests, Commit(p) \/ Cancel(p)
      PROVE  UNCHANGED registry
  BY <1>4 DEF Commit, Cancel
<1>5. ASSUME Tick \/ UNCHANGED vars
      PROVE  UNCHANGED registry
  BY <1>5 DEF Tick, vars
<1>6. ASSUME ChangeRegistry, NEW r \in Registered, RowLocked(r) \/ Referenced(r)
      PROVE  r \in Registered'
  BY <1>6 DEF ChangeRegistry, Register, Remove, Registered
<1>7. \A r \in Registered : UNCHANGED registry => r \in Registered'
  BY DEF Registered
<1>8. UNCHANGED registry \/ ChangeRegistry
  BY <1>1, <1>2, <1>3, <1>4, <1>5 DEF Next, Proceed, AllAnswered
<1> QED
  BY <1>1, <1>2, <1>4, <1>6, <1>7, <1>8

\* What a search has locked stays in its table until the row that refers to it is there.
LEMMA ReferencesKept == BookingInv /\ [Next]_vars => ReferencesExist'
<1> SUFFICES ASSUME BookingInv, [Next]_vars, NEW p \in Requests
             PROVE  /\ \A k \in Kinds : claim'[p][k] # Nobody => claim'[p][k] \in Registered'
                    /\ pc'[p] = "commit" \/ p \in Booked' => dto'[p].customer \in Registered'
  BY DEF ReferencesExist
<1> USE DEF BookingInv
<1>1. ASSUME NEW k \in Kinds, claim[p][k] # Nobody
      PROVE  claim[p][k] \in Registered'
  <2>1. p \in Booked \/ InTransaction(p)
    BY <1>1 DEF TypeOK, HoldingsFollowSteps, HoldsBay, HoldsTechnician, InTransaction, TransactionSteps, Kinds
  <2>2. RowLocked(claim[p][k]) \/ Referenced(claim[p][k])
    BY <2>1 DEF RowLocked, Referenced
  <2> QED
    BY <1>1, <2>2, RegistryStep DEF ReferencesExist
<1>2. ASSUME NEW k \in Kinds, claim'[p][k] # Nobody
      PROVE  claim'[p][k] \in Registered'
  <2>1. CASE Keeps(p)
    BY <1>1, <1>2, <2>1 DEF Keeps
  <2>2. CASE Drops(p) \/ Arrive(p)
    BY <1>2, <2>2, ArrivalStep DEF Drops, Unclaimed, statement
  <2>3. ASSUME NEW j \in Kinds, Lock(p, j)
        PROVE  claim'[p][k] \in Registered'
    <3>1. CASE j = k
      BY <2>3, <3>1, LockStep DEF Registered
    <3>2. CASE j # k
      BY <1>1, <1>2, <2>3, <3>2, LockStep
    <3> QED
      BY <3>1, <3>2
  <2> QED
    BY <2>1, <2>2, <2>3, HoldingsStep
<1>3. ASSUME pc[p] = "commit" \/ p \in Booked
      PROVE  dto[p].customer \in Registered'
  <2>1. RowLocked(dto[p].customer) \/ Referenced(dto[p].customer)
    BY <1>3 DEF RowLocked, Referenced
  <2> QED
    BY <1>3, <2>1, RegistryStep DEF ReferencesExist
<1>4. ASSUME pc'[p] = "commit"
      PROVE  dto'[p].customer \in Registered'
  <2>1. CASE Insert(p)
    BY <1>4, <2>1, CommitPending, RegistryStep DEF Insert, ReferencedRowsExist, Registered
  <2> QED
    BY <1>3, <1>4, <2>1, CommitPending
<1>5. ASSUME p \in Booked'
      PROVE  dto'[p].customer \in Registered'
  BY <1>3, <1>5, TableStep, CommitStep DEF Keeps
<1> QED
  BY <1>2, <1>4, <1>5

-----------------------------------------------------------------------------
(* The theorems. *)

\* BookingInv holds in every reachable state of create() under any interleaving of
\* requests, failures and cancellations: the invariant the theorems below draw on.
THEOREM BookingInvariance == Spec => []BookingInv
<1>1. BookingInv /\ [Next]_vars => BookingInv'
  BY TypesKept, ProgressKept, ExclusiveRowsKept, ClaimsEligibleKept, ScanSoundKept, HeldRowsFreeKept,
     KeysConsistentKept, OwnBookingKept, EventsWrittenKept, DuplicateKept,
     ReferencesKept, DoubleBookingKept, KeyBookedOnceKept
     DEF BookingInv
<1> QED
  BY InitImpliesInv, <1>1, PTL DEF Spec

\* No deletion leaves an appointment, or a transaction about to insert one, without
\* its bay, technician or customer, however it falls between the search and the insert.
THEOREM ReferencesAlwaysExist == Spec => []ReferencesExist
<1>1. BookingInv => ReferencesExist
  BY DEF BookingInv
<1> QED
  BY BookingInvariance, <1>1, PTL

\* A request whose insert met its key finds the saved response, unless its key is the
\* empty one: the commit that took the key has saved the response with it.
THEOREM DuplicatesAreResolved == Spec => []DuplicateIsResolved
<1>1. BookingInv => DuplicateIsResolved
  <2> SUFFICES ASSUME BookingInv, NEW p \in Requests, pc[p] = "duplicate", KeyOf(p) # EmptyKey
               PROVE  Saved(KeyOf(p))
    BY DEF DuplicateIsResolved
  <2> USE DEF BookingInv
  <2>1. PICK q \in Booked : SameStoredKey(p, q)
    BY DEF DuplicateMeansTaken, KeyTaken
  <2>2. KeyOf(p) \in Keys
    BY <2>1, BookingAssumption DEF Progress, SameStoredKey, KeyOf
  <2>3. idempotency[KeyOf(p)] = q /\ q # Nobody
    BY <2>1, <2>2, BookingAssumption DEF KeyBookedOnce, SameStoredKey, HasKey, Booked
  <2> QED
    BY <2>2, <2>3 DEF Saved
<1> QED
  BY BookingInvariance, <1>1, PTL

\* The variables keep their types, and bays, technicians and snapshots are held
\* exactly in the steps of the transaction that should hold them.
THEOREM TypeCorrect == Spec => []TypeOK
<1>1. BookingInv => TypeOK
  BY DEF BookingInv
<1> QED
  BY BookingInvariance, <1>1, PTL

\* The search, the row locks and the rollbacks of create() let two live appointments
\* overlap on a bay or technician only through a lock taken on a stale snapshot.
THEOREM StaleReadIsTheOnlyWay == Spec => []DoubleBookingNeedsStaleRead
<1>1. BookingInv => DoubleBookingNeedsStaleRead
  BY DEF BookingInv
<1> QED
  BY BookingInvariance, <1>1, PTL

\* However retries with one idempotency key interleave and fail, it books once, and
\* every success answered for it names that one booking.
THEOREM KeyIsBookedOnce == Spec => []KeyBookedOnce
<1>1. BookingInv => KeyBookedOnce
  BY DEF BookingInv
<1> QED
  BY BookingInvariance, <1>1, PTL

\* A client told 201 has an appointment that is committed with its event, on a bay
\* and with a technician that satisfy the request it was made for.
THEOREM SuccessesAreDurable == Spec => []SuccessIsDurable
<1>1. BookingInv => SuccessIsDurable
  <2> SUFFICES ASSUME BookingInv, NEW p \in Requests, resp[p].status = 201
               PROVE  LET a == resp[p].appointment
                      IN  /\ a \in Booked
                          /\ [type |-> "appointment.created", appointment |-> a] \in outbox
                          /\ \A k \in Kinds : claim[a][k] \in Eligible(k, dto[a])
                          /\ a # p => SameStoredKey(p, a)
    BY DEF SuccessIsDurable
  <2> DEFINE a == resp[p].appointment
  <2> USE DEF BookingInv
  <2>1. a \in Booked /\ (a # p => SameStoredKey(p, a))
    <3>1. CASE HasKey(p)
      <4>1. a = idempotency[KeyOf(p)] /\ a # Nobody /\ KeyOf(p) \in Keys /\ KeyOf(p) # NoKey
        BY <3>1, BookingAssumption DEF KeyBookedOnce, OwnBookingWithoutKey, HasKey
      <4>2. a \in Booked /\ KeyOf(a) = KeyOf(p)
        BY <4>1 DEF KeysConsistent
      <4> QED
        BY <4>1, <4>2 DEF SameStoredKey
    <3>2. CASE ~ HasKey(p)
      BY <3>2 DEF OwnBookingWithoutKey
    <3> QED
      BY <3>1, <3>2
  <2>2. \A k \in Kinds : claim[a][k] \in Eligible(k, dto[a])
    <3>1. a \in Requests
      BY <2>1 DEF Booked
    <3>2. \A k \in Kinds : claim[a][k] # Nobody
      BY <2>1, <3>1 DEF TypeOK, HoldingsFollowSteps, Kinds
    <3> QED
      BY <3>1, <3>2 DEF ClaimsEligible
  <2>3. [type |-> "appointment.created", appointment |-> a] \in outbox
    BY <2>1 DEF EventsWritten
  <2> QED
    BY <2>1, <2>2, <2>3
<1> QED
  BY BookingInvariance, <1>1, PTL

\* No later step of create(), no failure and no cancellation undoes what a commit has
\* written: appointments, saved responses and events stay.
THEOREM CommitsAlwaysStand == Spec => CommitsStand
<1>1. BookingInv /\ [Next]_vars => StillCommitted
  <2> SUFFICES ASSUME BookingInv, [Next]_vars
               PROVE  StillCommitted
    OBVIOUS
  <2>1. ASSUME NEW a \in Booked
        PROVE  a \in Booked' /\ claim'[a] = claim[a] /\ dto'[a] = dto[a]
    BY TableStep DEF Booked, Keeps
  <2>2. ASSUME NEW a \in Booked, status'[a] = "CONFIRMED"
        PROVE  status[a] = "CONFIRMED"
    <3>1. a \in Requests /\ a \in Active'
      BY <2>2 DEF Booked, Active
    <3>2. ~ Commit(a)
      BY <3>1, CommitStep
    <3> QED
      BY <3>1, <3>2, TableStep DEF Active
  <2>3. \A key \in Keys : Saved(key) => idempotency'[key] = idempotency[key]
    BY RecordKept DEF Saved
  <2>4. outbox \subseteq outbox'
    BY ChangeStep DEF Commit, Cancel, Publish
  <2> QED
    BY <2>1, <2>2, <2>3, <2>4 DEF StillCommitted
<1> QED
  BY <1>1, BookingInvariance, PTL DEF Spec, CommitsStand

=============================================================================
