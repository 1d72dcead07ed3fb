-------------------------------- MODULE Booking --------------------------------
(***************************************************************************)
(* POST /appointments: AppointmentsService.create running concurrently for *)
(* several requests against one PostgreSQL database at READ COMMITTED.     *)
(*                                                                         *)
(* A request walks through the idempotency lookup and the validations, and *)
(* then through one transaction: the second idempotency lookup, the search *)
(* for a bay, the search for a technician, the inserts and the commit.     *)
(* The two searches are the same statement over different tables, so they  *)
(* are written once, for a kind of resource k.                             *)
(*                                                                         *)
(* SELECT ... LIMIT 1 FOR UPDATE SKIP LOCKED is two steps and more: Find   *)
(* takes the statement's snapshot and computes the rows that satisfy the   *)
(* WHERE clause in it; then the rows are tried one at a time, skipped if   *)
(* another transaction holds them, locked otherwise.  A row that was only  *)
(* locked, never updated, by a transaction that has ended since is locked  *)
(* without the WHERE clause being evaluated again.                         *)
(*                                                                         *)
(* An appointment is named by the request that books it: its row holds     *)
(* dto[p] and claim[p], and is in the table when status[p] is not ABSENT.  *)
(*                                                                         *)
(* Bays, technicians and customers are created and deleted meanwhile.  A   *)
(* customer stands for the customer and the vehicle that a body names.     *)
(***************************************************************************)
EXTENDS Slots

CONSTANTS
    Requests,      \* handled requests; a retry is another request
    Bays, Technicians, Dealerships, Customers,
    HomeOf,        \* bay or technician -> dealership
    Skills,        \* technician -> specializations
    Keys,          \* idempotency keys that are not the empty string
    EmptyKey,      \* the header is sent and empty
    NoKey,         \* the header is absent
    Nobody,        \* no resource, no appointment
    Inputs,        \* request bodies with their key
    Instants,      \* values the clock goes through
    Newcomers,     \* rows created while requests are handled
    Removable      \* rows that somebody may ask to delete

ASSUME BookingAssumption ==
    /\ HomeOf \in [Bays \union Technicians -> Dealerships]
    /\ DOMAIN Skills = Technicians
    /\ Inputs \subseteq [dealership : Dealerships, service : STRING, start : Nat,
                         customer : Customers, key : Keys \union {EmptyKey, NoKey}]
    /\ EmptyKey \notin Keys /\ NoKey \notin Keys /\ EmptyKey # NoKey
    /\ Nobody \notin Requests \union Bays \union Technicians
    /\ Instants \subseteq Nat
    /\ Newcomers \union Removable \subseteq Bays \union Technicians \union Customers

VARIABLES
    pc,            \* where each request is in create()
    dto,           \* its body and key, the data of its appointment row
    claim,         \* the bay and technician it holds or has booked
    cand,          \* rows the current locking SELECT has still to try
    seen,          \* ghost: appointments in that SELECT's snapshot
    stale,         \* ghost: kinds locked after a booking its snapshot misses
    status,        \* appointment rows
    idempotency,   \* idempotency_records: key -> appointment replayed
    outbox,        \* outbox_events
    metrics,       \* appointment_bookings_total by outcome
    resp,          \* the answer given to each request
    registry,      \* rows of service_bays, technicians, customers and vehicles
    now

vars == <<pc, dto, claim, cand, seen, stale, status, idempotency, outbox, metrics, resp, registry, now>>

-----------------------------------------------------------------------------

Kinds == {"bay", "tech"}
Pool == [bay |-> Bays, tech |-> Technicians]
Outcomes == {"created", "conflict_bay", "conflict_tech", "cancelled"}

FindAt == [bay |-> "findBay", tech |-> "findTech"]
ScanAt == [bay |-> "scanBay", tech |-> "scanTech"]
AfterLock == [bay |-> "findTech", tech |-> "insert"]
ConflictOutcome == [bay |-> "conflict_bay", tech |-> "conflict_tech"]

TransactionSteps == {"recheck", "findBay", "scanBay", "findTech", "scanTech", "insert", "commit"}
Steps == TransactionSteps \union {"idle", "duplicate", "suggest", "respond", "done"}

Unclaimed == [k \in Kinds |-> Nobody]
NoAnswer == [status |-> 0, appointment |-> Nobody, slot |-> NoSlot]
Answer(code, appointment, slot) == [status |-> code, appointment |-> appointment, slot |-> slot]

Entities == Bays \union Technicians \union Customers
Registered == {r \in Entities : registry[r] = "present"}

\* Mutant: an error after the commit is handled as one inside the transaction.
InTransactionUntilAnswered(p) == pc[p] \in TransactionSteps \union {"respond"}

InTransaction(p) == pc[p] \in TransactionSteps
Booked == {p \in Requests : status[p] # "ABSENT"}
Active == {p \in Requests : status[p] = "CONFIRMED"}

KeyOf(p) == dto[p].key
HasKey(p) == KeyOf(p) \in Keys      \* `if (idempotencyKey)`: the empty string is falsy
EndOf(p) == ComputeEndTime(dto[p].start, dto[p].service)

SameWindow(a, p) == Overlaps(dto[a].start, EndOf(a), dto[p].start, EndOf(p))

Eligible(k, d) ==
    {r \in Pool[k] : HomeOf[r] = d.dealership /\ (k = "tech" => d.service \in Skills[r])}

\* Mutant: only a booking at the very same start is in the way.
FreeAtSameStart(k, p) ==
    {r \in Eligible(k, dto[p]) \intersect Registered :
        ~ \E a \in Active : claim[a][k] = r /\ dto[a].start = dto[p].start}

\* Mutant: the specializations are not compared with the service.
FreeAtDealership(k, p) ==
    {r \in Pool[k] \intersect Registered :
        /\ HomeOf[r] = dto[p].dealership
        /\ ~ \E a \in Active : claim[a][k] = r /\ SameWindow(a, p)}

\* The rows of the WHERE clause, in the present state of the appointments table.
FreeRows(k, p) ==
    {r \in Eligible(k, dto[p]) \intersect Registered :
        ~ \E a \in Active : claim[a][k] = r /\ SameWindow(a, p)}

\* Mutant: the row locks end with the searches, not with the transaction.
LockedWhileSearching(k, r, p) ==
    \E q \in Requests \ {p} : pc[q] \in {"findTech", "scanTech"} /\ claim[q][k] = r

LockedByOther(k, r, p) == \E q \in Requests \ {p} : InTransaction(q) /\ claim[q][k] = r

\* A booking of r committed after the snapshot of p's current statement.
Unseen(k, r, p) == \E a \in Booked \ seen[p] : claim[a][k] = r

Acceptable(d) ==
    /\ d.start > now
    /\ d.service \in DOMAIN ServiceCatalog
    /\ ValidOperatingHours(d.start, ComputeEndTime(d.start, d.service))

DealershipJobs(dealership) ==
    {[bay |-> claim[a]["bay"], tech |-> claim[a]["tech"], start |-> dto[a].start, end |-> EndOf(a)] :
        a \in {b \in Active : dto[b].dealership = dealership}}

\* findNextAvailable(dto.dealershipId, dto.serviceType, startTime).
SuggestedSlot(d) ==
    FindNextAvailable(DealershipJobs(d.dealership), Eligible("bay", d) \intersect Registered,
                      Eligible("tech", d) \intersect Registered, d.service, d.start)

Goto(p, step) == pc' = [pc EXCEPT ![p] = step]
Reply(p, r) == resp' = [resp EXCEPT ![p] = r]

\* Mutant: the event is not written with the row.
PublishNothing(type, a) == UNCHANGED outbox

Publish(type, a) == outbox' = outbox \union {[type |-> type, appointment |-> a]}
Count(outcome) == metrics' = [metrics EXCEPT ![outcome] = @ + 1]

\* Mutant: a rollback forgets to give up the row locks.
RollbackKeepingRows(p) ==
    /\ cand' = [cand EXCEPT ![p] = {}]
    /\ seen' = [seen EXCEPT ![p] = {}]
    /\ UNCHANGED <<claim, stale>>

\* Rolling back gives up the row locks; the inserts of p are not yet in any table.
Rollback(p) ==
    /\ claim' = [claim EXCEPT ![p] = Unclaimed]
    /\ cand' = [cand EXCEPT ![p] = {}]
    /\ seen' = [seen EXCEPT ![p] = {}]
    /\ stale' = [stale EXCEPT ![p] = {}]

tables == <<status, idempotency, outbox>>
statement == <<claim, cand, seen, stale>>

-----------------------------------------------------------------------------

NoInput == [dealership |-> Nobody, service |-> "NONE", start |-> 0, customer |-> Nobody, key |-> NoKey]

Init ==
    /\ pc = [p \in Requests |-> "idle"]
    /\ dto = [p \in Requests |-> NoInput]
    /\ claim = [p \in Requests |-> Unclaimed]
    /\ cand = [p \in Requests |-> {}]
    /\ seen = [p \in Requests |-> {}]
    /\ stale = [p \in Requests |-> {}]
    /\ status = [p \in Requests |-> "ABSENT"]
    /\ idempotency = [key \in Keys |-> Nobody]
    /\ outbox = {}
    /\ metrics = [o \in Outcomes |-> 0]
    /\ resp = [p \in Requests |-> NoAnswer]
    /\ registry = [r \in Entities |-> IF r \in Newcomers THEN "future" ELSE "present"]
    /\ now \in Instants /\ \A t \in Instants : now <= t

(***************************************************************************)
(* Before the transaction.  A request arrives with some input d and looks  *)
(* its key up.  A saved response is returned without validating d.         *)
(***************************************************************************)

\* Mutant: the response of an appointment cancelled since is not replayed.
SavedLive(key) ==
    key \in Keys /\ idempotency[key] # Nobody /\ status[idempotency[key]] = "CONFIRMED"

Saved(key) == key \in Keys /\ idempotency[key] # Nobody

ReplaySaved(p, d) ==
    /\ pc[p] = "idle" /\ Saved(d.key)
    /\ dto' = [dto EXCEPT ![p] = d]
    /\ Reply(p, Answer(201, idempotency[d.key], NoSlot))
    /\ Goto(p, "done")
    /\ UNCHANGED <<statement, tables, metrics, registry, now>>

RejectInvalid(p, d) ==
    /\ pc[p] = "idle" /\ ~ Saved(d.key) /\ ~ Acceptable(d)
    /\ dto' = [dto EXCEPT ![p] = d]
    /\ Reply(p, Answer(400, Nobody, NoSlot))
    /\ Goto(p, "done")
    /\ UNCHANGED <<statement, tables, metrics, registry, now>>

BeginTransaction(p, d) ==
    /\ pc[p] = "idle" /\ ~ Saved(d.key) /\ Acceptable(d)
    /\ dto' = [dto EXCEPT ![p] = d]
    /\ Goto(p, "recheck")
    /\ UNCHANGED <<statement, tables, metrics, resp, registry, now>>

Arrive(p) == \E d \in Inputs : ReplaySaved(p, d) \/ RejectInvalid(p, d) \/ BeginTransaction(p, d)

(***************************************************************************)
(* Inside the transaction.                                                 *)
(***************************************************************************)
RecheckHit(p) ==
    /\ pc[p] = "recheck" /\ Saved(KeyOf(p))
    /\ Reply(p, Answer(201, idempotency[KeyOf(p)], NoSlot))
    /\ Goto(p, "respond")
    /\ UNCHANGED <<dto, statement, tables, metrics, registry, now>>

\* Mutant: the key is recorded before the searches, outside of the transaction.
RecheckMissRecording(p) ==
    /\ pc[p] = "recheck" /\ ~ Saved(KeyOf(p))
    /\ idempotency' = IF HasKey(p) THEN [idempotency EXCEPT ![KeyOf(p)] = p] ELSE idempotency
    /\ Goto(p, FindAt["bay"])
    /\ UNCHANGED <<dto, statement, status, outbox, metrics, resp, registry, now>>

RecheckMiss(p) ==
    /\ pc[p] = "recheck" /\ ~ Saved(KeyOf(p))
    /\ Goto(p, FindAt["bay"])
    /\ UNCHANGED <<dto, statement, tables, metrics, resp, registry, now>>

\* The locking SELECT starts: snapshot and WHERE clause.
Find(p, k) ==
    /\ pc[p] = FindAt[k]
    /\ seen' = [seen EXCEPT ![p] = Booked]
    /\ cand' = [cand EXCEPT ![p] = FreeRows(k, p)]
    /\ Goto(p, ScanAt[k])
    /\ UNCHANGED <<dto, claim, stale, tables, metrics, resp, registry, now>>

\* Mutant: a row deleted since the snapshot is taken all the same.
LockableThoughDeleted(k, r, p) == ~ LockedByOther(k, r, p)

Lockable(k, r, p) == r \in Registered /\ ~ LockedByOther(k, r, p)

\* SKIP LOCKED, which also leaves out a row deleted since the snapshot.  There is no
\* ORDER BY: rows are tried in any order.
Skip(p, k) ==
    /\ pc[p] = ScanAt[k]
    /\ \E r \in cand[p] :
          /\ ~ Lockable(k, r, p)
          /\ cand' = [cand EXCEPT ![p] = @ \ {r}]
    /\ UNCHANGED <<pc, dto, claim, seen, stale, tables, metrics, resp, registry, now>>

\* FOR UPDATE takes the first row that is not locked, and LIMIT 1 ends the scan.
Lock(p, k) ==
    /\ pc[p] = ScanAt[k]
    /\ \E r \in cand[p] :
          /\ Lockable(k, r, p)
          /\ claim' = [claim EXCEPT ![p][k] = r]
          /\ stale' = [stale EXCEPT ![p] = IF Unseen(k, r, p) THEN @ \union {k} ELSE @]
    /\ cand' = [cand EXCEPT ![p] = {}]
    /\ seen' = [seen EXCEPT ![p] = {}]
    /\ Goto(p, AfterLock[k])
    /\ UNCHANGED <<dto, tables, metrics, resp, registry, now>>

\* No row: the outcome is counted, ConflictException rolls the transaction back.
Refuse(p, k) ==
    /\ pc[p] = ScanAt[k] /\ cand[p] = {}
    /\ Count(ConflictOutcome[k])
    /\ Rollback(p)
    /\ Goto(p, "suggest")
    /\ UNCHANGED <<dto, tables, resp, registry, now>>

\* The unique index on idempotency_key, where NULLs (no key) never clash.
SameStoredKey(p, q) == q # p /\ KeyOf(p) # NoKey /\ KeyOf(q) = KeyOf(p)

\* Mutants: an uncommitted key is not waited for; a waiting insert is waited for as well.
KeyNeverPending(p) == FALSE
KeyInsertingOrWaiting(p) == \E q \in Requests : SameStoredKey(p, q) /\ pc[q] \in {"insert", "commit"}

KeyInserting(p) == \E q \in Requests : SameStoredKey(p, q) /\ pc[q] = "commit"

\* Mutant: cancelling an appointment frees its key.
KeyTakenByLive(p) == \E q \in Active : SameStoredKey(p, q)

KeyTaken(p) == \E q \in Booked : SameStoredKey(p, q)

\* Mutant: the foreign keys to a customer and a vehicle are missing.
ResourcesExist(p) == \A k \in Kinds : claim[p][k] \in Registered

\* The foreign keys of appointments, looked at when the row is inserted.
ReferencedRowsExist(p) ==
    dto[p].customer \in Registered /\ \A k \in Kinds : claim[p][k] \in Registered

\* appointment.create, idempotencyRecord.create and outbox.publish, uncommitted.
\* An insert of a key that another open transaction has inserted waits for it.
Insert(p) ==
    /\ pc[p] = "insert" /\ ~ KeyInserting(p) /\ ~ KeyTaken(p) /\ ReferencedRowsExist(p)
    /\ Goto(p, "commit")
    /\ UNCHANGED <<dto, statement, tables, metrics, resp, registry, now>>

\* The key is already in the table: P2002, and the transaction rolls back.
InsertDuplicate(p) ==
    /\ pc[p] = "insert" /\ KeyTaken(p)
    /\ Rollback(p)
    /\ Goto(p, "duplicate")
    /\ UNCHANGED <<dto, tables, metrics, resp, registry, now>>

\* P2003 is not handled: nobody looks the customer or the vehicle up before.
InsertDangling(p) ==
    /\ pc[p] = "insert" /\ ~ KeyInserting(p) /\ ~ KeyTaken(p) /\ ~ ReferencedRowsExist(p)
    /\ Rollback(p)
    /\ Reply(p, Answer(500, Nobody, NoSlot))
    /\ Goto(p, "done")
    /\ UNCHANGED <<dto, tables, metrics, registry, now>>

Commit(p) ==
    /\ pc[p] = "commit"
    /\ status' = [status EXCEPT ![p] = "CONFIRMED"]
    /\ idempotency' = IF HasKey(p) THEN [idempotency EXCEPT ![KeyOf(p)] = p] ELSE idempotency
    /\ Publish("appointment.created", p)
    /\ Reply(p, Answer(201, p, NoSlot))
    /\ Goto(p, "respond")
    /\ UNCHANGED <<dto, statement, metrics, registry, now>>

(***************************************************************************)
(* After the transaction.                                                  *)
(***************************************************************************)

\* The counter is incremented whenever the transaction returned an appointment.
Respond(p) ==
    /\ pc[p] = "respond"
    /\ Count("created")
    /\ Goto(p, "done")
    /\ UNCHANGED <<dto, statement, tables, resp, registry, now>>

\* catch P2002: with a key, the saved response is looked up; else the error is rethrown.
ResolveDuplicate(p) ==
    /\ pc[p] = "duplicate"
    /\ Reply(p, IF Saved(KeyOf(p)) THEN Answer(201, idempotency[KeyOf(p)], NoSlot)
                                   ELSE Answer(500, Nobody, NoSlot))
    /\ Goto(p, "done")
    /\ UNCHANGED <<dto, statement, tables, metrics, registry, now>>

\* catch ConflictException: the 409 carries the next available slot, if any.
Suggest(p) ==
    /\ pc[p] = "suggest"
    /\ Reply(p, Answer(409, Nobody, SuggestedSlot(dto[p])))
    /\ Goto(p, "done")
    /\ UNCHANGED <<dto, statement, tables, metrics, registry, now>>

\* A database error, the transaction timeout or the end of the process.  An open
\* transaction rolls back; after the commit only the answer and the count are lost.
Fail(p) ==
    /\ pc[p] \notin {"idle", "done"}
    /\ IF InTransaction(p) THEN Rollback(p) ELSE UNCHANGED statement
    /\ Reply(p, Answer(500, Nobody, NoSlot))
    /\ Goto(p, "done")
    /\ UNCHANGED <<dto, tables, metrics, registry, now>>

\* DELETE /appointments/:id takes effect; its own races are in AppointmentLifecycle.
Cancel(a) ==
    /\ status[a] = "CONFIRMED"
    /\ status' = [status EXCEPT ![a] = "CANCELLED"]
    /\ Publish("appointment.cancelled", a)
    /\ Count("cancelled")
    /\ UNCHANGED <<pc, dto, statement, idempotency, resp, registry, now>>

(***************************************************************************)
(* The services of bays, technicians, customers and vehicles.  A deleted   *)
(* row's id is not used again.                                             *)
(***************************************************************************)
Register(r) ==
    /\ registry[r] = "future"
    /\ registry' = [registry EXCEPT ![r] = "present"]

\* Rows an open transaction has locked: FOR UPDATE, or for its foreign keys.
RowLocked(r) ==
    \E q \in Requests :
        \/ InTransaction(q) /\ \E k \in Kinds : claim[q][k] = r
        \/ pc[q] = "commit" /\ dto[q].customer = r

Referenced(r) == \E a \in Booked : dto[a].customer = r \/ \E k \in Kinds : claim[a][k] = r

\* DELETE waits for the row's lock and fails if any appointment refers to the row,
\* a cancelled one too.
Remove(r) ==
    /\ registry[r] = "present" /\ ~ RowLocked(r) /\ ~ Referenced(r)
    /\ registry' = [registry EXCEPT ![r] = "removed"]

ChangeRegistry ==
    /\ (\E r \in Newcomers : Register(r)) \/ (\E r \in Removable : Remove(r))
    /\ UNCHANGED <<pc, dto, statement, tables, metrics, resp, now>>

Tick ==
    /\ \E t \in Instants : now < t /\ now' = t
    /\ UNCHANGED <<pc, dto, statement, tables, metrics, resp, registry>>

AllAnswered == (\A p \in Requests : pc[p] = "done") /\ UNCHANGED vars

-----------------------------------------------------------------------------

\* What a request does by itself once it has arrived.
Proceed(p) ==
    \/ RecheckHit(p) \/ RecheckMiss(p)
    \/ \E k \in Kinds : Find(p, k) \/ Skip(p, k) \/ Lock(p, k) \/ Refuse(p, k)
    \/ Insert(p) \/ InsertDuplicate(p) \/ InsertDangling(p) \/ Commit(p)
    \/ Respond(p) \/ ResolveDuplicate(p) \/ Suggest(p)

Next ==
    \/ \E p \in Requests : Arrive(p) \/ Proceed(p) \/ Fail(p) \/ Cancel(p)
    \/ ChangeRegistry
    \/ Tick
    \/ AllAnswered

Spec == Init /\ [][Next]_vars

\* Node runs every pending continuation and PostgreSQL every statement: a request
\* that can go on does.  Nothing is assumed of arrivals, failures or cancellations.
Fairness == \A p \in Requests : WF_vars(Proceed(p))

FairSpec == Spec /\ Fairness

(***************************************************************************)
(* The same system when requests are handled one at a time.                *)
(***************************************************************************)
Quiet(p) == pc[p] \in {"idle", "done"}

SerialNext ==
    \/ \E p \in Requests : /\ \A q \in Requests \ {p} : Quiet(q)
                           /\ Arrive(p) \/ Proceed(p) \/ Fail(p)
    \/ /\ \A q \in Requests : Quiet(q)
       /\ ChangeRegistry \/ \E a \in Requests : Cancel(a)
    \/ Tick
    \/ AllAnswered

SerialSpec == Init /\ [][SerialNext]_vars

-----------------------------------------------------------------------------
(* Properties. *)

Event == [type : {"appointment.created", "appointment.cancelled"}, appointment : Requests]

Response ==
    [status : {0, 201, 400, 409, 500}, appointment : Requests \union {Nobody}, slot : Nat \union {NoSlot}]

HoldsTechnician == {"insert", "commit"}
HoldsBay == HoldsTechnician \union {"findTech", "scanTech"}

\* Which step may hold what: a bay from its search on, a technician from its search
\* on, until a rollback; candidate rows and a snapshot only while a SELECT runs.
HoldingsFollowSteps ==
    \A p \in Requests :
        /\ claim[p]["bay"] # Nobody <=> pc[p] \in HoldsBay \/ p \in Booked
        /\ claim[p]["tech"] # Nobody <=> pc[p] \in HoldsTechnician \/ p \in Booked
        /\ pc[p] \notin {"scanBay", "scanTech"} => cand[p] = {} /\ seen[p] = {}

\* The types of the variables, and the resources held match the step reached.
TypeOK ==
    /\ pc \in [Requests -> Steps]
    /\ dto \in [Requests -> Inputs \union {NoInput}]
    /\ claim \in [Requests -> [Kinds -> Bays \union Technicians \union {Nobody}]]
    /\ cand \in [Requests -> SUBSET (Bays \union Technicians)]
    /\ seen \in [Requests -> SUBSET Requests]
    /\ stale \in [Requests -> SUBSET Kinds]
    /\ status \in [Requests -> {"ABSENT", "CONFIRMED", "CANCELLED"}]
    /\ idempotency \in [Keys -> Requests \union {Nobody}]
    /\ outbox \subseteq Event
    /\ metrics \in [Outcomes -> Nat]
    /\ resp \in [Requests -> Response]
    /\ registry \in [Entities -> {"future", "present", "removed"}]
    /\ now \in Instants
    /\ HoldingsFollowSteps

\* Two live appointments share a bay or a technician at the same time only when
\* one of them locked that row after a booking its own SELECT had not seen: the
\* locks, the two searches and every rollback let no other double booking through.
DoubleBookingNeedsStaleRead ==
    \A a, b \in Active, k \in Kinds :
        a # b /\ claim[a][k] = claim[b][k] /\ SameWindow(a, b) => k \in stale[a] \union stale[b]

\* An idempotency key books at most once, whatever mix of retries, failures and
\* duplicates carries it; every success answered for a key names that booking.
KeyBookedOnce ==
    /\ \A a, b \in Booked : ~ SameStoredKey(a, b)
    /\ \A a \in Booked : HasKey(a) => idempotency[KeyOf(a)] = a
    /\ \A p \in Requests :
          resp[p].status = 201 /\ HasKey(p) => resp[p].appointment = idempotency[KeyOf(p)]

\* A success names an appointment that is committed, whose event is in the outbox,
\* and whose bay and technician belong to the dealership and know the service;
\* it is the request's own appointment or one booked with the same key.
SuccessIsDurable ==
    \A p \in Requests : resp[p].status = 201 =>
        LET a == resp[p].appointment
        IN  /\ a \in Booked
            /\ [type |-> "appointment.created", appointment |-> a] \in outbox
            /\ \A k \in Kinds : claim[a][k] \in Eligible(k, dto[a])
            /\ a # p => SameStoredKey(p, a)

\* Whatever is deleted meanwhile, an appointment never refers to a missing row, and
\* neither bay nor technician can vanish between the search that found it and the
\* insert: only a customer or a vehicle can make the insert fail.
ReferencesExist ==
    \A p \in Requests :
        /\ \A k \in Kinds : claim[p][k] # Nobody => claim[p][k] \in Registered
        /\ pc[p] = "commit" \/ p \in Booked => dto[p].customer \in Registered

StillCommitted ==
    /\ \A a \in Booked : /\ a \in Booked' /\ claim'[a] = claim[a] /\ dto'[a] = dto[a]
                         /\ status'[a] = "CONFIRMED" => status[a] = "CONFIRMED"
    /\ \A key \in Keys : Saved(key) => idempotency'[key] = idempotency[key]
    /\ outbox \subseteq outbox'

\* What a commit has written stands, whatever fails, is retried or is cancelled later:
\* an appointment keeps its bay, technician and data and once cancelled stays so, a
\* key's saved response is never another one, no event is taken back.
CommitsStand == [][StillCommitted]_vars

\* system-design.md:249: no double booking of a bay or of a technician.
NoDoubleBooking ==
    \A a, b \in Active, k \in Kinds :
        a # b /\ SameWindow(a, b) => claim[a][k] # claim[b][k]

\* appointments.controller.ts:33: a 409 says that no bay or technician is available
\* for the asked start, so the next available slot in it is not that start.
RefusedSlotNotOffered ==
    \A p \in Requests : resp[p].status = 409 => resp[p].slot # dto[p].start

\* system-design.md:403: when the same key is submitted simultaneously, the saved
\* response is returned: a request about to be refused has no saved response.
RetryNeverRefused == \A p \in Requests : pc[p] = "suggest" => ~ Saved(KeyOf(p))

Reservation(a) == [request |-> a, uses |-> claim[a], input |-> dto[a]]

Verdict(p) ==
    [status |-> IF pc[p] = "suggest" THEN 409 ELSE resp[p].status, appointment |-> resp[p].appointment]

Atomic ==
    INSTANCE Reservations WITH
        present  <- Registered,
        calendar <- {Reservation(a) : a \in Active},
        saved    <- idempotency,
        asked    <- dto,
        verdict  <- [p \in Requests |-> Verdict(p)]

\* Handled one at a time, with failures, cancellations and deletions between and inside
\* them, requests are decided as by Reservations: on the calendar at that moment,
\* never refused what is free or what they have booked already.
AsIfAtomic == Atomic!Spec

\* After P2002 the last lookup finds the saved response, as system-design.md:403 says,
\* except for the empty key: its row is unique too, but no response is saved for it.
DuplicateIsResolved ==
    \A p \in Requests : pc[p] = "duplicate" => Saved(KeyOf(p)) \/ KeyOf(p) = EmptyKey

\* Every request that arrives is answered: no wait for another transaction's key
\* and no scan over skipped rows goes on for ever.
EveryRequestAnswered == \A p \in Requests : pc[p] # "idle" ~> pc[p] = "done"

=============================================================================
