# Vehicle service scheduler: specification and proofs

TLA+ modules for the scheduling service in `src/` (NestJS, Prisma, PostgreSQL),
TLC configurations that check them on small instances, and proofs checked by
TLAPS. `PROJECT.json` lists, for every definition, the lines of code it stands for.

## 1. The system

| Component | State | Operations | Modelled in |
|---|---|---|---|
| `AppointmentsService.create` | appointments, idempotency records, outbox rows, the open transaction of each request | `POST /appointments` | `Booking`; what it promises: `Reservations` |
| `AvailabilityService` | row locks on bays and technicians, the snapshot of the running statement | `computeEndTime`, `findAvailableBay`, `findAvailableTechnician` | `OperatingHours`, `Booking` |
| `validateOperatingHours` | none | a check of start and end | `OperatingHours` |
| `SlotsService` | none (reads appointments, bays, technicians) | `findNextAvailable`, for a 409 and for `GET /slots/next-available` | `Slots` |
| `updateStatus`, `cancel` | one appointment row with its `updatedAt` | `PATCH /appointments/:id/status`, `DELETE /appointments/:id` | `AppointmentLifecycle`; what they promise: `Lifecycle` |
| `findAll`, `cursor.util` | none; the client keeps its page number or cursor | numbered pages, cursor pages, the filters | `Listing`, `DayFilter` |
| `OutboxService` | `outbox_events` | `publish` inside the writer's transaction | the committing actions of `Booking`, `AppointmentLifecycle`, `OutboxWorker` |
| `OutboxWorker` | row statuses, the open transaction of each poll, what listeners received | `poll`, `dispatch`, start and stop of the timer | `OutboxWorker`; what it promises: `Delivery` |
| customers, vehicles, bays, technicians | one table each | create, delete, look up | `registry` in `Booking` (creation and deletion) |
| metrics | `appointment_bookings_total` | increment | a variable of `Booking` and `AppointmentLifecycle` |
| wiring, health, tracing, throttling, seed | none of the service's own | | not modelled |

How they interact. `create` validates with `OperatingHours`, opens a transaction,
calls `AvailabilityService` twice on it, writes three tables, and after a refusal asks
`SlotsService` for another start. `create`, `updateStatus` and `cancel` write outbox
rows in their own transactions; `OutboxWorker` picks them up from the table. `findAll` reads
while the others write. All coordination goes through PostgreSQL at READ COMMITTED: there is
no lock in the process.

What is hard. Statements see a snapshot taken when they start, but locks are taken
row by row afterwards; `SKIP LOCKED` turns a wait into an answer; two requests with one
key race up to the unique index; rows that a search has chosen may be deleted before it holds
them; `updatedAt` is a clock reading used as a version; pages shift while a client turns them; a
poll may start before the last one ended; dispatching cannot be rolled back, and the loop that
dispatches may outlive its transaction; any step may be the last one of its process.

What makes each part correct:

* booking: no two live appointments share a resource at overlapping times; a key books
  once; a success is committed with its event; nothing refers to a deleted row; a refusal is
  justified; every request is answered;
* hours: a window is accepted exactly when one opening interval contains it;
* slots: the offered window is free, the earliest, and can be booked;
* lifecycle: concurrent changes look like single legal ones, each announced once;
* listing: a walk through all pages misses nothing that was there when it began, and goes
  forward;
* outbox: every event is delivered, in one transaction at a time, again only when a mark was
  lost, and in order.

Not all of these hold: section 5.

## 2. Modules

* `OperatingHours`: time, durations, `ValidOperatingHours`. An instant is a number of
  units from midnight UTC on a Sunday; `UnitsPerMinute` lets seconds exist, so that
  the code can ignore them.
* `DayFilter` (extends `OperatingHours`): the day a `date` parameter selects. Its end is
  computed on the wall clock of the process, whose zone may change its offset that day.
* `Slots` (extends `OperatingHours`): `FindNextAvailable` as an operator on a set of
  jobs, decomposed as the code is: fetched jobs, candidates, open starts, the minimum.
* `SlotSearch` (extends `Slots`, `DayFilter`): the pure computations next to reference
  definitions of what they should return, at every instant of a week and for every small set of
  jobs. The references know nothing of the algorithm: opening hours are six intervals, a start is
  open if no job occupies a resource at any of its instants.
* `Booking` (extends `Slots`): `create` for several requests. `pc` is the step reached
  between two awaits, `claim` the resources held or booked, `cand` and `seen` the rows
  and the snapshot of the running locking SELECT. An appointment is named by the
  request that books it, so `dto`, `claim` and `status` are its row. `stale` is a
  history variable: the resources locked after a booking that the SELECT had not seen.
  `registry` says which bays, technicians and customers exist: `Register` adds a newcomer,
  `Remove` deletes a row that no appointment refers to and nobody holds. `Cancel` is
  here a single step; its own races are in `AppointmentLifecycle`.
* `Reservations`: one calendar on which every request is decided in one step. `SerialSpec`
  of `Booking` implements it under the mapping at the end of `Booking` (`AsIfAtomic`).
* `Lifecycle`: the abstract life of an appointment. `AppointmentLifecycle`: the two
  handlers over one row, the token, the clock of each process and the row lock.
  `stalled` records that some update did not move `updatedAt` forward. `EventsTell` is what
  `Lifecycle` gives to a consumer who reads nothing but the events.
* `Listing`: one client that walks through all pages, by number or by cursor, while
  appointments are booked. The rows and the total of a numbered page are two statements
  (`ReadRows`, `ReadTotal`) in any order. A filter is a set of rows, because nothing it looks at
  is ever updated. `before` remembers what matched when the walk began, `undercounted` that the
  last total was read before its rows and misses some.
* `Delivery`: the abstract outbox. An event is published, shown to the listeners any number of
  times, and settled once, as DELIVERED only if it was shown. `OutboxWorker` implements it with
  its event table as the statuses and `delivered` as what was shown.
* `OutboxWorker`: polls of all instances over the event table. `undone` counts, per
  event, the deliveries whose mark was lost; `overlapped` records that a poll started while
  another one was running. `RollBack` ends a poll with its transaction. `TimeOut` ends only the
  transaction: the loop has the answer to its last statement, dispatches one event more
  (`DispatchLate`) and fails at the next statement. `Stop` is the timer cleared at shutdown.
* `BookingInvariant`: the inductive invariant of `Booking`. `BookingProofs`, `SerialProofs`,
  `SlotsProofs`, `SlotSearchProofs`, `LifecycleProofs`, `ListingProofs`, `OutboxProofs` and `OutboxOrderProofs`:
  theorems.
* `MC*`: instances for TLC, values of constants and in `MCBooking` also `ApartSpec`, `Spec` with
  requests whose windows never overlap. A definition preceded by "Mutant" is a wrong version of the
  one after it, there to show that a property notices the difference; no
  specification uses it.

Granularity. One action is what happens between two points at which other requests can
run: a statement, or a row of a locking SELECT. A row of `FOR UPDATE` that was merely
locked and never updated is taken without evaluating the WHERE clause again; a row that was
updated (`outbox_events`, `appointments`) is looked at again, and one that was deleted is
left out. Inserts are invisible until their commit, except that an insert of the same unique
key waits for it. All of this is how PostgreSQL behaves and is marked external in the map
where no line of `src/` shows it.

Data. Names, notes and payload contents are left out. A saved response is the appointment it
names. A service is a name in the catalogue or not. A technician is a set of services; a
dealership is where resources and requests are. A customer stands for the customer and the
vehicle that a request names, which the code treats alike: neither is looked up, both are
foreign keys of the insert.

`SearchSpan` of 7 days and the half-hour `SlotStep` are constants. `findNextAvailable` runs
its three queries together; the model evaluates them at one instant.

## 3. Runs

| Run | Specification | Instance | Shows |
|---|---|---|---|
| `booking` | `Spec` | 3 requests, 2 bays, 2 technicians of different skills, overlapping, adjacent and disjoint windows, no key, one key for two payloads and for a window past closing, the empty key; a technician and the customer may be deleted | `TypeOK`, `BookingInv`, `DoubleBookingNeedsStaleRead`, `KeyBookedOnce`, `SuccessIsDurable`, `DuplicateIsResolved`, `ReferencesExist`, `CommitsStand` |
| `booking_live` | `FairSpec` | a retried key and a request at a dealership that has nothing; a bay and the customer may be deleted | `EveryRequestAnswered` |
| `booking_serial` | `SerialSpec` | 3 requests one at a time, one for an unknown service; the clock passes a start; bays and the customer go, a technician comes | `NoDoubleBooking`, `RefusedSlotNotOffered`, `RetryNeverRefused`, `AsIfAtomic` |
| `slots` | `Spec` of `SlotSearch` | every instant of a week; every set of up to 3 jobs of 2 bays and 2 technicians; days in zones that change their offset | `WindowInsideOneDay`, `DayFilterExact`, `OfferIsFree`, `EarliestOnGrid` |
| `lifecycle` | `AdvancingSpec` | 3 requests, clocks up to 1 apart, a start in the future | `LifecycleInv`, `EventsTellHistory`, `LifecyclePromise` |
| `listing` | `Spec` | 5 appointments, 3 of them at one start, any of them booked before or during the walk; limits 0, 2 and 5 where 3 is the most; 2 filters | `TypeOK`, `WalkInv`, `InOrder`, `MissesNothing` |
| `outbox` | `FairSpec` | 2 polls, overlapping or not, 3 events of 2 appointments, one that cannot be dispatched, batches of 2, 2 transactions lost, a process that stops | `DeliveryInv`, `LineInv`, `HeldByOnePoll`, `RedeliveryNeedsRollback`, `FirstSeenInOrder`, `LastSeenIsLatest`, `DeliveredAtLeastOnce`, `EventuallySettled`, `DeliveryPromise` |
| `booking_double`, `booking_spurious`, `booking_retry`, `slots_bookable`, `lifecycle_duplicate` | `Spec`; `booking_spurious`: `ApartSpec` | the smallest instance that shows it | a property that fails, section 5 |

Why the bounds are enough. Three requests give every pair of races together with a third
that cancels, retries or holds the other resource; a stale read takes two, a key
wait with a rollback and a taker three. Two bays and two technicians are the least with
which a skipped or deleted row leaves an alternative, and unequal skills separate the two
searches. A day of 12 minutes open from 2 to 7, with services of 1 and 3 minutes and a slot grid
of 2, has windows before, at, across and after every boundary; jobs start on the grid, off it,
and before the asked instant. Five rows in pages of 2 or 3 make walks of up to three pages, with
seams inside the three rows of one start, and leave rows to be booked on either side of a seam.
Three events with batches of two are the least with which a batch
is partial and another poll finds rows left. Two lost transactions allow an event to be
delivered three times. `MaxNow`, `MaxSkew`, `MaxRollbacks`, `MaxJobs`, `NumEvents` and the sets
`Instants`, `Newcomers`, `Removable` and `Rows` are bounds of the instances and nothing else.

`lifecycle` switches deadlock checking off: with updates confined to those that move
`updatedAt` forward and a bounded clock, a behaviour may have no step left. Elsewhere the
stuttering steps `AllAnswered`, `Settled`, `Finished` and the `Stop` of `SlotSearch` mark the
intended ends, so that any other stop is reported.

Fairness. `Booking`: weak fairness of what a request does by itself once it has arrived.
Node runs every continuation that is ready and PostgreSQL every statement that does not
wait. Nothing is assumed of arrivals, cancellations, registrations, deletions, failures and the
clock, and weak fairness suffices, because nothing disables a step of a request for good except
its own. `OutboxWorker`: weak fairness of each poll, which the interval timer starts for as long
as the process lives, while transactions may be lost a bounded number of times; `Stop` leaves one
instance running. Publishing is not fair. Neither liveness property says how long: an answer may
come after any number of other steps.

## 4. Proofs

`tlapm` checks all proofs. They hold for every number of requests, bays,
technicians, customers, keys, rows, events and polls, every catalogue, and every set of inputs
allowed by `ClockAssumption`, `CatalogAssumption`, `SlotAssumption`, `BookingAssumption`,
`LifecycleAssumption`, `ListingAssumption`, `SearchAssumption` and `OutboxAssumption`: the clock
has whole units, durations are positive, a zone changes its offset by no more than the hours from
closing time to midnight or from midnight to opening time, resources have a dealership, pages and batches have room for a row, the
rows are finitely many, and the tokens for "none" are not values. TLC evaluates the same
assumptions on its instances.

* `BookingInvariance`: `Spec => []BookingInv`, by `Init => BookingInv` and one lemma
  for each conjunct that every step preserves it.
* `TypeCorrect`, `StaleReadIsTheOnlyWay`, `KeyIsBookedOnce`, `SuccessesAreDurable`,
  `DuplicatesAreResolved`, `ReferencesAlwaysExist`: the properties the `booking` run checks,
  from the invariant. `CommitsAlwaysStand`: its action property, from the invariant and the
  lemmas on what one step does to the tables.
* `SerialBookingsAreExclusive`, `SerialBookingIsAtomic` (module `SerialProofs`): `SerialSpec`
  never double-books and implements `Reservations`. `SerialRefusalsAreHonest`,
  `SerialRetriesAreReplayed`: handled one at a time, no 409 offers the start it refuses and no
  request is refused whose key has a saved response. With `SerialBookingsAreExclusive` these are
  the three properties that fail in section 5 for requests handled together.
* `TokenInvariance`, `LifecycleImplemented` (module `LifecycleProofs`): the invariant of
  `AdvancingSpec`, and that `AdvancingSpec` implements `Lifecycle`, for any number of
  requests and any bounds of the clocks. `EventsTellTheHistory`: its events alone tell the
  status. `HistoryUntilStalled` is about `Spec`, with clocks as they are: until some committed
  update fails to move `updatedAt` forward, the events tell the status and no cancellation is
  announced twice.
* `WalkInvariance`, `PagesAreBounded`, `WalksGoForward`, `WalksMissNothing` (module
  `ListingProofs`).
* `DeliveryInvariance`, `EventsAreHeldByOnePoll`, `RedeliveriesAreAccountedFor` (module
  `OutboxProofs`): for polls that overlap as they like. `LineInvariance`,
  `EventsAreFirstSeenInOrder`, `LastSeenIsTheLatest` (module `OutboxOrderProofs`): the order, for
  polls that do not. `EventsAreDeliveredAtLeastOnce`,
  `DeliveryImplemented` (module `OutboxProofs`): the worker implements `Delivery`.
* `OfferedSlotIsFree`, `NoEarlierSlotIsFree` (module `SlotsProofs`): the window offered is on the
  grid, in the search span and free of every job, also of those the first query leaves out; and
  no start on the grid before it is free.
* `AcceptedWindows`, `DaySelected` (module `SlotSearchProofs`): what `validateOperatingHours`
  and the day filter compute, for every window and every change of the clock allowed.
  `WindowsAreInsideOneDay`, `DayFilterIsExact`, `OffersAreFree`, `OffersAreEarliest`: the
  invariants of `slots`, which state the same of the instants and jobs that `SlotSearch` visits.

Why the invariants are what they are.

Booking. `DoubleBookingNeedsStaleRead` speaks of committed
appointments; the step that could break it is a commit, so it needs to know of a transaction
that its rows are free (`HeldRowsFree`); that is established when a row is locked, from
what the snapshot showed (`ScanSound`), and kept while others commit because nobody else
holds the row (`ExclusiveRows`). `stale` records exactly the case in which
the snapshot was too old. For keys, `KeyBookedOnce` is kept by a commit because the
transaction that has inserted a key is alone with it (`KeysConsistent`), which the wait on
the unique index establishes; a request that loses this race does so because the record is
there and stays (`DuplicateMeansTaken`). `Progress`, `ClaimsEligible`, `OwnBookingWithoutKey` and
`EventsWritten` connect rows, answers and events for `SuccessIsDurable`; the last says that the
outbox holds the events of the committed changes and no others. `ReferencesExist` is
inductive together with the types: a lock and a foreign key each keep a row from being deleted.

Handled one at a time, requests never lock a row late: `SerialInv` says that the snapshot of
the only request at work is the present table, so `stale` stays empty, and
`DoubleBookingNeedsStaleRead` leaves no double booking. For the refinement, a commit is the step
that reserves, a refused search the one that refuses, and every other step leaves the calendar
alone; the snapshot being the present table makes the row found a row that is free. For
refusals, `RefusalsStand` carries what the refused search has found, that some kind of resource has
nothing free and that nothing is saved for the key, through the rollback to the answer; a slot
offered at the asked start would be free for both kinds (`OfferedStartIsFree`).

Lifecycle. It rests on `TokenIdentifiesRow`: whoever has read a token that still
equals the row's `updatedAt` has read the row's status too. A commit keeps it because it moves
`updatedAt` past every token that was read, and this is where the condition of
`AdvancingSpec` is needed; the row lock makes the check of the token and the commit one step.
For the events, `HistoryInv` adds that each event continues the one before it. That no
cancellation is announced twice then needs no induction: no change is legal after a cancellation, so
its event is the last.

Listing. `WalkInv` says where the rows are that have not come yet: behind all numbered pages read
so far (`PushedBack`: a booking only ever pushes rows back), and beyond the cursor
(`CursorStands`); and that whatever ends a walk would have shown them (`TotalShows`). The lemmas
under it are about ranks: a slice of a finite ordered set has the right size, contains the ranks
it should, and its last row bounds it.

Outbox. `DeliveryInv` counts: the deliveries of an event are those whose mark was lost, plus one
if its mark stands, committed or in the hands of the poll that dispatched it; this needs that
no two polls hold an event and that a poll's own events are locked, being marked, or marked,
one after the other. `LineInv` orders: with one poll at a time, what is dispatched, locked and still
to be tried follow each other, nothing earlier of the same appointment has been left out
(`InLine`), and in the table the published and the settled events of an appointment are each a
prefix (`TableInLine`). Rows left out by the LIMIT come after those taken, a commit settles a
whole prefix, and a lost transaction gives it back as a whole. For the refinement, dispatching an
event shows it and a commit settles what is marked, which `DeliveryInv` knows to have been shown;
every other step, a lost transaction too, changes nothing for the listeners. `PromiseInv` (in
`OutboxProofs`) adds that what a poll has seen is published, which a late loop relies on: it holds
no row any more.

Time. Integer division is defined by the provers only through its quotient and remainder, so
`DivisionUnique` and `DateUnique` say once that the quotient is the only one: an instant lies in
day `d` exactly when it is between two midnights. Comparisons of dates, weekdays and minutes then
become one interval. For slots, `LatestCandidate` takes any free start on the grid: the last end of a
job at or before it, rounded up, is a candidate that is free as well, and not later; so trying the
asked instant and the ends of jobs is enough.

Only model-checked: the two liveness properties, which are out of the prover's reach, and that the
properties of section 5 fail. Every invariant and action property of a passing run, and each
refinement, is a theorem.

## 5. What does not hold

1. **A resource can be booked twice** (`booking_double`). The search for a bay takes its
   snapshot, another request that has locked the same bay commits, and the row, no longer locked,
   is taken: the WHERE clause is not evaluated again for a row that nobody updated. One row
   lock does not close the gap between the snapshot and the lock.
   `DoubleBookingNeedsStaleRead` shows that this is the only way, and `booking_serial` that it
   needs concurrency.
2. **A refusal can be spurious** (`booking_spurious`). A row lock has no window. A bay locked
   by a booking for another time is skipped, and the 409 offers the start it refuses. `ApartSpec`
   admits only requests whose windows do not overlap, so that nothing but the lock is in the way;
   in the trace the windows are back to back, which system-design.md:260 says do not block
   each other.
3. **A retry can be refused** (`booking_retry`). A simultaneous retry meets its own first
   booking in the search and is answered 409 while its response is saved; only P2002 leads to
   the last lookup.
4. **The offered slot may be out of hours** (`slots_bookable`).
5. **`updatedAt` is not a version** (`lifecycle_duplicate`). Two updates in one millisecond, or
   stamped by a slower clock, both succeed. As long as every update moves `updatedAt`
   forward, `LifecyclePromise` holds.

Smaller observations, visible in the models and not run separately:

* the empty key is stored in the unique column but never looked up, so its second use ends in
  500 (`DuplicateIsResolved` excepts it by name);
* a replay found inside the transaction is counted as created;
* an appointment may end within the closing minute, seconds past closing
  (`WindowInsideOneDay` states the interval that is really accepted);
* the customer and the vehicle are not looked up: an unknown one, or one deleted meanwhile, ends
  in a foreign-key error (P2003) and 500;
* a total read before its rows can end a walk by number, and make `nextCursor` null, while
  rows are left (`MissesNothing` excepts `undercounted`);
* a cursor that does not decode restarts the walk from the first row without an error;
* the end of the day filter moves by an hour on a day on which the zone of the process changes
  its offset; within opening hours the filter is exact all the same (`DayFilterExact`), because
  nothing is booked in that hour;
* two polls at a time may deliver two events of an appointment out of order, and a poll
  whose transaction has timed out may deliver one that another poll has delivered:
  `FirstSeenInOrder` and `LastSeenIsLatest` are conditional, and `RedeliveryNeedsRollback` is as
  much of "never double-deliver" (outbox-worker.service.ts:18) as holds.

## 6. Not modelled

* Wiring, tracing, health checks, throttling, the seed and the metrics endpoint: configuration
  of libraries and I/O, with no state of the service.
* In the registry: plain reads, the unique email and licence plate (one unique index each, checked
  by the insert itself), and the lookup before a delete, which decides between 404 and 500 only.
* The request histogram of the metrics.
* The `default:` branch of `dispatch`, which only warns and lets the row be marked DELIVERED: none of
  the three event types published reaches it.
* A cursor that decodes to an invalid date: `decodeCursor` lets it through to the query.
* The validation of request bodies and query parameters by decorators and pipes.
* The three queries of `findNextAvailable` as separate snapshots: what they return is advice that
  no later step relies on.
* A composition of `Booking`, `AppointmentLifecycle` and `OutboxWorker` around one event table.
  They meet in the commit that writes an event and nowhere else: the first two show which events
  are committed and in which order, the third what becomes of a table that is written
  in that order. What this leaves open is `created_at`: it is a clock reading of the
  publishing process, so the order of the table is the order of the commits only as far as those
  clocks agree. `Publish` assumes that for the events of one appointment and of no two.
