-------------------------- MODULE AppointmentLifecycle --------------------------
(***************************************************************************)
(* PATCH /appointments/:id/status and DELETE /appointments/:id on one      *)
(* appointment: AppointmentsService.updateStatus and cancel, handled       *)
(* concurrently.  Both read the row, check the transition, and in a        *)
(* transaction update the row where updatedAt is still the one they read.  *)
(*                                                                         *)
(* updatedAt is stamped with a clock reading in milliseconds when the      *)
(* update is issued, by whichever process issues it: readings are now plus *)
(* at most MaxSkew.  An UPDATE of a row that another open transaction has  *)
(* updated waits for it to end and then checks updatedAt again.            *)
(***************************************************************************)
EXTENDS Integers, Sequences

CONSTANTS
    Requests,    \* handled status changes and cancellations
    StartTime,   \* start of the appointment
    MaxNow,      \* bound on the clock
    MaxSkew      \* how far ahead a process's clock may be

ASSUME LifecycleAssumption ==
    /\ StartTime \in Nat /\ MaxNow \in Nat /\ MaxSkew \in Nat

VARIABLES
    pc,        \* where each request is
    target,    \* the status it asks for
    read,      \* the row its findOne returned
    stamp,     \* the updatedAt its update will store
    row,       \* status and updatedAt of the appointment
    events,    \* outbox_events of the appointment, in commit order
    resp,      \* HTTP status answered
    cancelled, \* appointment_bookings_total, outcome cancelled
    stalled,   \* ghost: some update did not move updatedAt forward
    now

vars == <<pc, target, read, stamp, row, events, resp, cancelled, stalled, now>>

Statuses == {"CONFIRMED", "IN_PROGRESS", "COMPLETED", "CANCELLED"}
Targets == {"IN_PROGRESS", "COMPLETED", "CANCELLED"}
Stamps == 0..(MaxNow + MaxSkew)
Row == [status : Statuses, updatedAt : Stamps]

ALLOWED_TRANSITIONS ==
    [CONFIRMED   |-> {"IN_PROGRESS", "CANCELLED"},
     IN_PROGRESS |-> {"COMPLETED", "CANCELLED"},
     COMPLETED   |-> {},
     CANCELLED   |-> {}]

\* updateStatus looks the transition up; cancel refuses two statuses.
TransitionAllowed(from, to) ==
    IF to = "CANCELLED" THEN from \notin {"CANCELLED", "COMPLETED"}
    ELSE to \in ALLOWED_TRANSITIONS[from]

TooEarly(to) == to = "IN_PROGRESS" /\ now < StartTime

\* Mutant: the event carries the new status as the old one, as it would were the row
\* read again after its update.
EventOfRowAsUpdated(p) ==
    IF target[p] = "CANCELLED" THEN [type |-> "appointment.cancelled", to |-> "CANCELLED"]
    ELSE [type |-> "appointment.status_changed", from |-> target[p], to |-> target[p]]

\* publish: a cancellation does not carry the previous status, which is the one read.
EventOf(p) ==
    IF target[p] = "CANCELLED" THEN [type |-> "appointment.cancelled", to |-> "CANCELLED"]
    ELSE [type |-> "appointment.status_changed", from |-> read[p].status, to |-> target[p]]

Goto(p, step) == pc' = [pc EXCEPT ![p] = step]
Reply(p, code) == resp' = [resp EXCEPT ![p] = code]

-----------------------------------------------------------------------------

\* The row as POST /appointments left it, stamped by some process.
Created(t) == [status |-> "CONFIRMED", updatedAt |-> t]

Init ==
    /\ pc = [p \in Requests |-> "idle"]
    /\ target = [p \in Requests |-> "CANCELLED"]
    /\ read = [p \in Requests |-> Created(0)]
    /\ stamp = [p \in Requests |-> 0]
    /\ \E t \in 0..MaxSkew : row = Created(t)
    /\ events = <<>>
    /\ resp = [p \in Requests |-> 0]
    /\ cancelled = 0
    /\ stalled = FALSE
    /\ now = 0

\* findOne, then the checks on what it returned.
Accept(p, to) ==
    /\ pc[p] = "idle" /\ TransitionAllowed(row.status, to) /\ ~ TooEarly(to)
    /\ target' = [target EXCEPT ![p] = to]
    /\ read' = [read EXCEPT ![p] = row]
    /\ Goto(p, "checked")
    /\ UNCHANGED <<stamp, row, events, resp, cancelled, stalled, now>>

Reject(p, to) ==
    /\ pc[p] = "idle"
    /\ \/ ~ TransitionAllowed(row.status, to) /\ Reply(p, 409)
       \/ TransitionAllowed(row.status, to) /\ TooEarly(to) /\ Reply(p, 400)
    /\ target' = [target EXCEPT ![p] = to]
    /\ Goto(p, "done")
    /\ UNCHANGED <<read, stamp, row, events, cancelled, stalled, now>>

\* updateMany is sent, stamped with the clock of the process that handles p.
Issue(p) ==
    /\ pc[p] = "checked"
    /\ \E t \in now..(now + MaxSkew) : stamp' = [stamp EXCEPT ![p] = t]
    /\ Goto(p, "issued")
    /\ UNCHANGED <<target, read, row, events, resp, cancelled, stalled, now>>

\* Mutant: the row read is not locked against the update of another request.
NeverLocked == FALSE

RowLocked == \E q \in Requests : pc[q] = "updated"

\* Mutant: the update is not conditional on updatedAt.
NoToken(p) == TRUE

TokenMatches(p) == row.updatedAt = read[p].updatedAt

\* The row still has the updatedAt read: it is updated, uncommitted.
Update(p) ==
    /\ pc[p] = "issued" /\ ~ RowLocked /\ TokenMatches(p)
    /\ Goto(p, "updated")
    /\ UNCHANGED <<target, read, stamp, row, events, resp, cancelled, stalled, now>>

\* count is 0: ConflictException.
Lose(p) ==
    /\ pc[p] = "issued" /\ ~ RowLocked /\ ~ TokenMatches(p)
    /\ Reply(p, 409)
    /\ Goto(p, "done")
    /\ UNCHANGED <<target, read, stamp, row, events, cancelled, stalled, now>>

\* The row and the event become visible together.
Commit(p) ==
    /\ pc[p] = "updated"
    /\ row' = [status |-> target[p], updatedAt |-> stamp[p]]
    /\ events' = Append(events, EventOf(p))
    /\ stalled' = (stalled \/ stamp[p] <= row.updatedAt)
    /\ Goto(p, "committed")
    /\ UNCHANGED <<target, read, stamp, resp, cancelled, now>>

Respond(p) ==
    /\ pc[p] = "committed"
    /\ cancelled' = IF target[p] = "CANCELLED" THEN cancelled + 1 ELSE cancelled
    /\ Reply(p, 200)
    /\ Goto(p, "done")
    /\ UNCHANGED <<target, read, stamp, row, events, stalled, now>>

\* An error, a timeout or the end of the process: an open transaction is undone,
\* after the commit only the answer and the count are lost.
Fail(p) ==
    /\ pc[p] \notin {"idle", "done"}
    /\ Reply(p, 500)
    /\ Goto(p, "done")
    /\ UNCHANGED <<target, read, stamp, row, events, cancelled, stalled, now>>

Tick ==
    /\ now < MaxNow /\ now' = now + 1
    /\ UNCHANGED <<pc, target, read, stamp, row, events, resp, cancelled, stalled>>

AllAnswered == (\A p \in Requests : pc[p] = "done") /\ UNCHANGED vars

-----------------------------------------------------------------------------

Arrive(p) == \E to \in Targets : Accept(p, to) \/ Reject(p, to)
Proceed(p) == Issue(p) \/ Update(p) \/ Lose(p) \/ Commit(p) \/ Respond(p)

Next ==
    \/ \E p \in Requests : Arrive(p) \/ Proceed(p) \/ Fail(p)
    \/ Tick
    \/ AllAnswered

Spec == Init /\ [][Next]_vars

\* Behaviours in which every committed update moves updatedAt forward, as a
\* version number would.
AdvancingSpec == Init /\ [][Next /\ ~ stalled']_vars

-----------------------------------------------------------------------------
(* Properties. *)

\* Types of the variables; what a request is about to store is what it checked.
TypeOK ==
    /\ pc \in [Requests -> {"idle", "checked", "issued", "updated", "committed", "done"}]
    /\ target \in [Requests -> Targets]
    /\ read \in [Requests -> Row]
    /\ stamp \in [Requests -> Stamps]
    /\ row \in Row
    /\ resp \in [Requests -> {0, 200, 400, 409, 500}]
    /\ cancelled \in Nat
    /\ stalled \in BOOLEAN
    /\ now \in 0..MaxNow

\* As long as every update moves updatedAt forward, concurrent status changes and
\* cancellations of an appointment look like single legal changes, each announced
\* by one event naming the status it replaced.
Promised == INSTANCE Lifecycle WITH status <- row.status
LifecyclePromise == Promised!Spec

\* The events of an appointment tell its history: updateStatus and cancel, however
\* they interleave, leave no change out, announce none twice, and name the status
\* each one replaced, as long as every update moves updatedAt forward.
EventsTellHistory == Promised!EventsTell

\* system-design.md:439: the updatedAt token prevents duplicate events.
NoDuplicateCancellation ==
    \A i, j \in DOMAIN events :
        i # j => ~ (events[i].to = "CANCELLED" /\ events[j].to = "CANCELLED")

\* What a request that has checked its transition may rely on when every update
\* moves updatedAt forward: an unchanged updatedAt means an unchanged row, and the
\* row it has updated stays as read until it commits.
TokenIdentifiesRow ==
    \A p \in Requests :
        /\ pc[p] \in {"checked", "issued", "updated"} =>
              /\ TransitionAllowed(read[p].status, target[p])
              /\ read[p].updatedAt <= row.updatedAt
              /\ TokenMatches(p) => read[p] = row
        /\ pc[p] = "updated" => TokenMatches(p) /\ \A q \in Requests \ {p} : pc[q] # "updated"

LifecycleInv == TypeOK /\ TokenIdentifiesRow

=============================================================================
