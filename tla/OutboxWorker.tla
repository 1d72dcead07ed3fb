------------------------------ MODULE OutboxWorker ------------------------------
(***************************************************************************)
(* Delivery of outbox events: OutboxWorker.poll, run by every service      *)
(* instance every 500 ms whether or not its previous poll has ended.       *)
(*                                                                         *)
(* An event is named by its position in the order of created_at.  A poll   *)
(* takes the PENDING rows of its statement's snapshot in that order, locks *)
(* those nobody holds up to a batch, then hands each event to the          *)
(* listeners and marks its row, and commits.  FOR UPDATE looks again at a  *)
(* row that was updated since the snapshot and leaves it out when it is no *)
(* longer PENDING.  Dispatching is not undone when a transaction is, and   *)
(* the loop learns that its transaction has ended only from a statement.   *)
(***************************************************************************)
EXTENDS Integers, Sequences, FiniteSetsExt

CONSTANTS
    NumEvents,      \* bound on the events published
    Subject,        \* event -> the appointment it is about
    Malformed,      \* events dispatch() throws on: none with the listeners of src/
    Polls,          \* polls that may run at the same time, over all instances
    BatchSize,      \* BATCH_SIZE
    MaxRollbacks    \* bound on failed polls

Events == 1..NumEvents

ASSUME OutboxAssumption ==
    /\ NumEvents \in Nat /\ MaxRollbacks \in Nat /\ BatchSize \in Nat \ {0}
    /\ DOMAIN Subject = Events /\ Malformed \subseteq Events

VARIABLES
    rows,       \* outbox_events.status; ABSENT before the publishing commit
    pc,         \* idle, locking, dispatching, marking, closed under way, stopped for good
    cand,       \* rows still to be tried by the SELECT; or no longer locked, once closed
    batch,      \* rows locked and not yet dispatched
    marks,      \* uncommitted updates of a poll
    current,    \* the event a poll is dispatching or marking
    delivered,  \* events handed to the listeners, in order
    undone,     \* ghost: deliveries whose mark was lost, by event
    rollbacks,
    overlapped  \* ghost: some poll started while another one was running

vars == <<rows, pc, cand, batch, marks, current, delivered, undone, rollbacks, overlapped>>
table == <<rows, delivered, undone, rollbacks, overlapped>>

Active(w) == pc[w] \notin {"idle", "stopped"}

RowStatuses == {"ABSENT", "PENDING", "DELIVERED", "FAILED"}

Pending == {e \in Events : rows[e] = "PENDING"}
Marked(w) == {e \in Events : marks[w][e] # "PENDING"}
Dispatched(w) == Marked(w) \union (IF current[w] = 0 THEN {} ELSE {current[w]})
Holds(w) == batch[w] \union Dispatched(w)
LockedByOther(e, w) == \E v \in Polls \ {w} : e \in Holds(v)
Unmarked == [e \in Events |-> "PENDING"]
Times(e) == Cardinality({i \in DOMAIN delivered : delivered[i] = e})

Goto(w, step) == pc' = [pc EXCEPT ![w] = step]

-----------------------------------------------------------------------------

Init ==
    /\ rows = [e \in Events |-> "ABSENT"]
    /\ pc = [w \in Polls |-> "idle"]
    /\ cand = [w \in Polls |-> {}]
    /\ batch = [w \in Polls |-> {}]
    /\ marks = [w \in Polls |-> Unmarked]
    /\ current = [w \in Polls |-> 0]
    /\ delivered = <<>>
    /\ undone = [e \in Events |-> 0]
    /\ rollbacks = 0
    /\ overlapped = FALSE

\* Mutant: written after the transaction of the change, events may come in any order.
PublishAfterCommit(e) ==
    /\ rows[e] = "ABSENT"
    /\ rows' = [rows EXCEPT ![e] = "PENDING"]
    /\ UNCHANGED <<pc, cand, batch, marks, current, delivered, undone, rollbacks, overlapped>>

\* OutboxService.publish, committed.  created_at is set before the commit, so events
\* of different appointments may appear out of order.  Those of one do not, as changes of
\* a row follow each other and as far as the clocks of the publishing processes agree.
Publish(e) ==
    /\ rows[e] = "ABSENT"
    /\ \A f \in 1..(e - 1) : Subject[f] = Subject[e] => rows[f] # "ABSENT"
    /\ rows' = [rows EXCEPT ![e] = "PENDING"]
    /\ UNCHANGED <<pc, cand, batch, marks, current, delivered, undone, rollbacks, overlapped>>

\* The SELECT takes its snapshot.  With no row at all the transaction just ends.
Select(w) ==
    /\ pc[w] = "idle" /\ Pending # {}
    /\ cand' = [cand EXCEPT ![w] = Pending]
    /\ Goto(w, "locking")
    /\ overlapped' = (overlapped \/ \E v \in Polls \ {w} : Active(v))
    /\ UNCHANGED <<batch, marks, current, rows, delivered, undone, rollbacks>>

\* Mutants: the status is not looked at again once the row is locked; a locked row is
\* not skipped.
SelectableAsSeen(e, w) == ~ LockedByOther(e, w)
SelectableThoughLocked(e, w) == rows[e] = "PENDING"

Selectable(e, w) == rows[e] = "PENDING" /\ ~ LockedByOther(e, w)

\* Mutant: without the ORDER BY, a row found last may be taken first.
NewestFirst(set) == Max(set)

OldestFirst(set) == Min(set)

\* The rows are tried in created_at order: locked, or left out.
LockRow(w) ==
    /\ pc[w] = "locking" /\ cand[w] # {} /\ Cardinality(batch[w]) < BatchSize
    /\ LET e == OldestFirst(cand[w])
       IN  /\ cand' = [cand EXCEPT ![w] = @ \ {e}]
           /\ batch' = IF Selectable(e, w) THEN [batch EXCEPT ![w] = @ \union {e}] ELSE batch
    /\ UNCHANGED <<pc, marks, current, table>>

StartBatch(w) ==
    /\ pc[w] = "locking" /\ (cand[w] = {} \/ Cardinality(batch[w]) = BatchSize)
    /\ cand' = [cand EXCEPT ![w] = {}]
    /\ Goto(w, "dispatching")
    /\ UNCHANGED <<batch, marks, current, table>>

\* dispatch() runs the listeners, then the UPDATE is sent; if it throws no listener ran.
\* Nobody publishes a type dispatch() does not know.
Dispatch(w) ==
    /\ pc[w] = "dispatching" /\ batch[w] # {}
    /\ LET e == OldestFirst(batch[w])
       IN  /\ batch' = [batch EXCEPT ![w] = @ \ {e}]
           /\ current' = [current EXCEPT ![w] = e]
           /\ delivered' = IF e \in Malformed THEN delivered ELSE Append(delivered, e)
    /\ Goto(w, "marking")
    /\ UNCHANGED <<rows, cand, marks, undone, rollbacks, overlapped>>

\* Mutant: nothing is written about an event that could not be dispatched.
MarkDeliveredOnly(w) ==
    /\ pc[w] = "marking"
    /\ marks' = [marks EXCEPT ![w][current[w]] = IF current[w] \in Malformed THEN @ ELSE "DELIVERED"]
    /\ current' = [current EXCEPT ![w] = 0]
    /\ Goto(w, "dispatching")
    /\ UNCHANGED <<cand, batch, table>>

\* Mutant: an event that could not be dispatched is marked like the others.
MarkAllDelivered(w) ==
    /\ pc[w] = "marking"
    /\ marks' = [marks EXCEPT ![w][current[w]] = "DELIVERED"]
    /\ current' = [current EXCEPT ![w] = 0]
    /\ Goto(w, "dispatching")
    /\ UNCHANGED <<cand, batch, table>>

Mark(w) ==
    /\ pc[w] = "marking"
    /\ marks' = [marks EXCEPT ![w][current[w]] =
                    IF current[w] \in Malformed THEN "FAILED" ELSE "DELIVERED"]
    /\ current' = [current EXCEPT ![w] = 0]
    /\ Goto(w, "dispatching")
    /\ UNCHANGED <<cand, batch, table>>

Release(w) ==
    /\ cand' = [cand EXCEPT ![w] = {}]
    /\ batch' = [batch EXCEPT ![w] = {}]
    /\ marks' = [marks EXCEPT ![w] = Unmarked]
    /\ current' = [current EXCEPT ![w] = 0]
    /\ Goto(w, "idle")

\* Mutant: the rows locked are marked and committed before they are dispatched.
CommitAhead(w) ==
    /\ pc[w] = "dispatching"
    /\ rows' = [e \in Events |-> IF e \in batch[w] THEN "DELIVERED"
                                 ELSE IF e \in Marked(w) THEN marks[w][e] ELSE rows[e]]
    /\ Release(w)
    /\ UNCHANGED <<delivered, undone, rollbacks, overlapped>>

Commit(w) ==
    /\ pc[w] = "dispatching" /\ batch[w] = {}
    /\ rows' = [e \in Events |-> IF e \in Marked(w) THEN marks[w][e] ELSE rows[e]]
    /\ Release(w)
    /\ UNCHANGED <<delivered, undone, rollbacks, overlapped>>

LoseMarks(w) ==
    /\ rollbacks < MaxRollbacks
    /\ rollbacks' = rollbacks + 1
    /\ undone' = [e \in Events |->
          IF e \in Dispatched(w) \ Malformed THEN undone[e] + 1 ELSE undone[e]]
    /\ UNCHANGED <<rows, delivered, overlapped>>

\* A database error, the transaction timeout or the end of the process: the catch
\* swallows it, the locks and the marks are gone, what the listeners did is not.
RollBack(w) == Active(w) /\ LoseMarks(w) /\ Release(w)

\* The transaction times out when the answer to its last statement is already under way:
\* locks and marks are gone as well, but the loop does not know yet ...
TimeOut(w) ==
    /\ pc[w] = "dispatching" /\ batch[w] # {}
    /\ LoseMarks(w)
    /\ marks' = [marks EXCEPT ![w] = Unmarked]
    /\ cand' = [cand EXCEPT ![w] = batch[w]]
    /\ batch' = [batch EXCEPT ![w] = {}]
    /\ Goto(w, "closed")
    /\ UNCHANGED current

\* ... and dispatches one event more, whoever holds it now, before its UPDATE fails.
DispatchLate(w) ==
    /\ pc[w] = "closed"
    /\ LET e == OldestFirst(cand[w])
       IN  IF e \in Malformed THEN UNCHANGED <<delivered, undone>>
           ELSE delivered' = Append(delivered, e) /\ undone' = [undone EXCEPT ![e] = @ + 1]
    /\ Release(w)
    /\ UNCHANGED <<rows, rollbacks, overlapped>>

\* onModuleDestroy clears the timer, which no poll in flight notices.  Some instance
\* goes on.
Stop(w) ==
    /\ pc[w] = "idle" /\ \E v \in Polls \ {w} : pc[v] # "stopped"
    /\ Goto(w, "stopped")
    /\ UNCHANGED <<cand, batch, marks, current, table>>

Settled == (\A e \in Events : rows[e] \in {"DELIVERED", "FAILED"}) /\ UNCHANGED vars

-----------------------------------------------------------------------------

Poll(w) ==
    \/ Select(w) \/ LockRow(w) \/ StartBatch(w)
    \/ Dispatch(w) \/ Mark(w) \/ Commit(w) \/ DispatchLate(w)

Next ==
    \/ \E e \in Events : Publish(e)
    \/ \E w \in Polls : Poll(w) \/ RollBack(w) \/ TimeOut(w) \/ Stop(w)
    \/ Settled

Spec == Init /\ [][Next]_vars

\* The interval timer keeps starting polls and a started poll goes on.  Publishing is
\* up to the clients, and a poll may fail, MaxRollbacks times in all.
FairSpec == Spec /\ \A w \in Polls : WF_vars(Poll(w))

-----------------------------------------------------------------------------
(* Properties. *)

TypeOK ==
    /\ rows \in [Events -> RowStatuses]
    /\ pc \in [Polls -> {"idle", "locking", "dispatching", "marking", "closed", "stopped"}]
    /\ cand \in [Polls -> SUBSET Events]
    /\ batch \in [Polls -> SUBSET Events]
    /\ marks \in [Polls -> [Events -> RowStatuses \ {"ABSENT"}]]
    /\ current \in [Polls -> {0} \union Events]
    /\ delivered \in Seq(Events)
    /\ undone \in [Events -> Nat]
    /\ rollbacks \in 0..MaxRollbacks /\ overlapped \in BOOLEAN

\* A poll goes through its batch event by event: locked, being marked, marked.
OneAfterTheOther(w) ==
    /\ pc[w] \in {"idle", "stopped", "closed"} => batch[w] = {}
    /\ pc[w] \in {"idle", "stopped", "closed", "locking"} => Marked(w) = {}
    /\ pc[w] = "closed" => cand[w] # {}
    /\ current[w] # 0 <=> pc[w] = "marking"
    /\ batch[w] \intersect Marked(w) = {} /\ current[w] \notin batch[w] \union Marked(w)
    /\ \A e \in Marked(w) : marks[w][e] = IF e \in Malformed THEN "FAILED" ELSE "DELIVERED"

\* No event is in the transactions of two polls at once, and one not PENDING any more is
\* in none: the snapshot may be old, the lock looks again.
HeldByOnePoll ==
    \A w \in Polls : \A e \in Holds(w) : rows[e] = "PENDING" /\ ~ LockedByOther(e, w)

\* A delivery stands as long as its event is DELIVERED or in the hands of the poll that
\* dispatched it.
Standing(e) == rows[e] = "DELIVERED" \/ \E w \in Polls : e \in Dispatched(w)

\* Listeners see an event again only when the mark of the delivery before was lost with
\* its transaction, once for each mark lost.
RedeliveryNeedsRollback ==
    \A e \in Events :
        Times(e) = undone[e] + (IF Standing(e) /\ e \notin Malformed THEN 1 ELSE 0)

\* The two together are inductive: what is committed, held and delivered agree.
DeliveryInv ==
    TypeOK /\ (\A w \in Polls : OneAfterTheOther(w)) /\ HeldByOnePoll /\ RedeliveryNeedsRollback

\* system-design.md:351: delivery at least once.  Overlapping polls, batches committed in
\* any order, lost transactions and loops that outlive theirs are, to publishers and
\* listeners, an outbox that shows what is committed and settles what was shown.
Promised == INSTANCE Delivery WITH status <- rows, shown <- delivered, Deliverable <- Events \ Malformed
DeliveryPromise == Promised!Spec

\* DELIVERED means delivered: no event is lost by being marked, and none is shown before
\* the change it announces is committed.
DeliveredAtLeastOnce == Promised!AtLeastOnce

\* An event published is sooner or later DELIVERED, or FAILED if it cannot be dispatched.
EventuallySettled ==
    \A e \in Events :
        rows[e] = "PENDING" ~> rows[e] = IF e \in Malformed THEN "FAILED" ELSE "DELIVERED"

\* As long as no poll starts before the last one has ended, the listeners first see the
\* events of an appointment in the order they were written, through batches, commits
\* in another order than created_at and transactions lost in the middle of a batch.
SeenInOrder ==
    \A i \in DOMAIN delivered : \A e \in 1..(delivered[i] - 1) :
        Subject[e] = Subject[delivered[i]] /\ e \notin Malformed => \E j \in 1..(i - 1) : delivered[j] = e

FirstSeenInOrder == ~ overlapped => SeenInOrder

\* And then what they were told last about an appointment is not older than any event
\* whose delivery is settled: a repeated delivery repeats all that came after it.
About(subject) == {i \in DOMAIN delivered : Subject[delivered[i]] = subject}
LastAbout(subject) == delivered[Max(About(subject))]

LastSeenIsLatest ==
    ~ overlapped => \A e \in Events : rows[e] = "DELIVERED" => LastAbout(Subject[e]) >= e

(***************************************************************************)
(* Why: with one poll at a time, what it has taken is the head of a line.  *)
(***************************************************************************)
OnePollAtATime == \A v, w \in Polls : Active(v) /\ Active(w) => v = w

Taken(w) == cand[w] \union batch[w] \union Dispatched(w)
Done(e) == rows[e] \in {"DELIVERED", "FAILED"}

EarlierOf(f) == {e \in Events : e < f /\ Subject[e] = Subject[f]}

\* Dispatched, locked and still to be tried follow each other, and nothing earlier of the
\* same appointment has been left out, unless it was dispatched and its mark is lost.
InLine(w) ==
    /\ ~ Active(w) => Taken(w) = {}
    /\ pc[w] \in {"dispatching", "marking"} => cand[w] = {}
    /\ \A c \in cand[w] : rows[c] = "PENDING"
    /\ \A d \in Dispatched(w), b \in batch[w] : d < b
    /\ \A x \in Holds(w), c \in cand[w] : x < c
    /\ \A f \in Taken(w) : \A e \in EarlierOf(f) :
          \/ e \in Taken(w) \/ Done(e)
          \/ pc[w] = "closed" /\ (e \in Malformed \/ undone[e] > 0)

\* Events of an appointment are published, settled and shown to the listeners in order.
TableInLine ==
    \A f \in Events :
        /\ \A e \in EarlierOf(f) : (rows[f] # "ABSENT" => rows[e] # "ABSENT") /\ (Done(f) => Done(e))
        /\ Done(f) => rows[f] = IF f \in Malformed THEN "FAILED" ELSE "DELIVERED"
        /\ Standing(f) /\ f \notin Malformed => LastAbout(Subject[f]) >= f

\* What is published, taken, settled and seen of an appointment is in one order.
Ordered == OnePollAtATime /\ (\A w \in Polls : InLine(w)) /\ TableInLine /\ SeenInOrder

LineInv == ~ overlapped => Ordered

=============================================================================
