--------------------------- MODULE BookingInvariant ---------------------------
(***************************************************************************)
(* The inductive invariant behind the safety properties of Booking: what   *)
(* each step of a transaction may rely on while the others go on.          *)
(***************************************************************************)
EXTENDS Booking

\* A committed appointment belongs to a request past its commit, a request has no
\* answer before that, and what is being booked has passed the validation.
Progress ==
    \A p \in Requests :
        /\ p \in Booked => pc[p] \in {"respond", "done"}
        /\ resp[p] # NoAnswer => pc[p] \in {"respond", "done"}
        /\ pc[p] # "idle" => dto[p] \in Inputs
        /\ pc[p] \notin {"idle", "done"} \/ p \in Booked => dto[p].service \in DOMAIN ServiceCatalog

\* A row is held by one open transaction at most.
ExclusiveRows ==
    \A p, q \in Requests, k \in Kinds :
        p # q /\ InTransaction(p) /\ InTransaction(q) /\ claim[p][k] = claim[q][k]
            => claim[p][k] = Nobody

\* What is held or booked satisfies the WHERE clause on dealership and skill.
ClaimsEligible ==
    \A p \in Requests, k \in Kinds : claim[p][k] # Nobody => claim[p][k] \in Eligible(k, dto[p])

\* A snapshot shows committed rows only, and the rows still to try were free in it.
ScanSound ==
    \A p \in Requests, k \in Kinds :
        /\ seen[p] \subseteq Booked
        /\ pc[p] = ScanAt[k] =>
              /\ cand[p] \subseteq Eligible(k, dto[p])
              /\ \A a \in Active \intersect seen[p] : SameWindow(a, p) => claim[a][k] \notin cand[p]

\* Until it ends, a transaction's row is not booked for an overlapping window by a
\* live appointment, unless it locked the row after a booking it had not seen.
HeldRowsFree ==
    \A p \in Requests, a \in Active, k \in Kinds :
        InTransaction(p) /\ claim[p][k] # Nobody /\ claim[a][k] = claim[p][k] /\ SameWindow(a, p)
            => k \in stale[p]

\* A key's record names a booking with that key; a transaction that has inserted a
\* key is alone with it.
KeysConsistent ==
    /\ \A key \in Keys : idempotency[key] # Nobody =>
          idempotency[key] \in Booked /\ KeyOf(idempotency[key]) = key
    /\ \A p \in Requests : pc[p] = "commit" => ~ KeyInserting(p) /\ ~ KeyTaken(p)

\* An answer of success to a request without a usable key is for its own booking.
OwnBookingWithoutKey ==
    \A p \in Requests :
        resp[p].status = 201 => IF HasKey(p) THEN idempotency[KeyOf(p)] # Nobody
                                             ELSE resp[p].appointment = p /\ p \in Booked

\* The outbox has the events of the committed changes and no others.
EventsWritten ==
    outbox = {[type |-> "appointment.created", appointment |-> a] : a \in Booked}
      \union {[type |-> "appointment.cancelled", appointment |-> a] : a \in Booked \ Active}

\* A request goes to its last lookup because its key is in the table, and stays so.
DuplicateMeansTaken == \A p \in Requests : pc[p] = "duplicate" => KeyTaken(p)

\* All of them together, with the properties they support: each is kept by every
\* step of create() only as long as the others hold.
BookingInv ==
    /\ TypeOK
    /\ Progress
    /\ ExclusiveRows
    /\ ClaimsEligible
    /\ ScanSound
    /\ HeldRowsFree
    /\ KeysConsistent
    /\ OwnBookingWithoutKey
    /\ EventsWritten
    /\ DuplicateMeansTaken
    /\ ReferencesExist
    /\ DoubleBookingNeedsStaleRead
    /\ KeyBookedOnce

=============================================================================
