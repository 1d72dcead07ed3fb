------------------------------- MODULE MCBooking -------------------------------
(***************************************************************************)
(* Small dealerships for Booking.  A day is 12 units long and open from 2  *)
(* to 7; day 0 is a Sunday, so the bookings are on Monday, units 12 to 23. *)
(***************************************************************************)
EXTENDS BookingInvariant, TLC

CONSTANTS p1, p2, p3, b1, b2, t1, t2, c1, d1, d2, key1

SmallCatalog == [SHORT |-> 1, LONG |-> 3]

Input(dealership, service, start, key) ==
    [dealership |-> dealership, service |-> service, start |-> start, customer |-> c1, key |-> key]

OneDealership == [r \in Bays \union Technicians |-> d1]

OneSpecialist == [t \in Technicians |-> IF t = t2 THEN {"SHORT"} ELSE {"SHORT", "LONG"}]

\* Overlapping, adjacent and disjoint windows, two of them with one key, and an unknown
\* service.
WindowInputs ==
    {Input(d1, "LONG", 14, NoKey), Input(d1, "SHORT", 15, key1), Input(d1, "SHORT", 17, key1),
     Input(d1, "POLISH", 15, NoKey)}

\* Overlapping, adjacent and disjoint windows again; no key, the empty key, one key for
\* two payloads and for a window past closing, which is refused unless it is a replay.
BookingInputs ==
    {Input(d1, "LONG", 14, key1), Input(d1, "SHORT", 15, NoKey), Input(d1, "SHORT", 15, key1),
     Input(d1, "SHORT", 17, EmptyKey), Input(d1, "LONG", 18, key1)}

\* A key retried, for a service both technicians know, so that several requests get as
\* far as the insert; next to it a request at a dealership that has nothing.
RetryInputs == {Input(d1, "SHORT", 14, key1), Input(d2, "SHORT", 14, NoKey)}

RetriedInput == {Input(d1, "LONG", 14, key1)}
OneWindow == {Input(d1, "SHORT", 14, NoKey)}
BackToBack == {Input(d1, "SHORT", 14, NoKey), Input(d1, "SHORT", 15, NoKey)}
AtOnce == {12}
BeforeAndAfter == {13, 14}

\* Clients that never compete: no two requests ask for overlapping windows.
NoOverlap ==
    \A p, q \in Requests :
        p # q /\ dto[p] # NoInput /\ dto[q] # NoInput => ~ SameWindow(p, q)

ApartSpec == Init /\ [][Next /\ NoOverlap']_vars

\* The bays of one dealership are alike; the technicians are not.
Symmetry == Permutations(Requests) \union Permutations(Bays)

=============================================================================
