------------------------------- MODULE MCListing -------------------------------
(* Five appointments, three of them at one start. *)
EXTENDS Listing

Row(start, id) == [start |-> start, id |-> id]

FiveRows == {Row(1, 4), Row(2, 1), Row(2, 3), Row(2, 5), Row(3, 2)}
AllOrEarly == {FiveRows, {r \in FiveRows : r.start < 3}}

=============================================================================
