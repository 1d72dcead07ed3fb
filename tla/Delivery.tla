------------------------------- MODULE Delivery --------------------------------
(***************************************************************************)
(* What the transactional outbox promises to those who publish events and  *)
(* to the listeners, whoever polls and whatever fails: an event is shown   *)
(* once its change is committed, any number of times; it is settled once,  *)
(* for good, and as DELIVERED only when it has been shown.                 *)
(***************************************************************************)
EXTENDS Naturals, Sequences

CONSTANTS
    Events,
    Deliverable     \* events the listeners can be given

VARIABLES
    status,         \* of each event
    shown           \* what the listeners were given, in order

Shown == {shown[i] : i \in DOMAIN shown}

Init == status = [e \in Events |-> "ABSENT"] /\ shown = <<>>

Publish(e) ==
    /\ status[e] = "ABSENT"
    /\ status' = [status EXCEPT ![e] = "PENDING"]
    /\ UNCHANGED shown

Show(e) ==
    /\ e \in Deliverable /\ status[e] # "ABSENT"
    /\ shown' = Append(shown, e)
    /\ UNCHANGED status

Settle(batch) ==
    /\ \A e \in batch : status[e] = "PENDING" /\ (e \in Deliverable => e \in Shown)
    /\ status' = [e \in Events |-> IF e \notin batch THEN status[e]
                                   ELSE IF e \in Deliverable THEN "DELIVERED" ELSE "FAILED"]
    /\ UNCHANGED shown

Next ==
    \/ \E e \in Events : Publish(e) \/ Show(e)
    \/ \E batch \in SUBSET Events : Settle(batch)

Spec == Init /\ [][Next]_<<status, shown>>

-----------------------------------------------------------------------------
(* Properties. *)

\* What is marked DELIVERED was shown, what is marked FAILED never was and cannot be,
\* and nothing is shown of a change that is not committed.
AtLeastOnce ==
    \A e \in Events :
        /\ status[e] = "DELIVERED" => e \in Shown
        /\ status[e] = "FAILED" => e \notin Deliverable
        /\ e \in Shown => e \in Deliverable /\ status[e] # "ABSENT"

=============================================================================
