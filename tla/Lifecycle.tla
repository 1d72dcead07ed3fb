------------------------------- MODULE Lifecycle -------------------------------
(***************************************************************************)
(* What clients and event consumers are promised about the status of one   *)
(* appointment: it moves along ALLOWED_TRANSITIONS, one change at a time,  *)
(* and each change is announced by one event, in the order of the changes. *)
(***************************************************************************)
EXTENDS Naturals, Sequences

VARIABLES status, events

Allowed ==
    [CONFIRMED   |-> {"IN_PROGRESS", "CANCELLED"},
     IN_PROGRESS |-> {"COMPLETED", "CANCELLED"},
     COMPLETED   |-> {},
     CANCELLED   |-> {}]

\* A cancellation's event does not say which status it replaced.
EventFor(from, to) ==
    IF to = "CANCELLED" THEN [type |-> "appointment.cancelled", to |-> to]
    ELSE [type |-> "appointment.status_changed", from |-> from, to |-> to]

Init == status = "CONFIRMED" /\ events = <<>>

Change(to) ==
    /\ to \in Allowed[status]
    /\ status' = to
    /\ events' = Append(events, EventFor(status, to))

Next == \E to \in {"IN_PROGRESS", "COMPLETED", "CANCELLED"} : Change(to)

Spec == Init /\ [][Next]_<<status, events>>

-----------------------------------------------------------------------------
(* Properties. *)

\* The status the first n events lead to.
StatusAfter(n) == IF n = 0 THEN "CONFIRMED" ELSE events[n].to

\* A consumer that reads only the events, in order, ends with the status stored,
\* and every event is a legal change of the status the ones before it led to.
EventsTell ==
    /\ status = StatusAfter(Len(events))
    /\ \A n \in DOMAIN events :
          /\ events[n].to \in Allowed[StatusAfter(n - 1)]
          /\ events[n] = EventFor(StatusAfter(n - 1), events[n].to)

=============================================================================
