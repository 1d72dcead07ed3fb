------------------------------ MODULE Reservations ------------------------------
(***************************************************************************)
(* What POST /appointments promises when nobody looks inside: one calendar *)
(* for all bays and technicians, and every request decided in one step.    *)
(* It is reserved on a bay and a technician that are free, or refused      *)
(* because none is, or answered with what its key has booked already.  The *)
(* answer may be lost on its way.                                          *)
(***************************************************************************)
EXTENDS OperatingHours

CONSTANTS
    Requests, Inputs, NoInput, Keys, Nobody,
    Bays, Technicians, HomeOf, Skills

VARIABLES
    present,     \* bays, technicians and customers that exist
    calendar,    \* live reservations: whose, with which resources, for what
    saved,       \* key -> the request that has booked with it
    asked,       \* what each request asks for
    verdict      \* and what it is told

vars == <<present, calendar, saved, asked, verdict>>

Told(code, appointment) == [status |-> code, appointment |-> appointment]
Undecided == Told(0, Nobody)

Kinds == {"bay", "tech"}
Resources == [bay |-> Bays, tech |-> Technicians]

Suitable(k, d) ==
    {r \in Resources[k] : HomeOf[r] = d.dealership /\ (k = "tech" => d.service \in Skills[r])}

\* Two half-open windows share an instant.
Meet(c, d) ==
    /\ c.start < ComputeEndTime(d.start, d.service)
    /\ d.start < ComputeEndTime(c.start, c.service)

Free(k, d) ==
    {r \in Suitable(k, d) \intersect present :
        ~ \E e \in calendar : e.uses[k] = r /\ Meet(e.input, d)}

Known(d) == d.key \in Keys /\ saved[d.key] # Nobody

Bookable(d) == ~ Known(d) /\ d.service \in DOMAIN ServiceCatalog

Decide(p, outcome) == verdict[p] = Undecided /\ verdict' = [verdict EXCEPT ![p] = outcome]

-----------------------------------------------------------------------------

Init ==
    /\ calendar = {}
    /\ saved = [key \in Keys |-> Nobody]
    /\ asked = [p \in Requests |-> NoInput]
    /\ verdict = [p \in Requests |-> Undecided]

\* The request is received now, or was before with the same content.
Ask(p, d) == asked[p] \in {NoInput, d} /\ asked' = [asked EXCEPT ![p] = d]

Receive(p, d) == Ask(p, d) /\ UNCHANGED <<present, calendar, saved, verdict>>

Replay(p, d) ==
    /\ Ask(p, d) /\ Known(d)
    /\ Decide(p, Told(201, saved[d.key]))
    /\ UNCHANGED <<present, calendar, saved>>

Reject(p, d) ==
    /\ Ask(p, d) /\ ~ Known(d)
    /\ Decide(p, Told(400, Nobody))
    /\ UNCHANGED <<present, calendar, saved>>

Reserve(p, d) ==
    /\ Ask(p, d) /\ Bookable(d) /\ d.customer \in present
    /\ \E uses \in [Kinds -> Bays \union Technicians] :
          /\ \A k \in Kinds : uses[k] \in Free(k, d)
          /\ calendar' = calendar \union {[request |-> p, uses |-> uses, input |-> d]}
    /\ saved' = IF d.key \in Keys THEN [saved EXCEPT ![d.key] = p] ELSE saved
    /\ Decide(p, Told(201, p))
    /\ UNCHANGED present

Refuse(p, d) ==
    /\ Ask(p, d) /\ Bookable(d)
    /\ \E k \in Kinds : Free(k, d) = {}
    /\ Decide(p, Told(409, Nobody))
    /\ UNCHANGED <<present, calendar, saved>>

Lose(p) ==
    /\ verdict' = [verdict EXCEPT ![p] = Told(500, Nobody)]
    /\ UNCHANGED <<present, calendar, saved, asked>>

Cancel ==
    /\ \E e \in calendar : calendar' = calendar \ {e}
    /\ UNCHANGED <<present, saved, asked, verdict>>

\* Nothing that a live reservation needs goes away.
ChangePresent ==
    /\ \A e \in calendar : e.input.customer \in present' /\ \A k \in Kinds : e.uses[k] \in present'
    /\ UNCHANGED <<calendar, saved, asked, verdict>>

Next ==
    \/ \E p \in Requests, d \in Inputs :
          Receive(p, d) \/ Replay(p, d) \/ Reject(p, d) \/ Reserve(p, d) \/ Refuse(p, d)
    \/ \E p \in Requests : Lose(p)
    \/ Cancel \/ ChangePresent

Spec == Init /\ [][Next]_vars

=============================================================================
