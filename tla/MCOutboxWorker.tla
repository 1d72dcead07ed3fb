---------------------------- MODULE MCOutboxWorker ----------------------------
(* Three events, the first two about the same appointment. *)
EXTENDS OutboxWorker

TwoAppointments == <<"a", "a", "b">>

=============================================================================
