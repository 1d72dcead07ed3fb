------------------------ MODULE MCAppointmentLifecycle ------------------------
(* A few requests for one appointment that starts one millisecond from now. *)
EXTENDS AppointmentLifecycle, TLC

Symmetry == Permutations(Requests)

=============================================================================
