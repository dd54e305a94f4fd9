--------------------------- MODULE MCRegistrations ---------------------------
(* Registrations on a small instance. *)
EXTENDS Registrations, TLC
=============================================================================
