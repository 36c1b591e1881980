---------------------------- MODULE MCDriverWake ----------------------------
(* Instance of DriverWake for TLC: two threads, one of which closes files. *)
EXTENDS DriverWake

CONSTANTS p1, p2

=============================================================================
