---------------------------- MODULE MCDriverLoop ----------------------------
(* Instances of DriverLoop for TLC. *)
EXTENDS DriverLoop

CONSTANTS e1, e2

=============================================================================
