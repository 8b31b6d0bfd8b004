------------------------------ MODULE MCSensors ------------------------------
(* A small instance of Sensors for TLC. *)
EXTENDS Sensors

(* Less than a unit below zero, more than one above.                       *)
AroundZero == {-999, 1985}
=============================================================================
