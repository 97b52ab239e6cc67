---------------------------- MODULE MCReadiness ----------------------------
(* A small instance of Readiness: one probe after the other. *)
EXTENDS Readiness

CONSTANT r1
=============================================================================
