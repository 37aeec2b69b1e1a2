----------------------------- MODULE MCCharging -----------------------------
(* A short count and a short queue. *)
EXTENDS Charging
=============================================================================
