--------------------------- MODULE MCChargeDetect ---------------------------
(* ChargeDetect with the small filters of ChargeDetect.cfg. *)
EXTENDS ChargeDetect
=============================================================================
