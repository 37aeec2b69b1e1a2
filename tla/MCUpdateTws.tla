----------------------------- MODULE MCUpdateTws -----------------------------
(* UpdateTws with the bounds of UpdateTws.cfg. *)
EXTENDS UpdateTws
=============================================================================
