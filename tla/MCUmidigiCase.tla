---------------------------- MODULE MCUmidigiCase ----------------------------
(* UmidigiCase with the bounds of UmidigiCase.cfg. *)
EXTENDS UmidigiCase
=============================================================================
