---------------------------- MODULE MCKeyDriver -----------------------------
(* KeyDriver with the short times of its .cfg files.  *)
EXTENDS KeyDriver
=============================================================================
