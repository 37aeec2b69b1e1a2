---------------------------- MODULE MCUmidigiFrame ----------------------------
(* Frames whose runs of equal bits are long and short: every value of three *)
(* of the bits, the other ten all 0 or all 1.                              *)
EXTENDS UmidigiFrame

MCFrames ==
    {m \in Frame : \E ends \in SUBSET {12, 6, 1} : m = ends \/ m = ends \cup {2, 3, 4, 5, 7, 8, 9, 10, 11, 13}}

(* Runs that are longest and shortest, for the bit of 40 milliseconds. *)
MCFewFrames == {{13}, {1, 3, 5, 7, 9, 11, 13}, 1..13}
=============================================================================
