------------------------------ MODULE MCBtTws ------------------------------
(* Two buds and the scenarios of disturbances. *)
EXTENDS BtTws, TLC
CONSTANTS Left, Right
MCBuds == {Left, Right}
Allow(leave, fade, ph, calls, swap) ==
    [d \in Disturbances |-> CASE d = "leave" -> leave [] d = "fade" -> fade
        [] d = "phone" -> ph [] d = "call" -> calls [] d = "swap" -> swap]
\* a bud that leaves; a fade around a call; a swap around a fade; a phone that
\* comes again, to either bud, before or after a swap
MCChances == {Allow(1, 0, 0, 0, 0), Allow(0, 1, 1, 1, 0), Allow(0, 1, 0, 0, 1),
              Allow(0, 0, 2, 0, 1)}
=============================================================================
