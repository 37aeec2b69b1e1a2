--------------------------- MODULE MCAutoShutDown ---------------------------
(* Two buds and the scenarios of disturbances. *)
EXTENDS AutoShutDown
CONSTANTS Left, Right
MCBuds == {Left, Right}
MCChances ==
    {[d \in Disturbances |-> IF d = "on" THEN 3 ELSE 1],
     [d \in Disturbances |-> CASE d \in {"on", "phone"} -> 2 [] OTHER -> 0]}
=============================================================================
