------------------------------ MODULE BudLife -------------------------------
(***************************************************************************)
(* What switching on and off promises of each earbud, without timers,      *)
(* queues, tones, links or phones: a power-off is not taken back, it ends, *)
(* and it ends off or in a start; a bud that charges does not begin one;   *)
(* only a start leads into the case or out of being off.                   *)
(***************************************************************************)
CONSTANT Bud

VARIABLE life       \* life[b]: "on", "leaving", "off", "starting" or "charging"

Init == life = [b \in Bud |-> "on"]

Goes(b, from, to) ==
    /\ life[b] \in from
    /\ \E s \in to : life' = [life EXCEPT ![b] = s]

Begin(b)  == Goes(b, {"on"}, {"leaving"})
Finish(b) == Goes(b, {"leaving"}, {"off", "starting"})
Wake(b)   == Goes(b, {"off"}, {"starting"})
Start(b)  == Goes(b, {"starting"}, {"on", "charging", "off"})
Undock(b) == Goes(b, {"charging"}, {"on", "off"})

Next == \E b \in Bud : Begin(b) \/ Finish(b) \/ Wake(b) \/ Start(b) \/ Undock(b)

Safe == Init /\ [][Next]_life
Spec == Safe /\ \A b \in Bud : WF_life(Finish(b))
=============================================================================
