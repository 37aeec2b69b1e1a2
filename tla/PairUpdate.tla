----------------------------- MODULE PairUpdate -----------------------------
(***************************************************************************)
(* What updating a pair of earbuds promises, without messages or timers:   *)
(* a bud boots a new image only when it has it whole, and the master only  *)
(* after the slave, because a slave can still be updated by its master     *)
(* but a master whose slave stayed behind has no update left to send it.   *)
(* Nothing is promised of a bud that is loose: it boots what it has.       *)
(***************************************************************************)
CONSTANTS Master, Slave

VARIABLES
    boot,       \* boot[b]: "old", "new" or "bad" (an image that is not whole)
    whole,      \* whole[b]: the image b has received is whole
    loose       \* the buds about to boot what they have, asked or not

Bud == {Master, Slave}
vars == <<boot, whole, loose>>

Init == boot = [b \in Bud |-> "old"] /\ whole \in [Bud -> BOOLEAN] /\ loose = {}

(* Images come and go. What will be booted is not taken back. *)
Receive == UNCHANGED boot

Adopt(b) ==
    /\ whole[b]
    /\ b = Master => boot[Slave] = "new"
    /\ boot' = [boot EXCEPT ![b] = "new"]

Slip(b) ==
    /\ b \in loose
    /\ boot' = [boot EXCEPT ![b] = IF whole[b] THEN "new" ELSE "bad"]

Next ==
    /\ whole' \in [Bud -> BOOLEAN] /\ loose' \in SUBSET Bud
    /\ Receive \/ \E b \in Bud : Adopt(b) \/ Slip(b)

Spec == Init /\ [][Next]_vars
=============================================================================
