------------------------------- MODULE Contact ------------------------------
(***************************************************************************)
(* What the detection of the charger contact promises to the rest of the   *)
(* firmware, without samples, filters, counters or interrupts: a report is *)
(* of the level there is at that moment and never of the level reported    *)
(* last, nothing is reported while the case talks, and a contact that goes *)
(* on being different from what was reported is reported.                  *)
(***************************************************************************)
CONSTANTS
    Level,      \* the levels the contact may have
    NoLevel     \* what is reported before the first report: no level

VARIABLES
    level,      \* the level of the contact
    reported,   \* the level reported last
    talking,    \* the case talks over the contact
    watched     \* the detection has not been stopped
vars == <<level, reported, talking, watched>>

Init ==
    /\ level \in Level /\ reported \in {level, NoLevel}
    /\ talking = FALSE /\ watched = TRUE

Moves ==
    /\ level' \in Level \ {level}
    /\ UNCHANGED <<reported, talking, watched>>

(* The report itself, for modules that have a contact of their own. *)
Reports == ~talking /\ reported # level /\ reported' = level

Report ==
    /\ Reports
    /\ UNCHANGED <<level, talking, watched>>

Talk == talking' = ~talking /\ UNCHANGED <<level, reported, watched>>
Watch == watched' = ~watched /\ UNCHANGED <<level, reported, talking>>

Next == Moves \/ Report \/ Talk \/ Watch

Safe == Init /\ [][Next]_vars
Spec == Safe /\ WF_vars(watched /\ Report)
=============================================================================
