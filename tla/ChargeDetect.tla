---------------------------- MODULE ChargeDetect ----------------------------
(***************************************************************************)
(* The charger contact of one earbud (cpu/br28/charge.c).                  *)
(*                                                                         *)
(* LDOIN is above the battery ("in"), below 0.6 V ("off") or between       *)
(* ("keep": a case that is empty or has stopped charging). An edge starts  *)
(* a 2 ms timer, ldo5v_detect, which counts samples per level and, when a  *)
(* count is reached, reports the level once and deletes itself. The edge   *)
(* interrupt starts no second timer; it comes after the pin has changed,   *)
(* the pin filter having let the new level pass.                           *)
(* The counters of the other two levels are cleared only when a count is   *)
(* reached, so samples that are not in a row add up.                       *)
(***************************************************************************)
EXTENDS Naturals

CONSTANTS
    OnFilter, KeepFilter,   \* ldo5v_on_filter, ldo5v_keep_filter
    OffFilter,              \* ldo5v_off_filter
    OffExtra                \* what ldo5v_detect adds to it: 20

ASSUME ChargeDetectAssumption ==
    /\ OnFilter \in Nat /\ KeepFilter \in Nat /\ OffFilter \in Nat /\ OffExtra \in Nat

VARIABLES
    level,      \* the voltage at LDOIN
    edge,       \* a wake-up edge the interrupt has not yet served
    timer,      \* ldo5v_timer runs
    cnt,        \* ldo5v_on_cnt, ldo5v_keep_cnt, ldo5v_off_cnt
    charge_flag,        \* the level reported last, "none" after reset
    charge_online_flag,
    charge_event_flag,  \* the task is ready for events
    detect_stop,        \* the case is talking over the same contact
    enabled,    \* the wake-up of the pins is enabled
    run         \* samples of the present level since it last changed (bounded)

timing == <<level, edge, run>>
flags == <<charge_flag, charge_online_flag>>
detect_vars == <<timing, timer, cnt, flags, charge_event_flag, detect_stop, enabled>>

Level == {"in", "keep", "off"}

(* The samples a level must be seen before the one that decides. *)
Filter(l) == CASE l = "in" -> OnFilter
               [] l = "keep" -> KeepFilter
               [] l = "off" -> OffFilter + OffExtra

DetectTypeOK ==
    /\ level \in Level /\ edge \in BOOLEAN /\ timer \in BOOLEAN
    /\ cnt \in [Level -> Nat] /\ \A l \in Level : cnt[l] <= Filter(l)
    /\ charge_flag \in Level \cup {"none"}
    /\ charge_online_flag \in BOOLEAN /\ charge_event_flag \in BOOLEAN
    /\ detect_stop \in BOOLEAN /\ enabled \in BOOLEAN
    /\ run \in Nat

-----------------------------------------------------------------------------
(* charge_init: check_charge_state looks at the pins for 20 ms. *)
DetectInit ==
    /\ level \in Level
    /\ charge_online_flag = (level # "off") /\ timer = (level # "off")
    /\ charge_flag = (IF level = "off" THEN "off" ELSE "none")
    /\ edge = FALSE /\ cnt = [l \in Level |-> 0]
    /\ charge_event_flag = FALSE /\ detect_stop = FALSE /\ enabled = TRUE
    /\ run = 0

(* One tick of the timer. Counting is all that happens before the filter   *)
(* is reached. Before the task is ready the timer goes on.                 *)
Counts(l) ==
    /\ cnt[l] < Filter(l)
    /\ cnt' = [cnt EXCEPT ![l] = @ + 1]
    /\ UNCHANGED <<timer, flags>>

OthersCleared(l, own) == [k \in Level |-> IF k = l THEN own ELSE 0]

(* Mutant: the timer stops before it is known whether the task is ready. *)
WaitsMutant(l) ==
    /\ cnt[l] >= Filter(l) /\ ~charge_event_flag
    /\ charge_online_flag' = (l # "off")
    /\ cnt' = OthersCleared(l, cnt[l])
    /\ timer' = FALSE
    /\ UNCHANGED charge_flag

Waits(l) ==
    /\ cnt[l] >= Filter(l) /\ ~charge_event_flag
    /\ charge_online_flag' = (l # "off")
    /\ cnt' = OthersCleared(l, cnt[l])
    /\ UNCHANGED <<timer, charge_flag>>

(* charge_flag tells which level the last event was about. *)
Reports(l) ==
    /\ cnt[l] >= Filter(l) /\ charge_event_flag
    /\ charge_online_flag' = (l # "off")
    /\ cnt' = OthersCleared(l, 0)
    /\ timer' = FALSE
    /\ charge_flag' = l

(* run is there for the properties only; it need not grow beyond the filter. *)
Sample ==
    /\ timer /\ ~detect_stop
    /\ Counts(level) \/ Waits(level) \/ Reports(level)
    /\ run' = IF run <= Filter(level) THEN run + 1 ELSE run
    /\ UNCHANGED <<level, edge, charge_event_flag, detect_stop, enabled>>

-----------------------------------------------------------------------------
(* Mutant: the edge is dropped before the task is ready. *)
EdgeInterruptMutant ==
    /\ edge
    /\ edge' = FALSE /\ timer' = (timer \/ charge_event_flag)
    /\ UNCHANGED <<level, run, cnt, flags, charge_event_flag, detect_stop, enabled>>

(* ldoin_wakeup_isr *)
EdgeInterrupt ==
    /\ edge
    /\ edge' = FALSE /\ timer' = TRUE
    /\ UNCHANGED <<level, run, cnt, flags, charge_event_flag, detect_stop, enabled>>

Changes ==
    /\ level' \in Level \ {level}
    /\ edge' = (edge \/ enabled) /\ run' = 0
    /\ UNCHANGED <<timer, cnt, flags, charge_event_flag, detect_stop, enabled>>

(* set_charge_event_flag(1), the last step of app_main *)
TaskReady ==
    /\ ~charge_event_flag /\ charge_event_flag' = TRUE
    /\ UNCHANGED <<timing, timer, cnt, flags, detect_stop, enabled>>

(* charge_set_ldo5v_detect_stop, around an exchange with the case *)
DetectStop ==
    /\ detect_stop' = ~detect_stop
    /\ UNCHANGED <<timing, timer, cnt, flags, charge_event_flag, enabled>>

(* charge_module_stop *)
ModuleStop ==
    /\ enabled' = FALSE /\ timer' = FALSE
    /\ UNCHANGED <<timing, cnt, flags, charge_event_flag, detect_stop>>

(* charge_module_restart: looks at the pins again before it waits for edges. *)
ModuleRestart ==
    /\ timer' = TRUE /\ enabled' = TRUE
    /\ UNCHANGED <<timing, cnt, flags, charge_event_flag, detect_stop>>

DetectNext ==
    \/ Sample \/ EdgeInterrupt \/ Changes \/ TaskReady
    \/ DetectStop \/ ModuleStop \/ ModuleRestart

(* The timer ticks, interrupts are served and the application starts. *)
DetectFairness == WF_detect_vars(Sample) /\ WF_detect_vars(EdgeInterrupt) /\ WF_detect_vars(TaskReady)
DetectSpec == DetectInit /\ [][DetectNext]_detect_vars /\ DetectFairness

-----------------------------------------------------------------------------
(* No change of the contact is lost: if no timer looks at the pins and no  *)
(* interrupt is about to start one, the level reported is the level there  *)
(* is, whatever bounced, however late the task was ready.                  *)
NothingMissed == ~timer /\ ~edge /\ enabled => charge_flag = level

(* The detection keeps the promise of Contact: what it reports is the      *)
(* level of that moment and news, and a contact that goes on being         *)
(* different is reported, however it bounces between the other levels.     *)
Promise == INSTANCE Contact WITH
    NoLevel <- "none", reported <- charge_flag, talking <- detect_stop, watched <- enabled
ImplementsContact == Promise!Spec

(* charge.h:113: the charger is out only if LDOIN was below 0.6 V for      *)
(* longer than the filter time. The code lets bounces add up.              *)
OffWhenSteadilyOff ==
    [][charge_flag' = "off" /\ charge_flag # "off" => run >= OffFilter]_detect_vars
=============================================================================
