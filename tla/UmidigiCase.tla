----------------------------- MODULE UmidigiCase -----------------------------
(***************************************************************************)
(* One earbud and the lid of its UMIDIGI case                              *)
(* (apps/earphone/power_manage/app_umidigi_chargestore.c).                 *)
(*                                                                         *)
(* The case tells over the contact that its lid is open or closed, again   *)
(* and again. The interrupt that receives a command writes cover_status    *)
(* and posts an event; the task app_core handles the event, which starts a *)
(* timer of two seconds; what is then done depends on what cover_status is *)
(* by then, on the contact, and on what the bud is doing.                  *)
(*                                                                         *)
(* The timers keep no time: a timer that runs may end at any moment.       *)
(* What the case tells of its battery is left out, and so is charging,     *)
(* which is Charging's. pair_timer starts nothing in the builds of this    *)
(* tree (CONFIG_TWS_PAIR_BY_CLICK).                                        *)
(***************************************************************************)
EXTENDS Naturals, Sequences, FiniteSets

CONSTANT QueueCap       \* commands app_core can have waiting, and (a bound) reports of the contact

ASSUME UmidigiAssumption == QueueCap \in Nat \ {0}

VARIABLES
    lid,                \* the case is open
    contact,            \* the bud is in the case
    weak,               \* get_vbat_need_shutdown
    charge_online_flag, \* the contact, as the charger driver has seen it
    cover_status,       \* the lid, as the case has told
    switch2bt,          \* the open lid is switching the bud on
    timer, closing,     \* handle of the timer of the closed lid; it runs
    open_case_timer, opening,       \* the same for the open lid
    app,                \* "idle", "bt", "off"; "starting": app_core is in
                        \* task_switch_to_bt; "leaving": in Bluetooth mode with
                        \* goto_poweroff_flag, on the way to a reset
    resetting,          \* ldo5v_in_reset_timer runs
    queue               \* events for app_core

world == <<lid, contact, weak>>
closed == <<timer, closing>>
opened == <<open_case_timer, opening>>
vars == <<world, charge_online_flag, cover_status, switch2bt, closed, opened, app, resetting, queue>>

Command == {"open", "close", "pair"}
Event == Command \cup {"in", "off"}

TypeOK ==
    /\ lid \in BOOLEAN /\ contact \in BOOLEAN /\ weak \in BOOLEAN
    /\ charge_online_flag \in BOOLEAN /\ cover_status \in BOOLEAN /\ switch2bt \in BOOLEAN
    /\ timer \in BOOLEAN /\ closing \in BOOLEAN
    /\ open_case_timer \in BOOLEAN /\ opening \in BOOLEAN
    /\ app \in {"idle", "starting", "bt", "leaving", "off"} /\ resetting \in BOOLEAN
    /\ queue \in Seq(Event)

Waiting(kind) == Cardinality({i \in 1..Len(queue) : queue[i] \in kind})

(* sys_event_notify: a queue that is full of commands takes no other. *)
Posted(e) == queue' = IF Waiting(Command) < QueueCap THEN Append(queue, e) ELSE queue

(* app_main. A bud that is reset needs no key to come on. What the charger *)
(* driver finds at the contact it reports long before a timer of the lid   *)
(* could end.                                                              *)
Found(on) == IF on THEN <<"in">> ELSE <<>>

Boot(on) ==
    /\ app' = IF on THEN "idle" ELSE "bt"
    /\ charge_online_flag' = on /\ cover_status' = FALSE /\ switch2bt' = FALSE
    /\ timer' = FALSE /\ closing' = FALSE
    /\ open_case_timer' = FALSE /\ opening' = FALSE
    /\ resetting' = FALSE /\ queue' = Found(on)

Init ==
    /\ lid \in BOOLEAN /\ contact \in BOOLEAN /\ (~lid => contact) /\ weak \in BOOLEAN
    /\ app = (IF contact THEN "idle" ELSE "bt")
    /\ charge_online_flag = contact /\ cover_status = FALSE /\ switch2bt = FALSE
    /\ timer = FALSE /\ closing = FALSE /\ open_case_timer = FALSE /\ opening = FALSE
    /\ resetting = FALSE /\ queue = Found(contact)

-----------------------------------------------------------------------------
(* The user and the battery. *)

MovesLid ==
    /\ contact /\ lid' = ~lid
    /\ UNCHANGED <<contact, weak, charge_online_flag, cover_status, switch2bt, closed, opened, app, resetting, queue>>

(* Taken out of the open case, or put in; the contact wakes a bud that is off. *)
Moves ==
    /\ lid /\ contact' = ~contact
    /\ IF app = "off" THEN Boot(contact')
       ELSE UNCHANGED <<charge_online_flag, cover_status, switch2bt, closed, opened, app, resetting, queue>>
    /\ UNCHANGED <<lid, weak>>

Drains ==
    /\ weak' = ~contact
    /\ UNCHANGED <<lid, contact, charge_online_flag, cover_status, switch2bt, closed, opened, app, resetting, queue>>

-----------------------------------------------------------------------------
(* Interrupts. *)

(* ldo5v_detect, as Contact promises it *)
Detection == INSTANCE Contact WITH
    Level <- BOOLEAN, NoLevel <- "none", level <- contact, reported <- charge_online_flag,
    talking <- FALSE, watched <- TRUE

Report ==
    /\ Detection!Reports
    /\ app # "off" /\ Waiting({"in", "off"}) < QueueCap
    /\ queue' = Append(queue, IF contact THEN "in" ELSE "off")
    /\ UNCHANGED <<world, cover_status, switch2bt, closed, opened, app, resetting>>

(* app_umidigi_chargetore_message_deal *)
Tells == app # "off" /\ contact

TellsOpen ==
    /\ Tells /\ lid
    /\ cover_status' = TRUE
    /\ IF switch2bt THEN UNCHANGED queue ELSE Posted("open")
    /\ UNCHANGED <<world, charge_online_flag, switch2bt, closed, opened, app, resetting>>

TellsClose ==
    /\ Tells /\ ~lid
    /\ cover_status' = FALSE
    /\ Posted("close")
    /\ UNCHANGED <<world, charge_online_flag, switch2bt, closed, opened, app, resetting>>

(* The key of the open case. Nobody presses it faster than app_core reads. *)
TellsPair ==
    /\ Tells /\ lid /\ Waiting({"pair"}) = 0
    /\ cover_status' = TRUE
    /\ Posted("pair")
    /\ UNCHANGED <<world, charge_online_flag, switch2bt, closed, opened, app, resetting>>

(* The edges of a command wake a bud that is off. *)
Wakes == app = "off" /\ contact /\ Boot(TRUE) /\ UNCHANGED world

-----------------------------------------------------------------------------
(* app_core: events. *)

Ready == app \notin {"starting", "off"}

Takes(e) ==
    /\ Ready /\ queue # <<>> /\ Head(queue) = e
    /\ queue' = Tail(queue)
    /\ UNCHANGED <<world, charge_online_flag, cover_status>>

OpenDeal ==
    /\ Takes("open")
    /\ open_case_timer' = TRUE
    /\ opening' = (opening \/ ~open_case_timer)
    /\ UNCHANGED <<switch2bt, closed, app, resetting>>

(* sys_timer_modify starts a timer that runs from the beginning, no other. *)
CloseDeal ==
    /\ Takes("close")
    /\ timer' = (timer \/ ~cover_status)
    /\ closing' = (closing \/ (~cover_status /\ ~timer))
    /\ UNCHANGED <<switch2bt, opened, app, resetting>>

PairDeal == Takes("pair") /\ UNCHANGED <<switch2bt, closed, opened, app, resetting>>

(* charge_ldo5v_in_deal. While the other bud does not yet listen to the    *)
(* phone of this one the reset is put off.                                 *)
InDeal ==
    /\ Takes("in")
    /\ \/ app # "bt" /\ UNCHANGED <<app, resetting>>
       \/ app = "bt" /\ app' = "leaving" /\ resetting' = FALSE
       \/ app = "bt" /\ app' = "bt" /\ resetting' = TRUE
    /\ UNCHANGED <<switch2bt, closed, opened>>

(* Mutant: a bud that is taken out waits to be told of the open lid. *)
OffDealMutant ==
    /\ Takes("off")
    /\ app' = IF app = "idle" /\ weak THEN "off" ELSE app
    /\ UNCHANGED <<switch2bt, closed, opened, resetting>>

(* charge_ldo5v_off_deal *)
OffDeal ==
    /\ Takes("off")
    /\ app' = IF app # "idle" THEN app ELSE IF weak THEN "off" ELSE "starting"
    /\ UNCHANGED <<switch2bt, closed, opened, resetting>>

(* Mutant: after the switch the handle is kept. *)
SwitchedMutant ==
    /\ app = "starting" /\ app' = "bt"
    /\ switch2bt' = FALSE
    /\ UNCHANGED <<world, charge_online_flag, cover_status, closed, opened, queue, resetting>>

(* task_switch_to_bt returns; the callback of the open lid goes on. *)
Switched ==
    /\ app = "starting" /\ app' = "bt"
    /\ switch2bt' = FALSE
    /\ open_case_timer' = (open_case_timer /\ ~switch2bt)
    /\ UNCHANGED <<world, charge_online_flag, cover_status, closed, opening, queue, resetting>>

-----------------------------------------------------------------------------
(* app_core: timers. *)

(* Mutant: the handle is kept when the battery is too weak. *)
OpenCallbackMutant ==
    /\ Ready /\ opening /\ opening' = FALSE
    /\ IF cover_status /\ ~weak /\ app = "idle"
         THEN app' = "starting" /\ switch2bt' = TRUE /\ UNCHANGED open_case_timer
         ELSE open_case_timer' = (cover_status /\ weak) /\ UNCHANGED <<app, switch2bt>>
    /\ UNCHANGED <<world, charge_online_flag, cover_status, closed, queue, resetting>>

(* open_case_callback *)
OpenCallback ==
    /\ Ready /\ opening /\ opening' = FALSE
    /\ IF cover_status /\ ~weak /\ app = "idle"
         THEN app' = "starting" /\ switch2bt' = TRUE /\ UNCHANGED open_case_timer
         ELSE open_case_timer' = FALSE /\ UNCHANGED <<app, switch2bt>>
    /\ UNCHANGED <<world, charge_online_flag, cover_status, closed, queue, resetting>>

(* Mutant: the handle of the timer that has ended is kept. *)
CloseCallbackMutant ==
    /\ Ready /\ closing /\ closing' = FALSE
    /\ cover_status' = (cover_status \/ ~charge_online_flag)
    /\ app' = IF ~cover_status' /\ app = "bt" THEN "leaving" ELSE app
    /\ UNCHANGED <<world, charge_online_flag, switch2bt, timer, opened, queue, resetting>>

(* umidigi_chargestore_timeout_deal: without the contact the lid counts as open. *)
CloseCallback ==
    /\ Ready /\ closing /\ closing' = FALSE /\ timer' = FALSE
    /\ cover_status' = (cover_status \/ ~charge_online_flag)
    /\ app' = IF ~cover_status' /\ app = "bt" THEN "leaving" ELSE app
    /\ UNCHANGED <<world, charge_online_flag, switch2bt, opened, queue, resetting>>

(* ldo5v_in_reset_delay, whose delay_timeout ends: nobody stops the timer   *)
(* when the bud is taken out again.                                        *)
ResetDelay ==
    /\ Ready /\ resetting /\ resetting' = FALSE
    /\ app' = IF app = "bt" THEN "leaving" ELSE app
    /\ UNCHANGED <<world, charge_online_flag, cover_status, switch2bt, closed, opened, queue>>

(* wait_exit_btstack_flag: sys_enter_soft_poweroff(1) ends in a reset. *)
Leave == app = "leaving" /\ Boot(contact) /\ UNCHANGED world

Deals == OpenDeal \/ CloseDeal \/ PairDeal \/ InDeal \/ OffDeal

Next ==
    \/ MovesLid \/ Moves \/ Drains
    \/ Report \/ TellsOpen \/ TellsClose \/ TellsPair \/ Wakes
    \/ Deals \/ Switched \/ OpenCallback \/ CloseCallback \/ ResetDelay \/ Leave

(* The case repeats itself and pauses longer than the timers; in the case  *)
(* the battery charges.                                                    *)
Fairness ==
    /\ WF_vars(TellsOpen) /\ WF_vars(TellsClose) /\ WF_vars(Wakes) /\ WF_vars(Drains /\ contact)
    /\ WF_vars(Report) /\ WF_vars(Deals) /\ WF_vars(Switched)
    /\ WF_vars(OpenCallback) /\ WF_vars(CloseCallback) /\ WF_vars(ResetDelay)
    /\ WF_vars(Leave)

Spec == Init /\ [][Next]_vars /\ Fairness

-----------------------------------------------------------------------------
(* A handle stands for a timer that runs, on every way out of the          *)
(* callbacks: a handle that outlives its timer is never started again, and *)
(* the bud is deaf to its lid. While the open lid switches the bud on its  *)
(* handle is kept.                                                         *)
NoStaleHandle ==
    /\ timer = closing
    /\ open_case_timer = (opening \/ switch2bt)

(* A bud that stays in the open case ends up, for good, in Bluetooth mode, *)
(* whatever the lid and the bud did before.                                *)
OpenEndsInBt == <>[](lid /\ contact) => <>[](app = "bt")

(* A bud that stays in the closed case ends up, for good, idle: it is not  *)
(* left in Bluetooth mode and not reset again and again.                   *)
ClosedEndsIdle == <>[](~lid /\ contact) => <>[](app = "idle")

(* app_umidigi_chargestore.c:194: a bud taken out of the case ends up in   *)
(* Bluetooth mode, or off because it is weak, though nobody tells it that  *)
(* the lid was opened: it is not reset again and again.                    *)
OutEndsInBt == <>[]~contact => <>[](app = "bt" \/ (app = "off" /\ ~contact))
=============================================================================
