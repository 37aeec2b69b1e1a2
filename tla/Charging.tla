------------------------------ MODULE Charging ------------------------------
(***************************************************************************)
(* Charging one earbud in its case: cpu/br28/charge.c (charge_start,       *)
(* charge_close, charge_cc_check, charge_full_detect) under the handlers   *)
(* of apps/earphone/power_manage/app_charge.c.                             *)
(*                                                                         *)
(* The task app_core starts and closes charging; two timers that run in    *)
(* the interrupt change the current and look for the end of the charge.    *)
(* A call of the task is a list of steps, todo, and the interrupts come    *)
(* between any two of them. Interrupts do not interrupt one another.       *)
(*                                                                         *)
(* The contact is reported as Contact promises, which is what ChargeDetect *)
(* implements: here the case does not talk and the detection goes on.      *)
(* Bluetooth mode and the way out of it are PowerOff's: here "leaving" is  *)
(* a power-off that ends in a reset.                                       *)
(***************************************************************************)
EXTENDS Naturals, Sequences

CONSTANTS
    FullCount,    \* samples charge_full_detect counts before the last one: 10
    QueueCap      \* bound: the contact reports nothing to a longer queue

ASSUME ChargingAssumption == FullCount \in Nat /\ QueueCap \in Nat

VARIABLES
    level,        \* the voltage at the contact: "in", "keep", "off"
    reported,     \* charge_flag
    volt,         \* the battery is above CHARGE_CCVOL_V
    topped,       \* the battery is full
    lid,          \* the case is open, as it keeps telling (cover_status)
    noise,        \* what the full flag reads while there is no supply
    filtered,     \* CHARGE_FULL_FILTER_GET: the full flag, 16 ms late
    enabled,      \* CHARGE_EN
    current,      \* set_charge_mA: "trickle" or "cc"
    wake,         \* IO_CHGFL_DET wakes
    charge_timer, cc_timer,     \* the timers run
    charge_full_cnt,
    app,          \* "idle", "bt", "leaving", or "off"
    charge_full_flag,
    ldo5v_keep_timer,
    mode,         \* power_set_mode: "ldo" while charging
    monitor,      \* vbat_slow_timer is there
    queue,        \* events for app_core
    todo          \* the steps left of the call the task is in

contact == <<level, reported>>
battery == <<volt, topped, noise, lid>>
charger == <<enabled, current, wake>>
timers == <<charge_timer, cc_timer, charge_full_cnt>>
task == <<app, charge_full_flag, ldo5v_keep_timer, mode, monitor>>
vars == <<contact, battery, filtered, charger, timers, task, queue, todo>>

Level == {"in", "keep", "off"}
Event == Level \cup {"start", "close", "full"}
Start == <<"dropFull", "current">>      \* charge_start; "current" adds what follows
Close == <<"disable", "dropFull", "dropCC">>
Step == {"dropFull", "current", "go", "goAndCheck", "disable", "dropCC", "bt"}

TypeOK ==
    /\ level \in Level /\ reported \in Level \cup {"none"}
    /\ volt \in BOOLEAN /\ topped \in BOOLEAN /\ noise \in BOOLEAN /\ lid \in BOOLEAN /\ filtered \in BOOLEAN
    /\ enabled \in BOOLEAN /\ current \in {"trickle", "cc"} /\ wake \in BOOLEAN
    /\ charge_timer \in BOOLEAN /\ cc_timer \in BOOLEAN
    /\ charge_full_cnt \in 0..FullCount
    /\ app \in {"idle", "bt", "leaving", "off"}
    /\ charge_full_flag \in BOOLEAN /\ ldo5v_keep_timer \in BOOLEAN
    /\ mode \in {"ldo", "low"} /\ monitor \in BOOLEAN
    /\ queue \in Seq(Event) /\ todo \in Seq(Step)

(* CHARGE_FULL_FLAG_GET. The current falls below the limit when the        *)
(* battery is full, and stays there when the supply goes for a moment; the *)
(* trickle does not count. Without supply it may read anything.            *)
Flag(on) == on /\ IF level = "in" THEN current = "cc" /\ topped ELSE topped \/ noise

Holds(e) == \E i \in 1..Len(queue) : queue[i] = e

-----------------------------------------------------------------------------
(* app_main with the contact at l: in the case only "idle" runs. *)
Boot(l) ==
    /\ reported' = IF l = "off" THEN "off" ELSE "none"
    /\ app' = IF l = "off" THEN "bt" ELSE "idle"
    /\ filtered' = FALSE
    /\ enabled' = FALSE /\ current' = "trickle" /\ wake' = FALSE
    /\ charge_timer' = FALSE /\ cc_timer' = FALSE /\ charge_full_cnt' = 0
    /\ charge_full_flag' = FALSE /\ ldo5v_keep_timer' = FALSE /\ mode' = "low" /\ monitor' = TRUE
    /\ queue' = <<>> /\ todo' = <<>>

Init ==
    /\ level \in Level /\ volt \in BOOLEAN /\ topped = FALSE /\ noise = FALSE /\ lid \in BOOLEAN
    /\ reported = (IF level = "off" THEN "off" ELSE "none")
    /\ app = (IF level = "off" THEN "bt" ELSE "idle")
    /\ filtered = FALSE
    /\ enabled = FALSE /\ current = "trickle" /\ wake = FALSE
    /\ charge_timer = FALSE /\ cc_timer = FALSE /\ charge_full_cnt = 0
    /\ charge_full_flag = FALSE /\ ldo5v_keep_timer = FALSE /\ mode = "low" /\ monitor = TRUE
    /\ queue = <<>> /\ todo = <<>>

-----------------------------------------------------------------------------
(* The world. An edge of the contact starts a bud that is off. *)

Changes ==
    /\ level' \in Level \ {level}
    /\ IF app = "off" THEN Boot(level')
       ELSE UNCHANGED <<reported, filtered, charger, timers, task, queue, todo>>
    /\ noise' = FALSE
    /\ UNCHANGED <<volt, topped, lid>>

Charges == enabled /\ level = "in"

(* The battery is slower than the filter of the flag. *)
Rises ==
    /\ Charges /\ filtered = Flag(enabled)
    /\ volt' = TRUE /\ topped' = (topped \/ (volt /\ current = "cc"))
    /\ UNCHANGED <<contact, noise, lid, filtered, charger, timers, task, queue, todo>>

(* ... and than the filter of the contact. *)
Falls ==
    /\ level # "in" /\ (reported = level \/ app = "off")
    /\ topped' = FALSE /\ volt' \in BOOLEAN
    /\ UNCHANGED <<contact, noise, lid, filtered, charger, timers, task, queue, todo>>

Noise ==
    /\ level # "in" /\ enabled /\ noise' = ~noise
    /\ UNCHANGED <<contact, volt, topped, lid, filtered, charger, timers, task, queue, todo>>

(* The case tells that its lid has moved, over a port that may wake a bud. *)
Lid ==
    /\ lid' = ~lid
    /\ \/ app = "off" /\ Boot(level)
       \/ UNCHANGED <<reported, filtered, charger, timers, task, queue, todo>>
    /\ UNCHANGED <<level, volt, topped, noise>>

Detection == INSTANCE Contact WITH NoLevel <- "none", talking <- FALSE, watched <- TRUE

(* ldo5v_detect: the filter of the contact is longer than that of the flag. *)
Report ==
    /\ Detection!Reports
    /\ app # "off" /\ filtered = Flag(enabled)
    /\ Len(queue) < QueueCap /\ queue' = Append(queue, level)
    /\ UNCHANGED <<level, battery, filtered, charger, timers, task, todo>>

(* The filter of the pin follows; a rising edge runs charge_wakeup_isr. *)
Settles ==
    /\ filtered # Flag(enabled)
    /\ filtered' = Flag(enabled)
    /\ charge_timer' = (charge_timer \/ (filtered' /\ wake))
    /\ UNCHANGED <<contact, battery, charger, cc_timer, charge_full_cnt, task, queue, todo>>

-----------------------------------------------------------------------------
(* charge_full_detect *)

FullStops ==
    /\ ~filtered
    /\ charge_full_cnt' = 0 /\ charge_timer' = FALSE
    /\ UNCHANGED <<wake, queue>>

FullBreaks ==
    /\ filtered /\ ~(Flag(enabled) /\ level = "in")
    /\ charge_full_cnt' = 0
    /\ UNCHANGED <<charge_timer, wake, queue>>

FullCounts ==
    /\ filtered /\ Flag(enabled) /\ level = "in" /\ charge_full_cnt < FullCount
    /\ charge_full_cnt' = charge_full_cnt + 1
    /\ UNCHANGED <<charge_timer, wake, queue>>

FullReached ==
    /\ filtered /\ Flag(enabled) /\ level = "in" /\ charge_full_cnt >= FullCount
    /\ charge_full_cnt' = 0 /\ charge_timer' = FALSE /\ wake' = FALSE
    /\ queue' = Append(queue, "full")

FullDetect ==
    /\ charge_timer
    /\ FullStops \/ FullBreaks \/ FullCounts \/ FullReached
    /\ UNCHANGED <<contact, battery, filtered, enabled, current, cc_timer, task, todo>>

(* Mutant: the wake-up of the flag is left closed. *)
CcCheckMutant ==
    /\ cc_timer /\ volt
    /\ current' = "cc" /\ cc_timer' = FALSE /\ charge_timer' = TRUE
    /\ UNCHANGED <<contact, battery, filtered, enabled, wake, charge_full_cnt, task, queue, todo>>

(* charge_cc_check: below the voltage it changes nothing. *)
CcCheck ==
    /\ cc_timer /\ volt
    /\ current' = "cc" /\ cc_timer' = FALSE /\ wake' = TRUE
    /\ charge_timer' = TRUE
    /\ UNCHANGED <<contact, battery, filtered, enabled, charge_full_cnt, task, queue, todo>>

-----------------------------------------------------------------------------
(* The steps of charge_start and charge_close. *)

Doing(s) == todo # <<>> /\ Head(todo) = s
Done == todo' = Tail(todo)

DropFull ==
    /\ Doing("dropFull") /\ Done
    /\ charge_timer' = FALSE
    /\ UNCHANGED <<contact, battery, filtered, charger, cc_timer, charge_full_cnt, task, queue>>

(* The end of the charge is looked for only from constant current on. *)
Current ==
    /\ Doing("current")
    /\ IF volt THEN /\ current' = "cc" /\ wake' = TRUE
                    /\ todo' = <<"goAndCheck">> /\ UNCHANGED cc_timer
               ELSE /\ current' = "trickle" /\ cc_timer' = TRUE
                    /\ todo' = <<"go">> /\ UNCHANGED wake
    /\ UNCHANGED <<contact, battery, filtered, enabled, charge_timer, charge_full_cnt, task, queue>>

(* Mutant: an edge is waited for, though the flag may be up already. *)
GoMutant ==
    /\ Doing("go") \/ Doing("goAndCheck")
    /\ Done
    /\ enabled' = TRUE /\ queue' = Append(queue, "start")
    /\ UNCHANGED <<contact, battery, filtered, current, wake, timers, task>>

Go ==
    /\ Doing("go") \/ Doing("goAndCheck")
    /\ Done
    /\ enabled' = TRUE /\ queue' = Append(queue, "start")
    /\ charge_timer' = (charge_timer \/ (Doing("goAndCheck") /\ Flag(TRUE)))
    /\ UNCHANGED <<contact, battery, filtered, current, wake, cc_timer, charge_full_cnt, task>>

(* Mutant: CHARGE_EVENT_CHARGE_CLOSE is left to the caller. *)
DisableMutant ==
    /\ Doing("disable") /\ Done
    /\ enabled' = FALSE /\ wake' = FALSE
    /\ UNCHANGED <<contact, battery, filtered, current, timers, task, queue>>

Disable ==
    /\ Doing("disable") /\ Done
    /\ enabled' = FALSE /\ wake' = FALSE /\ queue' = Append(queue, "close")
    /\ UNCHANGED <<contact, battery, filtered, current, timers, task>>

(* Mutant: the trickle timer is left running. *)
DropCCMutant ==
    /\ Doing("dropCC") /\ Done
    /\ UNCHANGED <<contact, battery, filtered, charger, timers, task, queue>>

DropCC ==
    /\ Doing("dropCC") /\ Done
    /\ cc_timer' = FALSE
    /\ UNCHANGED <<contact, battery, filtered, charger, charge_timer, charge_full_cnt, task, queue>>

(* The end of charge_ldo5v_off_deal, with a battery that is not weak. *)
ToBt ==
    /\ Doing("bt") /\ Done
    /\ app' = IF app = "idle" THEN "bt" ELSE app
    /\ monitor' = TRUE
    /\ UNCHANGED <<contact, battery, filtered, charger, timers, charge_full_flag, ldo5v_keep_timer, mode, queue>>

-----------------------------------------------------------------------------
(* app_charge_event_handler *)

Takes(e) ==
    /\ app # "off" /\ todo = <<>> /\ queue # <<>> /\ Head(queue) = e
    /\ queue' = Tail(queue)
    /\ UNCHANGED <<contact, battery, filtered, charger, timers>>

(* charge_start_deal, charge_close_deal *)
Mode ==
    /\ \/ Takes("start") /\ mode' = "ldo"
       \/ Takes("close") /\ mode' = "low"
    /\ UNCHANGED <<app, charge_full_flag, ldo5v_keep_timer, monitor, todo>>

(* The slow timer of the battery is deleted with the lid open only. *)
FullDeal ==
    /\ Takes("full")
    /\ charge_full_flag' = TRUE /\ todo' = Close
    /\ monitor' = (monitor /\ ~lid)
    /\ UNCHANGED <<app, ldo5v_keep_timer, mode>>

KeepDeal ==
    /\ Takes("keep")
    /\ ldo5v_keep_timer' = TRUE
    /\ UNCHANGED <<app, charge_full_flag, mode, monitor, todo>>

InDeal ==
    /\ Takes("in")
    /\ charge_full_flag' = FALSE /\ ldo5v_keep_timer' = FALSE
    /\ IF app = "idle" THEN todo' = Start /\ UNCHANGED app
                       ELSE app' = "leaving" /\ UNCHANGED todo
    /\ UNCHANGED <<mode, monitor>>

OffDeal ==
    /\ Takes("off")
    /\ charge_full_flag' = FALSE /\ ldo5v_keep_timer' = FALSE
    /\ todo' = Append(Close, "bt")
    /\ UNCHANGED <<app, mode, monitor>>

-----------------------------------------------------------------------------
(* The lid, two seconds after it moved: by then the contact is known. *)

(* open_case_callback: a bud in the open case runs Bluetooth and charges.  *)
OpenCase ==
    /\ lid /\ app = "idle" /\ todo = <<>>
    /\ reported = level /\ ~Holds("in")
    /\ app' = "bt" /\ mode' = "low" /\ monitor' = TRUE
    /\ UNCHANGED <<contact, battery, filtered, charger, timers, charge_full_flag, ldo5v_keep_timer, queue, todo>>

(* umidigi_chargestore_timeout_deal: without the charger it counts as out. *)
CloseCase ==
    /\ ~lid /\ app = "bt" /\ reported # "off" /\ todo = <<>>
    /\ app' = "leaving"
    /\ UNCHANGED <<contact, battery, filtered, charger, timers, charge_full_flag, ldo5v_keep_timer, mode, monitor, queue, todo>>

-----------------------------------------------------------------------------
(* Ways out. *)

PowersDown == app' = "off" /\ queue' = <<>> /\ todo' = <<>>

(* ldo5v_keep_delay_deal, 250 ms after KEEP: it ends in a reset, unless    *)
(* the case still gives no more than a little: then in switching off.      *)
KeepDelay ==
    /\ ldo5v_keep_timer /\ app # "off" /\ todo = <<>>
    /\ IF level = "keep" /\ reported # "off"
         THEN /\ PowersDown /\ enabled' = FALSE /\ ldo5v_keep_timer' = FALSE
              /\ charge_timer' = FALSE /\ cc_timer' = FALSE /\ wake' = FALSE
              /\ UNCHANGED <<reported, filtered, current, charge_full_cnt, charge_full_flag, mode, monitor>>
         ELSE Boot(level)
    /\ UNCHANGED <<level, battery>>

(* The power-off that LDO5V_IN or the lid starts in Bluetooth mode. *)
Leave ==
    /\ app = "leaving" /\ todo = <<>>
    /\ Boot(level)
    /\ UNCHANGED <<level, battery>>

(* eSystemConfirmStopStatus: asked when no task has a time-out to come. In *)
(* Bluetooth mode some task always has; with the lid open a bud in idle    *)
(* waits for the two seconds of the lid; and the slow timer of the battery *)
(* keeps it awake too. So it is a bud that was full just as its lid was    *)
(* open for a moment that sleeps.                                          *)
Sleep ==
    /\ app = "idle" /\ charge_full_flag /\ ~lid /\ ~monitor
    /\ todo = <<>> /\ queue = <<>> /\ reported = level
    /\ ~charge_timer /\ ~cc_timer /\ ~ldo5v_keep_timer
    /\ PowersDown
    /\ UNCHANGED <<contact, battery, filtered, charger, timers, charge_full_flag, ldo5v_keep_timer, mode, monitor>>

Interrupt == Settles \/ FullDetect \/ CcCheck
Steps == DropFull \/ Current \/ Go \/ Disable \/ DropCC \/ ToBt
Deals == Mode \/ FullDeal \/ KeepDeal \/ InDeal \/ OffDeal
Next ==
    \/ Changes \/ Rises \/ Falls \/ Noise \/ Lid \/ Report
    \/ Interrupt \/ Steps \/ Deals \/ OpenCase \/ CloseCase \/ KeepDelay \/ Leave \/ Sleep

Fairness ==
    /\ WF_vars(Rises) /\ WF_vars(Report)
    /\ WF_vars(Settles) /\ WF_vars(FullDetect) /\ WF_vars(CcCheck)
    /\ WF_vars(Steps) /\ WF_vars(Deals)
    /\ WF_vars(KeepDelay) /\ WF_vars(Leave)
Spec == Init /\ [][Next]_vars /\ Fairness

-----------------------------------------------------------------------------
(* A bud that charges can find out that the battery is full: something     *)
(* will look at the flag, or has found it up.                              *)
NotBlind == enabled /\ todo = <<>> /\ app # "off" => cc_timer \/ wake \/ Holds("full")

(* power_set_mode follows the charging: when the events are handled, an    *)
(* idle bud is fed through the LDO exactly while it charges.               *)
ModeFollows ==
    todo = <<>> /\ ~Holds("start") /\ ~Holds("close") /\ app = "idle" => (mode = "ldo") = enabled

(* Once charging is closed no timer goes on for it, though charge_cc_check *)
(* may start charge_timer again between the two deletions: a timer that    *)
(* stayed would keep the chip awake.                                       *)
ClosedGoesQuiet == ~enabled ~> (enabled \/ (~charge_timer /\ ~cc_timer))

(* A bud left in a case that supplies it, with the lid at rest, ends up    *)
(* full, with its charge closed and its timers gone, for good: whatever    *)
(* came before, though charge_start may have run again over a charge that  *)
(* nobody closed, it does not miss that it is full, nor charge for ever,   *)
(* nor start again and again. It need not be off: in the open case it runs *)
(* Bluetooth, in the closed one the slow timer of the battery goes on.     *)
AtRest == <>[](level = "in" /\ lid) \/ <>[](level = "in" /\ ~lid)
ChargedUp == topped /\ ~enabled /\ ~charge_timer /\ ~cc_timer
EndsFull == AtRest => <>[]ChargedUp

(* charge.c:165: the detection of a full battery is opened only in         *)
(* constant current. The wake-up stays open when charging starts again,    *)
(* with a battery that has dropped below the voltage, before it was closed.*)
DetectsInCC == enabled /\ todo = <<>> /\ current = "trickle" => ~wake /\ ~charge_timer
=============================================================================
