---------------------------- MODULE PowerManage ----------------------------
(***************************************************************************)
(* Battery monitoring of one earbud: apps/earphone/power_manage/           *)
(* app_power_manage.c, with the calls that app_charge.c and app_main.c     *)
(* make into it.                                                           *)
(*                                                                         *)
(* Two contexts share the file's static variables without a lock.          *)
(* vbat_check runs in the interrupt of a 10 ms hardware timer              *)
(* (usr_timer_add); everything else runs in the app_core task, as the      *)
(* handler of a queued event or of a software timer (sys_timer_add).  An   *)
(* interrupt may come between any two accesses of the task, so the task's  *)
(* test-then-act sequences on vbat_fast_timer are several steps here.      *)
(***************************************************************************)
EXTENDS Integers, Sequences, SequencesExt

CONSTANTS
    DetectCnt,      \* VBAT_DETECT_CNT: samples in a window
    OffLimit,       \* low windows after which one more shuts down (6)
    VoiceLimit,     \* warning windows between two reminders (5)
    NormalLimit,    \* normal windows after which one more ends an alarm (2)
    BootLimit,      \* equal readings that decide at power-on (10)
    Volts,          \* what the ADC may read
    PoweroffV,      \* app_var.poweroff_tone_v
    WarnV,          \* app_var.warning_tone_v
    QueueCap        \* bound on the event queue of the app task

ASSUME CountersAssumption ==
    /\ {DetectCnt, OffLimit, VoiceLimit, NormalLimit, BootLimit} \subseteq Nat \ {0}
    /\ QueueCap \in Nat
ASSUME VoltsAssumption ==
    /\ Volts \subseteq Nat \ {0}
    /\ PoweroffV \in Nat /\ WarnV \in Nat

VARIABLES
    phase,          \* "boot" | "run" | "off" (goto_poweroff_flag set, or off)
    app,            \* the current application: "bt" or "idle"
    task,           \* where the app task is inside a handler
    pending,        \* timer id returned by usr_timer_add, not stored yet
    slow_timer,     \* vbat_slow_timer is set
    fast_timer,     \* vbat_fast_timer: a timer id, 0 for none
    live,           \* ids of the hardware timers that call vbat_check
    lowpower_timer, \* lowpower_timer is set
    cnt,            \* the static counters of vbat_check
    first_flag,     \* low_voice_first_flag
    cur_bat_st,     \* "NORMAL" | "WARNING" | "LOWPOWER"
    bat_val,        \* filtered voltage, 0 before the first sample
    old_level,      \* old_battery_level
    last_online,    \* charge_online_flag of vbat_check: charger at last window
    online,         \* get_charge_online_flag(), kept by the charge driver
    chg,            \* what the app task knows of the charger: out, in, full
    boot_cnt,       \* > 0: normal_power_cnt, < 0: -low_power_cnt
    events          \* events posted to the app task, oldest first

timers == <<slow_timer, fast_timer, live, pending>>
monitor == <<cnt, first_flag, cur_bat_st, bat_val, old_level, last_online>>
vars == <<phase, app, task, lowpower_timer, online, chg, boot_cnt, events,
          timers, monitor>>

TimerIds == 1..2
PowerEvents == {"NORMAL", "WARNING", "LOW", "CHANGE", "CHARGE"}
ChargeEvents == {"LDO5V_IN", "LDO5V_OFF", "CHARGE_FULL"}
ZeroCnt == [unit |-> 0, off |-> 0, warn |-> 0, voice |-> 0, low |-> 0, normal |-> 0]
\* the level shown to the phone: 0 at the shut-down voltage, rising with it
Level(v) == IF v <= PoweroffV THEN 0 ELSE v - PoweroffV

TypeOK ==
    /\ phase \in {"boot", "run", "off"} /\ app \in {"bt", "idle"}
    /\ task \in {"ready", "add_fast", "store_fast", "del_fast"}
    /\ fast_timer \in TimerIds \cup {0} /\ pending \in TimerIds \cup {0}
    /\ live \subseteq TimerIds
    /\ slow_timer \in BOOLEAN /\ lowpower_timer \in BOOLEAN
    /\ cnt \in [unit : 0..DetectCnt - 1, off : 0..DetectCnt - 1,
                warn : 0..DetectCnt - 1, voice : 0..VoiceLimit,
                low : 0..OffLimit, normal : 0..NormalLimit + 1]
    /\ first_flag \in BOOLEAN /\ cur_bat_st \in {"NORMAL", "WARNING", "LOWPOWER"}
    /\ bat_val \in Nat /\ old_level \in Nat
    /\ last_online \in BOOLEAN /\ online \in BOOLEAN
    /\ chg \in {"out", "in", "full"} /\ boot_cnt \in -BootLimit..BootLimit
    /\ events \in Seq(PowerEvents \cup ChargeEvents)

\* .data at reset; app_main chooses between the idle application (charger
\* present) and the voltage check that precedes the Bluetooth application
PowerUp(plugged) ==
    /\ phase = IF plugged THEN "run" ELSE "boot"
    /\ app = IF plugged THEN "idle" ELSE "bt"
    /\ slow_timer = plugged /\ lowpower_timer = FALSE
    /\ live = IF plugged THEN {1} ELSE {}
    /\ fast_timer = IF plugged THEN 1 ELSE 0
    /\ task = "ready" /\ pending = 0 /\ boot_cnt = 0
    /\ cnt = ZeroCnt /\ first_flag = TRUE /\ cur_bat_st = "NORMAL"
    /\ bat_val = 0 /\ old_level = 9 /\ last_online = FALSE
    /\ online = plugged /\ chg = IF plugged THEN "in" ELSE "out"
    /\ events = <<>>

Init == \E plugged \in BOOLEAN : PowerUp(plugged)

-----------------------------------------------------------------------------
(* "if (vbat_fast_timer == 0) vbat_fast_timer = usr_timer_add" is three      *)
(* steps of the task: the test here, then AddFast and StoreFast.             *)
TestFastMutant == task' = "add_fast"
TestFast == task' = IF fast_timer = 0 THEN "add_fast" ELSE "ready"
vbat_check_initMutant == UNCHANGED slow_timer /\ TestFast
vbat_check_init == slow_timer' = TRUE /\ TestFast

(* check_power_on_voltage: boots after BootLimit + 1 normal readings in a    *)
(* row, powers off after BootLimit + 1 low ones.                             *)
BootSample(v, adcLow) ==
    /\ phase = "boot" /\ task = "ready"
    /\ LET low == adcLow \/ v < PoweroffV
           n == CASE low /\ boot_cnt > 0   -> -1
                  [] low /\ boot_cnt <= 0  -> boot_cnt - 1
                  [] ~low /\ boot_cnt < 0  -> 1
                  [] ~low /\ boot_cnt >= 0 -> boot_cnt + 1
       IN /\ boot_cnt' = IF n \in {BootLimit + 1, -(BootLimit + 1)} THEN 0 ELSE n
          /\ phase' = CASE n = BootLimit + 1    -> "run"
                        [] n = -(BootLimit + 1) -> "off"
                        [] OTHER                -> "boot"
          /\ IF n = BootLimit + 1
             THEN vbat_check_init
             ELSE UNCHANGED <<slow_timer, task>>
    /\ UNCHANGED <<app, lowpower_timer, online, chg, events, monitor,
                   fast_timer, live, pending>>

-----------------------------------------------------------------------------
(* The interrupt: vbat_check.  One action per way the sample ends.           *)
Bat(v) == IF bat_val = 0 THEN v ELSE (v + bat_val) \div 2
OffCnt(v, adcLow) == cnt.off + IF adcLow \/ Bat(v) <= PoweroffV THEN 1 ELSE 0
WarnCnt(v) == cnt.warn + IF Bat(v) <= WarnV THEN 1 ELSE 0
LowWindowMutant(v, adcLow) == OffCnt(v, adcLow) > DetectCnt
LowWindow(v, adcLow) == OffCnt(v, adcLow) > DetectCnt \div 2
WarnWindow(v, adcLow) == ~LowWindow(v, adcLow) /\ WarnCnt(v) > DetectCnt \div 2

Sampling(v) ==
    /\ live # {} /\ Len(events) + 2 <= QueueCap
    /\ bat_val' = Bat(v)
    /\ UNCHANGED <<phase, app, task, pending, slow_timer, lowpower_timer, online,
                   chg, boot_cnt>>

StopFastMutant == live' = live \ {fast_timer} /\ UNCHANGED fast_timer
StopFast == live' = live \ {fast_timer} /\ fast_timer' = 0

SampleMid(v, adcLow) ==
    /\ Sampling(v) /\ cnt.unit + 1 < DetectCnt
    /\ cnt' = [cnt EXCEPT !.unit = @ + 1, !.off = OffCnt(v, adcLow), !.warn = WarnCnt(v)]
    /\ UNCHANGED <<first_flag, cur_bat_st, old_level, last_online, events,
                   fast_timer, live>>

WindowEnds(v) == Sampling(v) /\ cnt.unit + 1 >= DetectCnt
ClearWindow(c) == [c EXCEPT !.unit = 0, !.off = 0, !.warn = 0]

\* the tail of the window when the state is not LOWPOWER: the fast timer stops
\* and a change of level or of the charger is posted after the window's own event
CloseWindow(v, posted) ==
    LET changed == Level(v) # old_level \/ last_online # online
    IN /\ StopFast
       /\ events' = events \o posted \o (IF changed THEN <<"CHANGE">> ELSE <<>>)
       /\ old_level' = Level(v) /\ last_online' = online

WindowLow(v, adcLow) ==
    /\ WindowEnds(v) /\ ~online /\ LowWindow(v, adcLow)
    /\ cur_bat_st' = "LOWPOWER"
    /\ LET shut == cnt.low + 1 > OffLimit
       IN /\ cnt' = [ClearWindow(cnt) EXCEPT !.voice = 0, !.normal = 0,
                                             !.low = IF shut THEN 0 ELSE @ + 1]
          /\ IF shut THEN StopFast /\ events' = Append(events, "LOW")
                     ELSE UNCHANGED <<fast_timer, live, events>>
    /\ UNCHANGED <<first_flag, old_level, last_online>>

WindowWarning(v, adcLow) ==
    /\ WindowEnds(v) /\ ~online /\ WarnWindow(v, adcLow)
    /\ cur_bat_st' = "WARNING"
    /\ LET due == cnt.voice + 1 > IF first_flag THEN 1 ELSE VoiceLimit - 1
       IN /\ cnt' = [ClearWindow(cnt) EXCEPT !.low = 0, !.normal = 0,
                                             !.voice = IF due THEN 0 ELSE @ + 1]
          /\ first_flag' = (first_flag /\ ~due)
          /\ CloseWindow(v, IF due /\ ~lowpower_timer THEN <<"WARNING">> ELSE <<>>)

\* normal is kept at NormalLimit + 1: beyond it the state is NORMAL already
WindowNormal(v, adcLow) ==
    /\ WindowEnds(v) /\ ~online /\ ~LowWindow(v, adcLow) /\ ~WarnWindow(v, adcLow)
    /\ LET n == IF cnt.normal > NormalLimit THEN cnt.normal ELSE cnt.normal + 1
           recovered == n > NormalLimit /\ cur_bat_st # "NORMAL"
           posted == IF recovered THEN <<"NORMAL">> ELSE <<>>
       IN /\ cnt' = [ClearWindow(cnt) EXCEPT !.voice = 0, !.low = 0, !.normal = n]
          /\ IF cur_bat_st = "LOWPOWER" /\ ~recovered
             THEN UNCHANGED <<cur_bat_st, fast_timer, live, events, old_level, last_online>>
             ELSE /\ cur_bat_st' = IF recovered THEN "NORMAL" ELSE cur_bat_st
                  /\ CloseWindow(v, posted)
    /\ UNCHANGED first_flag

WindowCharging(v) ==
    /\ WindowEnds(v) /\ online
    /\ cnt' = ClearWindow(cnt)
    /\ IF cur_bat_st = "LOWPOWER"
       THEN /\ events' = Append(events, "CHARGE")
            /\ UNCHANGED <<fast_timer, live, old_level, last_online>>
       ELSE CloseWindow(v, <<"CHARGE">>)
    /\ UNCHANGED <<first_flag, cur_bat_st>>

VbatCheck == \E v \in Volts, adcLow \in BOOLEAN :
    \/ SampleMid(v, adcLow) \/ WindowLow(v, adcLow) \/ WindowWarning(v, adcLow)
    \/ WindowNormal(v, adcLow) \/ WindowCharging(v)

-----------------------------------------------------------------------------
(* The app task's steps inside a handler, and its handlers.                  *)
AddFast ==
    /\ task = "add_fast" /\ task' = "store_fast"
    /\ \E id \in TimerIds \ live : pending' = id /\ live' = live \cup {id}
    /\ UNCHANGED <<phase, app, lowpower_timer, online, chg, boot_cnt, events,
                   slow_timer, fast_timer, monitor>>

StoreFast ==
    /\ task = "store_fast" /\ task' = "ready"
    /\ fast_timer' = pending /\ pending' = 0
    /\ UNCHANGED <<phase, app, lowpower_timer, online, chg, boot_cnt, events,
                   slow_timer, live, monitor>>

\* the second half of vbat_timer_delete, after its test of vbat_fast_timer
DelFast ==
    /\ task = "del_fast" /\ task' = "ready" /\ StopFast
    /\ UNCHANGED <<phase, app, lowpower_timer, online, chg, boot_cnt, events,
                   slow_timer, pending, monitor>>

vbat_timer_delete ==
    slow_timer' = FALSE /\ task' = IF fast_timer # 0 THEN "del_fast" ELSE "ready"

vbat_check_slow ==
    /\ task = "ready" /\ phase # "boot" /\ slow_timer
    /\ TestFast
    /\ UNCHANGED <<phase, app, lowpower_timer, online, chg, boot_cnt, events,
                   timers, monitor>>

\* lowpower_timer expires: power_event_to_user(POWER_EVENT_POWER_WARNING); its
\* period (a minute) is longer than the task takes to handle the last one
LowpowerTimer ==
    /\ task = "ready" /\ lowpower_timer /\ Len(events) < QueueCap
    /\ ~Contains(events, "WARNING")
    /\ events' = Append(events, "WARNING")
    /\ UNCHANGED <<phase, app, task, lowpower_timer, online, chg, boot_cnt,
                   timers, monitor>>

Receive(ev) ==
    /\ task = "ready" /\ phase # "boot" /\ events # <<>>
    /\ Head(events) = ev /\ events' = Tail(events)
    /\ UNCHANGED <<online, boot_cnt, monitor, fast_timer, live, pending>>

\* app_power_event_handler; the idle application does not dispatch these events
PowerEvent(ev) ==
    /\ Receive(ev)
    /\ lowpower_timer' = (IF app = "idle" THEN lowpower_timer
                          ELSE CASE ev = "WARNING" -> TRUE
                                 [] ev \in {"LOW", "CHARGE"} -> FALSE
                                 [] OTHER -> lowpower_timer)
    /\ IF app = "bt" /\ ev = "LOW"
       THEN vbat_timer_delete /\ phase' = "off"
       ELSE UNCHANGED <<slow_timer, task, phase>>
    /\ UNCHANGED <<app, chg>>

\* charge_ldo5v_in_deal, reduced to what it does to the monitor: in the
\* Bluetooth application the earbud resets into the idle one
Ldo5vIn ==
    /\ Receive("LDO5V_IN") /\ chg' = "in"
    /\ phase' = IF app = "bt" THEN "off" ELSE phase
    /\ UNCHANGED <<app, task, slow_timer, lowpower_timer>>

\* charge_full_deal
ChargeFull ==
    /\ Receive("CHARGE_FULL") /\ chg' = "full" /\ vbat_timer_delete
    /\ UNCHANGED <<phase, app, lowpower_timer>>

\* charge_ldo5v_off_deal with get_vbat_need_shutdown (shut)
Ldo5vOff(shut) ==
    /\ Receive("LDO5V_OFF") /\ chg' = "out" /\ vbat_check_init
    /\ IF app = "idle" /\ phase = "run"
       THEN /\ app' = IF shut THEN "idle" ELSE "bt"
            /\ phase' = IF shut THEN "off" ELSE "run"
       ELSE UNCHANGED <<app, phase>>
    /\ UNCHANGED lowpower_timer

TaskStep ==
    \/ AddFast \/ StoreFast \/ DelFast
    \/ Ldo5vIn \/ ChargeFull \/ \E shut \in BOOLEAN : Ldo5vOff(shut)
    \/ \E ev \in PowerEvents : PowerEvent(ev)

-----------------------------------------------------------------------------
(* The charger and the reset.  ldo5v_detect posts one event per change; while*)
(* the message thread is not ready (boot) it keeps only the latest state.    *)
Plug(plugged) ==
    /\ online # plugged /\ Len(events) < QueueCap /\ online' = plugged
    /\ events' = CASE phase # "boot" -> Append(events, IF plugged THEN "LDO5V_IN" ELSE "LDO5V_OFF")
                   [] phase = "boot" -> IF plugged THEN <<"LDO5V_IN">> ELSE <<>>
    /\ UNCHANGED <<phase, app, task, lowpower_timer, chg, boot_cnt, timers, monitor>>

FullDetected ==
    /\ online /\ chg = "in" /\ app = "idle" /\ phase = "run" /\ Len(events) < QueueCap
    /\ events' = Append(events, "CHARGE_FULL")
    /\ UNCHANGED <<phase, app, task, lowpower_timer, online, chg, boot_cnt,
                   timers, monitor>>

Reboot ==
    /\ phase = "off" /\ task = "ready"
    /\ phase' = IF online THEN "run" ELSE "boot"
    /\ app' = IF online THEN "idle" ELSE "bt"
    /\ slow_timer' = online /\ lowpower_timer' = FALSE
    /\ live' = IF online THEN {1} ELSE {}
    /\ fast_timer' = IF online THEN 1 ELSE 0
    /\ task' = "ready" /\ pending' = 0 /\ boot_cnt' = 0
    /\ cnt' = ZeroCnt /\ first_flag' = TRUE /\ cur_bat_st' = "NORMAL"
    /\ bat_val' = 0 /\ old_level' = 9 /\ last_online' = FALSE
    /\ chg' = IF online THEN "in" ELSE "out"
    /\ events' = <<>> /\ UNCHANGED online

BootStep == \E v \in Volts, adcLow \in BOOLEAN : BootSample(v, adcLow)
Next ==
    \/ BootStep \/ VbatCheck \/ TaskStep \/ vbat_check_slow \/ LowpowerTimer
    \/ \E plugged \in BOOLEAN : Plug(plugged)
    \/ FullDetected \/ Reboot

\* the timers keep expiring and the app task keeps running; nothing is assumed
\* of the battery, the charger or the user
Fairness == WF_vars(VbatCheck) /\ WF_vars(TaskStep) /\ WF_vars(vbat_check_slow)
Spec == Init /\ [][Next]_vars /\ Fairness

-----------------------------------------------------------------------------
(* vbat_fast_timer never loses a running timer: every hardware timer that    *)
(* calls vbat_check is the one vbat_fast_timer names, or the one the task is  *)
(* about to store in it.  A second one would sample twice as fast and        *)
(* nothing could ever stop it.                                               *)
NoOrphanTimer == live \subseteq {fast_timer, pending}

(* vbat_fast_timer names a timer that runs: a stale id would make            *)
(* vbat_check_slow believe a window is in progress, and monitoring would     *)
(* never start again.                                                        *)
NoStaleHandle == fast_timer # 0 => fast_timer \in live

(* On battery the slow timer is always there to start the next window: only  *)
(* a charge that ended (charge_full_deal) may have removed it.               *)
MonitorRunsOnBattery == phase = "run" /\ chg = "out" => slow_timer

(* An earbud in the Bluetooth application, off the charger, does not run     *)
(* forever on a battery whose filtered voltage stays at or below the         *)
(* shut-down voltage: POWER_EVENT_POWER_LOW is posted and handled.           *)
RunsLow == /\ phase = "run" /\ app = "bt" /\ ~online /\ bat_val \in 1..PoweroffV
LowBatteryShutsDown == ~<>[]RunsLow
=============================================================================
