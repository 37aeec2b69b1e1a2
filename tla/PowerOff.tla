------------------------------ MODULE PowerOff ------------------------------
(***************************************************************************)
(* Switching a pair of earbuds off, and the charging case.                 *)
(*                                                                         *)
(* A power-off is a chain of steps that no single function sees: a request *)
(* (key, automatic shutdown, low battery, charger) sets goto_poweroff_flag *)
(* and starts wait_exit_timer; its ticks wait for the audio and the phone; *)
(* the app becomes "idle", which empties the task's queue; a tone, started *)
(* at once or by a synchronised call, plays; only its end cuts the power.  *)
(* While this goes on, either bud may be put into the case or taken out.   *)
(*                                                                         *)
(* queue[b] is the queue of the task app_core of bud b; calls holds the    *)
(* synchronised calls (tws_api_sync_call_by_uuid) that have been issued    *)
(* and not yet put into a queue. A call always reaches the bud that issued *)
(* it; it fails to reach the other one when the link goes down before.     *)
(***************************************************************************)
EXTENDS Naturals, Sequences, FiniteSets

CONSTANTS
    Bud,          \* the two earbuds
    Master,       \* the one that is master of the link
    Cased,        \* those that are put into the charging case
    Heard,        \* bound: those that have a phone and audio
    Tired,        \* bound: those that are asked to power off
    MaxWait,      \* ticks the timers wait for the audio (200 in the code)
    Weak,         \* values get_vbat_need_shutdown may have when the case is left
    MaxQueue      \* bound: the outside adds no event to a longer queue

ASSUME PowerOffAssumption ==
    /\ IsFiniteSet(Bud) /\ Master \in Bud /\ Cased \subseteq Bud /\ Heard \subseteq Bud /\ Tired \subseteq Bud
    /\ MaxWait \in Nat /\ MaxQueue \in Nat /\ Weak \subseteq BOOLEAN

VARIABLES
    app,          \* app[b]: running application, or "off", or "reset" (not yet booted)
    flag,         \* app_var.goto_poweroff_flag
    timer,        \* the callback wait_exit_timer runs: "none", "same", "exit"
    handle,       \* app_var.wait_exit_timer # 0
    reset,        \* the argument of wait_exit_btstack_flag is 1: end in cpu_reset
    waited,       \* app_var.goto_poweroff_cnt
    delay,        \* ldo5v_in_reset_timer runs
    tone,         \* the power-off tone is playing
    queue,        \* messages for app_core
    calls,        \* synchronised calls in progress
    linked,       \* the TWS link is up
    phone,        \* phone[b]: a phone is connected, as b knows
    audio,        \* bt_audio_is_running
    plug          \* the charger is connected: get_lvcmp_det

flow == <<flag, timer, handle, reset, waited>>
link == <<calls, linked>>
world == <<phone, audio, plug>>
vars == <<app, flow, delay, tone, queue, link, world>>

App == {"bt", "idle", "off", "reset"}
Up(b) == app[b] \in {"bt", "idle"}
Message == {"together", "tone", "toneEnd", "in", "out"}
Call == [to : Bud, from : Bud, what : {"together", "tone"}]

TypeOK ==
    /\ app \in [Bud -> App]
    /\ flag \in [Bud -> 0..2]
    /\ timer \in [Bud -> {"none", "same", "exit"}]
    /\ handle \in [Bud -> BOOLEAN] /\ reset \in [Bud -> BOOLEAN]
    /\ waited \in [Bud -> 0..MaxWait]
    /\ delay \in [Bud -> BOOLEAN] /\ tone \in [Bud -> BOOLEAN]
    /\ queue \in [Bud -> Seq(Message)]
    /\ calls \subseteq Call
    /\ linked \in BOOLEAN
    /\ phone \in [Bud -> BOOLEAN] /\ audio \in [Bud -> BOOLEAN] /\ plug \in [Bud -> BOOLEAN]

Holds(b, m) == \E i \in 1..Len(queue[b]) : queue[b][i] = m

(* A bud that has just started from reset: all the state is initialised. *)
Fresh(b) ==
    /\ flag' = [flag EXCEPT ![b] = 0]
    /\ timer' = [timer EXCEPT ![b] = "none"]
    /\ handle' = [handle EXCEPT ![b] = FALSE]
    /\ reset' = [reset EXCEPT ![b] = FALSE]
    /\ waited' = [waited EXCEPT ![b] = 0]
    /\ delay' = [delay EXCEPT ![b] = FALSE]

-----------------------------------------------------------------------------
(* Losing the link. The calls a bud sent to the other are lost with it, if *)
(* they have not reached it before.                                        *)

Breaks(c) ==
    /\ linked' = FALSE
    /\ calls' = {k \in c : k.from = k.to}

(* Both ends of a call, as tws_api_sync_call_by_uuid issues it on bud b. *)
SyncCall(b, m) == [to : Bud, from : {b}, what : {m}]

-----------------------------------------------------------------------------
(* The end of a bud: power_set_soft_poweroff and cpu_reset. The other side *)
(* sees the link go.                                                       *)

Ends(b, how) ==
    /\ app' = [app EXCEPT ![b] = how]
    /\ queue' = [queue EXCEPT ![b] = <<>>]
    /\ tone' = [tone EXCEPT ![b] = FALSE]
    /\ phone' = [phone EXCEPT ![b] = FALSE]
    /\ audio' = [audio EXCEPT ![b] = FALSE]
    /\ Breaks({c \in calls : c.to # b})
    /\ Fresh(b)
    /\ UNCHANGED plug

(* Mutant: the charger is not looked at before the power is cut. *)
SoftOffMutant(b) == Ends(b, "off")

(* app_idle_enter_softoff: a bud whose charger is in resets, to charge.    *)
(* A full battery is left out: it cannot fill up before the bud is idle.   *)
SoftOff(b) == Ends(b, IF plug[b] THEN "reset" ELSE "off")

-----------------------------------------------------------------------------
(* Requests. *)

(* Mutant: the timer is started only when there is a phone to wait for. *)
PowerOffSameTimeMutant(b) ==
    IF flag[b] # 0 THEN UNCHANGED <<flow, link>>
    ELSE /\ flag' = [flag EXCEPT ![b] = 1]
         /\ waited' = [waited EXCEPT ![b] = 0]
         /\ timer' = [timer EXCEPT ![b] = IF phone[b] THEN "same" ELSE @]
         /\ UNCHANGED <<handle, reset, link>>

(* sys_enter_soft_poweroff(3): ask the phone to leave, then wait for it. *)
PowerOffSameTime(b) ==
    IF flag[b] # 0 THEN UNCHANGED <<flow, link>>
    ELSE /\ flag' = [flag EXCEPT ![b] = 1]
         /\ waited' = [waited EXCEPT ![b] = 0]
         /\ timer' = [timer EXCEPT ![b] = IF handle[b] THEN @ ELSE "same"]
         /\ handle' = [handle EXCEPT ![b] = TRUE]
         /\ UNCHANGED <<reset, link>>

(* sys_enter_soft_poweroff(NULL or 1): leave the other bud first. *)
PowerOffAlone(b, one) ==
    IF flag[b] # 0 THEN UNCHANGED <<flow, link>>
    ELSE /\ flag' = [flag EXCEPT ![b] = 1]
         /\ waited' = [waited EXCEPT ![b] = 0]
         /\ timer' = [timer EXCEPT ![b] = IF handle[b] THEN @ ELSE "exit"]
         /\ reset' = [reset EXCEPT ![b] = IF handle[b] THEN @ ELSE one]
         /\ handle' = [handle EXCEPT ![b] = TRUE]
         /\ Breaks(calls)

(* A key held on a linked bud, or automatic shutdown of the master. The    *)
(* keys and automatic shutdown are disabled once the flag is set, and a    *)
(* held key, which asks once, is slower than the call.                     *)
AskTogether(b) ==
    /\ b \in Tired /\ app[b] = "bt" /\ flag[b] = 0 /\ linked
    /\ \A c \in calls : c.from # b
    /\ \A d \in Bud : ~Holds(d, "together")
    /\ calls' = calls \cup SyncCall(b, "together")
    /\ UNCHANGED <<app, flow, delay, tone, queue, linked, world>>

(* A key held or automatic shutdown without a link, or a low battery. *)
AskAlone(b) ==
    /\ b \in Tired /\ app[b] = "bt"
    /\ PowerOffAlone(b, FALSE)
    /\ UNCHANGED <<app, delay, tone, queue, world>>

-----------------------------------------------------------------------------
(* Becoming idle: start_app runs idle_state_machine at once, and this      *)
(* empties the task's queue, whatever it holds.                            *)

(* ACTION_IDLE_MAIN: play the tone; if it cannot be played, power off. *)
IdleMain(b) ==
    \/ /\ app' = [app EXCEPT ![b] = "idle"]
       /\ queue' = [queue EXCEPT ![b] = <<>>]
       /\ tone' = [tone EXCEPT ![b] = TRUE]
       /\ timer' = [timer EXCEPT ![b] = "none"]
       /\ phone' = [phone EXCEPT ![b] = FALSE]
       /\ UNCHANGED <<flag, handle, reset, waited, delay, link, audio, plug>>
    \/ SoftOff(b)

(* Mutant: only the master calls for the tone. *)
IdlePowerOffMutant(b) ==
    /\ app' = [app EXCEPT ![b] = "idle"]
    /\ queue' = [queue EXCEPT ![b] = <<>>]
    /\ timer' = [timer EXCEPT ![b] = "none"]
    /\ calls' = calls \cup (IF b = Master THEN SyncCall(b, "tone") ELSE {})
    /\ UNCHANGED <<flag, handle, reset, waited, delay, tone, linked, world>>

(* ACTION_IDLE_POWER_OFF: leave the tone to the synchronised call. *)
IdlePowerOff(b) ==
    /\ app' = [app EXCEPT ![b] = "idle"]
    /\ queue' = [queue EXCEPT ![b] = <<>>]
    /\ timer' = [timer EXCEPT ![b] = "none"]
    /\ calls' = calls \cup SyncCall(b, "tone")
    /\ UNCHANGED <<flag, handle, reset, waited, delay, tone, linked, world>>

(* Audio that does not stop: after MaxWait ticks the bud is reset. *)
Waits(b) ==
    IF waited[b] >= MaxWait THEN Ends(b, "reset")
    ELSE /\ waited' = [waited EXCEPT ![b] = @ + 1]
         /\ UNCHANGED <<app, flag, timer, handle, reset, delay, tone, queue, link, world>>

(* lmp_hci_reset while the phone is still there: this bud's links are gone. *)
HciReset(b) ==
    /\ phone' = [phone EXCEPT ![b] = FALSE]
    /\ Breaks(calls)
    /\ UNCHANGED <<app, flow, delay, tone, queue, audio, plug>>

PowerOffAtSameTime(b) ==
    /\ timer[b] = "same"
    /\ \/ audio[b] /\ Waits(b)
       \/ ~audio[b] /\ phone[b] /\ HciReset(b)
       \/ ~audio[b] /\ ~phone[b] /\ linked /\ IdlePowerOff(b)
       \/ ~audio[b] /\ ~phone[b] /\ ~linked /\ IdleMain(b)

WaitExitBtstack(b) ==
    /\ timer[b] = "exit"
    /\ \/ audio[b] /\ Waits(b)
       \/ ~audio[b] /\ reset[b] /\ Ends(b, "reset")
       \/ ~audio[b] /\ ~reset[b] /\ IdleMain(b)
-----------------------------------------------------------------------------
(* Messages of the task. *)

Received(b, m) == /\ queue[b] # <<>> /\ Head(queue[b]) = m
Consume(b) == queue' = [queue EXCEPT ![b] = Tail(@)]

(* SYNC_CMD_POWER_OFF_TOGETHER; the idle application drops Bluetooth events. *)
TogetherComes(b) ==
    /\ Received(b, "together") /\ Consume(b)
    /\ IF app[b] = "bt" THEN PowerOffSameTime(b) ELSE UNCHANGED <<flow, link>>
    /\ UNCHANGED <<app, delay, tone, world>>

(* SYNC_TONE_POWER_OFF, called whatever the application; then bt_tws_poweroff. *)
ToneComes(b) ==
    /\ Received(b, "tone") /\ Consume(b)
    /\ flag' = [flag EXCEPT ![b] = IF @ = 1 THEN 2 ELSE @]
    /\ tone' = [tone EXCEPT ![b] = IF flag[b] = 1 THEN TRUE ELSE @]
    /\ Breaks(calls)
    /\ UNCHANGED <<app, timer, handle, reset, waited, delay, world>>

(* Mutant: only a bud that played the synchronised tone powers off. *)
ToneEndComesMutant(b) ==
    /\ Received(b, "toneEnd")
    /\ IF app[b] = "idle" /\ flag[b] = 2 THEN SoftOff(b)
       ELSE Consume(b) /\ UNCHANGED <<app, flow, delay, tone, link, world>>

(* The end of a tone: the last step of a power-off, seen only when idle. *)
ToneEndComes(b) ==
    /\ Received(b, "toneEnd")
    /\ IF app[b] = "idle" /\ flag[b] # 0 THEN SoftOff(b)
       ELSE Consume(b) /\ UNCHANGED <<app, flow, delay, tone, link, world>>

(* charge_ldo5v_in_deal. A master whose slave is not yet fit to take the   *)
(* phone over waits up to three seconds before it resets.                  *)
MayHandOver(b) == b = Master /\ linked /\ phone[b]

LdoIn(b) ==
    /\ Received(b, "in")
    /\ \/ /\ app[b] = "bt" /\ MayHandOver(b)
          /\ delay' = [delay EXCEPT ![b] = TRUE]
          /\ Consume(b)
          /\ UNCHANGED <<app, flow, tone, link, world>>
       \/ /\ app[b] = "bt"
          /\ delay' = [delay EXCEPT ![b] = FALSE]
          /\ PowerOffAlone(b, TRUE)
          /\ Consume(b)
          /\ UNCHANGED <<app, tone, world>>
       \/ app[b] = "idle" /\ flag[b] # 0 /\ Ends(b, "reset")
       \/ /\ app[b] = "idle" /\ flag[b] = 0
          /\ Consume(b)
          /\ UNCHANGED <<app, flow, delay, tone, link, world>>

(* charge_ldo5v_off_deal: a bud that charged starts, unless it is weak. *)
LdoOff(b) ==
    /\ Received(b, "out")
    /\ \/ /\ app[b] = "bt" \/ flag[b] # 0
          /\ Consume(b)
          /\ UNCHANGED <<app, flow, delay, tone, link, world>>
       \/ /\ app[b] = "idle" /\ flag[b] = 0 /\ FALSE \in Weak
          /\ app' = [app EXCEPT ![b] = "bt"]
          /\ Consume(b)
          /\ UNCHANGED <<flow, delay, tone, link, world>>
       \/ /\ app[b] = "idle" /\ flag[b] = 0 /\ TRUE \in Weak
          /\ Ends(b, "off")

Handle(b) ==
    /\ Up(b)
    /\ TogetherComes(b) \/ ToneComes(b) \/ ToneEndComes(b) \/ LdoIn(b) \/ LdoOff(b)

(* A tick of wait_exit_timer. *)
Tick(b) == Up(b) /\ (PowerOffAtSameTime(b) \/ WaitExitBtstack(b))

(* ldo5v_in_reset_delay: the slave took the phone over, or time is up. *)
ResetDelay(b) ==
    /\ Up(b) /\ delay[b]
    /\ delay' = [delay EXCEPT ![b] = FALSE]
    /\ PowerOffAlone(b, TRUE)
    /\ UNCHANGED <<app, tone, queue, world>>

-----------------------------------------------------------------------------
(* The libraries, the user and the radio. *)

(* A synchronised call reaches a task's queue. *)
Deliver(c) ==
    /\ calls' = calls \ {c}
    /\ queue' = [queue EXCEPT ![c.to] = IF Up(c.to) THEN Append(@, c.what) ELSE @]
    /\ UNCHANGED <<app, flow, delay, tone, linked, world>>

ToneEnds(b) ==
    /\ tone[b]
    /\ tone' = [tone EXCEPT ![b] = FALSE]
    /\ queue' = [queue EXCEPT ![b] = Append(@, "toneEnd")]
    /\ UNCHANGED <<app, flow, delay, link, world>>

(* app_main after a reset: idle on the charger, else the Bluetooth mode,   *)
(* or off again if the battery is low or no key is held.                   *)
Boot(b) ==
    /\ app[b] = "reset"
    /\ app' = [app EXCEPT ![b] = IF plug[b] THEN "idle" ELSE "bt"]
    /\ UNCHANGED <<flow, delay, tone, queue, link, world>>

StayOff(b) ==
    /\ app[b] = "reset" /\ ~plug[b]
    /\ app' = [app EXCEPT ![b] = "off"]
    /\ UNCHANGED <<flow, delay, tone, queue, link, world>>

(* The power key of a bud that is off. *)
Wake(b) ==
    /\ app[b] = "off"
    /\ app' = [app EXCEPT ![b] = "reset"]
    /\ UNCHANGED <<flow, delay, tone, queue, link, world>>

Room(b) == Len(queue[b]) < MaxQueue

(* The charger goes in or out; an edge wakes a bud that is off. *)
Plug(b) ==
    /\ b \in Cased /\ Room(b)
    /\ plug' = [plug EXCEPT ![b] = ~@]
    /\ queue' = [queue EXCEPT ![b] = IF ~Up(b) THEN @ ELSE Append(@, IF plug[b] THEN "out" ELSE "in")]
    /\ app' = [app EXCEPT ![b] = IF @ = "off" THEN "reset" ELSE @]
    /\ UNCHANGED <<flow, delay, tone, link, phone, audio>>

(* The buds find each other, which a bud that is powering off no longer    *)
(* tries; this takes longer than emptying a queue.                         *)
Link ==
    /\ ~linked /\ \A b \in Bud : app[b] = "bt" /\ flag[b] = 0 /\ queue[b] = <<>>
    /\ linked' = TRUE
    /\ UNCHANGED <<app, flow, delay, tone, queue, calls, world>>

Fade ==
    /\ linked /\ Breaks(calls)
    /\ UNCHANGED <<app, flow, delay, tone, queue, world>>

PhoneChanges(b) ==
    /\ b \in Heard /\ app[b] = "bt" /\ (phone[b] \/ flag[b] = 0)
    /\ phone' = [phone EXCEPT ![b] = ~@]
    /\ audio' = [audio EXCEPT ![b] = FALSE]
    /\ UNCHANGED <<app, flow, delay, tone, queue, link, plug>>

AudioChanges(b) ==
    /\ b \in Heard /\ app[b] = "bt" /\ phone[b]
    /\ audio' = [audio EXCEPT ![b] = ~@]
    /\ UNCHANGED <<app, flow, delay, tone, queue, link, phone, plug>>

-----------------------------------------------------------------------------
Init ==
    /\ app = [b \in Bud |-> "bt"]
    /\ flag = [b \in Bud |-> 0] /\ waited = [b \in Bud |-> 0]
    /\ timer = [b \in Bud |-> "none"] /\ handle = [b \in Bud |-> FALSE]
    /\ reset = [b \in Bud |-> FALSE]
    /\ delay = [b \in Bud |-> FALSE] /\ tone = [b \in Bud |-> FALSE]
    /\ queue = [b \in Bud |-> <<>>]
    /\ calls = {} /\ linked = FALSE
    /\ phone = [b \in Bud |-> FALSE] /\ audio = [b \in Bud |-> FALSE]
    /\ plug = [b \in Bud |-> FALSE]

Next ==
    \/ Link \/ Fade
    \/ \E c \in calls : Deliver(c)
    \/ \E b \in Bud :
        \/ AskTogether(b) \/ AskAlone(b)
        \/ Tick(b) \/ Handle(b) \/ ResetDelay(b) \/ ToneEnds(b)
        \/ Boot(b) \/ StayOff(b) \/ Wake(b) \/ Plug(b)
        \/ PhoneChanges(b) \/ AudioChanges(b)

(* Timers tick, tasks empty their queues, tones end, accepted calls are    *)
(* run and a reset bud boots. Nothing is assumed of the user, the phone,   *)
(* the audio or the radio.                                                 *)
Fairness ==
    /\ \A c \in Call : WF_vars(c \in calls /\ Deliver(c))
    /\ \A b \in Bud :
        /\ WF_vars(Tick(b)) /\ WF_vars(Handle(b)) /\ WF_vars(ResetDelay(b))
        /\ WF_vars(ToneEnds(b)) /\ WF_vars(Boot(b))

Spec == Init /\ [][Next]_vars /\ Fairness

-----------------------------------------------------------------------------
(* A bud in Bluetooth mode that is to power off has a running timer: else  *)
(* nothing would ever look at it again (keys and auto-off are disabled).   *)
TimerArmed == \A b \in Bud : app[b] = "bt" /\ flag[b] # 0 => timer[b] # "none"

(* An idle bud that is to power off has something to come that ends it: a  *)
(* tone that plays, its end in the queue, or a synchronised call that will *)
(* start one, in progress or in the queue and not yet run. The flush when  *)
(* a bud becomes idle and a link that goes down must not take all of them. *)
OwnTone(b) == [to |-> b, from |-> b, what |-> "tone"]

EndComes(b) ==
    \/ tone[b] \/ Holds(b, "toneEnd")
    \/ flag[b] = 1 /\ (OwnTone(b) \in calls \/ Holds(b, "tone"))

NotStuckIdle == \A b \in Bud : app[b] = "idle" /\ flag[b] # 0 => EndComes(b)

(* The long chain of requests, timers, flushes, calls and tones is, seen   *)
(* from outside, BudLife: whatever the audio, the phone, the other bud and *)
(* the case do, a power-off that began is not taken back and ends.         *)
LifeOf(b) ==
    CASE app[b] = "off" -> "off"
      [] app[b] = "reset" -> "starting"
      [] Up(b) /\ flag[b] # 0 -> "leaving"
      [] app[b] = "idle" /\ flag[b] = 0 -> "charging"
      [] app[b] = "bt" /\ flag[b] = 0 -> "on"
Lives == [b \in Bud |-> LifeOf(b)]
Life == INSTANCE BudLife WITH life <- Lives
ImplementsBudLife == Life!Spec

(* A bud left in the case comes to charge there: idle, not powering off,   *)
(* and it is never found powered off for good.                             *)
Charging(b) == app[b] = "idle" /\ flag[b] = 0
ChargesInCase == \A b \in Cased : <>[]plug[b] => <>[]Charging(b)
=============================================================================
