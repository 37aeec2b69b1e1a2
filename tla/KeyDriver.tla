----------------------------- MODULE KeyDriver ------------------------------
(***************************************************************************)
(* The scan of the keys (apps/common/device/key/key_driver.c): a timer     *)
(* reads one key value every 10 ms, filters it and turns presses into      *)
(* CLICK (by number), LONG, HOLD and UP.                                   *)
(*                                                                         *)
(* The timer does not keep the chip awake and does not run while it        *)
(* sleeps. is_key_active does: it is set while a key is read and counts    *)
(* down after it. The edge of a press wakes the chip and sets it, too.     *)
(* The flag for the power-on key, which nothing sets, is left out.         *)
(***************************************************************************)
EXTENDS Naturals

CONSTANTS
    Key, NO_KEY,
    ClickOnly,      \* the keys marked with BIT(7)
    FilterTime, LongTime, HoldTime, ClickDelay,  \* of key_driver_para
    ActiveTime,     \* 35 scans
    MaxClicks       \* more clicks than these make no other event: 5

(* What key_driver_para and the 35 scans give: a press must be filtered,   *)
(* its release too, and another click waited for before the chip sleeps.   *)
ASSUME KeyDriverAssumption ==
    /\ NO_KEY \notin Key /\ ClickOnly \subseteq Key
    /\ FilterTime \in Nat \ {0} /\ ClickDelay \in Nat
    /\ LongTime \in Nat /\ HoldTime \in Nat /\ 1 < LongTime /\ LongTime < HoldTime
    /\ ActiveTime \in Nat /\ FilterTime + ClickDelay + 2 < ActiveTime
    /\ MaxClicks \in Nat \ {0}

VARIABLES
    raw,            \* what get_value reads now
    asleep,
    is_key_active,
    filter_value, filter_cnt, last_key,     \* of key_driver_para ...
    press_cnt, click_cnt, click_delay_cnt, notify_value,
    event,          \* what the last scan sent
    streak,         \* scans in a row that read filter_value (for the properties)
    held            \* the key a LONG was sent for and no UP yet (for the properties)

filter == <<filter_value, filter_cnt>>
para == <<last_key, press_cnt, click_cnt, click_delay_cnt, notify_value>>
history == <<event, held>>
vars == <<raw, asleep, is_key_active, filter, para, history, streak>>

Value == Key \cup {NO_KEY}
Clicks == 1 .. MaxClicks
NoEvent == [event |-> "NONE", value |-> NO_KEY, clicks |-> 0]
Event == {NoEvent}
    \cup [event : {"CLICK"}, value : Key, clicks : Clicks]
    \cup [event : {"LONG", "HOLD", "UP"}, value : Key, clicks : {0}]

TypeOK ==
    /\ raw \in Value /\ asleep \in BOOLEAN /\ is_key_active \in 0 .. ActiveTime
    /\ filter_value \in Value /\ filter_cnt \in 0 .. FilterTime /\ last_key \in Value
    /\ press_cnt \in Nat /\ press_cnt < HoldTime
    /\ click_cnt \in 0 .. MaxClicks /\ click_delay_cnt \in 0 .. ClickDelay + 1
    /\ notify_value \in Value
    /\ click_cnt > 0 => notify_value \in Key
    /\ event \in Event /\ held \in Value
    /\ streak \in 0 .. FilterTime

-----------------------------------------------------------------------------
(* filter_value and notify_value start as 0, which is the value of a key.  *)
Init ==
    /\ raw = NO_KEY /\ asleep = FALSE /\ is_key_active = 0
    /\ filter_value \in Key /\ notify_value = filter_value
    /\ filter_cnt = 0 /\ last_key = NO_KEY
    /\ press_cnt = 0 /\ click_cnt = 0 /\ click_delay_cnt = 0
    /\ event = NoEvent /\ streak = 0 /\ held = NO_KEY

(* _notify: whatever was counted is said or dropped. *)
Notify(e, v, n) ==
    /\ event' = [event |-> e, value |-> v, clicks |-> n]
    /\ held' = CASE e = "LONG" -> v [] e = "UP" -> NO_KEY [] OTHER -> held
    /\ click_cnt' = 0 /\ notify_value' = NO_KEY

Silent == event' = NoEvent /\ held' = held

(* Mutant: a filtered value need not be read in a row. *)
BouncesMutant ==
    /\ raw # filter_value
    /\ filter_value' = raw /\ filter_cnt' = filter_cnt
    /\ Silent /\ UNCHANGED para

(* The filter: another value starts it again. *)
Bounces ==
    /\ raw # filter_value
    /\ filter_value' = raw /\ filter_cnt' = 0
    /\ Silent /\ UNCHANGED para

Filters ==
    /\ raw = filter_value /\ filter_cnt < FilterTime
    /\ filter_cnt' = filter_cnt + 1
    /\ Silent /\ UNCHANGED <<filter_value, para>>

Steady == raw = filter_value /\ filter_cnt >= FilterTime

(* Mutant: the time of the last press is not forgotten. *)
PressedMutant ==
    /\ raw # last_key /\ raw # NO_KEY
    /\ press_cnt' = press_cnt
    /\ IF raw # notify_value
         THEN click_cnt' = 1 /\ notify_value' = raw
         ELSE /\ click_cnt' = IF click_cnt < MaxClicks THEN click_cnt + 1 ELSE click_cnt
              /\ UNCHANGED notify_value
    /\ Silent /\ UNCHANGED click_delay_cnt

(* A key was pressed. The model counts no clicks beyond MaxClicks. *)
Pressed ==
    /\ raw # last_key /\ raw # NO_KEY
    /\ press_cnt' = 1
    /\ IF raw # notify_value
         THEN click_cnt' = 1 /\ notify_value' = raw
         ELSE /\ click_cnt' = IF click_cnt < MaxClicks THEN click_cnt + 1 ELSE click_cnt
              /\ UNCHANGED notify_value
    /\ Silent /\ UNCHANGED click_delay_cnt

(* A key was released: UP after LONG, else wait for another click. *)
Released ==
    /\ raw # last_key /\ raw = NO_KEY
    /\ IF press_cnt >= LongTime
         THEN Notify("UP", last_key, 0) /\ UNCHANGED click_delay_cnt
         ELSE click_delay_cnt' = 1 /\ Silent /\ UNCHANGED <<click_cnt, notify_value>>
    /\ UNCHANGED press_cnt

(* No key: a click is said when it cannot be followed by another. *)
ClickEnds ==
    /\ raw = last_key /\ raw = NO_KEY /\ click_cnt > 0
    /\ notify_value \in ClickOnly \/ click_delay_cnt > ClickDelay
    /\ Notify("CLICK", notify_value, IF notify_value \in ClickOnly THEN 1 ELSE click_cnt)
    /\ UNCHANGED <<press_cnt, click_delay_cnt>>

(* Mutant: the scans after a release are not counted. *)
ClickWaitsMutant ==
    /\ raw = last_key /\ raw = NO_KEY /\ click_cnt > 0
    /\ notify_value \notin ClickOnly /\ click_delay_cnt <= ClickDelay
    /\ Silent /\ UNCHANGED <<press_cnt, click_cnt, click_delay_cnt, notify_value>>

ClickWaits ==
    /\ raw = last_key /\ raw = NO_KEY /\ click_cnt > 0
    /\ notify_value \notin ClickOnly /\ click_delay_cnt <= ClickDelay
    /\ click_delay_cnt' = click_delay_cnt + 1
    /\ Silent /\ UNCHANGED <<press_cnt, click_cnt, notify_value>>

Quiet ==
    /\ raw = last_key /\ raw = NO_KEY /\ click_cnt = 0
    /\ Silent /\ UNCHANGED <<press_cnt, click_cnt, click_delay_cnt, notify_value>>

(* Mutant: HOLD is sent once. *)
StaysMutant ==
    /\ raw = last_key /\ raw # NO_KEY
    /\ \/ /\ press_cnt + 1 = LongTime
          /\ press_cnt' = LongTime /\ Notify("LONG", raw, 0)
       \/ /\ press_cnt + 1 = HoldTime
          /\ press_cnt' = HoldTime /\ Notify("HOLD", raw, 0)
       \/ /\ press_cnt + 1 \notin {LongTime, HoldTime}
          /\ press_cnt' = IF press_cnt < HoldTime THEN press_cnt + 1 ELSE press_cnt
          /\ Silent /\ UNCHANGED <<click_cnt, notify_value>>
    /\ UNCHANGED click_delay_cnt

(* A key stays: LONG once, then HOLD again and again. *)
Stays ==
    /\ raw = last_key /\ raw # NO_KEY
    /\ \/ /\ press_cnt + 1 = LongTime
          /\ press_cnt' = LongTime /\ Notify("LONG", raw, 0)
       \/ /\ press_cnt + 1 = HoldTime
          /\ press_cnt' = LongTime /\ Notify("HOLD", raw, 0)
       \/ /\ press_cnt + 1 \notin {LongTime, HoldTime}
          /\ press_cnt' = press_cnt + 1
          /\ Silent /\ UNCHANGED <<click_cnt, notify_value>>
    /\ UNCHANGED click_delay_cnt

(* key_driver_scan *)
Scan ==
    /\ ~asleep
    /\ is_key_active' = CASE raw # NO_KEY -> ActiveTime
                        [] raw = NO_KEY /\ is_key_active > 0 -> is_key_active - 1
                        [] OTHER -> 0
    /\ \/ Bounces \/ Filters
       \/ /\ Steady
          /\ Pressed \/ Released \/ ClickEnds \/ ClickWaits \/ Quiet \/ Stays
          /\ last_key' = raw /\ UNCHANGED filter
    /\ streak' = IF raw # filter_value THEN 1
                 ELSE IF streak < FilterTime THEN streak + 1 ELSE streak
    /\ UNCHANGED <<raw, asleep>>

-----------------------------------------------------------------------------
(* A key goes down; key_active_set in the interrupt that wakes the chip. *)
Press ==
    /\ raw = NO_KEY /\ raw' \in Key
    /\ is_key_active' = ActiveTime /\ asleep' = FALSE
    /\ UNCHANGED <<filter, para, history, streak>>

(* A key goes up, or a ladder of keys reads another one: no edge. *)
Moves ==
    /\ raw # NO_KEY /\ raw' \in Value \ {raw}
    /\ UNCHANGED <<asleep, is_key_active, filter, para, history, streak>>

(* Mutant: the chip sleeps whenever no key is down. *)
SleepMutant ==
    /\ ~asleep /\ raw = NO_KEY
    /\ asleep' = TRUE
    /\ UNCHANGED <<raw, is_key_active, filter, para, history, streak>>

(* key_idle_query lets the chip sleep. *)
Sleep ==
    /\ ~asleep /\ is_key_active = 0
    /\ asleep' = TRUE
    /\ UNCHANGED <<raw, is_key_active, filter, para, history, streak>>

(* Something else wakes it. *)
Wake ==
    /\ asleep /\ asleep' = FALSE
    /\ UNCHANGED <<raw, is_key_active, filter, para, history, streak>>

Next == Scan \/ Press \/ Moves \/ Sleep \/ Wake

(* The timer ticks. Keys, sleep and other wake-ups are free. *)
Spec == Init /\ [][Next]_vars /\ WF_vars(Scan)

-----------------------------------------------------------------------------
(* The chip sleeps only between clicks: no key is in effect, no click is   *)
(* counted and not yet said, no key is down.                               *)
AwakeWhilePending ==
    asleep => last_key = NO_KEY /\ click_cnt = 0 /\ raw = NO_KEY

(* A key comes into effect, or out, only if FilterTime + 1 scans in a row  *)
(* read it so, whatever bounced before and whenever the chip slept.        *)
Debounced ==
    [][last_key' # last_key => raw = filter_value /\ streak >= FilterTime]_vars

(* HOLD and UP come only for the key a LONG was last sent for.             *)
LongFirst ==
    [][event' # event /\ event'.event \in {"HOLD", "UP"} => held = event'.value]_vars

(* key_driver.c:136: a key released after LONG or HOLD has sent its UP.    *)
UpSent == last_key = NO_KEY => held = NO_KEY

(* When the keys are left alone, whatever was pressed is said in the end.  *)
Settled == last_key = NO_KEY /\ click_cnt = 0
SaidInTheEnd == <>[](raw = NO_KEY) => <>[]Settled

(* A key that stays down goes on sending HOLD.                             *)
HoldGoesOn == \A k \in Key : <>[](raw = k) => []<>(event.event = "HOLD" /\ event.value = k)
=============================================================================
