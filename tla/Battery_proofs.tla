--------------------------- MODULE Battery_proofs ---------------------------
(***************************************************************************)
(* Proofs about the two parts that measure: the scheduler of the ADC       *)
(* (AdcScan), and the monitor of the battery that reads what it files      *)
(* (PowerManage). They share no variable.                                  *)
(***************************************************************************)
EXTENDS AdcScan, PowerManage, TLAPS

-----------------------------------------------------------------------------
(* The ADC: what is filed under a channel was converted from it, for any   *)
(* number of entries, any channels and any number of late ticks.           *)
(*                                                                         *)
(* FiledRight says nothing of the converter, so it is not inductive. What  *)
(* has to be added is what adc_sample_flag means at every moment: with 1   *)
(* the conversion going on, or the result kept, is of the entry cur_ch;    *)
(* with 2 it is of the temperature; with 3 it is of the reference and the  *)
(* temperature was kept. An entry may lose its channel while its result is *)
(* on the way, so "of the entry" means the channel the entry started with  *)
(* or, for an entry that started free, the one channel that comes and goes.*)

(* The channel the last conversion, or the one going on, is of. *)
Result == IF on THEN conv ELSE res

Belongs(i, c) == c # Free /\ (c = Start[i] \/ (Start[i] = Free /\ c = Visitor))

QueueKept == \A i \in Slot : ch[i] = Start[i] \/ (Start[i] = Free /\ ch[i] = Visitor)

ValueKept(i) ==
    /\ value[i] = One \/ Belongs(i, value[i]) \/ (Start[i] = Free /\ value[i] = Unread)
    /\ ch[i] = Visitor /\ ~adding => value[i] # Unread

FlagMeans ==
    /\ flag = 1 => Belongs(cur_ch, Result)
    /\ flag = 2 => Result = "dtemp"
    /\ flag = 3 => Result = "ldoref" /\ dtemp_adc_res = "dtemp"

AverageKept == vbat_value_array = {"vbat"} /\ vbg_value_array = {"ldoref"}
TemperatureKept == dtemp = <<"dtemp", "ldoref">>

Kept ==
    /\ QueueKept /\ (\A i \in Slot : ValueKept(i))
    /\ FlagMeans /\ AverageKept /\ TemperatureKept

-----------------------------------------------------------------------------
LEMMA FirstSlot == 0 \in Slot
  BY AdcAssumption DEF Slot

(* A next entry has a channel. *)
LEMMA NextHasChannel ==
    ASSUME QueueKept, NEW n \in Slot, IsNext(n)
    PROVE  ch[n] # Free
<1>1. CASE n \in Later
  BY <1>1 DEF Later
<1>2. CASE n = 0
  BY <1>2, FirstSlot, AdcAssumption DEF QueueKept, Free, Timed
<1> QED BY <1>1, <1>2 DEF IsNext

LEMMA Names ==
    /\ Free \in Name /\ Unread \in Name /\ One \in Name
    /\ "ldoref" \in Name /\ "vbat" \in Name /\ "dtemp" \in Name
    /\ Visitor \in Name /\ \A i \in Slot : Start[i] \in Name
  BY AdcAssumption DEF Name, Timed

LEMMA InitTyped == ScanInit => ScanTypeOK
<1> SUFFICES ASSUME ScanInit PROVE ScanTypeOK
  OBVIOUS
<1>1. value \in [Slot -> Name]
  BY Names DEF ScanInit
<1>2. late \in 0 .. MaxLate
  BY AdcAssumption DEF ScanInit
<1>3. ch \in [Slot -> Name]
  BY AdcAssumption DEF ScanInit, Name
<1>4. cur_ch \in Slot /\ flag \in 0 .. 3
  BY FirstSlot DEF ScanInit
<1> QED BY <1>1, <1>2, <1>3, <1>4, Names DEF ScanInit, ScanTypeOK

(* Filing, starting and the three ways through adc_scan keep the types. *)
LEMMA ScanTyped ==
    ASSUME ScanTypeOK, adc_scan
    PROVE  /\ ch' \in [Slot -> Name] /\ value' \in [Slot -> Name]
           /\ due' \subseteq Slot /\ wanted' \subseteq Slot
           /\ adding' \in BOOLEAN /\ on' \in BOOLEAN
           /\ cur_ch' \in Slot /\ flag' \in 0 .. 3
           /\ conv' \in Name /\ res' \in Name
           /\ dtemp_adc_res' \in Name
<1> USE DEF ScanTypeOK
<1>1. CASE Busy
  BY <1>1 DEF Busy, queue, converter, temperature
<1>2. CASE SecondHalf
  BY <1>2, Names DEF SecondHalf, Sample, queue
<1>3. CASE MovesOn
  <2>1. ch' = ch /\ adding' = adding
    BY <1>3 DEF MovesOn
  <2>2. /\ value' \in [Slot -> Name] /\ wanted' \subseteq Slot
        /\ dtemp_adc_res' \in Name
    BY <1>3 DEF MovesOn, Files, FilesTemperature, filed, temperature
  <2>3. PICK n \in Slot : cur_ch' = n /\ (Starts(n) \/ NotYet(n))
    BY <1>3 DEF MovesOn
  <2>4. due' \subseteq Slot /\ on' \in BOOLEAN /\ flag' \in 0 .. 3 /\ conv' \in Name /\ res' \in Name
    <3>1. CASE Starts(n)
      <4>1. flag' \in 0 .. 3
        BY <3>1 DEF Starts
      <4> QED BY <3>1, <4>1, Names DEF Starts, Sample
    <3>2. CASE NotYet(n)
      BY <3>2 DEF NotYet, converter
    <3> QED BY <2>3, <3>1, <3>2
  <2> QED BY <2>1, <2>2, <2>3, <2>4
<1> QED BY <1>1, <1>2, <1>3 DEF adc_scan

LEMMA StepTyped == ScanTypeOK /\ [ScanNext]_scan_vars => ScanTypeOK'
<1> SUFFICES ASSUME ScanTypeOK, [ScanNext]_scan_vars PROVE ScanTypeOK'
  OBVIOUS
<1> USE AdcAssumption DEF ScanTypeOK
<1>1. CASE Tick
  <2>1. isr' = isr /\ late' \in 0 .. MaxLate
    BY <1>1 DEF Tick
  <2> QED BY <1>1, <2>1, ScanTyped DEF Tick
<1>2. CASE Takes
  BY <1>2 DEF Takes, queue, temperature
<1>3. CASE Looks
  <2>1. CASE adc_scan
    BY <1>3, <2>1, ScanTyped DEF Looks
  <2>2. CASE UNCHANGED <<queue, cur_ch, flag, converter, isr, average, temperature, late>>
    BY <1>3, <2>2 DEF queue, converter, temperature
  <2> QED BY <1>3, <2>1, <2>2 DEF Looks, queue, converter, temperature
<1>4. ASSUME NEW i \in Slot, Passes(i) PROVE ScanTypeOK'
  BY <1>4 DEF Passes, converter, temperature
<1>5. ASSUME NEW i \in Slot, Asks(i) PROVE ScanTypeOK'
  BY <1>5 DEF Asks, converter, temperature
<1>6. CASE AddBegins
  BY <1>6, Names DEF AddBegins, converter, temperature
<1>7. CASE AddEnds
  <2>1. value' \in [Slot -> Name]
    BY <1>7, Names DEF AddEnds
  <2> QED BY <1>7, <2>1 DEF AddEnds, converter, temperature
<1>8. CASE adc_remove_sample_ch
  BY <1>8, Names DEF adc_remove_sample_ch, converter, temperature
<1>9. CASE UNCHANGED scan_vars
  BY <1>9 DEF scan_vars, queue, converter, temperature
<1>10. CASE adc_reset
  <2>1. late' \in 0 .. MaxLate /\ cur_ch' \in Slot
    BY <1>10, FirstSlot DEF adc_reset
  <2>2. on' \in BOOLEAN /\ flag' \in 0 .. 3
    <3>1. on' \in BOOLEAN
      BY <1>10, Zenon DEF adc_reset
    <3>2. flag' \in 0 .. 3
      BY <1>10 DEF adc_reset
    <3> QED BY <3>1, <3>2
  <2>3. conv' \in Name /\ res' \in Name
    <3>1. conv' = "vbat" /\ res' = Unread
      BY <1>10 DEF adc_reset
    <3> QED BY <3>1, Names
  <2>4. UNCHANGED <<ch, value, due, wanted, adding, isr, dtemp_adc_res>>
    BY <1>10 DEF adc_reset, queue, temperature
  <2> QED BY <2>1, <2>2, <2>3, <2>4
<1> QED BY <1>1, <1>2, <1>3, <1>4, <1>5, <1>6, <1>7, <1>8, <1>9, <1>10 DEF ScanNext

-----------------------------------------------------------------------------
LEMMA InitKept == ScanInit => Kept
<1> SUFFICES ASSUME ScanInit PROVE Kept
  OBVIOUS
<1>1. QueueKept
  BY DEF ScanInit, QueueKept
<1>2. ASSUME NEW i \in Slot PROVE ValueKept(i)
  BY <1>2, AdcAssumption DEF ScanInit, ValueKept
<1>3. FlagMeans
  BY DEF ScanInit, FlagMeans
<1> QED BY <1>1, <1>2, <1>3 DEF ScanInit, Kept, AverageKept, TemperatureKept

(* Filing under cur_ch what belongs to it. *)
LEMMA FilesKept ==
    ASSUME ScanTypeOK, Kept, Files, Belongs(cur_ch, res), UNCHANGED <<ch, adding>>
    PROVE  (\A i \in Slot : ValueKept(i)') /\ AverageKept'
<1>1. ASSUME NEW i \in Slot PROVE ValueKept(i)'
  <2>1. CASE i = cur_ch
    <3>1. value'[i] = res
      BY <2>1 DEF Files, ScanTypeOK
    <3>2. res # Unread
      BY AdcAssumption DEF Belongs, ScanTypeOK
    <3> QED BY <2>1, <3>1, <3>2 DEF ValueKept, Belongs
  <2>2. CASE i # cur_ch
    <3>1. value'[i] = value[i]
      BY <2>2 DEF Files, ScanTypeOK
    <3> QED BY <3>1 DEF Kept, ValueKept, Belongs
  <2> QED BY <2>1, <2>2
<1>2. AverageKept'
  <2>1. ch[cur_ch] \in {"vbat", "ldoref"} => res = ch[cur_ch]
    BY AdcAssumption DEF Kept, QueueKept, Belongs, ScanTypeOK, Timed, Free
  <2>2. /\ vbat_value_array' \in {vbat_value_array, vbat_value_array \cup {"vbat"}}
        /\ vbg_value_array' \in {vbg_value_array, vbg_value_array \cup {"ldoref"}}
    BY <2>1 DEF Files, Pushed
  <2> QED BY <2>2 DEF Kept, AverageKept
<1> QED BY <1>1, <1>2

(* Starting the next entry gives the flag its meaning again. *)
LEMMA StartsKept ==
    ASSUME ScanTypeOK, QueueKept, NEW n \in Slot, IsNext(n), cur_ch' = n, Starts(n) \/ NotYet(n)
    PROVE  FlagMeans'
<1>1. CASE Starts(n)
  <2>1. Belongs(n, ch[n])
    BY NextHasChannel DEF QueueKept, Belongs
  <2>2. on' = TRUE /\ conv' = ch[n]
    BY <1>1 DEF Starts, Sample
  <2>3. CASE ch[n] = "dtemp"
    BY <1>1, <2>2, <2>3 DEF Starts, FlagMeans, Result
  <2>4. CASE ch[n] # "dtemp"
    BY <1>1, <2>1, <2>2, <2>4 DEF Starts, FlagMeans, Result, Belongs
  <2> QED BY <2>3, <2>4
<1>2. CASE NotYet(n)
  BY <1>2 DEF NotYet, FlagMeans
<1> QED BY <1>1, <1>2

LEMMA ScanKept ==
    ASSUME ScanTypeOK, Kept, adc_scan
    PROVE  Kept'
<1>1. CASE Busy
  BY <1>1 DEF Busy, Kept, QueueKept, ValueKept, Belongs, FlagMeans, AverageKept,
              TemperatureKept, queue, average, temperature
<1>2. CASE SecondHalf
  <2>1. Result = "dtemp" /\ res = "dtemp"
    BY <1>2 DEF SecondHalf, Kept, FlagMeans, Result
  <2>2. FlagMeans'
    BY <1>2, <2>1 DEF SecondHalf, Sample, FlagMeans, Result
  <2>3. UNCHANGED <<ch, value, adding, average, dtemp>>
    BY <1>2 DEF SecondHalf, queue
  <2>4. QueueKept' /\ AverageKept' /\ TemperatureKept'
    BY <2>3 DEF Kept, QueueKept, AverageKept, TemperatureKept, average
  <2>5. ASSUME NEW i \in Slot PROVE ValueKept(i)'
    BY <2>3 DEF Kept, ValueKept, Belongs
  <2> QED BY <2>2, <2>4, <2>5 DEF Kept
<1>3. CASE MovesOn
  <2>1. ch' = ch /\ adding' = adding
    BY <1>3 DEF MovesOn
  <2>2. PICK n \in Slot : IsNext(n) /\ cur_ch' = n /\ (Starts(n) \/ NotYet(n))
    BY <1>3 DEF MovesOn
  <2>3. QueueKept'
    BY <2>1 DEF Kept, QueueKept
  <2>4. FlagMeans'
    BY <2>2, StartsKept DEF Kept
  <2>5. (\A i \in Slot : ValueKept(i)') /\ AverageKept' /\ TemperatureKept'
    <3>1. CASE flag = 1 /\ Files /\ UNCHANGED temperature
      <4>1. Belongs(cur_ch, res)
        BY <1>3, <3>1 DEF MovesOn, Kept, FlagMeans, Result
      <4> QED BY <2>1, <3>1, <4>1, FilesKept DEF Kept, TemperatureKept, temperature
    <3>2. CASE flag = 3 /\ FilesTemperature
      BY <1>3, <2>1, <3>2 DEF MovesOn, FilesTemperature, Kept, FlagMeans, Result, ValueKept,
                              Belongs, average, AverageKept, TemperatureKept
    <3>3. CASE flag = 0 /\ UNCHANGED <<filed, temperature>>
      BY <2>1, <3>3 DEF filed, temperature, Kept, ValueKept, Belongs, average, AverageKept, TemperatureKept
    <3> QED BY <1>3, <3>1, <3>2, <3>3 DEF MovesOn
  <2> QED BY <2>3, <2>4, <2>5 DEF Kept
<1> QED BY <1>1, <1>2, <1>3 DEF adc_scan

LEMMA StepKept == ScanTypeOK /\ Kept /\ [ScanNext]_scan_vars => Kept'
<1> SUFFICES ASSUME ScanTypeOK, Kept, [ScanNext]_scan_vars PROVE Kept'
  OBVIOUS
<1> DEFINE Rest == UNCHANGED <<cur_ch, flag, converter, average, temperature>>
<1>0. ASSUME Rest PROVE FlagMeans' /\ AverageKept' /\ TemperatureKept'
  BY <1>0 DEF converter, temperature, Kept, FlagMeans, Belongs, Result, AverageKept, TemperatureKept, average
<1>1. CASE Tick
  BY <1>1, ScanKept DEF Tick
<1>2. CASE Takes
  <2>1. Result' = Result
    BY <1>2 DEF Takes, Result
  <2> QED BY <1>2, <2>1 DEF Takes, queue, temperature, Kept, QueueKept, ValueKept, Belongs,
                            FlagMeans, average, AverageKept, TemperatureKept
<1>3. CASE Looks
  <2>1. CASE adc_scan
    BY <2>1, ScanKept
  <2>2. CASE UNCHANGED <<queue, cur_ch, flag, converter, average, temperature>>
    BY <1>0, <2>2 DEF queue, Kept, QueueKept, ValueKept, Belongs
  <2> QED BY <1>3, <2>1, <2>2 DEF Looks
<1>4. ASSUME NEW i \in Slot, Passes(i) PROVE Kept'
  BY <1>0, <1>4 DEF Passes, Kept, QueueKept, ValueKept, Belongs
<1>5. ASSUME NEW i \in Slot, Asks(i) PROVE Kept'
  BY <1>0, <1>5 DEF Asks, Kept, QueueKept, ValueKept, Belongs
<1>6. CASE AddBegins
  <2>1. PICK i \in Slot : ch[i] = Free /\ ch' = [ch EXCEPT ![i] = Visitor]
    BY <1>6 DEF AddBegins
  <2>2. Start[i] = Free
    BY <2>1, AdcAssumption DEF Kept, QueueKept
  <2>3. QueueKept'
    BY <2>1, <2>2 DEF Kept, QueueKept, ScanTypeOK
  <2>4. ASSUME NEW j \in Slot PROVE ValueKept(j)'
    BY <1>6 DEF AddBegins, Kept, ValueKept, Belongs
  <2> QED BY <1>0, <1>6, <2>3, <2>4 DEF AddBegins, Kept
<1>7. CASE AddEnds
  <2>1. QueueKept'
    BY <1>7 DEF AddEnds, Kept, QueueKept
  <2>2. ASSUME NEW j \in Slot PROVE ValueKept(j)'
    <3>1. CASE ch[j] = Visitor
      <4>1. value'[j] = One
        BY <1>7, <3>1 DEF AddEnds
      <4> QED BY <4>1, AdcAssumption DEF ValueKept, One, Unread
    <3>2. CASE ch[j] # Visitor
      <4>1. value'[j] = value[j] /\ ch'[j] = ch[j]
        BY <1>7, <3>2 DEF AddEnds
      <4> QED BY <3>2, <4>1 DEF Kept, ValueKept, Belongs
    <3> QED BY <3>1, <3>2
  <2> QED BY <1>0, <1>7, <2>1, <2>2 DEF AddEnds, Kept
<1>8. CASE adc_remove_sample_ch
  <2>1. PICK i \in Slot : ch[i] = Visitor /\ ch' = [ch EXCEPT ![i] = Free]
    BY <1>8 DEF adc_remove_sample_ch
  <2>2. Start[i] = Free
    BY <2>1, AdcAssumption DEF Kept, QueueKept, Free
  <2>3. QueueKept'
    BY <2>1, <2>2 DEF Kept, QueueKept, ScanTypeOK
  <2>4. ASSUME NEW j \in Slot PROVE ValueKept(j)'
    <3>1. ch'[j] = Visitor => ch[j] = Visitor
      BY <2>1, AdcAssumption DEF ScanTypeOK, Free
    <3> QED BY <1>8, <3>1 DEF adc_remove_sample_ch, Kept, ValueKept, Belongs
  <2> QED BY <1>0, <1>8, <2>3, <2>4 DEF adc_remove_sample_ch, Kept
<1>9. CASE UNCHANGED scan_vars
  BY <1>0, <1>9 DEF scan_vars, queue, Kept, QueueKept, ValueKept, Belongs
<1>10. CASE adc_reset
  <2>1. QueueKept' /\ AverageKept' /\ TemperatureKept' /\ FlagMeans'
    BY <1>10 DEF adc_reset, queue, temperature, Kept, QueueKept, AverageKept, TemperatureKept, FlagMeans
  <2>2. ASSUME NEW j \in Slot PROVE ValueKept(j)'
    BY <1>10 DEF adc_reset, queue, Kept, ValueKept, Belongs
  <2> QED BY <2>1, <2>2 DEF Kept
<1> QED BY <1>1, <1>2, <1>3, <1>4, <1>5, <1>6, <1>7, <1>8, <1>9, <1>10 DEF ScanNext

(* What the invariant says of a channel in the queue. *)
LEMMA KeptMeansRight == Kept => FiledRight
<1> SUFFICES ASSUME Kept PROVE FiledRight
  OBVIOUS
<1>1. ASSUME NEW i \in Slot, ch[i] # Free, ~(adding /\ ch[i] = Visitor)
      PROVE  value[i] \in {One, ch[i]}
  <2>1. CASE Start[i] = Free
    BY <1>1, <2>1 DEF Kept, QueueKept, ValueKept, Belongs
  <2>2. CASE Start[i] # Free
    BY <1>1, <2>2 DEF Kept, QueueKept, ValueKept, Belongs
  <2> QED BY <2>1, <2>2
<1> QED BY <1>1 DEF Kept, AverageKept, TemperatureKept, FiledRight

-----------------------------------------------------------------------------
(* What adc_get_value returns of a channel was converted from that channel,*)
(* for every queue, every channel that comes and goes and every number of  *)
(* ticks that come late.                                                   *)
THEOREM AlwaysFiledRight == ScanSpec => []FiledRight
<1>1. ScanInit => ScanTypeOK /\ Kept
  BY InitTyped, InitKept
<1>2. ScanTypeOK /\ Kept /\ [ScanNext]_scan_vars => ScanTypeOK' /\ Kept'
  BY StepTyped, StepKept
<1>3. Kept => FiledRight
  BY KeptMeansRight
<1> QED BY <1>1, <1>2, <1>3, PTL DEF ScanSpec

(* The types of the state, for every queue and bound. *)
THEOREM ScanTypeCorrect == ScanSpec => []ScanTypeOK
<1>1. ScanTypeOK /\ [ScanNext]_scan_vars => ScanTypeOK'
  BY StepTyped
<1> QED BY <1>1, InitTyped, PTL DEF ScanSpec

-----------------------------------------------------------------------------
(* The monitor of the battery, for any window size, limits, voltages and     *)
(* queue bound.                                                              *)

(* What the task knows between its test of vbat_fast_timer and its store:    *)
(* the interrupt can only clear the variable, so it is still 0, and the new  *)
(* timer, which the interrupt cannot name, still runs.                       *)
AddInProgress ==
    /\ task \in {"add_fast", "store_fast"} => fast_timer = 0
    /\ task = "store_fast" => pending \in live
    /\ task # "store_fast" => pending = 0

TimerTypes ==
    /\ task \in {"ready", "add_fast", "store_fast", "del_fast"}
    /\ fast_timer \in TimerIds \cup {0} /\ pending \in TimerIds \cup {0}
    /\ live \subseteq TimerIds

TimerInv == TimerTypes /\ NoOrphanTimer /\ NoStaleHandle /\ AddInProgress

USE DEF timers, monitor, vars, TimerIds

(* Every way a sample of vbat_check ends leaves the timers alone or stops    *)
(* the one vbat_fast_timer names.                                            *)
LEMMA VbatCheckTimers ==
    VbatCheck =>
        /\ UNCHANGED <<phase, task, pending, slow_timer, chg>>
        /\ StopFast \/ UNCHANGED <<live, fast_timer>>
BY DEF VbatCheck, SampleMid, WindowLow,
   WindowWarning, WindowNormal,
       WindowCharging, WindowEnds, Sampling, CloseWindow

LEMMA InitTimers == Init => TimerInv
BY DEF Init, PowerUp, TimerInv, TimerTypes,
   NoOrphanTimer, NoStaleHandle, AddInProgress

(* The steps of the app task that only start a test-and-add or a             *)
(* test-and-delete: they run in "ready" and touch no timer of the interrupt. *)
TaskStarts ==
    /\ task = "ready" /\ UNCHANGED <<fast_timer, live, pending>>
    /\ \/ task' \in {"ready", "del_fast"}
       \/ task' = "add_fast" /\ fast_timer = 0

LEMMA HandlersStart ==
    \/ BootStep \/ vbat_check_slow
    \/ Ldo5vIn \/ ChargeFull \/ (\E shut \in BOOLEAN : Ldo5vOff(shut))
    \/ (\E ev \in PowerEvents : PowerEvent(ev))
    => TaskStarts
BY DEF BootStep, BootSample, vbat_check_slow,
   TestFast, Ldo5vIn, ChargeFull,
       Ldo5vOff, PowerEvent, Receive, vbat_check_init, vbat_timer_delete, TaskStarts

LEMMA NextTimers == TimerInv /\ [Next]_vars => TimerInv'
<1> SUFFICES ASSUME TimerInv, [Next]_vars PROVE TimerInv'
    OBVIOUS
<1> USE DEF TimerInv, TimerTypes, NoOrphanTimer,
   NoStaleHandle, AddInProgress
<1>1. CASE VbatCheck
    <2>1. UNCHANGED <<task, pending>>
        BY <1>1, VbatCheckTimers
    <2>2. CASE StopFast
        BY <2>1, <2>2 DEF StopFast
    <2>3. CASE UNCHANGED <<live, fast_timer>>
        BY <2>1, <2>3
    <2> QED
        BY <1>1, <2>2, <2>3, VbatCheckTimers
<1>2. CASE TaskStarts
    BY <1>2 DEF TaskStarts
<1>3. CASE AddFast
    BY <1>3 DEF AddFast
<1>4. CASE StoreFast
    BY <1>4 DEF StoreFast
<1>5. CASE DelFast
    BY <1>5 DEF DelFast, StopFast
<1>6. CASE LowpowerTimer \/ FullDetected \/ \E plugged \in BOOLEAN : Plug(plugged)
    BY <1>6 DEF LowpowerTimer, FullDetected, Plug
<1>7. CASE Reboot
    BY <1>7 DEF Reboot
<1>8. CASE UNCHANGED vars
    BY <1>8
<1> QED
    BY <1>1, <1>2, <1>3, <1>4, <1>5, <1>6, <1>7, <1>8,
       HandlersStart DEF Next, TaskStep

(* No hardware timer that calls vbat_check escapes vbat_fast_timer.          *)
THEOREM OrphanFree == Spec => []NoOrphanTimer
<1>1. TimerInv => NoOrphanTimer
    BY DEF TimerInv
<1> QED
    BY <1>1, InitTimers, NextTimers, PTL DEF Spec

(* vbat_fast_timer always names a timer that runs.                           *)
THEOREM HandleFresh == Spec => []NoStaleHandle
<1>1. TimerInv => NoStaleHandle
    BY DEF TimerInv
<1> QED
    BY <1>1, InitTimers, NextTimers, PTL DEF Spec

-----------------------------------------------------------------------------
(* The types of the monitor, in the parts that change together. A window    *)
(* counts no more low readings than it has samples, which is what keeps the  *)
(* two counters of low readings below DetectCnt.                             *)
WindowFits == cnt.off <= cnt.unit /\ cnt.warn <= cnt.unit

Count == [unit : 0..DetectCnt - 1, off : 0..DetectCnt - 1,
          warn : 0..DetectCnt - 1, voice : 0..VoiceLimit,
          low : 0..OffLimit, normal : 0..NormalLimit + 1]

MonitorTypes ==
    /\ cnt \in Count
    /\ first_flag \in BOOLEAN /\ cur_bat_st \in {"NORMAL", "WARNING", "LOWPOWER"}
    /\ bat_val \in Nat /\ old_level \in Nat /\ last_online \in BOOLEAN

PhaseTypes ==
    /\ phase \in {"boot", "run", "off"} /\ app \in {"bt", "idle"}
    /\ slow_timer \in BOOLEAN /\ lowpower_timer \in BOOLEAN
    /\ online \in BOOLEAN /\ chg \in {"out", "in", "full"}
    /\ boot_cnt \in -BootLimit..BootLimit

AppEvent == PowerEvents \cup ChargeEvents

LEMMA TypeParts ==
    TypeOK <=> TimerTypes /\ MonitorTypes /\ PhaseTypes /\ events \in Seq(AppEvent)
BY DEF TypeOK, TimerTypes, MonitorTypes, Count, PhaseTypes, AppEvent

(* A reading, averaged with the one before, stays a natural number, and so   *)
(* does the level shown for it.                                              *)
LEMMA BatNat == ASSUME MonitorTypes, NEW v \in Volts PROVE Bat(v) \in Nat /\ Level(v) \in Nat
<1>1. v \in Nat /\ PoweroffV \in Nat
    BY VoltsAssumption
<1>2. (v + bat_val) \div 2 \in Nat
    BY <1>1 DEF MonitorTypes
<1> QED
    BY <1>1, <1>2 DEF Bat, Level

(* The window that ends starts again from zero. *)
LEMMA CloseTypes ==
    ASSUME MonitorTypes, events \in Seq(AppEvent), online \in BOOLEAN,
           NEW v \in Volts, NEW posted \in Seq(AppEvent), CloseWindow(v, posted)
    PROVE  events' \in Seq(AppEvent) /\ old_level' \in Nat /\ last_online' \in BOOLEAN
<1>1. <<"CHANGE">> \in Seq(AppEvent) /\ <<>> \in Seq(AppEvent)
    BY DEF AppEvent, PowerEvents
<1>2. events \o posted \in Seq(AppEvent)
    OBVIOUS
<1>3. \A t \in Seq(AppEvent) : events \o posted \o t \in Seq(AppEvent)
    BY <1>2
<1>4. events' \in Seq(AppEvent)
    BY <1>1, <1>3 DEF CloseWindow
<1> QED
    BY <1>4, BatNat DEF CloseWindow

LEMMA CountersTyped ==
    /\ DetectCnt \in Nat \ {0} /\ OffLimit \in Nat \ {0} /\ VoiceLimit \in Nat \ {0}
    /\ NormalLimit \in Nat \ {0} /\ BootLimit \in Nat \ {0}
BY CountersAssumption

LEMMA CountIs ==
    ASSUME NEW un \in 0..DetectCnt - 1, NEW of \in 0..DetectCnt - 1, NEW wa \in 0..DetectCnt - 1,
           NEW vo \in 0..VoiceLimit, NEW lo \in 0..OffLimit, NEW no \in 0..NormalLimit + 1
    PROVE  [unit |-> un, off |-> of, warn |-> wa, voice |-> vo, low |-> lo, normal |-> no] \in Count
BY DEF Count

LEMMA ClearedTypes ==
    ASSUME NEW vo \in 0..VoiceLimit, NEW lo \in 0..OffLimit, NEW no \in 0..NormalLimit + 1,
           cnt' = [unit |-> 0, off |-> 0, warn |-> 0, voice |-> vo, low |-> lo, normal |-> no]
    PROVE  WindowFits' /\ cnt' \in Count
<1>1. 0 \in 0..DetectCnt - 1
    BY CountersTyped
<1> QED
    BY <1>1, CountIs DEF WindowFits

LEMMA SampleTypes ==
    ASSUME MonitorTypes, WindowFits, events \in Seq(AppEvent), online \in BOOLEAN, VbatCheck
    PROVE  MonitorTypes' /\ WindowFits' /\ events' \in Seq(AppEvent)
<1>0. PICK v \in Volts, adcLow \in BOOLEAN :
        \/ SampleMid(v, adcLow) \/ WindowLow(v, adcLow) \/ WindowWarning(v, adcLow)
        \/ WindowNormal(v, adcLow) \/ WindowCharging(v)
    BY DEF VbatCheck
<1>1. bat_val' \in Nat
    BY <1>0, BatNat DEF SampleMid, WindowLow, WindowWarning, WindowNormal, WindowCharging,
       WindowEnds, Sampling
<1>2. /\ OffCnt(v, adcLow) \in cnt.off..cnt.off + 1
      /\ WarnCnt(v) \in cnt.warn..cnt.warn + 1
    BY DEF OffCnt, WarnCnt, MonitorTypes, Count
<1>2a. cnt.voice \in 0..VoiceLimit /\ cnt.low \in 0..OffLimit /\ cnt.normal \in 0..NormalLimit + 1
    BY DEF MonitorTypes, Count
<1>3. CASE SampleMid(v, adcLow)
    <2>1. cnt' = [cnt EXCEPT !.unit = @ + 1, !.off = OffCnt(v, adcLow), !.warn = WarnCnt(v)]
          /\ cnt.unit + 1 < DetectCnt
          /\ UNCHANGED <<first_flag, cur_bat_st, old_level, last_online, events>>
        BY <1>3 DEF SampleMid
    <2>2. /\ cnt'.unit = cnt.unit + 1 /\ cnt'.off = OffCnt(v, adcLow) /\ cnt'.warn = WarnCnt(v)
          /\ cnt'.voice = cnt.voice /\ cnt'.low = cnt.low /\ cnt'.normal = cnt.normal
          /\ cnt' = [unit |-> cnt'.unit, off |-> cnt'.off, warn |-> cnt'.warn,
                     voice |-> cnt'.voice, low |-> cnt'.low, normal |-> cnt'.normal]
        BY <2>1 DEF MonitorTypes, Count
    <2>3. /\ cnt'.unit \in 0..DetectCnt - 1 /\ cnt'.off \in 0..DetectCnt - 1
          /\ cnt'.warn \in 0..DetectCnt - 1 /\ WindowFits'
        <3>1. /\ cnt.unit \in Int /\ cnt.off \in Nat /\ cnt.warn \in Nat /\ DetectCnt \in Nat
              /\ 0 <= cnt.unit /\ cnt.off <= cnt.unit /\ cnt.warn <= cnt.unit
            BY CountersTyped DEF MonitorTypes, Count, WindowFits
        <3>2. /\ OffCnt(v, adcLow) \in 0..cnt.unit + 1 /\ WarnCnt(v) \in 0..cnt.unit + 1
            BY <1>2, <3>1
        <3> QED
            BY <2>1, <2>2, <3>1, <3>2 DEF WindowFits
    <2>4. cnt' \in Count
        BY <1>2a, <2>2, <2>3, CountIs
    <2> QED
        BY <1>1, <2>1, <2>3, <2>4 DEF MonitorTypes
<1>4. CASE WindowLow(v, adcLow)
    <2> DEFINE lo == IF cnt.low + 1 > OffLimit THEN 0 ELSE cnt.low + 1
    <2>1. cnt' = [unit |-> 0, off |-> 0, warn |-> 0, voice |-> 0, low |-> lo, normal |-> 0]
        BY <1>4 DEF WindowLow, ClearWindow, MonitorTypes, Count
    <2>2. lo \in 0..OffLimit /\ 0 \in 0..VoiceLimit /\ 0 \in 0..NormalLimit + 1
        BY <1>2a, CountersTyped
    <2>3. events' \in Seq(AppEvent)
        <3>1. "LOW" \in AppEvent
            BY DEF AppEvent, PowerEvents
        <3> QED
            BY <1>4, <3>1 DEF WindowLow
    <2> HIDE DEF lo
    <2>4. WindowFits' /\ cnt' \in Count
        BY <2>1, <2>2, ClearedTypes
    <2> QED
        BY <1>1, <1>4, <2>3, <2>4 DEF WindowLow, MonitorTypes
<1>5. CASE WindowWarning(v, adcLow)
    <2> DEFINE warns == cnt.voice + 1 > IF first_flag THEN 1 ELSE VoiceLimit - 1
               vo == IF warns THEN 0 ELSE cnt.voice + 1
    <2>1. cnt' = [unit |-> 0, off |-> 0, warn |-> 0, voice |-> vo, low |-> 0, normal |-> 0]
        BY <1>5 DEF WindowWarning, ClearWindow, MonitorTypes, Count
    <2>2. vo \in 0..VoiceLimit /\ 0 \in 0..OffLimit /\ 0 \in 0..NormalLimit + 1
        BY <1>2a, CountersTyped
    <2>3. events' \in Seq(AppEvent) /\ old_level' \in Nat /\ last_online' \in BOOLEAN
        <3>1. <<"WARNING">> \in Seq(AppEvent) /\ <<>> \in Seq(AppEvent)
            BY DEF AppEvent, PowerEvents
        <3> QED
            BY <1>5, <3>1, CloseTypes DEF WindowWarning
    <2>4. first_flag' \in BOOLEAN /\ cur_bat_st' = "WARNING"
        BY <1>5 DEF WindowWarning
    <2> HIDE DEF warns, vo
    <2>5. WindowFits' /\ cnt' \in Count
        BY <2>1, <2>2, ClearedTypes
    <2> QED
        BY <1>1, <2>3, <2>4, <2>5 DEF MonitorTypes
<1>6. CASE WindowNormal(v, adcLow)
    <2> DEFINE no == IF cnt.normal > NormalLimit THEN cnt.normal ELSE cnt.normal + 1
    <2>1. cnt' = [unit |-> 0, off |-> 0, warn |-> 0, voice |-> 0, low |-> 0, normal |-> no]
        BY <1>6 DEF WindowNormal, ClearWindow, MonitorTypes, Count
    <2>2. no \in 0..NormalLimit + 1 /\ 0 \in 0..OffLimit /\ 0 \in 0..VoiceLimit
        BY <1>2a, CountersTyped
    <2>3. events' \in Seq(AppEvent) /\ old_level' \in Nat /\ last_online' \in BOOLEAN
        <3>1. <<"NORMAL">> \in Seq(AppEvent) /\ <<>> \in Seq(AppEvent)
            BY DEF AppEvent, PowerEvents
        <3>2. old_level \in Nat /\ last_online \in BOOLEAN
            BY DEF MonitorTypes
        <3> QED
            BY <1>6, <3>1, <3>2, CloseTypes DEF WindowNormal
    <2>4. cur_bat_st' \in {"NORMAL", "WARNING", "LOWPOWER"} /\ UNCHANGED first_flag
        BY <1>6 DEF WindowNormal, MonitorTypes
    <2> HIDE DEF no
    <2>5. WindowFits' /\ cnt' \in Count
        BY <2>1, <2>2, ClearedTypes
    <2> QED
        BY <1>1, <2>3, <2>4, <2>5 DEF MonitorTypes
<1>7. CASE WindowCharging(v)
    <2>1. cnt' = [unit |-> 0, off |-> 0, warn |-> 0, voice |-> cnt.voice, low |-> cnt.low,
                  normal |-> cnt.normal]
        BY <1>7 DEF WindowCharging, ClearWindow, MonitorTypes, Count
    <2>2. events' \in Seq(AppEvent) /\ old_level' \in Nat /\ last_online' \in BOOLEAN
        <3>1. <<"CHARGE">> \in Seq(AppEvent) /\ Append(events, "CHARGE") \in Seq(AppEvent)
            BY DEF AppEvent, PowerEvents
        <3>2. old_level \in Nat /\ last_online \in BOOLEAN
            BY DEF MonitorTypes
        <3> QED
            BY <1>7, <3>1, <3>2, CloseTypes DEF WindowCharging
    <2>3. WindowFits' /\ cnt' \in Count
        BY <1>2a, <2>1, ClearedTypes
    <2> QED
        BY <1>1, <1>7, <2>2, <2>3 DEF WindowCharging, MonitorTypes
<1> QED
    BY <1>0, <1>3, <1>4, <1>5, <1>6, <1>7

(* What the other steps do to the events and to the rest of the state. *)
LEMMA BootSampleTypes ==
    ASSUME PhaseTypes, BootStep
    PROVE  PhaseTypes'
<1>1. PICK v \in Volts, adcLow \in BOOLEAN : BootSample(v, adcLow)
    BY DEF BootStep
<1>2. boot_cnt' \in -BootLimit..BootLimit
    <2> DEFINE low == adcLow \/ v < PoweroffV
               n == CASE low /\ boot_cnt > 0   -> -1
                      [] low /\ boot_cnt <= 0  -> boot_cnt - 1
                      [] ~low /\ boot_cnt < 0  -> 1
                      [] ~low /\ boot_cnt >= 0 -> boot_cnt + 1
    <2>1. boot_cnt' = IF n \in {BootLimit + 1, -(BootLimit + 1)} THEN 0 ELSE n
        BY <1>1 DEF BootSample
    <2>2. low \in BOOLEAN
        OBVIOUS
    <2>3. n \in -(BootLimit + 1)..BootLimit + 1
        <3> HIDE DEF low
        <3> QED
            BY <2>2, CountersTyped DEF PhaseTypes
    <2> HIDE DEF n
    <2> QED
        BY <2>1, <2>3, CountersTyped
<1>3. phase' \in {"boot", "run", "off"}
    BY <1>1 DEF BootSample
<1>4. slow_timer' \in BOOLEAN
    BY <1>1 DEF BootSample, vbat_check_init, PhaseTypes
<1> QED
    BY <1>1, <1>2, <1>3, <1>4 DEF BootSample, PhaseTypes

LEMMA ReceiveTypes ==
    ASSUME events \in Seq(AppEvent), NEW ev, Receive(ev)
    PROVE  events' \in Seq(AppEvent)
<1>1. events # <<>> /\ events' = Tail(events)
    BY DEF Receive
<1> QED
    BY <1>1

LEMMA OtherTypes ==
    ASSUME PhaseTypes, events \in Seq(AppEvent), [Next]_vars, ~VbatCheck, ~Reboot
    PROVE  PhaseTypes' /\ events' \in Seq(AppEvent) /\ UNCHANGED monitor
<1>1. CASE BootStep
    BY <1>1, BootSampleTypes DEF BootStep, BootSample
<1>2. CASE AddFast \/ StoreFast \/ DelFast \/ vbat_check_slow
    BY <1>2 DEF AddFast, StoreFast, DelFast, vbat_check_slow, PhaseTypes
<1>3. CASE Ldo5vIn
    BY <1>3, ReceiveTypes DEF Ldo5vIn, Receive, PhaseTypes
<1>4. CASE ChargeFull
    BY <1>4, ReceiveTypes DEF ChargeFull, Receive, vbat_timer_delete, PhaseTypes
<1>5. ASSUME NEW shut \in BOOLEAN, Ldo5vOff(shut)
      PROVE  PhaseTypes' /\ events' \in Seq(AppEvent) /\ UNCHANGED monitor
    BY <1>5, ReceiveTypes DEF Ldo5vOff, Receive, vbat_check_init, PhaseTypes
<1>6. ASSUME NEW ev \in PowerEvents, PowerEvent(ev)
      PROVE  PhaseTypes' /\ events' \in Seq(AppEvent) /\ UNCHANGED monitor
    <2>1. Receive(ev) /\ UNCHANGED <<app, chg>>
        BY <1>6 DEF PowerEvent
    <2>2. lowpower_timer' \in BOOLEAN
        BY <1>6 DEF PowerEvent, PhaseTypes
    <2>3. slow_timer' \in BOOLEAN /\ phase' \in {"boot", "run", "off"}
        BY <1>6 DEF PowerEvent, vbat_timer_delete, PhaseTypes
    <2> QED
        BY <2>1, <2>2, <2>3, ReceiveTypes DEF Receive, PhaseTypes
<1>7. CASE LowpowerTimer
    <2>1. "WARNING" \in AppEvent
        BY DEF AppEvent, PowerEvents
    <2> QED
        BY <1>7, <2>1 DEF LowpowerTimer, PhaseTypes
<1>8. ASSUME NEW plugged \in BOOLEAN, Plug(plugged)
      PROVE  PhaseTypes' /\ events' \in Seq(AppEvent) /\ UNCHANGED monitor
    <2>1. "LDO5V_IN" \in AppEvent /\ "LDO5V_OFF" \in AppEvent
        BY DEF AppEvent, ChargeEvents
    <2>2. <<"LDO5V_IN">> \in Seq(AppEvent) /\ <<>> \in Seq(AppEvent)
        BY <2>1
    <2>3. \A e \in AppEvent : Append(events, e) \in Seq(AppEvent)
        OBVIOUS
    <2>4. events' \in Seq(AppEvent)
        BY <1>8, <2>1, <2>2, <2>3 DEF Plug
    <2> QED
        BY <1>8, <2>4 DEF Plug, PhaseTypes
<1>9. CASE FullDetected
    <2>1. "CHARGE_FULL" \in AppEvent
        BY DEF AppEvent, ChargeEvents
    <2> QED
        BY <1>9, <2>1 DEF FullDetected, PhaseTypes
<1>10. CASE UNCHANGED vars
    BY <1>10 DEF PhaseTypes
<1> QED
    BY <1>1, <1>2, <1>3, <1>4, <1>5, <1>6, <1>7, <1>8, <1>9, <1>10 DEF Next, TaskStep

(* A bud starts, and starts again, with everything at zero. *)
LEMMA ZeroTypes ==
    /\ 0 \in -BootLimit..BootLimit
    /\ ZeroCnt.off <= ZeroCnt.unit /\ ZeroCnt.warn <= ZeroCnt.unit
    /\ ZeroCnt \in Count
<1>1. 0 \in 0..DetectCnt - 1 /\ 0 \in 0..VoiceLimit /\ 0 \in 0..OffLimit
      /\ 0 \in 0..NormalLimit + 1
    BY CountersTyped
<1>2. ZeroCnt \in Count
    BY <1>1, CountIs DEF ZeroCnt
<1>3. ZeroCnt.off <= ZeroCnt.unit /\ ZeroCnt.warn <= ZeroCnt.unit
    BY DEF ZeroCnt
<1>4. 0 \in -BootLimit..BootLimit
    BY CountersTyped
<1> QED
    BY <1>2, <1>3, <1>4

LEMMA InitMonitor == Init => MonitorTypes /\ WindowFits /\ PhaseTypes /\ events \in Seq(AppEvent)
<1> SUFFICES ASSUME NEW plugged \in BOOLEAN, PowerUp(plugged)
             PROVE  MonitorTypes /\ WindowFits /\ PhaseTypes /\ events \in Seq(AppEvent)
    BY DEF Init
<1>1. events \in Seq(AppEvent)
    BY DEF PowerUp
<1>2. MonitorTypes /\ WindowFits
    BY ZeroTypes DEF PowerUp, MonitorTypes, WindowFits
<1>3. PhaseTypes
    BY ZeroTypes DEF PowerUp, PhaseTypes
<1> QED
    BY <1>1, <1>2, <1>3

LEMMA RebootTypes ==
    ASSUME PhaseTypes, Reboot
    PROVE  MonitorTypes' /\ WindowFits' /\ PhaseTypes' /\ events' \in Seq(AppEvent)
<1>1. <<>> \in Seq(AppEvent)
    OBVIOUS
<1> QED
    BY <1>1, ZeroTypes DEF Reboot, MonitorTypes, WindowFits, PhaseTypes

LEMMA NextMonitor ==
    ASSUME MonitorTypes, WindowFits, PhaseTypes, events \in Seq(AppEvent), [Next]_vars
    PROVE  MonitorTypes' /\ WindowFits' /\ PhaseTypes' /\ events' \in Seq(AppEvent)
<1>1. CASE VbatCheck
    <2>1. online \in BOOLEAN
        BY DEF PhaseTypes
    <2>2. UNCHANGED <<phase, app, slow_timer, lowpower_timer, online, chg, boot_cnt>>
        BY <1>1 DEF VbatCheck, SampleMid, WindowLow, WindowWarning, WindowNormal,
           WindowCharging, WindowEnds, Sampling
    <2>3. PhaseTypes'
        BY <2>2 DEF PhaseTypes
    <2> QED
        BY <1>1, <2>1, <2>3, SampleTypes
<1>2. CASE Reboot
    BY <1>2, RebootTypes
<1>3. CASE ~VbatCheck /\ ~Reboot
    BY <1>3, OtherTypes DEF MonitorTypes, WindowFits
<1> QED
    BY <1>1, <1>2, <1>3

(* Every variable keeps its type, for any window, limits and voltages: in    *)
(* particular the static counters of vbat_check never pass their limits, and *)
(* no level is shown below zero.                                             *)
THEOREM MonitorTypeCorrect == Spec => []TypeOK
<1> DEFINE Inv == TimerInv /\ MonitorTypes /\ WindowFits /\ PhaseTypes /\ events \in Seq(AppEvent)
<1>1. Init => Inv
    BY InitTimers, InitMonitor
<1>2. Inv /\ [Next]_vars => Inv'
    BY NextTimers, NextMonitor
<1>3. Inv => TypeOK
    BY TypeParts DEF TimerInv
<1> QED
    BY <1>1, <1>2, <1>3, PTL DEF Spec

-----------------------------------------------------------------------------
(* On battery the slow timer that starts the next window is always there.    *)
THEOREM MonitorKept == Spec => []MonitorRunsOnBattery
<1>1. Init => MonitorRunsOnBattery
    BY DEF Init, PowerUp, MonitorRunsOnBattery
<1>2. MonitorRunsOnBattery /\ [Next]_vars => MonitorRunsOnBattery'
    <2> SUFFICES ASSUME MonitorRunsOnBattery, [Next]_vars PROVE MonitorRunsOnBattery'
        OBVIOUS
    <2> USE DEF MonitorRunsOnBattery
    <2>1. CASE BootStep
        BY <2>1 DEF BootStep, BootSample,
           vbat_check_init
    <2>2. CASE VbatCheck
        BY <2>2, VbatCheckTimers
    <2>3. CASE AddFast \/ StoreFast \/ DelFast \/ vbat_check_slow
        BY <2>3 DEF AddFast, StoreFast, DelFast,
           vbat_check_slow
    <2>4. CASE Ldo5vIn \/ ChargeFull \/ \E shut \in BOOLEAN : Ldo5vOff(shut)
        BY <2>4 DEF Ldo5vIn, ChargeFull, Ldo5vOff,
           vbat_check_init
    <2>5. CASE \E ev \in PowerEvents : PowerEvent(ev)
        BY <2>5 DEF PowerEvent
    <2>6. CASE LowpowerTimer \/ FullDetected \/ \E plugged \in BOOLEAN : Plug(plugged)
        BY <2>6 DEF LowpowerTimer, FullDetected, Plug
    <2>7. CASE Reboot
        BY <2>7 DEF Reboot
    <2>8. CASE UNCHANGED vars
        BY <2>8
    <2> QED
        BY <2>1, <2>2, <2>3, <2>4, <2>5, <2>6, <2>7, <2>8 DEF Next,
           TaskStep
<1> QED
    BY <1>1, <1>2, PTL DEF Spec
=============================================================================
