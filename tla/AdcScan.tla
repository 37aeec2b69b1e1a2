------------------------------ MODULE AdcScan -------------------------------
(***************************************************************************)
(* The analogue-to-digital converter (cpu/br28/adc_api.c).                 *)
(*                                                                         *)
(* One converter serves a queue of channels in turn. A timer interrupt of  *)
(* 2 ms, adc_scan, files the last result under the channel it was taken    *)
(* for and starts the next one; the interrupt of the converter, adc_isr,   *)
(* only keeps the result, except for the temperature of the chip, whose    *)
(* two conversions it runs one after the other by calling adc_scan itself. *)
(* The timer may interrupt adc_isr, not the reverse; a task that adds or   *)
(* removes a channel is interrupted by both. A tick that finds the         *)
(* converter at work gives that result up.                                 *)
(*                                                                         *)
(* A result is modelled by the channel it was converted from, so that what *)
(* is filed can be compared with where it is filed.                        *)
(***************************************************************************)
EXTENDS Integers

CONSTANTS
    ADC_MAX_CH,     \* entries of the queue
    Channel,        \* the channels
    Start,          \* the queue when the timer starts: a channel per entry, or Free
    Visitor,        \* the channel a task adds and removes (ntc_det_start, ntc_det_stop)
    MaxLate         \* ticks that may find the converter at work, and resets of it

Slot == 0 .. ADC_MAX_CH - 1

Free == "free"      \* the channel of an entry without one: -1
Unread == "unread"  \* 0xffff: no result yet
One == "one"        \* 1: the value of a channel that was never read

Timed == {"ldoref", "vbat", "dtemp"}    \* the channels with a sample_period
Name == Channel \cup {Free, Unread, One}

ASSUME AdcAssumption ==
    /\ ADC_MAX_CH \in Nat \ {0} /\ MaxLate \in Nat
    /\ Timed \subseteq Channel /\ Channel \cap {Free, Unread, One} = {}
    /\ Start \in [Slot -> (Channel \ {Visitor}) \cup {Free}] /\ Start[0] = "ldoref"
    /\ Visitor \in Channel \ Timed

VARIABLES
    ch,         \* adc_queue[i].ch
    value,      \* adc_queue[i].value
    due,        \* the entries whose period has passed: adc_queue[i].jiffies
    wanted,     \* the entry a reader waits for, at most one, there for Renewed only
    adding,     \* adc_add_sample_ch is between its stores
    cur_ch,     \* the entry served last
    flag,       \* adc_sample_flag: 1 a channel, 2 and 3 the two halves of a temperature
    on,         \* bit 4 of the converter: at work, or its interrupt not served
    conv,       \* the channel it was started for
    res,        \* _adc_res
    isr,        \* adc_isr has cleared the converter and not yet looked at the flag
    vbat_value_array,   \* the results averaged for the battery
    vbg_value_array,    \* and for the reference
    dtemp_adc_res,      \* the first half of a temperature
    dtemp,      \* dtemp_voltage: the two results it is worked out from
    late        \* how often one of these happened

queue == <<ch, value, due, wanted, adding>>
converter == <<on, conv, res>>
average == <<vbat_value_array, vbg_value_array>>
filed == <<value, wanted, average>>
temperature == <<dtemp_adc_res, dtemp>>
scan_vars == <<queue, cur_ch, flag, converter, isr, average, temperature, late>>

(* _adc_init has read the reference, the battery and the temperature. *)
ScanInit ==
    /\ ch = Start /\ adding = FALSE
    /\ value = [i \in Slot |-> IF Start[i] = Free THEN Unread ELSE One]
    /\ due = {} /\ wanted = {}
    /\ cur_ch = 0 /\ flag = 0
    /\ on = FALSE /\ conv = "dtemp" /\ res = Unread
    /\ isr = FALSE
    /\ vbat_value_array = {"vbat"} /\ vbg_value_array = {"ldoref"}
    /\ dtemp_adc_res = Unread /\ dtemp = <<"dtemp", "ldoref">>
    /\ late = 0

-----------------------------------------------------------------------------
(* adc_sample: the old result goes, the converter starts. *)
Sample(c) == on' = TRUE /\ conv' = c /\ res' = Unread

(* adc_get_next_ch: the next entry with a channel, or the first. *)
Later == {i \in Slot : i > cur_ch /\ ch[i] # Free}

(* Mutant: the search begins at the entry served last. *)
IsNextMutant(n) ==
    LET L == Later \cup {cur_ch} IN n \in L /\ \A i \in L : n <= i

IsNext(n) ==
    \/ n \in Later /\ \A i \in Later : n <= i
    \/ n = 0 /\ Later = {}

Due(i) == ch[i] \in Timed => i \in due

(* adc_value_push: an array is the set of what is in it. *)
Pushed(array, own) == IF own THEN array \cup {res} ELSE array

(* Mutant: the entry to be served next is already the present one. *)
FilesMutant ==
    /\ \E n \in Slot :
         /\ IsNext(n)
         /\ value' = [value EXCEPT ![n] = res]
         /\ vbat_value_array' = Pushed(vbat_value_array, ch[n] = "vbat")
         /\ vbg_value_array' = Pushed(vbg_value_array, ch[n] = "ldoref")
    /\ wanted' = wanted \ {cur_ch}

(* The result goes to the entry and, for the battery and the reference, to *)
(* the array that is averaged.                                             *)
Files ==
    /\ value' = [value EXCEPT ![cur_ch] = res]
    /\ vbat_value_array' = Pushed(vbat_value_array, ch[cur_ch] = "vbat")
    /\ vbg_value_array' = Pushed(vbg_value_array, ch[cur_ch] = "ldoref")
    /\ wanted' = wanted \ {cur_ch}

(* dtemp_voltage is worked out from this result and the one before. *)
FilesTemperature ==
    /\ dtemp' = <<dtemp_adc_res, res>>
    /\ wanted' = wanted \ {cur_ch}
    /\ UNCHANGED <<value, average, dtemp_adc_res>>

Starts(n) ==
    /\ Due(n)
    /\ Sample(ch[n]) /\ due' = due \ {n}
    /\ flag' = IF ch[n] = "dtemp" THEN 2 ELSE 1

NotYet(n) == ~Due(n) /\ flag' = 0 /\ UNCHANGED <<converter, due>>

(* adc_scan while the converter is at work: its result is given up. *)
Busy ==
    /\ on
    /\ flag' = 0
    /\ UNCHANGED <<queue, cur_ch, converter, average, temperature>>

(* The first half of a temperature: the reference is converted at once. *)
SecondHalf ==
    /\ ~on /\ flag = 2
    /\ dtemp_adc_res' = res
    /\ flag' = 3 /\ Sample("ldoref")
    /\ UNCHANGED <<queue, cur_ch, average, dtemp>>

MovesOn ==
    /\ ~on /\ flag # 2
    /\ \/ flag = 1 /\ Files /\ UNCHANGED temperature
       \/ flag = 3 /\ FilesTemperature
       \/ flag = 0 /\ UNCHANGED <<filed, temperature>>
    /\ \E n \in Slot : IsNext(n) /\ cur_ch' = n /\ (Starts(n) \/ NotYet(n))
    /\ UNCHANGED <<ch, adding>>

adc_scan == Busy \/ SecondHalf \/ MovesOn

-----------------------------------------------------------------------------
(* The timer. How often it finds the converter at work is bounded. No tick *)
(* comes inside an adc_scan that adc_isr calls.                             *)
Tick ==
    /\ adc_scan
    /\ \/ ~on /\ ~isr /\ UNCHANGED late
       \/ (on \/ isr) /\ late < MaxLate /\ late' = late + 1
    /\ UNCHANGED isr

(* adc_isr up to the clearing of the converter, *)
Takes ==
    /\ on /\ ~isr
    /\ res' = conv /\ on' = FALSE /\ isr' = TRUE
    /\ UNCHANGED <<queue, cur_ch, flag, conv, average, temperature, late>>

(* and its look at the flag. *)
Looks ==
    /\ isr /\ isr' = FALSE
    /\ \/ flag > 1 /\ adc_scan
       \/ flag <= 1 /\ UNCHANGED <<queue, cur_ch, flag, converter, average, temperature>>
    /\ UNCHANGED late

(* The period of an entry passes. *)
Passes(i) ==
    /\ ch[i] \in Timed /\ i \notin due
    /\ due' = due \cup {i}
    /\ UNCHANGED <<ch, value, wanted, adding, cur_ch, flag, converter, isr, average, temperature, late>>

(* A reader finds the value of an entry too old. *)
Asks(i) ==
    /\ ch[i] # Free /\ wanted = {} /\ wanted' = {i}
    /\ UNCHANGED <<ch, value, due, adding, cur_ch, flag, converter, isr, average, temperature, late>>

(* adc_add_sample_ch takes the first free entry. Its channel is stored     *)
(* first, its value after.                                                 *)
AddBegins ==
    /\ ~adding /\ \A i \in Slot : ch[i] # Visitor
    /\ \E i \in Slot :
         /\ ch[i] = Free /\ \A j \in Slot : ch[j] = Free => i <= j
         /\ ch' = [ch EXCEPT ![i] = Visitor]
    /\ adding' = TRUE
    /\ UNCHANGED <<value, due, wanted, cur_ch, flag, converter, isr, average, temperature, late>>

AddEnds ==
    /\ adding /\ adding' = FALSE
    /\ value' = [i \in Slot |-> IF ch[i] = Visitor THEN One ELSE value[i]]
    /\ UNCHANGED <<ch, due, wanted, cur_ch, flag, converter, isr, average, temperature, late>>

adc_remove_sample_ch ==
    /\ ~adding
    /\ \E i \in Slot :
         /\ ch[i] = Visitor
         /\ ch' = [ch EXCEPT ![i] = Free]
         /\ wanted' = wanted \ {i}
    /\ UNCHANGED <<value, due, adding, cur_ch, flag, converter, isr, average, temperature, late>>

(* The averages begin again, with interrupts off; what was going on is lost. *)
adc_reset ==
    /\ ~isr /\ late < MaxLate /\ late' = late + 1
    /\ on' = FALSE /\ conv' = "vbat" /\ res' = Unread
    /\ vbg_value_array' = {"ldoref"} /\ vbat_value_array' = {"vbat"}
    /\ cur_ch' = 0 /\ flag' = 0
    /\ UNCHANGED <<queue, isr, temperature>>

ScanNext ==
    \/ Tick \/ Takes \/ Looks
    \/ \E i \in Slot : Passes(i) \/ Asks(i)
    \/ AddBegins \/ AddEnds \/ adc_remove_sample_ch \/ adc_reset

(* The timer ticks, the interrupts of the converter are served, time       *)
(* passes and a task that has begun to add a channel ends.                 *)
ScanFairness ==
    /\ WF_scan_vars(Tick) /\ WF_scan_vars(Takes) /\ WF_scan_vars(Looks) /\ WF_scan_vars(AddEnds)
    /\ \A i \in Slot : WF_scan_vars(Passes(i))
ScanSpec == ScanInit /\ [][ScanNext]_scan_vars /\ ScanFairness

-----------------------------------------------------------------------------
ScanTypeOK ==
    /\ ch \in [Slot -> Name] /\ value \in [Slot -> Name]
    /\ due \subseteq Slot /\ wanted \subseteq Slot
    /\ adding \in BOOLEAN /\ on \in BOOLEAN /\ isr \in BOOLEAN
    /\ cur_ch \in Slot /\ flag \in 0 .. 3 /\ late \in 0 .. MaxLate
    /\ conv \in Name /\ res \in Name
    /\ dtemp_adc_res \in Name

(* What a reader is given for a channel was converted from that channel:   *)
(* never another channel's result and never the 0xffff of a conversion     *)
(* still going on, however late an interrupt comes, wherever the timer     *)
(* interrupts the other interrupt, and while a channel comes and goes.     *)
FiledRight ==
    /\ \A i \in Slot : ch[i] # Free /\ ~(adding /\ ch[i] = Visitor) => value[i] \in {One, ch[i]}
    /\ vbat_value_array = {"vbat"} /\ vbg_value_array = {"ldoref"}
    /\ dtemp = <<"dtemp", "ldoref">>

(* Every channel is read again and again, the temperature with its two     *)
(* conversions included, though a late interrupt loses a result.           *)
Renewed == wanted # {} ~> wanted = {}
=============================================================================
