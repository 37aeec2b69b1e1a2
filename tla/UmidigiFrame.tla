----------------------------- MODULE UmidigiFrame -----------------------------
(***************************************************************************)
(* The commands of the UMIDIGI case on the wire                            *)
(* (cpu/br28/umidigi_chargestore.c).                                       *)
(*                                                                         *)
(* The line is high. The case sends fifteen bits, bit 14 first: a start    *)
(* bit 0, four bits of command, eight of data, one of parity, a stop bit 0.*)
(* A falling edge starts a timer that samples the line ten times a bit;    *)
(* get_port_status turns runs of equal samples into bits. All its counters *)
(* are bytes and are kept from one frame to the next.                      *)
(*                                                                         *)
(* A message is the set of the bits that are 1. One step is one sample:    *)
(* the line may have changed a little early or late, and a sample amid a   *)
(* run may read wrongly.                                                   *)
(***************************************************************************)
EXTENDS Integers, Sequences, FiniteSets

CONSTANTS
    Timer2CMessage,  \* TIMER2CMESSAGE: milliseconds of a bit, 20 or 40
    Frames,          \* what the case may send
    Early, Late,     \* samples by which an edge of the line may come early, or late
    MaxWrong,        \* bound: samples read wrongly in a frame
    MaxSpikes        \* bound: falling edges without a frame

Frame == {m \in SUBSET (1..13) : Cardinality(m) % 2 = 1}

ASSUME FrameAssumption ==
    /\ Timer2CMessage \in {20, 40} /\ Frames \subseteq Frame
    /\ Early \in 0..4 /\ Late \in 0..4 /\ MaxWrong \in Nat /\ MaxSpikes \in Nat

BitSamples == Timer2CMessage \div (Timer2CMessage \div 10)

VARIABLES
    frame, pos, left, late,     \* what is sent; the bit on the line (0: none),
                                \* its samples left, and how late its end comes
    wrong, spikes,              \* how often it has happened (bounded)
    clean,          \* the frame found the timer free
    heard,          \* the messages handed over since it began
    timer_handle, message,
    keep_cnt, change_cnt, timeout_cnt, pre_status, message_index

line == <<frame, pos, left, late>>
counters == <<keep_cnt, change_cnt, timeout_cnt, pre_status, message_index>>
frame_vars == <<line, wrong, spikes, clean, heard, timer_handle, message, counters>>

Byte == 0..255

FrameTypeOK ==
    /\ frame \in Frames \cup {{}} /\ pos \in 0..15 /\ left \in 0..BitSamples + Early + Late
    /\ late \in -Early..Late /\ wrong \in 0..MaxWrong /\ spikes \in 0..MaxSpikes
    /\ clean \in BOOLEAN /\ heard \in Seq(SUBSET (0..14))
    /\ timer_handle \in BOOLEAN /\ message \subseteq 0..14
    /\ keep_cnt \in Byte /\ change_cnt \in 0..2 /\ timeout_cnt \in Byte
    /\ pre_status \in {0, 1} /\ message_index \in 0..14

Level == IF pos = 0 \/ 15 - pos \in frame THEN 1 ELSE 0

-----------------------------------------------------------------------------
(* The case and the line. *)

(* How late the bit that begins ends: where the next bit is the same, there *)
(* is no edge.                                                             *)
Bit(m, p) == p > 15 \/ 15 - p \in m
Displaced == late' \in IF Bit(frame', pos' + 1) = Bit(frame', pos') THEN {0} ELSE {-Early, 0, Late}

(* A frame may begin while the timer runs for a spike (bound: not while it  *)
(* still runs for the frame before).                                       *)
Begin ==
    /\ pos = 0 /\ (timer_handle => frame = {}) /\ frame' \in Frames
    /\ pos' = 1 /\ Displaced /\ left' = BitSamples + late'
    /\ wrong' = 0 /\ clean' = ~timer_handle /\ heard' = <<>>
    /\ timer_handle' = TRUE /\ message' = IF timer_handle THEN message ELSE {}
    /\ UNCHANGED <<spikes, counters>>

(* Too short for a sample. *)
Spike ==
    /\ pos = 0 /\ ~timer_handle /\ spikes < MaxSpikes
    /\ spikes' = spikes + 1
    /\ frame' = {} /\ wrong' = 0 /\ clean' = FALSE /\ heard' = <<>>
    /\ timer_handle' = TRUE /\ message' = {}
    /\ UNCHANGED <<pos, left, late, counters>>

Advances ==
    IF pos = 0 THEN UNCHANGED line
    ELSE IF left > 1 THEN left' = left - 1 /\ UNCHANGED <<frame, pos, late>>
    ELSE IF pos = 15 THEN pos' = 0 /\ left' = 0 /\ late' = 0 /\ UNCHANGED frame
    ELSE pos' = pos + 1 /\ UNCHANGED frame /\ Displaced /\ left' = BitSamples + late' - late

-----------------------------------------------------------------------------
(* get_port_status *)

(* Mutant: the frame is given twice its length; the byte does not reach it. *)
TimedOutMutant == (timeout_cnt + 1) % 256 >= Timer2CMessage * 16

TimedOut == (timeout_cnt + 1) % 256 >= (Timer2CMessage * 16) \div 2

(* The line has been at another level for three samples. *)
Turns(port) == port # pre_status /\ change_cnt = 2

(* keep_cnt with this sample, and the bits it makes: a run counts for a    *)
(* bit from its half on.                                                   *)
Kept == (keep_cnt + 1) % 256

Bits(kept) == (kept + 5) \div 10

(* A 1 beyond the fifteenth bit is shifted out of the message. *)
WithRun ==
    message \cup {i \in 0..14 : pre_status = 1 /\ 14 - i \in message_index..message_index + Bits(Kept) - 1}

Complete(port) == Turns(port) /\ message_index + Bits(Kept) >= 15

(* crc_odd_check *)
Valid(m) ==
    /\ {0, 14} \cap m = {}
    /\ 1 \in m <=> Cardinality(m \cap 2..13) % 2 = 0

Ends(port) == TimedOut \/ Complete(port)

HandsOver(port) ==
    heard' = IF ~TimedOut /\ Complete(port) /\ Valid(WithRun) THEN Append(heard, WithRun) ELSE heard

(* Mutant: the time-out leaves the number of bits as it is. *)
CountsMutant(port) ==
    IF Ends(port)
      THEN keep_cnt' = 0 /\ change_cnt' = 0 /\ timeout_cnt' = 0 /\ pre_status' = 0
           /\ message_index' = IF TimedOut THEN message_index ELSE 0
    ELSE IF Turns(port)
      THEN /\ keep_cnt' = 0 /\ change_cnt' = 0 /\ timeout_cnt' = 0 /\ pre_status' = port
           /\ message_index' = message_index + Bits(Kept)
      ELSE /\ keep_cnt' = Kept /\ timeout_cnt' = (timeout_cnt + 1) % 256
           /\ change_cnt' = IF port = pre_status THEN 0 ELSE change_cnt + 1
           /\ UNCHANGED <<pre_status, message_index>>

Counts(port) ==
    IF Ends(port)
      THEN keep_cnt' = 0 /\ change_cnt' = 0 /\ timeout_cnt' = 0 /\ pre_status' = 0 /\ message_index' = 0
    ELSE IF Turns(port)
      THEN /\ keep_cnt' = 0 /\ change_cnt' = 0 /\ timeout_cnt' = 0 /\ pre_status' = port
           /\ message_index' = message_index + Bits(Kept)
      ELSE /\ keep_cnt' = Kept /\ timeout_cnt' = (timeout_cnt + 1) % 256
           /\ change_cnt' = IF port = pre_status THEN 0 ELSE change_cnt + 1
           /\ UNCHANGED <<pre_status, message_index>>

(* What the timer makes of a sample; a falling edge may follow at once     *)
(* (ldo_port_wakeup_to_cmessage).                                          *)
Falls == Level = 1 /\ Level' = 0

Samples(port) ==
    /\ HandsOver(port) /\ Counts(port)
    /\ timer_handle' = (~Ends(port) \/ Falls)
    /\ message' = IF Ends(port) /\ (Falls \/ ~TimedOut) THEN {}
                  ELSE IF Turns(port) /\ ~TimedOut THEN WithRun ELSE message

Tick ==
    /\ pos # 0 \/ timer_handle
    /\ Advances
    /\ \/ ~timer_handle /\ timer_handle' = Falls /\ message' = (IF Falls THEN {} ELSE message)
          /\ UNCHANGED <<counters, heard, wrong>>
       \/ timer_handle /\ Samples(Level) /\ UNCHANGED wrong
       \/ /\ timer_handle /\ pos # 0 /\ Level = pre_status /\ Level' = Level
          /\ wrong < MaxWrong /\ wrong' = wrong + 1 /\ Samples(1 - Level)
    /\ UNCHANGED <<spikes, clean>>

FrameInit ==
    /\ frame = {} /\ pos = 0 /\ left = 0 /\ late = 0
    /\ wrong = 0 /\ spikes = 0 /\ clean = FALSE /\ heard = <<>>
    /\ timer_handle = FALSE /\ message = {}
    /\ keep_cnt = 0 /\ change_cnt = 0 /\ timeout_cnt = 0 /\ pre_status = 0 /\ message_index = 0

FrameNext == Begin \/ Spike \/ Tick

FrameSpec == FrameInit /\ [][FrameNext]_frame_vars /\ WF_frame_vars(Tick)

-----------------------------------------------------------------------------
(* A frame that found the timer free is handed over, as it was sent and    *)
(* once, whatever its bits, with edges that come late or early and a       *)
(* sample amid a run that is read wrongly: what came before leaves no trace. *)
HeardAsSent == pos = 0 /\ ~timer_handle /\ clean => heard = <<frame>>

(* umidigi_chargestore.c:72: data that stops is timed out. A timer that    *)
(* has been started does not run for ever: while it runs the bud does not  *)
(* see where a frame begins.                                               *)
TimerEnds == timer_handle ~> ~timer_handle
=============================================================================
