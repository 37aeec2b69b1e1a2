----------------------------- MODULE AudioClock -----------------------------
(***************************************************************************)
(* The system clock the audio decoders ask for                             *)
(* (cpu/br28/audio_codec_clock.c), in MHz.                                 *)
(*                                                                         *)
(* Each mode in use has an entry in one list: modes in the foreground at   *)
(* its front, the newest first, modes in the background (voice trigger,    *)
(* spatial audio) at its end. The clock is that of the first entry; a mode *)
(* in the background is added to the clock of every entry there is.        *)
(* A foreground mode either stops the others (preemption): the decoder     *)
(* task has made them give up their entries by then. Or it plays over them.*)
(***************************************************************************)
EXTENDS Integers, Sequences, FiniteSetsExt, SequencesExt

CONSTANTS
    Foreground, Background,     \* the modes
    Overlaying,     \* the foreground modes that may play over others
    Clock,          \* audio_clock: the clocks a mode has, by coding; 0: as it is
    Base,           \* AUDIO_CODEC_BASE_CLK
    Boot,           \* the clock before the first mode
    Headroom, Overlay,          \* 12 MHz and 32 MHz more
    Enough,         \* 192 MHz: with as much nothing is checked
    Checked,        \* the background modes whose task asks for the check
    MaxClock        \* bound: clocks beyond it are not explored

Mode == Foreground \cup Background

ASSUME AudioClockAssumption ==
    /\ Foreground \cap Background = {} /\ Overlaying \subseteq Foreground
    /\ Clock \in [Mode -> SUBSET Nat] /\ \A m \in Background : 0 \notin Clock[m]
    /\ Base \in Nat /\ Boot \in Nat /\ Base <= Boot
    /\ Headroom \in Nat /\ Overlay \in Nat /\ MaxClock \in Nat
    /\ Enough \in Nat /\ Checked \subseteq Background

VARIABLES
    codec_clock_head,   \* the list
    sys                 \* the clock set last

clock_vars == <<codec_clock_head, sys>>

(* own is for the properties: what the mode itself was given. *)
Entry == [mode : Mode, clk : Int, own : Nat]

Entries == {codec_clock_head[i] : i \in DOMAIN codec_clock_head}
IsBackground(e) == e.mode \in Background
InBackground == {e \in Entries : IsBackground(e)}
Exists(m) == \E e \in Entries : e.mode = m

ClockTypeOK ==
    /\ codec_clock_head \in Seq(Entry) /\ sys \in Int
    /\ \A i, j \in DOMAIN codec_clock_head :
         codec_clock_head[i].mode = codec_clock_head[j].mode => i = j
    /\ \A i, j \in DOMAIN codec_clock_head :
         IsBackground(codec_clock_head[i]) /\ i < j => IsBackground(codec_clock_head[j])

ClockInit == codec_clock_head = <<>> /\ sys = Boot

-----------------------------------------------------------------------------
SumOf(field, entries) == MapThenSumSet(LAMBDA e : e[field], entries)

(* audio_codec_background_clock *)
BackgroundClock == SumOf("clk", InBackground)

(* Mutant: only the first entry is changed. *)
ShiftedMutant(list, d) ==
    [i \in DOMAIN list |-> IF i = 1 THEN [list[i] EXCEPT !.clk = @ + d] ELSE list[i]]

(* audio_codec_background_clock_add and _del: every entry, by d *)
Shifted(list, d) == [i \in DOMAIN list |-> [list[i] EXCEPT !.clk = @ + d]]

(* The clock of a new foreground mode of which clock c was asked. *)
Needed(c) == (IF c # 0 THEN c ELSE sys) + BackgroundClock

(* Mutant: a mode that plays over others takes the clock it needs. *)
OverMutant(n) == n

(* ... and if it plays over the mode in front: never less than that one's. *)
Over(n) ==
    LET first == Head(codec_clock_head)
    IN  IF codec_clock_head = <<>> \/ IsBackground(first) THEN n
        ELSE IF n <= first.clk THEN first.clk + Headroom ELSE n + Overlay

(* audio_codec_clock_set for a foreground mode. If the mode has an entry   *)
(* nothing is done.                                                        *)
SetForeground(m, c, preemption) ==
    LET new_clk == IF preemption THEN Needed(c) ELSE Over(Needed(c))
    IN  /\ ~Exists(m) /\ new_clk <= MaxClock
        /\ codec_clock_head' =
             <<[mode |-> m, clk |-> new_clk, own |-> new_clk - BackgroundClock]>>
               \o codec_clock_head
        /\ sys' = new_clk

(* ... and for one in the background *)
SetBackground(m, c) ==
    LET list == Shifted(codec_clock_head, c)
    IN  /\ ~Exists(m)
        /\ sys' = IF list = <<>> THEN c + Headroom ELSE Head(list).clk
        /\ codec_clock_head' =
             Append(list, [mode |-> m, clk |-> c, own |-> c])

(* audio_codec_clock_del: the clock of the entry that is first now, but    *)
(* not below Base; without any the clock stays unless it would be more     *)
(* than Base without the mode that ended.                                  *)
Del(m) ==
    /\ Exists(m)
    /\ LET place == CHOOSE i \in DOMAIN codec_clock_head : codec_clock_head[i].mode = m
           gone == codec_clock_head[place]
           removed == IF IsBackground(gone) THEN gone.clk ELSE 0
           list == Shifted(RemoveAt(codec_clock_head, place), -removed)
           next == IF list = <<>> THEN sys - removed ELSE Head(list).clk
       IN  /\ codec_clock_head' = list
           /\ sys' = IF next >= Base THEN next ELSE IF list = <<>> THEN sys ELSE Base

Set(m) == \E c \in Clock[m] :
    \/ m \in Foreground /\ Entries = InBackground /\ SetForeground(m, c, TRUE)
    \/ m \in Overlaying /\ SetForeground(m, c, FALSE)
    \/ m \in Background /\ SetBackground(m, c)

(* Mutant: the check does not know of the Headroom. *)
ExpectedMutant == Head(codec_clock_head).clk

(* audio_codec_clock_check, which app_core calls for the voice trigger     *)
Expected ==
    LET first == Head(codec_clock_head)
    IN  IF IsBackground(first) THEN first.clk + Headroom ELSE first.clk

Check ==
    /\ codec_clock_head # <<>>
    /\ sys < Enough /\ sys < Expected
    /\ sys' = Expected
    /\ UNCHANGED codec_clock_head

ClockNext == Check \/ \E m \in Mode : Set(m) \/ Del(m)

(* While the voice trigger is in use its task asks for the check again and again. *)
ClockSpec == ClockInit /\ [][ClockNext]_clock_vars
               /\ WF_clock_vars(\E m \in Checked : Exists(m) /\ Check)

-----------------------------------------------------------------------------
(* What runs in the background needs in all. *)
Total == SumOf("own", InBackground)

(* audio_codec_clock.c:234: with a mode in the background the clock is the *)
(* sum of foreground and background, for every entry whenever it was set   *)
(* and whatever came and went in between.                                  *)
SumOfBoth == \A e \in Entries \ InBackground : e.clk = e.own + Total

(* audio_codec_clock.c:255: what plays over something never gets less      *)
(* clock than that. So no mode in use, in the foreground or the background,*)
(* ever has less than it was given.                                        *)
EnoughForAll ==
    \A e \in Entries : sys >= IF IsBackground(e) THEN e.own ELSE e.own + Total

(* audio_codec_clock.c:241: what runs in the background alone is close to  *)
(* its limit and gets Headroom more. The check brings it about in the end. *)
Alone == Entries # {} /\ Entries = InBackground
HeadroomComes == <>[]Alone => <>[](sys >= Total + Headroom)
=============================================================================
