----------------------------- MODULE MCAdcScan ------------------------------
(* The reference, the battery, the temperature, an analogue key and the    *)
(* thermistor of the battery, which comes and goes, in six entries.        *)
EXTENDS AdcScan

MCStart == [i \in Slot |-> CASE i = 0 -> "ldoref"
                             [] i = 1 -> "vbat"
                             [] i = 2 -> "dtemp"
                             [] i = 3 -> "key"
                             [] OTHER -> Free]
=============================================================================
