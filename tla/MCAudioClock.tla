---------------------------- MODULE MCAudioClock ----------------------------
(* AudioClock with the clocks of the modes of a headset (MHz). *)
EXTENDS AudioClock

ModeClock == [m \in Mode |->
    CASE m = "a2dp" -> {32, 48} [] m = "esco" -> {0, 76} [] m = "tone" -> {0, 64}
      [] m = "voice" -> {32} [] m = "spatial" -> {120}]
=============================================================================
