----------------------------- MODULE MCPowerOff -----------------------------
(* PowerOff on two buds; the values of the constants are in the .cfg files. *)
EXTENDS PowerOff

CONSTANTS L, R

Buds == {L, R}
OneBud == {L}
OtherBud == {R}
Strong == {FALSE}
AnyBattery == {TRUE, FALSE}
=============================================================================
