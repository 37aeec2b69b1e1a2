--------------------------- MODULE MCPowerManage ---------------------------
(* A small battery for PowerManage: four ADC readings, short windows.        *)
EXTENDS PowerManage
MCVolts == {1, 2, 4}
=============================================================================
