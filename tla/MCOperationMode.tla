-------------------------- MODULE MCOperationMode --------------------------
(* Half-second ticks: one second is 2, three seconds are 6.                *)
EXTENDS OperationMode

\* a packet that agrees, and moves longer than any interval
EarlyAndLate == {-9, 0, 9}
AllModes     == {"STANDBY", "ACTIVE", "RESERVED", "SPEED"}
=============================================================================
