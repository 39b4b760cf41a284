-------------------------- MODULE MCNetPersistence -------------------------
(* Two settings, one password, two failures of flash, two restarts.        *)
EXTENDS NetPersistence, TLC

Failing == "flash" :> 2 @@ "driver" :> 1 @@ "restart" :> 2
=============================================================================
