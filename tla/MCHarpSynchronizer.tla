------------------------- MODULE MCHarpSynchronizer -------------------------
(* Bytes of two bits, seconds of seven ticks; a host that asks for time 5. *)
EXTENDS HarpSynchronizer

Asked == {Split(5)}
=============================================================================
