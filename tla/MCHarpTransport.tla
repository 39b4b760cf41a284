-------------------------- MODULE MCHarpTransport --------------------------
(* Small frames: a header of 2 bytes, frames of 3 and 4, a buffer of 8.    *)
EXTENDS HarpTransport, TLC

CONSTANTS Short, Long

SmallRequests == {Short, Long}
SmallFrames   == Short :> 3 @@ Long :> 4

Each(n, m) == [t \in {"tcp", "cdc"} |-> IF t = "tcp" THEN n ELSE m]
OneEach    == Each(1, 1)
TwoEach    == Each(2, 2)
TwoAndOne  == Each(2, 1)
OneAndTwo  == Each(1, 2)
ThreeEach  == Each(3, 3)
TcpOnly    == Each(2, 0)
=============================================================================
