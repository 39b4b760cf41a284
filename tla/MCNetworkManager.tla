-------------------------- MODULE MCNetworkManager --------------------------
(* NetworkManager for TLC: budgets of the runs and the symmetry of the     *)
(* descriptors and configurations (safety run only).                       *)
EXTENDS NetworkManager, TLC

B(apply, clear, link, peer, refuse, drv) ==
  [k \in EnvKinds |->
     CASE k = "apply"  -> apply
       [] k = "clear"  -> clear
       [] k = "link"   -> link
       [] k = "peer"   -> peer
       [] k = "refuse" -> refuse
       [] k = "driver" -> drv]

\*                   apply clear link peer refuse driver
SafetyBudget     == B(2,    1,    1,   1,   0,     1)
FairBudget       == B(1,    1,    1,   1,   1,     0)
FlagBudget       == B(1,    0,    1,   0,   0,     0)
PursuedBudget    == B(1,    1,    0,   0,   0,     0)

FdSymmetry == Permutations(Fd) \cup Permutations(TcpCfg)
=============================================================================
