-------------------------- MODULE SocketLifecycle --------------------------
(***************************************************************************)
(* What network_manager.cpp promises of the descriptors that pass through  *)
(* s_tcp_sock: a descriptor is opened privately, published once, retired   *)
(* by whoever takes it back, and closed exactly once, by its owner; a new  *)
(* one is opened only while none is published.                             *)
(***************************************************************************)
CONSTANTS Fd, NoFd

VARIABLES
  open,       \* descriptors the stack has open
  fresh,      \* opened but not yet published, or NoFd
  published,  \* visible to every task, or NoFd
  retired     \* taken back, not yet closed

vars == <<open, fresh, published, retired>>

Init == open = {} /\ fresh = NoFd /\ published = NoFd /\ retired = {}

Open(f) ==
  /\ f \notin open /\ fresh = NoFd /\ published = NoFd
  /\ open' = open \union {f}
  /\ fresh' = f
  /\ UNCHANGED <<published, retired>>

Publish ==
  /\ fresh # NoFd /\ published = NoFd
  /\ published' = fresh
  /\ fresh' = NoFd
  /\ UNCHANGED <<open, retired>>

Discard ==
  /\ fresh # NoFd
  /\ open' = open \ {fresh}
  /\ fresh' = NoFd
  /\ UNCHANGED <<published, retired>>

Retire ==
  /\ published # NoFd
  /\ retired' = retired \union {published}
  /\ published' = NoFd
  /\ UNCHANGED <<open, fresh>>

Close(f) ==
  /\ f \in retired
  /\ open' = open \ {f}
  /\ retired' = retired \ {f}
  /\ UNCHANGED <<fresh, published>>

Next == \/ \E f \in Fd : Open(f) \/ Close(f)
        \/ Publish \/ Discard \/ Retire

Spec == Init /\ [][Next]_vars

\* what is taken back is closed, what is opened is published or discarded
FairSpec ==
  /\ Spec
  /\ \A f \in Fd : WF_vars(Close(f))
  /\ WF_vars(Publish \/ Discard)
=============================================================================
