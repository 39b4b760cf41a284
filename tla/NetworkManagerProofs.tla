------------------------ MODULE NetworkManagerProofs ------------------------
(* Theorems about NetworkManager, for every value of its constants.        *)
EXTENDS NetworkManager, SequenceTheorems, TLAPS

\* A statement that several functions share, executed by task t; a plain one
\* leaves the descriptors alone.
Plain(t, from, to) ==
  \/ SetTcp(t, from, to, TRUE) \/ SetTcp(t, from, to, FALSE)
  \/ SetPending(t, from, to, TRUE) \/ SetPending(t, from, to, FALSE)
  \/ SetEnabled(t, from, to, TRUE) \/ SetEnabled(t, from, to, FALSE)
  \/ SetNext(t, from, to, "past") \/ SetNext(t, from, to, "future")
  \/ Notify(t, from, to) \/ WifiConnect(t, from, to)
  \/ WifiError(t, from, to) \/ WifiDisconnect(t, from, to)
Shared(t, from, to) == Exchange(t, from, to) \/ Close(t, from, to) \/ Plain(t, from, to)

-----------------------------------------------------------------------------
(* Type correctness.                                                       *)

\* Shared statements keep the data typed.
LEMMA SharedData ==
  ASSUME DataOK, NEW t \in Task, NEW from, NEW to, Shared(t, from, to)
  PROVE  DataOK'
<1> USE DEF DataOK, flags, policy, command, locals, driver, fds, sockets
<1>1. CASE Exchange(t, from, to)
  BY <1>1 DEF Exchange
<1>2. CASE Close(t, from, to)
  BY <1>2 DEF Close, Nowhere
<1>3. ASSUME NEW b \in BOOLEAN, SetTcp(t, from, to, b) PROVE DataOK'
  BY <1>3 DEF SetTcp
<1>4. ASSUME NEW b \in BOOLEAN, SetPending(t, from, to, b) PROVE DataOK'
  BY <1>4 DEF SetPending
<1>5. ASSUME NEW b \in BOOLEAN, SetEnabled(t, from, to, b) PROVE DataOK'
  BY <1>5 DEF SetEnabled
<1>6. ASSUME NEW w \in {"past", "future"}, SetNext(t, from, to, w) PROVE DataOK'
  BY <1>6 DEF SetNext
<1>7. CASE Notify(t, from, to)
  BY <1>7 DEF Notify
<1>8. CASE WifiConnect(t, from, to)
  BY <1>8 DEF WifiConnect
<1>9. CASE WifiError(t, from, to)
  BY <1>9 DEF WifiError, Spend, EnvKinds
<1>10. CASE WifiDisconnect(t, from, to)
  <2>1. \A e \in Event : Append(events, e) \in Seq(Event)
    BY AppendProperties
  <2>2. events' \in Seq(Event)
    <3>1. events' = events \/ events' = Append(events, "disconnected")
      BY <1>10 DEF WifiDisconnect
    <3>2. "disconnected" \in Event /\ events \in Seq(Event)
      BY DEF Event
    <3> QED BY <2>1, <3>1, <3>2
  <2> QED BY <1>10, <2>2 DEF WifiDisconnect
<1> QED BY <1>1, <1>2, <1>3, <1>4, <1>5, <1>6, <1>7, <1>8, <1>9, <1>10 DEF Shared, Plain

\* A task that moves to one of its own statements keeps the control typed; the
\* two statements that use io are reached by TcpLoad only.
LEMMA MoveTyped ==
  ASSUME ControlOK, NEW t \in Task, NEW from, NEW to, Go(t, from, to),
         \/ t = "core" /\ to \in CorePc \ {"recv", "send"}
         \/ t = "net" /\ to \in NetPc /\ io' = io
         \/ t = "evt" /\ to \in EvtPc /\ io' = io
  PROVE  ControlOK'
<1>1. pc' \in [Task -> CorePc \union NetPc \union EvtPc]
  BY DEF ControlOK, Go, Task
<1>2. pc'["core"] \in CorePc /\ pc'["net"] \in NetPc /\ pc'["evt"] \in EvtPc
  BY DEF ControlOK, Go, Task
<1>3. pc'["core"] \in {"recv", "send"} => io' \in Fd
  BY DEF ControlOK, Go, Task
<1> QED BY <1>1, <1>2, <1>3 DEF ControlOK

\* Shared statements keep the types in every task that executes them.
LEMMA SharedTyped ==
  ASSUME TypeOK, NEW t \in Task, NEW from, NEW to, Shared(t, from, to),
         \/ t = "core" /\ to \in CorePc \ {"recv", "send"}
         \/ t = "net" /\ to \in NetPc
         \/ t = "evt" /\ to \in EvtPc
  PROVE  TypeOK'
<1>1. Go(t, from, to) /\ io' = io
  BY DEF Shared, Plain, Exchange, Close, SetTcp, SetPending, SetEnabled, SetNext, Notify,
         WifiConnect, WifiError, WifiDisconnect, locals
<1> QED BY <1>1, SharedData, MoveTyped DEF TypeOK

\* schedule_tcp_reconnect() keeps the types, for each of its two callers.
LEMMA ScheduleTyped ==
  ASSUME TypeOK, NEW t \in {"core", "net"}, NEW done,
         t = "core" => done = "idle", t = "net" => done = "n_top",
         Schedule(t, done)
  PROVE  TypeOK'
<1> t \in Task BY DEF Task
<1>1. CASE ScheduleCheck(t, done)
  <2>1. Go(t, "s_check", IF ScheduleAllowed THEN "s_next" ELSE done) /\ io' = io
    BY <1>1 DEF ScheduleCheck, locals
  <2>2. ControlOK'
    BY <2>1, MoveTyped DEF TypeOK, CorePc, NetPc
  <2>3. DataOK'
    BY <1>1 DEF ScheduleCheck, TypeOK, DataOK, flags, policy, command, locals, driver, fds, sockets
  <2> QED BY <2>2, <2>3 DEF TypeOK
<1>2. CASE \E from, to : Shared(t, from, to) /\ to \in {"s_pending", "s_notify", done}
  BY <1>2, SharedTyped DEF CorePc, NetPc
<1> QED BY <1>1, <1>2 DEF Schedule, Shared, Plain

\* Every step of the Harp task keeps the types.
LEMMA CoreTyped ==
  ASSUME TypeOK, CoreCall \/ TcpRead \/ CoreStep
  PROVE  TypeOK'
<1>1. ASSUME NEW from, NEW to \in CorePc \ {"recv", "send"}, Shared("core", from, to)
      PROVE  TypeOK'
  BY <1>1, SharedTyped DEF Task
<1>2. CASE Schedule("core", "idle")
  BY <1>2, ScheduleTyped
<1>3. CASE ApplyWifiOff \/ ApplyPort \/ ApplyCommand \/ Disconnect \/ \E c \in Cfg : Apply(c)
  <2> USE DEF ApplyWifiOff, ApplyPort, ApplyCommand, Disconnect, Apply, TypeOK
  <2>1. \E from, to : Go("core", from, to) /\ to \in CorePc \ {"recv", "send"}
    BY <1>3 DEF CorePc
  <2>2. ControlOK'
    BY <2>1, MoveTyped DEF Task
  <2>3. s_cfg' \in [ip : Cfg \union {NoCfg}, port : Cfg \union {NoCfg}]
    BY <1>3 DEF DataOK, command
  <2>4. left' \in [EnvKinds -> Nat]
    BY <1>3 DEF DataOK, Spend, EnvKinds
  <2>5. /\ s_cmd' \in {"APPLY", "DISCONNECT"} /\ s_reconnect_enabled' \in BOOLEAN
        /\ UNCHANGED <<s_reconnect_pending, s_next_reconnect>>
    BY <1>3 DEF DataOK, policy, command
  <2>6. UNCHANGED <<flags, notify, locals, driver, fds>>
    BY <1>3
  <2>7. DataOK'
    BY <2>3, <2>4, <2>5, <2>6 DEF DataOK, flags, locals, driver, fds, sockets
  <2> QED BY <2>2, <2>7
<1>4. ASSUME NEW op \in {"recv", "send"}, TcpLoad(op) PROVE TypeOK'
  <2>1. DataOK'
    BY <1>4 DEF TcpLoad, TypeOK, DataOK, flags, policy, command, driver, fds, sockets
  <2>2. pc' = [pc EXCEPT !["core"] = op] /\ io' \in Fd
    BY <1>4 DEF TcpLoad, Go, TypeOK, DataOK
  <2>3. ControlOK'
    BY <2>2 DEF TypeOK, ControlOK, Task, CorePc
  <2> QED BY <2>1, <2>3 DEF TypeOK
<1>5. ASSUME NEW op \in {"recv", "send"}, IoOk(op) \/ IoFail(op) PROVE TypeOK'
  <2>1. DataOK'
    BY <1>5 DEF IoOk, IoFail, TypeOK, DataOK, flags, policy, command, driver, fds, sockets
  <2>2. \E to \in {"idle", "io_take"} : Go("core", op, to)
    BY <1>5 DEF IoOk, IoFail
  <2>3. ControlOK'
    BY <2>2, MoveTyped DEF Task, CorePc, TypeOK
  <2> QED BY <2>1, <2>3 DEF TypeOK
<1>6. {"off_next", "idle", "ap_pending", "ap_next", "ap_disc", "ap_conn", "ap_cmd",
       "dc_pending", "dc_next", "dc_notify", "io_close", "io_flag", "s_check"}
        \subseteq CorePc \ {"recv", "send"}
  BY DEF CorePc
<1>7. ASSUME ApplyStep PROVE TypeOK'
  BY <1>1, <1>3, <1>6, <1>7 DEF ApplyStep, Shared, Plain
<1>8. ASSUME DisconnectStep PROVE TypeOK'
  BY <1>1, <1>6, <1>8 DEF DisconnectStep, Shared, Plain
<1>9. ASSUME IoStep PROVE TypeOK'
  BY <1>1, <1>2, <1>5, <1>6, <1>9 DEF IoStep, Shared, Plain
<1> QED BY <1>3, <1>4, <1>7, <1>8, <1>9 DEF CoreCall, TcpRead, CoreStep

\* Every step of network_task() keeps the types.
LEMMA NetTyped ==
  ASSUME TypeOK, NetStep
  PROVE  TypeOK'
<1>1. ASSUME NEW from, NEW to \in NetPc, Shared("net", from, to)
      PROVE  TypeOK'
  BY <1>1, SharedTyped DEF Task
<1>2. CASE Schedule("net", "n_top")
  BY <1>2, ScheduleTyped
<1>3. CASE NetTop \/ NetWake \/ NetCmd \/ NetReady \/ NetDue \/ NetPort \/ NetOpenFails
           \/ NetConnects \/ NetConnectFails \/ NetStore \/ \E f \in Fd : NetOpen(f)
  <2> USE DEF NetTop, NetWake, NetCmd, NetReady, NetDue, NetPort, NetOpenFails,
              NetConnects, NetConnectFails, NetStore, NetOpen
  <2>1. \E from, to : Go("net", from, to) /\ to \in NetPc
    BY <1>3 DEF NetPc
  <2>2. io' = io
    BY <1>3 DEF locals
  <2>3. ControlOK'
    BY <2>1, <2>2, MoveTyped DEF Task, TypeOK
  <2>4. left' \in [EnvKinds -> Nat]
    BY <1>3, SMTT(30) DEF TypeOK, DataOK, Spend, EnvKinds
  <2>5. own' \in [Task -> Fd \union {NoFd}] /\ s_tcp_sock' \in Fd \union {NoFd}
    BY <1>3 DEF TypeOK, DataOK, fds, sockets, Task
  <2>6. sock' \in [Fd -> {"free", "opening", "up", "bad"}]
    BY <1>3 DEF TypeOK, DataOK, fds, sockets
  <2>7. remote' \in [Fd -> [ip : Cfg \union {NoCfg}, port : Cfg \union {NoCfg}]]
    <3> DEFINE endpoint == [ip |-> s_cfg.ip, port |-> port]
    <3>1. endpoint \in [ip : Cfg \union {NoCfg}, port : Cfg \union {NoCfg}]
      BY DEF TypeOK, DataOK
    <3>2. remote' = remote \/ \E f \in Fd : remote' = [remote EXCEPT ![f] = endpoint]
      BY <1>3 DEF fds, sockets
    <3>3. remote \in [Fd -> [ip : Cfg \union {NoCfg}, port : Cfg \union {NoCfg}]]
      BY DEF TypeOK, DataOK
    <3> HIDE DEF endpoint
    <3> QED BY <3>1, <3>2, <3>3
  <2>8. port' \in Cfg \union {NoCfg} /\ wait' \in {"forever", "timed"} /\ notify' \in BOOLEAN
    BY <1>3 DEF TypeOK, DataOK, locals
  <2>9. UNCHANGED <<flags, policy, command, driver>>
    BY <1>3
  <2>10. DataOK'
    BY <2>2, <2>4, <2>5, <2>6, <2>7, <2>8, <2>9
       DEF TypeOK, DataOK, flags, policy, command, driver
  <2> QED BY <2>3, <2>10 DEF TypeOK
<1>4. {"d_next", "d_take", "d_close", "d_flag", "d_wifi", "n_top", "n_close", "n_down",
       "n_port", "n_pending", "n_next", "s_check"} \subseteq NetPc
  BY DEF NetPc
<1> QED BY <1>1, <1>2, <1>3, <1>4 DEF NetStep, Shared, Plain

\* Every step of the event handler keeps the types.
LEMMA EvtTyped ==
  ASSUME TypeOK, EvtStep
  PROVE  TypeOK'
<1>1. ASSUME NEW from, NEW to \in EvtPc, Shared("evt", from, to)
      PROVE  TypeOK'
  BY <1>1, SharedTyped DEF Task
<1>2. CASE EvtDisconnected \/ EvtGotIp \/ EvtCheck
  <2> USE DEF EvtDisconnected, EvtGotIp, EvtCheck
  <2>1. \E from, to : Go("evt", from, to) /\ to \in EvtPc
    BY <1>2 DEF EvtPc
  <2>2. io' = io
    BY <1>2 DEF locals
  <2>3. ControlOK'
    BY <2>1, <2>2, MoveTyped DEF Task, TypeOK
  <2>4. events # <<>> => Tail(events) \in Seq(Event)
    BY HeadTailProperties DEF TypeOK, DataOK
  <2>5. events' \in Seq(Event)
    BY <1>2, <2>4 DEF TypeOK, DataOK, driver
  <2>6. s_wifi_connected' \in BOOLEAN /\ s_tcp_connected' \in BOOLEAN /\ wifi' = wifi
    BY <1>2 DEF TypeOK, DataOK, flags, driver
  <2>7. UNCHANGED <<policy, command, notify, locals, fds, left>>
    BY <1>2
  <2>8. DataOK'
    BY <2>5, <2>6, <2>7 DEF TypeOK, DataOK, policy, command, locals, fds, sockets
  <2> QED BY <2>3, <2>8 DEF TypeOK
<1>3. {"e_pending", "e_take", "e_close", "e_check", "idle"} \subseteq EvtPc
  BY DEF EvtPc
<1> QED BY <1>1, <1>2, <1>3 DEF EvtStep, Shared, Plain

\* Every step of the environment keeps the types.
LEMMA EnvironmentTyped ==
  ASSUME TypeOK, Environment
  PROVE  TypeOK'
<1> USE DEF Associates, LinkLost, DeadlinePasses, PeerFails
<1>1. UNCHANGED <<pc, io>>
  BY DEF Environment, locals
<1>2. \A e \in Event : Append(events, e) \in Seq(Event)
  BY AppendProperties DEF TypeOK, DataOK
<1>3. events' \in Seq(Event)
  BY <1>2 DEF Environment, Event, TypeOK, DataOK, driver
<1>4. left' \in [EnvKinds -> Nat]
  BY DEF Environment, Spend, EnvKinds, TypeOK, DataOK
<1>5. sock' \in [Fd -> {"free", "opening", "up", "bad"}]
  BY DEF Environment, TypeOK, DataOK, fds, sockets
<1>6. DataOK'
  BY <1>3, <1>4, <1>5 DEF Environment, TypeOK, DataOK, flags, policy, command, locals, driver, fds, sockets
<1> QED BY <1>1, <1>6 DEF TypeOK, ControlOK

\* Type correctness: in every reachable state each variable of the network
\* manager has its type and each task is at one of its own statements; in
\* particular recv() and send() are only ever given a descriptor.
THEOREM TypeCorrect == Spec => []TypeOK
<1>1. ASSUME Init PROVE TypeOK
  <2>1. ControlOK
    BY <1>1 DEF Init, ControlOK, Task, CorePc, NetPc, EvtPc
  <2>2. events \in Seq(Event) /\ left \in [EnvKinds -> Nat]
    BY <1>1, BudgetAssumption DEF Init
  <2>3. DataOK
    BY <1>1, <2>2 DEF Init, DataOK, Nowhere
  <2> QED BY <2>1, <2>3 DEF TypeOK
<1>2. TypeOK /\ [Next]_vars => TypeOK'
  <2> SUFFICES ASSUME TypeOK, [Next]_vars PROVE TypeOK'
    OBVIOUS
  <2>1. CASE UNCHANGED vars
    BY <2>1 DEF vars, flags, policy, command, locals, driver, fds, sockets, TypeOK, DataOK, ControlOK
  <2> QED BY <2>1, CoreTyped, NetTyped, EvtTyped, EnvironmentTyped DEF Next
<1> QED BY <1>1, <1>2, PTL DEF Spec

-----------------------------------------------------------------------------
(* Socket ownership.                                                       *)

Holding == {"io_close", "e_close", "d_close", "n_close", "n_conn", "n_store", "n_fail"}

Owned == SocketOwnership /\ HeldWhere

\* A step that touches no descriptor and neither enters nor leaves a statement
\* where the task holds one.
LEMMA OwnedMove ==
  ASSUME TypeOK, Owned, NEW t \in Task, NEW from, NEW to, Go(t, from, to),
         UNCHANGED fds, from \notin Holding, to \notin {"n_conn", "n_store", "n_fail"},
         to \in {"n_close", "n_down", "n_port", "n_open"} => s_tcp_sock = NoFd
  PROVE  Owned'
<1>1. SocketOwnership'
  BY DEF Owned, SocketOwnership, fds, sockets
<1>2. HeldWhere'
  BY DEF Owned, HeldWhere, Holding, fds, sockets, Go, Task, TypeOK, ControlOK
<1> QED BY <1>1, <1>2 DEF Owned

\* exchange(-1) moves the published descriptor into the task.
LEMMA OwnedExchange ==
  ASSUME TypeOK, Owned, NEW t \in Task, NEW from, NEW to, Exchange(t, from, to),
         from \notin Holding,
         <<t, to>> \in {<<"core", "io_close">>, <<"evt", "e_close">>,
                        <<"net", "d_close">>, <<"net", "n_close">>}
  PROVE  Owned'
<1>1. own[t] = NoFd
  BY DEF Exchange, Go, Owned, HeldWhere, Holding, Task
<1>2. own' = [own EXCEPT ![t] = s_tcp_sock] /\ s_tcp_sock' = NoFd /\ sock' = sock
  BY DEF Exchange, sockets
<1>3. SocketOwnership'
  BY <1>1, <1>2, FdAssumption DEF Owned, SocketOwnership, TypeOK, DataOK
<1>4. HeldWhere'
  BY <1>2 DEF Exchange, Go, Owned, HeldWhere, Task, TypeOK, DataOK, ControlOK
<1> QED BY <1>3, <1>4 DEF Owned

\* lwip_close() frees what the task holds and nobody else does.
LEMMA OwnedClose ==
  ASSUME TypeOK, Owned, NEW t \in Task, NEW from, NEW to, Close(t, from, to),
         to \notin {"n_close", "n_port", "n_open", "n_conn", "n_store", "n_fail"},
         to = "n_down" => from = "n_close" /\ t = "net"
  PROVE  Owned'
<1>1. /\ own' = [own EXCEPT ![t] = NoFd] /\ s_tcp_sock' = s_tcp_sock
      /\ sock' = [f \in Fd |-> IF f = own[t] THEN "free" ELSE sock[f]]
  BY DEF Close
<1>2. SocketOwnership'
  <2>1. ASSUME NEW f \in Fd
        PROVE  (sock'[f] # "free") <=> (f = s_tcp_sock' \/ \E u \in Task : own'[u] = f)
    <3>1. CASE f = own[t]
      BY <1>1, <3>1, FdAssumption DEF Owned, SocketOwnership, TypeOK, DataOK
    <3>2. CASE f # own[t]
      <4>1. \A u \in Task : own'[u] = f <=> own[u] = f
        BY <1>1, <3>2, FdAssumption DEF TypeOK, DataOK
      <4> QED BY <1>1, <3>2, <4>1 DEF Owned, SocketOwnership
    <3> QED BY <3>1, <3>2
  <2>2. /\ \A u \in Task : own'[u] # NoFd => own'[u] # s_tcp_sock'
        /\ \A u, v \in Task : own'[u] # NoFd /\ u # v => own'[u] # own'[v]
    BY <1>1 DEF Owned, SocketOwnership, TypeOK, DataOK
  <2> QED BY <2>1, <2>2 DEF SocketOwnership
<1>3. HeldWhere'
  BY <1>1 DEF Close, Go, Owned, HeldWhere, Task, TypeOK, DataOK, ControlOK
<1> QED BY <1>2, <1>3 DEF Owned

\* A plain statement.
LEMMA OwnedPlain ==
  ASSUME TypeOK, Owned, NEW t \in Task, NEW from, NEW to, Plain(t, from, to),
         from \notin Holding,
         to \notin {"n_close", "n_down", "n_open", "n_conn", "n_store", "n_fail"},
         to = "n_port" => from = "n_down" /\ t = "net"
  PROVE  Owned'
<1>1. Go(t, from, to) /\ UNCHANGED fds
  BY DEF Plain, SetTcp, SetPending, SetEnabled, SetNext, Notify, WifiConnect,
         WifiError, WifiDisconnect
<1>2. to = "n_port" => s_tcp_sock = NoFd
  BY <1>1 DEF Go, Owned, HeldWhere
<1> QED BY <1>1, <1>2, OwnedMove

\* schedule_tcp_reconnect() touches no descriptor.
LEMMA ScheduleOwned ==
  ASSUME TypeOK, Owned, NEW t \in {"core", "net"}, NEW done \in {"idle", "n_top"},
         Schedule(t, done)
  PROVE  Owned'
<1> t \in Task BY DEF Task
<1>1. CASE ScheduleCheck(t, done)
  <2>1. Go(t, "s_check", IF ScheduleAllowed THEN "s_next" ELSE done) /\ UNCHANGED fds
    BY <1>1 DEF ScheduleCheck
  <2> QED BY <2>1, OwnedMove DEF Holding
<1>2. CASE Plain(t, "s_next", "s_pending") \/ Plain(t, "s_pending", "s_notify")
           \/ Plain(t, "s_notify", done)
  BY <1>2, OwnedPlain DEF Holding
<1> QED BY <1>1, <1>2 DEF Schedule, Plain

\* Every step of the Harp task: a failed recv() or send() takes the published
\* descriptor back and closes it.
LEMMA CoreOwned ==
  ASSUME TypeOK, Owned, CoreCall \/ TcpRead \/ CoreStep
  PROVE  Owned'
<1>1. ASSUME NEW from \in CorePc \ Holding, NEW to \in CorePc \ Holding, Plain("core", from, to)
      PROVE  Owned'
  BY <1>1, OwnedPlain DEF Task, CorePc, Holding
<1>2. ASSUME NEW from \in CorePc \ Holding, NEW to \in CorePc \ Holding,
             Go("core", from, to), UNCHANGED fds
      PROVE  Owned'
  BY <1>2, OwnedMove DEF Task, CorePc, Holding
<1> DEFINE Labels == {"idle", "off_pending", "off_next", "ap_port", "ap_enabled",
                      "ap_pending", "ap_next", "ap_disc", "ap_conn", "ap_cmd",
                      "dc_enabled", "dc_pending", "dc_next", "dc_notify", "recv",
                      "send", "io_take", "io_flag", "s_check"}
<1>a. Labels \subseteq CorePc \ Holding
  BY DEF CorePc, Holding
<1> HIDE DEF Labels
<1>b. /\ \A from, to \in Labels : Plain("core", from, to) => Owned'
      /\ \A from, to \in Labels : Go("core", from, to) /\ UNCHANGED fds => Owned'
  BY <1>1, <1>2, <1>a
<1>3. CASE CoreCall \/ TcpRead
  BY <1>b, <1>3 DEF CoreCall, TcpRead, ApplyWifiOff, Apply, Disconnect, TcpLoad, Labels
<1>4. CASE ApplyStep
  <2>1. CASE ApplyPort \/ ApplyCommand
    BY <1>b, <2>1 DEF ApplyPort, ApplyCommand, Labels
  <2>2. CASE \E from, to \in Labels : Plain("core", from, to)
    BY <1>b, <2>2
  <2> QED BY <1>4, <2>1, <2>2 DEF ApplyStep, Plain, Labels
<1>5. CASE DisconnectStep
  BY <1>b, <1>5 DEF DisconnectStep, Plain, Labels
<1>6. CASE IoStep
  <2>1. ASSUME NEW op \in {"recv", "send"}, IoOk(op) \/ IoFail(op) PROVE Owned'
    BY <1>b, <2>1 DEF IoOk, IoFail, Labels
  <2>2. CASE Exchange("core", "io_take", "io_close")
    BY <2>2, OwnedExchange DEF Task, Holding
  <2>3. CASE Close("core", "io_close", "io_flag")
    BY <2>3, OwnedClose DEF Task
  <2>4. CASE SetTcp("core", "io_flag", "s_check", FALSE)
    BY <1>b, <2>4 DEF Plain, Labels
  <2>5. CASE Schedule("core", "idle")
    BY <2>5, ScheduleOwned
  <2> QED BY <1>6, <2>1, <2>2, <2>3, <2>4, <2>5 DEF IoStep
<1> QED BY <1>3, <1>4, <1>5, <1>6 DEF CoreStep

\* Every step of the event handler: a lost association takes it back and closes it.
LEMMA EvtOwned ==
  ASSUME TypeOK, Owned, EvtStep
  PROVE  Owned'
<1>1. ASSUME NEW from \in EvtPc \ Holding, NEW to \in EvtPc \ Holding, Plain("evt", from, to)
      PROVE  Owned'
  BY <1>1, OwnedPlain DEF Task, EvtPc, Holding
<1>2. CASE EvtDisconnected \/ EvtGotIp \/ EvtCheck
  BY <1>2, OwnedMove DEF EvtDisconnected, EvtGotIp, EvtCheck, Task, Holding
<1>3. CASE Exchange("evt", "e_take", "e_close")
  BY <1>3, OwnedExchange DEF Task, Holding
<1>4. CASE Close("evt", "e_close", "e_check")
  BY <1>4, OwnedClose DEF Task
<1>5. {"idle", "e_flag", "e_pending", "e_take", "e_conn", "e_notify"} \subseteq EvtPc \ Holding
  BY DEF EvtPc, Holding
<1> QED BY <1>1, <1>2, <1>3, <1>4, <1>5 DEF EvtStep, Plain

\* Every step of network_task(): DISCONNECT and a due reconnect take it back; a
\* reconnect opens the next, and publishes it or closes it again.
LEMMA NetOwned ==
  ASSUME TypeOK, Owned, NetStep
  PROVE  Owned'
<1>1. ASSUME NEW from \in NetPc \ Holding,
             NEW to \in NetPc \ (Holding \union {"n_down", "n_port", "n_open"}),
             Plain("net", from, to)
      PROVE  Owned'
  BY <1>1, OwnedPlain DEF Task, NetPc, Holding
<1>2. CASE NetTop \/ NetWake \/ NetCmd \/ NetReady \/ NetDue \/ NetPort \/ NetOpenFails
  <2> USE DEF NetTop, NetWake, NetCmd, NetReady, NetDue, NetPort, NetOpenFails, Holding
  <2>1. \E from, to : /\ Go("net", from, to) /\ UNCHANGED fds /\ from \notin Holding
                      /\ to \notin {"n_conn", "n_store", "n_fail", "n_close", "n_down", "n_port"}
                      /\ to = "n_open" => from = "n_port"
    BY <1>2
  <2>2. pc["net"] = "n_port" => s_tcp_sock = NoFd
    BY DEF Owned, HeldWhere
  <2> QED BY <2>1, <2>2, OwnedMove DEF Task, Go
<1>3. CASE Exchange("net", "d_take", "d_close") \/ Exchange("net", "n_take", "n_close")
  BY <1>3, OwnedExchange DEF Task, Holding
<1>4. CASE Close("net", "d_close", "d_flag") \/ Close("net", "n_close", "n_down")
           \/ Close("net", "n_fail", "s_check")
  BY <1>4, OwnedClose DEF Task
<1>5. CASE SetTcp("net", "n_down", "n_port", FALSE)
  BY <1>5, OwnedPlain DEF Task, Plain, Holding
<1>6. ASSUME NEW f \in Fd, NetOpen(f) PROVE Owned'
  <2>1. own["net"] = NoFd /\ s_tcp_sock = NoFd
    BY <1>6 DEF NetOpen, Go, Owned, HeldWhere
  <2>2. SocketOwnership'
    BY <1>6, <2>1, FdAssumption DEF NetOpen, Owned, SocketOwnership, TypeOK, DataOK, Task
  <2>3. HeldWhere'
    BY <1>6, <2>1, FdAssumption
       DEF NetOpen, Go, Owned, HeldWhere, TypeOK, DataOK, ControlOK, Task
  <2> QED BY <2>2, <2>3 DEF Owned
<1>7. CASE NetConnects \/ NetConnectFails
  <2>1. own["net"] # NoFd /\ own' = own /\ s_tcp_sock' = s_tcp_sock
    BY <1>7 DEF NetConnects, NetConnectFails, Go, Owned, HeldWhere, fds, sockets
  <2>2. \A f \in Fd : sock'[f] = sock[f] \/ (f = own["net"] /\ sock'[f] # "free")
    <3>1. CASE NetConnects
      BY <3>1 DEF NetConnects, TypeOK, DataOK
    <3>2. CASE NetConnectFails
      BY <3>2 DEF NetConnectFails, fds, sockets
    <3> QED BY <1>7, <3>1, <3>2
  <2>3. SocketOwnership'
    BY <2>1, <2>2 DEF Owned, SocketOwnership, Task
  <2>4. HeldWhere'
    BY <1>7, <2>1
       DEF NetConnects, NetConnectFails, Go, Owned, HeldWhere, TypeOK, ControlOK, Task
  <2> QED BY <2>3, <2>4 DEF Owned
<1>8. CASE NetStore
  <2>1. s_tcp_sock = NoFd /\ own["net"] # NoFd
    BY <1>8 DEF NetStore, Go, Owned, HeldWhere
  <2>2. s_tcp_sock' = own["net"] /\ own' = [own EXCEPT !["net"] = NoFd] /\ sock' = sock
    BY <1>8 DEF NetStore, sockets
  <2>3. SocketOwnership'
    BY <2>1, <2>2, FdAssumption DEF Owned, SocketOwnership, TypeOK, DataOK, Task
  <2>4. HeldWhere'
    BY <1>8, <2>2 DEF NetStore, Go, Owned, HeldWhere, TypeOK, DataOK, ControlOK, Task
  <2> QED BY <2>3, <2>4 DEF Owned
<1>9. CASE Schedule("net", "n_top")
  BY <1>9, ScheduleOwned
<1>10. /\ {"d_pending", "d_next", "d_flag", "d_wifi", "n_flag", "n_pending", "n_next"}
              \subseteq NetPc \ Holding
       /\ {"d_next", "d_take", "d_wifi", "n_top", "n_pending", "n_next"}
              \subseteq NetPc \ (Holding \union {"n_down", "n_port", "n_open"})
  BY DEF NetPc, Holding
<1> QED BY <1>1, <1>2, <1>3, <1>4, <1>5, <1>6, <1>7, <1>8, <1>9, <1>10 DEF NetStep, Plain

\* The environment opens and closes nothing: it can only spoil a connection.
LEMMA EnvironmentOwned ==
  ASSUME TypeOK, Owned, Environment
  PROVE  Owned'
<1>1. UNCHANGED <<pc, s_tcp_sock, own>>
  BY DEF Environment, Associates, LinkLost, DeadlinePasses, PeerFails, fds, sockets
<1>2. \A f \in Fd : sock'[f] # "free" <=> sock[f] # "free"
  BY DEF Environment, Associates, LinkLost, DeadlinePasses, PeerFails, fds, sockets, TypeOK, DataOK
<1> QED BY <1>1, <1>2 DEF Owned, SocketOwnership, HeldWhere

\* Socket ownership: the descriptors held by s_tcp_sock and by the three tasks
\* are distinct and are exactly the open ones, so that no close is a double
\* close and none is leaked, under any interleaving of the tasks.
THEOREM OwnedAlways == Spec => []Owned
<1>1. Init => Owned
  BY FdAssumption DEF Init, Owned, SocketOwnership, HeldWhere, Task
<1>2. TypeOK /\ Owned /\ [Next]_vars => Owned'
  <2> SUFFICES ASSUME TypeOK, Owned, [Next]_vars PROVE Owned'
    OBVIOUS
  <2>1. CASE UNCHANGED vars
    BY <2>1 DEF vars, fds, sockets, Owned, SocketOwnership, HeldWhere
  <2> QED BY <2>1, CoreOwned, NetOwned, EvtOwned, EnvironmentOwned DEF Next
<1> QED BY <1>1, <1>2, TypeCorrect, PTL DEF Spec

\* Socket ownership as the runs check it: no descriptor leaks and none is closed
\* twice, whichever tasks take it back.
THEOREM SocketsOwned == Spec => []SocketOwnership
<1>1. Owned => SocketOwnership
  BY DEF Owned
<1> QED BY <1>1, OwnedAlways, PTL

\* Between network_task()'s exchange and its plain store of s_tcp_sock nothing is
\* published, so that the store overwrites no open descriptor.
THEOREM StoreMeetsEmpty == Spec => []HeldWhere
<1>1. Owned => HeldWhere
  BY DEF Owned
<1> QED BY <1>1, OwnedAlways, PTL

-----------------------------------------------------------------------------
(* Wake-ups.                                                               *)

\* A step beside the wait of network_task(): it arms a reconnect only on the
\* way to the notification, takes no notification, and leaves s_notify only by
\* giving one.
LEMMA WakeBeside ==
  ASSUME NoLostWakeup, pc'["net"] = pc["net"], wait' = wait,
         s_reconnect_pending' => s_reconnect_pending \/ pc'["core"] = "s_notify",
         notify => notify',
         pc["core"] = "s_notify" => notify' \/ pc'["core"] = "s_notify"
  PROVE  NoLostWakeup'
BY DEF NoLostWakeup

\* The Harp task arms a reconnect only on its way to the notification.
LEMMA CoreWakes ==
  ASSUME TypeOK, NoLostWakeup, CoreCall \/ TcpRead \/ CoreStep
  PROVE  NoLostWakeup'
<1>1. ASSUME NEW from, NEW to, Go("core", from, to), from # "s_notify",
             UNCHANGED <<wait, notify>>,
             s_reconnect_pending' => s_reconnect_pending \/ to = "s_notify"
      PROVE  NoLostWakeup'
  <2>1. pc'["net"] = pc["net"] /\ pc["core"] = from /\ pc'["core"] = to
    BY <1>1 DEF Go, Task, TypeOK, ControlOK
  <2> QED BY <1>1, <2>1, WakeBeside
<1>2. ASSUME NEW from, NEW to, Notify("core", from, to) PROVE NoLostWakeup'
  <2>1. pc'["net"] = pc["net"] /\ notify' /\ UNCHANGED <<wait, s_reconnect_pending>>
    BY <1>2 DEF Notify, Go, Task, TypeOK, ControlOK, locals, policy
  <2> QED BY <2>1 DEF NoLostWakeup
<1> DEFINE Beside == \E from, to : /\ Go("core", from, to) /\ from # "s_notify"
                                   /\ UNCHANGED <<wait, notify>>
                                   /\ s_reconnect_pending' => s_reconnect_pending
<1> USE DEF policy, locals
<1>3. CoreCall \/ TcpRead => Beside
  BY DEF CoreCall, TcpRead, ApplyWifiOff, Apply, Disconnect, TcpLoad
<1>4. ApplyStep => Beside
  BY DEF ApplyStep, ApplyPort, ApplyCommand, SetPending, SetNext, SetEnabled,
         WifiDisconnect, WifiConnect, WifiError
<1>5. DisconnectStep => Beside \/ Notify("core", "dc_notify", "idle")
  BY DEF DisconnectStep, SetPending, SetNext, SetEnabled
<1>6. IoStep => Beside \/ Schedule("core", "idle")
  BY DEF IoStep, IoOk, IoFail, Exchange, Close, SetTcp
<1>7. Schedule("core", "idle") => \/ Beside \/ Notify("core", "s_notify", "idle")
                                  \/ SetPending("core", "s_pending", "s_notify", TRUE)
  <2>1. ScheduleCheck("core", "idle") =>
          /\ Go("core", "s_check", IF ScheduleAllowed THEN "s_next" ELSE "idle")
          /\ UNCHANGED <<wait, notify, s_reconnect_pending>>
    BY DEF ScheduleCheck
  <2>2. ScheduleCheck("core", "idle") => Beside
    BY <2>1
  <2>3. SetNext("core", "s_next", "s_pending", "future") => Beside
    BY DEF SetNext
  <2> QED BY <2>2, <2>3 DEF Schedule
<1>8. SetPending("core", "s_pending", "s_notify", TRUE) => NoLostWakeup'
  BY <1>1 DEF SetPending
<1>9. Beside => NoLostWakeup'
  BY <1>1
<1> QED BY <1>2, <1>3, <1>4, <1>5, <1>6, <1>7, <1>8, <1>9 DEF CoreStep

\* network_task() chooses its wait after looking at s_reconnect_pending.
LEMMA NetWakes ==
  ASSUME TypeOK, NoLostWakeup, NetStep
  PROVE  NoLostWakeup'
<1>1. CASE NetTop
  BY <1>1 DEF NetTop, Go, NoLostWakeup, policy, TypeOK, ControlOK, Task
<1>2. CASE \E from, to : Go("net", from, to) /\ to # "n_wait"
  <2>1. pc'["net"] # "n_wait"
    BY <1>2 DEF Go, TypeOK, ControlOK, Task
  <2> QED BY <2>1 DEF NoLostWakeup
<1>3. Schedule("net", "n_top") => \E from, to : Go("net", from, to) /\ to # "n_wait"
  BY DEF Schedule, ScheduleCheck, SetNext, SetPending, Notify
<1>4. NetStep => \/ NetTop \/ Schedule("net", "n_top")
                 \/ \E from, to : Go("net", from, to) /\ to # "n_wait"
  BY DEF NetStep, NetWake, NetCmd, NetReady, NetDue, NetPort, NetOpen, NetOpenFails,
         NetConnects, NetConnectFails, NetStore, Exchange, Close, SetTcp, SetPending,
         SetNext, WifiDisconnect
<1> QED BY <1>1, <1>2, <1>3, <1>4

\* The event handler arms nothing and takes no notification.
LEMMA EvtWakes ==
  ASSUME TypeOK, NoLostWakeup, EvtStep
  PROVE  NoLostWakeup'
<1> USE DEF policy, locals
<1>1. /\ \E from, to : Go("evt", from, to)
      /\ wait' = wait /\ (s_reconnect_pending' => s_reconnect_pending)
      /\ notify' = notify \/ notify'
  BY DEF EvtStep, EvtDisconnected, EvtCheck, EvtGotIp, Exchange, Close, SetTcp,
         SetPending, WifiConnect, WifiError, Notify
<1>2. pc'["net"] = pc["net"] /\ pc'["core"] = pc["core"]
  BY <1>1 DEF Go, TypeOK, ControlOK, Task
<1> QED BY <1>1, <1>2, WakeBeside

\* No wake-up is lost: whenever network_task() blocks without a timeout, an
\* armed reconnect has its notification given or about to be given.
THEOREM WakeupsArrive == Spec => []NoLostWakeup
<1>1. Init => NoLostWakeup
  BY DEF Init, NoLostWakeup
<1>2. TypeOK /\ NoLostWakeup /\ [Next]_vars => NoLostWakeup'
  <2> SUFFICES ASSUME TypeOK, NoLostWakeup, [Next]_vars PROVE NoLostWakeup'
    OBVIOUS
  <2>1. CASE UNCHANGED vars
    BY <2>1 DEF vars, policy, locals, NoLostWakeup
  <2>2. CASE Environment
    <3>1. UNCHANGED <<pc, wait, s_reconnect_pending, notify>>
      BY <2>2 DEF Environment, Associates, LinkLost, DeadlinePasses, PeerFails, policy, locals
    <3> QED BY <3>1 DEF NoLostWakeup
  <2> QED BY <2>1, <2>2, CoreWakes, NetWakes, EvtWakes DEF Next
<1> QED BY <1>1, <1>2, TypeCorrect, PTL DEF Spec

-----------------------------------------------------------------------------
(* Refinement of SocketLifecycle.                                          *)

Opened  == {f \in Fd : sock[f] # "free"}
Retired == {own[t] : t \in Task} \ {NoFd, Fresh}

\* A step that moves task t and leaves the descriptors alone maps to a stutter,
\* unless it enters or leaves the three statements where the new socket is held.
LEMMA RefMove ==
  ASSUME TypeOK, NEW t \in Task, NEW from, NEW to, Go(t, from, to), UNCHANGED fds,
         t = "net" => (from \in {"n_conn", "n_store", "n_fail"}
                        <=> to \in {"n_conn", "n_store", "n_fail"})
  PROVE  UNCHANGED Lifecycle!vars
<1>1. Fresh' = Fresh
  BY DEF Fresh, Go, fds, sockets, Task, TypeOK, ControlOK
<1> QED BY <1>1 DEF Lifecycle!vars, fds, sockets

\* exchange(-1) maps to Retire, or to a stutter if nothing was published.
LEMMA RefExchange ==
  ASSUME TypeOK, Owned, NEW t \in Task, NEW from, NEW to, Exchange(t, from, to),
         from \notin Holding, to \notin {"n_conn", "n_store", "n_fail"}
  PROVE  [Lifecycle!Next]_(Lifecycle!vars)
<1>1. own[t] = NoFd
  BY DEF Exchange, Go, Owned, HeldWhere, Holding, Task
<1>2. own' = [own EXCEPT ![t] = s_tcp_sock] /\ s_tcp_sock' = NoFd /\ sock' = sock
  BY DEF Exchange, sockets
<1>3. Fresh' = Fresh
  BY <1>1, <1>2 DEF Fresh, Exchange, Go, Holding, Task, TypeOK, DataOK, ControlOK
<1>4. s_tcp_sock # NoFd => s_tcp_sock # Fresh
  BY DEF Fresh, Owned, SocketOwnership, Task
<1>5. CASE s_tcp_sock = NoFd
  <2>1. own' = own
    BY <1>1, <1>2, <1>5 DEF TypeOK, DataOK
  <2> QED BY <1>2, <1>3, <1>5, <2>1 DEF Lifecycle!vars
<1>6. CASE s_tcp_sock # NoFd
  <2>1. Retired' = Retired \union {s_tcp_sock}
    BY <1>1, <1>2, <1>3, <1>4, <1>6 DEF Retired, TypeOK, DataOK
  <2> QED BY <1>2, <1>3, <1>6, <2>1 DEF Lifecycle!Next, Lifecycle!Retire, Retired
<1> QED BY <1>5, <1>6

\* lwip_close() of a descriptor that was taken back maps to Close.
LEMMA RefClose ==
  ASSUME TypeOK, Owned, NEW t \in Task, NEW from, NEW to, Close(t, from, to),
         from \notin {"n_conn", "n_store", "n_fail"}, to \notin {"n_conn", "n_store", "n_fail"}
  PROVE  [Lifecycle!Next]_(Lifecycle!vars)
<1>1. /\ own' = [own EXCEPT ![t] = NoFd] /\ s_tcp_sock' = s_tcp_sock
      /\ sock' = [f \in Fd |-> IF f = own[t] THEN "free" ELSE sock[f]]
  BY DEF Close
<1>2. Fresh' = Fresh
  BY <1>1 DEF Fresh, Close, Go, Task, TypeOK, DataOK, ControlOK
<1>3. CASE own[t] = NoFd
  <2>1. own' = own /\ sock' = sock
    BY <1>1, <1>3, FdAssumption DEF TypeOK, DataOK
  <2> QED BY <1>1, <1>2, <2>1 DEF Lifecycle!vars
<1>4. CASE own[t] # NoFd
  <2>1. own[t] \in Fd /\ own[t] # Fresh
    BY <1>4 DEF Fresh, Close, Go, Owned, SocketOwnership, TypeOK, DataOK, Task
  <2>2. own[t] \in Retired
    BY <1>4, <2>1 DEF Retired
  <2>3. Opened' = Opened \ {own[t]}
    BY <1>1 DEF Opened, TypeOK, DataOK
  <2>4. \A u \in Task : u # t => own[u] # own[t]
    BY <1>4 DEF Owned, SocketOwnership
  <2>5. Retired' = Retired \ {own[t]}
    BY <1>1, <1>2, <2>4 DEF Retired, TypeOK, DataOK
  <2> QED BY <1>1, <1>2, <2>1, <2>2, <2>3, <2>5
          DEF Lifecycle!Next, Lifecycle!Close, Retired, Opened
<1> QED BY <1>3, <1>4

\* The steps of the Harp task and of the event handler, by what they do to the
\* descriptors.
LEMMA OthersRefine ==
  ASSUME TypeOK, Owned, CoreCall \/ TcpRead \/ CoreStep \/ EvtStep
  PROVE  [Lifecycle!Next]_(Lifecycle!vars)
<1> DEFINE Still(t) == \E from, to : Go(t, from, to) /\ UNCHANGED fds
<1>1. CASE Still("core") \/ Still("evt")
  BY <1>1, RefMove DEF Task
<1>2. CASE Exchange("core", "io_take", "io_close") \/ Exchange("evt", "e_take", "e_close")
  BY <1>2, RefExchange DEF Task, Holding
<1>3. CASE Close("core", "io_close", "io_flag") \/ Close("evt", "e_close", "e_check")
  BY <1>3, RefClose DEF Task
<1>4. CoreCall \/ TcpRead => Still("core")
  BY DEF CoreCall, TcpRead, ApplyWifiOff, Apply, Disconnect, TcpLoad
<1>5. ApplyStep \/ DisconnectStep => Still("core")
  BY DEF ApplyStep, DisconnectStep, ApplyPort, ApplyCommand, SetPending, SetNext,
         SetEnabled, Notify, WifiDisconnect, WifiConnect, WifiError
<1>6. Schedule("core", "idle") => Still("core")
  <2>1. ScheduleCheck("core", "idle") => Still("core")
    BY DEF ScheduleCheck
  <2> QED BY <2>1 DEF Schedule, SetNext, SetPending, Notify
<1>7. IoStep => \/ Still("core") \/ Exchange("core", "io_take", "io_close")
                \/ Close("core", "io_close", "io_flag")
  BY <1>6 DEF IoStep, IoOk, IoFail, SetTcp
<1>8. EvtStep => \/ Still("evt") \/ Exchange("evt", "e_take", "e_close")
                 \/ Close("evt", "e_close", "e_check")
  BY DEF EvtStep, EvtDisconnected, EvtGotIp, EvtCheck, SetTcp, SetPending, WifiConnect,
         WifiError, Notify
<1> QED BY <1>1, <1>2, <1>3, <1>4, <1>5, <1>7, <1>8 DEF CoreStep

\* The steps of network_task().
LEMMA NetRefines ==
  ASSUME TypeOK, Owned, NetStep
  PROVE  [Lifecycle!Next]_(Lifecycle!vars)
<1> DEFINE Fresher == {"n_conn", "n_store", "n_fail"}
           Still == \E from, to : /\ Go("net", from, to) /\ UNCHANGED fds
                                  /\ from \in Fresher <=> to \in Fresher
<1>1. CASE Still
  BY <1>1, RefMove DEF Task
<1>2. CASE Exchange("net", "d_take", "d_close") \/ Exchange("net", "n_take", "n_close")
  BY <1>2, RefExchange DEF Task, Holding
<1>3. CASE Close("net", "d_close", "d_flag") \/ Close("net", "n_close", "n_down")
  BY <1>3, RefClose DEF Task
<1>4. CASE Close("net", "n_fail", "s_check")
  <2>1. /\ own' = [own EXCEPT !["net"] = NoFd] /\ s_tcp_sock' = s_tcp_sock
        /\ sock' = [f \in Fd |-> IF f = own["net"] THEN "free" ELSE sock[f]]
    BY <1>4 DEF Close
  <2>2. Fresh = own["net"] /\ Fresh # NoFd /\ Fresh' = NoFd
    BY <1>4 DEF Close, Go, Fresh, Owned, HeldWhere, TypeOK, ControlOK, Task
  <2>3. Opened' = Opened \ {Fresh}
    BY <2>1, <2>2 DEF Opened, TypeOK, DataOK
  <2>4. \A u \in Task : u # "net" => own[u] # own["net"]
    BY <2>2 DEF Owned, SocketOwnership, Task
  <2>5. Retired' = Retired
    BY <2>1, <2>2, <2>4 DEF Retired, TypeOK, DataOK, Task
  <2> QED BY <2>1, <2>2, <2>3, <2>5 DEF Lifecycle!Next, Lifecycle!Discard, Opened, Retired
<1>5. ASSUME NEW f \in Fd, NetOpen(f) PROVE Lifecycle!Open(f)
  <2>1. s_tcp_sock = NoFd /\ own["net"] = NoFd /\ Fresh = NoFd
    BY <1>5 DEF NetOpen, Go, Fresh, Owned, HeldWhere
  <2>2. own' = [own EXCEPT !["net"] = f] /\ s_tcp_sock' = s_tcp_sock /\ Fresh' = f
    BY <1>5 DEF NetOpen, Go, Fresh, TypeOK, DataOK, ControlOK, Task
  <2>3. f \notin Opened /\ Opened' = Opened \union {f}
    BY <1>5 DEF NetOpen, Opened, TypeOK, DataOK
  <2>4. \A u \in Task : own[u] # f
    BY <2>3 DEF Opened, Owned, SocketOwnership
  <2>5. Retired' = Retired
    BY <2>1, <2>2, <2>4, FdAssumption DEF Retired, TypeOK, DataOK, Task
  <2> QED BY <2>1, <2>2, <2>3, <2>5 DEF Lifecycle!Open, Opened, Retired
<1>6. CASE NetConnects
  <2>1. own' = own /\ s_tcp_sock' = s_tcp_sock /\ own["net"] # NoFd
    BY <1>6 DEF NetConnects, Go, Owned, HeldWhere
  <2>2. Fresh' = Fresh
    BY <1>6, <2>1 DEF NetConnects, Go, Fresh, TypeOK, ControlOK, Task
  <2>3. Opened' = Opened
    BY <1>6, <2>1 DEF NetConnects, Opened, Owned, SocketOwnership, TypeOK, DataOK, Task
  <2> QED BY <2>1, <2>2, <2>3 DEF Lifecycle!vars, Opened
<1>7. CASE NetStore
  <2>1. Fresh = own["net"] /\ Fresh # NoFd /\ Fresh' = NoFd /\ s_tcp_sock = NoFd
    BY <1>7 DEF NetStore, Go, Fresh, Owned, HeldWhere, TypeOK, ControlOK, Task
  <2>2. s_tcp_sock' = Fresh /\ own' = [own EXCEPT !["net"] = NoFd] /\ sock' = sock
    BY <1>7, <2>1 DEF NetStore, sockets
  <2>3. \A u \in Task : u # "net" => own[u] # own["net"]
    BY <2>1 DEF Owned, SocketOwnership, Task
  <2>4. Retired' = Retired
    BY <2>1, <2>2, <2>3 DEF Retired, TypeOK, DataOK, Task
  <2> QED BY <2>1, <2>2, <2>4 DEF Lifecycle!Next, Lifecycle!Publish, Retired
<1>8. Schedule("net", "n_top") => Still
  <2>1. ScheduleCheck("net", "n_top") => Still
    BY DEF ScheduleCheck
  <2> QED BY <2>1 DEF Schedule, SetNext, SetPending, Notify
<1>9. NetTop \/ NetWake \/ NetCmd \/ NetReady \/ NetDue \/ NetPort \/ NetOpenFails
      \/ NetConnectFails => Still
  BY DEF NetTop, NetWake, NetCmd, NetReady, NetDue, NetPort, NetOpenFails, NetConnectFails
<1>10. CASE \/ SetPending("net", "d_pending", "d_next", FALSE)
            \/ SetNext("net", "d_next", "d_take", "past")
            \/ SetTcp("net", "d_flag", "d_wifi", FALSE)
            \/ WifiDisconnect("net", "d_wifi", "n_top")
            \/ SetTcp("net", "n_down", "n_port", FALSE)
            \/ SetTcp("net", "n_flag", "n_pending", TRUE)
            \/ SetPending("net", "n_pending", "n_next", FALSE)
            \/ SetNext("net", "n_next", "n_top", "past")
  <2>1. Still
    BY <1>10 DEF SetPending, SetNext, SetTcp, WifiDisconnect
  <2> QED BY <2>1, <1>1
<1> QED BY <1>1, <1>2, <1>3, <1>4, <1>5, <1>6, <1>7, <1>8, <1>9, <1>10
        DEF NetStep, Lifecycle!Next

\* The network manager implements the abstract life cycle of a descriptor:
\* opened privately, published once, taken back, closed once by its owner.
THEOREM RefinesLifecycle == Spec => LifecycleSpec
<1>1. Init => Lifecycle!Init
  BY DEF Init, Lifecycle!Init, Fresh, Task
<1>2. TypeOK /\ Owned /\ [Next]_vars => [Lifecycle!Next]_(Lifecycle!vars)
  <2> SUFFICES ASSUME TypeOK, Owned, [Next]_vars PROVE [Lifecycle!Next]_(Lifecycle!vars)
    OBVIOUS
  <2>1. CASE UNCHANGED vars
    BY <2>1 DEF vars, fds, sockets, Fresh, Lifecycle!vars
  <2>2. CASE Environment
    <3>1. UNCHANGED <<pc, s_tcp_sock, own>>
      BY <2>2 DEF Environment, Associates, LinkLost, DeadlinePasses, PeerFails, fds, sockets
    <3>2. Opened' = Opened
      BY <2>2 DEF Environment, Associates, LinkLost, DeadlinePasses, PeerFails, fds, sockets,
                  Opened, TypeOK, DataOK
    <3> QED BY <3>1, <3>2 DEF Fresh, Opened, Lifecycle!vars
  <2> QED BY <2>1, <2>2, OthersRefine, NetRefines DEF Next
<1> QED BY <1>1, <1>2, TypeCorrect, OwnedAlways, PTL DEF Spec, LifecycleSpec, Lifecycle!Spec

-----------------------------------------------------------------------------
(* The connection goes where the last APPLY says.                          *)

\* network_task() has begun, or has published, a connection with values that
\* s_cfg no longer holds.
StaleBegun ==
  \/ pc["net"] = "n_open" /\ port # s_cfg.port
  \/ pc["net"] \in {"n_conn", "n_store"} /\ remote[own["net"]] # s_cfg
StalePublished == s_tcp_sock # NoFd /\ remote[s_tcp_sock] # s_cfg
Stale == StaleBegun \/ StalePublished

Scheduling == {"s_check", "s_next", "s_pending", "s_notify"}
Applying   == {"ap_port", "ap_enabled", "ap_pending", "ap_next", "ap_disc"}
Taking     == {"n_cmd", "n_ready", "n_due", "n_take", "d_pending", "d_next", "d_take"}

\* The two halves of s_cfg differ only while apply() is between them.
CfgWhole ==
  /\ s_cfg.ip = NoCfg => s_cfg.port = NoCfg
  /\ pc["core"] # "ap_port" => s_cfg.port = s_cfg.ip

\* The last event of the queue, or the flag, tells that the association is up.
LinkKnown ==
  wifi = "up" => IF events = <<>> THEN s_wifi_connected ELSE events[Len(events)] = "gotip"

\* A failing recv() or send() began after the last apply(), hence it met a
\* connection that network_task() had published, and took it back.
CoreKnows ==
  /\ pc["core"] \in {"recv", "send", "io_take"} => ~StaleBegun
  /\ pc["core"] \in {"io_close", "io_flag"} \union Scheduling => ~Stale

\* network_task() schedules a reconnect with nothing published ...
NothingPublished == pc["net"] \in Scheduling => s_tcp_sock = NoFd

\* ... and so no retry delay holds up the replacement of a stale connection.
NotPostponed ==
  Stale /\ s_reconnect_pending => pc["core"] \in {"ap_port", "ap_enabled", "ap_pending"}

\* What has yet to happen before network_task() takes the published one back:
\* the disconnection by apply(), a new association, its event, the
\* notification, the way from there to the exchange.
Renewal ==
  \/ pc["core"] \in Applying \/ wifi # "up" \/ events # <<>>
  \/ pc["evt"] = "e_notify" \/ notify \/ pc["net"] \in Taking
Renewed == Stale /\ TcpEnabled => Renewal

EndpointInv ==
  CfgWhole /\ LinkKnown /\ CoreKnows /\ NothingPublished /\ NotPostponed /\ Renewed

\* A step makes no connection stale.
NoneStaler == (StaleBegun' => StaleBegun) /\ (Stale' => Stale)

\* A step of one task, for the places where the others stand.
LEMMA OthersStay ==
  ASSUME TypeOK, NEW t \in Task, NEW from, NEW to, Go(t, from, to)
  PROVE  pc[t] = from /\ pc'[t] = to /\ \A u \in Task : u # t => pc'[u] = pc[u]
BY DEF Go, Task, TypeOK, ControlOK

\* Statements that touch no descriptor, and begin no connection.
LEMMA StalerMove ==
  ASSUME TypeOK, NEW t \in Task, NEW from, NEW to, Go(t, from, to),
         UNCHANGED <<s_cfg, port, s_tcp_sock, own, remote>>,
         t = "net" => to \notin {"n_open", "n_conn"} /\ (to = "n_store" => from = "n_conn")
  PROVE  NoneStaler
<1>1. pc'["net"] # pc["net"] => t = "net"
  BY OthersStay DEF Task
<1>2. StaleBegun' => StaleBegun
  BY <1>1, OthersStay DEF StaleBegun
<1>3. StalePublished' => StalePublished
  BY DEF StalePublished
<1> QED BY <1>2, <1>3 DEF NoneStaler, Stale

\* exchange(-1) leaves nothing published.
LEMMA StalerExchange ==
  ASSUME TypeOK, Owned, NEW t \in Task, NEW from, NEW to, Exchange(t, from, to),
         from \notin Holding, to \notin {"n_open", "n_conn", "n_store"}
  PROVE  NoneStaler /\ ~StalePublished' /\ (t = "net" => ~Stale')
<1>1. ~StalePublished'
  BY DEF Exchange, StalePublished
<1>2. /\ Go(t, from, to) /\ s_cfg' = s_cfg /\ port' = port /\ remote' = remote
      /\ t # "net" => own'["net"] = own["net"]
  BY DEF Exchange, command, locals, sockets, TypeOK, DataOK, Task
<1>3. CASE t = "net"
  <2>1. ~StaleBegun'
    BY <1>2, <1>3, OthersStay DEF StaleBegun
  <2> QED BY <1>1, <2>1 DEF NoneStaler, Stale
<1>4. CASE t # "net"
  <2>1. pc'["net"] = pc["net"]
    BY <1>2, <1>4, OthersStay DEF Task
  <2>2. StaleBegun' => StaleBegun
    BY <1>2, <1>4, <2>1 DEF StaleBegun
  <2> QED BY <1>1, <1>4, <2>2 DEF NoneStaler, Stale
<1> QED BY <1>3, <1>4, <1>1

\* lwip_close() closes no connection but the one the task has taken.
LEMMA StalerClose ==
  ASSUME TypeOK, Owned, NEW t \in Task, NEW from, NEW to, Close(t, from, to),
         to \notin {"n_open", "n_conn", "n_store"}
  PROVE  NoneStaler
<1>1. /\ Go(t, from, to) /\ s_cfg' = s_cfg /\ port' = port /\ s_tcp_sock' = s_tcp_sock
      /\ own' = [own EXCEPT ![t] = NoFd]
      /\ remote' = [f \in Fd |-> IF f = own[t] THEN Nowhere ELSE remote[f]]
  BY DEF Close, command, locals
<1>2. \A f \in Fd : f # own[t] => remote'[f] = remote[f]
  BY <1>1
<1>3. StalePublished' => StalePublished
  <2>1. s_tcp_sock # NoFd => s_tcp_sock \in Fd /\ s_tcp_sock # own[t]
    BY DEF Owned, SocketOwnership, TypeOK, DataOK
  <2> QED BY <1>1, <1>2, <2>1 DEF StalePublished
<1>4. StaleBegun' => StaleBegun
  <2>1. CASE t = "net"
    BY <1>1, <2>1, OthersStay DEF StaleBegun
  <2>2. CASE t # "net"
    <3>1. pc'["net"] = pc["net"] /\ own'["net"] = own["net"]
      BY <1>1, <2>2, OthersStay DEF Task, TypeOK, DataOK
    <3>2. pc["net"] \in {"n_conn", "n_store"} => own["net"] \in Fd /\ own["net"] # own[t]
      BY <2>2 DEF Owned, SocketOwnership, HeldWhere, TypeOK, DataOK, Task
    <3> QED BY <1>1, <1>2, <3>1, <3>2 DEF StaleBegun
  <2> QED BY <2>1, <2>2
<1> QED BY <1>3, <1>4 DEF NoneStaler, Stale

\* What the statements that several functions share leave alone.
LEMMA PlainKeeps ==
  ASSUME NEW t \in Task, NEW from, NEW to, Plain(t, from, to)
  PROVE  /\ Go(t, from, to)
         /\ UNCHANGED <<s_cfg, port, s_tcp_sock, own, remote, s_wifi_connected>>
         /\ s_reconnect_pending' =>
              s_reconnect_pending \/ SetPending(t, from, to, TRUE)
         /\ notify' = notify \/ notify'
         /\ wifi' = "up" => wifi = "up" /\ UNCHANGED events
<1>1. ASSUME NEW b, SetTcp(t, from, to, b) \/ SetEnabled(t, from, to, b) \/ SetNext(t, from, to, b)
      PROVE  /\ Go(t, from, to)
             /\ UNCHANGED <<command, locals, driver, fds, notify, s_reconnect_pending, s_wifi_connected>>
  BY <1>1 DEF SetTcp, SetEnabled, SetNext, policy, flags
<1>2. ASSUME NEW b \in BOOLEAN, SetPending(t, from, to, b)
      PROVE  /\ Go(t, from, to) /\ s_reconnect_pending' = b
             /\ UNCHANGED <<command, locals, driver, fds, notify, s_wifi_connected>>
  BY <1>2 DEF SetPending, flags
<1>3. CASE Notify(t, from, to)
  BY <1>3 DEF Notify, command, locals, driver, fds, sockets, flags, policy
<1>4. CASE WifiConnect(t, from, to) \/ WifiError(t, from, to) \/ WifiDisconnect(t, from, to)
  <2>1. /\ Go(t, from, to) /\ UNCHANGED <<flags, policy, command, notify, locals, fds>>
        /\ wifi' = "up" => wifi = "up" /\ UNCHANGED events
    BY <1>4 DEF WifiConnect, WifiError, WifiDisconnect, driver
  <2> QED BY <2>1 DEF command, locals, fds, sockets, flags, policy
<1> QED BY <1>1, <1>2, <1>3, <1>4 DEF Plain, command, locals, driver, fds, sockets

\* The driver's reports: the association is up only with its event in the
\* queue's last place or the flag set.
LEMMA LinkStays ==
  ASSUME TypeOK, LinkKnown, wifi' = "up" => wifi = "up" /\ UNCHANGED events,
         s_wifi_connected' = s_wifi_connected
  PROVE  LinkKnown'
BY DEF LinkKnown

\* A statement of the Harp task beside the stores of s_cfg.
LEMMA EndpointCore ==
  ASSUME TypeOK, EndpointInv, NoneStaler, NEW from, NEW to, Go("core", from, to),
         UNCHANGED <<s_cfg, s_wifi_connected>>,
         s_tcp_sock' \in {s_tcp_sock, NoFd},
         from # "ap_port", to # "ap_port",
         to \in {"recv", "send", "io_take"} => from \in {"recv", "send"} \/ ~StaleBegun,
         to \in {"io_close", "io_flag"} \union Scheduling
           => from \in {"io_close", "io_flag"} \union Scheduling \/ ~Stale',
         from \in Applying => to \in Applying \/ wifi' # "up",
         from = "ap_enabled" => to = "ap_pending",
         from = "ap_pending" => ~s_reconnect_pending',
         s_reconnect_pending' => s_reconnect_pending \/ ~Stale,
         notify => notify',
         wifi' = "up" => wifi = "up" /\ UNCHANGED events
  PROVE  EndpointInv'
<1>1. pc["core"] = from /\ pc'["core"] = to /\ pc'["net"] = pc["net"] /\ pc'["evt"] = pc["evt"]
  BY OthersStay DEF Task
<1>2. CfgWhole'
  BY <1>1 DEF EndpointInv, CfgWhole
<1>3. LinkKnown'
  BY LinkStays DEF EndpointInv
<1>4. CoreKnows'
  BY <1>1 DEF EndpointInv, CoreKnows, NoneStaler, Stale
<1>5. NothingPublished'
  BY <1>1 DEF EndpointInv, NothingPublished
<1>6. NotPostponed'
  BY <1>1 DEF EndpointInv, NotPostponed, NoneStaler
<1>7. Renewed'
  BY <1>1 DEF EndpointInv, Renewed, Renewal, NoneStaler, TcpEnabled
<1> QED BY <1>2, <1>3, <1>4, <1>5, <1>6, <1>7 DEF EndpointInv

\* A statement of network_task().
LEMMA EndpointNet ==
  ASSUME TypeOK, EndpointInv, NoneStaler, NEW from, NEW to, Go("net", from, to),
         UNCHANGED <<s_cfg, s_wifi_connected>>,
         to \in Scheduling => s_tcp_sock' = NoFd \/ (from \in Scheduling /\ s_tcp_sock' = s_tcp_sock),
         from \in Taking => to \in Taking \/ ~Stale' \/ ~TcpEnabled \/ ~s_wifi_connected,
         s_reconnect_pending' => s_reconnect_pending \/ ~Stale',
         notify => notify' \/ to = "n_cmd",
         wifi' = "up" => wifi = "up" /\ UNCHANGED events
  PROVE  EndpointInv'
<1>1. pc'["core"] = pc["core"] /\ pc["net"] = from /\ pc'["net"] = to /\ pc'["evt"] = pc["evt"]
  BY OthersStay DEF Task
<1>2. CfgWhole'
  BY <1>1 DEF EndpointInv, CfgWhole
<1>3. LinkKnown'
  BY LinkStays DEF EndpointInv
<1>4. CoreKnows'
  BY <1>1 DEF EndpointInv, CoreKnows, NoneStaler
<1>5. NothingPublished'
  BY <1>1 DEF EndpointInv, NothingPublished
<1>6. NotPostponed'
  BY <1>1 DEF EndpointInv, NotPostponed, NoneStaler
<1>7. Renewed'
  <2>1. wifi = "up" /\ ~s_wifi_connected => events # <<>>
    BY DEF EndpointInv, LinkKnown
  <2> QED BY <1>1, <2>1 DEF EndpointInv, Renewed, Renewal, NoneStaler, TcpEnabled, Taking
<1> QED BY <1>2, <1>3, <1>4, <1>5, <1>6, <1>7 DEF EndpointInv

\* A statement of the event handler, and a step of the environment.
LEMMA EndpointEvt ==
  ASSUME TypeOK, EndpointInv, NoneStaler, pc'["core"] = pc["core"], pc'["net"] = pc["net"],
         UNCHANGED s_cfg, LinkKnown', s_tcp_sock' \in {s_tcp_sock, NoFd},
         s_reconnect_pending' => s_reconnect_pending,
         pc["evt"] = "e_notify" => pc'["evt"] = "e_notify" \/ notify',
         notify => notify',
         wifi' = "up" => wifi = "up" \/ events' # <<>>,
         wifi' = "up" /\ events # <<>> => events' # <<>> \/ pc'["evt"] = "e_notify"
  PROVE  EndpointInv'
<1>1. CfgWhole' /\ CoreKnows' /\ NothingPublished' /\ NotPostponed'
  BY DEF EndpointInv, CfgWhole, CoreKnows, NothingPublished, NotPostponed, NoneStaler
<1>2. Renewed'
  BY DEF EndpointInv, Renewed, Renewal, NoneStaler, TcpEnabled
<1> QED BY <1>1, <1>2 DEF EndpointInv

\* The Harp task makes a connection stale only inside apply(), which ends its
\* association; what recv() and send() take back was the last one begun.
LEMMA CoreEndpoint ==
  ASSUME TypeOK, Owned, EndpointInv, CoreCall \/ TcpRead \/ CoreStep
  PROVE  EndpointInv'
<1> "core" \in Task
  BY DEF Task
<1> DEFINE Quiet1 == {"recv", "send", "io_take"}
           Quiet2 == {"io_close", "io_flag"} \union Scheduling
\* plain statements of apply(), disconnect() and of the failure path
<1>1. ASSUME NEW from, NEW to, Plain("core", from, to),
             from # "ap_port", to # "ap_port", to \notin Quiet1,
             to \in Quiet2 => from \in Quiet2,
             from \in Applying => to \in Applying \/ wifi' # "up",
             from = "ap_enabled" => to = "ap_pending",
             from = "ap_pending" => ~s_reconnect_pending',
             s_reconnect_pending' => s_reconnect_pending \/ from = "s_pending"
      PROVE  EndpointInv'
  <2>1. /\ Go("core", from, to)
        /\ UNCHANGED <<s_cfg, port, s_tcp_sock, own, remote, s_wifi_connected>>
        /\ notify => notify'
        /\ wifi' = "up" => wifi = "up" /\ UNCHANGED events
    BY <1>1, PlainKeeps
  <2>2. NoneStaler
    BY <2>1, StalerMove
  <2>3. from = "s_pending" => ~Stale
    BY <2>1, OthersStay DEF EndpointInv, CoreKnows, Scheduling
  <2>4. s_reconnect_pending' => s_reconnect_pending \/ ~Stale
    BY <1>1, <2>3
  <2>5. s_tcp_sock' \in {s_tcp_sock, NoFd} /\ UNCHANGED <<s_cfg, s_wifi_connected>>
    BY <2>1
  <2> HIDE DEF Quiet1, Quiet2
  <2> QED BY <1>1, <2>1, <2>2, <2>4, <2>5, EndpointCore DEF Quiet1, Quiet2
<1>2. ASSUME NEW c \in Cfg, Apply(c) PROVE EndpointInv'
  <2>1. pc["core"] = "idle" /\ pc'["core"] = "ap_port" /\ pc'["net"] = pc["net"]
    BY <1>2, OthersStay DEF Apply, Task
  <2>2. s_cfg' = [s_cfg EXCEPT !.ip = c]
    BY <1>2 DEF Apply
  <2>3. CfgWhole'
    BY <2>1, <2>2, CfgAssumption DEF CfgWhole, TypeOK, DataOK
  <2>4. LinkKnown' /\ NothingPublished'
    BY <1>2, <2>1 DEF Apply, EndpointInv, LinkKnown, NothingPublished, flags, driver, fds
  <2>5. CoreKnows' /\ NotPostponed' /\ Renewed'
    BY <2>1 DEF CoreKnows, NotPostponed, Renewed, Renewal, Applying, Scheduling
  <2> QED BY <2>3, <2>4, <2>5 DEF EndpointInv
<1>3. CASE ApplyPort
  <2>1. pc["core"] = "ap_port" /\ pc'["core"] = "ap_enabled" /\ pc'["net"] = pc["net"]
    BY <1>3, OthersStay DEF ApplyPort, Task
  <2>2. s_cfg' = [s_cfg EXCEPT !.port = s_cfg.ip]
    BY <1>3 DEF ApplyPort
  <2>3. CfgWhole'
    BY <2>1, <2>2 DEF CfgWhole, TypeOK, DataOK
  <2>4. LinkKnown' /\ NothingPublished'
    BY <1>3, <2>1 DEF ApplyPort, EndpointInv, LinkKnown, NothingPublished, flags, driver, fds
  <2>5. CoreKnows' /\ NotPostponed' /\ Renewed'
    BY <2>1 DEF CoreKnows, NotPostponed, Renewed, Renewal, Applying, Scheduling
  <2> QED BY <2>3, <2>4, <2>5 DEF EndpointInv
\* statements that neither store s_cfg nor talk to the driver
<1>4. ASSUME NEW from, NEW to, Go("core", from, to), NoneStaler,
             UNCHANGED <<s_cfg, flags, driver, notify, s_reconnect_pending>>,
             s_tcp_sock' \in {s_tcp_sock, NoFd},
             from \notin Applying, to # "ap_port",
             to \in Quiet1 => from \in {"recv", "send"} \/ ~StaleBegun,
             to \in Quiet2 => from \in Quiet2 \/ ~Stale'
      PROVE  EndpointInv'
  <2>1. UNCHANGED <<s_wifi_connected, wifi, events>>
    BY <1>4 DEF flags, driver
  <2> QED BY <1>4, <2>1, EndpointCore DEF Applying
<1>5. ASSUME NEW from, NEW to, Go("core", from, to),
             UNCHANGED <<s_cfg, flags, driver, notify, s_reconnect_pending, port, fds>>,
             from \notin Applying, to # "ap_port",
             to \in Quiet1 => from \in {"recv", "send"} \/ ~StaleBegun,
             to \in Quiet2 => from \in Quiet2
      PROVE  EndpointInv'
  <2>1. UNCHANGED <<s_tcp_sock, own, remote>>
    BY <1>5 DEF fds, sockets
  <2>2. NoneStaler
    BY <1>5, <2>1, StalerMove
  <2> QED BY <1>4, <1>5, <2>1, <2>2
<1>6. CASE ApplyWifiOff \/ Disconnect \/ ApplyCommand
  <2>1. \E from \in {"idle", "ap_cmd"}, to \in {"off_pending", "dc_enabled", "idle"} :
           Go("core", from, to)
    BY <1>6 DEF ApplyWifiOff, Disconnect, ApplyCommand
  <2>2. UNCHANGED <<s_cfg, flags, driver, notify, s_reconnect_pending, port, fds>>
    BY <1>6 DEF ApplyWifiOff, Disconnect, ApplyCommand, command, locals, policy
  <2> QED BY <1>5, <2>1, <2>2 DEF Applying, Scheduling
<1>7. ASSUME NEW op \in {"recv", "send"}, TcpLoad(op) PROVE EndpointInv'
  <2>1. ~StaleBegun
    BY <1>7 DEF TcpLoad, StaleBegun, Owned, HeldWhere
  <2>2. UNCHANGED <<s_cfg, flags, driver, notify, s_reconnect_pending, port, fds>>
    BY <1>7 DEF TcpLoad, command, policy
  <2>3. Go("core", "idle", op)
    BY <1>7 DEF TcpLoad
  <2> QED BY <1>5, <2>1, <2>2, <2>3 DEF Applying, Scheduling
<1>8. ASSUME NEW op \in {"recv", "send"}, IoOk(op) \/ IoFail(op) PROVE EndpointInv'
  <2>1. \E to \in {"idle", "io_take"} : Go("core", op, to)
    BY <1>8 DEF IoOk, IoFail
  <2>2. UNCHANGED <<s_cfg, flags, driver, notify, s_reconnect_pending, port, fds>>
    BY <1>8 DEF IoOk, IoFail, command, policy
  <2> QED BY <1>5, <2>1, <2>2 DEF Applying, Scheduling
<1>9. CASE Exchange("core", "io_take", "io_close")
  <2>1. NoneStaler /\ ~StalePublished'
    BY <1>9, StalerExchange DEF Holding
  <2>2. pc["core"] = "io_take"
    BY <1>9 DEF Exchange, Go
  <2>3. ~Stale'
    BY <2>1, <2>2 DEF EndpointInv, CoreKnows, NoneStaler, Stale
  <2>4. /\ Go("core", "io_take", "io_close") /\ s_tcp_sock' = NoFd
        /\ UNCHANGED <<s_cfg, flags, driver, notify, s_reconnect_pending>>
    BY <1>9 DEF Exchange, command, policy
  <2> QED BY <1>4, <2>1, <2>3, <2>4 DEF Applying, Scheduling
<1>10. CASE Close("core", "io_close", "io_flag")
  <2>1. NoneStaler
    BY <1>10, StalerClose
  <2>2. /\ Go("core", "io_close", "io_flag") /\ s_tcp_sock' = s_tcp_sock
        /\ UNCHANGED <<s_cfg, flags, driver, notify, s_reconnect_pending>>
    BY <1>10 DEF Close, command, policy
  <2> QED BY <1>4, <2>1, <2>2 DEF Applying, Scheduling
<1>11. CASE ScheduleCheck("core", "idle")
  <2>1. \E to \in {"s_next", "idle"} : Go("core", "s_check", to)
    BY <1>11 DEF ScheduleCheck
  <2>2. UNCHANGED <<s_cfg, flags, driver, notify, s_reconnect_pending, port, fds>>
    BY <1>11 DEF ScheduleCheck, command, policy, locals
  <2> QED BY <1>5, <2>1, <2>2 DEF Applying, Scheduling
<1>12. ASSUME NEW from, NEW to,
              \/ SetTcp("core", from, to, FALSE) \/ SetNext("core", from, to, "past")
              \/ SetNext("core", from, to, "future") \/ SetEnabled("core", from, to, TRUE)
              \/ SetEnabled("core", from, to, FALSE) \/ SetPending("core", from, to, FALSE)
              \/ Notify("core", from, to) \/ WifiConnect("core", from, to)
              \/ WifiError("core", from, to)
       PROVE  /\ Plain("core", from, to)
              /\ s_reconnect_pending' => s_reconnect_pending
  <2>1. Plain("core", from, to)
    BY <1>12 DEF Plain
  <2>2. s_reconnect_pending' => s_reconnect_pending
    BY <1>12 DEF SetTcp, SetNext, SetEnabled, SetPending, Notify, WifiConnect, WifiError, policy
  <2> QED BY <2>1, <2>2
<1>13. CASE ApplyStep
  <2>1. CASE SetPending("core", "off_pending", "off_next", FALSE)
    <3>1. Plain("core", "off_pending", "off_next") /\ (s_reconnect_pending' => s_reconnect_pending)
      BY <1>12, <2>1
    <3> QED BY <1>1, <3>1 DEF Applying, Scheduling
  <2>2. CASE SetPending("core", "ap_pending", "ap_next", FALSE)
    <3>1. ~s_reconnect_pending'
      BY <2>2 DEF SetPending
    <3>2. Plain("core", "ap_pending", "ap_next")
      BY <1>12, <2>2
    <3> QED BY <1>1, <3>1, <3>2 DEF Applying, Scheduling
  <2>3. CASE SetNext("core", "off_next", "idle", "past")
    <3>1. Plain("core", "off_next", "idle") /\ (s_reconnect_pending' => s_reconnect_pending)
      BY <1>12, <2>3
    <3> QED BY <1>1, <3>1 DEF Applying, Scheduling
  <2>4. CASE SetNext("core", "ap_next", "ap_disc", "past")
    <3>1. Plain("core", "ap_next", "ap_disc") /\ (s_reconnect_pending' => s_reconnect_pending)
      BY <1>12, <2>4
    <3> QED BY <1>1, <3>1 DEF Applying, Scheduling
  <2>5. CASE SetEnabled("core", "ap_enabled", "ap_pending", TRUE)
    <3>1. Plain("core", "ap_enabled", "ap_pending") /\ (s_reconnect_pending' => s_reconnect_pending)
      BY <1>12, <2>5
    <3> QED BY <1>1, <3>1 DEF Applying, Scheduling
  <2>6. CASE WifiDisconnect("core", "ap_disc", "ap_conn")
    <3>1. wifi' # "up" /\ s_reconnect_pending' = s_reconnect_pending
      BY <2>6 DEF WifiDisconnect, driver, policy
    <3>2. Plain("core", "ap_disc", "ap_conn")
      BY <2>6 DEF Plain
    <3> QED BY <1>1, <3>1, <3>2 DEF Scheduling
  <2>7. CASE WifiConnect("core", "ap_conn", "ap_cmd")
    <3>1. Plain("core", "ap_conn", "ap_cmd") /\ (s_reconnect_pending' => s_reconnect_pending)
      BY <1>12, <2>7
    <3> QED BY <1>1, <3>1 DEF Applying, Scheduling
  <2>8. CASE WifiError("core", "ap_conn", "idle")
    <3>1. Plain("core", "ap_conn", "idle") /\ (s_reconnect_pending' => s_reconnect_pending)
      BY <1>12, <2>8
    <3> QED BY <1>1, <3>1 DEF Applying, Scheduling
  <2> QED BY <1>3, <1>6, <1>13, <2>1, <2>2, <2>3, <2>4, <2>5, <2>6, <2>7, <2>8
          DEF ApplyStep
<1>14. CASE DisconnectStep
  <2>1. CASE SetEnabled("core", "dc_enabled", "dc_pending", FALSE)
    <3>1. Plain("core", "dc_enabled", "dc_pending") /\ (s_reconnect_pending' => s_reconnect_pending)
      BY <1>12, <2>1
    <3> QED BY <1>1, <3>1 DEF Applying, Scheduling
  <2>2. CASE SetPending("core", "dc_pending", "dc_next", FALSE)
    <3>1. Plain("core", "dc_pending", "dc_next") /\ (s_reconnect_pending' => s_reconnect_pending)
      BY <1>12, <2>2
    <3> QED BY <1>1, <3>1 DEF Applying, Scheduling
  <2>3. CASE SetNext("core", "dc_next", "dc_notify", "past")
    <3>1. Plain("core", "dc_next", "dc_notify") /\ (s_reconnect_pending' => s_reconnect_pending)
      BY <1>12, <2>3
    <3> QED BY <1>1, <3>1 DEF Applying, Scheduling
  <2>4. CASE Notify("core", "dc_notify", "idle")
    <3>1. Plain("core", "dc_notify", "idle") /\ (s_reconnect_pending' => s_reconnect_pending)
      BY <1>12, <2>4
    <3> QED BY <1>1, <3>1 DEF Applying, Scheduling
  <2> QED BY <1>14, <2>1, <2>2, <2>3, <2>4 DEF DisconnectStep
<1>15. CASE SetTcp("core", "io_flag", "s_check", FALSE)
            \/ SetNext("core", "s_next", "s_pending", "future")
            \/ Notify("core", "s_notify", "idle")
  <2>1. CASE SetTcp("core", "io_flag", "s_check", FALSE)
    <3>1. Plain("core", "io_flag", "s_check") /\ (s_reconnect_pending' => s_reconnect_pending)
      BY <1>12, <2>1
    <3> QED BY <1>1, <3>1 DEF Applying, Scheduling
  <2>2. CASE SetNext("core", "s_next", "s_pending", "future")
    <3>1. Plain("core", "s_next", "s_pending") /\ (s_reconnect_pending' => s_reconnect_pending)
      BY <1>12, <2>2
    <3> QED BY <1>1, <3>1 DEF Applying, Scheduling
  <2>3. CASE Notify("core", "s_notify", "idle")
    <3>1. Plain("core", "s_notify", "idle") /\ (s_reconnect_pending' => s_reconnect_pending)
      BY <1>12, <2>3
    <3> QED BY <1>1, <3>1 DEF Applying, Scheduling
  <2> QED BY <1>15, <2>1, <2>2, <2>3
<1>16. CASE SetPending("core", "s_pending", "s_notify", TRUE)
  <2>1. Plain("core", "s_pending", "s_notify")
    BY <1>16 DEF Plain
  <2> QED BY <1>1, <2>1 DEF Applying, Scheduling
<1> QED BY <1>2, <1>6, <1>7, <1>8, <1>9, <1>10, <1>11, <1>13,
           <1>14, <1>15, <1>16
        DEF CoreCall, TcpRead, CoreStep, IoStep, Schedule

\* network_task() begins a connection with what s_cfg holds, publishes it where
\* nothing is published, and takes the published one back once it was notified.
LEMMA NetEndpoint ==
  ASSUME TypeOK, Owned, EndpointInv, NetStep
  PROVE  EndpointInv'
<1> "net" \in Task
  BY DEF Task
\* statements that touch no descriptor and begin no connection
<1>1. ASSUME NEW from, NEW to, Go("net", from, to),
             UNCHANGED <<s_cfg, port, s_tcp_sock, own, remote, s_wifi_connected, wifi, events>>,
             to \notin {"n_open", "n_conn"}, to = "n_store" => from = "n_conn",
             to \in Scheduling => from \in Scheduling \/ s_tcp_sock = NoFd,
             from \in Taking => to \in Taking \/ ~Stale \/ ~TcpEnabled \/ ~s_wifi_connected,
             s_reconnect_pending' => s_reconnect_pending \/ ~Stale,
             notify => notify' \/ to = "n_cmd"
      PROVE  EndpointInv'
  <2>1. NoneStaler
    BY <1>1, StalerMove
  <2>2. s_reconnect_pending' => s_reconnect_pending \/ ~Stale'
    BY <1>1, <2>1 DEF NoneStaler
  <2>3. from \in Taking => to \in Taking \/ ~Stale' \/ ~TcpEnabled \/ ~s_wifi_connected
    BY <1>1, <2>1 DEF NoneStaler
  <2> QED BY <1>1, <2>1, <2>2, <2>3, EndpointNet
\* network_task() in schedule_tcp_reconnect(): nothing is published or begun
<1>2. pc["net"] \in Scheduling => ~Stale
  BY DEF EndpointInv, NothingPublished, Scheduling, Stale, StaleBegun, StalePublished
<1>3. CASE NetTop \/ NetWake \/ NetCmd
  <2>1. UNCHANGED <<s_cfg, port, s_tcp_sock, own, remote, s_wifi_connected, wifi, events,
                    s_reconnect_pending>>
    BY <1>3 DEF NetTop, NetWake, NetCmd, command, locals, fds, sockets, flags, driver, policy
  <2>2. \/ Go("net", "n_top", "n_wait") /\ notify' = notify
        \/ Go("net", "n_wait", "n_cmd")
        \/ \E to \in {"d_pending", "n_ready"} : Go("net", "n_cmd", to) /\ notify' = notify
    BY <1>3 DEF NetTop, NetWake, NetCmd
  <2> QED BY <1>1, <2>1, <2>2 DEF Taking, Scheduling
<1>4. CASE NetReady
  <2>1. UNCHANGED <<s_cfg, port, s_tcp_sock, own, remote, s_wifi_connected, wifi, events,
                    s_reconnect_pending, notify>>
    BY <1>4 DEF NetReady, command, locals, fds, sockets, flags, driver, policy
  <2>2. TcpEnabled => s_cfg.ip # NoCfg
    BY CfgAssumption DEF TcpEnabled, EndpointInv, CfgWhole
  <2>3. \/ Go("net", "n_ready", "n_due")
        \/ Go("net", "n_ready", "n_top") /\ (~s_wifi_connected \/ ~TcpEnabled)
    BY <1>4, <2>2 DEF NetReady
  <2> QED BY <1>1, <2>1, <2>3 DEF Taking, Scheduling
<1>5. CASE NetDue
  <2>1. UNCHANGED <<s_cfg, port, s_tcp_sock, own, remote, s_wifi_connected, wifi, events,
                    s_reconnect_pending, notify>>
    BY <1>5 DEF NetDue, command, locals, fds, sockets, flags, driver, policy
  <2>2. CASE Go("net", "n_due", "n_take")
    BY <1>1, <2>1, <2>2 DEF Taking, Scheduling
  <2>3. CASE Go("net", "n_due", "n_top") /\ s_reconnect_pending
    <3>1. pc'["net"] = "n_top" /\ pc'["core"] = pc["core"]
      BY <2>3, OthersStay DEF Task
    <3>2. NoneStaler
      BY <2>1, <2>3, StalerMove
    <3>3. CfgWhole' /\ LinkKnown' /\ CoreKnows' /\ NothingPublished' /\ NotPostponed'
      BY <2>1, <3>1, <3>2 DEF EndpointInv, CfgWhole, LinkKnown, CoreKnows, NothingPublished,
                              NotPostponed, NoneStaler, Scheduling
    <3>4. Renewed'
      BY <2>1, <2>3, <3>1, <3>2
         DEF EndpointInv, NotPostponed, Renewed, Renewal, Applying, NoneStaler
    <3> QED BY <3>3, <3>4 DEF EndpointInv
  <2> QED BY <1>5, <2>2, <2>3 DEF NetDue
<1>6. ASSUME NEW from \in {"d_take", "n_take"}, NEW to \in {"d_close", "n_close"},
             Exchange("net", from, to)
      PROVE  EndpointInv'
  <2>1. NoneStaler /\ ~Stale'
    BY <1>6, StalerExchange DEF Holding
  <2>2. Go("net", from, to)
    BY <1>6 DEF Exchange
  <2>3. UNCHANGED <<s_cfg, s_wifi_connected, wifi, events, s_reconnect_pending, notify>>
    BY <1>6 DEF Exchange, command, flags, driver, policy
  <2> QED BY <2>1, <2>2, <2>3, EndpointNet DEF Scheduling
<1>7. ASSUME NEW from, NEW to, Close("net", from, to),
             <<from, to>> \in {<<"d_close", "d_flag">>, <<"n_close", "n_down">>,
                               <<"n_fail", "s_check">>}
      PROVE  EndpointInv'
  <2>1. NoneStaler
    BY <1>7, StalerClose
  <2>2. Go("net", from, to) /\ s_tcp_sock' = s_tcp_sock
    BY <1>7 DEF Close
  <2>3. UNCHANGED <<s_cfg, s_wifi_connected, wifi, events, s_reconnect_pending, notify>>
    BY <1>7 DEF Close, command, flags, driver, policy
  <2>4. from = "n_fail" => s_tcp_sock = NoFd
    BY <2>2 DEF Go, Owned, HeldWhere
  <2>5. from \notin Taking /\ (to \in Scheduling => from = "n_fail")
    BY <1>7 DEF Taking, Scheduling
  <2> QED BY <2>1, <2>2, <2>3, <2>4, <2>5, EndpointNet
<1>8. ASSUME NEW from, NEW to, Plain("net", from, to), to \notin {"n_open", "n_conn", "n_store"},
             to \in Scheduling => from \in Scheduling,
             from \in Taking => to \in Taking,
             s_reconnect_pending' => s_reconnect_pending \/ from = "s_pending"
      PROVE  EndpointInv'
  <2>1. /\ Go("net", from, to)
        /\ UNCHANGED <<s_cfg, port, s_tcp_sock, own, remote, s_wifi_connected>>
        /\ notify => notify'
        /\ wifi' = "up" => wifi = "up" /\ UNCHANGED events
    BY <1>8, PlainKeeps
  <2>2. NoneStaler
    BY <1>8, <2>1, StalerMove
  <2>3. from = "s_pending" => ~Stale'
    BY <1>2, <2>1, <2>2 DEF Go, Scheduling, NoneStaler
  <2>4. s_reconnect_pending' => s_reconnect_pending \/ ~Stale'
    BY <1>8, <2>3
  <2>5. UNCHANGED <<s_cfg, s_wifi_connected>> /\ s_tcp_sock' = s_tcp_sock
    BY <2>1
  <2> QED BY <1>8, <2>1, <2>2, <2>4, <2>5, EndpointNet
<1>9. CASE NetPort
  <2>1. /\ Go("net", "n_port", "n_open") /\ port' = s_cfg.port
        /\ UNCHANGED <<s_cfg, s_tcp_sock, remote, s_wifi_connected, wifi, events,
                       s_reconnect_pending, notify>>
    BY <1>9 DEF NetPort, command, flags, driver, policy, fds, sockets
  <2>2. pc'["net"] = "n_open"
    BY <2>1, OthersStay DEF Task
  <2>3. NoneStaler
    BY <2>1, <2>2 DEF NoneStaler, Stale, StaleBegun, StalePublished
  <2> QED BY <2>1, <2>3, EndpointNet DEF Scheduling, Taking
<1>10. ASSUME NEW f \in Fd, NetOpen(f) PROVE EndpointInv'
  <2>1. /\ Go("net", "n_open", "n_conn") /\ own' = [own EXCEPT !["net"] = f]
        /\ remote' = [remote EXCEPT ![f] = [ip |-> s_cfg.ip, port |-> port]]
        /\ UNCHANGED <<s_cfg, s_tcp_sock, s_wifi_connected, wifi, events,
                       s_reconnect_pending, notify>>
    BY <1>10 DEF NetOpen, command, flags, driver, policy
  <2>2. pc["net"] = "n_open" /\ pc'["net"] = "n_conn"
    BY <2>1, OthersStay DEF Task
  <2>3. s_tcp_sock = NoFd
    BY <2>2 DEF Owned, HeldWhere
  <2>4. own'["net"] = f /\ remote'[f] = [ip |-> s_cfg.ip, port |-> port]
    BY <2>1 DEF TypeOK, DataOK, Task
  <2>5. port = s_cfg.port => [ip |-> s_cfg.ip, port |-> port] = s_cfg
    BY DEF TypeOK, DataOK
  <2>6. NoneStaler
    BY <2>1, <2>2, <2>3, <2>4, <2>5 DEF NoneStaler, Stale, StaleBegun, StalePublished
  <2> QED BY <2>1, <2>3, <2>6, EndpointNet DEF Scheduling, Taking
<1>11. CASE NetOpenFails
  <2>1. /\ Go("net", "n_open", "s_check")
        /\ UNCHANGED <<s_cfg, s_tcp_sock, remote, s_wifi_connected, wifi, events,
                       s_reconnect_pending, notify>>
    BY <1>11 DEF NetOpenFails, command, flags, driver, policy, fds, sockets
  <2>2. pc["net"] = "n_open" /\ pc'["net"] = "s_check"
    BY <2>1, OthersStay DEF Task
  <2>3. s_tcp_sock = NoFd
    BY <2>2 DEF Owned, HeldWhere
  <2>4. NoneStaler
    BY <2>1, <2>2, <2>3 DEF NoneStaler, Stale, StaleBegun, StalePublished
  <2> QED BY <2>1, <2>3, <2>4, EndpointNet DEF Taking
<1>12. CASE NetConnects \/ NetConnectFails
  <2>1. \E to \in {"n_store", "n_fail"} : Go("net", "n_conn", to)
    BY <1>12 DEF NetConnects, NetConnectFails
  <2>2. UNCHANGED <<s_cfg, port, s_tcp_sock, own, remote, s_wifi_connected, wifi, events,
                    s_reconnect_pending, notify>>
    BY <1>12 DEF NetConnects, NetConnectFails, command, locals, fds, sockets, flags, driver, policy
  <2> QED BY <1>1, <2>1, <2>2 DEF Taking, Scheduling
<1>13. CASE NetStore
  <2>1. /\ Go("net", "n_store", "n_flag") /\ s_tcp_sock' = own["net"]
        /\ UNCHANGED <<s_cfg, remote, s_wifi_connected, wifi, events,
                       s_reconnect_pending, notify>>
    BY <1>13 DEF NetStore, command, flags, driver, policy, sockets
  <2>2. pc["net"] = "n_store" /\ pc'["net"] = "n_flag"
    BY <2>1, OthersStay DEF Task
  <2>3. NoneStaler
    BY <2>1, <2>2 DEF NoneStaler, Stale, StaleBegun, StalePublished
  <2> QED BY <2>1, <2>3, EndpointNet DEF Scheduling, Taking
<1>14. CASE ScheduleCheck("net", "n_top")
  <2>1. \E to \in {"s_next", "n_top"} : Go("net", "s_check", to)
    BY <1>14 DEF ScheduleCheck
  <2>2. UNCHANGED <<s_cfg, port, s_tcp_sock, own, remote, s_wifi_connected, wifi, events,
                    s_reconnect_pending, notify>>
    BY <1>14 DEF ScheduleCheck, command, locals, fds, sockets, flags, driver, policy
  <2> QED BY <1>1, <2>1, <2>2 DEF Taking, Scheduling
<1>15. ASSUME NEW from, NEW to,
              \/ SetTcp("net", from, to, FALSE) \/ SetTcp("net", from, to, TRUE)
              \/ SetNext("net", from, to, "past") \/ SetNext("net", from, to, "future")
              \/ SetPending("net", from, to, FALSE)
              \/ Notify("net", from, to) \/ WifiDisconnect("net", from, to)
       PROVE  /\ Plain("net", from, to)
              /\ s_reconnect_pending' => s_reconnect_pending
  <2>1. Plain("net", from, to)
    BY <1>15 DEF Plain
  <2>2. s_reconnect_pending' => s_reconnect_pending
    BY <1>15 DEF SetTcp, SetNext, SetPending, Notify, WifiDisconnect, policy
  <2> QED BY <2>1, <2>2
<1>16. CASE \/ SetPending("net", "d_pending", "d_next", FALSE)
           \/ SetNext("net", "d_next", "d_take", "past")
           \/ SetTcp("net", "d_flag", "d_wifi", FALSE)
           \/ WifiDisconnect("net", "d_wifi", "n_top")
  <2>1. CASE SetPending("net", "d_pending", "d_next", FALSE)
    <3>1. Plain("net", "d_pending", "d_next") /\ (s_reconnect_pending' => s_reconnect_pending)
      BY <1>15, <2>1
    <3> QED BY <1>8, <3>1 DEF Taking, Scheduling
  <2>2. CASE SetNext("net", "d_next", "d_take", "past")
    <3>1. Plain("net", "d_next", "d_take") /\ (s_reconnect_pending' => s_reconnect_pending)
      BY <1>15, <2>2
    <3> QED BY <1>8, <3>1 DEF Taking, Scheduling
  <2>3. CASE SetTcp("net", "d_flag", "d_wifi", FALSE)
    <3>1. Plain("net", "d_flag", "d_wifi") /\ (s_reconnect_pending' => s_reconnect_pending)
      BY <1>15, <2>3
    <3> QED BY <1>8, <3>1 DEF Taking, Scheduling
  <2>4. CASE WifiDisconnect("net", "d_wifi", "n_top")
    <3>1. Plain("net", "d_wifi", "n_top") /\ (s_reconnect_pending' => s_reconnect_pending)
      BY <1>15, <2>4
    <3> QED BY <1>8, <3>1 DEF Taking, Scheduling
  <2> QED BY <1>16, <2>1, <2>2, <2>3, <2>4
<1>17. CASE \/ SetTcp("net", "n_down", "n_port", FALSE)
           \/ SetTcp("net", "n_flag", "n_pending", TRUE)
           \/ SetPending("net", "n_pending", "n_next", FALSE)
           \/ SetNext("net", "n_next", "n_top", "past")
  <2>1. CASE SetTcp("net", "n_down", "n_port", FALSE)
    <3>1. Plain("net", "n_down", "n_port") /\ (s_reconnect_pending' => s_reconnect_pending)
      BY <1>15, <2>1
    <3> QED BY <1>8, <3>1 DEF Taking, Scheduling
  <2>2. CASE SetTcp("net", "n_flag", "n_pending", TRUE)
    <3>1. Plain("net", "n_flag", "n_pending") /\ (s_reconnect_pending' => s_reconnect_pending)
      BY <1>15, <2>2
    <3> QED BY <1>8, <3>1 DEF Taking, Scheduling
  <2>3. CASE SetPending("net", "n_pending", "n_next", FALSE)
    <3>1. Plain("net", "n_pending", "n_next") /\ (s_reconnect_pending' => s_reconnect_pending)
      BY <1>15, <2>3
    <3> QED BY <1>8, <3>1 DEF Taking, Scheduling
  <2>4. CASE SetNext("net", "n_next", "n_top", "past")
    <3>1. Plain("net", "n_next", "n_top") /\ (s_reconnect_pending' => s_reconnect_pending)
      BY <1>15, <2>4
    <3> QED BY <1>8, <3>1 DEF Taking, Scheduling
  <2> QED BY <1>17, <2>1, <2>2, <2>3, <2>4
<1>18. CASE SetNext("net", "s_next", "s_pending", "future") \/ Notify("net", "s_notify", "n_top")
  <2>1. CASE SetNext("net", "s_next", "s_pending", "future")
    <3>1. Plain("net", "s_next", "s_pending") /\ (s_reconnect_pending' => s_reconnect_pending)
      BY <1>15, <2>1
    <3> QED BY <1>8, <3>1 DEF Taking, Scheduling
  <2>2. CASE Notify("net", "s_notify", "n_top")
    <3>1. Plain("net", "s_notify", "n_top") /\ (s_reconnect_pending' => s_reconnect_pending)
      BY <1>15, <2>2
    <3> QED BY <1>8, <3>1 DEF Taking, Scheduling
  <2> QED BY <1>18, <2>1, <2>2
<1>19. CASE SetPending("net", "s_pending", "s_notify", TRUE)
  <2>1. Plain("net", "s_pending", "s_notify")
    BY <1>19 DEF Plain
  <2> QED BY <1>8, <2>1 DEF Taking, Scheduling
<1>20. CASE Schedule("net", "n_top")
  BY <1>14, <1>18, <1>19, <1>20 DEF Schedule
<1> QED BY <1>3, <1>4, <1>5, <1>6, <1>7, <1>9, <1>10, <1>11, <1>12, <1>13, <1>16, <1>17,
           <1>20 DEF NetStep

\* Taking the head off a queue leaves its last element, or nothing.
LEMMA LastOfTail ==
  ASSUME NEW S, NEW s \in Seq(S), s # <<>>
  PROVE  \/ Tail(s) = <<>> /\ s[Len(s)] = Head(s)
         \/ Tail(s) # <<>> /\ Tail(s)[Len(Tail(s))] = s[Len(s)]
<1> DEFINE t == Tail(s)  n == Len(s)  m == Len(t)
<1>1. n \in Nat \ {0} /\ m = n - 1 /\ (t # <<>> => m # 0)
  <2>1. n \in Nat \ {0}
    BY EmptySeq
  <2>2. m = n - 1 /\ t \in Seq(S)
    BY HeadTailProperties
  <2>3. t # <<>> => m \in Nat \ {0}
    BY <2>2, EmptySeq
  <2> QED BY <2>1, <2>2, <2>3
<1>2. \A i \in 1..m : t[i] = s[i + 1]
  BY HeadTailProperties
<1>3. m = 0 => t = <<>>
  BY EmptySeq, HeadTailProperties
<1>4. s[1] = Head(s)
  OBVIOUS
<1> HIDE DEF t, n, m
<1>5. CASE m = 0
  <2>1. n = 1
    BY <1>1, <1>5
  <2> QED BY <1>3, <1>4, <1>5, <2>1 DEF t, n
<1>6. CASE m # 0
  <2>1. m \in 1..m /\ m + 1 = n
    BY <1>1, <1>6
  <2>2. t[m] = s[n]
    BY <1>2, <2>1
  <2>3. t # <<>>
    BY <1>6, EmptySeq DEF m
  <2> QED BY <2>2, <2>3 DEF t, n, m
<1> QED BY <1>5, <1>6

\* The event handler takes the published connection back, or tells
\* network_task() of the new association.
LEMMA EvtEndpoint ==
  ASSUME TypeOK, Owned, EndpointInv, EvtStep
  PROVE  EndpointInv'
<1> "evt" \in Task
  BY DEF Task
<1>1. events # <<>> => \/ Tail(events) = <<>> /\ events[Len(events)] = Head(events)
                       \/ /\ Tail(events) # <<>>
                          /\ Tail(events)[Len(Tail(events))] = events[Len(events)]
  BY LastOfTail DEF TypeOK, DataOK
<1>2. ASSUME NEW from, NEW to, Go("evt", from, to) PROVE
        /\ pc["evt"] = from /\ pc'["evt"] = to
        /\ pc'["core"] = pc["core"] /\ pc'["net"] = pc["net"]
  BY <1>2, OthersStay DEF Task
<1>3. CASE EvtDisconnected \/ EvtGotIp
  <2>1. /\ events # <<>> /\ events' = Tail(events)
        /\ UNCHANGED <<s_cfg, port, s_tcp_sock, own, remote, wifi, s_reconnect_pending, notify>>
    BY <1>3 DEF EvtDisconnected, EvtGotIp, command, locals, fds, sockets, policy
  <2>2. \/ /\ Head(events) = "disconnected" /\ Go("evt", "idle", "e_flag")
        \/ /\ Head(events) = "gotip" /\ Go("evt", "idle", "e_notify") /\ s_wifi_connected'
    BY <1>3 DEF EvtDisconnected, EvtGotIp
  <2>3. NoneStaler
    BY <2>1, <2>2, StalerMove
  <2>4. LinkKnown'
    BY <1>1, <2>1, <2>2 DEF EndpointInv, LinkKnown
  <2>5. wifi' = "up" => events' # <<>> \/ pc'["evt"] = "e_notify"
    BY <1>1, <1>2, <2>1, <2>2 DEF EndpointInv, LinkKnown
  <2> QED BY <1>2, <2>1, <2>2, <2>3, <2>4, <2>5, EndpointEvt
<1>4. ASSUME NEW from, NEW to, Go("evt", from, to), NoneStaler,
             UNCHANGED <<s_cfg, s_wifi_connected>>, s_tcp_sock' \in {s_tcp_sock, NoFd},
             s_reconnect_pending' => s_reconnect_pending, notify => notify',
             wifi' = "up" => wifi = "up" /\ UNCHANGED events,
             from = "e_notify" => notify'
      PROVE  EndpointInv'
  <2>1. LinkKnown'
    BY <1>4, LinkStays DEF EndpointInv
  <2> QED BY <1>2, <1>4, <2>1, EndpointEvt
<1>5. CASE EvtCheck
  <2>1. /\ \E to : Go("evt", "e_check", to)
        /\ UNCHANGED <<s_cfg, port, s_tcp_sock, own, remote, wifi, events, s_wifi_connected,
                       s_reconnect_pending, notify>>
    BY <1>5 DEF EvtCheck, command, locals, fds, sockets, policy, flags, driver
  <2>2. NoneStaler
    BY <2>1, StalerMove
  <2> QED BY <1>4, <2>1, <2>2
<1>6. CASE Exchange("evt", "e_take", "e_close")
  <2>1. NoneStaler
    BY <1>6, StalerExchange DEF Holding
  <2>2. /\ Go("evt", "e_take", "e_close") /\ s_tcp_sock' = NoFd
        /\ UNCHANGED <<s_cfg, wifi, events, s_wifi_connected, s_reconnect_pending, notify>>
    BY <1>6 DEF Exchange, command, policy, flags, driver
  <2> QED BY <1>4, <2>1, <2>2
<1>7. CASE Close("evt", "e_close", "e_check")
  <2>1. NoneStaler
    BY <1>7, StalerClose
  <2>2. /\ Go("evt", "e_close", "e_check") /\ s_tcp_sock' = s_tcp_sock
        /\ UNCHANGED <<s_cfg, wifi, events, s_wifi_connected, s_reconnect_pending, notify>>
    BY <1>7 DEF Close, command, policy, flags, driver
  <2> QED BY <1>4, <2>1, <2>2
<1>8. ASSUME NEW from, NEW to, Plain("evt", from, to),
             s_reconnect_pending' => s_reconnect_pending, from = "e_notify" => notify'
      PROVE  EndpointInv'
  <2>1. /\ Go("evt", from, to)
        /\ UNCHANGED <<s_cfg, port, s_tcp_sock, own, remote, s_wifi_connected>>
        /\ notify => notify'
        /\ wifi' = "up" => wifi = "up" /\ UNCHANGED events
    BY <1>8, PlainKeeps
  <2>2. NoneStaler
    BY <2>1, StalerMove
  <2> QED BY <1>4, <1>8, <2>1, <2>2
<1>9. CASE SetTcp("evt", "e_flag", "e_pending", FALSE)
  <2>1. Plain("evt", "e_flag", "e_pending") /\ s_reconnect_pending' = s_reconnect_pending
    BY <1>9 DEF Plain, SetTcp, policy
  <2> QED BY <1>8, <2>1
<1>10. CASE SetPending("evt", "e_pending", "e_take", FALSE)
  <2>1. Plain("evt", "e_pending", "e_take") /\ ~s_reconnect_pending'
    BY <1>10 DEF Plain, SetPending
  <2> QED BY <1>8, <2>1
<1>11. CASE WifiConnect("evt", "e_conn", "idle") \/ WifiError("evt", "e_conn", "idle")
  <2>1. Plain("evt", "e_conn", "idle") /\ s_reconnect_pending' = s_reconnect_pending
    BY <1>11 DEF Plain, WifiConnect, WifiError, policy
  <2> QED BY <1>8, <2>1
<1>12. CASE Notify("evt", "e_notify", "idle")
  <2>1. Plain("evt", "e_notify", "idle") /\ s_reconnect_pending' = s_reconnect_pending /\ notify'
    BY <1>12 DEF Plain, Notify, policy
  <2> QED BY <1>8, <2>1
<1> QED BY <1>3, <1>5, <1>6, <1>7, <1>9, <1>10, <1>11, <1>12 DEF EvtStep

\* A new association comes with its event; a lost one makes nothing stale.
LEMMA EnvironmentEndpoint ==
  ASSUME TypeOK, EndpointInv, Environment
  PROVE  EndpointInv'
<1>1. UNCHANGED <<pc, s_cfg, s_tcp_sock, own, remote, port, s_wifi_connected,
                  s_reconnect_pending, notify>>
  BY DEF Environment, Associates, LinkLost, DeadlinePasses, PeerFails, flags, policy, command,
         locals, fds, sockets
<1>2. \/ UNCHANGED <<wifi, events>>
      \/ wifi' = "up" /\ events' = Append(events, "gotip")
      \/ wifi' = "idle" /\ events' = Append(events, "disconnected")
  BY DEF Environment, Associates, LinkLost, DeadlinePasses, PeerFails, driver
<1>3. \A e \in Event : LET s == Append(events, e) IN s # <<>> /\ s[Len(s)] = e
  <2>1. \A e \in Event : LET s == Append(events, e) IN
           Len(s) = Len(events) + 1 /\ s[Len(events) + 1] = e
    BY AppendProperties DEF TypeOK, DataOK
  <2>2. Len(events) \in Nat
    BY LenProperties DEF TypeOK, DataOK
  <2> QED BY <2>1, <2>2, EmptySeq
<1>4. LinkKnown'
  BY <1>1, <1>2, <1>3 DEF EndpointInv, LinkKnown, Event
<1>5. NoneStaler
  BY <1>1 DEF NoneStaler, Stale, StaleBegun, StalePublished
<1>6. (wifi' = "up" => wifi = "up" \/ events' # <<>>) /\ (events # <<>> => events' # <<>>)
  BY <1>2, <1>3 DEF Event
<1> QED BY <1>1, <1>4, <1>5, <1>6, EndpointEvt

\* The invariant of the connection's endpoint, in every reachable state.
THEOREM EndpointAlways == Spec => []EndpointInv
<1>1. Init => EndpointInv
  BY CfgAssumption DEF Init, Nowhere, EndpointInv, CfgWhole, LinkKnown, CoreKnows, NothingPublished,
        NotPostponed, Renewed, Stale, StaleBegun, StalePublished, Scheduling, Task
<1>2. TypeOK /\ Owned /\ EndpointInv /\ [Next]_vars => EndpointInv'
  <2> SUFFICES ASSUME TypeOK, Owned, EndpointInv, [Next]_vars PROVE EndpointInv'
    OBVIOUS
  <2>1. CASE UNCHANGED vars
    BY <2>1 DEF vars, flags, policy, command, locals, driver, fds, sockets, EndpointInv, CfgWhole,
         LinkKnown, CoreKnows, NothingPublished, NotPostponed, Renewed, Renewal, Stale,
         StaleBegun, StalePublished, TcpEnabled
  <2> QED BY <2>1, CoreEndpoint, NetEndpoint, EvtEndpoint, EnvironmentEndpoint DEF Next
<1> QED BY <1>1, <1>2, TypeCorrect, OwnedAlways, PTL DEF Spec

\* Whatever apply() stores while network_task() reads and connects, however often
\* and at whatever point: once nothing is under way and the association is up, the
\* published connection goes to the address and the port of the last APPLY.
THEOREM EndpointIsCurrent == Spec => []EndpointCurrent
<1>1. TypeOK /\ EndpointInv => EndpointCurrent
  BY DEF EndpointCurrent, AtRest, EndpointInv, Renewed, Renewal, Stale, StalePublished,
         Applying, Taking
<1> QED BY <1>1, EndpointAlways, TypeCorrect, PTL
=============================================================================
