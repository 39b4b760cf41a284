--------------------------- MODULE NetworkManager ---------------------------
(***************************************************************************)
(* src/src/network_manager.cpp: Wi-Fi station and TCP client life cycle.   *)
(*                                                                         *)
(* Three tasks share the file's static variables without a lock:           *)
(*   "core"  the Harp task: apply(), disconnect(), tcp_read(), tcp_write() *)
(*   "net"   network_task()                                                *)
(*   "evt"   the ESP-IDF default event loop: wifi_event_handler()          *)
(* Every store to a shared variable, every exchange and every call into    *)
(* the driver or lwIP is a step of its own; consecutive reads that feed    *)
(* one decision are one step.  pc[t] names the next statement of task t.   *)
(*                                                                         *)
(* Left to other modules: the retry counter and its delay (ReconnectPolicy)*)
(* and flash (NetPersistence).  A deadline is only "past" or "future".     *)
(***************************************************************************)
EXTENDS Integers, Sequences, FiniteSets

CONSTANTS
  Fd,             \* lwIP socket descriptors
  NoFd,           \* the -1 of s_tcp_sock
  Cfg,            \* configurations a host may apply, all with the Wi-Fi bit
  TcpCfg,         \* those with NET_CFG_ENABLE_TCP_MASK
  NoCfg,          \* the zeroed s_cfg before the first apply()
  EventQueueMax,  \* length of the event loop's queue; a poster waits for room
  Budget          \* BOUND: how often the environment may do each thing below

EnvKinds == {"apply", "clear", "link", "peer", "refuse", "driver"}

ASSUME FdAssumption     == NoFd \notin Fd
ASSUME CfgAssumption    == NoCfg \notin Cfg /\ TcpCfg \subseteq Cfg
ASSUME BudgetAssumption == EventQueueMax \in Nat \ {0} /\ Budget \in [EnvKinds -> Nat]

VARIABLES
  s_wifi_connected, s_tcp_connected, s_tcp_sock,
  s_reconnect_enabled, s_reconnect_pending, s_next_reconnect,
  s_cmd, s_cfg,   \* s_cfg: the two halves apply() copies one after the other
  notify,         \* net_task's notification value is nonzero
  pc,             \* task -> next statement
  own,            \* task -> the descriptor in its local fd / old_fd / sock
  io,             \* the descriptor tcp_read()/tcp_write() loaded
  wait,           \* network_task's wait_ticks: "forever" or "timed"
  port,           \* tcp_connect()'s port argument
  wifi,           \* the driver's station: "idle", "connecting", "up"
  events,         \* the event loop's queue
  sock,           \* lwIP: "free", "opening", "up", "bad" (peer gone)
  remote,         \* the address and port an open descriptor is connected to
  left            \* what remains of Budget

flags   == <<s_wifi_connected, s_tcp_connected>>
policy  == <<s_reconnect_enabled, s_reconnect_pending, s_next_reconnect>>
command == <<s_cmd, s_cfg>>
locals  == <<io, wait, port>>
driver  == <<wifi, events>>
sockets == <<sock, remote>>
fds     == <<s_tcp_sock, own, sockets>>
vars == <<flags, policy, command, notify, pc, locals, driver, fds, left>>

Task  == {"core", "net", "evt"}
Event == {"disconnected", "gotip"}   \* STA_DISCONNECTED and STA_GOT_IP

\* an endpoint of nothing
Nowhere == [ip |-> NoCfg, port |-> NoCfg]

Init ==
  /\ s_wifi_connected = FALSE /\ s_tcp_connected = FALSE /\ s_tcp_sock = NoFd
  /\ s_reconnect_enabled = FALSE /\ s_reconnect_pending = FALSE
  /\ s_next_reconnect = "past"
  /\ s_cmd = "DISCONNECT" /\ s_cfg = Nowhere
  /\ notify = FALSE
  /\ pc = [t \in Task |-> IF t = "net" THEN "n_top" ELSE "idle"]
  /\ own = [t \in Task |-> NoFd]
  /\ io = NoFd /\ wait = "forever" /\ port = NoCfg
  /\ wifi = "idle" /\ events = <<>>
  /\ sock = [f \in Fd |-> "free"] /\ remote = [f \in Fd |-> Nowhere]
  /\ left = Budget

Go(t, from, to) == pc[t] = from /\ pc' = [pc EXCEPT ![t] = to]
Spend(k)        == left[k] > 0 /\ left' = [left EXCEPT ![k] = @ - 1]
TcpEnabled      == s_cfg.port \in TcpCfg    \* the bits are copied with the port

-----------------------------------------------------------------------------
(* Statements that several functions share.                                *)

\* MUTANT of Exchange: a plain load leaves the descriptor published
ExchangeAsLoad(t, from, to) ==
  /\ Go(t, from, to)
  /\ own' = [own EXCEPT ![t] = s_tcp_sock]
  /\ UNCHANGED <<flags, policy, command, notify, locals, driver, s_tcp_sock, sockets, left>>

\* s_tcp_sock.exchange(-1)
Exchange(t, from, to) ==
  /\ Go(t, from, to)
  /\ own' = [own EXCEPT ![t] = s_tcp_sock]
  /\ s_tcp_sock' = NoFd
  /\ UNCHANGED <<flags, policy, command, notify, locals, driver, sockets, left>>

\* if (fd >= 0) lwip_close(fd)
Close(t, from, to) ==
  /\ Go(t, from, to)
  /\ sock' = [f \in Fd |-> IF f = own[t] THEN "free" ELSE sock[f]]
  /\ remote' = [f \in Fd |-> IF f = own[t] THEN Nowhere ELSE remote[f]]
  /\ own' = [own EXCEPT ![t] = NoFd]
  /\ UNCHANGED <<flags, policy, command, notify, locals, driver, s_tcp_sock, left>>

\* s_tcp_connected = b
SetTcp(t, from, to, b) ==
  /\ Go(t, from, to)
  /\ s_tcp_connected' = b
  /\ UNCHANGED <<s_wifi_connected, policy, command, notify, locals, driver, fds, left>>

\* s_reconnect_pending = b
SetPending(t, from, to, b) ==
  /\ Go(t, from, to)
  /\ s_reconnect_pending' = b
  /\ UNCHANGED <<flags, s_reconnect_enabled, s_next_reconnect, command, notify,
                 locals, driver, fds, left>>

\* s_next_reconnect_us = 0, or = now + delay
SetNext(t, from, to, when) ==
  /\ Go(t, from, to)
  /\ s_next_reconnect' = when
  /\ UNCHANGED <<flags, s_reconnect_enabled, s_reconnect_pending, command, notify,
                 locals, driver, fds, left>>

\* s_reconnect_enabled = b
SetEnabled(t, from, to, b) ==
  /\ Go(t, from, to)
  /\ s_reconnect_enabled' = b
  /\ UNCHANGED <<flags, s_reconnect_pending, s_next_reconnect, command, notify,
                 locals, driver, fds, left>>

\* xTaskNotifyGive(s_task_handle)
Notify(t, from, to) ==
  /\ Go(t, from, to)
  /\ notify' = TRUE
  /\ UNCHANGED <<flags, policy, command, locals, driver, fds, left>>

\* esp_wifi_connect(); an attempt in flight is reused (ESP_ERR_WIFI_CONN)
WifiConnect(t, from, to) ==
  /\ Go(t, from, to)
  /\ wifi' = IF wifi = "idle" THEN "connecting" ELSE wifi
  /\ UNCHANGED <<flags, policy, command, notify, locals, events, fds, left>>

\* esp_wifi_connect() or esp_wifi_set_config() returns another error: logged only
WifiError(t, from, to) ==
  /\ Go(t, from, to)
  /\ Spend("driver")
  /\ UNCHANGED <<flags, policy, command, notify, locals, driver, fds>>

\* esp_wifi_disconnect(); an idle station answers ESP_ERR_WIFI_NOT_CONNECT
WifiDisconnect(t, from, to) ==
  /\ Go(t, from, to)
  /\ \/ wifi = "idle" /\ UNCHANGED driver
     \/ /\ wifi # "idle" /\ Len(events) < EventQueueMax
        /\ wifi' = "idle"
        /\ events' = Append(events, "disconnected")
  /\ UNCHANGED <<flags, policy, command, notify, locals, fds, left>>

-----------------------------------------------------------------------------
(* schedule_tcp_reconnect(), entered at s_check by core and by net.        *)

ScheduleAllowed ==
  s_reconnect_enabled /\ TcpEnabled /\ s_wifi_connected /\ s_cmd # "DISCONNECT"

ScheduleCheck(t, done) ==
  /\ Go(t, "s_check", IF ScheduleAllowed THEN "s_next" ELSE done)
  /\ UNCHANGED <<flags, policy, command, notify, locals, driver, fds, left>>

\* MUTANT of Schedule: the notification is given before the flag is set
ScheduleNotifyFirst(t, done) ==
  \/ ScheduleCheck(t, done)
  \/ SetNext(t, "s_next", "s_notify", "future")
  \/ Notify(t, "s_notify", "s_pending")
  \/ SetPending(t, "s_pending", done, TRUE)

Schedule(t, done) ==
  \/ ScheduleCheck(t, done)
  \/ SetNext(t, "s_next", "s_pending", "future")
  \/ SetPending(t, "s_pending", "s_notify", TRUE)
  \/ Notify(t, "s_notify", done)

-----------------------------------------------------------------------------
(* The Harp task.                                                          *)

\* apply() with the Wi-Fi bit clear: reconnection off, nothing else
ApplyWifiOff ==
  /\ Spend("apply")
  /\ Go("core", "idle", "off_pending")
  /\ s_reconnect_enabled' = FALSE
  /\ UNCHANGED <<flags, s_reconnect_pending, s_next_reconnect, command, notify,
                 locals, driver, fds>>

\* apply(): memcpy of SSID, password and address ...
Apply(c) ==
  /\ Spend("apply")
  /\ Go("core", "idle", "ap_port")
  /\ s_cfg' = [s_cfg EXCEPT !.ip = c]
  /\ UNCHANGED <<flags, policy, s_cmd, notify, locals, driver, fds>>

\* ... then of the port and the enable bits
ApplyPort ==
  /\ Go("core", "ap_port", "ap_enabled")
  /\ s_cfg' = [s_cfg EXCEPT !.port = s_cfg.ip]
  /\ UNCHANGED <<flags, policy, s_cmd, notify, locals, driver, fds, left>>

ApplyCommand ==
  /\ Go("core", "ap_cmd", "idle")
  /\ s_cmd' = "APPLY"
  /\ UNCHANGED <<flags, policy, s_cfg, notify, locals, driver, fds, left>>

\* MUTANT of ApplyStep: an association that is up is kept
ApplyStepKeepsLink ==
  \/ SetPending("core", "off_pending", "off_next", FALSE)
  \/ SetNext("core", "off_next", "idle", "past")
  \/ ApplyPort
  \/ SetEnabled("core", "ap_enabled", "ap_pending", TRUE)
  \/ SetPending("core", "ap_pending", "ap_next", FALSE)
  \/ SetNext("core", "ap_next", "ap_conn", "past")
  \/ WifiConnect("core", "ap_conn", "ap_cmd")
  \/ WifiError("core", "ap_conn", "idle")
  \/ ApplyCommand

ApplyStep ==
  \/ SetPending("core", "off_pending", "off_next", FALSE)
  \/ SetNext("core", "off_next", "idle", "past")
  \/ ApplyPort
  \/ SetEnabled("core", "ap_enabled", "ap_pending", TRUE)
  \/ SetPending("core", "ap_pending", "ap_next", FALSE)
  \/ SetNext("core", "ap_next", "ap_disc", "past")
  \/ WifiDisconnect("core", "ap_disc", "ap_conn")
  \/ WifiConnect("core", "ap_conn", "ap_cmd")
  \/ WifiError("core", "ap_conn", "idle")
  \/ ApplyCommand

Disconnect ==
  /\ Spend("clear")
  /\ Go("core", "idle", "dc_enabled")
  /\ s_cmd' = "DISCONNECT"
  /\ UNCHANGED <<flags, policy, s_cfg, notify, locals, driver, fds>>

\* MUTANT of DisconnectStep: no notification
DisconnectStepSilent ==
  \/ SetEnabled("core", "dc_enabled", "dc_pending", FALSE)
  \/ SetPending("core", "dc_pending", "dc_next", FALSE)
  \/ SetNext("core", "dc_next", "idle", "past")

DisconnectStep ==
  \/ SetEnabled("core", "dc_enabled", "dc_pending", FALSE)
  \/ SetPending("core", "dc_pending", "dc_next", FALSE)
  \/ SetNext("core", "dc_next", "dc_notify", "past")
  \/ Notify("core", "dc_notify", "idle")

\* MUTANT of TcpLoad: no test for fd < 0
TcpLoadUnchecked(op) ==
  /\ Go("core", "idle", op)
  /\ io' = s_tcp_sock
  /\ UNCHANGED <<flags, policy, command, notify, wait, port, driver, fds, left>>

\* tcp_read() ("recv") and tcp_write() ("send"): fd = s_tcp_sock.load()
TcpLoad(op) ==
  /\ s_tcp_sock # NoFd
  /\ Go("core", "idle", op)
  /\ io' = s_tcp_sock
  /\ UNCHANGED <<flags, policy, command, notify, wait, port, driver, fds, left>>

\* data, or EWOULDBLOCK; a send to a peer that is gone may still be buffered
IoOk(op) ==
  /\ Go("core", op, "idle")
  /\ sock[io] = "up" \/ (op = "send" /\ sock[io] = "bad")
  /\ io' = NoFd
  /\ UNCHANGED <<flags, policy, command, notify, wait, port, driver, fds, left>>

\* peer closed, reset, or a descriptor that is closed or not yet connected
IoFail(op) ==
  /\ Go("core", op, "io_take")
  /\ sock[io] # "up"
  /\ io' = NoFd
  /\ UNCHANGED <<flags, policy, command, notify, wait, port, driver, fds, left>>

IoStep ==
  \/ \E op \in {"recv", "send"} : IoOk(op) \/ IoFail(op)
  \/ Exchange("core", "io_take", "io_close")
  \/ Close("core", "io_close", "io_flag")
  \/ SetTcp("core", "io_flag", "s_check", FALSE)
  \/ Schedule("core", "idle")

CoreCall == ApplyWifiOff \/ (\E c \in Cfg : Apply(c)) \/ Disconnect \/ TcpLoad("send")
TcpRead  == TcpLoad("recv")
CoreStep == ApplyStep \/ DisconnectStep \/ IoStep

-----------------------------------------------------------------------------
(* network_task().                                                         *)

\* wait_ticks from the pending flag and the deadline
NetTop ==
  /\ Go("net", "n_top", "n_wait")
  /\ wait' = IF s_reconnect_pending THEN "timed" ELSE "forever"
  /\ UNCHANGED <<flags, policy, command, notify, io, port, driver, fds, left>>

\* ulTaskNotifyTake(pdTRUE, wait_ticks)
NetWake ==
  /\ notify \/ wait = "timed"
  /\ Go("net", "n_wait", "n_cmd")
  /\ notify' = FALSE
  /\ wait' = "forever"
  /\ UNCHANGED <<flags, policy, command, io, port, driver, fds, left>>

NetCmd ==
  /\ Go("net", "n_cmd", IF s_cmd = "DISCONNECT" THEN "d_pending" ELSE "n_ready")
  /\ UNCHANGED <<flags, policy, command, notify, locals, driver, fds, left>>

NetReady ==
  /\ Go("net", "n_ready",
        IF s_wifi_connected /\ s_cfg.ip # NoCfg /\ TcpEnabled THEN "n_due" ELSE "n_top")
  /\ UNCHANGED <<flags, policy, command, notify, locals, driver, fds, left>>

\* MUTANT of NetDue: the old socket is not taken before connecting
NetDueKeepsOld ==
  /\ Go("net", "n_due",
        IF s_reconnect_pending /\ s_next_reconnect = "future" THEN "n_top" ELSE "n_port")
  /\ UNCHANGED <<flags, policy, command, notify, locals, driver, fds, left>>

NetDue ==
  /\ Go("net", "n_due",
        IF s_reconnect_pending /\ s_next_reconnect = "future" THEN "n_top" ELSE "n_take")
  /\ UNCHANGED <<flags, policy, command, notify, locals, driver, fds, left>>

\* tcp_connect(s_cfg.server_ip, s_cfg.server_port): the port is copied here,
\* the address only when getaddrinfo() reads the string
NetPort ==
  /\ Go("net", "n_port", "n_open")
  /\ port' = s_cfg.port
  /\ UNCHANGED <<flags, policy, command, notify, io, wait, driver, fds, left>>

NetOpen(f) ==
  /\ sock[f] = "free"
  /\ Go("net", "n_open", "n_conn")
  /\ sock' = [sock EXCEPT ![f] = "opening"]
  /\ remote' = [remote EXCEPT ![f] = [ip |-> s_cfg.ip, port |-> port]]
  /\ own' = [own EXCEPT !["net"] = f]
  /\ port' = NoCfg
  /\ UNCHANGED <<flags, policy, command, notify, io, wait, driver, s_tcp_sock, left>>

\* no address, or no socket
NetOpenFails ==
  /\ Go("net", "n_open", "s_check")
  /\ IF \A f \in Fd : sock[f] # "free" THEN UNCHANGED left ELSE Spend("refuse")
  /\ port' = NoCfg
  /\ UNCHANGED <<flags, policy, command, notify, io, wait, driver, fds>>

NetConnects ==
  /\ wifi = "up"
  /\ Go("net", "n_conn", "n_store")
  /\ sock' = [sock EXCEPT ![own["net"]] = "up"]
  /\ UNCHANGED <<flags, policy, command, notify, locals, driver, s_tcp_sock, own, remote, left>>

\* MUTANT of NetConnectFails: the new socket is not closed on failure
NetConnectFailsLeaks ==
  /\ Go("net", "n_conn", "s_check")
  /\ IF wifi = "up" THEN Spend("refuse") ELSE UNCHANGED left
  /\ UNCHANGED <<flags, policy, command, notify, locals, driver, fds>>

\* lwip_connect() fails: refused, timed out, or no route since the link is down
NetConnectFails ==
  /\ Go("net", "n_conn", "n_fail")
  /\ IF wifi = "up" THEN Spend("refuse") ELSE UNCHANGED left
  /\ UNCHANGED <<flags, policy, command, notify, locals, driver, fds>>

\* s_tcp_sock = fd, a plain store
NetStore ==
  /\ Go("net", "n_store", "n_flag")
  /\ s_tcp_sock' = own["net"]
  /\ own' = [own EXCEPT !["net"] = NoFd]
  /\ UNCHANGED <<flags, policy, command, notify, locals, driver, sockets, left>>

NetStep ==
  \/ NetTop \/ NetWake \/ NetCmd
  \* DISCONNECT
  \/ SetPending("net", "d_pending", "d_next", FALSE)
  \/ SetNext("net", "d_next", "d_take", "past")
  \/ Exchange("net", "d_take", "d_close")
  \/ Close("net", "d_close", "d_flag")
  \/ SetTcp("net", "d_flag", "d_wifi", FALSE)
  \/ WifiDisconnect("net", "d_wifi", "n_top")
  \* APPLY
  \/ NetReady \/ NetDue
  \/ Exchange("net", "n_take", "n_close")
  \/ Close("net", "n_close", "n_down")
  \/ SetTcp("net", "n_down", "n_port", FALSE)
  \/ NetPort \/ (\E f \in Fd : NetOpen(f)) \/ NetOpenFails
  \/ NetConnects \/ NetConnectFails \/ NetStore
  \/ SetTcp("net", "n_flag", "n_pending", TRUE)
  \/ SetPending("net", "n_pending", "n_next", FALSE)
  \/ SetNext("net", "n_next", "n_top", "past")
  \/ Close("net", "n_fail", "s_check")
  \/ Schedule("net", "n_top")

-----------------------------------------------------------------------------
(* wifi_event_handler().                                                   *)

EvtDisconnected ==
  /\ events # <<>> /\ Head(events) = "disconnected"
  /\ Go("evt", "idle", "e_flag")
  /\ events' = Tail(events)
  /\ s_wifi_connected' = FALSE
  /\ UNCHANGED <<s_tcp_connected, policy, command, notify, locals, wifi, fds, left>>

\* MUTANT of EvtGotIp: network_task() is not notified
EvtGotIpSilent ==
  /\ events # <<>> /\ Head(events) = "gotip"
  /\ Go("evt", "idle", "idle")
  /\ events' = Tail(events)
  /\ s_wifi_connected' = TRUE
  /\ UNCHANGED <<s_tcp_connected, policy, command, notify, locals, wifi, fds, left>>

EvtGotIp ==
  /\ events # <<>> /\ Head(events) = "gotip"
  /\ Go("evt", "idle", "e_notify")
  /\ events' = Tail(events)
  /\ s_wifi_connected' = TRUE
  /\ UNCHANGED <<s_tcp_connected, policy, command, notify, locals, wifi, fds, left>>

\* still APPLY, enabled and an SSID?
EvtCheck ==
  /\ Go("evt", "e_check",
        IF s_cmd = "APPLY" /\ s_reconnect_enabled /\ s_cfg.ip # NoCfg
        THEN "e_conn" ELSE "idle")
  /\ UNCHANGED <<flags, policy, command, notify, locals, driver, fds, left>>

EvtStep ==
  \/ EvtDisconnected
  \/ SetTcp("evt", "e_flag", "e_pending", FALSE)
  \/ SetPending("evt", "e_pending", "e_take", FALSE)
  \/ Exchange("evt", "e_take", "e_close")
  \/ Close("evt", "e_close", "e_check")
  \/ EvtCheck
  \/ WifiConnect("evt", "e_conn", "idle")
  \/ WifiError("evt", "e_conn", "idle")
  \/ EvtGotIp
  \/ Notify("evt", "e_notify", "idle")

-----------------------------------------------------------------------------
(* Driver, access point, peer and clock.                                   *)

\* association and DHCP complete
Associates ==
  /\ wifi = "connecting" /\ Len(events) < EventQueueMax
  /\ wifi' = "up"
  /\ events' = Append(events, "gotip")
  /\ UNCHANGED <<flags, policy, command, notify, pc, locals, fds, left>>

\* the attempt fails or the access point is lost
LinkLost ==
  /\ wifi # "idle" /\ Len(events) < EventQueueMax
  /\ Spend("link")
  /\ wifi' = "idle"
  /\ events' = Append(events, "disconnected")
  /\ UNCHANGED <<flags, policy, command, notify, pc, locals, fds>>

PeerFails(f) ==
  /\ sock[f] = "up"
  /\ Spend("peer")
  /\ sock' = [sock EXCEPT ![f] = "bad"]
  /\ UNCHANGED <<flags, policy, command, notify, pc, locals, driver, s_tcp_sock, own, remote>>

\* the clock reaches s_next_reconnect_us
DeadlinePasses ==
  /\ s_next_reconnect = "future"
  /\ s_next_reconnect' = "past"
  /\ UNCHANGED <<flags, s_reconnect_enabled, s_reconnect_pending, command, notify,
                 pc, locals, driver, fds, left>>

Environment == Associates \/ LinkLost \/ DeadlinePasses \/ (\E f \in Fd : PeerFails(f))

Next == CoreCall \/ TcpRead \/ CoreStep \/ NetStep \/ EvtStep \/ Environment

Spec == Init /\ [][Next]_vars

\* Every task is scheduled; HarpCore::run() calls tcp_read() in each turn of
\* its loop; an association in flight ends and the clock advances.  Nothing
\* is assumed of the host, the access point's losses or the peer.
Fairness ==
  /\ WF_vars(CoreStep) /\ SF_vars(TcpRead)
  /\ WF_vars(NetStep) /\ WF_vars(EvtStep)
  /\ WF_vars(Associates) /\ WF_vars(DeadlinePasses)

FairSpec == Spec /\ Fairness

-----------------------------------------------------------------------------
(* Properties.                                                             *)

CorePc == {"idle", "off_pending", "off_next", "ap_port", "ap_enabled", "ap_pending",
           "ap_next", "ap_disc", "ap_conn", "ap_cmd", "dc_enabled", "dc_pending",
           "dc_next", "dc_notify", "recv", "send", "io_take", "io_close", "io_flag",
           "s_check", "s_next", "s_pending", "s_notify"}
NetPc  == {"n_top", "n_wait", "n_cmd", "d_pending", "d_next", "d_take", "d_close",
           "d_flag", "d_wifi", "n_ready", "n_due", "n_take", "n_close", "n_down",
           "n_port", "n_open", "n_conn", "n_store", "n_flag", "n_pending", "n_next",
           "n_fail", "s_check", "s_next", "s_pending", "s_notify"}
EvtPc  == {"idle", "e_flag", "e_pending", "e_take", "e_close", "e_check", "e_conn",
           "e_notify"}

\* Every variable has its type, and each task only the values its code can have.
DataOK ==
  /\ s_wifi_connected \in BOOLEAN /\ s_tcp_connected \in BOOLEAN
  /\ s_reconnect_enabled \in BOOLEAN /\ s_reconnect_pending \in BOOLEAN
  /\ s_next_reconnect \in {"past", "future"}
  /\ s_cmd \in {"APPLY", "DISCONNECT"}
  /\ s_cfg \in [ip : Cfg \union {NoCfg}, port : Cfg \union {NoCfg}]
  /\ notify \in BOOLEAN
  /\ own \in [Task -> Fd \union {NoFd}]
  /\ io \in Fd \union {NoFd}
  /\ wait \in {"forever", "timed"}
  /\ port \in Cfg \union {NoCfg}
  /\ wifi \in {"idle", "connecting", "up"}
  /\ events \in Seq(Event)
  /\ s_tcp_sock \in Fd \union {NoFd}
  /\ sock \in [Fd -> {"free", "opening", "up", "bad"}]
  /\ remote \in [Fd -> [ip : Cfg \union {NoCfg}, port : Cfg \union {NoCfg}]]
  /\ left \in [EnvKinds -> Nat]
ControlOK ==
  /\ pc \in [Task -> CorePc \union NetPc \union EvtPc]
  /\ pc["core"] \in CorePc /\ pc["net"] \in NetPc /\ pc["evt"] \in EvtPc
  /\ pc["core"] \in {"recv", "send"} => io \in Fd
TypeOK == DataOK /\ ControlOK

\* The descriptors that s_tcp_sock and the three tasks hold are distinct and
\* are exactly the open ones: none leaks, none is closed twice, and no task's
\* exchange-and-close meets the plain store of network_task() half way.
SocketOwnership ==
  /\ \A f \in Fd : (sock[f] # "free") <=> (f = s_tcp_sock \/ \E t \in Task : own[t] = f)
  /\ \A t \in Task : own[t] # NoFd => own[t] # s_tcp_sock
  /\ \A t, u \in Task : own[t] # NoFd /\ t # u => own[t] # own[u]

\* Where a task may hold a descriptor; and from network_task()'s exchange to
\* its plain store nothing is published, so that the store overwrites nothing.
HeldWhere ==
  /\ own["core"] # NoFd => pc["core"] = "io_close"
  /\ own["evt"] # NoFd => pc["evt"] = "e_close"
  /\ own["net"] # NoFd => pc["net"] \in {"d_close", "n_close", "n_conn", "n_store", "n_fail"}
  /\ pc["net"] \in {"n_conn", "n_store", "n_fail"} => own["net"] # NoFd
  /\ pc["net"] \in {"n_close", "n_down", "n_port", "n_open", "n_conn", "n_store", "n_fail"}
       => s_tcp_sock = NoFd

\* network_task() never sleeps without a timeout on an armed reconnect, unless
\* its wake-up is already given or the scheduling task is about to give it.
NoLostWakeup ==
  pc["net"] = "n_wait" /\ wait = "forever" /\ s_reconnect_pending
    => notify \/ pc["core"] = "s_notify"

\* Nothing is running and nothing is about to.
AtRest == pc["core"] = "idle" /\ pc["evt"] = "idle" /\ pc["net"] = "n_wait"
          /\ ~notify /\ events = <<>>

\* Once things have settled with the association up, the device talks to the
\* address and the port of the last APPLY, although network_task() reads the
\* one after the other while apply() stores them, and connections may be under
\* way from before.
EndpointCurrent ==
  AtRest /\ wifi = "up" /\ TcpEnabled /\ s_tcp_sock # NoFd => remote[s_tcp_sock] = s_cfg

\* The descriptors' life cycle is the abstract one, and every descriptor taken
\* back is closed in the end.
Fresh == IF pc["net"] \in {"n_conn", "n_store", "n_fail"} THEN own["net"] ELSE NoFd
Lifecycle == INSTANCE SocketLifecycle WITH
  open      <- {f \in Fd : sock[f] # "free"},
  fresh     <- Fresh,
  published <- s_tcp_sock,
  retired   <- {own[t] : t \in Task} \ {NoFd, Fresh}
LifecycleSpec     == Lifecycle!Spec
LifecycleFairSpec == Lifecycle!FairSpec

\* A manual disconnect wins: while the command stays DISCONNECT the device ends
\* up, and stays, with no socket, no retry pending and the station idle,
\* whatever reconnect timer, association or event was under way.
Quiet == /\ s_tcp_sock = NoFd /\ ~s_tcp_connected /\ ~s_reconnect_pending
         /\ wifi = "idle" /\ ~s_wifi_connected
DisconnectWins == <>[](s_cmd = "DISCONNECT") => <>[]Quiet

\* While the command stays APPLY with TCP enabled and the association holds,
\* the device ends up connected over a live socket and says so, whatever
\* failures of peer, socket or link came before.
Serving == s_tcp_connected /\ s_tcp_sock # NoFd /\ sock[s_tcp_sock] = "up"
TcpRecovers ==
  <>[](s_cmd = "APPLY" /\ s_reconnect_enabled /\ TcpEnabled /\ wifi = "up")
    => []<>Serving

-----------------------------------------------------------------------------
(* What the documentation says and the code does not do (violation runs).  *)

\* operational notes, 7: "tcp_conn reflects socket state".  At rest, the flag
\* and s_tcp_sock agree.  Two tasks may interleave their store of the one with
\* their store of the other.
TcpConnReflectsSocket == AtRest => (s_tcp_connected <=> s_tcp_sock # NoFd)

\* operational notes, 3: "APPLY: allow Wi-Fi reconnect".  At rest, an applied
\* configuration is being associated or is up (the driver never refusing).
\* network_task() may act on the DISCONNECT that apply() overwrites last.
AppliedIsPursued == AtRest /\ s_cmd = "APPLY" /\ s_reconnect_enabled => wifi # "idle"
=============================================================================
