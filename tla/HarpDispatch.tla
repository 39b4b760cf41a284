---------------------------- MODULE HarpDispatch ----------------------------
(***************************************************************************)
(* src/src/harp_core.cpp, harp_c_app.cpp: a turn of HarpCore::run() from   *)
(* the refresh of the status registers to clear_msg(): the register file,  *)
(* the handler of every register, and the answers to the request.          *)
(*                                                                         *)
(* A register's value is the set of its bits that are set, as far as the   *)
(* handlers tell them apart: "text" for the content of a string or number, *)
(* "last" for the last byte of a string, and the named bits of a control   *)
(* register.  Masks are set operations.  Left to other modules: bytes and  *)
(* routes (HarpTransport), modes, beats and events (OperationMode), what   *)
(* APPLY, CLEAR and a restart do to the network (NetPersistence).          *)
(***************************************************************************)
EXTENDS Integers, Sequences

CONSTANTS
  AppRegs,      \* reg_count_; 0 for a device that is only a HarpCore
  AppHandlers,  \* application register -> "generic", "read_only" or "write_only"
  Requests,     \* the messages hosts send
  Reported,     \* BOUND: what other components may report, of the set below
  NoMsg         \* no message is buffered

TIMESTAMP_SECOND == 8
OPERATION_CTRL == 10
RESET_DEV == 11
DEVICE_NAME == 12
SERIAL_NUMBER == 13
CLOCK_CONFIG == 14
TIMESTAMP_OFFSET == 15
HEARTBEAT == 18
NET_SSID == 32
NET_PASSWORD == 33
NET_SERVER_IP == 34
NET_SERVER_PORT == 35
NET_CONFIG == 36
AppStart == 37

CoreAddr == 0..19
ExtAddr  == NET_SSID..NET_CONFIG
AppAddr  == AppStart..(AppStart + AppRegs - 1)
Known    == CoreAddr \cup ExtAddr \cup AppAddr

Mode   == {"mode0", "mode1"}        \* ACTIVE is mode0 alone, SPEED both
Status == {"cfg_valid", "wifi_up", "tcp_conn"}
Bit    == Mode \cup Status
          \cup {"heartbeat_en", "dump", "mute", "active", "synced", "text", "last"}
          \cup {"rst_def", "save", "name", "dfu", "boot_def"}
          \cup {"clk_rep", "rep_able", "unlock", "lock", "enable", "apply", "clear"}

Message ==
  [type : {"READ", "WRITE", "EVENT"}, address : 0..255,
   ptype : {"U8", "U16", "U32", "other"}, len : 0..255, payload : SUBSET Bit]
\* "broken" is a packet cut short, or whose length byte is not its length
Answer == [type : {"READ", "WRITE", "READ_ERROR", "WRITE_ERROR", "broken"}, address : 0..255,
           value : SUBSET Bit]

\* an 8-bit address ends the loop over the application registers
ASSUME AppAssumption ==
  /\ AppRegs \in Nat /\ AppStart + AppRegs < 256
  /\ AppHandlers \in [AppAddr -> {"generic", "read_only", "write_only"}]
ASSUME ReportedAssumption == Reported \subseteq {"synced", "wifi_up", "tcp_conn"}
ASSUME HostAssumption == Requests \subseteq Message /\ NoMsg \notin Message

VARIABLES
  reg,    \* regs_ and the application's registers
  msg,    \* the buffered message
  pc,     \* "turn", "input", "core", "app" or "dump"
  next,   \* the register the dump sends next
  sent    \* answers sent since the last request was accepted

vars == <<reg, msg, pc, next, sent>>

-----------------------------------------------------------------------------
(* The tables.  Those of the application are its own: single bytes here.   *)

PayloadType(a) ==
  IF a \in {0, 9, SERIAL_NUMBER, HEARTBEAT, NET_SERVER_PORT} THEN "U16"
  ELSE IF a = TIMESTAMP_SECOND THEN "U32" ELSE "U8"

NumBytes(a) ==
  CASE a = DEVICE_NAME -> 25 [] a = 17 -> 8 [] a \in {16, NET_SERVER_IP} -> 16
    [] a \in {19, NET_SSID} -> 32 [] a = NET_PASSWORD -> 64
    [] PayloadType(a) = "U16" -> 2 [] PayloadType(a) = "U32" -> 4
    [] OTHER -> 1

IsApp(a, handlers) == a \in AppAddr /\ AppHandlers[a] \in handlers

\* write_to_read_only_reg_error()
ReadOnly(a) == a \in (0..7) \cup {9, 16, 17, HEARTBEAT, 19} \/ IsApp(a, {"read_only"})

\* read_from_write_only_reg_error()
WriteOnly(a) == IsApp(a, {"write_only"})

\* the constructor of Registers
InitReg == [a \in Known |->
  CASE a = OPERATION_CTRL -> {"heartbeat_en"}
    [] a = CLOCK_CONFIG -> {"unlock"}
    [] a \in (0..7) \cup {DEVICE_NAME, SERIAL_NUMBER, 16, 17, 19, NET_SERVER_PORT} -> {"text"}
    [] OTHER -> {}]

\* the registers of a chip that starts again: init() may restore a configuration
Restarted ==
  {InitReg, [InitReg EXCEPT ![NET_SSID] = {"text"}, ![NET_SERVER_IP] = {"text"},
                            ![NET_CONFIG] = {"enable"}]}

Init == reg = InitReg /\ msg = NoMsg /\ pc = "turn" /\ next = 0 /\ sent = <<>>

-----------------------------------------------------------------------------
(* send_harp_reply() and clear_msg()                                       *)

Muted(r) == "mute" \in r[OPERATION_CTRL]

Reply(kind, value) == <<[type |-> kind, address |-> msg.address, value |-> value]>>

\* an answer with the register as it is
Ack(r) == Reply("WRITE", r[msg.address])

\* an error carries the register as well
ErrorOf(value) ==
  CASE msg.type = "READ"  -> Reply("READ_ERROR", value)
    [] msg.type = "WRITE" -> Reply("WRITE_ERROR", value)
    [] OTHER              -> <<>>

Sending(r, answers) == IF Muted(r) THEN sent ELSE sent \o answers

ClearMsg == msg' = NoMsg /\ pc' = "turn" /\ next' = 0

\* the handler leaves the registers r and, under them, sends the answers
Handled(r, answers) == reg' = r /\ sent' = Sending(r, answers) /\ ClearMsg

-----------------------------------------------------------------------------
(* run() up to the dispatch                                                *)

\* update_state(): what the connection may do to the mode
Updated(r) ==
  {r} \cup
  (IF r[OPERATION_CTRL] \cap Mode = {} THEN {[r EXCEPT ![OPERATION_CTRL] = @ \cup {"mode0"}]}
   ELSE IF r[OPERATION_CTRL] \cap Mode = {"mode0"} THEN {[r EXCEPT ![OPERATION_CTRL] = @ \ Mode]}
   ELSE {})

\* refresh_heartbeat_register()
Beating(r, reported) ==
  [r EXCEPT ![HEARTBEAT] =
     (IF r[OPERATION_CTRL] \cap Mode = {"mode0"} THEN {"active"} ELSE {}) \cup (reported \cap {"synced"})]

\* refresh_net_config_status_bits()
Refreshed(r, reported) ==
  [r EXCEPT ![NET_CONFIG] =
     (@ \cap {"enable"}) \cup (reported \ {"synced"})
     \cup (IF "text" \in r[NET_SSID] /\ "text" \in r[NET_SERVER_IP] THEN {"cfg_valid"} ELSE {})]

\* MUTANT of Refresh: the heartbeat register is refreshed before the state
RefreshEarly ==
  /\ pc = "turn" /\ pc' = "input"
  /\ \E r \in Updated(reg), reported \in SUBSET Reported :
       reg' = Refreshed([r EXCEPT ![HEARTBEAT] = Beating(reg, reported)[HEARTBEAT]], reported)
  /\ sent' = <<>>
  /\ UNCHANGED <<msg, next>>

Refresh ==
  /\ pc = "turn" /\ pc' = "input"
  /\ \E r \in Updated(reg), reported \in SUBSET Reported :
       reg' = Refreshed(Beating(r, reported), reported)
  /\ sent' = <<>>
  /\ UNCHANGED <<msg, next>>

NoMessage == pc = "input" /\ pc' = "turn" /\ UNCHANGED <<reg, msg, next, sent>>

Accept ==
  /\ pc = "input" /\ pc' = "core"
  /\ msg' \in Requests
  /\ UNCHANGED <<reg, next, sent>>

\* handle_buffered_core_message() returns: the address is not its own
NotCore ==
  /\ pc = "core" /\ pc' = "app"
  /\ msg.address \notin CoreAddr \cup ExtAddr
  /\ UNCHANGED <<reg, msg, next, sent>>

-----------------------------------------------------------------------------
(* The two dispatchers, which go by the same rules                         *)

Mine == \/ pc = "core" /\ msg.address \in CoreAddr \cup ExtAddr
        \/ pc = "app" /\ msg.address \in AppAddr

WellFormed ==
  /\ msg.ptype = PayloadType(msg.address)
  /\ msg.type = "WRITE" => msg.len = NumBytes(msg.address)

BadFormat == Mine /\ ~WellFormed /\ Handled(reg, ErrorOf(reg[msg.address]))

NotForDevices ==
  /\ Mine /\ WellFormed
  /\ msg.type = "EVENT"
  /\ Handled(reg, <<>>)

Reads == Mine /\ WellFormed /\ msg.type = "READ"

Writes(addresses) == Mine /\ WellFormed /\ msg.type = "WRITE" /\ msg.address \in addresses

\* read_reset_dev() and read_net_password_masked() answer with values of their own
ReadRegister ==
  /\ Reads
  /\ Handled(reg,
       IF WriteOnly(msg.address) THEN Reply("READ_ERROR", {})
       ELSE Reply("READ", CASE msg.address = RESET_DEV    -> {"boot_def"}
                            [] msg.address = NET_PASSWORD -> {}
                            [] OTHER                      -> reg[msg.address]))

WriteReadOnly ==
  /\ Writes({a \in Known : ReadOnly(a)})
  /\ Handled(reg, Reply("WRITE_ERROR", reg[msg.address]))

\* write_reg_generic()
WriteGeneric ==
  /\ Writes({a \in AppAddr : AppHandlers[a] # "read_only"})
  /\ LET r == [reg EXCEPT ![msg.address] = msg.payload] IN Handled(r, Ack(r))

\* MUTANT of Unhandled: nobody clears the message
UnhandledKept ==
  /\ pc = "app" /\ msg.address \notin AppAddr
  /\ \E value \in {{}, {"text"}} : sent' = Sending(reg, ErrorOf(value))
  /\ pc' = "core" /\ UNCHANGED <<reg, msg, next>>

\* HarpCApp::address_to_app_reg_specs() has indexed its table with an address
\* beyond it, and the reply goes by the pointer and the length found there:
\* an error with any content, a broken packet, or a fault on the way, after
\* which the chip restarts
OutsideTable ==
  /\ \/ reg' = reg /\ \E value \in {{}, {"text"}} : sent' = Sending(reg, ErrorOf(value))
     \/ reg' = reg /\ sent' = Sending(reg, Reply("broken", {}))
     \/ reg' \in Restarted /\ sent' \in {sent, Sending(reg, Reply("broken", {}))}
  /\ ClearMsg

\* no register has this address; HarpCore alone answers with the table's entry
\* of WHO_AM_I
Unhandled ==
  /\ pc = "app" /\ msg.address \notin AppAddr
  /\ IF AppRegs = 0 \/ msg.type = "EVENT" THEN Handled(reg, ErrorOf(reg[0])) ELSE OutsideTable

-----------------------------------------------------------------------------
(* The write handlers of the core                                          *)

\* force_state() to ACTIVE refreshes R_HEARTBEAT when a beat is due; the mode is
\* stored by then, the other bits are those of before
Forced(r) ==
  {r} \cup IF /\ reg[OPERATION_CTRL] \cap Mode # {"mode0"} /\ ~Muted(reg)
              /\ r[OPERATION_CTRL] \cap Mode = {"mode0"}
           THEN {Beating(r, reported) : reported \in SUBSET Reported} ELSE {}

\* MUTANT of WriteOperationCtrl: the mute bit is tested before the store
WriteOperationCtrlEarlyTest ==
  /\ Writes({OPERATION_CTRL})
  /\ IF Mode \subseteq msg.payload
     THEN Handled(reg, Reply("WRITE_ERROR", reg[OPERATION_CTRL]))
     ELSE \E r \in Forced([reg EXCEPT ![OPERATION_CTRL] = msg.payload \ {"dump"}]) :
            /\ reg' = r /\ sent' = Sending(reg, Ack(r))
            /\ IF "dump" \in msg.payload /\ ~Muted(reg)
               THEN pc' = "dump" /\ UNCHANGED <<msg, next>> ELSE ClearMsg

\* DUMP is a command, and only heard when replies are not muted, by the bit
\* that this write has stored
WriteOperationCtrl ==
  /\ Writes({OPERATION_CTRL})
  /\ IF Mode \subseteq msg.payload
     THEN Handled(reg, Reply("WRITE_ERROR", reg[OPERATION_CTRL]))
     ELSE \E r \in Forced([reg EXCEPT ![OPERATION_CTRL] = msg.payload \ {"dump"}]) :
            IF "dump" \in msg.payload /\ ~Muted(r)
            THEN reg' = r /\ sent' = Sending(r, Ack(r)) /\ pc' = "dump" /\ UNCHANGED <<msg, next>>
            ELSE Handled(r, Ack(r))

\* MUTANT of DumpNext: the core's loop goes one too far
DumpNextFar(a) == IF a = 20 THEN NET_SSID ELSE (a + 1) % 256

\* MUTANT of DumpNext: and one too short
DumpNextShort(a) == IF a = 18 THEN NET_SSID ELSE (a + 1) % 256

DumpNext(a) == IF a = 19 THEN NET_SSID ELSE (a + 1) % 256

\* one READ reply per register, in three loops
DumpStep ==
  /\ pc = "dump"
  /\ sent' = Append(sent, [type |-> "READ", address |-> next, value |-> reg[next]])
  /\ IF DumpNext(next) >= AppStart + AppRegs THEN ClearMsg
     ELSE next' = DumpNext(next) /\ UNCHANGED <<msg, pc>>
  /\ UNCHANGED reg

\* MUTANT of WriteResetDev: the name is reset before the command is refused
WriteResetDevNameFirst ==
  /\ Writes({RESET_DEV})
  /\ LET r == [reg EXCEPT ![DEVICE_NAME] = IF "name" \in msg.payload THEN {} ELSE @]
     IN Handled(r, IF msg.payload \cap {"boot_def", "save"} # {}
                   THEN Reply("WRITE_ERROR", reg[RESET_DEV]) ELSE Ack(r))

\* BOOT_* and the EEPROM commands are refused; RST_DFU restarts the chip;
\* reset_app() is the application's
WriteResetDev ==
  /\ Writes({RESET_DEV})
  /\ IF msg.payload \cap {"boot_def", "save"} # {}
     THEN Handled(reg, Reply("WRITE_ERROR", reg[RESET_DEV]))
     ELSE /\ sent' = Sending(reg, Ack(reg)) /\ ClearMsg
          /\ reg' \in IF "dfu" \in msg.payload THEN Restarted
                      ELSE {[reg EXCEPT
                               ![DEVICE_NAME] = IF "name" \in msg.payload THEN {} ELSE @,
                               ![OPERATION_CTRL] = IF "rst_def" \in msg.payload THEN @ \ Mode ELSE @]}

\* write_device_name(), write_serial_number(): acknowledged, and nothing done
WriteUnsupported == Writes({DEVICE_NAME, SERIAL_NUMBER}) /\ Handled(reg, Ack(reg))

WriteTimestampOffset ==
  /\ Writes({TIMESTAMP_OFFSET})
  /\ LET r == [reg EXCEPT ![TIMESTAMP_OFFSET] = {}] IN Handled(r, Ack(r))

\* only while the clock is unlocked; the value of the clock is not kept
WriteTimestampSecond ==
  /\ Writes({TIMESTAMP_SECOND})
  /\ Handled(reg, IF "unlock" \in reg[CLOCK_CONFIG] /\ "lock" \notin reg[CLOCK_CONFIG]
                  THEN Ack(reg) ELSE Reply("WRITE_ERROR", reg[TIMESTAMP_SECOND]))

\* MUTANT of Locked: LOCK and UNLOCK do not clear each other
LockedBoth(current) == (current \cup msg.payload) \cap {"lock", "unlock"}

\* LOCK before UNLOCK
Locked(current) ==
  IF "lock" \in msg.payload THEN {"lock"}
  ELSE IF "unlock" \in msg.payload THEN {"unlock"}
  ELSE current \cap {"lock", "unlock"}

\* the capability bits stay
WriteClockConfig ==
  /\ Writes({CLOCK_CONFIG})
  /\ LET r == [reg EXCEPT ![CLOCK_CONFIG] =
                 Locked(@) \cup (msg.payload \cap {"clk_rep"}) \cup (@ \cap {"rep_able"})]
     IN Handled(r, Ack(r))

\* MUTANT of WriteText: acknowledged before the last byte is cleared
WriteTextEarlyAck ==
  /\ Writes(NET_SSID..NET_SERVER_PORT)
  /\ Handled([reg EXCEPT ![msg.address] = msg.payload \ {"last"}],
             Ack([reg EXCEPT ![msg.address] = msg.payload]))

\* write_net_ssid() and its like; strings end in a zero whatever was sent
WriteText ==
  /\ Writes(NET_SSID..NET_SERVER_PORT)
  /\ LET r == [reg EXCEPT ![msg.address] =
                 IF msg.address = NET_SERVER_PORT THEN msg.payload ELSE msg.payload \ {"last"}]
     IN Handled(r, Ack(r))

\* status bits stay; APPLY takes the password out of the registers
WriteNetConfig ==
  /\ Writes({NET_CONFIG})
  /\ LET applied == {"enable", "apply"} \subseteq msg.payload
         r == [reg EXCEPT
                 ![NET_PASSWORD] = IF applied THEN {} ELSE @,
                 ![NET_CONFIG] = IF "clear" \in msg.payload THEN {}
                                 ELSE (msg.payload \cap {"enable"}) \cup (@ \cap Status)]
     IN Handled(r, Ack(r))

CoreTask ==
  \/ Refresh \/ NoMessage \/ Accept \/ NotCore
  \/ BadFormat \/ NotForDevices \/ ReadRegister \/ WriteReadOnly \/ WriteGeneric \/ Unhandled
  \/ WriteOperationCtrl \/ DumpStep \/ WriteResetDev \/ WriteUnsupported
  \/ WriteTimestampOffset \/ WriteTimestampSecond \/ WriteClockConfig
  \/ WriteText \/ WriteNetConfig

Next == CoreTask

Spec == Init /\ [][Next]_vars

\* core_task() calls run() for ever
FairSpec == Spec /\ WF_vars(Next)

-----------------------------------------------------------------------------
TypeOK ==
  /\ reg \in [Known -> SUBSET Bit]
  /\ msg \in Requests \cup {NoMsg}
  /\ pc \in {"turn", "input", "core", "app", "dump"}
  /\ msg = NoMsg <=> pc \in {"turn", "input"}
  /\ pc = "app" => msg.address \notin CoreAddr \cup ExtAddr
  /\ next \in Known /\ (pc # "dump" => next = 0)
  /\ sent \in Seq(Answer)

(* Whatever sequence of writes, refused, partial or combined, the registers never
   hold a command as if it were state, the mode SPEED, a string without its
   final zero, or a clock both locked and unlocked.                        *)
RegistersLegal ==
  /\ ~(Mode \subseteq reg[OPERATION_CTRL]) /\ "dump" \notin reg[OPERATION_CTRL]
  /\ reg[NET_CONFIG] \cap {"apply", "clear"} = {}
  /\ \A a \in {NET_SSID, NET_PASSWORD, NET_SERVER_IP} : "last" \notin reg[a]
  /\ ~({"lock", "unlock"} \subseteq reg[CLOCK_CONFIG]) /\ "rep_able" \notin reg[CLOCK_CONFIG]
  /\ reg[RESET_DEV] = {}

(* The status a host reads is that of this turn: R_HEARTBEAT says ACTIVE when
   R_OPERATION_CTRL does, R_NET_CONFIG says valid when there is an SSID and an
   address, although other handlers write those.                           *)
StatusFresh ==
  pc \in {"input", "core", "app"} =>
    /\ "active" \in reg[HEARTBEAT] <=> reg[OPERATION_CTRL] \cap Mode = {"mode0"}
    /\ "cfg_valid" \in reg[NET_CONFIG] <=> "text" \in reg[NET_SSID] /\ "text" \in reg[NET_SERVER_IP]

(* The value an acknowledged write returns is what the register holds when the
   turn is over, not what was there before or what the host had sent.      *)
AckIsCurrent ==
  \A i \in DOMAIN sent : sent[i].type = "WRITE" => sent[i].value = reg[sent[i].address]

(* A request to a register is answered once, at its address and in kind, with
   more answers only for a dump; nothing is sent to a device whose replies are
   muted, or in return for a message that is no request.  Muted is what the
   handler finds when it answers: a write of R_OPERATION_CTRL, which may change
   the mute bit, is answered or not by the bit it has stored (harp_core.cpp:629-633).
   A request to no register is answered by HarpCore alone; with an application's
   table it need not be (harp_c_app.h:120).                                *)
Answered ==
  [][msg # NoMsg /\ msg' = NoMsg =>
       IF msg.type = "EVENT" \/ (IF msg.type = "WRITE" /\ msg.address = OPERATION_CTRL
                                 THEN Muted(reg') ELSE Muted(reg))
       THEN sent' = <<>>
       ELSE msg.address \in Known \/ AppRegs = 0 =>
         /\ sent' # <<>> /\ sent'[1].address = msg.address
         /\ sent'[1].type \in {msg.type, IF msg.type = "READ" THEN "READ_ERROR" ELSE "WRITE_ERROR"}
         /\ Len(sent') = 1 \/ "dump" \in msg.payload]_vars

(* A request that is refused has changed nothing.                          *)
RefusedUnchanged ==
  [][\A i \in DOMAIN sent' :
       sent' # sent /\ sent'[i].type \in {"READ_ERROR", "WRITE_ERROR"} => reg' = reg]_vars

(* A dump sends every register of core, network extension and application
   once, by rising address.                                                *)
DumpExact ==
  [][pc = "dump" /\ pc' # "dump" =>
       /\ Known = {sent'[i].address : i \in 2..Len(sent')}
       /\ \A i, j \in 2..Len(sent') : i < j => sent'[i].address < sent'[j].address]_vars

(* Every message is cleared in the end, known or not, "so we don't lock up"
   (harp_core.cpp:173).                                                    *)
MessageEnds == msg # NoMsg ~> msg = NoMsg
=============================================================================
