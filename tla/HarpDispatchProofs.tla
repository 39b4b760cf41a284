------------------------- MODULE HarpDispatchProofs -------------------------
(* What HarpDispatch promises, for any application, requests and reports.  *)
EXTENDS HarpDispatch, TLAPS

\* What RegistersLegal asks of the value of register a.
Fit(a, v) ==
  /\ a = OPERATION_CTRL => ~(Mode \subseteq v) /\ "dump" \notin v
  /\ a = NET_CONFIG => v \cap {"apply", "clear"} = {}
  /\ a \in {NET_SSID, NET_PASSWORD, NET_SERVER_IP} => "last" \notin v
  /\ a = CLOCK_CONFIG => ~({"lock", "unlock"} \subseteq v) /\ "rep_able" \notin v
  /\ a = RESET_DEV => v = {}

File == {r \in [Known -> SUBSET Bit] : \A a \in Known : Fit(a, r[a])}

Handler ==
  \/ BadFormat \/ NotForDevices \/ ReadRegister \/ WriteReadOnly \/ WriteGeneric \/ Unhandled
  \/ WriteOperationCtrl \/ WriteResetDev \/ WriteUnsupported
  \/ WriteTimestampOffset \/ WriteTimestampSecond \/ WriteClockConfig
  \/ WriteText \/ WriteNetConfig

\* The state but for the answers; these have lemmas of their own further down.
Ready ==
  /\ reg \in File
  /\ msg \in Requests \cup {NoMsg}
  /\ pc \in {"turn", "input", "core", "app", "dump"}
  /\ msg = NoMsg <=> pc \in {"turn", "input"}
  /\ pc = "app" => msg.address \notin CoreAddr \cup ExtAddr
  /\ next \in Known /\ (pc # "dump" => next = 0)

\* A turn answers nobody before the handler runs.
NothingYet == pc \in {"input", "core", "app"} => sent = <<>>

\* The mute bit a handler goes by, as Answered puts it.
Hushed ==
  IF msg.type = "WRITE" /\ msg.address = OPERATION_CTRL THEN Muted(reg') ELSE Muted(reg)

\* The ways a handler answers.
NoAnswer == <<>>

Silent == msg.type = "EVENT" /\ sent' = Sending(reg, NoAnswer)

Told ==
  /\ msg.type \in {"READ", "WRITE"}
  /\ \E value \in SUBSET Bit :
       /\ sent' = IF Hushed THEN sent ELSE sent \o Reply(msg.type, value)
       /\ msg.type = "WRITE" => value = reg'[msg.address]

Refused ==
  /\ msg.type \in {"READ", "WRITE"} /\ reg' = reg
  /\ \E value \in SUBSET Bit :
       sent' = Sending(reg, Reply(IF msg.type = "READ" THEN "READ_ERROR" ELSE "WRITE_ERROR", value))

Astray ==
  /\ AppRegs # 0 /\ msg.address \notin Known /\ msg.type \in {"READ", "WRITE"}
  /\ sent' \in {sent, Sending(reg, Reply("broken", {}))}

DumpStarts ==
  /\ msg.type = "WRITE" /\ "dump" \in msg.payload /\ ~Muted(reg')
  /\ sent' = Sending(reg', Reply("WRITE", reg'[msg.address]))
  /\ pc' = "dump" /\ UNCHANGED <<msg, next>>

Outcome ==
  /\ reg' \in File
  /\ Silent \/ Told \/ Refused \/ Astray
  /\ ClearMsg \/ DumpStarts

-----------------------------------------------------------------------------
(* Addresses and tables                                                    *)

LEMMA Addresses ==
  /\ Known \subseteq 0..254 /\ CoreAddr \cup ExtAddr \subseteq Known /\ AppAddr \subseteq Known
  /\ AppAddr \cap (CoreAddr \cup ExtAddr) = {}
  /\ {TIMESTAMP_SECOND, OPERATION_CTRL, RESET_DEV, DEVICE_NAME, SERIAL_NUMBER, CLOCK_CONFIG,
      TIMESTAMP_OFFSET, HEARTBEAT} \subseteq CoreAddr
  /\ {NET_SSID, NET_PASSWORD, NET_SERVER_IP, NET_SERVER_PORT, NET_CONFIG} \subseteq ExtAddr
BY AppAssumption
   DEF Known, CoreAddr, ExtAddr, AppAddr, AppStart, TIMESTAMP_SECOND, OPERATION_CTRL, RESET_DEV,
       DEVICE_NAME, SERIAL_NUMBER, CLOCK_CONFIG, TIMESTAMP_OFFSET, HEARTBEAT,
       NET_SSID, NET_PASSWORD, NET_SERVER_IP, NET_SERVER_PORT, NET_CONFIG

LEMMA Distinct ==
  /\ OPERATION_CTRL = 10 /\ RESET_DEV = 11 /\ DEVICE_NAME = 12 /\ CLOCK_CONFIG = 14
  /\ TIMESTAMP_OFFSET = 15 /\ HEARTBEAT = 18 /\ NET_SSID = 32 /\ NET_PASSWORD = 33
  /\ NET_SERVER_IP = 34 /\ NET_SERVER_PORT = 35 /\ NET_CONFIG = 36
BY DEF OPERATION_CTRL, RESET_DEV, DEVICE_NAME, CLOCK_CONFIG, TIMESTAMP_OFFSET, HEARTBEAT,
       NET_SSID, NET_PASSWORD, NET_SERVER_IP, NET_SERVER_PORT, NET_CONFIG

\* Where the dump goes next.
LEMMA DumpGoesOn ==
  ASSUME NEW a \in Known
  PROVE  /\ DumpNext(a) \in Nat /\ a < DumpNext(a)
         /\ DumpNext(a) < AppStart + AppRegs => DumpNext(a) \in Known
         /\ \A b \in Known : b < DumpNext(a) <=> b <= a
BY AppAssumption, Z3 DEF DumpNext, Known, CoreAddr, ExtAddr, AppAddr, AppStart, NET_SSID, NET_CONFIG

LEMMA InitialFile == InitReg \in File
<1>1. InitReg \in [Known -> SUBSET Bit]
  BY DEF InitReg, Bit, Mode, Status
<1>2. \A a \in Known : Fit(a, InitReg[a])
  BY Distinct DEF InitReg, Fit, Mode, SERIAL_NUMBER
<1> QED BY <1>1, <1>2 DEF File

LEMMA BitNames ==
  /\ Mode = {"mode0", "mode1"} /\ Status = {"cfg_valid", "wifi_up", "tcp_conn"}
  /\ Mode \cup Status \subseteq Bit
  /\ {"heartbeat_en", "dump", "mute", "active", "synced", "text", "last", "rst_def", "save", "name",
      "dfu", "boot_def", "clk_rep", "rep_able", "unlock", "lock", "enable", "apply", "clear"} \subseteq Bit
BY DEF Bit, Mode, Status

LEMMA Overwritten ==
  ASSUME NEW r \in File, NEW a, NEW v \in SUBSET Bit, Fit(a, v)
  PROVE  /\ [r EXCEPT ![a] = v] \in File
         /\ a \in Known => [r EXCEPT ![a] = v][a] = v
         /\ \A b \in Known : b # a => [r EXCEPT ![a] = v][b] = r[b]
BY DEF File

LEMMA RestartedFile == Restarted \subseteq File
<1> DEFINE restored == [InitReg EXCEPT ![NET_SSID] = {"text"}, ![NET_SERVER_IP] = {"text"},
                                       ![NET_CONFIG] = {"enable"}]
<1>1. /\ Fit(NET_SSID, {"text"}) /\ Fit(NET_SERVER_IP, {"text"}) /\ Fit(NET_CONFIG, {"enable"})
      /\ {"text"} \in SUBSET Bit /\ {"enable"} \in SUBSET Bit
  BY Distinct, BitNames DEF Fit
<1>2. [InitReg EXCEPT ![NET_SSID] = {"text"}] \in File
  BY <1>1, InitialFile, Overwritten
<1>3. [[InitReg EXCEPT ![NET_SSID] = {"text"}] EXCEPT ![NET_SERVER_IP] = {"text"}] \in File
  BY <1>1, <1>2, Overwritten
<1>4. restored = [[[InitReg EXCEPT ![NET_SSID] = {"text"}] EXCEPT ![NET_SERVER_IP] = {"text"}]
                    EXCEPT ![NET_CONFIG] = {"enable"}]
  OBVIOUS
<1>5. restored \in File
  BY <1>1, <1>3, <1>4, Overwritten
<1> QED BY <1>5, InitialFile DEF Restarted

\* Only R_OPERATION_CTRL holds the mute bit.
LEMMA MuteKept ==
  ASSUME NEW r \in File, NEW a, a # OPERATION_CTRL, NEW v
  PROVE  Muted([r EXCEPT ![a] = v]) <=> Muted(r)
<1>1. OPERATION_CTRL \in DOMAIN r
  BY Addresses DEF File
<1>2. [r EXCEPT ![a] = v][OPERATION_CTRL] = r[OPERATION_CTRL]
  BY <1>1
<1> QED BY <1>2 DEF Muted

\* An address a dispatcher takes is that of a register; only the last place
\* sees others.

LEMMA MineKnown ==
  ASSUME Mine
  PROVE  msg.address \in Known
BY DEF Mine, Known

\* Writes of one kind exclude those of the others.
LEMMA WritesKnown ==
  ASSUME NEW addresses, Writes(addresses)
  PROVE  msg.type = "WRITE" /\ msg.address \in addresses /\ msg.address \in Known
BY MineKnown DEF Writes

LEMMA SilentHandler ==
  ASSUME reg \in File, msg.type = "EVENT", Handled(reg, NoAnswer)
  PROVE  Outcome
BY DEF Outcome, Silent, Handled

LEMMA TellingHandler ==
  ASSUME NEW r \in File, NEW value \in SUBSET Bit, reg' = r,
         msg.type \in {"READ", "WRITE"}, msg.type = "WRITE" => value = r[msg.address],
         \/ msg.type = "WRITE" /\ msg.address = OPERATION_CTRL
            /\ sent' = Sending(r, Reply(msg.type, value))
         \/ ~(msg.type = "WRITE" /\ msg.address = OPERATION_CTRL)
            /\ sent' = Sending(reg, Reply(msg.type, value)),
         ClearMsg
  PROVE  Outcome
<1>1. sent' = IF Hushed THEN sent ELSE sent \o Reply(msg.type, value)
  BY DEF Hushed, Sending
<1> QED BY <1>1 DEF Outcome, Told

LEMMA RefusingHandler ==
  ASSUME reg \in File, NEW value \in SUBSET Bit, reg' = reg, ClearMsg,
         msg.type \in {"READ", "WRITE"},
         sent' = Sending(reg, Reply(IF msg.type = "READ" THEN "READ_ERROR" ELSE "WRITE_ERROR", value))
  PROVE  Outcome
BY DEF Outcome, Refused

\* What an error reply to any message is.
LEMMA ErrorHandler ==
  ASSUME reg \in File, NEW value \in SUBSET Bit,
         msg.type \in {"READ", "WRITE", "EVENT"}, Handled(reg, ErrorOf(value))
  PROVE  Outcome
<1>1. CASE msg.type = "READ"
  <2>1. ErrorOf(value) = Reply("READ_ERROR", value)
    BY <1>1 DEF ErrorOf
  <2> QED BY <1>1, <2>1, RefusingHandler DEF Handled
<1>2. CASE msg.type = "WRITE"
  <2>1. ErrorOf(value) = Reply("WRITE_ERROR", value)
    BY <1>2 DEF ErrorOf
  <2> QED BY <1>2, <2>1, RefusingHandler DEF Handled
<1>3. CASE msg.type = "EVENT"
  <2>1. ErrorOf(value) = NoAnswer
    BY <1>3 DEF ErrorOf, NoAnswer
  <2> QED BY <1>3, <2>1, SilentHandler
<1> QED BY <1>1, <1>2, <1>3

-----------------------------------------------------------------------------
(* One lemma per handler                                                   *)

LEMMA Given ==
  ASSUME Ready, pc \in {"core", "app"}
  PROVE  /\ reg \in File
         /\ msg \in Message /\ msg.type \in {"READ", "WRITE", "EVENT"}
         /\ msg.payload \in SUBSET Bit
         /\ msg.address \in Known => reg[msg.address] \in SUBSET Bit
<1>1. msg \in Message
  BY HostAssumption DEF Ready
<1> QED BY <1>1 DEF Message, File, Ready

LEMMA MineGiven ==
  ASSUME Ready, Mine
  PROVE  /\ reg \in File
         /\ msg.type \in {"READ", "WRITE", "EVENT"} /\ msg.payload \in SUBSET Bit
         /\ msg.address \in Known /\ reg[msg.address] \in SUBSET Bit
BY Given, MineKnown DEF Mine

LEMMA BadFormatOutcome ==
  ASSUME Ready, BadFormat
  PROVE  Outcome
BY MineGiven, ErrorHandler DEF BadFormat

LEMMA NotForDevicesOutcome ==
  ASSUME Ready, NotForDevices
  PROVE  Outcome
BY MineGiven, SilentHandler DEF NotForDevices, NoAnswer

LEMMA OutsideTableOutcome ==
  ASSUME Ready, pc = "app", msg.address \notin AppAddr, AppRegs # 0, msg.type # "EVENT", OutsideTable
  PROVE  Outcome
<1>1. ClearMsg
  BY DEF OutsideTable
<1>2. pc \in {"core", "app"} /\ msg.address \notin Known
  BY DEF Ready, Known
<1>3. ASSUME NEW value \in {{}, {"text"}}, reg' = reg, sent' = Sending(reg, ErrorOf(value))
      PROVE  Outcome
  <2>1. value \in SUBSET Bit
    BY BitNames
  <2> QED BY <1>1, <1>2, <1>3, <2>1, Given, ErrorHandler DEF Handled
<1>4. CASE reg' \in {reg} \cup Restarted /\ sent' \in {sent, Sending(reg, Reply("broken", {}))}
  <2>1. reg' \in File
    BY <1>2, <1>4, Given, RestartedFile
  <2>2. Astray
    BY <1>2, <1>4, Given DEF Astray
  <2> QED BY <1>1, <2>1, <2>2 DEF Outcome
<1>5. \/ reg' = reg /\ \E value \in {{}, {"text"}} : sent' = Sending(reg, ErrorOf(value))
      \/ reg' \in {reg} \cup Restarted /\ sent' \in {sent, Sending(reg, Reply("broken", {}))}
  BY DEF OutsideTable
<1> QED BY <1>3, <1>4, <1>5

LEMMA UnhandledOutcome ==
  ASSUME Ready, Unhandled
  PROVE  Outcome
<1>1. pc = "app" /\ pc \in {"core", "app"} /\ msg.address \notin AppAddr
  BY DEF Unhandled
<1>2. CASE AppRegs = 0 \/ msg.type = "EVENT"
  <2>1. Handled(reg, ErrorOf(reg[0]))
    BY <1>2 DEF Unhandled
  <2>2. reg[0] \in SUBSET Bit
    <3>1. 0 \in Known
      BY Addresses DEF CoreAddr
    <3> QED BY <3>1 DEF Ready, File
  <2> QED BY <1>1, <2>1, <2>2, Given, ErrorHandler
<1>3. CASE ~(AppRegs = 0 \/ msg.type = "EVENT")
  BY <1>1, <1>3, OutsideTableOutcome DEF Unhandled
<1> QED BY <1>2, <1>3

LEMMA ReadRegisterOutcome ==
  ASSUME Ready, ReadRegister
  PROVE  Outcome
<1>1. Mine /\ msg.type = "READ"
  BY DEF ReadRegister, Reads
<1>2. CASE WriteOnly(msg.address)
  <2>1. Handled(reg, Reply("READ_ERROR", {}))
    BY <1>2 DEF ReadRegister
  <2> QED BY <1>1, <2>1, MineGiven, RefusingHandler DEF Handled
<1>3. CASE ~WriteOnly(msg.address)
  <2> DEFINE value == CASE msg.address = RESET_DEV    -> {"boot_def"}
                        [] msg.address = NET_PASSWORD -> {}
                        [] OTHER                      -> reg[msg.address]
  <2>1. value \in SUBSET Bit
    <3>1. RESET_DEV # NET_PASSWORD
      BY Distinct
    <3>2. CASE msg.address = RESET_DEV
      BY <3>1, <3>2, BitNames
    <3>3. CASE msg.address = NET_PASSWORD
      BY <3>1, <3>3
    <3>4. CASE msg.address # RESET_DEV /\ msg.address # NET_PASSWORD
      BY <1>1, <3>4, MineGiven
    <3> QED BY <3>2, <3>3, <3>4
  <2>2. Handled(reg, Reply("READ", value))
    BY <1>3 DEF ReadRegister
  <2> HIDE DEF value
  <2> QED BY <1>1, <2>1, <2>2, MineGiven, TellingHandler DEF Handled
<1> QED BY <1>2, <1>3

LEMMA WriteReadOnlyOutcome ==
  ASSUME Ready, WriteReadOnly
  PROVE  Outcome
<1>1. Mine /\ msg.type = "WRITE"
  BY DEF WriteReadOnly, Writes
<1>2. Handled(reg, Reply("WRITE_ERROR", reg[msg.address]))
  BY DEF WriteReadOnly
<1> QED BY <1>1, <1>2, MineGiven, RefusingHandler DEF Handled

\* A write that is acknowledged with the register it has changed.
LEMMA Acknowledged ==
  ASSUME Ready, Mine, msg.type = "WRITE", NEW r \in File, Handled(r, Ack(r)),
         msg.address # OPERATION_CTRL => (Muted(r) <=> Muted(reg))
  PROVE  Outcome
<1>1. r[msg.address] \in SUBSET Bit
  BY MineGiven DEF File
<1>2. Ack(r) = Reply(msg.type, r[msg.address])
  BY DEF Ack
<1>3. reg' = r /\ ClearMsg /\ sent' = Sending(r, Reply(msg.type, r[msg.address]))
  BY <1>2 DEF Handled
<1>4. CASE msg.address = OPERATION_CTRL
  BY <1>1, <1>3, <1>4, TellingHandler
<1>5. CASE msg.address # OPERATION_CTRL
  <2>1. sent' = Sending(reg, Reply(msg.type, r[msg.address]))
    BY <1>3, <1>5 DEF Sending
  <2> QED BY <1>1, <1>3, <1>5, <2>1, TellingHandler
<1> QED BY <1>4, <1>5

LEMMA WriteGenericOutcome ==
  ASSUME Ready, WriteGeneric
  PROVE  Outcome
<1> DEFINE r == [reg EXCEPT ![msg.address] = msg.payload]
<1>1. Mine /\ msg.type = "WRITE"
  BY DEF WriteGeneric, Writes
<1>2. Handled(r, Ack(r))
  BY DEF WriteGeneric
<1>3. Fit(msg.address, msg.payload) /\ msg.address # OPERATION_CTRL
  <2>1. msg.address \in AppAddr
    BY WritesKnown DEF WriteGeneric
  <2> QED BY <2>1, Addresses DEF Fit
<1>4. r \in File
  BY <1>1, <1>3, MineGiven, Overwritten
<1>5. Muted(r) <=> Muted(reg)
  BY <1>1, <1>3, MineGiven, MuteKept
<1> QED BY <1>1, <1>2, <1>4, <1>5, Acknowledged

LEMMA WriteUnsupportedOutcome ==
  ASSUME Ready, WriteUnsupported
  PROVE  Outcome
<1>1. Mine /\ msg.type = "WRITE"
  BY DEF WriteUnsupported, Writes
<1> QED BY <1>1, MineGiven, Acknowledged DEF WriteUnsupported

LEMMA WriteTimestampOffsetOutcome ==
  ASSUME Ready, WriteTimestampOffset
  PROVE  Outcome
<1> DEFINE r == [reg EXCEPT ![TIMESTAMP_OFFSET] = {}]
<1>1. Mine /\ msg.type = "WRITE"
  BY DEF WriteTimestampOffset, Writes
<1>2. Handled(r, Ack(r))
  BY DEF WriteTimestampOffset
<1>3. r \in File
  <2>1. Fit(TIMESTAMP_OFFSET, {})
    BY Distinct, BitNames DEF Fit
  <2> QED BY <1>1, <2>1, MineGiven, Overwritten
<1>4. Muted(r) <=> Muted(reg)
  BY <1>1, Distinct, MineGiven, MuteKept
<1> QED BY <1>1, <1>2, <1>3, <1>4, Acknowledged

LEMMA WriteTimestampSecondOutcome ==
  ASSUME Ready, WriteTimestampSecond
  PROVE  Outcome
<1>1. Mine /\ msg.type = "WRITE" /\ msg.address = TIMESTAMP_SECOND
  BY DEF WriteTimestampSecond, Writes
<1>2. CASE Handled(reg, Ack(reg))
  BY <1>1, <1>2, MineGiven, Acknowledged
<1>3. CASE Handled(reg, Reply("WRITE_ERROR", reg[msg.address]))
  BY <1>1, <1>3, MineGiven, RefusingHandler DEF Handled
<1> QED BY <1>1, <1>2, <1>3 DEF WriteTimestampSecond

LEMMA LockedBits ==
  ASSUME NEW bits \in SUBSET Bit, Fit(CLOCK_CONFIG, bits)
  PROVE  /\ Locked(bits) \subseteq {"lock", "unlock"}
         /\ ~({"lock", "unlock"} \subseteq Locked(bits))
BY DEF Locked, Fit

LEMMA WriteClockConfigOutcome ==
  ASSUME Ready, WriteClockConfig
  PROVE  Outcome
<1> DEFINE v == Locked(reg[CLOCK_CONFIG]) \cup (msg.payload \cap {"clk_rep"}) \cup (reg[CLOCK_CONFIG] \cap {"rep_able"})
           r == [reg EXCEPT ![CLOCK_CONFIG] = v]
<1>1. Mine /\ msg.type = "WRITE" /\ msg.address = CLOCK_CONFIG
  BY DEF WriteClockConfig, Writes
<1>2. Handled(r, Ack(r))
  BY DEF WriteClockConfig
<1>3. reg[CLOCK_CONFIG] \in SUBSET Bit /\ Fit(CLOCK_CONFIG, reg[CLOCK_CONFIG])
  BY <1>1, MineGiven DEF File
<1>4. v \in SUBSET Bit /\ Fit(CLOCK_CONFIG, v)
  <2>1. "rep_able" \notin reg[CLOCK_CONFIG]
    BY <1>3 DEF Fit
  <2>2. ~({"lock", "unlock"} \subseteq v) /\ "rep_able" \notin v
    BY <1>3, <2>1, LockedBits
  <2> QED BY <1>3, <2>2, LockedBits, BitNames, Distinct DEF Fit
<1>5. r \in File
  BY <1>1, <1>4, MineGiven, Overwritten
<1>6. Muted(r) <=> Muted(reg)
  BY <1>1, Distinct, MineGiven, MuteKept
<1> QED BY <1>1, <1>2, <1>5, <1>6, Acknowledged

LEMMA WriteTextOutcome ==
  ASSUME Ready, WriteText
  PROVE  Outcome
<1> DEFINE v == IF msg.address = NET_SERVER_PORT THEN msg.payload ELSE msg.payload \ {"last"}
           r == [reg EXCEPT ![msg.address] = v]
<1>1. Mine /\ msg.type = "WRITE"
  BY DEF WriteText, Writes
<1>2. Handled(r, Ack(r))
  BY DEF WriteText
<1>3. v \in SUBSET Bit /\ Fit(msg.address, v)
  <2>1. msg.address \in NET_SSID..NET_SERVER_PORT
    BY WritesKnown DEF WriteText
  <2>2. v \in SUBSET Bit
    BY <1>1, MineGiven
  <2>3. msg.address # NET_SERVER_PORT => "last" \notin v
    OBVIOUS
  <2> HIDE DEF v
  <2> QED BY <2>1, <2>2, <2>3, Distinct DEF Fit
<1>4. r \in File
  BY <1>1, <1>3, MineGiven, Overwritten
<1>5. Muted(r) <=> Muted(reg)
  <2>1. msg.address \in NET_SSID..NET_SERVER_PORT
    BY WritesKnown DEF WriteText
  <2>2. msg.address # OPERATION_CTRL
    BY <2>1, Distinct
  <2> QED BY <1>1, <2>2, MineGiven, MuteKept
<1> QED BY <1>1, <1>2, <1>4, <1>5, Acknowledged

LEMMA WriteNetConfigOutcome ==
  ASSUME Ready, WriteNetConfig
  PROVE  Outcome
<1> DEFINE w == IF {"enable", "apply"} \subseteq msg.payload THEN {} ELSE reg[NET_PASSWORD]
           v == IF "clear" \in msg.payload THEN {}
                ELSE (msg.payload \cap {"enable"}) \cup (reg[NET_CONFIG] \cap Status)
           r == [reg EXCEPT ![NET_PASSWORD] = w, ![NET_CONFIG] = v]
<1>1. Mine /\ msg.type = "WRITE" /\ msg.address = NET_CONFIG
  BY DEF WriteNetConfig, Writes
<1>2. Handled(r, Ack(r))
  <2>1. NET_PASSWORD # NET_CONFIG /\ NET_PASSWORD \in Known /\ NET_CONFIG \in Known
    BY Distinct, Addresses
  <2> QED BY <1>1, <2>1, MineGiven DEF WriteNetConfig, File
<1>3. v \in SUBSET Bit /\ w \in SUBSET Bit
  <2>1. reg[NET_PASSWORD] \in SUBSET Bit /\ reg[NET_CONFIG] \in SUBSET Bit
    BY <1>1, MineGiven, Addresses DEF File
  <2> QED BY <1>1, <2>1, MineGiven, BitNames
<1>4. Fit(NET_CONFIG, v) /\ Fit(NET_PASSWORD, w)
  <2>1. v \cap {"apply", "clear"} = {}
    BY BitNames
  <2>2. "last" \notin w
    BY <1>1, MineGiven, Addresses DEF File, Fit
  <2> QED BY <2>1, <2>2, Distinct DEF Fit
<1>5. r \in File
  <2> HIDE DEF v, w
  <2>1. [reg EXCEPT ![NET_PASSWORD] = w] \in File
    BY <1>1, <1>3, <1>4, MineGiven, Overwritten
  <2>2. r = [[reg EXCEPT ![NET_PASSWORD] = w] EXCEPT ![NET_CONFIG] = v]
    OBVIOUS
  <2> QED BY <1>3, <1>4, <2>1, <2>2, Overwritten
<1>6. Muted(r) <=> Muted(reg)
  <2> HIDE DEF v, w
  <2> DEFINE n == [reg EXCEPT ![NET_PASSWORD] = w]
             m == [n EXCEPT ![NET_CONFIG] = v]
  <2>1. n \in File
    BY <1>1, <1>3, <1>4, MineGiven, Overwritten
  <2>2. r = m
    OBVIOUS
  <2>3. Muted(n) <=> Muted(reg)
    BY <1>1, Distinct, MineGiven, MuteKept
  <2>4. Muted(m) <=> Muted(n)
    <3> HIDE DEF n
    <3> QED BY <2>1, Distinct, MuteKept
  <2> HIDE DEF n, m, r
  <2> QED BY <2>2, <2>3, <2>4
<1> QED BY <1>1, <1>2, <1>5, <1>6, Acknowledged

LEMMA BeatingTyped ==
  ASSUME NEW r \in File, NEW reported \in SUBSET Reported
  PROVE  /\ Beating(r, reported) \in File
         /\ \A a \in Known : a # HEARTBEAT => Beating(r, reported)[a] = r[a]
         /\ "active" \in Beating(r, reported)[HEARTBEAT] <=> r[OPERATION_CTRL] \cap Mode = {"mode0"}
<1> DEFINE v == (IF r[OPERATION_CTRL] \cap Mode = {"mode0"} THEN {"active"} ELSE {}) \cup (reported \cap {"synced"})
<1>1. Beating(r, reported) = [r EXCEPT ![HEARTBEAT] = v]
  BY DEF Beating
<1>2. v \in SUBSET Bit
  BY BitNames
<1>3. "active" \in v <=> r[OPERATION_CTRL] \cap Mode = {"mode0"}
  OBVIOUS
<1>4. HEARTBEAT \in Known
  BY Addresses
<1> HIDE DEF v
<1>5. Fit(HEARTBEAT, v)
  BY Distinct DEF Fit
<1>6. Beating(r, reported) \in File
  <2>1. [r EXCEPT ![HEARTBEAT] = v] \in File
    BY <1>2, <1>5, Overwritten
  <2> QED BY <1>1, <2>1
<1>7. \A a \in Known : a # HEARTBEAT => Beating(r, reported)[a] = r[a]
  BY <1>1, <1>2, <1>5, Overwritten
<1>8. Beating(r, reported)[HEARTBEAT] = v
  BY <1>1, <1>2, <1>4, <1>5, Overwritten
<1> QED BY <1>3, <1>6, <1>7, <1>8

LEMMA ForcedTyped ==
  ASSUME NEW r \in File, NEW f \in Forced(r)
  PROVE  /\ f \in File /\ \A a \in Known : a # HEARTBEAT => f[a] = r[a]
BY BeatingTyped DEF Forced

LEMMA WriteOperationCtrlOutcome ==
  ASSUME Ready, WriteOperationCtrl
  PROVE  Outcome
<1>1. Mine /\ msg.type = "WRITE" /\ msg.address = OPERATION_CTRL
  BY DEF WriteOperationCtrl, Writes
<1>2. CASE Mode \subseteq msg.payload
  <2>1. Handled(reg, Reply("WRITE_ERROR", reg[msg.address]))
    BY <1>1, <1>2 DEF WriteOperationCtrl
  <2> QED BY <1>1, <2>1, MineGiven, RefusingHandler DEF Handled
<1>3. CASE ~(Mode \subseteq msg.payload)
  <2> DEFINE stored == [reg EXCEPT ![OPERATION_CTRL] = msg.payload \ {"dump"}]
  <2>1. PICK r \in Forced(stored) :
          IF "dump" \in msg.payload /\ ~Muted(r)
          THEN reg' = r /\ sent' = Sending(r, Ack(r)) /\ pc' = "dump" /\ UNCHANGED <<msg, next>>
          ELSE Handled(r, Ack(r))
    BY <1>3 DEF WriteOperationCtrl
  <2>2. stored \in File
    <3>1. Fit(OPERATION_CTRL, msg.payload \ {"dump"})
      BY <1>3, Distinct, BitNames DEF Fit
    <3> QED BY <1>1, <3>1, MineGiven, Overwritten
  <2> HIDE DEF stored
  <2>3. r \in File
    BY <2>1, <2>2, ForcedTyped
  <2>4. CASE Handled(r, Ack(r))
    BY <1>1, <2>3, <2>4, Acknowledged
  <2>5. CASE /\ "dump" \in msg.payload /\ ~Muted(r)
             /\ reg' = r /\ sent' = Sending(r, Ack(r)) /\ pc' = "dump" /\ UNCHANGED <<msg, next>>
    <3>1. r[msg.address] \in SUBSET Bit
      BY <1>1, <2>3, MineGiven DEF File
    <3>2. Ack(r) = Reply("WRITE", r[msg.address])
      BY DEF Ack
    <3>3. DumpStarts
      BY <1>1, <2>5, <3>2 DEF DumpStarts
    <3>4. Told
      <4>1. sent' = IF Hushed THEN sent ELSE sent \o Reply(msg.type, r[msg.address])
        BY <1>1, <2>5, <3>2 DEF Hushed, Sending
      <4> QED BY <1>1, <2>5, <3>1, <4>1 DEF Told
    <3> QED BY <2>3, <2>5, <3>3, <3>4 DEF Outcome
  <2> QED BY <2>1, <2>4, <2>5
<1> QED BY <1>2, <1>3

LEMMA WriteResetDevOutcome ==
  ASSUME Ready, WriteResetDev
  PROVE  Outcome
<1>1. Mine /\ msg.type = "WRITE" /\ msg.address = RESET_DEV
  BY DEF WriteResetDev, Writes
<1>2. CASE msg.payload \cap {"boot_def", "save"} # {}
  <2>1. Handled(reg, Reply("WRITE_ERROR", reg[msg.address]))
    BY <1>1, <1>2 DEF WriteResetDev
  <2> QED BY <1>1, <2>1, MineGiven, RefusingHandler DEF Handled
<1>3. CASE msg.payload \cap {"boot_def", "save"} = {}
  <2>1. sent' = Sending(reg, Ack(reg)) /\ ClearMsg
    BY <1>3 DEF WriteResetDev
  <2>2. reg[RESET_DEV] = {}
    BY <1>1, MineGiven DEF File, Fit
  <2>3. Ack(reg) = Reply(msg.type, {})
    BY <1>1, <2>2 DEF Ack
  <2>4. reg' \in File
    <3>1. CASE "dfu" \in msg.payload
      BY <1>3, <3>1, RestartedFile DEF WriteResetDev
    <3>2. CASE "dfu" \notin msg.payload
      <4> DEFINE n == IF "name" \in msg.payload THEN {} ELSE reg[DEVICE_NAME]
                 o == IF "rst_def" \in msg.payload THEN reg[OPERATION_CTRL] \ Mode ELSE reg[OPERATION_CTRL]
      <4>1. reg' = [[reg EXCEPT ![DEVICE_NAME] = n] EXCEPT ![OPERATION_CTRL] = o]
        <5>1. DEVICE_NAME # OPERATION_CTRL
          BY Distinct
        <5> QED BY <1>3, <3>2, <5>1 DEF WriteResetDev
      <4>2. /\ n \in SUBSET Bit /\ o \in SUBSET Bit
        BY <1>1, MineGiven, Addresses DEF File
      <4>3. Fit(DEVICE_NAME, n)
        BY Distinct, BitNames DEF Fit
      <4>4. Fit(OPERATION_CTRL, o)
        <5>1. Fit(OPERATION_CTRL, reg[OPERATION_CTRL])
          BY <1>1, MineGiven, Addresses DEF File
        <5> QED BY <5>1, Distinct, BitNames DEF Fit
      <4> HIDE DEF n, o
      <4>5. [reg EXCEPT ![DEVICE_NAME] = n] \in File
        BY <1>1, <4>2, <4>3, MineGiven, Overwritten
      <4> QED BY <4>1, <4>2, <4>4, <4>5, Overwritten
    <3> QED BY <3>1, <3>2
  <2>5. reg'[RESET_DEV] = {}
    BY <1>1, <2>4, MineGiven DEF File, Fit
  <2>6. msg.address # OPERATION_CTRL
    BY <1>1, Distinct
  <2> QED BY <1>1, <2>1, <2>3, <2>4, <2>5, <2>6, MineGiven, TellingHandler
<1> QED BY <1>2, <1>3

\* Every handler ends its turn in one of the three ways.
LEMMA HandlerOutcome ==
  ASSUME Ready, Handler
  PROVE  Outcome
BY BadFormatOutcome, NotForDevicesOutcome, ReadRegisterOutcome, WriteReadOnlyOutcome,
   WriteGenericOutcome, UnhandledOutcome, WriteOperationCtrlOutcome, WriteResetDevOutcome,
   WriteUnsupportedOutcome, WriteTimestampOffsetOutcome, WriteTimestampSecondOutcome,
   WriteClockConfigOutcome, WriteTextOutcome, WriteNetConfigOutcome
   DEF Handler

-----------------------------------------------------------------------------
(* The refresh at the beginning of a turn                                  *)

LEMMA UpdatedTyped ==
  ASSUME NEW r \in File, NEW u \in Updated(r)
  PROVE  u \in File
<1> DEFINE c == r[OPERATION_CTRL]
<1>1. c \in SUBSET Bit /\ Fit(OPERATION_CTRL, c)
  BY Addresses DEF File
<1>2. /\ c \cup {"mode0"} \in SUBSET Bit /\ c \ Mode \in SUBSET Bit
  BY <1>1, BitNames
<1>3. Fit(OPERATION_CTRL, c \ Mode)
  BY <1>1, BitNames, Distinct DEF Fit
<1>4. c \cap Mode = {} => Fit(OPERATION_CTRL, c \cup {"mode0"})
  BY <1>1, BitNames, Distinct DEF Fit
<1>5. u = r \/ (c \cap Mode = {} /\ u = [r EXCEPT ![OPERATION_CTRL] = c \cup {"mode0"}])
      \/ u = [r EXCEPT ![OPERATION_CTRL] = c \ Mode]
  BY DEF Updated
<1> HIDE DEF c
<1>6. [r EXCEPT ![OPERATION_CTRL] = c \ Mode] \in File
  BY <1>2, <1>3, Overwritten
<1>7. c \cap Mode = {} => [r EXCEPT ![OPERATION_CTRL] = c \cup {"mode0"}] \in File
  BY <1>2, <1>4, Overwritten
<1> QED BY <1>5, <1>6, <1>7

LEMMA RefreshedTyped ==
  ASSUME NEW r \in File, NEW reported \in SUBSET Reported
  PROVE  /\ Refreshed(r, reported) \in File
         /\ \A a \in Known : a # NET_CONFIG => Refreshed(r, reported)[a] = r[a]
         /\ "cfg_valid" \in Refreshed(r, reported)[NET_CONFIG]
              <=> "text" \in r[NET_SSID] /\ "text" \in r[NET_SERVER_IP]
<1> DEFINE v == (r[NET_CONFIG] \cap {"enable"}) \cup (reported \ {"synced"})
                \cup (IF "text" \in r[NET_SSID] /\ "text" \in r[NET_SERVER_IP] THEN {"cfg_valid"} ELSE {})
<1>1. Refreshed(r, reported) = [r EXCEPT ![NET_CONFIG] = v]
  BY DEF Refreshed
<1>2. reported \subseteq {"synced", "wifi_up", "tcp_conn"}
  BY ReportedAssumption
<1>3. v \subseteq {"enable", "wifi_up", "tcp_conn", "cfg_valid"}
  BY <1>2
<1>4. "cfg_valid" \in v <=> "text" \in r[NET_SSID] /\ "text" \in r[NET_SERVER_IP]
  BY <1>2
<1>5. NET_CONFIG \in Known
  BY Addresses
<1> HIDE DEF v
<1>6. v \in SUBSET Bit
  BY <1>3, BitNames
<1>7. Fit(NET_CONFIG, v)
  BY <1>3, Distinct DEF Fit
<1>8. Refreshed(r, reported) \in File
  <2>1. [r EXCEPT ![NET_CONFIG] = v] \in File
    BY <1>6, <1>7, Overwritten
  <2> QED BY <1>1, <2>1
<1>9. \A a \in Known : a # NET_CONFIG => Refreshed(r, reported)[a] = r[a]
  BY <1>1, <1>6, <1>7, Overwritten
<1>10. Refreshed(r, reported)[NET_CONFIG] = v
  BY <1>1, <1>5 DEF File
<1> QED BY <1>4, <1>8, <1>9, <1>10

LEMMA RefreshStep ==
  ASSUME Ready, Refresh
  PROVE  reg' \in File /\ StatusFresh'
<1>1. PICK r \in Updated(reg), reported \in SUBSET Reported :
        reg' = Refreshed(Beating(r, reported), reported)
  BY DEF Refresh
<1> DEFINE b == Beating(r, reported)
<1>2. r \in File
  BY UpdatedTyped DEF Ready
<1>3. /\ b \in File
      /\ \A a \in Known : a # HEARTBEAT => b[a] = r[a]
      /\ "active" \in b[HEARTBEAT] <=> r[OPERATION_CTRL] \cap Mode = {"mode0"}
  BY <1>2, BeatingTyped
<1> HIDE DEF b
<1>4. reg' = Refreshed(b, reported)
  BY <1>1 DEF b
<1>5. /\ reg' \in File
      /\ \A a \in Known : a # NET_CONFIG => reg'[a] = b[a]
      /\ "cfg_valid" \in reg'[NET_CONFIG] <=> "text" \in b[NET_SSID] /\ "text" \in b[NET_SERVER_IP]
  BY <1>3, <1>4, RefreshedTyped
<1>6. {HEARTBEAT, OPERATION_CTRL, NET_SSID, NET_SERVER_IP} \subseteq Known
  BY Addresses
<1>7. /\ reg'[HEARTBEAT] = b[HEARTBEAT] /\ reg'[OPERATION_CTRL] = r[OPERATION_CTRL]
      /\ reg'[NET_SSID] = b[NET_SSID] /\ reg'[NET_SERVER_IP] = b[NET_SERVER_IP]
  BY <1>3, <1>5, <1>6, Distinct
<1> QED BY <1>3, <1>5, <1>7 DEF StatusFresh

-----------------------------------------------------------------------------
(* The registers: legal, and fresh when they are read                      *)

LEMMA ReadyInit == Init => Ready
<1>1. 0 \in Known
  BY Addresses DEF CoreAddr
<1> QED BY <1>1, InitialFile DEF Init, Ready

LEMMA HandlerTurns ==
  ASSUME Ready, Handler
  PROVE  /\ Ready' /\ msg # NoMsg
         /\ pc \in {"core", "app"} /\ pc' \in {"turn", "dump"}
<1>1. pc \in {"core", "app"} /\ Outcome
  <2>1. pc \in {"core", "app"}
    BY DEF Handler, BadFormat, NotForDevices, ReadRegister, WriteReadOnly, WriteGeneric, Unhandled,
           WriteOperationCtrl, WriteResetDev, WriteUnsupported, WriteTimestampOffset,
           WriteTimestampSecond, WriteClockConfig, WriteText, WriteNetConfig, Reads, Writes, Mine
  <2> QED BY <2>1, HandlerOutcome
<1>2. msg # NoMsg
  BY <1>1 DEF Ready
<1>3. 0 \in Known
  BY Addresses DEF CoreAddr
<1>4. CASE ClearMsg
  BY <1>1, <1>3, <1>4 DEF Outcome, ClearMsg, Ready
<1>5. CASE DumpStarts
  BY <1>1, <1>2, <1>5 DEF Outcome, DumpStarts, Ready
<1> QED BY <1>1, <1>2, <1>4, <1>5 DEF Outcome, ClearMsg, DumpStarts

LEMMA DumpStepTurns ==
  ASSUME Ready, DumpStep
  PROVE  Ready' /\ msg # NoMsg /\ reg' = reg
<1>1. 0 \in Known
  BY Addresses DEF CoreAddr
<1>2. msg # NoMsg /\ reg' = reg
  BY DEF Ready, DumpStep
<1>3. CASE DumpNext(next) >= AppStart + AppRegs
  BY <1>1, <1>2, <1>3 DEF Ready, DumpStep, ClearMsg
<1>4. CASE ~(DumpNext(next) >= AppStart + AppRegs)
  <2>1. DumpNext(next) \in Known
    BY <1>4, AppAssumption, DumpGoesOn DEF Ready, AppStart
  <2> QED BY <1>2, <1>4, <2>1 DEF Ready, DumpStep
<1> QED BY <1>3, <1>4

LEMMA ReadyNext ==
  ASSUME Ready /\ StatusFresh, [Next]_vars
  PROVE  (Ready /\ StatusFresh)'
<1>1. CASE Refresh
  BY <1>1, RefreshStep DEF Ready, Refresh
<1>2. CASE NoMessage
  BY <1>2 DEF NoMessage, Ready, StatusFresh
<1>3. CASE Accept
  BY <1>3, HostAssumption DEF Accept, Ready, StatusFresh
<1>4. CASE NotCore
  BY <1>4 DEF NotCore, Ready, StatusFresh
<1>5. CASE Handler
  BY <1>5, HandlerTurns DEF StatusFresh
<1>6. CASE DumpStep
  <2>1. pc' \in {"turn", "dump"}
    BY <1>6 DEF DumpStep, ClearMsg
  <2> QED BY <1>6, <2>1, DumpStepTurns DEF StatusFresh
<1>7. CASE UNCHANGED vars
  BY <1>7 DEF vars, Ready, StatusFresh
<1> QED BY <1>1, <1>2, <1>3, <1>4, <1>5, <1>6, <1>7 DEF Next, CoreTask, Handler

THEOREM RegistersReady == Spec => [](Ready /\ StatusFresh)
<1>1. Init => Ready /\ StatusFresh
  BY ReadyInit DEF Init, StatusFresh
<1>2. Ready /\ StatusFresh /\ [Next]_vars => (Ready /\ StatusFresh)'
  BY ReadyNext
<1> QED BY <1>1, <1>2, PTL DEF Spec

(* Whatever the host writes, the registers stay legal.                     *)
THEOREM Legal == Spec => []RegistersLegal
<1>1. Ready => RegistersLegal
  BY Addresses, Distinct DEF Ready, File, Fit, RegistersLegal
<1> QED BY <1>1, RegistersReady, PTL

(* The handlers find the status of this turn in the registers.             *)
THEOREM Fresh == Spec => []StatusFresh
BY RegistersReady, PTL

-----------------------------------------------------------------------------
(* The answers.  What follows uses of the registers only whether replies   *)
(* are muted and what an acknowledgement carries.                          *)

Replied(kind, value) ==
  sent' = <<[type |-> kind, address |-> msg.address, value |-> value]>>

\* The handler has said nothing, acknowledged, refused, or gone astray.
Unanswered == sent' = <<>> /\ (msg.type = "EVENT" \/ Hushed)

Acknowledges ==
  /\ msg.type \in {"READ", "WRITE"} /\ ~Hushed
  /\ \E value \in SUBSET Bit :
       Replied(msg.type, value) /\ (msg.type = "WRITE" => value = reg'[msg.address])

Refuses ==
  /\ msg.type \in {"READ", "WRITE"} /\ ~Hushed /\ reg' = reg
  /\ \E value \in SUBSET Bit :
       Replied(IF msg.type = "READ" THEN "READ_ERROR" ELSE "WRITE_ERROR", value)

Breaks ==
  /\ AppRegs # 0 /\ msg.address \notin Known /\ msg.type \in {"READ", "WRITE"} /\ ~Hushed
  /\ sent' = <<>> \/ Replied("broken", {})

\* What a dump has sent when it comes to the register next.
DumpSoFar ==
  /\ msg.type = "WRITE" /\ "dump" \in msg.payload /\ ~Muted(reg)
  /\ Len(sent) >= 1 /\ sent[1].type = "WRITE" /\ sent[1].address = msg.address
  /\ \A i \in 2..Len(sent) : sent[i].address \in Known /\ sent[i].address < next
  /\ \A a \in Known : a < next => \E i \in 2..Len(sent) : sent[i].address = a
  /\ \A i, j \in 2..Len(sent) : i < j => sent[i].address < sent[j].address

Answers ==
  /\ sent \in Seq(Answer)
  /\ NothingYet
  /\ AckIsCurrent
  /\ pc = "dump" => DumpSoFar

LEMMA SendsNothing ==
  ASSUME sent = <<>>, NEW r, sent' = Sending(r, NoAnswer)
  PROVE  sent' = <<>>
BY DEF Sending, NoAnswer

LEMMA SendsReply ==
  ASSUME sent = <<>>, NEW r, NEW kind, NEW value, sent' = Sending(r, Reply(kind, value))
  PROVE  IF Muted(r) THEN sent' = <<>> ELSE Replied(kind, value)
BY DEF Sending, Reply, Replied

LEMMA HandlerSends ==
  ASSUME Ready, NothingYet, Handler
  PROVE  Unanswered \/ Acknowledges \/ Refuses \/ Breaks
<1>1. sent = <<>> /\ (Silent \/ Told \/ Refused \/ Astray)
  BY HandlerTurns, HandlerOutcome DEF NothingYet, Outcome
<1>2. CASE Silent
  BY <1>1, <1>2, SendsNothing DEF Silent, Unanswered
<1>3. CASE Told
  <2>1. PICK value \in SUBSET Bit :
          /\ sent' = IF Hushed THEN sent ELSE sent \o Reply(msg.type, value)
          /\ msg.type = "WRITE" => value = reg'[msg.address]
    BY <1>3 DEF Told
  <2>2. CASE Hushed
    BY <1>1, <2>1, <2>2 DEF Unanswered
  <2>3. CASE ~Hushed
    <3>1. Replied(msg.type, value)
      BY <1>1, <2>1, <2>3 DEF Reply, Replied
    <3> QED BY <1>3, <2>1, <2>3, <3>1 DEF Told, Acknowledges
  <2> QED BY <2>2, <2>3
<1>4. CASE Refused
  <2> DEFINE kind == IF msg.type = "READ" THEN "READ_ERROR" ELSE "WRITE_ERROR"
  <2>1. PICK value \in SUBSET Bit : sent' = Sending(reg, Reply(kind, value))
    BY <1>4 DEF Refused
  <2>2. IF Muted(reg) THEN sent' = <<>> ELSE Replied(kind, value)
    BY <1>1, <2>1, SendsReply
  <2>3. Hushed <=> Muted(reg)
    BY <1>4 DEF Refused, Hushed, Muted
  <2>4. CASE Muted(reg)
    BY <2>2, <2>3, <2>4 DEF Unanswered
  <2>5. CASE ~Muted(reg)
    BY <1>4, <2>2, <2>3, <2>5 DEF Refused, Refuses
  <2> QED BY <2>4, <2>5
<1>5. CASE Astray
  <2>1. sent' = <<>> \/ (IF Muted(reg) THEN sent' = <<>> ELSE Replied("broken", {}))
    BY <1>1, <1>5, SendsReply DEF Astray
  <2>2. Hushed <=> Muted(reg)
    BY <1>5, Addresses DEF Astray, Hushed
  <2>3. CASE Muted(reg)
    BY <2>1, <2>2, <2>3 DEF Unanswered
  <2>4. CASE ~Muted(reg)
    BY <1>5, <2>1, <2>2, <2>4 DEF Astray, Breaks
  <2> QED BY <2>3, <2>4
<1> QED BY <1>1, <1>2, <1>3, <1>4, <1>5

LEMMA DumpBegins ==
  ASSUME Ready, NothingYet, Handler, ~ClearMsg
  PROVE  DumpStarts /\ Replied("WRITE", reg'[msg.address])
<1>1. sent = <<>> /\ DumpStarts
  BY HandlerTurns, HandlerOutcome DEF NothingYet, Outcome
<1>2. IF Muted(reg') THEN sent' = <<>> ELSE Replied("WRITE", reg'[msg.address])
  BY <1>1, SendsReply DEF DumpStarts
<1> QED BY <1>1, <1>2 DEF DumpStarts

\* The types of the parts of an answer.
LEMMA MessageTyped ==
  ASSUME Ready, msg # NoMsg
  PROVE  msg.type \in {"READ", "WRITE", "EVENT"} /\ msg.address \in 0..255
<1>1. msg \in Message
  BY HostAssumption DEF Ready
<1> QED BY <1>1 DEF Message

LEMMA AnswerTyped ==
  ASSUME NEW kind \in {"READ", "WRITE", "READ_ERROR", "WRITE_ERROR", "broken"}, msg.address \in 0..255,
         NEW value \in SUBSET Bit, Replied(kind, value)
  PROVE  /\ sent' \in Seq(Answer) /\ Len(sent') = 1
         /\ sent'[1].type = kind /\ sent'[1].address = msg.address /\ sent'[1].value = value
         /\ DOMAIN sent' = {1} /\ sent' # <<>>
<1> DEFINE x == [type |-> kind, address |-> msg.address, value |-> value]
<1>1. x \in Answer
  BY DEF Answer
<1>2. x.type = kind /\ x.address = msg.address /\ x.value = value
  OBVIOUS
<1>3. sent' = <<x>>
  BY DEF Replied
<1> HIDE DEF x
<1> QED BY <1>1, <1>2, <1>3

LEMMA HandlerAnswers ==
  ASSUME Ready, Answers, Handler
  PROVE  Answers'
<1>1. /\ msg.type \in {"READ", "WRITE", "EVENT"} /\ msg.address \in 0..255
      /\ pc' \in {"turn", "dump"}
  BY HandlerTurns, MessageTyped
<1>2. Unanswered \/ Acknowledges \/ Refuses \/ Breaks
  BY HandlerSends DEF Answers
<1>3. sent' \in Seq(Answer) /\ AckIsCurrent'
  <2>1. CASE Unanswered
    BY <2>1 DEF Unanswered, AckIsCurrent
  <2>2. CASE Acknowledges
    <3>1. PICK value \in SUBSET Bit :
            Replied(msg.type, value) /\ (msg.type = "WRITE" => value = reg'[msg.address])
      BY <2>2 DEF Acknowledges
    <3>2. msg.type \in {"READ", "WRITE", "READ_ERROR", "WRITE_ERROR"}
      BY <2>2 DEF Acknowledges
    <3> QED BY <1>1, <3>1, <3>2, AnswerTyped DEF AckIsCurrent
  <2>3. CASE Refuses
    <3> DEFINE kind == IF msg.type = "READ" THEN "READ_ERROR" ELSE "WRITE_ERROR"
    <3>1. PICK value \in SUBSET Bit : Replied(kind, value)
      BY <2>3 DEF Refuses
    <3>2. kind \in {"READ", "WRITE", "READ_ERROR", "WRITE_ERROR"} /\ kind # "WRITE"
      OBVIOUS
    <3> HIDE DEF kind
    <3> QED BY <1>1, <3>1, <3>2, AnswerTyped DEF AckIsCurrent
  <2>4. CASE Breaks
    <3>1. CASE sent' = <<>>
      BY <3>1 DEF AckIsCurrent
    <3>2. CASE Replied("broken", {})
      <4>1. "broken" \in {"READ", "WRITE", "READ_ERROR", "WRITE_ERROR", "broken"} /\ {} \in SUBSET Bit
        OBVIOUS
      <4> QED BY <1>1, <3>2, <4>1, AnswerTyped DEF AckIsCurrent
    <3> QED BY <2>4, <3>1, <3>2 DEF Breaks
  <2> QED BY <1>2, <2>1, <2>2, <2>3, <2>4
<1>4. NothingYet'
  BY <1>1 DEF NothingYet
<1>5. ASSUME pc' = "dump" PROVE DumpSoFar'
  <2>1. DumpStarts /\ Replied("WRITE", reg'[msg.address])
    BY <1>5, DumpBegins DEF Answers, ClearMsg
  <2>2. msg.type = "WRITE" /\ "dump" \in msg.payload /\ ~Muted(reg') /\ msg' = msg
    BY <2>1 DEF DumpStarts
  <2>3. next' = 0
    BY <2>1, HandlerTurns DEF DumpStarts, Ready
  <2>4. Len(sent') = 1 /\ sent'[1].type = "WRITE" /\ sent'[1].address = msg.address
    BY <2>1 DEF Replied
  <2>5. \A a \in Known : a \in Nat
    BY Addresses
  <2> HIDE DEF Known
  <2> QED BY <2>2, <2>3, <2>4, <2>5 DEF DumpSoFar, Muted
<1> QED BY <1>3, <1>4, <1>5 DEF Answers

\* The register the dump answers with.
LEMMA DumpedAnswer ==
  ASSUME Ready
  PROVE  [type |-> "READ", address |-> next, value |-> reg[next]] \in Answer
<1>1. next \in Known /\ next \in 0..254
  BY Addresses DEF Ready
<1>2. reg[next] \in SUBSET Bit
  BY <1>1 DEF Ready, File
<1> QED BY <1>1, <1>2 DEF Answer

\* What one answer more does to the dump so far.
LEMMA DumpAppends ==
  ASSUME NEW x \in Answer, x.type = "READ", x.address = next, next \in Known,
         sent \in Seq(Answer), DumpSoFar, sent' = Append(sent, x)
  PROVE  /\ sent' \in Seq(Answer) /\ Len(sent') = Len(sent) + 1 /\ Len(sent') >= 2
         /\ sent'[1] = sent[1] /\ sent'[Len(sent')] = x
         /\ \A i \in 1..Len(sent) : sent'[i] = sent[i]
         /\ \A i \in 2..Len(sent') : sent'[i].address \in Known /\ sent'[i].address <= next
         /\ \A a \in Known : a <= next => \E i \in 2..Len(sent') : sent'[i].address = a
         /\ \A i, j \in 2..Len(sent') : i < j => sent'[i].address < sent'[j].address
<1>1. /\ sent' \in Seq(Answer) /\ Len(sent') = Len(sent) + 1 /\ sent'[Len(sent')] = x
      /\ \A i \in 1..Len(sent) : sent'[i] = sent[i]
  OBVIOUS
<1>2. Len(sent) \in Nat /\ Len(sent) >= 1
  BY DEF DumpSoFar
<1>3. next \in Nat /\ \A a \in Known : a \in Nat
  BY Addresses
<1>4. ASSUME NEW i \in 2..Len(sent')
      PROVE  sent'[i].address \in Known /\ sent'[i].address <= next
  <2>1. CASE i = Len(sent')
    BY <1>1, <1>3, <2>1
  <2>2. CASE i # Len(sent')
    <3>1. i \in 2..Len(sent)
      BY <1>1, <1>2, <2>2
    <3>2. sent[i].address \in Known /\ sent[i].address < next
      BY <3>1 DEF DumpSoFar
    <3>3. sent'[i] = sent[i]
      BY <1>1, <1>2, <3>1
    <3>4. \A b \in Known : b < next => b <= next
      BY <1>3
    <3> QED BY <3>2, <3>3, <3>4
  <2> QED BY <2>1, <2>2
<1>5. ASSUME NEW a \in Known, a <= next
      PROVE  \E i \in 2..Len(sent') : sent'[i].address = a
  <2>1. CASE a = next
    BY <1>1, <1>2, <2>1
  <2>2. CASE a < next
    <3>1. PICK i \in 2..Len(sent) : sent[i].address = a
      BY <2>2 DEF DumpSoFar
    <3>2. i \in 2..Len(sent') /\ sent'[i] = sent[i]
      BY <1>1, <1>2
    <3> QED BY <3>1, <3>2
  <2> QED BY <1>3, <1>5, <2>1, <2>2
<1>6. ASSUME NEW i \in 2..Len(sent'), NEW j \in 2..Len(sent'), i < j
      PROVE  sent'[i].address < sent'[j].address
  <2>1. i \in 2..Len(sent) /\ sent'[i] = sent[i]
    BY <1>1, <1>2, <1>6
  <2>2. CASE j = Len(sent')
    <3>1. sent[i].address < next
      BY <2>1 DEF DumpSoFar
    <3> QED BY <1>1, <2>1, <2>2, <3>1
  <2>3. CASE j # Len(sent')
    <3>1. j \in 2..Len(sent) /\ sent'[j] = sent[j]
      BY <1>1, <1>2, <2>3
    <3> QED BY <1>6, <2>1, <3>1 DEF DumpSoFar
  <2> QED BY <2>2, <2>3
<1>7. sent'[1] = sent[1] /\ Len(sent') >= 2
  BY <1>1, <1>2
<1> QED BY <1>1, <1>4, <1>5, <1>6, <1>7

LEMMA DumpStepAnswers ==
  ASSUME Ready, Answers, DumpStep
  PROVE  Answers'
<1> DEFINE x == [type |-> "READ", address |-> next, value |-> reg[next]]
<1>1. x \in Answer /\ x.type = "READ" /\ x.address = next
  BY DumpedAnswer
<1>2. sent' = Append(sent, x)
  BY DEF DumpStep
<1> HIDE DEF x
<1>4. next \in Known /\ sent \in Seq(Answer) /\ DumpSoFar
  BY DEF Ready, Answers, DumpStep
<1>5. /\ sent' \in Seq(Answer) /\ Len(sent') = Len(sent) + 1 /\ Len(sent') >= 2
      /\ sent'[1] = sent[1] /\ sent'[Len(sent')] = x
      /\ \A i \in 1..Len(sent) : sent'[i] = sent[i]
  BY <1>1, <1>2, <1>4, DumpAppends
<1>6. /\ \A i \in 2..Len(sent') : sent'[i].address \in Known /\ sent'[i].address <= next
      /\ \A a \in Known : a <= next => \E i \in 2..Len(sent') : sent'[i].address = a
      /\ \A i, j \in 2..Len(sent') : i < j => sent'[i].address < sent'[j].address
  BY <1>1, <1>2, <1>4, DumpAppends
<1>7. reg' = reg /\ pc' \in {"turn", "dump"}
  BY DEF DumpStep, ClearMsg
<1>8. AckIsCurrent'
  <2> SUFFICES ASSUME NEW i \in DOMAIN sent', sent'[i].type = "WRITE"
               PROVE  sent'[i].value = reg[sent'[i].address]
    BY <1>7 DEF AckIsCurrent
  <2>1. i # Len(sent')
    BY <1>1, <1>5
  <2>2. i \in DOMAIN sent /\ sent'[i] = sent[i]
    BY <1>4, <1>5, <2>1
  <2> QED BY <2>2 DEF Answers, AckIsCurrent
<1>9. ASSUME pc' = "dump" PROVE DumpSoFar'
  <2>1. next' = DumpNext(next) /\ msg' = msg
    BY <1>9 DEF DumpStep, ClearMsg
  <2>2. \A b \in Known : b < next' <=> b <= next
    BY <1>4, <2>1, DumpGoesOn
  <2>3. \A i \in 2..Len(sent') : sent'[i].address \in Known /\ sent'[i].address < next'
    BY <1>6, <2>2
  <2>4. \A a \in Known : a < next' => \E i \in 2..Len(sent') : sent'[i].address = a
    BY <1>6, <2>2
  <2>5. msg'.type = "WRITE" /\ "dump" \in msg'.payload /\ ~Muted(reg')
    BY <1>4, <1>7, <2>1 DEF DumpSoFar
  <2>6. Len(sent') >= 1 /\ sent'[1].type = "WRITE" /\ sent'[1].address = msg'.address
    BY <1>4, <1>5, <2>1 DEF DumpSoFar
  <2> QED BY <1>6, <2>3, <2>4, <2>5, <2>6 DEF DumpSoFar, Muted
<1>10. NothingYet'
  BY <1>7 DEF NothingYet
<1> QED BY <1>5, <1>8, <1>9, <1>10 DEF Answers

LEMMA AnswersNext ==
  ASSUME Ready, Answers, [Next]_vars
  PROVE  Answers'
<1>1. CASE Refresh
  BY <1>1 DEF Refresh, Answers, NothingYet, AckIsCurrent
<1>2. CASE NoMessage
  BY <1>2 DEF NoMessage, Answers, NothingYet, AckIsCurrent
<1>3. CASE Accept
  BY <1>3 DEF Accept, Answers, NothingYet, AckIsCurrent
<1>4. CASE NotCore
  BY <1>4 DEF NotCore, Answers, NothingYet, AckIsCurrent
<1>5. CASE Handler
  BY <1>5, HandlerAnswers
<1>6. CASE DumpStep
  BY <1>6, DumpStepAnswers
<1>7. CASE UNCHANGED vars
  BY <1>7 DEF vars, Answers, NothingYet, AckIsCurrent, DumpSoFar, Muted
<1> QED BY <1>1, <1>2, <1>3, <1>4, <1>5, <1>6, <1>7 DEF Next, CoreTask, Handler

THEOREM AnswersRight == Spec => [](Ready /\ Answers)
<1>1. Init => Answers
  BY DEF Init, Answers, NothingYet, AckIsCurrent
<1>2. Answers /\ Ready /\ [Next]_vars => Answers'
  BY AnswersNext
<1>3. Spec => []Ready
  BY RegistersReady, PTL
<1> QED BY <1>1, <1>2, <1>3, PTL DEF Spec

(* Every variable keeps its type.                                          *)
THEOREM TypeCorrect == Spec => []TypeOK
<1>1. Ready /\ Answers => TypeOK
  <2>1. Ready => reg \in [Known -> SUBSET Bit]
    BY DEF Ready, File
  <2>2. Answers => sent \in Seq(Answer)
    BY DEF Answers
  <2> QED BY <2>1, <2>2, Zenon DEF TypeOK, Ready
<1> QED BY <1>1, AnswersRight, PTL

(* An acknowledged write returns what the register holds.                  *)
THEOREM AcksCurrent == Spec => []AckIsCurrent
<1>1. Answers => AckIsCurrent
  BY DEF Answers
<1> QED BY <1>1, AnswersRight, PTL

-----------------------------------------------------------------------------
(* Action properties                                                       *)

\* What follows from an answer of a handler, as the properties put it.
LEMMA RefusalKeeps ==
  ASSUME Ready, Answers, [Next]_vars, NEW i \in DOMAIN sent', sent' # sent,
         sent'[i].type \in {"READ_ERROR", "WRITE_ERROR"}
  PROVE  reg' = reg
<1>1. CASE Handler
  <2>1. CASE Unanswered
    BY <2>1 DEF Unanswered
  <2>2. CASE Acknowledges
    <3>1. PICK value \in SUBSET Bit : Replied(msg.type, value)
      BY <2>2 DEF Acknowledges
    <3>2. sent'[i].type = msg.type
      BY <3>1 DEF Replied
    <3> QED BY <2>2, <3>2 DEF Acknowledges
  <2>3. CASE Refuses
    BY <2>3 DEF Refuses
  <2>4. CASE Breaks
    BY <2>4 DEF Breaks, Replied
  <2> QED BY <1>1, <2>1, <2>2, <2>3, <2>4, HandlerSends DEF Answers
<1>2. CASE DumpStep
  BY <1>2 DEF DumpStep
<1>3. CASE Refresh
  BY <1>3 DEF Refresh
<1> QED BY <1>1, <1>2, <1>3 DEF Next, CoreTask, Handler, NoMessage, Accept, NotCore, vars

(* A request that is refused has changed nothing.                          *)
THEOREM RefusalsKeep == Spec => RefusedUnchanged
<1>1. Ready /\ Answers /\ [Next]_vars =>
        \A i \in DOMAIN sent' :
          sent' # sent /\ sent'[i].type \in {"READ_ERROR", "WRITE_ERROR"} => reg' = reg
  BY RefusalKeeps
<1>2. Ready /\ Answers /\ [Next]_vars =>
        [\A i \in DOMAIN sent' :
          sent' # sent /\ sent'[i].type \in {"READ_ERROR", "WRITE_ERROR"} => reg' = reg]_vars
  BY <1>1
<1> QED BY <1>2, AnswersRight, PTL DEF Spec, RefusedUnchanged

LEMMA DumpEnds ==
  ASSUME Ready, Answers, [Next]_vars, pc = "dump", pc' # "dump"
  PROVE  /\ Known = {sent'[i].address : i \in 2..Len(sent')}
         /\ \A i, j \in 2..Len(sent') : i < j => sent'[i].address < sent'[j].address
<1>1. DumpStep
  <2>1. ~UNCHANGED vars
    BY DEF vars
  <2>2. ~Handler
    BY HandlerTurns
  <2> QED BY <2>1, <2>2 DEF Next, CoreTask, Handler, Refresh, NoMessage, Accept, NotCore
<1> DEFINE x == [type |-> "READ", address |-> next, value |-> reg[next]]
<1>2. x \in Answer /\ x.type = "READ" /\ x.address = next
  BY DumpedAnswer
<1>3. sent' = Append(sent, x) /\ DumpNext(next) >= AppStart + AppRegs
  BY <1>1 DEF DumpStep
<1> HIDE DEF x
<1>4. next \in Known /\ sent \in Seq(Answer) /\ DumpSoFar
  BY DEF Ready, Answers
<1>5. /\ \A i \in 2..Len(sent') : sent'[i].address \in Known /\ sent'[i].address <= next
      /\ \A a \in Known : a <= next => \E i \in 2..Len(sent') : sent'[i].address = a
      /\ \A i, j \in 2..Len(sent') : i < j => sent'[i].address < sent'[j].address
  BY <1>2, <1>3, <1>4, DumpAppends
<1>6. \A a \in Known : a <= next
  <2>1. \A a \in Known : a < DumpNext(next)
    BY <1>3, <1>4, AppAssumption, DumpGoesOn, Z3
       DEF Known, CoreAddr, ExtAddr, AppAddr, AppStart, NET_SSID, NET_CONFIG
  <2> QED BY <1>4, <2>1, DumpGoesOn
<1> QED BY <1>5, <1>6

(* A dump is complete, ordered and without repetition when it ends.        *)
THEOREM DumpsExact == Spec => DumpExact
<1>1. Ready /\ Answers /\ [Next]_vars =>
        [pc = "dump" /\ pc' # "dump" =>
           /\ Known = {sent'[i].address : i \in 2..Len(sent')}
           /\ \A i, j \in 2..Len(sent') : i < j => sent'[i].address < sent'[j].address]_vars
  BY DumpEnds
<1> QED BY <1>1, AnswersRight, PTL DEF Spec, DumpExact

LEMMA MessageAnswered ==
  ASSUME Ready, Answers, [Next]_vars, msg # NoMsg, msg' = NoMsg
  PROVE  IF msg.type = "EVENT" \/ Hushed THEN sent' = <<>>
         ELSE msg.address \in Known \/ AppRegs = 0 =>
           /\ sent' # <<>> /\ sent'[1].address = msg.address
           /\ sent'[1].type \in {msg.type, IF msg.type = "READ" THEN "READ_ERROR" ELSE "WRITE_ERROR"}
           /\ Len(sent') = 1 \/ "dump" \in msg.payload
<1>1. CASE DumpStep
  <2> DEFINE x == [type |-> "READ", address |-> next, value |-> reg[next]]
  <2>1. x \in Answer /\ x.type = "READ" /\ x.address = next
    BY DumpedAnswer
  <2>2. sent' = Append(sent, x)
    BY <1>1 DEF DumpStep
  <2> HIDE DEF x
  <2>3. next \in Known /\ sent \in Seq(Answer) /\ DumpSoFar
    BY <1>1 DEF Ready, Answers, DumpStep
  <2>4. sent'[1] = sent[1] /\ Len(sent') >= 2 /\ sent' \in Seq(Answer)
    BY <2>1, <2>2, <2>3, DumpAppends
  <2>5. sent' # <<>>
    BY <2>4
  <2>6. reg' = reg /\ msg.type = "WRITE" /\ ~Muted(reg)
    BY <1>1, <2>3 DEF DumpStep, DumpSoFar, Muted
  <2>7. ~Hushed
    BY <2>6 DEF Hushed, Muted
  <2> QED BY <2>3, <2>4, <2>5, <2>6, <2>7 DEF DumpSoFar
<1>2. CASE Handler
  <2>1. /\ msg.address \in 0..255
        /\ Unanswered \/ Acknowledges \/ Refuses \/ Breaks
    BY <1>2, MessageTyped, HandlerSends DEF Answers
  <2>2. CASE Unanswered
    BY <2>2 DEF Unanswered
  <2>3. CASE Acknowledges
    <3>1. PICK value \in SUBSET Bit : Replied(msg.type, value)
      BY <2>3 DEF Acknowledges
    <3>2. msg.type \in {"READ", "WRITE"} /\ ~Hushed
      BY <2>3 DEF Acknowledges
    <3>3. /\ sent' # <<>> /\ Len(sent') = 1
          /\ sent'[1].type = msg.type /\ sent'[1].address = msg.address
      BY <2>1, <3>1, <3>2, AnswerTyped
    <3> QED BY <3>2, <3>3
  <2>4. CASE Refuses
    <3> DEFINE kind == IF msg.type = "READ" THEN "READ_ERROR" ELSE "WRITE_ERROR"
    <3>1. PICK value \in SUBSET Bit : Replied(kind, value)
      BY <2>4 DEF Refuses
    <3>2. msg.type \in {"READ", "WRITE"} /\ ~Hushed
      BY <2>4 DEF Refuses
    <3>3. kind \in {"READ", "WRITE", "READ_ERROR", "WRITE_ERROR"}
      OBVIOUS
    <3> HIDE DEF kind
    <3>4. /\ sent' # <<>> /\ Len(sent') = 1
          /\ sent'[1].type = kind /\ sent'[1].address = msg.address
      BY <2>1, <3>1, <3>3, AnswerTyped
    <3> QED BY <3>2, <3>4 DEF kind
  <2>5. CASE Breaks
    BY <2>5 DEF Breaks
  <2> QED BY <2>1, <2>2, <2>3, <2>4, <2>5
<1> QED BY <1>1, <1>2 DEF Next, CoreTask, Handler, Refresh, NoMessage, Accept, NotCore, Ready, vars

(* A request is answered once and in kind, and nothing else is answered.   *)
THEOREM EachAnswered == Spec => Answered
<1>1. Ready /\ Answers /\ [Next]_vars =>
        [msg # NoMsg /\ msg' = NoMsg =>
           IF msg.type = "EVENT" \/ (IF msg.type = "WRITE" /\ msg.address = OPERATION_CTRL
                                     THEN Muted(reg') ELSE Muted(reg))
           THEN sent' = <<>>
           ELSE msg.address \in Known \/ AppRegs = 0 =>
             /\ sent' # <<>> /\ sent'[1].address = msg.address
             /\ sent'[1].type \in {msg.type, IF msg.type = "READ" THEN "READ_ERROR" ELSE "WRITE_ERROR"}
             /\ Len(sent') = 1 \/ "dump" \in msg.payload]_vars
  BY MessageAnswered DEF Hushed
<1> QED BY <1>1, AnswersRight, PTL DEF Spec, Answered
=============================================================================
