# Verification of harp.core.esp32

The repository is the core of a Harp device on an ESP32-S3: a register machine
that speaks the Harp protocol over USB CDC and over a TCP connection it opens
itself, beats once a second, and takes its time from a synchronizer. This
directory holds TLA+ modules translated from its code, configurations that
model-check them with TLC, and proofs checked with TLAPS.

Paths below are relative to the repository root (`src/network_manager.cpp`,
`include/harp_core.h`, ...). `PROJECT.json` maps every definition to its lines
and has each hazard at the line where it bites.

## 1. The system

Three tasks and an interrupt share memory without locks:

| Actor | Code | Runs |
|---|---|---|
| Harp task | `core_task()` of the example, `HarpCore::run()` | polls for ever, `vTaskDelay(1)` between turns |
| `network_task()` | `network_manager.cpp:314` | blocks in `ulTaskNotifyTake()`, other core |
| event loop | `wifi_event_handler()` | one event after another |
| UART interrupt | `HarpSynchronizer::uart_rx_callback()` | any time |

### Components

**Network manager** (`src/network_manager.cpp`). State: the atomics
`s_tcp_sock`, `s_tcp_connected`, `s_wifi_connected`, `s_cmd`,
`s_reconnect_enabled`, `s_reconnect_pending`, `s_next_reconnect_us`, the plain
snapshot `s_cfg`, the task notification. Operations: `apply()`, `disconnect()`,
`tcp_read()`, `tcp_write()` (Harp task), `network_task()`, the event handler.
Hard: every function is a sequence of single accesses that the others interleave
with; a descriptor may be closed by three tasks; events arrive late.
Correct if: no descriptor is leaked or closed twice; a connection is
never overwritten; no retry sleeps for ever; DISCONNECT wins; the device
reconnects by itself.

**Persistence** (same file). State: registers `R_NET_*`, `s_cfg`, the `cfg_v1`
blob. Operations: `save_cfg_to_nvs()`, `load_cfg_from_nvs()`,
`erase_cfg_from_nvs()`, `init()`, the register writes. Hard: restarts between
steps, failing flash, APPLY and CLEAR in one write, a password that is wiped.
Correct if flash agrees with what the device does and a restart resumes it.

**Transport** (`process_transport_input()`, `send_harp_reply()`, `clear_msg()`
in `src/harp_core.cpp`). State: two input buffers with their indices, `new_msg_`,
`active_rx_buffer_`, `buffered_msg_source_`. Hard: frames arrive in any number
of pieces on two transports at once; sessions break. Correct if what is
dispatched is what a host sent, and the answer goes back to that host.

**Operation mode, heartbeat, clock lock** (`update_state()` and four write
handlers). State: `R_OPERATION_CTRL`, `R_CLOCK_CONFIG`, `connect_handled_`,
`sync_handled_`, `heartbeat_interval_us_`, `next_heartbeat_time_us_`. Hard: three
ways into a mode, connections that come and go, a clock that jumps, between two calls
or inside one, a late core. Correct if the mode the host ordered stays, and the beat is
on time and on the second.

**Dispatch** (`handle_buffered_core_message()`, `HarpCApp`, the write handlers).
State: the register file, the buffered message, the mute bit. Operations: refresh of
the status registers, checks of address, type and length, one handler per
register, error replies, DUMP, resets, `clear_msg()`. Hard: commands and state share
a register and come in one write; a write may change whether it is answered;
a message nobody clears would block all others. Correct if registers stay legal,
each request is answered once and truly, a refused one changes nothing, a dump is
complete.

**Synchronizer** (`src/harp_synchronizer.cpp`). State: parser, `sync_data_`,
`new_timestamp_`, `has_synced_`, the 64-bit `offset_us_64_`. Operations: the receive
interrupt, reads of the time by the Harp task, writes of it by a host. Hard: the line
loses and invents bytes, stamps may look like headers, the offset is read and
written in two halves on two cores. Correct if no wrong time is taken without a
fault, and two clean packets repair any.

**Retry policy** (`reconnect_delay_ms()`, attempts, ticks) is arithmetic that the
network manager's model leaves open. **Registers** are the tables of the
dispatch. **USB descriptors**, the **example** and the **host tests** are
configuration or clients.

### Interactions

`run()` calls `update_state()`, reads `NetworkManager::is_tcp_connected()` and the
synchronizer's offset there, takes bytes with `tcp_read()` and TinyUSB, and sends
replies with `tcp_write()`. R_NET_CONFIG's APPLY and CLEAR bits call `apply()` and
`disconnect()`; both talk to `network_task()` through `s_cmd` and the notification.
The event handler reports the driver. `tcp_connected` is what makes a host
"connected" for the operation mode.

## 2. Modules

| Module | Models | Is used by |
|---|---|---|
| `SocketLifecycle` | abstract: a descriptor is opened privately, published once, taken back, closed once by who took it | refined by `NetworkManager` |
| `NetworkManager` | three tasks, driver, peer, by single accesses | `MCNetworkManager`, `NetworkManagerProofs` |
| `NetPersistence` | registers, snapshot, flash, restart | `MCNetPersistence`, `NetPersistenceProofs` |
| `HarpTransport` | two byte streams, framing, routing, the send that blocks | `MCHarpTransport`, `HarpTransportProofs` |
| `HarpDispatch` | a turn of `run()` from refresh to `clear_msg()`, every handler | `MCHarpDispatch`, `HarpDispatchProofs` |
| `OperationMode` | mode, heartbeat, clock lock | `MCOperationMode`, `OperationModeProofs` |
| `HarpSynchronizer` | UART line, parser in the interrupt, offset in halves | `MCHarpSynchronizer`, `HarpSynchronizerProofs` |

The modules share no variables; each takes what the others do to it as a choice:
`HarpDispatch` any connection and status, `OperationMode` any connections and sync
packets, `NetPersistence` and `NetworkManager` any APPLY and CLEAR, `HarpTransport`
any answer.

Each MC module extends its specification and only gives values to constants.
Operators marked `MUTANT of X` in a comment belong to no specification: each
is a plausible bug in the code behind X, and the property it is listed with in
`PROJECT.json` must fail once X is defined by it.

### NetworkManager

`pc[t]` names the next statement of task t; a label stands for one access to
shared state. Consecutive accesses are merged only when a single decision reads
them and no order of theirs can be told apart. `exchange(-1)` and `lwip_close()`
are two steps, `own[t]` the descriptor in between. `recv()` and `send()` use the
descriptor loaded a step before, so they may meet a closed or reissued one.
`events` is the event queue, with blocking posters; an event changes the driver
(`wifi`) when posted and the flags when handled. `sock[f]` is the state of
descriptor f in lwIP, `remote[f]` the address and port it was connected to. SSID,
address and port are one value of `Cfg`, except that address and port are stored,
and read, by two steps. A configuration is never empty.
Delays are "past" or "future"; a timeout may fire at any time, as
`ulTaskNotifyTake()` may return before the deadline by rounding. The number of
attempts only scales the delay and is left out.

### NetPersistence

All runs in the Harp task (`init()` too), so `pc` is a single location; what
another task does to the command is NetworkManager's. `Restart` may come between
any two steps and, again, while `init()` applies the restored configuration. A
failed save or erase leaves the old blob or, when only `nvs_commit()` failed, the
new one. `asked`, `typed`, `flash_failed` and `before` are history.

### HarpTransport

Bytes are (request, position); the second byte of a frame is its length byte.
`ReadBytes(t)` is a read that returns any number of bytes from 1 to what was asked
for. The surplus of a completing read is dropped, for the index returns to 0. A
header assembled from the wrong bytes has `GarbledSize`, some 8-bit sum. A
session may be lost and replaced between any two steps. `lwip_send()` blocks while
`SendMax` answers wait for the TCP host, and `run()` with it. A host is
`Orderly` when it sends one request at a time and, over TCP, its session holds; the
promises are made to each orderly host, whatever the other does. Handlers are
reduced to their answer; a handler that returns without one is `HarpDispatch`'s.

### HarpDispatch

A register's value is the set of its bits that are set; a string or number is
`"text"` when it is not zero, with `"last"` for its last byte. Masks and merges are
set operations. Payload types and sizes are the core's tables; an application
chooses handlers for its registers, each a single byte. `pc` follows a turn:
`"turn"` (`update_state()` and the refreshes), `"input"`, `"core"`, `"app"`, and
`"dump"`, one step per register sent. A request is its type, address, payload
type, length and bits; `"EVENT"` stands for every type that is neither READ nor
WRITE, `"other"` for every payload type no register has, those with a timestamp
included. `sent` is what was answered since the request was accepted.
A reset restarts with or without a configuration from flash (`Restarted`).

A READ or WRITE of an address no register has is answered by `run()` with an error. A
`HarpCore` alone takes the entry of WHO_AM_I for it (`include/harp_core.h:223`).
`HarpCApp` indexes the application's table with the address (`include/harp_c_app.h:120`),
and `send_harp_reply()` goes by the pointer and the length it finds there, which is
undefined. `OutsideTable` has the outcomes: an error with any content; a packet
that is no answer (`"broken"`), for a length from 246 on does not fit the 8-bit length
byte; a fault, after which the chip restarts (`CONFIG_ESP_SYSTEM_PANIC_PRINT_REBOOT` in the
example's `sdkconfig`), with nothing or part of a packet sent. A length from 244 on also
writes one byte past `packet_buf` (its index wraps after that); that this byte is the
padding or a variable no longer used is assumed.

### HarpSynchronizer

A byte takes one tick, a second a few more. `Good`, `Bad` and `Spurious` are a byte
that arrives, one that is lost or changed, one nobody sent. `ParseByte` is one turn
of the interrupt's loop, `Apply` and two `StoreOffset` what follows a complete stamp;
the Harp task loads or stores the two halves of the offset in any order, on the
other core. The interrupt is held up from byte to byte, not past the next packet.
The device may start to listen in the middle of a packet. `clean` counts, as
history, the packets complete since the last fault or host write. A stamp has four
bytes, so the seconds that are sent have to fit them (`BoundAssumption`): what happens
when the 32-bit second wraps, in 2106 and later, is not modelled.

The offset is computed from the time of the interrupt, which drift and latency change
from packet to packet: `Apply` picks up to `Jitter` ticks each time, so every packet
stores another offset, and two successive ones may differ in the high half (`carry`).
A right offset is therefore one of `TrueOffsets`. `task.met` is history: while the Harp
task reads, the interrupt stores an offset with a carry.

### OperationMode

Time is in ticks and does not pass inside a call. `next_heartbeat_time_us_` is kept
relative to now (`due`), Harp time is its phase within a second. One turn is `Update`,
then `Handle`; connections, ticks and sync packets come at any moment. `Stall` bounds
how late the core is. `disconnect_handled_` and `disconnect_start_time_us_` are written
and never read; they are left out. That the active interval is the shorter one, and
both are whole seconds (`ClockAssumption`), is what `include/harp_core.h:19-20` says of
them: 1 and 3 s.

Every packet stores a new offset and moves Harp time by some `SyncJumps`: the first and
any after a host has set another time by whatever the difference is, the others by the
drift. `SyncPacket` is one between two calls; it moves the phase and leaves the deadline,
which is in system time. A packet inside a call replaces the offset between two uses of
it. In `update_state()`, forced or not (`UpdateTorn`), it comes after the Harp time was
read: before that is converted to `time_us`, so that now is off by the jump, or after
that and before a first sync's alignment, so that the deadline is. In
`write_timestamp_second()` it comes before the new time is stored, and is undone by it;
before that is read again, and undoes the write; or before it is converted back, and
misplaces the deadline (`Rearm`). `grid` is the phase without the packets after the
first sync: what the deadline was aligned to. `torn` says that the deadline was
misplaced, until it is aligned anew (the next write of the time or restart: until
then it stays off the second); `astray` says that now or the deadline was, until the
deadline has passed.

Not in this module: a read of the time that is itself torn at a carry, which is
`HarpSynchronizer`'s; the 32-bit width of the differences (`due` is an integer): a core
that is late by more than an interval in every turn for 35 minutes would let the
difference wrap.

## 3. Runs

Twelve, below three minutes the longest.

| Run | Behaviours | Distinct states | What it shows |
|---|---|---|---|
| `net_safety` | Spec, all budgets, two configurations | 2.0 million | `SocketOwnership`: open descriptors are exactly those held, by one holder each. `HeldWhere`: `network_task()`'s plain store of `s_tcp_sock` never overwrites. `NoLostWakeup`: an armed retry is never slept over. `EndpointCurrent`: once things settle, the connection goes to the address and port last applied |
| `net_fair` | FairSpec | 438 000 | `DisconnectWins`, `TcpRecovers`, `LifecycleFairSpec` (refinement with fairness) |
| `transport_usb` | FairSpec; the TCP host pipelines, loses a session, fills the send buffer | 119 000 | `PartialWantsMore`: no sequence of bytes makes a transport deaf. `FramesIntact`, `AnswersMatch`, `UsbAnswered` for the USB host |
| `transport_tcp` | FairSpec; the USB host pipelines | 31 000 | `FramesIntact`, `AnswersMatch`, `TcpAnswered` for the TCP host |
| `dispatch` | FairSpec; every handler, wrong types, lengths, addresses, reads outside the table | 223 000 | `RegistersLegal`, `StatusFresh`, `AckIsCurrent`, `Answered`, `RefusedUnchanged`, `DumpExact`, `MessageEnds` |
| `mode` | Spec; all writes, packets at any time, one inside a call | 1.1 million | `IntervalMatchesMode`, `OrderKept`. `BeatsOnTheSecond`, `BeatsInTime`: whatever the packets do to Harp time, only one between the reading of a time and its conversion makes a beat come elsewhere or late |
| `synchronizer` | Spec; a fault anywhere, a host write, offsets that differ | 4.5 million | `NoFalseTime`, `Resync`. `ReadsWhole`: a read is torn only when it overlaps a carry |
| `persistence` | Spec; 2 flash failures, 2 restarts | 575 000 | `SecretWiped`, `FlashAgrees`, `RestartResumes` |
| `net_flag`, `net_pursued`, `transport_sessions`, `transport_pipelined` | one property each | | violated: section 5 |

### Bounds, and why they are enough

- `NetworkManager`: two descriptors (one published, one on its way; a third
  would only be another fresh one: a reconnect starts after the old descriptor was
  taken back), two configurations for safety (an old one and a new one, which is
  what `EndpointCurrent` tells apart) and one for liveness, and a budget per kind of event: two APPLY and one each of CLEAR, lost
  link, peer failure, driver error for safety (a connection fails there because the
  link is down); in `net_fair` one of each, refused connections too, but the driver error. The event queue has three places, as many as the
  budgets can fill. Symmetry of descriptors and of configurations only where no liveness is checked. The
  theorems of section 6 hold for any number of all of these.
- `HarpTransport`: header of 2, frames of 3 and 4, buffer of 8, so that a read at a
  frame start may return two whole frames, one and a part, or a part; `GarbledSize`
  6 lies between frame and buffer. Three requests of each host, two unanswered at a
  time for the host that pipelines; `SendMax` 1, so that its second answer blocks.
- `HarpDispatch`: three application registers, one per kind of handler; an address
  for every handler, one in the gap and one beyond the last; values that set each
  command and state bit alone and with those it collides with. `Reported` is
  `tcp_conn` alone: the other status bits are copied in the same way.
- `HarpSynchronizer`: bytes of two bits and seconds from 16 on, so that within ten
  packets stamps contain a header, end like one, and carry into the next byte; one
  fault, one host write. `Jitter` 1 with halves of 8: the offsets that drift and latency
  choose between, -105 and -104, have different high and low halves, so that torn
  reads do occur: `ReadsWhole` without `task.met` is violated.
- `OperationMode`: two ticks a second and three seconds of standby interval; a
  stall of 2 ticks, a full interval, makes a beat one interval late. Sync jumps of
  -9 and 9 are longer than any interval, 0 is a packet that agrees. `Hits` 1: one packet
  inside a call, any number between calls. `BeatsOnTheSecond` without `torn` and
  `BeatsInTime` without `astray` are violated.
- `NetPersistence`: two settings, so that the new and the old one differ; one
  password; failures enough to fail at saving and at starting again.

Deadlock is not checked for `NetworkManager`, `HarpTransport` and
`HarpSynchronizer`: with the budgets spent, the hosts silent or the packets sent they
really rest. It is checked for the other three.

## 4. Fairness

- `NetworkManager`: weak fairness of each task's steps (FreeRTOS runs every ready
  task, they have different priorities but all block); strong fairness of `TcpRead`,
  for `run()` calls `tcp_read()` in every turn; weak fairness of the driver's
  association and of the clock. None of peers, links or hosts.
- `TcpRecovers` promises that the device serves again and again, not that it stays
  so. `<>[]` is false: a `recv()` that failed on a descriptor already replaced
  closes the newer, healthy connection, and a leftover notification starts a
  reconnect that closes a healthy one. With finitely many failures it settles in
  practice; a fair scheduler may repeat the pattern for ever.
- `HarpTransport`: weak fairness of `run()` and of hosts that read their answers; a TCP
  host that never reads stops the device in `lwip_send()` until the connection
  fails. That a read which is possible again and again does return bytes is a premise
  of the two liveness properties (`SF_vars(Delivers(t)) => ...`), a promise of TinyUSB
  and lwIP: a call of `read_fn` may also find nothing although bytes were sent.
  They hold for finitely many requests of the other transport: TCP is read first in
  each turn, and a TCP host with a complete request in every turn starves USB.
- `HarpDispatch`: weak fairness of its next step: `core_task()` calls `run()` for ever
  (`examples/minimal_platformio/src/main.cpp:38-45`).

## 5. Where code and documents disagree

| Run | Source | In short |
|---|---|---|
| `net_flag` | `network_manager.cpp:358` | the disconnect event between the two stores leaves `s_tcp_connected` TRUE with no socket; `R_NET_CONFIG` reports `tcp_conn`, and the mode stays ACTIVE with no host |
| `net_pursued` | `network_manager.cpp:478` | `apply()` stores the command after it started the association: a notification in between makes `network_task()` act on the old DISCONNECT |
| `transport_sessions` | `harp_core.cpp:246` | a partial frame survives its session |
| `transport_pipelined` | `harp_core.cpp:266` | a request right behind another one is dropped |

Met on the way and not a run:

- `apply()` with the Wi-Fi bit clear returns (416-421) before it saves: flash keeps the
  earlier blob, and the next restart connects again.
- An APPLY that turns TCP off while `network_task()` connects leaves that connection
  open, possibly to the new address with the old port (`EndpointCurrent` is stated for
  TCP enabled). Otherwise such a mixture lasts until the GOT_IP of the later APPLY.
- `schedule_tcp_reconnect()` may leave a retry armed with Wi-Fi down, and
  `network_task()` then polls with a zero timeout.
- A sync packet between the reading of the time and its conversion mixes two clocks
  (`harp_core.cpp:363-364`, `379`, `600`; five uses of the offset at 597-600). Between
  packets that agree the difference is the drift. At the first sync, or after a host
  has set another time, it is the whole change of the clock: in `update_state()` a beat
  comes early or late by one turn, and when the deadline is being aligned, it lands that
  far away. Beats then stop until it is reached, or come in every turn until it has
  caught up, and stay off the second. `BeatsOnTheSecond` and `BeatsInTime` except
  exactly these packets. A write of the time may also skip a beat, or be undone by a packet
  before it is acknowledged.
- After the first sync nothing but a write of the time aligns the deadline again: beats
  stay a fixed interval of system time apart and wander off the whole seconds of Harp time
  by the drift that later packets correct (`include/harp_core.h:245` speaks of the
  current whole-second boundary). `BeatsOnTheSecond` is about the second of the time that
  was last set.
- A STANDBY written in the turn the connection came up, or in RESERVED after a
  reconnect, becomes ACTIVE in the next turn, for `connect_handled_` is not set yet.
- A dump sent by the write that changes the mode still shows the R_HEARTBEAT of before
  it. With 219 application registers the dump's 8-bit loop (`src/harp_c_app.cpp:142`) never
  ends.
- An error for an address no register has reads beyond the application's table
  (`harp_c_app.h:120`) and need be no answer: section 2, `HarpDispatch`.
- The dump's READ reply for R_NET_PASSWORD carries the password (`harp_core.cpp:639-645`
  sends the register), where a READ of it is masked and
  `docs/core-network-register-extension.md:63,171` promise that it is.
- `cfg_valid` is set when the registers hold an SSID and an address
  (`harp_core.cpp:278-291`), as the extension document has it;
  `docs/network-manager-operational-notes.md:84` says "config snapshot accepted for apply
  path".
- Stamps that contain AA AF can keep the parser out of step while they last. A read that
  overlaps the storing of an offset is off by 2^32 us when the old and the new one
  differ in the high half (`ReadsWhole`); one that overlaps the very first sync may be torn in
  any case: `is_synced()` was false before it.
- A second APPLY without a fresh password saves the wiped one;
  `network_manager.h:21` says that `disconnect()` keeps the configuration, and it erases
  it (488).

## 6. Proofs

`NetworkManagerProofs` proves, for every number of descriptors and configurations,
every budget and every queue length, from the assumptions `FdAssumption`,
`CfgAssumption` and `BudgetAssumption` alone:

- `TypeCorrect`: `Spec => []TypeOK`. Data and control are separate: `SharedTyped`
  serves the statements that several functions share, then one lemma per task.
- `SocketsOwned` and `StoreMeetsEmpty`: `SocketOwnership` is not inductive. That
  the plain store at 358 overwrites nothing depends on where `network_task()`
  stands, so the invariant proved is `Owned == SocketOwnership /\ HeldWhere`: a
  descriptor is held only between taking and closing, and from the exchange before a
  connect until the store `s_tcp_sock` is empty, because nobody else publishes. Four
  lemmas say what moving, exchanging, closing and plain statements do to `Owned`;
  the lemmas per task reduce each statement to one of them.
- `WakeupsArrive`: inductive with `TypeOK` alone.
- `EndpointIsCurrent`: at rest the connection goes where the last APPLY says. The
  invariant, `EndpointInv`, is about a connection that is `Stale`: published, or
  begun by `network_task()`, with values `s_cfg` has no longer. Only `apply()` makes one
  stale. From then on something is always left to happen (`Renewal`): `apply()` ends
  the association, a new one comes with its event (`LinkKnown`), the event with a
  notification, and `network_task()` takes the published one back, unless a delay is
  pending. That none is (`NotPostponed`) needs two facts about when
  `schedule_tcp_reconnect()` runs: in `network_task()` nothing is published then
  (`NothingPublished`); in the Harp task nothing stale is begun, for the `recv()` or
  `send()` that failed started after `apply()` returned and met a published
  connection (`CoreKnows`). The proof showed that `EndpointCurrent` need not except a
  pending reconnect, as it did at first.
- `RefinesLifecycle`: `Spec => LifecycleSpec`, every step maps to a step of
  `SocketLifecycle` or to a stutter.

`HarpTransportProofs`, for any frame sizes, any cuts into reads and any hosts, from
`SizeAssumption` and `HostAssumption`:

- `TypeCorrect` and `NeverDeaf`: the conjunct needed is `Wanting`, an input buffer is
  never full and never holds a complete message between reads.
- `FramesStayIntact` and `AnswersGoHome`, for each orderly host, and for no others:
  the runs `transport_pipelined` and `transport_sessions` show what goes wrong there. The
  invariant is `InPhase`: the transport of an orderly host is quiet, or has the first k
  bytes of a frame in its buffer and the others on the wire, or has the frame as
  the buffered message, or has its answer under way. A read moves k, which is a
  fact about sequences (`ReadMore`); whatever happens on one transport leaves the phase
  of the other alone (`ReadElsewhere`, `HostsElsewhere`).

`HarpDispatchProofs`, for any application, requests and reports, from `AppAssumption`,
`ReportedAssumption` and `HostAssumption`: all seven safety properties. Every
handler is reduced to an `Outcome`: it is silent, tells the register as it is, refuses
and changes nothing, starts a dump, or has read outside the application's table
(`Astray`). Which mute bit decides is `Hushed`: the one stored by the request for
R_OPERATION_CTRL, the one before for all others, which leave it alone (`MuteKept`). `Ready` is the invariant of the registers (each
value is `Fit`) and of control, which gives `Legal` and `Fresh`; `Answers` adds what
has been sent (`DumpSoFar` during a dump), which gives `AcksCurrent`,
`RefusalsKeep`, `DumpsExact` and `EachAnswered`.

`NetPersistenceProofs`, for any settings, passwords, failures and restarts:
`TypeCorrect`, `PasswordsAreWiped`, `FlashHoldsWhatIsUsed`, `RestartsResume`. None of the three
properties is inductive. What they rest on is named in `Persistent`: every blob in
flash has Wi-Fi on (`WifiOn`, or `init()` would restore a password and wipe none),
what is in use is in flash (`InFlash`), a CLEAR is under way or done (`Cleared`), and
the configuration from before a restart is at each step in the place the next one
reads (`Carried`).

`OperationModeProofs`, for any tick, intervals, stalls and sync jumps, from
`ClockAssumption` and `ModesAssumption`: `TypeCorrect`, `ActiveBeatsFast` and
`OrdersAreKept`; the last needs `OrderHeld`, that an order stands only while its host is
connected and `connect_handled_` is up. `BeatsAreOnTheSecond` and `BeatsAreInTime` are
proved together from `BeatInv`. Neither property is inductive: that a beat is not late
rests on what has passed since the last beat and what is left until the next adding up to
no more than the interval in force, on the deadline being late only by what `run()` was,
and on a mode that changes never finding a longer deadline than the standby interval
(`InTime`); that it is on the second, on `sync_handled_` never being set before a sync
(`OnTheSecond`). A call is treated by what came inside it: nothing (`CleanBeats`), or a
packet (`TornBeats`), where only what the history leaves promised has to be shown; a
packet between two calls leaves `InTime` alone and moves `phase`, not `grid`
(`AroundBeats`). Time modulo the second is reduced to one fact, that whole seconds
added to whole seconds are whole (`WholeSeconds`, `WholeSum`, `WholeIntervals`).

`HarpSynchronizerProofs`, for any radix and headers, lengths of the receive buffer, drift
and latency, faults, host writes and packets, from `ByteAssumption`, `TimeAssumption` and
`BoundAssumption`: `TypeCorrect`, `ResyncsInTwo`, `NeverAFalseTime`, `ReadsAreWhole`.
`BaseInv` adds to the types what the parser's flag says of `sync_data` and how many
packets have passed. The argument of the others is about `Read`, the bytes of the
packet on the line that the interrupt has read. `InStep` gives for each value of it the
place of the parser, the bytes it has, and, when the packet is read, how far taking over
its time has come (`TakenOver`). After a disturbance the parser is `InStep` or `Lost`,
where it cannot take the rest of this packet for a stamp; so the packet after a clean
one without a header in its stamp finds it waiting for a header, which is why two
suffice (`ResyncInv`). Without any, it is `InStep` or `Silent` (`QuietLine`), so
that only true offsets are stored. `Stored` then says that the offset is a true one
except between the two halves of a store with a carry, and `Loaded` follows a read half by
half: as long as it has met no such store, the high half is that of now, and each low half
that is stored meanwhile is as true with it as the one before.

Proved, then, is every safety property that a passing run checks. Only model-checked is
everything under fairness (`DisconnectWins`, `TcpRecovers`, `UsbAnswered`, `TcpAnswered`,
`MessageEnds`, the fairness of `LifecycleFairSpec`), which the prover does not reach
(nor `ENABLED`, nor induction over data).

## 7. Not modelled

USB descriptors, stdio, logging, the example's start-up, visual indicators,
installation of UART driver and interrupt, the splitting of a time into seconds and
units of 32 us, the layout of payloads and the checksum. The delay before a retry
(`reconnect_delay_ms()`): a wait may end at any time in `NetworkManager`. The Wi-Fi
driver, lwIP, flash and TinyUSB are environment, as the code uses them; TinyUSB's
transmit buffer, which drops bytes when it is full (`harp_core.cpp:492`), is not part
of it.

## 8. Plan

Done: `NetworkManager` with `SocketLifecycle`, `HarpTransport` with the send that blocks,
`OperationMode`, `NetPersistence`, `HarpDispatch`, `HarpSynchronizer`,
`EndpointCurrent`; the proofs of every safety property. Left, in this order:

1. `ReconnectPolicy`: delay and attempts (`500 << n`, cut at 8000 ms, 32-bit), ticks
   rounding to zero.
2. `HarpDevice`: NetworkManager's `s_tcp_connected` composed with OperationMode's host
   detection, to state what a stale flag does to the mode.
3. A transmit buffer of the USB side in `HarpTransport`.
