--------------------------- MODULE OperationMode ---------------------------
(***************************************************************************)
(* src/src/harp_core.cpp: the operation mode, the heartbeat and the clock  *)
(* lock of HarpCore.  One turn of run() is update_state(), then the        *)
(* handling of at most one write; connections and the clock move between   *)
(* the two.  A sync packet may come at any time, also inside update_state()*)
(* and the write of the time, which convert times with the offset that the *)
(* packet replaces.  Packets are a second apart: no two fall in one call.  *)
(*                                                                         *)
(* Time is counted in ticks, Second of them to a second of Harp time, and  *)
(* does not pass inside a call.  next_heartbeat_time_us_ is kept as the    *)
(* ticks that are left until it is due, Harp time as its phase within the  *)
(* second.  disconnect_handled_ and disconnect_start_time_us_ are written  *)
(* and never read, and are left out.                                       *)
(***************************************************************************)
EXTENDS Integers

CONSTANTS
  Second,            \* ticks per second
  ActiveInterval,    \* HEARTBEAT_ACTIVE_INTERVAL_US, in ticks
  StandbyInterval,   \* HEARTBEAT_STANDBY_INTERVAL_US, in ticks
  Modes,             \* the modes hosts write
  SyncJumps,         \* ticks by which a packet moves Harp time, modulo 2^32 us
  Stall,             \* BOUND: ticks from one turn of run() to the end of the next
  Hits               \* BOUND: packets that fall inside a call

ASSUME ClockAssumption ==
  /\ {Second, ActiveInterval, StandbyInterval} \subseteq Nat \ {0} /\ Stall \in Nat \ {0}
  /\ ActiveInterval % Second = 0 /\ StandbyInterval % Second = 0
  /\ ActiveInterval <= StandbyInterval
  /\ SyncJumps \subseteq Int /\ Hits \in Nat
ASSUME ModesAssumption == Modes \subseteq {"STANDBY", "ACTIVE", "RESERVED", "SPEED"}

OpMode == {"STANDBY", "ACTIVE", "RESERVED"}

VARIABLES
  op_mode, beat_enabled, mute,   \* R_OPERATION_CTRL; HEARTBEAT_EN or ALIVE_EN
  clock_locked,                  \* R_CLOCK_CONFIG: LOCK set, UNLOCK clear
  connect_handled, sync_handled, heartbeat_interval,
  due,                           \* next_heartbeat_time_us_ - now
  phase,                         \* Harp time within the second
  synced, hits,                  \* is_synced(); what remains of Hits
  usb, tcp,                      \* tud_cdc_connected(), is_tcp_connected()
  pc,                            \* "update" or "handle"
  idle,                          \* ticks since update_state() last ran
  order,                         \* history: mode the connected host wrote last
  noted,                         \* history: connect_handled_ when it did
  since, steady,                 \* history: ticks since the last beat; was there one
  grid,                          \* history: phase, but for the packets after the first sync
  torn,                          \* history: a packet came between the reading of the time
                                 \* the deadline was last aligned to and its conversion
  astray                         \* history: that, or it came between the reading and the
                                 \* conversion of now; until the deadline has passed

ctrl    == <<op_mode, beat_enabled, mute>>
hosts   == <<usb, tcp>>
clock   == <<phase, synced, hits, grid>>
handled == <<connect_handled, sync_handled>>
beat    == <<heartbeat_interval, due, since, steady, torn, astray>>
orders  == <<order, noted>>
vars == <<ctrl, clock_locked, handled, beat, clock, hosts, pc, idle, orders>>

HostConnected == usb \/ tcp

\* Registers: heartbeat enabled, clock unlocked; the constructor aligns the beat
Init ==
  /\ op_mode = "STANDBY" /\ beat_enabled = TRUE /\ mute = FALSE
  /\ clock_locked = FALSE
  /\ connect_handled = FALSE /\ sync_handled = FALSE
  /\ heartbeat_interval = StandbyInterval
  /\ phase = 0 /\ due = StandbyInterval
  /\ usb = FALSE /\ tcp = FALSE /\ synced = FALSE
  /\ pc = "update" /\ idle = 0
  /\ order = "none" /\ noted = FALSE /\ since = 0 /\ steady = FALSE
  /\ hits = Hits /\ grid = 0 /\ torn = FALSE /\ astray = FALSE

-----------------------------------------------------------------------------
(* update_state()                                                          *)

\* MUTANT of Aligned: counts from now, not from the last whole second
AlignedToNow(interval, now) == interval

\* update_next_heartbeat_from_curr_harp_time_us(), seen from now
Aligned(interval, now) == interval - now

Noted == HostConnected /\ connect_handled

\* MUTANT of NextState: connect_handled_ is not asked
NextStateEager ==
  CASE op_mode \in {"STANDBY", "ACTIVE"} ->
         IF HostConnected THEN "ACTIVE" ELSE "STANDBY"
    [] OTHER -> op_mode

\* the switch of the unforced update, with its fall through
NextState ==
  CASE op_mode \in {"STANDBY", "ACTIVE"} /\ ~HostConnected -> "STANDBY"
    [] op_mode = "STANDBY" /\ HostConnected /\ ~Noted      -> "ACTIVE"
    [] OTHER                                               -> op_mode

Beats(m) == m = "ACTIVE" /\ beat_enabled /\ ~mute

\* MUTANT of NextInterval: leaving STANDBY is taken for entering ACTIVE
NextIntervalFromStandby(m) ==
  IF op_mode = "STANDBY" /\ m = "ACTIVE" THEN ActiveInterval
  ELSE IF op_mode # "STANDBY" /\ m # "ACTIVE" THEN StandbyInterval
  ELSE heartbeat_interval

NextInterval(m) ==
  IF op_mode # "ACTIVE" /\ m = "ACTIVE" THEN ActiveInterval
  ELSE IF op_mode = "ACTIVE" /\ m = "STANDBY" THEN StandbyInterval
  ELSE heartbeat_interval

FirstSync == synced /\ ~sync_handled

\* MUTANT of DueNow: the beat is re-armed from the late turn on
DueNowTwice(d, seen, m) == IF seen <= 0 THEN d + 2 * NextInterval(m) ELSE d

\* the deadline, d ticks ahead, advances by one interval when it seems past
DueNow(d, seen, m) == IF seen <= 0 THEN d + NextInterval(m) ELSE d

\* all that update_state() does on its way to mode m, is_synced() being sy and
\* the deadline d ticks ahead, or seen ticks by the time_us it goes by
UpdateAt(m, d, seen, sy) ==
  LET first == sy /\ ~sync_handled
  IN /\ connect_handled' = (Noted \/ (op_mode # "ACTIVE" /\ m = "ACTIVE"))
     /\ sync_handled' = sy
     /\ heartbeat_interval' = NextInterval(m)
     /\ due' = DueNow(d, seen, m)
     /\ since'  = IF first \/ ~Beats(m) \/ ~Beats(op_mode) \/ seen <= 0 THEN 0 ELSE since
     /\ steady' = (~first /\ Beats(m) /\ Beats(op_mode) /\ (steady \/ seen <= 0))

UpdateWhole(m) ==
  LET d == IF FirstSync THEN Aligned(heartbeat_interval, phase) ELSE due
  IN /\ UpdateAt(m, d, d, synced)
     /\ torn' = (torn /\ ~FirstSync)
     /\ astray' = (astray /\ ~FirstSync /\ d > 0)
     /\ UNCHANGED clock

\* Harp time within the second once a packet has moved it by j ticks: modulo
\* 2^32 us, which is no number of seconds
Moved(j) == IF j = 0 THEN {phase} ELSE 0..(Second - 1)

\* a sync packet leaves Harp time at p
Synced(p) == /\ phase' = p /\ synced' = TRUE
             /\ grid' = IF sync_handled THEN grid ELSE p

\* a packet comes after the Harp time was read: before it is converted to
\* time_us, or after that and before the first sync's alignment converts it
UpdateTorn(m) ==
  /\ hits > 0 /\ hits' = hits - 1
  /\ \E j \in SyncJumps, early \in BOOLEAN :
       /\ early \/ ~sync_handled
       /\ \E p \in Moved(j) : Synced(p)
       /\ LET d == IF sync_handled THEN due ELSE Aligned(heartbeat_interval, phase) - j
          IN UpdateAt(m, d, IF early THEN d + j ELSE d, TRUE)
       /\ torn' = IF sync_handled THEN torn ELSE j # 0
       /\ astray' = (j # 0 \/ (astray /\ sync_handled /\ due > 0))

UpdateTo(m) == /\ UpdateWhole(m) \/ UpdateTorn(m)
               /\ op_mode' = m /\ idle' = 0

Update ==
  /\ pc = "update" /\ pc' = "handle"
  /\ UpdateTo(NextState)
  /\ UNCHANGED <<beat_enabled, mute, clock_locked, hosts, orders>>

-----------------------------------------------------------------------------
(* The register writes that touch this state, and turns without one        *)

\* MUTANT of WriteOperationCtrl: SPEED is not refused
WriteOperationCtrlAny(m, en, mu) ==
  /\ IF m # op_mode THEN UpdateTo(m)
     ELSE UNCHANGED <<op_mode, handled, beat, clock, idle>>
  /\ beat_enabled' = en /\ mute' = mu
  /\ order' = IF HostConnected THEN m ELSE "none"
  /\ noted' = connect_handled'
  /\ UNCHANGED clock_locked

\* write_operation_ctrl(): a change of mode is forced through update_state(),
\* then the whole byte is stored; SPEED is refused
WriteOperationCtrl(m, en, mu) ==
  /\ m # "SPEED"
  /\ IF m # op_mode THEN UpdateTo(m)
     ELSE /\ UNCHANGED <<op_mode, handled, heartbeat_interval, due, torn, astray, clock, idle>>
          /\ IF en /\ ~mu /\ Beats(m) THEN UNCHANGED <<since, steady>>
             ELSE since' = 0 /\ steady' = FALSE
  /\ beat_enabled' = en /\ mute' = mu
  /\ order' = IF HostConnected THEN m ELSE "none"
  /\ noted' = connect_handled'
  /\ UNCHANGED clock_locked

\* write_reset_dev() with RST_DEF: straight to STANDBY, past update_state()
WriteResetDev ==
  /\ op_mode' = "STANDBY"
  /\ order' = "none" /\ since' = 0 /\ steady' = FALSE
  /\ UNCHANGED <<beat_enabled, mute, clock_locked, handled, heartbeat_interval, due, torn, astray>>
  /\ UNCHANGED <<clock, idle, noted>>

\* write_clock_config(): LOCK wins over UNLOCK, neither leaves both bits alone
WriteClockConfig(lock, unlock) ==
  /\ clock_locked' = (lock \/ (clock_locked /\ ~unlock))
  /\ UNCHANGED <<ctrl, handled, beat, clock, idle, orders>>

\* the deadline is aligned to a Harp time whose phase was p, and converted with
\* an offset from which Harp time is j ticks on
Rearm(p, j) ==
  /\ due' = Aligned(heartbeat_interval, p) - j
  /\ torn' = (j # 0) /\ astray' = (j # 0)

\* write_timestamp_second() keeps the part below the second; a packet may come
\* before the new time is stored, which undoes it, before that is read again, or
\* before it is converted back
WriteTimestampSecond ==
  /\ ~clock_locked
  /\ \/ phase' = phase /\ synced' \in {synced, TRUE} /\ Rearm(phase, 0) /\ UNCHANGED hits
     \/ /\ \E j \in SyncJumps : \E p \in Moved(j) : phase' = p /\ Rearm(p, 0)
        /\ synced' = TRUE /\ UNCHANGED hits
     \/ /\ hits > 0 /\ hits' = hits - 1
        /\ \E j \in SyncJumps : phase' \in Moved(j) /\ Rearm(phase, j)
        /\ synced' = TRUE
  /\ grid' = phase'
  /\ since' = 0 /\ steady' = FALSE
  /\ UNCHANGED <<ctrl, clock_locked, handled, heartbeat_interval, idle, orders>>

\* no message, or one that leaves this state alone (also the refused writes)
HandleNothing == UNCHANGED <<ctrl, clock_locked, handled, beat, clock, idle, orders>>

Handle ==
  /\ pc = "handle" /\ pc' = "update"
  /\ \/ \E m \in Modes, en, mu \in BOOLEAN : WriteOperationCtrl(m, en, mu)
     \/ WriteResetDev
     \/ \E lock, unlock \in BOOLEAN : WriteClockConfig(lock, unlock)
     \/ WriteTimestampSecond
     \/ HandleNothing
  /\ UNCHANGED hosts

\* write_reset_dev() with RST_DFU: esp_restart() drops the connections as well
Restart ==
  /\ pc = "handle" /\ pc' = "update"
  /\ op_mode' = "STANDBY" /\ beat_enabled' = TRUE /\ mute' = FALSE
  /\ clock_locked' = FALSE
  /\ connect_handled' = FALSE /\ sync_handled' = FALSE
  /\ heartbeat_interval' = StandbyInterval
  /\ phase' = 0 /\ due' = StandbyInterval
  /\ usb' = FALSE /\ tcp' = FALSE /\ synced' = FALSE
  /\ idle' = 0
  /\ order' = "none" /\ noted' = FALSE /\ since' = 0 /\ steady' = FALSE
  /\ grid' = 0 /\ torn' = FALSE /\ astray' = FALSE
  /\ UNCHANGED hits

-----------------------------------------------------------------------------
(* Hosts, synchronizer and clock                                           *)

HostComesOrGoes ==
  /\ \/ usb' = ~usb /\ UNCHANGED tcp
     \/ tcp' = ~tcp /\ UNCHANGED usb
  /\ order' = IF usb' \/ tcp' THEN order ELSE "none"
  /\ UNCHANGED <<ctrl, clock_locked, handled, beat, clock, pc, idle, noted>>

\* a packet between two calls: the first may move Harp time anywhere, and so may
\* any after a host has set another time; the others correct the drift
SyncPacket ==
  /\ \E j \in SyncJumps : \E p \in Moved(j) : Synced(p)
  /\ UNCHANGED <<ctrl, clock_locked, handled, beat, hits, hosts, pc, idle, orders>>

Tick ==
  /\ idle < Stall /\ idle' = idle + 1
  /\ phase' = (phase + 1) % Second /\ grid' = (grid + 1) % Second
  /\ due' = due - 1
  /\ since' = IF Beats(op_mode) THEN since + 1 ELSE 0
  /\ UNCHANGED <<ctrl, clock_locked, handled, heartbeat_interval, steady, torn, astray>>
  /\ UNCHANGED <<synced, hits, hosts, pc, orders>>

Next == Update \/ Handle \/ Restart \/ HostComesOrGoes \/ SyncPacket \/ Tick

Spec == Init /\ [][Next]_vars

-----------------------------------------------------------------------------
TypeOK ==
  /\ op_mode \in OpMode /\ beat_enabled \in BOOLEAN /\ mute \in BOOLEAN
  /\ clock_locked \in BOOLEAN
  /\ connect_handled \in BOOLEAN /\ sync_handled \in BOOLEAN
  /\ heartbeat_interval \in {ActiveInterval, StandbyInterval}
  /\ due \in Int /\ phase \in 0..(Second - 1) /\ grid \in 0..(Second - 1)
  /\ synced \in BOOLEAN /\ hits \in Nat /\ usb \in BOOLEAN /\ tcp \in BOOLEAN
  /\ pc \in {"update", "handle"} /\ idle \in 0..Stall
  /\ order \in OpMode \cup {"none"} /\ noted \in BOOLEAN
  /\ since \in Nat /\ steady \in BOOLEAN /\ torn \in BOOLEAN /\ astray \in BOOLEAN

(* An ACTIVE device beats once a second: the three ways into a mode (a
   connection, a write, a reset) never leave ACTIVE with the other interval. *)
IntervalMatchesMode == op_mode = "ACTIVE" => heartbeat_interval = ActiveInterval

(* Beats fall on whole seconds of Harp time, whatever was set or switched in
   between, as soon as update_state() has seen the first sync: the second of
   that sync, or of the last time that was set, from which later packets move
   Harp time away (harp_core.cpp:379).  Only a packet between the reading of
   the time and its conversion puts the deadline elsewhere.                *)
BeatsOnTheSecond == synced = sync_handled /\ ~torn => (grid + due) % Second = 0

(* An enabled, unmuted ACTIVE device keeps beating: the first beat comes
   within a standby interval, the next each within an active one, late by no
   more than run() was (test_tcp_heartbeat.py:71), however the packets move
   Harp time; a packet inside a call spoils it until the next deadline.    *)
BeatsInTime == ~astray => since <= (IF steady THEN ActiveInterval ELSE StandbyInterval) + Stall

(* Once the connection is marked as handled (connect_handled_), the mode the
   host wrote stays until it writes another, resets the device or leaves.  *)
OrderKept == order # "none" /\ noted => op_mode = order
=============================================================================
