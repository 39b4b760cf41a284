------------------------ MODULE OperationModeProofs -------------------------
(***************************************************************************)
(* Proofs about OperationMode, for any tick, intervals and stalls of run().*)
(***************************************************************************)
EXTENDS OperationMode, TLAPS

\* What connect_handled_ says is what the order of the connected host rests on:
\* an order outlives a turn only because the flag is still up.
OrderHeld ==
  order # "none" =>
    /\ HostConnected
    /\ noted => connect_handled /\ op_mode = order

ModeInv == TypeOK /\ IntervalMatchesMode /\ OrderHeld

-----------------------------------------------------------------------------
\* What the other lemmas need of the constants.
LEMMA Numbers ==
  /\ 0 \in 0..(Second - 1) /\ 0 \in 0..Stall
  /\ ActiveInterval \in Int /\ StandbyInterval \in Int /\ Stall \in Nat
<1>1. Second \in Nat \ {0} /\ ActiveInterval \in Nat /\ StandbyInterval \in Nat /\ Stall \in Nat
  BY ClockAssumption
<1> QED BY <1>1

\* One tick on, Harp time is still within its second.
LEMMA PhaseTyped ==
  ASSUME NEW p \in 0..(Second - 1)
  PROVE  (p + 1) % Second \in 0..(Second - 1)
BY ClockAssumption

\* The mode update_state() chooses is one of the three.
LEMMA NextStateTyped ==
  ASSUME TypeOK
  PROVE  NextState \in OpMode
BY DEF NextState, OpMode, TypeOK

\* update_state() to any mode keeps the types, and leaves the interval of the
\* mode it goes to.
LEMMA UpdateKeeps ==
  ASSUME TypeOK, IntervalMatchesMode, NEW m \in OpMode, NEW d \in Int, NEW seen \in Int,
         NEW sy \in BOOLEAN, UpdateAt(m, d, seen, sy)
  PROVE  /\ connect_handled' \in BOOLEAN /\ sync_handled' \in BOOLEAN
         /\ heartbeat_interval' \in {ActiveInterval, StandbyInterval}
         /\ due' \in Int /\ since' \in Nat /\ steady' \in BOOLEAN
         /\ m = "ACTIVE" => heartbeat_interval' = ActiveInterval
         /\ HostConnected /\ (connect_handled \/ (op_mode # "ACTIVE" /\ m = "ACTIVE"))
              => connect_handled'
<1>1. {ActiveInterval, StandbyInterval} \subseteq Int
  BY ClockAssumption
<1>2. heartbeat_interval' = NextInterval(m)
  BY DEF UpdateAt
<1>3. /\ heartbeat_interval' \in {ActiveInterval, StandbyInterval}
      /\ m = "ACTIVE" => heartbeat_interval' = ActiveInterval
  BY <1>2 DEF NextInterval, TypeOK, IntervalMatchesMode
<1>4. due' \in Int
  BY <1>1, <1>2, <1>3 DEF UpdateAt, DueNow
<1>5. sync_handled' \in BOOLEAN /\ since' \in Nat
  BY DEF UpdateAt, TypeOK
<1>6. steady' \in BOOLEAN
  BY DEF UpdateAt
<1>7. /\ connect_handled' \in BOOLEAN
      /\ HostConnected /\ (connect_handled \/ (op_mode # "ACTIVE" /\ m = "ACTIVE"))
           => connect_handled'
  BY DEF UpdateAt, Noted
<1> QED BY <1>3, <1>4, <1>5, <1>6, <1>7

\* A packet leaves the clock well typed.
LEMMA SyncedTyped ==
  ASSUME TypeOK, NEW j \in SyncJumps, NEW p \in Moved(j)
  PROVE  p \in 0..(Second - 1)
BY DEF Moved, TypeOK

\* So does update_state(), with or without a packet inside it.
LEMMA UpdateTyped ==
  ASSUME TypeOK, NEW m \in OpMode, UpdateTo(m)
  PROVE  /\ \E d \in Int, seen \in Int, sy \in BOOLEAN : UpdateAt(m, d, seen, sy)
         /\ synced' \in BOOLEAN /\ hits' \in Nat
         /\ phase' \in 0..(Second - 1) /\ grid' \in 0..(Second - 1)
         /\ torn' \in BOOLEAN /\ astray' \in BOOLEAN
<1>1. /\ synced \in BOOLEAN /\ hits \in Nat /\ due \in Int
      /\ phase \in 0..(Second - 1) /\ grid \in 0..(Second - 1)
      /\ torn \in BOOLEAN /\ astray \in BOOLEAN /\ sync_handled \in BOOLEAN
  BY DEF TypeOK
<1>2. Aligned(heartbeat_interval, phase) \in Int
  BY ClockAssumption DEF TypeOK, Aligned
<1>3. CASE UpdateWhole(m)
  <2> DEFINE d == IF FirstSync THEN Aligned(heartbeat_interval, phase) ELSE due
  <2>1. d \in Int /\ UpdateAt(m, d, d, synced)
    BY <1>1, <1>2, <1>3 DEF UpdateWhole
  <2>2. UNCHANGED <<synced, hits, phase, grid>>
    BY <1>3 DEF UpdateWhole, clock
  <2>3. torn' = (torn /\ ~FirstSync) /\ astray' = (astray /\ ~FirstSync /\ d > 0)
    BY <1>3 DEF UpdateWhole
  <2>4. torn' \in BOOLEAN /\ astray' \in BOOLEAN
    BY <2>3
  <2> QED BY <1>1, <2>1, <2>2, <2>4
<1>4. CASE UpdateTorn(m)
  <2>1. PICK j \in SyncJumps, early \in BOOLEAN :
          /\ \E p \in Moved(j) : Synced(p)
          /\ LET d == IF sync_handled THEN due ELSE Aligned(heartbeat_interval, phase) - j
             IN UpdateAt(m, d, IF early THEN d + j ELSE d, TRUE)
          /\ torn' = IF sync_handled THEN torn ELSE j # 0
          /\ astray' = (j # 0 \/ (astray /\ sync_handled /\ due > 0))
    BY <1>4 DEF UpdateTorn
  <2> DEFINE d == IF sync_handled THEN due ELSE Aligned(heartbeat_interval, phase) - j
             seen == IF early THEN d + j ELSE d
  <2>2. j \in Int
    BY ClockAssumption
  <2>3. d \in Int /\ seen \in Int
    BY <1>1, <1>2, <2>2
  <2>a. UpdateAt(m, d, seen, TRUE)
    BY <2>1
  <2>4. hits' \in Nat
    BY <1>1, <1>4 DEF UpdateTorn
  <2>5. PICK p \in Moved(j) : Synced(p)
    BY <2>1
  <2>6. synced' \in BOOLEAN /\ phase' \in 0..(Second - 1) /\ grid' \in 0..(Second - 1)
    BY <1>1, <2>5, SyncedTyped DEF Synced
  <2>7. torn' \in BOOLEAN /\ astray' \in BOOLEAN
    BY <1>1, <2>1
  <2> HIDE DEF d, seen
  <2> QED BY <2>3, <2>a, <2>4, <2>6, <2>7
<1> QED BY <1>3, <1>4 DEF UpdateTo

\* A turn of update_state().
LEMMA UpdateInv ==
  ASSUME ModeInv, Update
  PROVE  ModeInv'
<1>1. /\ pc' = "handle" /\ op_mode' = NextState /\ idle' = 0 /\ UpdateTo(NextState)
      /\ UNCHANGED <<beat_enabled, mute, clock_locked, usb, tcp, order, noted>>
  BY DEF Update, UpdateTo, hosts, orders
<1>2. NextState \in OpMode
  BY NextStateTyped DEF ModeInv
<1>3. /\ synced' \in BOOLEAN /\ hits' \in Nat
      /\ phase' \in 0..(Second - 1) /\ grid' \in 0..(Second - 1)
      /\ torn' \in BOOLEAN /\ astray' \in BOOLEAN
  BY <1>1, <1>2, UpdateTyped DEF ModeInv
<1>4. PICK d \in Int, seen \in Int, sy \in BOOLEAN : UpdateAt(NextState, d, seen, sy)
  BY <1>1, <1>2, UpdateTyped DEF ModeInv
<1>5. /\ connect_handled' \in BOOLEAN /\ sync_handled' \in BOOLEAN
      /\ heartbeat_interval' \in {ActiveInterval, StandbyInterval}
      /\ due' \in Int /\ since' \in Nat /\ steady' \in BOOLEAN
      /\ NextState = "ACTIVE" => heartbeat_interval' = ActiveInterval
      /\ HostConnected /\ connect_handled => connect_handled'
  BY <1>2, <1>4, UpdateKeeps DEF ModeInv
<1>6. TypeOK'
  BY <1>1, <1>2, <1>3, <1>5, ClockAssumption DEF ModeInv, TypeOK
<1>7. IntervalMatchesMode'
  BY <1>1, <1>5 DEF IntervalMatchesMode
<1>8. OrderHeld'
  <2>1. HostConnected /\ connect_handled => NextState = op_mode
    BY DEF NextState, Noted
  <2> QED BY <1>1, <1>5, <2>1 DEF ModeInv, OrderHeld, HostConnected
<1> QED BY <1>6, <1>7, <1>8 DEF ModeInv

\* A write to R_OPERATION_CTRL.
LEMMA WriteInv ==
  ASSUME ModeInv, NEW m \in Modes, NEW en \in BOOLEAN, NEW mu \in BOOLEAN,
         WriteOperationCtrl(m, en, mu), pc' = "update", UNCHANGED hosts
  PROVE  ModeInv'
<1>1. m \in OpMode
  BY ModesAssumption DEF WriteOperationCtrl, OpMode
<1>2. /\ beat_enabled' = en /\ mute' = mu
      /\ order' = IF HostConnected THEN m ELSE "none"
      /\ noted' = connect_handled'
      /\ UNCHANGED <<clock_locked, usb, tcp>>
  BY DEF WriteOperationCtrl, hosts
<1>3. op_mode' = m
  BY DEF WriteOperationCtrl, UpdateTo
<1>4. /\ connect_handled' \in BOOLEAN /\ sync_handled' \in BOOLEAN
      /\ heartbeat_interval' \in {ActiveInterval, StandbyInterval}
      /\ due' \in Int /\ since' \in Nat /\ steady' \in BOOLEAN /\ idle' \in 0..Stall
      /\ m = "ACTIVE" => heartbeat_interval' = ActiveInterval
      /\ synced' \in BOOLEAN /\ hits' \in Nat
      /\ phase' \in 0..(Second - 1) /\ grid' \in 0..(Second - 1)
      /\ torn' \in BOOLEAN /\ astray' \in BOOLEAN
  <2>1. CASE m # op_mode
    <3>1. UpdateTo(m) /\ idle' = 0
      BY <2>1 DEF WriteOperationCtrl, UpdateTo
    <3>2. PICK d \in Int, seen \in Int, sy \in BOOLEAN : UpdateAt(m, d, seen, sy)
      BY <1>1, <3>1, UpdateTyped DEF ModeInv
    <3>3. /\ connect_handled' \in BOOLEAN /\ sync_handled' \in BOOLEAN
          /\ heartbeat_interval' \in {ActiveInterval, StandbyInterval}
          /\ due' \in Int /\ since' \in Nat /\ steady' \in BOOLEAN
          /\ m = "ACTIVE" => heartbeat_interval' = ActiveInterval
      BY <1>1, <3>2, UpdateKeeps DEF ModeInv
    <3> QED BY <1>1, <3>1, <3>3, UpdateTyped, ClockAssumption DEF ModeInv
  <2>2. CASE m = op_mode
    <3>1. /\ UNCHANGED <<connect_handled, sync_handled, heartbeat_interval, due, idle>>
          /\ UNCHANGED <<torn, astray, phase, grid, synced, hits>>
      BY <2>2 DEF WriteOperationCtrl, handled, clock
    <3>2. UNCHANGED <<since, steady>> \/ (since' = 0 /\ steady' = FALSE)
      BY <2>2 DEF WriteOperationCtrl
    <3>3. since' \in Nat /\ steady' \in BOOLEAN
      <4>1. since \in Nat /\ steady \in BOOLEAN
        BY DEF ModeInv, TypeOK
      <4>2. CASE UNCHANGED <<since, steady>>
        BY <4>1, <4>2
      <4>3. CASE since' = 0 /\ steady' = FALSE
        BY <4>3
      <4> QED BY <3>2, <4>2, <4>3
    <3> QED BY <2>2, <3>1, <3>3 DEF ModeInv, TypeOK, IntervalMatchesMode
  <2> QED BY <2>1, <2>2
<1>5. TypeOK'
  BY <1>1, <1>2, <1>3, <1>4 DEF ModeInv, TypeOK
<1>6. IntervalMatchesMode' /\ OrderHeld'
  BY <1>2, <1>3, <1>4 DEF IntervalMatchesMode, OrderHeld, HostConnected
<1> QED BY <1>5, <1>6 DEF ModeInv

\* A write of the time, wherever a packet falls in it.
LEMMA TimeTyped ==
  ASSUME TypeOK, WriteTimestampSecond
  PROVE  /\ due' \in Int /\ hits' \in Nat /\ synced' \in BOOLEAN
         /\ phase' \in 0..(Second - 1) /\ grid' \in 0..(Second - 1)
         /\ torn' \in BOOLEAN /\ astray' \in BOOLEAN
<1>1. \A p \in 0..(Second - 1) : Aligned(heartbeat_interval, p) \in Int
  BY ClockAssumption DEF TypeOK, Aligned
<1>2. synced \in BOOLEAN /\ hits \in Nat /\ phase \in 0..(Second - 1)
  BY DEF TypeOK
<1>3. grid' = phase'
  BY DEF WriteTimestampSecond
<1>4. CASE phase' = phase /\ synced' \in {synced, TRUE} /\ Rearm(phase, 0) /\ UNCHANGED hits
  <2>1. due' = Aligned(heartbeat_interval, phase) - 0 /\ torn' = FALSE /\ astray' = FALSE
    BY <1>4 DEF Rearm
  <2>2. due' \in Int
    BY <1>1, <1>2, <2>1
  <2>3. synced' \in BOOLEAN
    BY <1>2, <1>4
  <2> QED BY <1>2, <1>3, <1>4, <2>1, <2>2, <2>3
<1>5. CASE /\ \E j \in SyncJumps : \E p \in Moved(j) : phase' = p /\ Rearm(p, 0)
           /\ synced' = TRUE /\ UNCHANGED hits
  <2>1. PICK j \in SyncJumps : \E p \in Moved(j) : phase' = p /\ Rearm(p, 0)
    BY <1>5
  <2>2. PICK p \in Moved(j) : phase' = p /\ Rearm(p, 0)
    BY <2>1
  <2>3. p \in 0..(Second - 1)
    BY SyncedTyped
  <2> QED BY <1>1, <1>2, <1>3, <1>5, <2>2, <2>3 DEF Rearm
<1>6. CASE /\ hits > 0 /\ hits' = hits - 1
           /\ \E j \in SyncJumps : phase' \in Moved(j) /\ Rearm(phase, j)
           /\ synced' = TRUE
  <2>1. PICK j \in SyncJumps : phase' \in Moved(j) /\ Rearm(phase, j)
    BY <1>6
  <2>2. phase' \in 0..(Second - 1) /\ j \in Int
    BY <1>2, <2>1, ClockAssumption DEF Moved
  <2> QED BY <1>1, <1>2, <1>3, <1>6, <2>1, <2>2 DEF Rearm
<1> QED BY <1>4, <1>5, <1>6 DEF WriteTimestampSecond

\* The other register writes, and turns without one.
LEMMA HandleInv ==
  ASSUME ModeInv, Handle
  PROVE  ModeInv'
<1>1. pc' = "update" /\ UNCHANGED hosts
  BY DEF Handle
<1>2. ASSUME NEW m \in Modes, NEW en \in BOOLEAN, NEW mu \in BOOLEAN,
             WriteOperationCtrl(m, en, mu)
      PROVE  ModeInv'
  BY <1>1, <1>2, WriteInv
<1>3. CASE WriteResetDev
  <2>1. /\ op_mode' = "STANDBY" /\ order' = "none" /\ since' = 0 /\ steady' = FALSE
        /\ UNCHANGED <<beat_enabled, mute, clock_locked, connect_handled, sync_handled>>
        /\ UNCHANGED <<heartbeat_interval, due, torn, astray, phase, synced, hits, grid>>
        /\ UNCHANGED <<idle, noted, usb, tcp>>
    BY <1>1, <1>3 DEF WriteResetDev, hosts, handled, clock
  <2>2. /\ op_mode' \in OpMode /\ order' \in OpMode \cup {"none"} /\ pc' \in {"update", "handle"}
        /\ since' \in Nat /\ steady' \in BOOLEAN
    BY <1>1, <2>1 DEF OpMode
  <2>3. TypeOK'
    BY <2>1, <2>2 DEF ModeInv, TypeOK
  <2> QED BY <2>1, <2>3 DEF ModeInv, IntervalMatchesMode, OrderHeld
<1>4. ASSUME NEW lock \in BOOLEAN, NEW unlock \in BOOLEAN, WriteClockConfig(lock, unlock)
      PROVE  ModeInv'
  <2>1. clock_locked' \in BOOLEAN
    BY <1>4 DEF WriteClockConfig, ModeInv, TypeOK
  <2> QED BY <1>1, <1>4, <2>1 DEF WriteClockConfig, ModeInv, TypeOK, IntervalMatchesMode,
             OrderHeld, HostConnected, hosts, ctrl, handled, beat, clock, orders
<1>5. CASE WriteTimestampSecond
  <2>1. /\ due' \in Int /\ hits' \in Nat /\ synced' \in BOOLEAN
        /\ phase' \in 0..(Second - 1) /\ grid' \in 0..(Second - 1)
        /\ torn' \in BOOLEAN /\ astray' \in BOOLEAN
    BY <1>5, TimeTyped DEF ModeInv
  <2>2. /\ since' = 0 /\ steady' = FALSE
        /\ UNCHANGED <<op_mode, beat_enabled, mute, clock_locked, connect_handled, sync_handled>>
        /\ UNCHANGED <<heartbeat_interval, idle, order, noted, usb, tcp>>
    BY <1>1, <1>5 DEF WriteTimestampSecond, hosts, ctrl, handled, orders
  <2> QED BY <1>1, <2>1, <2>2 DEF ModeInv, TypeOK, IntervalMatchesMode, OrderHeld, HostConnected
<1>6. CASE HandleNothing
  BY <1>1, <1>6 DEF HandleNothing, ModeInv, TypeOK, IntervalMatchesMode, OrderHeld,
     HostConnected, hosts, ctrl, handled, beat, clock, orders
<1> QED BY <1>2, <1>3, <1>4, <1>5, <1>6 DEF Handle

\* Restarts, hosts that come and go, sync packets and time.
LEMMA AroundInv ==
  ASSUME ModeInv, Restart \/ HostComesOrGoes \/ SyncPacket \/ Tick \/ UNCHANGED vars
  PROVE  ModeInv'
<1> USE DEF ModeInv, ctrl, hosts, handled, beat, clock, orders
<1>1. CASE Restart
  BY <1>1, Numbers DEF Restart, TypeOK, OpMode, IntervalMatchesMode, OrderHeld
<1>2. CASE HostComesOrGoes
  <2>1. usb' \in BOOLEAN /\ tcp' \in BOOLEAN
    BY <1>2 DEF HostComesOrGoes, TypeOK
  <2>2. order' = (IF HostConnected' THEN order ELSE "none")
    BY <1>2 DEF HostComesOrGoes, HostConnected
  <2>3. /\ UNCHANGED <<op_mode, beat_enabled, mute, clock_locked, connect_handled, sync_handled>>
        /\ UNCHANGED <<heartbeat_interval, due, phase, synced, hits, grid, pc, idle, noted>>
        /\ UNCHANGED <<since, steady, torn, astray>>
    BY <1>2 DEF HostComesOrGoes
  <2>4. order' # "none" => HostConnected' /\ order' = order
    BY <2>2
  <2>5. TypeOK'
    BY <2>1, <2>2, <2>3 DEF TypeOK
  <2>6. IntervalMatchesMode' /\ OrderHeld'
    BY <2>3, <2>4 DEF IntervalMatchesMode, OrderHeld
  <2> QED BY <2>5, <2>6
<1>3. CASE SyncPacket
  <2>1. PICK j \in SyncJumps : \E p \in Moved(j) : Synced(p)
    BY <1>3 DEF SyncPacket
  <2>2. PICK p \in Moved(j) : Synced(p)
    BY <2>1
  <2>3. synced' \in BOOLEAN /\ phase' \in 0..(Second - 1) /\ grid' \in 0..(Second - 1)
    BY <2>2, SyncedTyped DEF Synced, TypeOK
  <2>4. /\ UNCHANGED <<op_mode, beat_enabled, mute, clock_locked, connect_handled, sync_handled>>
        /\ UNCHANGED <<heartbeat_interval, due, hits, usb, tcp, pc, idle, order, noted>>
        /\ UNCHANGED <<since, steady, torn, astray>>
    BY <1>3 DEF SyncPacket
  <2> QED BY <2>3, <2>4 DEF TypeOK, IntervalMatchesMode, OrderHeld, HostConnected
<1>4. CASE Tick
  <2>1. phase' \in 0..(Second - 1) /\ grid' \in 0..(Second - 1)
    BY <1>4, PhaseTyped DEF Tick, TypeOK
  <2>2. since' \in Nat /\ due' \in Int /\ idle' \in 0..Stall
    BY <1>4, ClockAssumption DEF Tick, TypeOK
  <2> QED BY <1>4, <2>1, <2>2 DEF Tick, TypeOK, IntervalMatchesMode, OrderHeld, HostConnected
<1>5. CASE UNCHANGED vars
  BY <1>5 DEF vars, TypeOK, IntervalMatchesMode, OrderHeld, HostConnected
<1> QED BY <1>1, <1>2, <1>3, <1>4, <1>5

\* The invariant holds at every step of every behaviour.
LEMMA AlwaysModeInv == Spec => []ModeInv
<1>1. Init => ModeInv
  <2> SUFFICES ASSUME Init PROVE ModeInv
    OBVIOUS
  <2>1. TypeOK
    BY Numbers, ClockAssumption DEF Init, TypeOK, OpMode
  <2>2. IntervalMatchesMode /\ OrderHeld
    BY DEF Init, IntervalMatchesMode, OrderHeld
  <2> QED BY <2>1, <2>2 DEF ModeInv
<1>2. ModeInv /\ [Next]_vars => ModeInv'
  BY UpdateInv, HandleInv, AroundInv DEF Next
<1> QED BY <1>1, <1>2, PTL DEF Spec

-----------------------------------------------------------------------------
\* The mode is one of three, the interval one of two, Harp time in its second.
THEOREM TypeCorrect == Spec => []TypeOK
BY AlwaysModeInv, PTL DEF ModeInv

\* Connection, write and reset never leave ACTIVE with the standby interval.
THEOREM ActiveBeatsFast == Spec => []IntervalMatchesMode
BY AlwaysModeInv, PTL DEF ModeInv

\* No turn of update_state() undoes the order of a host that stays connected,
\* once connect_handled_ is up.
THEOREM OrdersAreKept == Spec => []OrderKept
<1>1. ModeInv => OrderKept
  BY DEF ModeInv, OrderHeld, OrderKept
<1> QED BY <1>1, AlwaysModeInv, PTL

-----------------------------------------------------------------------------
\* What the rhythm of the beats rests on, unless a sync packet inside a call has
\* put the deadline elsewhere: it is never further off than a standby interval,
\* and what has passed since the last beat and what is left until the next add
\* up to no more than the interval in force.
Allowed == IF steady THEN ActiveInterval ELSE StandbyInterval

InTime ==
  /\ steady => Beats(op_mode)
  /\ ~astray => /\ due <= StandbyInterval
                /\ since + due <= Allowed
                /\ since <= Allowed + idle

\* The deadline is on a whole second of the grid; before update_state() has seen
\* the first sync that is the Harp time itself.
OnTheSecond ==
  /\ sync_handled => synced
  /\ ~sync_handled => grid = phase
  /\ BeatsOnTheSecond

BeatInv == ModeInv /\ InTime /\ OnTheSecond

Whole(a) == \E k \in Int : a = k * Second

\* A time is on a whole second when nothing is left of it by the second.
LEMMA WholeSeconds ==
  ASSUME NEW a \in Int
  PROVE  a % Second = 0 <=> Whole(a)
<1>1. Second \in Nat \ {0}
  BY ClockAssumption
<1>2. /\ a = Second * (a \div Second) + (a % Second)
      /\ a \div Second \in Int /\ a % Second \in 0..(Second - 1)
  BY <1>1
<1>3. ASSUME a % Second = 0 PROVE Whole(a)
  <2>1. a = (a \div Second) * Second
    BY <1>1, <1>2, <1>3
  <2> QED BY <1>2, <2>1 DEF Whole
<1>4. ASSUME NEW k \in Int, a = k * Second PROVE a % Second = 0
  <2> DEFINE q == a \div Second
             r == a % Second
  <2>1. r = Second * (k - q)
    BY <1>1, <1>2, <1>4
  <2>2. q \in Int /\ r \in 0..(Second - 1)
    BY <1>2
  <2> HIDE DEF q, r
  <2>3. CASE k - q >= 1
    <3>1. Second * (k - q) >= Second
      BY <1>1, <2>2, <2>3
    <3> QED BY <1>1, <3>1, <2>1, <2>2
  <2>4. CASE k - q <= -1
    <3>1. Second * (k - q) <= -Second
      BY <1>1, <2>2, <2>4
    <3> QED BY <1>1, <3>1, <2>1, <2>2
  <2>5. CASE k = q
    <3>1. r = Second * 0
      BY <2>1, <2>2, <2>5
    <3> QED BY <1>1, <3>1 DEF r
  <2> QED BY <2>2, <2>3, <2>4, <2>5
<1> QED BY <1>3, <1>4 DEF Whole

\* Whole seconds, put together, are whole seconds; both intervals are.
LEMMA WholeSum ==
  ASSUME NEW a \in Int, NEW b \in Int, Whole(a), Whole(b)
  PROVE  Whole(a + b) /\ Whole(a - Second)
<1>1. Second \in Nat \ {0}
  BY ClockAssumption
<1>2. PICK k \in Int, l \in Int : a = k * Second /\ b = l * Second
  BY DEF Whole
<1>3. a + b = (k + l) * Second /\ a - Second = (k - 1) * Second
  BY <1>1, <1>2
<1>4. k + l \in Int /\ k - 1 \in Int
  OBVIOUS
<1> QED BY <1>3, <1>4 DEF Whole

LEMMA WholeIntervals ==
  ASSUME TypeOK
  PROVE  /\ heartbeat_interval \in Nat \ {0} /\ heartbeat_interval <= StandbyInterval
         /\ Whole(heartbeat_interval)
         /\ Second \in Nat \ {0} /\ ActiveInterval \in Nat \ {0} /\ StandbyInterval \in Nat \ {0}
         /\ Stall \in Nat \ {0} /\ ActiveInterval <= StandbyInterval
<1>1. /\ Second \in Nat \ {0} /\ ActiveInterval \in Nat \ {0} /\ StandbyInterval \in Nat \ {0}
      /\ Stall \in Nat \ {0} /\ ActiveInterval <= StandbyInterval
  BY ClockAssumption
<1>2. Whole(ActiveInterval) /\ Whole(StandbyInterval)
  BY <1>1, WholeSeconds, ClockAssumption
<1>3. heartbeat_interval \in {ActiveInterval, StandbyInterval}
  BY DEF TypeOK
<1> QED BY <1>1, <1>2, <1>3

\* Advancing the deadline by an interval, or not, leaves it on its second.
LEMMA AdvanceWhole ==
  ASSUME ModeInv, NEW m \in OpMode, NEW g \in Int, NEW d \in Int, Whole(g + d), NEW e,
         e = d \/ e = d + NextInterval(m)
  PROVE  (g + e) % Second = 0
<1> DEFINE n == NextInterval(m)
<1>1. n \in {ActiveInterval, StandbyInterval}
  BY DEF NextInterval, ModeInv, TypeOK
<1>2. n \in Int /\ Whole(n)
  <2>1. {ActiveInterval, StandbyInterval} \subseteq Int
    BY ClockAssumption
  <2>2. Whole(ActiveInterval) /\ Whole(StandbyInterval)
    BY <2>1, WholeSeconds, ClockAssumption
  <2> QED BY <1>1, <2>1, <2>2
<1> HIDE DEF n
<1>3. CASE e = d
  BY <1>3, WholeSeconds
<1>4. CASE e = d + n
  <2>1. g + d \in Int
    OBVIOUS
  <2>2. Whole((g + d) + n)
    BY <1>2, <2>1, WholeSum
  <2>3. g + e = (g + d) + n /\ g + e \in Int
    BY <1>2, <1>4
  <2>4. Whole(g + e)
    BY <2>2, <2>3
  <2> QED BY <2>3, <2>4, WholeSeconds
<1> QED BY <1>3, <1>4 DEF n

\* A turn of update_state() that no packet disturbs, to any mode, keeps the
\* rhythm and leaves the deadline on its second; the first sync puts it there.
LEMMA CleanBeats ==
  ASSUME ModeInv, InTime, OnTheSecond, NEW m \in OpMode,
         NEW sy \in BOOLEAN, synced => sy, synced' = sy,
         NEW first \in BOOLEAN, first = (sy /\ ~sync_handled),
         NEW d, d = (IF first THEN Aligned(heartbeat_interval, phase) ELSE due),
         UpdateAt(m, d, d, sy), UNCHANGED <<phase, grid>>,
         torn' = (torn /\ ~first), astray' = (astray /\ ~first /\ d > 0)
  PROVE  /\ steady' => Beats(op_mode) /\ Beats(m)
         /\ ~astray' => due' <= StandbyInterval /\ since' + due' <= Allowed' /\ since' <= Allowed'
         /\ OnTheSecond'
<1> DEFINE n == NextInterval(m)
<1>1. /\ sync_handled' = sy
      /\ due' = DueNow(d, d, m)
      /\ since' = IF first \/ ~Beats(m) \/ ~Beats(op_mode) \/ d <= 0 THEN 0 ELSE since
      /\ steady' = (~first /\ Beats(m) /\ Beats(op_mode) /\ (steady \/ d <= 0))
  BY DEF UpdateAt
<1>2. /\ heartbeat_interval \in Nat \ {0} /\ heartbeat_interval <= StandbyInterval
      /\ Whole(heartbeat_interval)
      /\ Second \in Nat \ {0} /\ ActiveInterval \in Nat \ {0} /\ StandbyInterval \in Nat \ {0}
      /\ ActiveInterval <= StandbyInterval
  BY WholeIntervals DEF ModeInv
<1>3. /\ phase \in 0..(Second - 1) /\ grid \in 0..(Second - 1) /\ due \in Int /\ since \in Nat
      /\ synced \in BOOLEAN /\ sync_handled \in BOOLEAN
  BY <1>2 DEF ModeInv, TypeOK
<1>4. d \in Int /\ (first => d = heartbeat_interval - phase) /\ (~first => d = due)
  BY <1>2, <1>3 DEF Aligned
<1>5. /\ n \in {ActiveInterval, StandbyInterval}
      /\ Beats(m) => n = ActiveInterval
  BY DEF NextInterval, ModeInv, TypeOK, IntervalMatchesMode, Beats
<1>6. n \in Nat \ {0} /\ n <= StandbyInterval
  BY <1>2, <1>5
<1>7. due' = (IF d <= 0 THEN d + n ELSE d)
  BY <1>1 DEF DueNow
<1>8. steady' => Beats(op_mode) /\ Beats(m)
  BY <1>1
<1> HIDE DEF n
<1>9. ASSUME ~astray' PROVE due' <= StandbyInterval /\ since' + due' <= Allowed' /\ since' <= Allowed'
  <2>1. CASE d <= 0
    <3>1. due' = d + n /\ since' = 0
      BY <1>1, <1>7, <2>1
    <3>2. n <= Allowed' /\ Allowed' \in Int
      <4>1. CASE steady'
        <5>1. Allowed' = ActiveInterval /\ n = ActiveInterval
          BY <1>5, <1>8, <4>1 DEF Allowed
        <5> QED BY <1>2, <5>1
      <4>2. CASE ~steady'
        <5>1. Allowed' = StandbyInterval
          BY <4>2 DEF Allowed
        <5> QED BY <1>2, <1>6, <5>1
      <4> QED BY <4>1, <4>2
    <3> QED BY <1>2, <1>4, <1>6, <2>1, <3>1, <3>2
  <2>2. CASE d > 0 /\ first
    <3>1. due' = d
      BY <1>4, <1>7, <2>2
    <3>2. since' = 0
      BY <1>1, <2>2
    <3>3. ~steady'
      BY <1>1, <2>2
    <3>4. Allowed' = StandbyInterval
      BY <3>3 DEF Allowed
    <3>5. d \in Int /\ d <= StandbyInterval
      BY <1>2, <1>3, <1>4, <2>2
    <3>6. since' + due' = d
      BY <3>1, <3>2, <3>5
    <3> QED BY <1>2, <3>1, <3>2, <3>4, <3>5, <3>6
  <2>3. CASE d > 0 /\ ~first
    <3>a. ~astray
      BY <1>9, <2>3
    <3>b. d = due /\ due' = d
      BY <1>4, <1>7, <2>3
    <3>1. ~astray /\ d = due /\ due' = d
      BY <3>a, <3>b
    <3>2. /\ due <= StandbyInterval
          /\ since + due <= (IF steady THEN ActiveInterval ELSE StandbyInterval)
      BY <3>1 DEF InTime, Allowed
    <3>3. CASE Beats(m) /\ Beats(op_mode)
      <4>1. steady \in BOOLEAN /\ ~(d <= 0)
        BY <1>4, <2>3 DEF ModeInv, TypeOK
      <4>2. since' = since /\ steady' = steady
        BY <1>1, <2>3, <3>3, <4>1
      <4> QED BY <1>2, <1>3, <2>3, <3>1, <3>2, <4>2 DEF Allowed
    <3>4. CASE ~(Beats(m) /\ Beats(op_mode))
      <4>1. since' = 0 /\ ~steady'
        BY <1>1, <3>4
      <4>2. Allowed' = StandbyInterval
        BY <4>1 DEF Allowed
      <4> QED BY <1>2, <1>3, <3>1, <3>2, <4>1, <4>2
    <3> QED BY <3>3, <3>4
  <2> QED BY <1>4, <2>1, <2>2, <2>3
<1>10. ASSUME ~torn' PROVE Whole(grid + d)
  <2>1. CASE first
    <3>1. grid = phase
      BY <2>1 DEF OnTheSecond
    <3>2. grid + d = heartbeat_interval
      BY <1>2, <1>3, <1>4, <2>1, <3>1
    <3> QED BY <1>2, <3>2
  <2>2. CASE ~first
    <3>1. synced = sync_handled
      BY <1>3, <2>2 DEF OnTheSecond
    <3>2. ~torn
      BY <1>10, <2>2
    <3>3. (grid + due) % Second = 0
      BY <3>1, <3>2 DEF OnTheSecond, BeatsOnTheSecond
    <3>4. grid + d \in Int /\ (grid + d) % Second = 0
      BY <1>2, <1>3, <1>4, <2>2, <3>3
    <3> QED BY <3>4, WholeSeconds
  <2> QED BY <2>1, <2>2
<1>11. ASSUME ~torn' PROVE (grid' + due') % Second = 0
  <2>1. grid \in Int /\ grid' = grid /\ Whole(grid + d)
    BY <1>2, <1>3, <1>10, <1>11
  <2>2. due' = d \/ due' = d + NextInterval(m)
    BY <1>7 DEF n
  <2> QED BY <1>4, <2>1, <2>2, AdvanceWhole
<1>12. OnTheSecond'
  <2>1. ~sync_handled' => grid' = phase'
    BY <1>1 DEF OnTheSecond
  <2> QED BY <1>1, <1>11, <2>1 DEF OnTheSecond, BeatsOnTheSecond
<1> QED BY <1>8, <1>9, <1>12

\* A packet inside the turn that moves Harp time spoils the timing until the
\* deadline has passed, and the second only in the turn of the first sync.
LEMMA TornBeats ==
  ASSUME ModeInv, InTime, OnTheSecond, NEW m \in OpMode, UpdateTorn(m)
  PROVE  /\ steady' => Beats(op_mode) /\ Beats(m)
         /\ ~astray' => due' <= StandbyInterval /\ since' + due' <= Allowed' /\ since' <= Allowed'
         /\ OnTheSecond'
<1>1. PICK j \in SyncJumps, early \in BOOLEAN :
        /\ \E p \in Moved(j) : Synced(p)
        /\ LET d == IF sync_handled THEN due ELSE Aligned(heartbeat_interval, phase) - j
           IN UpdateAt(m, d, IF early THEN d + j ELSE d, TRUE)
        /\ torn' = IF sync_handled THEN torn ELSE j # 0
        /\ astray' = (j # 0 \/ (astray /\ sync_handled /\ due > 0))
  BY DEF UpdateTorn
<1>2. PICK p \in Moved(j) : Synced(p)
  BY <1>1
<1>3. /\ j \in Int /\ due \in Int /\ grid \in 0..(Second - 1) /\ phase \in 0..(Second - 1)
      /\ sync_handled \in BOOLEAN /\ Second \in Nat \ {0}
      /\ Aligned(heartbeat_interval, phase) \in Int
  BY ClockAssumption DEF ModeInv, TypeOK, Aligned
<1>4. CASE j = 0
  <2> DEFINE first == ~sync_handled
             d == IF first THEN Aligned(heartbeat_interval, phase) ELSE due
  <2>1. p = phase
    BY <1>2, <1>4 DEF Moved
  <2>2. synced' = TRUE /\ UNCHANGED <<phase, grid>>
    BY <1>2, <2>1 DEF Synced, OnTheSecond
  <2>3. d \in Int
    BY <1>3
  <2>4. d = IF sync_handled THEN due ELSE Aligned(heartbeat_interval, phase) - j
    BY <1>3, <1>4
  <2>5. (IF early THEN d + j ELSE d) = d
    BY <1>4, <2>3
  <2>6. UpdateAt(m, d, IF early THEN d + j ELSE d, TRUE)
    BY <1>1, <2>4
  <2>7. UpdateAt(m, d, d, TRUE)
    BY <2>5, <2>6
  <2>8. torn' = (torn /\ ~first) /\ astray' = (astray /\ ~first /\ d > 0)
    BY <1>1, <1>3, <1>4 DEF ModeInv, TypeOK
  <2>9. first \in BOOLEAN /\ first = (TRUE /\ ~sync_handled)
    BY <1>3
  <2>10. d = (IF first THEN Aligned(heartbeat_interval, phase) ELSE due)
    OBVIOUS
  <2> HIDE DEF d, first
  <2> QED BY <2>2, <2>7, <2>8, <2>9, <2>10, CleanBeats
<1>5. CASE j # 0
  <2>1. astray' = TRUE
    BY <1>1, <1>5
  <2>2. sync_handled' = TRUE /\ synced' = TRUE
    BY <1>1, <1>2 DEF UpdateAt, Synced
  <2>3. steady' => Beats(op_mode) /\ Beats(m)
    BY <1>1 DEF UpdateAt
  <2>4. ASSUME ~torn' PROVE (grid' + due') % Second = 0
    <3>1. sync_handled /\ ~torn
      BY <1>1, <1>3, <1>5, <2>4
    <3>2. synced = sync_handled
      BY <3>1 DEF OnTheSecond, ModeInv, TypeOK
    <3>3. (grid + due) % Second = 0 /\ grid \in Int /\ grid + due \in Int
      BY <1>3, <3>1, <3>2 DEF OnTheSecond, BeatsOnTheSecond
    <3>4. grid' = grid
      BY <1>2, <3>1 DEF Synced
    <3>5. UpdateAt(m, due, IF early THEN due + j ELSE due, TRUE)
      BY <1>1, <3>1
    <3>6. due' = due \/ due' = due + NextInterval(m)
      BY <3>5 DEF UpdateAt, DueNow
    <3>7. Whole(grid + due)
      BY <3>3, WholeSeconds
    <3> QED BY <1>3, <3>3, <3>4, <3>6, <3>7, AdvanceWhole
  <2> QED BY <2>1, <2>2, <2>3, <2>4 DEF OnTheSecond, BeatsOnTheSecond
<1> QED BY <1>4, <1>5

\* update_state() to any mode, wherever a packet falls.
LEMMA UpdateBeats ==
  ASSUME ModeInv, InTime, OnTheSecond, NEW m \in OpMode, UpdateTo(m)
  PROVE  /\ steady' => Beats(op_mode) /\ Beats(m)
         /\ ~astray' => due' <= StandbyInterval /\ since' + due' <= Allowed' /\ since' <= Allowed'
         /\ OnTheSecond'
<1>1. CASE UpdateWhole(m)
  <2> DEFINE d == IF FirstSync THEN Aligned(heartbeat_interval, phase) ELSE due
  <2>1. UpdateAt(m, d, d, synced)
    BY <1>1 DEF UpdateWhole
  <2>2. torn' = (torn /\ ~FirstSync) /\ astray' = (astray /\ ~FirstSync /\ d > 0)
    BY <1>1 DEF UpdateWhole
  <2>3. UNCHANGED <<phase, grid>> /\ synced' = synced
    BY <1>1 DEF UpdateWhole, clock
  <2>4. synced \in BOOLEAN /\ FirstSync \in BOOLEAN /\ FirstSync = (synced /\ ~sync_handled)
    BY DEF FirstSync, ModeInv, TypeOK
  <2>5. d = (IF FirstSync THEN Aligned(heartbeat_interval, phase) ELSE due)
    OBVIOUS
  <2> HIDE DEF d
  <2> QED BY <2>1, <2>2, <2>3, <2>4, <2>5, CleanBeats
<1>2. CASE UpdateTorn(m)
  BY <1>2, TornBeats
<1> QED BY <1>1, <1>2 DEF UpdateTo

\* So does every turn of run().
LEMMA TurnBeats ==
  ASSUME ModeInv, InTime, OnTheSecond, Update
  PROVE  InTime' /\ OnTheSecond'
<1>1. /\ UpdateTo(NextState) /\ op_mode' = NextState /\ idle' = 0
      /\ UNCHANGED <<beat_enabled, mute>>
  BY DEF Update, UpdateTo
<1>2. NextState \in OpMode
  BY NextStateTyped DEF ModeInv
<1>3. /\ steady' => Beats(NextState)
      /\ ~astray' => due' <= StandbyInterval /\ since' + due' <= Allowed' /\ since' <= Allowed'
      /\ OnTheSecond'
  BY <1>1, <1>2, UpdateBeats
<1>4. Allowed' = ActiveInterval \/ Allowed' = StandbyInterval
  BY DEF Allowed
<1>5. Allowed' + idle' = Allowed'
  BY <1>1, <1>4, ClockAssumption
<1>6. steady' => Beats(op_mode)'
  BY <1>1, <1>3 DEF Beats
<1> QED BY <1>3, <1>5, <1>6 DEF InTime

\* A write to R_OPERATION_CTRL keeps it: a change of mode is such a turn, and
\* any other write leaves the deadline alone.
LEMMA WriteBeats ==
  ASSUME ModeInv, InTime, OnTheSecond,
         NEW m \in Modes, NEW en \in BOOLEAN, NEW mu \in BOOLEAN,
         WriteOperationCtrl(m, en, mu)
  PROVE  InTime' /\ OnTheSecond'
<1>1. m \in OpMode
  BY ModesAssumption DEF WriteOperationCtrl, OpMode
<1>2. op_mode' = m /\ beat_enabled' = en /\ mute' = mu
  BY DEF WriteOperationCtrl, UpdateTo
<1>3. CASE m # op_mode
  <2>1. UpdateTo(m) /\ idle' = 0
    BY <1>3 DEF WriteOperationCtrl, UpdateTo
  <2>2. /\ steady' => Beats(op_mode) /\ Beats(m)
        /\ ~astray' => due' <= StandbyInterval /\ since' + due' <= Allowed' /\ since' <= Allowed'
        /\ OnTheSecond'
    BY <1>1, <2>1, UpdateBeats
  <2>3. ~steady'
    BY <1>3, <2>2 DEF Beats
  <2>4. Allowed' = ActiveInterval \/ Allowed' = StandbyInterval
    BY DEF Allowed
  <2>5. Allowed' + idle' = Allowed'
    BY <2>1, <2>4, ClockAssumption
  <2> QED BY <2>2, <2>3, <2>5 DEF InTime
<1>4. CASE m = op_mode
  <2>1. /\ UNCHANGED <<sync_handled, due, idle, torn, astray, synced, phase, grid>>
        /\ \/ Beats(op_mode)' /\ UNCHANGED <<since, steady>>
           \/ since' = 0 /\ steady' = FALSE
    BY <1>2, <1>4 DEF WriteOperationCtrl, handled, clock, Beats
  <2>2. /\ due \in Int /\ since \in Nat /\ idle \in Nat
        /\ ActiveInterval \in Nat /\ StandbyInterval \in Nat /\ ActiveInterval <= StandbyInterval
    BY ClockAssumption DEF ModeInv, TypeOK
  <2>3. CASE UNCHANGED <<since, steady>> /\ Beats(op_mode)'
    BY <2>1, <2>3 DEF InTime, OnTheSecond, BeatsOnTheSecond, Allowed
  <2>4. CASE since' = 0 /\ steady' = FALSE
    <3>1. Allowed' = StandbyInterval
      BY <2>4 DEF Allowed
    <3>2. ~astray => due <= StandbyInterval
      BY DEF InTime
    <3>3. ~astray' => due' <= StandbyInterval /\ since' + due' <= Allowed' /\ since' <= Allowed' + idle'
      BY <2>1, <2>2, <2>4, <3>1, <3>2
    <3> QED BY <2>1, <2>4, <3>3 DEF InTime, OnTheSecond, BeatsOnTheSecond
  <2> QED BY <2>1, <2>3, <2>4
<1> QED BY <1>3, <1>4

\* A write of the time leaves the deadline an interval after the last whole
\* second, or has been disturbed.
LEMMA TimeRearms ==
  ASSUME ModeInv, WriteTimestampSecond
  PROVE  \/ torn' /\ astray'
         \/ due' = heartbeat_interval - phase'
<1>1. heartbeat_interval \in Int /\ Second \in Nat /\ phase \in 0..(Second - 1)
  BY ClockAssumption DEF ModeInv, TypeOK
<1>2. CASE phase' = phase /\ synced' \in {synced, TRUE} /\ Rearm(phase, 0) /\ UNCHANGED hits
  BY <1>1, <1>2 DEF Rearm, Aligned
<1>3. CASE /\ \E j \in SyncJumps : \E p \in Moved(j) : phase' = p /\ Rearm(p, 0)
           /\ synced' = TRUE /\ UNCHANGED hits
  <2>1. PICK j \in SyncJumps : \E p \in Moved(j) : phase' = p /\ Rearm(p, 0)
    BY <1>3
  <2>2. PICK p \in Moved(j) : phase' = p /\ Rearm(p, 0)
    BY <2>1
  <2>3. p \in Int
    BY <1>1 DEF Moved
  <2>4. due' = heartbeat_interval - p
    BY <1>1, <2>2, <2>3 DEF Rearm, Aligned
  <2> QED BY <2>2, <2>4
<1>4. CASE /\ hits > 0 /\ hits' = hits - 1
           /\ \E j \in SyncJumps : phase' \in Moved(j) /\ Rearm(phase, j)
           /\ synced' = TRUE
  <2>1. PICK j \in SyncJumps : phase' \in Moved(j) /\ Rearm(phase, j)
    BY <1>4
  <2>2. CASE j = 0
    <3>1. phase' = phase
      BY <2>1, <2>2 DEF Moved
    <3>2. due' = heartbeat_interval - phase
      BY <1>1, <2>1, <2>2 DEF Rearm, Aligned
    <3> QED BY <3>1, <3>2
  <2>3. CASE j # 0
    BY <2>1, <2>3 DEF Rearm
  <2> QED BY <2>2, <2>3
<1> QED BY <1>2, <1>3, <1>4 DEF WriteTimestampSecond

\* The register writes.
LEMMA HandleBeats ==
  ASSUME ModeInv, InTime, OnTheSecond, Handle
  PROVE  InTime' /\ OnTheSecond'
<1>1. /\ due \in Int /\ since \in Nat /\ idle \in Nat
      /\ heartbeat_interval \in Nat \ {0} /\ heartbeat_interval <= StandbyInterval
      /\ Whole(heartbeat_interval)
      /\ Second \in Nat \ {0} /\ ActiveInterval \in Nat /\ StandbyInterval \in Nat
  BY WholeIntervals DEF ModeInv, TypeOK
<1>2. ASSUME NEW m \in Modes, NEW en \in BOOLEAN, NEW mu \in BOOLEAN,
             WriteOperationCtrl(m, en, mu)
      PROVE  InTime' /\ OnTheSecond'
  BY <1>2, WriteBeats
<1>3. CASE WriteResetDev
  <2>1. /\ since' = 0 /\ steady' = FALSE
        /\ UNCHANGED <<sync_handled, due, phase, grid, idle, synced, torn, astray>>
    BY <1>3 DEF WriteResetDev, handled, clock
  <2>2. Allowed' = StandbyInterval /\ (~astray => due <= StandbyInterval)
    BY <2>1 DEF Allowed, InTime
  <2>3. ~astray' => due' <= StandbyInterval /\ since' + due' <= Allowed' /\ since' <= Allowed' + idle'
    BY <1>1, <2>1, <2>2
  <2> QED BY <2>1, <2>3 DEF InTime, OnTheSecond, BeatsOnTheSecond
<1>4. ASSUME NEW lock \in BOOLEAN, NEW unlock \in BOOLEAN, WriteClockConfig(lock, unlock)
      PROVE  InTime' /\ OnTheSecond'
  BY <1>4 DEF WriteClockConfig, ctrl, handled, beat, clock, InTime, Allowed,
     OnTheSecond, BeatsOnTheSecond, Beats
<1>5. CASE WriteTimestampSecond
  <2>1. /\ since' = 0 /\ steady' = FALSE /\ grid' = phase'
        /\ UNCHANGED <<sync_handled, idle>> /\ synced' \in {synced, TRUE}
    BY <1>5 DEF WriteTimestampSecond, handled
  <2>2. Allowed' = StandbyInterval
    BY <2>1 DEF Allowed
  <2>3. sync_handled' => synced'
    BY <2>1 DEF OnTheSecond
  <2>4. CASE torn' /\ astray'
    BY <2>1, <2>3, <2>4 DEF InTime, OnTheSecond, BeatsOnTheSecond
  <2>5. CASE due' = heartbeat_interval - phase'
    <3> DEFINE p == phase'
    <3>1. p \in 0..(Second - 1) /\ due' = heartbeat_interval - p /\ grid' = p
      BY <1>5, <2>1, <2>5, TimeTyped DEF ModeInv
    <3> HIDE DEF p
    <3>2. due' <= StandbyInterval /\ since' + due' <= Allowed' /\ since' <= Allowed' + idle'
      BY <1>1, <2>1, <2>2, <3>1
    <3>3. grid' + due' = heartbeat_interval
      BY <1>1, <3>1
    <3>4. (grid' + due') % Second = 0
      BY <1>1, <3>3, WholeSeconds
    <3> QED BY <2>1, <2>3, <3>2, <3>4 DEF InTime, OnTheSecond, BeatsOnTheSecond
  <2> QED BY <1>5, <2>4, <2>5, TimeRearms
<1>6. CASE HandleNothing
  BY <1>6 DEF HandleNothing, ctrl, handled, beat, clock, InTime, Allowed,
     OnTheSecond, BeatsOnTheSecond, Beats
<1> QED BY <1>2, <1>3, <1>4, <1>5, <1>6 DEF Handle

\* A tick later the deadline is on the same second.
LEMMA TickWhole ==
  ASSUME NEW g \in 0..(Second - 1), NEW d \in Int, (g + d) % Second = 0
  PROVE  (((g + 1) % Second) + (d - 1)) % Second = 0
<1>1. Second \in Nat \ {0} /\ g \in Int /\ g + d \in Int
  BY ClockAssumption
<1>2. Whole(g + d)
  BY <1>1, WholeSeconds
<1>3. Whole((g + d) - Second) /\ (g + d) - Second \in Int
  BY <1>1, <1>2, WholeSum
<1>4. CASE g + 1 < Second
  <2>1. (g + 1) % Second = g + 1
    BY <1>1, <1>4
  <2>2. ((g + 1) % Second) + (d - 1) = g + d
    BY <1>1, <2>1
  <2> QED BY <2>2
<1>5. CASE g + 1 = Second
  <2>1. (g + 1) % Second = 0
    BY <1>1, <1>5
  <2>2. ((g + 1) % Second) + (d - 1) = (g + d) - Second
    BY <1>1, <1>5, <2>1
  <2> QED BY <1>3, <2>2, WholeSeconds
<1> QED BY <1>1, <1>4, <1>5

\* And so do restarts, hosts, sync packets and the clock.
LEMMA AroundBeats ==
  ASSUME ModeInv, InTime, OnTheSecond,
         Restart \/ HostComesOrGoes \/ SyncPacket \/ Tick \/ UNCHANGED vars
  PROVE  InTime' /\ OnTheSecond'
<1> USE DEF ctrl, hosts, handled, beat, clock, orders
<1>1. /\ due \in Int /\ since \in Nat /\ idle \in Nat
      /\ phase \in 0..(Second - 1) /\ grid \in 0..(Second - 1)
      /\ Second \in Nat \ {0} /\ ActiveInterval \in Nat /\ StandbyInterval \in Nat
      /\ ActiveInterval <= StandbyInterval
  BY ClockAssumption DEF ModeInv, TypeOK
<1>2. CASE Restart
  <2>1. /\ due' = StandbyInterval /\ since' = 0 /\ idle' = 0 /\ phase' = 0 /\ grid' = 0
        /\ steady' = FALSE /\ sync_handled' = FALSE
    BY <1>2 DEF Restart
  <2>2. Allowed' = StandbyInterval
    BY <2>1 DEF Allowed
  <2>3. due' <= StandbyInterval /\ since' + due' <= Allowed' /\ since' <= Allowed' + idle'
    BY <1>1, <2>1, <2>2
  <2>4. (grid' + due') % Second = 0
    BY <2>1, ClockAssumption
  <2> QED BY <2>1, <2>3, <2>4 DEF InTime, OnTheSecond, BeatsOnTheSecond
<1>3. CASE HostComesOrGoes
  BY <1>3 DEF HostComesOrGoes, InTime, Allowed, OnTheSecond, BeatsOnTheSecond, Beats
<1>4. CASE SyncPacket
  <2>1. InTime'
    BY <1>4 DEF SyncPacket, InTime, Allowed, Beats
  <2>2. PICK j \in SyncJumps : \E p \in Moved(j) : Synced(p)
    BY <1>4 DEF SyncPacket
  <2>3. PICK p \in Moved(j) : Synced(p)
    BY <2>2
  <2>4. /\ synced' = TRUE /\ phase' = p /\ grid' = IF sync_handled THEN grid ELSE p
        /\ sync_handled' = sync_handled /\ due' = due /\ torn' = torn
    BY <1>4, <2>3 DEF SyncPacket, Synced
  <2>5. sync_handled \in BOOLEAN /\ synced \in BOOLEAN
    BY DEF ModeInv, TypeOK
  <2>6. CASE sync_handled
    <3>1. synced = sync_handled /\ grid' = grid
      BY <2>4, <2>5, <2>6 DEF OnTheSecond
    <3> QED BY <2>1, <2>4, <2>6, <3>1 DEF OnTheSecond, BeatsOnTheSecond
  <2>7. CASE ~sync_handled
    <3>1. sync_handled' # synced' /\ grid' = phase'
      BY <2>4, <2>7
    <3> QED BY <2>1, <2>4, <2>7, <3>1 DEF OnTheSecond, BeatsOnTheSecond
  <2> QED BY <2>6, <2>7
<1>5. CASE Tick
  <2>1. /\ idle' = idle + 1 /\ phase' = (phase + 1) % Second /\ grid' = (grid + 1) % Second
        /\ due' = due - 1
        /\ since' = IF Beats(op_mode) THEN since + 1 ELSE 0
        /\ UNCHANGED <<op_mode, beat_enabled, mute, sync_handled, synced, steady, torn, astray>>
    BY <1>5 DEF Tick
  <2>2. Allowed' = Allowed /\ Allowed \in Nat /\ Beats(op_mode)' = Beats(op_mode)
    BY <1>1, <2>1 DEF Allowed, Beats
  <2>3. ~Beats(op_mode) => Allowed = StandbyInterval
    BY DEF InTime, Allowed
  <2>4. ~astray => /\ due <= StandbyInterval /\ since + due <= Allowed
                   /\ since <= Allowed + idle
    BY DEF InTime
  <2>5. ASSUME ~astray
        PROVE  due' <= StandbyInterval /\ since' + due' <= Allowed' /\ since' <= Allowed' + idle'
    <3>1. CASE Beats(op_mode)
      BY <1>1, <2>1, <2>2, <2>4, <2>5, <3>1
    <3>2. CASE ~Beats(op_mode)
      BY <1>1, <2>1, <2>2, <2>3, <2>4, <2>5, <3>2
    <3> QED BY <3>1, <3>2
  <2>6. InTime'
    <3>1. steady => Beats(op_mode)
      BY DEF InTime
    <3> QED BY <2>1, <2>2, <2>5, <3>1 DEF InTime
  <2>7. (grid + due) % Second = 0 => (grid' + due') % Second = 0
    BY <1>1, <2>1, TickWhole
  <2>8. ~sync_handled' => grid' = phase'
    BY <2>1 DEF OnTheSecond
  <2>9. OnTheSecond'
    BY <2>1, <2>7, <2>8 DEF OnTheSecond, BeatsOnTheSecond
  <2> QED BY <2>6, <2>9
<1>6. CASE UNCHANGED vars
  BY <1>6 DEF vars, InTime, Allowed, OnTheSecond, BeatsOnTheSecond, Beats
<1> QED BY <1>2, <1>3, <1>4, <1>5, <1>6

LEMMA AlwaysBeatInv == Spec => []BeatInv
<1>1. Init => InTime /\ OnTheSecond
  <2> SUFFICES ASSUME Init PROVE InTime /\ OnTheSecond
    OBVIOUS
  <2>1. /\ due = StandbyInterval /\ since = 0 /\ idle = 0 /\ phase = 0 /\ grid = 0
        /\ steady = FALSE /\ sync_handled = FALSE /\ StandbyInterval \in Nat
    BY ClockAssumption DEF Init
  <2>2. Allowed = StandbyInterval
    BY <2>1 DEF Allowed
  <2>3. (grid + due) % Second = 0
    BY <2>1, ClockAssumption
  <2> QED BY <2>1, <2>2, <2>3 DEF InTime, OnTheSecond, BeatsOnTheSecond
<1>2. ModeInv /\ InTime /\ OnTheSecond /\ [Next]_vars => InTime' /\ OnTheSecond'
  BY TurnBeats, HandleBeats, AroundBeats DEF Next
<1>3. Spec => [](InTime /\ OnTheSecond)
  BY <1>1, <1>2, AlwaysModeInv, PTL DEF Spec
<1> QED BY <1>3, AlwaysModeInv, PTL DEF BeatInv

\* Beats fall on whole seconds of Harp time, whatever intervals, packets and
\* settings: every way to re-arm the deadline puts it on a second, no advance
\* takes it off, and only a packet between the reading of the time and its
\* conversion puts it elsewhere.
THEOREM BeatsAreOnTheSecond == Spec => []BeatsOnTheSecond
<1>1. BeatInv => BeatsOnTheSecond
  BY DEF BeatInv, OnTheSecond
<1> QED BY <1>1, AlwaysBeatInv, PTL

\* An ACTIVE device beats in time, however long run() may stall and however the
\* packets between two calls move Harp time; one inside a call makes no beat late
\* beyond the deadline it has misplaced.
THEOREM BeatsAreInTime == Spec => []BeatsInTime
<1>1. BeatInv => BeatsInTime
  <2> SUFFICES ASSUME BeatInv, ~astray
               PROVE  since <= (IF steady THEN ActiveInterval ELSE StandbyInterval) + Stall
    BY DEF BeatsInTime
  <2>1. since \in Nat /\ idle \in 0..Stall /\ Allowed \in Nat /\ Stall \in Nat
    BY ClockAssumption DEF BeatInv, ModeInv, TypeOK, Allowed
  <2>2. since <= Allowed + idle
    BY DEF BeatInv, InTime
  <2>3. since <= Allowed + Stall
    BY <2>1, <2>2
  <2> QED BY <2>3 DEF Allowed
<1> QED BY <1>1, AlwaysBeatInv, PTL
=============================================================================
