-------------------------- MODULE HarpSynchronizer --------------------------
(***************************************************************************)
(* src/src/harp_synchronizer.cpp: the packets of the clock master on the   *)
(* UART line, the parser in the receive interrupt, and the clock offset    *)
(* that the interrupt and the Harp task, on two cores, read and write.     *)
(*                                                                         *)
(* The offset has 64 bits on a 32-bit core: it is kept, and loaded and     *)
(* stored, as two halves, in the order the compiler chose.  The line may   *)
(* lose, change or insert bytes, and the device may start to listen in the *)
(* middle of a packet.  A byte takes one tick; interrupts may be held up   *)
(* from byte to byte, but not until the next packet.  What that delay and  *)
(* the drift of the crystal add to the time of an interrupt differs from   *)
(* packet to packet: any number of ticks up to Jitter.                     *)
(***************************************************************************)
EXTENDS Integers, Sequences

CONSTANTS
  Radix,          \* values of a byte
  H0, H1,         \* 0xAA and 0xAF
  Second,         \* ticks per second
  SyncOffset,     \* HARP_SYNC_OFFSET_US, in ticks
  Half,           \* values of half an offset
  Jitter,         \* BOUND: drift and latency of interrupts over all packets, in ticks
  First, Packets, \* second of the first packet; BOUND: packets sent
  FifoMax,        \* BOUND: bytes that wait for the interrupt
  HostOffsets,    \* offsets that writes of R_TIMESTAMP_SECOND ask for
  Faults, Sets    \* BOUND: faults of the line, and such writes

PacketLen == 6
Byte   == 0..(Radix - 1)
Halves == {"lo", "hi"}
Offset == [Halves -> 0..(Half - 1)]

ASSUME ByteAssumption == Radix \in Nat /\ {H0, H1} \subseteq Byte /\ H0 # H1
ASSUME TimeAssumption ==
  /\ Second \in Nat /\ PacketLen < Second /\ SyncOffset \in Nat
  /\ Half \in Nat \ {0} /\ Jitter \in Nat /\ HostOffsets \subseteq Offset
ASSUME BoundAssumption ==   \* the seconds that are sent fit their four bytes
  /\ {First, FifoMax, Faults, Sets} \subseteq Nat /\ Packets \in Nat \ {0}
  /\ First + Packets < Radix * (Radix * (Radix * Radix))

VARIABLES
  second, at,     \* the line: second of the packet being sent, its bytes sent
  fifo,           \* bytes received that the interrupt has not read
  state, sync_data, new_timestamp,   \* parser; sync_data up to packet_index_
  offset, has_synced,                \* offset_us_64_ in halves
  isr, task,      \* what the interrupt stores, what the Harp task loads or stores
  faults, sets,   \* what remains of Faults and Sets
  clean           \* history: packets complete since the last disturbance; -1
                  \* while the one that was disturbed is on the line

line   == <<second, at>>
parser == <<state, sync_data, new_timestamp>>
vars   == <<line, fifo, parser, offset, has_synced, isr, task, faults, sets, clean>>

\* a 64-bit number in halves
Split(n) == [h \in Halves |-> IF h = "lo" THEN n % Half ELSE (n \div Half) % Half]

\* the four bytes of a stamp, and the second they stand for
Stamp(s) ==
  LET q1 == s \div Radix  q2 == q1 \div Radix  q3 == q2 \div Radix
  IN <<s % Radix, q1 % Radix, q2 % Radix, q3 % Radix>>
SecondOf(d) == d[1] + Radix * (d[2] + Radix * (d[3] + Radix * d[4]))

Packet(s) == <<H0, H1>> \o Stamp(s)

\* esp_timer_get_time() l ticks late: the device counts from the first packet on
Now(l) == (second - First) * Second + at + l

\* MUTANT of OffsetFor: the stamp is taken for the coming second
OffsetForSame(d, l) == Split(Now(l) - (SecondOf(d) * Second - SyncOffset))

\* the stamp tells the second before; its last byte ends SyncOffset early
OffsetFor(d, l) == Split(Now(l) - ((SecondOf(d) + 1) * Second - SyncOffset))

\* the offsets of a device that is right, as far as drift and latency let it
TrueOffset(l) == Split(PacketLen + l - ((First + 1) * Second - SyncOffset))
TrueOffsets == {TrueOffset(l) : l \in 0..Jitter}
TrueHalf(h) == {o[h] : o \in TrueOffsets}

\* carry: the store changes the high half, too
Nothing == [todo |-> {}, value |-> Split(0), carry |-> FALSE]

\* sure: is_synced() was true before; met (history): the interrupt stored an
\* offset with a carry meanwhile
Idle == [kind |-> "idle", todo |-> {}, value |-> Split(0), sure |-> FALSE, met |-> FALSE]

Init ==
  /\ second = First /\ at \in 0..(PacketLen - 1)
  /\ fifo = <<>>
  /\ state = "HEADER_0" /\ sync_data = <<>> /\ new_timestamp = FALSE
  /\ offset = Split(0) /\ has_synced = FALSE
  /\ isr = Nothing /\ task = Idle
  /\ faults = Faults /\ sets = Sets
  /\ clean = IF at = 0 THEN 0 ELSE -1

-----------------------------------------------------------------------------
(* The line                                                                *)

\* a packet follows when the interrupt is done with the one before
Sendable ==
  /\ at < PacketLen \/ second < First + Packets - 1
  /\ at = PacketLen => fifo = <<>> /\ ~new_timestamp

NextByte == IF at = PacketLen THEN Packet(second + 1)[1] ELSE Packet(second)[at + 1]

Advance ==
  /\ Sendable
  /\ second' = IF at = PacketLen THEN second + 1 ELSE second
  /\ at' = IF at = PacketLen THEN 1 ELSE at + 1
  /\ UNCHANGED <<parser, offset, has_synced, isr, task, sets>>

Receive(b) == Len(fifo) < FifoMax /\ fifo' = Append(fifo, b)

Good ==
  /\ Advance
  /\ Receive(NextByte)
  /\ clean' = IF at' = PacketLen THEN clean + 1 ELSE clean
  /\ UNCHANGED faults

\* a byte is lost, or arrives as another
Bad ==
  /\ faults > 0 /\ faults' = faults - 1
  /\ Advance
  /\ \/ UNCHANGED fifo
     \/ \E b \in Byte \ {NextByte} : Receive(b)
  /\ clean' = IF at' = PacketLen THEN 0 ELSE -1

\* a byte nobody sent
Spurious ==
  /\ faults > 0 /\ faults' = faults - 1
  /\ \E b \in Byte : Receive(b)
  /\ clean' = IF at \in {0, PacketLen} THEN 0 ELSE -1
  /\ UNCHANGED <<line, parser, offset, has_synced, isr, task, sets>>

-----------------------------------------------------------------------------
(* uart_rx_callback()                                                      *)

AfterHeader1(b) == IF b = H1 THEN "TIMESTAMP" ELSE "HEADER_0"

\* MUTANT of StampLen: one byte more than sync_data_ holds
StampLenLong == 5

StampLen == 4

\* one turn of the loop, which a complete stamp ends
ParseByte ==
  /\ fifo # <<>> /\ ~new_timestamp
  /\ LET b == Head(fifo) d == Append(sync_data, b)
     IN CASE state = "HEADER_0" ->
               /\ state' = IF b = H0 THEN "HEADER_1" ELSE "HEADER_0"
               /\ UNCHANGED <<sync_data, new_timestamp>>
          [] state = "HEADER_1" ->
               /\ state' = AfterHeader1(b)
               /\ UNCHANGED <<sync_data, new_timestamp>>
          [] state = "TIMESTAMP" ->
               /\ sync_data' = d
               /\ new_timestamp' = (Len(d) = StampLen)
               /\ state' = IF Len(d) = StampLen THEN "HEADER_0" ELSE "TIMESTAMP"
  /\ fifo' = Tail(fifo)
  /\ UNCHANGED <<line, offset, has_synced, isr, task, faults, sets, clean>>

\* MUTANT of Apply: once synchronized, later stamps are dropped
ApplyOnce ==
  /\ new_timestamp /\ isr.todo = {}
  /\ \E l \in 0..Jitter :
       LET o == OffsetFor(sync_data, l)
       IN isr' = IF has_synced THEN Nothing
                 ELSE [todo |-> Halves, value |-> o, carry |-> o["hi"] # offset["hi"]]
  /\ new_timestamp' = ~has_synced
  /\ sync_data' = <<>>
  /\ UNCHANGED <<line, fifo, state, offset, has_synced, task, faults, sets, clean>>

\* the new offset is computed from the stamp and the time
Apply ==
  /\ new_timestamp /\ isr.todo = {}
  /\ \E l \in 0..Jitter :
       LET o == OffsetFor(sync_data, l)
       IN isr' = [todo |-> Halves, value |-> o, carry |-> o["hi"] # offset["hi"]]
  /\ sync_data' = <<>>
  /\ UNCHANGED <<line, fifo, state, new_timestamp, offset, has_synced, task, faults, sets, clean>>

\* a read under way notices nothing
Meets == task' = [task EXCEPT !.met = @ \/ (task.kind = "read" /\ isr.carry)]

\* MUTANT of StoreOffset: is_synced() is told with the first half
StoreOffsetEarlyFlag(h) ==
  /\ h \in isr.todo
  /\ offset' = [offset EXCEPT ![h] = isr.value[h]]
  /\ isr' = [isr EXCEPT !.todo = @ \ {h}]
  /\ has_synced' = TRUE
  /\ new_timestamp' = (isr.todo # {h})
  /\ Meets
  /\ UNCHANGED <<line, fifo, state, sync_data, faults, sets, clean>>

\* has_synced_ is set, and the interrupt returns, after both halves
StoreOffset(h) ==
  /\ h \in isr.todo
  /\ offset' = [offset EXCEPT ![h] = isr.value[h]]
  /\ isr' = [isr EXCEPT !.todo = @ \ {h}]
  /\ has_synced' = (has_synced \/ isr.todo = {h})
  /\ new_timestamp' = (isr.todo # {h})
  /\ Meets
  /\ UNCHANGED <<line, fifo, state, sync_data, faults, sets, clean>>

Interrupt == ParseByte \/ Apply \/ \E h \in Halves : StoreOffset(h)

-----------------------------------------------------------------------------
(* The Harp task: system_to_harp_us_64() and set_harp_time_us_64()         *)

ReadTime ==
  /\ task.kind = "idle"
  /\ task' = [kind |-> "read", todo |-> Halves, value |-> Split(0), sure |-> has_synced,
              met |-> isr.carry /\ isr.todo \notin {{}, Halves}]
  /\ UNCHANGED <<line, fifo, parser, offset, has_synced, isr, faults, sets, clean>>

LoadHalf(h) ==
  /\ task.kind = "read" /\ h \in task.todo
  /\ task' = [task EXCEPT !.todo = @ \ {h}, !.value[h] = offset[h]]
  /\ UNCHANGED <<line, fifo, parser, offset, has_synced, isr, faults, sets, clean>>

\* the write may meet the interrupt's: the disturbance lasts till its last half
SetTime ==
  /\ task.kind = "idle" /\ sets > 0 /\ sets' = sets - 1
  /\ \E v \in HostOffsets : task' = [Idle EXCEPT !.kind = "write", !.todo = Halves, !.value = v]
  /\ UNCHANGED <<line, fifo, parser, offset, has_synced, isr, faults, clean>>

SetHalf(h) ==
  /\ task.kind = "write" /\ h \in task.todo
  /\ offset' = [offset EXCEPT ![h] = task.value[h]]
  /\ task' = [task EXCEPT !.todo = @ \ {h}]
  /\ clean' = IF at \in {0, PacketLen} THEN 0 ELSE -1
  /\ UNCHANGED <<line, fifo, parser, has_synced, isr, faults, sets>>

TaskReturns ==
  /\ task.kind # "idle" /\ task.todo = {}
  /\ task' = Idle
  /\ UNCHANGED <<line, fifo, parser, offset, has_synced, isr, faults, sets, clean>>

HarpTask == ReadTime \/ SetTime \/ TaskReturns \/ \E h \in Halves : LoadHalf(h) \/ SetHalf(h)

Next == Good \/ Bad \/ Spurious \/ Interrupt \/ HarpTask

Spec == Init /\ [][Next]_vars

-----------------------------------------------------------------------------
TypeOK ==
  /\ second \in Nat /\ at \in 0..PacketLen
  /\ fifo \in Seq(Byte) /\ Len(fifo) <= FifoMax
  /\ state \in {"HEADER_0", "HEADER_1", "TIMESTAMP"}
  /\ sync_data \in Seq(Byte) /\ Len(sync_data) <= 4
  /\ (sync_data # <<>> => state = "TIMESTAMP" \/ new_timestamp)
  /\ new_timestamp \in BOOLEAN /\ has_synced \in BOOLEAN
  /\ offset \in Offset
  /\ isr \in [todo : SUBSET Halves, value : Offset, carry : BOOLEAN]
  /\ task \in [kind : {"idle", "read", "write"}, todo : SUBSET Halves, value : Offset,
               sure : BOOLEAN, met : BOOLEAN]
  /\ faults \in Nat /\ sets \in Nat /\ clean \in -1..Packets

\* the interrupt has done all it can
Quiet == fifo = <<>> /\ ~new_timestamp

\* no two bytes of the stamp look like a header
HeaderFree(s) == \A i \in 1..3 : Stamp(s)[i] # H0 \/ Stamp(s)[i + 1] # H1

Undisturbed == faults = Faults /\ sets = Sets /\ \A s \in First..second : HeaderFree(s)

(* On a line without faults the device never takes a wrong time, even one that
   starts to listen in the middle of a packet, as long as no stamp contains a
   header.                                                                 *)
NoFalseTime ==
  Undisturbed => \A h \in Halves : offset[h] \in {0} \cup TrueHalf(h)

(* However bytes were lost, changed or inserted, and whatever time a host wrote
   over the interrupt's, the second clean packet sets the clock right, unless
   the stamp of the first contains a header or ends like the start of one. *)
Resync ==
  clean >= 2 /\ at = PacketLen /\ Quiet
    /\ HeaderFree(second - 1) /\ Stamp(second - 1)[4] # H0
  => offset \in TrueOffsets /\ has_synced

(* Without disturbance, a time read after is_synced() was true goes by an offset
   the interrupt stored as a whole, although it stores another with each packet,
   in two halves and meanwhile; only over a carry the halves may be of two.  *)
ReadsWhole ==
  Undisturbed /\ task.kind = "read" /\ task.todo = {} /\ task.sure =>
    /\ \A h \in Halves : task.value[h] \in TrueHalf(h)
    /\ task.value \in TrueOffsets \/ task.met
=============================================================================
