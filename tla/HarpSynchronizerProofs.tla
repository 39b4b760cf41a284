----------------------- MODULE HarpSynchronizerProofs -----------------------
(***************************************************************************)
(* Proofs about HarpSynchronizer, for any radix, headers, seconds, jitter, *)
(* receive buffer, and number of packets, faults and writes.               *)
(***************************************************************************)
EXTENDS HarpSynchronizer, SequenceTheorems, TLAPS

\* What the types need: how far the line is, and what the parser's flag says
\* of the bytes of the stamp.
LineInv ==
  /\ second >= First /\ second < First + Packets
  /\ clean <= second - First + (IF at = PacketLen THEN 1 ELSE 0)
  /\ faults <= Faults /\ sets <= Sets
  /\ task.kind = "write" => sets < Sets

ParserInv ==
  /\ state = "TIMESTAMP" => Len(sync_data) < StampLen
  /\ new_timestamp => state = "HEADER_0"
  /\ new_timestamp /\ isr.todo = {} => Len(sync_data) = StampLen
  /\ isr.todo # {} => new_timestamp /\ sync_data = <<>>

BaseInv == TypeOK /\ LineInv /\ ParserInv

\* How many bytes of the packet on the line the interrupt has read
Read == at - Len(fifo)
Bytes == Packet(second)

\* The parser is in the place of the packet that it has read up to; when it has
\* read all of it, the interrupt is taking over the time of the stamp.
TakenOver ==
  \/ new_timestamp /\ isr.todo = {} /\ Len(sync_data) = 4
     /\ \A i \in 1..4 : sync_data[i] = Stamp(second)[i]
  \/ isr.todo # {} /\ isr.value \in TrueOffsets
     /\ \A h \in Halves \ isr.todo : offset[h] = isr.value[h]
  \/ ~new_timestamp /\ has_synced /\ offset \in TrueOffsets

InStep ==
  /\ Read \in 0..PacketLen
  /\ Read < PacketLen => ~new_timestamp
  /\ Read = 0 => state = "HEADER_0"
  /\ Read = 1 => state = "HEADER_1"
  /\ Read \in 2..5 => /\ state = "TIMESTAMP" /\ Len(sync_data) = Read - 2
                      /\ \A i \in 1..(Read - 2) : sync_data[i] = Stamp(second)[i]
  /\ Read = PacketLen => state = "HEADER_0" /\ TakenOver

\* A parser that is not, and cannot take the rest of the packet for a stamp:
\* it has not seen the first header, or a stamp's byte that looks like one.
LikeHeader0 == Read >= 3 /\ Bytes[Read] = H0

Lost ==
  \/ state = "HEADER_0"
  \/ state = "HEADER_1" /\ LikeHeader0
  \/ state = "TIMESTAMP" /\ Len(sync_data) >= Read

\* Nothing has disturbed the packet so far: what the interrupt has yet to read
\* of it is in fifo.
Sound == clean >= 1 \/ (clean = 0 /\ at < PacketLen)
FifoSound == \A i \in 1..Len(fifo) : Read + i >= 1 => fifo[i] = Bytes[Read + i]

\* It is the second such packet, and the first could mislead nobody.
Following ==
  /\ (clean >= 1 /\ at < PacketLen) \/ (clean >= 2 /\ at = PacketLen)
  /\ HeaderFree(second - 1) /\ Stamp(second - 1)[4] # H0

ResyncInv ==
  /\ Sound => FifoSound
  /\ Sound /\ Read >= 1 /\ HeaderFree(second) => InStep \/ Lost
  /\ Following => InStep

\* Without any disturbance the parser is in step, or silent until it is.
Silent ==
  /\ ~new_timestamp /\ sync_data = <<>>
  /\ \/ state = "HEADER_0"
     \/ state = "HEADER_1" /\ (Read = 0 \/ LikeHeader0)

\* What the interrupt stores is a true offset, half by half, and the offset is
\* one, too, but for the time between the two halves of a store with a carry.
Unbroken == isr.todo \in {{}, Halves} \/ ~isr.carry

Stored ==
  /\ isr.todo # {} => /\ isr.value \in TrueOffsets
                      /\ \A h \in Halves \ isr.todo : offset[h] = isr.value[h]
                      /\ isr.carry \/ offset["hi"] = isr.value["hi"]
  /\ \A h \in Halves : offset[h] \in {0} \cup TrueHalf(h)
  /\ has_synced => \A h \in Halves : offset[h] \in TrueHalf(h)
  /\ has_synced /\ Unbroken => offset \in TrueOffsets

\* What a synchronized read has loaded: halves of true offsets, and as long as it
\* has met no carry the high half is that of now, and the low half fits it.
Loaded ==
  task.kind = "read" /\ task.sure =>
    /\ has_synced
    /\ \A h \in Halves \ task.todo : task.value[h] \in TrueHalf(h)
    /\ ~task.met =>
         /\ Unbroken
         /\ "hi" \notin task.todo => task.value["hi"] = offset["hi"]
         /\ "lo" \notin task.todo =>
              \E o \in TrueOffsets : o["lo"] = task.value["lo"] /\ o["hi"] = offset["hi"]

QuietLine ==
  /\ Read >= 0 /\ FifoSound
  /\ InStep \/ Silent
  /\ Stored
  /\ Loaded

UndisturbedInv == Undisturbed => QuietLine

-----------------------------------------------------------------------------
(* Numbers, stamps and packets                                             *)

LEMMA Numbers ==
  /\ Radix \in Nat \ {0} /\ Half \in Nat \ {0} /\ Second \in Nat /\ SyncOffset \in Nat
  /\ Jitter \in Nat /\ H0 \in Byte /\ H1 \in Byte /\ H0 # H1
  /\ First \in Nat /\ Packets \in Nat \ {0} /\ FifoMax \in Nat /\ Faults \in Nat /\ Sets \in Nat
  /\ PacketLen = 6 /\ StampLen = 4
<1>1. Radix \in Nat /\ H0 \in Byte /\ H1 \in Byte /\ H0 # H1
  BY ByteAssumption
<1>2. Radix # 0
  BY <1>1 DEF Byte
<1> QED BY <1>1, <1>2, TimeAssumption, BoundAssumption DEF PacketLen, StampLen

\* The offset in halves is an offset.
LEMMA SplitTyped ==
  ASSUME NEW n \in Int
  PROVE  Split(n) \in Offset
<1>1. n % Half \in 0..(Half - 1) /\ (n \div Half) % Half \in 0..(Half - 1)
  BY Numbers
<1> QED BY <1>1 DEF Split, Offset

LEMMA TrueTyped ==
  /\ TrueOffsets \subseteq Offset /\ Split(0) \in Offset
  /\ \A h \in Halves : Split(0)[h] = 0
<1>1. ASSUME NEW l \in 0..Jitter PROVE TrueOffset(l) \in Offset
  <2>1. PacketLen + l - ((First + 1) * Second - SyncOffset) \in Int
    BY Numbers
  <2> QED BY <2>1, SplitTyped DEF TrueOffset
<1>2. 0 % Half = 0 /\ (0 \div Half) % Half = 0
  BY Numbers
<1>3. TrueOffsets \subseteq Offset
  BY <1>1 DEF TrueOffsets
<1> QED BY <1>2, <1>3, SplitTyped DEF Split, Halves

\* The true offsets are the same in every state.
LEMMA TrueFixed ==
  /\ TrueOffsets' = TrueOffsets
  /\ \A h \in Halves : TrueHalf(h)' = TrueHalf(h)
<1>1. TrueOffsets' = TrueOffsets
  BY DEF TrueOffsets, TrueOffset, Split, Halves, PacketLen
<1> QED BY <1>1 DEF TrueHalf

\* An offset is known by its halves.
LEMMA OffsetHalves ==
  ASSUME NEW f \in Offset, NEW g \in Offset, f["lo"] = g["lo"], f["hi"] = g["hi"]
  PROVE  f = g
<1>1. f \in [Halves -> 0..(Half - 1)] /\ g \in [Halves -> 0..(Half - 1)]
  BY DEF Offset
<1>2. \A h \in Halves : f[h] = g[h]
  BY DEF Halves
<1> QED BY <1>1, <1>2

\* Dividing a number below Radix * m by Radix leaves one below m.
LEMMA Quotient ==
  ASSUME NEW n \in Nat, NEW m \in Nat, n < Radix * m
  PROVE  n \div Radix \in Nat /\ n \div Radix < m
<1> DEFINE q == n \div Radix
<1>1. Radix \in Nat \ {0}
  BY Numbers
<1>2. q \in Nat /\ n % Radix >= 0 /\ n = Radix * q + (n % Radix)
  BY <1>1
<1> HIDE DEF q
<1>3. ASSUME q >= m PROVE FALSE
  <2>1. Radix * q >= Radix * m
    BY <1>1, <1>2, <1>3
  <2>2. Radix * q \in Int /\ Radix * m \in Int /\ n % Radix \in Int
    BY <1>1, <1>2
  <2> QED BY <1>2, <2>1, <2>2
<1>4. q < m
  BY <1>2, <1>3
<1> QED BY <1>2, <1>4 DEF q

\* A stamp is four bytes.
LEMMA StampTyped ==
  ASSUME NEW s \in Nat
  PROVE  /\ Stamp(s) \in Seq(Byte) /\ Len(Stamp(s)) = 4
         /\ \A i \in 1..4 : Stamp(s)[i] \in Byte
<1> DEFINE q1 == s \div Radix
           q2 == q1 \div Radix
           q3 == q2 \div Radix
<1>1. q1 \in Nat
  BY Numbers
<1>2. q2 \in Nat
  BY <1>1, Numbers
<1>3. q3 \in Nat
  BY <1>2, Numbers
<1> HIDE DEF q1, q2, q3
<1>4. s % Radix \in Byte /\ q1 % Radix \in Byte /\ q2 % Radix \in Byte /\ q3 % Radix \in Byte
  BY <1>1, <1>2, <1>3, Numbers DEF Byte
<1>5. Stamp(s) = <<s % Radix, q1 % Radix, q2 % Radix, q3 % Radix>>
  BY DEF Stamp, q1, q2, q3
<1> QED BY <1>4, <1>5

\* The stamp tells its second.
LEMMA StampTells ==
  ASSUME NEW s \in Nat, s < Radix * (Radix * (Radix * Radix))
  PROVE  SecondOf(Stamp(s)) = s
<1> DEFINE q1 == s \div Radix
           q2 == q1 \div Radix
           q3 == q2 \div Radix
<1>1. Radix \in Nat \ {0} /\ Radix * Radix \in Nat /\ Radix * (Radix * Radix) \in Nat
  BY Numbers
<1>2. q1 \in Nat /\ q1 < Radix * (Radix * Radix)
  BY <1>1, Quotient
<1>3. q2 \in Nat /\ q2 < Radix * Radix
  BY <1>1, <1>2, Quotient
<1>4. q3 \in Nat /\ q3 < Radix
  BY <1>1, <1>3, Quotient
<1>5. s = (s % Radix) + Radix * q1
  BY <1>1
<1>6. q1 = (q1 % Radix) + Radix * q2
  BY <1>1, <1>2
<1>7. q2 = (q2 % Radix) + Radix * q3
  BY <1>1, <1>3
<1> HIDE DEF q1, q2, q3
<1>8. q3 % Radix = q3
  BY <1>1, <1>4
<1>9. Stamp(s) = <<s % Radix, q1 % Radix, q2 % Radix, q3 % Radix>>
  BY DEF Stamp, q1, q2, q3
<1>10. SecondOf(Stamp(s)) = (s % Radix) + Radix * ((q1 % Radix) + Radix * ((q2 % Radix) + Radix * (q3 % Radix)))
  BY <1>9 DEF SecondOf
<1>11. SecondOf(Stamp(s)) = (s % Radix) + Radix * q1
  BY <1>6, <1>7, <1>8, <1>10
<1> QED BY <1>5, <1>11

\* A packet is two headers and the stamp.
LEMMA PacketBytes ==
  ASSUME NEW s \in Nat
  PROVE  /\ Packet(s)[1] = H0 /\ Packet(s)[2] = H1
         /\ \A i \in 1..4 : Packet(s)[i + 2] = Stamp(s)[i]
         /\ \A i \in 1..PacketLen : Packet(s)[i] \in Byte
<1>1. /\ Stamp(s) \in Seq(Byte) /\ Len(Stamp(s)) = 4
      /\ \A i \in 1..4 : Stamp(s)[i] \in Byte
  BY StampTyped
<1> DEFINE header == <<H0, H1>>
           stamp  == Stamp(s)
<1>2. header \in Seq(Byte) /\ Len(header) = 2 /\ header[1] = H0 /\ header[2] = H1
  BY Numbers
<1>3. Packet(s) = header \o stamp
  BY DEF Packet
<1> HIDE DEF header
<1>4. /\ header \o stamp \in Seq(Byte) /\ Len(header \o stamp) = Len(header) + Len(stamp)
      /\ \A i \in 1..Len(header) + Len(stamp) :
           (header \o stamp)[i] = IF i <= Len(header) THEN header[i] ELSE stamp[i - Len(header)]
  <2> HIDE DEF stamp
  <2>1. stamp \in Seq(Byte)
    BY <1>1 DEF stamp
  <2> QED BY <1>2, <2>1, ConcatProperties
<1>5. /\ Packet(s) \in Seq(Byte) /\ Len(Packet(s)) = 6
      /\ \A i \in 1..6 : Packet(s)[i] = IF i <= 2 THEN header[i] ELSE Stamp(s)[i - 2]
  BY <1>1, <1>2, <1>3, <1>4, SMTT(30)
<1>6. Packet(s)[1] = H0 /\ Packet(s)[2] = H1
  BY <1>2, <1>5
<1>7. ASSUME NEW i \in 1..4 PROVE Packet(s)[i + 2] = Stamp(s)[i]
  <2>1. i + 2 \in 1..6 /\ ~(i + 2 <= 2) /\ (i + 2) - 2 = i
    OBVIOUS
  <2> QED BY <1>5, <2>1
<1>8. \A i \in 1..PacketLen : Packet(s)[i] \in Byte
  BY <1>5, ElementOfSeq, Numbers
<1> QED BY <1>6, <1>7, <1>8

\* What the interrupt reads off the buffer and what is left there.
LEMMA TailBytes ==
  ASSUME NEW f \in Seq(Byte), f # <<>>
  PROVE  /\ Head(f) \in Byte /\ Head(f) = f[1] /\ Len(f) \in Nat /\ Len(f) >= 1
         /\ Tail(f) \in Seq(Byte) /\ Len(Tail(f)) = Len(f) - 1
         /\ \A i \in 1..(Len(f) - 1) : Tail(f)[i] = f[i + 1]
<1>1. Len(f) \in Nat /\ Len(f) # 0
  BY EmptySeq
<1>2. /\ Head(f) \in Byte /\ Tail(f) \in Seq(Byte) /\ Len(Tail(f)) = Len(f) - 1
      /\ \A i \in 1..Len(Tail(f)) : Tail(f)[i] = f[i + 1]
  BY HeadTailProperties
<1>3. Head(f) = f[1]
  OBVIOUS
<1> QED BY <1>1, <1>2, <1>3

\* An append to the buffer or to the stamp.
LEMMA AppendBytes ==
  ASSUME NEW f \in Seq(Byte), NEW b \in Byte
  PROVE  /\ Append(f, b) \in Seq(Byte) /\ Append(f, b) # <<>>
         /\ Len(f) \in Nat /\ Len(Append(f, b)) = Len(f) + 1
         /\ \A i \in 1..Len(f) : Append(f, b)[i] = f[i]
         /\ Append(f, b)[Len(f) + 1] = b
<1>1. Len(f) \in Nat
  BY LenProperties
<1> QED BY <1>1, AppendProperties

LEMMA EmptyBytes ==
  <<>> \in Seq(Byte) /\ Len(<<>>) = 0
BY EmptySeq

-----------------------------------------------------------------------------
(* Types                                                                   *)

LEMMA InitBase == Init => BaseInv
<1> SUFFICES ASSUME Init PROVE BaseInv
  OBVIOUS
<1>1. /\ second = First /\ at \in 0..5 /\ fifo = <<>> /\ sync_data = <<>>
      /\ state = "HEADER_0" /\ new_timestamp = FALSE /\ has_synced = FALSE
      /\ offset = Split(0) /\ isr = Nothing /\ task = Idle
      /\ faults = Faults /\ sets = Sets /\ clean \in {-1, 0}
  BY Numbers DEF Init
<1>2. /\ isr \in [todo : SUBSET Halves, value : Offset, carry : BOOLEAN] /\ isr.todo = {}
      /\ task \in [kind : {"idle", "read", "write"}, todo : SUBSET Halves, value : Offset,
                   sure : BOOLEAN, met : BOOLEAN]
      /\ task.kind = "idle"
  BY <1>1, TrueTyped DEF Nothing, Idle
<1>3. clean \in -1..Packets /\ at \in 0..PacketLen
  BY <1>1, Numbers
<1>4. TypeOK
  <2>1. fifo \in Seq(Byte) /\ Len(fifo) <= FifoMax /\ sync_data \in Seq(Byte) /\ Len(sync_data) <= 4
    BY <1>1, EmptyBytes, Numbers
  <2>2. second \in Nat /\ faults \in Nat /\ sets \in Nat /\ offset \in Offset
    BY <1>1, TrueTyped, Numbers
  <2> QED BY <1>1, <1>2, <1>3, <2>1, <2>2 DEF TypeOK
<1>5. LineInv
  BY <1>1, <1>2, Numbers DEF LineInv
<1>6. ParserInv
  BY <1>1, <1>2 DEF ParserInv
<1> QED BY <1>4, <1>5, <1>6 DEF BaseInv

\* A byte on the line, and one that nobody sent.
LEMMA LineBase ==
  ASSUME BaseInv, Good \/ Bad \/ Spurious
  PROVE  BaseInv'
<1>1. UNCHANGED <<state, sync_data, new_timestamp, offset, has_synced, isr, task, sets>>
  BY DEF Good, Bad, Spurious, Advance, parser
<1>2. /\ second \in Nat /\ at \in 0..6 /\ fifo \in Seq(Byte) /\ Len(fifo) <= FifoMax
      /\ faults \in Nat /\ clean \in -1..Packets
      /\ second >= First /\ second < First + Packets
      /\ clean <= second - First + (IF at = 6 THEN 1 ELSE 0) /\ faults <= Faults
  BY Numbers DEF BaseInv, TypeOK, LineInv
<1>3. NextByte \in Byte
  <2>1. CASE at = PacketLen
    BY <1>2, <2>1, PacketBytes, Numbers, SMTT(30) DEF NextByte
  <2>2. CASE at # PacketLen
    <3>1. at + 1 \in 1..PacketLen
      BY <1>2, <2>2, Numbers
    <3> QED BY <1>2, <2>2, <3>1, PacketBytes DEF NextByte
  <2> QED BY <2>1, <2>2
<1>4. fifo' \in Seq(Byte) /\ Len(fifo') <= FifoMax
  <2>1. CASE UNCHANGED fifo
    BY <1>2, <2>1
  <2>2. ASSUME NEW b \in Byte, Receive(b) PROVE fifo' \in Seq(Byte) /\ Len(fifo') <= FifoMax
    BY <1>2, <2>2, AppendBytes, Numbers DEF Receive
  <2> QED BY <1>3, <2>1, <2>2 DEF Good, Bad, Spurious
<1>5. faults' \in Nat /\ faults' <= Faults
  <2>1. faults' = faults \/ (faults > 0 /\ faults' = faults - 1)
    BY DEF Good, Bad, Spurious
  <2> QED BY <1>2, <2>1, Numbers
<1>6. /\ second' \in Nat /\ at' \in 0..6 /\ second' >= First /\ second' < First + Packets
      /\ clean' \in -1..Packets
      /\ clean' <= second' - First + (IF at' = 6 THEN 1 ELSE 0)
  <2>1. CASE Good \/ Bad
    <3> DEFINE s == IF at = 6 THEN second + 1 ELSE second
               a == IF at = 6 THEN 1 ELSE at + 1
    <3>1. (at < 6 \/ second < First + Packets - 1) /\ second' = s /\ at' = a
      BY <2>1, Numbers DEF Good, Bad, Advance, Sendable
    <3>2. PICK c \in {IF a = 6 THEN clean + 1 ELSE clean, IF a = 6 THEN 0 ELSE -1} : clean' = c
      BY <2>1, <3>1, Numbers DEF Good, Bad
    <3>3. s \in Nat /\ a \in 0..6 /\ s >= First /\ s < First + Packets
      BY <1>2, <3>1, Numbers
    <3>4. c \in Int /\ c >= -1 /\ c <= s - First + (IF a = 6 THEN 1 ELSE 0)
      <4>1. CASE c = IF a = 6 THEN clean + 1 ELSE clean
        BY <1>2, <4>1, Numbers
      <4>2. CASE c = IF a = 6 THEN 0 ELSE -1
        BY <1>2, <4>2, Numbers
      <4> QED BY <3>2, <4>1, <4>2
    <3>5. c <= Packets
      BY <3>3, <3>4, Numbers
    <3> HIDE DEF s, a
    <3> QED BY <3>1, <3>2, <3>3, <3>4, <3>5, Numbers
  <2>2. CASE Spurious
    <3>1. second' = second /\ at' = at /\ clean' \in {0, -1}
      BY <2>2 DEF Spurious, line
    <3> QED BY <1>2, <3>1, Numbers
  <2> QED BY <2>1, <2>2
<1>7. TypeOK'
  BY <1>1, <1>4, <1>5, <1>6, Numbers DEF BaseInv, TypeOK
<1>8. LineInv'
  BY <1>1, <1>5, <1>6, Numbers DEF BaseInv, LineInv
<1>9. ParserInv'
  BY <1>1 DEF BaseInv, ParserInv
<1> QED BY <1>7, <1>8, <1>9 DEF BaseInv

\* The interrupt.
LEMMA InterruptBase ==
  ASSUME BaseInv, Interrupt
  PROVE  BaseInv'
<1>1. UNCHANGED <<second, at, faults, sets, clean>>
  BY DEF Interrupt, ParseByte, Apply, StoreOffset, line
<1> DEFINE Tasks == [kind : {"idle", "read", "write"}, todo : SUBSET Halves, value : Offset,
                     sure : BOOLEAN, met : BOOLEAN]
<1>a. task' \in Tasks /\ task'.kind = task.kind
  <2>1. task \in Tasks
    BY DEF BaseInv, TypeOK
  <2>2. CASE ParseByte \/ Apply
    BY <2>1, <2>2 DEF ParseByte, Apply
  <2>3. CASE Meets
    <3>1. (task.met \/ (task.kind = "read" /\ isr.carry)) \in BOOLEAN
      OBVIOUS
    <3> QED BY <2>1, <2>3, <3>1 DEF Meets
  <2> QED BY <2>2, <2>3 DEF Interrupt, StoreOffset
<1>2. LineInv'
  BY <1>1, <1>a DEF BaseInv, LineInv
<1> HIDE DEF Tasks
<1>3. CASE ParseByte
  <2> DEFINE b == Head(fifo)
             d == Append(sync_data, b)
  <2>1. /\ fifo # <<>> /\ ~new_timestamp /\ fifo' = Tail(fifo)
        /\ UNCHANGED <<offset, has_synced, isr>>
    BY <1>3 DEF ParseByte
  <2>2. /\ fifo \in Seq(Byte) /\ Len(fifo) <= FifoMax /\ sync_data \in Seq(Byte)
        /\ Len(sync_data) <= 4 /\ state \in {"HEADER_0", "HEADER_1", "TIMESTAMP"}
        /\ (sync_data # <<>> => state = "TIMESTAMP" \/ new_timestamp)
        /\ (state = "TIMESTAMP" => Len(sync_data) < 4) /\ isr.todo = {}
    BY <2>1, Numbers DEF BaseInv, TypeOK, ParserInv
  <2>3. b \in Byte /\ fifo' \in Seq(Byte) /\ Len(fifo') <= FifoMax
    BY <2>1, <2>2, TailBytes, Numbers
  <2>4. d \in Seq(Byte) /\ d # <<>> /\ Len(d) = Len(sync_data) + 1 /\ Len(sync_data) \in Nat
    BY <2>2, <2>3, AppendBytes
  <2>5. CASE state # "TIMESTAMP"
    <3>1. /\ state' \in {"HEADER_0", "HEADER_1", "TIMESTAMP"}
          /\ sync_data' = sync_data /\ new_timestamp' = new_timestamp /\ sync_data = <<>>
      BY <1>3, <2>1, <2>2, <2>5 DEF ParseByte, AfterHeader1
    <3>2. Len(sync_data') = 0
      BY <3>1, EmptyBytes
    <3>3. TypeOK'
      BY <1>1, <1>a, <2>1, <2>3, <3>1 DEF BaseInv, TypeOK, Tasks
    <3>4. ParserInv'
      BY <2>1, <2>2, <3>1, <3>2, Numbers DEF ParserInv
    <3> QED BY <1>2, <3>3, <3>4 DEF BaseInv
  <2>6. CASE state = "TIMESTAMP"
    <3>1. /\ sync_data' = d /\ new_timestamp' = (Len(d) = 4)
          /\ state' = IF Len(d) = 4 THEN "HEADER_0" ELSE "TIMESTAMP"
      BY <1>3, <2>6, Numbers DEF ParseByte
    <3>2. Len(d) <= 4 /\ Len(sync_data') = Len(d) /\ Len(d) \in Nat
      BY <2>2, <2>4, <2>6, <3>1
    <3> HIDE DEF d
    <3>3. TypeOK'
      BY <1>1, <1>a, <2>1, <2>3, <2>4, <3>1, <3>2 DEF BaseInv, TypeOK, Tasks
    <3>4. ParserInv'
      <4>1. CASE Len(d) = 4
        <5>1. state' = "HEADER_0" /\ new_timestamp' /\ Len(sync_data') = StampLen /\ isr'.todo = {}
          BY <2>1, <2>2, <3>1, <3>2, <4>1, Numbers
        <5> QED BY <5>1 DEF ParserInv
      <4>2. CASE Len(d) # 4
        <5>1. state' = "TIMESTAMP" /\ ~new_timestamp' /\ isr'.todo = {}
          BY <2>1, <2>2, <3>1, <4>2
        <5>2. Len(sync_data') < StampLen
          BY <3>2, <4>2, Numbers
        <5> QED BY <5>1, <5>2 DEF ParserInv
      <4> QED BY <4>1, <4>2
    <3> QED BY <1>2, <3>3, <3>4 DEF BaseInv
  <2> QED BY <2>5, <2>6
<1>4. CASE Apply
  <2>1. /\ new_timestamp /\ isr.todo = {}
        /\ sync_data' = <<>> /\ UNCHANGED <<fifo, state, new_timestamp, offset, has_synced, task>>
    BY <1>4 DEF Apply
  <2> DEFINE o(l) == OffsetFor(sync_data, l)
  <2>a. PICK l \in 0..Jitter :
          isr' = [todo |-> Halves, value |-> o(l), carry |-> o(l)["hi"] # offset["hi"]]
    BY <1>4 DEF Apply
  <2>2. /\ sync_data \in Seq(Byte) /\ Len(sync_data) = 4 /\ state = "HEADER_0"
        /\ second \in Nat /\ at \in 0..PacketLen
    BY <2>1, Numbers DEF BaseInv, TypeOK, ParserInv
  <2>3. o(l) \in Offset
    <3>1. \A i \in 1..4 : sync_data[i] \in Byte
      BY <2>2, ElementOfSeq
    <3>2. \A i \in 1..4 : sync_data[i] \in Int
      BY <3>1, Numbers DEF Byte
    <3>3. SecondOf(sync_data) \in Int
      BY <3>2, Numbers DEF SecondOf
    <3>4. Now(l) - ((SecondOf(sync_data) + 1) * Second - SyncOffset) \in Int
      BY <2>2, <3>3, Numbers DEF Now
    <3> QED BY <3>4, SplitTyped DEF OffsetFor
  <2> HIDE DEF o
  <2>4. /\ isr' \in [todo : SUBSET Halves, value : Offset, carry : BOOLEAN]
        /\ isr'.todo = Halves /\ Halves # {}
    BY <2>a, <2>3 DEF Halves
  <2>5. TypeOK'
    BY <1>1, <1>a, <2>1, <2>4, EmptyBytes DEF BaseInv, TypeOK, Tasks
  <2>6. ParserInv'
    BY <2>1, <2>2, <2>4, Numbers DEF ParserInv
  <2> QED BY <1>2, <2>5, <2>6 DEF BaseInv
<1>5. ASSUME NEW h \in Halves, StoreOffset(h) PROVE BaseInv'
  <2>1. /\ h \in isr.todo /\ offset' = [offset EXCEPT ![h] = isr.value[h]]
        /\ isr' = [isr EXCEPT !.todo = isr.todo \ {h}]
        /\ has_synced' = (has_synced \/ isr.todo = {h})
        /\ new_timestamp' = (isr.todo # {h})
        /\ UNCHANGED <<fifo, state, sync_data>>
    BY <1>5 DEF StoreOffset
  <2>2. /\ isr \in [todo : SUBSET Halves, value : Offset, carry : BOOLEAN] /\ offset \in Offset
        /\ new_timestamp /\ sync_data = <<>> /\ state = "HEADER_0"
    BY <2>1 DEF BaseInv, TypeOK, ParserInv
  <2>3. isr' \in [todo : SUBSET Halves, value : Offset, carry : BOOLEAN] /\ isr'.todo = isr.todo \ {h}
    BY <2>1, <2>2
  <2>4. offset' \in Offset
    BY <2>1, <2>2 DEF Offset
  <2>5. has_synced' \in BOOLEAN /\ new_timestamp' \in BOOLEAN
    BY <2>1
  <2>6. TypeOK'
    BY <1>1, <1>a, <2>1, <2>2, <2>3, <2>4, <2>5 DEF BaseInv, TypeOK, Tasks
  <2>7. ParserInv'
    <3>1. new_timestamp' => isr'.todo # {}
      BY <2>1, <2>3
    <3>2. isr'.todo # {} => new_timestamp'
      BY <2>1, <2>3
    <3> QED BY <2>1, <2>2, <3>1, <3>2 DEF ParserInv
  <2> QED BY <1>2, <2>6, <2>7 DEF BaseInv
<1> QED BY <1>3, <1>4, <1>5 DEF Interrupt

\* The Harp task.
LEMMA TaskBase ==
  ASSUME BaseInv, HarpTask
  PROVE  BaseInv'
<1> DEFINE Tasks == [kind : {"idle", "read", "write"}, todo : SUBSET Halves, value : Offset,
                     sure : BOOLEAN, met : BOOLEAN]
<1>1. UNCHANGED <<second, at, fifo, state, sync_data, new_timestamp, has_synced, isr, faults>>
  BY DEF HarpTask, ReadTime, SetTime, TaskReturns, LoadHalf, SetHalf, line, parser
<1>2. /\ task \in Tasks /\ offset \in Offset /\ sets \in Nat /\ clean \in -1..Packets
      /\ second \in Nat /\ second >= First
      /\ clean <= second - First + (IF at = PacketLen THEN 1 ELSE 0)
      /\ sets <= Sets /\ (task.kind = "write" => sets < Sets) /\ at \in 0..PacketLen
      /\ has_synced \in BOOLEAN
  BY DEF BaseInv, TypeOK, LineInv
<1>3. ParserInv'
  BY <1>1 DEF BaseInv, ParserInv
<1>4. /\ task' \in Tasks /\ offset' \in Offset /\ sets' \in Nat /\ sets' <= Sets
      /\ task'.kind = "write" => sets' < Sets
      /\ clean' = clean \/ clean' \in {0, -1}
  <2>1. CASE ReadTime
    <3>1. /\ task' = [kind |-> "read", todo |-> Halves, value |-> Split(0), sure |-> has_synced,
                      met |-> isr.carry /\ isr.todo \notin {{}, Halves}]
          /\ UNCHANGED <<offset, sets, clean>>
      BY <2>1 DEF ReadTime
    <3>2. task' \in Tasks /\ task'.kind = "read"
      BY <1>2, <3>1, TrueTyped
    <3> QED BY <1>2, <3>1, <3>2
  <2>2. CASE SetTime
    <3>1. PICK v \in HostOffsets :
            task' = [kind |-> "write", todo |-> Halves, value |-> v, sure |-> FALSE, met |-> FALSE]
      BY <2>2 DEF SetTime, Idle
    <3>2. v \in Offset
      BY TimeAssumption
    <3>3. task' \in Tasks
      BY <3>1, <3>2
    <3>4. sets > 0 /\ sets' = sets - 1 /\ UNCHANGED <<offset, clean>>
      BY <2>2 DEF SetTime
    <3> QED BY <1>2, <3>3, <3>4, Numbers
  <2>3. CASE TaskReturns
    <3>1. task' = Idle /\ UNCHANGED <<offset, sets, clean>>
      BY <2>3 DEF TaskReturns
    <3>2. task' \in Tasks /\ task'.kind = "idle"
      BY <3>1, TrueTyped DEF Idle
    <3> QED BY <1>2, <3>1, <3>2
  <2>4. ASSUME NEW h \in Halves, LoadHalf(h)
        PROVE  /\ task' \in Tasks /\ offset' = offset /\ sets' = sets
               /\ task'.kind = task.kind /\ clean' = clean
    <3>1. /\ task' = [task EXCEPT !.todo = task.todo \ {h}, !.value[h] = offset[h]]
          /\ UNCHANGED <<offset, sets, clean>>
      BY <2>4 DEF LoadHalf
    <3>2. [task.value EXCEPT ![h] = offset[h]] \in Offset
      BY <1>2 DEF Offset
    <3>3. task.todo \ {h} \in SUBSET Halves
      BY <1>2
    <3>4. task' \in Tasks /\ task'.kind = task.kind
      BY <1>2, <3>1, <3>2, <3>3
    <3> QED BY <3>1, <3>4
  <2>5. ASSUME NEW h \in Halves, SetHalf(h)
        PROVE  /\ task' \in Tasks /\ offset' \in Offset /\ sets' = sets
               /\ task'.kind = task.kind /\ clean' \in {0, -1}
    <3>1. /\ task' = [task EXCEPT !.todo = task.todo \ {h}]
          /\ offset' = [offset EXCEPT ![h] = task.value[h]]
          /\ sets' = sets /\ clean' \in {0, -1}
      BY <2>5 DEF SetHalf
    <3>2. offset' \in Offset
      BY <1>2, <3>1 DEF Offset
    <3>3. task' \in Tasks /\ task'.kind = task.kind
      BY <1>2, <3>1
    <3> QED BY <3>1, <3>2, <3>3
  <2> QED BY <1>2, <2>1, <2>2, <2>3, <2>4, <2>5 DEF HarpTask
<1> HIDE DEF Tasks
<1>5. clean' \in -1..Packets /\ clean' <= second' - First + (IF at' = PacketLen THEN 1 ELSE 0)
  BY <1>1, <1>2, <1>4, Numbers
<1>6. TypeOK'
  BY <1>1, <1>4, <1>5 DEF BaseInv, TypeOK, Tasks
<1>7. LineInv'
  BY <1>1, <1>4, <1>5 DEF BaseInv, LineInv
<1> QED BY <1>3, <1>6, <1>7 DEF BaseInv

LEMMA AlwaysBaseInv == Spec => []BaseInv
<1>1. BaseInv /\ UNCHANGED vars => BaseInv'
  BY DEF BaseInv, TypeOK, LineInv, ParserInv, vars, line, parser
<1>2. BaseInv /\ [Next]_vars => BaseInv'
  BY <1>1, LineBase, InterruptBase, TaskBase DEF Next
<1> QED BY <1>2, InitBase, PTL DEF Spec

\* Types, the length of a stamp and of the buffer, and what is left of faults,
\* whatever the line does.
THEOREM TypeCorrect == Spec => []TypeOK
BY AlwaysBaseInv, PTL DEF BaseInv

-----------------------------------------------------------------------------
(* One byte of a packet, and the time its stamp tells                      *)

\* A stamp that is applied when its packet is complete gives a true offset:
\* the packet comes a second after the one its stamp names.
LEMMA StampGivesOffset ==
  ASSUME BaseInv, at = PacketLen, NEW d, \A i \in 1..4 : d[i] = Stamp(second)[i],
         NEW l \in 0..Jitter
  PROVE  OffsetFor(d, l) \in TrueOffsets
<1>1. /\ second \in Nat /\ second < Radix * (Radix * (Radix * Radix)) /\ First \in Nat
      /\ Second \in Nat /\ SyncOffset \in Nat
  <2>1. second \in Nat /\ second < First + Packets
    BY DEF BaseInv, TypeOK, LineInv
  <2>2. First + Packets < Radix * (Radix * (Radix * Radix))
    BY BoundAssumption
  <2>3. Radix * (Radix * (Radix * Radix)) \in Int /\ First + Packets \in Int
    BY Numbers
  <2> QED BY <2>1, <2>2, <2>3, Numbers
<1>2. SecondOf(d) = second
  <2>1. SecondOf(d) = SecondOf(Stamp(second))
    BY DEF SecondOf
  <2> QED BY <1>1, <2>1, StampTells
<1>3. Now(l) = (second - First) * Second + 6 + l /\ l \in Int
  BY Numbers DEF Now
<1>4. (second - First) * Second = second * Second - First * Second
  BY <1>1
<1>5. (second + 1) * Second = second * Second + Second
  BY <1>1
<1>6. (First + 1) * Second = First * Second + Second
  BY <1>1
<1>7. second * Second \in Int /\ First * Second \in Int
  BY <1>1
<1>8. Now(l) - ((SecondOf(d) + 1) * Second - SyncOffset)
        = PacketLen + l - ((First + 1) * Second - SyncOffset)
  BY <1>1, <1>2, <1>3, <1>4, <1>5, <1>6, <1>7, Numbers
<1> QED BY <1>8 DEF OffsetFor, TrueOffset, TrueOffsets

\* Two bytes of a header-free stamp never look like a header.
LEMMA NoHeaderInside ==
  ASSUME second \in Nat, HeaderFree(second), NEW p \in 3..5, Bytes[p] = H0
  PROVE  Bytes[p + 1] # H1
<1>1. p - 2 \in 1..3 /\ p - 2 \in 1..4 /\ p - 1 \in 1..4
  OBVIOUS
<1>2. Stamp(second)[p - 2] # H0 \/ Stamp(second)[(p - 2) + 1] # H1
  BY <1>1 DEF HeaderFree
<1>3. Bytes[(p - 2) + 2] = Stamp(second)[p - 2] /\ Bytes[(p - 1) + 2] = Stamp(second)[p - 1]
  BY <1>1, PacketBytes DEF Bytes
<1>4. (p - 2) + 2 = p /\ (p - 1) + 2 = p + 1 /\ (p - 2) + 1 = p - 1
  OBVIOUS
<1> QED BY <1>2, <1>3, <1>4

\* How far the interrupt has read when it takes one byte more, and what it does
\* with the byte.
LEMMA ParseReads ==
  ASSUME BaseInv, ParseByte
  PROVE  /\ Read \in Int /\ Read < 6 /\ Read' = Read + 1
         /\ UNCHANGED <<second, at, offset, has_synced, isr, task, faults, sets, clean>>
         /\ ~new_timestamp /\ isr.todo = {} /\ Len(sync_data) \in Nat
         /\ state # "TIMESTAMP" => sync_data = <<>> /\ sync_data' = <<>> /\ ~new_timestamp'
         /\ state \in {"HEADER_0", "HEADER_1", "TIMESTAMP"}
<1>1. /\ fifo # <<>> /\ ~new_timestamp /\ fifo' = Tail(fifo)
      /\ UNCHANGED <<second, at, offset, has_synced, isr, task, faults, sets, clean>>
  BY DEF ParseByte, line
<1>2. /\ fifo \in Seq(Byte) /\ at \in 0..6 /\ sync_data \in Seq(Byte)
      /\ state \in {"HEADER_0", "HEADER_1", "TIMESTAMP"}
      /\ (sync_data # <<>> => state = "TIMESTAMP" \/ new_timestamp)
      /\ (isr.todo # {} => new_timestamp)
  BY Numbers DEF BaseInv, TypeOK, ParserInv
<1>3. Len(fifo) \in Nat /\ Len(fifo) >= 1 /\ Len(Tail(fifo)) = Len(fifo) - 1
  BY <1>1, <1>2, TailBytes
<1>4. Read \in Int /\ Read < 6
  BY <1>2, <1>3 DEF Read
<1>5. Read' = Read + 1
  <2>1. Read' = at - Len(Tail(fifo))
    BY <1>1 DEF Read
  <2> QED BY <1>2, <1>3, <2>1 DEF Read
<1>6. Len(sync_data) \in Nat
  BY <1>2, LenProperties
<1>7. state # "TIMESTAMP" => sync_data = <<>> /\ sync_data' = <<>> /\ ~new_timestamp'
  BY <1>1, <1>2 DEF ParseByte
<1> QED BY <1>1, <1>2, <1>4, <1>5, <1>6, <1>7

\* A sound buffer gives the next byte of the packet, and stays sound.
LEMMA ParseSound ==
  ASSUME BaseInv, ParseByte, FifoSound
  PROVE  /\ Read + 1 >= 1 => Head(fifo) = Bytes[Read + 1]
         /\ FifoSound'
<1>1. /\ fifo # <<>> /\ fifo' = Tail(fifo) /\ fifo \in Seq(Byte) /\ second' = second
      /\ Read \in Int /\ Read' = Read + 1
  BY ParseReads DEF ParseByte, BaseInv, TypeOK
<1>2. /\ Head(fifo) = fifo[1] /\ Len(fifo) \in Nat /\ Len(fifo) >= 1
      /\ Len(Tail(fifo)) = Len(fifo) - 1
      /\ \A i \in 1..(Len(fifo) - 1) : Tail(fifo)[i] = fifo[i + 1]
  BY <1>1, TailBytes
<1>3. Read + 1 >= 1 => Head(fifo) = Bytes[Read + 1]
  BY <1>2 DEF FifoSound
<1>4. Bytes' = Bytes
  BY <1>1 DEF Bytes
<1>5. ASSUME NEW i \in 1..Len(fifo'), Read' + i >= 1 PROVE fifo'[i] = Bytes'[Read' + i]
  <2>1. i \in 1..(Len(fifo) - 1) /\ i + 1 \in 1..Len(fifo)
    BY <1>1, <1>2
  <2>2. Read' + i = Read + (i + 1)
    BY <1>1, <2>1
  <2>3. fifo[i + 1] = Bytes[Read + (i + 1)]
    BY <1>5, <2>1, <2>2 DEF FifoSound
  <2>4. fifo'[i] = fifo[i + 1]
    BY <1>1, <1>2, <2>1
  <2> QED BY <1>4, <2>2, <2>3, <2>4
<1>6. FifoSound'
  BY <1>5 DEF FifoSound
<1> QED BY <1>3, <1>6

\* A byte of the stamp.
LEMMA ParseStamp ==
  ASSUME BaseInv, ParseByte, state = "TIMESTAMP"
  PROVE  LET n == Len(sync_data)
         IN /\ n < 4 /\ Len(sync_data') = n + 1
            /\ \A i \in 1..n : sync_data'[i] = sync_data[i]
            /\ sync_data'[n + 1] = Head(fifo)
            /\ n = 3 => new_timestamp' /\ state' = "HEADER_0"
            /\ n < 3 => ~new_timestamp' /\ state' = "TIMESTAMP"
<1> DEFINE b == Head(fifo)
           d == Append(sync_data, b)
           n == Len(sync_data)
<1>1. /\ fifo \in Seq(Byte) /\ fifo # <<>> /\ sync_data \in Seq(Byte) /\ n < 4
  BY Numbers DEF BaseInv, TypeOK, ParserInv, ParseByte
<1>2. b \in Byte
  BY <1>1, TailBytes
<1>3. /\ n \in Nat /\ Len(d) = n + 1 /\ \A i \in 1..n : d[i] = sync_data[i]
      /\ d[n + 1] = b
  BY <1>1, <1>2, AppendBytes
<1>4. /\ sync_data' = d /\ new_timestamp' = (Len(d) = 4)
      /\ state' = IF Len(d) = 4 THEN "HEADER_0" ELSE "TIMESTAMP"
  BY Numbers DEF ParseByte
<1> HIDE DEF d, n
<1>5. /\ n = 3 => new_timestamp' /\ state' = "HEADER_0"
      /\ n < 3 => ~new_timestamp' /\ state' = "TIMESTAMP"
  <2>1. CASE n = 3
    <3>1. Len(d) = 4
      BY <1>3, <2>1
    <3>2. new_timestamp' /\ state' = "HEADER_0" /\ ~(n < 3)
      <4>1. new_timestamp'
        BY <1>4, <3>1
      <4>2. state' = "HEADER_0"
        BY <1>4, <3>1
      <4>3. ~(n < 3)
        BY <2>1
      <4> QED BY <4>1, <4>2, <4>3
    <3> QED BY <3>2
  <2>2. CASE n < 3
    <3>1. Len(d) # 4
      BY <1>3, <2>2
    <3>2. n # 3
      BY <1>3, <2>2
    <3> QED BY <1>4, <3>1, <3>2
  <2>3. n = 3 \/ n < 3
    BY <1>1, <1>3
  <2> QED BY <2>1, <2>2, <2>3
<1> QED BY <1>1, <1>3, <1>4, <1>5 DEF d, n

\* A parser in step stays in step with each byte of the packet.
LEMMA ParseInStep ==
  ASSUME BaseInv, ParseByte, InStep, Head(fifo) = Bytes[Read + 1]
  PROVE  InStep'
<1> DEFINE b == Head(fifo)
<1>1. /\ Read \in 0..5 /\ Read' = Read + 1 /\ second' = second /\ second \in Nat
      /\ ~new_timestamp /\ isr' = isr /\ isr.todo = {}
      /\ (state # "TIMESTAMP" => sync_data = <<>> /\ sync_data' = <<>> /\ ~new_timestamp')
  BY ParseReads, Numbers DEF InStep, BaseInv, TypeOK
<1>2. H0 # H1 /\ Bytes[1] = H0 /\ Bytes[2] = H1 /\ \A i \in 1..4 : Bytes[i + 2] = Stamp(second)[i]
  BY <1>1, PacketBytes, Numbers DEF Bytes
<1>3. Stamp(second)' = Stamp(second)
  BY <1>1
<1>4. CASE Read = 0
  <2>1. state = "HEADER_0" /\ b = H0
    BY <1>2, <1>4 DEF InStep
  <2>2. state' = "HEADER_1" /\ ~new_timestamp' /\ Read' = 1
    BY <1>1, <1>4, <2>1 DEF ParseByte
  <2> QED BY <2>2, Numbers DEF InStep
<1>5. CASE Read = 1
  <2>1. state = "HEADER_1" /\ b = H1
    BY <1>2, <1>5 DEF InStep
  <2>2. state' = "TIMESTAMP" /\ ~new_timestamp' /\ Read' = 2 /\ sync_data' = <<>>
    BY <1>1, <1>5, <2>1 DEF ParseByte, AfterHeader1
  <2>3. Len(sync_data') = 0
    BY <2>2, EmptyBytes
  <2>4. \A i \in 1..(Read' - 2) : sync_data'[i] = Stamp(second)'[i]
    BY <2>2
  <2> QED BY <2>2, <2>3, <2>4, Numbers DEF InStep
<1>6. CASE Read \in 2..5
  <2> DEFINE n == Len(sync_data)
  <2>1. /\ state = "TIMESTAMP" /\ n = Read - 2
        /\ \A i \in 1..(Read - 2) : sync_data[i] = Stamp(second)[i]
    BY <1>6 DEF InStep
  <2>2. /\ n < 4 /\ Len(sync_data') = n + 1
        /\ \A i \in 1..n : sync_data'[i] = sync_data[i]
        /\ sync_data'[n + 1] = b
        /\ n = 3 => new_timestamp' /\ state' = "HEADER_0"
        /\ n < 3 => ~new_timestamp' /\ state' = "TIMESTAMP"
    BY <2>1, ParseStamp
  <2> HIDE DEF n, b
  <2>3. b = Stamp(second)[n + 1]
    <3>1. n + 1 \in 1..4 /\ Read + 1 = (n + 1) + 2
      BY <1>6, <2>1
    <3> QED BY <1>2, <3>1 DEF b
  <2>4. \A i \in 1..(n + 1) : sync_data'[i] = Stamp(second)'[i]
    <3> SUFFICES ASSUME NEW i \in 1..(n + 1) PROVE sync_data'[i] = Stamp(second)[i]
      BY <1>3
    <3>1. CASE i = n + 1
      BY <2>2, <2>3, <3>1
    <3>2. CASE i # n + 1
      <4>1. i \in 1..n /\ i \in 1..(Read - 2)
        BY <1>6, <2>1, <3>2
      <4> QED BY <2>1, <2>2, <4>1
    <3> QED BY <3>1, <3>2
  <2>5. CASE Read = 5
    <3>1. n = 3 /\ Read' = 6 /\ Len(sync_data') = 4
      BY <1>1, <2>1, <2>2, <2>5
    <3>2. /\ new_timestamp' /\ state' = "HEADER_0" /\ isr'.todo = {}
          /\ \A i \in 1..4 : sync_data'[i] = Stamp(second)'[i]
      BY <1>1, <2>2, <2>4, <3>1
    <3>3. TakenOver'
      BY <3>1, <3>2 DEF TakenOver
    <3> QED BY <3>1, <3>2, <3>3, Numbers DEF InStep
  <2>6. CASE Read # 5
    <3>1. Read' \in 2..5 /\ Len(sync_data') = Read' - 2 /\ Read' - 2 = n + 1 /\ n < 3
      BY <1>1, <1>6, <2>1, <2>2, <2>6
    <3>2. \A i \in 1..(Read' - 2) : sync_data'[i] = Stamp(second)'[i]
      BY <2>4, <3>1
    <3>3. state' = "TIMESTAMP" /\ ~new_timestamp'
      BY <2>2, <3>1
    <3> QED BY <3>1, <3>2, <3>3, Numbers DEF InStep
  <2> QED BY <2>5, <2>6
<1> QED BY <1>1, <1>4, <1>5, <1>6

\* The first byte of a packet finds a parser in step or lets it pass.
LEMMA ParseFirst ==
  ASSUME BaseInv, ParseByte, Read = 0, Head(fifo) = Bytes[Read + 1]
  PROVE  InStep' \/ Lost'
<1>1. /\ Read' = 1 /\ second \in Nat /\ Head(fifo) = H0 /\ H0 # H1
      /\ state \in {"HEADER_0", "HEADER_1", "TIMESTAMP"}
      /\ (state # "TIMESTAMP" => ~new_timestamp') /\ Len(sync_data) \in Nat
  <2>1. second \in Nat
    BY DEF BaseInv, TypeOK
  <2>2. Bytes[1] = H0
    BY <2>1, PacketBytes DEF Bytes
  <2> QED BY <2>1, <2>2, ParseReads, Numbers
<1>2. CASE state = "HEADER_0"
  <2>1. state' = "HEADER_1" /\ ~new_timestamp'
    BY <1>1, <1>2 DEF ParseByte
  <2> QED BY <1>1, <2>1, Numbers DEF InStep
<1>3. CASE state = "HEADER_1"
  BY <1>1, <1>3 DEF ParseByte, AfterHeader1, Lost
<1>4. CASE state = "TIMESTAMP"
  <2> DEFINE n == Len(sync_data)
  <2>1. /\ n < 4 /\ Len(sync_data') = n + 1
        /\ n = 3 => state' = "HEADER_0"
        /\ n < 3 => state' = "TIMESTAMP"
    BY <1>4, ParseStamp
  <2>2. n \in Nat
    BY <1>1
  <2> HIDE DEF n
  <2>3. Len(sync_data') >= Read' /\ (n = 3 \/ n < 3)
    BY <1>1, <2>1, <2>2
  <2> QED BY <2>1, <2>3 DEF Lost
<1> QED BY <1>1, <1>2, <1>3, <1>4

\* A parser that has lost its place cannot find a header inside the packet.
LEMMA ParseLost ==
  ASSUME BaseInv, ParseByte, Lost, Read >= 1, Head(fifo) = Bytes[Read + 1], HeaderFree(second)
  PROVE  Lost'
<1>1. /\ Read \in 1..5 /\ Read' = Read + 1 /\ second' = second /\ second \in Nat
      /\ H0 # H1 /\ Bytes[2] = H1 /\ Bytes' = Bytes /\ Len(sync_data) \in Nat
  <2>1. second \in Nat /\ second' = second
    BY ParseReads DEF BaseInv, TypeOK
  <2>2. Bytes[2] = H1 /\ Bytes' = Bytes
    BY <2>1, PacketBytes DEF Bytes
  <2> QED BY <2>1, <2>2, ParseReads, Numbers
<1>2. CASE state = "HEADER_0"
  <2>1. state' = IF Head(fifo) = H0 THEN "HEADER_1" ELSE "HEADER_0"
    BY <1>2 DEF ParseByte
  <2>2. CASE Head(fifo) = H0
    <3>1. Read # 1
      BY <1>1, <2>2
    <3>2. Read' >= 3 /\ Bytes'[Read'] = H0
      BY <1>1, <2>2, <3>1
    <3> QED BY <2>1, <2>2, <3>2 DEF Lost, LikeHeader0
  <2>3. CASE Head(fifo) # H0
    BY <2>1, <2>3 DEF Lost
  <2> QED BY <2>2, <2>3
<1>3. CASE state = "HEADER_1" /\ LikeHeader0
  <2>1. Read \in 3..5 /\ Bytes[Read] = H0
    BY <1>1, <1>3 DEF LikeHeader0
  <2>2. Head(fifo) # H1
    BY <1>1, <2>1, NoHeaderInside
  <2>3. state' = "HEADER_0"
    BY <1>3, <2>2 DEF ParseByte, AfterHeader1
  <2> QED BY <2>3 DEF Lost
<1>4. CASE state = "TIMESTAMP" /\ Len(sync_data) >= Read
  <2> DEFINE n == Len(sync_data)
  <2>1. /\ n < 4 /\ Len(sync_data') = n + 1
        /\ n = 3 => state' = "HEADER_0"
        /\ n < 3 => state' = "TIMESTAMP"
    BY <1>4, ParseStamp
  <2>2. n \in Nat /\ n >= Read
    BY <1>1, <1>4
  <2> HIDE DEF n
  <2>3. Len(sync_data') >= Read' /\ (n = 3 \/ n < 3)
    BY <1>1, <2>1, <2>2
  <2> QED BY <2>1, <2>3 DEF Lost
<1> QED BY <1>2, <1>3, <1>4 DEF Lost

\* A parser that is silent stays so until the first header of a packet.
LEMMA ParseSilent ==
  ASSUME BaseInv, ParseByte, Silent, Read >= 0, Head(fifo) = Bytes[Read + 1], HeaderFree(second)
  PROVE  InStep' \/ Silent'
<1>1. /\ ~new_timestamp' /\ sync_data' = <<>> /\ Read \in 0..5 /\ Read' = Read + 1
  BY ParseReads DEF Silent
<1>2. Bytes' = Bytes /\ second \in Nat /\ H0 # H1
  BY ParseReads, Numbers DEF Bytes, BaseInv, TypeOK
<1>3. CASE Read >= 1
  <2>1. Lost
    BY <1>1, <1>3 DEF Silent, Lost
  <2>2. Lost'
    BY <1>3, <2>1, ParseLost
  <2>3. state' # "TIMESTAMP"
    <3>1. CASE state = "HEADER_0"
      BY <3>1 DEF ParseByte
    <3>2. CASE state = "HEADER_1"
      <4>1. Read \in 3..5 /\ Bytes[Read] = H0
        BY <1>1, <1>3, <3>2 DEF Silent, LikeHeader0
      <4>2. Head(fifo) # H1
        BY <1>2, <4>1, NoHeaderInside
      <4> QED BY <3>2, <4>2 DEF ParseByte, AfterHeader1
    <3> QED BY <3>1, <3>2 DEF Silent
  <2> QED BY <1>1, <2>2, <2>3 DEF Lost, Silent
<1>4. CASE Read = 0
  <2>1. Head(fifo) = H0
    BY <1>2, <1>4, PacketBytes DEF Bytes
  <2>2. CASE state = "HEADER_0"
    <3>1. state' = "HEADER_1" /\ Read' = 1
      BY <1>1, <1>4, <2>1, <2>2 DEF ParseByte
    <3> QED BY <1>1, <3>1, Numbers DEF InStep
  <2>3. CASE state = "HEADER_1"
    BY <1>1, <1>2, <2>1, <2>3 DEF ParseByte, AfterHeader1, Silent
  <2> QED BY <2>2, <2>3 DEF Silent
<1> QED BY <1>1, <1>3, <1>4

-----------------------------------------------------------------------------
(* What a step leaves alone, and the line                                  *)

LEMMA SameParser ==
  ASSUME Read' = Read,
         UNCHANGED <<second, state, sync_data, new_timestamp, isr, offset, has_synced>>
  PROVE  InStep' = InStep /\ Lost' = Lost /\ Silent' = Silent
<1>1. LikeHeader0' = LikeHeader0
  BY DEF LikeHeader0, Bytes
<1>2. TakenOver' = TakenOver
  BY DEF TakenOver
<1>3. InStep' = InStep
  BY <1>2 DEF InStep
<1>4. Lost' = Lost
  BY <1>1 DEF Lost
<1>5. Silent' = Silent
  BY <1>1 DEF Silent
<1> QED BY <1>3, <1>4, <1>5

\* Between two packets there is nothing of a packet to read.
LEMMA BeforePacket ==
  ASSUME BaseInv', at' = 0
  PROVE  FifoSound' /\ ~(Read' >= 1)
<1>1. fifo' \in Seq(Byte)
  BY DEF BaseInv, TypeOK
<1>2. PICK n \in Nat : Len(fifo') = n
  BY <1>1, LenProperties
<1>3. Read' = -n
  BY <1>2 DEF Read
<1>4. ASSUME NEW i \in 1..n PROVE ~(Read' + i >= 1)
  BY <1>2, <1>3
<1>5. FifoSound'
  BY <1>2, <1>4 DEF FifoSound
<1> QED BY <1>2, <1>3, <1>5

\* The next byte of a packet on the line.
LEMMA GoodByte ==
  ASSUME BaseInv, Good, at # PacketLen
  PROVE  /\ Read' = Read /\ at' = at + 1 /\ at \in 0..5 /\ second' = second
         /\ clean' = IF at' = 6 THEN clean + 1 ELSE clean
         /\ UNCHANGED <<state, sync_data, new_timestamp, offset, has_synced, isr, task, sets, faults>>
         /\ InStep' = InStep /\ Lost' = Lost /\ Silent' = Silent
         /\ FifoSound => FifoSound'
<1>1. /\ at' = at + 1 /\ at \in 0..5 /\ second' = second /\ fifo \in Seq(Byte) /\ second \in Nat
      /\ clean' = IF at' = 6 THEN clean + 1 ELSE clean
      /\ UNCHANGED <<state, sync_data, new_timestamp, offset, has_synced, isr, task, sets, faults>>
      /\ fifo' = Append(fifo, NextByte) /\ NextByte = Bytes[at + 1]
  BY Numbers DEF Good, Advance, Receive, NextByte, Bytes, parser, BaseInv, TypeOK
<1>2. NextByte \in Byte
  <2>1. at + 1 \in 1..PacketLen
    BY <1>1, Numbers
  <2> QED BY <1>1, <2>1, PacketBytes DEF Bytes
<1>3. /\ Len(fifo) \in Nat /\ Len(fifo') = Len(fifo) + 1
      /\ \A i \in 1..Len(fifo) : fifo'[i] = fifo[i]
      /\ fifo'[Len(fifo) + 1] = NextByte
  BY <1>1, <1>2, AppendBytes
<1>4. Read \in Int /\ Read' = Read /\ Read + (Len(fifo) + 1) = at + 1
  <2>1. Read' = (at + 1) - (Len(fifo) + 1)
    BY <1>1, <1>3 DEF Read
  <2>2. Read = at - Len(fifo)
    BY DEF Read
  <2> QED BY <1>1, <1>3, <2>1, <2>2
<1>5. ASSUME FifoSound PROVE FifoSound'
  <2>1. Bytes' = Bytes
    BY <1>1 DEF Bytes
  <2>2. ASSUME NEW i \in 1..(Len(fifo) + 1), Read + i >= 1 PROVE fifo'[i] = Bytes[Read + i]
    <3>1. CASE i = Len(fifo) + 1
      BY <1>1, <1>3, <1>4, <3>1
    <3>2. CASE i # Len(fifo) + 1
      <4>1. i \in 1..Len(fifo)
        BY <1>3, <3>2
      <4> QED BY <1>3, <1>5, <2>2, <4>1 DEF FifoSound
    <3> QED BY <3>1, <3>2
  <2> QED BY <1>3, <1>4, <2>1, <2>2 DEF FifoSound
<1>6. InStep' = InStep /\ Lost' = Lost /\ Silent' = Silent
  BY <1>1, <1>4, SameParser
<1> QED BY <1>1, <1>4, <1>5, <1>6

\* The first byte of the next one.
LEMMA GoodStart ==
  ASSUME BaseInv, Good, at = PacketLen
  PROVE  /\ Read = 6 /\ ~new_timestamp
         /\ state # "TIMESTAMP" => sync_data = <<>>
         /\ Read' = 0 /\ at' = 1 /\ second' = second + 1 /\ clean' = clean
         /\ UNCHANGED <<state, sync_data, new_timestamp, offset, has_synced, isr, task, sets, faults>>
         /\ FifoSound'
<1>1. /\ fifo = <<>> /\ ~new_timestamp /\ second' = second + 1 /\ at' = 1 /\ clean' = clean
      /\ UNCHANGED <<state, sync_data, new_timestamp, offset, has_synced, isr, task, sets, faults>>
      /\ fifo' = Append(fifo, NextByte) /\ NextByte = Packet(second + 1)[1]
      /\ second \in Nat /\ (state # "TIMESTAMP" => sync_data = <<>>)
  BY Numbers DEF Good, Advance, Sendable, Receive, NextByte, parser, BaseInv, TypeOK
<1>2. NextByte \in Byte
  <2>1. 1 \in 1..PacketLen /\ second + 1 \in Nat
    BY <1>1, Numbers
  <2> QED BY <1>1, <2>1, PacketBytes
<1>3. Read = 6
  BY <1>1, EmptyBytes, Numbers DEF Read
<1>4. Len(fifo') = 1 /\ fifo'[1] = NextByte
  BY <1>1, <1>2, AppendBytes, EmptyBytes
<1>5. Read' = 0
  BY <1>1, <1>4 DEF Read
<1>6. FifoSound'
  <2>1. Bytes'[1] = NextByte
    BY <1>1 DEF Bytes
  <2> QED BY <1>4, <1>5, <2>1 DEF FifoSound
<1> QED BY <1>1, <1>3, <1>5, <1>6

\* The interrupt takes over the time of a complete stamp, and stores it.
LEMMA TakesOver ==
  ASSUME BaseInv, InStep, Apply \/ \E h \in Halves : StoreOffset(h)
  PROVE  InStep' /\ Read = 6 /\ isr'.value \in TrueOffsets
<1>1. /\ new_timestamp /\ state = "HEADER_0" /\ at \in 0..6 /\ fifo \in Seq(Byte)
      /\ UNCHANGED <<second, at, fifo, state>>
  <2>1. /\ UNCHANGED <<second, at, fifo, state>>
        /\ new_timestamp \/ isr.todo # {}
    BY DEF Apply, StoreOffset, line
  <2>2. at \in 0..6 /\ fifo \in Seq(Byte)
    BY Numbers DEF BaseInv, TypeOK
  <2> QED BY <2>1, <2>2 DEF BaseInv, ParserInv
<1>2. Read = 6 /\ at = 6 /\ TakenOver
  <2>1. Len(fifo) \in Nat
    BY <1>1, LenProperties
  <2>2. Read = 6 /\ TakenOver
    BY <1>1, Numbers DEF InStep
  <2> QED BY <1>1, <2>1, <2>2 DEF Read
<1>3. Read' = 6 /\ state' = "HEADER_0"
  BY <1>1, <1>2 DEF Read
<1>4. CASE Apply
  <2>1. isr.todo = {} /\ UNCHANGED new_timestamp
    BY <1>4 DEF Apply
  <2>a. PICK l \in 0..Jitter : isr'.todo = Halves /\ isr'.value = OffsetFor(sync_data, l)
    BY <1>4 DEF Apply
  <2>2. \A i \in 1..4 : sync_data[i] = Stamp(second)[i]
    BY <1>1, <1>2, <2>1 DEF TakenOver
  <2>3. OffsetFor(sync_data, l) \in TrueOffsets
    BY <1>2, <2>2, StampGivesOffset, Numbers
  <2>4. isr'.todo = Halves /\ isr'.value \in TrueOffsets /\ Halves # {}
    BY <2>a, <2>3 DEF Halves
  <2>5. TakenOver'
    <3>1. \A h \in Halves \ isr'.todo : offset'[h] = isr'.value[h]
      BY <2>4
    <3>2. Halves' = Halves
      BY DEF Halves
    <3> QED BY <2>4, <3>1, <3>2, TrueFixed DEF TakenOver
  <2> QED BY <1>2, <1>3, <2>4, <2>5, Numbers DEF InStep
<1>5. ASSUME NEW h \in Halves, StoreOffset(h)
      PROVE  InStep' /\ isr'.value \in TrueOffsets
  <2>1. /\ h \in isr.todo /\ offset' = [offset EXCEPT ![h] = isr.value[h]]
        /\ isr' = [isr EXCEPT !.todo = isr.todo \ {h}]
        /\ has_synced' = (has_synced \/ isr.todo = {h})
        /\ new_timestamp' = (isr.todo # {h})
    BY <1>5 DEF StoreOffset
  <2>2. /\ isr \in [todo : SUBSET Halves, value : Offset, carry : BOOLEAN]
        /\ isr.value \in [Halves -> 0..(Half - 1)] /\ offset \in [Halves -> 0..(Half - 1)]
    BY DEF BaseInv, TypeOK, Offset
  <2>3. isr.value \in TrueOffsets /\ \A g \in Halves \ isr.todo : offset[g] = isr.value[g]
    BY <1>1, <1>2, <2>1 DEF TakenOver
  <2>4. isr'.todo = isr.todo \ {h} /\ isr'.value = isr.value
    BY <2>1, <2>2
  <2>5. offset' \in [Halves -> 0..(Half - 1)] /\ \A g \in Halves \ isr'.todo : offset'[g] = isr.value[g]
    BY <2>1, <2>2, <2>3, <2>4
  <2>6. CASE isr.todo = {h}
    <3>1. isr'.todo = {} /\ has_synced' /\ ~new_timestamp'
      BY <2>1, <2>4, <2>6
    <3>2. \A g \in Halves : offset'[g] = isr.value[g]
      BY <2>5, <3>1
    <3>3. offset' = isr.value
      BY <2>2, <2>5, <3>2
    <3>4. TakenOver'
      BY <2>3, <3>1, <3>3, TrueFixed DEF TakenOver
    <3> QED BY <1>3, <2>3, <2>4, <3>4, Numbers DEF InStep
  <2>7. CASE isr.todo # {h}
    <3>1. isr'.todo # {}
      BY <2>1, <2>4, <2>7
    <3>2. Halves' = Halves
      BY DEF Halves
    <3>3. TakenOver'
      BY <2>3, <2>4, <2>5, <3>1, <3>2, TrueFixed DEF TakenOver
    <3> QED BY <1>3, <2>3, <2>4, <3>3, Numbers DEF InStep
  <2> QED BY <2>6, <2>7
<1> QED BY <1>2, <1>4, <1>5

-----------------------------------------------------------------------------
(* Synchronization after a disturbance                                     *)

LEMMA LineResync ==
  ASSUME BaseInv, BaseInv', ResyncInv, Good \/ Bad \/ Spurious
  PROVE  ResyncInv'
<1>1. CASE Good /\ at # PacketLen
  <2>1. /\ Read' = Read /\ at' = at + 1 /\ at \in 0..5 /\ second' = second
        /\ clean' = IF at' = 6 THEN clean + 1 ELSE clean
        /\ InStep' = InStep /\ Lost' = Lost /\ (FifoSound => FifoSound')
    BY <1>1, GoodByte
  <2>2. clean \in Int
    BY DEF BaseInv, TypeOK
  <2>3. Sound' => Sound
    BY <2>1, <2>2, Numbers DEF Sound
  <2>4. Following' => Following
    BY <2>1, <2>2, Numbers DEF Following
  <2>5. HeaderFree(second)' = HeaderFree(second)
    BY <2>1 DEF HeaderFree
  <2> QED BY <2>1, <2>3, <2>4, <2>5 DEF ResyncInv
<1>2. CASE Good /\ at = PacketLen
  <2>1. /\ Read = 6 /\ ~new_timestamp
        /\ Read' = 0 /\ at' = 1 /\ second' = second + 1 /\ clean' = clean
        /\ UNCHANGED <<state, sync_data, new_timestamp>>
        /\ FifoSound'
    BY <1>2, GoodStart
  <2>2. second \in Nat /\ clean \in Int
    BY DEF BaseInv, TypeOK
  <2>3. ASSUME Following' PROVE InStep'
    <3>1. second' - 1 = second
      BY <2>1, <2>2
    <3>2. clean >= 1 /\ HeaderFree(second) /\ Stamp(second)[4] # H0
      BY <2>1, <2>2, <2>3, <3>1, Numbers DEF Following, HeaderFree
    <3>3. InStep \/ Lost
      BY <2>1, <3>2 DEF ResyncInv, Sound
    <3>4. Bytes[6] # H0
      <4>1. Bytes[4 + 2] = Stamp(second)[4]
        BY <2>2, PacketBytes DEF Bytes
      <4> QED BY <3>2, <4>1
    <3>5. state = "HEADER_0"
      <4>1. CASE InStep
        BY <2>1, <4>1, Numbers DEF InStep
      <4>2. CASE Lost
        <5>1. state = "TIMESTAMP" => Len(sync_data) < 4
          BY Numbers DEF BaseInv, ParserInv
        <5>2. sync_data \in Seq(Byte)
          BY DEF BaseInv, TypeOK
        <5>3. Len(sync_data) \in Nat
          BY <5>2, LenProperties
        <5> QED BY <2>1, <3>4, <4>2, <5>1, <5>3 DEF Lost, LikeHeader0
      <4> QED BY <3>3, <4>1, <4>2
    <3> QED BY <2>1, <3>5, Numbers DEF InStep
  <2>4. ~(Read' >= 1)
    BY <2>1
  <2> QED BY <2>1, <2>3, <2>4 DEF ResyncInv
<1>3. CASE Bad
  <2>1. clean' = IF at' = PacketLen THEN 0 ELSE -1
    BY <1>3 DEF Bad
  <2>2. ~Sound' /\ ~Following'
    BY <2>1, Numbers DEF Sound, Following
  <2> QED BY <2>2 DEF ResyncInv
<1>4. CASE Spurious
  <2>1. (clean' = IF at \in {0, PacketLen} THEN 0 ELSE -1) /\ at' = at /\ at \in 0..6
    BY <1>4, Numbers DEF Spurious, line, BaseInv, TypeOK
  <2>2. ~Following' /\ (Sound' => at' = 0)
    BY <2>1, Numbers DEF Sound, Following
  <2> QED BY <2>2, BeforePacket DEF ResyncInv
<1> QED BY <1>1, <1>2, <1>3, <1>4

LEMMA InterruptResync ==
  ASSUME BaseInv, ResyncInv, Interrupt
  PROVE  ResyncInv'
<1>1. UNCHANGED <<second, at, clean>>
  BY DEF Interrupt, ParseByte, Apply, StoreOffset, line
<1>2. Sound' = Sound /\ Following' = Following /\ HeaderFree(second)' = HeaderFree(second)
  BY <1>1 DEF Sound, Following, HeaderFree
<1>3. Following => Sound
  BY DEF Following, Sound, BaseInv, TypeOK
<1>4. CASE ParseByte
  <2>1. Read \in Int /\ Read' = Read + 1
    BY <1>4, ParseReads
  <2>2. Sound => FifoSound' /\ (Read + 1 >= 1 => Head(fifo) = Bytes[Read + 1])
    BY <1>4, ParseSound DEF ResyncInv
  <2>3. ASSUME Sound, Read' >= 1, HeaderFree(second) PROVE InStep' \/ Lost'
    <3>1. Head(fifo) = Bytes[Read + 1] /\ (Read = 0 \/ Read >= 1)
      BY <2>1, <2>2, <2>3
    <3>2. CASE Read = 0
      BY <1>4, <3>1, <3>2, ParseFirst
    <3>3. CASE Read >= 1
      <4>1. InStep \/ Lost
        BY <2>3, <3>3 DEF ResyncInv
      <4> QED BY <1>4, <2>3, <3>1, <3>3, <4>1, ParseInStep, ParseLost
    <3> QED BY <3>1, <3>2, <3>3
  <2>4. ASSUME Following PROVE InStep'
    <3>1. InStep /\ Read >= 0
      BY <2>4, Numbers DEF ResyncInv, InStep
    <3>2. Head(fifo) = Bytes[Read + 1]
      BY <1>3, <2>1, <2>2, <2>4, <3>1
    <3> QED BY <1>4, <3>1, <3>2, ParseInStep
  <2> QED BY <1>2, <2>2, <2>3, <2>4 DEF ResyncInv
<1>5. CASE Apply \/ \E h \in Halves : StoreOffset(h)
  <2>1. /\ UNCHANGED <<fifo, state>> /\ state = "HEADER_0"
    BY <1>5 DEF Apply, StoreOffset, BaseInv, ParserInv
  <2>2. Read' = Read /\ FifoSound' = FifoSound
    BY <1>1, <2>1 DEF Read, FifoSound, Bytes
  <2>3. InStep => InStep'
    BY <1>5, TakesOver
  <2>4. Lost'
    BY <2>1 DEF Lost
  <2> QED BY <1>2, <2>2, <2>3, <2>4 DEF ResyncInv
<1> QED BY <1>4, <1>5 DEF Interrupt

LEMMA TaskResync ==
  ASSUME BaseInv, BaseInv', ResyncInv, HarpTask \/ UNCHANGED vars
  PROVE  ResyncInv'
<1>1. UNCHANGED <<second, at, fifo, state, sync_data, new_timestamp, has_synced, isr>>
  BY DEF HarpTask, ReadTime, SetTime, TaskReturns, LoadHalf, SetHalf, line, parser, vars
<1>2. CASE UNCHANGED <<offset, clean>>
  <2>1. Sound' = Sound /\ Following' = Following /\ HeaderFree(second)' = HeaderFree(second)
    BY <1>1, <1>2 DEF Sound, Following, HeaderFree
  <2>2. Read' = Read /\ FifoSound' = FifoSound
    BY <1>1 DEF Read, FifoSound, Bytes
  <2>3. InStep' = InStep /\ Lost' = Lost
    BY <1>1, <1>2, <2>2, SameParser
  <2> QED BY <2>1, <2>2, <2>3 DEF ResyncInv
<1>3. ASSUME NEW h \in Halves, SetHalf(h) PROVE ResyncInv'
  <2>1. (clean' = IF at \in {0, PacketLen} THEN 0 ELSE -1) /\ at' = at /\ at \in 0..6
    BY <1>1, <1>3, Numbers DEF SetHalf, BaseInv, TypeOK
  <2>2. ~Following' /\ (Sound' => at' = 0)
    BY <2>1, Numbers DEF Sound, Following
  <2> QED BY <2>2, BeforePacket DEF ResyncInv
<1>4. UNCHANGED <<offset, clean>> \/ \E h \in Halves : SetHalf(h)
  BY DEF HarpTask, ReadTime, SetTime, TaskReturns, LoadHalf, vars
<1> QED BY <1>2, <1>3, <1>4

LEMMA AlwaysResyncInv == Spec => []ResyncInv
<1>1. Init => ResyncInv
  <2> SUFFICES ASSUME Init PROVE ResyncInv
    OBVIOUS
  <2>1. /\ at \in 0..5 /\ Len(fifo) = 0 /\ clean = IF at = 0 THEN 0 ELSE -1
    BY EmptyBytes, Numbers DEF Init
  <2>2. FifoSound
    BY <2>1 DEF FifoSound
  <2>3. ~Following
    BY <2>1, Numbers DEF Following
  <2>4. Sound => ~(Read >= 1)
    BY <2>1 DEF Sound, Read
  <2> QED BY <2>2, <2>3, <2>4 DEF ResyncInv
<1>2. BaseInv /\ BaseInv' /\ ResyncInv /\ [Next]_vars => ResyncInv'
  BY LineResync, InterruptResync, TaskResync DEF Next
<1> QED BY <1>1, <1>2, AlwaysBaseInv, PTL DEF Spec

\* The second clean packet after any disturbance sets the clock right, however
\* long the buffer and the packets before it.
THEOREM ResyncsInTwo == Spec => []Resync
<1>1. BaseInv /\ ResyncInv => Resync
  <2> SUFFICES ASSUME BaseInv, ResyncInv, clean >= 2, at = PacketLen, Quiet,
                      HeaderFree(second - 1), Stamp(second - 1)[4] # H0
               PROVE  offset \in TrueOffsets /\ has_synced
    BY DEF Resync
  <2>1. InStep
    BY DEF ResyncInv, Following
  <2>2. Read = 6
    BY EmptyBytes, Numbers DEF Read, Quiet
  <2>3. TakenOver
    BY <2>1, <2>2, Numbers DEF InStep
  <2> QED BY <2>3 DEF TakenOver, Quiet, BaseInv, ParserInv
<1> QED BY <1>1, AlwaysBaseInv, AlwaysResyncInv, PTL

-----------------------------------------------------------------------------
(* Without disturbance                                                     *)

\* What is undisturbed was so before; neither faults nor writes have come.
LEMMA StaysUndisturbed ==
  ASSUME BaseInv, [Next]_vars, Undisturbed'
  PROVE  /\ Undisturbed
         /\ HeaderFree(second)
         /\ Good \/ Interrupt \/ ReadTime \/ TaskReturns \/ (\E h \in Halves : LoadHalf(h))
            \/ UNCHANGED vars
<1>1. /\ second \in Nat /\ second >= First /\ First \in Nat /\ faults \in Nat /\ sets \in Nat
      /\ faults <= Faults /\ sets <= Sets /\ (task.kind = "write" => sets < Sets)
  BY Numbers DEF BaseInv, TypeOK, LineInv
<1>2. faults' = Faults /\ sets' = Sets /\ \A s \in First..second' : HeaderFree(s)
  BY DEF Undisturbed, HeaderFree
<1>3. ~Bad /\ ~Spurious
  BY <1>1, <1>2, Numbers DEF Bad, Spurious
<1>4. ~SetTime
  <2>1. SetTime => sets > 0 /\ sets' = sets - 1
    BY DEF SetTime
  <2> QED BY <1>1, <1>2, <2>1, Numbers
<1>5. ASSUME NEW h \in Halves, SetHalf(h) PROVE FALSE
  <2>1. sets' = sets /\ task.kind = "write"
    BY <1>5 DEF SetHalf
  <2> QED BY <1>1, <1>2, <2>1, Numbers
<1>6. Good \/ Interrupt \/ ReadTime \/ TaskReturns \/ (\E h \in Halves : LoadHalf(h))
      \/ UNCHANGED vars
  BY <1>3, <1>4, <1>5 DEF Next, HarpTask
<1>7. faults' = faults /\ sets' = sets /\ (second' = second \/ second' = second + 1)
  BY <1>6 DEF Good, Advance, Interrupt, ParseByte, Apply, StoreOffset, ReadTime, TaskReturns, LoadHalf,
     vars, line
<1>8. First..second \subseteq First..second' /\ second \in First..second
  BY <1>1, <1>7
<1>9. Undisturbed /\ HeaderFree(second)
  BY <1>2, <1>7, <1>8 DEF Undisturbed
<1> QED BY <1>6, <1>9

\* Where the interrupt stores nothing and the task loads nothing.
LEMMA SameOffsets ==
  ASSUME UNCHANGED <<offset, has_synced, isr, task>>
  PROVE  Stored' = Stored /\ Loaded' = Loaded
<1>1. Halves' = Halves
  BY DEF Halves
<1> QED BY <1>1, TrueFixed DEF Stored, Loaded, Unbroken, Halves

LEMMA GoodUndisturbed ==
  ASSUME BaseInv, BaseInv', QuietLine, Good
  PROVE  QuietLine'
<1>1. CASE at # PacketLen
  <2>1. /\ Read' = Read /\ InStep' = InStep /\ Silent' = Silent /\ (FifoSound => FifoSound')
        /\ UNCHANGED <<offset, has_synced, isr, task>>
    BY <1>1, GoodByte
  <2> QED BY <2>1, SameOffsets DEF QuietLine
<1>2. CASE at = PacketLen
  <2>1. /\ Read = 6 /\ ~new_timestamp /\ (state # "TIMESTAMP" => sync_data = <<>>)
        /\ Read' = 0 /\ FifoSound'
        /\ UNCHANGED <<state, sync_data, new_timestamp, offset, has_synced, isr, task>>
    BY <1>2, GoodStart
  <2>2. InStep' \/ Silent'
    <3>1. state \in {"HEADER_0", "HEADER_1"}
      BY <2>1, Numbers DEF QuietLine, InStep, Silent
    <3>2. ~new_timestamp' /\ sync_data' = <<>>
      BY <2>1, <3>1
    <3> QED BY <2>1, <3>1, <3>2 DEF Silent
  <2> QED BY <2>1, <2>2, SameOffsets DEF QuietLine
<1> QED BY <1>1, <1>2

\* The interrupt begins to store another true offset.
LEMMA ApplyStores ==
  ASSUME BaseInv, Stored, Loaded, Apply, isr'.value \in TrueOffsets
  PROVE  Stored' /\ Loaded'
<1>1. /\ isr.todo = {} /\ isr'.todo = Halves
      /\ UNCHANGED <<offset, has_synced, task>>
  BY DEF Apply
<1>2. isr'.carry \/ offset["hi"] = isr'.value["hi"]
  <2> DEFINE o(l) == OffsetFor(sync_data, l)
  <2>1. PICK l \in 0..Jitter :
          isr' = [todo |-> Halves, value |-> o(l), carry |-> o(l)["hi"] # offset["hi"]]
    BY DEF Apply
  <2> HIDE DEF o
  <2> QED BY <2>1
<1>3. Unbroken /\ Unbroken' /\ Halves' = Halves
  BY <1>1 DEF Unbroken, Halves
<1>4. Stored'
  BY <1>1, <1>2, <1>3, TrueFixed DEF Stored
<1>5. Loaded'
  BY <1>1, <1>3, TrueFixed DEF Loaded, Halves
<1> QED BY <1>4, <1>5

\* It stores one half.
LEMMA HalfStores ==
  ASSUME BaseInv, Stored, Loaded, NEW h \in Halves, StoreOffset(h)
  PROVE  Stored' /\ Loaded'
<1> DEFINE v == isr.value
<1>1. /\ h \in isr.todo /\ offset' = [offset EXCEPT ![h] = v[h]]
      /\ has_synced' = (has_synced \/ isr.todo = {h})
      /\ isr' = [isr EXCEPT !.todo = isr.todo \ {h}]
      /\ Meets
  BY DEF StoreOffset
<1>2. /\ isr \in [todo : SUBSET Halves, value : Offset, carry : BOOLEAN]
      /\ task \in [kind : {"idle", "read", "write"}, todo : SUBSET Halves, value : Offset,
                   sure : BOOLEAN, met : BOOLEAN]
      /\ offset \in Offset /\ has_synced \in BOOLEAN
  BY DEF BaseInv, TypeOK
<1>3. isr'.todo = isr.todo \ {h} /\ isr'.value = v /\ isr'.carry = isr.carry
  BY <1>1, <1>2
<1>4. /\ v \in TrueOffsets /\ v \in Offset
      /\ \A g \in Halves \ isr.todo : offset[g] = v[g]
      /\ isr.carry \/ offset["hi"] = v["hi"]
  BY <1>1, TrueTyped DEF Stored
<1>5. offset' \in Offset /\ \A g \in Halves : offset'[g] = IF g = h THEN v[g] ELSE offset[g]
  BY <1>1, <1>2, <1>4 DEF Offset
<1>6. \A g \in Halves \ isr'.todo : offset'[g] = v[g]
  BY <1>3, <1>4, <1>5
<1>7. ~isr.carry => offset'["hi"] = offset["hi"]
  BY <1>4, <1>5 DEF Halves
<1>8. \A g \in Halves : v[g] \in TrueHalf(g)
  BY <1>4 DEF TrueHalf
<1>9. Halves' = Halves
  BY DEF Halves
<1> HIDE DEF v
<1>10. ASSUME isr.todo = {h} PROVE offset' = v
  <2>1. \A g \in Halves : offset'[g] = v[g]
    BY <1>3, <1>6, <1>10
  <2> QED BY <1>4, <1>5, <2>1, OffsetHalves DEF Halves
<1>11. Stored'
  <2>1. \A g \in Halves : offset'[g] \in {0} \cup TrueHalf(g)
    BY <1>5, <1>8 DEF Stored
  <2>2. ASSUME has_synced' PROVE \A g \in Halves : offset'[g] \in TrueHalf(g)
    <3>1. CASE has_synced
      BY <1>5, <1>8, <3>1 DEF Stored
    <3>2. CASE isr.todo = {h}
      BY <1>8, <1>10, <3>2
    <3> QED BY <1>1, <2>2, <3>1, <3>2
  <2>3. ASSUME has_synced', Unbroken' PROVE offset' \in TrueOffsets
    <3>1. CASE isr.todo = {h}
      BY <1>4, <1>10, <3>1
    <3>2. CASE isr.todo # {h}
      <4>1. has_synced /\ isr'.todo # {} /\ isr'.todo # Halves
        BY <1>1, <1>2, <1>3, <2>3, <3>2
      <4>2. ~isr.carry
        BY <1>3, <1>9, <2>3, <4>1 DEF Unbroken
      <4>3. offset \in TrueOffsets
        BY <4>1, <4>2 DEF Stored, Unbroken
      <4>4. CASE h = "hi"
        <5>1. offset'["hi"] = offset["hi"] /\ offset'["lo"] = offset["lo"]
          BY <1>5, <1>7, <4>2, <4>4 DEF Halves
        <5>2. offset' = offset
          BY <1>2, <1>5, <5>1, OffsetHalves
        <5> QED BY <4>3, <5>2
      <4>5. CASE h = "lo"
        <5>1. offset'["hi"] = v["hi"] /\ offset'["lo"] = v["lo"]
          BY <1>4, <1>5, <4>2, <4>5 DEF Halves
        <5>2. offset' = v
          BY <1>4, <1>5, <5>1, OffsetHalves
        <5> QED BY <1>4, <5>2
      <4> QED BY <4>4, <4>5 DEF Halves
    <3> QED BY <3>1, <3>2
  <2>4. isr.carry \/ offset'["hi"] = v["hi"]
    BY <1>4, <1>7
  <2> QED BY <1>3, <1>4, <1>6, <1>9, <2>1, <2>2, <2>3, <2>4, TrueFixed DEF Stored
<1>12. Loaded'
  <2> SUFFICES ASSUME task'.kind = "read", task'.sure
               PROVE  /\ has_synced'
                      /\ \A g \in Halves \ task'.todo : task'.value[g] \in TrueHalf(g)
                      /\ ~task'.met =>
                           /\ Unbroken'
                           /\ "hi" \notin task'.todo => task'.value["hi"] = offset'["hi"]
                           /\ "lo" \notin task'.todo =>
                                \E o \in TrueOffsets :
                                  o["lo"] = task'.value["lo"] /\ o["hi"] = offset'["hi"]
    BY <1>9, TrueFixed DEF Loaded
  <2>1. /\ task'.kind = task.kind /\ task'.sure = task.sure /\ task'.todo = task.todo
        /\ task'.value = task.value
        /\ task'.met = (task.met \/ (task.kind = "read" /\ isr.carry))
    BY <1>1, <1>2 DEF Meets
  <2>2. has_synced' /\ \A g \in Halves \ task'.todo : task'.value[g] \in TrueHalf(g)
    BY <1>1, <2>1 DEF Loaded
  <2>3. ASSUME ~task'.met
        PROVE  /\ Unbroken'
               /\ "hi" \notin task'.todo => task'.value["hi"] = offset'["hi"]
               /\ "lo" \notin task'.todo =>
                    \E o \in TrueOffsets : o["lo"] = task'.value["lo"] /\ o["hi"] = offset'["hi"]
    <3>1. ~task.met /\ ~isr.carry
      BY <2>1, <2>3
    <3>2. Unbroken' /\ offset'["hi"] = offset["hi"]
      BY <1>3, <1>7, <3>1 DEF Unbroken
    <3> QED BY <2>1, <3>1, <3>2 DEF Loaded
  <2> QED BY <2>2, <2>3
<1> QED BY <1>11, <1>12

LEMMA InterruptUndisturbed ==
  ASSUME BaseInv, QuietLine, HeaderFree(second), Interrupt
  PROVE  QuietLine'
<1>1. CASE ParseByte
  <2>1. /\ Read \in Int /\ Read >= 0 /\ Read' = Read + 1
        /\ UNCHANGED <<offset, has_synced, isr, task>>
    BY <1>1, ParseReads DEF QuietLine
  <2>2. Head(fifo) = Bytes[Read + 1] /\ FifoSound'
    BY <1>1, <2>1, ParseSound DEF QuietLine
  <2>3. InStep' \/ Silent'
    BY <1>1, <2>1, <2>2, ParseInStep, ParseSilent DEF QuietLine
  <2>4. Read' >= 0
    BY <2>1
  <2> QED BY <2>1, <2>2, <2>3, <2>4, SameOffsets DEF QuietLine
<1>2. CASE Apply \/ \E h \in Halves : StoreOffset(h)
  <2>1. /\ UNCHANGED <<second, at, fifo>> /\ new_timestamp
    BY <1>2 DEF Apply, StoreOffset, BaseInv, ParserInv, line
  <2>2. InStep
    BY <2>1 DEF QuietLine, Silent
  <2>3. InStep' /\ isr'.value \in TrueOffsets
    BY <1>2, <2>2, TakesOver
  <2>4. Read' = Read /\ FifoSound' = FifoSound
    BY <2>1 DEF Read, FifoSound, Bytes
  <2>5. Stored' /\ Loaded'
    BY <1>2, <2>3, ApplyStores, HalfStores DEF QuietLine
  <2> QED BY <2>3, <2>4, <2>5 DEF QuietLine
<1> QED BY <1>1, <1>2 DEF Interrupt

\* A read begins.
LEMMA ReadLoaded ==
  ASSUME BaseInv, Stored, ReadTime
  PROVE  Loaded'
<1>1. /\ task' = [kind |-> "read", todo |-> Halves, value |-> Split(0), sure |-> has_synced,
                  met |-> isr.carry /\ isr.todo \notin {{}, Halves}]
      /\ UNCHANGED <<offset, has_synced, isr>>
  BY DEF ReadTime
<1>2. /\ task'.todo = Halves /\ task'.sure = has_synced
      /\ task'.met = (isr.carry /\ isr.todo \notin {{}, Halves})
  BY <1>1
<1>3. Halves' = Halves /\ "hi" \in Halves /\ "lo" \in Halves
  BY DEF Halves
<1>4. ~task'.met => Unbroken'
  BY <1>1, <1>2, <1>3 DEF Unbroken
<1> QED BY <1>1, <1>2, <1>3, <1>4 DEF Loaded

\* It loads one half.
LEMMA LoadLoaded ==
  ASSUME BaseInv, Stored, Loaded, NEW h \in Halves, LoadHalf(h)
  PROVE  Loaded'
<1>1. /\ task.kind = "read" /\ h \in task.todo
      /\ task' = [task EXCEPT !.todo = task.todo \ {h}, !.value[h] = offset[h]]
      /\ UNCHANGED <<offset, has_synced, isr>>
  BY DEF LoadHalf
<1>2. /\ task \in [kind : {"idle", "read", "write"}, todo : SUBSET Halves, value : Offset,
                   sure : BOOLEAN, met : BOOLEAN]
      /\ task.value \in [Halves -> 0..(Half - 1)]
  BY DEF BaseInv, TypeOK, Offset
<1>3. /\ task'.todo = task.todo \ {h} /\ task'.sure = task.sure /\ task'.met = task.met
      /\ \A g \in Halves : task'.value[g] = IF g = h THEN offset[g] ELSE task.value[g]
  BY <1>1, <1>2
<1>4. Halves' = Halves
  BY DEF Halves
<1> SUFFICES ASSUME task.sure
             PROVE  /\ has_synced'
                    /\ \A g \in Halves \ task'.todo : task'.value[g] \in TrueHalf(g)
                    /\ ~task'.met =>
                         /\ Unbroken'
                         /\ "hi" \notin task'.todo => task'.value["hi"] = offset'["hi"]
                         /\ "lo" \notin task'.todo =>
                              \E o \in TrueOffsets :
                                o["lo"] = task'.value["lo"] /\ o["hi"] = offset'["hi"]
  BY <1>3, <1>4, TrueFixed DEF Loaded
<1>5. has_synced /\ \A g \in Halves : offset[g] \in TrueHalf(g)
  BY <1>1 DEF Loaded, Stored
<1>6. \A g \in Halves \ task'.todo : task'.value[g] \in TrueHalf(g)
  BY <1>1, <1>3, <1>5 DEF Loaded
<1>7. ASSUME ~task'.met
      PROVE  /\ Unbroken'
             /\ "hi" \notin task'.todo => task'.value["hi"] = offset'["hi"]
             /\ "lo" \notin task'.todo =>
                  \E o \in TrueOffsets : o["lo"] = task'.value["lo"] /\ o["hi"] = offset'["hi"]
  <2>1. /\ Unbroken
        /\ "hi" \notin task.todo => task.value["hi"] = offset["hi"]
        /\ "lo" \notin task.todo =>
             \E o \in TrueOffsets : o["lo"] = task.value["lo"] /\ o["hi"] = offset["hi"]
    BY <1>1, <1>3, <1>7 DEF Loaded
  <2>2. offset \in TrueOffsets
    BY <1>5, <2>1 DEF Stored
  <2>3. Unbroken' /\ offset' = offset
    BY <1>1, <1>4, <2>1 DEF Unbroken
  <2>4. ASSUME "hi" \notin task'.todo PROVE task'.value["hi"] = offset["hi"]
    BY <1>3, <2>1, <2>4 DEF Halves
  <2>5. ASSUME "lo" \notin task'.todo
        PROVE  \E o \in TrueOffsets : o["lo"] = task'.value["lo"] /\ o["hi"] = offset["hi"]
    <3>1. CASE h = "lo"
      BY <1>3, <2>2, <3>1 DEF Halves
    <3>2. CASE h # "lo"
      BY <1>3, <2>1, <2>5, <3>2 DEF Halves
    <3> QED BY <3>1, <3>2
  <2> QED BY <2>3, <2>4, <2>5
<1> QED BY <1>1, <1>5, <1>6, <1>7

LEMMA TaskUndisturbed ==
  ASSUME BaseInv, QuietLine,
         ReadTime \/ TaskReturns \/ (\E h \in Halves : LoadHalf(h)) \/ UNCHANGED vars
  PROVE  QuietLine'
<1>1. UNCHANGED <<second, at, fifo, state, sync_data, new_timestamp, offset, has_synced, isr>>
  BY DEF ReadTime, TaskReturns, LoadHalf, line, parser, vars
<1>2. Read' = Read /\ FifoSound' = FifoSound
  BY <1>1 DEF Read, FifoSound, Bytes
<1>3. InStep' = InStep /\ Silent' = Silent
  BY <1>1, <1>2, SameParser
<1>4. Stored'
  <2>1. Halves' = Halves
    BY DEF Halves
  <2> QED BY <1>1, <2>1, TrueFixed DEF Stored, Unbroken, QuietLine
<1>5. Loaded'
  <2>1. CASE TaskReturns
    BY <2>1 DEF TaskReturns, Idle, Loaded
  <2>2. CASE UNCHANGED vars
    BY <2>2, SameOffsets DEF vars, QuietLine
  <2> QED BY <2>1, <2>2, ReadLoaded, LoadLoaded DEF QuietLine
<1> QED BY <1>1, <1>2, <1>3, <1>4, <1>5 DEF QuietLine

LEMMA AlwaysUndisturbedInv == Spec => []UndisturbedInv
<1>1. Init => UndisturbedInv
  <2> SUFFICES ASSUME Init PROVE QuietLine
    BY DEF UndisturbedInv
  <2>1. /\ at \in 0..5 /\ fifo = <<>> /\ Len(fifo) = 0 /\ state = "HEADER_0" /\ sync_data = <<>>
        /\ new_timestamp = FALSE /\ has_synced = FALSE /\ offset = Split(0)
        /\ isr.todo = {} /\ task.kind = "idle"
    BY EmptyBytes, Numbers DEF Init, Nothing, Idle
  <2>2. Read >= 0 /\ FifoSound
    BY <2>1 DEF Read, FifoSound
  <2>3. Silent
    BY <2>1 DEF Silent
  <2>4. Stored /\ Loaded
    BY <2>1, TrueTyped DEF Stored, Loaded
  <2> QED BY <2>1, <2>2, <2>3, <2>4 DEF QuietLine
<1>2. BaseInv /\ BaseInv' /\ UndisturbedInv /\ [Next]_vars => UndisturbedInv'
  <2> SUFFICES ASSUME BaseInv, BaseInv', UndisturbedInv, [Next]_vars, Undisturbed'
               PROVE  QuietLine'
    BY DEF UndisturbedInv
  <2>1. /\ Undisturbed /\ HeaderFree(second)
        /\ Good \/ Interrupt \/ ReadTime \/ TaskReturns \/ (\E h \in Halves : LoadHalf(h))
           \/ UNCHANGED vars
    BY StaysUndisturbed
  <2>2. QuietLine
    BY <2>1 DEF UndisturbedInv
  <2> QED BY <2>1, <2>2, GoodUndisturbed, InterruptUndisturbed, TaskUndisturbed
<1> QED BY <1>1, <1>2, AlwaysBaseInv, PTL DEF Spec

\* On a line without faults the device never holds a wrong time, wherever in a
\* packet it began to listen.
THEOREM NeverAFalseTime == Spec => []NoFalseTime
<1>1. UndisturbedInv => NoFalseTime
  BY DEF UndisturbedInv, QuietLine, Stored, NoFalseTime
<1> QED BY <1>1, AlwaysUndisturbedInv, PTL

\* No read that began synchronized mixes halves of two offsets, however the
\* packets move the offset under it, unless one of them carries into the high half.
THEOREM ReadsAreWhole == Spec => []ReadsWhole
<1>1. BaseInv /\ UndisturbedInv => ReadsWhole
  <2> SUFFICES ASSUME BaseInv, QuietLine, task.kind = "read", task.todo = {}, task.sure
               PROVE  /\ \A h \in Halves : task.value[h] \in TrueHalf(h)
                      /\ task.value \in TrueOffsets \/ task.met
    BY DEF UndisturbedInv, ReadsWhole
  <2>1. \A h \in Halves : task.value[h] \in TrueHalf(h)
    BY DEF QuietLine, Loaded
  <2>2. ASSUME ~task.met PROVE task.value \in TrueOffsets
    <3>1. PICK o \in TrueOffsets : o["lo"] = task.value["lo"] /\ o["hi"] = task.value["hi"]
      BY <2>2 DEF QuietLine, Loaded
    <3>2. o \in Offset /\ task.value \in Offset
      BY TrueTyped DEF BaseInv, TypeOK
    <3>3. o = task.value
      BY <3>1, <3>2, OffsetHalves
    <3> QED BY <3>3
  <2> QED BY <2>1, <2>2
<1> QED BY <1>1, AlwaysBaseInv, AlwaysUndisturbedInv, PTL
=============================================================================
