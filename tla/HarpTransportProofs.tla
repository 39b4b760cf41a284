------------------------- MODULE HarpTransportProofs -------------------------
(* Theorems about HarpTransport, for every header, buffer and frame size,   *)
(* every set of requests and every number of them.                         *)
EXTENDS HarpTransport, SequenceTheorems, TLAPS

-----------------------------------------------------------------------------
(* The helpers of the input handling.                                      *)

\* A frame is a sequence of bytes, as long as its length byte says.
LEMMA FrameTyped ==
  ASSUME NEW r \in Request
  PROVE  /\ Frame(r) \in Seq(Byte) /\ Len(Frame(r)) = FrameLen[r]
         /\ FrameLen[r] \in (HeaderLen + 1)..BufMax
         /\ \A i \in 1..FrameLen[r] : Frame(r)[i] = <<r, i>>
<1>1. FrameLen[r] \in (HeaderLen + 1)..BufMax /\ FrameLen[r] \in Nat
  BY SizeAssumption
<1>2. \A i \in 1..FrameLen[r] : <<r, i>> \in Byte
  BY <1>1, SizeAssumption DEF Byte
<1> QED BY <1>1, <1>2 DEF Frame

\* msg_size() of a buffer that holds a header fits the buffer.
LEMMA MsgSizeTyped ==
  ASSUME NEW b \in Seq(Byte), Len(b) >= HeaderLen
  PROVE  MsgSize(b) \in 0..BufMax
<1>1. 2 \in 1..Len(b)
  BY SizeAssumption
<1>2. b[2] \in Byte
  BY <1>1, ElementOfSeq
<1>3. b[2][1] \in Request
  BY <1>2 DEF Byte
<1>4. FrameLen[b[2][1]] \in 0..BufMax
  BY <1>3, SizeAssumption
<1> QED BY <1>4, SizeAssumption DEF MsgSize

\* An emptied or kept buffer has room, and a read never asks for more than that.
LEMMA RoomTyped ==
  ASSUME NEW b \in Seq(Byte)
  PROVE  /\ Room(b) \in Seq(Byte) /\ Len(Room(b)) < BufMax
         /\ MaxToRead(Room(b)) \in 0..(BufMax - Len(Room(b)))
<1>1. Room(b) \in Seq(Byte) /\ Len(Room(b)) < BufMax /\ Len(Room(b)) \in Nat
  BY SizeAssumption DEF Room
<1>2. Len(Room(b)) >= HeaderLen => MsgSize(Room(b)) \in 0..BufMax
  BY <1>1, MsgSizeTyped
<1> QED BY <1>1, <1>2, SizeAssumption DEF MaxToRead, Least

\* What ReadBytes(t) makes of n bytes: a buffer of bytes that is not too long,
\* and the rest of the stream.
LEMMA ReadTyped ==
  ASSUME NEW b \in Seq(Byte), NEW w \in Seq(Byte),
         NEW n \in 1..Least(Len(w), MaxToRead(Room(b)))
  PROVE  LET c == Room(b) \o SubSeq(w, 1, n)
         IN /\ n \in 1..Len(w)
            /\ c \in Seq(Byte) /\ Len(c) = Len(Room(b)) + n /\ Len(c) <= BufMax
            /\ SubSeq(w, n + 1, Len(w)) \in Seq(Byte)
            /\ Complete(c) => SubSeq(c, 1, MsgSize(c)) \in Seq(Byte)
<1> DEFINE c == Room(b) \o SubSeq(w, 1, n)
<1>1. n \in 1..Len(w) /\ n <= BufMax - Len(Room(b)) /\ Len(w) \in Nat
  BY RoomTyped, SizeAssumption DEF Least
<1>2. SubSeq(w, 1, n) \in Seq(Byte) /\ Len(SubSeq(w, 1, n)) = n
  BY <1>1, SubSeqProperties
<1>3. c \in Seq(Byte) /\ Len(c) = Len(Room(b)) + n
  BY <1>2, RoomTyped, ConcatProperties
<1>4. Len(c) <= BufMax
  BY <1>1, <1>3, RoomTyped, SizeAssumption
<1>5. SubSeq(w, n + 1, Len(w)) \in Seq(Byte)
  BY <1>1, SubSeqProperties
<1> HIDE DEF c
<1>6. ASSUME Complete(c) PROVE SubSeq(c, 1, MsgSize(c)) \in Seq(Byte)
  <2>1. MsgSize(c) \in 0..Len(c)
    BY <1>3, <1>6, MsgSizeTyped DEF Complete
  <2> QED BY <1>3, <2>1, SubSeqProperties
<1> QED BY <1>1, <1>3, <1>4, <1>5, <1>6 DEF c

-----------------------------------------------------------------------------
(* Type correctness, and no transport goes deaf.                           *)

\* Between turns no buffer is full, and none holds a whole message.
Wanting == \A t \in Transport : ~Complete(rx[t]) /\ Len(rx[t]) < BufMax

\* Both for ReadBytes(t), the step that changes the buffers.
LEMMA ReadBytesTyped ==
  ASSUME TypeOK, Wanting, NEW t \in Transport, ReadBytes(t)
  PROVE  TypeOK' /\ Wanting'
<1>1. PICK n \in 1..Least(Len(wire[t]), MaxToRead(Room(rx[t]))) :
        LET c == Room(rx[t]) \o SubSeq(wire[t], 1, n)
        IN /\ wire' = [wire EXCEPT ![t] = SubSeq(@, n + 1, Len(@))]
           /\ rx' = [rx EXCEPT ![t] = IF Complete(c) THEN <<>> ELSE c]
           /\ new_msg' = Complete(c)
           /\ buffered_msg_source' = IF Complete(c) THEN t ELSE buffered_msg_source
           /\ message' = IF Complete(c) THEN SubSeq(c, 1, MsgSize(c)) ELSE message
  BY DEF ReadBytes
<1> DEFINE c == Room(rx[t]) \o SubSeq(wire[t], 1, n)
<1>2. rx[t] \in Seq(Byte) /\ wire[t] \in Seq(Byte)
  BY DEF TypeOK
<1>3. /\ c \in Seq(Byte) /\ Len(c) <= BufMax
      /\ SubSeq(wire[t], n + 1, Len(wire[t])) \in Seq(Byte)
      /\ Complete(c) => SubSeq(c, 1, MsgSize(c)) \in Seq(Byte)
  BY <1>2, ReadTyped
<1>4. /\ wire' = [wire EXCEPT ![t] = SubSeq(wire[t], n + 1, Len(wire[t]))]
      /\ rx' = [rx EXCEPT ![t] = IF Complete(c) THEN <<>> ELSE c]
      /\ new_msg' = Complete(c)
      /\ buffered_msg_source' = IF Complete(c) THEN t ELSE buffered_msg_source
      /\ message' = IF Complete(c) THEN SubSeq(c, 1, MsgSize(c)) ELSE message
  BY <1>1
<1> HIDE DEF c
<1>5. new_msg' \in BOOLEAN /\ (new_msg' <=> buffered_msg_source' # "none")
  <2>1. Complete(c) \in BOOLEAN
    BY DEF Complete
  <2>2. ~new_msg
    BY DEF ReadBytes
  <2> QED BY <1>4, <2>1, <2>2 DEF TypeOK, Transport
<1>6. TypeOK'
  <2>1. wire' \in [Transport -> Seq(Byte)] /\ rx' \in [Transport -> Seq(Byte)]
    BY <1>3, <1>4, EmptySeq DEF TypeOK
  <2>2. buffered_msg_source' \in Transport \cup {"none"} /\ message' \in Seq(Byte)
    BY <1>3, <1>4 DEF TypeOK
  <2>3. pc' \in {"tcp", "cdc", "core"} /\ UNCHANGED <<outstanding, inbox, left, breaks>>
    BY DEF ReadBytes, AfterTurn, hosts
  <2> QED BY <1>5, <2>1, <2>2, <2>3 DEF TypeOK
<1>7. ASSUME NEW u \in Transport PROVE ~Complete(rx'[u]) /\ Len(rx'[u]) < BufMax
  <2>1. CASE u # t
    BY <1>4, <2>1 DEF Wanting, TypeOK
  <2>2. CASE u = t /\ Complete(c)
    BY <1>4, <2>2, SizeAssumption DEF TypeOK, Complete
  <2>3. CASE u = t /\ ~Complete(c)
    <3>1. rx'[u] = c
      BY <1>4, <2>3 DEF TypeOK
    <3>2. Len(c) >= HeaderLen => MsgSize(c) \in 0..BufMax
      BY <1>3, MsgSizeTyped
    <3>3. Len(c) \in Nat
      BY <1>3
    <3> QED BY <1>3, <2>3, <3>1, <3>2, <3>3, SizeAssumption DEF Complete
  <2> QED BY <2>1, <2>2, <2>3
<1> QED BY <1>6, <1>7 DEF Wanting

\* The other steps of run().
LEMMA CoreStepTyped ==
  ASSUME TypeOK, Wanting, CoreStep
  PROVE  TypeOK' /\ Wanting'
<1>1. ASSUME NEW t \in Transport, NoInput(t) PROVE TypeOK' /\ Wanting'
  <2>1. Room(rx[t]) = rx[t] /\ rx[t] \in Seq(Byte)
    <3>1. rx[t] \in Seq(Byte) /\ Len(rx[t]) \in Nat /\ Len(rx[t]) < BufMax
      BY DEF Wanting, TypeOK
    <3> QED BY <3>1, SizeAssumption DEF Room
  <2>2. rx' = rx
    BY <1>1, <2>1 DEF NoInput, TypeOK
  <2> QED BY <1>1, <2>2, SMTT(30) DEF NoInput, AfterTurn, hosts, TypeOK, Wanting
<1>2. CASE HandleMessage
  <2>1. ReplyTo(message) \in Request \cup {Unknown}
    BY DEF ReplyTo
  <2>2. inbox' \in [Transport -> Seq(Request \cup {Unknown})]
    <3>1. \A t \in Transport :
            Append(inbox[t], ReplyTo(message)) \in Seq(Request \cup {Unknown})
      BY <2>1, AppendProperties DEF TypeOK
    <3> QED BY <1>2, <3>1 DEF HandleMessage, TypeOK
  <2>3. UNCHANGED rx /\ <<>> \in Seq(Byte)
    BY <1>2 DEF HandleMessage
  <2> QED BY <1>2, <2>2, <2>3 DEF HandleMessage, ClearMsg, TypeOK, Wanting, Transport
<1>3. CASE NothingToHandle
  BY <1>3 DEF NothingToHandle, hosts, TypeOK, Wanting
<1> QED BY <1>1, <1>2, <1>3, ReadBytesTyped DEF CoreStep, ProcessInput

\* The steps of hosts and sessions, which touch no buffer.
LEMMA HostsTyped ==
  ASSUME TypeOK, Wanting,
         \/ \E t \in Transport, r \in Request : HostSends(t, r)
         \/ \E t \in Transport : HostReceives(t)
         \/ SessionLost
  PROVE  TypeOK' /\ Wanting'
<1> USE DEF device
<1>1. ASSUME NEW t \in Transport, NEW r \in Request, HostSends(t, r)
      PROVE  TypeOK' /\ Wanting'
  <2>1. wire[t] \o Frame(r) \in Seq(Byte)
    BY FrameTyped, ConcatProperties DEF TypeOK
  <2>2. Append(outstanding[t], r) \in Seq(Request)
    BY AppendProperties DEF TypeOK
  <2>3. /\ wire' \in [Transport -> Seq(Byte)] /\ outstanding' \in [Transport -> Seq(Request)]
        /\ left' \in [Transport -> Nat]
    BY <1>1, <2>1, <2>2, SMTT(30) DEF HostSends, TypeOK
  <2>4. UNCHANGED <<rx, new_msg, buffered_msg_source, message, pc, inbox, breaks>>
    BY <1>1 DEF HostSends
  <2> QED BY <2>3, <2>4 DEF TypeOK, Wanting
<1>2. ASSUME NEW t \in Transport, HostReceives(t) PROVE TypeOK' /\ Wanting'
  <2>1. Tail(inbox[t]) \in Seq(Request \cup {Unknown})
    BY <1>2, HeadTailProperties DEF HostReceives, TypeOK
  <2>2. outstanding' \in [Transport -> Seq(Request)]
    <3>1. CASE outstanding[t] = <<>>
      BY <1>2, <3>1 DEF HostReceives, TypeOK
    <3>2. CASE outstanding[t] # <<>>
      <4>1. Tail(outstanding[t]) \in Seq(Request)
        BY <3>2, HeadTailProperties DEF TypeOK
      <4> QED BY <1>2, <3>2, <4>1 DEF HostReceives, TypeOK
    <3> QED BY <3>1, <3>2
  <2> QED BY <1>2, <2>1, <2>2, SMTT(30) DEF HostReceives, TypeOK, Wanting
<1>3. CASE SessionLost
  <2>1. <<>> \in Seq(Byte) /\ <<>> \in Seq(Request) /\ <<>> \in Seq(Request \cup {Unknown})
    OBVIOUS
  <2>2. /\ wire' \in [Transport -> Seq(Byte)] /\ outstanding' \in [Transport -> Seq(Request)]
        /\ inbox' \in [Transport -> Seq(Request \cup {Unknown})]
    BY <1>3, <2>1 DEF SessionLost, TypeOK
  <2>3. breaks' \in Nat /\ UNCHANGED <<rx, new_msg, buffered_msg_source, message, pc, left>>
    BY <1>3 DEF SessionLost, TypeOK
  <2> QED BY <2>2, <2>3 DEF TypeOK, Wanting
<1> QED BY <1>1, <1>2, <1>3

\* Type correctness and Wanting, proved together: the size of a message
\* is only meaningful in a buffer of bytes.
THEOREM TypedAndWanting == Spec => [](TypeOK /\ Wanting)
<1>1. Init => TypeOK /\ Wanting
  <2> SUFFICES ASSUME Init PROVE TypeOK /\ Wanting
    OBVIOUS
  <2>1. <<>> \in Seq(Byte) /\ <<>> \in Seq(Request) /\ <<>> \in Seq(Request \cup {Unknown})
    OBVIOUS
  <2>2. /\ rx \in [Transport -> Seq(Byte)] /\ wire \in [Transport -> Seq(Byte)]
        /\ outstanding \in [Transport -> Seq(Request)]
        /\ inbox \in [Transport -> Seq(Request \cup {Unknown})]
    BY <2>1 DEF Init
  <2>3. TypeOK
    BY <2>1, <2>2, HostAssumption DEF Init, TypeOK, Transport
  <2>4. Wanting
    BY SizeAssumption DEF Init, Wanting, Complete
  <2> QED BY <2>3, <2>4
<1>2. TypeOK /\ Wanting /\ [Next]_vars => (TypeOK /\ Wanting)'
  <2> SUFFICES ASSUME TypeOK, Wanting, [Next]_vars
               PROVE  TypeOK' /\ Wanting'
    OBVIOUS
  <2>1. CASE UNCHANGED vars
    BY <2>1 DEF vars, device, hosts, TypeOK, Wanting
  <2> QED BY <2>1, CoreStepTyped, HostsTyped DEF Next
<1> QED BY <1>1, <1>2, PTL DEF Spec

\* Every variable of the transport has its type, and a message is buffered
\* exactly when its source is known.
THEOREM TypeCorrect == Spec => []TypeOK
BY TypedAndWanting, PTL

\* No sequence of bytes, cuts and lost sessions leaves a buffer in which
\* process_transport_input() would return before every read.
THEOREM NeverDeaf == Spec => []PartialWantsMore
<1>1. TypeOK /\ Wanting => PartialWantsMore
  <2> SUFFICES ASSUME TypeOK, Wanting, NEW t \in Transport PROVE MaxToRead(Room(rx[t])) > 0
    BY DEF PartialWantsMore
  <2>1. rx[t] \in Seq(Byte) /\ Len(rx[t]) \in Nat /\ Len(rx[t]) < BufMax /\ ~Complete(rx[t])
    BY DEF TypeOK, Wanting
  <2>2. Room(rx[t]) = rx[t]
    BY <2>1, SizeAssumption DEF Room
  <2>3. Len(rx[t]) >= HeaderLen => MsgSize(rx[t]) \in 0..BufMax
    BY <2>1, MsgSizeTyped
  <2> QED BY <2>1, <2>2, <2>3, SizeAssumption DEF MaxToRead, Least, Complete
<1> QED BY <1>1, TypedAndWanting, PTL

-----------------------------------------------------------------------------
(* Framing and routing of an orderly host, whatever the other one does.    *)

\* The first k bytes of a frame, and the others.
Got(r, k)     == [i \in 1..k |-> <<r, i>>]
Missing(r, k) == [i \in 1..(FrameLen[r] - k) |-> <<r, i + k>>]

\* Where the one request of transport t can be.
Quiet(t) == outstanding[t] = <<>> /\ rx[t] = <<>> /\ wire[t] = <<>>
            /\ buffered_msg_source # t /\ inbox[t] = <<>>
Arriving(t, r, k) == outstanding[t] = <<r>> /\ rx[t] = Got(r, k) /\ wire[t] = Missing(r, k)
                     /\ buffered_msg_source # t /\ inbox[t] = <<>>
Buffered(t, r) == outstanding[t] = <<r>> /\ rx[t] = <<>> /\ wire[t] = <<>>
                  /\ buffered_msg_source = t /\ message = Frame(r) /\ inbox[t] = <<>>
Answered(t, r) == outstanding[t] = <<r>> /\ rx[t] = <<>> /\ wire[t] = <<>>
                  /\ buffered_msg_source # t /\ inbox[t] = <<r>>

Phase(t) ==
  \/ Quiet(t)
  \/ \E r \in Request : \/ \E k \in 0..(FrameLen[r] - 1) : Arriving(t, r, k)
                        \/ Buffered(t, r) \/ Answered(t, r)

\* Where an orderly host's request is, and that its session holds.
Unbroken(t) == t = "tcp" => breaks = 0
InPhase == \A t \in Transport : Orderly(t) => Phase(t) /\ Unbroken(t)

\* Both are sequences, whatever part of the frame has arrived.
LEMMA PartsTyped ==
  ASSUME NEW r \in Request, NEW k \in 0..FrameLen[r]
  PROVE  /\ Got(r, k) \in Seq(Request \X Nat) /\ Len(Got(r, k)) = k
         /\ \A i \in 1..k : Got(r, k)[i] = <<r, i>>
         /\ Missing(r, k) \in Seq(Request \X Nat) /\ Len(Missing(r, k)) = FrameLen[r] - k
         /\ \A i \in 1..(FrameLen[r] - k) : Missing(r, k)[i] = <<r, i + k>>
<1>1. FrameLen[r] \in Nat /\ k \in Nat /\ FrameLen[r] - k \in Nat
  BY FrameTyped, SizeAssumption
<1>2. \A i \in 1..(FrameLen[r] - k) : <<r, i + k>> \in Request \X Nat
  BY <1>1
<1>3. \A i \in 1..k : <<r, i>> \in Request \X Nat
  BY <1>1
<1> DEFINE n == FrameLen[r] - k
<1>4. Got(r, k) \in Seq(Request \X Nat) /\ Len(Got(r, k)) = k
  BY <1>1, <1>3 DEF Got
<1>5. \A i \in 1..k : Got(r, k)[i] = <<r, i>>
  BY DEF Got
<1>6. Missing(r, k) = [i \in 1..n |-> <<r, i + k>>]
  BY DEF Missing
<1> HIDE DEF n
<1>7. Missing(r, k) \in Seq(Request \X Nat) /\ Len(Missing(r, k)) = n
  BY <1>1, <1>2, <1>6 DEF n
<1>8. \A i \in 1..n : Missing(r, k)[i] = <<r, i + k>>
  BY <1>6
<1> QED BY <1>4, <1>5, <1>7, <1>8 DEF n

\* A sequence that starts like a and goes on like b is their concatenation.
LEMMA Joined ==
  ASSUME NEW S, NEW a \in Seq(S), NEW b \in Seq(S), NEW c \in Seq(S),
         Len(c) = Len(a) + Len(b),
         \A i \in 1..Len(a) : c[i] = a[i],
         \A i \in 1..Len(b) : c[Len(a) + i] = b[i]
  PROVE  a \o b = c
<1>1. Len(a) \in Nat /\ Len(b) \in Nat
  OBVIOUS
<1>2. /\ a \o b \in Seq(S) /\ Len(a \o b) = Len(a) + Len(b)
      /\ \A i \in 1..(Len(a) + Len(b)) : (a \o b)[i] = IF i <= Len(a) THEN a[i] ELSE b[i - Len(a)]
  BY ConcatProperties
<1>3. ASSUME NEW i \in 1..(Len(a) + Len(b)) PROVE (a \o b)[i] = c[i]
  <2>1. CASE i <= Len(a)
    BY <1>1, <1>2, <2>1
  <2>2. CASE i > Len(a)
    <3>1. i - Len(a) \in 1..Len(b) /\ Len(a) + (i - Len(a)) = i /\ ~(i <= Len(a))
      BY <1>1, <2>2
    <3> QED BY <1>2, <3>1
  <2> QED BY <1>1, <2>1, <2>2
<1> QED BY <1>2, <1>3, SeqEqual

\* The part of s from m to n is the sequence that repeats it there.
LEMMA Part ==
  ASSUME NEW S, NEW s \in Seq(S), NEW m \in 1..(Len(s) + 1), NEW n \in (m - 1)..Len(s),
         NEW c \in Seq(S), Len(c) = n - m + 1,
         \A i \in 1..Len(c) : c[i] = s[m + i - 1]
  PROVE  SubSeq(s, m, n) = c
<1>1. Len(s) \in Nat /\ m \in Int /\ n \in Int
  OBVIOUS
<1>2. \A i \in m..n : s[i] \in S
  BY <1>1, ElementOfSeq
<1>3. /\ SubSeq(s, m, n) \in Seq(S) /\ Len(SubSeq(s, m, n)) = IF m <= n THEN n - m + 1 ELSE 0
      /\ \A i \in 1..(n - m + 1) : SubSeq(s, m, n)[i] = s[m + i - 1]
  BY <1>1, <1>2, SubSeqProperties
<1>4. Len(SubSeq(s, m, n)) = n - m + 1
  BY <1>1, <1>3
<1> QED BY <1>3, <1>4, SeqEqual

\* What is got and the first n bytes that are missing are what is then got; the
\* others stay missing.
LEMMA ReadMore ==
  ASSUME NEW r \in Request, NEW k \in 0..(FrameLen[r] - 1),
         NEW n \in 1..(FrameLen[r] - k)
  PROVE  /\ Got(r, k) \o SubSeq(Missing(r, k), 1, n) = Got(r, k + n)
         /\ SubSeq(Missing(r, k), n + 1, FrameLen[r] - k) = Missing(r, k + n)
         /\ Len(Missing(r, k)) = FrameLen[r] - k
<1> DEFINE l == FrameLen[r]
           m == Missing(r, k)
           g == Got(r, k)
           new == [i \in 1..n |-> <<r, i + k>>]
<1>1. l \in Nat
  BY FrameTyped, SizeAssumption
<1>2. k \in 0..(l - 1) /\ n \in 1..(l - k)
  OBVIOUS
<1> HIDE DEF l
<1>a. k \in 0..l /\ k + n \in 0..l
  BY <1>1, <1>2
<1>b. k \in 0..FrameLen[r] /\ k + n \in 0..FrameLen[r]
  BY <1>a DEF l
<1>3. /\ m \in Seq(Request \X Nat) /\ Len(m) = l - k
      /\ \A i \in 1..(l - k) : m[i] = <<r, i + k>>
      /\ g \in Seq(Request \X Nat) /\ Len(g) = k
      /\ \A i \in 1..k : g[i] = <<r, i>>
  BY <1>b, PartsTyped DEF l
<1>4. /\ Got(r, k + n) \in Seq(Request \X Nat) /\ Len(Got(r, k + n)) = k + n
      /\ \A i \in 1..(k + n) : Got(r, k + n)[i] = <<r, i>>
      /\ Missing(r, k + n) \in Seq(Request \X Nat)
      /\ Len(Missing(r, k + n)) = l - (k + n)
      /\ \A i \in 1..(l - (k + n)) : Missing(r, k + n)[i] = <<r, i + (k + n)>>
  BY <1>b, PartsTyped DEF l
<1>5. new \in Seq(Request \X Nat) /\ Len(new) = n /\ \A i \in 1..n : new[i] = <<r, i + k>>
  <2>1. n \in Nat /\ \A i \in 1..n : <<r, i + k>> \in Request \X Nat
    BY <1>1, <1>2
  <2> QED BY <2>1
<1> HIDE DEF m, g, new
<1>6. SubSeq(m, 1, n) = new
  <2>1. 1 \in 1..(Len(m) + 1) /\ n \in (1 - 1)..Len(m) /\ Len(new) = n - 1 + 1
    BY <1>1, <1>2, <1>3, <1>5
  <2>2. ASSUME NEW i \in 1..Len(new) PROVE new[i] = m[1 + i - 1]
    <3>1. i \in 1..n /\ i \in 1..(l - k) /\ 1 + i - 1 = i
      BY <1>1, <1>2, <1>5
    <3> QED BY <1>3, <1>5, <3>1
  <2> QED BY <1>3, <1>5, <2>1, <2>2, Part
<1>7. g \o new = Got(r, k + n)
  <2> DEFINE c == Got(r, k + n)
  <2>1. ASSUME NEW i \in 1..Len(g) PROVE c[i] = g[i]
    <3>1. i \in 1..k /\ i \in 1..(k + n)
      BY <1>1, <1>2, <1>3
    <3> QED BY <1>3, <1>4, <3>1
  <2>2. ASSUME NEW i \in 1..Len(new) PROVE c[Len(g) + i] = new[i]
    <3>1. i \in 1..n /\ k + i \in 1..(k + n) /\ k + i = i + k
      BY <1>1, <1>2, <1>5
    <3>2. c[k + i] = <<r, k + i>>
      BY <1>4, <3>1
    <3> QED BY <1>3, <1>5, <3>1, <3>2
  <2>3. c \in Seq(Request \X Nat) /\ Len(c) = Len(g) + Len(new)
    BY <1>3, <1>4, <1>5
  <2> HIDE DEF c
  <2>4. g \o new = c
    BY <1>3, <1>5, <2>1, <2>2, <2>3, Joined
  <2> QED BY <2>4 DEF c
<1>8. SubSeq(m, n + 1, l - k) = Missing(r, k + n)
  <2> DEFINE c == Missing(r, k + n)
  <2>1. n + 1 \in 1..(Len(m) + 1) /\ l - k \in (n + 1 - 1)..Len(m)
    BY <1>1, <1>2, <1>3, SMTT(30)
  <2>2. c \in Seq(Request \X Nat) /\ Len(c) = l - k - (n + 1) + 1
    BY <1>1, <1>2, <1>4, SMTT(30)
  <2>3. ASSUME NEW i \in 1..Len(c) PROVE c[i] = m[n + 1 + i - 1]
    <3>1. i \in 1..(l - (k + n))
      BY <1>4
    <3>2. n + 1 + i - 1 \in 1..(l - k) /\ n + 1 + i - 1 + k = i + (k + n)
      BY <1>1, <1>2, <3>1
    <3>3. c[i] = <<r, i + (k + n)>> /\ m[n + 1 + i - 1] = <<r, n + 1 + i - 1 + k>>
      BY <1>3, <1>4, <3>1, <3>2
    <3> QED BY <3>2, <3>3
  <2> DEFINE lo == n + 1
             hi == l - k
  <2>4. lo \in 1..(Len(m) + 1) /\ hi \in (lo - 1)..Len(m) /\ Len(c) = hi - lo + 1
    BY <2>1, <2>2
  <2>5. \A i \in 1..Len(c) : c[i] = m[lo + i - 1]
    BY <2>3
  <2> HIDE DEF c, lo, hi
  <2>6. SubSeq(m, lo, hi) = c
    BY <1>3, <2>2, <2>4, <2>5, Part
  <2> QED BY <2>6 DEF c, lo, hi
<1> QED BY <1>3, <1>6, <1>7, <1>8 DEF l, m, g

\* Frames of different requests differ, so a frame is answered as its request.
LEMMA FrameKnown ==
  ASSUME NEW r \in Request
  PROVE  ReplyTo(Frame(r)) = r
<1>1. \A q \in Request : Frame(q)[1] = <<q, 1>>
  <2> SUFFICES ASSUME NEW q \in Request PROVE Frame(q)[1] = <<q, 1>>
    OBVIOUS
  <2>1. 1 \in 1..FrameLen[q]
    BY FrameTyped, SizeAssumption
  <2> QED BY <2>1 DEF Frame
<1>2. \A q \in Request : Frame(q) = Frame(r) => q = r
  BY <1>1
<1> QED BY <1>2 DEF ReplyTo

\* A part of a frame is complete when it is the frame, and is then dispatched.
LEMMA GotWhole ==
  ASSUME NEW r \in Request, NEW k \in 0..FrameLen[r]
  PROVE  /\ Complete(Got(r, k)) <=> k = FrameLen[r]
         /\ SubSeq(Got(r, FrameLen[r]), 1, FrameLen[r]) = Frame(r)
         /\ k = FrameLen[r] => MsgSize(Got(r, k)) = FrameLen[r]
         /\ Room(Got(r, k)) = Got(r, k) \/ k = BufMax
<1>1. /\ FrameLen[r] \in Nat /\ HeaderLen < FrameLen[r] /\ FrameLen[r] <= BufMax
      /\ BufMax \in Nat /\ HeaderLen \in Nat /\ 2 <= HeaderLen
  BY FrameTyped, SizeAssumption
<1>2. /\ Got(r, k) \in Seq(Request \X Nat) /\ Len(Got(r, k)) = k
      /\ \A i \in 1..k : Got(r, k)[i] = <<r, i>>
  BY PartsTyped
<1>3. k >= HeaderLen => MsgSize(Got(r, k)) = FrameLen[r]
  <2>1. k >= HeaderLen => Got(r, k)[2] = <<r, 2>>
    BY <1>1, <1>2
  <2> QED BY <2>1 DEF MsgSize
<1>4. Complete(Got(r, k)) <=> k = FrameLen[r]
  BY <1>1, <1>2, <1>3 DEF Complete
<1>5. SubSeq(Got(r, FrameLen[r]), 1, FrameLen[r]) = Frame(r)
  <2>1. Frame(r) = Got(r, FrameLen[r])
    BY DEF Frame, Got
  <2>2. Frame(r) \in Seq(Byte) /\ Len(Frame(r)) = FrameLen[r]
    BY FrameTyped
  <2>3. SubSeq(Frame(r), 1, Len(Frame(r))) = Frame(r)
    BY <2>2, SubSeqFull
  <2> QED BY <2>1, <2>2, <2>3
<1>6. Room(Got(r, k)) = Got(r, k) \/ k = BufMax
  BY <1>1, <1>2 DEF Room
<1> QED BY <1>1, <1>3, <1>4, <1>5, <1>6

\* A transport that a step neither reads nor answers keeps its phase.
LEMMA Elsewhere ==
  ASSUME NEW u \in Transport, Phase(u), buffered_msg_source # u, buffered_msg_source' # u,
         rx'[u] = rx[u], wire'[u] = wire[u], outstanding'[u] = outstanding[u],
         inbox'[u] = inbox[u]
  PROVE  Phase(u)'
BY DEF Phase, Quiet, Arriving, Buffered, Answered

\* A read moves bytes of the one frame, or dispatches it whole.
LEMMA ReadPhase ==
  ASSUME TypeOK, NEW t \in Transport, Phase(t), ReadBytes(t)
  PROVE  Phase(t)'
<1>1. ~new_msg /\ buffered_msg_source = "none"
  BY DEF ReadBytes, TypeOK
<1>2. PICK n \in 1..Least(Len(wire[t]), MaxToRead(Room(rx[t]))) :
        LET c == Room(rx[t]) \o SubSeq(wire[t], 1, n)
        IN /\ wire' = [wire EXCEPT ![t] = SubSeq(@, n + 1, Len(@))]
           /\ rx' = [rx EXCEPT ![t] = IF Complete(c) THEN <<>> ELSE c]
           /\ buffered_msg_source' = IF Complete(c) THEN t ELSE buffered_msg_source
           /\ message' = IF Complete(c) THEN SubSeq(c, 1, MsgSize(c)) ELSE message
  BY DEF ReadBytes
<1>3. rx[t] \in Seq(Byte) /\ wire[t] \in Seq(Byte)
  BY DEF TypeOK
<1>4. n \in 1..Len(wire[t])
  BY <1>3, ReadTyped
<1>5. PICK r \in Request : \E k \in 0..(FrameLen[r] - 1) : Arriving(t, r, k)
  <2>1. wire[t] # <<>>
    BY <1>3, <1>4
  <2> QED BY <2>1, <1>1 DEF Phase, Quiet, Buffered, Answered
<1>51. PICK k \in 0..(FrameLen[r] - 1) : Arriving(t, r, k)
  BY <1>5
<1>6. /\ rx[t] = Got(r, k) /\ wire[t] = Missing(r, k)
      /\ outstanding[t] = <<r>> /\ inbox[t] = <<>>
  BY <1>51 DEF Arriving
<1>7. /\ FrameLen[r] \in Nat /\ FrameLen[r] <= BufMax /\ BufMax \in Nat /\ k \in 0..FrameLen[r]
      /\ k # BufMax
  BY FrameTyped, SizeAssumption
<1>8. Len(wire[t]) = FrameLen[r] - k
  BY <1>6, <1>7, PartsTyped
<1>9. n \in 1..(FrameLen[r] - k) /\ k + n \in 0..FrameLen[r]
  <2>1. n \in 1..(FrameLen[r] - k)
    BY <1>4, <1>8
  <2> QED BY <1>7, <2>1
<1>10. Room(rx[t]) \o SubSeq(wire[t], 1, n) = Got(r, k + n)
  <2>1. Room(rx[t]) = Got(r, k)
    BY <1>6, <1>7, GotWhole
  <2>2. Got(r, k) \o SubSeq(Missing(r, k), 1, n) = Got(r, k + n)
    BY <1>9, ReadMore
  <2> QED BY <1>6, <2>1, <2>2
<1>11. SubSeq(wire[t], n + 1, Len(wire[t])) = Missing(r, k + n)
  BY <1>6, <1>8, <1>9, ReadMore
<1> DEFINE c == Got(r, k + n)
<1>12. /\ wire' = [wire EXCEPT ![t] = Missing(r, k + n)]
       /\ rx' = [rx EXCEPT ![t] = IF Complete(c) THEN <<>> ELSE c]
       /\ buffered_msg_source' = IF Complete(c) THEN t ELSE "none"
       /\ message' = IF Complete(c) THEN SubSeq(c, 1, MsgSize(c)) ELSE message
  BY <1>1, <1>2, <1>10, <1>11
<1>13. outstanding' = outstanding /\ inbox' = inbox
  BY DEF ReadBytes, hosts
<1>14. Phase(t)'
  <2>1. CASE k + n = FrameLen[r]
    <3>1. Complete(c) /\ MsgSize(c) = FrameLen[r] /\ SubSeq(c, 1, FrameLen[r]) = Frame(r)
      BY <1>9, <2>1, GotWhole
    <3>2. Missing(r, k + n) = <<>>
      <4>1. /\ Missing(r, k + n) \in Seq(Request \X Nat)
            /\ Len(Missing(r, k + n)) = FrameLen[r] - (k + n)
        BY <1>9, PartsTyped
      <4>2. FrameLen[r] - (k + n) = 0
        BY <1>7, <2>1
      <4> QED BY <4>1, <4>2, EmptySeq
    <3> HIDE DEF c
    <3>3. /\ rx'[t] = <<>> /\ wire'[t] = <<>> /\ buffered_msg_source' = t
          /\ message' = Frame(r)
      BY <1>12, <3>1, <3>2 DEF TypeOK
    <3>4. Buffered(t, r)'
      BY <1>6, <1>13, <3>3 DEF Buffered
    <3> QED BY <3>4 DEF Phase
  <2>2. CASE k + n # FrameLen[r]
    <3>1. ~Complete(c)
      BY <1>9, <2>2, GotWhole
    <3>2. k + n \in 0..(FrameLen[r] - 1)
      BY <1>7, <1>9, <2>2
    <3> HIDE DEF c
    <3>3. rx'[t] = c /\ wire'[t] = Missing(r, k + n) /\ buffered_msg_source' = "none"
      BY <1>12, <3>1 DEF TypeOK
    <3>4. Arriving(t, r, k + n)'
      BY <1>6, <1>13, <3>3 DEF Arriving, Transport, c
    <3> QED BY <3>2, <3>4 DEF Phase
  <2> QED BY <2>1, <2>2
<1> QED BY <1>14

\* A read, orderly or not, of one transport says nothing of the other.
LEMMA ReadElsewhere ==
  ASSUME TypeOK, NEW t \in Transport, ReadBytes(t), NEW u \in Transport, u # t, Phase(u)
  PROVE  Phase(u)'
<1>1. buffered_msg_source = "none" /\ buffered_msg_source' \in {t, "none"}
  BY DEF ReadBytes, TypeOK
<1>2. rx'[u] = rx[u] /\ wire'[u] = wire[u]
  BY DEF ReadBytes, TypeOK
<1>3. outstanding' = outstanding /\ inbox' = inbox
  BY DEF ReadBytes, hosts
<1>4. buffered_msg_source # u /\ buffered_msg_source' # u
  BY <1>1 DEF Transport
<1> QED BY <1>2, <1>3, <1>4, Elsewhere

\* The message of transport s is answered to s alone.
LEMMA HandlePhase ==
  ASSUME TypeOK, NEW u \in Transport, Phase(u), HandleMessage
  PROVE  Phase(u)'
<1>1. PICK s \in Transport : buffered_msg_source = s
  BY DEF HandleMessage, TypeOK
<1>2. buffered_msg_source' = "none" /\ UNCHANGED <<rx, wire, outstanding, breaks>>
  BY DEF HandleMessage, ClearMsg
<1>3. CASE s = u
  <2>1. PICK r \in Request : Buffered(u, r)
    BY <1>1, <1>3 DEF Phase, Quiet, Arriving, Answered
  <2>2. ReplyTo(message) = r /\ r # Unknown
    BY <2>1, FrameKnown, HostAssumption DEF Buffered
  <2>3. inbox' = [t \in Transport |-> IF t = u THEN Append(inbox[t], r) ELSE inbox[t]]
    BY <1>1, <1>3, <2>2 DEF HandleMessage, Routes, Transport
  <2>4. inbox[u] = <<>> /\ inbox'[u] = Append(inbox[u], r)
    BY <2>1, <2>3 DEF Buffered
  <2>5. Append(<<>>, r) = <<r>>
    OBVIOUS
  <2>6. inbox'[u] = <<r>>
    BY <2>4, <2>5
  <2>7. Answered(u, r)'
    BY <1>2, <2>1, <2>6 DEF Answered, Buffered, Transport
  <2> QED BY <2>7 DEF Phase
<1>4. CASE s # u
  <2>1. ~Routes(u)
    BY <1>1, <1>4 DEF Routes, Transport
  <2>2. inbox'[u] = inbox[u]
    BY <2>1 DEF HandleMessage
  <2>3. buffered_msg_source # u /\ buffered_msg_source' # u
    BY <1>1, <1>2, <1>4 DEF Transport
  <2> QED BY <1>2, <2>2, <2>3, Elsewhere
<1> QED BY <1>3, <1>4

\* An orderly host sends when its transport is quiet.
LEMMA SendPhase ==
  ASSUME TypeOK, NEW t \in Transport, Window[t] <= 1, Phase(t), NEW r \in Request, HostSends(t, r)
  PROVE  Phase(t)'
<1>1. outstanding[t] = <<>>
  <2>1. outstanding[t] \in Seq(Request) /\ Len(outstanding[t]) \in Nat
    BY DEF TypeOK
  <2>2. Len(outstanding[t]) < Window[t] /\ Window[t] \in Nat
    BY HostAssumption DEF HostSends
  <2>3. Len(outstanding[t]) = 0
    BY <2>1, <2>2
  <2> QED BY <2>1, <2>3, EmptySeq
<1>2. Quiet(t)
  BY <1>1 DEF Phase, Arriving, Buffered, Answered
<1>3. FrameLen[r] \in Nat /\ 0 \in 0..(FrameLen[r] - 1) /\ FrameLen[r] - 0 = FrameLen[r]
  BY FrameTyped, SizeAssumption
<1>4. Got(r, 0) = <<>>
  BY DEF Got
<1>5. Missing(r, 0) = <<>> \o Frame(r)
  <2>1. Missing(r, 0) = Frame(r)
    BY <1>3 DEF Missing, Frame
  <2> QED BY <2>1, FrameTyped, ConcatEmptySeq
<1>6. rx' = rx /\ buffered_msg_source' = buffered_msg_source /\ inbox' = inbox
  BY DEF HostSends, device
<1>7. outstanding'[t] = <<r>> /\ wire'[t] = <<>> \o Frame(r)
  BY <1>2 DEF HostSends, Quiet, TypeOK
<1>8. Arriving(t, r, 0)'
  BY <1>2, <1>4, <1>5, <1>6, <1>7 DEF Arriving, Quiet
<1> QED BY <1>3, <1>8 DEF Phase

\* It finds its answer before that.
LEMMA ReceivePhase ==
  ASSUME TypeOK, NEW t \in Transport, Phase(t), HostReceives(t)
  PROVE  Phase(t)'
<1>1. PICK r \in Request : Answered(t, r)
  BY DEF HostReceives, Phase, Quiet, Arriving, Buffered
<1>2. Tail(<<r>>) = <<>>
  OBVIOUS
<1>3. rx' = rx /\ buffered_msg_source' = buffered_msg_source /\ wire' = wire
  BY DEF HostReceives, device
<1>4. outstanding'[t] = <<>> /\ inbox'[t] = <<>>
  BY <1>1, <1>2 DEF HostReceives, Answered, TypeOK
<1>5. Quiet(t)'
  BY <1>1, <1>3, <1>4 DEF Quiet, Answered
<1> QED BY <1>5 DEF Phase

\* What hosts do on transport t, or the loss of a session, passes u by.
LEMMA HostsElsewhere ==
  ASSUME TypeOK, NEW u \in Transport, Phase(u),
         \/ \E t \in Transport \ {u} : HostReceives(t) \/ \E r \in Request : HostSends(t, r)
         \/ SessionLost /\ u # "tcp"
  PROVE  Phase(u)'
<1>1. UNCHANGED <<rx, buffered_msg_source, message>>
  BY DEF HostReceives, HostSends, SessionLost, device
<1>2. outstanding'[u] = outstanding[u] /\ wire'[u] = wire[u] /\ inbox'[u] = inbox[u]
  BY DEF HostReceives, HostSends, SessionLost, TypeOK
<1> QED BY <1>1, <1>2 DEF Phase, Quiet, Arriving, Buffered, Answered

\* The request of an orderly host is on its way, buffered or answered, and never
\* in two places.
THEOREM OneRequestOnePlace == Spec => []InPhase
<1>1. Init => InPhase
  BY DEF Init, InPhase, Phase, Quiet, Transport, Orderly, Unbroken
<1>2. TypeOK /\ Wanting /\ InPhase /\ [Next]_vars => InPhase'
  <2> SUFFICES ASSUME TypeOK, Wanting, InPhase, [Next]_vars, NEW u \in Transport, Orderly(u)
               PROVE  Phase(u)' /\ Unbroken(u)'
    BY DEF InPhase
  <2>1. Phase(u) /\ Unbroken(u)
    BY DEF InPhase
  <2>2. CASE \/ \E t \in Transport : NoInput(t)
             \/ NothingToHandle \/ UNCHANGED vars
    <3>1. \A t \in Transport : Room(rx[t]) = rx[t]
      BY SizeAssumption DEF Room, Wanting, TypeOK
    <3>2. rx' = rx
      BY <2>2, <3>1 DEF NoInput, NothingToHandle, vars, device, TypeOK
    <3>3. UNCHANGED <<buffered_msg_source, message, wire, outstanding, inbox, breaks>>
      BY <2>2 DEF NoInput, NothingToHandle, vars, device, hosts
    <3> QED BY <2>1, <3>2, <3>3 DEF Phase, Quiet, Arriving, Buffered, Answered, Unbroken
  <2>3. ASSUME NEW t \in Transport, ReadBytes(t) PROVE Phase(u)' /\ Unbroken(u)'
    <3>1. Phase(u)'
      BY <2>1, <2>3, ReadPhase, ReadElsewhere
    <3> QED BY <2>1, <2>3, <3>1 DEF ReadBytes, Unbroken
  <2>4. CASE HandleMessage
    <3>1. Phase(u)'
      BY <2>1, <2>4, HandlePhase
    <3> QED BY <2>1, <2>4, <3>1 DEF HandleMessage, Unbroken
  <2>5. ASSUME NEW t \in Transport, NEW r \in Request, HostSends(t, r)
        PROVE  Phase(u)' /\ Unbroken(u)'
    <3>1. Window[u] <= 1
      BY DEF Orderly
    <3>2. Phase(u)'
      BY <2>1, <2>5, <3>1, SendPhase, HostsElsewhere
    <3> QED BY <2>1, <2>5, <3>2 DEF HostSends, Unbroken
  <2>6. ASSUME NEW t \in Transport, HostReceives(t) PROVE Phase(u)' /\ Unbroken(u)'
    <3>1. Phase(u)'
      BY <2>1, <2>6, ReceivePhase, HostsElsewhere
    <3> QED BY <2>1, <2>6, <3>1 DEF HostReceives, Unbroken
  <2>7. CASE SessionLost
    <3>1. u # "tcp"
      BY <2>1, <2>7 DEF SessionLost, Unbroken
    <3>2. Phase(u)'
      BY <2>1, <2>7, <3>1, HostsElsewhere
    <3> QED BY <3>1, <3>2 DEF Unbroken
  <2> QED BY <2>2, <2>3, <2>4, <2>5, <2>6, <2>7 DEF Next, CoreStep, ProcessInput
<1> QED BY <1>1, <1>2, TypedAndWanting, PTL DEF Spec

\* However the streams are cut into reads, what is dispatched for an orderly host
\* is exactly a frame that it has sent.
THEOREM FramesStayIntact == Spec => []FramesIntact
<1>1. TypeOK /\ InPhase => FramesIntact
  <2> SUFFICES ASSUME TypeOK, InPhase, new_msg, Orderly(buffered_msg_source)
               PROVE  \E r \in Request : message = Frame(r)
    BY DEF FramesIntact
  <2>1. PICK s \in Transport : buffered_msg_source = s
    BY DEF TypeOK
  <2>2. Phase(s)
    BY <2>1 DEF InPhase
  <2> QED BY <2>1, <2>2 DEF Phase, Quiet, Arriving, Buffered, Answered
<1> QED BY <1>1, TypeCorrect, OneRequestOnePlace, PTL

\* An orderly host finds in its inbox nothing but the answer to the request it
\* waits for.
THEOREM AnswersGoHome == Spec => []AnswersMatch
<1>1. InPhase => AnswersMatch
  <2> SUFFICES ASSUME InPhase, NEW t \in Transport, Orderly(t), NEW i \in DOMAIN inbox[t]
               PROVE  i \in DOMAIN outstanding[t] /\ inbox[t][i] = outstanding[t][i]
    BY DEF AnswersMatch
  <2>1. inbox[t] = <<>> \/ inbox[t] = outstanding[t]
    BY DEF InPhase, Phase, Quiet, Arriving, Buffered, Answered
  <2>2. DOMAIN <<>> = {}
    OBVIOUS
  <2> QED BY <2>1, <2>2
<1> QED BY <1>1, OneRequestOnePlace, PTL
=============================================================================
