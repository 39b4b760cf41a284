--------------------------- MODULE HarpTransport ---------------------------
(***************************************************************************)
(* src/src/harp_core.cpp: how HarpCore::run() cuts the TCP and the USB CDC *)
(* byte streams into Harp messages and routes each reply back.             *)
(*                                                                         *)
(* One turn of run() is three steps: process_tcp_input(),                  *)
(* process_cdc_input() and the handling of the message one of them left.   *)
(* Bytes are <<request, position>>; the length byte is the second of the   *)
(* header.  What a register handler does is left to other modules: here a  *)
(* well-formed request is answered once, to the transport it came from.    *)
(***************************************************************************)
EXTENDS Integers, Sequences

CONSTANTS
  Request,      \* the requests a host may send
  FrameLen,     \* request -> bytes of its frame, header to checksum
  HeaderLen,    \* sizeof(msg_header_t)
  BufMax,       \* MAX_PACKET_SIZE
  GarbledSize,  \* msg_size() when the length byte is no length byte (8-bit sum)
  Unknown,      \* the error reply to a message no host has sent
  SendMax,      \* answers that fit the send buffer of the TCP socket
  Window,       \* transport -> requests its host leaves unanswered before it waits
  Sends,        \* BOUND: transport -> requests its host sends
  Breaks        \* BOUND: TCP sessions lost

Transport == {"tcp", "cdc"}
Byte      == Request \X (1..BufMax)

ASSUME SizeAssumption ==
  /\ HeaderLen \in Nat /\ BufMax \in Nat /\ 2 <= HeaderLen /\ HeaderLen < BufMax
  /\ FrameLen \in [Request -> (HeaderLen + 1)..BufMax]
  /\ GarbledSize \in 0..BufMax
ASSUME HostAssumption ==
  /\ Unknown \notin Request /\ SendMax \in Nat \ {0}
  /\ Window \in [Transport -> Nat] /\ Sends \in [Transport -> Nat] /\ Breaks \in Nat

VARIABLES
  rx,                   \* tcp_rx_buffer_ and cdc_rx_buffer_ up to their index
  new_msg, buffered_msg_source,
  message,              \* the msg_size() bytes at active_rx_buffer_
  pc,                   \* next step of run(): "tcp", "cdc" or "core"
  wire,                 \* bytes sent and not yet read, per transport
  outstanding,          \* requests the host has sent and holds no answer to
  inbox,                \* answers on their way to the host
  left, breaks          \* what remains of Sends and Breaks

device == <<rx, new_msg, buffered_msg_source, message, pc>>
hosts  == <<outstanding, inbox, left>>
vars   == <<device, wire, hosts, breaks>>

Frame(r) == [i \in 1..FrameLen[r] |-> <<r, i>>]
Least(a, b) == IF a < b THEN a ELSE b

Init ==
  /\ rx = [t \in Transport |-> <<>>]
  /\ new_msg = FALSE /\ buffered_msg_source = "none" /\ message = <<>>
  /\ pc = "tcp"
  /\ wire = [t \in Transport |-> <<>>]
  /\ outstanding = [t \in Transport |-> <<>>]
  /\ inbox = [t \in Transport |-> <<>>]
  /\ left = Sends /\ breaks = Breaks

-----------------------------------------------------------------------------
(* process_transport_input()                                               *)

\* MUTANT of MsgSize: the checksum byte is forgotten
MsgSizeNoChecksum(b) == IF b[2][2] = 2 THEN FrameLen[b[2][1]] - 1 ELSE GarbledSize

\* header.msg_size(), cut at MAX_PACKET_SIZE (all lengths here are)
MsgSize(b) == IF b[2][2] = 2 THEN FrameLen[b[2][1]] ELSE GarbledSize

\* a full buffer is emptied before anything else
Room(b) == IF Len(b) >= BufMax THEN <<>> ELSE b

MaxToRead(b) ==
  IF Len(b) < HeaderLen THEN BufMax - Len(b)
  ELSE IF MsgSize(b) > Len(b) THEN Least(BufMax - Len(b), MsgSize(b) - Len(b))
  ELSE 0

\* MUTANT of Complete: <= where the code has <
CompleteLate(b) == Len(b) >= HeaderLen /\ Len(b) > MsgSize(b)

Complete(b) == Len(b) >= HeaderLen /\ Len(b) >= MsgSize(b)

AfterTurn(t) == IF t = "tcp" THEN "cdc" ELSE "core"

\* a message is already buffered, there is nothing to read, or no room for it
NoInput(t) ==
  /\ pc = t
  /\ pc' = AfterTurn(t)
  /\ rx' = IF new_msg THEN rx ELSE [rx EXCEPT ![t] = Room(@)]
  /\ UNCHANGED <<new_msg, buffered_msg_source, message, wire, hosts, breaks>>

\* read_fn returns the first n bytes; a completed message takes the surplus
\* bytes of the read with it, for the index goes back to 0
ReadBytes(t) ==
  /\ pc = t /\ ~new_msg
  /\ \E n \in 1..Least(Len(wire[t]), MaxToRead(Room(rx[t]))) :
       LET b == Room(rx[t]) \o SubSeq(wire[t], 1, n)
       IN /\ wire' = [wire EXCEPT ![t] = SubSeq(@, n + 1, Len(@))]
          /\ rx' = [rx EXCEPT ![t] = IF Complete(b) THEN <<>> ELSE b]
          /\ new_msg' = Complete(b)
          /\ buffered_msg_source' = IF Complete(b) THEN t ELSE buffered_msg_source
          /\ message' = IF Complete(b) THEN SubSeq(b, 1, MsgSize(b)) ELSE message
  /\ pc' = AfterTurn(t)
  /\ UNCHANGED <<hosts, breaks>>

\* MUTANT of ProcessInput: CDC waits until TCP holds no partial frame
ProcessInputOneAtATime(t) ==
  \/ NoInput(t)
  \/ (t = "cdc" => rx["tcp"] = <<>>) /\ ReadBytes(t)

\* MUTANT of ProcessInput: TCP waits until CDC holds no partial frame
ProcessInputCdcFirst(t) ==
  \/ NoInput(t)
  \/ (t = "tcp" => rx["cdc"] = <<>>) /\ ReadBytes(t)

ProcessInput(t) == NoInput(t) \/ ReadBytes(t)

-----------------------------------------------------------------------------
(* Handling, reply and clear_msg()                                         *)

\* what the reply is about: the request, or an error for a garbled message
ReplyTo(m) == IF \E r \in Request : m = Frame(r)
              THEN CHOOSE r \in Request : m = Frame(r)
              ELSE Unknown

\* MUTANT of Routes: replies go to both transports, as events do
RoutesBoth(t) == TRUE

\* route_cdc, route_tcp: a reply goes back to the transport of the request
Routes(t) == buffered_msg_source \in {"none", t}

\* MUTANT of ClearMsg: the source of the last message is left behind
ClearMsgKeepsSource == new_msg' = FALSE /\ message' = <<>> /\ UNCHANGED buffered_msg_source

ClearMsg == new_msg' = FALSE /\ buffered_msg_source' = "none" /\ message' = <<>>

\* lwip_send() blocks, and run() with it, until the answer fits
Sendable == Routes("tcp") => Len(inbox["tcp"]) < SendMax

\* a garbled message whose type is neither READ nor WRITE is not answered
HandleMessage ==
  /\ pc = "core" /\ pc' = "tcp"
  /\ new_msg
  /\ \/ /\ Sendable
        /\ inbox' = [t \in Transport |->
                       IF Routes(t) THEN Append(inbox[t], ReplyTo(message)) ELSE inbox[t]]
     \/ ReplyTo(message) = Unknown /\ UNCHANGED inbox
  /\ ClearMsg
  /\ UNCHANGED <<rx, wire, outstanding, left, breaks>>

NothingToHandle ==
  /\ pc = "core" /\ pc' = "tcp"
  /\ ~new_msg
  /\ UNCHANGED <<rx, new_msg, buffered_msg_source, message, wire, hosts, breaks>>

CoreStep == (\E t \in Transport : ProcessInput(t)) \/ HandleMessage \/ NothingToHandle

-----------------------------------------------------------------------------
(* The hosts and the TCP session, as the test scripts use them             *)

HostSends(t, r) ==
  /\ Len(outstanding[t]) < Window[t] /\ left[t] > 0
  /\ outstanding' = [outstanding EXCEPT ![t] = Append(@, r)]
  /\ wire' = [wire EXCEPT ![t] = @ \o Frame(r)]
  /\ left' = [left EXCEPT ![t] = @ - 1]
  /\ UNCHANGED <<device, inbox, breaks>>

\* a host takes what comes for the answer to the oldest request
HostReceives(t) ==
  /\ inbox[t] # <<>>
  /\ inbox' = [inbox EXCEPT ![t] = Tail(@)]
  /\ outstanding' = [outstanding EXCEPT ![t] = IF @ = <<>> THEN @ ELSE Tail(@)]
  /\ UNCHANGED <<device, wire, left, breaks>>

\* the session ends and network_task opens the next: what was under way is
\* lost, tcp_rx_buffer_ and a buffered message are not touched
SessionLost ==
  /\ breaks > 0 /\ breaks' = breaks - 1
  /\ wire' = [wire EXCEPT !["tcp"] = <<>>]
  /\ outstanding' = [outstanding EXCEPT !["tcp"] = <<>>]
  /\ inbox' = [inbox EXCEPT !["tcp"] = <<>>]
  /\ UNCHANGED <<device, left>>

Next ==
  \/ CoreStep
  \/ \E t \in Transport, r \in Request : HostSends(t, r)
  \/ \E t \in Transport : HostReceives(t)
  \/ SessionLost

Spec == Init /\ [][Next]_vars

\* run() is called again and again, and hosts read their answers
FairSpec == Spec /\ WF_vars(CoreStep) /\ \A t \in Transport : WF_vars(HostReceives(t))

-----------------------------------------------------------------------------
TypeOK ==
  /\ rx \in [Transport -> Seq(Byte)]
  /\ new_msg \in BOOLEAN
  /\ buffered_msg_source \in Transport \cup {"none"}
  /\ message \in Seq(Byte)
  /\ pc \in {"tcp", "cdc", "core"}
  /\ wire \in [Transport -> Seq(Byte)]
  /\ outstanding \in [Transport -> Seq(Request)]
  /\ inbox \in [Transport -> Seq(Request \cup {Unknown})]
  /\ left \in [Transport -> Nat] /\ breaks \in Nat
  /\ new_msg <=> buffered_msg_source # "none"

(* Whatever is in an input buffer, the next read asks for at least one byte:
   otherwise process_transport_input() would return before every read and the
   transport would be deaf for ever, whatever the bytes were.              *)
PartialWantsMore == \A t \in Transport : MaxToRead(Room(rx[t])) > 0

\* One request at a time, in one session.  Of two hosts, each may be orderly or not.
Orderly(t) == Window[t] <= 1 /\ (t = "tcp" => Breaks = 0)

(* What is dispatched for an orderly host is exactly one frame it has sent, however
   the stream was cut into reads and whatever the other host sent, pipelined,
   left half-sent or lost.                                                 *)
FramesIntact ==
  new_msg /\ Orderly(buffered_msg_source) => \E r \in Request : message = Frame(r)

(* An orderly host finds only answers to its own requests, in the order it sent
   them, whatever the other host does.                                     *)
AnswersMatch ==
  \A t \in Transport : Orderly(t) => \A i \in DOMAIN inbox[t] :
    i \in DOMAIN outstanding[t] /\ inbox[t][i] = outstanding[t][i]

\* run() asks t for bytes and gets some that were sent.
Delivers(t) == ProcessInput(t) /\ wire' # wire

(* A request of an orderly host over USB, whose bytes do arrive, is answered even
   when TCP stops in the middle of a frame for ever, breaks or pipelines until
   the send buffer is full and run() stands still in lwip_send()
   (test_transport_partial_tcp_does_not_block_usb.py).                     *)
UsbAnswered ==
  Orderly("cdc") /\ SF_vars(Delivers("cdc")) => (outstanding["cdc"] # <<>> ~> outstanding["cdc"] = <<>>)

(* The same of TCP, whatever is left half-sent or pipelined over USB.       *)
TcpAnswered ==
  Orderly("tcp") /\ SF_vars(Delivers("tcp")) => (outstanding["tcp"] # <<>> ~> outstanding["tcp"] = <<>>)

-----------------------------------------------------------------------------
(* What comments and tests say and the code does not do.                   *)

(* After a lost session the host is served like before it
   (test_tcp_wifi_config_reconnect_persistence.py:50-53): with one request at a
   time, every message is still one of its frames.  A partial frame of the old
   session stays in tcp_rx_buffer_.                                        *)
SessionsSeparate == new_msg => \E r \in Request : message = Frame(r)

(* A command that has arrived is accepted (harp_core.cpp:145): for every
   unanswered request there are bytes under way, a message or an answer.  The
   surplus bytes of a read are dropped with the message before them.       *)
CommandsAccepted ==
  \A t \in Transport :
    outstanding[t] # <<>> =>
      rx[t] \o wire[t] # <<>> \/ buffered_msg_source = t \/ inbox[t] # <<>>
=============================================================================
