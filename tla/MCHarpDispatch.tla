--------------------------- MODULE MCHarpDispatch ---------------------------
(* A device with three application registers, one per kind of handler.     *)
EXTENDS HarpDispatch, TLC

Handlers == 37 :> "generic" @@ 38 :> "read_only" @@ 39 :> "write_only"

\* addresses of every handler, of the gap and beyond the last register
Asked == {0, 8, 10, 11, 12, 14, 15, 32, 33, 36, 37, 38, 39, 20, 40}

\* NET_SERVER_IP is filled by a restart only, which keeps the state space small
Values ==
  10 :> {{"heartbeat_en"} \cup v : v \in SUBSET {"mode0", "mode1", "mute", "dump"}}
  @@ 11 :> {{"boot_def", "name"}, {"save"}, {"rst_def"}, {"name"}, {"dfu"}}
  @@ 14 :> SUBSET {"lock", "unlock"} \cup {{"lock", "rep_able"}}
  @@ 36 :> {{}, {"enable"}, {"enable", "apply"}, {"apply"}, {"enable", "clear"}, {"cfg_valid"}}
  @@ [a \in {32, 33} |-> {{}, {"text", "last"}}]
  @@ [a \in {8, 37} |-> {{"text"}}] @@ [a \in Asked |-> {{}}]

Sent(type, a, ptype, len, payload) ==
  [type |-> type, address |-> a, ptype |-> ptype, len |-> len, payload |-> payload]

Sample ==
  UNION {{Sent("WRITE", a, PayloadType(a), NumBytes(a), v) : v \in Values[a]} : a \in Asked}
  \cup {Sent("READ", a, PayloadType(a), 0, {}) : a \in Asked}
  \cup {Sent("WRITE", a, PayloadType(a), NumBytes(a) + 1, {}) : a \in {10, 36, 37}}
  \cup {Sent(type, a, "other", 0, {}) : type \in {"READ", "WRITE", "EVENT"}, a \in {10, 37, 40}}
  \cup {Sent("EVENT", a, "U8", 0, {}) : a \in {10, 37}}
=============================================================================
