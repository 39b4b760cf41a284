--------------------------- MODULE NetPersistence --------------------------
(***************************************************************************)
(* src/src/network_manager.cpp: the network configuration on its way       *)
(* between the R_NET_* registers, the snapshot s_cfg and the cfg_v1 blob   *)
(* in flash: apply(), disconnect(), init(), and the register writes that   *)
(* start the first two.  All of it runs in the Harp task; a restart may    *)
(* come between any two of its steps, and flash and driver calls may fail. *)
(*                                                                         *)
(* Left to NetworkManager: the other tasks, events and sockets.  SSID,     *)
(* server address and port are one value, Settings.                        *)
(***************************************************************************)
EXTENDS Integers

CONSTANTS
  Settings, Blank,        \* R_NET_SSID, R_NET_SERVER_IP, R_NET_SERVER_PORT; as built
  Password, NoPassword,   \* R_NET_PASSWORD; its zeros
  NoCfg,                  \* no blob in flash; the zeroed s_cfg
  Budget                  \* BOUND: failures of flash and driver, and restarts

Kinds == {"flash", "driver", "restart"}
Cfg == [net : Settings \cup {Blank}, pw : Password \cup {NoPassword},
        wifi : BOOLEAN, tcp : BOOLEAN]

ASSUME BlankAssumption ==
  Blank \notin Settings /\ NoPassword \notin Password /\ NoCfg \notin Cfg
ASSUME BudgetAssumption == Budget \in [Kinds -> Nat]

VARIABLES
  regs,            \* the R_NET_* registers
  s_cfg, nvs,      \* snapshot, and what flash holds
  s_cmd, s_reconnect_enabled,
  pc,              \* next step of the Harp task; "idle" between messages
  clear_next,      \* the R_NET_CONFIG write being handled has CLEAR set as well
  asked,           \* history: the last command carried out; "none" after one that a
                   \* restart or flash cut short
  typed,           \* history: a password was written and not yet applied
  flash_failed,    \* history: the last use of flash failed
  before,          \* history: s_cfg when the device was restarted, in use
  left             \* what remains of Budget

command == <<s_cmd, s_reconnect_enabled>>
history == <<asked, typed, flash_failed, before>>
vars == <<regs, s_cfg, nvs, command, pc, clear_next, history, left>>

BlankRegs == [net |-> Blank, pw |-> NoPassword, wifi |-> FALSE, tcp |-> FALSE]

Go(from, to) == pc = from /\ pc' = to
Spend(k)     == left[k] > 0 /\ left' = [left EXCEPT ![k] = @ - 1]

Init ==
  /\ regs = BlankRegs /\ s_cfg = NoCfg /\ nvs = NoCfg
  /\ s_cmd = "DISCONNECT" /\ s_reconnect_enabled = FALSE
  /\ pc = "idle" /\ clear_next = FALSE
  /\ asked = "none" /\ typed = FALSE /\ flash_failed = FALSE /\ before = NoCfg
  /\ left = Budget

-----------------------------------------------------------------------------
(* Register writes of the host                                             *)

WriteSettings(n) ==
  /\ pc = "idle"
  /\ regs' = [regs EXCEPT !.net = n]
  /\ UNCHANGED <<s_cfg, nvs, command, pc, clear_next, history, left>>

WritePassword(p) ==
  /\ pc = "idle"
  /\ regs' = [regs EXCEPT !.pw = p]
  /\ typed' = TRUE
  /\ UNCHANGED <<s_cfg, nvs, command, pc, clear_next, asked, flash_failed, before, left>>

\* R_NET_CONFIG: the enable bits, then APPLY, then CLEAR
WriteNetConfig(wifi, tcp, apply, clear) ==
  /\ Go("idle", IF apply THEN "apply" ELSE IF clear THEN "clear" ELSE "idle")
  /\ regs' = [regs EXCEPT !.wifi = wifi, !.tcp = tcp]
  /\ clear_next' = (apply /\ clear)
  /\ asked' = IF clear THEN "clear" ELSE IF apply THEN "apply" ELSE asked
  /\ before' = IF apply \/ clear THEN NoCfg ELSE before
  /\ UNCHANGED <<s_cfg, nvs, command, typed, flash_failed, left>>

-----------------------------------------------------------------------------
(* apply()                                                                 *)

AfterApply == IF clear_next THEN "clear" ELSE "idle"

\* Wi-Fi not enabled: reconnects stop, and nothing else happens
ApplyOff ==
  /\ Go("apply", AfterApply)
  /\ ~regs.wifi
  /\ s_reconnect_enabled' = FALSE
  /\ UNCHANGED <<regs, s_cfg, nvs, s_cmd, clear_next, history, left>>

\* MUTANT of ApplySnapshot: the registers keep the password
ApplySnapshotNoWipe ==
  /\ Go("apply", "save")
  /\ regs.wifi
  /\ s_cfg' = regs /\ typed' = FALSE
  /\ s_reconnect_enabled' = TRUE
  /\ UNCHANGED <<regs, nvs, s_cmd, clear_next, asked, flash_failed, before, left>>

\* MUTANT of ApplySnapshot: nothing is copied
ApplySnapshotMissing ==
  /\ Go("apply", "save")
  /\ regs.wifi
  /\ regs' = [regs EXCEPT !.pw = NoPassword] /\ typed' = FALSE
  /\ s_reconnect_enabled' = TRUE
  /\ UNCHANGED <<s_cfg, nvs, s_cmd, clear_next, asked, flash_failed, before, left>>

\* the snapshot is taken and the password wiped from the registers
ApplySnapshot ==
  /\ Go("apply", "save")
  /\ regs.wifi
  /\ s_cfg' = regs
  /\ regs' = [regs EXCEPT !.pw = NoPassword] /\ typed' = FALSE
  /\ s_reconnect_enabled' = TRUE
  /\ UNCHANGED <<nvs, s_cmd, clear_next, asked, flash_failed, before, left>>

\* MUTANT of Save: the blob is made from the registers, not from the snapshot
SaveRegs ==
  /\ Go("save", "connect")
  /\ nvs' = regs /\ flash_failed' = FALSE
  /\ UNCHANGED <<regs, s_cfg, command, clear_next, asked, typed, before, left>>

\* save_cfg_to_nvs(); after an error apply() goes on all the same, and flash
\* holds the old blob or, when only the commit failed, the new one
Save ==
  /\ Go("save", "connect")
  /\ \/ nvs' = s_cfg /\ flash_failed' = FALSE /\ UNCHANGED left
     \/ nvs' \in {nvs, s_cfg} /\ flash_failed' = TRUE /\ Spend("flash")
  /\ UNCHANGED <<regs, s_cfg, command, clear_next, asked, typed, before>>

\* esp_wifi_set_config() and esp_wifi_connect(); an error returns early
Connect ==
  /\ Go("connect", AfterApply)
  /\ \/ s_cmd' = "APPLY" /\ UNCHANGED left
     \/ UNCHANGED s_cmd /\ Spend("driver")
  /\ UNCHANGED <<regs, s_cfg, nvs, s_reconnect_enabled, clear_next, history>>

-----------------------------------------------------------------------------
(* disconnect(), as CLEAR calls it                                         *)

Clear ==
  /\ Go("clear", "erase")
  /\ s_cmd' = "DISCONNECT" /\ s_reconnect_enabled' = FALSE
  /\ UNCHANGED <<regs, s_cfg, nvs, clear_next, history, left>>

\* MUTANT of Erase: the blob is erased only when the command was APPLY alone
EraseUnlessBoth ==
  /\ Go("erase", "idle")
  /\ nvs' = (IF clear_next THEN nvs ELSE NoCfg) /\ flash_failed' = FALSE
  /\ regs' = [regs EXCEPT !.wifi = FALSE, !.tcp = FALSE]
  /\ clear_next' = FALSE
  /\ UNCHANGED <<s_cfg, command, asked, typed, before, left>>

\* erase_cfg_from_nvs(), whose errors are only logged; then R_NET_CONFIG = 0
Erase ==
  /\ Go("erase", "idle")
  /\ \/ nvs' = NoCfg /\ flash_failed' = FALSE /\ UNCHANGED left
     \/ nvs' \in {nvs, NoCfg} /\ flash_failed' = TRUE /\ Spend("flash")
  /\ regs' = [regs EXCEPT !.wifi = FALSE, !.tcp = FALSE]
  /\ clear_next' = FALSE
  /\ UNCHANGED <<s_cfg, command, asked, typed, before>>

-----------------------------------------------------------------------------
(* Restart and init()                                                      *)

InUse == pc = "idle" /\ s_reconnect_enabled /\ ~flash_failed

Restart ==
  /\ Spend("restart")
  /\ pc' = "boot"
  /\ before' = IF InUse THEN s_cfg ELSE IF pc = "idle" THEN NoCfg ELSE before
  /\ regs' = BlankRegs /\ s_cfg' = NoCfg
  /\ asked' = IF pc \in {"idle", "boot"} /\ ~flash_failed THEN asked ELSE "none"
  /\ s_cmd' = "DISCONNECT" /\ s_reconnect_enabled' = FALSE
  /\ clear_next' = FALSE /\ typed' = FALSE
  /\ UNCHANGED <<nvs, flash_failed>>

\* load_cfg_from_nvs() finds a blob: registers restored, and apply() if Wi-Fi is on
BootRestores ==
  /\ nvs # NoCfg
  /\ Go("boot", IF nvs.wifi THEN "apply" ELSE "idle")
  /\ regs' = nvs
  /\ UNCHANGED <<s_cfg, nvs, command, clear_next, history, left>>

\* no blob; or it cannot be read; or nvs_flash_init() had to erase the flash
BootBlank ==
  /\ Go("boot", "idle")
  /\ \/ nvs = NoCfg /\ UNCHANGED <<nvs, flash_failed, left>>
     \/ nvs' \in {nvs, NoCfg} /\ flash_failed' = TRUE /\ Spend("flash")
  /\ UNCHANGED <<regs, s_cfg, command, clear_next, asked, typed, before>>

Next ==
  \/ \E n \in Settings : WriteSettings(n)
  \/ \E p \in Password : WritePassword(p)
  \/ \E wifi, tcp, apply, clear \in BOOLEAN : WriteNetConfig(wifi, tcp, apply, clear)
  \/ ApplyOff \/ ApplySnapshot \/ Save \/ Connect
  \/ Clear \/ Erase
  \/ Restart \/ BootRestores \/ BootBlank

Spec == Init /\ [][Next]_vars

-----------------------------------------------------------------------------
TypeOK ==
  /\ regs \in Cfg /\ s_cfg \in Cfg \cup {NoCfg} /\ nvs \in Cfg \cup {NoCfg}
  /\ s_cmd \in {"APPLY", "DISCONNECT"} /\ s_reconnect_enabled \in BOOLEAN
  /\ pc \in {"idle", "apply", "save", "connect", "clear", "erase", "boot"}
  /\ clear_next \in BOOLEAN
  /\ asked \in {"none", "apply", "clear"}
  /\ typed \in BOOLEAN /\ flash_failed \in BOOLEAN
  /\ before \in Cfg \cup {NoCfg}
  /\ left \in [Kinds -> Nat]
  /\ pc \in {"save", "connect"} => s_cfg \in Cfg

(* No password outlives the APPLY that used it in the registers, where the
   host could have left it: neither a host's nor the one init() restores.
   The second needs every blob in flash to have Wi-Fi on, or init() would
   fill the registers without the apply() that wipes them.                 *)
SecretWiped == pc = "idle" /\ ~typed => regs.pw = NoPassword

(* Between messages flash agrees with what the device does: it holds the
   configuration in use, and nothing after a CLEAR, unless flash failed.   *)
FlashAgrees ==
  pc = "idle" /\ ~flash_failed =>
    /\ s_reconnect_enabled => nvs = s_cfg
    /\ asked = "clear" => nvs = NoCfg

(* A device restarted, once or again while it starts, comes back with the
   configuration it used, password included
   (test_tcp_wifi_config_reconnect_persistence.py, step 3).                *)
RestartResumes ==
  pc = "idle" /\ before # NoCfg /\ ~flash_failed => s_cfg = before /\ s_reconnect_enabled
=============================================================================
