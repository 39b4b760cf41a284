------------------------ MODULE NetPersistenceProofs ------------------------
(***************************************************************************)
(* Proofs about NetPersistence, for any settings, passwords, failures and  *)
(* restarts.  Persistent is the inductive invariant: TypeOK and one        *)
(* conjunct for each thing flash has to be trusted with.                   *)
(***************************************************************************)
EXTENDS NetPersistence, TLAPS

\* Every snapshot and every blob in flash has Wi-Fi on, so that init() never
\* fills the registers without the apply() that wipes them.
WifiOn ==
  /\ s_cfg # NoCfg => s_cfg.wifi
  /\ nvs # NoCfg => nvs.wifi

\* A password that no host has typed is in the registers only while init()
\* has an apply() to run.
Wiped == (pc = "apply" => ~regs.wifi) /\ ~typed => regs.pw = NoPassword

\* A configuration in use is in flash, unless flash failed or is just written.
InFlash ==
  /\ pc \in {"erase", "boot"} => ~s_reconnect_enabled
  /\ pc # "save" /\ s_reconnect_enabled /\ ~flash_failed => nvs = s_cfg

\* After a CLEAR flash is empty, or the CLEAR has not come to its end.
Cleared ==
  asked = "clear" =>
    \/ pc \in {"clear", "erase"}
    \/ pc \in {"apply", "save", "connect"} /\ clear_next
    \/ pc \in {"idle", "boot"} /\ nvs = NoCfg
    \/ pc = "idle" /\ flash_failed

\* The configuration used before a restart is passed on from flash to the
\* registers and to the snapshot.
Carried ==
  before # NoCfg =>
    \/ pc = "idle" /\ (flash_failed \/ (s_cfg = before /\ s_reconnect_enabled))
    \/ pc = "boot" /\ nvs = before /\ ~clear_next
    \/ pc = "apply" /\ nvs = before /\ regs = before /\ ~clear_next
    \/ /\ pc \in {"save", "connect"} /\ ~clear_next
       /\ nvs = before /\ s_cfg = before /\ s_reconnect_enabled

Persistent == TypeOK /\ WifiOn /\ Wiped /\ InFlash /\ Cleared /\ Carried

-----------------------------------------------------------------------------
\* The zeroed registers are a configuration.
LEMMA BlankTyped == BlankRegs \in Cfg /\ BlankRegs.pw = NoPassword
BY DEF BlankRegs, Cfg

\* A register write leaves a configuration, and changes the fields it names.
LEMMA WrittenTyped ==
  ASSUME NEW c \in Cfg
  PROVE  /\ \A n \in Settings : [c EXCEPT !.net = n] \in Cfg /\ [c EXCEPT !.net = n].pw = c.pw
         /\ \A p \in Password : [c EXCEPT !.pw = p] \in Cfg
BY DEF Cfg

\* The wipe at the end of apply().
LEMMA WipedTyped ==
  ASSUME NEW c \in Cfg
  PROVE  [c EXCEPT !.pw = NoPassword] \in Cfg /\ [c EXCEPT !.pw = NoPassword].pw = NoPassword
BY DEF Cfg

\* The enable bits of R_NET_CONFIG.
LEMMA SwitchedTyped ==
  ASSUME NEW c \in Cfg, NEW w \in BOOLEAN, NEW t \in BOOLEAN
  PROVE  /\ [c EXCEPT !.wifi = w, !.tcp = t] \in Cfg
         /\ [c EXCEPT !.wifi = w, !.tcp = t].pw = c.pw
BY DEF Cfg

\* A failure or a restart takes one from what is left of the budget.
LEMMA SpendTyped ==
  ASSUME left \in [Kinds -> Nat], NEW k \in Kinds, Spend(k)
  PROVE  left' \in [Kinds -> Nat]
BY DEF Spend

\* The registers that are written between messages.
LEMMA WritesPersist ==
  ASSUME Persistent,
         \/ \E n \in Settings : WriteSettings(n)
         \/ \E p \in Password : WritePassword(p)
         \/ \E wifi, tcp, apply, clear \in BOOLEAN : WriteNetConfig(wifi, tcp, apply, clear)
  PROVE  Persistent'
<1>1. ASSUME NEW n \in Settings, WriteSettings(n) PROVE Persistent'
  <2>1. regs' \in Cfg /\ regs'.pw = regs.pw
    <3>1. regs \in Cfg /\ regs' = [regs EXCEPT !.net = n]
      BY <1>1 DEF Persistent, TypeOK, WriteSettings
    <3> QED BY <3>1, WrittenTyped
  <2> QED BY <1>1, <2>1 DEF Persistent, TypeOK, WifiOn, Wiped, InFlash, Cleared, Carried,
             WriteSettings, command, history
<1>2. ASSUME NEW p \in Password, WritePassword(p) PROVE Persistent'
  <2>1. regs' \in Cfg
    BY <1>2, WrittenTyped DEF Persistent, TypeOK, WritePassword
  <2> QED BY <1>2, <2>1 DEF Persistent, TypeOK, WifiOn, Wiped, InFlash, Cleared, Carried,
             WritePassword, command
<1>3. ASSUME NEW wifi \in BOOLEAN, NEW tcp \in BOOLEAN, NEW apply \in BOOLEAN,
             NEW clear \in BOOLEAN, WriteNetConfig(wifi, tcp, apply, clear)
      PROVE Persistent'
  <2>1. regs' \in Cfg /\ regs'.pw = regs.pw
    <3>1. regs \in Cfg /\ regs' = [regs EXCEPT !.wifi = wifi, !.tcp = tcp]
      BY <1>3 DEF Persistent, TypeOK, WriteNetConfig
    <3> QED BY <3>1, SwitchedTyped
  <2>2. /\ pc = "idle"
        /\ pc' = IF apply THEN "apply" ELSE IF clear THEN "clear" ELSE "idle"
        /\ clear_next' = (apply /\ clear)
        /\ asked' = IF clear THEN "clear" ELSE IF apply THEN "apply" ELSE asked
        /\ before' = IF apply \/ clear THEN NoCfg ELSE before
        /\ UNCHANGED <<s_cfg, nvs, s_cmd, s_reconnect_enabled, typed, flash_failed, left>>
    BY <1>3 DEF WriteNetConfig, Go, command
  <2>3. TypeOK'
    BY <2>1, <2>2 DEF Persistent, TypeOK
  <2>4. WifiOn' /\ Wiped' /\ InFlash'
    BY <2>1, <2>2 DEF Persistent, WifiOn, Wiped, InFlash
  <2>5. Cleared' /\ Carried'
    BY <2>2 DEF Persistent, Cleared, Carried
  <2> QED BY <2>3, <2>4, <2>5 DEF Persistent
<1> QED BY <1>1, <1>2, <1>3

\* The steps of apply().
LEMMA ApplyPersists ==
  ASSUME Persistent, ApplyOff \/ ApplySnapshot \/ Save \/ Connect
  PROVE  Persistent'
<1> USE DEF Persistent, Go, command, history
<1>1. CASE ApplyOff
  BY <1>1 DEF ApplyOff, AfterApply, TypeOK, WifiOn, Wiped, InFlash, Cleared, Carried
<1>2. CASE ApplySnapshot
  <2>1. regs' \in Cfg /\ regs'.pw = NoPassword
    <3>1. regs \in Cfg /\ regs' = [regs EXCEPT !.pw = NoPassword]
      BY <1>2 DEF TypeOK, ApplySnapshot
    <3> QED BY <3>1, WipedTyped
  <2>2. s_cfg' = regs /\ regs \in Cfg /\ regs.wifi
    BY <1>2 DEF TypeOK, ApplySnapshot
  <2> QED BY <1>2, <2>1, <2>2 DEF ApplySnapshot, TypeOK, WifiOn, Wiped, InFlash, Cleared, Carried
<1>3. CASE Save
  <2>1. left' \in [Kinds -> Nat]
    BY <1>3, SpendTyped DEF Save, TypeOK, Kinds
  <2>2. s_cfg \in Cfg /\ s_cfg # NoCfg /\ s_cfg.wifi
    BY <1>3, BlankAssumption DEF Save, TypeOK, WifiOn
  <2> QED BY <1>3, <2>1, <2>2 DEF Save, TypeOK, WifiOn, Wiped, InFlash, Cleared, Carried
<1>4. CASE Connect
  <2>1. left' \in [Kinds -> Nat]
    BY <1>4, SpendTyped DEF Connect, TypeOK, Kinds
  <2> QED BY <1>4, <2>1 DEF Connect, AfterApply, TypeOK, WifiOn, Wiped, InFlash, Cleared, Carried
<1> QED BY <1>1, <1>2, <1>3, <1>4

\* The steps of disconnect().
LEMMA ClearPersists ==
  ASSUME Persistent, Clear \/ Erase
  PROVE  Persistent'
<1> USE DEF Persistent, Go, command, history
<1>1. CASE Clear
  BY <1>1 DEF Clear, TypeOK, WifiOn, Wiped, InFlash, Cleared, Carried
<1>2. CASE Erase
  <2>1. regs' \in Cfg /\ regs'.pw = regs.pw
    BY <1>2, SwitchedTyped DEF Erase, TypeOK
  <2>2. left' \in [Kinds -> Nat]
    BY <1>2, SpendTyped DEF Erase, TypeOK, Kinds
  <2> QED BY <1>2, <2>1, <2>2 DEF Erase, TypeOK, WifiOn, Wiped, InFlash, Cleared, Carried
<1> QED BY <1>1, <1>2

\* A restart at any step, and init() after it.
LEMMA BootPersists ==
  ASSUME Persistent, Restart \/ BootRestores \/ BootBlank
  PROVE  Persistent'
<1> USE DEF Persistent, Go, command, history
<1>1. CASE Restart
  <2>1. left' \in [Kinds -> Nat]
    BY <1>1, SpendTyped DEF Restart, TypeOK, Kinds
  <2>2. regs' \in Cfg /\ regs'.pw = NoPassword
    BY <1>1, BlankTyped DEF Restart
  <2>3. TypeOK' /\ WifiOn' /\ Wiped' /\ InFlash'
    BY <1>1, <2>1, <2>2 DEF Restart, InUse, TypeOK, WifiOn, Wiped, InFlash
  <2>4. Cleared'
    BY <1>1 DEF Restart, Cleared
  <2>5. Carried'
    BY <1>1 DEF Restart, InUse, InFlash, Carried
  <2> QED BY <2>3, <2>4, <2>5
<1>2. CASE BootRestores
  BY <1>2 DEF BootRestores, TypeOK, WifiOn, Wiped, InFlash, Cleared, Carried
<1>3. CASE BootBlank
  <2>1. left' \in [Kinds -> Nat]
    BY <1>3, SpendTyped DEF BootBlank, TypeOK, Kinds
  <2> QED BY <1>3, <2>1 DEF BootBlank, TypeOK, WifiOn, Wiped, InFlash, Cleared, Carried
<1> QED BY <1>1, <1>2, <1>3

\* The invariant holds at every step of every behaviour.
LEMMA AlwaysPersistent == Spec => []Persistent
<1>1. Init => Persistent
  BY BlankTyped, BudgetAssumption
     DEF Init, Persistent, TypeOK, WifiOn, Wiped, InFlash, Cleared, Carried
<1>2. Persistent /\ [Next]_vars => Persistent'
  <2> SUFFICES ASSUME Persistent, [Next]_vars PROVE Persistent'
    OBVIOUS
  <2>1. CASE UNCHANGED vars
    BY <2>1 DEF vars, command, history, Persistent, TypeOK, WifiOn, Wiped, InFlash, Cleared, Carried
  <2> QED BY <2>1, WritesPersist, ApplyPersists, ClearPersists, BootPersists DEF Next
<1> QED BY <1>1, <1>2, PTL DEF Spec

-----------------------------------------------------------------------------
\* Registers, snapshot and blob are configurations or none, and apply() has its
\* snapshot when it saves and connects.
THEOREM TypeCorrect == Spec => []TypeOK
BY AlwaysPersistent, PTL DEF Persistent

\* The password is wiped by apply() also when init() restored it, because every
\* blob that can be in flash makes init() call apply().
THEOREM PasswordsAreWiped == Spec => []SecretWiped
<1>1. Persistent => SecretWiped
  BY DEF Persistent, Wiped, SecretWiped
<1> QED BY <1>1, AlwaysPersistent, PTL

\* Whatever fails or restarts in between, the last use of flash decides: if it
\* succeeded, flash holds what is in use and nothing after a CLEAR.
THEOREM FlashHoldsWhatIsUsed == Spec => []FlashAgrees
<1>1. Persistent => FlashAgrees
  BY DEF Persistent, InFlash, Cleared, FlashAgrees
<1> QED BY <1>1, AlwaysPersistent, PTL

\* Any number of restarts, also while init() runs, ends with the configuration
\* that was in use before the first.
THEOREM RestartsResume == Spec => []RestartResumes
<1>1. Persistent => RestartResumes
  BY DEF Persistent, Carried, RestartResumes
<1> QED BY <1>1, AlwaysPersistent, PTL
=============================================================================
