SPECIFICATION Spec
CONSTANTS
  Settings = {n1, n2}
  Blank = Blank
  Password = {p1}
  NoPassword = NoPassword
  NoCfg = NoCfg
  Budget <- Failing
INVARIANTS TypeOK SecretWiped FlashAgrees RestartResumes
