CONSTANTS
  HttpRequest = {"r1"}
  SecretSet = {}
  BetaEnd <- MCBetaEnd
  Lifetime = 1
  MaxAudit = 1
  MaxTime = 3
  MaxRestarts = 1
  Idle = Idle
  NoValue = NoValue
SPECIFICATION HttpSpec
INVARIANTS
  ProToolsForPro
  SignInAskedRightly
