\* A restart between the adoption of a candidate and its removal.
SPECIFICATION Spec
CONSTANTS
  Key = {k1}
  NoKey = NoKey
  FreshAge = 1
  LifeAge = 2
  Skew = 0
  Account = {a1}
  Request = {r1, r2}
  NoRequest = NoRequest
  KeyAccount <- OneAccount
  AstraKey = {k1}
  Limit = 2
  HarvestSlots = 1
  CoolShort = 1
  CoolLong = 2
  BackoffMin = 1
  MaxWait = 0
  Configs <- InScope
  MaxTime = 3
  MaxMint = 1
  MaxCrash = 1
  MaxFault = 0
SYMMETRY RequestSymmetry
INVARIANTS RevokedStaysOut
