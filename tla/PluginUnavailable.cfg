\* The proxy generator fails while an ageing ticket is still valid.
SPECIFICATION Spec
CONSTANTS
  Key = {k1}
  NoKey = NoKey
  FreshAge = 1
  LifeAge = 2
  Skew = 0
  Account = {a1}
  Request = {r1, r2}
  NoRequest = NoRequest
  KeyAccount <- OneAccount
  AstraKey = {k1}
  Limit = 2
  HarvestSlots = 1
  CoolShort = 1
  CoolLong = 2
  BackoffMin = 1
  MaxWait = 0
  Configs <- InScope
  MaxTime = 3
  MaxMint = 2
  MaxCrash = 0
  MaxFault = 0
SYMMETRY RequestSymmetry
PROPERTIES ValidTicketInjected
