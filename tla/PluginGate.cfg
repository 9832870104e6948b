\* Three requests on two slots, a model that does not harvest, a restart and a
\* failing write; Retry-After up to 3.
SPECIFICATION Spec
CONSTANTS
  Key = {k1}
  NoKey = NoKey
  FreshAge = 1
  LifeAge = 2
  Skew = 0
  Account = {a1}
  Request = {r1, r2, r3}
  NoRequest = NoRequest
  KeyAccount <- OneAccount
  AstraKey = {}
  Limit = 2
  HarvestSlots = 1
  CoolShort = 1
  CoolLong = 2
  BackoffMin = 2
  MaxWait = 3
  Configs <- InScope
  MaxTime = 4
  MaxMint = 0
  MaxCrash = 1
  MaxFault = 1
SYMMETRY RequestSymmetry
INVARIANTS BackoffLeakBounded
PROPERTIES BackoffNeverShrinks
