\* Two requests for one key that harvests, the collector, a failing write, and
\* every configuration an operator may apply.
SPECIFICATION Spec
CONSTANTS
  Key = {k1}
  NoKey = NoKey
  FreshAge = 1
  LifeAge = 2
  Skew = 0
  Account = {a1}
  Request = {r1, r2}
  NoRequest = NoRequest
  KeyAccount <- OneAccount
  AstraKey = {k1}
  Limit = 2
  HarvestSlots = 1
  CoolShort = 1
  CoolLong = 2
  BackoffMin = 2
  MaxWait = 0
  Configs <- AnyConfig
  MaxTime = 3
  MaxMint = 2
  MaxCrash = 0
  MaxFault = 1
SYMMETRY RequestSymmetry
INVARIANTS TypeOK SlotAccounting StoreBacksEntries SingleFlight RevokedStaysOut
PROPERTIES AdoptNewer DeniedUntilImport OldAnswersSpareNew
