\* Fairness, with two credentials that share one harvest slot.
SPECIFICATION LiveSpec
CONSTANTS
  Key = {k1, k2}
  NoKey = NoKey
  FreshAge = 1
  LifeAge = 2
  Skew = 0
  Account = {a1}
  Request = {r1, r2}
  NoRequest = NoRequest
  KeyAccount <- OneAccount
  AstraKey = {k1, k2}
  Limit = 2
  HarvestSlots = 1
  CoolShort = 1
  CoolLong = 2
  BackoffMin = 1
  MaxWait = 0
  Configs <- InScope
  MaxTime = 1
  MaxMint = 1
  MaxCrash = 0
  MaxFault = 0
INVARIANTS InjectedTicketFits OneTicketPerKey
PROPERTIES RequestsFinish
