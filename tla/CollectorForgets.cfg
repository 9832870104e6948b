\* One worker's exception, and what the others have learnt.
SPECIFICATION Spec
CONSTANTS
  Account = {x1, x2}
  Workers = 2
  MissingEvery = 2
  RenewEvery = 3
  Budget = 2
  Reserve = 1
  Cooldowns = {3, 4}
  MaxTime = 6
  Losses = {"raise"}
SYMMETRY AccountSymmetry
PROPERTIES StopsHonoured
