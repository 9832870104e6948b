\* Two accounts, two workers; the collector is killed once or a worker raises once.
SPECIFICATION LiveSpec
CONSTANTS
  Account = {x1, x2}
  Workers = 2
  MissingEvery = 2
  RenewEvery = 3
  Budget = 1
  Reserve = 1
  Cooldowns = {3}
  MaxTime = 6
  Losses = {"kill", "raise"}
PROPERTIES ChoicesSpaced CyclesEnd ProbesSpaced StopsKept
INVARIANTS TypeOK
