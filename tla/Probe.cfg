\* Attempts from any persisted state, answers of up to three events.
SPECIFICATION ProbeSpec
CONSTANTS
  Generators <- TwoGens
  Clash <- Clash2
  IP <- IP1
  NoRoute = NoRoute
  Flaky = TRUE
  Outcomes = {"queued", "failed"}
  MinWait = 2
  DefaultWait = 3
  Waits = {0, 2, 4}
  Interval = 1
  Asked <- AllAnswers
INVARIANTS ProbeTypeOK ReadersAgree StopsAgree
PROPERTIES FailuresRotate SoleGeneratorAlternates
