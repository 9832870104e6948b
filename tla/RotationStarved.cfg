\* One generator and static exits, every attempt fails.
SPECIFICATION Spec
CONSTANTS
  Generators <- OneGen
  Clash <- Clash3
  IP <- IP2
  NoRoute = NoRoute
  Flaky = FALSE
  Outcomes = {"failed"}
PROPERTIES EveryRouteTried
