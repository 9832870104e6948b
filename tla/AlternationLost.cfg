\* Two generators that answer and static exits, every attempt fails.
SPECIFICATION Spec
CONSTANTS
  Generators <- TwoGens
  Clash <- Clash3
  IP <- IP2
  NoRoute = NoRoute
  Flaky = FALSE
  Outcomes = {"failed"}
PROPERTIES DynamicStaticAlternate
