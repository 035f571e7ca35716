CONSTANTS
  Host <- TheHost
  Instrumented = {"save"}
  AllButtons <- TheButtons
  Home = "collector"
  Jobs = {"job1", "job2"}
  TapOrder <- TheTaps
  MaxActions = 3
  ErrorLimit = 2
  Scopes <- SomeOfEach
SPECIFICATION CollectorSpec
CHECK_DEADLOCK FALSE
INVARIANTS
  LayersKept
  ClicksToldApart
  StoreTellsTheTruth
PROPERTIES
  EverythingEnds
