SPECIFICATION Spec

CONSTANTS
  CAP = 2
  CountMod = 4
  CanStarve = FALSE
  Packets <- SomePackets
  Script <- ShortScript
  DemoEvery = 2
  Timeout = 3
  DataClear = 5
  NoLoad = 2
  Throttle = 3
  Modes <- DemoAndAuto
  Faults <- SomeFaults
  MaxEra = 3

INVARIANTS
  TypeOK
  ShownIsOfThisMode
  LogMatchesWord
  LoadIsNoticed
