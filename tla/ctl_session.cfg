SPECIFICATION FairSpec
CONSTANTS
  Clients = {a, b}
  MaxSignals = 3
INVARIANTS
  TypeOK
  SpecialNeverDropped
  UnloadClean
  TimerKept
  ExitAfterStop
PROPERTIES
  ExitHonoured
  InterruptEnds
