SPECIFICATION FairSpec
CONSTANTS
  m = m
  s1 = s1
  s2 = s2
  t1 = t1
  c1 = c1
  c2 = c2
  Main = m
  Slots <- MCSlots1
  Timers = {}
  Actors <- MCActors1
  CPUs = {c1, c2}
  CpuOf <- MCCpuOf1
  LevelOf <- MCLevelOf1
  GroupOf <- MCGroupOf1
  INT_MAX = 9
  NGroups = 2
  AsyncGroups = {}
  EarlyGroups = {2}
  OtfGroups = {1}
  SafeGroups = {1}
INVARIANTS
  NothingLeftBehind
PROPERTIES
  InitReturns
  ExitReturns
