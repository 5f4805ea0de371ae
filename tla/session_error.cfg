SPECIFICATION Spec
CONSTANTS
  m = m
  s1 = s1
  s2 = s2
  t1 = t1
  c1 = c1
  c2 = c2
  Main = m
  Slots <- MCSlots
  Timers = {t1}
  Actors <- MCActors
  CPUs = {c1, c2}
  CpuOf <- MCCpuOf
  LevelOf <- MCLevelOf
  GroupOf <- MCGroupOf
  INT_MAX = 9
  NGroups = 2
  AsyncGroups = {1}
  EarlyGroups = {2}
  OtfGroups = {}
  SafeGroups = {}
INVARIANTS
  ErrorSkipsEnd
