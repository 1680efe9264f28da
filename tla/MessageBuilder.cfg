SPECIFICATION Spec
CONSTANTS
  DefaultWords = 6
  SingleGrowth = 8
  Clients = {c1}
  Values = {1}
  Made <- MCMade
  Opened <- MCOpened
  RootSize <- NewSize
  FirstWords = 1
  Arenas = {"single", "multi", "buffered"}
  MaxWords = 12
  MaxCaps = 2
  MaxOrphans = 1
  Lists <- MCLists
  MaxSteps = 4
  Uses = {}
INVARIANTS MessageIsDocument NoSharedWords HolesAreZero
CHECK_DEADLOCK FALSE
