SPECIFICATION FairSpec
CONSTANTS
  s1 = s1
  s2 = s2
  Sessions = {s1, s2}
  Keys = {k1}
  Val = {1}
  Sizes = {0}
  Offsets = {0}
  Skips = {0}
  Lengths = {1}
  Devices = {0}
  Cmds <- GraphClients
  Graphs <- KernelGraphs
  Alignment = 2
  Tidy = 2
  FirstPtr = 2
  UsePyspike = TRUE
  MaxPtr = 4
  MaxInFlight = 1
PROPERTIES
  GraphFailuresContained
  EveryRequestAnswered
