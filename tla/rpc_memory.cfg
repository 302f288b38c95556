SPECIFICATION Spec
CONSTANTS
  s1 = s1
  s2 = s2
  Sessions = {s1, s2}
  Keys = {}
  Val = {1}
  Sizes = {3}
  Offsets = {2}
  Skips = {0, 1}
  Lengths = {1}
  Devices = {0, 1}
  Cmds <- MemoryClients
  Graphs <- MemoryGraphs
  Alignment = 2
  Tidy = 2
  FirstPtr = 2
  UsePyspike = FALSE
  MaxPtr = 8
  MaxInFlight = 1
INVARIANTS
  TypeOK
  AddressesAreOwned
  Accounted
  AnswersMatch
PROPERTIES
  WritesStayHome
