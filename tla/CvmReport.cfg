CONSTANTS
  Clients = {c1, c2}
  Data = {x, y}
  NoData = none
  Oversized = big
  Chunks = 2
  MaxCalls = 3
SPECIFICATION Spec
INVARIANTS NoStaleUserData
PROPERTIES ImplementsStagedReport
