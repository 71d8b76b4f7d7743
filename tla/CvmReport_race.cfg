CONSTANTS
  Clients = {c1, c2}
  Data = {x, y}
  NoData = none
  Oversized = big
  Chunks = 1
  MaxCalls = 2
SPECIFICATION Spec
INVARIANT CarriesOwnUserData
