CONSTANTS
  Clients = {c1, c2}
  MaxObjects = 3
  MaxCalls = 4
SPECIFICATION Spec
INVARIANTS OkMeansPersisted HandlesAccounted AloneLeavesNothing
