CONSTANTS
  Pcrs = {0, 1}
  Foreign = 24
  Selections <- AllShapes
  PerRead = 1
  MaxExtends = 1
  MaxSessions = 2
  MaxObjects = 3
  MaxCalls = 2
SPECIFICATION FairSpec
INVARIANTS SessionsBalanced KeysBalanced RoundTrip EvidenceCoherent
PROPERTIES OpenedUnderAttestedPcrs CallsReturn
