CONSTANTS
  Clients = {c1, c2}
  Sizes = {0, 3, 7}
  Chunk = 2
  U16 = 7
  MaxCalls = 3
SPECIFICATION FairSpec
INVARIANTS ReadsWholeIndex TransferLands
PROPERTY EveryCallReturns
