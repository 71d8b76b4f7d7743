CONSTANTS
  Clients = {c1, c2}
  Nobody = nobody
  MaxCalls = 3
SPECIFICATION FairSpec
INVARIANTS AnswersOwnCommand
PROPERTIES ImplementsTpmCommand EveryCallReturns
