CONSTANT MaxCalls = 2
SPECIFICATION FairSpec
INVARIANTS UserDataNeverDropped IsolationIsTheMachines TokenAnswersRequest
PROPERTY EveryCallReturns
