CONSTANTS
  Pcrs = {0, 1}
  Foreign = 24
  Selections <- MCSelections
  PerRead = 1
  MaxExtends = 2
  MaxEvents = 2
SPECIFICATION FairSpec
INVARIANTS AnswerComplete MatchMeansLogged NoFalseAlarm
PROPERTY ReadReturns
