SPECIFICATION Spec
CONSTANTS
  MaxExtend = 2
  MaxQualifying = 1
  Modulus = 2
  MaxCipher = 3
  MaxAuth = 2
  Blobs <- MCBlobs
  PcrLists <- MCPcrLists
INVARIANTS
  CommandsMeanWhatWasAsked
  AnswersTaken
  QuotesReadBack
