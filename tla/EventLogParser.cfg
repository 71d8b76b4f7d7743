CONSTANTS
  Banks <- MCBanks
  MaxEntries = 2
SPECIFICATION FairParserSpec
INVARIANTS ReadsWhatWasLogged
PROPERTY ParserEnds
