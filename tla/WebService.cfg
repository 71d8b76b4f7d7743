CONSTANTS
  Servers = {s1}
  MaxStarts = 2
  Conns = {c1, c2}
  Requests <- MCRequests
  Machines = {"snp"}
  MaxThreads = 2
  MaxRequests = 2
SPECIFICATION WebSpec
INVARIANTS ReportIsOfTheRequest RefusedOnlyForAnother LoadsUnlessTorn
PROPERTIES IdentityKept TokenReachesClient EveryRequestIsAnswered
