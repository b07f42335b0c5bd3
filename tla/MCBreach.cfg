SPECIFICATION Spec
CONSTANTS
  NHosts = 1
  Lo = 2
  Hi = 4
  MinDelay = 5
  NoHost = NoHost
INVARIANTS
  CleanMeansAnswered
PROPERTIES
  SpacedUnlessRetried
  RunReturns
