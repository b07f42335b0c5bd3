SPECIFICATION Spec
CONSTANTS
  Registered <- MCRegistered
  Asked <- MCAsked
  Values <- MCValues
  Similar <- MCSimilar
  MaxEntries <- MCMaxEntries
  Messengers <- MCMessengers
  OtherClaims <- MCOtherClaims
INVARIANTS
  RunsAccount
  ClaimsAccount
  OrderIndependent
  OverallIsBest
PROPERTIES
  Terminates
