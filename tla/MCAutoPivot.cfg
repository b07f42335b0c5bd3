SPECIFICATION Spec
CONSTANTS
  NEmails = 1
  NKeys = 4
  DepthLimit = 3
INVARIANTS
  DuplicatesHaveOriginals
  LinksMatchChain
PROPERTIES
  ImplementsCrawl
  Terminates
