SPECIFICATION Spec
CONSTANTS
  Callers = {c1, c2}
  Hosts = {h1, h2}
  Lo = 2
  Hi = 3
  NoHost = NoHost
INVARIANTS
  Spaced
PROPERTIES
  WaitReturns
