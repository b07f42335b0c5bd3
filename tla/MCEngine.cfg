SPECIFICATION Spec
CONSTANTS
  N <- MCN
  ActiveTier <- MCActiveTier
  PassiveCapable <- MCPassiveCapable
  PostMessenger <- MCPostMessenger
  Messenger <- MCMessenger
  PhotoMessenger <- MCMessenger
  Truecaller <- MCTruecaller
  Spam <- MCSpam
  Options <- MCOptions
INVARIANTS
  GatedUntouched
  ReportConsistent
PROPERTIES
  ImplementsContract
  Completes
