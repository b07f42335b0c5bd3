SPECIFICATION Spec
CONSTANTS
  Callers = {carrier, voip, source}
  Keys = {url}
  Payloads = {body1, body2}
  None = None
INVARIANTS
  SingleFlight
  OneAnswer
  ErrorHasCause
PROPERTIES
  FollowersReturn
CHECK_DEADLOCK FALSE
