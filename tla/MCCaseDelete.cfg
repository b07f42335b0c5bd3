SPECIFICATION Spec
CONSTANTS
  Procs = {p1, p2}
  Phones = {a, b}
  Artifacts = {mail}
  Tags = {fraud}
  Texts = {text}
  Names = {smith}
  MaxCases = 2
  MaxNotes = 1
PROPERTY DeleteTakesLinked
