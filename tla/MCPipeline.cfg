CONSTANTS
    Commands <- MCCommands
    Linked <- MCLinked
    Earlier = 1
    MaxLines = 3
SPECIFICATION Spec
INVARIANTS
    ProbesConsented
    CasesHangTogether
    SavedBeforeAnnounced
    FilesCoverBatch
PROPERTY
    Ends
CHECK_DEADLOCK FALSE
