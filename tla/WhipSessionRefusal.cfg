SPECIFICATION Spec
CONSTANTS
    Answers <- MCAnswers
    Lines <- MCLines
    SdpLines <- MCSdpLines
    MaxCandidates = 3
    ForcesCodecs = FALSE
    AssertsOn = TRUE
INVARIANTS
    RefusalGivesUp
CHECK_DEADLOCK FALSE
