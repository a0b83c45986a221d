SPECIFICATION FairSpec
CONSTANTS
    Answers <- MCAnswers
    Lines <- MCLines
    SdpLines <- MCSdpLines
    MaxCandidates = 3
    ForcesCodecs = FALSE
    AssertsOn = TRUE
INVARIANTS
    TypeOK
    OfferHasNoCandidates
    AppliedToPostedOffer
PROPERTIES
    ExchangeSettles
    TasksHandled
    ImplementsExchange
CHECK_DEADLOCK FALSE
