SPECIFICATION Spec
CONSTANTS
    Codecs <- MCCodecs
    Ids <- MCIds
    Offers <- AllOffers
INVARIANTS
    TypeOK
    FiltersOffer
    OnlyAllowed
    IdsMapped
CHECK_DEADLOCK FALSE
