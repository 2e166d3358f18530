SPECIFICATION Spec
CONSTANTS
    Banners <- MCBanners
    Offers <- MCOffers
    Saved <- MCSaved
    MaxInputs = 1
INVARIANTS
    TypeOK
    InSync
    PromptMatched
    RememberedIsAccepted
PROPERTIES
    Settles
    ThreadEnds
CHECK_DEADLOCK FALSE
