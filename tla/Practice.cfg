SPECIFICATION Spec
CONSTANTS
    None = None
    Nobody = Nobody
    Calls <- MCCalls
    Kind <- MCKind
    Ask <- MCAsk
    Guarded <- MCGuarded
    Fragile = {"accept", "many", "part", "view"}
    Scenes <- MCScenes
    MaxTime = 2
    LinkLife = 1
    ConfirmLife = 1
    SignupLimit = 1
    SignupWindow = 2
    Thresholds <- MCThresholds
    Grace = 1
INVARIANTS
    TypeOK
    OneLetterOneEntry
    WholeOrNothing
    SignupIsHonest
    GuardianStandsOnGround
    EveryReadIsNoted
    PublicationIsOrderly
    BookedOnceAndTold
