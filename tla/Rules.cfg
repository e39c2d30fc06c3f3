\* Each rule is asked one question.
CONSTANTS
    PartsOfDay = 2
    IntMax = 7
    MostLines = 4
    Subjects <- MCSubjects
    Triples <- MCTriples
    Ages = {0, 5, 6, 13, 14, 15, 16, 17, 18, 20, 21, 22}
    BirthDates <- MCBirthDates
    Spans = {6, 14, 16, 18}
    Nights <- MCNights
    Families <- MCFamilies
    Grants = {1, 2}
    Moments = {0, 1, 2, 3, 4, 5, 6, 7}
    Currencies = {"RUB", "EUR"}
    Pieces <- MCPieces
    Registries <- MCRegistries
    Histories <- MCHistories
    Versions = {1, 2, 3}
SPECIFICATION Spec
CHECK_DEADLOCK FALSE
INVARIANTS
    RightsAsWritten
    ReasonTellsTheWay
    BirthdaysAgree
    DeadlineIsTrue
    AmountsAreExact
    EveryMailIsReadyOnce
    SecretsAreThereAndDiffer
    AskedWhenNotCovered
