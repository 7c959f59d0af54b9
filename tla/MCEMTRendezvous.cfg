CONSTANTS
    cCpus = 3
    Statuses <- FailuresAndInfo
    MaxRounds = 2
SPECIFICATION FairSpec
CHECK_DEADLOCK FALSE
INVARIANTS OutcomeAgreed Assertions
PROPERTIES ImplementsGathering AllReturn
