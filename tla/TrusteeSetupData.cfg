\* Two trustees, from nothing.
SPECIFICATION Spec
CONSTANTS
    NumTrustees = 2
    Threshold = 2
    Ceremonies <- SetupOnly
    MaxRestarts = 0
INVARIANT SetupDataInElectionSetup
CHECK_DEADLOCK FALSE
