\* Three trustees, all active.
SPECIFICATION Spec
CONSTANTS
    NumTrustees = 3
    Threshold = 3
    Ceremonies <- MixedByThree
    MaxRestarts = 0
INVARIANT HonestMixesVerify
CHECK_DEADLOCK FALSE
