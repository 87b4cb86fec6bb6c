\* Trustees 1 and 3 of three are active.
SPECIFICATION Spec
CONSTANTS
    NumTrustees = 3
    Threshold = 2
    Ceremonies <- MixedWithoutSecond
    MaxRestarts = 0
INVARIANT AnyActiveListDecrypts
CHECK_DEADLOCK FALSE
