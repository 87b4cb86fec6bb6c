\* Two trustees, updates of up to two messages.
SPECIFICATION Spec
CONSTANTS
    NumTrustees = 2
    Threshold = 2
    Ceremonies <- MixedInBatches
    MaxRestarts = 0
INVARIANT BatchesConvert
CHECK_DEADLOCK FALSE
