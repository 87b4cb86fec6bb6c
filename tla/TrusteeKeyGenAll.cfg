\* Two trustees, setup done.
SPECIFICATION FairSpec
CONSTANTS
    NumTrustees = 2
    Threshold = 2
    Ceremonies <- KeysOnly
    MaxRestarts = 0
PROPERTY AllTrusteesCompleteKeyGen
CHECK_DEADLOCK FALSE
