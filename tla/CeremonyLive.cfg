\* Setup done: key generation of three trustees, mixing and decryption of two.
SPECIFICATION FairSpec
CONSTANTS
    NumTrustees = 3
    Threshold = 2
    Ceremonies <- Smooth
    MaxRestarts = 0
INVARIANT NoFailures
PROPERTIES
    KeyGenCompletes
    DecryptionCompletes
CHECK_DEADLOCK FALSE
