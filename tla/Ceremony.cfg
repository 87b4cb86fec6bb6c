\* Two trustees: key generation, and mixing and decryption, in trouble, and
\* against the abstract ceremony.
SPECIFICATION Spec
CONSTANTS
    NumTrustees = 2
    Threshold = 2
    Ceremonies <- InTrouble
    MaxRestarts = 1
INVARIANTS
    TypeOK
    BoardsAgree
    ElectionKeyAgreed
    DecryptOnlyFullyMixed
    BallotsAreDecrypted
PROPERTIES
    ImplementsCeremony
CHECK_DEADLOCK FALSE
