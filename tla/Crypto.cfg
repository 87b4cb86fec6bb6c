\* Three voters, two of three trustees.
SPECIFICATION Spec
CONSTANTS
    Order = 46337
    NumTrustees = 3
    Threshold = 2
    Ballots = {1, 2}
    BallotWidth = 1
    Runs = {1, 2}
    NumVoters = 3
    Mixings <- CycleOrSwap
INVARIANTS
    AlteredSharesAreRefused
    KeysAgree
    SecretsInterpolate
    CiphertextsVerifyForTheirVoter
    ChecksDisplayTheBallotCast
    OnlyMixesOfTheInputAreSigned
    OnlyRightFactorsAreCombined
    DecryptedBallotsWereCast
CHECK_DEADLOCK FALSE
