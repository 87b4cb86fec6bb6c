\* Two voters and their ballots, two check applications, custom bulletins.
SPECIFICATION Spec
CONSTANTS
    Connections = {1, 2}
    Auths <- DayAuths
    Ciphertexts <- DayCiphertexts
    Styles = {"s1", "s2"}
    Keys = {"k1", "b1"}
    EncKeys = {"e1"}
    Encryptions = {"r1"}
    Elections = {"election", "other"}
    ElectionHash = "election"
    CustomTypes = {"Custom"}
    Times = {1, 2}
    MaxCustom = 1
CONSTRAINT Bound
INVARIANTS
    TypeOK
    AtMostOneCast
    CastIsLatestSubmission
    UniqueCiphertexts
    ChainIsValid
    RandomizersAreTheSubmitters
PROPERTIES
    SealedAfterCast
    ImplementsLedger
