\* Two registered voters, one who is not, and a check application.
SPECIFICATION FairSpec
CONSTANTS
    VAs = {"v1", "v2", "v3"}
    BCAs = {"b1"}
    Scenarios <- GoodDays
    Registered = {"v1", "v2"}
    NetworkTimeout = 3
    MaxRequests = 2
PROPERTIES
    VotersAreServed
    AuthenticationsEnd
    ChecksShowTheBallot
CHECK_DEADLOCK FALSE
