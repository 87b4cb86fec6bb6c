\* Election days of two voters (one is in the registry) and two check applications.
SPECIFICATION Spec
CONSTANTS
    VAs = {"v1", "v2"}
    BCAs = {"b1", "b2"}
    Scenarios <- Days
    Registered = {"v1"}
    NetworkTimeout = 0
    MaxRequests = 2
INVARIANTS
    TypeOK
    AuthorizedKeyAuthenticated
    SessionsAreConsistent
    ConfirmedCastIsOnBoard
    ChecksAreSound
PROPERTIES
    OnlyComparedKeysGetRandomizers
    RequestsAreNotReused
CHECK_DEADLOCK FALSE
