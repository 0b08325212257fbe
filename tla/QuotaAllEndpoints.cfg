SPECIFICATION FairSpec
CONSTANTS
    k1 = k1
    k2 = k2
    r1 = r1
    r2 = r2
    alice = alice
    bob = bob
    root = root
    NoKey = NoKey
    NoWriter = NoWriter
    NoLimit = NoLimit
    Requests = {r1, r2}
    Keys = {k1, k2}
    Users = {alice, bob, root}
    Admins = {root}
    Owner <- MCOwner
    Mixes <- MCMixes
    Limit <- MCOneADay
    WindowLength <- MCDayOfTwo
    ReservationTTL = 2
    MaxRun = 1
    Horizon = 4
INVARIANTS
    TypeOK
    AdmissionWithinLimit
    RowsAccountedFor
    ChargedIffSuccessful
    SendKeepsReservation
PROPERTIES
    OnlyOwnerOrExpiryFrees
    ImplementsLedger
    ReservationStopsCounting
    HandlerEnds
