SPECIFICATION Spec
CONSTANTS
    b1 = b1  b2 = b2  o1 = o1  a1 = a1  a2 = a2  w1 = w1  w2 = w2
    Nobody = Nobody
    Actors <- TwoActors
    Assets <- TwoAssets
    Stock <- PoolStock
    SelfBookings <- TwoBookings
    LineAsset <- PoolAsset
    LineQty <- PoolQty
    Holders <- OneOrder
    Pickups = {}
    Need <- OrderNeed
    Window <- OrderWindow
    Deltas <- UpAndDown
    MaxAdjusts = 1
SYMMETRY ActorSymmetry
INVARIANTS ReturnsBackedByScans UndisturbedIsCoherent ShortOnlyByLateChecks ChangesAreInLedger
CHECK_DEADLOCK FALSE
CONSTRAINT FewDisturbed
