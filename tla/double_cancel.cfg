SPECIFICATION PickupSpec
CONSTANTS
    p1 = p1  p2 = p2  p3 = p3  a1 = a1  a2 = a2  w1 = w1  w2 = w2  cron = cron
    Nobody = Nobody
    PickupCron = cron
    Actors <- TwoWorkers
    PickupActors <- TwoWorkers
    Pickups <- ThreePickups
    Holders <- ThreePickups
    Assets <- OneAsset
    Pooled <- OneAsset
    Stock <- PoolStock
    Need <- ThreeNeed
    Window <- SameWindow
    Cart <- SingleLines
    PickupStart <- SameStart
    PickupEnd <- SameStart
    ReturnDue <- SameDue
    Undated = {}
    GraceDays = 1
    MaxDay = 0
    MaxAdd <- AddOne
    PickupRequests <- CancelRequests
    Crashes = FALSE
SYMMETRY WorkerSymmetry
INVARIANT NoOversell
CHECK_DEADLOCK FALSE
