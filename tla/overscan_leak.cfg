SPECIFICATION PickupSpec
CONSTANTS
    p1 = p1  p2 = p2  p3 = p3  a1 = a1  a2 = a2  w1 = w1  w2 = w2  cron = cron
    Nobody = Nobody
    PickupCron = cron
    Actors <- TwoWorkers
    PickupActors <- TwoWorkers
    Pickups <- OnePickup
    Holders <- OnePickup
    Assets <- TwoAssets
    Pooled <- OneAsset
    Stock <- MixedStock
    Need <- MixedNeed
    Window <- MixedWindow
    Cart <- SingleLines
    PickupStart <- MixedStart
    PickupEnd <- MixedEnd
    ReturnDue <- MixedDue
    Undated = {}
    GraceDays = 1
    MaxDay = 0
    MaxAdd <- AddOne
    PickupRequests <- SerialRequests
    Crashes = FALSE
SYMMETRY WorkerSymmetry
INVARIANT NoPickupLeak
CHECK_DEADLOCK FALSE
