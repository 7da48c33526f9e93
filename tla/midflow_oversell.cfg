SPECIFICATION PickupSpec
CONSTANTS
    p1 = p1  p2 = p2  p3 = p3  a1 = a1  a2 = a2  w1 = w1  w2 = w2  cron = cron
    Nobody = Nobody
    PickupCron = cron
    Actors <- OneWorker
    PickupActors <- OneWorker
    Pickups <- TwoPickups
    Holders <- TwoPickups
    Assets <- OneAsset
    Pooled <- OneAsset
    Stock <- PoolStock
    Need <- PoolNeed
    Window <- PoolWindow
    Cart <- SingleLines
    PickupStart <- PoolStart
    PickupEnd <- PoolEnd
    ReturnDue <- PoolDue
    Undated <- OnlyP2
    GraceDays = 1
    MaxDay = 1
    MaxAdd <- AddOne
    PickupRequests <- MidflowRequests
    Crashes = FALSE
INVARIANT NoOversell
CHECK_DEADLOCK FALSE
