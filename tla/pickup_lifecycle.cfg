SPECIFICATION FairPickupSpec
CONSTANTS
    p1 = p1  p2 = p2  p3 = p3  a1 = a1  a2 = a2  w1 = w1  w2 = w2  cron = cron
    Nobody = Nobody
    PickupCron = cron
    Actors <- OneWorker
    PickupActors <- OneWorker
    Pickups <- TwoPickups
    Holders <- TwoPickups
    Assets <- TwoAssets
    Pooled <- OneAsset
    Stock <- PoolStock
    Need <- BothNeed
    Window <- PoolWindow
    Cart <- P2InTwoLines
    PickupStart <- PoolStart
    PickupEnd <- PoolEnd
    ReturnDue <- PoolDue
    Undated <- OnlyP2
    GraceDays = 0
    MaxDay = 3
    MaxAdd <- AddOther
    PickupRequests <- SerialMid
    Crashes = FALSE
PROPERTY OverdueIsCalledBack
INVARIANTS OversellBounded CounterExact
CHECK_DEADLOCK FALSE
