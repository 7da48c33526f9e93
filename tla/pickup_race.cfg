SPECIFICATION PickupSpec
CONSTANTS
    p1 = p1  p2 = p2  p3 = p3  a1 = a1  a2 = a2  w1 = w1  w2 = w2  cron = cron
    Nobody = Nobody
    PickupCron = cron
    Actors <- TwoWorkers
    PickupActors <- TwoWorkers
    Pickups <- OnePickup
    Holders <- OnePickup
    Assets <- OneAsset
    Pooled <- OneAsset
    Stock <- SoloStock
    Need <- PairNeed
    Window <- WindowOfP1
    Cart <- SingleLines
    PickupStart <- StartOfP1
    PickupEnd <- StartOfP1
    ReturnDue <- DueOfP1
    Undated = {}
    GraceDays = 0
    MaxDay = 1
    MaxAdd <- AddNone
    PickupRequests <- RaceRequests
    Crashes = TRUE
SYMMETRY WorkerSymmetry
INVARIANTS NoPickupLeak CollectedStaysBooked
CHECK_DEADLOCK FALSE
