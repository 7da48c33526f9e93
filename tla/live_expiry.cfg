SPECIFICATION FairSpec
CONSTANTS
    o1 = o1  o2 = o2  o3 = o3  a1 = a1  a2 = a2  w1 = w1  w2 = w2  cron = cron
    Nobody = Nobody
    Cron = cron
    Orders <- TwoOrders
    Holders <- TwoOrders
    Assets <- TwoAssets
    Actors <- OneWorker
    OrderActors <- OneWorker
    Pooled <- OneAsset
    Stock <- MixedStock
    Need <- MixedNeed
    Window <- MixedWindow
    EventStart <- MixedStart
    EventEnd <- MixedEnd
    Refurb <- MixedRefurb
    GraceDays = 0
    MaxDay = 2
    Requests <- LiveRequests
    Crashes = FALSE
PROPERTIES AdmissionFits StuckQuoteExpires HandlersFinish
INVARIANT AvailableWithinTotal
CHECK_DEADLOCK FALSE
