SPECIFICATION Spec
CONSTANTS
    o1 = o1  o2 = o2  o3 = o3  a1 = a1  a2 = a2  w1 = w1  w2 = w2  cron = cron
    Nobody = Nobody
    Cron = cron
    Orders <- ThreeOrders
    Holders <- ThreeOrders
    Assets <- OneAsset
    Actors <- TwoWorkers
    OrderActors <- TwoWorkers
    Pooled <- OneAsset
    Stock <- TwoUnits
    Need <- ThreeNeed
    Window <- ThreeWindow
    EventStart <- ThreeStart
    EventEnd <- ThreeEnd
    Refurb <- ThreeRefurb
    GraceDays = 14
    MaxDay = 0
    Requests <- RaceRequests
    Crashes = TRUE
INVARIANTS TypeOK NoOversell CheckStaysGood ActiveKeepsHold
PROPERTY ImplementsReservation
SYMMETRY WorkerSymmetry
CHECK_DEADLOCK FALSE
