SPECIFICATION SystemSpec
CONSTANTS
    o1 = o1  o2 = o2  p1 = p1  p2 = p2  a1 = a1  ow = ow  oc = oc  pw = pw  pc = pc
    Nobody = Nobody
    Orders <- BothOrders
    Pickups <- BothPickups
    Holders <- Everyone
    Assets <- OneAsset
    Actors <- AllActors
    OrderActors <- OrderSide
    PickupActors <- PickupSide
    Cron = oc
    PickupCron = pc
    Pooled <- OneAsset
    Stock <- TwoUnits
    Need <- TheNeed
    Window <- SameWindow
    EventStart <- SameEvent
    EventEnd <- SameEvent
    Refurb <- NoRefurb
    Cart <- TwoLines
    PickupStart <- SamePickup
    PickupEnd <- SamePickup
    ReturnDue <- SamePickup
    Undated = {}
    GraceDays = 0
    MaxDay = 2
    MaxAdd <- AddOne
    Requests <- OrderLifecycle
    PickupRequests <- PickupsAtNoCost
    Crashes = TRUE
INVARIANTS OversellExplained EndedFreesStock NoStockLeak
PROPERTY OrderAdmissionFits
CHECK_DEADLOCK FALSE
