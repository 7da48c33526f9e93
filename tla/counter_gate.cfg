SPECIFICATION SystemSpec
CONSTANTS
    o1 = o1  o2 = o2  p1 = p1  p2 = p2  a1 = a1  ow = ow  oc = oc  pw = pw  pc = pc
    Nobody = Nobody
    Orders <- BothOrders
    Pickups <- BothPickups
    Holders <- Everyone
    Assets <- OneAsset
    Actors <- AllActors
    OrderActors <- OrderSide
    PickupActors <- PickupSide
    Cron = oc
    PickupCron = pc
    Pooled <- OneAsset
    Stock <- TwoUnits
    Need <- TheNeed
    Window <- ApartWindow
    EventStart <- ApartEvent
    EventEnd <- ApartEvent
    Refurb <- NoRefurb
    Cart <- SingleLines
    PickupStart <- ApartPickup
    PickupEnd <- ApartPickup
    ReturnDue <- ApartDue
    Undated = {}
    GraceDays = 1
    MaxDay = 0
    MaxAdd <- AddOne
    Requests <- OrderSideRequests
    PickupRequests <- PickupSideRequests
    Crashes = FALSE
INVARIANT NoOversell
CHECK_DEADLOCK FALSE
