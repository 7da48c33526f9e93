SPECIFICATION Spec
CONSTANTS
    r1 = r1  r2 = r2  o1 = o1  a1 = a1  w1 = w1  w2 = w2
    Nobody = Nobody
    Fresh = Fresh
    Actors <- TwoActors
    Assets <- OneAsset
    Stock <- OneUnit
    Holders <- OneOrder
    Need <- OrderNeed
    Window <- OrderWindow
    InboundRequests <- BothRequests
    Submitted <- BothNew
    Revisions <- BothMatched
    Quantities = {2}
    StaffEdits = TRUE
    Crashes = TRUE
SYMMETRY ActorSymmetry
INVARIANTS StockAddsUp QuotedIsReceived
CHECK_DEADLOCK FALSE
CONSTRAINT Bounds
