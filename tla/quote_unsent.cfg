SPECIFICATION Spec
CONSTANTS
    r1 = r1  r2 = r2  o1 = o1  a1 = a1  w1 = w1  w2 = w2
    Nobody = Nobody
    Fresh = Fresh
    Actors <- TwoActors
    Assets <- OneAsset
    Stock <- OneUnit
    Holders <- OneOrder
    Need <- OrderNeed
    Window <- OrderWindow
    InboundRequests <- OneRequest
    Submitted <- OneNew
    Revisions <- OneMatched
    Quantities = {2}
    StaffEdits = FALSE
    Crashes = FALSE
SYMMETRY ActorSymmetry
INVARIANT QuoteSentIsSent
CHECK_DEADLOCK FALSE
