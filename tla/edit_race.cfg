SPECIFICATION Spec
CONSTANTS
    a1 = a1  a2 = a2  o1 = o1  o2 = o2  w1 = w1  w2 = w2
    Nobody = Nobody
    Actors <- TwoActors
    Assets <- TwoAssets
    Stock <- SmallStock
    Entities <- TwoOrders
    Pickups <- OnePickup
    Submitted <- AsSubmitted
    Largest <- OneLine
    Changes <- BothEdited
SYMMETRY ActorSymmetry
INVARIANTS HoldFollowsContent CounterExact QuoteStands
PROPERTY BookingFits
CHECK_DEADLOCK FALSE
CONSTRAINT NotOvertaken
