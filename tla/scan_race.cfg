SPECIFICATION Spec
CONSTANTS
    a1 = a1  a2 = a2  w1 = w1  w2 = w2
    Actors <- TwoActors
    Assets <- TwoAssets
    Pooled <- OneAsset
    Qty <- MixedQty
    MaxEvents = 5
SYMMETRY ActorSymmetry
INVARIANTS UndisturbedCountIsLatest LedgerFollowsEvents ReadyMeansAllOut SettledAsStated
CHECK_DEADLOCK FALSE
CONSTRAINT FewDisturbed
