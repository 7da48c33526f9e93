---------------------------- MODULE MCSelfBooking ----------------------------
(***************************************************************************)
(* Small instances of SelfBooking for TLC.                                 *)
(***************************************************************************)
EXTENDS SelfBooking, TLC

CONSTANTS b1, b2, o1, a1, a2, w1, w2

TwoActors == {w1, w2}
ActorSymmetry == Permutations(TwoActors)
TwoAssets == {a1, a2}

\* One booking of a pooled asset and another, one that wants the rest of the
\* pool, and an order that wants all of it.
TwoBookings == {b1, b2}
OneOrder == {o1}
PoolAsset == (b1 :> <<a1, a2>> @@ b2 :> <<a1, a1>>)
PoolQty == (b1 :> <<2, 1>> @@ b2 :> <<1, 1>>)
PoolStock == (a1 :> 3 @@ a2 :> 1)
OrderNeed == (o1 :> (a1 :> 2 @@ a2 :> 0))
OneDay(h) == (h :> [a \in TwoAssets |-> [from |-> 1, until |-> 1]])
OrderWindow == OneDay(o1)

\* Bound: what follows the third disturbance of a behaviour is not explored.
FewDisturbed == Cardinality(disturbed) + Cardinality(late) <= 2
UpAndDown == (a1 :> {-2} @@ a2 :> {1})
==============================================================================
