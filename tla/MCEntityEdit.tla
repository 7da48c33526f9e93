----------------------------- MODULE MCEntityEdit -----------------------------
(***************************************************************************)
(* Small instances of EntityEdit for TLC.                                  *)
(***************************************************************************)
EXTENDS EntityEdit, TLC

CONSTANTS a1, a2, o1, o2, w1, w2

TwoActors == {w1, w2}
ActorSymmetry == Permutations(TwoActors)
TwoAssets == {a1, a2}
TwoOrders == {o1, o2}
OneOrder == {o1}
OnePickup == {o2}

\* o1 wants one unit of each asset on day 1, o2 (a pickup) one of a1 on day 2.
SmallStock == (a1 :> 2 @@ a2 :> 1)
Day(d, e) == [from |-> d, until |-> e]
Holds(x, y, win) == [items |-> (a1 :> x @@ a2 :> y), window |-> win]
AsSubmitted == (o1 :> Holds(1, 1, Day(1, 1)) @@ o2 :> Holds(1, 0, Day(2, 2)))
OneSubmitted == (o1 :> Holds(1, 1, Day(1, 1)))

OneLine == [e \in Pickups |-> Submitted[e].items]

Change(k, a, q, win) == [kind |-> k, asset |-> a, qty |-> q, window |-> win]
ItemChange(k, a, q) == Change(k, a, q, Day(1, 1))
O1Changes == {ItemChange("REMOVE", a2, 1), Change("MOVE", a1, 1, Day(1, 2))}
O2Changes == {ItemChange("UPDATE", a1, 2), ItemChange("ADD", a2, 1)}
BothEdited == (o1 :> O1Changes @@ o2 :> O2Changes)

\* Bound: what follows an overtaken handler is not explored.
NotOvertaken == overtaken = {}
OneEdited == (o1 :> O1Changes)
===============================================================================
