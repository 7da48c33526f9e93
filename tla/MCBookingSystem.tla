--------------------------- MODULE MCBookingSystem ---------------------------
(***************************************************************************)
(* Small instances of BookingSystem for TLC: a pool of two units, two      *)
(* orders and two self-pickups.                                            *)
(***************************************************************************)
EXTENDS BookingSystem, TLC

CONSTANTS o1, o2, p1, p2, a1, ow, oc, pw, pc

OneAsset == {a1}
TwoUnits == (a1 :> 2)
BothOrders == {o1, o2}
BothPickups == {p1, p2}
Everyone == BothOrders \cup BothPickups
OrderSide == {ow, oc}
PickupSide == {pw, pc}
AllActors == OrderSide \cup PickupSide
TheNeed == (o1 :> (a1 :> 2) @@ o2 :> (a1 :> 2) @@ p1 :> (a1 :> 1) @@ p2 :> (a1 :> 2))
\* Each cart has one line, or p2 asks for its two units in two lines.
SingleLines == [p \in BothPickups |-> ("first" :> TheNeed[p] @@ "second" :> (a1 :> 0))]
TwoLines == [SingleLines EXCEPT ![p2] = [l \in CartLines |-> (a1 :> 1)]]
NoRefurb == [o \in BothOrders |-> (a1 :> 0)]

Span(f, t) == (a1 :> [from |-> f, until |-> t])

\* All four share day 3, the last day of the orders and the only one of the
\* self-pickups.
SameEvent == [o \in BothOrders |-> 2]
SamePickup == [p \in BothPickups |-> 3]
SameWindow == [h \in BothOrders |-> Span(1, 3)] @@ [h \in BothPickups |-> Span(3, 3)]

\* o1 on days 1 to 3, o2 on days 7 to 9; p1 meets o1 on day 3 only, p2 is
\* within the days of o2 and far from o1.
ApartEvent == (o1 :> 2 @@ o2 :> 8)
ApartPickup == (p1 :> 3 @@ p2 :> 8)
ApartDue == (p1 :> 4 @@ p2 :> 8)
ApartWindow == (o1 :> Span(1, 3) @@ o2 :> Span(7, 9) @@ p1 :> Span(3, 4) @@ p2 :> Span(8, 8))

AddOne == [a \in Assets |-> 1]

OrderSideRequests == {"submit", "cancelOrder"}
PickupSideRequests == {"submit", "cancel"}
OrderQuoting == OrderSideRequests \cup
    {"submitForApproval", "adminApproveQuote", "approveQuote"}
OrderLifecycle == OrderQuoting \cup
    {"returnToLogistics", "markAsNoCost", "progress", "close", "completeOutbound", "completeInbound", "inboundScan"}
PickupsAtNoCost == PickupSideRequests \cup {"markAsNoCost"}
==============================================================================
