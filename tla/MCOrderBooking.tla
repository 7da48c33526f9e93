--------------------------- MODULE MCOrderBooking ---------------------------
(***************************************************************************)
(* Small instances of OrderBooking for TLC.                                *)
(***************************************************************************)
EXTENDS OrderBooking, TLC

CONSTANTS o1, o2, o3, a1, a2, w1, w2, cron

WindowsOf(Os, As, start, end, refurb) ==
    [o \in Os |-> [a \in As |-> ComputeBookingWindow(start[o], end[o], refurb[o][a])]]

TwoWorkers == {w1, w2, cron}
OneWorker == {w1, cron}

\* Booking: one asset of two units and three orders.  o1 wants both units,
\* o2 and o3 one each.  o1 and o2 meet only on day 3, through the return
\* buffer of one and the preparation buffer of the other; o2 and o3 only on
\* day 5, through the refurbishment days of o3; o1 and o3 are apart.
OneAsset == {a1}
TwoUnits == (a1 :> 2)
ThreeOrders == {o1, o2, o3}
ThreeNeed == (o1 :> (a1 :> 2) @@ o2 :> (a1 :> 1) @@ o3 :> (a1 :> 1))
ThreeStart == (o1 :> 1 @@ o2 :> 4 @@ o3 :> 8)
ThreeEnd == (o1 :> 2 @@ o2 :> 4 @@ o3 :> 8)
ThreeRefurb == (o1 :> (a1 :> 0) @@ o2 :> (a1 :> 0) @@ o3 :> (a1 :> 2))
ThreeWindow == WindowsOf(ThreeOrders, OneAsset, ThreeStart, ThreeEnd, ThreeRefurb)

\* Lifecycle: two orders over a pooled and a serialized asset, events apart.
TwoOrders == {o1, o2}
TwoAssets == {a1, a2}
MixedStock == (a1 :> 2 @@ a2 :> 1)
MixedNeed == (o1 :> (a1 :> 2 @@ a2 :> 1) @@ o2 :> (a1 :> 2 @@ a2 :> 0))
MixedStart == (o1 :> 1 @@ o2 :> 5)
MixedEnd == (o1 :> 1 @@ o2 :> 5)
MixedRefurb == [o \in TwoOrders |-> [a \in TwoAssets |-> 0]]
MixedWindow == WindowsOf(TwoOrders, TwoAssets, MixedStart, MixedEnd, MixedRefurb)

WorkerSymmetry == Permutations({w1, w2})

BookingRequests == {"submit", "approveQuote", "declineQuote", "cancelOrder",
                    "submitForApproval", "adminApproveQuote"}
RaceRequests == BookingRequests \ {"declineQuote"}
AllRequests == BookingRequests \cup
    {"returnToLogistics", "markAsNoCost", "progress", "close", "completeOutbound",
     "completeInbound", "inboundScan", "eventDates", "expire"}
ExpiryRequests == BookingRequests \cup {"returnToLogistics", "markAsNoCost", "expire"}
LiveRequests == AllRequests \ {"returnToLogistics"}
SerialRequests == AllRequests \ {"eventDates", "expire"}
==============================================================================
