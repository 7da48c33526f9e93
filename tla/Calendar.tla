------------------------------- MODULE Calendar -------------------------------
(***************************************************************************)
(* What the lifecycles of orders and of self-pickups have in common beyond *)
(* the stock: the day it is, the stock modes, the grace period of a quote, *)
(* whether handlers die, and the history of what went wrong on the way.    *)
(* Most handlers check a status and later write by id, with no second      *)
(* look; no handler reads the two history variables.  OrderBooking and     *)
(* SelfPickup extend this module, BookingSystem extends both.              *)
(***************************************************************************)
EXTENDS Inventory

CONSTANTS
    Pooled,     \* assets with stock_mode POOLED; the others are SERIALIZED
    GraceDays,  \* GRACE_DAYS_AFTER_EVENT
    MaxDay,     \* bound: the clock stops here
    Crashes     \* whether a handler may die between two steps

ASSUME PooledType == Pooled \subseteq Assets
ASSUME DaysType   == GraceDays \in Nat /\ MaxDay \in Nat /\ Crashes \in BOOLEAN

VARIABLES
    today,
    overtaken,  \* history: holders written by a handler after they had moved on
    halfDone    \* history: holders whose handler died between its two commits

calendar == <<today, overtaken, halfDone>>

\* A handler writes holder h; whether what it has read of h is still so.
Overtake(h, current) == overtaken' = IF current THEN overtaken ELSE overtaken \cup {h}

CalendarInit == today = 0 /\ overtaken = {} /\ halfDone = {}
CalendarTypeOK == today \in 0 .. MaxDay /\ overtaken \subseteq Holders /\ halfDone \subseteq Holders

\* A quote that waits for staff or for the client.
StuckStatuses == {"SUBMITTED", "PRICING_REVIEW", "PENDING_APPROVAL", "QUOTED"}

NoQty == [a \in Assets |-> 0]

\* No day and asset is promised more units than the platform ever owned,
\* whatever handlers interleave, die or are repeated: the oversell that the
\* FOR UPDATE locks of checkAvailability are there to prevent for orders, and
\* those of the submit transaction for self-pickups ("rejects cleanly if stock
\* is now insufficient"), where SelfPickup bounds what gets through.
NoOversell == \A a \in Assets : \A t \in Days : Committed(a, t) <= Stock[a]
==============================================================================
