---------------------------- MODULE BookingSystem ----------------------------
(***************************************************************************)
(* Orders and self-pickups over one inventory.  Both kinds of handler run  *)
(* in the same event loop, write the same assets and asset_bookings rows   *)
(* and wait for the same row locks, but they admit a request differently:  *)
(* an order by what the bookings of its days leave of total_quantity, a    *)
(* self-pickup by the cached counter available_quantity.                   *)
(***************************************************************************)
EXTENDS OrderBooking, SelfPickup

ASSUME HoldersSplit == Holders = Orders \cup Pickups /\ Orders \cap Pickups = {}
ASSUME ActorsSplit == Actors = OrderActors \cup PickupActors /\ OrderActors \cap PickupActors = {}

systemVars == <<invVars, orderVars, ownPickupVars, calendar>>

SystemInit == Init /\ PickupInit

\* One handler moves at a time; the calendar is the same for both.
OrderStep == Next /\ UNCHANGED ownPickupVars
PickupStep == PickupNext /\ UNCHANGED orderVars
SystemNext == OrderStep \/ PickupStep

SystemSpec == SystemInit /\ [][SystemNext]_systemVars

------------------------------------------------------------------------------
(* Properties.  ActiveKeepsHold, EndedFreesStock and NoStockLeak of          *)
(* OrderBooking speak of the system too: of an order's hold while pickups of *)
(* the same pool come and go, and of the units that both book, return, lose  *)
(* and write off.                                                          *)

\* When an order is booked, each of its days still fits the pool with what
\* the self-pickups of these days hold (checkAvailability counts every row of
\* asset_bookings, whoever the parent is).
OrderAdmissionFits == [][\A o \in Orders, a \in Assets :
    booking'[o][a] > booking[o][a] =>
        \A t \in Window[o][a].from .. Window[o][a].until : Committed(a, t)' <= total'[a]]_systemVars

\* The orders whose units the counter can show as free although they are not: it
\* knows no days, so it stands at what an order gave back that does not meet
\* everybody else; and staff that close an order delete its rows and raise the
\* counter one after the other, and another order can book those units in between.
Apart(o, a) == status[o] # "NONE" /\ \E h \in Holders \ {o} : ~Overlaps(o, h, a)
Closing(o) == \/ status[o] = "CLOSED" \/ o \in halfDone
              \/ \E w \in OrderActors : job[w].order = o /\ HalfClosed(w)
Outrun(o, a) == Closing(o) /\ \E g \in Orders \ {o} : status[g] # "NONE" /\ Need[g][a] > 0
Strays(a) == {o \in Orders : Apart(o, a) \/ Outrun(o, a)}
StrayUnits(a) == Cardinality(UNION {{o} \X (1 .. Need[o][a]) : o \in Strays(a)})

\* With both gates over one pool, no day is promised more units than the platform
\* owns but for those that the counter lets in, the repeated lines of a cart and
\* the mid-flow items of Excess and the units of Strays, as long as nobody writes
\* over a holder that has moved on since he read it.
OversellExplained == overtaken = {} => \A a \in Assets :
    \A t \in Days : Committed(a, t) <= Stock[a] + Excess(a) + StrayUnits(a)
==============================================================================
