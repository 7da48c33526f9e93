------------------------------ MODULE Inventory ------------------------------
(***************************************************************************)
(* The shared inventory of a platform: the assets rows (total_quantity,    *)
(* available_quantity) and the asset_bookings rows, with the availability  *)
(* arithmetic of shared/availability/availability.core.ts and the row      *)
(* locks that SELECT ... FOR UPDATE takes.  Modules that book stock extend *)
(* this one; it has no steps of its own.                                   *)
(*                                                                         *)
(* Abstractions.  A holder is an order or a self-pickup.  Its booking      *)
(* rows of one asset are one number, their summed quantity, 0 when there   *)
(* is no row.  Dates are day numbers.  The row of an asset carries one     *)
(* lock.  Hard blocks (a TRANSFORMED asset, a SERIALIZED one in            *)
(* MAINTENANCE) only ever refuse a request; a refused request does what an *)
(* aborted one does, so they are left out.                                 *)
(***************************************************************************)
EXTENDS Integers, FiniteSets

CONSTANTS
    Assets,     \* the asset rows
    Holders,    \* the orders and self-pickups that may hold stock
    Actors,     \* the request handlers in flight, and the cron
    Nobody,     \* the owner of a free lock
    Stock,      \* Stock[a]: total_quantity of a at the start
    Need,       \* Need[h][a]: quantity of a in the items of h, 0 if absent
    Window      \* Window[h][a]: [from, until], the days that h blocks a

ASSUME HoldersFinite == IsFiniteSet(Holders)
ASSUME StockType     == Stock \in [Assets -> Nat]
ASSUME NeedType      == Need \in [Holders -> [Assets -> Nat]]
ASSUME WindowType    == Window \in [Holders -> [Assets -> [from : Int, until : Int]]]
ASSUME NobodyType    == Nobody \notin Actors

VARIABLES
    total,      \* total[a]: assets.total_quantity
    avail,      \* avail[a]: assets.available_quantity, the cached counter
    booking,    \* booking[h][a]: summed quantity of the rows of h for a
    assetLock   \* assetLock[a]: the transaction that holds the row of a

invVars == <<total, avail, booking, assetLock>>

AtLeastZero(n) == IF n < 0 THEN 0 ELSE n        \* GREATEST(0, n)
AtMost(n, m)   == IF n < m THEN n ELSE m        \* LEAST(n, m)

InvTypeOK ==
    /\ total \in [Assets -> Nat]
    /\ avail \in [Assets -> Nat]
    /\ booking \in [Holders -> [Assets -> Nat]]
    /\ assetLock \in [Assets -> Actors \cup {Nobody}]

InvInit ==
    /\ total = Stock
    /\ avail = Stock
    /\ booking = [h \in Holders |-> [a \in Assets |-> 0]]
    /\ assetLock = [a \in Assets |-> Nobody]

------------------------------------------------------------------------------
(* Availability.                                                           *)

Items(h) == {a \in Assets : Need[h][a] > 0}
HasRows(h) == \E a \in Assets : booking[h][a] > 0

\* Mutant: windows that only touch do not count.
Overlaps_Strict(h, g, a) ==
    /\ Window[g][a].from < Window[h][a].until
    /\ Window[g][a].until > Window[h][a].from

\* blocked_from <= window.end and blocked_until >= window.start
Overlaps(h, g, a) ==
    /\ Window[g][a].from <= Window[h][a].until
    /\ Window[g][a].until >= Window[h][a].from

\* The units of a that the holders in S have booked, each unit a pair.
Units(a, S) == UNION {{g} \X (1 .. booking[g][a]) : g \in S}
Booked(a, S) == Cardinality(Units(a, S))

\* The others whose rows count against h; excludeEntity leaves h itself out.
Competitors(h, a) == {g \in Holders \ {h} : Overlaps(h, g, a)}

\* Mutant: the pool as it was at the start.
ComputeAvailability_InitialStock(a, S) == AtLeastZero(Stock[a] - Booked(a, S))

\* What the bookings of the holders in S leave of a.
ComputeAvailability(a, S) == AtLeastZero(total[a] - Booked(a, S))

WindowAvailable(h, a) == ComputeAvailability(a, Competitors(h, a))
Fits(h) == \A a \in Items(h) : WindowAvailable(h, a) >= Need[h][a]

\* What is promised to customers of asset a on day t.
Covering(a, t) == {h \in Holders : t \in Window[h][a].from .. Window[h][a].until}
Committed(a, t) == Booked(a, Covering(a, t))
Days == UNION {Window[h][a].from .. Window[h][a].until : h \in Holders, a \in Assets}

------------------------------------------------------------------------------
(* Row locks and the writes every booking and release path shares.         *)

Unlocked(S) == \A a \in S : assetLock[a] = Nobody
LockedBy(w, S) == [a \in Assets |-> IF a \in S THEN w ELSE assetLock[a]]
UnlockedBy(w) == [a \in Assets |-> IF assetLock[a] = w THEN Nobody ELSE assetLock[a]]

\* Mutant: the counter is not clamped.
Decrement_NoClamp(h) == avail' = [a \in Assets |-> avail[a] - Need[h][a]]

\* One row per item, and available_quantity lowered but never below zero.
InsertRows(h) == booking' = [booking EXCEPT ![h] =
                    [a \in Assets |-> IF Need[h][a] > 0 THEN Need[h][a] ELSE booking[h][a]]]
Decrement(h) == avail' = [a \in Assets |-> AtLeastZero(avail[a] - Need[h][a])]

\* Every row of h deleted; what was counted given back up to total_quantity.
DeleteRows(h) == booking' = [booking EXCEPT ![h] = [a \in Assets |-> 0]]

\* Mutant: no LEAST with total_quantity.
Restored_NoCap(back) == [a \in Assets |-> avail[a] + back[a]]

Restored(back) == [a \in Assets |->
                     IF back[a] > 0 THEN AtMost(total[a], AtLeastZero(avail[a] + back[a]))
                                    ELSE avail[a]]
==============================================================================
