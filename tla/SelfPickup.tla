----------------------------- MODULE SelfPickup -----------------------------
(***************************************************************************)
(* The self-pickup lifecycle (modules/self-pickup, the self-pickup half of *)
(* modules/scanning and of modules/cron) over the shared inventory.        *)
(*                                                                         *)
(* As in OrderBooking, pickupJob[w] is the handler that actor w is running, *)
(* stopped at the await named by `step', with what it has read so far.     *)
(*                                                                         *)
(*   submit              gate -> book                                      *)
(*   cancel, decline      sum -> release -> flip                           *)
(*   expire, complete     sum -> settle                                    *)
(*   handover            (sum ->) hand -> flip                             *)
(*   markAsNoCost      noCost -> flip                                      *)
(*   add                check -> add                                       *)
(*   scans               scan                                              *)
(*   the others          flip                                              *)
(*                                                                         *)
(* A pickup has at most three item rows of an asset: two from the cart,    *)
(* which may name an asset twice, and one added mid-flow (bound).  Left    *)
(* out: money, workflow requests, the history rows, the audit-only stock   *)
(* movements, events.                                                      *)
(***************************************************************************)
EXTENDS Calendar

CONSTANTS
    Pickups,        \* the holders that are self-pickups
    PickupActors,   \* the handlers that work on self-pickups, and their cron
    PickupCron,     \* the actor that runs the scheduled jobs
    Cart,           \* Cart[p][l][a]: quantity of a in line l of the cart, 0 if there is none
    PickupStart,    \* PickupStart[p], PickupEnd[p]: pickup_window
    PickupEnd,
    ReturnDue,      \* ReturnDue[p]: expected_return_at, if p has one
    Undated,        \* the pickups with no expected_return_at
    MaxAdd,         \* bound: MaxAdd[a], the most units of a that are added mid-flow
    PickupRequests  \* bound: the requests that actors send

BookingDays(p) == [from  |-> PickupStart[p],
                   until |-> IF p \in Undated THEN PickupEnd[p] + 7 ELSE ReturnDue[p]]

ASSUME AssetsFinite  == IsFiniteSet(Assets)
ASSUME PickupsType   == Pickups \subseteq Holders /\ Nobody \notin Pickups
ASSUME PickupActorsType == PickupActors \subseteq Actors /\ PickupCron \in PickupActors
CartLines == {"first", "second"}
ASSUME CartType == Cart \in [Pickups -> [CartLines -> [Assets -> Nat]]]
ASSUME NeedOfCart == \A p \in Pickups, a \in Assets :
    Need[p][a] = Cart[p]["first"][a] + Cart[p]["second"][a]
ASSUME MaxAddType    == MaxAdd \in [Assets -> Nat]
ASSUME WindowOfPickup == \A p \in Pickups, a \in Assets : Window[p][a] = BookingDays(p)

VARIABLES
    pickupStatus,   \* pickupStatus[p]: self_pickup_status, "NONE" before the row exists
    noCost,         \* noCost[p]: pricing_mode is NO_COST
    items,          \* items[p][l][a]: quantity of item row l, 0 if there is none
    collected,      \* collected[p][l][a]: scanned_quantity ?? quantity of that row
    scanned,        \* scanned[p][a]: quantity in the OUTBOUND scan events
    pickupReturned, \* pickupReturned[p][a]: quantity in the INBOUND scan events
    pickupJob,      \* pickupJob[w]: the handler that w is running
    pickupExpire,   \* pickups the expiry cron has listed and not yet reached
    dueList         \* pickups the return cron has listed and not yet updated

rows == <<noCost, items, collected>>
cronLists == <<pickupExpire, dueList>>
ownPickupVars == <<pickupStatus, rows, scanned, pickupReturned, pickupJob, cronLists>>
pickupVars == <<invVars, ownPickupVars, calendar>>

PickupStatuses == {"NONE", "SUBMITTED", "PRICING_REVIEW", "PENDING_APPROVAL", "QUOTED",
                   "DECLINED", "CONFIRMED", "READY_FOR_PICKUP", "PICKED_UP", "AWAITING_RETURN", "CLOSED",
                   "CANCELLED"}
CancellableStatuses == StuckStatuses \cup {"CONFIRMED", "READY_FOR_PICKUP"}
OutStatuses == {"PICKED_UP", "AWAITING_RETURN"}

Lines == CartLines \cup {"added"}
NoItems == [l \in Lines |-> NoQty]
PickupWorkers == PickupActors \ {PickupCron}

\* What a handler has read: read, the status; seen, the summed bookings or what it is about to
\* write; count, the scan tally; rows, the item rows; short, the write-offs.
PickupIdle == [op |-> "idle", pickup |-> Nobody, step |-> "idle", read |-> "NONE", to |-> "NONE",
               seen |-> NoQty, count |-> NoQty, rows |-> NoItems, short |-> NoQty]
PickupSteps == {"idle", "gate", "book", "sum", "release", "settle", "hand", "noCost", "check",
                "add", "scan", "flip"}
PickupOps == {"idle", "submit", "cancel", "decline", "expire", "complete", "handover", "noCost",
              "add", "scanOut", "scanIn", "status"}
PickupJobs == [op : PickupOps, pickup : Pickups \cup {Nobody}, step : PickupSteps,
               read : PickupStatuses, to : PickupStatuses,
               seen : [Assets -> Nat], count : [Assets -> Nat],
               rows : [Lines -> [Assets -> Nat]], short : [Assets -> Nat]]

PickupTypeOK ==
    /\ InvTypeOK
    /\ pickupStatus \in [Pickups -> PickupStatuses]
    /\ noCost \in [Pickups -> BOOLEAN]
    /\ items \in [Pickups -> [Lines -> [Assets -> Nat]]]
    /\ collected \in [Pickups -> [Lines -> [Assets -> Nat]]]
    /\ scanned \in [Pickups -> [Assets -> Nat]]
    /\ pickupReturned \in [Pickups -> [Assets -> Nat]]
    /\ pickupJob \in [PickupActors -> PickupJobs]
    /\ \A w \in PickupActors : pickupJob[w].step # "idle" => pickupJob[w].pickup \in Pickups
    /\ pickupExpire \in SUBSET Pickups /\ dueList \in SUBSET Pickups
    /\ CalendarTypeOK

PickupInit ==
    /\ InvInit
    /\ pickupStatus = [p \in Pickups |-> "NONE"]
    /\ noCost = [p \in Pickups |-> FALSE]
    /\ items = [p \in Pickups |-> NoItems]
    /\ collected = [p \in Pickups |-> NoItems]
    /\ scanned = [p \in Pickups |-> NoQty]
    /\ pickupReturned = [p \in Pickups |-> NoQty]
    /\ pickupJob = [w \in PickupActors |-> PickupIdle]
    /\ pickupExpire = {} /\ dueList = {}
    /\ CalendarInit

------------------------------------------------------------------------------
(* The first step of a handler: read the pickup, check it, and await.      *)

BeginPickup(w, request, j) ==
    /\ request \in PickupRequests
    /\ pickupJob[w] = PickupIdle
    /\ pickupJob' = [pickupJob EXCEPT ![w] = [j EXCEPT !.read = pickupStatus[j.pickup]]]
    /\ UNCHANGED <<invVars, pickupStatus, rows, scanned, pickupReturned, cronLists, calendar>>

JobFor(op, p, step, to) == [PickupIdle EXCEPT !.op = op, !.pickup = p, !.step = step, !.to = to]

\* transitionStatus after a check of the status.
BeginTransition(w, request, p, from, to) ==
    /\ pickupStatus[p] \in from
    /\ BeginPickup(w, request, JobFor("status", p, "flip", to))

\* A cart becomes one pickup.  The lead time is checked; what is read of the
\* assets before the transaction is metadata only.
BeginPickupSubmit(w, p) ==
    /\ pickupStatus[p] = "NONE"
    /\ \A v \in PickupActors : pickupJob[v].pickup # p
    /\ today <= PickupStart[p]
    /\ Items(p) # {}
    /\ BeginPickup(w, "submit", JobFor("submit", p, "gate", "PRICING_REVIEW"))

BeginCancel(w, p) ==
    /\ pickupStatus[p] \in CancellableStatuses
    /\ BeginPickup(w, "cancel", JobFor("cancel", p, "sum", "CANCELLED"))

BeginDecline(w, p) ==
    /\ pickupStatus[p] = "QUOTED"
    /\ BeginPickup(w, "decline", JobFor("decline", p, "sum", "DECLINED"))

BeginPickupNoCost(w, p) ==
    /\ ~noCost[p]
    /\ pickupStatus[p] \in {"PRICING_REVIEW", "PENDING_APPROVAL"}
    /\ BeginPickup(w, "markAsNoCost", JobFor("noCost", p, "noCost", "CONFIRMED"))

BeginStaffTransition(w, p) ==
    \/ BeginTransition(w, "submitForApproval", p, {"PRICING_REVIEW"}, "PENDING_APPROVAL")
    \/ BeginTransition(w, "approveQuote", p, {"PENDING_APPROVAL"}, "QUOTED")
    \/ BeginTransition(w, "markReadyForPickup", p, {"CONFIRMED"}, "READY_FOR_PICKUP")
    \/ BeginTransition(w, "triggerReturn", p, {"PICKED_UP"}, "AWAITING_RETURN")

BeginClientApproveQuote(w, p) ==
    BeginTransition(w, "clientApproveQuote", p, {"QUOTED"}, "CONFIRMED")

BeginPickupReturnToLogistics(w, p) ==
    BeginTransition(w, "returnToLogistics", p, {"PENDING_APPROVAL"}, "PRICING_REVIEW")

------------------------------------------------------------------------------
(* Scans and their completion.                                             *)

ItemsOf(p) == {a \in Assets : \E l \in Lines : items[p][l][a] > 0}
\* items.find: the row that a scan of a counts against.
FirstLine(p, a) == CASE items[p]["first"][a] > 0 -> "first"
                     [] items[p]["first"][a] = 0 /\ items[p]["second"][a] > 0 -> "second"
                     [] OTHER -> "added"
ScanSizes(a) == IF a \in Pooled THEN 1 .. (Stock[a] + MaxAdd[a]) ELSE {1}
Only(a, q) == [b \in Assets |-> IF b = a THEN q ELSE 0]

BeginOutboundScan(w, p, a, q) ==
    /\ pickupStatus[p] = "READY_FOR_PICKUP"
    /\ a \in ItemsOf(p)
    /\ scanned[p][a] + q <= items[p][FirstLine(p, a)][a]
    /\ BeginPickup(w, "outboundScan",
                   [JobFor("scanOut", p, "scan", "NONE") EXCEPT
                        !.seen = Only(a, q), !.count = scanned[p]])

BeginInboundScan(w, p, a, q) ==
    /\ pickupStatus[p] = "AWAITING_RETURN"
    /\ a \in ItemsOf(p)
    /\ collected[p][FirstLine(p, a)][a] > 0
    /\ pickupReturned[p][a] + q <= collected[p][FirstLine(p, a)][a]
    /\ BeginPickup(w, "inboundScan",
                   [JobFor("scanIn", p, "scan", "NONE") EXCEPT
                        !.seen = Only(a, q), !.count = pickupReturned[p]])

\* The units of each asset in its rows, and all units of f, each a pair.
RowSum(r) == [a \in Assets |-> r["first"][a] + r["second"][a] + r["added"][a]]
UnitsOf(f) == Cardinality(UNION {{a} \X (1 .. f[a]) : a \in Assets})
IsPartial(count, r) == UnitsOf(count) < UnitsOf(RowSum(r))

\* completeSelfPickupHandover.  A partial one only without a price; asking
\* for it is up to the crew.
BeginHandover(w, p) ==
    LET partial == IsPartial(scanned[p], items[p]) IN
    /\ pickupStatus[p] = "READY_FOR_PICKUP"
    /\ partial => noCost[p]
    /\ BeginPickup(w, "handover",
             [JobFor("handover", p, IF partial THEN "sum" ELSE "hand", "PICKED_UP") EXCEPT
                 !.count = scanned[p], !.rows = items[p]])

\* completeSelfPickupReturn: what was collected of a SERIALIZED asset must be
\* back; each POOLED row that is short is settled by a write-off of its own.
ShortOf(p, l, a) == AtLeastZero(collected[p][l][a] - pickupReturned[p][a])
ShortRows(p) == [l \in Lines |-> [a \in Assets |-> ShortOf(p, l, a)]]
BeginCompleteReturn(w, p) ==
    /\ pickupStatus[p] = "AWAITING_RETURN"
    /\ \A l \in Lines, a \in Assets \ Pooled : ShortOf(p, l, a) = 0
    /\ BeginPickup(w, "completeReturn",
             [JobFor("complete", p, "sum", "CLOSED") EXCEPT
                 !.count = pickupReturned[p], !.rows = items[p],
                 !.short = RowSum(ShortRows(p))])

\* addSelfPickupItemMidflow: the window is that of a booking p already has.
Adding(p, a) == \E v \in PickupActors :
    pickupJob[v].op = "add" /\ pickupJob[v].pickup = p /\ pickupJob[v].seen[a] > 0
BeginAdd(w, p, a, q) ==
    /\ noCost[p]
    /\ pickupStatus[p] \in {"CONFIRMED", "READY_FOR_PICKUP"}
    /\ HasRows(p)
    /\ items[p]["added"][a] = 0 /\ ~Adding(p, a)
    /\ BeginPickup(w, "addMidflow",
                   [JobFor("add", p, "check", "NONE") EXCEPT !.seen = Only(a, q)])

------------------------------------------------------------------------------
(* The scheduled jobs.                                                     *)

\* Mutant: only pickups that were due the day before.
Due_OnTheDay(p) == pickupStatus[p] = "PICKED_UP" /\ p \notin Undated /\ today = ReturnDue[p] + 1

\* transitionSelfPickupReturns: one SELECT, then one UPDATE of all it found.
Due(p) == pickupStatus[p] = "PICKED_UP" /\ p \notin Undated /\ today > ReturnDue[p]
ListDuePickups ==
    /\ "returnDue" \in PickupRequests
    /\ dueList = {}
    /\ \E p \in Pickups : Due(p)
    /\ dueList' = {p \in Pickups : Due(p)}
    /\ UNCHANGED <<invVars, pickupStatus, rows, scanned, pickupReturned, pickupJob,
                   pickupExpire, calendar>>

TransitionDue ==
    /\ dueList # {}
    /\ pickupStatus' = [p \in Pickups |-> IF p \in dueList THEN "AWAITING_RETURN"
                                                          ELSE pickupStatus[p]]
    /\ dueList' = {}
    /\ overtaken' = overtaken \cup {p \in dueList : pickupStatus[p] # "PICKED_UP"}
    /\ UNCHANGED <<invVars, rows, scanned, pickupReturned, pickupJob, pickupExpire, today, halfDone>>

\* expireStuckQuotes: list once, then a transaction per listed pickup.
StuckPickup(p) == pickupStatus[p] \in StuckStatuses /\ today > PickupEnd[p] + GraceDays
ListStuckPickups ==
    /\ "expire" \in PickupRequests
    /\ pickupJob[PickupCron] = PickupIdle /\ pickupExpire = {}
    /\ \E p \in Pickups : StuckPickup(p)
    /\ pickupExpire' = {p \in Pickups : StuckPickup(p)}
    /\ UNCHANGED <<invVars, pickupStatus, rows, scanned, pickupReturned, pickupJob,
                   dueList, calendar>>

BeginPickupExpire(p) ==
    /\ p \in pickupExpire
    /\ pickupJob[PickupCron] = PickupIdle
    /\ pickupJob' = [pickupJob EXCEPT ![PickupCron] =
                  [JobFor("expire", p, "sum", "CANCELLED") EXCEPT !.read = pickupStatus[p]]]
    /\ pickupExpire' = pickupExpire \ {p}
    /\ UNCHANGED <<invVars, pickupStatus, rows, scanned, pickupReturned, dueList, calendar>>

------------------------------------------------------------------------------
(* The steps after an await.                                               *)

On(w) == pickupJob[w].pickup
PickupAt(w, step) == pickupJob[w].step = step
FinishPickup(w) == pickupJob' = [pickupJob EXCEPT ![w] = PickupIdle]
PickupGoTo(w, step) == pickupJob' = [pickupJob EXCEPT ![w].step = step]

\* What w has read of its pickup, and is about to act on, is still so.
PickupCurrent(w) ==
    LET p == On(w)  j == pickupJob[w] IN
    /\ pickupStatus[p] = j.read
    /\ j.op = "expire" => j.read \in StuckStatuses
    /\ j.op \in {"handover", "scanOut"} => j.count = scanned[p]
    /\ j.op \in {"complete", "scanIn"} => j.count = pickupReturned[p]
    /\ j.op \in {"handover", "complete"} => j.rows = items[p]

\* submitSelfPickupFromCart: FOR UPDATE on each asset row, and each line of the
\* cart on its own against available_quantity.  Mutant first: a plain SELECT,
\* without FOR UPDATE.
Admitted(p) == \A l \in CartLines, a \in Assets : Cart[p][l][a] <= avail[a]
Gate_NoLock(w) ==
    LET p == On(w) IN
    /\ PickupAt(w, "gate")
    /\ IF Admitted(p) THEN PickupGoTo(w, "book") ELSE FinishPickup(w)
    /\ UNCHANGED <<invVars, pickupStatus, rows, scanned, pickupReturned, cronLists, calendar>>

Gate(w) ==
    LET p == On(w) IN
    /\ PickupAt(w, "gate")
    /\ Unlocked(Items(p))
    /\ IF Admitted(p)
       THEN assetLock' = LockedBy(w, Items(p)) /\ PickupGoTo(w, "book")
       ELSE FinishPickup(w) /\ UNCHANGED assetLock
    /\ UNCHANGED <<total, avail, booking, pickupStatus, rows, scanned, pickupReturned,
                   cronLists, calendar>>

\* A row and a decrement for each line of the cart.  Mutant first: the counter is
\* not lowered.
CartRows(p) == [l \in Lines |-> IF l = "added" THEN NoQty ELSE Cart[p][l]]
Book_NoDecrement(w) ==
    LET p == On(w) IN
    /\ PickupAt(w, "book")
    /\ InsertRows(p)
    /\ items' = [items EXCEPT ![p] = CartRows(p)]
    /\ collected' = [collected EXCEPT ![p] = CartRows(p)]
    /\ pickupStatus' = [pickupStatus EXCEPT ![p] = pickupJob[w].to]
    /\ assetLock' = UnlockedBy(w)
    /\ FinishPickup(w)
    /\ UNCHANGED <<total, avail, noCost, scanned, pickupReturned, cronLists, calendar>>

Book(w) ==
    LET p == On(w) IN
    /\ PickupAt(w, "book")
    /\ InsertRows(p)
    /\ Decrement(p)
    /\ items' = [items EXCEPT ![p] = CartRows(p)]
    /\ collected' = [collected EXCEPT ![p] = CartRows(p)]
    /\ pickupStatus' = [pickupStatus EXCEPT ![p] = pickupJob[w].to]
    /\ assetLock' = UnlockedBy(w)
    /\ FinishPickup(w)
    /\ UNCHANGED <<total, noCost, scanned, pickupReturned, cronLists, calendar>>

\* SELECT SUM(quantity) per asset, the first statement of every release.
SumPickupRows(w) ==
    /\ PickupAt(w, "sum")
    /\ pickupJob' = [pickupJob EXCEPT ![w].seen = booking[On(w)],
                          ![w].step = CASE pickupJob[w].op \in {"cancel", "decline"} -> "release"
                                        [] pickupJob[w].op = "handover" -> "hand"
                                        [] OTHER -> "settle"]
    /\ UNCHANGED <<invVars, pickupStatus, rows, scanned, pickupReturned, cronLists, calendar>>

PickupRowsTouched(w) == {a \in Assets : \/ pickupJob[w].seen[a] > 0
                                        \/ booking[On(w)][a] > 0
                                        \/ pickupJob[w].short[a] > 0}

\* cancel and decline: the release commits, the status follows on its own.
\* Mutant first: the rows go, the counter is not raised.
Release_RowsOnly(w) ==
    /\ PickupAt(w, "release")
    /\ Unlocked(PickupRowsTouched(w))
    /\ DeleteRows(On(w))
    /\ PickupGoTo(w, "flip")
    /\ Overtake(On(w), PickupCurrent(w) /\ pickupJob[w].seen = booking[On(w)])
    /\ UNCHANGED <<total, avail, assetLock, pickupStatus, rows, scanned, pickupReturned,
                   cronLists, today, halfDone>>

Release(w) ==
    /\ PickupAt(w, "release")
    /\ Unlocked(PickupRowsTouched(w))
    /\ DeleteRows(On(w))
    /\ avail' = Restored(pickupJob[w].seen)
    /\ PickupGoTo(w, "flip")
    /\ Overtake(On(w), PickupCurrent(w) /\ pickupJob[w].seen = booking[On(w)])
    /\ UNCHANGED <<total, assetLock, pickupStatus, rows, scanned, pickupReturned,
                   cronLists, today, halfDone>>

\* For a completed return only what was scanned in is given back.
Listed(w, a) == \E l \in Lines : pickupJob[w].rows[l][a] > 0
PickupGivenBack(w) == [a \in Assets |-> IF pickupJob[w].op = "complete" /\ Listed(w, a)
                             THEN AtMost(pickupJob[w].seen[a], pickupJob[w].count[a])
                             ELSE pickupJob[w].seen[a]]
PickupTotalAfter(w) == [a \in Assets |-> AtLeastZero(total[a] - pickupJob[w].short[a])]
PickupCheckHolds(w) == \A a \in Assets : Restored(PickupGivenBack(w))[a] <= PickupTotalAfter(w)[a]

\* expire and complete: release, write-offs and status in one transaction.
Settle(w) ==
    /\ PickupAt(w, "settle")
    /\ Unlocked(PickupRowsTouched(w))
    /\ PickupCheckHolds(w)
    /\ DeleteRows(On(w))
    /\ avail' = Restored(PickupGivenBack(w))
    /\ total' = PickupTotalAfter(w)
    /\ pickupStatus' = [pickupStatus EXCEPT ![On(w)] = pickupJob[w].to]
    /\ FinishPickup(w)
    /\ Overtake(On(w), PickupCurrent(w) /\ pickupJob[w].seen = booking[On(w)])
    /\ UNCHANGED <<assetLock, rows, scanned, pickupReturned, cronLists, today, halfDone>>

PickupWriteOffRejected(w) ==
    /\ PickupAt(w, "settle")
    /\ Unlocked(PickupRowsTouched(w))
    /\ ~PickupCheckHolds(w)
    /\ FinishPickup(w)
    /\ UNCHANGED <<invVars, pickupStatus, rows, scanned, pickupReturned, cronLists, calendar>>

\* The transaction of a handover: the rows get their tally, and a partial one
\* keeps booked only what was collected (reduceBookingsForScannedOutbound).
\* Mutant first: only what was skipped altogether is given up.
Reduced_SkippedOnly(w) == {a \in Assets : /\ Listed(w, a)
                                          /\ pickupJob[w].count[a] = 0
                                          /\ pickupJob[w].seen[a] > 0}
Reduced(w) == {a \in Assets : Listed(w, a) /\ pickupJob[w].count[a] < pickupJob[w].seen[a]}

\* What a handover has summed if that is still so: a full one sums nothing.
ToReduce(w) == IF IsPartial(pickupJob[w].count, pickupJob[w].rows) THEN booking[On(w)] ELSE NoQty

\* Mutant: what was not collected is not given back to the counter.
Hand_NoRestore(w) ==
    LET p == On(w) IN
    /\ PickupAt(w, "hand")
    /\ Unlocked(Reduced(w))
    /\ collected' = [collected EXCEPT ![p] = [l \in Lines |-> [a \in Assets |->
                        IF pickupJob[w].rows[l][a] > 0 THEN pickupJob[w].count[a]
                                                       ELSE collected[p][l][a]]]]
    /\ booking' = [booking EXCEPT ![p] = [a \in Assets |->
                        IF a \in Reduced(w) /\ booking[p][a] > 0 THEN pickupJob[w].count[a]
                                                                  ELSE booking[p][a]]]
    /\ PickupGoTo(w, "flip")
    /\ Overtake(p, PickupCurrent(w) /\ pickupJob[w].seen = ToReduce(w))
    /\ UNCHANGED <<total, avail, assetLock, pickupStatus, noCost, items, scanned,
                   pickupReturned,
                   cronLists, today, halfDone>>

Hand(w) ==
    LET p == On(w) IN
    /\ PickupAt(w, "hand")
    /\ Unlocked(Reduced(w))
    /\ collected' = [collected EXCEPT ![p] = [l \in Lines |-> [a \in Assets |->
                        IF pickupJob[w].rows[l][a] > 0 THEN pickupJob[w].count[a]
                                                       ELSE collected[p][l][a]]]]
    /\ booking' = [booking EXCEPT ![p] = [a \in Assets |->
                        IF a \in Reduced(w) /\ booking[p][a] > 0 THEN pickupJob[w].count[a]
                                                                  ELSE booking[p][a]]]
    /\ avail' = Restored([a \in Assets |-> IF a \in Reduced(w)
                            THEN pickupJob[w].seen[a] - pickupJob[w].count[a] ELSE 0])
    /\ PickupGoTo(w, "flip")
    /\ Overtake(p, PickupCurrent(w) /\ pickupJob[w].seen = ToReduce(w))
    /\ UNCHANGED <<total, assetLock, pickupStatus, noCost, items, scanned, pickupReturned,
                   cronLists, today, halfDone>>

\* PricingService.markEntityAsNoCost, in a transaction before the status one.
NoCost(w) ==
    /\ PickupAt(w, "noCost")
    /\ noCost' = [noCost EXCEPT ![On(w)] = TRUE]
    /\ PickupGoTo(w, "flip")
    /\ Overtake(On(w), PickupCurrent(w))
    /\ UNCHANGED <<invVars, pickupStatus, items, collected, scanned, pickupReturned,
                   cronLists, today, halfDone>>

\* UPDATE self_pickups SET self_pickup_status = ...: no look at the old one.
FlipPickup(w) ==
    /\ PickupAt(w, "flip")
    /\ pickupStatus' = [pickupStatus EXCEPT ![On(w)] = pickupJob[w].to]
    /\ FinishPickup(w)
    /\ Overtake(On(w), PickupCurrent(w))
    /\ UNCHANGED <<invVars, rows, scanned, pickupReturned, cronLists, today, halfDone>>

\* A scan event is inserted after the tally was read.
Scan(w) ==
    LET p == On(w)
        more(f) == [f EXCEPT ![p] = [a \in Assets |-> f[p][a] + pickupJob[w].seen[a]]]
    IN
    /\ PickupAt(w, "scan")
    /\ IF pickupJob[w].op = "scanOut"
       THEN scanned' = more(scanned) /\ UNCHANGED pickupReturned
       ELSE pickupReturned' = more(pickupReturned) /\ UNCHANGED scanned
    /\ FinishPickup(w)
    /\ Overtake(On(w), PickupCurrent(w))
    /\ UNCHANGED <<invVars, pickupStatus, rows, cronLists, today, halfDone>>

\* The mid-flow add: checkAvailability without lockForUpdate and with the
\* bookings of p itself left out, then the inserts.
CheckAdd(w) ==
    /\ PickupAt(w, "check")
    /\ IF \A a \in Assets : WindowAvailable(On(w), a) >= pickupJob[w].seen[a]
       THEN PickupGoTo(w, "add") ELSE FinishPickup(w)
    /\ UNCHANGED <<invVars, pickupStatus, rows, scanned, pickupReturned, cronLists, calendar>>

Add(w) ==
    LET p == On(w)  q == pickupJob[w].seen IN
    /\ PickupAt(w, "add")
    /\ \A a \in Assets : q[a] > 0 => assetLock[a] = Nobody
    /\ items' = [items EXCEPT ![p]["added"] = [a \in Assets |-> @[a] + q[a]]]
    /\ collected' = [collected EXCEPT ![p]["added"] = [a \in Assets |-> @[a] + q[a]]]
    /\ booking' = [booking EXCEPT ![p] = [a \in Assets |-> @[a] + q[a]]]
    /\ avail' = [a \in Assets |-> AtLeastZero(avail[a] - q[a])]
    /\ FinishPickup(w)
    /\ Overtake(On(w), PickupCurrent(w))
    /\ UNCHANGED <<total, assetLock, pickupStatus, noCost, scanned, pickupReturned,
                   cronLists, today, halfDone>>

\* The first transaction of w has committed, and the status does not tell it.
HalfWay(w) == PickupAt(w, "flip") /\ pickupJob[w].op \in {"cancel", "decline", "handover"}

\* A handler dies; its open transaction is rolled back.
PickupAbort(w) ==
    /\ Crashes
    /\ pickupJob[w] # PickupIdle \/ (w = PickupCron /\ pickupExpire \cup dueList # {})
    /\ FinishPickup(w)
    /\ assetLock' = UnlockedBy(w)
    /\ IF w = PickupCron THEN pickupExpire' = {} /\ dueList' = {} ELSE UNCHANGED cronLists
    /\ halfDone' = IF HalfWay(w) THEN halfDone \cup {On(w)} ELSE halfDone
    /\ UNCHANGED <<total, avail, booking, pickupStatus, rows, scanned, pickupReturned,
                   today, overtaken>>

PickupTick ==
    /\ today < MaxDay
    /\ today' = today + 1
    /\ UNCHANGED <<invVars, pickupStatus, rows, scanned, pickupReturned, pickupJob,
                   cronLists, overtaken, halfDone>>

------------------------------------------------------------------------------
BeginAnyPickup(w, p) ==
    /\ pickupJob[w] = PickupIdle
    /\ \/ BeginPickupSubmit(w, p) \/ BeginCancel(w, p) \/ BeginDecline(w, p)
       \/ BeginPickupNoCost(w, p) \/ BeginPickupReturnToLogistics(w, p)
       \/ BeginStaffTransition(w, p) \/ BeginClientApproveQuote(w, p)
       \/ BeginHandover(w, p) \/ BeginCompleteReturn(w, p)
       \/ \E a \in Assets : \/ \E q \in 1 .. MaxAdd[a] : BeginAdd(w, p, a, q)
                            \/ \E q \in ScanSizes(a) : \/ BeginOutboundScan(w, p, a, q)
                                                       \/ BeginInboundScan(w, p, a, q)

ResumePickup(w) ==
    \/ Gate(w) \/ Book(w) \/ SumPickupRows(w) \/ Release(w) \/ Settle(w)
    \/ PickupWriteOffRejected(w) \/ Hand(w) \/ NoCost(w) \/ FlipPickup(w) \/ Scan(w)
    \/ CheckAdd(w) \/ Add(w)

PickupNext ==
    \/ \E w \in PickupWorkers, p \in Pickups : BeginAnyPickup(w, p)
    \/ ListDuePickups \/ TransitionDue \/ ListStuckPickups
    \/ \E p \in Pickups : BeginPickupExpire(p)
    \/ \E w \in PickupActors : ResumePickup(w) \/ PickupAbort(w)
    \/ PickupTick

PickupSpec == PickupInit /\ [][PickupNext]_pickupVars

\* As for orders: handlers are resumed and get their row locks in turn, the
\* scheduler calls the jobs, time passes; nobody has to send a request.
FairPickupSpec ==
    /\ PickupSpec
    /\ \A w \in PickupActors : SF_pickupVars(ResumePickup(w))
    /\ WF_pickupVars(ListDuePickups) /\ WF_pickupVars(TransitionDue)
    /\ WF_pickupVars(ListStuckPickups)
    /\ \A p \in Pickups : WF_pickupVars(BeginPickupExpire(p))
    /\ WF_pickupVars(PickupTick)

------------------------------------------------------------------------------
(* Properties.                                                             *)

\* The counter never loses a unit: what it shows and what is booked always
\* make up the pool, whatever handlers interleave or die.
NoPickupLeak == \A a \in Assets : avail[a] + Booked(a, Holders) >= total[a]

\* What the gate lets in although it is not there: a cart that names an asset
\* twice has each line checked alone, so the smaller one comes on top, and what is
\* added mid-flow is checked by days instead.  Each unit is a pair.
Surplus(p, a) == items[p]["added"][a] +
    IF pickupStatus[p] = "NONE" THEN 0 ELSE AtMost(Cart[p]["first"][a], Cart[p]["second"][a])
Excess(a) == Cardinality(UNION {{p} \X (1 .. Surplus(p, a)) : p \in Pickups})

\* The gate oversells by these units at most, as long as nobody writes over a
\* pickup that has moved on since he read it: a pool that no cart names twice and
\* that nothing is added from mid-flow is never oversold ("rejects cleanly if
\* stock is now insufficient").
OversellBounded == overtaken = {} => \A a \in Assets :
    \A t \in Days : Committed(a, t) <= Stock[a] + Excess(a)

\* The counter never shows fewer units than are free, and without such units it
\* is exact, the pool less what pickups hold, as long as, too, no handler is, or
\* has died, between its two commits.
CounterExact == overtaken = {} => \A a \in Assets :
    /\ avail[a] + Booked(a, Holders) >= total[a]
    /\ (halfDone = {} /\ Excess(a) = 0 /\ \A w \in PickupActors : ~HalfWay(w)) =>
            avail[a] + Booked(a, Holders) = total[a]

\* What the collector took stays booked until it is back, also after a partial
\* handover or an item added at the counter and while the return cron works on its
\* list: never more than he took, and exactly that unless a handover of his died
\* between its two commits.
CollectedStaysBooked == \A p \in Pickups \ overtaken :
    (pickupStatus[p] \in OutStatuses /\ \A w \in PickupActors : pickupJob[w].pickup # p) =>
        /\ \A a \in Assets : booking[p][a] <= scanned[p][a]
        /\ p \notin halfDone => booking[p] = scanned[p]

\* A pickup that is not brought back in time is called back.
Overdue(p) == pickupStatus[p] = "PICKED_UP" /\ p \notin Undated /\ today > ReturnDue[p]
OverdueIsCalledBack == \A p \in Pickups : Overdue(p) ~> ~Overdue(p)
==============================================================================
