---------------------------- MODULE OrderBooking ----------------------------
(***************************************************************************)
(* The order lifecycle (modules/order, modules/scanning, modules/cron)     *)
(* over the shared inventory.                                              *)
(*                                                                         *)
(* Every handler of the API is an async function: it reads the order, then *)
(* awaits its transactions, and other handlers run in between.  job[w] is  *)
(* the handler that actor w is running, stopped at the await named by      *)
(* `step'; what it read before is in the record and may be stale.  A       *)
(* transaction is split where another one can matter: at a row lock it     *)
(* takes and at a read it later acts on.  Its writes become visible in one *)
(* step, its commit.  PostgreSQL runs at READ COMMITTED, so a read sees    *)
(* the last committed state.                                               *)
(*                                                                         *)
(*   submit, approve     lock -> book  (-> flip, a second transaction)     *)
(*   decline, complete          sum -> apply                               *)
(*   expire                     sum -> apply                               *)
(*   cancel             take -> sum -> apply                               *)
(*   close                      sum -> delete -> restore -> flip           *)
(*   status                     flip                                       *)
(*                                                                         *)
(* Left out: money (prices, line items, financial_status), service         *)
(* requests (they only refuse a transition), the history rows, events.     *)
(***************************************************************************)
EXTENDS Calendar

CONSTANTS
    Orders,         \* the holders that are orders
    OrderActors,    \* the handlers that work on orders, and their cron
    Cron,           \* the actor that runs the scheduled jobs
    EventStart,     \* EventStart[o], EventEnd[o]: days of the event
    EventEnd,
    Refurb,         \* Refurb[o][a]: maintenance_refurb_days_snapshot
    Requests        \* bound: the requests that actors send

PREP_BUFFER_DAYS   == 1
RETURN_BUFFER_DAYS == 1
ComputeBookingWindow(start, end, refurbDays) ==
    [from |-> start - (PREP_BUFFER_DAYS + refurbDays), until |-> end + RETURN_BUFFER_DAYS]

ASSUME OrdersType == Orders \subseteq Holders /\ Nobody \notin Orders
ASSUME OrderActorsType == OrderActors \subseteq Actors /\ Cron \in OrderActors
ASSUME OrderActorsFinite == IsFiniteSet(OrderActors)
ASSUME WindowOfOrder == \A o \in Orders, a \in Assets :
    Window[o][a] = ComputeBookingWindow(EventStart[o], EventEnd[o], Refurb[o][a])

VARIABLES
    status,     \* status[o]: orders.order_status, "NONE" before the row exists
    returned,   \* returned[o][a]: quantity in the INBOUND scan events of o
    job,        \* job[w]: the handler that w is running
    orderLock,  \* orderLock[o]: the transaction that holds the row of o
    expireList  \* orders the expiry cron has listed and not yet reached

orderVars == <<status, returned, job, orderLock, expireList>>
vars == <<invVars, orderVars, calendar>>

Statuses == {"NONE", "SUBMITTED", "PRICING_REVIEW", "PENDING_APPROVAL", "QUOTED", "DECLINED",
             "CONFIRMED", "IN_PREPARATION", "READY_FOR_DELIVERY", "IN_TRANSIT", "DELIVERED",
             "IN_USE", "DERIG", "AWAITING_RETURN", "RETURN_IN_TRANSIT", "CLOSED", "CANCELLED"}

ActiveStatuses == Statuses \ {"NONE", "DECLINED", "CLOSED", "CANCELLED"}

DispatchedStatuses == {"READY_FOR_DELIVERY", "IN_TRANSIT", "DELIVERED", "IN_USE", "DERIG",
                       "AWAITING_RETURN", "RETURN_IN_TRANSIT"}
NonCancellableStatuses == DispatchedStatuses \cup {"CLOSED", "DECLINED", "CANCELLED"}

ValidStateTransitions ==
    { <<"SUBMITTED", "PRICING_REVIEW">>, <<"PRICING_REVIEW", "PENDING_APPROVAL">>,
      <<"PENDING_APPROVAL", "QUOTED">>, <<"QUOTED", "CONFIRMED">>, <<"QUOTED", "DECLINED">>,
      <<"CONFIRMED", "IN_PREPARATION">>, <<"IN_PREPARATION", "READY_FOR_DELIVERY">>,
      <<"READY_FOR_DELIVERY", "IN_TRANSIT">>, <<"IN_TRANSIT", "DELIVERED">>,
      <<"DELIVERED", "IN_USE">>, <<"IN_USE", "DERIG">>, <<"DERIG", "AWAITING_RETURN">>,
      <<"AWAITING_RETURN", "RETURN_IN_TRANSIT">>, <<"RETURN_IN_TRANSIT", "CLOSED">> }

Workers == OrderActors \ {Cron}
\* What a handler has read: read, the status; seen, the summed bookings or what the window
\* leaves; back, the units scanned in.
Idle == [op |-> "idle", order |-> Nobody, step |-> "idle", read |-> "NONE",
         seen |-> NoQty, back |-> NoQty, to |-> "NONE"]

Ops == {"idle", "submit", "approve", "decline", "cancel", "expire", "close", "complete", "status"}
Steps == {"idle", "lock", "book", "take", "sum", "apply", "delete", "restore", "flip"}
Jobs == [op : Ops, order : Orders \cup {Nobody}, step : Steps, read : Statuses,
         seen : [Assets -> Nat], back : [Assets -> Nat], to : Statuses]

TypeOK ==
    /\ InvTypeOK
    /\ status \in [Orders -> Statuses]
    /\ returned \in [Orders -> [Assets -> Nat]]
    /\ job \in [OrderActors -> Jobs]
    /\ \A w \in OrderActors : job[w].step # "idle" => job[w].order \in Orders
    /\ orderLock \in [Orders -> OrderActors \cup {Nobody}]
    /\ expireList \in SUBSET Orders
    /\ CalendarTypeOK

Init ==
    /\ InvInit
    /\ status = [o \in Orders |-> "NONE"]
    /\ returned = [o \in Orders |-> NoQty]
    /\ job = [w \in OrderActors |-> Idle]
    /\ orderLock = [o \in Orders |-> Nobody]
    /\ expireList = {}
    /\ CalendarInit

------------------------------------------------------------------------------
(* The first step of a handler: read the order, check it, and await.       *)

Start(w, name, op, o, step, to) ==
    /\ name \in Requests
    /\ job[w] = Idle
    /\ job' = [job EXCEPT ![w] = [Idle EXCEPT !.op = op, !.order = o, !.step = step,
                                              !.read = status[o], !.to = to]]
    /\ UNCHANGED <<invVars, status, returned, orderLock, expireList, calendar>>

\* The unlocked check of submit that bails out early: the window it asks for
\* does not know the refurbishment days yet.
FitsEarly(o) == \A a \in Items(o) :
    LET early == ComputeBookingWindow(EventStart[o], EventEnd[o], 0)
        rivals == {g \in Holders : /\ Window[g][a].from <= early.until
                                   /\ Window[g][a].until >= early.from}
    IN  ComputeAvailability(a, rivals) >= Need[o][a]

\* A cart becomes one order.  The feasibility check asks for lead time.
BeginSubmit(w, o) ==
    /\ status[o] = "NONE"
    /\ \A v \in OrderActors : job[v].order # o
    /\ today < EventStart[o]
    /\ Items(o) # {} /\ FitsEarly(o)
    /\ Start(w, "submit", "submit", o, "lock", "PRICING_REVIEW")

BeginApproveQuote(w, o) ==
    /\ status[o] = "QUOTED"
    /\ Start(w, "approveQuote", "approve", o, "lock", "CONFIRMED")

BeginDeclineQuote(w, o) ==
    /\ status[o] = "QUOTED"
    /\ Start(w, "declineQuote", "decline", o, "sum", "DECLINED")

BeginCancelOrder(w, o) ==
    /\ status[o] \notin NonCancellableStatuses \cup {"NONE"}
    /\ Start(w, "cancelOrder", "cancel", o, "take", "CANCELLED")

BeginSubmitForApproval(w, o) ==
    /\ status[o] = "PRICING_REVIEW"
    /\ Start(w, "submitForApproval", "status", o, "flip", "PENDING_APPROVAL")

BeginAdminApproveQuote(w, o) ==
    /\ status[o] = "PENDING_APPROVAL"
    /\ Start(w, "adminApproveQuote", "status", o, "flip", "QUOTED")

BeginReturnToLogistics(w, o) ==
    /\ status[o] = "PENDING_APPROVAL"
    /\ Start(w, "returnToLogistics", "status", o, "flip", "PRICING_REVIEW")

BeginMarkAsNoCost(w, o) ==
    /\ status[o] \in StuckStatuses
    /\ Start(w, "markAsNoCost", "status", o, "flip", "CONFIRMED")

\* progressOrderStatus.  Roles and blocking service requests only refuse it.
BeginProgress(w, o, to) ==
    /\ to \notin {"CONFIRMED", "CLOSED"}
    /\ <<status[o], to>> \in ValidStateTransitions
    /\ (status[o] = "DELIVERED" /\ to = "IN_USE") => today >= EventStart[o]
    /\ Start(w, "progress", "status", o, "flip", to)

\* progressOrderStatus with CLOSED: it releases the bookings on the way.  Mutant
\* first: the status is all that changes.
BeginProgressToClosed_FlipOnly(w, o) ==
    /\ <<status[o], "CLOSED">> \in ValidStateTransitions
    /\ \A a \in Items(o) : returned[o][a] >= Need[o][a]
    /\ Start(w, "close", "close", o, "flip", "CLOSED")

BeginProgressToClosed(w, o) ==
    /\ <<status[o], "CLOSED">> \in ValidStateTransitions
    /\ \A a \in Items(o) : returned[o][a] >= Need[o][a]
    /\ Start(w, "close", "close", o, "sum", "CLOSED")

\* completeOutboundScan; whether every item was scanned is up to the crew.
BeginCompleteOutbound(w, o) ==
    /\ status[o] = "IN_PREPARATION"
    /\ Start(w, "completeOutbound", "status", o, "flip", "READY_FOR_DELIVERY")

\* completeInboundScan: a SERIALIZED item must be back, the shortfall of a
\* POOLED one is settled by a write-off.
BeginCompleteInbound(w, o) ==
    /\ "completeInbound" \in Requests
    /\ job[w] = Idle
    /\ status[o] \in {"AWAITING_RETURN", "RETURN_IN_TRANSIT"}
    /\ \A a \in Items(o) \ Pooled : returned[o][a] >= Need[o][a]
    /\ job' = [job EXCEPT ![w] = [Idle EXCEPT !.op = "complete", !.order = o, !.step = "sum",
                          !.read = status[o], !.to = "CLOSED", !.back = returned[o]]]
    /\ UNCHANGED <<invVars, status, returned, orderLock, expireList, calendar>>

\* transitionOrdersBasedOnEventDates: acts on the very day only.  The batch
\* UPDATE of a run is modelled as one update per listed order.
BeginEventStart(o) ==
    /\ status[o] = "DELIVERED" /\ today = EventStart[o]
    /\ Start(Cron, "eventDates", "status", o, "flip", "IN_USE")

BeginEventEnd(o) ==
    /\ status[o] = "IN_USE" /\ today = EventEnd[o]
    /\ Start(Cron, "eventDates", "status", o, "flip", "AWAITING_RETURN")

------------------------------------------------------------------------------
(* expireStuckQuotes: list once, then one transaction per listed order,    *)
(* with no second look at its status.                                      *)

Stuck(o) == status[o] \in StuckStatuses /\ today > EventEnd[o] + GraceDays

\* Mutant: only quotes that reached the client are listed.
ListStuckQuotes_QuotedOnly ==
    /\ "expire" \in Requests
    /\ job[Cron] = Idle /\ expireList = {}
    /\ \E o \in Orders : Stuck(o) /\ status[o] = "QUOTED"
    /\ expireList' = {o \in Orders : Stuck(o) /\ status[o] = "QUOTED"}
    /\ UNCHANGED <<invVars, status, returned, job, orderLock, calendar>>

ListStuckQuotes ==
    /\ "expire" \in Requests
    /\ job[Cron] = Idle /\ expireList = {}
    /\ \E o \in Orders : Stuck(o)
    /\ expireList' = {o \in Orders : Stuck(o)}
    /\ UNCHANGED <<invVars, status, returned, job, orderLock, calendar>>

BeginExpire(o) ==
    /\ o \in expireList
    /\ job[Cron] = Idle
    /\ job' = [job EXCEPT ![Cron] = [Idle EXCEPT !.op = "expire", !.order = o, !.step = "sum",
                                                 !.read = status[o], !.to = "CANCELLED"]]
    /\ expireList' = expireList \ {o}
    /\ UNCHANGED <<invVars, status, returned, orderLock, calendar>>

------------------------------------------------------------------------------
(* The booking transaction of submit and approve.                          *)

Item(w) == job[w].order
At(w, step) == job[w].step = step
Finish(w) == job' = [job EXCEPT ![w] = Idle]
GoTo(w, step) == job' = [job EXCEPT ![w].step = step]
\* What w has read of its order is still so; for the cron, that it is a stuck quote.
Current(w) == /\ status[Item(w)] = job[w].read
              /\ job[w].op = "expire" => job[w].read \in StuckStatuses

\* Mutant: the lockForUpdate argument is forgotten.
LockAndCheck_NoLock(w) ==
    LET o == Item(w) IN
    /\ At(w, "lock")
    /\ IF Fits(o)
       THEN job' = [job EXCEPT ![w].step = "book",
                       ![w].seen = [a \in Assets |->
                           IF a \in Items(o) THEN WindowAvailable(o, a) ELSE 0]]
       ELSE Finish(w)
    /\ UNCHANGED <<invVars, status, returned, orderLock, expireList, calendar>>

\* checkAssetsForOrder inside the transaction: FOR UPDATE on the asset rows,
\* then the overlapping bookings are read.  A shortage throws.
LockAndCheck(w) ==
    LET o == Item(w) IN
    /\ At(w, "lock")
    /\ Unlocked(Items(o))
    /\ IF Fits(o)
       THEN /\ assetLock' = LockedBy(w, Items(o))
            /\ job' = [job EXCEPT ![w].step = "book",
                         ![w].seen = [a \in Assets |->
                             IF a \in Items(o) THEN WindowAvailable(o, a) ELSE 0]]
       ELSE Finish(w) /\ UNCHANGED assetLock
    /\ UNCHANGED <<total, avail, booking, status, returned, orderLock, expireList, calendar>>

\* Commit of submitOrderFromCart: the order row appears with its bookings.
BookSubmitted(w) ==
    LET o == Item(w) IN
    /\ At(w, "book") /\ job[w].op = "submit"
    /\ InsertRows(o)
    /\ Decrement(o)
    /\ status' = [status EXCEPT ![o] = job[w].to]
    /\ assetLock' = UnlockedBy(w)
    /\ Finish(w)
    /\ UNCHANGED <<total, returned, orderLock, expireList, calendar>>

\* Commit of the first transaction of approveQuote: rows are inserted only
\* when the order has none, and then available_quantity is overwritten by
\* what the window had left.
BookApproved(w) ==
    LET o == Item(w) IN
    /\ At(w, "book") /\ job[w].op = "approve"
    /\ IF HasRows(o)
       THEN UNCHANGED <<booking, avail, overtaken>>
       ELSE /\ InsertRows(o)
            /\ Overtake(o, Current(w))
            /\ avail' = [a \in Assets |-> IF a \in Items(o)
                            THEN AtLeastZero(job[w].seen[a] - Need[o][a]) ELSE avail[a]]
    /\ assetLock' = UnlockedBy(w)
    /\ GoTo(w, "flip")
    /\ UNCHANGED <<total, status, returned, orderLock, expireList, today, halfDone>>

\* UPDATE orders SET order_status = ... WHERE id = ...: no look at the old one.
Flip(w) ==
    LET o == Item(w) IN
    /\ At(w, "flip")
    /\ orderLock[o] = Nobody
    /\ status' = [status EXCEPT ![o] = job[w].to]
    /\ Finish(w)
    /\ Overtake(o, Current(w))
    /\ UNCHANGED <<invVars, returned, orderLock, expireList, today, halfDone>>

------------------------------------------------------------------------------
(* releaseBookingsAndRestoreAvailability, inside a transaction.            *)

\* cancelOrder updates the order row first and so holds it until it commits.
TakeOrderRow(w) ==
    LET o == Item(w) IN
    /\ At(w, "take")
    /\ orderLock[o] = Nobody
    /\ orderLock' = [orderLock EXCEPT ![o] = w]
    /\ GoTo(w, "sum")
    /\ UNCHANGED <<invVars, status, returned, expireList, calendar>>

\* SELECT SUM(quantity) per asset, without a lock.
SumRows(w) ==
    LET o == Item(w) IN
    /\ At(w, "sum")
    /\ job' = [job EXCEPT ![w].seen = booking[o],
                          ![w].step = IF job[w].op = "close" THEN "delete" ELSE "apply"]
    /\ UNCHANGED <<invVars, status, returned, orderLock, expireList, calendar>>

\* Mutant: every release restores only what was scanned in.
GivenBack_Counted(w) == [a \in Assets |-> AtMost(job[w].seen[a], job[w].back[a])]

\* What is given back: for completeInboundScan only what was scanned in.
GivenBack(w) == [a \in Assets |-> IF job[w].op = "complete"
                    THEN AtMost(job[w].seen[a], job[w].back[a]) ELSE job[w].seen[a]]

\* WRITE_OFF of what a settled POOLED line is short of; nothing otherwise.
TotalAfter(w) == [a \in Assets |->
    LET short == Need[Item(w)][a] - job[w].back[a] IN
    IF job[w].op = "complete" /\ short > 0 THEN AtLeastZero(total[a] - short) ELSE total[a]]

RowsTouched(w) == {a \in Assets : job[w].seen[a] > 0 \/ booking[Item(w)][a] > 0
                                    \/ TotalAfter(w)[a] # total[a]}
CheckHolds(w) == \A a \in Assets : Restored(GivenBack(w))[a] <= TotalAfter(w)[a]

\* Mutants: the status is flipped later, by a transaction of its own; the
\* status is flipped on another connection than the transaction's.
ReleaseAndFlip_TwoTransactions(w) ==
    LET o == Item(w) IN
    /\ At(w, "apply")
    /\ Unlocked(RowsTouched(w))
    /\ orderLock[o] \in {w, Nobody}
    /\ DeleteRows(o)
    /\ avail' = Restored(GivenBack(w))
    /\ orderLock' = [orderLock EXCEPT ![o] = Nobody]
    /\ GoTo(w, "flip")
    /\ Overtake(o, Current(w) /\ job[w].seen = booking[o])
    /\ UNCHANGED <<total, assetLock, status, returned, expireList, today, halfDone>>
ReleaseAndFlip_OtherConnection(w) ==
    LET o == Item(w) IN
    /\ At(w, "apply")
    /\ Unlocked(RowsTouched(w))
    /\ orderLock[o] = Nobody
    /\ CheckHolds(w)
    /\ DeleteRows(o)
    /\ avail' = Restored(GivenBack(w))
    /\ total' = TotalAfter(w)
    /\ status' = [status EXCEPT ![o] = job[w].to]
    /\ Finish(w)
    /\ Overtake(o, Current(w) /\ job[w].seen = booking[o])
    /\ UNCHANGED <<assetLock, returned, orderLock, expireList, today, halfDone>>

ReleaseAndFlip(w) ==
    LET o == Item(w) IN
    /\ At(w, "apply")
    /\ Unlocked(RowsTouched(w))
    /\ orderLock[o] \in {w, Nobody}
    /\ CheckHolds(w)
    /\ DeleteRows(o)
    /\ avail' = Restored(GivenBack(w))
    /\ total' = TotalAfter(w)
    /\ status' = [status EXCEPT ![o] = job[w].to]
    /\ orderLock' = [orderLock EXCEPT ![o] = Nobody]
    /\ Finish(w)
    /\ Overtake(o, Current(w) /\ job[w].seen = booking[o])
    /\ UNCHANGED <<assetLock, returned, expireList, today, halfDone>>

\* The CHECK assets_available_le_total refuses the write-off: all rolled back.
WriteOffRejected(w) ==
    /\ At(w, "apply")
    /\ Unlocked(RowsTouched(w))
    /\ ~CheckHolds(w)
    /\ Finish(w)
    /\ UNCHANGED <<invVars, status, returned, orderLock, expireList, calendar>>

------------------------------------------------------------------------------
(* The same release called by progressOrderStatus with the module-level db: *)
(* every statement commits on its own.                                      *)

CloseDeleteRows(w) ==
    LET o == Item(w) IN
    /\ At(w, "delete")
    /\ Unlocked({a \in Assets : booking[o][a] > 0})
    /\ DeleteRows(o)
    /\ GoTo(w, IF job[w].seen = NoQty THEN "flip" ELSE "restore")
    /\ Overtake(o, Current(w) /\ job[w].seen = booking[o])
    /\ UNCHANGED <<total, avail, assetLock, status, returned, orderLock, expireList, today, halfDone>>

CloseRestore(w, a) ==
    LET rest == [job[w].seen EXCEPT ![a] = 0] IN
    /\ At(w, "restore")
    /\ job[w].seen[a] > 0
    /\ assetLock[a] = Nobody
    /\ avail' = Restored([b \in Assets |-> IF b = a THEN job[w].seen[a] ELSE 0])
    /\ job' = [job EXCEPT ![w].seen = rest,
                          ![w].step = IF rest = NoQty THEN "flip" ELSE "restore"]
    /\ UNCHANGED <<total, booking, assetLock, status, returned, orderLock, expireList, calendar>>

------------------------------------------------------------------------------
(* The rest of the world.                                                  *)

\* inboundScan: a POOLED count replaces the last one, a SERIALIZED adds one.
InboundScan(o, a, q) ==
    /\ "inboundScan" \in Requests
    /\ status[o] \in {"AWAITING_RETURN", "RETURN_IN_TRANSIT"}
    /\ a \in Items(o)
    /\ LET count == IF a \in Pooled THEN q ELSE returned[o][a] + 1 IN
       /\ count <= Need[o][a]
       /\ returned' = [returned EXCEPT ![o][a] = count]
    /\ UNCHANGED <<invVars, status, job, orderLock, expireList, calendar>>

\* What w has committed so far is half of what it is for: the rows of a closed order are gone.
HalfClosed(w) == job[w].op = "close" /\ job[w].step \in {"restore", "flip"}

\* A handler dies: crash, lost connection, deadlock victim, thrown error.
\* Its open transaction is rolled back, what it committed stays.
Abort(w) ==
    /\ Crashes
    /\ job[w] # Idle
    /\ Finish(w)
    /\ assetLock' = UnlockedBy(w)
    /\ orderLock' = [o \in Orders |-> IF orderLock[o] = w THEN Nobody ELSE orderLock[o]]
    /\ expireList' = IF w = Cron THEN {} ELSE expireList
    /\ halfDone' = IF HalfClosed(w) THEN halfDone \cup {Item(w)} ELSE halfDone
    /\ UNCHANGED <<total, avail, booking, status, returned, today, overtaken>>

Tick ==
    /\ today < MaxDay
    /\ today' = today + 1
    /\ UNCHANGED <<invVars, status, returned, job, orderLock, expireList, overtaken, halfDone>>

------------------------------------------------------------------------------
Begin(w, o) ==
    /\ job[w] = Idle
    /\ \/ BeginSubmit(w, o) \/ BeginApproveQuote(w, o) \/ BeginDeclineQuote(w, o)
       \/ BeginCancelOrder(w, o) \/ BeginSubmitForApproval(w, o)
       \/ BeginAdminApproveQuote(w, o) \/ BeginReturnToLogistics(w, o)
       \/ BeginMarkAsNoCost(w, o) \/ BeginProgressToClosed(w, o)
       \/ BeginCompleteOutbound(w, o) \/ BeginCompleteInbound(w, o)
       \/ \E to \in Statuses : BeginProgress(w, o, to)

CronBegin(o) == BeginEventStart(o) \/ BeginEventEnd(o) \/ BeginExpire(o)

Resume(w) ==
    \/ LockAndCheck(w) \/ BookSubmitted(w) \/ BookApproved(w) \/ Flip(w)
    \/ TakeOrderRow(w) \/ SumRows(w) \/ ReleaseAndFlip(w) \/ WriteOffRejected(w)
    \/ CloseDeleteRows(w) \/ \E a \in Assets : CloseRestore(w, a)

Next ==
    \/ \E w \in Workers, o \in Orders : Begin(w, o)
    \/ \E o \in Orders : CronBegin(o)
    \/ ListStuckQuotes
    \/ \E w \in OrderActors : Resume(w) \/ Abort(w)
    \/ \E o \in Orders, a \in Assets : \E q \in 1 .. Need[o][a] : InboundScan(o, a, q)
    \/ Tick

Spec == Init /\ [][Next]_vars

\* The event loop resumes every handler; PostgreSQL serves the waiters of a
\* row in turn, hence strong fairness; the scheduler calls the crons and
\* time passes.  Nobody has to send a request.
FairSpec ==
    /\ Spec
    /\ \A w \in OrderActors : SF_vars(Resume(w))
    /\ WF_vars(ListStuckQuotes)
    /\ \A o \in Orders : WF_vars(BeginExpire(o))
    /\ WF_vars(Tick)

------------------------------------------------------------------------------
(* Properties.                                                             *)

\* Between LockAndCheck and its commit, what a booking transaction read is
\* still what it may take: nobody booked into its window or shrank the pool.
CheckStaysGood == \A w \in OrderActors : At(w, "book") =>
    \A a \in Items(Item(w)) : /\ assetLock[a] = w
                              /\ Need[Item(w)][a] <= job[w].seen[a]
                              /\ job[w].seen[a] <= WindowAvailable(Item(w), a)

\* The CHECK assets_available_le_total never fires outside a settlement.
AvailableWithinTotal == \A a \in Assets : avail[a] <= total[a] /\ total[a] <= Stock[a]

\* An order holds all its items or none: submit books them in one
\* transaction and every release deletes them in one statement.
AllOrNothing == \A o \in Orders : HasRows(o) => booking[o] = Need[o]

\* A step that gives an order stock leaves every day of its window within
\* the stock owned at that moment, written-off units excluded.
AdmissionFits == [][\A o \in Orders, a \in Assets :
    booking'[o][a] > booking[o][a] =>
        \A t \in Window[o][a].from .. Window[o][a].until : Committed(a, t)' <= total'[a]]_vars

\* Seen from outside, the engine is the ideal reservation desk: its rows are
\* granted whole, only within what each day has left, and freed whole.
Desk == INSTANCE Reservation WITH held <- booking, pool <- total
ImplementsReservation == Desk!Spec

\* Rows disappear in the very transaction that flips the order to a terminal
\* status (cron.services.ts: "release HARD-DELETES the row in the same txn
\* as the terminal status flip").
TerminalStatuses == {"DECLINED", "CLOSED", "CANCELLED"}
HoldEndsWithFlip == [][\A o \in Orders :
    (HasRows(o) /\ ~HasRows(o)') => status'[o] \in TerminalStatuses]_vars

\* An order nobody is working on holds its stock if it is active, whatever
\* handlers overlap and die, unless one of them wrote it after it had moved on or
\* died halfway through closing it (cron.services.ts: "row exists IFF the hold is
\* active"; the other half is EndedFreesStock) ...
Quiet(o) == \A w \in OrderActors : job[w].order # o
ActiveKeepsHold == \A o \in Orders \ (overtaken \cup halfDone) :
    (Quiet(o) /\ status[o] \in ActiveStatuses /\ Items(o) # {}) => HasRows(o)

\* ... which the code does not see to if a second handler is at work.
ActiveAlwaysHolds == \A o \in Orders :
    (Quiet(o) /\ status[o] \in ActiveStatuses /\ Items(o) # {}) => HasRows(o)

\* An order that was closed or cancelled holds nothing from then on, although a
\* close commits in three steps and an approval may book late, unless that
\* approval, too, found another status than it had read.
EndedFreesStock == \A o \in Orders \ overtaken :
    status[o] \in {"CLOSED", "CANCELLED"} => ~HasRows(o)

\* A terminal order holds none, a declined one neither.
TerminalFreesStock == \A o \in Orders :
    (Quiet(o) /\ status[o] \in TerminalStatuses) => ~HasRows(o)

\* The cached counter never loses units: what it shows, what is booked and what
\* a close has deleted but not yet given back make up the pool, so a pool with no
\* rows left is fully available again, as long as nobody writes over a holder that
\* has moved on and no close dies between its commits.
InFlightBack(a) == Cardinality(UNION {{w} \X (1 .. job[w].seen[a]) :
                                        w \in {v \in OrderActors : At(v, "restore")}})
NoStockLeak == overtaken = {} /\ halfDone \cap Orders = {} => \A a \in Assets :
    avail[a] + Booked(a, Holders) + InFlightBack(a) >= total[a]

\* A write-off settles a hold: the pool shrinks only in a step that ends one
\* (stock-movement.service.ts: "a booked unit didn't fully return").
WriteOffSettlesHold == [][(total' # total) =>
    \E o \in Orders : HasRows(o) /\ ~HasRows(o)']_vars

\* Settling a short return is never refused: the write-off leaves
\* available_quantity within total_quantity (stock-movement.service.ts: "the
\* booking already accounted for available").
WriteOffAccepted == \A w \in OrderActors :
    (job[w].op = "complete" /\ At(w, "apply")) => CheckHolds(w)

\* A quote left unanswered past its event and the grace period is let go of.
StuckQuoteExpires == \A o \in Orders : Stuck(o) ~> ~Stuck(o)

\* No handler waits for ever on another one's row locks.
HandlersFinish == \A w \in OrderActors : job[w] # Idle ~> job[w] = Idle
==============================================================================
