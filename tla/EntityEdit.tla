------------------------------ MODULE EntityEdit ------------------------------
(***************************************************************************)
(* The edit of a live order or self-pickup (services/entity-edit.service,  *)
(* reconcileBookings in order.utils) next to the handlers that quote,      *)
(* approve, decline, expire or cancel it.  An edit changes quantities,     *)
(* items or dates, so here the items, the window and the booking rows of   *)
(* an entity are all state.                                                *)
(*                                                                         *)
(*   edit      entity -> rows -> assets (one lock at a time) -> commit     *)
(*   release   sum -> delete (-> blocked) -> assets -> commit              *)
(*   cancel    entity -> sum -> delete (-> blocked) -> assets -> commit    *)
(*   drop      sum -> delete (-> blocked) -> assets -> release -> commit   *)
(*   approve   check -> confirm                                            *)
(*   quote     flip                                                        *)
(*                                                                         *)
(* PRICING_REVIEW stands for SUBMITTED and PENDING_APPROVAL too, DROPPED   *)
(* for DECLINED and CANCELLED; release is a decline or the expiry cron,    *)
(* drop the decline or cancel of a self-pickup, in two transactions.       *)
(* A window has its buffers in it, and the lines of one asset are one      *)
(* quantity, as in reconcileBookings.  Left out: descriptive fields, prices, *)
(* the maintenance service requests and the refurbishment feasibility of   *)
(* an edit, which can only refuse it.                                      *)
(***************************************************************************)
EXTENDS Integers, FiniteSets

CONSTANTS
    Assets,     \* the asset rows
    Stock,      \* Stock[a]: total_quantity
    Entities,   \* the orders and self-pickups
    Pickups,    \* those that are self-pickups
    Submitted,  \* Submitted[e]: what e is submitted with, [items, window]
    Largest,    \* Largest[e][a]: the largest line of a in the cart of pickup e
    Changes,    \* Changes[e]: the edits that clients make of e
    Actors,     \* the handlers in flight
    Nobody      \* the owner of a free lock

Windows == [from : Int, until : Int]
Contents == [items : [Assets -> Nat], window : Windows]
Kinds == {"UPDATE", "ADD", "REMOVE", "MOVE"}

ASSUME StockType == Stock \in [Assets -> Nat]
ASSUME EntitiesFinite == IsFiniteSet(Entities) /\ Pickups \subseteq Entities
ASSUME SubmittedType == Submitted \in [Entities -> Contents]
ASSUME LargestType == /\ Largest \in [Pickups -> [Assets -> Nat]]
                      /\ \A e \in Pickups, a \in Assets :
                            /\ Largest[e][a] <= Submitted[e].items[a]
                            /\ Submitted[e].items[a] > 0 => Largest[e][a] > 0
ASSUME ChangesType == Changes \in
    [Entities -> SUBSET [kind : Kinds, asset : Assets, qty : Nat \ {0}, window : Windows]]
ASSUME NobodyType == Nobody \notin Actors \cup Entities

VARIABLES
    status,     \* order_status, self_pickup_status
    content,    \* content[e]: its items and its window
    row,        \* row[e][a]: the asset_bookings row of e for a
    avail,      \* avail[a]: assets.available_quantity
    entityLock, \* the row of e in orders or self_pickups
    rowsLock,   \* the booking rows of e
    assetLock,  \* the row of a in assets
    job,        \* job[w]: the handler that w is running
    offer,      \* history: offer[e], what staff have quoted
    overtaken,  \* history: entities that an outdated handler has written
    clamped     \* history: assets whose counter has met 0 or the total

locks == <<entityLock, rowsLock, assetLock>>
history == <<offer, overtaken, clamped>>
vars == <<status, content, row, avail, locks, job, history>>

EditableBand == {"PRICING_REVIEW", "QUOTED"}
Holding == EditableBand \cup {"CONFIRMED"}
Statuses == Holding \cup {"NONE", "DROPPED"}

NoRow == [qty |-> 0, from |-> 0, until |-> 0]
NoRows == [a \in Assets |-> NoRow]
AtMost(n, m) == IF n < m THEN n ELSE m
Clamped(a, n) == IF n < 0 THEN 0 ELSE AtMost(n, Stock[a])

Idle == [op |-> "idle", on |-> Nobody, step |-> "idle", change |-> Nobody, draft |-> Nobody,
         sum |-> [a \in Assets |-> 0], aim |-> {}, stale |-> FALSE]

Init ==
    /\ status = [e \in Entities |-> "NONE"]
    /\ content = Submitted
    /\ row = [e \in Entities |-> NoRows]
    /\ avail = Stock
    /\ entityLock = [e \in Entities |-> Nobody]
    /\ rowsLock = [e \in Entities |-> Nobody]
    /\ assetLock = [a \in Assets |-> Nobody]
    /\ job = [w \in Actors |-> Idle]
    /\ offer = Submitted
    /\ overtaken = {}
    /\ clamped = {}

------------------------------------------------------------------------------
(* Availability, from the rows that others have committed.                 *)

Overlaps(r, win) == r.qty > 0 /\ r.from <= win.until /\ r.until >= win.from
Units(a, S) == UNION {{e} \X (1 .. row[e][a].qty) : e \in S}
Booked(a, S) == Cardinality(Units(a, S))
Rivals(e, a, win) == {g \in Entities \ {e} : Overlaps(row[g][a], win)}
Fits(e, a, c) == Booked(a, Rivals(e, a, c.window)) + c.items[a] <= Stock[a]

ItemsOf(c) == {a \in Assets : c.items[a] > 0}
RowsOf(c) == [a \in Assets |-> IF c.items[a] = 0 THEN NoRow ELSE
                [qty |-> c.items[a], from |-> c.window.from, until |-> c.window.until]]
HasRows(e) == \E a \in Assets : row[e][a].qty > 0

\* The counter after what is held of every asset has changed from old to new.
Net(old, new, a) == old[a] - new[a]
AvailAfter(old, new) == [a \in Assets |->
    IF Net(old, new, a) = 0 THEN avail[a] ELSE Clamped(a, avail[a] + Net(old, new, a))]
ClampedBy(old, new) == {a \in Assets : AvailAfter(old, new)[a] # avail[a] + Net(old, new, a)}
Nothing == [a \in Assets |-> 0]
Held(e) == [a \in Assets |-> row[e][a].qty]

------------------------------------------------------------------------------
At(w, step) == job[w].step = step
On(w) == job[w].on
GoTo(w, step) == job' = [job EXCEPT ![w].step = step]
Locked(w) == {a \in Assets : assetLock[a] = w}

Begin(w, j) ==
    /\ job[w] = Idle
    /\ job' = [job EXCEPT ![w] = j]
    /\ UNCHANGED <<status, content, row, avail, locks, history>>

JobFor(op, e, step) == [Idle EXCEPT !.op = op, !.on = e, !.step = step]

\* COMMIT and ROLLBACK free the locks of w.
FreeLocks(w) ==
    /\ entityLock' = [e \in Entities |-> IF entityLock[e] = w THEN Nobody ELSE entityLock[e]]
    /\ rowsLock' = [e \in Entities |-> IF rowsLock[e] = w THEN Nobody ELSE rowsLock[e]]
    /\ assetLock' = [a \in Assets |-> IF assetLock[a] = w THEN Nobody ELSE assetLock[a]]

Rollback(w) ==
    /\ job' = [job EXCEPT ![w] = Idle]
    /\ FreeLocks(w)
    /\ UNCHANGED <<status, content, row, avail, history>>

\* What the other handlers on e have read is no longer so; a DELETE that waits
\* does not see the rows written in its stead (READ COMMITTED).
Overtake(w, e, rewritten) == [v \in Actors |->
    IF v = w THEN Idle
    ELSE IF job[v].on = e /\ job[v].op # "edit"
    THEN [job[v] EXCEPT !.stale = TRUE, !.aim = @ \ rewritten] ELSE job[v]]

Overtaken(w) == IF job[w].stale THEN overtaken \cup {On(w)} ELSE overtaken

------------------------------------------------------------------------------
(* editEntity.                                                             *)

BeginEdit(w, e, change) ==
    /\ status[e] \in Holding
    /\ Begin(w, [JobFor("edit", e, "entity") EXCEPT !.change = change])

\* applyOrderItemEdits, applySelfPickupItemEdits: an ADD of what is there is
\* merged into it.
Edited(c, change) ==
    LET a == change.asset IN
    CASE change.kind = "MOVE" -> [c EXCEPT !.window = change.window]
      [] change.kind = "ADD" -> [c EXCEPT !.items[a] = c.items[a] + change.qty]
      [] change.kind = "UPDATE" -> [c EXCEPT !.items[a] = change.qty]
      [] change.kind = "REMOVE" -> [c EXCEPT !.items[a] = 0]

Applies(c, change) ==
    /\ change.kind \in {"UPDATE", "REMOVE"} => c.items[change.asset] > 0
    /\ Edited(c, change) # c
    /\ ItemsOf(Edited(c, change)) # {}

Editable(e) == status[e] \in EditableBand

\* SELECT ... FOR UPDATE of the entity, then the band and the item edits.
LockForEdit(w) ==
    LET e == On(w) IN
    /\ At(w, "entity") /\ job[w].op = "edit"
    /\ entityLock[e] = Nobody
    /\ IF Editable(e) /\ Applies(content[e], job[w].change)
       THEN /\ entityLock' = [entityLock EXCEPT ![e] = w]
            /\ job' = [job EXCEPT ![w].step = "rows",
                                  ![w].draft = Edited(content[e], job[w].change)]
       ELSE job' = [job EXCEPT ![w] = Idle] /\ UNCHANGED entityLock
    /\ UNCHANGED <<status, content, row, avail, rowsLock, assetLock, history>>

\* reconcileBookings, step 1.
LockRows(w) ==
    /\ At(w, "rows")
    /\ rowsLock[On(w)] = Nobody
    /\ rowsLock' = [rowsLock EXCEPT ![On(w)] = w]
    /\ GoTo(w, "assets")
    /\ UNCHANGED <<status, content, row, avail, entityLock, assetLock, history>>

\* Step 3: adds, increases and shifted windows are checked.  Mutant first: the
\* quantities alone decide.
Risky_MoreOnly(e, c) == {a \in ItemsOf(c) : c.items[a] > row[e][a].qty}
Risky(e, c) == {a \in ItemsOf(c) :
    LET new == RowsOf(c)[a] IN
    new.qty > row[e][a].qty \/ new.from # row[e][a].from \/ new.until # row[e][a].until}

\* The asset rows that w updates or locks; the statuses of all are resynced.
Wanted(w) ==
    LET e == On(w) IN
    IF job[w].op = "edit" THEN {a \in Assets : row[e][a].qty > 0} \cup ItemsOf(job[w].draft)
                          ELSE {a \in Assets : job[w].sum[a] > 0}

\* One asset at a time, in no given order: first those that are checked.
LockAsset(w, a) ==
    LET e == On(w)
        checks == IF job[w].op = "edit" THEN Risky(e, job[w].draft) ELSE {} IN
    /\ At(w, "assets")
    /\ a \in Wanted(w) \ Locked(w)
    /\ a \in checks \/ checks \subseteq Locked(w)
    /\ assetLock[a] = Nobody
    /\ IF a \in checks /\ ~Fits(e, a, job[w].draft) THEN Rollback(w)
       ELSE /\ assetLock' = [assetLock EXCEPT ![a] = w]
            /\ UNCHANGED <<status, content, row, avail, entityLock, rowsLock, job, history>>

\* Mutants first: a quote stays a quote; rows of what is removed stay.
StatusAfter_Kept(e) == status[e]
StatusAfter(e) == IF status[e] = "QUOTED" THEN "PRICING_REVIEW" ELSE status[e]

RowsAfter_NoDelete(e, c) == [a \in Assets |-> IF c.items[a] = 0 THEN row[e][a] ELSE RowsOf(c)[a]]
RowsAfter(e, c) == RowsOf(c)

\* Mutant first: what was held before is not counted.
FreedBy_Nothing(e) == Nothing
FreedBy(e) == Held(e)

CommitEdit(w) ==
    LET e == On(w)  c == job[w].draft IN
    /\ At(w, "assets") /\ job[w].op = "edit"
    /\ Wanted(w) \subseteq Locked(w)
    /\ content' = [content EXCEPT ![e] = c]
    /\ row' = [row EXCEPT ![e] = RowsAfter(e, c)]
    /\ avail' = AvailAfter(FreedBy(e), c.items)
    /\ clamped' = clamped \cup ClampedBy(FreedBy(e), c.items)
    /\ status' = [status EXCEPT ![e] = StatusAfter(e)]
    /\ job' = Overtake(w, e, {a \in Assets : RowsOf(c)[a] # row[e][a]})
    /\ FreeLocks(w)
    /\ UNCHANGED <<offer, overtaken>>

------------------------------------------------------------------------------
(* declineQuote, expireStuckQuotes; cancelOrder takes the entity first;    *)
(* cancelSelfPickup and clientDeclineQuote commit in between.              *)

BeginRelease(w, e) == status[e] \in EditableBand /\ Begin(w, JobFor("release", e, "sum"))
BeginCancel(w, e) ==
    /\ status[e] \in Holding
    /\ Begin(w, IF e \in Pickups THEN JobFor("drop", e, "sum") ELSE JobFor("cancel", e, "entity"))

LockForCancel(w) ==
    /\ At(w, "entity") /\ job[w].op = "cancel"
    /\ entityLock[On(w)] = Nobody
    /\ entityLock' = [entityLock EXCEPT ![On(w)] = w]
    /\ GoTo(w, "sum")
    /\ UNCHANGED <<status, content, row, avail, rowsLock, assetLock, history>>

SumRows(w) ==
    /\ At(w, "sum")
    /\ job' = [job EXCEPT ![w].step = "delete", ![w].sum = Held(On(w))]
    /\ UNCHANGED <<status, content, row, avail, locks, history>>

RowAssets(e) == {a \in Assets : row[e][a].qty > 0}

\* DELETE.  It takes the rows at once, or it has found them and waits.
DeleteRows(w) ==
    LET e == On(w) IN
    /\ At(w, "delete")
    /\ IF rowsLock[e] = Nobody
       THEN /\ rowsLock' = [rowsLock EXCEPT ![e] = IF HasRows(e) THEN w ELSE Nobody]
            /\ job' = [job EXCEPT ![w].step = "assets", ![w].aim = RowAssets(e)]
       ELSE /\ job' = [job EXCEPT ![w].step = "blocked", ![w].aim = RowAssets(e)]
            /\ UNCHANGED rowsLock
    /\ UNCHANGED <<status, content, row, avail, entityLock, assetLock, history>>

UnblockDelete(w) ==
    LET e == On(w) IN
    /\ At(w, "blocked")
    /\ rowsLock[e] = Nobody
    /\ rowsLock' = [rowsLock EXCEPT ![e] = IF job[w].aim # {} THEN w ELSE Nobody]
    /\ GoTo(w, "assets")
    /\ UNCHANGED <<status, content, row, avail, entityLock, assetLock, history>>

\* The counters get the sum, the entity its terminal status.
CommitDrop(w) ==
    LET e == On(w) IN
    /\ At(w, "assets") /\ job[w].op \in {"release", "cancel"}
    /\ Wanted(w) \subseteq Locked(w)
    /\ entityLock[e] \in {w, Nobody}
    /\ row' = [row EXCEPT ![e] = [a \in Assets |-> IF a \in job[w].aim THEN NoRow ELSE row[e][a]]]
    /\ avail' = AvailAfter(job[w].sum, Nothing)
    /\ clamped' = clamped \cup ClampedBy(job[w].sum, Nothing)
    /\ status' = [status EXCEPT ![e] = "DROPPED"]
    /\ overtaken' = Overtaken(w)
    /\ job' = Overtake(w, e, {})
    /\ FreeLocks(w)
    /\ UNCHANGED <<content, offer>>

\* The transaction of a drop, and its transitionStatus by id.
CommitRelease(w) ==
    LET e == On(w) IN
    /\ At(w, "assets") /\ job[w].op = "drop"
    /\ Wanted(w) \subseteq Locked(w)
    /\ row' = [row EXCEPT ![e] = [a \in Assets |-> IF a \in job[w].aim THEN NoRow ELSE row[e][a]]]
    /\ avail' = AvailAfter(job[w].sum, Nothing)
    /\ clamped' = clamped \cup ClampedBy(job[w].sum, Nothing)
    /\ overtaken' = Overtaken(w)
    /\ job' = [Overtake(w, e, {}) EXCEPT ![w] = [job[w] EXCEPT !.step = "released"]]
    /\ FreeLocks(w)
    /\ UNCHANGED <<status, content, offer>>

FlipDropped(w) ==
    LET e == On(w) IN
    /\ At(w, "released")
    /\ entityLock[e] = Nobody
    /\ status' = [status EXCEPT ![e] = "DROPPED"]
    /\ overtaken' = Overtaken(w)
    /\ job' = Overtake(w, e, {})
    /\ UNCHANGED <<content, row, avail, locks, offer, clamped>>

------------------------------------------------------------------------------
(* Submit, quote, approve.                                                 *)

Unlocked(S) == \A a \in S : assetLock[a] = Nobody

\* An order is admitted by what its days leave, a self-pickup by the counter,
\* each line of its cart alone.
Admitted(e) == IF e \in Pickups THEN \A a \in Assets : Largest[e][a] <= avail[a]
                                ELSE \A a \in ItemsOf(content[e]) : Fits(e, a, content[e])

\* Check and booking are one transaction under the locks of the assets.
Submit(e) ==
    LET c == content[e] IN
    /\ status[e] = "NONE"
    /\ Unlocked(ItemsOf(c))
    /\ Admitted(e)
    /\ status' = [status EXCEPT ![e] = "PRICING_REVIEW"]
    /\ row' = [row EXCEPT ![e] = RowsOf(c)]
    /\ avail' = AvailAfter(Nothing, c.items)
    /\ clamped' = clamped \cup ClampedBy(Nothing, c.items)
    /\ UNCHANGED <<content, locks, job, offer, overtaken>>

BeginQuote(w, e) == status[e] = "PRICING_REVIEW" /\ Begin(w, JobFor("quote", e, "flip"))

Quote(w) ==
    LET e == On(w) IN
    /\ At(w, "flip")
    /\ entityLock[e] = Nobody
    /\ status' = [status EXCEPT ![e] = "QUOTED"]
    /\ offer' = [offer EXCEPT ![e] = content[e]]
    /\ overtaken' = Overtaken(w)
    /\ job' = Overtake(w, e, {})
    /\ UNCHANGED <<content, row, avail, locks, clamped>>

\* The items and the dates are read with the status.
BeginApprove(w, e) ==
    /\ status[e] = "QUOTED"
    /\ Begin(w, [JobFor("approve", e, IF e \in Pickups THEN "confirm" ELSE "check")
                    EXCEPT !.draft = content[e]])

\* The first transaction of approveQuote: it books what it has read unless there
\* are rows, whatever they are.
CheckApproval(w) ==
    LET e == On(w)  c == job[w].draft IN
    /\ At(w, "check")
    /\ Unlocked(ItemsOf(c))
    /\ IF \E a \in ItemsOf(c) : ~Fits(e, a, c)
       THEN /\ job' = [job EXCEPT ![w] = Idle]
            /\ UNCHANGED <<row, avail, clamped, overtaken>>
       ELSE /\ GoTo(w, "confirm")
            /\ IF HasRows(e) THEN UNCHANGED <<row, avail, clamped, overtaken>>
               ELSE /\ entityLock[e] = Nobody
                    /\ row' = [row EXCEPT ![e] = RowsOf(c)]
                    /\ avail' = AvailAfter(Nothing, c.items)
                    /\ clamped' = clamped \cup ClampedBy(Nothing, c.items)
                    /\ overtaken' = Overtaken(w)
    /\ UNCHANGED <<status, content, locks, offer>>

\* The second, by id.
Confirm(w) ==
    LET e == On(w) IN
    /\ At(w, "confirm")
    /\ entityLock[e] = Nobody
    /\ status' = [status EXCEPT ![e] = "CONFIRMED"]
    /\ overtaken' = Overtaken(w)
    /\ job' = Overtake(w, e, {})
    /\ UNCHANGED <<content, row, avail, locks, offer, clamped>>

------------------------------------------------------------------------------
\* A crash, a lost connection, or PostgreSQL ends a deadlock.
Abort(w) ==
    /\ job[w] # Idle
    /\ job' = [job EXCEPT ![w] = Idle]
    /\ FreeLocks(w)
    /\ overtaken' = IF At(w, "released") THEN overtaken \cup {On(w)} ELSE overtaken
    /\ UNCHANGED <<status, content, row, avail, offer, clamped>>

BeginAny(w, e) ==
    \/ \E change \in Changes[e] : BeginEdit(w, e, change)
    \/ BeginRelease(w, e) \/ BeginCancel(w, e) \/ BeginQuote(w, e) \/ BeginApprove(w, e)

Resume(w) ==
    \/ LockForEdit(w) \/ LockForCancel(w) \/ LockRows(w) \/ \E a \in Assets : LockAsset(w, a)
    \/ CommitEdit(w) \/ SumRows(w) \/ DeleteRows(w) \/ UnblockDelete(w) \/ CommitDrop(w)
    \/ CommitRelease(w) \/ FlipDropped(w) \/ Quote(w) \/ CheckApproval(w) \/ Confirm(w)

Next ==
    \/ \E w \in Actors : Resume(w) \/ Abort(w) \/ \E e \in Entities : BeginAny(w, e)
    \/ \E e \in Entities : Submit(e)

Spec == Init /\ [][Next]_vars
------------------------------------------------------------------------------
(* Properties.                                                             *)

TypeOK ==
    /\ status \in [Entities -> Statuses]
    /\ content \in [Entities -> Contents]
    /\ row \in [Entities -> [Assets -> [qty : Nat, from : Int, until : Int]]]
    /\ avail \in [Assets -> Nat]
    /\ entityLock \in [Entities -> Actors \cup {Nobody}]
    /\ rowsLock \in [Entities -> Actors \cup {Nobody}]
    /\ assetLock \in [Assets -> Actors \cup {Nobody}]

\* What is promised of an asset on day t.
Covering(a, t) == {e \in Entities : row[e][a].qty > 0 /\ t \in row[e][a].from .. row[e][a].until}

\* Whoever books more of an asset, or books it on other days, stays within its
\* stock on each of these days, pickups and orders together: any edit, and the
\* submit and the approval of an order, however others submit, edit, release and
\* approve in between.  Only the submit of a self-pickup goes by the counter.
BooksAnew(e, a) ==
    /\ row'[e][a].qty > 0
    /\ \/ row'[e][a].qty > row[e][a].qty
       \/ row'[e][a].from # row[e][a].from \/ row'[e][a].until # row[e][a].until
    /\ e \in Pickups => status[e] # "NONE"
BookingFits == [][\A e \in Entities, a \in Assets : BooksAnew(e, a) =>
    \A t \in row'[e][a].from .. row'[e][a].until : Booked(a, Covering(a, t))' <= Stock[a]]_vars

\* A live entity holds its items as they are now on its days as they are now,
\* and an ended one nothing (cron.services.ts: "row exists IFF the hold is
\* active"), unless a handler wrote what it had read before an edit or a drop is
\* half done.
ShouldHold(e) == IF status[e] \in Holding THEN RowsOf(content[e]) ELSE NoRows
HalfDropped(e) == \E w \in Actors : At(w, "released") /\ On(w) = e
HoldFollowsContent == \A e \in Entities :
    e \in overtaken \/ HalfDropped(e) \/ row[e] = ShouldHold(e)

\* The counter is the stock less what is held, through every sequence of edits,
\* releases and rollbacks, until it meets an end of its range.
CounterExact == overtaken = {} => \A a \in Assets :
    a \in clamped \/ avail[a] = Stock[a] - Booked(a, Entities)

\* What is quoted or confirmed is what staff have quoted, unless an edit
\* overtook an approval (editEntity: an edit "invalidates the quote").
QuoteStands == \A e \in Entities :
    status[e] \in {"QUOTED", "CONFIRMED"} => e \in overtaken \/ content[e] = offer[e]
==============================================================================
