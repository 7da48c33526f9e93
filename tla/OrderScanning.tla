---------------------------- MODULE OrderScanning ----------------------------
(***************************************************************************)
(* The scans of one order in the warehouse (modules/scanning,              *)
(* scanning.services.ts): outbound while it is prepared, inbound when it   *)
(* comes back, and the two completions.  Scan events are rows; a pooled    *)
(* asset also gets a ledger row per event, written after the event and     *)
(* linked to it.  An inbound scan of a pooled asset states a total and     *)
(* replaces the events it read at its start.                               *)
(*                                                                         *)
(*   scan       (unlink ->) insert (-> move)                               *)
(*   complete   close                                                      *)
(*                                                                         *)
(* OrderBooking has what a completion does to bookings and counters; here  *)
(* it is what it settles.  Left out: photos, condition, asset status and   *)
(* versions, progress figures.  An order has one line per asset (bound);   *)
(* AWAITING_RETURN stands for RETURN_IN_TRANSIT too.                       *)
(***************************************************************************)
EXTENDS Integers, FiniteSets

CONSTANTS
    Assets,     \* the assets on the order
    Pooled,     \* those with stock_mode POOLED; the others are SERIALIZED
    Qty,        \* Qty[a]: order_items.quantity
    Actors,     \* the requests in flight
    MaxEvents   \* bound: the scan events that anything refers to at once

ASSUME AssetsType == IsFiniteSet(Assets) /\ Pooled \subseteq Assets
ASSUME QtyType    == Qty \in [Assets -> Nat \ {0}]
ASSUME BoundType  == MaxEvents \in Nat

VARIABLES
    status,     \* order_status
    events,     \* the scan_events rows: [id, asset, dir, qty]
    moves,      \* the stock_movements rows of scans: [id, asset, dir, qty, linked]
    writtenOff, \* writtenOff[a]: units that WRITE_OFF movements took
    job,        \* job[w]: the handler that w is running
    stated,     \* history: stated[a], what the last inbound scan of a said
    disturbed,  \* history: <<a, dir>> whose scans overlapped or were cut short
    skipped     \* history: staff sent the order out without the scan page

vars == <<status, events, moves, writtenOff, job, stated, disturbed, skipped>>

Dirs == {"OUT", "IN"}
Statuses == {"IN_PREPARATION", "READY_FOR_DELIVERY", "AWAITING_RETURN", "CLOSED"}
Idle == [op |-> "idle", step |-> "idle", asset |-> {}, dir |-> "OUT", qty |-> 0, id |-> 0,
         prior |-> {}, doomed |-> {}, short |-> [a \in Assets |-> 0], stale |-> FALSE]

Event(id, a, dir, q) == [id |-> id, asset |-> a, dir |-> dir, qty |-> q]
Movement(e) == [id |-> e.id, asset |-> e.asset, dir |-> e.dir, qty |-> e.qty, linked |-> TRUE]

EventsOf(a, dir) == {e \in events : e.asset = a /\ e.dir = dir}
MovesOf(a, dir) == {m \in moves : m.asset = a /\ m.dir = dir}
\* The quantities of the rows in S added up: each unit is a pair.
Units(S) == Cardinality(UNION {{e} \X (1 .. e.qty) : e \in S})
Counted(a, dir) == Units(EventsOf(a, dir))

Init ==
    /\ status = "IN_PREPARATION"
    /\ events = {} /\ moves = {}
    /\ writtenOff = [a \in Assets |-> 0]
    /\ job = [w \in Actors |-> Idle]
    /\ stated = [a \in Assets |-> 0]
    /\ disturbed = {}
    /\ skipped = FALSE

------------------------------------------------------------------------------
At(w, step) == job[w].step = step
Begin(w, j) ==
    /\ job[w] = Idle
    /\ job' = [job EXCEPT ![w] = j]
    /\ UNCHANGED <<status, events, moves, writtenOff, stated, disturbed, skipped>>

\* The count that the handlers in flight have read is no longer the count.
Finish(w) == [job EXCEPT ![w] = Idle]
Outdated(jobs, w, a, dir) == [v \in Actors |->
    IF v # w /\ jobs[v] # Idle /\ (jobs[v].op # "scan" \/ (jobs[v].asset = a /\ jobs[v].dir = dir))
    THEN [jobs[v] EXCEPT !.stale = TRUE] ELSE jobs[v]]

AllOutdated(w) == [v \in Actors |-> IF v = w THEN Idle ELSE [job[v] EXCEPT !.stale = job[v] # Idle]]

Disturbed(w) == IF job[w].stale THEN Assets \X Dirs ELSE disturbed

\* No scan of a is under way.
Quiet(a, dir) == \A w \in Actors : job[w].op = "scan" => <<job[w].asset, job[w].dir>> # <<a, dir>>

Sizes(a) == IF a \in Pooled THEN 1 .. Qty[a] ELSE {1}
ScanJob(a, dir, q, step) ==
    [Idle EXCEPT !.op = "scan", !.step = step, !.asset = a, !.dir = dir, !.qty = q,
                 !.prior = EventsOf(a, dir), !.stale = ~Quiet(a, dir)]

------------------------------------------------------------------------------
(* outboundScan and inboundScan.                                           *)

BeginOutboundScan(w, a, q) ==
    /\ status = "IN_PREPARATION"
    /\ Counted(a, "OUT") + q <= Qty[a]
    /\ Begin(w, ScanJob(a, "OUT", q, "insert"))

\* What has been counted of a once q is scanned: stated, or one more.
InboundCount(a, q) == IF a \in Pooled THEN q ELSE Counted(a, "IN") + q
Replaces(a) == a \in Pooled /\ EventsOf(a, "IN") # {}
BeginInboundScan(w, a, q) ==
    /\ status = "AWAITING_RETURN"
    /\ InboundCount(a, q) <= Qty[a]
    /\ Begin(w, ScanJob(a, "IN", q, IF Replaces(a) THEN "unlink" ELSE "insert"))

\* DELETE of the movements that are linked to the prior events.
Unlink(w) ==
    /\ At(w, "unlink")
    /\ job' = [job EXCEPT ![w].step = "insert",
                          ![w].doomed = {m \in moves : m.linked /\ \E e \in job[w].prior : e.id = m.id}]
    /\ UNCHANGED <<status, events, moves, writtenOff, stated, disturbed, skipped>>

\* DELETE of the prior events, which clears the links to them (ON DELETE SET
\* NULL), INSERT of the new one, COMMIT.  Mutants first: a re-scan adds to the
\* count, as before the hotfix; the movements of the prior events stay.
Replaced_Additive(w) == {}
Replaced(w) == IF job[w].dir = "IN" /\ job[w].asset \in Pooled THEN job[w].prior ELSE {}
Unlinked_Kept(w) == moves
Unlinked(w) == {IF \E e \in Replaced(w) : e.id = m.id THEN [m EXCEPT !.linked = FALSE] ELSE m :
                   m \in moves \ job[w].doomed}

\* A new id is one that no row and no handler still names.
IdsOf(S) == {r.id : r \in S}
FreshIds == (1 .. MaxEvents) \ (IdsOf(events) \cup IdsOf(moves) \cup {job[w].id : w \in Actors}
                                 \cup UNION {IdsOf(job[w].prior \cup job[w].doomed) : w \in Actors})

InsertEvent(w) ==
    LET a == job[w].asset  dir == job[w].dir  q == job[w].qty  id == CHOOSE i \in FreshIds : TRUE IN
    /\ At(w, "insert")
    /\ FreshIds # {}
    /\ events' = (events \ Replaced(w)) \cup {Event(id, a, dir, q)}
    /\ moves' = Unlinked(w)
    /\ stated' = IF dir = "IN" THEN [stated EXCEPT ![a] = IF a \in Pooled THEN q ELSE @ + q] ELSE stated
    /\ disturbed' = IF job[w].stale THEN disturbed \cup {<<a, dir>>} ELSE disturbed
    /\ job' = Outdated(IF a \in Pooled THEN [job EXCEPT ![w].step = "move", ![w].id = id]
                                       ELSE Finish(w), w, a, dir)
    /\ UNCHANGED <<status, writtenOff, skipped>>

\* StockMovementService.record on its own connection.  The event may be gone:
\* then the foreign key refuses the row.
RecordMovement(w) ==
    LET e == Event(job[w].id, job[w].asset, job[w].dir, job[w].qty) IN
    /\ At(w, "move")
    /\ moves' = IF e \in events THEN moves \cup {Movement(e)} ELSE moves
    /\ job' = Finish(w)
    /\ UNCHANGED <<status, events, writtenOff, stated, disturbed, skipped>>

------------------------------------------------------------------------------
(* completeOutboundScan, completeInboundScan.                              *)

\* Totals over all assets.  Mutant first: any scan will do.
AllScannedOut_Any == events # {}
Wanted == Cardinality(UNION {{a} \X (1 .. Qty[a]) : a \in Assets})
AllScannedOut == Units({e \in events : e.dir = "OUT"}) >= Wanted
BeginCompleteOutbound(w) ==
    /\ status = "IN_PREPARATION"
    /\ AllScannedOut
    /\ Begin(w, [Idle EXCEPT !.op = "complete", !.step = "ready"])

\* progressOrderStatus lets staff move the order on as well, scanned or not.
BeginProgress(w) ==
    /\ status = "IN_PREPARATION"
    /\ Begin(w, [Idle EXCEPT !.op = "progress", !.step = "ready"])

Ready(w) ==
    /\ At(w, "ready")
    /\ status' = "READY_FOR_DELIVERY"
    /\ skipped' = (skipped \/ job[w].op = "progress")
    /\ disturbed' = Disturbed(w)
    /\ job' = AllOutdated(w)
    /\ UNCHANGED <<events, moves, writtenOff, stated>>

\* Every serialized unit must be back; a pooled line that is short is settled
\* by a write-off.  With nothing short this is also what progressOrderStatus
\* asks for and does on the way to CLOSED.  Mutant first: what never came back
\* is not missed.
Short_OfSeen(a) == IF Counted(a, "IN") \in 1 .. Qty[a] THEN Qty[a] - Counted(a, "IN") ELSE 0
Short(a) == IF Counted(a, "IN") < Qty[a] THEN Qty[a] - Counted(a, "IN") ELSE 0
BeginCompleteInbound(w) ==
    /\ status = "AWAITING_RETURN"
    /\ \A a \in Assets \ Pooled : Counted(a, "IN") >= Qty[a]
    /\ Begin(w, [Idle EXCEPT !.op = "complete", !.step = "close", !.short = [a \in Assets |-> Short(a)]])

\* One transaction, which does not look at status or scans again.
Close(w) ==
    /\ At(w, "close")
    /\ status' = "CLOSED"
    /\ writtenOff' = [a \in Assets |-> writtenOff[a] + job[w].short[a]]
    /\ disturbed' = Disturbed(w)
    /\ job' = AllOutdated(w)
    /\ UNCHANGED <<events, moves, stated, skipped>>

------------------------------------------------------------------------------
\* The trucks, the event and the way back, progressOrderStatus.
Deliver ==
    /\ status = "READY_FOR_DELIVERY"
    /\ status' = "AWAITING_RETURN"
    /\ UNCHANGED <<events, moves, writtenOff, job, stated, disturbed, skipped>>

\* A handler dies; what it has committed stays.
Crash(w) ==
    /\ job[w] # Idle
    /\ job' = Finish(w)
    /\ disturbed' = IF At(w, "move") THEN disturbed \cup {<<job[w].asset, job[w].dir>>} ELSE disturbed
    /\ UNCHANGED <<status, events, moves, writtenOff, stated, skipped>>

BeginAny(w) ==
    \/ \E a \in Assets : \E q \in Sizes(a) : BeginOutboundScan(w, a, q) \/ BeginInboundScan(w, a, q)
    \/ BeginCompleteOutbound(w) \/ BeginProgress(w) \/ BeginCompleteInbound(w)

Resume(w) == Unlink(w) \/ InsertEvent(w) \/ RecordMovement(w) \/ Ready(w) \/ Close(w)

Next ==
    \/ \E w \in Actors : BeginAny(w) \/ Resume(w) \/ Crash(w)
    \/ Deliver

Spec == Init /\ [][Next]_vars

------------------------------------------------------------------------------
(* Properties.                                                             *)

TypeOK ==
    /\ status \in Statuses
    /\ events \subseteq [id : 1 .. MaxEvents, asset : Assets, dir : Dirs, qty : Nat]
    /\ moves \subseteq [id : 1 .. MaxEvents, asset : Pooled, dir : Dirs, qty : Nat, linked : BOOLEAN]
    /\ writtenOff \in [Assets -> Nat]

\* The inbound events of an asset add up to what the crew stated last
\* (inboundScan: "re-scanning the same asset REPLACES the prior inbound count").
CountIsLatest == \A a \in Assets : Counted(a, "IN") = stated[a]

\* That holds of every asset whose inbound scans did not overlap, over-scans
\* included.
UndisturbedCountIsLatest == \A a \in Assets :
    <<a, "IN">> \in disturbed \/ Counted(a, "IN") = stated[a]

\* The ledger has the units of the events that exist, no more and no less
\* (inboundScan: "to keep the ledger total consistent with the latest recorded
\* count"), except where scans overlapped or died.
LedgerFollowsEvents == \A a \in Pooled, dir \in Dirs :
    (Quiet(a, dir) /\ <<a, dir>> \notin disturbed)
        => Units(MovesOf(a, dir)) = Counted(a, dir)

\* No order leaves the scan page with an asset that is not scanned in full,
\* although the totals are compared over all assets ("All items scanned out and
\* ready for delivery"), except where scans of some asset overlapped.
ReadyMeansAllOut == status # "IN_PREPARATION" =>
    \/ skipped
    \/ \A a \in Assets : Counted(a, "OUT") = Qty[a]
    \/ \E a \in Assets : <<a, "OUT">> \in disturbed

\* What is written off is what the crew did not state to be back, unless scans
\* or completions overlapped.
SettledAsStated == \A a \in Assets :
    status = "CLOSED" => \/ <<a, "IN">> \in disturbed
                         \/ writtenOff[a] = Qty[a] - stated[a]
==============================================================================
