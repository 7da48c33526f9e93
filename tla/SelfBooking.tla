----------------------------- MODULE SelfBooking -----------------------------
(***************************************************************************)
(* Self-bookings (modules/self-bookings) and manual stock adjustments      *)
(* (modules/stock-movements, services/stock-movement.service.ts) over the  *)
(* shared inventory, next to the submits of orders and self-pickups.       *)
(*                                                                         *)
(* A self-booking takes units off the shelf with no window: what its OUT   *)
(* lines still owe blocks the pool on every day.  It takes no row lock and *)
(* leaves available_quantity alone.  job[w] is the handler of actor w:     *)
(*                                                                         *)
(*   create   check (one line at a time) -> insert                         *)
(*   scan     write (UPDATE item, SELECT items) -> commit                  *)
(*   cancel   flip (UPDATE booking) -> settle (UPDATE items, commit)       *)
(*   adjust   ledger -> apply                                              *)
(*   submit   gate -> book                                                 *)
(*                                                                         *)
(* A booking has at most two lines (bound).  The rows of a holder stand    *)
(* for an active one.  Left out: events, the low-stock alert, metadata.    *)
(***************************************************************************)
EXTENDS Inventory

CONSTANTS
    SelfBookings,   \* the self-bookings that can be created
    LineAsset,      \* LineAsset[b][l]: the asset of line l
    LineQty,        \* LineQty[b][l]: its quantity, 0 if b has no such line
    Pickups,        \* the holders that are self-pickups; the others are orders
    Deltas,         \* Deltas[a]: the adjustments of a that staff make
    MaxAdjusts      \* bound: how many of them

Lines == 1 .. 2

ASSUME SelfBookingsType == /\ IsFiniteSet(SelfBookings) /\ SelfBookings \cap Holders = {}
                           /\ Nobody \notin SelfBookings \cup Holders
ASSUME LinesType == /\ LineAsset \in [SelfBookings -> [Lines -> Assets]]
                    /\ LineQty \in [SelfBookings -> [Lines -> Nat]]
ASSUME BookingsTakeUnits == \A b \in SelfBookings : \E l \in Lines : LineQty[b][l] > 0
ASSUME ActorsFinite == IsFiniteSet(Actors)
ASSUME PickupsType == Pickups \subseteq Holders
ASSUME DeltasType == Deltas \in [Assets -> SUBSET (Int \ {0})] /\ MaxAdjusts \in Nat

VARIABLES
    status,         \* status[b]: self_bookings.status, "NONE" before the insert
    lineStatus,     \* lineStatus[b][l]: "OUT" or "RETURNED"
    returned,       \* returned[b][l]: returned_quantity
    lineLock,       \* lineLock[b][l]: the transaction that has updated the row
    bookingLock,    \* bookingLock[b]
    ledger,         \* ledger[a]: [in, out], the deltas in stock_movements
    adjusts,        \* adjustments made so far
    job,
    scanned,        \* history: units scanned of a line, up to its quantity
    disturbed,      \* history: bookings that an outdated handler has written
    late            \* history: what holds units that no check accounts for

bookingVars == <<status, lineStatus, returned, lineLock, bookingLock>>
stockVars == <<total, avail, booking, ledger, adjusts>>
vars == <<invVars, bookingVars, ledger, adjusts, job, scanned, disturbed, late>>

Statuses == {"NONE", "ACTIVE", "COMPLETED", "CANCELLED"}
Idle == [op |-> "idle", on |-> Nobody, line |-> 1, step |-> "idle", units |-> 0,
         base |-> 0, last |-> FALSE, stale |-> FALSE]

Owes(b, l) == IF status[b] # "NONE" /\ LineQty[b][l] > 0 /\ lineStatus[b][l] = "OUT"
              THEN LineQty[b][l] - returned[b][l] ELSE 0
LinesOn(a) == {x \in SelfBookings \X Lines : LineAsset[x[1]][x[2]] = a}

\* The units of a that the bookings in S still owe, each unit a pair.
OwedUnits(a, S) == UNION {{x} \X (1 .. Owes(x[1], x[2])) : x \in {y \in LinesOn(a) : y[1] \in S}}
SelfBooked(a) == Cardinality(OwedUnits(a, SelfBookings))

\* Two lines of one asset.
Repeats(b) == LineAsset[b][1] = LineAsset[b][2] /\ \A l \in Lines : LineQty[b][l] > 0

TypeOK ==
    /\ InvTypeOK
    /\ status \in [SelfBookings -> Statuses]
    /\ lineStatus \in [SelfBookings -> [Lines -> {"OUT", "RETURNED"}]]
    /\ returned \in [SelfBookings -> [Lines -> Nat]]
    /\ lineLock \in [SelfBookings -> [Lines -> Actors \cup {Nobody}]]
    /\ bookingLock \in [SelfBookings -> Actors \cup {Nobody}]
    /\ ledger \in [Assets -> [in : Nat, out : Nat]]

Init ==
    /\ InvInit
    /\ status = [b \in SelfBookings |-> "NONE"]
    /\ lineStatus = [b \in SelfBookings |-> [l \in Lines |-> "OUT"]]
    /\ returned = [b \in SelfBookings |-> [l \in Lines |-> 0]]
    /\ lineLock = [b \in SelfBookings |-> [l \in Lines |-> Nobody]]
    /\ bookingLock = [b \in SelfBookings |-> Nobody]
    /\ ledger = [a \in Assets |-> [in |-> 0, out |-> 0]]
    /\ adjusts = 0
    /\ job = [w \in Actors |-> Idle]
    /\ scanned = [b \in SelfBookings |-> [l \in Lines |-> 0]]
    /\ disturbed = {}
    /\ late = {}

------------------------------------------------------------------------------
At(w, step) == job[w].step = step
On(w) == job[w].on
GoTo(w, step) == job' = [job EXCEPT ![w].step = step]
Finish(w) == job' = [job EXCEPT ![w] = Idle]

Begin(w, j) ==
    /\ job[w] = Idle
    /\ job' = [job EXCEPT ![w] = j]
    /\ UNCHANGED <<invVars, bookingVars, ledger, adjusts, scanned, disturbed, late>>

JobFor(op, x, step) == [Idle EXCEPT !.op = op, !.on = x, !.step = step]

\* What w has read no longer holds: others have written booking b, or have
\* taken units of an asset in S.
Outdates(w, b) == [v \in Actors |-> IF v = w THEN Idle
                     ELSE [job[v] EXCEPT !.stale = @ \/ job[v].on = b]]
HasChecked(v) == At(v, "insert") \/ At(v, "book") \/ (At(v, "check") /\ job[v].line = 2)
Takes(w) == [v \in Actors |-> IF v = w THEN Idle
               ELSE [job[v] EXCEPT !.stale = @ \/ HasChecked(v)]]

------------------------------------------------------------------------------
(* createSelfBooking.                                                      *)

BeginCreate(w, b) ==
    /\ status[b] = "NONE"
    /\ \A v \in Actors : job[v].on # b
    /\ Begin(w, JobFor("create", b, "check"))

\* Of all days at once: orders, self-pickups and self-bookings.
Unbooked(a) == total[a] - Booked(a, Holders) - SelfBooked(a)

\* One line of the loop, each checked alone and with no lock.
CheckLine(w) ==
    LET b == On(w)  l == job[w].line IN
    /\ At(w, "check")
    /\ IF LineQty[b][l] > Unbooked(LineAsset[b][l]) THEN Finish(w)
       ELSE IF l = 1 THEN job' = [job EXCEPT ![w].line = 2] ELSE GoTo(w, "insert")
    /\ UNCHANGED <<invVars, bookingVars, ledger, adjusts, scanned, disturbed, late>>

\* Header and lines in one transaction.
InsertBooking(w) ==
    LET b == On(w) IN
    /\ At(w, "insert")
    /\ status' = [status EXCEPT ![b] = "ACTIVE"]
    /\ lineStatus' = [lineStatus EXCEPT ![b] =
                        [l \in Lines |-> IF LineQty[b][l] > 0 THEN "OUT" ELSE "RETURNED"]]
    /\ late' = IF job[w].stale \/ Repeats(b) THEN late \cup {b} ELSE late
    /\ job' = Takes(w)
    /\ UNCHANGED <<invVars, returned, lineLock, bookingLock, ledger, adjusts, scanned, disturbed>>

------------------------------------------------------------------------------
(* returnScan.                                                             *)

\* items.find: the first line of the asset that is still OUT.
Matches(b, l) ==
    /\ LineQty[b][l] > 0 /\ lineStatus[b][l] = "OUT"
    /\ \A k \in 1 .. (l - 1) : LineAsset[b][k] = LineAsset[b][l] => lineStatus[b][k] # "OUT"

BeginScan(w, b, l, q) ==
    /\ status[b] = "ACTIVE"
    /\ Matches(b, l)
    /\ q <= LineQty[b][l] - returned[b][l]
    /\ Begin(w, [JobFor("scan", b, "write") EXCEPT !.line = l, !.units = q, !.base = returned[b][l]])

\* Mutant: the quantity is added to what the row has now.
Back_Increment(w) == returned[On(w)][job[w].line] + job[w].units
\* The count that the UPDATE writes comes from before the transaction.
Back(w) == job[w].base + job[w].units
LineBack(w) == Back(w) >= LineQty[On(w)][job[w].line]

\* UPDATE of the item, then SELECT of all items: the other lines as committed.
WriteLine(w) ==
    LET b == On(w)  l == job[w].line IN
    /\ At(w, "write")
    /\ lineLock[b][l] = Nobody
    /\ lineLock' = [lineLock EXCEPT ![b][l] = w]
    /\ job' = [job EXCEPT ![w].step = "commit",
                          ![w].last = LineBack(w) /\ \A k \in Lines \ {l} : lineStatus[b][k] = "RETURNED"]
    /\ UNCHANGED <<invVars, status, lineStatus, returned, bookingLock, ledger, adjusts,
                   scanned, disturbed, late>>

\* The bookings that block units again, by an outdated scan.
Revived == {b \in SelfBookings : \E l \in Lines : Owes(b, l)' > Owes(b, l)}

\* UPDATE of the booking if that was the last line; COMMIT.  Mutant first: the
\* booking is completed as soon as one line is.
CommitScan_AnyLine(w) ==
    LET b == On(w)  l == job[w].line IN
    /\ At(w, "commit")
    /\ LineBack(w) => bookingLock[b] = Nobody
    /\ returned' = [returned EXCEPT ![b][l] = Back(w)]
    /\ lineStatus' = [lineStatus EXCEPT ![b][l] = IF LineBack(w) THEN "RETURNED" ELSE "OUT"]
    /\ status' = [status EXCEPT ![b] = IF LineBack(w) THEN "COMPLETED" ELSE status[b]]
    /\ lineLock' = [lineLock EXCEPT ![b][l] = Nobody]
    /\ scanned' = [scanned EXCEPT ![b][l] = AtMost(LineQty[b][l], scanned[b][l] + job[w].units)]
    /\ disturbed' = IF job[w].stale THEN disturbed \cup {b} ELSE disturbed
    /\ job' = Outdates(w, b)
    /\ late' = late \cup Revived
    /\ UNCHANGED <<invVars, bookingLock, ledger, adjusts>>

CommitScan(w) ==
    LET b == On(w)  l == job[w].line IN
    /\ At(w, "commit")
    /\ job[w].last => bookingLock[b] = Nobody
    /\ returned' = [returned EXCEPT ![b][l] = Back(w)]
    /\ lineStatus' = [lineStatus EXCEPT ![b][l] = IF LineBack(w) THEN "RETURNED" ELSE "OUT"]
    /\ status' = [status EXCEPT ![b] = IF job[w].last THEN "COMPLETED" ELSE status[b]]
    /\ lineLock' = [lineLock EXCEPT ![b][l] = Nobody]
    /\ scanned' = [scanned EXCEPT ![b][l] = AtMost(LineQty[b][l], scanned[b][l] + job[w].units)]
    /\ disturbed' = IF job[w].stale THEN disturbed \cup {b} ELSE disturbed
    /\ job' = Outdates(w, b)
    /\ late' = late \cup Revived
    /\ UNCHANGED <<invVars, bookingLock, ledger, adjusts>>

------------------------------------------------------------------------------
(* cancelSelfBooking.                                                      *)

BeginCancel(w, b) ==
    /\ status[b] = "ACTIVE"
    /\ Begin(w, JobFor("cancel", b, "flip"))

FlipBooking(w) ==
    /\ At(w, "flip")
    /\ bookingLock[On(w)] = Nobody
    /\ bookingLock' = [bookingLock EXCEPT ![On(w)] = w]
    /\ GoTo(w, "settle")
    /\ UNCHANGED <<invVars, status, lineStatus, returned, lineLock, ledger, adjusts,
                   scanned, disturbed, late>>

\* UPDATE of the items that are OUT, once no scan holds one of them; COMMIT.
OutLines(b) == {l \in Lines : lineStatus[b][l] = "OUT"}
SettleLines(w) ==
    LET b == On(w) IN
    /\ At(w, "settle")
    /\ \A l \in OutLines(b) : lineLock[b][l] = Nobody
    /\ status' = [status EXCEPT ![b] = "CANCELLED"]
    /\ lineStatus' = [lineStatus EXCEPT ![b] = [l \in Lines |-> "RETURNED"]]
    /\ bookingLock' = [bookingLock EXCEPT ![b] = Nobody]
    /\ disturbed' = IF job[w].stale THEN disturbed \cup {b} ELSE disturbed
    /\ job' = Outdates(w, b)
    /\ UNCHANGED <<invVars, returned, lineLock, ledger, adjusts, scanned, late>>

------------------------------------------------------------------------------
(* createManualAdjustment: record(null, ...), two statements on their own. *)

BeginAdjust(w, a, d) ==
    /\ adjusts < MaxAdjusts
    /\ job[w] = Idle
    /\ adjusts' = adjusts + 1
    /\ job' = [job EXCEPT ![w] = [JobFor("adjust", a, "ledger") EXCEPT !.units = d]]
    /\ UNCHANGED <<invVars, bookingVars, ledger, scanned, disturbed, late>>

\* Mutant first: the row has the size of the change and not its sign.
Entered_Unsigned(entry, d) == [entry EXCEPT !.in = @ + (IF d > 0 THEN d ELSE -d)]
Entered(entry, d) == IF d > 0 THEN [entry EXCEPT !.in = @ + d] ELSE [entry EXCEPT !.out = @ - d]

EnterMovement(w) ==
    /\ At(w, "ledger")
    /\ ledger' = [ledger EXCEPT ![On(w)] = Entered(ledger[On(w)], job[w].units)]
    /\ GoTo(w, "apply")
    /\ UNCHANGED <<invVars, bookingVars, adjusts, scanned, disturbed, late>>

\* total_quantity and available_quantity, both GREATEST(0, ...), in one UPDATE.
Shifted(n, d) == AtLeastZero(n + d)
ApplyMovement(w) ==
    LET a == On(w)  d == job[w].units IN
    /\ At(w, "apply")
    /\ assetLock[a] = Nobody
    /\ total' = [total EXCEPT ![a] = Shifted(total[a], d)]
    /\ avail' = [avail EXCEPT ![a] = Shifted(avail[a], d)]
    /\ job' = IF d < 0 THEN Takes(w) ELSE [job EXCEPT ![w] = Idle]
    /\ UNCHANGED <<booking, assetLock, bookingVars, ledger, adjusts, scanned, disturbed, late>>

------------------------------------------------------------------------------
(* Orders and self-pickups: submit under FOR UPDATE, and the release.      *)

BeginSubmit(w, h) ==
    /\ ~HasRows(h) /\ Items(h) # {}
    /\ \A v \in Actors : job[v].on # h
    /\ Begin(w, JobFor("submit", h, "gate"))

\* An order is admitted by checkAvailability, which counts what self-bookings
\* have out; a self-pickup by the counter.  Mutant first: what self-bookings have
\* out is not counted.
Admitted_RowsOnly(h) == \A a \in Items(h) :
    total[a] - Booked(a, Competitors(h, a)) >= Need[h][a]
Admitted(h) ==
    IF h \in Pickups THEN \A a \in Items(h) : avail[a] >= Need[h][a]
    ELSE \A a \in Items(h) :
            AtLeastZero(total[a] - Booked(a, Competitors(h, a)) - SelfBooked(a)) >= Need[h][a]

Gate(w) ==
    LET h == On(w) IN
    /\ At(w, "gate")
    /\ Unlocked(Items(h))
    /\ IF Admitted(h) THEN assetLock' = LockedBy(w, Items(h)) /\ GoTo(w, "book")
                      ELSE Finish(w) /\ UNCHANGED assetLock
    /\ UNCHANGED <<stockVars, bookingVars, scanned, disturbed, late>>

Book(w) ==
    LET h == On(w) IN
    /\ At(w, "book")
    /\ InsertRows(h)
    /\ Decrement(h)
    /\ assetLock' = UnlockedBy(w)
    /\ late' = IF job[w].stale THEN late \cup {h} ELSE late
    /\ job' = Takes(w)
    /\ UNCHANGED <<total, bookingVars, ledger, adjusts, scanned, disturbed>>

Release(h) ==
    /\ HasRows(h)
    /\ Unlocked(Items(h))
    /\ DeleteRows(h)
    /\ avail' = Restored(booking[h])
    /\ late' = late \ {h}
    /\ UNCHANGED <<total, assetLock, bookingVars, ledger, adjusts, job, scanned, disturbed>>

------------------------------------------------------------------------------
(* Faults.  The open transaction is rolled back, and its locks are freed.  *)

Rollback(w) ==
    /\ Finish(w)
    /\ assetLock' = UnlockedBy(w)
    /\ lineLock' = [b \in SelfBookings |-> [l \in Lines |->
                        IF lineLock[b][l] = w THEN Nobody ELSE lineLock[b][l]]]
    /\ bookingLock' = [b \in SelfBookings |-> IF bookingLock[b] = w THEN Nobody ELSE bookingLock[b]]
    /\ UNCHANGED <<stockVars, status, lineStatus, returned, scanned, disturbed, late>>

\* The last scan holds a line that a cancel needs, and waits for its booking.
Deadlocked(w, v) ==
    /\ At(w, "commit") /\ job[w].last /\ bookingLock[On(w)] = v
    /\ At(v, "settle") /\ lineStatus[On(w)][job[w].line] = "OUT"

\* PostgreSQL aborts one of two transactions that wait for each other.
BreakDeadlock(w, v) ==
    /\ Deadlocked(w, v) \/ Deadlocked(v, w)
    /\ Rollback(w)

Crash(w) == job[w] # Idle /\ Rollback(w)

------------------------------------------------------------------------------
BeginAny(w) ==
    \/ \E b \in SelfBookings :
        \/ BeginCreate(w, b) \/ BeginCancel(w, b)
        \/ \E l \in Lines : \E q \in 1 .. LineQty[b][l] : BeginScan(w, b, l, q)
    \/ \E a \in Assets : \E d \in Deltas[a] : BeginAdjust(w, a, d)
    \/ \E h \in Holders : BeginSubmit(w, h)

Resume(w) ==
    \/ CheckLine(w) \/ InsertBooking(w) \/ WriteLine(w) \/ CommitScan(w)
    \/ FlipBooking(w) \/ SettleLines(w) \/ EnterMovement(w) \/ ApplyMovement(w)
    \/ Gate(w) \/ Book(w)

Next ==
    \/ \E w \in Actors : BeginAny(w) \/ Resume(w) \/ Crash(w)
    \/ \E w, v \in Actors : BreakDeadlock(w, v)
    \/ \E h \in Holders : Release(h)

Spec == Init /\ [][Next]_vars
------------------------------------------------------------------------------
(* Properties.                                                             *)

\* However scans of one line interleave, the count never passes what was taken
\* nor what was scanned (returnScan: "Cannot return more than remaining").
ReturnsBackedByScans == \A b \in SelfBookings, l \in Lines :
    returned[b][l] <= AtMost(LineQty[b][l], scanned[b][l])

\* As long as no handler has written a booking that changed under it, a booking
\* is completed exactly when all of it is back, a cancelled one blocks nothing,
\* and no scan is lost.
Coherent(b) ==
    /\ status[b] = "ACTIVE" => \E l \in Lines : lineStatus[b][l] = "OUT"
    /\ status[b] = "COMPLETED" => returned[b] = LineQty[b]
    /\ status[b] \in {"COMPLETED", "CANCELLED"} => OutLines(b) = {}
    /\ returned[b] = scanned[b]
UndisturbedIsCoherent == \A b \in SelfBookings : Coherent(b) \/ b \in disturbed

\* The pool is short by no more than what is held on an outdated check, by a
\* booking with two lines of one asset or by a scan that reopened a line, and
\* what adjustments took ("flipping the feature on won't cause oversell",
\* availability.core.ts).
LateUnits(a) == Booked(a, late \cap Holders) + Cardinality(OwedUnits(a, late))
ShortOnlyByLateChecks == \A a \in Assets : \A t \in Days :
    Committed(a, t) + SelfBooked(a) <= total[a] + LateUnits(a) + ledger[a].out

\* No unit enters or leaves the pool without a ledger row, wherever an
\* adjustment dies (stock-movement.service.ts: "1. Write the ledger row
\* (always)").
ChangesAreInLedger == \A a \in Assets :
    Stock[a] - ledger[a].out <= total[a] /\ total[a] <= Stock[a] + ledger[a].in
==============================================================================
