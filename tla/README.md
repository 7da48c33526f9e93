# A verification of the platform API's inventory

The platform API rents out the event assets of its companies: clients order
assets for an event or pick them up themselves, staff price, pack, ship and
take them back, and a handful of scheduled jobs move things along. It is a
Node.js service over one PostgreSQL database. Nothing in it runs in parallel
inside the process, but every handler is asynchronous: between two `await`s any
other handler, in this process or in another instance, may run. What protects
the data is therefore only what each SQL statement, row lock and transaction
does under READ COMMITTED. This directory models that, checks it with TLC and
proves the central results with TLAPS.

All paths below are relative to the repository (`src/app/...`, `src/db/...`).

## 1. Inventory of the system

| component | state it keeps | operations | talks to | model |
|---|---|---|---|---|
| Availability core (`shared/availability`) | none (reads `assets`, `asset_bookings`, `self_booking_items`) | `computeAvailability`, `checkAvailability`, `validateAvailabilityRequests` | called by every path that books, inside its transaction when it wants row locks | `Inventory` |
| Orders (`modules/order`) | `orders.order_status`, `order_items`, `asset_bookings`, `assets.available_quantity` | submit, price, approve, decline, progress, cancel, return to logistics, mark no-cost | availability, releases, service requests, pricing, event bus | `OrderBooking` |
| Entity edits (`services/entity-edit.service.ts`, `reconcileBookings`) | items, window and bookings of a live order or pickup | edit, reconcile | availability, bookings, quotes | `EntityEdit` |
| Scanning (`modules/scanning`) | `scan_events`, `stock_movements`, status of orders and pickups | outbound and inbound scans, their completion, settlements | releases bookings, stock ledger | `OrderScanning`, `OrderBooking`, `SelfPickup` |
| Self-pickups (`modules/self-pickup`) | `self_pickups.self_pickup_status`, items, bookings | submit, approve, decline, ready, hand over, return, cancel, mid-flow add | the same assets and bookings as orders | `SelfPickup` |
| Self-bookings (`modules/self-bookings`) | `self_bookings`, items with `returned_quantity` | create, return scan, cancel | counts against every window | `SelfBooking` |
| Stock ledger (`services/stock-movement.service.ts`) | `stock_movements`, `total_quantity`, `available_quantity` | record (write-off, adjustment, scan rows), threshold alert | assets | `SelfBooking`, `OrderScanning`, `OrderBooking` |
| Scheduled jobs (`modules/cron`) | none | event-date transitions, pickup returns, quote expiry, orphan report, reminders, OTP cleanup | orders, self-pickups, bookings | `OrderBooking`, `SelfPickup` |
| Pricing and line items (`services/pricing.service.ts`, `modules/order-line-items`) | `line_items`, `prices`, `pricing_mode` | add, change, void, show a line, rebuild the breakdown, quote, accept | orders, service requests, inbound requests | `Pricing` |
| Service requests (`modules/service-request`) | `service_requests`, `order_items.maintenance_decision` | create, work, quote, answer, cancel, override, decide on maintenance | block an order's preparation; billed with the order | `ServiceRequest` |
| Inbound requests (`modules/inbound-request`) | request and item rows, cost estimates in S3, new assets | create, submit, edit, price, quote, answer, waive, cancel, complete | assets, pricing, documents | `InboundRequest` |
| Mail queue (`services/notification-queue.service.ts`, `events/handlers/email.handler.ts`, `modules/notification-logs`) | `notification_logs` | enqueue, claim, send, retry, recover | mail transport | `NotificationQueue` |
| Event bus, workflow requests | `system_events`, `workflow_requests` | write a row, call handlers; annotate an entity | mail | not modelled |
| Master data, users, access policy, reports, uploads, PDF | tables of their own | CRUD, queries, rendering | everything reads them | not modelled |

What is hard here, and what the models are for: a status read before a
transaction and overwritten after it; a release that sums rows and deletes them
in two statements; row locks that only some paths take; transactions that were
split in two; counts read before a scan and written after it; an edit between a
handler's check and its write; a chain of statements that each commit; a list
read once by a cron and acted on later; a cached counter with clamps; a process
that dies between two commits; windows whose buffers touch. `PROJECT.json`
lists each hazard at its line with the property that would catch it.

What makes each component correct: no day of an asset is promised beyond what
is owned, whoever books; a parent holds all or none of its items and holds them
exactly while it is active, also when it is edited; what is booked comes back to
the counter or leaves the pool once; what is counted back is what was scanned;
units enter and leave the pool only with a ledger row or a completed inbound
request; a price that a client is shown is the price of the lines, and an
accepted one is what is charged; no order starts with an item unrepaired;
terminal states are final; stuck quotes end; notifications are sent and neither
lost nor repeated without need.

## 2. Modules and how they correspond to the code

| module | what it is |
|---|---|
| `Inventory` | the shared rows (`total`, `avail`, `booking`, `assetLock`) and the operators every booking path uses: `ComputeAvailability`, `Overlaps`, `InsertRows`, `Decrement`, `DeleteRows`, `Restored`; no steps |
| `Calendar` | what orders and self-pickups share beside the stock: the day it is, the stock modes, the grace period, whether handlers die, and `NoOversell` |
| `OrderBooking` | the order lifecycle over `Calendar`: the handlers of orders, scanning and cron, split at their awaits |
| `Reservation` | the abstract specification: a desk that grants a hold whole, when each of its days still fits, and frees it whole |
| `SelfPickup` | the self-pickup lifecycle over `Calendar`: submit, quote, scans, handover, return, mid-flow add, its two scheduled jobs |
| `BookingSystem` | composition: extends both lifecycles over one set of inventory rows and one calendar; a step of one leaves the own variables of the other alone |
| `SelfBooking` | self-bookings and manual adjustments over `Inventory`, next to the submits of orders and pickups |
| `EntityEdit` | edits of live orders and pickups, with items, windows and booking rows as state, next to approvals, releases, cancels and expiry |
| `OrderScanning` | the scans of one order, the ledger rows they write, and its two completions |
| `Pricing` | the price and the quote of orders and service requests: the chains behind a line item, a quote and its acceptance |
| `ServiceRequest` | extends `Pricing` with the work on a request, the maintenance decisions and the gate of the order |
| `InboundRequest` | inbound requests over `Inventory`: quote, estimate, edits, and the completion that adds stock, next to orders that book it |
| `NotificationQueue` | the `notification_logs` rows and the worker that every server process runs: insert, claim, send, outcome, back-off, recovery, manual retry |
| `UnitCounting` | lemmas on counting units, shared by the proofs |
| `BookingSystem_proofs` | the theorems about `OrderBooking`, about `SelfPickup` and about the two together |
| `SelfBooking_proofs`, `EntityEdit_proofs`, `ServiceRequest_proofs`, `InboundRequest_proofs`, `OrderScanning_proofs`, `NotificationQueue_proofs` | the theorems about each module |
| `MCOrderBooking`, `MCSelfPickup`, `MCBookingSystem`, `MCSelfBooking`, `MCEntityEdit`, `MCOrderScanning`, `MCServiceRequest`, `MCInboundRequest`, `MCNotificationQueue` | the small instances for TLC |

`Inventory` is extended by `Calendar`, `SelfBooking` and `InboundRequest`,
`Calendar` by `OrderBooking` and `SelfPickup`, and `BookingSystem` extends these
two: what both have of their own carries `Pickup` in its name in the second
(`PickupInit`, `PickupSpec`, `FlipPickup`), and each has its actors
(`OrderActors`, `PickupActors`), so that a property or a lemma of one part is one
of the whole. `EntityEdit` has
rows of its own, because there windows and needs change, which `Inventory` takes
as constants. `Pricing` is checked through `ServiceRequest`.
`NotificationQueue` shares nothing with the others: its rows are written by the
event handlers and read by the worker only. No module declares a RECURSIVE
operator, so theorems may be stated about each.

**State.** `total[a]` and `avail[a]` are `assets.total_quantity` and
`available_quantity`. `booking[h][a]` is the sum of the `asset_bookings` rows of
parent `h` and asset `a`; the code inserts, sums and deletes them by parent, so
the sum is all it can observe. `Window[h][a]` is what
`computeBookingWindow` (orders) and the pickup window (self-pickups) give.
`assetLock[a]`, `orderLock[o]` and their like are the row locks that outlast a
step. `status` and `pickupStatus` are the status columns, `returned`, `scanned` and
`pickupReturned` the sums of the scan events. For pickups, `Cart[p][l][a]` are the
lines of the cart, of which two may name one asset (`self-pickup.schemas.ts:3-14`
does not forbid it; `checkAssetsForOrder` refuses it for an order), `items[p][l][a]`
and `collected[p][l][a]` the item rows, one for each line of the cart and one
added mid-flow for each asset. In `EntityEdit`, `content[e]` has the items and the
window of an order or pickup, `row[e][a]` its booking row with its own window; a pickup
is submitted there by the counter too (`Largest` is the largest line of its cart), an
order by its days.
In `OrderScanning`, `events` and `moves` are sets of rows. In `Pricing` the lines
of an entity are a version number that each change raises, `snap` and `told`
the versions that the stored breakdown and the client's quote show. In `InboundRequest`,
`content[r]` are the items, `estimate[r]` the items that the PDF in S3 shows.

**Handlers.** `job[w]` (`pickupJob[w]`) is the handler that actor `w` is running: which one
(`op`), for whom, at which await it stands (`step`) and what it has read. A
`Begin...` action is the synchronous prefix of the handler: it reads the parent,
checks it, and stops at the first await whose outcome another handler can
change. `Resume(w)` (`ResumePickup(w)`) does the next step. The rule for splitting a transaction is
the same everywhere: it is cut where it takes a lock that another transaction
may hold, and between a read without a lock and the write that relies on it. Its
writes appear in one step, its commit, which is what READ COMMITTED shows to
others. A handler with two transactions has at least two steps, and a crash may
end it between them.

**History variables.** `scanned`, `late`, `stated`, `disturbed`, `overtaken`,
`halfDone`, `clamped`, `skipped`, `overruled`, `revised`, `lost`, `told`, `offer`, `arrived`,
`accepted` and `faults` record what no row of the database does; no handler reads
them. `disturbed` (`overtaken` in `Calendar` and `EntityEdit`) has the rows that
a handler has written although what it had read of them no longer held; `halfDone`
has the parents whose handler died between its two commits. No run and no theorem
keeps handlers apart for that: two of them work on one order or pickup, overtake
each other and die, and what happens then is in these two sets. Handlers check what they
have read and then write by id, nearly everywhere; a property that such a write
breaks at once would only say so again. With the exception named, the property
says everything else: what each handler does to its own row and to its
neighbours', and what may be built on it.

| code | steps in the model |
|---|---|
| `submitOrderFromCart` | `BeginSubmit` (early feasibility check, no lock), `LockAndCheck`, `BookSubmitted` |
| `approveQuote` | `BeginApproveQuote`, `LockAndCheck`, `BookApproved`, `Flip` (the second transaction) |
| `declineQuote`, `expireStuckQuotes`, `completeInboundScan` | `Begin...`, `SumRows`, `ReleaseAndFlip` or `WriteOffRejected` |
| `cancelOrder` | `BeginCancelOrder`, `TakeOrderRow`, `SumRows`, `ReleaseAndFlip` |
| `progressOrderStatus` to `CLOSED` | `BeginProgressToClosed`, `SumRows`, `CloseDeleteRows`, `CloseRestore` once per asset, `Flip`: the release runs on the module-level `db`, so each statement commits |
| `progressOrderStatus` otherwise, `submitForApproval`, `adminApproveQuote`, `returnToLogistics`, `markAsNoCost`, `completeOutboundScan`, event-date cron | `Begin...`, `Flip` (an UPDATE by id that does not look at the old status) |
| order `inboundScan` | `InboundScan`, one step, in `OrderBooking`; unlink, insert, move in `OrderScanning` |
| order `outboundScan` | insert, move (`OrderScanning`) |
| `submitSelfPickupFromCart` | `BeginPickupSubmit`, `Gate` (row locks, then `available_quantity`), `Book` |
| `cancelSelfPickup`, `clientDeclineQuote` | `Begin...`, `SumPickupRows`, `Release`, `FlipPickup`: two transactions in the code, first the release, then `transitionStatus` |
| `completeSelfPickupReturn`, pickup expiry | `Begin...`, `SumPickupRows`, `Settle` or `PickupWriteOffRejected` |
| `completeSelfPickupHandover` | `BeginHandover`, (`SumPickupRows` when partial), `Hand`, `FlipPickup` |
| self-pickup scans | `BeginOutboundScan` or `BeginInboundScan` (tally read and checked), `Scan` (insert) |
| `addSelfPickupItemMidflow` | `BeginAdd`, `CheckAdd`, `Add` |
| `transitionSelfPickupReturns` | `ListDuePickups`, `TransitionDue` (one batch UPDATE by the ids listed) |
| `createSelfBooking` | check (one line at a time, without locks), insert |
| `returnScan` | write (the count it read before its transaction), commit |
| `cancelSelfBooking` | flip (the booking row), settle (the item rows, commit) |
| manual adjustment | ledger row, then the quantities |
| `editEntity` with `reconcileBookings` | the entity's row, the booking rows, the asset rows one by one, commit |
| releases in `EntityEdit` | sum, delete (waits for an edit's rows), asset rows, commit; a cancel takes the entity first, a pickup's decline or cancel commits before its status |
| approvals and quotes in `EntityEdit` | approve: check, confirm; quote: flip |
| `createCatalogLineItem`, `createCustomLineItem`, `updateLineItem`, `voidLineItem`, `setLineItemsVisibility` | insert or show, load, store, (status, revert) |
| quote of an order or a service request | flip, send |
| acceptance of an order's quote | confirm, list, approve the bundled requests |
| service requests: create, work, cancel, override, update, decide; cancel and prepare the order | check, then one write (a maintenance decision is one transaction) |
| inbound request: submit, answer, cancel, waive | check, move |
| `approveInboundRequestByAdmin` | check, move, render, upload, send |
| `updateInboundRequestItem` | check, edit, render, upload |
| `updateInboundRequest` | check, edit |
| a line item of an inbound request | check, render, upload |
| `completeInboundRequest` | check, (read, write) once per item, commit |
| `handleEmailNotifications` | `Enqueue`, once per row |
| `NotificationQueueService.start` | `Start`, `RecoverStale`, then passes |
| `processNotificationQueue` | `Claim` (one statement with `SKIP LOCKED`); per row `Skip`, `SendAccepted` and `MarkSent`, or `SendRefused` and `MarkRefused`; `Abandon` when a statement outside the inner `try` throws |
| `retryNotification` | `BeginRetry` (read and check), `EndRetry` (update by id) |

`Abort` (`Crash` in some modules) stands for every way a handler ends early: a
crash of the process, a lost connection, a thrown error, a transaction that
PostgreSQL picks to break a cycle of row locks. Its open transaction is rolled
back, what it has committed stays.

**Composition.** An order is admitted by what the bookings of its days leave of
`total_quantity` (`computeAvailability`); a self-pickup by the counter
`available_quantity`, which knows no days. `BookingSystem` lets handlers of both
kinds interleave over the same rows and asks whether the two gates agree.
`SelfBooking` adds the units that are out without a window. `ServiceRequest` puts
the requests of an order before its preparation and under its quote.

**Mail.** `status[n]` and `attempts[n]` are columns; `due[n]` and `old[n]` are the
two comparisons with the clock that the code makes (`next_attempt_at`,
`processing_started_at` against the timeout). `worker[w]` is a server process:
where it stands, which rows of its batch are left, and the attempts the claim
returned, which is what the catch block compares with `email_max_attempts`.
`accepted[n]` counts how often the transport took the mail and `faults` what has
gone wrong so far: a crash, a lost answer, an exception, a claim that grows old
in the hands of a living worker, a retry by hand. The properties measure the
damage by it.

## 3. What each run checks

Passing runs (distinct states as TLC counts them):

| run | states | properties | what it shows |
|---|---|---|---|
| `booking_race` | 693 668 | `TypeOK`, `NoOversell`, `CheckStaysGood`, `ActiveKeepsHold`, `ImplementsReservation` | two handlers, any of which may die, quote, approve and cancel three orders for two units: nothing is oversold, what was read under the locks is true at commit, an active order that nobody wrote out of turn has its stock, and seen from outside the engine is the ideal desk |
| `live_expiry` | 211 826 | `AvailableWithinTotal`, `AdmissionFits`, `StuckQuoteExpires`, `HandlersFinish` | every request, scan and cron of the whole lifecycle with short returns, under fairness: the CHECK on the counter is never broken, each admission fits what is still owned after write-offs, an unanswered quote is let go of, and no handler waits for ever |
| `pickup_lifecycle` | 99 466 | `OversellBounded`, `CounterExact`, `OverdueIsCalledBack` | two pickups, one with two lines of one asset, and one request at a time, under fairness: the gate oversells by the repeated lines and the added items and by no more, the counter is exact without them, and what is not brought back by its date is called back |
| `pickup_race` | 1 691 009 | `NoPickupLeak`, `CollectedStaysBooked` | two handlers and the cron on one pickup, dying anywhere: no unit is neither free nor booked, and what the collector took stays booked until it is back |
| `shared_pool` | 337 032 | `OversellExplained`, `EndedFreesStock`, `NoStockLeak`, `OrderAdmissionFits` | orders through their lifecycle with closing by staff, and pickups confirmed at no cost with repeated lines and mid-flow items, on one day, with crashes: the two gates promise a unit twice only where the counter is known to, a closed or cancelled order holds nothing, and no unit is lost between the counter, the bookings and what a close has still to give back |
| `self_booking_race` | 379 256 | `ReturnsBackedByScans`, `UndisturbedIsCoherent`, `ShortOnlyByLateChecks`, `ChangesAreInLedger` | create, scan and cancel of self-bookings, an adjustment and an order's submit, two at a time with deadlocks and crashes: returns are backed by scans, a shortage is never more than what outdated checks let through, no unit enters or leaves without a ledger row |
| `scan_race` | 509 372 | `UndisturbedCountIsLatest`, `LedgerFollowsEvents`, `ReadyMeansAllOut`, `SettledAsStated` | two scans or completions of one order at a time: over-scans, re-scans and crashes in one place leave the count, the ledger and the settlement of every other place right |
| `edit_race` | 991 340 | `BookingFits`, `HoldFollowsContent`, `CounterExact`, `QuoteStands` | an order and a pickup that are submitted, quoted, edited, approved, declined, expired and cancelled, two handlers at a time with deadlocks and crashes: whoever books stays within the stock on each of its days but for a pickup's submit, an entity holds what it asks for, what is quoted is what staff priced |
| `request_race` | 380 766 | `QuoteIsCurrent`, `BreakdownFollowsLines`, `OneRepairPerItem`, `PreparedIsRepaired` | line changes, quotes, answers, work, decisions, overrides and cancellations on an order and its requests, two handlers at a time: what is quoted is current, the breakdown is rebuilt, an item has one repair at most and the order does not start without it |
| `inbound_race` | 303 970 | `StockAddsUp`, `QuotedIsReceived` | two inbound requests that add to one asset that an order books and releases, two handlers at a time, dying anywhere: each unit received is in the pool once, and is what was quoted |
| `mail_queue` | 205 460 | `RepeatsNeedFaults`, `AttemptsWithinLimit`, `StatusTellsTruth`, `EveryMailSettles` | two processes, two mails, whatever can go wrong twice: each mishap costs at most one repeated mail and one attempt beyond the limit, `SENT` is said only of mail the transport took, and every mail settles or is stranded with a dead worker |

The violated run is `quote_unsent` (`QuoteSentIsSent`). `approveInboundRequestByAdmin`
commits `QUOTED` and `QUOTE_SENT` and only then generates the estimate, without
`regenerate`; `document.service.ts:46-53` refuses when there is one, and every
change of a line item or an item has made one. The approval then fails with its
status committed: the client is never sent the quote ("a freshly sent quote
awaiting client action", `inbound-request.services.ts:658`), and the approval cannot
be repeated, since the request is no longer `PENDING_APPROVAL`. The approval of an
order regenerates.

Further disagreements met while modelling, kept as configurations beside the
runs (each is one `tlc` call and ends in a counterexample):

| configuration | module | property that fails | how |
|---|---|---|---|
| `declined_rows.cfg` | `MCOrderBooking` | `TerminalFreesStock` | staff progress a quote to `DECLINED`: `VALID_STATE_TRANSITIONS` allows it, the release runs for `CLOSED` only, and the rows block their days for good (no later call releases a declined order) |
| `approve_cancel_race.cfg` | `MCOrderBooking` | `ActiveAlwaysHolds` | `approveQuote` commits its booking, a cancel releases it and sets `CANCELLED`, then the second transaction of the approval sets `CONFIRMED`: a confirmed order without stock |
| `close_not_atomic.cfg` | `MCOrderBooking` | `HoldEndsWithFlip` | closing by `progressOrderStatus` commits the deletion of the rows before the status; the comment at `cron.services.ts:668` promises one transaction. The release of a cancelled or declined pickup commits before its status too (`self-pickup.services.ts:889`) |
| `settled_twice.cfg` | `MCOrderBooking` | `WriteOffSettlesHold` | two completions of one inbound scan both write the shortfall off |
| `writeoff_rejected.cfg` | `MCOrderBooking` | `WriteOffAccepted` | with the counter restored to its cap, the write-off makes `total_quantity` fall below it and the CHECK refuses the settlement |
| `midflow_oversell.cfg` | `MCSelfPickup` | `NoOversell` | an item added at the counter is checked against everyone's bookings but the pickup's own, and without the lock its comment names; a pickup that holds the pool is given more of it |
| `double_cancel.cfg` | `MCSelfPickup` | `NoOversell` | two cancels sum the same bookings and both restore them; the counter then lets a third pickup in |
| `overscan_leak.cfg` | `MCSelfPickup` | `NoPickupLeak` | an excess in one asset hides a shortage in another, because a handover is partial by totals |
| `counter_gate.cfg` | `MCBookingSystem` | `NoOversell` | two orders on disjoint days drive the counter to zero once (it is clamped); cancelling one raises it, and a pickup on the days of the other is let in |
| `rescan_doubles.cfg` | `MCOrderScanning` | `CountIsLatest` | two inbound scans of a pooled asset replace the same earlier events and both count |
| `accepted_stale.cfg` | `MCServiceRequest` | `QuoteAlwaysCurrent` | the client accepts between the write of a line and the chain's look at the status: confirmed at a price that the quote did not show |
| `display_requotes.cfg` | `MCServiceRequest` | `DisplayKeepsQuote` | showing or hiding the lines of a service request runs the pricing chain, which takes its quote back; `order-line-items.services.ts:1178-1181` says that a visibility change never does |
| `repair_struck.cfg` | `MCServiceRequest` | `RepairedBeforeEvent` | a repair is made billable (`service-request.services.ts:580` does not ask) and then cancelled like any request, and the order starts with the item unrepaired; `service-request.services.ts:695-699` wants an exception or a new decision |
| `free_is_invoiced.cfg` | `MCInboundRequest` | `FreeIsNeverInvoiced` | completing a request sets `PENDING_INVOICE` whatever its pricing mode (`inbound-request.services.ts:1364-1370`); `pricing.service.ts:1206-1207` says that a no-cost entity is never invoiced. The completions of order and pickup scans do the same (`scanning.services.ts:609`, `self-pickup-scanning.services.ts:726`) |
| `stranded_mail.cfg` | `MCNotificationQueue` | `StrandedIsRecovered` | a pass throws, or its process crashes and restarts before the claim is old; recovery runs in `start()` only, so when no process starts later the row stays `PROCESSING` for good |
| `sent_twice.cfg` | `MCNotificationQueue` | `SentStaysSent` | a retry by hand has checked `RETRYING`; the worker claims and sends the mail; the retry then queues it again |

One more, without a configuration: `stock-movement.service.ts:5-7` says that every
change of a quantity goes through the ledger; completing an inbound request
changes both quantities without a row.

A quote that the client approves between the check and the write of an edit is
confirmed with items that staff never priced: `QuoteStands` excuses the entities
in `overtaken` for that reason.

Two more oversell a pool without a configuration of their own, since a property that
a run checks states how far they go.

- *A cart with two lines of one asset.* The submit checks each line against
  `available_quantity` alone (`self-pickup.services.ts:285-315`) and then books and
  decrements line by line (361-382), clamped at zero. With `NoOversell` in place
  of `OversellBounded`, `pickup_lifecycle` fails with one handler: a partial handover
  leaves one unit, and two lines of one unit each both pass.
- *Closing by staff.* The rows are deleted in one commit and the counter raised in a
  later one (`order.services.ts:2364`). An order that books in between finds the days free,
  finds the counter at zero and leaves it there; then the close raises it, and a pickup
  is let in on units that the order has. `Outrun` of `BookingSystem` are these units. It
  takes two order handlers, and `shared_pool` has one (besides the cron) to leave room for crashes, returns
  and cancels: with a second one and fewer requests, `OversellExplained` holds in 670 157
  states, and fails without `Outrun`.

`NoPickupLeak` also fails when an item is added mid-flow while a
cancel has already summed the bookings; `pickup_race` leaves `addMidflow` out
for that reason. `CounterExact` says so too, of what nobody has overtaken.

**Mutants.** Each property of a passing run has a mutant in the module it
concerns: a definition named after the one it changes (`LockAndCheck_NoLock`,
`Overlaps_Strict`, `Row_OtherConnection`, ...) that a plausible slip in the code
would produce, and under which the property fails in its own run.

## 4. Bounds, and why they are enough

- *Quantities.* Two or three units. The arithmetic is sums, differences,
  `GREATEST(0, .)` and `LEAST(total, .)`; two units tell a partial return from
  none and from all, and let two orders share a pool that a third exhausts.
- *Orders and windows.* In `booking_race` one order wants the whole pool and the
  other two one unit each; `o1` and `o2` meet on one day only because of their
  buffers, `o2` and `o3` on one day only because of refurbishment days, `o1` and
  `o3` never. An off-by-one in the overlap, or a buffer counted twice, changes
  the outcome. Every pickup has at most two lines of an asset in its cart: a third
  would be one more that comes on top. In `shared_pool` all four parents meet on one day. In `edit_race`
  the order and the pickup meet only once the order has been moved, and share
  an asset only once one has been added.
- *Actors.* Two request handlers (and a cron where there is one). Every race above
  needs two; a third handler adds a rival in the same role. The workers are
  interchangeable (`SYMMETRY`, in safety runs only).
- *`MaxDay`* stops the clock after the last date that a guard mentions (event
  start and end, grace days, return date) has passed.
- *`GraceDays`* is 14 in the code; 0 or 1 in the runs that reach it, since only
  the comparison matters.
- *`Requests`* names the requests that actors send. A run leaves requests out
  for one of two reasons: to be about fewer things (`booking_race`, and `pickup_race`,
  `live_expiry` and `shared_pool`, which leave out those that move a status like others do),
  or because the property is known to fail with them (the tables above).
- *`MaxAdd`* is 1 unit at once and one added row per asset; *`MaxAdjusts`* 1;
  *`MaxEvents`* five scan events at once; *`MaxVersion`* two versions of the lines
  of the order and the billed request, one of a repair's; a self-booking and an
  inbound request have two lines.
- *Mail*: two rows and two processes (a race for a row, and a batch whose second
  row waits for the first), `email_max_attempts` 2 (one retry, then the limit),
  batches of up to two, two faults (a crash and what it meets later).
- *Crashes* are off where a property speaks of progress.
- *Constraints.* Some runs cut a behaviour once it can tell nothing more; the
  state at the cut is still checked. `self_booking_race` and `scan_race` go on
  through two, respectively one, disturbed rows (`FewDisturbed`): their
  properties excuse the row that was disturbed and speak of the others.
  `edit_race` stops where an outdated handler has written (`NotOvertaken`), which
  all its properties excuse. `request_race` is the union of three moves, on the
  lines of the order, on the billed request, and on the repairs with the
  decision (`Apart`); two handlers run at once when one of them is a chain of
  writes and both concern one row, or one is an acceptance, whose statements
  reach the order and its requests (`Together`), since a handler of one write
  that its check still fits might as well be atomic; the work on the billed
  request is not begun, since no price reads it; it stops at a late write
  (`Serial`). `inbound_race` stops there too (`Undisturbed`), edits an
  item alone only while it is the submitted one (`OneEdited`), brings in the second request once the first
  has been confirmed on the shortest way (`SecondIsLater`), and lets handlers of
  both overlap when both complete (`Apart`): only there do two requests touch
  common rows.
- The theorems of section 6 have none of these bounds.

`CHECK_DEADLOCK FALSE` is set in every configuration: the clock stops at
`MaxDay`, each entity goes through its life once, and nobody has to
send a request, so a run really ends.

## 5. Fairness

`SF_vars(Resume(w))` for each actor of `live_expiry`, and the like of `ResumePickup(w)`
in `pickup_lifecycle`: the
event loop resumes every handler whose await has settled, and PostgreSQL serves
the waiters of a row in turn, so a handler whose lock is free again and again
gets it. Weak fairness of the cron's steps: the scheduler in `server.ts` calls
the jobs daily and a listed row is reached as long as the process lives. Weak
fairness of `Tick`: time passes. There is none on `Begin...` (no client or staff
member has to act), on scans or on `Abort`. Liveness is checked without crashes:
a crash drops the list of the day, and a process that crashes every day expires
nothing.

`NotificationQueue` has weak fairness of `Start` (a process that ended is started
again), of a worker's `Pass` (its timer fires every second and the event loop
resumes the pass), of the clock that ends a back-off and of the second half of a
retry by hand. Its liveness is checked with crashes, up to `MaxFaults`. There is
none on `Enqueue` or on the answers of the transport (it may refuse for ever), and a
claim has to grow old only when its worker has lost it.

The other modules are about safety only: nothing in them has to happen.

## 6. What is proved

The seven proof modules prove the refinement and most invariants and action properties
that the passing runs check, for every value of the constants: any
number of concurrent handlers, assets, parents and units. Each follows one plan:
an inductive invariant, one lemma for each action (or for each few of a kind), and
a short last step to each theorem. The assumptions are those named in the modules,
and no others; where a theorem has a hypothesis of its own, it is one under which
the code makes the promise, and a configuration of section 3 or a behaviour told
below shows that it fails without. The counting is done on sets of units, with the
lemmas of `UnitCounting`: a finite set of holders has finitely many units, fewer
units of fewer holders are fewer, one holder's change changes the count by as
much, and two counts agree in total only if they agree everywhere when one is
nowhere the larger.

**`BookingSystem_proofs`, orders**

| theorem | statement |
|---|---|
| `TypeCorrect` | `Spec => []TypeOK`: no path drives a counter or quantity below zero |
| `BookingInvariant` | `Spec => []IInv` |
| `NeverOversold` | `Spec => []NoOversell` |
| `ChecksStayGood` | `Spec => []CheckStaysGood` |
| `CountersWithinPool` | `Spec => []AvailableWithinTotal` |
| `AdmissionsFit` | `Spec => AdmissionFits` |
| `HoldsAllOrNothing` | `Spec => []AllOrNothing` (no run repeats it) |
| `EngineImplementsDesk` | `Spec => ImplementsReservation`, the refinement of `Reservation` |

Assumed: finitely many holders, stock and need are natural numbers, windows are
pairs of integers and those of orders come from `ComputeBookingWindow`, `Nobody`
is neither an actor nor an order, the cron is an actor. None of them says how
holders and actors are divided between orders and self-pickups.

`NoOversell` is not inductive. A commit adds an order's units to every day of its
window, and what justifies it is a check made one step earlier, when the locks
were taken. `CheckStaysGood` carries that check over the await: while a handler
stands at `book` it owns the row of every asset it wants, and what it saw is at
most what its window has left. It is preserved because every step that takes from
a window or shrinks the pool needs the same row lock, and every step that needs
none only gives back. `AvailableWithinTotal` is needed so that a commit is within
the original stock (write-offs only lower `total`). `IInv` is the conjunction with
`TypeOK`; `NoOversell` follows along it, since a day's holders other than the order
are among its competitors, the windows sharing that day. `RInv` adds that an order holds
its whole need or nothing, and that it has neither rows nor a second handler before it
exists; `EngineImplementsDesk` then maps each commit to a `Grant`, each release to a
`Free`, everything else to a stutter.

**`BookingSystem_proofs`, self-pickups and the whole**

| theorem | statement |
|---|---|
| `PickupTypeCorrect` | `PickupSpec => []PickupTypeOK` |
| `PickupsOversellBounded` | `PickupSpec => []OversellBounded` |
| `WhatIsOutStaysBooked` | `PickupSpec => []CollectedStaysBooked` |
| `PickupCounterIsExact` | `PickupSpec => []CounterExact` |
| `SystemInvariant` | `SystemSpec => []SInv` |
| `SystemAdmissionsFit` | `SystemSpec => OrderAdmissionFits` |
| `ActiveOrdersHold` | `Spec => []ActiveKeepsHold` |
| `SystemHoldsMatch` | `SystemSpec => [](ActiveKeepsHold /\ EndedFreesStock)` |
| `SystemLeaksNothing` | `SystemSpec => []NoStockLeak` |

Assumed besides: holders are orders or self-pickups and not both, actors likewise
(`HoldersSplit`, `ActorsSplit`). Each step of the system is a step of one part that leaves
the own variables of the other alone, so what is left to show is what it does to the shared
rows. `SInv` joins the checks of both: a pickup's commit waits for the row locks of
an order that has checked, and an order's for those of a pickup at its gate
(`GateStaysGood`), so neither goes stale whoever commits first.
`SystemAdmissionsFit` follows as `AdmissionsFit` did.

The three theorems of the pickups alone assume nothing about carts, crashes, adds or
the number of handlers; the properties themselves leave out a pickup that some handler
wrote over (`overtaken`). They rest on `StagesInv`, in two parts.
*`Tallied`*: what is booked, counted and collected of a pickup lies within its item rows,
and what a handler took along in its first transaction (`JobTally`) still does in its
second. *`Staged`*: the rows of a pickup follow its status. Until it is handed over it
has booked all its rows (`EarlyStage`); a handler between the two commits of a handover
has booked what was counted (`HandedStage`); a pickup that is out has no more booked
than was counted, and exactly that if no handler hangs or has died between two commits on
it (`OutStage`, `Clear`). `WhatIsOutStaysBooked` is read off `OutStage`. For the
other two, `StockAfter` says that a step either takes stock for one pickup or gives stock
of one back, with the change of the counter and of the rows side by side;
`PickupsOversellBounded` then keeps `WithinExcess`, the counter and all rows together
within the stock and the surplus, since a gate checked under the row locks covers the
larger line of an asset; `PickupCounterIsExact` keeps the sums of `CounterSums`.

The last three are about orders, closes by staff included. `OrderKept` says of an order
that nobody wrote over: while a close is on its way the status is `RETURN_IN_TRANSIT` or
`CLOSED`, and once its rows are deleted it has none; if it was closed or cancelled it has
none; if it is active it has its rows, unless a close hangs, or has died, between two
commits. An approval that finds no rows therefore finds another status than it has read,
and is left out with what it writes over; this is also why `SystemLeaksNothing` need not
follow the counter that such an approval overwrites. Its invariant joins `OrdersHold`
and `StagesInv`: each step on an order keeps the balance of the counter, the rows and the
units that a close has deleted and not yet given back (`OrderStepBalances`), and each step
on a pickup takes or gives.

**`EntityEdit_proofs`**: `TypeCorrect`, `CheckedEditsFit` (`Spec => []ChecksHold`),
`OrdersStayWithinStock`, `BookingsFit` (`Spec => BookingFits`), `HoldsFollowContent` (`Spec =>
[]HoldFollowsContent`), `QuotesStand` (`Spec => []QuoteStands`), `CountersAreExact`
(`Spec => []CounterExact`). Assumed: `StockType`, `EntitiesFinite`,
`SubmittedType`, `ChangesType`, `NobodyType`. An edit locks the assets that may
run short (`Risky`) one at a time and checks each under its lock, so what carries
its checks to the commit is a fact for each asset: `ChecksHold` says that a locked
asset still fits the draft. The others grow no row of theirs on any day. `JobsFit`
ties the locks to the step of the handler that owns them: an edit at its assets
owns its rows, and the owner of an asset stands at its assets. `NeverOver` is
of all days, booked or not, since a row may move to a day that was free, and of
orders, since a pickup's submit looks at no days; `BookingsFit` is of everybody's
steps but that one. The other three rest on `KInv`: a handler that has not been marked as outdated,
and whose entity was not overtaken, `Knows` that what it read still holds: the status it
will write over, the content it approves, the sum it will give back, the rows it has
deleted. `HoldFollowsContent` and `QuoteStands` are conjuncts of it, since each is kept
only while the rows, the content and the offer of an entity move together.
`CounterExact` adds that a release gives back the sum that is held at its commit, and
that an edit moves the counter by the difference of the rows; it is proved of each
asset that has not met an end of its range, where the code clamps.

**`SelfBooking_proofs`**: `TypeCorrect`, `ReturnsBacked` (`Spec =>
[]ReturnsBackedByScans`), `LedgerExplains` (`Spec => []ChangesAreInLedger`),
`BookingsCoherent` (`Spec => []UndisturbedIsCoherent`). Assumed: `StockType`, `NeedType`, `LinesType`, `DeltasType`, `ActorsFinite` and the
types of the other constants. A scan writes the count that it read before its
transaction plus its units; `Backed` says that the count of a line is at most what
was scanned of it, and `ScanFits` in `JobsFit` that what a scan is about to write
is too. For the ledger, `Ahead` counts the adjustments that have written their row
and not yet the quantities: with those, the ledger accounts for every unit. For
the bookings, `ScanStands` says that a scan which nobody has overtaken still finds its
booking active, its line at the count that it read and, once it has decided whether it
is the last, the other lines as it saw them; `OneCreator` and `FreshBooking` that
nobody scans a booking before it is stored. An active booking has a line out only
because a booking takes something: `BookingsTakeUnits`, which the request schema asks
for (`self-bookings.schemas.ts:10-17`, at least one item of at least one unit).

`ShortageExplained` (`Pickups = {} /\ Spec => []ShortOnlyByLateChecks`) has an
invariant of its own, `RInv`, about the units that are `Live`: booked or out, and
not counted as late. `PoolFits` says that they fit the pool on each day, but for
what adjustments took, and that what adjustments have still to take is in the
ledger already; `CheckStands` that a handler which nobody has outdated could take
what it asked for: an order on each of its days (`HolderFits`), a self-booking next
to all days at once (`LineFits`). Every taking of units outdates all that was
checked, so only steps that give units back leave a check standing, and those are
shown to let no holder and no line grow (`Falls`). `Pickups = {}`, as in the run,
since a self-pickup is admitted by `available_quantity`, which a self-booking does
not lower (`self-bookings.services.ts:33-104`): there the pool is short by a check
that is not late at all. Assumed besides: finitely many self-bookings, whose ids are
not those of holders (`SelfBookingsType`).

**`ServiceRequest_proofs`** (with `Pricing`): `PricesHold` (`Spec => []IInv`),
`BreakdownIsRebuilt` (`Spec => []BreakdownFollowsLines`), `QuotesStayCurrent`
(`Spec => []QuoteIsCurrent`), `TypeCorrect`, `OneRepairIsOpen` (`Spec =>
[]OneRepairPerItem`), `RepairedWhenPrepared` (`Spec => PreparedIsRepaired`). `PriceHolds(e)`, for every row that no late write has
touched, says that a breakdown that lags has a handler on its way that will
rebuild it (`Rebuilt`), that an offer that lags has one that will take it back
(`OfferIsTold`), that a quote that shows the lines was made from a breakdown that
does (`ToldIsRebuilt`), that a confirmed order is at what was told
(`AcceptedIsTold`), and that a free one has no lines (`FreeIsEmpty`). A handler that
stands for another's debt may end first, so each step is shown to leave a debtor
or no debt. The repairs have an invariant of their own, `RInv`: an item has at most
one repair that is open (`OneOpen`), one that is to be fixed has a repair that was
not called off unless its order was (`FixHasRepair`), and repairs are billed to
nobody until staff step in (`RepairsAreInternal`), which keeps the status handler
from cancelling them. The action property follows from `FixHasRepair` and the gate
of the preparation, which counts open repairs and so would pass an item without any.

**`OrderScanning_proofs`**: `TypeCorrect`, `CountIsTheLatest` (`Spec =>
[]UndisturbedCountIsLatest`), `LedgerFollows` (`Spec => []LedgerFollowsEvents`),
`ReadyIsComplete` (`Spec => []ReadyMeansAllOut`), `SettlementIsStated` (`Spec =>
[]SettledAsStated`). Assumed: finitely many assets, positive quantities and the bound
on events. `PlaceHolds` says of an asset and a direction whose scans did not overlap
that no more is counted than ordered, that what is counted was stated, and that the
ledger has a row for each event but the one whose scan still has to write it
(`LedgerMirrors`). It takes three facts about the rest: an id names one row wherever
it is met, in a table or in the memory of a handler (`IdsName`), so that the unlink
finds the movements of the events that it replaces and no others; a scan that nobody
has outdated has read the events that are there (`ReadsHold`); and two scans of one
place are never both undisturbed on the way to their ledger rows (`RecordsAlone`).
`ReadyMeansAllOut` needs the totals: no asset is counted beyond its quantity, so if
the units of all events reach the units ordered, no asset is short (`NoneIsShort`, by
an injection of the first into the second that would leave one out).

**`InboundRequest_proofs`**: `TypeCorrect`, `QuotesHold` (`Spec =>
[]QuotedIsReceived`). `RequestHolds` adds to the property that nothing is sent or
received before the quote; `Knows` says of a handler that is past its check, that
is an approval behind its flip or a completion, that the request is past its
edits and, once it has read the items, that it has them as they are. An edit of an
intact request needs it to be before its quote, so the two never meet.

`UnitsArriveOnce` and `StockStands` (`AllMeet /\ Spec => []StockAddsUp`) are about
the pool, from a second invariant, `SInv`. Its parts: a request has added, to each
asset, what its completed items say and nothing else (`RequestAdds`); what a
completion on its way has dealt with is in the rows that it holds locked, on top of
the committed ones, and in no other (`PendingFits`); it reads the next item from
its own row where it has one (`WriteFits`); a row that no stale UPDATE has hit is
the start plus what was committed (`LedgerHolds`). Quantities are counted as sets of units, so that a sum over
requests or orders is a cardinality and one member changes it by its own units
(`UnitCounting`). `AllMeet`, that the windows of any two orders overlap, is needed
for the counter only: a booking of other days is admitted by its own days, takes
the counter below zero and is clamped there, after which no sum is right; the run
`counter_gate` shows what that does. Assumed besides: finitely many requests
(`RequestsFinite`).

**`NotificationQueue_proofs`**

| theorem | statement |
|---|---|
| `TypeCorrect` | `Spec => []TypeOK` |
| `QueueInvariant` | `Spec => []IInv` |
| `RepeatsOnlyByFaults` | `Spec => []RepeatsNeedFaults` |
| `AttemptsBounded` | `Spec => []AttemptsWithinLimit` |
| `StatusIsTrue` | `Spec => []StatusTellsTruth` |

Assumed: finitely many rows and processes, positive limits, and `NoLog` not a row.

`RepeatsNeedFaults` counts what was sent and is not inductive. `Budget` adds what
may still be sent: the workers that hold the mail and have not sent it (`Live`),
one if the row is open to a claim now or after a recovery (`Free`), one if a retry
by hand has passed its check. A claim turns the second into the first, a refusal
turns it back, sending turns the first into a count; only a fault adds. For the
attempts the same sum counts the live workers below the limit (`Young`) only,
since the others will not queue the mail again; where a claim takes the attempts
to less than the limit the first budget bounds the second. `Calm` describes the
queue while nothing has gone wrong, which `StatusTellsTruth` needs.

**Only model-checked.** Liveness (`StuckQuoteExpires`, `HandlersFinish`,
`OverdueIsCalledBack`, `EveryMailSettles`), since the prover has no rule for
fairness here; and `OversellExplained` and `NoPickupLeak`.

## 7. What is not modelled, and why

- *Amounts.* Prices, margins, currencies, rate cards and the catalogue: sums
  without a protocol. `Pricing` follows which version of the lines each figure
  shows. `bulkMarginLineItems` is a line change among others; a margin of zero is
  a case of the arithmetic.
- *The rest of the change of an entity*: venue, contact, documents, truck details,
  dates that leave the window alone.
- *Line-item requests, requests to change a maintenance decision*: rows of their
  own whose approval runs a line change or a decision. *Workflow requests* only
  annotate an entity.
- *The choice of mails*: which rules, recipients and templates an event leads to
  is data to the queue. The rows of one event are inserted one by one; a crash
  between two of them loses the rest.
- *Hard blocks* by asset status only refuse a request.
- *Cycles of row locks* are modelled where a handler takes its rows one by one
  (`SelfBooking`, `EntityEdit`); elsewhere taking several rows is one step and
  `Abort` stands for the victim.
- *Readable ids*: computed outside the transaction; two submits of one day may
  compute the same id, and the unique constraint refuses the second.
- *The asset rows of an inbound completion*: families, codes and the link written
  back to the items; the rows that a request makes are one number.
- *Schema, event bus*: declarations; one INSERT and a loop over handlers.
- CRUD, access policy, reports, uploads, PDF: no protocol.

Hazards that we know of and that no property covers, beyond those in
`PROJECT.json`: the date cron matches today only, so that a missed day is never
made up; a request may be invoiced and its billing mode changed, or its order's
approval reach it after a cancel; a mid-flow add of an asset that the pickup
already has makes two rows that share one tally; an update of an inbound request
does not make a new estimate; completing an inbound request reads the quantities
without a lock, so two completions, or one and an order, may undo each other's
counter (`StockAddsUp` excuses the assets in `lost`).

## 8. Plan

Done: the modules of section 2 with their instances, and the proofs of section 6.
What could follow:

1. The handlers of self-pickups with their rows apart: `NoPickupLeak` where scans
   and adds of one pickup overlap, per asset, under the condition that no tally
   passes its line.
2. Inbound scans of self-pickups next to edits of the pickup
   (`applySelfPickupItemEdits`), which `EntityEdit` and `SelfPickup` have apart.
3. Self-bookings as a third kind of holder in `BookingSystem`.
