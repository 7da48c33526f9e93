--------------------------- MODULE InboundRequest ---------------------------
(***************************************************************************)
(* Inbound requests (modules/inbound-request): a client announces stock,   *)
(* staff price and quote it, and completing the request adds it to the     *)
(* assets rows, next to the orders that book those rows.                   *)
(*                                                                         *)
(* Every handler reads the request, checks its status and later writes by  *)
(* id.  job[w] is the handler of actor w:                                  *)
(*                                                                         *)
(*   submit, accept, decline, cancel, noCost      check -> move            *)
(*   quote      check -> move -> render -> upload -> send                  *)
(*   edit       check -> edit -> render -> upload      (one item)          *)
(*   update     check -> edit                          (the list of items) *)
(*   price      check -> render -> upload              (a line item)       *)
(*   complete   check -> (read -> write)* -> commit    (one transaction)   *)
(*                                                                         *)
(* An item is a quantity and the asset it adds to: Fresh, if completion    *)
(* makes a row for it (no asset_id, or tracked one by one).  The rows that *)
(* a request makes are one number.  A request has at most two items        *)
(* (bound).  Left out: prices (see Pricing), the event of a submitted,     *)
(* decided or completed request, names and dates.                          *)
(***************************************************************************)
EXTENDS Inventory

CONSTANTS
    InboundRequests,
    Fresh,          \* "no asset yet"
    Submitted,      \* Submitted[r][k]: [qty, asset], item k as created; qty 0: none
    Revisions,      \* Revisions[r]: the lists of items that an update may set
    Quantities,     \* the quantities that an edit of an item may set
    StaffEdits,     \* bound: whether staff edit, too
    Crashes         \* bound: whether handlers die

Places == 1 .. 2
ItemType == [qty : Nat, asset : Assets \cup {Fresh}]
ListType == [Places -> ItemType]

ASSUME RequestsFinite == IsFiniteSet(InboundRequests)
ASSUME FreshType == Fresh \notin Assets
ASSUME SubmittedType == Submitted \in [InboundRequests -> [Places -> [qty : Nat, asset : {Fresh}]]]
ASSUME RevisionsType == Revisions \in [InboundRequests -> SUBSET ListType]
ASSUME QuantitiesType == Quantities \subseteq Nat \ {0}
ASSUME FlagsType == StaffEdits \in BOOLEAN /\ Crashes \in BOOLEAN

VARIABLES
    status,     \* status[r]: inbound_requests.request_status, "NONE" before the insert
    financial,  \* financial[r]: financial_status
    free,       \* the requests whose pricing_mode is NO_COST
    content,    \* content[r]: inbound_request_items
    made,       \* made[r]: units in the assets rows that r has made
    estimate,   \* estimate[r]: the items on the cost estimate in S3, None if there is none
    job,
    offer,      \* history: the estimate that the client has been sent, or None
    arrived,    \* history: the items that r was completed with, or None
    disturbed,  \* history: requests written by a handler whose check no longer held
    revised,    \* history: requests whose items staff have changed after the quote
    lost        \* history: assets of which a write has undone another's

requestVars == <<status, financial, free, content, made, estimate>>
historyVars == <<offer, arrived, disturbed, revised, lost>>
vars == <<invVars, requestVars, job, historyVars>>

None == << >>
Statuses == {"NONE", "PRICING_REVIEW", "PENDING_APPROVAL", "QUOTED", "CONFIRMED", "DECLINED",
             "CANCELLED", "COMPLETED"}
FinancialStatuses == {"PENDING_QUOTE", "QUOTE_SENT", "QUOTE_ACCEPTED", "CANCELLED",
                      "NOT_APPLICABLE", "PENDING_INVOICE"}
NoRow == [total |-> 0, avail |-> 0]
Idle == [op |-> "idle", on |-> Nobody, step |-> "idle", staff |-> FALSE, item |-> 1, qty |-> 0,
         list |-> None, todo |-> {}, seen |-> NoRow, pend |-> [a \in Assets |-> NoRow], units |-> 0]

\* The units that a list brings to an asset, and one place of it; None brings none.
UnitsAt(list, k, a) == IF k \in DOMAIN list /\ list[k].asset = a THEN list[k].qty ELSE 0
ReceivedInto(list, a) == UnitsAt(list, 1, a) + UnitsAt(list, 2, a)

TypeOK ==
    /\ InvTypeOK
    /\ status \in [InboundRequests -> Statuses]
    /\ financial \in [InboundRequests -> FinancialStatuses]
    /\ free \subseteq InboundRequests
    /\ content \in [InboundRequests -> ListType]
    /\ made \in [InboundRequests -> Nat]
    /\ estimate \in [InboundRequests -> ListType \cup {None}]

Init ==
    /\ InvInit
    /\ status = [r \in InboundRequests |-> "NONE"]
    /\ financial = [r \in InboundRequests |-> "PENDING_QUOTE"]
    /\ free = {}
    /\ content = Submitted
    /\ made = [r \in InboundRequests |-> 0]
    /\ estimate = [r \in InboundRequests |-> None]
    /\ job = [w \in Actors |-> Idle]
    /\ offer = [r \in InboundRequests |-> None]
    /\ arrived = [r \in InboundRequests |-> None]
    /\ disturbed = {}
    /\ revised = {}
    /\ lost = {}

------------------------------------------------------------------------------
At(w, step) == job[w].step = step
On(w) == job[w].on
GoTo(w, step) == job' = [job EXCEPT ![w].step = step]
Finish(w) == job' = [job EXCEPT ![w] = Idle]

\* The statuses in which each handler goes on.
Open == Statuses \ {"NONE", "COMPLETED", "CANCELLED", "DECLINED"}
INBOUND_NO_COST_ALLOWED_STATUSES == {"PRICING_REVIEW", "PENDING_APPROVAL", "QUOTED"}
\* Mutant first: the client may change the items of a quoted request.
ClientEditable_Quoted == {"PRICING_REVIEW", "PENDING_APPROVAL", "QUOTED"}
ClientEditable == {"PRICING_REVIEW", "PENDING_APPROVAL"}
Expected == [submit |-> {"PRICING_REVIEW"}, quote |-> {"PENDING_APPROVAL"}, accept |-> {"QUOTED"},
             decline |-> {"QUOTED"}, cancel |-> Open, complete |-> {"CONFIRMED"},
             noCost |-> INBOUND_NO_COST_ALLOWED_STATUSES]

\* Whether a handler that looks at r now would go on.
Passes(op, r, staff) ==
    IF op \in {"edit", "update"} THEN status[r] # "NONE" /\ (staff \/ status[r] \in ClientEditable)
    ELSE status[r] \in Expected[op] /\ (op = "noCost" => r \notin free)

\* A write by id, whatever has become of the request since it was read.
Outlived(w) == ~Passes(job[w].op, On(w), job[w].staff)
Disturbed(w) == IF Outlived(w) THEN disturbed \cup {On(w)} ELSE disturbed

Begin(w, j) ==
    /\ At(w, "idle")
    /\ job' = [job EXCEPT ![w] = j]
    /\ UNCHANGED <<invVars, requestVars, historyVars>>

JobFor(op, r, step) == [Idle EXCEPT !.op = op, !.on = r, !.step = step]

------------------------------------------------------------------------------
(* createInboundRequest, and the handlers that only move the request.      *)

CreateInboundRequest(r) ==
    /\ status[r] = "NONE"
    /\ status' = [status EXCEPT ![r] = "PRICING_REVIEW"]
    /\ UNCHANGED <<invVars, financial, free, content, made, estimate, job, historyVars>>

BeginMove(w, op, r) == Passes(op, r, TRUE) /\ Begin(w, JobFor(op, r, "move"))

BeginSubmitForApproval(w, r) == BeginMove(w, "submit", r)
BeginApprove(w, r) == BeginMove(w, "quote", r)
BeginClientDecision(w, r) == BeginMove(w, "accept", r) \/ BeginMove(w, "decline", r)
BeginMarkAsNoCost(w, r) == BeginMove(w, "noCost", r)
BeginCancel(w, r) == BeginMove(w, "cancel", r)

Moved == [submit |-> "PENDING_APPROVAL", quote |-> "QUOTED", accept |-> "CONFIRMED",
          decline |-> "DECLINED", cancel |-> "CANCELLED", noCost |-> "CONFIRMED"]
Billed(op, old) ==
    CASE op = "submit" -> old
      [] op = "quote"  -> "QUOTE_SENT"
      [] op = "accept" -> "QUOTE_ACCEPTED"
      [] op = "noCost" -> "NOT_APPLICABLE"
      [] op \in {"decline", "cancel"} -> "CANCELLED"

Move(w) ==
    LET r == On(w)  op == job[w].op IN
    /\ At(w, "move")
    /\ status' = [status EXCEPT ![r] = Moved[op]]
    /\ financial' = [financial EXCEPT ![r] = Billed(op, @)]
    /\ free' = IF op = "noCost" THEN free \cup {r} ELSE free
    /\ disturbed' = Disturbed(w)
    /\ IF op = "quote" THEN GoTo(w, "render") ELSE Finish(w)
    /\ UNCHANGED <<invVars, content, made, estimate, offer, arrived, revised, lost>>

------------------------------------------------------------------------------
(* The items, and the cost estimate that shows them.                       *)

BeginEditItem(w, r, staff, k, q) ==
    /\ Passes("edit", r, staff)
    /\ content[r][k].qty > 0
    /\ Begin(w, [JobFor("edit", r, "edit") EXCEPT !.staff = staff, !.item = k, !.qty = q])

BeginUpdate(w, r, staff, list) ==
    /\ Passes("update", r, staff)
    /\ Begin(w, [JobFor("update", r, "edit") EXCEPT !.staff = staff, !.list = list])

\* The item if it is still there, or the whole list in a transaction.
Rewritten(w) ==
    LET old == content[On(w)]  k == job[w].item IN
    IF job[w].op = "update" THEN job[w].list
    ELSE IF old[k].qty > 0 THEN [old EXCEPT ![k].qty = job[w].qty] ELSE old

Edit(w) ==
    LET r == On(w) IN
    /\ At(w, "edit")
    /\ content' = [content EXCEPT ![r] = Rewritten(w)]
    /\ disturbed' = Disturbed(w)
    /\ revised' = IF job[w].staff /\ status[r] \notin {"PRICING_REVIEW", "PENDING_APPROVAL"}
                  THEN revised \cup {r} ELSE revised
    /\ IF job[w].op = "edit" THEN GoTo(w, "render") ELSE Finish(w)
    /\ UNCHANGED <<invVars, status, financial, free, made, estimate, offer, arrived, lost>>

\* A line item added, changed or voided: only the estimate shows it here.
BeginPrice(w, r) ==
    /\ status[r] # "NONE"
    /\ r \notin free /\ financial[r] \notin {"QUOTE_ACCEPTED", "PENDING_INVOICE"}
    /\ Begin(w, JobFor("price", r, "render"))

\* generateEstimate reads the request.  An approval, which does not regenerate,
\* ends here if there is an estimate; everything else deletes the old one.
RenderEstimate(w) ==
    LET r == On(w) IN
    /\ At(w, "render")
    /\ IF job[w].op = "quote" /\ estimate[r] # None
       THEN Finish(w) /\ UNCHANGED estimate
       ELSE /\ job' = [job EXCEPT ![w].step = "upload", ![w].list = content[r]]
            /\ estimate' = [estimate EXCEPT ![r] = None]
    /\ UNCHANGED <<invVars, status, financial, free, content, made, historyVars>>

UploadEstimate(w) ==
    LET r == On(w) IN
    /\ At(w, "upload")
    /\ estimate' = [estimate EXCEPT ![r] = job[w].list]
    /\ disturbed' = IF content[r] # job[w].list THEN disturbed \cup {r} ELSE disturbed
    /\ IF job[w].op = "quote" THEN GoTo(w, "send") ELSE Finish(w)
    /\ UNCHANGED <<invVars, status, financial, free, content, made, offer, arrived, revised, lost>>

\* inbound_request.quoted: the mail with the total and the link to the estimate.
SendQuote(w) ==
    /\ At(w, "send")
    /\ offer' = [offer EXCEPT ![On(w)] = job[w].list]
    /\ Finish(w)
    /\ UNCHANGED <<invVars, requestVars, arrived, disturbed, revised, lost>>

------------------------------------------------------------------------------
(* completeInboundRequest.                                                 *)

Present(list) == {k \in Places : list[k].qty > 0}

BeginComplete(w, r) ==
    /\ Passes("complete", r, TRUE)
    /\ Present(content[r]) # {}
    /\ Begin(w, [JobFor("complete", r, "items") EXCEPT !.list = content[r],
                                                       !.todo = Present(content[r])])

ItemOf(w) == job[w].list[job[w].item]

\* A plain SELECT: what is committed, or what this transaction has written.
\* Mutant first: the rows are read on another connection.
Row_OtherConnection(w, a) == [total |-> total[a], avail |-> avail[a]]
Row(w, a) == IF assetLock[a] = w THEN job[w].pend[a]
             ELSE [total |-> total[a], avail |-> avail[a]]

ReadAsset(w, k) ==
    LET a == job[w].list[k].asset IN
    /\ At(w, "items")
    /\ k \in job[w].todo /\ a # Fresh
    /\ job' = [job EXCEPT ![w].step = "write", ![w].item = k, ![w].seen = Row(w, a)]
    /\ UNCHANGED <<invVars, requestVars, historyVars>>

\* UPDATE with the sums computed here; it waits for the row.
WriteAsset(w) ==
    LET a == ItemOf(w).asset  s == job[w].seen  q == ItemOf(w).qty IN
    /\ At(w, "write")
    /\ assetLock[a] \in {Nobody, w}
    /\ assetLock' = [assetLock EXCEPT ![a] = w]
    /\ job' = [job EXCEPT ![w].step = "items", ![w].todo = @ \ {job[w].item},
                          ![w].pend[a] = [total |-> s.total + q, avail |-> s.avail + q]]
    /\ lost' = IF assetLock[a] = Nobody /\ s # Row(w, a) THEN lost \cup {a} ELSE lost
    /\ UNCHANGED <<total, avail, booking, requestVars, offer, arrived, disturbed, revised>>

\* INSERT of a row for the item.
MakeAsset(w, k) ==
    /\ At(w, "items")
    /\ k \in job[w].todo /\ job[w].list[k].asset = Fresh
    /\ job' = [job EXCEPT ![w].todo = @ \ {k}, ![w].units = @ + job[w].list[k].qty]
    /\ UNCHANGED <<invVars, requestVars, historyVars>>

CommitReceipt(w) ==
    LET r == On(w) IN
    /\ At(w, "items") /\ job[w].todo = {}
    /\ total' = [a \in Assets |-> Row(w, a).total]
    /\ avail' = [a \in Assets |-> Row(w, a).avail]
    /\ assetLock' = UnlockedBy(w)
    /\ made' = [made EXCEPT ![r] = @ + job[w].units]
    /\ status' = [status EXCEPT ![r] = "COMPLETED"]
    /\ financial' = [financial EXCEPT ![r] = "PENDING_INVOICE"]
    /\ arrived' = [arrived EXCEPT ![r] = job[w].list]
    /\ disturbed' = Disturbed(w)
    /\ Finish(w)
    /\ UNCHANGED <<booking, free, content, estimate, offer, revised, lost>>

------------------------------------------------------------------------------
(* Orders: the booking and the release transaction, each under row locks.  *)

Book(h) ==
    /\ ~HasRows(h) /\ Items(h) # {}
    /\ Unlocked(Items(h)) /\ Fits(h)
    /\ InsertRows(h)
    /\ Decrement(h)
    /\ UNCHANGED <<total, assetLock, requestVars, job, historyVars>>

Release(h) ==
    /\ HasRows(h)
    /\ Unlocked(Items(h))
    /\ DeleteRows(h)
    /\ avail' = Restored(booking[h])
    /\ UNCHANGED <<total, assetLock, requestVars, job, historyVars>>

\* The process dies, or PostgreSQL picks the transaction to end a deadlock.
Crash(w) ==
    /\ Crashes /\ ~At(w, "idle")
    /\ assetLock' = UnlockedBy(w)
    /\ Finish(w)
    /\ UNCHANGED <<total, avail, booking, requestVars, historyVars>>

------------------------------------------------------------------------------
BeginAny(w) == \E r \in InboundRequests :
    \/ BeginSubmitForApproval(w, r) \/ BeginApprove(w, r) \/ BeginClientDecision(w, r)
    \/ BeginMarkAsNoCost(w, r) \/ BeginCancel(w, r) \/ BeginPrice(w, r) \/ BeginComplete(w, r)
    \/ \E staff \in {FALSE, StaffEdits} :
        \/ \E k \in Places, q \in Quantities : BeginEditItem(w, r, staff, k, q)
        \/ \E list \in Revisions[r] : BeginUpdate(w, r, staff, list)

Resume(w) ==
    \/ Move(w) \/ Edit(w) \/ RenderEstimate(w) \/ UploadEstimate(w) \/ SendQuote(w)
    \/ \E k \in Places : ReadAsset(w, k) \/ MakeAsset(w, k)
    \/ WriteAsset(w) \/ CommitReceipt(w)

Next ==
    \/ \E r \in InboundRequests : CreateInboundRequest(r)
    \/ \E w \in Actors : BeginAny(w) \/ Resume(w) \/ Crash(w)
    \/ \E h \in Holders : Book(h) \/ Release(h)

Spec == Init /\ [][Next]_vars
------------------------------------------------------------------------------
(* Properties.                                                             *)

\* Every unit of a completed request is in the pool once, and no other is: a
\* row whose UPDATE undid no other's holds what it started with and what was
\* received, and its counter what of that is not booked, while the orders book
\* the same days (a booking clamps the counter at zero otherwise).
Received(a) ==
    Cardinality(UNION {{r} \X (1 .. ReceivedInto(arrived[r], a)) : r \in InboundRequests})
StockAddsUp == disturbed = {} =>
    /\ \A a \in Assets \ lost : /\ total[a] = Stock[a] + Received(a)
                                /\ avail[a] = total[a] - Booked(a, Holders)
    /\ \A r \in InboundRequests : /\ (arrived[r] # None) = (status[r] = "COMPLETED")
                                  /\ made[r] = ReceivedInto(arrived[r], Fresh)

\* What the client was sent is what the request still asks for and what was
\* received, unless staff changed the items after the quote or a handler wrote
\* a request that it no longer would ("Items can only be updated in
\* PENDING_APPROVAL or PRICING_REVIEW status").
QuotedIsReceived == \A r \in InboundRequests \ (disturbed \cup revised) :
    /\ offer[r] \in {None, content[r]}
    /\ arrived[r] \in {None, content[r]}

\* A request whose quote counts as sent has been sent to the client ("a freshly
\* sent quote awaiting client action: store QUOTE_SENT").
QuoteSentIsSent == \A r \in InboundRequests :
    (financial[r] = "QUOTE_SENT" /\ \A w \in Actors : On(w) # r) => offer[r] # None

\* A request that is free of charge is not up for an invoice ("NOT_APPLICABLE
\* (terminal --- never invoiced)").
FreeIsNeverInvoiced == \A r \in free : financial[r] # "PENDING_INVOICE"
==============================================================================
