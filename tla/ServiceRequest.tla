---------------------------- MODULE ServiceRequest ----------------------------
(***************************************************************************)
(* Service requests (modules/service-request) and the gate they put before *)
(* the preparation of an order (modules/order): the work on a request,     *)
(* its price (Pricing), the maintenance decision on each order item, and   *)
(* the "Repair Before Event" requests that follow from it.                 *)
(*                                                                         *)
(* Every handler reads and checks, then writes by id.  A decision writes   *)
(* in one transaction the item, a fresh repair if it lists none, and the   *)
(* end of the repairs it has listed.                                       *)
(*                                                                         *)
(* The assets are ORANGE, where staff may decide either way, until a       *)
(* repair is completed.  Each row of service_requests is one value that is *)
(* used once; links of a row do not change.                                *)
(***************************************************************************)
EXTENDS Pricing

CONSTANTS
    Repairs,    \* blocking MAINTENANCE requests, linked to an order item
    Items,      \* order_items
    ItemOf      \* ItemOf[r]: related_order_item_id

ASSUME RequestConstants ==
    /\ Repairs \subseteq Bundled /\ ItemOf \in [Repairs -> Items]
    /\ \A q, r \in Repairs : ItemOf[q] = ItemOf[r] => OrderOf[q] = OrderOf[r]
    /\ Items \cap (Entities \cup {Nobody}) = {}

VARIABLES
    work,       \* request_status, NONE before the row exists
    decision,   \* maintenance_decision of an item
    override,   \* requests with fulfillment_override_applied_at
    overruled   \* history: items with a maintenance request that staff have
                \* made billable or cancelled, past any decision

requestVars == <<work, decision, override, overruled>>
vars == <<priceVars, requestVars>>

ItemsOf(o) == {ItemOf[r] : r \in {q \in Repairs : OrderOf[q] = o}}
OrderOfItem(i) == CHOOSE o \in Orders : i \in ItemsOf(o)
LinkedTo(i) == {r \in Repairs : ItemOf[r] = i /\ work[r] # "NONE"}
IsRepair(r) == r \in Repairs /\ billing[r] = "INTERNAL_ONLY"

EndedWork == {"COMPLETED", "CANCELLED"}
Live(r) == work[r] \notin EndedWork \cup {"NONE"}

\* Orders have been submitted.  An item that is to be fixed has its repair.
Init ==
    /\ PriceInit
    /\ decision \in [Items -> {"FIX_IN_ORDER", "USE_AS_IS"}]
    /\ work \in [Requests -> {"NONE", "SUBMITTED"}]
    /\ \A r \in Requests : work[r] = "SUBMITTED" => r \in Repairs
    /\ \A i \in Items : IF decision[i] = "FIX_IN_ORDER"
                       THEN \E r \in Repairs : LinkedTo(i) = {r} ELSE LinkedTo(i) = {}
    /\ billing = [r \in Requests |-> "INTERNAL_ONLY"]
    /\ stage = [e \in Entities |-> IF e \in Orders THEN "PENDING_APPROVAL"
                                   ELSE IF work[e] = "NONE" THEN "NONE" ELSE "INTERNAL"]
    /\ override = {} /\ overruled = {}

------------------------------------------------------------------------------
(* Creation.                                                               *)

\* The duplicate guard: the item has no request that is not cancelled.
MayCreate(r) == r \in Repairs => \A q \in LinkedTo(ItemOf[r]) : work[q] = "CANCELLED"
BeginCreate(w, r, bill) ==
    /\ work[r] = "NONE" /\ MayCreate(r)
    /\ Begin(w, "create", r, "insert request", bill)
    /\ UNCHANGED requestVars

FirstStage(bill) == IF bill = "CLIENT_BILLABLE" THEN "PENDING_QUOTE" ELSE "INTERNAL"

Overrule(r, now) ==
    overruled' = IF now /\ r \in Repairs THEN overruled \cup {ItemOf[r]} ELSE overruled

InsertRequest(w) ==
    LET r == On(w)  bill == job[w].arg IN
    /\ At(w, "insert request")
    /\ work[r] = "NONE"
    /\ work' = [work EXCEPT ![r] = "SUBMITTED"]
    /\ billing' = [billing EXCEPT ![r] = bill]
    /\ stage' = [stage EXCEPT ![r] = FirstStage(bill)]
    /\ Overrule(r, bill = "CLIENT_BILLABLE")
    /\ IF r \in Repairs THEN Late(ItemOf[r], MayCreate(r)) ELSE UNCHANGED disturbed
    /\ Done(w)
    /\ UNCHANGED <<mode, lines, snap, told, decision, override>>

------------------------------------------------------------------------------
(* The work.                                                               *)

WorkTransitions ==
    { <<"SUBMITTED", "IN_REVIEW">>, <<"SUBMITTED", "IN_PROGRESS">>, <<"IN_REVIEW", "APPROVED">>,
      <<"APPROVED", "IN_PROGRESS">>, <<"IN_PROGRESS", "COMPLETED">> }
WorkStages == {"IN_REVIEW", "APPROVED", "IN_PROGRESS", "COMPLETED", "CANCELLED"}

\* assertOperationalCommercialCoupling.
CommerciallyCleared(r) ==
    billing[r] = "CLIENT_BILLABLE" => stage[r] \in ApprovedStages \/ mode[r] = "NO_COST"

\* updateServiceRequestStatus.  It cancels what cancelServiceRequest refuses.
MayWork(r, to) ==
    /\ Live(r)
    /\ to = "CANCELLED" \/ <<work[r], to>> \in WorkTransitions
    /\ to \in {"IN_PROGRESS", "COMPLETED"} => CommerciallyCleared(r)
BeginWork(w, r, to) ==
    MayWork(r, to) /\ Begin(w, "work", r, "write work", to) /\ UNCHANGED requestVars

WriteWork(w) ==
    LET r == On(w)  to == job[w].arg IN
    /\ At(w, "write work")
    /\ work' = [work EXCEPT ![r] = to]
    /\ Overrule(r, to = "CANCELLED")
    /\ Late(r, MayWork(r, to))
    /\ Done(w)
    /\ UNCHANGED <<rowVars, lines, snap, told, decision, override>>

\* cancelServiceRequest.
MayCancel(r) == Live(r) /\ ~IsRepair(r)
BeginCancel(w, r) ==
    MayCancel(r) /\ Begin(w, "cancel", r, "write cancel", "none") /\ UNCHANGED requestVars

WriteCancel(w) ==
    LET r == On(w) IN
    /\ At(w, "write cancel")
    /\ work' = [work EXCEPT ![r] = "CANCELLED"]
    /\ SetStage(r, "CANCELLED", mode[r])
    /\ Overrule(r, TRUE)
    /\ Late(r, MayCancel(r))
    /\ Done(w)
    /\ UNCHANGED <<lines, snap, told, decision, override>>

\* applyFulfillmentOverride.
MayOverride(r) == IsRepair(r) /\ Live(r) /\ r \notin override
BeginOverride(w, r) ==
    MayOverride(r) /\ Begin(w, "override", r, "write override", "none") /\ UNCHANGED requestVars

WriteOverride(w) ==
    LET r == On(w) IN
    /\ At(w, "write override")
    /\ override' = override \cup {r}
    /\ Late(r, MayOverride(r))
    /\ Done(w)
    /\ UNCHANGED <<rowVars, lines, snap, told, work, decision, overruled>>

------------------------------------------------------------------------------
(* updateServiceRequest: a new billing mode, or new items.                 *)

BeginUpdate(w, r, what) ==
    /\ Live(r)
    /\ what \in {"CLIENT_BILLABLE", "INTERNAL_ONLY"} => what # billing[r]
    /\ Begin(w, "update", r, "write update", what)
    /\ UNCHANGED requestVars

\* A request with a price out that changes hands counts as disturbed: nobody
\* is shown the price anew.
Rebill(w) ==
    LET r == On(w)  bill == job[w].arg IN
    /\ At(w, "write update") /\ bill # "items"
    /\ billing' = [billing EXCEPT ![r] = bill]
    /\ stage' = [stage EXCEPT ![r] = IF job[w].read \in {"INTERNAL", "PENDING_QUOTE"}
                                     THEN FirstStage(bill) ELSE @]
    /\ Overrule(r, TRUE)
    /\ Late(r, Live(r) /\ stage[r] = job[w].read /\ stage[r] \notin RevisableStages)
    /\ Done(w)
    /\ UNCHANGED <<mode, lines, snap, told, work, decision, override>>

Requote(w) ==
    LET r == On(w) IN
    /\ At(w, "write update") /\ job[w].arg = "items"
    /\ IF RequiresRevision(r, job[w].read)
       THEN SetStage(r, "PENDING_QUOTE", "STANDARD") ELSE UNCHANGED rowVars
    /\ Late(r, Live(r) /\ stage[r] = job[w].read)
    /\ Done(w)
    /\ UNCHANGED <<lines, snap, told, requestVars>>

------------------------------------------------------------------------------
(* The maintenance decision.                                               *)

\* Mutants first: requests that have ended count as well, or only begun ones.
ActiveRepairs_All(i) == {r \in LinkedTo(i) : IsRepair(r)}
ActiveRepairs_Begun(i) == {r \in LinkedTo(i) : IsRepair(r) /\ work[r] = "IN_PROGRESS"}
ActiveRepairs(i) == {r \in LinkedTo(i) : IsRepair(r) /\ Live(r)}

\* financial_status: a quote that is accepted locks the decision, an order at
\* no cost stays NOT_APPLICABLE.
DecisionLocked(o) == stage[o] \in {"CONFIRMED", "IN_PREPARATION"} /\ mode[o] # "NO_COST"
Restored(i) == \E r \in LinkedTo(i) : work[r] = "COMPLETED"

\* applyMaintenanceDecisionToOrderItem.
MayDecide(i) ==
    LET o == OrderOfItem(i) IN ~DecisionLocked(o) /\ stage[o] # "CANCELLED" /\ ~Restored(i)
BeginDecide(w, i, d) ==
    /\ job[w] = Idle /\ MayDecide(i)
    /\ job' = [job EXCEPT ![w] = [Idle EXCEPT !.op = "decide", !.on = i, !.step = "decide",
                                              !.arg = d, !.todo = ActiveRepairs(i)]]
    /\ UNCHANGED <<rowVars, lines, snap, told, disturbed, requestVars>>

\* The repairs of an item that is used as it is do not go on.
Ends(w) == IF job[w].arg = "USE_AS_IS" THEN job[w].todo ELSE {}
FreshRepairs(i) == {r \in Repairs : ItemOf[r] = i /\ work[r] = "NONE"}

Decide(w) ==
    LET i == On(w)
        needed == job[w].arg = "FIX_IN_ORDER" /\ job[w].todo = {} IN
    /\ At(w, "decide")
    /\ needed => FreshRepairs(i) # {}
    /\ LET fresh == IF needed THEN {CHOOSE r \in FreshRepairs(i) : TRUE} ELSE {} IN
       /\ work' = [r \in Requests |-> IF r \in fresh THEN "SUBMITTED"
                                      ELSE IF r \in Ends(w) THEN "CANCELLED" ELSE work[r]]
       /\ stage' = [e \in Entities |-> IF e \in fresh THEN "INTERNAL"
                                       ELSE IF e \in Ends(w) THEN "CANCELLED" ELSE stage[e]]
    /\ decision' = [decision EXCEPT ![i] = job[w].arg]
    /\ Late(i, MayDecide(i) /\ job[w].todo = ActiveRepairs(i))
    /\ Done(w)
    /\ UNCHANGED <<mode, billing, lines, snap, told, override, overruled>>

------------------------------------------------------------------------------
(* The order: cancelOrder and the step to IN_PREPARATION.                  *)

MayCancelOrder(o) == stage[o] # "CANCELLED"
BeginCancelOrder(w, o) ==
    MayCancelOrder(o) /\ Begin(w, "cancel order", o, "write order", "none") /\ UNCHANGED requestVars

\* The requests that are billed stay, and so does every commercial status.
CancelOrder(w) ==
    LET o == On(w) IN
    /\ At(w, "write order") /\ job[w].op = "cancel order"
    /\ SetStage(o, "CANCELLED", mode[o])
    /\ work' = [r \in Requests |->
                   IF OrderOf[r] = o /\ billing[r] = "INTERNAL_ONLY" /\ Live(r)
                   THEN "CANCELLED" ELSE work[r]]
    /\ Late(o, MayCancelOrder(o))
    /\ Done(w)
    /\ UNCHANGED <<lines, snap, told, decision, override, overruled>>

\* hasUnresolvedBlockingServiceRequests, getUnresolvedMaintenanceReadinessItems.
Resolved(r) == mode[r] = "NO_COST" \/ r \in override \/ ~Live(r)
Ready(o) == \A i \in ItemsOf(o) : /\ \A r \in LinkedTo(i) : Resolved(r)
                                  /\ decision[i] = "FIX_IN_ORDER" => LinkedTo(i) # {}

\* progressOrderStatus.
MayPrepare(o) == stage[o] = "CONFIRMED" /\ Ready(o)
BeginPrepare(w, o) ==
    MayPrepare(o) /\ Begin(w, "prepare", o, "write order", "none") /\ UNCHANGED requestVars

Prepare(w) ==
    LET o == On(w) IN
    /\ At(w, "write order") /\ job[w].op = "prepare"
    /\ SetStage(o, "IN_PREPARATION", mode[o])
    /\ Late(o, MayPrepare(o))
    /\ Done(w)
    /\ UNCHANGED <<lines, snap, told, requestVars>>

------------------------------------------------------------------------------
Next ==
    \E w \in Actors :
        \/ (PriceBegin(w) \/ PriceResume(w) \/ Crash(w)) /\ UNCHANGED requestVars
        \/ \E r \in Requests :
              \/ \E bill \in {"CLIENT_BILLABLE", "INTERNAL_ONLY"} : BeginCreate(w, r, bill)
              \/ \E to \in WorkStages : BeginWork(w, r, to)
              \/ BeginCancel(w, r) \/ BeginOverride(w, r)
              \/ \E what \in {"CLIENT_BILLABLE", "INTERNAL_ONLY", "items"} : BeginUpdate(w, r, what)
        \/ InsertRequest(w) \/ WriteWork(w) \/ WriteCancel(w) \/ WriteOverride(w)
        \/ Rebill(w) \/ Requote(w)
        \/ \E i \in Items, d \in {"FIX_IN_ORDER", "USE_AS_IS"} : BeginDecide(w, i, d)
        \/ \E o \in Orders : BeginCancelOrder(w, o) \/ BeginPrepare(w, o)
        \/ Decide(w) \/ CancelOrder(w) \/ Prepare(w)

Spec == Init /\ [][Next]_vars

------------------------------------------------------------------------------
(* Properties.                                                             *)

TypeOK ==
    /\ stage \in [Entities -> OrderStages \cup CommercialStages]
    /\ mode \in [Entities -> {"STANDARD", "NO_COST"}]
    /\ billing \in [Requests -> {"CLIENT_BILLABLE", "INTERNAL_ONLY"}]
    /\ work \in [Requests -> WorkStages \cup {"NONE", "SUBMITTED"}]
    /\ decision \in [Items -> {"FIX_IN_ORDER", "USE_AS_IS"}]
    /\ override \subseteq Repairs /\ overruled \subseteq Items

\* No write on the item has outlived its check, and staff have left it alone.
Settled(i) ==
    /\ i \notin overruled \cup disturbed
    /\ disturbed \cap (LinkedTo(i) \cup {OrderOfItem(i)}) = {}

\* Decisions, creations and cancellations, in any sequence, leave at most one
\* repair open for an item.
OneRepairPerItem ==
    \A i \in Items : Settled(i) => Cardinality({r \in LinkedTo(i) : Live(r)}) <= 1

\* No sequence of decisions, however often they change, lets the preparation
\* of an order begin before each item that is to be fixed has been repaired or
\* let off: a repair that a changed decision has cancelled does not count.
RepairDone(i) ==
    \E r \in LinkedTo(i) : work[r] = "COMPLETED" \/ r \in override \/ mode[r] = "NO_COST"
Repaired(o, but) ==
    \A i \in ItemsOf(o) \ but : decision[i] = "FIX_IN_ORDER" => RepairDone(i)
Begun(o) == stage[o] = "CONFIRMED" /\ stage'[o] = "IN_PREPARATION"
PreparedIsRepaired ==
    [][\A o \in Orders : Begun(o) /\ disturbed' = {} => Repaired(o, overruled)]_vars

\* service-request.services.ts:695-699: "Repair Before Event tasks cannot be
\* cancelled directly.  Use the admin fulfillment exception or approve a client
\* decision change."  So the order never starts with the item unrepaired.
RepairedBeforeEvent ==
    [][\A o \in Orders : Begun(o) /\ disturbed' = {} => Repaired(o, {})]_vars
==============================================================================
