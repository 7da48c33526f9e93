-------------------------------- MODULE Pricing --------------------------------
(***************************************************************************)
(* The price of an order or a service request and the quote on it          *)
(* (modules/order-line-items, services/pricing.service, the quote handlers *)
(* of modules/order and modules/service-request).                          *)
(*                                                                         *)
(* A line change is a chain of statements that commit one by one: write    *)
(* the line, read all lines, store the breakdown, read the status, take a  *)
(* quote that is out back to review.  The other handlers check what they   *)
(* have read and write by id.                                              *)
(*                                                                         *)
(*   line          insert -> load -> store (-> status) (-> revert)         *)
(*   display flag  show -> load -> store (-> status) (-> revert)           *)
(*   quote         flip -> send                                            *)
(*   accept order  confirm -> list -> approve the bundled requests         *)
(*   others        write                                                   *)
(*                                                                         *)
(* The lines of an entity are a version number: 0 is none, and the         *)
(* breakdown and the quote each show a version.  PENDING_APPROVAL stands   *)
(* for the statuses of an order before the quote, and financial_status is  *)
(* read off the order status.  Amounts and roles are left out; inbound     *)
(* requests and self-pickups share the chain but take no quote back.       *)
(***************************************************************************)
EXTENDS Integers, FiniteSets

CONSTANTS
    Orders,
    Requests,   \* the rows of service_requests
    Bundled,    \* those with link_mode BUNDLED_WITH_ORDER
    OrderOf,    \* OrderOf[r]: related_order_id
    Actors,     \* the handlers in flight
    Nobody,
    MaxVersion  \* bound: MaxVersion[e], the versions of the lines of e

Entities == Orders \cup Requests

ASSUME PricingConstants ==
    /\ Bundled \subseteq Requests /\ OrderOf \in [Requests -> Orders]
    /\ Orders \cap Requests = {} /\ Nobody \notin Entities /\ MaxVersion \in [Entities -> Nat]

VARIABLES
    stage,      \* order_status of an order, commercial_status of a request
    mode,       \* pricing_mode
    billing,    \* billing[r]: billing_mode
    lines,      \* the line items
    snap,       \* the lines that prices.breakdown_lines was built from
    told,       \* history: the lines that the client's quote shows
    job,        \* job[w]: the handler that w is running
    disturbed   \* history: entities written after the check had ceased to hold

rowVars == <<stage, mode, billing>>
priceVars == <<rowVars, lines, snap, told, job, disturbed>>

OrderStages == {"PENDING_APPROVAL", "QUOTED", "CONFIRMED", "IN_PREPARATION", "CANCELLED"}
CommercialStages == {"NONE", "INTERNAL", "PENDING_QUOTE", "QUOTED", "QUOTE_APPROVED", "INVOICED",
                     "PAID", "CANCELLED"}

Idle == [op |-> "idle", on |-> Nobody, step |-> "idle", arg |-> "none",
         read |-> "none", seen |-> 0, todo |-> {}]

PriceInit ==
    /\ stage \in [Entities -> OrderStages \cup CommercialStages]
    /\ mode = [e \in Entities |-> "STANDARD"]
    /\ billing \in [Requests -> {"CLIENT_BILLABLE", "INTERNAL_ONLY"}]
    /\ lines = [e \in Entities |-> 1]
    /\ snap = lines
    /\ told = lines
    /\ job = [w \in Actors |-> Idle]
    /\ disturbed = {}

------------------------------------------------------------------------------
At(w, step) == job[w].step = step
On(w) == job[w].on
GoTo(w, step) == job' = [job EXCEPT ![w].step = step]
Done(w) == job' = [job EXCEPT ![w] = Idle]

\* A handler reads and checks, and awaits its first write.
Begin(w, op, e, step, arg) ==
    /\ job[w] = Idle
    /\ job' = [job EXCEPT ![w] = [Idle EXCEPT !.op = op, !.on = e, !.step = step, !.arg = arg,
                                              !.read = stage[e]]]
    /\ UNCHANGED <<rowVars, lines, snap, told, disturbed>>

\* A write to e whose check would fail by now.
Late(e, holds) == disturbed' = IF holds THEN disturbed ELSE disturbed \cup {e}

SetStage(e, s, m) ==
    /\ stage' = [stage EXCEPT ![e] = s]
    /\ mode' = [mode EXCEPT ![e] = m]
    /\ UNCHANGED billing

------------------------------------------------------------------------------
(* Line changes.                                                           *)

\* getLineItemEditability.
LockedStages == {"CONFIRMED", "IN_PREPARATION", "QUOTE_APPROVED", "INVOICED", "PAID"}
LinesLocked(e) == mode[e] = "NO_COST" \/ stage[e] \in LockedStages

\* how: quiet_amend keeps the quote of an order.
MayReprice(e) == stage[e] # "NONE" /\ ~LinesLocked(e)
BeginLineChange(w, e, how) ==
    /\ MayReprice(e)
    /\ how = "QUIET" => e \in Orders
    /\ Begin(w, "line", e, "insert", how)

Newest(e) == CHOOSE n \in {lines[e], snap[e], told[e]} :
                \A k \in {lines[e], snap[e], told[e]} : k <= n

InsertLine(w) ==
    LET e == On(w) IN
    /\ At(w, "insert")
    /\ Newest(e) < MaxVersion[e]
    /\ lines' = [lines EXCEPT ![e] = Newest(e) + 1]
    /\ Late(e, ~LinesLocked(e))
    /\ GoTo(w, "load")
    /\ UNCHANGED <<rowVars, snap, told>>

\* A flag of the lines, for what the CLIENT or LOGISTICS is shown.  Only the
\* first is locked, and only on an order.
Audiences == {"CLIENT", "LOGISTICS"}
MayShow(e, audience) ==
    /\ stage[e] # "NONE"
    /\ audience = "CLIENT" /\ e \in Orders => ~LinesLocked(e)
BeginDisplayChange(w, e, audience) ==
    MayShow(e, audience) /\ Begin(w, "show", e, "show", audience)

\* The client's documents change with a flag of theirs, if there are lines.
ShowLines(w) ==
    LET e == On(w) IN
    /\ At(w, "show")
    /\ IF job[w].arg = "CLIENT" /\ lines[e] # 0
       THEN Newest(e) < MaxVersion[e] /\ lines' = [lines EXCEPT ![e] = Newest(e) + 1]
       ELSE UNCHANGED lines
    /\ Late(e, MayShow(e, job[w].arg))
    /\ GoTo(w, "load")
    /\ UNCHANGED <<rowVars, snap, told>>

\* What comes after the breakdown.  The row of a request was read before it.
RevisableStages == {"QUOTED", "QUOTE_APPROVED", "INVOICED", "PAID"}
RequiresRevision(r, read) == billing[r] = "CLIENT_BILLABLE" /\ read \in RevisableStages
AfterRebuild(e, read) ==
    IF e \in Orders THEN "status" ELSE IF RequiresRevision(e, read) THEN "revert" ELSE "end"

Proceed(w, j, step) ==
    job' = [job EXCEPT ![w] = IF step = "end" THEN Idle ELSE [j EXCEPT !.step = step]]

\* rebuildBreakdown: a NO_COST entity is left alone.
LoadLines(w) ==
    LET e == On(w)
        j == [job[w] EXCEPT !.read = stage[e], !.seen = lines[e]] IN
    /\ At(w, "load")
    /\ Proceed(w, j, IF mode[e] = "NO_COST" THEN AfterRebuild(e, stage[e]) ELSE "store")
    /\ UNCHANGED <<rowVars, lines, snap, told, disturbed>>

\* Mutant: the breakdown is extended by what was added, not rebuilt.
StoredVersion_First(w) == IF snap[On(w)] = 0 THEN job[w].seen ELSE snap[On(w)]
StoredVersion(w) == job[w].seen

StoreBreakdown(w) ==
    LET e == On(w) IN
    /\ At(w, "store")
    /\ snap' = [snap EXCEPT ![e] = StoredVersion(w)]
    /\ Late(e, job[w].seen = lines[e] /\ mode[e] # "NO_COST")
    /\ Proceed(w, job[w], AfterRebuild(e, job[w].read))
    /\ UNCHANGED <<rowVars, lines, told>>

\* A quiet amendment and a flag put a new estimate in the place of the old one.
ReadStatus(w) ==
    LET e == On(w)
        quoted == stage[e] = "QUOTED"
        quiet == job[w].arg # "REVERT" IN
    /\ At(w, "status")
    /\ told' = IF quoted /\ quiet THEN [told EXCEPT ![e] = snap[e]] ELSE told
    /\ Proceed(w, [job[w] EXCEPT !.read = stage[e]], IF quoted /\ ~quiet THEN "revert" ELSE "end")
    /\ UNCHANGED <<rowVars, lines, snap, disturbed>>

\* Mutant first: the quote stays out.
RevertedStage_Kept(e) == stage[e]
RevertedStage(e) == IF e \in Orders THEN "PENDING_APPROVAL" ELSE "PENDING_QUOTE"

Revert(w) ==
    LET e == On(w) IN
    /\ At(w, "revert")
    /\ SetStage(e, RevertedStage(e), IF e \in Orders THEN mode[e] ELSE "STANDARD")
    /\ Late(e, stage[e] = job[w].read)
    /\ Done(w)
    /\ UNCHANGED <<lines, snap, told>>

------------------------------------------------------------------------------
(* The quote of an order: adminApproveQuote, approveQuote, markOrderAsNoCost. *)

BeginQuote(w, o) == stage[o] = "PENDING_APPROVAL" /\ Begin(w, "quote", o, "flip", "none")

FlipQuoted(w) ==
    LET o == On(w) IN
    /\ At(w, "flip")
    /\ SetStage(o, "QUOTED", mode[o])
    /\ Late(o, stage[o] = "PENDING_APPROVAL")
    /\ GoTo(w, "send")
    /\ UNCHANGED <<lines, snap, told>>

\* The estimate and the mail show the breakdown as it is now.
SendQuote(w) ==
    /\ At(w, "send")
    /\ told' = [told EXCEPT ![On(w)] = snap[On(w)]]
    /\ Done(w)
    /\ UNCHANGED <<rowVars, lines, snap, disturbed>>

BeginAccept(w, o) == stage[o] = "QUOTED" /\ Begin(w, "accept", o, "confirm", "none")

Confirm(w) ==
    LET o == On(w) IN
    /\ At(w, "confirm")
    /\ SetStage(o, "CONFIRMED", mode[o])
    /\ Late(o, stage[o] = "QUOTED" /\ lines[o] = told[o])
    /\ GoTo(w, "list")
    /\ UNCHANGED <<lines, snap, told>>

\* autoApproveBundledServiceRequests: every billable request of the order that
\* is not approved, whatever else it is.
ApprovedStages == {"QUOTE_APPROVED", "INVOICED", "PAID"}
BundledWith(o) == {r \in Bundled : /\ OrderOf[r] = o /\ stage[r] # "NONE"
                                   /\ billing[r] = "CLIENT_BILLABLE"
                                   /\ stage[r] \notin ApprovedStages}

ListBundled(w) ==
    /\ At(w, "list")
    /\ Proceed(w, [job[w] EXCEPT !.todo = BundledWith(On(w))],
               IF BundledWith(On(w)) = {} THEN "end" ELSE "bundled")
    /\ UNCHANGED <<rowVars, lines, snap, told, disturbed>>

\* The quote of the order counts as the quote of the request.
ApproveBundled(w, r) ==
    /\ At(w, "bundled") /\ r \in job[w].todo
    /\ SetStage(r, "QUOTE_APPROVED", mode[r])
    /\ told' = [told EXCEPT ![r] = snap[r]]
    /\ Late(r, r \in BundledWith(On(w)) /\ lines[r] = snap[r])
    /\ Proceed(w, [job[w] EXCEPT !.todo = @ \ {r}],
               IF job[w].todo = {r} THEN "end" ELSE "bundled")
    /\ UNCHANGED <<lines, snap>>

MayBeFree(o) == mode[o] = "STANDARD" /\ stage[o] \in {"PENDING_APPROVAL", "QUOTED"}
BeginNoCost(w, o) == MayBeFree(o) /\ Begin(w, "nocost", o, "void", "none")

\* markEntityAsNoCost voids the lines and empties the breakdown.
VoidLines(e) == lines' = [lines EXCEPT ![e] = 0] /\ snap' = [snap EXCEPT ![e] = 0]

CommitNoCost(w) ==
    LET o == On(w) IN
    /\ At(w, "void") /\ job[w].op = "nocost"
    /\ VoidLines(o)
    /\ SetStage(o, "CONFIRMED", "NO_COST")
    /\ Late(o, MayBeFree(o))
    /\ Done(w)
    /\ UNCHANGED told

------------------------------------------------------------------------------
(* The quote of a request.                                                 *)

BillableTransitions ==
    { <<"PENDING_QUOTE", "QUOTED">>, <<"PENDING_QUOTE", "CANCELLED">>,
      <<"QUOTED", "PENDING_QUOTE">>, <<"QUOTED", "QUOTE_APPROVED">>, <<"QUOTED", "CANCELLED">>,
      <<"QUOTE_APPROVED", "PENDING_QUOTE">>, <<"QUOTE_APPROVED", "INVOICED">>,
      <<"QUOTE_APPROVED", "CANCELLED">>, <<"INVOICED", "PAID">>, <<"INVOICED", "CANCELLED">> }
InternalTransitions ==
    { <<"INTERNAL", "INVOICED">>, <<"INTERNAL", "PAID">>, <<"INTERNAL", "CANCELLED">>,
      <<"INVOICED", "PAID">>, <<"INVOICED", "CANCELLED">> }

MayMove(r, to) ==
    /\ stage[r] # "NONE" /\ to # "NONE"
    /\ IF billing[r] = "CLIENT_BILLABLE"
       THEN to # "INTERNAL" /\ (to = stage[r] \/ <<stage[r], to>> \in BillableTransitions)
       ELSE /\ to \notin {"PENDING_QUOTE", "QUOTED", "QUOTE_APPROVED"}
            /\ to = stage[r] \/ <<stage[r], to>> \in InternalTransitions

\* updateServiceRequestCommercialStatus.
BeginMove(w, r, to) == MayMove(r, to) /\ Begin(w, "move", r, "write", to)

\* approveServiceRequestQuote, respondToServiceRequestQuote.
MayAnswer(r) == billing[r] = "CLIENT_BILLABLE" /\ stage[r] = "QUOTED"
BeginApprove(w, r) == MayAnswer(r) /\ Begin(w, "approve", r, "write", "QUOTE_APPROVED")
MayDecline(r) == billing[r] = "CLIENT_BILLABLE" /\ stage[r] \in {"QUOTED", "PENDING_QUOTE"}
BeginDecline(w, r) == MayDecline(r) /\ Begin(w, "decline", r, "write", "PENDING_QUOTE")

StillAllowed(w) ==
    LET r == On(w) IN
    CASE job[w].op = "move" -> MayMove(r, job[w].arg) /\ lines[r] = snap[r]
      [] job[w].op = "approve" -> MayAnswer(r) /\ lines[r] = told[r]
      [] job[w].op = "decline" -> MayDecline(r)

WriteStage(w) ==
    LET r == On(w)  to == job[w].arg IN
    /\ At(w, "write")
    /\ SetStage(r, to, IF job[w].op = "decline" THEN "STANDARD" ELSE mode[r])
    /\ told' = IF job[w].op = "move" /\ to = "QUOTED" THEN [told EXCEPT ![r] = snap[r]] ELSE told
    /\ Late(r, StillAllowed(w))
    /\ Done(w)
    /\ UNCHANGED <<lines, snap>>

\* applyServiceRequestConcession.
MayConcede(r) == /\ billing[r] = "CLIENT_BILLABLE"
                 /\ stage[r] \in {"INTERNAL", "PENDING_QUOTE", "QUOTED"}
BeginConcession(w, r) == MayConcede(r) /\ Begin(w, "concede", r, "void", "none")

CommitConcession(w) ==
    LET r == On(w) IN
    /\ At(w, "void") /\ job[w].op = "concede"
    /\ VoidLines(r)
    /\ SetStage(r, "PENDING_QUOTE", "NO_COST")
    /\ Late(r, MayConcede(r))
    /\ Done(w)
    /\ UNCHANGED told

------------------------------------------------------------------------------
\* The process dies.  A chain that has begun to write stays half done.
Crash(w) ==
    /\ job[w] # Idle
    /\ Done(w)
    /\ Late(On(w), ~\E step \in {"load", "store", "status", "revert", "send", "list", "bundled"} :
                        At(w, step))
    /\ UNCHANGED <<rowVars, lines, snap, told>>

PriceBegin(w) ==
    \/ \E e \in Entities, how \in {"REVERT", "QUIET"} : BeginLineChange(w, e, how)
    \/ \E e \in Entities, audience \in Audiences : BeginDisplayChange(w, e, audience)
    \/ \E o \in Orders : BeginQuote(w, o) \/ BeginAccept(w, o) \/ BeginNoCost(w, o)
    \/ \E r \in Requests : \/ \E to \in CommercialStages : BeginMove(w, r, to)
                           \/ BeginApprove(w, r) \/ BeginDecline(w, r) \/ BeginConcession(w, r)

PriceResume(w) ==
    \/ InsertLine(w) \/ ShowLines(w) \/ LoadLines(w) \/ StoreBreakdown(w) \/ ReadStatus(w) \/ Revert(w)
    \/ FlipQuoted(w) \/ SendQuote(w) \/ Confirm(w) \/ ListBundled(w) \/ CommitNoCost(w)
    \/ WriteStage(w) \/ CommitConcession(w) \/ \E r \in Requests : ApproveBundled(w, r)

------------------------------------------------------------------------------
(* Properties.                                                             *)

Quiet(e) == \A w \in Actors : On(w) # e /\ e \notin job[w].todo
Undisturbed(e) == Quiet(e) /\ e \notin disturbed

\* What a client is asked to accept, has accepted or is billed for are the
\* lines as they are: no sequence of line changes, revisions, concessions and
\* answers separates them, as long as no write outlives its check.
QuotedStages(e) == IF e \in Orders THEN {"QUOTED", "CONFIRMED", "IN_PREPARATION"} ELSE RevisableStages
OnOffer(e) == /\ stage[e] \in QuotedStages(e)
              /\ mode[e] = "STANDARD"
              /\ e \in Requests => billing[e] = "CLIENT_BILLABLE"
QuoteIsCurrent == \A e \in Entities : Undisturbed(e) /\ OnOffer(e) => told[e] = lines[e]

\* The breakdown that every total is read from shows the lines as they are.
BreakdownFollowsLines == \A e \in Entities : Undisturbed(e) => snap[e] = lines[e]

\* order-line-items.services.ts:1796-1797: "if the client has already seen a
\* quote (order is QUOTED), a pricing change invalidates it" - also when the
\* client answers between the line and the revert.
QuoteAlwaysCurrent == \A e \in Entities : Quiet(e) /\ OnOffer(e) => told[e] = lines[e]

\* order-line-items.services.ts:1178-1181: "a visibility change is display-only
\* [...] so it NEVER pulls a QUOTED order back [...] the quote itself is still
\* valid" - nor, one would think, a request that is quoted, approved or paid.
DisplayKeepsQuote ==
    [][\A w \in Actors : job[w].arg \in Audiences /\ job'[w] # job[w] => stage' = stage]_priceVars
==============================================================================
