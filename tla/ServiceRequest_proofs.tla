------------------------- MODULE ServiceRequest_proofs -------------------------
(***************************************************************************)
(* Theorems about Pricing as ServiceRequest completes it, for every set of *)
(* orders, items, requests and handlers, and line changes without a bound  *)
(* in common.                                                              *)
(***************************************************************************)
EXTENDS ServiceRequest, FiniteSetTheorems, TLAPS

------------------------------------------------------------------------------
(* The inductive invariant.                                                *)

Bills == {"CLIENT_BILLABLE", "INTERNAL_ONLY"}
EntitySteps == {"insert", "show", "load", "store", "revert"}
OrderSteps == {"status", "flip", "send", "confirm", "list", "bundled", "write order"}
RequestSteps == {"write", "insert request", "write work", "write cancel", "write override",
                 "write update"}
Ops == {"idle", "line", "show", "quote", "accept", "nocost", "move", "approve", "decline", "concede",
        "create", "work", "cancel", "override", "update", "decide", "cancel order", "prepare"}
Steps == EntitySteps \cup OrderSteps \cup RequestSteps \cup {"idle", "void", "decide"}
Args == CommercialStages \cup WorkStages \cup Bills \cup
        {"none", "REVERT", "QUIET", "CLIENT", "LOGISTICS", "items", "FIX_IN_ORDER", "USE_AS_IS"}
Jobs == [op : Ops, on : Entities \cup Items \cup {Nobody}, step : Steps, arg : Args,
         read : OrderStages \cup CommercialStages \cup {"none"}, seen : Nat,
         todo : SUBSET Requests]

\* A handler has come to its step on a row of the right kind, and means to
\* write what the step writes.
Suits(op, on, step, arg) ==
    /\ step \in EntitySteps => on \in Entities
    /\ step \in OrderSteps => on \in Orders
    /\ step \in RequestSteps => on \in Requests
    /\ step = "void" => on \in (IF op = "nocost" THEN Orders ELSE Requests)
    /\ step = "write" => \/ op = "move" /\ arg \in CommercialStages
                         \/ op = "approve" /\ arg = "QUOTE_APPROVED"
                         \/ op = "decline" /\ arg = "PENDING_QUOTE"
    /\ step = "insert request" => arg \in Bills
    /\ step = "write update" => arg \in Bills \cup {"items"}
JobFits(j) == j \in Jobs /\ Suits(j.op, j.on, j.step, j.arg)
JobsFit == job \in [Actors -> Jobs] /\ \A w \in Actors : JobFits(job[w])

RowsFit ==
    /\ stage \in [Entities -> OrderStages \cup CommercialStages]
    /\ mode \in [Entities -> {"STANDARD", "NO_COST"}]
    /\ billing \in [Requests -> Bills]
    /\ lines \in [Entities -> Nat] /\ snap \in [Entities -> Nat] /\ told \in [Entities -> Nat]

\* The chain of j will rebuild the breakdown of e ...
Rebuilds(j, e) == j.on = e /\ j.step \in {"load", "store"}
\* ... and take its quote back, or show it anew.
Requotes(j, e) ==
    /\ j.on = e
    /\ \/ j.step = "load"
       \/ e \in Orders /\ j.step \in {"store", "status", "revert", "send"}
       \/ e \in Requests /\ j.step \in {"store", "revert"} /\ j.read \in RevisableStages

Rebuilt(e) == snap[e] = lines[e] \/ \E w \in Actors : Rebuilds(job[w], e)
FreeIsEmpty(e) == mode[e] = "NO_COST" => lines[e] = 0 /\ snap[e] = 0
ToldIsRebuilt(e) == told[e] = lines[e] => snap[e] = lines[e]
AcceptedIsTold(e) ==
    e \in Orders /\ stage[e] \in {"CONFIRMED", "IN_PREPARATION"} /\ mode[e] = "STANDARD"
        => told[e] = lines[e]
OfferIsTold(e) == OnOffer(e) => told[e] = lines[e] \/ \E w \in Actors : Requotes(job[w], e)

PriceHolds(e) ==
    /\ Rebuilt(e) /\ FreeIsEmpty(e) /\ ToldIsRebuilt(e)
    /\ AcceptedIsTold(e) /\ OfferIsTold(e)

IInv == RowsFit /\ JobsFit /\ \A e \in Entities \ disturbed : PriceHolds(e)

------------------------------------------------------------------------------
(* What a step of one handler leaves of the rest.                          *)

LEMMA IdleFits == JobFits(Idle) /\ \A e \in Entities : Idle.on # e
BY PricingConstants, RequestConstants DEF JobFits, Suits, Jobs, Idle, Ops, Steps, Args, EntitySteps, OrderSteps,
                        RequestSteps

LEMMA OneJob ==
    ASSUME JobsFit, NEW w \in Actors, NEW j, JobFits(j), job' = [job EXCEPT ![w] = j]
    PROVE  /\ JobsFit' /\ job'[w] = j
           /\ \A v \in Actors \ {w} : job'[v] = job[v]
<1>1. j \in Jobs
  BY DEF JobFits
<1>2. /\ job' \in [Actors -> Jobs] /\ job'[w] = j
      /\ \A v \in Actors \ {w} : job'[v] = job[v]
  BY <1>1 DEF JobsFit
<1>3. ASSUME NEW v \in Actors
      PROVE  JobFits(job[v])'
  <2>1. JobFits(job'[v])
    BY <1>2 DEF JobsFit
  <2> QED
    BY <2>1 DEF JobFits
<1> QED
  BY <1>2, <1>3 DEF JobsFit

OthersRebuild(w, e) == \E v \in Actors \ {w} : Rebuilds(job[v], e)
OthersRequote(w, e) == \E v \in Actors \ {w} : Requotes(job[v], e)

\* The two parts of PriceHolds that a handler in flight may stand for, with
\* one handler set apart.
RebuiltBut(w, e) == snap[e] = lines[e] \/ Rebuilds(job[w], e) \/ OthersRebuild(w, e)
ToldBut(w, e) == OnOffer(e) => told[e] = lines[e] \/ Requotes(job[w], e) \/ OthersRequote(w, e)

LEMMA SetApart ==
    ASSUME NEW w \in Actors, NEW e
    PROVE  (Rebuilt(e) <=> RebuiltBut(w, e)) /\ (OfferIsTold(e) <=> ToldBut(w, e))
BY DEF Rebuilt, RebuiltBut, OfferIsTold, ToldBut, OthersRebuild, OthersRequote

LEMMA SetApartAfter ==
    ASSUME NEW w \in Actors, NEW e
    PROVE  (Rebuilt(e)' <=> RebuiltBut(w, e)') /\ (OfferIsTold(e)' <=> ToldBut(w, e)')
BY DEF Rebuilt, RebuiltBut, OfferIsTold, ToldBut, OthersRebuild, OthersRequote

LEMMA OthersGoOn ==
    ASSUME NEW w \in Actors, NEW e, \A v \in Actors \ {w} : job'[v] = job[v]
    PROVE  (OthersRebuild(w, e)' <=> OthersRebuild(w, e))
           /\ (OthersRequote(w, e)' <=> OthersRequote(w, e))
BY DEF OthersRebuild, OthersRequote, Rebuilds, Requotes

RowSame(e) ==
    /\ stage'[e] = stage[e] /\ mode'[e] = mode[e] /\ lines'[e] = lines[e]
    /\ snap'[e] = snap[e] /\ told'[e] = told[e]
    /\ e \in Requests => billing'[e] = billing[e]

\* A step of w that may have written the rows in X, and leaves alone, or does
\* not stand for, the others.
LEMMA StepKeeps ==
    ASSUME IInv, RowsFit', NEW w \in Actors, NEW j, JobFits(j), job' = [job EXCEPT ![w] = j],
           disturbed \subseteq disturbed', NEW X,
           \A e \in Entities \ X : RowSame(e) /\ ~Rebuilds(job[w], e) /\ ~Requotes(job[w], e),
           \A e \in (Entities \cap X) \ disturbed' : PriceHolds(e)'
    PROVE  IInv'
<1>1. JobsFit' /\ \A v \in Actors \ {w} : job'[v] = job[v]
  BY OneJob DEF IInv
<1>2. ASSUME NEW e \in Entities, e \notin disturbed', e \notin X
      PROVE  PriceHolds(e)'
  <2>1. PriceHolds(e) /\ RowSame(e) /\ ~Rebuilds(job[w], e) /\ ~Requotes(job[w], e)
    BY <1>2 DEF IInv
  <2>2. OnOffer(e)' <=> OnOffer(e)
    BY <2>1, PricingConstants DEF RowSame, OnOffer, QuotedStages
  <2>3. (OthersRebuild(w, e)' <=> OthersRebuild(w, e)) /\ (OthersRequote(w, e)' <=> OthersRequote(w, e))
    BY <1>1, OthersGoOn
  <2>4. RebuiltBut(w, e) /\ ToldBut(w, e)
    BY <2>1, SetApart DEF PriceHolds
  <2>5. Rebuilt(e)' /\ OfferIsTold(e)'
    <3>1. RebuiltBut(w, e)' /\ ToldBut(w, e)'
      BY <2>1, <2>2, <2>3, <2>4 DEF RebuiltBut, ToldBut, RowSame
    <3> QED
      BY <3>1, SetApartAfter
  <2> QED
    BY <2>1, <2>5 DEF PriceHolds, RowSame, FreeIsEmpty, ToldIsRebuilt, AcceptedIsTold
<1> QED
  BY <1>1, <1>2 DEF IInv

\* ... when w was at work on e, ...
LEMMA RowStepKeeps ==
    ASSUME IInv, RowsFit', NEW w \in Actors, NEW j, JobFits(j), job' = [job EXCEPT ![w] = j],
           disturbed \subseteq disturbed', NEW e, job[w].on = e,
           \A d \in Entities \ {e} : RowSame(d),
           e \in Entities \ disturbed' => PriceHolds(e)'
    PROVE  IInv'
<1>1. \A d \in Entities \ {e} : ~Rebuilds(job[w], d) /\ ~Requotes(job[w], d)
  BY DEF Rebuilds, Requotes
<1> HIDE DEF IInv
<1> QED
  BY <1>1, StepKeeps

\* ... or at nothing that the prices wait for, and has written no row.
NoPart(w) == job[w].step \notin {"load", "store", "status", "revert", "send"}

LEMMA NoPartIsNone ==
    ASSUME NEW w, NoPart(w), NEW e
    PROVE  ~Rebuilds(job[w], e) /\ ~Requotes(job[w], e)
BY DEF NoPart, Rebuilds, Requotes

LEMMA NoRowKeeps ==
    ASSUME IInv, NEW w \in Actors, NoPart(w), NEW j, JobFits(j), job' = [job EXCEPT ![w] = j],
           disturbed \subseteq disturbed', UNCHANGED <<rowVars, lines, snap, told>>
    PROVE  IInv'
<1>1. RowsFit' /\ \A e \in Entities : RowSame(e)
  BY DEF IInv, RowsFit, rowVars, RowSame
<1>2. \A e \in Entities : ~Rebuilds(job[w], e) /\ ~Requotes(job[w], e)
  BY NoPartIsNone
<1> HIDE DEF IInv
<1> QED
  BY <1>1, <1>2, StepKeeps

\* What is known of the row that w is at work on, and what is to be shown.
LEMMA Before ==
    ASSUME IInv, NEW w \in Actors, NEW e \in Entities \ disturbed
    PROVE  /\ RebuiltBut(w, e) /\ ToldBut(w, e)
           /\ FreeIsEmpty(e) /\ ToldIsRebuilt(e) /\ AcceptedIsTold(e)
BY SetApart DEF IInv, PriceHolds

LEMMA After ==
    ASSUME NEW w \in Actors, NEW e, RebuiltBut(w, e)', ToldBut(w, e)',
           FreeIsEmpty(e)', ToldIsRebuilt(e)', AcceptedIsTold(e)'
    PROVE  PriceHolds(e)'
BY SetApartAfter DEF PriceHolds

------------------------------------------------------------------------------
(* The beginning of a handler.                                             *)

BeginJob(op, e, step, arg) ==
    [Idle EXCEPT !.op = op, !.on = e, !.step = step, !.arg = arg, !.read = stage[e]]

LEMMA BeginKeeps ==
    ASSUME IInv, NEW w \in Actors, NEW e \in Entities, NEW op \in Ops, NEW step \in Steps,
           NEW arg \in Args, Begin(w, op, e, step, arg), Suits(op, e, step, arg)
    PROVE  IInv'
<1>1. PICK j : j = BeginJob(op, e, step, arg)
  OBVIOUS
<1>2. /\ job[w] = Idle /\ job' = [job EXCEPT ![w] = j]
      /\ UNCHANGED <<rowVars, lines, snap, told>> /\ disturbed' = disturbed
  BY <1>1 DEF Begin, BeginJob
<1>3. stage[e] \in OrderStages \cup CommercialStages
  BY DEF IInv, RowsFit
<1>4. JobFits(j)
  <2>1. /\ j = [op |-> op, on |-> e, step |-> step, arg |-> arg, read |-> stage[e],
                seen |-> 0, todo |-> {}]
    BY <1>1 DEF BeginJob, Idle
  <2> QED
    BY <1>3, <2>1 DEF JobFits, Jobs
<1>5. NoPart(w)
  BY <1>2 DEF NoPart, Idle
<1> HIDE DEF IInv
<1> QED
  BY <1>2, <1>4, <1>5, NoRowKeeps

LEMMA PriceBeginKeeps ==
    ASSUME IInv, NEW w \in Actors, PriceBegin(w)
    PROVE  IInv'
<1> USE DEF Ops, Steps, Args, EntitySteps, OrderSteps, RequestSteps, Suits
<1>1. ASSUME NEW e \in Entities, NEW how \in {"REVERT", "QUIET"}, BeginLineChange(w, e, how)
      PROVE  IInv'
  <2>1. Begin(w, "line", e, "insert", how) /\ Suits("line", e, "insert", how)
    BY <1>1 DEF BeginLineChange
  <2> QED
    BY <2>1, BeginKeeps
<1>8. ASSUME NEW e \in Entities, NEW audience \in Audiences, BeginDisplayChange(w, e, audience)
      PROVE  IInv'
  <2>1. Begin(w, "show", e, "show", audience) /\ Suits("show", e, "show", audience)
    BY <1>8 DEF BeginDisplayChange
  <2> QED
    BY <2>1, BeginKeeps DEF Audiences
<1>2. ASSUME NEW o \in Orders, BeginQuote(w, o)
      PROVE  IInv'
  <2>1. Begin(w, "quote", o, "flip", "none") /\ Suits("quote", o, "flip", "none")
    BY <1>2 DEF BeginQuote
  <2> QED
    BY <2>1, BeginKeeps DEF Entities
<1>3. ASSUME NEW o \in Orders, BeginAccept(w, o)
      PROVE  IInv'
  <2>1. Begin(w, "accept", o, "confirm", "none") /\ Suits("accept", o, "confirm", "none")
    BY <1>3 DEF BeginAccept
  <2> QED
    BY <2>1, BeginKeeps DEF Entities
<1>4. ASSUME NEW o \in Orders, BeginNoCost(w, o)
      PROVE  IInv'
  <2>1. Begin(w, "nocost", o, "void", "none") /\ Suits("nocost", o, "void", "none")
    BY <1>4 DEF BeginNoCost
  <2> QED
    BY <2>1, BeginKeeps DEF Entities
<1>5. ASSUME NEW r \in Requests, NEW to \in CommercialStages, BeginMove(w, r, to)
      PROVE  IInv'
  <2>1. Begin(w, "move", r, "write", to) /\ Suits("move", r, "write", to)
    BY <1>5 DEF BeginMove
  <2> QED
    BY <2>1, BeginKeeps DEF Entities
<1>6. ASSUME NEW r \in Requests, BeginApprove(w, r) \/ BeginDecline(w, r)
      PROVE  IInv'
  <2>1. CASE BeginApprove(w, r)
    <3>1. Begin(w, "approve", r, "write", "QUOTE_APPROVED")
          /\ Suits("approve", r, "write", "QUOTE_APPROVED")
      BY <2>1 DEF BeginApprove
    <3> QED
      BY <3>1, BeginKeeps DEF Entities, CommercialStages
  <2>2. CASE BeginDecline(w, r)
    <3>1. Begin(w, "decline", r, "write", "PENDING_QUOTE")
          /\ Suits("decline", r, "write", "PENDING_QUOTE")
      BY <2>2 DEF BeginDecline
    <3> QED
      BY <3>1, BeginKeeps DEF Entities, CommercialStages
  <2> QED
    BY <1>6, <2>1, <2>2
<1>7. ASSUME NEW r \in Requests, BeginConcession(w, r)
      PROVE  IInv'
  <2>1. Begin(w, "concede", r, "void", "none") /\ Suits("concede", r, "void", "none")
    BY <1>7 DEF BeginConcession
  <2> QED
    BY <2>1, BeginKeeps DEF Entities
<1> QED
  BY <1>1, <1>2, <1>3, <1>4, <1>5, <1>6, <1>7, <1>8 DEF PriceBegin

LEMMA RequestBeginKeeps ==
    ASSUME IInv, NEW w \in Actors, NEW r \in Requests,
           \/ \E bill \in Bills : BeginCreate(w, r, bill)
           \/ \E to \in WorkStages : BeginWork(w, r, to)
           \/ BeginCancel(w, r) \/ BeginOverride(w, r)
           \/ \E what \in Bills \cup {"items"} : BeginUpdate(w, r, what)
    PROVE  IInv'
<1> USE DEF Ops, Steps, Args, EntitySteps, OrderSteps, RequestSteps, Suits
<1>1. r \in Entities
  BY DEF Entities
<1>2. ASSUME NEW bill \in Bills, BeginCreate(w, r, bill)
      PROVE  IInv'
  <2>1. Begin(w, "create", r, "insert request", bill) /\ Suits("create", r, "insert request", bill)
    BY <1>2 DEF BeginCreate
  <2> QED
    BY <1>1, <2>1, BeginKeeps
<1>3. ASSUME NEW to \in WorkStages, BeginWork(w, r, to)
      PROVE  IInv'
  <2>1. Begin(w, "work", r, "write work", to) /\ Suits("work", r, "write work", to)
    BY <1>3 DEF BeginWork
  <2> QED
    BY <1>1, <2>1, BeginKeeps
<1>4. CASE BeginCancel(w, r)
  <2>1. Begin(w, "cancel", r, "write cancel", "none") /\ Suits("cancel", r, "write cancel", "none")
    BY <1>4 DEF BeginCancel
  <2> QED
    BY <1>1, <2>1, BeginKeeps
<1>5. CASE BeginOverride(w, r)
  <2>1. Begin(w, "override", r, "write override", "none")
        /\ Suits("override", r, "write override", "none")
    BY <1>5 DEF BeginOverride
  <2> QED
    BY <1>1, <2>1, BeginKeeps
<1>6. ASSUME NEW what \in Bills \cup {"items"}, BeginUpdate(w, r, what)
      PROVE  IInv'
  <2>1. Begin(w, "update", r, "write update", what) /\ Suits("update", r, "write update", what)
    BY <1>6 DEF BeginUpdate
  <2> QED
    BY <1>1, <2>1, BeginKeeps
<1> QED
  BY <1>2, <1>3, <1>4, <1>5, <1>6

LEMMA OrderBeginKeeps ==
    ASSUME IInv, NEW w \in Actors, NEW o \in Orders, BeginCancelOrder(w, o) \/ BeginPrepare(w, o)
    PROVE  IInv'
<1> USE DEF Ops, Steps, Args, EntitySteps, OrderSteps, RequestSteps, Suits
<1>1. o \in Entities
  BY DEF Entities
<1>2. CASE BeginCancelOrder(w, o)
  <2>1. Begin(w, "cancel order", o, "write order", "none")
        /\ Suits("cancel order", o, "write order", "none")
    BY <1>2 DEF BeginCancelOrder
  <2> QED
    BY <1>1, <2>1, BeginKeeps
<1>3. CASE BeginPrepare(w, o)
  <2>1. Begin(w, "prepare", o, "write order", "none") /\ Suits("prepare", o, "write order", "none")
    BY <1>3 DEF BeginPrepare
  <2> QED
    BY <1>1, <2>1, BeginKeeps
<1> QED
  BY <1>2, <1>3

LEMMA BeginDecideKeeps ==
    ASSUME IInv, NEW w \in Actors, NEW i \in Items, NEW d \in {"FIX_IN_ORDER", "USE_AS_IS"},
           BeginDecide(w, i, d)
    PROVE  IInv'
<1>1. PICK j : j = [Idle EXCEPT !.op = "decide", !.on = i, !.step = "decide",
                                !.arg = d, !.todo = ActiveRepairs(i)]
  OBVIOUS
<1>2. /\ job[w] = Idle /\ job' = [job EXCEPT ![w] = j]
      /\ UNCHANGED <<rowVars, lines, snap, told>> /\ disturbed' = disturbed
  BY <1>1 DEF BeginDecide
<1>3. ActiveRepairs(i) \subseteq Requests
  BY PricingConstants, RequestConstants DEF ActiveRepairs, LinkedTo
<1>4. JobFits(j)
  <2>1. j = [op |-> "decide", on |-> i, step |-> "decide", arg |-> d, read |-> "none",
             seen |-> 0, todo |-> ActiveRepairs(i)]
    BY <1>1 DEF Idle
  <2>2. j \in Jobs
    BY <1>3, <2>1 DEF Jobs, Ops, Steps, Args
  <2> QED
    BY <2>1, <2>2 DEF JobFits, Suits, EntitySteps, OrderSteps, RequestSteps
<1>5. NoPart(w)
  BY <1>2 DEF NoPart, Idle
<1> HIDE DEF IInv
<1> QED
  BY <1>2, <1>4, <1>5, NoRowKeeps

------------------------------------------------------------------------------
(* The chain of a line change.                                             *)

LEMMA NewestIsNewest ==
    ASSUME RowsFit, NEW e \in Entities
    PROVE  /\ Newest(e) \in Nat
           /\ lines[e] <= Newest(e) /\ snap[e] <= Newest(e) /\ told[e] <= Newest(e)
<1> DEFINE V == {lines[e], snap[e], told[e]}
<1>1. lines[e] \in Nat /\ snap[e] \in Nat /\ told[e] \in Nat
  BY DEF RowsFit
<1>2. \E n \in V : \A k \in V : k <= n
  BY <1>1
<1> QED
  BY <1>1, <1>2 DEF Newest

LEMMA InsertLineKeeps ==
    ASSUME IInv, NEW w \in Actors, InsertLine(w)
    PROVE  IInv'
<1>1. job[w] \in Jobs /\ job[w].step = "insert" /\ job[w].on \in Entities
  BY DEF IInv, JobsFit, JobFits, Suits, EntitySteps, InsertLine, At
<1>2. PICK e \in Entities : job[w].on = e
  BY <1>1
<1>j. PICK j : j = [job[w] EXCEPT !.step = "load"]
  OBVIOUS
<1>3. JobFits(j) /\ j.on = e /\ j.step = "load"
  BY <1>1, <1>2, <1>j DEF JobFits, Suits, Jobs, Steps, EntitySteps, OrderSteps, RequestSteps
<1>4. /\ job' = [job EXCEPT ![w] = j]
      /\ lines' = [lines EXCEPT ![e] = Newest(e) + 1]
      /\ UNCHANGED <<stage, mode, billing, snap, told>>
      /\ disturbed \subseteq disturbed'
      /\ e \notin disturbed' => e \notin disturbed /\ ~LinesLocked(e)
  BY <1>2, <1>j DEF InsertLine, GoTo, On, Late, rowVars
<1>5. Newest(e) \in Nat /\ told[e] \in Nat /\ told[e] <= Newest(e)
  BY NewestIsNewest DEF IInv, RowsFit
<1>6. lines'[e] = Newest(e) + 1 /\ \A d \in Entities \ {e} : lines'[d] = lines[d]
  BY <1>4 DEF IInv, RowsFit
<1>7. RowsFit'
  BY <1>4, <1>5 DEF IInv, RowsFit
<1>8. \A d \in Entities \ {e} : RowSame(d)
  BY <1>4, <1>6 DEF RowSame
<1>9. ASSUME e \notin disturbed'
      PROVE  PriceHolds(e)'
  <2>1. told'[e] # lines'[e]
    BY <1>4, <1>5, <1>6
  <2>2. mode'[e] # "NO_COST" /\ stage'[e] \notin LockedStages
    BY <1>4, <1>9 DEF LinesLocked
  <2>3. Rebuilds(job'[w], e) /\ Requotes(job'[w], e)
    BY <1>3, <1>4 DEF Rebuilds, Requotes, IInv, JobsFit
  <2>4. RebuiltBut(w, e)' /\ ToldBut(w, e)'
    BY <2>3 DEF RebuiltBut, ToldBut, Rebuilds, Requotes
  <2>5. FreeIsEmpty(e)' /\ ToldIsRebuilt(e)' /\ AcceptedIsTold(e)'
    BY <2>1, <2>2 DEF FreeIsEmpty, ToldIsRebuilt, AcceptedIsTold, LockedStages
  <2> QED
    BY <2>4, <2>5, After
<1> HIDE DEF IInv
<1> QED
  BY <1>2, <1>j, <1>3, <1>4, <1>7, <1>8, <1>9, RowStepKeeps

\* A flag for the client makes new lines unless there are none; then, and with
\* a flag for logistics, all rows stay as they are.
LEMMA ShowLinesKeeps ==
    ASSUME IInv, NEW w \in Actors, ShowLines(w)
    PROVE  IInv'
<1>1. job[w] \in Jobs /\ job[w].step = "show" /\ job[w].on \in Entities
  BY DEF IInv, JobsFit, JobFits, Suits, EntitySteps, ShowLines, At
<1>2. PICK e \in Entities : job[w].on = e
  BY <1>1
<1>j. PICK j : j = [job[w] EXCEPT !.step = "load"]
  OBVIOUS
<1>3. JobFits(j) /\ j.on = e /\ j.step = "load"
  BY <1>1, <1>2, <1>j DEF JobFits, Suits, Jobs, Steps, EntitySteps, OrderSteps, RequestSteps
<1>4. /\ job' = [job EXCEPT ![w] = j]
      /\ UNCHANGED <<stage, mode, billing, snap, told>>
      /\ disturbed \subseteq disturbed'
      /\ e \notin disturbed' => e \notin disturbed /\ MayShow(e, job[w].arg)
  BY <1>2, <1>j DEF ShowLines, GoTo, On, Late, rowVars
<1>5. CASE job[w].arg = "CLIENT" /\ lines[e] # 0
  <2>1. lines' = [lines EXCEPT ![e] = Newest(e) + 1]
    BY <1>2, <1>5 DEF ShowLines, On
  <2>2. Newest(e) \in Nat /\ told[e] \in Nat /\ told[e] <= Newest(e)
    BY NewestIsNewest DEF IInv, RowsFit
  <2>3. lines'[e] = Newest(e) + 1 /\ \A d \in Entities \ {e} : lines'[d] = lines[d]
    BY <2>1 DEF IInv, RowsFit
  <2>4. RowsFit'
    BY <1>4, <2>1, <2>2 DEF IInv, RowsFit
  <2>5. \A d \in Entities \ {e} : RowSame(d)
    BY <1>4, <2>3 DEF RowSame
  <2>6. ASSUME e \notin disturbed'
        PROVE  PriceHolds(e)'
    <3>1. told'[e] # lines'[e]
      BY <1>4, <2>2, <2>3
    <3>2. mode'[e] # "NO_COST"
      BY <1>4, <1>5, <2>6, Before DEF FreeIsEmpty
    <3>3. e \in Orders => stage'[e] \notin LockedStages
      BY <1>4, <1>5, <2>6 DEF MayShow, LinesLocked
    <3>4. Rebuilds(job'[w], e) /\ Requotes(job'[w], e)
      BY <1>3, <1>4 DEF Rebuilds, Requotes, IInv, JobsFit
    <3>5. RebuiltBut(w, e)' /\ ToldBut(w, e)'
      BY <3>4 DEF RebuiltBut, ToldBut, Rebuilds, Requotes
    <3>6. FreeIsEmpty(e)' /\ ToldIsRebuilt(e)' /\ AcceptedIsTold(e)'
      BY <3>1, <3>2, <3>3 DEF FreeIsEmpty, ToldIsRebuilt, AcceptedIsTold, LockedStages
    <3> QED
      BY <3>5, <3>6, After
  <2> HIDE DEF IInv
  <2> QED
    BY <1>2, <1>j, <1>3, <1>4, <2>4, <2>5, <2>6, RowStepKeeps
<1>6. CASE ~(job[w].arg = "CLIENT" /\ lines[e] # 0)
  <2>1. UNCHANGED <<rowVars, lines, snap, told>>
    BY <1>2, <1>6 DEF ShowLines, On
  <2>2. NoPart(w)
    BY <1>1 DEF NoPart
  <2> HIDE DEF IInv
  <2> QED
    BY <1>3, <1>4, <2>1, <2>2, NoRowKeeps
<1> QED
  BY <1>5, <1>6

\* The job of w at its next step, or its end.
LEMMA ProceedFits ==
    ASSUME JobsFit, NEW w \in Actors, NEW i \in Jobs, NEW step,
           i.op = job[w].op, i.on = job[w].on, i.arg = job[w].arg,
           step \in Steps \/ step = "end", "end" \notin Steps,
           step # "end" => Suits(i.op, i.on, step, i.arg),
           Proceed(w, i, step)
    PROVE  \E j : /\ JobFits(j) /\ job' = [job EXCEPT ![w] = j] /\ job'[w] = j
                  /\ step = "end" => j = Idle
                  /\ step # "end" => /\ j.step = step /\ j.on = i.on /\ j.read = i.read
                                     /\ j.seen = i.seen /\ j.todo = i.todo
<1>1. PICK j : j = IF step = "end" THEN Idle ELSE [i EXCEPT !.step = step]
  OBVIOUS
<1>2. job' = [job EXCEPT ![w] = j]
  BY <1>1 DEF Proceed
<1>3. JobFits(j)
  <2>1. CASE step = "end"
    BY <1>1, <2>1, IdleFits
  <2>2. CASE step # "end"
    <3>1. j = [i EXCEPT !.step = step] /\ step \in Steps
      BY <1>1, <2>2
    <3> QED
      BY <2>2, <3>1 DEF Jobs, JobFits
  <2> QED
    BY <2>1, <2>2
<1>4. job'[w] = j
  BY <1>2 DEF JobsFit
<1>5. step # "end" => /\ j.step = step /\ j.on = i.on /\ j.read = i.read
                      /\ j.seen = i.seen /\ j.todo = i.todo
  BY <1>1 DEF Jobs
<1> QED
  BY <1>1, <1>2, <1>3, <1>4, <1>5

LEMMA NoEnd == "end" \notin Steps
BY DEF Steps, EntitySteps, OrderSteps, RequestSteps

LEMMA AfterRebuildFits ==
    ASSUME NEW e \in Entities, NEW read, NEW op, NEW arg
    PROVE  LET step == AfterRebuild(e, read) IN
           /\ step \in Steps \/ step = "end"
           /\ step # "end" => Suits(op, e, step, arg)
BY DEF AfterRebuild, Suits, Steps, EntitySteps, OrderSteps, RequestSteps

LEMMA LoadLinesKeeps ==
    ASSUME IInv, NEW w \in Actors, LoadLines(w)
    PROVE  IInv'
<1>1. job[w] \in Jobs /\ job[w].step = "load" /\ job[w].on \in Entities
  BY DEF IInv, JobsFit, JobFits, Suits, EntitySteps, LoadLines, At
<1>2. PICK e \in Entities : job[w].on = e
  BY <1>1
<1>j. PICK i, step :
        /\ i = [job[w] EXCEPT !.read = stage[e], !.seen = lines[e]]
        /\ step = IF mode[e] = "NO_COST" THEN AfterRebuild(e, stage[e]) ELSE "store"
  OBVIOUS
<1>3. lines[e] \in Nat /\ stage[e] \in OrderStages \cup CommercialStages
      /\ mode[e] \in {"STANDARD", "NO_COST"}
  BY DEF IInv, RowsFit
<1>4. /\ i \in Jobs /\ i.op = job[w].op /\ i.on = job[w].on /\ i.arg = job[w].arg
      /\ i.on = e /\ i.read = stage[e]
  BY <1>1, <1>2, <1>j, <1>3 DEF Jobs
<1>5. Proceed(w, i, step) /\ UNCHANGED <<rowVars, lines, snap, told, disturbed>>
  BY <1>2, <1>j DEF LoadLines, On
<1>6. (step \in Steps \/ step = "end") /\ (step # "end" => Suits(i.op, i.on, step, i.arg))
  <2>1. CASE mode[e] = "NO_COST"
    BY <1>2, <1>j, <1>4, <2>1, AfterRebuildFits
  <2>2. CASE mode[e] # "NO_COST"
    BY <1>2, <1>j, <1>4, <2>2 DEF Suits, Steps, EntitySteps, OrderSteps, RequestSteps
  <2> QED
    BY <2>1, <2>2
<1>7. PICK j : /\ JobFits(j) /\ job' = [job EXCEPT ![w] = j] /\ job'[w] = j
               /\ step # "end" => j.step = step /\ j.on = i.on /\ j.read = i.read
  <2>1. JobsFit /\ Proceed(w, i, step)
    BY <1>5 DEF IInv
  <2>2. i \in Jobs /\ i.op = job[w].op /\ i.on = job[w].on /\ i.arg = job[w].arg
    BY <1>4
  <2> QED
    BY <1>6, <2>1, <2>2, NoEnd, ProceedFits
<1>8. RowsFit' /\ \A d \in Entities : RowSame(d)
  BY <1>5 DEF IInv, RowsFit, rowVars, RowSame
<1>9. ASSUME e \notin disturbed'
      PROVE  PriceHolds(e)'
  <2>1. /\ RebuiltBut(w, e) /\ ToldBut(w, e)
        /\ FreeIsEmpty(e) /\ ToldIsRebuilt(e) /\ AcceptedIsTold(e)
    BY <1>5, <1>9, Before
  <2>2. FreeIsEmpty(e)' /\ ToldIsRebuilt(e)' /\ AcceptedIsTold(e)'
    BY <1>8, <2>1 DEF RowSame, FreeIsEmpty, ToldIsRebuilt, AcceptedIsTold
  <2>3. CASE mode[e] = "NO_COST"
    <3>1. snap'[e] = lines'[e] /\ ~OnOffer(e)'
      BY <1>8, <2>1, <2>3 DEF FreeIsEmpty, RowSame, OnOffer
    <3> QED
      BY <2>2, <3>1, After DEF RebuiltBut, ToldBut
  <2>4. CASE mode[e] # "NO_COST"
    <3>1. job'[w].step = "store" /\ job'[w].on = e /\ job'[w].read = stage[e]
      BY <1>2, <1>j, <1>4, <1>7, <2>4
    <3>2. RebuiltBut(w, e)'
      BY <3>1 DEF RebuiltBut, Rebuilds
    <3>3. ToldBut(w, e)'
      BY <1>8, <3>1 DEF ToldBut, Requotes, OnOffer, QuotedStages, Entities, RowSame
    <3> QED
      BY <2>2, <3>2, <3>3, After
  <2> QED
    BY <2>3, <2>4
<1> HIDE DEF IInv
<1> QED
  BY <1>2, <1>j, <1>5, <1>7, <1>8, <1>9, RowStepKeeps

LEMMA StoreBreakdownKeeps ==
    ASSUME IInv, NEW w \in Actors, StoreBreakdown(w)
    PROVE  IInv'
<1>1. job[w] \in Jobs /\ job[w].step = "store" /\ job[w].on \in Entities
  BY DEF IInv, JobsFit, JobFits, Suits, EntitySteps, StoreBreakdown, At
<1>2. PICK e \in Entities : job[w].on = e
  BY <1>1
<1>j. PICK i, step : i = job[w] /\ step = AfterRebuild(e, i.read)
  OBVIOUS
<1>3. i \in Jobs /\ i.seen \in Nat
  BY <1>1, <1>2, <1>j DEF Jobs
<1>4. /\ Proceed(w, i, step) /\ snap' = [snap EXCEPT ![e] = i.seen]
      /\ UNCHANGED <<rowVars, lines, told>> /\ disturbed \subseteq disturbed'
      /\ e \notin disturbed' => e \notin disturbed /\ i.seen = lines[e] /\ mode[e] # "NO_COST"
  BY <1>2, <1>j DEF StoreBreakdown, On, StoredVersion, Late
<1>5. (step \in Steps \/ step = "end") /\ (step # "end" => Suits(i.op, i.on, step, i.arg))
  BY <1>2, <1>j, AfterRebuildFits
<1>6. PICK j : /\ JobFits(j) /\ job' = [job EXCEPT ![w] = j] /\ job'[w] = j
               /\ step # "end" => j.step = step /\ j.on = i.on /\ j.read = i.read
  <2>1. JobsFit
    BY DEF IInv
  <2> QED
    BY <1>2, <1>j, <1>3, <1>4, <1>5, <2>1, NoEnd, ProceedFits
<1>7. snap'[e] = i.seen /\ \A d \in Entities \ {e} : snap'[d] = snap[d]
  BY <1>4 DEF IInv, RowsFit
<1>8. RowsFit' /\ \A d \in Entities \ {e} : RowSame(d)
  BY <1>3, <1>4, <1>7 DEF IInv, RowsFit, rowVars, RowSame
<1>9. ASSUME e \notin disturbed'
      PROVE  PriceHolds(e)'
  <2>1. /\ ToldBut(w, e) /\ AcceptedIsTold(e) /\ snap'[e] = lines'[e]
    BY <1>4, <1>7, <1>9, Before
  <2>2. FreeIsEmpty(e)' /\ ToldIsRebuilt(e)' /\ AcceptedIsTold(e)' /\ RebuiltBut(w, e)'
    BY <1>4, <1>9, <2>1 DEF rowVars, FreeIsEmpty, ToldIsRebuilt, AcceptedIsTold, RebuiltBut
  <2>3. OthersRequote(w, e)' <=> OthersRequote(w, e)
    BY <1>6, OneJob, OthersGoOn DEF IInv
  <2>4. OnOffer(e)' <=> OnOffer(e)
    BY <1>4 DEF rowVars, OnOffer, QuotedStages
  <2>5. ASSUME OnOffer(e), Requotes(job[w], e)
        PROVE  Requotes(job'[w], e)
    <3>1. CASE e \in Orders
      <4>1. step = "status"
        BY <1>2, <1>j, <3>1 DEF AfterRebuild
      <4> QED
        BY <1>2, <1>j, <1>6, <3>1, <4>1 DEF Requotes
    <3>2. CASE e \notin Orders
      <4>1. step = "revert" /\ e \in Requests /\ i.read \in RevisableStages
        BY <1>1, <1>2, <1>j, <2>5, <3>2 DEF AfterRebuild, RequiresRevision, Requotes, OnOffer, Entities
      <4> QED
        BY <1>2, <1>j, <1>6, <4>1 DEF Requotes
    <3> QED
      BY <3>1, <3>2
  <2>6. ToldBut(w, e)'
    BY <1>4, <2>1, <2>3, <2>4, <2>5 DEF ToldBut
  <2> QED
    BY <2>2, <2>6, After
<1> HIDE DEF IInv
<1> QED
  BY <1>2, <1>j, <1>4, <1>6, <1>8, <1>9, RowStepKeeps

LEMMA ReadStatusKeeps ==
    ASSUME IInv, NEW w \in Actors, ReadStatus(w)
    PROVE  IInv'
<1>1. job[w] \in Jobs /\ job[w].step = "status" /\ job[w].on \in Orders
  BY DEF IInv, JobsFit, JobFits, Suits, OrderSteps, ReadStatus, At
<1>2. PICK e \in Entities : job[w].on = e
  BY <1>1 DEF Entities
<1>j. PICK i, step :
        /\ i = [job[w] EXCEPT !.read = stage[e]]
        /\ step = IF stage[e] = "QUOTED" /\ job[w].arg = "REVERT" THEN "revert" ELSE "end"
  OBVIOUS
<1>3. e \in Orders /\ stage[e] \in OrderStages \cup CommercialStages
  BY <1>1, <1>2, <1>j DEF IInv, RowsFit
<1>4. /\ i \in Jobs /\ i.op = job[w].op /\ i.on = job[w].on /\ i.arg = job[w].arg
      /\ i.on = e
  BY <1>1, <1>2, <1>j, <1>3 DEF Jobs
<1>5. /\ Proceed(w, i, step) /\ UNCHANGED <<rowVars, lines, snap, disturbed>>
      /\ told' = IF stage[e] = "QUOTED" /\ job[w].arg # "REVERT"
                 THEN [told EXCEPT ![e] = snap[e]] ELSE told
  BY <1>2, <1>j DEF ReadStatus, On
<1>6. (step \in Steps \/ step = "end") /\ (step # "end" => Suits(i.op, i.on, step, i.arg))
  BY <1>2, <1>j, <1>4 DEF Suits, Steps, EntitySteps, OrderSteps, RequestSteps
<1>7. PICK j : /\ JobFits(j) /\ job' = [job EXCEPT ![w] = j] /\ job'[w] = j
               /\ step # "end" => j.step = step /\ j.on = i.on
  <2>1. JobsFit /\ Proceed(w, i, step)
    BY <1>5 DEF IInv
  <2>2. i \in Jobs /\ i.op = job[w].op /\ i.on = job[w].on /\ i.arg = job[w].arg
    BY <1>4
  <2> QED
    BY <1>6, <2>1, <2>2, NoEnd, ProceedFits
<1>8. /\ told'[e] = IF stage[e] = "QUOTED" /\ job[w].arg # "REVERT" THEN snap[e] ELSE told[e]
      /\ \A d \in Entities \ {e} : told'[d] = told[d]
  BY <1>5 DEF IInv, RowsFit
<1>9. RowsFit' /\ \A d \in Entities \ {e} : RowSame(d)
  <2>1. told' \in [Entities -> Nat]
    BY <1>5 DEF IInv, RowsFit
  <2> QED
    BY <1>5, <1>8, <2>1 DEF IInv, RowsFit, rowVars, RowSame
<1>10. ASSUME e \notin disturbed'
       PROVE  PriceHolds(e)'
  <2>1. /\ RebuiltBut(w, e) /\ FreeIsEmpty(e) /\ ToldIsRebuilt(e) /\ AcceptedIsTold(e)
        /\ ToldBut(w, e)
    BY <1>5, <1>10, Before
  <2>2. snap[e] = lines[e] \/ OthersRebuild(w, e)
    BY <1>1, <2>1 DEF RebuiltBut, Rebuilds
  <2>3. /\ OthersRebuild(w, e)' <=> OthersRebuild(w, e)
        /\ OthersRequote(w, e)' <=> OthersRequote(w, e)
    BY <1>7, OneJob, OthersGoOn DEF IInv
  <2>4. OthersRebuild(w, e) => OthersRequote(w, e)
    BY <1>3 DEF OthersRebuild, OthersRequote, Rebuilds, Requotes
  <2>5. /\ FreeIsEmpty(e)' /\ ToldIsRebuilt(e)' /\ AcceptedIsTold(e)'
        /\ RebuiltBut(w, e)'
    BY <1>5, <1>8, <2>1, <2>2, <2>3
       DEF rowVars, FreeIsEmpty, ToldIsRebuilt, AcceptedIsTold, RebuiltBut
  <2>6. ToldBut(w, e)'
    <3>1. CASE stage[e] = "QUOTED" /\ job[w].arg # "REVERT"
      BY <1>5, <1>8, <2>2, <2>3, <2>4, <3>1 DEF ToldBut
    <3>2. CASE stage[e] = "QUOTED" /\ job[w].arg = "REVERT"
      <4>1. job'[w].step = "revert" /\ job'[w].on = e
        BY <1>2, <1>j, <1>4, <1>7, <3>2
      <4> QED
        BY <1>3, <4>1 DEF ToldBut, Requotes
    <3>3. CASE stage[e] # "QUOTED"
      <4>1. OnOffer(e)' => told'[e] = lines'[e]
        BY <1>3, <1>5, <1>8, <2>1, <3>3 DEF rowVars, OnOffer, QuotedStages, AcceptedIsTold
      <4> QED
        BY <4>1 DEF ToldBut
    <3> QED
      BY <3>1, <3>2, <3>3
  <2> QED
    BY <2>5, <2>6, After
<1> HIDE DEF IInv
<1> QED
  BY <1>2, <1>j, <1>5, <1>7, <1>9, <1>10, RowStepKeeps

------------------------------------------------------------------------------
(* The last write of a handler, when it changes the status of one row.     *)

LEMMA StatusKeeps ==
    ASSUME IInv, RowsFit', NEW w \in Actors, Done(w), NEW e \in Entities, job[w].on = e,
           job[w].step \notin {"load", "store"}, disturbed \subseteq disturbed',
           \A d \in Entities \ {e} : RowSame(d), UNCHANGED <<lines, snap, told>>,
           e \notin disturbed' =>
              /\ mode'[e] = "NO_COST" => mode[e] = "NO_COST"
              /\ AcceptedIsTold(e)'
              /\ OnOffer(e)' => told[e] = lines[e] \/ (OnOffer(e) /\ NoPart(w))
    PROVE  IInv'
<1>1. PICK j : j = Idle
  OBVIOUS
<1>2. JobFits(j) /\ job' = [job EXCEPT ![w] = j]
  BY <1>1, IdleFits DEF Done
<1>3. ASSUME e \notin disturbed'
      PROVE  PriceHolds(e)'
  <2>1. /\ RebuiltBut(w, e) /\ FreeIsEmpty(e) /\ ToldIsRebuilt(e) /\ ToldBut(w, e)
    BY <1>3, Before
  <2>2. /\ OthersRebuild(w, e)' <=> OthersRebuild(w, e)
        /\ OthersRequote(w, e)' <=> OthersRequote(w, e)
    BY <1>2, OneJob, OthersGoOn DEF IInv
  <2>3. FreeIsEmpty(e)' /\ ToldIsRebuilt(e)' /\ RebuiltBut(w, e)'
    BY <2>1, <2>2, <1>3 DEF FreeIsEmpty, ToldIsRebuilt, RebuiltBut, Rebuilds
  <2>4. ToldBut(w, e)'
    BY <1>3, <2>1, <2>2, NoPartIsNone DEF ToldBut
  <2> QED
    BY <1>3, <2>3, <2>4, After
<1> HIDE DEF IInv
<1> QED
  BY <1>2, <1>3, RowStepKeeps

\* The rows after a write to the status and the mode of e.
LEMMA SetStageFits ==
    ASSUME RowsFit, NEW e \in Entities, NEW s \in OrderStages \cup CommercialStages,
           NEW m \in {"STANDARD", "NO_COST"}, SetStage(e, s, m)
    PROVE  /\ stage' \in [Entities -> OrderStages \cup CommercialStages]
           /\ mode' \in [Entities -> {"STANDARD", "NO_COST"}] /\ billing' = billing
           /\ stage'[e] = s /\ mode'[e] = m
           /\ \A d \in Entities \ {e} : stage'[d] = stage[d] /\ mode'[d] = mode[d]
BY DEF RowsFit, SetStage

LEMMA SetStageKeepsRows ==
    ASSUME RowsFit, NEW e \in Entities, NEW s \in OrderStages \cup CommercialStages,
           NEW m \in {"STANDARD", "NO_COST"}, SetStage(e, s, m), UNCHANGED <<lines, snap, told>>
    PROVE  RowsFit' /\ \A d \in Entities \ {e} : RowSame(d)
BY SetStageFits DEF RowsFit, RowSame

LEMMA RevertKeeps ==
    ASSUME IInv, NEW w \in Actors, Revert(w)
    PROVE  IInv'
<1>1. job[w].step = "revert" /\ job[w].on \in Entities
  BY DEF IInv, JobsFit, JobFits, Suits, EntitySteps, Revert, At
<1>2. PICK e \in Entities : job[w].on = e
  BY <1>1
<1>3. PICK s \in {"PENDING_APPROVAL", "PENDING_QUOTE"}, m \in {"STANDARD", "NO_COST"} :
        /\ s = RevertedStage(e) /\ m = (IF e \in Orders THEN mode[e] ELSE "STANDARD")
  BY DEF RevertedStage, IInv, RowsFit
<1>4. /\ SetStage(e, s, m) /\ Done(w) /\ UNCHANGED <<lines, snap, told>>
      /\ disturbed \subseteq disturbed'
  BY <1>2, <1>3 DEF Revert, On, Late
<1>5. /\ stage'[e] = s /\ mode'[e] = m /\ RowsFit' /\ \A d \in Entities \ {e} : RowSame(d)
  BY <1>4, SetStageFits, SetStageKeepsRows DEF IInv, OrderStages, CommercialStages
<1>6. /\ mode'[e] = "NO_COST" => mode[e] = "NO_COST"
      /\ AcceptedIsTold(e)' /\ ~OnOffer(e)'
  BY <1>3, <1>5 DEF AcceptedIsTold, OnOffer, QuotedStages, RevisableStages
<1> HIDE DEF IInv
<1> QED
  BY <1>1, <1>2, <1>4, <1>5, <1>6, StatusKeeps

------------------------------------------------------------------------------
(* The quote of an order.                                                  *)

LEMMA GoOnFits ==
    ASSUME JobsFit, NEW w \in Actors, NEW step \in Steps, GoTo(w, step),
           Suits(job[w].op, job[w].on, step, job[w].arg)
    PROVE  \E j : /\ JobFits(j) /\ job' = [job EXCEPT ![w] = j] /\ job'[w] = j
                  /\ j.step = step /\ j.on = job[w].on
<1>1. job[w] \in Jobs
  BY DEF JobsFit, JobFits
<1>2. PICK j : j = [job[w] EXCEPT !.step = step]
  OBVIOUS
<1>3. JobFits(j) /\ j.step = step /\ j.on = job[w].on
  BY <1>1, <1>2 DEF Jobs, JobFits
<1>4. job' = [job EXCEPT ![w] = j] /\ job'[w] = j
  BY <1>2 DEF GoTo, JobsFit
<1> QED
  BY <1>3, <1>4

LEMMA FlipQuotedKeeps ==
    ASSUME IInv, NEW w \in Actors, FlipQuoted(w)
    PROVE  IInv'
<1>1. job[w].step = "flip" /\ job[w].on \in Orders
  BY DEF IInv, JobsFit, JobFits, Suits, OrderSteps, FlipQuoted, At
<1>2. PICK e \in Entities : job[w].on = e /\ e \in Orders
  BY <1>1 DEF Entities
<1>3. /\ SetStage(e, "QUOTED", mode[e]) /\ GoTo(w, "send") /\ UNCHANGED <<lines, snap, told>>
      /\ disturbed \subseteq disturbed'
  BY <1>2 DEF FlipQuoted, On, Late
<1>4. PICK j : /\ JobFits(j) /\ job' = [job EXCEPT ![w] = j] /\ job'[w] = j
               /\ j.step = "send" /\ j.on = job[w].on
  <2>1. JobsFit /\ "send" \in Steps /\ Suits(job[w].op, job[w].on, "send", job[w].arg)
    BY <1>1 DEF IInv, Suits, Steps, EntitySteps, OrderSteps, RequestSteps
  <2>2. GoTo(w, "send")
    BY <1>3
  <2> QED
    BY <2>1, <2>2, GoOnFits
<1>5. mode[e] \in {"STANDARD", "NO_COST"} /\ "QUOTED" \in OrderStages \cup CommercialStages
  BY DEF IInv, RowsFit, OrderStages
<1>6. /\ stage'[e] = "QUOTED" /\ mode'[e] = mode[e] /\ RowsFit'
      /\ \A d \in Entities \ {e} : RowSame(d)
  BY <1>3, <1>5, SetStageFits, SetStageKeepsRows DEF IInv
<1>7. ASSUME e \notin disturbed'
      PROVE  PriceHolds(e)'
  <2>1. RebuiltBut(w, e) /\ FreeIsEmpty(e) /\ ToldIsRebuilt(e)
    BY <1>3, <1>7, Before
  <2>2. OthersRebuild(w, e)' <=> OthersRebuild(w, e)
    BY <1>4, OneJob, OthersGoOn DEF IInv
  <2>3. FreeIsEmpty(e)' /\ ToldIsRebuilt(e)' /\ RebuiltBut(w, e)'
    BY <1>1, <1>3, <1>6, <2>1, <2>2 DEF FreeIsEmpty, ToldIsRebuilt, RebuiltBut, Rebuilds
  <2>4. AcceptedIsTold(e)' /\ ToldBut(w, e)'
    BY <1>2, <1>4, <1>6 DEF AcceptedIsTold, ToldBut, Requotes
  <2> QED
    BY <2>3, <2>4, After
<1> HIDE DEF IInv
<1> QED
  BY <1>2, <1>3, <1>4, <1>6, <1>7, RowStepKeeps

LEMMA SendQuoteKeeps ==
    ASSUME IInv, NEW w \in Actors, SendQuote(w)
    PROVE  IInv'
<1>1. job[w].step = "send" /\ job[w].on \in Orders
  BY DEF IInv, JobsFit, JobFits, Suits, OrderSteps, SendQuote, At
<1>2. PICK e \in Entities : job[w].on = e /\ e \in Orders
  BY <1>1 DEF Entities
<1>j. PICK j : j = Idle
  OBVIOUS
<1>3. JobFits(j) /\ job' = [job EXCEPT ![w] = j]
  BY <1>2, <1>j, IdleFits DEF SendQuote, Done
<1>4. /\ told' = [told EXCEPT ![e] = snap[e]] /\ UNCHANGED <<rowVars, lines, snap>>
      /\ disturbed' = disturbed
  BY <1>2, <1>j DEF SendQuote, On
<1>5. told'[e] = snap[e] /\ \A d \in Entities \ {e} : told'[d] = told[d]
  BY <1>4 DEF IInv, RowsFit
<1>6. RowsFit' /\ \A d \in Entities \ {e} : RowSame(d)
  BY <1>4, <1>5 DEF IInv, RowsFit, rowVars, RowSame
<1>7. ASSUME e \notin disturbed'
      PROVE  PriceHolds(e)'
  <2>1. RebuiltBut(w, e) /\ FreeIsEmpty(e) /\ ToldIsRebuilt(e) /\ AcceptedIsTold(e)
    BY <1>4, <1>7, Before
  <2>2. snap[e] = lines[e] \/ OthersRebuild(w, e)
    BY <1>1, <2>1 DEF RebuiltBut, Rebuilds
  <2>3. /\ OthersRebuild(w, e)' <=> OthersRebuild(w, e)
        /\ OthersRequote(w, e)' <=> OthersRequote(w, e)
    BY <1>3, OneJob, OthersGoOn DEF IInv
  <2>4. OthersRebuild(w, e) => OthersRequote(w, e)
    BY <1>2, <1>j DEF OthersRebuild, OthersRequote, Rebuilds, Requotes
  <2>5. FreeIsEmpty(e)' /\ ToldIsRebuilt(e)' /\ AcceptedIsTold(e)' /\ RebuiltBut(w, e)'
    BY <1>4, <1>5, <2>1, <2>2, <2>3
       DEF rowVars, FreeIsEmpty, ToldIsRebuilt, AcceptedIsTold, RebuiltBut
  <2>6. ToldBut(w, e)'
    BY <1>4, <1>5, <2>2, <2>3, <2>4 DEF ToldBut
  <2> QED
    BY <2>5, <2>6, After
<1> HIDE DEF IInv
<1> QED
  BY <1>2, <1>j, <1>3, <1>4, <1>6, <1>7, RowStepKeeps

LEMMA ConfirmKeeps ==
    ASSUME IInv, NEW w \in Actors, Confirm(w)
    PROVE  IInv'
<1>1. job[w].step = "confirm" /\ job[w].on \in Orders
  BY DEF IInv, JobsFit, JobFits, Suits, OrderSteps, Confirm, At
<1>2. PICK e \in Entities : job[w].on = e /\ e \in Orders
  BY <1>1 DEF Entities
<1>3. /\ SetStage(e, "CONFIRMED", mode[e]) /\ GoTo(w, "list") /\ UNCHANGED <<lines, snap, told>>
      /\ disturbed \subseteq disturbed'
      /\ e \notin disturbed' => e \notin disturbed /\ lines[e] = told[e]
  BY <1>2 DEF Confirm, On, Late
<1>4. PICK j : /\ JobFits(j) /\ job' = [job EXCEPT ![w] = j] /\ job'[w] = j
               /\ j.step = "list" /\ j.on = job[w].on
  <2>1. JobsFit /\ "list" \in Steps /\ Suits(job[w].op, job[w].on, "list", job[w].arg)
    BY <1>1 DEF IInv, Suits, Steps, EntitySteps, OrderSteps, RequestSteps
  <2>2. GoTo(w, "list")
    BY <1>3
  <2> QED
    BY <2>1, <2>2, GoOnFits
<1>5. mode[e] \in {"STANDARD", "NO_COST"} /\ "CONFIRMED" \in OrderStages \cup CommercialStages
  BY DEF IInv, RowsFit, OrderStages
<1>6. mode'[e] = mode[e] /\ RowsFit' /\ \A d \in Entities \ {e} : RowSame(d)
  BY <1>3, <1>5, SetStageFits, SetStageKeepsRows DEF IInv
<1>7. ASSUME e \notin disturbed'
      PROVE  PriceHolds(e)'
  <2>1. RebuiltBut(w, e) /\ FreeIsEmpty(e) /\ ToldIsRebuilt(e)
    BY <1>3, <1>7, Before
  <2>2. OthersRebuild(w, e)' <=> OthersRebuild(w, e)
    BY <1>4, OneJob, OthersGoOn DEF IInv
  <2>3. FreeIsEmpty(e)' /\ ToldIsRebuilt(e)' /\ RebuiltBut(w, e)'
    BY <1>1, <1>3, <1>6, <2>1, <2>2 DEF FreeIsEmpty, ToldIsRebuilt, RebuiltBut, Rebuilds
  <2>4. AcceptedIsTold(e)' /\ ToldBut(w, e)'
    BY <1>3, <1>7 DEF AcceptedIsTold, ToldBut
  <2> QED
    BY <2>3, <2>4, After
<1> HIDE DEF IInv
<1> QED
  BY <1>2, <1>3, <1>4, <1>6, <1>7, RowStepKeeps

\* The requests that a quote covers are listed, then written one by one.
LEMMA BundledFits ==
    ASSUME IInv, NEW w \in Actors, NEW todo \in SUBSET Requests, job[w].on \in Orders,
           NEW step \in {"bundled", "end"}, Proceed(w, [job[w] EXCEPT !.todo = todo], step)
    PROVE  \E j : JobFits(j) /\ job' = [job EXCEPT ![w] = j]
<1>1. job[w] \in Jobs /\ JobsFit
  BY DEF IInv, JobsFit, JobFits
<1>2. PICK i : i = [job[w] EXCEPT !.todo = todo]
  OBVIOUS
<1>3. i \in Jobs /\ i.op = job[w].op /\ i.on = job[w].on /\ i.arg = job[w].arg
  BY <1>1, <1>2 DEF Jobs
<1>4. step \in Steps \/ step = "end"
  BY DEF Steps, OrderSteps
<1>5. Suits(i.op, i.on, "bundled", i.arg)
  BY <1>3 DEF Suits, EntitySteps, OrderSteps, RequestSteps
<1>6. Proceed(w, i, step)
  BY <1>2
<1> QED
  BY <1>1, <1>3, <1>4, <1>5, <1>6, NoEnd, ProceedFits

LEMMA ListBundledKeeps ==
    ASSUME IInv, NEW w \in Actors, ListBundled(w)
    PROVE  IInv'
<1>1. job[w].step = "list" /\ job[w].on \in Orders
  BY DEF IInv, JobsFit, JobFits, Suits, OrderSteps, ListBundled, At
<1>2. BundledWith(job[w].on) \subseteq Requests
  BY PricingConstants DEF BundledWith
<1>3. PICK todo \in SUBSET Requests, step \in {"bundled", "end"} :
         Proceed(w, [job[w] EXCEPT !.todo = todo], step)
  BY <1>2 DEF ListBundled, On
<1>4. PICK j : JobFits(j) /\ job' = [job EXCEPT ![w] = j]
  BY <1>1, <1>3, BundledFits
<1>5. NoPart(w)
  BY <1>1 DEF NoPart
<1>6. UNCHANGED <<rowVars, lines, snap, told, disturbed>>
  BY DEF ListBundled
<1> HIDE DEF IInv
<1> QED
  BY <1>4, <1>5, <1>6, NoRowKeeps

LEMMA ApproveBundledKeeps ==
    ASSUME IInv, NEW w \in Actors, NEW r \in Requests, ApproveBundled(w, r)
    PROVE  IInv'
<1>1. job[w] \in Jobs /\ job[w].step = "bundled" /\ job[w].on \in Orders
  BY DEF IInv, JobsFit, JobFits, Suits, OrderSteps, ApproveBundled, At
<1>2. PICK todo \in SUBSET Requests, step \in {"bundled", "end"} :
         Proceed(w, [job[w] EXCEPT !.todo = todo], step)
  BY <1>1 DEF ApproveBundled, Jobs
<1>3. PICK j : JobFits(j) /\ job' = [job EXCEPT ![w] = j]
  BY <1>1, <1>2, BundledFits
<1>4. NoPart(w) /\ r \in Entities /\ r \notin Orders
  BY <1>1, PricingConstants DEF NoPart, Entities
<1>5. /\ SetStage(r, "QUOTE_APPROVED", mode[r]) /\ UNCHANGED <<lines, snap>>
      /\ told' = [told EXCEPT ![r] = snap[r]] /\ disturbed \subseteq disturbed'
      /\ r \notin disturbed' => lines[r] = snap[r]
  BY DEF ApproveBundled, Late
<1>6. mode[r] \in {"STANDARD", "NO_COST"}
      /\ "QUOTE_APPROVED" \in OrderStages \cup CommercialStages
  BY <1>4 DEF IInv, RowsFit, CommercialStages
<1>7. /\ stage' \in [Entities -> OrderStages \cup CommercialStages]
      /\ mode' \in [Entities -> {"STANDARD", "NO_COST"}] /\ billing' = billing
      /\ \A d \in Entities \ {r} : stage'[d] = stage[d] /\ mode'[d] = mode[d]
  BY <1>4, <1>5, <1>6, SetStageFits DEF IInv
<1>8. /\ told' \in [Entities -> Nat] /\ told'[r] = snap[r]
      /\ \A d \in Entities \ {r} : told'[d] = told[d]
  BY <1>4, <1>5 DEF IInv, RowsFit
<1>9. RowsFit' /\ \A d \in Entities \ {r} : RowSame(d)
  BY <1>5, <1>7, <1>8 DEF IInv, RowsFit, RowSame
<1>10. ASSUME r \notin disturbed'
       PROVE  PriceHolds(r)'
  <2>1. FreeIsEmpty(r)
    BY <1>4, <1>5, <1>10, Before
  <2>2. mode'[r] = mode[r]
    BY <1>4, <1>5 DEF SetStage, IInv, RowsFit
  <2>3. FreeIsEmpty(r)'
    BY <1>5, <2>1, <2>2 DEF FreeIsEmpty
  <2> QED
    BY <1>4, <1>5, <1>8, <1>10, <2>3
       DEF PriceHolds, Rebuilt, ToldIsRebuilt, AcceptedIsTold, OfferIsTold
<1>11. \A e \in Entities : ~Rebuilds(job[w], e) /\ ~Requotes(job[w], e)
  BY <1>4, NoPartIsNone
<1> HIDE DEF IInv
<1>12. PICK X : X = {r}
  OBVIOUS
<1> QED
  BY <1>3, <1>5, <1>9, <1>10, <1>11, <1>12, StepKeeps

\* markEntityAsNoCost: the row has no lines and an empty breakdown.
LEMMA VoidKeeps ==
    ASSUME IInv, NEW w \in Actors, Done(w), NEW e \in Entities, job[w].on = e, VoidLines(e),
           NEW s \in OrderStages \cup CommercialStages, SetStage(e, s, "NO_COST"),
           disturbed \subseteq disturbed', told' = told
    PROVE  IInv'
<1>1. PICK j : j = Idle
  OBVIOUS
<1>2. JobFits(j) /\ job' = [job EXCEPT ![w] = j]
  BY <1>1, IdleFits DEF Done
<1>3. /\ stage' \in [Entities -> OrderStages \cup CommercialStages]
      /\ mode' \in [Entities -> {"STANDARD", "NO_COST"}] /\ billing' = billing
      /\ mode'[e] = "NO_COST"
      /\ \A d \in Entities \ {e} : stage'[d] = stage[d] /\ mode'[d] = mode[d]
  BY SetStageFits DEF IInv
<1>4. /\ lines' \in [Entities -> Nat] /\ snap' \in [Entities -> Nat]
      /\ lines'[e] = 0 /\ snap'[e] = 0
      /\ \A d \in Entities \ {e} : lines'[d] = lines[d] /\ snap'[d] = snap[d]
  BY DEF VoidLines, IInv, RowsFit
<1>5. RowsFit' /\ \A d \in Entities \ {e} : RowSame(d)
  BY <1>3, <1>4 DEF IInv, RowsFit, RowSame
<1>6. PriceHolds(e)'
  BY <1>3, <1>4
     DEF PriceHolds, Rebuilt, FreeIsEmpty, ToldIsRebuilt, AcceptedIsTold, OfferIsTold, OnOffer
<1> HIDE DEF IInv
<1> QED
  BY <1>2, <1>5, <1>6, RowStepKeeps

LEMMA CommitNoCostKeeps ==
    ASSUME IInv, NEW w \in Actors, CommitNoCost(w)
    PROVE  IInv'
<1>1. job[w].on \in Entities
  BY DEF IInv, JobsFit, JobFits, Suits, CommitNoCost, At, Entities
<1>2. PICK e \in Entities : job[w].on = e
  BY <1>1
<1>3. /\ VoidLines(e) /\ SetStage(e, "CONFIRMED", "NO_COST") /\ Done(w) /\ told' = told
      /\ disturbed \subseteq disturbed'
  BY <1>2 DEF CommitNoCost, On, Late
<1>4. "CONFIRMED" \in OrderStages \cup CommercialStages
  BY DEF OrderStages
<1> HIDE DEF IInv
<1> QED
  BY <1>2, <1>3, <1>4, VoidKeeps

LEMMA CommitConcessionKeeps ==
    ASSUME IInv, NEW w \in Actors, CommitConcession(w)
    PROVE  IInv'
<1>1. job[w].on \in Entities
  BY DEF IInv, JobsFit, JobFits, Suits, CommitConcession, At, Entities
<1>2. PICK e \in Entities : job[w].on = e
  BY <1>1
<1>3. /\ VoidLines(e) /\ SetStage(e, "PENDING_QUOTE", "NO_COST") /\ Done(w) /\ told' = told
      /\ disturbed \subseteq disturbed'
  BY <1>2 DEF CommitConcession, On, Late
<1>4. "PENDING_QUOTE" \in OrderStages \cup CommercialStages
  BY DEF CommercialStages
<1> HIDE DEF IInv
<1> QED
  BY <1>2, <1>3, <1>4, VoidKeeps

------------------------------------------------------------------------------
(* The quote of a request.                                                 *)

LEMMA WriteStageKeeps ==
    ASSUME IInv, NEW w \in Actors, WriteStage(w)
    PROVE  IInv'
<1>1. /\ job[w].step = "write" /\ job[w].on \in Requests
      /\ \/ job[w].op = "move" /\ job[w].arg \in CommercialStages
         \/ job[w].op = "approve" /\ job[w].arg = "QUOTE_APPROVED"
         \/ job[w].op = "decline" /\ job[w].arg = "PENDING_QUOTE"
  BY DEF IInv, JobsFit, JobFits, Suits, RequestSteps, WriteStage, At
<1>2. PICK e \in Entities, op \in {"move", "approve", "decline"},
           to \in OrderStages \cup CommercialStages :
        job[w].on = e /\ op = job[w].op /\ to = job[w].arg
  <2>1. job[w].arg \in OrderStages \cup CommercialStages
    BY <1>1 DEF CommercialStages
  <2> QED
    BY <1>1, <2>1 DEF Entities
<1>3. e \in Requests /\ e \notin Orders
  BY <1>1, <1>2, PricingConstants
<1>4. PICK m \in {"STANDARD", "NO_COST"} : m = IF op = "decline" THEN "STANDARD" ELSE mode[e]
  BY DEF IInv, RowsFit
<1>5. /\ SetStage(e, to, m) /\ Done(w) /\ UNCHANGED <<lines, snap>>
      /\ told' = IF op = "move" /\ to = "QUOTED" THEN [told EXCEPT ![e] = snap[e]] ELSE told
      /\ disturbed \subseteq disturbed'
  BY <1>2, <1>4 DEF WriteStage, On, Late
<1>6. ASSUME e \notin disturbed'
      PROVE  /\ e \notin disturbed
             /\ op = "move" => MayMove(e, to) /\ lines[e] = snap[e]
             /\ op = "approve" => MayAnswer(e) /\ lines[e] = told[e]
  BY <1>2, <1>6 DEF WriteStage, On, Late, StillAllowed
<1>7. /\ stage' \in [Entities -> OrderStages \cup CommercialStages]
      /\ mode' \in [Entities -> {"STANDARD", "NO_COST"}] /\ billing' = billing
      /\ stage'[e] = to /\ mode'[e] = m
      /\ \A d \in Entities \ {e} : stage'[d] = stage[d] /\ mode'[d] = mode[d]
  BY <1>5, SetStageFits DEF IInv
<1>8. AcceptedIsTold(e)'
  BY <1>3 DEF AcceptedIsTold
<1>9. CASE op = "move" /\ to = "QUOTED"
  <2>1. PICK j : j = Idle
    OBVIOUS
  <2>2. JobFits(j) /\ job' = [job EXCEPT ![w] = j]
    BY <1>5, <2>1, IdleFits DEF Done
  <2>3. /\ told' \in [Entities -> Nat] /\ told'[e] = snap[e]
        /\ \A d \in Entities \ {e} : told'[d] = told[d]
    BY <1>5, <1>9 DEF IInv, RowsFit
  <2>4. RowsFit' /\ \A d \in Entities \ {e} : RowSame(d)
    BY <1>5, <1>7, <2>3 DEF IInv, RowsFit, RowSame
  <2>5. ASSUME e \notin disturbed'
        PROVE  PriceHolds(e)'
    <3>1. FreeIsEmpty(e)
      BY <1>6, <2>5, Before
    <3>2. FreeIsEmpty(e)'
      BY <1>4, <1>5, <1>7, <1>9, <3>1 DEF FreeIsEmpty
    <3> QED
      BY <1>5, <1>6, <1>8, <1>9, <2>3, <2>5, <3>2
         DEF PriceHolds, Rebuilt, ToldIsRebuilt, OfferIsTold
  <2> HIDE DEF IInv
  <2> QED
    BY <1>2, <1>5, <2>2, <2>4, <2>5, RowStepKeeps
<1>10. CASE ~(op = "move" /\ to = "QUOTED")
  <2>1. UNCHANGED <<lines, snap, told>>
    BY <1>5, <1>10
  <2>2. RowsFit' /\ \A d \in Entities \ {e} : RowSame(d)
    BY <1>7, <2>1 DEF IInv, RowsFit, RowSame
  <2>3. NoPart(w)
    BY <1>1 DEF NoPart
  <2>4. mode'[e] = "NO_COST" => mode[e] = "NO_COST"
    BY <1>4, <1>7
  <2>5. ASSUME e \notin disturbed', OnOffer(e)'
        PROVE  told[e] = lines[e] \/ OnOffer(e)
    <3>1. /\ to \in RevisableStages /\ mode'[e] = "STANDARD" /\ billing[e] = "CLIENT_BILLABLE"
      BY <1>3, <1>7, <2>5 DEF OnOffer, QuotedStages
    <3>2. CASE op = "move"
      <4>1. to = stage[e] \/ <<stage[e], to>> \in BillableTransitions
        BY <1>6, <2>5, <3>1, <3>2 DEF MayMove
      <4>2. stage[e] \in RevisableStages
        BY <1>10, <3>1, <3>2, <4>1 DEF BillableTransitions, RevisableStages
      <4> QED
        BY <1>3, <1>4, <1>7, <3>1, <3>2, <4>2 DEF OnOffer, QuotedStages
    <3>3. CASE op = "approve"
      BY <1>6, <2>5, <3>3
    <3>4. CASE op = "decline"
      BY <1>1, <1>2, <3>1, <3>4 DEF RevisableStages
    <3> QED
      BY <1>1, <1>2, <3>2, <3>3, <3>4
  <2> HIDE DEF IInv
  <2> QED
    BY <1>1, <1>2, <1>5, <1>8, <2>1, <2>2, <2>3, <2>4, <2>5, StatusKeeps
<1> QED
  BY <1>9, <1>10

\* A chain that dies leaves its row to the history.
LEMMA CrashKeeps ==
    ASSUME IInv, NEW w \in Actors, Crash(w)
    PROVE  IInv'
<1>1. PICK e, j : e = job[w].on /\ j = Idle
  OBVIOUS
<1>2. JobFits(j) /\ job' = [job EXCEPT ![w] = j]
  BY <1>1, IdleFits DEF Crash, Done
<1>3. UNCHANGED <<rowVars, lines, snap, told>> /\ disturbed \subseteq disturbed'
  BY DEF Crash, Late
<1>4. CASE NoPart(w)
  <2> HIDE DEF IInv
  <2> QED
    BY <1>2, <1>3, <1>4, NoRowKeeps
<1>5. CASE ~NoPart(w)
  <2>1. e \in disturbed'
    BY <1>1, <1>5 DEF Crash, Late, On, At, NoPart
  <2>2. RowsFit' /\ \A d \in Entities : RowSame(d)
    BY <1>3 DEF IInv, RowsFit, rowVars, RowSame
  <2> HIDE DEF IInv
  <2> QED
    BY <1>1, <1>2, <1>3, <2>1, <2>2, RowStepKeeps
<1> QED
  BY <1>4, <1>5

------------------------------------------------------------------------------
(* Requests, decisions and the order.                                      *)

LEMMA InsertRequestKeeps ==
    ASSUME IInv, NEW w \in Actors, InsertRequest(w)
    PROVE  IInv'
<1>1. job[w].step = "insert request" /\ job[w].on \in Requests /\ job[w].arg \in Bills
  BY DEF IInv, JobsFit, JobFits, Suits, RequestSteps, InsertRequest, At
<1>2. PICK e \in Entities, bill \in Bills : job[w].on = e /\ bill = job[w].arg
  BY <1>1 DEF Entities
<1>3. PICK s \in {"PENDING_QUOTE", "INTERNAL"} : s = FirstStage(bill)
  BY DEF FirstStage
<1>4. /\ stage' = [stage EXCEPT ![e] = s] /\ billing' = [billing EXCEPT ![e] = bill]
      /\ Done(w) /\ UNCHANGED <<mode, lines, snap, told>> /\ disturbed \subseteq disturbed'
  BY <1>2, <1>3 DEF InsertRequest, On, Late
<1>5. e \in Requests /\ e \notin Orders /\ NoPart(w)
  BY <1>1, <1>2, PricingConstants DEF NoPart
<1>6. /\ stage' \in [Entities -> OrderStages \cup CommercialStages] /\ stage'[e] = s
      /\ billing' \in [Requests -> Bills]
      /\ \A d \in Entities \ {e} : stage'[d] = stage[d] /\ (d \in Requests => billing'[d] = billing[d])
  <2>1. s \in OrderStages \cup CommercialStages
    BY DEF CommercialStages
  <2> QED
    BY <1>4, <1>5, <2>1 DEF IInv, RowsFit
<1>7. RowsFit' /\ \A d \in Entities \ {e} : RowSame(d)
  BY <1>4, <1>6 DEF IInv, RowsFit, RowSame
<1>8. AcceptedIsTold(e)' /\ ~OnOffer(e)' /\ mode'[e] = mode[e]
  BY <1>4, <1>5, <1>6 DEF AcceptedIsTold, OnOffer, QuotedStages, RevisableStages
<1> HIDE DEF IInv
<1> QED
  BY <1>1, <1>2, <1>4, <1>7, <1>8, StatusKeeps

LEMMA WorkKeeps ==
    ASSUME IInv, NEW w \in Actors, WriteWork(w) \/ WriteOverride(w)
    PROVE  IInv'
<1>1. PICK j : j = Idle
  OBVIOUS
<1>2. JobFits(j) /\ job' = [job EXCEPT ![w] = j]
  BY <1>1, IdleFits DEF WriteWork, WriteOverride, Done
<1>3. UNCHANGED <<rowVars, lines, snap, told>> /\ disturbed \subseteq disturbed'
  BY DEF WriteWork, WriteOverride, Late
<1>4. NoPart(w)
  BY DEF WriteWork, WriteOverride, At, NoPart
<1> HIDE DEF IInv
<1> QED
  BY <1>2, <1>3, <1>4, NoRowKeeps

LEMMA WriteCancelKeeps ==
    ASSUME IInv, NEW w \in Actors, WriteCancel(w)
    PROVE  IInv'
<1>1. job[w].step = "write cancel" /\ job[w].on \in Requests
  BY DEF IInv, JobsFit, JobFits, Suits, RequestSteps, WriteCancel, At
<1>2. PICK e \in Entities : job[w].on = e
  BY <1>1 DEF Entities
<1>3. /\ SetStage(e, "CANCELLED", mode[e]) /\ Done(w) /\ UNCHANGED <<lines, snap, told>>
      /\ disturbed \subseteq disturbed'
  BY <1>2 DEF WriteCancel, On, Late
<1>4. mode[e] \in {"STANDARD", "NO_COST"} /\ "CANCELLED" \in OrderStages \cup CommercialStages
  BY DEF IInv, RowsFit, OrderStages
<1>5. /\ stage'[e] = "CANCELLED" /\ mode'[e] = mode[e] /\ RowsFit'
      /\ \A d \in Entities \ {e} : RowSame(d)
  BY <1>3, <1>4, SetStageFits, SetStageKeepsRows DEF IInv
<1>6. AcceptedIsTold(e)' /\ ~OnOffer(e)'
  BY <1>5 DEF AcceptedIsTold, OnOffer, QuotedStages, RevisableStages
<1> HIDE DEF IInv
<1> QED
  BY <1>1, <1>2, <1>3, <1>5, <1>6, StatusKeeps

\* A change of hands of a request whose price is out is late.
LEMMA RebillKeeps ==
    ASSUME IInv, NEW w \in Actors, Rebill(w)
    PROVE  IInv'
<1>1. /\ job[w].step = "write update" /\ job[w].on \in Requests /\ job[w].arg \in Bills
  BY DEF IInv, JobsFit, JobFits, Suits, RequestSteps, Rebill, At
<1>2. PICK e \in Entities, bill \in Bills : job[w].on = e /\ bill = job[w].arg
  BY <1>1 DEF Entities
<1>3. e \in Requests /\ e \notin Orders
  BY <1>1, <1>2, PricingConstants
<1>4. PICK s \in {stage[e], "PENDING_QUOTE", "INTERNAL"} :
         s = IF job[w].read \in {"INTERNAL", "PENDING_QUOTE"} THEN FirstStage(bill) ELSE stage[e]
  BY DEF FirstStage
<1>5. /\ stage' = [stage EXCEPT ![e] = s] /\ billing' = [billing EXCEPT ![e] = bill]
      /\ Done(w) /\ UNCHANGED <<mode, lines, snap, told>> /\ disturbed \subseteq disturbed'
  BY <1>2, <1>4 DEF Rebill, On, Late
<1>6. e \notin disturbed' => stage[e] \notin RevisableStages
  BY <1>2 DEF Rebill, On, Late
<1>7. /\ stage' \in [Entities -> OrderStages \cup CommercialStages] /\ stage'[e] = s
      /\ billing' \in [Requests -> Bills]
      /\ \A d \in Entities \ {e} : stage'[d] = stage[d] /\ (d \in Requests => billing'[d] = billing[d])
  <2>1. s \in OrderStages \cup CommercialStages
    BY DEF IInv, RowsFit, CommercialStages
  <2> QED
    BY <1>3, <1>5, <2>1 DEF IInv, RowsFit
<1>8. RowsFit' /\ \A d \in Entities \ {e} : RowSame(d)
  BY <1>5, <1>7 DEF IInv, RowsFit, RowSame
<1>9. ASSUME e \notin disturbed'
      PROVE  AcceptedIsTold(e)' /\ ~OnOffer(e)' /\ mode'[e] = mode[e]
  <2>1. s \notin RevisableStages
    BY <1>6, <1>9 DEF RevisableStages
  <2> QED
    BY <1>3, <1>5, <1>7, <2>1 DEF AcceptedIsTold, OnOffer, QuotedStages
<1> HIDE DEF IInv
<1> QED
  BY <1>1, <1>2, <1>5, <1>8, <1>9, StatusKeeps

LEMMA RequoteKeeps ==
    ASSUME IInv, NEW w \in Actors, Requote(w)
    PROVE  IInv'
<1>1. job[w].step = "write update" /\ job[w].on \in Requests
  BY DEF IInv, JobsFit, JobFits, Suits, RequestSteps, Requote, At
<1>2. PICK e \in Entities : job[w].on = e
  BY <1>1 DEF Entities
<1>3. Done(w) /\ UNCHANGED <<lines, snap, told>> /\ disturbed \subseteq disturbed'
  BY DEF Requote, Late
<1>4. CASE RequiresRevision(e, job[w].read)
  <2>1. SetStage(e, "PENDING_QUOTE", "STANDARD")
    BY <1>2, <1>4 DEF Requote, On
  <2>2. "PENDING_QUOTE" \in OrderStages \cup CommercialStages
    BY DEF CommercialStages
  <2>3. /\ stage'[e] = "PENDING_QUOTE" /\ mode'[e] = "STANDARD" /\ RowsFit'
        /\ \A d \in Entities \ {e} : RowSame(d)
    BY <1>3, <2>1, <2>2, SetStageFits, SetStageKeepsRows DEF IInv
  <2>4. AcceptedIsTold(e)' /\ ~OnOffer(e)'
    BY <2>3 DEF AcceptedIsTold, OnOffer, QuotedStages, RevisableStages
  <2> HIDE DEF IInv
  <2> QED
    BY <1>1, <1>2, <1>3, <2>3, <2>4, StatusKeeps
<1>5. CASE ~RequiresRevision(e, job[w].read)
  <2>1. PICK j : j = Idle
    OBVIOUS
  <2>2. JobFits(j) /\ job' = [job EXCEPT ![w] = j]
    BY <1>3, <2>1, IdleFits DEF Done
  <2>3. UNCHANGED <<rowVars, lines, snap, told>>
    BY <1>2, <1>3, <1>5 DEF Requote, On
  <2>4. NoPart(w)
    BY <1>1 DEF NoPart
  <2> HIDE DEF IInv
  <2> QED
    BY <1>3, <2>2, <2>3, <2>4, NoRowKeeps
<1> QED
  BY <1>4, <1>5

\* The rows a decision writes are new, or end.
LEMMA DecideKeeps ==
    ASSUME IInv, NEW w \in Actors, Decide(w)
    PROVE  IInv'
<1>1. job[w] \in Jobs /\ NoPart(w)
  BY DEF IInv, JobsFit, JobFits, Decide, At, NoPart
<1>2. PICK fresh : /\ fresh \subseteq Requests
                   /\ stage' = [e \in Entities |-> IF e \in fresh THEN "INTERNAL"
                                       ELSE IF e \in Ends(w) THEN "CANCELLED" ELSE stage[e]]
  <2> DEFINE i == On(w)
             needed == job[w].arg = "FIX_IN_ORDER" /\ job[w].todo = {}
             fresh == IF needed THEN {CHOOSE r \in FreshRepairs(i) : TRUE} ELSE {}
  <2>1. needed => FreshRepairs(i) # {}
    BY DEF Decide
  <2>2. FreshRepairs(i) \subseteq Requests
    BY PricingConstants, RequestConstants DEF FreshRepairs
  <2>3. fresh \subseteq Requests
    BY <2>1, <2>2
  <2>4. stage' = [e \in Entities |-> IF e \in fresh THEN "INTERNAL"
                                     ELSE IF e \in Ends(w) THEN "CANCELLED" ELSE stage[e]]
    BY DEF Decide
  <2> HIDE DEF fresh
  <2> QED
    BY <2>3, <2>4
<1>3. PICK X, j : X = fresh \cup Ends(w) /\ j = Idle
  OBVIOUS
<1>4. X \subseteq Requests
  BY <1>1, <1>2, <1>3 DEF Ends, Jobs
<1>5. JobFits(j) /\ job' = [job EXCEPT ![w] = j]
  BY <1>3, IdleFits DEF Decide, Done
<1>6. UNCHANGED <<mode, billing, lines, snap, told>> /\ disturbed \subseteq disturbed'
  BY DEF Decide, Late
<1>7. /\ \A e \in Entities \ X : stage'[e] = stage[e]
      /\ \A e \in Entities \cap X : stage'[e] \in {"INTERNAL", "CANCELLED"}
  BY <1>2, <1>3
<1>8. RowsFit' /\ \A e \in Entities \ X : RowSame(e)
  <2>1. \A e \in Entities : stage[e] \in OrderStages \cup CommercialStages
    BY DEF IInv, RowsFit
  <2>2. stage' \in [Entities -> OrderStages \cup CommercialStages]
    BY <1>2, <2>1 DEF CommercialStages
  <2> QED
    BY <1>6, <1>7, <2>2 DEF IInv, RowsFit, RowSame
<1>9. ASSUME NEW e \in Entities \cap X, e \notin disturbed'
      PROVE  PriceHolds(e)'
  <2>1. /\ RebuiltBut(w, e) /\ FreeIsEmpty(e) /\ ToldIsRebuilt(e)
    BY <1>6, <1>9, Before
  <2>2. OthersRebuild(w, e)' <=> OthersRebuild(w, e)
    BY <1>5, OneJob, OthersGoOn DEF IInv
  <2>3. RebuiltBut(w, e)' /\ FreeIsEmpty(e)' /\ ToldIsRebuilt(e)'
    BY <1>1, <1>6, <2>1, <2>2, NoPartIsNone DEF RebuiltBut, FreeIsEmpty, ToldIsRebuilt
  <2>4. AcceptedIsTold(e)' /\ ToldBut(w, e)'
    <3>1. e \notin Orders /\ stage'[e] \notin RevisableStages
      BY <1>4, <1>7, PricingConstants DEF RevisableStages
    <3> QED
      BY <3>1 DEF AcceptedIsTold, ToldBut, OnOffer, QuotedStages
  <2> QED
    BY <2>3, <2>4, After
<1>10. \A e \in Entities : ~Rebuilds(job[w], e) /\ ~Requotes(job[w], e)
  BY <1>1, NoPartIsNone
<1> HIDE DEF IInv
<1> QED
  BY <1>5, <1>6, <1>8, <1>9, <1>10, StepKeeps

LEMMA OrderKeeps ==
    ASSUME IInv, NEW w \in Actors, CancelOrder(w) \/ Prepare(w)
    PROVE  IInv'
<1>1. job[w].step = "write order" /\ job[w].on \in Orders
  BY DEF IInv, JobsFit, JobFits, Suits, OrderSteps, CancelOrder, Prepare, At
<1>2. PICK e \in Entities : job[w].on = e /\ e \in Orders
  BY <1>1 DEF Entities
<1>3. PICK s \in {"CANCELLED", "IN_PREPARATION"} :
        /\ SetStage(e, s, mode[e])
        /\ s = "IN_PREPARATION" /\ e \notin disturbed' => e \notin disturbed /\ stage[e] = "CONFIRMED"
  BY <1>2 DEF CancelOrder, Prepare, On, Late, MayPrepare
<1>4. Done(w) /\ UNCHANGED <<lines, snap, told>> /\ disturbed \subseteq disturbed'
  BY DEF CancelOrder, Prepare, Late
<1>5. mode[e] \in {"STANDARD", "NO_COST"} /\ s \in OrderStages \cup CommercialStages
  BY DEF IInv, RowsFit, OrderStages
<1>6. /\ stage'[e] = s /\ mode'[e] = mode[e] /\ RowsFit'
      /\ \A d \in Entities \ {e} : RowSame(d)
  BY <1>3, <1>4, <1>5, SetStageFits, SetStageKeepsRows DEF IInv
<1>7. ASSUME e \notin disturbed'
      PROVE  AcceptedIsTold(e)' /\ (OnOffer(e)' => told[e] = lines[e])
  <2>1. CASE s = "CANCELLED"
    BY <1>6, <2>1 DEF AcceptedIsTold, OnOffer, QuotedStages, RevisableStages
  <2>2. CASE s = "IN_PREPARATION"
    <3>1. AcceptedIsTold(e) /\ stage[e] = "CONFIRMED"
      BY <1>3, <1>7, <2>2, Before
    <3> QED
      BY <1>2, <1>4, <1>6, <3>1 DEF AcceptedIsTold, OnOffer
  <2> QED
    BY <2>1, <2>2
<1>8. ASSUME e \notin disturbed'
      PROVE  /\ mode'[e] = "NO_COST" => mode[e] = "NO_COST"
             /\ AcceptedIsTold(e)'
             /\ OnOffer(e)' => told[e] = lines[e] \/ (OnOffer(e) /\ NoPart(w))
  <2>1. AcceptedIsTold(e)' /\ (OnOffer(e)' => told[e] = lines[e])
    BY <1>7, <1>8
  <2>2. mode'[e] = mode[e]
    BY <1>6
  <2> QED
    BY <2>1, <2>2
<1>9. job[w].step \notin {"load", "store"}
  BY <1>1
<1> HIDE DEF IInv
<1> QED
  BY <1>2, <1>4, <1>6, <1>8, <1>9, StatusKeeps

------------------------------------------------------------------------------
(* The theorems.                                                           *)

LEMMA InitHolds ==
    ASSUME Init
    PROVE  IInv
<1>1. RowsFit
  BY DEF Init, PriceInit, RowsFit, Bills
<1>2. JobsFit
  BY IdleFits DEF Init, PriceInit, JobsFit, JobFits
<1>3. ASSUME NEW e \in Entities
      PROVE  PriceHolds(e)
  BY <1>3 DEF Init, PriceInit, PriceHolds, Rebuilt, FreeIsEmpty, ToldIsRebuilt, AcceptedIsTold,
              OfferIsTold
<1> QED
  BY <1>1, <1>2, <1>3 DEF IInv

LEMMA PriceResumeKeeps ==
    ASSUME IInv, NEW w \in Actors, PriceResume(w)
    PROVE  IInv'
<1>1. ASSUME NEW r \in Requests, ApproveBundled(w, r)
      PROVE  IInv'
  BY <1>1, ApproveBundledKeeps
<1> HIDE DEF IInv
<1> QED
  BY <1>1, InsertLineKeeps, ShowLinesKeeps, LoadLinesKeeps, StoreBreakdownKeeps, ReadStatusKeeps, RevertKeeps,
     FlipQuotedKeeps, SendQuoteKeeps, ConfirmKeeps, ListBundledKeeps, CommitNoCostKeeps,
     WriteStageKeeps, CommitConcessionKeeps DEF PriceResume

LEMMA NextKeeps ==
    ASSUME IInv, [Next]_vars
    PROVE  IInv'
<1>1. CASE UNCHANGED vars
  <2>1. UNCHANGED <<rowVars, lines, snap, told, job, disturbed>>
    BY <1>1 DEF vars, priceVars
  <2>2. RowsFit' /\ JobsFit'
    BY <2>1 DEF rowVars, IInv, RowsFit, JobsFit, JobFits
  <2>3. ASSUME NEW e \in Entities, e \notin disturbed'
        PROVE  PriceHolds(e)'
    <3>1. PriceHolds(e)
      BY <2>1, <2>3 DEF IInv
    <3> QED
      BY <2>1, <3>1 DEF rowVars, PriceHolds, Rebuilt, Rebuilds, FreeIsEmpty, ToldIsRebuilt,
                        AcceptedIsTold, OfferIsTold, OnOffer, QuotedStages, Requotes
  <2> QED
    BY <2>2, <2>3 DEF IInv
<1>2. ASSUME NEW w \in Actors, PriceBegin(w) \/ PriceResume(w) \/ Crash(w)
      PROVE  IInv'
  BY <1>2, PriceBeginKeeps, PriceResumeKeeps, CrashKeeps
<1>3. ASSUME NEW w \in Actors, NEW r \in Requests,
             \/ \E bill \in Bills : BeginCreate(w, r, bill)
             \/ \E to \in WorkStages : BeginWork(w, r, to)
             \/ BeginCancel(w, r) \/ BeginOverride(w, r)
             \/ \E what \in Bills \cup {"items"} : BeginUpdate(w, r, what)
      PROVE  IInv'
  BY <1>3, RequestBeginKeeps
<1>4. ASSUME NEW w \in Actors, NEW i \in Items, NEW d \in {"FIX_IN_ORDER", "USE_AS_IS"},
             BeginDecide(w, i, d)
      PROVE  IInv'
  BY <1>4, BeginDecideKeeps
<1>5. ASSUME NEW w \in Actors, NEW o \in Orders, BeginCancelOrder(w, o) \/ BeginPrepare(w, o)
      PROVE  IInv'
  BY <1>5, OrderBeginKeeps
<1>6. ASSUME NEW w \in Actors,
             \/ InsertRequest(w) \/ WriteWork(w) \/ WriteCancel(w) \/ WriteOverride(w)
             \/ Rebill(w) \/ Requote(w) \/ Decide(w) \/ CancelOrder(w) \/ Prepare(w)
      PROVE  IInv'
  BY <1>6, InsertRequestKeeps, WorkKeeps, WriteCancelKeeps, RebillKeeps, RequoteKeeps,
     DecideKeeps, OrderKeeps
<1> HIDE DEF IInv
<1> QED
  BY <1>1, <1>2, <1>3, <1>4, <1>5, <1>6 DEF Next, Bills

\* What is kept of each row, and of each handler on its way, holds in every
\* reachable state.
THEOREM PricesHold == Spec => []IInv
<1>1. Init => IInv
  BY InitHolds
<1>2. IInv /\ [Next]_vars => IInv'
  BY NextKeeps
<1> QED
  BY <1>1, <1>2, PTL DEF Spec

\* The breakdown of a row that no handler is at work on shows its lines, as
\* long as no write has outlived its check.
THEOREM BreakdownIsRebuilt == Spec => []BreakdownFollowsLines
<1>1. IInv => BreakdownFollowsLines
  BY DEF IInv, BreakdownFollowsLines, Undisturbed, Quiet, On, PriceHolds, Rebuilt, Rebuilds
<1> QED
  BY <1>1, PricesHold, PTL

\* What a client is asked to accept, has accepted or is billed for is what
\* the quote shows, as long as no write has outlived its check.
THEOREM QuotesStayCurrent == Spec => []QuoteIsCurrent
<1>1. IInv => QuoteIsCurrent
  BY DEF IInv, QuoteIsCurrent, Undisturbed, Quiet, On, PriceHolds, OfferIsTold, Requotes
<1> QED
  BY <1>1, PricesHold, PTL
------------------------------------------------------------------------------
(* The repairs of an item.                                                 *)

Serves(j) ==
    /\ j.step = "write work" => j.arg \in WorkStages
    /\ j.step = "write override" => j.on \in Repairs
    /\ j.step = "decide" => j.on \in Items /\ j.arg \in {"FIX_IN_ORDER", "USE_AS_IS"}
    /\ j.step = "revert" /\ j.on \in Orders => j.read = "QUOTED"
JobsServe == \A w \in Actors : Serves(job[w])

WorkFits ==
    /\ work \in [Requests -> WorkStages \cup {"NONE", "SUBMITTED"}]
    /\ decision \in [Items -> {"FIX_IN_ORDER", "USE_AS_IS"}]
    /\ override \subseteq Repairs /\ overruled \subseteq Items

\* A repair is billed to nobody unless staff have stepped in.
RepairsAreInternal ==
    \A r \in Repairs : ItemOf[r] \notin overruled => billing[r] = "INTERNAL_ONLY"

OneOpen(i) ==
    i \notin overruled \cup disturbed /\ disturbed \cap LinkedTo(i) = {}
        => \A q, r \in LinkedTo(i) : Live(q) /\ Live(r) => q = r

\* An item that is to be fixed has a repair that was not called off, until its
\* order is.
HasRepair(i) == \E r \in LinkedTo(i) : work[r] # "CANCELLED"
FixHasRepair(o) ==
    disturbed = {} /\ stage[o] # "CANCELLED" =>
        \A i \in ItemsOf(o) \ overruled : decision[i] = "FIX_IN_ORDER" => HasRepair(i)

RInv ==
    /\ JobsServe /\ WorkFits /\ RepairsAreInternal
    /\ \A i \in Items : OneOpen(i)
    /\ \A o \in Orders : FixHasRepair(o)

\* No order comes back from its cancellation unless a late write takes it back,
\* and only progressOrderStatus begins its preparation.
CancelledStays == \A o \in Orders :
    disturbed' = {} /\ stage[o] = "CANCELLED" => stage'[o] = "CANCELLED"
NoneBegun == \A o \in Orders : ~Begun(o)

LEMMA IdleServes == Serves(Idle)
BY DEF Serves, Idle

LEMMA OneJobServes ==
    ASSUME JobsFit, JobsServe, NEW w \in Actors, NEW j, Serves(j), job' = [job EXCEPT ![w] = j]
    PROVE  JobsServe'
<1>1. ASSUME NEW v \in Actors
      PROVE  Serves(job[v])'
  <2>1. job'[v] = IF v = w THEN j ELSE job[v]
    BY DEF JobsFit
  <2>2. Serves(job'[v])
    BY <2>1 DEF JobsServe
  <2> QED
    BY <2>2 DEF Serves
<1> QED
  BY <1>1 DEF JobsServe

\* The job of w goes to a step that asks nothing.
Free(step) == step \notin {"write work", "write override", "decide", "revert"}

LEMMA FreeServes ==
    ASSUME JobsFit, JobsServe, NEW w \in Actors, NEW j, Free(j.step), job' = [job EXCEPT ![w] = j]
    PROVE  JobsServe'
<1>1. Serves(j)
  BY DEF Serves, Free
<1> QED
  BY <1>1, OneJobServes

LEMMA DoneServes ==
    ASSUME JobsFit, JobsServe, NEW w \in Actors, Done(w)
    PROVE  JobsServe'
BY IdleServes, OneJobServes DEF Done

LEMMA GoToServes ==
    ASSUME JobsFit, JobsServe, NEW w \in Actors, NEW step, Free(step), GoTo(w, step)
    PROVE  JobsServe'
<1> DEFINE j == [job[w] EXCEPT !.step = step]
<1>1. job' = [job EXCEPT ![w] = j] /\ j.step = step
  BY DEF GoTo, JobsFit, JobFits, Jobs
<1> HIDE DEF j
<1> QED
  BY <1>1, FreeServes

LEMMA ProceedServes ==
    ASSUME JobsFit, JobsServe, NEW w \in Actors, NEW i \in Jobs, NEW step, Proceed(w, i, step),
           step = "revert" /\ i.on \in Orders => i.read = "QUOTED",
           Free(step) \/ step = "revert"
    PROVE  JobsServe'
<1>1. CASE step = "end"
  <2>1. Done(w)
    BY <1>1 DEF Proceed, Done
  <2> QED
    BY <2>1, DoneServes
<1>2. CASE step # "end"
  <2> DEFINE j == [i EXCEPT !.step = step]
  <2>1. job' = [job EXCEPT ![w] = j] /\ j.step = step /\ j.on = i.on /\ j.read = i.read
    BY <1>2 DEF Proceed, Jobs
  <2> HIDE DEF j
  <2>2. Serves(j)
    BY <2>1 DEF Serves, Free
  <2> QED
    BY <2>1, <2>2, OneJobServes
<1> QED
  BY <1>1, <1>2

LEMMA BeginServes ==
    ASSUME JobsFit, JobsServe, NEW w \in Actors, NEW op, NEW e, NEW step, NEW arg,
           Begin(w, op, e, step, arg),
           step # "decide" /\ step # "revert",
           step = "write work" => arg \in WorkStages, step = "write override" => e \in Repairs
    PROVE  JobsServe' /\ UNCHANGED <<stage, mode, billing, disturbed>>
<1> DEFINE j == BeginJob(op, e, step, arg)
<1>1. /\ job' = [job EXCEPT ![w] = j] /\ j.step = step /\ j.on = e /\ j.arg = arg
  BY DEF Begin, BeginJob, Idle
<1> HIDE DEF j
<1>2. Serves(j)
  BY <1>1 DEF Serves
<1>3. JobsServe'
  BY <1>1, <1>2, OneJobServes
<1> QED
  BY <1>3 DEF Begin, rowVars

\* The stage of one row is written.
LEMMA OneStage ==
    ASSUME RowsFit, NEW e \in Entities, NEW s, NEW m, SetStage(e, s, m),
           e \in Orders /\ disturbed' = {} => stage[e] # "CANCELLED" \/ s = "CANCELLED"
    PROVE  /\ billing' = billing /\ CancelledStays
           /\ s # "IN_PREPARATION" \/ e \notin Orders => NoneBegun
BY DEF SetStage, RowsFit, CancelledStays, NoneBegun, Begun, Entities

\* What the price handlers leave of the work.
LEMMA PriceLeaves ==
    ASSUME IInv, JobsServe, NEW w \in Actors, PriceBegin(w) \/ PriceResume(w) \/ Crash(w)
    PROVE  /\ JobsServe' /\ billing' = billing /\ disturbed \subseteq disturbed'
           /\ CancelledStays /\ NoneBegun
<1> DEFINE Goal == /\ JobsServe' /\ billing' = billing /\ disturbed \subseteq disturbed'
                   /\ CancelledStays /\ NoneBegun
<1>1. JobsFit /\ RowsFit /\ job[w] \in Jobs /\ Suits(job[w].op, job[w].on, job[w].step, job[w].arg)
  BY DEF IInv, JobsFit, JobFits
<1>2. ASSUME UNCHANGED <<stage, billing>>, disturbed \subseteq disturbed', JobsServe'
      PROVE  Goal
  BY <1>2 DEF CancelledStays, NoneBegun, Begun
<1>3. CASE PriceBegin(w)
  <2>1. PICK op, e, step, arg :
            Begin(w, op, e, step, arg) /\ step \in {"insert", "show", "flip", "confirm", "void", "write"}
    BY <1>3 DEF PriceBegin, BeginLineChange, BeginDisplayChange, BeginQuote, BeginAccept,
                BeginNoCost, BeginMove, BeginApprove, BeginDecline, BeginConcession
  <2>2. JobsServe' /\ UNCHANGED <<stage, mode, billing, disturbed>>
    BY <1>1, <2>1, BeginServes
  <2> QED
    BY <1>2, <2>2
<1>4. CASE Crash(w)
  <2>1. UNCHANGED <<stage, billing>> /\ disturbed \subseteq disturbed' /\ Done(w)
    BY <1>4 DEF Crash, Late, rowVars
  <2> QED
    BY <1>1, <1>2, <2>1, DoneServes
<1>5. CASE InsertLine(w) \/ ShowLines(w)
  <2>1. UNCHANGED <<stage, billing>> /\ disturbed \subseteq disturbed' /\ GoTo(w, "load")
    BY <1>5 DEF InsertLine, ShowLines, Late, rowVars
  <2> QED
    BY <1>1, <1>2, <2>1, GoToServes DEF Free
<1>6. CASE LoadLines(w)
  <2>1. UNCHANGED <<stage, billing>> /\ disturbed \subseteq disturbed' /\ job[w].on \in Entities
    BY <1>1, <1>6 DEF LoadLines, rowVars, At, Suits, EntitySteps
  <2> DEFINE i == [job[w] EXCEPT !.read = stage[On(w)], !.seen = lines[On(w)]]
  <2>2. i \in Jobs /\ i.on = job[w].on
    BY <1>1, <2>1 DEF RowsFit, Jobs, On
  <2>3. PICK step : Proceed(w, i, step) /\ (step = "store" \/ step = AfterRebuild(On(w), stage[On(w)]))
    BY <1>6 DEF LoadLines
  <2>4. /\ Free(step) \/ step = "revert"
        /\ step = "revert" => job[w].on \notin Orders
    BY <2>3 DEF AfterRebuild, Free, On
  <2> HIDE DEF i
  <2>5. JobsServe'
    BY <1>1, <2>2, <2>3, <2>4, ProceedServes
  <2> QED
    BY <1>2, <2>1, <2>5
<1>7. CASE StoreBreakdown(w)
  <2>1. UNCHANGED <<stage, billing>> /\ disturbed \subseteq disturbed'
    BY <1>7 DEF StoreBreakdown, rowVars, Late
  <2>2. PICK step : Proceed(w, job[w], step) /\ step = AfterRebuild(On(w), job[w].read)
    BY <1>7 DEF StoreBreakdown
  <2>3. /\ Free(step) \/ step = "revert"
        /\ step = "revert" => job[w].on \notin Orders
    BY <2>2 DEF AfterRebuild, Free, On
  <2>4. JobsServe'
    BY <1>1, <2>2, <2>3, ProceedServes
  <2> QED
    BY <1>2, <2>1, <2>4
<1>8. CASE ReadStatus(w)
  <2>1. UNCHANGED <<stage, billing>> /\ disturbed \subseteq disturbed' /\ job[w].on \in Orders
    BY <1>1, <1>8 DEF ReadStatus, rowVars, At, Suits, OrderSteps
  <2> DEFINE i == [job[w] EXCEPT !.read = stage[On(w)]]
  <2>2. i \in Jobs /\ i.read = stage[job[w].on]
    BY <1>1, <2>1 DEF RowsFit, Jobs, On, Entities
  <2>3. PICK step : /\ Proceed(w, i, step) /\ step \in {"revert", "end"}
                    /\ step = "revert" => stage[job[w].on] = "QUOTED"
    BY <1>8 DEF ReadStatus, On
  <2> HIDE DEF i
  <2>4. JobsServe'
    BY <1>1, <2>2, <2>3, ProceedServes DEF Free
  <2> QED
    BY <1>2, <2>1, <2>4
<1>9. CASE Revert(w)
  <2>1. PICK e \in Entities : e = job[w].on
    BY <1>1, <1>9 DEF Revert, At, Suits, EntitySteps
  <2>2. PICK m : SetStage(e, RevertedStage(e), m)
    BY <1>9, <2>1 DEF Revert, On
  <2>3. e \in Orders /\ disturbed' = {} => stage[e] = "QUOTED"
    BY <1>9, <2>1 DEF Revert, On, Late, At, JobsServe, Serves
  <2>4. billing' = billing /\ CancelledStays /\ NoneBegun
    <3>1. RevertedStage(e) # "IN_PREPARATION"
      BY DEF RevertedStage
    <3>2. e \in Orders /\ disturbed' = {} => stage[e] # "CANCELLED"
      BY <2>3
    <3> QED
      BY <1>1, <2>2, <3>1, <3>2, OneStage
  <2>5. disturbed \subseteq disturbed' /\ Done(w)
    BY <1>9 DEF Revert, Late
  <2> QED
    BY <1>1, <2>4, <2>5, DoneServes
<1>10. CASE FlipQuoted(w) \/ Confirm(w)
  <2>1. PICK e \in Orders : e = job[w].on
    BY <1>1, <1>10 DEF FlipQuoted, Confirm, At, Suits, OrderSteps
  <2>2. PICK s \in {"QUOTED", "CONFIRMED"} : SetStage(e, s, mode[e])
    BY <1>10, <2>1 DEF FlipQuoted, Confirm, On
  <2>3. disturbed' = {} => stage[e] # "CANCELLED"
    BY <1>10, <2>1 DEF FlipQuoted, Confirm, On, Late
  <2>4. billing' = billing /\ CancelledStays /\ NoneBegun
    <3>1. e \in Entities /\ s # "IN_PREPARATION"
      BY DEF Entities
    <3> QED
      BY <1>1, <2>2, <2>3, <3>1, OneStage
  <2>5. disturbed \subseteq disturbed' /\ (GoTo(w, "send") \/ GoTo(w, "list"))
    BY <1>10 DEF FlipQuoted, Confirm, Late
  <2>6. JobsServe'
    BY <1>1, <2>5, GoToServes DEF Free
  <2> QED
    BY <2>4, <2>5, <2>6
<1>11. CASE SendQuote(w)
  <2>1. UNCHANGED <<stage, billing>> /\ disturbed \subseteq disturbed' /\ Done(w)
    BY <1>11 DEF SendQuote, rowVars
  <2> QED
    BY <1>1, <1>2, <2>1, DoneServes
<1>12. CASE ListBundled(w)
  <2>1. UNCHANGED <<stage, billing>> /\ disturbed \subseteq disturbed'
    BY <1>12 DEF ListBundled, rowVars
  <2> DEFINE i == [job[w] EXCEPT !.todo = BundledWith(On(w))]
  <2>2. i \in Jobs
    <3>1. BundledWith(On(w)) \subseteq Requests
      BY PricingConstants DEF BundledWith
    <3> QED
      BY <1>1, <3>1 DEF Jobs
  <2>3. PICK step \in {"end", "bundled"} : Proceed(w, i, step)
    BY <1>12 DEF ListBundled
  <2> HIDE DEF i
  <2>4. JobsServe'
    BY <1>1, <2>2, <2>3, ProceedServes DEF Free
  <2> QED
    BY <1>2, <2>1, <2>4
<1>13. ASSUME NEW r \in Requests, ApproveBundled(w, r)
       PROVE  Goal
  <2>1. SetStage(r, "QUOTE_APPROVED", mode[r]) /\ disturbed \subseteq disturbed'
    BY <1>13 DEF ApproveBundled, Late
  <2>2. billing' = billing /\ CancelledStays /\ NoneBegun
    <3>1. r \in Entities /\ r \notin Orders
      BY PricingConstants DEF Entities
    <3> QED
      BY <1>1, <2>1, <3>1, OneStage
  <2> DEFINE i == [job[w] EXCEPT !.todo = job[w].todo \ {r}]
  <2>3. i \in Jobs
    BY <1>1 DEF Jobs
  <2>4. PICK step \in {"end", "bundled"} : Proceed(w, i, step)
    BY <1>13 DEF ApproveBundled
  <2> HIDE DEF i
  <2>5. JobsServe'
    BY <1>1, <2>3, <2>4, ProceedServes DEF Free
  <2> QED
    BY <2>1, <2>2, <2>5
<1>14. CASE CommitNoCost(w)
  <2>1. PICK e \in Orders : e = job[w].on
    BY <1>1, <1>14 DEF CommitNoCost, At, Suits
  <2>2. SetStage(e, "CONFIRMED", "NO_COST") /\ (disturbed' = {} => stage[e] # "CANCELLED")
    BY <1>14, <2>1 DEF CommitNoCost, On, Late, MayBeFree
  <2>3. billing' = billing /\ CancelledStays /\ NoneBegun
    <3>1. e \in Entities
      BY DEF Entities
    <3> QED
      BY <1>1, <2>2, <3>1, OneStage
  <2>4. disturbed \subseteq disturbed' /\ Done(w)
    BY <1>14 DEF CommitNoCost, Late
  <2> QED
    BY <1>1, <2>3, <2>4, DoneServes
<1>15. CASE WriteStage(w) \/ CommitConcession(w)
  <2>1. PICK r \in Requests : r = job[w].on
    BY <1>1, <1>15 DEF WriteStage, CommitConcession, At, Suits, RequestSteps
  <2>2. PICK s, m : SetStage(r, s, m)
    BY <1>15, <2>1 DEF WriteStage, CommitConcession, On
  <2>3. billing' = billing /\ CancelledStays /\ NoneBegun
    <3>1. r \in Entities /\ r \notin Orders
      BY PricingConstants DEF Entities
    <3> QED
      BY <1>1, <2>2, <3>1, OneStage
  <2>4. disturbed \subseteq disturbed' /\ Done(w)
    BY <1>15 DEF WriteStage, CommitConcession, Late
  <2> QED
    BY <1>1, <2>3, <2>4, DoneServes
<1> QED
  BY <1>3, <1>4, <1>5, <1>6, <1>7, <1>8, <1>9, <1>10, <1>11, <1>12, <1>13, <1>14, <1>15
  DEF PriceResume

\* A step that leaves the work and the decisions alone.
LEMMA RestKeeps ==
    ASSUME RInv, UNCHANGED <<work, decision>>, override' \subseteq Repairs, overruled' \subseteq Items,
           overruled \subseteq overruled', disturbed \subseteq disturbed',
           JobsServe', RepairsAreInternal', CancelledStays
    PROVE  RInv'
<1>1. WorkFits'
  BY DEF RInv, WorkFits
<1>2. ASSUME NEW i \in Items
      PROVE  OneOpen(i)'
  <2>1. LinkedTo(i)' = LinkedTo(i) /\ \A r : Live(r)' <=> Live(r)
    BY DEF LinkedTo, Live
  <2>2. OneOpen(i)
    BY DEF RInv
  <2> QED
    BY <2>1, <2>2 DEF OneOpen
<1>3. ASSUME NEW o \in Orders
      PROVE  FixHasRepair(o)'
  <2>1. \A i : HasRepair(i)' <=> HasRepair(i)
    BY DEF HasRepair, LinkedTo
  <2>2. FixHasRepair(o)
    BY DEF RInv
  <2>3. disturbed' = {} /\ stage'[o] # "CANCELLED" => disturbed = {} /\ stage[o] # "CANCELLED"
    BY DEF CancelledStays
  <2> QED
    BY <2>1, <2>2, <2>3 DEF FixHasRepair
<1> QED
  BY <1>1, <1>2, <1>3 DEF RInv

\* ... and the requests altogether.
LEMMA PriceRestKeeps ==
    ASSUME RInv, UNCHANGED <<requestVars, billing>>, disturbed \subseteq disturbed', JobsServe',
           CancelledStays
    PROVE  RInv'
<1>1. /\ UNCHANGED <<work, decision>> /\ override' \subseteq Repairs /\ overruled' \subseteq Items
      /\ overruled \subseteq overruled' /\ RepairsAreInternal'
  BY DEF RInv, WorkFits, RepairsAreInternal, requestVars
<1> HIDE DEF RInv
<1> QED
  BY <1>1, RestKeeps

LEMMA PriceKeepsRepairs ==
    ASSUME IInv, RInv, NEW w \in Actors, PriceBegin(w) \/ PriceResume(w) \/ Crash(w),
           UNCHANGED requestVars
    PROVE  RInv'
<1>1. JobsServe' /\ billing' = billing /\ disturbed \subseteq disturbed' /\ CancelledStays
  BY PriceLeaves DEF RInv
<1> HIDE DEF IInv, RInv
<1> QED
  BY <1>1, PriceRestKeeps

\* A handler of a request, an item or an order begins.
LEMMA RequestBegins ==
    ASSUME IInv, RInv, NEW w \in Actors,
           \/ \E r \in Requests :
                 \/ \E bill \in Bills : BeginCreate(w, r, bill)
                 \/ \E to \in WorkStages : BeginWork(w, r, to)
                 \/ BeginCancel(w, r) \/ BeginOverride(w, r)
                 \/ \E what \in Bills \cup {"items"} : BeginUpdate(w, r, what)
           \/ \E i \in Items, d \in {"FIX_IN_ORDER", "USE_AS_IS"} : BeginDecide(w, i, d)
           \/ \E o \in Orders : BeginCancelOrder(w, o) \/ BeginPrepare(w, o)
    PROVE  RInv' /\ NoneBegun
<1>1. JobsFit /\ JobsServe
  BY DEF IInv, RInv
<1>2. JobsServe' /\ UNCHANGED <<stage, billing, disturbed, requestVars>>
  <2>1. ASSUME NEW i \in Items, NEW d \in {"FIX_IN_ORDER", "USE_AS_IS"}, BeginDecide(w, i, d)
        PROVE  JobsServe' /\ UNCHANGED <<stage, billing, disturbed, requestVars>>
    <3> DEFINE j == [Idle EXCEPT !.op = "decide", !.on = i, !.step = "decide", !.arg = d,
                                 !.todo = ActiveRepairs(i)]
    <3>1. job' = [job EXCEPT ![w] = j] /\ j.step = "decide" /\ j.on = i /\ j.arg = d
      BY <2>1 DEF BeginDecide, Idle
    <3> HIDE DEF j
    <3>2. Serves(j)
      BY <3>1 DEF Serves
    <3>3. JobsServe'
      BY <1>1, <3>1, <3>2, OneJobServes
    <3> QED
      BY <2>1, <3>3 DEF BeginDecide, rowVars
  <2>2. ASSUME NEW op, NEW e, NEW step, NEW arg, Begin(w, op, e, step, arg), UNCHANGED requestVars,
               step # "decide" /\ step # "revert",
               step = "write work" => arg \in WorkStages, step = "write override" => e \in Repairs
        PROVE  JobsServe' /\ UNCHANGED <<stage, billing, disturbed, requestVars>>
    <3>1. JobsServe' /\ UNCHANGED <<stage, mode, billing, disturbed>>
      BY <1>1, <2>2, BeginServes
    <3> QED
      BY <2>2, <3>1
  <2>3. ASSUME NEW r \in Requests, BeginOverride(w, r)
        PROVE  JobsServe' /\ UNCHANGED <<stage, billing, disturbed, requestVars>>
    <3>1. r \in Repairs
      BY <2>3 DEF BeginOverride, MayOverride, IsRepair
    <3> QED
      BY <2>2, <2>3, <3>1 DEF BeginOverride
  <2>4. ASSUME NEW r \in Requests, NEW to \in WorkStages, BeginWork(w, r, to)
        PROVE  JobsServe' /\ UNCHANGED <<stage, billing, disturbed, requestVars>>
    BY <2>2, <2>4 DEF BeginWork
  <2>5. ASSUME NEW r \in Requests, NEW bill \in Bills, BeginCreate(w, r, bill)
        PROVE  JobsServe' /\ UNCHANGED <<stage, billing, disturbed, requestVars>>
    BY <2>2, <2>5 DEF BeginCreate
  <2>6. ASSUME NEW r \in Requests, NEW what \in Bills \cup {"items"}, BeginUpdate(w, r, what)
        PROVE  JobsServe' /\ UNCHANGED <<stage, billing, disturbed, requestVars>>
    BY <2>2, <2>6 DEF BeginUpdate
  <2>7. ASSUME NEW r \in Requests, BeginCancel(w, r)
        PROVE  JobsServe' /\ UNCHANGED <<stage, billing, disturbed, requestVars>>
    <3>1. PICK op : Begin(w, op, r, "write cancel", "none") /\ UNCHANGED requestVars
      BY <2>7 DEF BeginCancel
    <3> QED
      BY <2>2, <3>1
  <2>8. ASSUME NEW o \in Orders, BeginCancelOrder(w, o) \/ BeginPrepare(w, o)
        PROVE  JobsServe' /\ UNCHANGED <<stage, billing, disturbed, requestVars>>
    <3>1. PICK op : Begin(w, op, o, "write order", "none") /\ UNCHANGED requestVars
      BY <2>8 DEF BeginCancelOrder, BeginPrepare
    <3> QED
      BY <2>2, <3>1
  <2> QED
    BY <2>1, <2>3, <2>4, <2>5, <2>6, <2>7, <2>8
<1>3. CancelledStays /\ NoneBegun
  BY <1>2 DEF CancelledStays, NoneBegun, Begun
<1> HIDE DEF RInv, IInv
<1> QED
  BY <1>2, <1>3, PriceRestKeeps

\* The writes that leave the work alone.
LEMMA OverrideKeepsRepairs ==
    ASSUME IInv, RInv, NEW w \in Actors, WriteOverride(w)
    PROVE  RInv' /\ NoneBegun
<1>1. job[w].on \in Repairs
  BY DEF WriteOverride, At, RInv, JobsServe, Serves
<1>2. /\ UNCHANGED <<stage, billing, work, decision, overruled>> /\ Done(w)
      /\ disturbed \subseteq disturbed' /\ override' = override \cup {job[w].on}
  BY DEF WriteOverride, rowVars, Late, On
<1>3. JobsServe'
  BY <1>2, DoneServes DEF IInv, RInv
<1>4. /\ override' \subseteq Repairs /\ overruled' \subseteq Items /\ overruled \subseteq overruled'
      /\ RepairsAreInternal'
  BY <1>1, <1>2 DEF RInv, WorkFits, RepairsAreInternal
<1>5. CancelledStays /\ NoneBegun
  BY <1>2 DEF CancelledStays, NoneBegun, Begun
<1> HIDE DEF RInv, IInv
<1> QED
  BY <1>2, <1>3, <1>4, <1>5, RestKeeps

LEMMA OverruleFits ==
    ASSUME WorkFits, NEW r, NEW now \in BOOLEAN, Overrule(r, now)
    PROVE  /\ overruled' \subseteq Items /\ overruled \subseteq overruled'
           /\ now /\ r \in Repairs => ItemOf[r] \in overruled'
BY RequestConstants DEF WorkFits, Overrule

LEMMA UpdateKeepsRepairs ==
    ASSUME IInv, RInv, NEW w \in Actors, Rebill(w) \/ Requote(w)
    PROVE  RInv' /\ NoneBegun
<1>1. PICK r \in Requests : r = job[w].on
  BY DEF IInv, JobsFit, JobFits, Suits, RequestSteps, Rebill, Requote, At
<1>2. r \in Entities /\ r \notin Orders
  BY PricingConstants DEF Entities
<1>3. JobsServe' /\ disturbed \subseteq disturbed'
  BY DoneServes DEF IInv, RInv, Rebill, Requote, Late
<1>4. UNCHANGED <<work, decision, override>> /\ override' \subseteq Repairs
  BY DEF Rebill, Requote, requestVars, RInv, WorkFits
<1>5. CancelledStays /\ NoneBegun
  <2>1. \A o \in Orders : stage'[o] = stage[o]
    <3>1. CASE Rebill(w)
      BY <1>1, <1>2, <3>1 DEF Rebill, On, IInv, RowsFit, Entities
    <3>2. CASE Requote(w)
      BY <1>1, <1>2, <3>2 DEF Requote, On, SetStage, rowVars, IInv, RowsFit, Entities
    <3> QED
      BY <3>1, <3>2
  <2> QED
    BY <2>1 DEF CancelledStays, NoneBegun, Begun
<1>6. /\ overruled' \subseteq Items /\ overruled \subseteq overruled' /\ RepairsAreInternal'
  <2>1. CASE Rebill(w)
    <3>1. Overrule(r, TRUE) /\ \A q \in Requests \ {r} : billing'[q] = billing[q]
      BY <1>1, <2>1 DEF Rebill, On, IInv, RowsFit
    <3>2. /\ overruled' \subseteq Items /\ overruled \subseteq overruled'
          /\ r \in Repairs => ItemOf[r] \in overruled'
      BY <3>1, OverruleFits DEF RInv
    <3>3. RepairsAreInternal'
      BY <3>1, <3>2, PricingConstants, RequestConstants DEF RInv, RepairsAreInternal
    <3> QED
      BY <3>2, <3>3
  <2>2. CASE Requote(w)
    <3>1. UNCHANGED <<billing, overruled>>
      BY <2>2 DEF Requote, SetStage, rowVars, requestVars
    <3> QED
      BY <3>1 DEF RInv, WorkFits, RepairsAreInternal
  <2> QED
    BY <2>1, <2>2
<1> HIDE DEF IInv, RInv
<1> QED
  BY <1>3, <1>4, <1>5, <1>6, RestKeeps

LEMMA PrepareKeepsRepairs ==
    ASSUME IInv, RInv, NEW w \in Actors, Prepare(w)
    PROVE  /\ RInv'
           /\ \A o \in Orders : Begun(o) => o = On(w)
<1>1. PICK o \in Orders : o = job[w].on
  BY DEF IInv, JobsFit, JobFits, Suits, OrderSteps, Prepare, At
<1>2. /\ SetStage(o, "IN_PREPARATION", mode[o]) /\ Done(w) /\ UNCHANGED requestVars
      /\ disturbed \subseteq disturbed' /\ (disturbed' = {} => stage[o] = "CONFIRMED")
  BY <1>1 DEF Prepare, On, Late, MayPrepare
<1>3. JobsServe'
  BY <1>2, DoneServes DEF IInv, RInv
<1>4. billing' = billing /\ CancelledStays
  BY <1>2, OneStage DEF IInv, Entities
<1>5. \A x \in Orders : Begun(x) => x = o
  BY <1>2 DEF SetStage, Begun, IInv, RowsFit, Entities
<1>6. RInv'
  <2> HIDE DEF IInv, RInv
  <2> QED
    BY <1>2, <1>3, <1>4, PriceRestKeeps
<1> QED
  BY <1>1, <1>5, <1>6 DEF On

\* A step that leaves linked what is linked, and opens nothing that is linked to i
\* afterwards.
LEMMA NothingOpens ==
    ASSUME NEW i \in Items, OneOpen(i), overruled \subseteq overruled', disturbed \subseteq disturbed',
           \A r \in LinkedTo(i) : r \in LinkedTo(i)',
           \A r \in LinkedTo(i)' : Live(r)' => r \in LinkedTo(i) /\ Live(r)
    PROVE  OneOpen(i)'
BY DEF OneOpen

\* A request is created.  A repair is the only one of its item that is open.
LEMMA InsertKeepsRepairs ==
    ASSUME IInv, RInv, NEW w \in Actors, InsertRequest(w)
    PROVE  RInv' /\ NoneBegun
<1>1. PICK r \in Requests, bill \in Bills : r = job[w].on /\ bill = job[w].arg
  BY DEF IInv, JobsFit, JobFits, Suits, RequestSteps, InsertRequest, At
<1>2. /\ work[r] = "NONE" /\ work' = [work EXCEPT ![r] = "SUBMITTED"]
      /\ billing' = [billing EXCEPT ![r] = bill] /\ stage' = [stage EXCEPT ![r] = FirstStage(bill)]
      /\ Overrule(r, bill = "CLIENT_BILLABLE")
      /\ IF r \in Repairs THEN Late(ItemOf[r], MayCreate(r)) ELSE UNCHANGED disturbed
      /\ Done(w) /\ UNCHANGED <<decision, override>>
  BY <1>1 DEF InsertRequest, On
<1>3. /\ work'[r] = "SUBMITTED" /\ \A q \in Requests \ {r} : work'[q] = work[q]
      /\ billing'[r] = bill /\ \A q \in Requests \ {r} : billing'[q] = billing[q]
      /\ \A o \in Orders : stage'[o] = stage[o]
  BY <1>2, PricingConstants DEF RInv, WorkFits, IInv, RowsFit, Entities
<1>4. disturbed \subseteq disturbed' /\ JobsServe'
  BY <1>2, DoneServes DEF IInv, RInv, Late
<1>5. /\ overruled' \subseteq Items /\ overruled \subseteq overruled'
      /\ bill = "CLIENT_BILLABLE" /\ r \in Repairs => ItemOf[r] \in overruled'
  BY <1>2, OverruleFits DEF RInv
<1>6. WorkFits'
  BY <1>2, <1>5 DEF RInv, WorkFits
<1>7. RepairsAreInternal'
  BY <1>3, <1>5, PricingConstants, RequestConstants DEF RInv, RepairsAreInternal, Bills
<1>8. \A i : LinkedTo(i)' = LinkedTo(i) \cup {q \in Repairs : q = r /\ ItemOf[q] = i}
  <2>1. \A q \in Repairs : work'[q] = IF q = r THEN "SUBMITTED" ELSE work[q]
    BY <1>3, PricingConstants, RequestConstants
  <2> QED
    BY <2>1 DEF LinkedTo
<1>9. \A q \in Repairs : q # r => work'[q] = work[q] /\ (Live(q)' <=> Live(q))
  BY <1>3, PricingConstants, RequestConstants DEF Live
<1>10. ASSUME NEW i \in Items
       PROVE  OneOpen(i)'
  <2>1. OneOpen(i)
    BY DEF RInv
  <2>2. CASE r \in Repairs /\ ItemOf[r] = i
    <3>1. ASSUME i \notin disturbed', NEW q \in LinkedTo(i)', Live(q)'
          PROVE  q = r
      <4>1. MayCreate(r)
        BY <1>2, <2>2, <3>1 DEF Late
      <4>2. q \in LinkedTo(i) /\ q # r => work'[q] = "CANCELLED"
        BY <1>9, <2>2, <4>1 DEF MayCreate, LinkedTo
      <4> QED
        BY <1>8, <3>1, <4>2 DEF Live, EndedWork
    <3> QED
      BY <3>1 DEF OneOpen
  <2>3. CASE ~(r \in Repairs /\ ItemOf[r] = i)
    <3>1. LinkedTo(i)' = LinkedTo(i)
      BY <1>8, <2>3
    <3>2. \A q \in LinkedTo(i) : q \in Repairs /\ q # r
      BY <1>2 DEF LinkedTo
    <3> QED
      BY <1>4, <1>5, <1>9, <2>1, <3>1, <3>2, NothingOpens
  <2> QED
    BY <2>2, <2>3
<1>11. ASSUME NEW o \in Orders
       PROVE  FixHasRepair(o)'
  <2>1. \A i : HasRepair(i) => HasRepair(i)'
    <3>1. \A i : \A q \in LinkedTo(i) : q \in LinkedTo(i)' /\ work'[q] = work[q]
      BY <1>2, <1>8, <1>9 DEF LinkedTo
    <3> QED
      BY <3>1 DEF HasRepair
  <2>2. FixHasRepair(o)
    BY DEF RInv
  <2> QED
    BY <1>2, <1>3, <1>4, <1>5, <2>1, <2>2 DEF FixHasRepair
<1>12. NoneBegun
  BY <1>3 DEF NoneBegun, Begun
<1> QED
  BY <1>4, <1>6, <1>7, <1>10, <1>11, <1>12 DEF RInv

\* Work on a request, or its cancellation by staff, opens nothing; a repair that
\* staff call off is theirs.
LEMMA WorkKeepsRepairs ==
    ASSUME IInv, RInv, NEW w \in Actors, WriteWork(w) \/ WriteCancel(w)
    PROVE  RInv' /\ NoneBegun
<1>1. PICK r \in Requests : r = job[w].on
  BY DEF IInv, JobsFit, JobFits, Suits, RequestSteps, WriteWork, WriteCancel, At
<1>2. PICK to \in WorkStages :
          /\ work' = [work EXCEPT ![r] = to] /\ Overrule(r, to = "CANCELLED")
          /\ r \notin disturbed' /\ to \notin EndedWork => Live(r)
          /\ disturbed \subseteq disturbed' /\ Done(w) /\ UNCHANGED <<billing, decision, override>>
          /\ \A o \in Orders : stage'[o] = stage[o]
  <2>1. CASE WriteWork(w)
    <3>1. job[w].arg \in WorkStages
      BY <2>1 DEF WriteWork, At, RInv, JobsServe, Serves
    <3> QED
      BY <1>1, <2>1, <3>1 DEF WriteWork, On, Late, MayWork, rowVars
  <2>2. CASE WriteCancel(w)
    <3>1. \A o \in Orders : stage'[o] = stage[o]
      BY <1>1, <2>2, PricingConstants DEF WriteCancel, On, SetStage, IInv, RowsFit, Entities
    <3>2. /\ work' = [work EXCEPT ![r] = "CANCELLED"] /\ Overrule(r, TRUE)
          /\ disturbed \subseteq disturbed' /\ Done(w) /\ UNCHANGED <<billing, decision, override>>
      BY <1>1, <2>2 DEF WriteCancel, On, SetStage, Late
    <3> QED
      BY <3>1, <3>2 DEF WorkStages, EndedWork
  <2> QED
    BY <2>1, <2>2
<1>3. work'[r] = to /\ \A q \in Requests \ {r} : work'[q] = work[q]
  BY <1>2 DEF RInv, WorkFits
<1>4. /\ overruled' \subseteq Items /\ overruled \subseteq overruled'
      /\ to = "CANCELLED" /\ r \in Repairs => ItemOf[r] \in overruled'
  BY <1>2, OverruleFits DEF RInv
<1>5. JobsServe' /\ WorkFits' /\ RepairsAreInternal'
  <2>1. JobsServe'
    BY <1>2, DoneServes DEF IInv, RInv
  <2>2. WorkFits'
    BY <1>2, <1>4 DEF RInv, WorkFits
  <2>3. RepairsAreInternal'
    BY <1>2, <1>4 DEF RInv, RepairsAreInternal
  <2> QED
    BY <2>1, <2>2, <2>3
<1>6. \A q \in Repairs : q # r => work'[q] = work[q] /\ (Live(q)' <=> Live(q))
  BY <1>3, PricingConstants, RequestConstants DEF Live
<1>7. \A i : \A q \in LinkedTo(i) : q \in LinkedTo(i)'
  BY <1>3, <1>6 DEF LinkedTo, WorkStages
<1>8. ASSUME NEW i \in Items
      PROVE  OneOpen(i)'
  <2>1. OneOpen(i)
    BY DEF RInv
  <2>2. CASE r \in LinkedTo(i)' /\ r \in disturbed'
    BY <2>2 DEF OneOpen
  <2>3. CASE ~(r \in LinkedTo(i)' /\ r \in disturbed')
    <3>1. ASSUME NEW q \in LinkedTo(i)', Live(q)'
          PROVE  q \in LinkedTo(i) /\ Live(q)
      <4>1. CASE q = r
        <5>1. to \notin EndedWork /\ r \notin disturbed'
          BY <1>3, <2>3, <3>1, <4>1 DEF Live
        <5>2. Live(r)
          BY <1>2, <5>1
        <5> QED
          BY <3>1, <4>1, <5>2 DEF LinkedTo, Live
      <4>2. CASE q # r
        BY <1>6, <3>1, <4>2 DEF LinkedTo
      <4> QED
        BY <4>1, <4>2
    <3> QED
      BY <1>2, <1>4, <1>7, <2>1, <3>1, NothingOpens
  <2> QED
    BY <2>2, <2>3
<1>9. ASSUME NEW o \in Orders
      PROVE  FixHasRepair(o)'
  <2>1. ASSUME NEW i, i \notin overruled', HasRepair(i)
        PROVE  HasRepair(i)'
    <3>1. PICK q \in LinkedTo(i) : work[q] # "CANCELLED"
      BY <2>1 DEF HasRepair
    <3>2. q \in Repairs /\ ItemOf[q] = i
      BY DEF LinkedTo
    <3>3. work'[q] # "CANCELLED"
      BY <1>3, <1>4, <1>6, <2>1, <3>1, <3>2
    <3> QED
      BY <1>7, <3>3 DEF HasRepair
  <2>2. FixHasRepair(o)
    BY DEF RInv
  <2> QED
    BY <1>2, <1>4, <2>1, <2>2 DEF FixHasRepair
<1>10. NoneBegun
  BY <1>2 DEF NoneBegun, Begun
<1> QED
  BY <1>5, <1>8, <1>9, <1>10 DEF RInv

\* The repairs of an order end with it.
LEMMA CancelOrderKeepsRepairs ==
    ASSUME IInv, RInv, NEW w \in Actors, CancelOrder(w)
    PROVE  RInv' /\ NoneBegun
<1>1. PICK o \in Orders : o = job[w].on
  BY DEF IInv, JobsFit, JobFits, Suits, OrderSteps, CancelOrder, At
<1>2. /\ SetStage(o, "CANCELLED", mode[o])
      /\ work' = [r \in Requests |->
                     IF OrderOf[r] = o /\ billing[r] = "INTERNAL_ONLY" /\ Live(r)
                     THEN "CANCELLED" ELSE work[r]]
      /\ disturbed \subseteq disturbed' /\ Done(w) /\ UNCHANGED <<decision, override, overruled>>
  BY <1>1 DEF CancelOrder, On, Late
<1>3. billing' = billing /\ CancelledStays /\ NoneBegun /\ stage'[o] = "CANCELLED"
  <2>1. billing' = billing /\ CancelledStays /\ NoneBegun
    BY <1>2, OneStage DEF IInv, Entities
  <2>2. stage'[o] = "CANCELLED"
    BY <1>2 DEF SetStage, IInv, RowsFit, Entities
  <2> QED
    BY <2>1, <2>2
<1>4. JobsServe' /\ WorkFits' /\ RepairsAreInternal'
  <2>1. JobsServe'
    BY <1>2, DoneServes DEF IInv, RInv
  <2>2. WorkFits'
    BY <1>2 DEF RInv, WorkFits, WorkStages
  <2>3. RepairsAreInternal'
    BY <1>2, <1>3 DEF RInv, RepairsAreInternal
  <2> QED
    BY <2>1, <2>2, <2>3
<1>5. ASSUME NEW q \in Repairs
      PROVE  /\ work'[q] = work[q] \/ (work'[q] = "CANCELLED" /\ OrderOf[q] = o /\ work[q] # "NONE")
             /\ Live(q)' => Live(q)
  <2>1. q \in Requests
    BY PricingConstants, RequestConstants
  <2> QED
    BY <1>2, <2>1 DEF Live, EndedWork
<1>6. \A i : LinkedTo(i)' = LinkedTo(i)
  BY <1>5 DEF LinkedTo
<1>7. ASSUME NEW i \in Items
      PROVE  OneOpen(i)'
  <2>1. OneOpen(i)
    BY DEF RInv
  <2>2. \A r \in LinkedTo(i)' : Live(r)' => r \in LinkedTo(i) /\ Live(r)
    BY <1>5, <1>6 DEF LinkedTo
  <2> QED
    BY <1>2, <1>6, <2>1, <2>2, NothingOpens
<1>8. ASSUME NEW x \in Orders
      PROVE  FixHasRepair(x)'
  <2>1. CASE x = o
    BY <1>3, <2>1 DEF FixHasRepair
  <2>2. CASE x # o
    <3>1. stage'[x] = stage[x]
      BY <1>2, <2>2 DEF SetStage, IInv, RowsFit, Entities
    <3>2. ASSUME NEW i \in ItemsOf(x), HasRepair(i)
          PROVE  HasRepair(i)'
      <4>1. PICK q \in LinkedTo(i) : work[q] # "CANCELLED"
        BY <3>2 DEF HasRepair
      <4>2. q \in Repairs /\ OrderOf[q] = x
        BY RequestConstants DEF ItemsOf, LinkedTo
      <4>3. work'[q] = work[q]
        BY <1>5, <2>2, <4>2
      <4> QED
        BY <1>6, <4>1, <4>3 DEF HasRepair
    <3>3. FixHasRepair(x)
      BY DEF RInv
    <3> QED
      BY <1>2, <3>1, <3>2, <3>3 DEF FixHasRepair
  <2> QED
    BY <2>1, <2>2
<1> QED
  BY <1>3, <1>4, <1>7, <1>8 DEF RInv

\* A decision that is not late finds every open repair of the item, and either
\* keeps them, ends them or, where there are none, opens one.
LEMMA DecideKeepsRepairs ==
    ASSUME IInv, RInv, NEW w \in Actors, Decide(w)
    PROVE  RInv' /\ NoneBegun
<1>1. PICK i \in Items, arg \in {"FIX_IN_ORDER", "USE_AS_IS"}, todo \in SUBSET Requests :
          i = job[w].on /\ arg = job[w].arg /\ todo = job[w].todo
  BY DEF Decide, At, RInv, JobsServe, Serves, IInv, JobsFit, Jobs
<1>2. PICK ends : ends = Ends(w) /\ ends = (IF arg = "USE_AS_IS" THEN todo ELSE {})
  BY <1>1 DEF Ends
<1> DEFINE needed == arg = "FIX_IN_ORDER" /\ todo = {}
<1>3. PICK fresh \in SUBSET FreshRepairs(i) :
          /\ needed <=> fresh # {}
          /\ \A p, q \in fresh : p = q
          /\ work' = [r \in Requests |-> IF r \in fresh THEN "SUBMITTED"
                                         ELSE IF r \in ends THEN "CANCELLED" ELSE work[r]]
          /\ stage' = [e \in Entities |-> IF e \in fresh THEN "INTERNAL"
                                          ELSE IF e \in ends THEN "CANCELLED" ELSE stage[e]]
  <2> DEFINE one == CHOOSE r \in FreshRepairs(i) : TRUE
             fresh == IF needed THEN {one} ELSE {}
  <2>1. needed => one \in FreshRepairs(i)
    BY <1>1 DEF Decide, On
  <2>2. /\ work' = [r \in Requests |-> IF r \in fresh THEN "SUBMITTED"
                                       ELSE IF r \in ends THEN "CANCELLED" ELSE work[r]]
        /\ stage' = [e \in Entities |-> IF e \in fresh THEN "INTERNAL"
                                        ELSE IF e \in ends THEN "CANCELLED" ELSE stage[e]]
    BY <1>1, <1>2 DEF Decide, On
  <2>3. fresh \in SUBSET FreshRepairs(i) /\ (needed <=> fresh # {}) /\ \A p, q \in fresh : p = q
    BY <2>1
  <2> HIDE DEF fresh, one, needed
  <2> QED
    BY <2>2, <2>3
<1>4. /\ decision' = [decision EXCEPT ![i] = arg] /\ Done(w)
      /\ disturbed \subseteq disturbed' /\ UNCHANGED <<billing, override, overruled>>
      /\ i \notin disturbed' => todo = ActiveRepairs(i)
  BY <1>1 DEF Decide, On, Late
<1> HIDE DEF needed
<1>5. \A r \in FreshRepairs(i) : r \in Repairs /\ r \in Requests /\ ItemOf[r] = i /\ work[r] = "NONE"
  BY PricingConstants, RequestConstants DEF FreshRepairs
<1>6. \A o \in Orders : stage'[o] = stage[o]
  <2>1. \A o \in Orders : o \in Entities /\ o \notin fresh /\ o \notin ends
    BY <1>2, <1>3, <1>5, PricingConstants DEF Entities
  <2> QED
    BY <1>3, <2>1
<1>7. JobsServe' /\ WorkFits' /\ RepairsAreInternal'
  <2>1. JobsServe'
    BY <1>4, DoneServes DEF IInv, RInv
  <2>2. work' \in [Requests -> WorkStages \cup {"NONE", "SUBMITTED"}]
    BY <1>3 DEF RInv, WorkFits, WorkStages
  <2>3. WorkFits'
    BY <1>4, <2>2 DEF RInv, WorkFits
  <2>4. RepairsAreInternal'
    BY <1>4 DEF RInv, RepairsAreInternal
  <2> QED
    BY <2>1, <2>3, <2>4
<1>8. \A q \in Repairs : work'[q] = IF q \in fresh THEN "SUBMITTED"
                                    ELSE IF q \in ends THEN "CANCELLED" ELSE work[q]
  BY <1>3, PricingConstants, RequestConstants
<1>9. \A j : \A q \in LinkedTo(j) : q \in LinkedTo(j)'
  BY <1>8 DEF LinkedTo
<1>10. ASSUME NEW q \in Repairs, Live(q)', q \notin fresh
       PROVE  work'[q] = work[q] /\ Live(q) /\ q \notin ends
  BY <1>8, <1>10 DEF Live, EndedWork
<1>11. ASSUME NEW j \in Items
       PROVE  OneOpen(j)'
  <2>1. OneOpen(j)
    BY DEF RInv
  <2>2. CASE j # i \/ fresh = {}
    <3>1. ASSUME NEW q \in LinkedTo(j)', Live(q)'
          PROVE  q \in LinkedTo(j) /\ Live(q)
      <4>1. q \in Repairs /\ ItemOf[q] = j /\ q \notin fresh
        BY <1>5, <2>2 DEF LinkedTo
      <4> QED
        BY <1>10, <3>1, <4>1 DEF LinkedTo, Live
    <3> QED
      BY <1>4, <1>9, <2>1, <3>1, NothingOpens
  <2>3. CASE j = i /\ fresh # {}
    <3>1. ASSUME i \notin overruled' \cup disturbed', NEW q \in LinkedTo(i)', Live(q)'
          PROVE  q \in fresh
      <4>1. ActiveRepairs(i) = {}
        BY <1>3, <1>4, <2>3, <3>1 DEF needed
      <4>2. ASSUME q \notin fresh
            PROVE  q \in ActiveRepairs(i)
        <5>1. q \in Repairs /\ ItemOf[q] = i
          BY DEF LinkedTo
        <5>2. Live(q) /\ q \in LinkedTo(i)
          BY <1>10, <3>1, <4>2, <5>1 DEF LinkedTo, Live
        <5>3. IsRepair(q)
          BY <1>4, <3>1, <5>1 DEF RInv, RepairsAreInternal, IsRepair
        <5> QED
          BY <5>2, <5>3 DEF ActiveRepairs
      <4> QED
        BY <4>1, <4>2
    <3> QED
      BY <1>3, <2>3, <3>1 DEF OneOpen
  <2> QED
    BY <2>2, <2>3
<1>12. ASSUME NEW o \in Orders
       PROVE  FixHasRepair(o)'
  <2> SUFFICES ASSUME disturbed' = {}, stage'[o] # "CANCELLED", NEW j \in ItemsOf(o),
                      j \notin overruled', decision'[j] = "FIX_IN_ORDER"
               PROVE  HasRepair(j)'
    BY DEF FixHasRepair
  <2>1. todo = ActiveRepairs(i) /\ disturbed = {} /\ j \in Items
    BY <1>4, RequestConstants DEF ItemsOf
  <2>2. CASE j # i
    <3>1. decision'[j] = decision[j]
      BY <1>4, <2>1, <2>2 DEF RInv, WorkFits
    <3>2. HasRepair(j)
      BY <1>4, <1>6, <2>1, <3>1 DEF RInv, FixHasRepair
    <3>3. PICK q \in LinkedTo(j) : work[q] # "CANCELLED"
      BY <3>2 DEF HasRepair
    <3>4. q \in Repairs /\ ItemOf[q] = j
      BY DEF LinkedTo
    <3>5. q \notin fresh /\ q \notin ends
      BY <1>2, <1>5, <2>1, <2>2, <3>4 DEF ActiveRepairs, LinkedTo
    <3>6. work'[q] = work[q]
      BY <1>8, <3>4, <3>5
    <3> QED
      BY <1>9, <3>3, <3>6 DEF HasRepair
  <2>3. CASE j = i
    <3>1. arg = "FIX_IN_ORDER" /\ ends = {}
      BY <1>2, <1>4, <2>3 DEF RInv, WorkFits
    <3>2. CASE fresh # {}
      <4>1. PICK q \in fresh : q \in Repairs /\ ItemOf[q] = i
        BY <1>5, <3>2
      <4>2. work'[q] = "SUBMITTED"
        BY <1>8, <4>1
      <4> QED
        BY <2>3, <4>1, <4>2 DEF HasRepair, LinkedTo
    <3>3. CASE fresh = {}
      <4>1. PICK q \in ActiveRepairs(i) : TRUE
        BY <1>3, <2>1, <3>1, <3>3 DEF needed
      <4>2. q \in LinkedTo(i) /\ q \in Repairs /\ work[q] # "CANCELLED"
        BY DEF ActiveRepairs, LinkedTo, Live, EndedWork
      <4>3. work'[q] = work[q]
        BY <1>8, <3>1, <3>3, <4>2
      <4> QED
        BY <1>9, <2>3, <4>2, <4>3 DEF HasRepair
    <3> QED
      BY <3>2, <3>3
  <2> QED
    BY <2>2, <2>3
<1>13. NoneBegun
  BY <1>6 DEF NoneBegun, Begun
<1> QED
  BY <1>7, <1>11, <1>12, <1>13 DEF RInv

LEMMA InitRepairs ==
    ASSUME Init
    PROVE  RInv
<1>1. JobsServe /\ RepairsAreInternal
  BY IdleServes, PricingConstants, RequestConstants DEF Init, PriceInit, JobsServe, RepairsAreInternal
<1>2. WorkFits
  BY DEF Init, WorkFits
<1>3. \A i \in Items : /\ decision[i] = "FIX_IN_ORDER" => \E r \in Repairs : LinkedTo(i) = {r}
                       /\ decision[i] # "FIX_IN_ORDER" => LinkedTo(i) = {}
  BY DEF Init
<1>4. \A i \in Items : OneOpen(i)
  BY <1>3 DEF OneOpen
<1>5. ASSUME NEW o \in Orders
      PROVE  FixHasRepair(o)
  <2>1. ASSUME NEW i \in Items, NEW r \in LinkedTo(i)
        PROVE  work[r] # "CANCELLED"
    <3>1. r \in Requests
      BY PricingConstants, RequestConstants DEF LinkedTo
    <3> QED
      BY <3>1 DEF Init
  <2>2. \A i \in ItemsOf(o) : i \in Items
    BY RequestConstants DEF ItemsOf
  <2> QED
    BY <1>3, <2>1, <2>2 DEF FixHasRepair, HasRepair
<1> QED
  BY <1>1, <1>2, <1>4, <1>5 DEF RInv

\* Only progressOrderStatus begins the preparation of an order.
LEMMA NextKeepsRepairs ==
    ASSUME IInv, RInv, [Next]_vars
    PROVE  RInv' /\ \A o \in Orders : Begun(o) => \E w \in Actors : Prepare(w) /\ On(w) = o
<1> DEFINE Goal == RInv' /\ \A o \in Orders : Begun(o) => \E w \in Actors : Prepare(w) /\ On(w) = o
<1>1. RInv' /\ NoneBegun => Goal
  BY DEF NoneBegun
<1>2. CASE UNCHANGED vars
  <2>1. UNCHANGED <<requestVars, stage, billing, job, disturbed>>
    BY <1>2 DEF vars, priceVars, rowVars
  <2>2. JobsServe' /\ disturbed \subseteq disturbed' /\ CancelledStays /\ NoneBegun
    BY <2>1 DEF RInv, JobsServe, Serves, CancelledStays, NoneBegun, Begun
  <2>3. RInv'
    <3> HIDE DEF RInv
    <3> QED
      BY <2>1, <2>2, PriceRestKeeps
  <2> QED
    BY <1>1, <2>2, <2>3
<1> HIDE DEF IInv, RInv
<1>3. ASSUME NEW w \in Actors, PriceBegin(w) \/ PriceResume(w) \/ Crash(w), UNCHANGED requestVars
      PROVE  Goal
  <2>1. NoneBegun
    BY <1>3, PriceLeaves DEF RInv
  <2> QED
    BY <1>1, <1>3, <2>1, PriceKeepsRepairs
<1>4. ASSUME NEW w \in Actors,
             \/ \E r \in Requests :
                   \/ \E bill \in Bills : BeginCreate(w, r, bill)
                   \/ \E to \in WorkStages : BeginWork(w, r, to)
                   \/ BeginCancel(w, r) \/ BeginOverride(w, r)
                   \/ \E what \in Bills \cup {"items"} : BeginUpdate(w, r, what)
             \/ \E i \in Items, d \in {"FIX_IN_ORDER", "USE_AS_IS"} : BeginDecide(w, i, d)
             \/ \E o \in Orders : BeginCancelOrder(w, o) \/ BeginPrepare(w, o)
      PROVE  Goal
  BY <1>1, <1>4, RequestBegins
<1>5. ASSUME NEW w \in Actors,
             \/ InsertRequest(w) \/ WriteWork(w) \/ WriteCancel(w) \/ WriteOverride(w)
             \/ Rebill(w) \/ Requote(w) \/ Decide(w) \/ CancelOrder(w)
      PROVE  Goal
  BY <1>1, <1>5, InsertKeepsRepairs, WorkKeepsRepairs, OverrideKeepsRepairs, UpdateKeepsRepairs,
     DecideKeepsRepairs, CancelOrderKeepsRepairs
<1>6. ASSUME NEW w \in Actors, Prepare(w)
      PROVE  Goal
  BY <1>6, PrepareKeepsRepairs
<1> QED
  BY <1>2, <1>3, <1>4, <1>5, <1>6 DEF Next, Bills

LEMMA RepairsHold == Spec => [](IInv /\ RInv)
<1>1. Init => IInv /\ RInv
  BY InitHolds, InitRepairs
<1>2. IInv /\ RInv /\ [Next]_vars => IInv' /\ RInv'
  BY NextKeeps, NextKeepsRepairs
<1> QED
  BY <1>1, <1>2, PTL DEF Spec

\* The rows keep their types: what a handler writes is a status of the row, and
\* only repairs are waived.
THEOREM TypeCorrect == Spec => []TypeOK
<1>1. IInv /\ RInv => TypeOK
  BY DEF IInv, RowsFit, Bills, RInv, WorkFits, TypeOK
<1> QED
  BY <1>1, RepairsHold, PTL

\* Decisions, creations, cancellations and work, in any sequence and by any number
\* of handlers, leave at most one repair open for an item, as long as no write on
\* the item has outlived its check and staff leave it alone
\* (applyMaintenanceDecisionToOrderItem, createServiceRequest).
THEOREM OneRepairIsOpen == Spec => []OneRepairPerItem
<1>1. IInv /\ RInv => OneRepairPerItem
  <2> SUFFICES ASSUME RInv, NEW i \in Items, Settled(i)
               PROVE  Cardinality({r \in LinkedTo(i) : Live(r)}) <= 1
    BY DEF OneRepairPerItem
  <2> DEFINE open == {r \in LinkedTo(i) : Live(r)}
  <2>1. \A q, r \in open : q = r
    BY DEF RInv, OneOpen, Settled
  <2>2. open = {} \/ \E r : open = {r}
    BY <2>1
  <2> HIDE DEF open
  <2>3. Cardinality(open) <= 1
    <3>1. CASE open = {}
      BY <3>1, FS_EmptySet
    <3>2. ASSUME NEW r, open = {r}
          PROVE  Cardinality(open) <= 1
      <4>1. Cardinality({r}) = 1
        BY FS_Singleton
      <4> QED
        BY <3>2, <4>1
    <3> QED
      BY <2>2, <3>1, <3>2
  <2> QED
    BY <2>3 DEF open
<1> QED
  BY <1>1, RepairsHold, PTL

\* No preparation begins before each item that is to be fixed has a repair that is
\* completed, waived or free, however often the decision changes, unless staff have
\* stepped in (hasUnresolvedBlockingServiceRequests and
\* getUnresolvedMaintenanceReadinessItems, asked by progressOrderStatus).
THEOREM RepairedWhenPrepared == Spec => PreparedIsRepaired
<1> DEFINE A == \A o \in Orders : Begun(o) /\ disturbed' = {} => Repaired(o, overruled)
<1>1. IInv /\ RInv /\ [Next]_vars => [A]_vars
  <2> SUFFICES ASSUME IInv, RInv, [Next]_vars, NEW o \in Orders, Begun(o), disturbed' = {}
               PROVE  Repaired(o, overruled)
    OBVIOUS
  <2>1. PICK w \in Actors : Prepare(w) /\ On(w) = o
    BY NextKeepsRepairs
  <2>2. Ready(o) /\ disturbed = {}
    BY <2>1 DEF Prepare, Late, MayPrepare
  <2> SUFFICES ASSUME NEW i \in ItemsOf(o) \ overruled, decision[i] = "FIX_IN_ORDER"
               PROVE  RepairDone(i)
    BY DEF Repaired
  <2>3. FixHasRepair(o) /\ stage[o] # "CANCELLED"
    BY DEF RInv, Begun
  <2>4. PICK r \in LinkedTo(i) : work[r] # "CANCELLED"
    BY <2>2, <2>3 DEF FixHasRepair, HasRepair
  <2>5. Resolved(r)
    BY <2>2 DEF Ready
  <2>6. work[r] = "COMPLETED" \/ r \in override \/ mode[r] = "NO_COST"
    BY <2>4, <2>5 DEF Resolved, Live, EndedWork, LinkedTo
  <2> QED
    BY <2>6 DEF RepairDone
<1>2. PreparedIsRepaired <=> [][A]_vars
  BY DEF PreparedIsRepaired
<1> HIDE DEF A
<1> QED
  BY <1>1, <1>2, RepairsHold, PTL DEF Spec
==============================================================================
