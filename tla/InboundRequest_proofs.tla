------------------------ MODULE InboundRequest_proofs ------------------------
(***************************************************************************)
(* Theorems about InboundRequest, for every set of requests, assets,       *)
(* orders and handlers, and every list of items.                           *)
(***************************************************************************)
EXTENDS InboundRequest, UnitCounting

------------------------------------------------------------------------------
(* The inductive invariant.                                                *)

Ops == {"idle", "submit", "quote", "accept", "decline", "cancel", "noCost", "edit", "update", "price",
        "complete"}
Steps == {"idle", "move", "edit", "render", "upload", "send", "items", "write"}
RowType == [total : Nat, avail : Nat]
Jobs == [op : Ops, on : InboundRequests \cup {Nobody}, step : Steps, staff : BOOLEAN, item : Places,
         qty : Nat, list : ListType \cup {None}, todo : SUBSET Places, seen : RowType,
         pend : [Assets -> RowType], units : Nat]

\* A handler at work is at work on a request, with the list its step needs.
JobFits(j) ==
    /\ j \in Jobs
    /\ j.step # "idle" => j.on \in InboundRequests
    /\ j.step = "move" => j.op \in DOMAIN Moved
    /\ j.step = "edit" => j.op \in {"edit", "update"}
    /\ (j.step \in {"upload", "send", "items", "write"} \/ j.op = "update") => j.list \in ListType
    /\ j.step = "send" => j.op = "quote"
JobsFit == job \in [Actors -> Jobs] /\ \A w \in Actors : JobFits(job[w])

TypesFit ==
    /\ TypeOK
    /\ offer \in [InboundRequests -> ListType \cup {None}]
    /\ arrived \in [InboundRequests -> ListType \cup {None}]

\* Nothing has been sent or received before the quote.
Early == {"NONE", "PRICING_REVIEW", "PENDING_APPROVAL"}
RequestHolds(r) ==
    /\ status[r] \in Early => offer[r] = None /\ arrived[r] = None
    /\ offer[r] \in {None, content[r]} /\ arrived[r] \in {None, content[r]}

\* A handler that has quoted a request or is completing it, and one whose
\* list is what the request asks for.
Late(j) == \/ j.op = "quote" /\ j.step \in {"render", "upload", "send"}
           \/ j.step \in {"items", "write"}
Shows(j) == j.step \in {"send", "items", "write"}
Knows(j, r) == Late(j) => status[r] \notin Early /\ (Shows(j) => j.list = content[r])

Intact == InboundRequests \ (disturbed \cup revised)
IInv ==
    /\ TypesFit /\ JobsFit
    /\ \A r \in Intact : RequestHolds(r)
    /\ \A r \in Intact, w \in Actors : On(w) = r => Knows(job[w], r)

------------------------------------------------------------------------------
(* What a step leaves of the rest.                                         *)

LEMMA IdleFits ==
    JobFits(Idle) /\ ~Late(Idle)
BY DEF JobFits, Jobs, Idle, Ops, Steps, NoRow, RowType, Places, Late

\* The same after a step, of a job after it.
KnowsNext(j, r) == Late(j) => status'[r] \notin Early /\ (Shows(j) => j.list = content'[r])
Same(r) ==
    /\ status'[r] = status[r] /\ content'[r] = content[r]
    /\ offer'[r] = offer[r] /\ arrived'[r] = arrived[r]
\* Once quoted, r stays so and asks for the same.
Kept(r) == status[r] \notin Early => status'[r] \notin Early /\ content'[r] = content[r]
Grows == disturbed \subseteq disturbed' /\ revised \subseteq revised'

\* A step that writes at most the request r, and the jobs as far as V says.
LEMMA StepKeeps ==
    ASSUME IInv, TypesFit', JobsFit', Grows, NEW r, \A s \in InboundRequests \ {r} : Same(s),
           r \in Intact' => Kept(r) /\ RequestHolds(r)',
           \A v \in Actors : \/ job'[v] = job[v]
                             \/ /\ Late(job'[v]) => job'[v].on = r
                                /\ r \in Intact' => KnowsNext(job'[v], r)
    PROVE  IInv'
<1>1. Intact' \subseteq Intact
  BY DEF Intact, Grows
<1>2. ASSUME NEW s \in Intact'
      PROVE  RequestHolds(s)'
  <2>1. CASE s = r
    BY <2>1, <1>2
  <2>2. CASE s # r
    <3>1. RequestHolds(s) /\ Same(s)
      BY <1>1, <2>2 DEF IInv, Intact
    <3> QED
      BY <3>1 DEF RequestHolds, Same
  <2> QED
    BY <2>1, <2>2
<1>3. ASSUME NEW s \in Intact', NEW v \in Actors, job'[v].on = s
      PROVE  KnowsNext(job'[v], s)
  <2>1. s \in Intact /\ s \in InboundRequests
    BY <1>1 DEF Intact
  <2>2. CASE job'[v] = job[v]
    <3>1. Knows(job[v], s)
      BY <1>3, <2>1, <2>2 DEF IInv, On
    <3>2. Same(s) \/ Kept(s)
      BY <2>1, <1>3
    <3> QED
      BY <2>2, <3>1, <3>2 DEF Knows, KnowsNext, Same, Kept
  <2>3. CASE job'[v] # job[v]
    BY <1>3, <2>3 DEF KnowsNext
  <2> QED
    BY <2>2, <2>3
<1>4. ASSUME NEW s \in Intact', NEW v \in Actors, On(v)' = s
      PROVE  Knows(job[v], s)'
  BY <1>3, <1>4 DEF On, Knows, KnowsNext
<1> QED
  BY <1>2, <1>4 DEF IInv

LEMMA OneJob ==
    ASSUME JobsFit, NEW w \in Actors, NEW j, JobFits(j), job' = [job EXCEPT ![w] = j]
    PROVE  JobsFit' /\ job'[w] = j /\ \A v \in Actors \ {w} : job'[v] = job[v]
<1>1. j \in Jobs
  BY DEF JobFits
<1>2. /\ job' \in [Actors -> Jobs] /\ job'[w] = j
      /\ \A v \in Actors \ {w} : job'[v] = job[v]
  BY <1>1 DEF JobsFit
<1>3. ASSUME NEW v \in Actors
      PROVE  JobFits(job[v])'
  <2>1. JobFits(job'[v])
    BY <1>2 DEF JobsFit
  <2> QED
    BY <2>1 DEF JobFits
<1> QED
  BY <1>2, <1>3 DEF JobsFit

\* A step of w, with its job rewritten to j.
LEMMA JobStepKeeps ==
    ASSUME IInv, TypesFit', NEW w \in Actors, NEW j, JobFits(j), job' = [job EXCEPT ![w] = j],
           Grows, NEW r, Late(j) => j.on = r, \A s \in InboundRequests \ {r} : Same(s),
           r \in Intact' => Kept(r) /\ RequestHolds(r)' /\ KnowsNext(j, r)
    PROVE  IInv'
<1>1. JobsFit' /\ job'[w] = j /\ \A v \in Actors \ {w} : job'[v] = job[v]
  BY OneJob DEF IInv
<1>2. ASSUME NEW v \in Actors
      PROVE  \/ job'[v] = job[v]
             \/ /\ Late(job'[v]) => job'[v].on = r
                /\ r \in Intact' => KnowsNext(job'[v], r)
  BY <1>1
<1> HIDE DEF IInv
<1> QED
  BY <1>1, <1>2, StepKeeps

\* ... that writes no request.
LEMMA QuietKeeps ==
    ASSUME IInv, TypesFit', NEW w \in Actors, NEW j, JobFits(j), job' = [job EXCEPT ![w] = j],
           Grows, UNCHANGED <<status, content, offer, arrived>>, NEW r,
           Late(j) => j.on = r, r \in Intact' => KnowsNext(j, r)
    PROVE  IInv'
<1>1. \A s : Same(s)
  BY DEF Same
<1>2. ASSUME r \in Intact'
      PROVE  Kept(r) /\ RequestHolds(r)'
  <2>1. RequestHolds(r)
    BY <1>2 DEF IInv, Intact, Grows
  <2> QED
    BY <2>1 DEF RequestHolds, Kept
<1> HIDE DEF IInv
<1> QED
  BY <1>1, <1>2, JobStepKeeps

\* ... with w done.
LEMMA QuietEnd ==
    ASSUME IInv, TypesFit', NEW w \in Actors, job' = [job EXCEPT ![w] = Idle],
           Grows, UNCHANGED <<status, content, offer, arrived>>
    PROVE  IInv'
<1>1. JobFits(Idle) /\ ~Late(Idle)
  BY IdleFits
<1>2. \A r : KnowsNext(Idle, r)
  BY <1>1 DEF KnowsNext
<1> HIDE DEF IInv
<1> QED
  BY <1>1, <1>2, QuietKeeps

\* A step of no handler, with at most r written.
LEMMA OutsideKeeps ==
    ASSUME IInv, TypesFit', job' = job, UNCHANGED <<content, offer, arrived, disturbed, revised>>,
           NEW r, \A s \in InboundRequests \ {r} : status'[s] = status[s],
           status'[r] \in Early <=> status[r] \in Early
    PROVE  IInv'
<1>1. Grows /\ \A s \in InboundRequests \ {r} : Same(s)
  BY DEF Grows, Same
<1>2. JobsFit'
  BY DEF IInv, JobsFit, JobFits
<1>3. ASSUME r \in Intact'
      PROVE  Kept(r) /\ RequestHolds(r)'
  <2>1. RequestHolds(r)
    BY <1>3 DEF IInv, Intact
  <2> QED
    BY <2>1 DEF RequestHolds, Kept
<1> HIDE DEF IInv
<1> QED
  BY <1>1, <1>2, <1>3, StepKeeps

------------------------------------------------------------------------------
(* The beginning of a handler.                                             *)

LEMMA ReadType ==
    ASSUME IInv, NEW r \in InboundRequests
    PROVE  /\ content[r] \in ListType /\ status[r] \in Statuses
           /\ \A k \in Places : content[r][k].qty \in Nat
BY DEF IInv, TypesFit, TypeOK, ListType, ItemType

LEMMA BeginKeeps ==
    ASSUME IInv, NEW w \in Actors, NEW j, JobFits(j), Begin(w, j), NEW r,
           Late(j) => j.on = r, r \in Intact => Knows(j, r)
    PROVE  IInv'
<1>1. /\ job' = [job EXCEPT ![w] = j] /\ UNCHANGED <<status, content, offer, arrived>>
      /\ UNCHANGED <<invVars, requestVars, historyVars>>
  BY DEF Begin, requestVars, historyVars
<1>2. TypesFit' /\ Grows /\ Intact' = Intact
  BY <1>1 DEF IInv, TypesFit, TypeOK, InvTypeOK, invVars, requestVars, historyVars, Grows, Intact
<1>3. r \in Intact' => KnowsNext(j, r)
  BY <1>1, <1>2 DEF Knows, KnowsNext
<1> HIDE DEF IInv
<1> QED
  BY <1>1, <1>2, <1>3, QuietKeeps

LEMMA JobForType ==
    ASSUME NEW op \in Ops, NEW r \in InboundRequests, NEW step \in Steps
    PROVE  LET j == JobFor(op, r, step) IN
           j \in Jobs /\ j.op = op /\ j.on = r /\ j.step = step
BY IdleFits DEF JobFits, JobFor, Jobs

\* The handlers that move the status, and a line item.
LEMMA BeginMoveKeeps ==
    ASSUME IInv, NEW w \in Actors, NEW op \in Ops \ {"update"}, NEW r \in InboundRequests,
           NEW step \in {"move", "render"}, step = "move" => op \in DOMAIN Moved,
           step = "render" => op # "quote", Begin(w, JobFor(op, r, step))
    PROVE  IInv'
<1> DEFINE j == JobFor(op, r, step)
<1>1. j \in Jobs /\ j.op = op /\ j.on = r /\ j.step = step
  BY JobForType DEF Steps
<1>2. Begin(w, j)
  OBVIOUS
<1>3. JobFits(j) /\ ~Late(j)
  <2> HIDE DEF j
  <2> QED
    BY <1>1 DEF JobFits, Late
<1> HIDE DEF j, IInv
<1> QED
  BY <1>2, <1>3, BeginKeeps DEF Knows

LEMMA BeginEditKeeps ==
    ASSUME IInv, NEW w \in Actors, NEW r \in InboundRequests, NEW staff \in BOOLEAN,
           \/ \E k \in Places, q \in Quantities : BeginEditItem(w, r, staff, k, q)
           \/ \E list \in Revisions[r] : BeginUpdate(w, r, staff, list)
    PROVE  IInv'
<1>1. ASSUME NEW k \in Places, NEW q \in Quantities, BeginEditItem(w, r, staff, k, q)
      PROVE  IInv'
  <2>1. PICK i \in Jobs : /\ i = JobFor("edit", r, "edit")
                         /\ i.op = "edit" /\ i.on = r /\ i.step = "edit"
    BY JobForType DEF Ops, Steps
  <2> DEFINE j == [i EXCEPT !.staff = staff, !.item = k, !.qty = q]
  <2>2. JobFits(j) /\ ~Late(j)
    BY <2>1, QuantitiesType DEF JobFits, Jobs, Late
  <2>3. Begin(w, j)
    BY <1>1, <2>1 DEF BeginEditItem
  <2> HIDE DEF j, IInv
  <2> QED
    BY <2>2, <2>3, BeginKeeps DEF Knows
<1>2. ASSUME NEW list \in Revisions[r], BeginUpdate(w, r, staff, list)
      PROVE  IInv'
  <2>1. PICK i \in Jobs : /\ i = JobFor("update", r, "edit")
                         /\ i.op = "update" /\ i.on = r /\ i.step = "edit"
    BY JobForType DEF Ops, Steps
  <2> DEFINE j == [i EXCEPT !.staff = staff, !.list = list]
  <2>2. list \in ListType
    BY RevisionsType
  <2>3. JobFits(j) /\ ~Late(j)
    BY <2>1, <2>2 DEF JobFits, Jobs, Late
  <2>4. Begin(w, j)
    BY <1>2, <2>1 DEF BeginUpdate
  <2> HIDE DEF j, IInv
  <2> QED
    BY <2>3, <2>4, BeginKeeps DEF Knows
<1> QED
  BY <1>1, <1>2

LEMMA BeginCompleteKeeps ==
    ASSUME IInv, NEW w \in Actors, NEW r \in InboundRequests, BeginComplete(w, r)
    PROVE  IInv'
<1>1. PICK i \in Jobs : /\ i = JobFor("complete", r, "items")
                       /\ i.op = "complete" /\ i.on = r /\ i.step = "items"
  BY JobForType DEF Ops, Steps
<1> DEFINE j == [i EXCEPT !.list = content[r], !.todo = Present(content[r])]
<1>2. content[r] \in ListType /\ Present(content[r]) \subseteq Places
  BY ReadType DEF Present
<1>3. JobFits(j) /\ j.on = r /\ j.list = content[r]
  BY <1>1, <1>2 DEF JobFits, Jobs
<1>4. status[r] = "CONFIRMED"
  BY DEF BeginComplete, Passes, Expected
<1>5. Knows(j, r)
  <2> HIDE DEF j
  <2> QED
    BY <1>3, <1>4 DEF Knows, Early
<1>6. Begin(w, j)
  BY <1>1 DEF BeginComplete
<1> HIDE DEF j, IInv
<1> QED
  BY <1>3, <1>5, <1>6, BeginKeeps

\* A handler begins.
LEMMA BeginAnyKeeps ==
    ASSUME IInv, NEW w \in Actors, BeginAny(w)
    PROVE  IInv'
<1> PICK r \in InboundRequests :
      \/ BeginSubmitForApproval(w, r) \/ BeginApprove(w, r) \/ BeginClientDecision(w, r)
      \/ BeginMarkAsNoCost(w, r) \/ BeginCancel(w, r) \/ BeginPrice(w, r) \/ BeginComplete(w, r)
      \/ \E staff \in {FALSE, StaffEdits} :
          \/ \E k \in Places, q \in Quantities : BeginEditItem(w, r, staff, k, q)
          \/ \E list \in Revisions[r] : BeginUpdate(w, r, staff, list)
  BY DEF BeginAny
<1>1. ASSUME NEW op \in {"submit", "quote", "accept", "decline", "noCost", "cancel"}, BeginMove(w, op, r)
      PROVE  IInv'
  <2>1. Begin(w, JobFor(op, r, "move")) /\ op \in Ops \ {"update"} /\ op \in DOMAIN Moved
    BY <1>1 DEF BeginMove, Ops, Moved
  <2> HIDE DEF IInv
  <2> QED
    BY <2>1, BeginMoveKeeps
<1>2. CASE BeginPrice(w, r)
  <2>1. Begin(w, JobFor("price", r, "render")) /\ "price" \in Ops \ {"update"}
    BY <1>2 DEF BeginPrice, Ops
  <2> HIDE DEF IInv
  <2> QED
    BY <2>1, BeginMoveKeeps
<1>3. ASSUME NEW staff \in {FALSE, StaffEdits},
             \/ \E k \in Places, q \in Quantities : BeginEditItem(w, r, staff, k, q)
             \/ \E list \in Revisions[r] : BeginUpdate(w, r, staff, list)
      PROVE  IInv'
  <2>1. staff \in BOOLEAN
    BY FlagsType
  <2> HIDE DEF IInv
  <2> QED
    BY <1>3, <2>1, BeginEditKeeps
<1> QED
  BY <1>1, <1>2, <1>3, BeginCompleteKeeps
     DEF BeginSubmitForApproval, BeginApprove, BeginClientDecision, BeginMarkAsNoCost, BeginCancel

------------------------------------------------------------------------------
(* The request and its estimate.                                           *)

LEMMA JobFacts ==
    ASSUME IInv, NEW w \in Actors, ~At(w, "idle")
    PROVE  /\ job[w] \in Jobs /\ JobFits(job[w])
           /\ On(w) \in InboundRequests /\ On(w) = job[w].on
BY DEF IInv, JobsFit, JobFits, At, On

\* A handler that goes on to another step.
LEMMA StepFits ==
    ASSUME NEW i \in Jobs, NEW step \in Steps
    PROVE  LET j == [i EXCEPT !.step = step] IN
           j \in Jobs /\ j.step = step /\ j.op = i.op /\ j.on = i.on /\ j.list = i.list
BY DEF Jobs

\* A write by id that is not a disturbance meets the request it expects.
LEMMA Meets ==
    ASSUME IInv, NEW w \in Actors, On(w) \in Intact',
           disturbed' = Disturbed(w)
    PROVE  Passes(job[w].op, On(w), job[w].staff)
BY DEF Intact, Disturbed, Outlived

LEMMA MoveKeeps ==
    ASSUME IInv, NEW w \in Actors, Move(w)
    PROVE  IInv'
<1>1. /\ job[w] \in Jobs /\ JobFits(job[w]) /\ On(w) \in InboundRequests /\ On(w) = job[w].on
      /\ job[w].step = "move" /\ job[w].op \in DOMAIN Moved
  <2>1. At(w, "move") /\ ~At(w, "idle")
    BY DEF Move, At
  <2> QED
    BY <2>1, JobFacts DEF JobFits, At
<1> PICK r \in InboundRequests : r = On(w)
  BY <1>1
<1> PICK op \in DOMAIN Moved : op = job[w].op
  BY <1>1
<1>2. /\ status' = [status EXCEPT ![r] = Moved[op]]
      /\ financial' = [financial EXCEPT ![r] = Billed(op, financial[r])]
      /\ free' = IF op = "noCost" THEN free \cup {r} ELSE free
      /\ disturbed' = Disturbed(w)
      /\ UNCHANGED <<invVars, content, made, estimate, offer, arrived, revised>>
  BY DEF Move
<1>3. TypesFit'
  <2>1. Moved[op] \in Statuses
    BY DEF Moved, Statuses
  <2>2. Billed(op, financial[r]) \in FinancialStatuses
    <3>1. financial[r] \in FinancialStatuses
      BY DEF IInv, TypesFit, TypeOK
    <3> QED
      BY <3>1 DEF Billed, Moved, FinancialStatuses
  <2>3. status' \in [InboundRequests -> Statuses]
    BY <1>2, <2>1 DEF IInv, TypesFit, TypeOK
  <2>4. financial' \in [InboundRequests -> FinancialStatuses]
    BY <1>2, <2>2 DEF IInv, TypesFit, TypeOK
  <2> QED
    BY <1>2, <2>3, <2>4 DEF IInv, TypesFit, TypeOK, InvTypeOK, invVars
<1>4. Grows /\ \A s \in InboundRequests \ {r} : Same(s)
  BY <1>2 DEF Grows, Disturbed, Same, IInv, TypesFit, TypeOK
<1>5. status'[r] = Moved[op]
  BY <1>2 DEF IInv, TypesFit, TypeOK
<1>6. ASSUME r \in Intact'
      PROVE  status[r] \in Expected[op] /\ RequestHolds(r)
  <2>1. Passes(op, r, job[w].staff)
    BY <1>2, <1>6, Meets
  <2>2. r \in Intact
    BY <1>4, <1>6 DEF Intact, Grows
  <2> QED
    BY <2>1, <2>2 DEF Passes, Moved, IInv
<1>7. ASSUME r \in Intact'
      PROVE  Kept(r) /\ RequestHolds(r)'
  <2>1. op = "submit" => status[r] \in Early
    BY <1>6, <1>7 DEF Expected, Early
  <2>2. op # "submit" => status'[r] \notin Early
    BY <1>5 DEF Moved, Early
  <2> QED
    BY <1>2, <1>6, <1>7, <2>1, <2>2 DEF Kept, RequestHolds
<1>8. CASE op = "quote"
  <2> DEFINE j == [job[w] EXCEPT !.step = "render"]
  <2>1. job' = [job EXCEPT ![w] = j]
    BY <1>8 DEF Move, GoTo
  <2>2. j \in Jobs /\ j.step = "render" /\ j.op = "quote" /\ j.on = r
    BY <1>1, <1>8, StepFits DEF Steps
  <2> HIDE DEF j
  <2>3. JobFits(j)
    BY <2>2 DEF JobFits
  <2>4. KnowsNext(j, r)
    BY <1>5, <1>8, <2>2 DEF KnowsNext, Shows, Moved, Early
  <2> HIDE DEF IInv
  <2> QED
    BY <1>3, <1>4, <1>7, <2>1, <2>2, <2>3, <2>4, JobStepKeeps
<1>9. CASE op # "quote"
  <2>1. job' = [job EXCEPT ![w] = Idle]
    BY <1>9 DEF Move, Finish
  <2>2. JobFits(Idle) /\ ~Late(Idle) /\ KnowsNext(Idle, r)
    BY IdleFits DEF KnowsNext
  <2> HIDE DEF IInv
  <2> QED
    BY <1>3, <1>4, <1>7, <2>1, <2>2, JobStepKeeps
<1> QED
  BY <1>8, <1>9

LEMMA EditKeeps ==
    ASSUME IInv, NEW w \in Actors, Edit(w)
    PROVE  IInv'
<1>1. /\ job[w] \in Jobs /\ JobFits(job[w]) /\ On(w) \in InboundRequests /\ On(w) = job[w].on
      /\ job[w].step = "edit"
  <2>1. At(w, "edit") /\ ~At(w, "idle")
    BY DEF Edit, At
  <2> QED
    BY <2>1, JobFacts DEF At
<1> PICK r \in InboundRequests : r = On(w)
  BY <1>1
<1>2. /\ content' = [content EXCEPT ![r] = Rewritten(w)]
      /\ disturbed' = Disturbed(w)
      /\ revised' = IF job[w].staff /\ status[r] \notin {"PRICING_REVIEW", "PENDING_APPROVAL"}
                    THEN revised \cup {r} ELSE revised
      /\ UNCHANGED <<invVars, status, financial, free, made, estimate, offer, arrived>>
  BY DEF Edit
<1>3. Rewritten(w) \in ListType
  <2>1. content[r] \in ListType /\ job[w].qty \in Nat /\ job[w].item \in Places
    BY <1>1, ReadType DEF Jobs
  <2>2. job[w].op = "update" => job[w].list \in ListType
    BY <1>1 DEF JobFits
  <2>3. [content[r] EXCEPT ![job[w].item].qty = job[w].qty] \in ListType
    BY <2>1 DEF ListType, ItemType
  <2> QED
    BY <2>1, <2>2, <2>3 DEF Rewritten
<1>4. TypesFit'
  BY <1>2, <1>3 DEF IInv, TypesFit, TypeOK, InvTypeOK, invVars
<1>5. Grows /\ \A s \in InboundRequests \ {r} : Same(s)
  BY <1>2 DEF Grows, Disturbed, Same, IInv, TypesFit, TypeOK
<1>6. ASSUME r \in Intact'
      PROVE  status[r] \in Early /\ RequestHolds(r)
  <2>1. r \in Intact
    BY <1>5, <1>6 DEF Intact, Grows
  <2>2. CASE job[w].staff
    BY <1>2, <1>6, <2>1, <2>2 DEF Intact, Early, IInv
  <2>3. CASE ~job[w].staff
    <3>1. Passes(job[w].op, r, job[w].staff)
      BY <1>2, <1>6, Meets
    <3>2. status[r] \in ClientEditable
      BY <1>1, <2>3, <3>1 DEF Passes, JobFits
    <3> QED
      BY <2>1, <3>2 DEF ClientEditable, Early, IInv
  <2> QED
    BY <2>2, <2>3
<1>7. r \in Intact' => Kept(r) /\ RequestHolds(r)'
  BY <1>2, <1>6 DEF Kept, RequestHolds
<1>8. CASE job[w].op = "edit"
  <2> DEFINE j == [job[w] EXCEPT !.step = "render"]
  <2>1. job' = [job EXCEPT ![w] = j]
    BY <1>8 DEF Edit, GoTo
  <2>2. j \in Jobs /\ j.step = "render" /\ j.op = "edit" /\ j.on = r
    BY <1>1, <1>8, StepFits DEF Steps
  <2> HIDE DEF j
  <2>3. JobFits(j) /\ ~Late(j) /\ KnowsNext(j, r)
    BY <2>2 DEF JobFits, KnowsNext, Late
  <2> HIDE DEF IInv
  <2> QED
    BY <1>4, <1>5, <1>7, <2>1, <2>3, JobStepKeeps
<1>9. CASE job[w].op # "edit"
  <2>1. job' = [job EXCEPT ![w] = Idle]
    BY <1>9 DEF Edit, Finish
  <2>2. JobFits(Idle) /\ ~Late(Idle) /\ KnowsNext(Idle, r)
    BY IdleFits DEF KnowsNext
  <2> HIDE DEF IInv
  <2> QED
    BY <1>4, <1>5, <1>7, <2>1, <2>2, JobStepKeeps
<1> QED
  BY <1>8, <1>9

\* generateEstimate, from the read of the request to the mail.
LEMMA EstimateKeeps ==
    ASSUME IInv, NEW w \in Actors, RenderEstimate(w) \/ UploadEstimate(w)
    PROVE  IInv'
<1>1. /\ job[w] \in Jobs /\ JobFits(job[w]) /\ On(w) \in InboundRequests /\ On(w) = job[w].on
      /\ job[w].step \in {"render", "upload"}
  <2>1. (At(w, "render") \/ At(w, "upload")) /\ ~At(w, "idle")
    BY DEF RenderEstimate, UploadEstimate, At
  <2> QED
    BY <2>1, JobFacts DEF At
<1> PICK r \in InboundRequests : r = On(w)
  BY <1>1
<1>2. UNCHANGED <<invVars, status, financial, free, content, made, offer, arrived, revised>>
  BY DEF RenderEstimate, UploadEstimate, historyVars
<1>3. Grows
  BY DEF RenderEstimate, UploadEstimate, historyVars, Grows
<1>4. content[r] \in ListType /\ (job[w].step = "upload" => job[w].list \in ListType)
  BY <1>1, ReadType DEF JobFits
<1>5. TypesFit'
  <2>1. estimate' \in [InboundRequests -> ListType \cup {None}]
    BY <1>1, <1>4 DEF RenderEstimate, UploadEstimate, At, IInv, TypesFit, TypeOK
  <2> QED
    BY <1>2, <2>1 DEF IInv, TypesFit, TypeOK, InvTypeOK, invVars
<1>6. ASSUME r \in Intact', job[w].op = "quote"
      PROVE  status'[r] \notin Early
  <2>1. r \in Intact
    BY <1>3, <1>6 DEF Intact, Grows
  <2> QED
    BY <1>1, <1>2, <1>6, <2>1 DEF IInv, Knows, Late, On
<1>7. CASE job' = [job EXCEPT ![w] = Idle]
  <2> HIDE DEF IInv
  <2> QED
    BY <1>2, <1>3, <1>5, <1>7, QuietEnd
<1>8. CASE job' # [job EXCEPT ![w] = Idle] /\ RenderEstimate(w)
  <2> DEFINE j == [job[w] EXCEPT !.step = "upload", !.list = content[r]]
  <2>1. job' = [job EXCEPT ![w] = j]
    BY <1>8 DEF RenderEstimate, Finish, IInv, JobsFit
  <2>2. j \in Jobs /\ j.step = "upload" /\ j.op = job[w].op /\ j.on = r /\ j.list = content[r]
    BY <1>1, <1>4 DEF Jobs, Steps
  <2> HIDE DEF j
  <2>3. JobFits(j)
    BY <1>4, <2>2 DEF JobFits
  <2>4. r \in Intact' => KnowsNext(j, r)
    BY <1>6, <2>2 DEF KnowsNext, Late, Shows
  <2> HIDE DEF IInv
  <2> QED
    BY <1>2, <1>3, <1>5, <2>1, <2>2, <2>3, <2>4, QuietKeeps
<1>9. CASE job' # [job EXCEPT ![w] = Idle] /\ UploadEstimate(w)
  <2> DEFINE j == [job[w] EXCEPT !.step = "send"]
  <2>1. job' = [job EXCEPT ![w] = j] /\ job[w].op = "quote" /\ job[w].step = "upload"
    BY <1>9 DEF UploadEstimate, Finish, GoTo, At
  <2>2. j \in Jobs /\ j.step = "send" /\ j.op = "quote" /\ j.on = r /\ j.list = job[w].list
    BY <1>1, <2>1, StepFits DEF Steps
  <2> HIDE DEF j
  <2>3. JobFits(j)
    BY <1>4, <2>1, <2>2 DEF JobFits
  <2>4. r \in Intact' => job[w].list = content[r]
    BY <1>9 DEF UploadEstimate, Intact
  <2>5. r \in Intact' => KnowsNext(j, r)
    BY <1>2, <1>6, <2>1, <2>2, <2>4 DEF KnowsNext
  <2> HIDE DEF IInv
  <2> QED
    BY <1>2, <1>3, <1>5, <2>1, <2>2, <2>3, <2>5, QuietKeeps
<1> QED
  BY <1>7, <1>8, <1>9

LEMMA SendKeeps ==
    ASSUME IInv, NEW w \in Actors, SendQuote(w)
    PROVE  IInv'
<1>1. /\ job[w] \in Jobs /\ JobFits(job[w]) /\ On(w) \in InboundRequests /\ On(w) = job[w].on
      /\ job[w].step = "send" /\ job[w].op = "quote" /\ job[w].list \in ListType
  <2>1. At(w, "send") /\ ~At(w, "idle")
    BY DEF SendQuote, At
  <2> QED
    BY <2>1, JobFacts DEF At, JobFits
<1> PICK r \in InboundRequests : r = On(w)
  BY <1>1
<1>2. /\ offer' = [offer EXCEPT ![r] = job[w].list] /\ job' = [job EXCEPT ![w] = Idle]
      /\ UNCHANGED <<invVars, requestVars, arrived, disturbed, revised>>
  BY DEF SendQuote, Finish
<1>3. TypesFit'
  BY <1>1, <1>2 DEF IInv, TypesFit, TypeOK, InvTypeOK, invVars, requestVars
<1>4. Grows /\ \A s \in InboundRequests \ {r} : Same(s)
  BY <1>2 DEF Grows, Same, IInv, TypesFit, requestVars
<1>5. ASSUME r \in Intact'
      PROVE  Kept(r) /\ RequestHolds(r)'
  <2>1. r \in Intact
    BY <1>2, <1>5 DEF Intact
  <2>2. status[r] \notin Early /\ job[w].list = content[r] /\ RequestHolds(r)
    BY <1>1, <2>1 DEF IInv, Knows, Late, Shows, On
  <2>3. offer'[r] = content[r]
    BY <1>2, <2>2 DEF IInv, TypesFit
  <2> QED
    BY <1>2, <2>2, <2>3 DEF Kept, RequestHolds, requestVars
<1>6. JobFits(Idle) /\ ~Late(Idle) /\ KnowsNext(Idle, r)
  BY IdleFits DEF KnowsNext
<1> HIDE DEF IInv
<1> QED
  BY <1>2, <1>3, <1>4, <1>5, <1>6, JobStepKeeps

------------------------------------------------------------------------------
(* The completion.                                                         *)

\* A step of the completion that keeps its request and list.
LEMMA ReceiptStepKeeps ==
    ASSUME IInv, NEW w \in Actors, TypesFit', NEW j \in Jobs, job' = [job EXCEPT ![w] = j],
           UNCHANGED <<status, content, offer, arrived, disturbed, revised>>,
           job[w].step \in {"items", "write"}, j.step \in {"items", "write"},
           j.op = job[w].op, j.on = job[w].on, j.list = job[w].list
    PROVE  IInv'
<1>1. job[w] \in Jobs /\ JobFits(job[w]) /\ job[w].on \in InboundRequests
  BY JobFacts DEF At
<1> PICK r \in InboundRequests : r = job[w].on
  BY <1>1
<1>2. JobFits(j)
  BY <1>1 DEF JobFits
<1>3. r \in Intact' => KnowsNext(j, r)
  BY DEF IInv, Intact, Knows, KnowsNext, Late, Shows, On
<1>4. Grows
  BY DEF Grows
<1> HIDE DEF IInv
<1> QED
  BY <1>2, <1>3, <1>4, QuietKeeps

LEMMA RowIsTyped ==
    ASSUME IInv, NEW w \in Actors, NEW a \in Assets
    PROVE  Row(w, a) \in RowType
<1>1. job[w].pend \in [Assets -> RowType]
  BY DEF IInv, JobsFit, Jobs
<1>2. total[a] \in Nat /\ avail[a] \in Nat
  BY DEF IInv, TypesFit, TypeOK, InvTypeOK
<1> QED
  BY <1>1, <1>2 DEF Row, RowType

LEMMA ItemsKeep ==
    ASSUME IInv, NEW w \in Actors, NEW k \in Places, ReadAsset(w, k) \/ MakeAsset(w, k)
    PROVE  IInv'
<1>1. job[w] \in Jobs /\ job[w].step = "items" /\ job[w].list \in ListType
  <2>1. At(w, "items") /\ ~At(w, "idle")
    BY DEF ReadAsset, MakeAsset, At
  <2> QED
    BY <2>1, JobFacts DEF At, JobFits
<1>2. UNCHANGED <<invVars, requestVars, historyVars>>
  BY DEF ReadAsset, MakeAsset
<1>3. TypesFit' /\ UNCHANGED <<status, content, offer, arrived, disturbed, revised>>
  BY <1>2 DEF IInv, TypesFit, TypeOK, InvTypeOK, invVars, requestVars, historyVars
<1>4. job[w].list[k].asset \in Assets \cup {Fresh} /\ job[w].list[k].qty \in Nat
  BY <1>1 DEF ListType, ItemType
<1>5. CASE ReadAsset(w, k)
  <2>1. PICK s \in RowType : s = Row(w, job[w].list[k].asset)
    BY <1>4, <1>5, RowIsTyped DEF ReadAsset
  <2> DEFINE j == [job[w] EXCEPT !.step = "write", !.item = k, !.seen = s]
  <2>2. job' = [job EXCEPT ![w] = j]
    BY <1>5, <2>1 DEF ReadAsset
  <2>3. j \in Jobs /\ j.step = "write" /\ j.op = job[w].op /\ j.on = job[w].on /\ j.list = job[w].list
    BY <1>1 DEF Jobs, Steps
  <2> HIDE DEF j, IInv
  <2> QED
    BY <1>1, <1>3, <2>2, <2>3, ReceiptStepKeeps
<1>6. CASE MakeAsset(w, k)
  <2>1. PICK n \in Nat : n = job[w].units + job[w].list[k].qty
    BY <1>1, <1>4 DEF Jobs
  <2> DEFINE j == [job[w] EXCEPT !.todo = job[w].todo \ {k}, !.units = n]
  <2>2. job' = [job EXCEPT ![w] = j]
    BY <1>6, <2>1 DEF MakeAsset
  <2>3. j \in Jobs /\ j.step = "items" /\ j.op = job[w].op /\ j.on = job[w].on /\ j.list = job[w].list
    BY <1>1 DEF Jobs
  <2> HIDE DEF j, IInv
  <2> QED
    BY <1>1, <1>3, <2>2, <2>3, ReceiptStepKeeps
<1> QED
  BY <1>5, <1>6

LEMMA WriteAssetKeeps ==
    ASSUME IInv, NEW w \in Actors, WriteAsset(w)
    PROVE  IInv'
<1>1. job[w] \in Jobs /\ job[w].step = "write" /\ job[w].list \in ListType
  <2>1. At(w, "write") /\ ~At(w, "idle")
    BY DEF WriteAsset, At
  <2> QED
    BY <2>1, JobFacts DEF At, JobFits
<1> DEFINE a == ItemOf(w).asset
           new == [total |-> job[w].seen.total + ItemOf(w).qty,
                   avail |-> job[w].seen.avail + ItemOf(w).qty]
<1>2. new \in RowType
  <2>1. job[w].item \in Places /\ job[w].seen \in RowType
    BY <1>1 DEF Jobs
  <2>2. ItemOf(w).qty \in Nat
    BY <1>1, <2>1 DEF ItemOf, ListType, ItemType
  <2> QED
    BY <2>1, <2>2 DEF RowType
<1>3. /\ UNCHANGED <<total, avail, booking, requestVars, offer, arrived, disturbed, revised>>
      /\ assetLock' = [assetLock EXCEPT ![a] = w]
  BY DEF WriteAsset
<1>4. TypesFit'
  <2>1. assetLock' \in [Assets -> Actors \cup {Nobody}]
    BY <1>3 DEF IInv, TypesFit, TypeOK, InvTypeOK
  <2> QED
    BY <1>3, <2>1 DEF IInv, TypesFit, TypeOK, InvTypeOK, requestVars
<1> DEFINE rows == [job[w].pend EXCEPT ![a] = new]
           j == [job[w] EXCEPT !.step = "items", !.todo = job[w].todo \ {job[w].item}, !.pend = rows]
<1>5. job' = [job EXCEPT ![w] = j]
  BY <1>1 DEF WriteAsset, IInv, JobsFit, Jobs
<1>6. rows \in [Assets -> RowType]
  <2>1. job[w].pend \in [Assets -> RowType]
    BY <1>1 DEF Jobs
  <2> HIDE DEF new, a
  <2> QED
    BY <1>2, <2>1
<1>7. j \in Jobs /\ j.step = "items" /\ j.op = job[w].op /\ j.on = job[w].on /\ j.list = job[w].list
  <2> HIDE DEF rows
  <2> QED
    BY <1>1, <1>6 DEF Jobs, Steps
<1>8. UNCHANGED <<status, content, offer, arrived, disturbed, revised>>
  BY <1>3 DEF requestVars
<1> HIDE DEF j, IInv
<1> QED
  BY <1>1, <1>4, <1>5, <1>7, <1>8, ReceiptStepKeeps

LEMMA CommitReceiptKeeps ==
    ASSUME IInv, NEW w \in Actors, CommitReceipt(w)
    PROVE  IInv'
<1> PICK r \in InboundRequests : r = On(w)
  <2>1. At(w, "items") /\ ~At(w, "idle")
    BY DEF CommitReceipt, At
  <2> QED
    BY <2>1, JobFacts DEF On
<1>1. /\ job[w] \in Jobs /\ job[w].step = "items" /\ job[w].list \in ListType
      /\ job[w].units \in Nat
  <2>1. At(w, "items") /\ ~At(w, "idle")
    BY DEF CommitReceipt, At
  <2>2. job[w] \in Jobs /\ job[w].step = "items" /\ job[w].list \in ListType
    BY <2>1, JobFacts DEF At, JobFits
  <2> QED
    BY <2>2 DEF Jobs
<1>2. /\ UNCHANGED <<booking, free, content, estimate, offer, revised>>
      /\ status' = [status EXCEPT ![r] = "COMPLETED"]
      /\ arrived' = [arrived EXCEPT ![r] = job[w].list]
      /\ job' = [job EXCEPT ![w] = Idle] /\ disturbed \subseteq disturbed'
  BY DEF CommitReceipt, Finish, Disturbed
<1>3. TypesFit'
  <2>1. total' \in [Assets -> Nat] /\ avail' \in [Assets -> Nat]
    <3>1. \A a \in Assets : Row(w, a).total \in Nat /\ Row(w, a).avail \in Nat
      BY RowIsTyped DEF RowType
    <3> QED
      BY <3>1 DEF CommitReceipt
  <2>2. assetLock' \in [Assets -> Actors \cup {Nobody}]
    BY DEF CommitReceipt, UnlockedBy, IInv, TypesFit, TypeOK, InvTypeOK
  <2>3. made' \in [InboundRequests -> Nat]
    <3>1. made' = [made EXCEPT ![r] = made[r] + job[w].units]
      BY DEF CommitReceipt
    <3>2. made[r] + job[w].units \in Nat
      BY <1>1 DEF IInv, TypesFit, TypeOK
    <3> QED
      BY <3>1, <3>2 DEF IInv, TypesFit, TypeOK
  <2>4. status' \in [InboundRequests -> Statuses]
    BY <1>2 DEF IInv, TypesFit, TypeOK, Statuses
  <2>5. financial' \in [InboundRequests -> FinancialStatuses]
    BY DEF CommitReceipt, IInv, TypesFit, TypeOK, FinancialStatuses
  <2>6. arrived' \in [InboundRequests -> ListType \cup {None}]
    BY <1>1, <1>2 DEF IInv, TypesFit
  <2> QED
    BY <1>2, <2>1, <2>2, <2>3, <2>4, <2>5, <2>6 DEF IInv, TypesFit, TypeOK, InvTypeOK
<1>4. Grows /\ \A s \in InboundRequests \ {r} : Same(s)
  BY <1>2 DEF Grows, Same, IInv, TypesFit, TypeOK
<1>5. status'[r] = "COMPLETED" /\ arrived'[r] = job[w].list
  BY <1>2 DEF IInv, TypesFit, TypeOK
<1>6. ASSUME r \in Intact'
      PROVE  Kept(r) /\ RequestHolds(r)'
  <2>1. r \in Intact
    BY <1>4, <1>6 DEF Intact, Grows
  <2>2. job[w].list = content[r] /\ RequestHolds(r)
    BY <1>1, <2>1 DEF IInv, Knows, Late, Shows, On
  <2> QED
    BY <1>2, <1>5, <2>2 DEF Kept, RequestHolds, Early
<1>7. JobFits(Idle) /\ ~Late(Idle) /\ KnowsNext(Idle, r)
  BY IdleFits DEF KnowsNext
<1> HIDE DEF IInv
<1> QED
  BY <1>2, <1>3, <1>4, <1>6, <1>7, JobStepKeeps

LEMMA CrashKeeps ==
    ASSUME IInv, NEW w \in Actors, Crash(w)
    PROVE  IInv'
<1>1. /\ UNCHANGED <<total, avail, booking, status, financial, free, content, made, estimate>>
      /\ UNCHANGED <<offer, arrived, disturbed, revised>>
      /\ job' = [job EXCEPT ![w] = Idle]
  BY DEF Crash, Finish, requestVars, historyVars
<1>2. assetLock' \in [Assets -> Actors \cup {Nobody}]
  BY DEF Crash, UnlockedBy, IInv, TypesFit, TypeOK, InvTypeOK
<1>3. TypesFit' /\ Grows
  BY <1>1, <1>2 DEF IInv, TypesFit, TypeOK, InvTypeOK, Grows
<1> HIDE DEF IInv
<1> QED
  BY <1>1, <1>3, QuietEnd

------------------------------------------------------------------------------
(* The steps of no handler.                                                *)

LEMMA CreateKeeps ==
    ASSUME IInv, NEW r \in InboundRequests, CreateInboundRequest(r)
    PROVE  IInv'
<1>1. /\ status[r] = "NONE" /\ status' = [status EXCEPT ![r] = "PRICING_REVIEW"]
      /\ UNCHANGED <<invVars, financial, free, content, made, estimate, job, offer, arrived,
                     disturbed, revised>>
  BY DEF CreateInboundRequest, historyVars
<1>2. status' \in [InboundRequests -> Statuses] /\ status'[r] = "PRICING_REVIEW"
  BY <1>1 DEF IInv, TypesFit, TypeOK, Statuses
<1>3. TypesFit'
  BY <1>1, <1>2 DEF IInv, TypesFit, TypeOK, InvTypeOK, invVars
<1>4. \A s \in InboundRequests \ {r} : status'[s] = status[s]
  BY <1>1 DEF IInv, TypesFit, TypeOK
<1>5. status[r] \in Early /\ status'[r] \in Early
  BY <1>1, <1>2 DEF Early
<1> HIDE DEF IInv
<1> QED
  BY <1>1, <1>3, <1>4, <1>5, OutsideKeeps

\* An order that books or releases.
LEMMA OrderKeeps ==
    ASSUME IInv, NEW h \in Holders, Book(h) \/ Release(h)
    PROVE  IInv'
<1>1. /\ UNCHANGED <<total, assetLock, status, financial, free, content, made, estimate>>
      /\ UNCHANGED <<offer, arrived, disturbed, revised>> /\ job' = job
  BY DEF Book, Release, requestVars, historyVars
<1>2. booking' \in [Holders -> [Assets -> Nat]]
  <2>1. [a \in Assets |-> IF Need[h][a] > 0 THEN Need[h][a] ELSE booking[h][a]] \in [Assets -> Nat]
    BY NeedType DEF IInv, TypesFit, TypeOK, InvTypeOK
  <2>2. [a \in Assets |-> 0] \in [Assets -> Nat]
    OBVIOUS
  <2> QED
    BY <2>1, <2>2 DEF Book, Release, InsertRows, DeleteRows, IInv, TypesFit, TypeOK, InvTypeOK
<1>3. avail' \in [Assets -> Nat]
  <2>1. ASSUME NEW a \in Assets
        PROVE  /\ AtLeastZero(avail[a] - Need[h][a]) \in Nat
               /\ AtMost(total[a], AtLeastZero(avail[a] + booking[h][a])) \in Nat
               /\ avail[a] \in Nat
    BY NeedType DEF AtLeastZero, AtMost, IInv, TypesFit, TypeOK, InvTypeOK
  <2> QED
    BY <2>1 DEF Book, Release, Decrement, Restored
<1>4. TypesFit'
  BY <1>1, <1>2, <1>3 DEF IInv, TypesFit, TypeOK, InvTypeOK
<1> HIDE DEF IInv
<1> QED
  BY <1>1, <1>4, OutsideKeeps

------------------------------------------------------------------------------
(* The theorems.                                                           *)

LEMMA InitHolds == Init => IInv
<1> SUFFICES ASSUME Init
             PROVE  IInv
  OBVIOUS
<1>1. TypesFit
  <2>1. Submitted \in [InboundRequests -> ListType]
    BY SubmittedType DEF ListType, ItemType
  <2>2. InvTypeOK
    BY StockType DEF Init, InvInit, InvTypeOK
  <2> QED
    BY <2>1, <2>2 DEF Init, TypesFit, TypeOK, Statuses, FinancialStatuses
<1>2. JobsFit
  <2>1. JobFits(Idle) /\ Idle \in Jobs
    BY IdleFits DEF JobFits
  <2> QED
    BY <2>1 DEF Init, JobsFit
<1>3. \A r \in InboundRequests : RequestHolds(r)
  BY DEF Init, RequestHolds
<1>4. \A w \in Actors : ~Late(job[w])
  BY IdleFits DEF Init
<1> QED
  BY <1>1, <1>2, <1>3, <1>4 DEF IInv, Intact, Knows

LEMMA NextKeeps == IInv /\ [Next]_vars => IInv'
<1> SUFFICES ASSUME IInv, [Next]_vars
             PROVE  IInv'
  OBVIOUS
<1>1. ASSUME NEW w \in Actors, BeginAny(w) \/ Resume(w) \/ Crash(w)
      PROVE  IInv'
  <2>1. CASE Resume(w)
    BY <2>1, MoveKeeps, EditKeeps, EstimateKeeps, SendKeeps, ItemsKeep, WriteAssetKeeps,
       CommitReceiptKeeps DEF Resume
  <2> QED
    BY <1>1, <2>1, BeginAnyKeeps, CrashKeeps
<1>2. CASE UNCHANGED vars
  <2>1. /\ UNCHANGED <<total, avail, booking, assetLock, status, financial, free, content, made,
                       estimate, job, offer, arrived, disturbed, revised>>
    BY <1>2 DEF vars, invVars, requestVars, historyVars
  <2>2. TypesFit'
    BY <2>1 DEF IInv, TypesFit, TypeOK, InvTypeOK
  <2> HIDE DEF IInv
  <2> QED
    BY <2>1, <2>2, OutsideKeeps
<1> HIDE DEF IInv
<1> QED
  BY <1>1, <1>2, CreateKeeps, OrderKeeps DEF Next

\* The variables keep their types.
THEOREM TypeCorrect == Spec => []TypeOK
<1>1. IInv => TypeOK
  BY DEF IInv, TypesFit
<1> QED
  BY <1>1, InitHolds, NextKeeps, PTL DEF Spec

\* However the handlers of a request interleave, each with what it read at its
\* start, and wherever one dies: a request that no handler wrote against its
\* check and no staff changed after the quote asks for what the client was sent,
\* and is completed with just that (approveInboundRequestByAdmin,
\* completeInboundRequest).
THEOREM QuotesHold == Spec => []QuotedIsReceived
<1>1. IInv => QuotedIsReceived
  BY DEF IInv, Intact, RequestHolds, QuotedIsReceived
<1> QED
  BY <1>1, InitHolds, NextKeeps, PTL DEF Spec

------------------------------------------------------------------------------
(* The stock: the inductive invariant of StockAddsUp.                      *)

\* Every two orders book the same days.
AllMeet == \A g, h \in Holders, a \in Assets : Overlaps(g, h, a)

AtReceipt(j) == j.step \in {"items", "write"}

\* The units of the items that a completion has dealt with.
DoneAt(j, k, a) == IF k \in j.todo THEN 0 ELSE UnitsAt(j.list, k, a)
Done(j, a) == DoneAt(j, 1, a) + DoneAt(j, 2, a)

LedgerHolds(a) ==
    /\ total[a] = Stock[a] + Received(a)
    /\ AllMeet => avail[a] = total[a] - Booked(a, Holders)

RequestAdds(r) ==
    /\ (arrived[r] # None) = (status[r] = "COMPLETED")
    /\ made[r] = ReceivedInto(arrived[r], Fresh)

\* What the transaction of w has written of a on top of the committed row.
PendingFits(w, a) ==
    IF assetLock[a] = w
    THEN a \notin lost => job[w].pend[a] = [total |-> total[a] + Done(job[w], a),
                                            avail |-> avail[a] + Done(job[w], a)]
    ELSE Done(job[w], a) = 0

\* The item that is being written is not dealt with, and has been read from
\* what the transaction has written before.
WriteFits(w) ==
    /\ job[w].item \in job[w].todo /\ ItemOf(w).asset \in Assets
    /\ assetLock[ItemOf(w).asset] = w => job[w].seen = job[w].pend[ItemOf(w).asset]

ReceiptFits(w) ==
    /\ job[w].op = "complete" /\ job[w].units = Done(job[w], Fresh)
    /\ \A a \in Assets : PendingFits(w, a)
    /\ job[w].step = "write" => WriteFits(w)

StockFits ==
    /\ \A a \in Assets \ lost : LedgerHolds(a)
    /\ \A r \in InboundRequests : RequestAdds(r)
    /\ \A w \in Actors : AtReceipt(job[w]) => ReceiptFits(w)
    /\ \A w \in Actors, a \in Assets : assetLock[a] = w => AtReceipt(job[w])
    /\ \A h \in Holders, a \in Assets : booking[h][a] \in {0, Need[h][a]}

SInv == disturbed = {} => StockFits

------------------------------------------------------------------------------
(* Units and lists.                                                        *)

LEMMA UnitsType ==
    ASSUME NEW list \in ListType \cup {None}, NEW k \in Places, NEW a
    PROVE  /\ UnitsAt(list, k, a) \in Nat /\ ReceivedInto(list, a) \in Nat
           /\ list = None => ReceivedInto(list, a) = 0
           /\ list \in ListType => list # None /\ DOMAIN list = Places
<1>1. CASE list = None
  <2>1. DOMAIN list = {}
    BY <1>1 DEF None
  <2> QED
    BY <1>1, <2>1 DEF UnitsAt, ReceivedInto, ListType, Places
<1>2. CASE list \in ListType
  <2>1. DOMAIN list = Places /\ \A i \in Places : list[i].qty \in Nat
    BY <1>2 DEF ListType, ItemType
  <2>2. list # None
    <3>1. DOMAIN None = {} /\ 1 \in Places
      BY DEF None, Places
    <3> QED
      BY <2>1, <3>1
  <2>3. UnitsAt(list, k, a) \in Nat /\ UnitsAt(list, 1, a) \in Nat /\ UnitsAt(list, 2, a) \in Nat
    BY <2>1 DEF UnitsAt, Places
  <2> QED
    BY <2>1, <2>2, <2>3 DEF ReceivedInto
<1> QED
  BY <1>1, <1>2

\* One item dealt with.
LEMMA DoneAfterOne ==
    ASSUME NEW i \in Jobs, NEW j \in Jobs, i.list \in ListType, j.list = i.list,
           NEW k \in i.todo, j.todo = i.todo \ {k}, NEW a
    PROVE  /\ Done(j, a) = Done(i, a) + UnitsAt(i.list, k, a)
           /\ Done(i, a) \in Nat
<1>1. i.todo \subseteq Places
  BY DEF Jobs
<1>2. UnitsAt(i.list, 1, a) \in Nat /\ UnitsAt(i.list, 2, a) \in Nat
  BY UnitsType DEF Places
<1>3. k = 1 \/ k = 2
  BY <1>1 DEF Places
<1> QED
  BY <1>2, <1>3 DEF Done, DoneAt

LEMMA DoneAtEnds ==
    ASSUME NEW j \in Jobs, j.list \in ListType, NEW a
    PROVE  /\ j.todo = Present(j.list) => Done(j, a) = 0
           /\ j.todo = {} => Done(j, a) = ReceivedInto(j.list, a)
<1>1. UnitsAt(j.list, 1, a) \in Nat /\ UnitsAt(j.list, 2, a) \in Nat
  BY UnitsType DEF Places
<1>2. ASSUME NEW k \in Places, k \notin Present(j.list)
      PROVE  UnitsAt(j.list, k, a) = 0
  <2>1. j.list[k].qty \in Nat /\ ~(j.list[k].qty > 0)
    BY <1>2 DEF Present, ListType, ItemType
  <2> QED
    BY <2>1 DEF UnitsAt
<1>3. ASSUME j.todo = Present(j.list)
      PROVE  DoneAt(j, 1, a) = 0 /\ DoneAt(j, 2, a) = 0
  BY <1>2, <1>3 DEF DoneAt, Places
<1> QED
  BY <1>1, <1>3 DEF Done, DoneAt, ReceivedInto

\* The request r comes with the items of list.
LEMMA ReceivedAfter ==
    ASSUME arrived \in [InboundRequests -> ListType \cup {None}], NEW r \in InboundRequests,
           arrived[r] = None, NEW list \in ListType, arrived' = [arrived EXCEPT ![r] = list], NEW a
    PROVE  Received(a)' = Received(a) + ReceivedInto(list, a) /\ Received(a) \in Nat
<1> DEFINE m == [s \in InboundRequests |-> ReceivedInto(arrived'[s], a)]
           n == [s \in InboundRequests |-> ReceivedInto(arrived[s], a)]
<1>1. arrived' \in [InboundRequests -> ListType \cup {None}]
  OBVIOUS
<1>2. ASSUME NEW s \in InboundRequests
      PROVE  m[s] \in Nat /\ n[s] \in Nat
  BY <1>1, UnitsType DEF Places
<1>3. \A s \in InboundRequests \ {r} : m[s] = n[s]
  OBVIOUS
<1>4. m[r] = ReceivedInto(list, a) /\ n[r] = 0
  BY UnitsType DEF Places
<1>5. /\ Received(a)' = Cardinality(CountedUnits(m, InboundRequests))
      /\ Received(a) = Cardinality(CountedUnits(n, InboundRequests))
  BY DEF Received, CountedUnits
<1> HIDE DEF m, n
<1>6. \A s \in InboundRequests : m[s] \in Nat /\ n[s] \in Nat
  BY <1>2
<1>7. /\ Cardinality(CountedUnits(m, InboundRequests))
           = Cardinality(CountedUnits(n, InboundRequests)) + m[r] - n[r]
      /\ Cardinality(CountedUnits(n, InboundRequests)) \in Nat
  BY <1>3, <1>6, RequestsFinite, CountAfterChange, CountIsFinite
<1>8. m[r] \in Nat
  BY <1>6
<1> QED
  BY <1>4, <1>5, <1>7, <1>8

------------------------------------------------------------------------------
(* What a step leaves of the stock.                                        *)

\* A completion that does not step, if no row that it holds is written.
LEMMA OtherReceipt ==
    ASSUME NEW v \in Actors, ReceiptFits(v), job'[v] = job[v], lost \subseteq lost',
           \A a \in Assets : assetLock'[a] = v <=> assetLock[a] = v,
           \A a \in Assets : assetLock[a] = v => total'[a] = total[a] /\ avail'[a] = avail[a]
    PROVE  ReceiptFits(v)'
<1>1. \A a : Done(job[v], a)' = Done(job[v], a)
  BY DEF Done, DoneAt
<1>2. ASSUME NEW a \in Assets
      PROVE  PendingFits(v, a)'
  <2>1. PendingFits(v, a)
    BY DEF ReceiptFits
  <2> QED
    BY <1>1, <2>1 DEF PendingFits
<1>3. job[v].step = "write" => WriteFits(v)'
  <2>1. job[v].step = "write" => WriteFits(v)
    BY DEF ReceiptFits
  <2> QED
    BY <2>1 DEF WriteFits, ItemOf
<1>4. (job[v].op = "complete")' /\ (job[v].units = Done(job[v], Fresh))'
  BY <1>1 DEF ReceiptFits
<1> QED
  BY <1>2, <1>3, <1>4 DEF ReceiptFits

\* The step of w, which is not at a completion before or after it, or says how
\* the completion stands.
LEMMA StockStepKeeps ==
    ASSUME StockFits, IInv, NEW w \in Actors, NEW j, job' = [job EXCEPT ![w] = j],
           \A a \in Assets : assetLock'[a] = assetLock[a], UNCHANGED <<total, avail, booking>>,
           UNCHANGED <<arrived, made, lost>>,
           \A r \in InboundRequests : status'[r] = "COMPLETED" <=> status[r] = "COMPLETED",
           AtReceipt(job[w]) => AtReceipt(j), AtReceipt(j) => ReceiptFits(w)'
    PROVE  StockFits'
<1>1. job'[w] = j /\ \A v \in Actors \ {w} : job'[v] = job[v]
  BY DEF IInv, JobsFit
<1>2. ASSUME NEW a \in Assets \ lost'
      PROVE  LedgerHolds(a)'
  <2>1. LedgerHolds(a)
    BY DEF StockFits
  <2>2. Received(a)' = Received(a) /\ Booked(a, Holders)' = Booked(a, Holders)
    BY DEF Received, Booked, Units
  <2> QED
    BY <2>1, <2>2 DEF LedgerHolds
<1>3. ASSUME NEW r \in InboundRequests
      PROVE  RequestAdds(r)'
  BY DEF StockFits, RequestAdds
<1>4. ASSUME NEW v \in Actors, AtReceipt(job'[v])
      PROVE  ReceiptFits(v)'
  <2>1. CASE v = w
    BY <1>1, <1>4, <2>1
  <2>2. CASE v # w
    <3>1. ReceiptFits(v) /\ job'[v] = job[v]
      BY <1>1, <1>4, <2>2 DEF StockFits
    <3> QED
      BY <3>1, OtherReceipt
  <2> QED
    BY <2>1, <2>2
<1>5. ASSUME NEW v \in Actors, NEW a \in Assets, assetLock'[a] = v
      PROVE  AtReceipt(job'[v])
  BY <1>1, <1>5 DEF StockFits
<1>6. \A v : AtReceipt(job[v])' <=> AtReceipt(job'[v])
  BY DEF AtReceipt
<1> QED
  BY <1>2, <1>3, <1>4, <1>5, <1>6 DEF StockFits

\* A handler that has nothing to do with stock.
LEMMA QuietStock ==
    ASSUME StockFits, IInv, NEW w \in Actors, NEW j, job' = [job EXCEPT ![w] = j],
           UNCHANGED <<total, avail, booking, assetLock, arrived, made, lost>>,
           \A r \in InboundRequests : status'[r] = "COMPLETED" <=> status[r] = "COMPLETED",
           ~AtReceipt(job[w]), ~AtReceipt(j)
    PROVE  StockFits'
<1> HIDE DEF IInv
<1> QED
  BY StockStepKeeps

------------------------------------------------------------------------------
(* The stock: one lemma per kind of step.                                  *)

LEMMA IdleIsQuiet ==
    ~AtReceipt(Idle)
BY DEF AtReceipt, Idle

LEMMA BeginStock ==
    ASSUME StockFits, IInv, NEW w \in Actors, NEW r \in InboundRequests, NEW j,
           j.step \in {"move", "edit", "render"}, Begin(w, j)
    PROVE  StockFits'
<1>1. ~AtReceipt(job[w]) /\ ~AtReceipt(j)
  BY DEF Begin, At, AtReceipt
<1>2. /\ job' = [job EXCEPT ![w] = j]
      /\ UNCHANGED <<total, avail, booking, assetLock, status, arrived, made, lost>>
  BY DEF Begin, invVars, requestVars, historyVars
<1> HIDE DEF IInv
<1> QED
  BY <1>1, <1>2, QuietStock

LEMMA BeginCompleteStock ==
    ASSUME StockFits, IInv, NEW w \in Actors, NEW r \in InboundRequests, BeginComplete(w, r)
    PROVE  StockFits'
<1>1. PICK i \in Jobs : /\ i = JobFor("complete", r, "items")
                       /\ i.op = "complete" /\ i.on = r /\ i.step = "items"
  BY JobForType DEF Ops, Steps
<1>2. i.units = 0
  BY <1>1 DEF JobFor, Idle
<1> DEFINE j == [i EXCEPT !.list = content[r], !.todo = Present(content[r])]
<1>3. content[r] \in ListType /\ Present(content[r]) \subseteq Places
  BY ReadType DEF Present
<1>4. /\ j \in Jobs /\ j.op = "complete" /\ j.step = "items" /\ j.units = 0
      /\ j.list \in ListType /\ j.todo = Present(j.list)
  BY <1>1, <1>2, <1>3 DEF Jobs
<1>5. At(w, "idle") /\ job' = [job EXCEPT ![w] = j]
      /\ UNCHANGED <<invVars, requestVars, historyVars>>
  BY <1>1 DEF BeginComplete, Begin
<1> HIDE DEF j
<1>6. job'[w] = j
  BY <1>5 DEF IInv, JobsFit
<1>7. ~AtReceipt(job[w])
  BY <1>5 DEF At, AtReceipt
<1>8. \A a : Done(j, a) = 0
  BY <1>4, DoneAtEnds
<1>9. \A a \in Assets : assetLock'[a] = assetLock[a] /\ assetLock[a] # w
  BY <1>5, <1>7 DEF StockFits, invVars
<1>10. ReceiptFits(w)'
  <2>1. \A a \in Assets : PendingFits(w, a)'
    BY <1>6, <1>8, <1>9 DEF PendingFits
  <2>2. (job[w].op = "complete" /\ job[w].units = Done(job[w], Fresh))'
    BY <1>4, <1>6, <1>8
  <2>3. ~(job[w].step = "write")'
    BY <1>4, <1>6
  <2> QED
    BY <2>1, <2>2, <2>3 DEF ReceiptFits
<1>11. UNCHANGED <<total, avail, booking, arrived, made, lost, status>>
  BY <1>5 DEF invVars, requestVars, historyVars
<1> HIDE DEF IInv
<1> QED
  BY <1>5, <1>7, <1>9, <1>10, <1>11, StockStepKeeps

LEMMA BeginAnyStock ==
    ASSUME StockFits, IInv, NEW w \in Actors, BeginAny(w)
    PROVE  StockFits'
<1> PICK r \in InboundRequests :
      \/ BeginSubmitForApproval(w, r) \/ BeginApprove(w, r) \/ BeginClientDecision(w, r)
      \/ BeginMarkAsNoCost(w, r) \/ BeginCancel(w, r) \/ BeginPrice(w, r) \/ BeginComplete(w, r)
      \/ \E staff \in {FALSE, StaffEdits} :
          \/ \E k \in Places, q \in Quantities : BeginEditItem(w, r, staff, k, q)
          \/ \E list \in Revisions[r] : BeginUpdate(w, r, staff, list)
  BY DEF BeginAny
<1>1. ASSUME NEW op \in Ops, NEW step \in {"move", "render", "edit"}
      PROVE  /\ JobFor(op, r, step) \in Jobs
             /\ JobFor(op, r, step).step = step
  BY JobForType DEF Steps
<1>2. ASSUME NEW op \in {"submit", "quote", "accept", "decline", "noCost", "cancel"},
             BeginMove(w, op, r)
      PROVE  StockFits'
  <2>1. Begin(w, JobFor(op, r, "move")) /\ JobFor(op, r, "move").step = "move"
    BY <1>1, <1>2 DEF BeginMove, Ops
  <2> HIDE DEF IInv
  <2> QED
    BY <2>1, BeginStock
<1>3. CASE BeginPrice(w, r)
  <2>1. Begin(w, JobFor("price", r, "render")) /\ JobFor("price", r, "render").step = "render"
    BY <1>1, <1>3 DEF BeginPrice, Ops
  <2> HIDE DEF IInv
  <2> QED
    BY <2>1, BeginStock
<1>4. ASSUME NEW staff \in {FALSE, StaffEdits}, NEW k \in Places, NEW q \in Quantities,
             BeginEditItem(w, r, staff, k, q)
      PROVE  StockFits'
  <2>1. PICK i \in Jobs : i = JobFor("edit", r, "edit") /\ i.step = "edit"
    BY <1>1 DEF Ops
  <2> DEFINE j == [i EXCEPT !.staff = staff, !.item = k, !.qty = q]
  <2>2. Begin(w, j) /\ j.step = "edit"
    BY <1>4, <2>1 DEF BeginEditItem, Jobs
  <2> HIDE DEF IInv, j
  <2> QED
    BY <2>2, BeginStock
<1>5. ASSUME NEW staff \in {FALSE, StaffEdits}, NEW list \in Revisions[r],
             BeginUpdate(w, r, staff, list)
      PROVE  StockFits'
  <2>1. PICK i \in Jobs : i = JobFor("update", r, "edit") /\ i.step = "edit"
    BY <1>1 DEF Ops
  <2> DEFINE j == [i EXCEPT !.staff = staff, !.list = list]
  <2>2. Begin(w, j) /\ j.step = "edit"
    BY <1>5, <2>1 DEF BeginUpdate, Jobs
  <2> HIDE DEF IInv, j
  <2> QED
    BY <2>2, BeginStock
<1> QED
  BY <1>2, <1>3, <1>4, <1>5, BeginCompleteStock
     DEF BeginSubmitForApproval, BeginApprove, BeginClientDecision, BeginMarkAsNoCost, BeginCancel

\* A request that is moved against its check is disturbed: no other is completed
\* by it, or no longer completed.
LEMMA MoveStock ==
    ASSUME StockFits, IInv, NEW w \in Actors, Move(w), disturbed' = {}
    PROVE  StockFits'
<1>1. /\ job[w] \in Jobs /\ JobFits(job[w]) /\ On(w) \in InboundRequests /\ On(w) = job[w].on
      /\ job[w].step = "move" /\ job[w].op \in DOMAIN Moved
  <2>1. At(w, "move") /\ ~At(w, "idle")
    BY DEF Move, At
  <2> QED
    BY <2>1, JobFacts DEF JobFits, At
<1> PICK r \in InboundRequests : r = On(w)
  BY <1>1
<1> PICK op \in DOMAIN Moved : op = job[w].op
  BY <1>1
<1>2. /\ status' = [status EXCEPT ![r] = Moved[op]] /\ disturbed' = Disturbed(w)
      /\ UNCHANGED <<invVars, made, arrived, lost>>
  BY DEF Move
<1>3. Passes(op, r, job[w].staff)
  BY <1>2 DEF Disturbed, Outlived
<1>4. status[r] # "COMPLETED" /\ Moved[op] # "COMPLETED"
  BY <1>3 DEF Passes, Moved, Expected, Open, INBOUND_NO_COST_ALLOWED_STATUSES
<1>5. \A s \in InboundRequests : status'[s] = "COMPLETED" <=> status[s] = "COMPLETED"
  BY <1>2, <1>4 DEF IInv, TypesFit, TypeOK
<1>6. PICK j : job' = [job EXCEPT ![w] = j] /\ ~AtReceipt(j)
  <2>1. CASE op = "quote"
    <3> DEFINE j == [job[w] EXCEPT !.step = "render"]
    <3>1. job' = [job EXCEPT ![w] = j]
      BY <2>1 DEF Move, GoTo
    <3>2. j.step = "render"
      BY <1>1 DEF Jobs
    <3> QED
      BY <3>1, <3>2 DEF AtReceipt
  <2>2. CASE op # "quote"
    BY <2>2, IdleIsQuiet DEF Move, Finish
  <2> QED
    BY <2>1, <2>2
<1>7. ~AtReceipt(job[w])
  BY <1>1 DEF AtReceipt
<1>8. UNCHANGED <<total, avail, booking, assetLock, arrived, made, lost>>
  BY <1>2 DEF invVars
<1> HIDE DEF IInv
<1> QED
  BY <1>5, <1>6, <1>7, <1>8, QuietStock

LEMMA PaperStock ==
    ASSUME StockFits, IInv, NEW w \in Actors,
           Edit(w) \/ RenderEstimate(w) \/ UploadEstimate(w) \/ SendQuote(w)
    PROVE  StockFits'
<1>1. job[w] \in Jobs /\ ~AtReceipt(job[w])
  <2>1. ~At(w, "idle") /\ ~AtReceipt(job[w])
    BY DEF Edit, RenderEstimate, UploadEstimate, SendQuote, At, AtReceipt
  <2> QED
    BY <2>1, JobFacts
<1>2. UNCHANGED <<total, avail, booking, assetLock, status, arrived, made, lost>>
  BY DEF Edit, RenderEstimate, UploadEstimate, SendQuote, invVars, requestVars, historyVars
<1>3. ASSUME NEW step \in {"render", "send"}, GoTo(w, step)
      PROVE  \E j : job' = [job EXCEPT ![w] = j] /\ ~AtReceipt(j)
  <2> DEFINE j == [job[w] EXCEPT !.step = step]
  <2>1. job' = [job EXCEPT ![w] = j]
    BY <1>3 DEF GoTo
  <2>2. j.step = step
    BY <1>1 DEF Jobs
  <2> QED
    BY <2>1, <2>2 DEF AtReceipt
<1>4. ASSUME Finish(w)
      PROVE  \E j : job' = [job EXCEPT ![w] = j] /\ ~AtReceipt(j)
  BY <1>4, IdleIsQuiet DEF Finish
<1>5. ASSUME job' = [job EXCEPT ![w].step = "upload", ![w].list = content[On(w)]]
      PROVE  \E j : job' = [job EXCEPT ![w] = j] /\ ~AtReceipt(j)
  <2> DEFINE j == [job[w] EXCEPT !.step = "upload", !.list = content[On(w)]]
  <2>1. job' = [job EXCEPT ![w] = j]
    BY <1>5 DEF IInv, JobsFit
  <2>2. j.step = "upload"
    BY <1>1 DEF Jobs
  <2> QED
    BY <2>1, <2>2 DEF AtReceipt
<1>6. PICK j : job' = [job EXCEPT ![w] = j] /\ ~AtReceipt(j)
  BY <1>3, <1>4, <1>5 DEF Edit, RenderEstimate, UploadEstimate, SendQuote
<1> HIDE DEF IInv
<1> QED
  BY <1>1, <1>2, <1>6, QuietStock

\* A completion at work.
LEMMA ReceiptFacts ==
    ASSUME StockFits, IInv, NEW w \in Actors, AtReceipt(job[w])
    PROVE  /\ job[w] \in Jobs /\ job[w].list \in ListType /\ On(w) = job[w].on
           /\ On(w) \in InboundRequests /\ ReceiptFits(w)
           /\ \A k \in Places : /\ job[w].list[k].asset \in Assets \cup {Fresh}
                                /\ job[w].list[k].qty \in Nat
                                /\ \A a : UnitsAt(job[w].list, k, a)
                                     = IF job[w].list[k].asset = a THEN job[w].list[k].qty ELSE 0
<1>1. job[w].step \in {"items", "write"} /\ ~At(w, "idle")
  BY DEF AtReceipt, At
<1>2. job[w] \in Jobs /\ job[w].list \in ListType /\ On(w) \in InboundRequests /\ On(w) = job[w].on
  BY <1>1, JobFacts DEF JobFits
<1>3. \A k \in Places : /\ job[w].list[k].asset \in Assets \cup {Fresh}
                        /\ job[w].list[k].qty \in Nat /\ k \in DOMAIN job[w].list
  BY <1>2 DEF ListType, ItemType
<1>4. ReceiptFits(w)
  BY DEF StockFits
<1> QED
  BY <1>2, <1>3, <1>4 DEF UnitsAt

LEMMA ReadStock ==
    ASSUME StockFits, IInv, NEW w \in Actors, NEW k \in Places, ReadAsset(w, k)
    PROVE  StockFits'
<1>1. AtReceipt(job[w]) /\ job[w].step = "items"
  BY DEF ReadAsset, At, AtReceipt
<1>2. /\ job[w] \in Jobs /\ job[w].list \in ListType /\ ReceiptFits(w)
      /\ job[w].list[k].asset \in Assets \cup {Fresh}
  BY <1>1, ReceiptFacts
<1> PICK a : a = job[w].list[k].asset
  OBVIOUS
<1>3. a \in Assets /\ k \in job[w].todo
  BY <1>2, FreshType DEF ReadAsset
<1>4. PICK s \in RowType : s = Row(w, a)
  BY <1>3, RowIsTyped
<1> DEFINE j == [job[w] EXCEPT !.step = "write", !.item = k, !.seen = s]
<1>5. job' = [job EXCEPT ![w] = j]
  BY <1>4 DEF ReadAsset, IInv, JobsFit
<1>6. /\ j.step = "write" /\ j.op = job[w].op /\ j.list = job[w].list /\ j.todo = job[w].todo
      /\ j.item = k /\ j.seen = s /\ j.pend = job[w].pend /\ j.units = job[w].units
  BY <1>2 DEF Jobs
<1> HIDE DEF j
<1>7. job'[w] = j
  BY <1>5 DEF IInv, JobsFit
<1>8. UNCHANGED <<total, avail, booking, assetLock, status, arrived, made, lost>>
  BY DEF ReadAsset, invVars, requestVars, historyVars
<1>9. \A b : Done(job[w], b)' = Done(job[w], b)
  BY <1>6, <1>7 DEF Done, DoneAt
<1>10. ReceiptFits(w)'
  <2>1. ASSUME NEW b \in Assets
        PROVE  PendingFits(w, b)'
    <3>1. PendingFits(w, b)
      BY <1>2 DEF ReceiptFits
    <3> QED
      BY <1>6, <1>7, <1>8, <1>9, <3>1 DEF PendingFits
  <2>2. WriteFits(w)'
    <3>1. (ItemOf(w).asset)' = a
      BY <1>6, <1>7 DEF ItemOf
    <3>2. assetLock[a] = w => s = job[w].pend[a]
      BY <1>4 DEF Row
    <3> QED
      BY <1>3, <1>6, <1>7, <1>8, <3>1, <3>2 DEF WriteFits
  <2>3. (job[w].op = "complete" /\ job[w].units = Done(job[w], Fresh))'
    BY <1>2, <1>6, <1>7, <1>9 DEF ReceiptFits
  <2> QED
    BY <2>1, <2>2, <2>3 DEF ReceiptFits
<1>11. AtReceipt(j)
  BY <1>6 DEF AtReceipt
<1> HIDE DEF IInv
<1> QED
  BY <1>5, <1>8, <1>10, <1>11, StockStepKeeps

LEMMA MakeStock ==
    ASSUME StockFits, IInv, NEW w \in Actors, NEW k \in Places, MakeAsset(w, k)
    PROVE  StockFits'
<1>1. AtReceipt(job[w]) /\ job[w].step = "items"
  BY DEF MakeAsset, At, AtReceipt
<1>2. /\ job[w] \in Jobs /\ job[w].list \in ListType /\ ReceiptFits(w)
      /\ \A a : UnitsAt(job[w].list, k, a)
             = IF job[w].list[k].asset = a THEN job[w].list[k].qty ELSE 0
  BY <1>1, ReceiptFacts
<1>3. PICK n \in Nat : n = job[w].units + job[w].list[k].qty
  BY <1>1, <1>2, ReceiptFacts DEF Jobs
<1> DEFINE j == [job[w] EXCEPT !.todo = job[w].todo \ {k}, !.units = n]
<1>4. job' = [job EXCEPT ![w] = j]
  BY <1>3 DEF MakeAsset, IInv, JobsFit
<1>5. /\ j \in Jobs /\ j.step = "items" /\ j.op = job[w].op /\ j.list = job[w].list
      /\ j.todo = job[w].todo \ {k} /\ j.pend = job[w].pend /\ j.units = n
  BY <1>1, <1>2 DEF Jobs
<1> HIDE DEF j
<1>6. job'[w] = j
  BY <1>4 DEF IInv, JobsFit
<1>7. /\ UNCHANGED <<total, avail, booking, assetLock, status, arrived, made, lost>>
      /\ k \in job[w].todo /\ job[w].list[k].asset = Fresh
  BY DEF MakeAsset, invVars, requestVars, historyVars
<1>8. \A a : Done(j, a) = Done(job[w], a) + UnitsAt(job[w].list, k, a) /\ Done(job[w], a) \in Nat
  BY <1>2, <1>5, <1>7, DoneAfterOne
<1>9. \A a \in Assets : Done(j, a) = Done(job[w], a)
  BY <1>2, <1>7, <1>8, FreshType
<1>10. ReceiptFits(w)'
  <2>1. ASSUME NEW a \in Assets
        PROVE  PendingFits(w, a)'
    <3>1. PendingFits(w, a)
      BY <1>2 DEF ReceiptFits
    <3> QED
      BY <1>5, <1>6, <1>7, <1>9, <3>1 DEF PendingFits
  <2>2. n = Done(j, Fresh)
    BY <1>2, <1>3, <1>7, <1>8 DEF ReceiptFits
  <2>3. (job[w].op = "complete" /\ job[w].units = Done(job[w], Fresh) /\ job[w].step # "write")'
    BY <1>2, <1>5, <1>6, <2>2 DEF ReceiptFits
  <2> QED
    BY <2>1, <2>3 DEF ReceiptFits
<1>11. AtReceipt(j)
  BY <1>5 DEF AtReceipt
<1> HIDE DEF IInv
<1> QED
  BY <1>4, <1>7, <1>10, <1>11, StockStepKeeps

\* A step of w that takes or frees the locks of rows and commits nothing.
LEMMA LockStepKeeps ==
    ASSUME StockFits, IInv, NEW w \in Actors, NEW j, job' = [job EXCEPT ![w] = j],
           UNCHANGED <<total, avail, booking, status, arrived, made>>, lost \subseteq lost',
           \A a \in Assets : assetLock'[a] = assetLock[a]
                               \/ {assetLock[a], assetLock'[a]} \subseteq {w, Nobody},
           AtReceipt(j) => ReceiptFits(w)', AtReceipt(j) \/ \A a \in Assets : assetLock'[a] # w
    PROVE  StockFits'
<1>1. job'[w] = j /\ \A v \in Actors \ {w} : job'[v] = job[v]
  BY DEF IInv, JobsFit
<1>2. ASSUME NEW a \in Assets \ lost'
      PROVE  LedgerHolds(a)'
  <2>1. LedgerHolds(a)
    BY DEF StockFits
  <2>2. Received(a)' = Received(a) /\ Booked(a, Holders)' = Booked(a, Holders)
    BY DEF Received, Booked, Units
  <2> QED
    BY <2>1, <2>2 DEF LedgerHolds
<1>3. ASSUME NEW r \in InboundRequests
      PROVE  RequestAdds(r)'
  BY DEF StockFits, RequestAdds
<1>4. ASSUME NEW v \in Actors \ {w}
      PROVE  \A a \in Assets : assetLock'[a] = v <=> assetLock[a] = v
  BY NobodyType
<1>5. ASSUME NEW v \in Actors, AtReceipt(job'[v])
      PROVE  ReceiptFits(v)'
  <2>1. CASE v = w
    BY <1>1, <1>5, <2>1
  <2>2. CASE v # w
    <3>1. ReceiptFits(v) /\ job'[v] = job[v]
      BY <1>1, <1>5, <2>2 DEF StockFits
    <3>2. \A a \in Assets : assetLock'[a] = v <=> assetLock[a] = v
      BY <1>4, <2>2
    <3> QED
      BY <3>1, <3>2, OtherReceipt
  <2> QED
    BY <2>1, <2>2
<1>6. ASSUME NEW v \in Actors, NEW a \in Assets, assetLock'[a] = v
      PROVE  AtReceipt(job'[v])
  BY <1>1, <1>4, <1>6 DEF StockFits
<1>7. \A v : AtReceipt(job[v])' <=> AtReceipt(job'[v])
  BY DEF AtReceipt
<1> QED
  BY <1>2, <1>3, <1>5, <1>6, <1>7 DEF StockFits

\* The sums written are those of the committed row and of what this transaction
\* has written before; where they are not, the write undoes another's.
LEMMA WriteStock ==
    ASSUME StockFits, IInv, NEW w \in Actors, WriteAsset(w)
    PROVE  StockFits'
<1>1. AtReceipt(job[w]) /\ job[w].step = "write"
  BY DEF WriteAsset, At, AtReceipt
<1> PICK k : k = job[w].item
  OBVIOUS
<1> PICK a : a = job[w].list[k].asset
  OBVIOUS
<1> PICK q : q = job[w].list[k].qty
  OBVIOUS
<1>2. /\ job[w] \in Jobs /\ job[w].list \in ListType /\ ReceiptFits(w)
      /\ k \in job[w].todo /\ k \in Places /\ a \in Assets /\ q \in Nat
      /\ assetLock[a] = w => job[w].seen = job[w].pend[a]
  <2>1. job[w] \in Jobs /\ ReceiptFits(w)
    BY <1>1, ReceiptFacts
  <2>2. k \in Places /\ WriteFits(w)
    BY <1>1, <2>1 DEF Jobs, ReceiptFits
  <2> QED
    BY <1>1, <2>1, <2>2, ReceiptFacts DEF WriteFits, ItemOf
<1>3. \A b : UnitsAt(job[w].list, k, b) = IF a = b THEN q ELSE 0
  BY <1>1, <1>2, ReceiptFacts
<1> PICK s \in RowType : s = job[w].seen
  BY <1>2 DEF Jobs
<1> DEFINE new == [total |-> s.total + q, avail |-> s.avail + q]
           rows == [job[w].pend EXCEPT ![a] = new]
           j == [job[w] EXCEPT !.step = "items", !.todo = job[w].todo \ {k}, !.pend = rows]
<1>4. job' = [job EXCEPT ![w] = j]
  BY <1>2 DEF WriteAsset, ItemOf, IInv, JobsFit, Jobs
<1>5. /\ assetLock[a] \in {Nobody, w} /\ assetLock' = [assetLock EXCEPT ![a] = w]
      /\ lost' = IF assetLock[a] = Nobody /\ s # Row(w, a) THEN lost \cup {a} ELSE lost
      /\ UNCHANGED <<total, avail, booking, status, arrived, made>>
  BY DEF WriteAsset, ItemOf, requestVars
<1>6. rows[a] = new /\ \A b \in Assets \ {a} : rows[b] = job[w].pend[b]
  BY <1>2 DEF Jobs
<1>7. new \in RowType /\ rows \in [Assets -> RowType]
  <2>1. new \in RowType
    BY <1>2 DEF RowType
  <2> HIDE DEF new
  <2> QED
    BY <1>2, <2>1 DEF Jobs
<1> HIDE DEF rows
<1>8. /\ j \in Jobs /\ j.step = "items" /\ j.op = job[w].op /\ j.list = job[w].list
      /\ j.todo = job[w].todo \ {k} /\ j.pend = rows /\ j.units = job[w].units
  BY <1>2, <1>7 DEF Jobs, Steps
<1> HIDE DEF j
<1>9. job'[w] = j
  BY <1>4 DEF IInv, JobsFit
<1>10. \A b : Done(j, b) = Done(job[w], b) + UnitsAt(job[w].list, k, b) /\ Done(job[w], b) \in Nat
  BY <1>2, <1>8, DoneAfterOne
<1>11. /\ assetLock'[a] = w /\ \A b \in Assets \ {a} : assetLock'[b] = assetLock[b]
       /\ total[a] \in Nat /\ avail[a] \in Nat
  BY <1>2, <1>5 DEF IInv, TypesFit, TypeOK, InvTypeOK
<1>12. ASSUME NEW b \in Assets
       PROVE  PendingFits(w, b)'
  <2>1. PendingFits(w, b)
    BY <1>2 DEF ReceiptFits
  <2>2. CASE b # a
    <3>1. Done(j, b) = Done(job[w], b)
      BY <1>3, <1>10, <2>2
    <3>2. assetLock'[b] = assetLock[b] /\ rows[b] = job[w].pend[b] /\ (b \in lost <=> b \in lost')
      BY <1>5, <1>6, <1>11, <2>2
    <3> QED
      BY <1>5, <1>8, <1>9, <2>1, <3>1, <3>2 DEF PendingFits
  <2>3. CASE b = a
    <3>1. Done(j, a) = Done(job[w], a) + q /\ Done(job[w], a) \in Nat
      BY <1>3, <1>10
    <3>2. ASSUME a \notin lost'
          PROVE  new = [total |-> total[a] + Done(j, a), avail |-> avail[a] + Done(j, a)]
      <4>1. CASE assetLock[a] = w
        <5>1. s = [total |-> total[a] + Done(job[w], a), avail |-> avail[a] + Done(job[w], a)]
          BY <1>2, <1>5, <2>1, <2>3, <3>2, <4>1 DEF PendingFits
        <5>2. s.total = total[a] + Done(job[w], a) /\ s.avail = avail[a] + Done(job[w], a)
          BY <5>1
        <5>3. PICK d \in Nat : d = Done(job[w], a)
          BY <3>1
        <5>4. PICK t \in Nat, v \in Nat : t = total[a] /\ v = avail[a]
          BY <1>11
        <5>5. Done(j, a) = d + q /\ q \in Nat
          BY <1>2, <3>1, <5>3
        <5>6. s.total = t + d /\ s.avail = v + d
          BY <5>2, <5>3, <5>4
        <5>7. t + (d + q) = (t + d) + q /\ v + (d + q) = (v + d) + q
          BY <5>3, <5>4, <5>5
        <5>8. total[a] + Done(j, a) = s.total + q /\ avail[a] + Done(j, a) = s.avail + q
          BY <5>4, <5>5, <5>6, <5>7
        <5> QED
          BY <5>8
      <4>2. CASE assetLock[a] = Nobody
        <5>1. assetLock[a] # w
          BY <4>2, NobodyType
        <5>2. s = [total |-> total[a], avail |-> avail[a]]
          BY <1>5, <3>2, <4>2, <5>1 DEF Row
        <5>3. Done(job[w], a) = 0
          BY <2>1, <2>3, <5>1 DEF PendingFits
        <5>4. s.total = total[a] /\ s.avail = avail[a] /\ Done(j, a) = q
          BY <1>2, <3>1, <5>2, <5>3
        <5> QED
          BY <5>4
      <4> QED
        BY <1>5, <4>1, <4>2
    <3>3. rows[a] = new
      BY <1>6
    <3> HIDE DEF new
    <3> QED
      BY <1>5, <1>8, <1>9, <1>11, <2>3, <3>2, <3>3 DEF PendingFits
  <2> QED
    BY <2>2, <2>3
<1>13. job[w].units = Done(j, Fresh)
  <2>1. Done(j, Fresh) = Done(job[w], Fresh)
    BY <1>2, <1>3, <1>10, FreshType
  <2> QED
    BY <1>2, <2>1 DEF ReceiptFits
<1>14. ReceiptFits(w)'
  <2>1. (job[w].op = "complete" /\ job[w].units = Done(job[w], Fresh) /\ job[w].step # "write")'
    BY <1>2, <1>8, <1>9, <1>13 DEF ReceiptFits
  <2> QED
    BY <1>12, <2>1 DEF ReceiptFits
<1>15. \A b \in Assets : assetLock'[b] = assetLock[b]
                          \/ {assetLock[b], assetLock'[b]} \subseteq {w, Nobody}
  BY <1>5, <1>11
<1>16. AtReceipt(j) /\ lost \subseteq lost'
  BY <1>5, <1>8 DEF AtReceipt
<1> HIDE DEF IInv, new
<1> QED
  BY <1>4, <1>5, <1>14, <1>15, <1>16, LockStepKeeps

LEMMA CrashStock ==
    ASSUME StockFits, IInv, NEW w \in Actors, Crash(w)
    PROVE  StockFits'
<1>1. /\ UNCHANGED <<total, avail, booking, status, arrived, made, lost>>
      /\ job' = [job EXCEPT ![w] = Idle]
  BY DEF Crash, Finish, requestVars, historyVars
<1>2. \A a \in Assets : assetLock'[a] = IF assetLock[a] = w THEN Nobody ELSE assetLock[a]
  BY DEF Crash, UnlockedBy
<1>3. \A a \in Assets : assetLock'[a] # w
  BY <1>2, NobodyType
<1>4. \A a \in Assets : assetLock'[a] = assetLock[a]
                         \/ {assetLock[a], assetLock'[a]} \subseteq {w, Nobody}
  BY <1>2
<1>5. lost \subseteq lost' /\ ~AtReceipt(Idle)
  BY <1>1, IdleIsQuiet
<1> HIDE DEF IInv
<1> QED
  BY <1>1, <1>3, <1>4, <1>5, LockStepKeeps

\* The rows that the transaction holds come with what the list brings to them,
\* the others get nothing; the request was not completed before.
LEMMA CommitStock ==
    ASSUME StockFits, IInv, NEW w \in Actors, CommitReceipt(w), disturbed' = {}
    PROVE  StockFits'
<1>1. AtReceipt(job[w]) /\ job[w].step = "items"
  BY DEF CommitReceipt, At, AtReceipt
<1>2. /\ job[w] \in Jobs /\ job[w].list \in ListType /\ ReceiptFits(w)
      /\ On(w) \in InboundRequests /\ On(w) = job[w].on
  BY <1>1, ReceiptFacts
<1> PICK r \in InboundRequests : r = On(w)
  BY <1>2
<1> PICK list \in ListType : list = job[w].list
  BY <1>2
<1>3. /\ status' = [status EXCEPT ![r] = "COMPLETED"] /\ arrived' = [arrived EXCEPT ![r] = list]
      /\ made' = [made EXCEPT ![r] = made[r] + job[w].units]
      /\ job' = [job EXCEPT ![w] = Idle] /\ UNCHANGED <<booking, lost>>
      /\ disturbed' = Disturbed(w) /\ job[w].todo = {}
  BY DEF CommitReceipt, Finish
<1>4. job'[w] = Idle /\ \A v \in Actors \ {w} : job'[v] = job[v]
  BY <1>3 DEF IInv, JobsFit, Jobs
<1>5. status[r] = "CONFIRMED"
  <2>1. Passes(job[w].op, r, job[w].staff) /\ job[w].op = "complete"
    BY <1>2, <1>3 DEF Disturbed, Outlived, ReceiptFits
  <2> QED
    BY <2>1 DEF Passes, Expected
<1>6. arrived[r] = None /\ RequestAdds(r)
  BY <1>5 DEF StockFits, RequestAdds
<1>7. arrived \in [InboundRequests -> ListType \cup {None}]
  BY DEF IInv, TypesFit
<1>8. \A a : Done(job[w], a) = ReceivedInto(list, a) /\ ReceivedInto(list, a) \in Nat
  BY <1>2, <1>3, DoneAtEnds, UnitsType DEF Places
<1>9. \A a \in Assets : /\ total'[a] = Row(w, a).total /\ avail'[a] = Row(w, a).avail
                        /\ assetLock'[a] = IF assetLock[a] = w THEN Nobody ELSE assetLock[a]
  BY DEF CommitReceipt, UnlockedBy
<1>10. ASSUME NEW a \in Assets \ lost
       PROVE  /\ total'[a] = total[a] + ReceivedInto(list, a)
              /\ avail'[a] = avail[a] + ReceivedInto(list, a)
  <2>1. PendingFits(w, a) /\ total[a] \in Nat /\ avail[a] \in Nat
    BY <1>2 DEF ReceiptFits, IInv, TypesFit, TypeOK, InvTypeOK
  <2>2. CASE assetLock[a] = w
    BY <1>8, <1>9, <1>10, <2>1, <2>2 DEF PendingFits, Row
  <2>3. CASE assetLock[a] # w
    <3>1. ReceivedInto(list, a) = 0
      BY <1>8, <2>1, <2>3 DEF PendingFits
    <3>2. total'[a] = total[a] /\ avail'[a] = avail[a]
      BY <1>9, <2>3 DEF Row
    <3> QED
      BY <2>1, <3>1, <3>2
  <2> QED
    BY <2>2, <2>3
<1>11. ASSUME NEW a \in Assets \ lost'
       PROVE  LedgerHolds(a)'
  <2>1. a \in Assets \ lost /\ LedgerHolds(a)
    BY <1>3 DEF StockFits
  <2>2. Received(a)' = Received(a) + ReceivedInto(list, a) /\ Received(a) \in Nat
    BY <1>3, <1>6, <1>7, ReceivedAfter
  <2>3. Booked(a, Holders)' = Booked(a, Holders) /\ Booked(a, Holders) \in Nat
    <3> DEFINE n == [h \in Holders |-> booking[h][a]]
    <3>1. \A h \in Holders : n[h] \in Nat
      BY DEF IInv, TypesFit, TypeOK, InvTypeOK
    <3>2. Booked(a, Holders) = Cardinality(CountedUnits(n, Holders))
      BY DEF Booked, Units, CountedUnits
    <3>3. Cardinality(CountedUnits(n, Holders)) \in Nat
      <4> HIDE DEF n
      <4> QED
        BY <3>1, HoldersFinite, CountIsFinite
    <3> QED
      BY <1>3, <3>2, <3>3 DEF Booked, Units
  <2>4. total[a] \in Nat /\ avail[a] \in Nat /\ Stock[a] \in Nat
    BY StockType DEF IInv, TypesFit, TypeOK, InvTypeOK
  <2>5. total'[a] = Stock[a] + Received(a)'
    BY <1>8, <1>10, <2>1, <2>2, <2>4 DEF LedgerHolds
  <2>6. AllMeet => avail'[a] = total'[a] - Booked(a, Holders)'
    BY <1>8, <1>10, <2>1, <2>3, <2>4 DEF LedgerHolds
  <2> QED
    BY <2>5, <2>6 DEF LedgerHolds, AllMeet, Overlaps
<1>12. ASSUME NEW s \in InboundRequests
       PROVE  RequestAdds(s)'
  <2>1. CASE s = r
    <3>1. status'[r] = "COMPLETED" /\ arrived'[r] = list /\ list # None
      <4>1. list # None
        <5>1. 1 \in Places /\ list \in ListType \cup {None}
          BY DEF Places
        <5> QED
          BY <5>1, UnitsType
      <4>2. status'[r] = "COMPLETED"
        BY <1>3 DEF IInv, TypesFit, TypeOK
      <4> QED
        BY <1>3, <1>7, <4>1, <4>2
    <3>2. made'[r] = made[r] + job[w].units /\ made[r] = 0
      <4>1. made[r] = 0
        BY <1>6, UnitsType DEF RequestAdds, Places
      <4> QED
        BY <1>3, <4>1 DEF IInv, TypesFit, TypeOK
    <3>3. job[w].units = ReceivedInto(list, Fresh) /\ ReceivedInto(list, Fresh) \in Nat
      BY <1>2, <1>8 DEF ReceiptFits
    <3> QED
      BY <2>1, <3>1, <3>2, <3>3 DEF RequestAdds
  <2>2. CASE s # r
    BY <1>3, <2>2 DEF StockFits, RequestAdds, IInv, TypesFit, TypeOK
  <2> QED
    BY <2>1, <2>2
<1>13. ASSUME NEW v \in Actors, AtReceipt(job'[v])
       PROVE  ReceiptFits(v)'
  <2>1. v # w /\ job'[v] = job[v]
    BY <1>4, <1>13, IdleIsQuiet
  <2>2. \A a \in Assets : assetLock'[a] = v <=> assetLock[a] = v
    BY <1>9, <2>1, NobodyType
  <2>3. \A a \in Assets : assetLock[a] = v => total'[a] = total[a] /\ avail'[a] = avail[a]
    BY <1>9, <2>1 DEF Row
  <2>4. ReceiptFits(v) /\ lost \subseteq lost'
    BY <1>3, <1>13, <2>1 DEF StockFits
  <2> QED
    BY <2>1, <2>2, <2>3, <2>4, OtherReceipt
<1>14. ASSUME NEW v \in Actors, NEW a \in Assets, assetLock'[a] = v
       PROVE  AtReceipt(job'[v])
  <2>1. v # w /\ assetLock[a] = v
    BY <1>9, <1>14, NobodyType
  <2> QED
    BY <1>4, <2>1 DEF StockFits
<1>15. \A v : AtReceipt(job[v])' <=> AtReceipt(job'[v])
  BY DEF AtReceipt
<1> QED
  BY <1>3, <1>11, <1>12, <1>13, <1>14, <1>15 DEF StockFits

\* A step of no handler that writes no stock.
LEMMA StockOutside ==
    ASSUME StockFits, UNCHANGED <<total, avail, booking, assetLock, arrived, made, lost, job>>,
           \A r \in InboundRequests : status'[r] = "COMPLETED" <=> status[r] = "COMPLETED"
    PROVE  StockFits'
<1>1. \A a \in Assets : LedgerHolds(a)' <=> LedgerHolds(a)
  BY DEF LedgerHolds, Received, Booked, Units, AllMeet, Overlaps
<1>2. \A v \in Actors : ReceiptFits(v)' <=> ReceiptFits(v)
  BY DEF ReceiptFits, PendingFits, WriteFits, ItemOf, Done, DoneAt
<1>3. \A v \in Actors : AtReceipt(job[v])' <=> AtReceipt(job[v])
  BY DEF AtReceipt
<1>4. \A r \in InboundRequests : RequestAdds(r)' <=> RequestAdds(r)
  BY DEF RequestAdds
<1> QED
  BY <1>1, <1>2, <1>3, <1>4 DEF StockFits

LEMMA CreateStock ==
    ASSUME StockFits, IInv, NEW r \in InboundRequests, CreateInboundRequest(r)
    PROVE  StockFits'
<1>1. /\ status[r] = "NONE" /\ status' = [status EXCEPT ![r] = "PRICING_REVIEW"]
      /\ UNCHANGED <<total, avail, booking, assetLock, arrived, made, lost, job>>
  BY DEF CreateInboundRequest, invVars, historyVars
<1>2. \A s \in InboundRequests : status'[s] = "COMPLETED" <=> status[s] = "COMPLETED"
  BY <1>1 DEF IInv, TypesFit, TypeOK
<1> HIDE DEF IInv
<1> QED
  BY <1>1, <1>2, StockOutside

\* Every other order counts against h, so what its transaction finds free it
\* can take from the counter.
LEMMA NoClamp ==
    ASSUME AllMeet, StockFits, IInv, NEW h \in Holders, Book(h), NEW a \in Items(h), a \notin lost
    PROVE  avail[a] >= Need[h][a]
<1> DEFINE O == Holders \ {h}
           n == [g \in Holders |-> booking[g][a]]
<1>1. a \in Assets /\ Need[h][a] \in Nat /\ Need[h][a] > 0 /\ total[a] \in Nat
  BY NeedType DEF Items, IInv, TypesFit, TypeOK, InvTypeOK
<1>2. Competitors(h, a) = O
  BY <1>1 DEF Competitors, AllMeet
<1>3. AtLeastZero(total[a] - Booked(a, O)) >= Need[h][a]
  BY <1>2 DEF Book, Fits, WindowAvailable, ComputeAvailability
<1>4. booking[h][a] = 0
  BY <1>1 DEF Book, HasRows, IInv, TypesFit, TypeOK, InvTypeOK
<1>5. Units(a, O) = Units(a, Holders)
  BY <1>4 DEF Units
<1>6. Booked(a, Holders) \in Nat
  <2>1. \A g \in Holders : n[g] \in Nat
    BY <1>1 DEF IInv, TypesFit, TypeOK, InvTypeOK
  <2>2. Booked(a, Holders) = Cardinality(CountedUnits(n, Holders))
    BY DEF Booked, Units, CountedUnits
  <2> HIDE DEF n
  <2> QED
    BY <2>1, <2>2, HoldersFinite, CountIsFinite
<1>7. avail[a] = total[a] - Booked(a, Holders)
  BY <1>1 DEF StockFits, LedgerHolds
<1>8. Booked(a, O) = Booked(a, Holders)
  BY <1>5 DEF Booked
<1> HIDE DEF O
<1> QED
  BY <1>1, <1>3, <1>6, <1>7, <1>8 DEF AtLeastZero

\* The rows of h come to row[a] units of each asset.
LEMMA BookedAfter ==
    ASSUME IInv, NEW h \in Holders, NEW row \in [Assets -> Nat], booking' = [booking EXCEPT ![h] = row],
           NEW a \in Assets
    PROVE  /\ Booked(a, Holders)' = Booked(a, Holders) + row[a] - booking[h][a]
           /\ Booked(a, Holders) \in Nat
<1> DEFINE m == [g \in Holders |-> booking'[g][a]]
           n == [g \in Holders |-> booking[g][a]]
<1>1. booking \in [Holders -> [Assets -> Nat]]
  BY DEF IInv, TypesFit, TypeOK, InvTypeOK
<1>2. \A g \in Holders : m[g] \in Nat /\ n[g] \in Nat
  BY <1>1
<1>3. (\A g \in Holders \ {h} : m[g] = n[g]) /\ m[h] = row[a] /\ n[h] = booking[h][a]
  BY <1>1
<1>4. /\ Booked(a, Holders)' = Cardinality(CountedUnits(m, Holders))
      /\ Booked(a, Holders) = Cardinality(CountedUnits(n, Holders))
  BY DEF Booked, Units, CountedUnits
<1> HIDE DEF m, n
<1> QED
  BY <1>2, <1>3, <1>4, HoldersFinite, CountAfterChange, CountIsFinite

\* An order writes rows of assets that no completion holds.
LEMMA OrderStock ==
    ASSUME StockFits, IInv, NEW h \in Holders, Book(h) \/ Release(h)
    PROVE  StockFits'
<1>1. UNCHANGED <<total, assetLock, status, arrived, made, job, lost>>
  BY DEF Book, Release, requestVars, historyVars
<1>2. \A a \in Assets : /\ total[a] \in Nat /\ avail[a] \in Nat /\ Need[h][a] \in Nat
                        /\ booking[h][a] \in Nat /\ booking[h][a] \in {0, Need[h][a]}
  BY NeedType DEF StockFits, IInv, TypesFit, TypeOK, InvTypeOK
<1>3. PICK row \in [Assets -> Nat] :
        /\ booking' = [booking EXCEPT ![h] = row]
        /\ \A a \in Assets : row[a] \in {0, Need[h][a]}
        /\ Book(h) => \A a \in Assets : row[a] = Need[h][a] /\ booking[h][a] = 0
        /\ Release(h) => \A a \in Assets : row[a] = 0
  <2>1. CASE Book(h)
    <3> DEFINE row == [a \in Assets |-> IF Need[h][a] > 0 THEN Need[h][a] ELSE booking[h][a]]
    <3>1. \A a \in Assets : booking[h][a] = 0
      BY <1>2, <2>1 DEF Book, HasRows
    <3>2. row \in [Assets -> Nat] /\ \A a \in Assets : row[a] = Need[h][a]
      BY <1>2, <3>1
    <3>3. booking' = [booking EXCEPT ![h] = row]
      BY <2>1 DEF Book, InsertRows
    <3>4. ~Release(h)
      BY <2>1 DEF Book, Release
    <3> HIDE DEF row
    <3> QED
      BY <3>1, <3>2, <3>3, <3>4
  <2>2. CASE Release(h)
    <3> DEFINE row == [a \in Assets |-> 0]
    <3>1. row \in [Assets -> Nat] /\ \A a \in Assets : row[a] = 0
      OBVIOUS
    <3>2. booking' = [booking EXCEPT ![h] = row] /\ ~Book(h)
      BY <2>2 DEF Release, DeleteRows, Book
    <3> HIDE DEF row
    <3> QED
      BY <2>2, <3>1, <3>2
  <2> QED
    BY <2>1, <2>2
<1>4. \A g \in Holders, a \in Assets : booking'[g][a] \in {0, Need[g][a]}
  BY <1>3 DEF StockFits, IInv, TypesFit, TypeOK, InvTypeOK
<1>5. ASSUME NEW a \in Assets, assetLock[a] # Nobody
      PROVE  avail'[a] = avail[a]
  <2>1. Need[h][a] = 0
    BY <1>2, <1>5 DEF Book, Release, Unlocked, Items
  <2>2. booking[h][a] = 0
    BY <1>2, <2>1
  <2> QED
    BY <1>2, <2>1, <2>2 DEF Book, Release, Decrement, Restored, AtLeastZero
<1>6. ASSUME NEW a \in Assets \ lost'
      PROVE  LedgerHolds(a)'
  <2>1. a \in Assets \ lost /\ LedgerHolds(a) /\ Received(a)' = Received(a)
    BY <1>1 DEF StockFits, Received
  <2>2. /\ Booked(a, Holders)' = Booked(a, Holders) + row[a] - booking[h][a]
        /\ Booked(a, Holders) \in Nat
    BY <1>3, <2>1, BookedAfter
  <2>3. ASSUME AllMeet
        PROVE  avail'[a] = total'[a] - Booked(a, Holders)'
    <3>1. avail[a] = total[a] - Booked(a, Holders)
      BY <2>1, <2>3 DEF LedgerHolds
    <3>2. CASE Book(h)
      <4>1. row[a] = Need[h][a] /\ booking[h][a] = 0
        BY <1>3, <2>1, <3>2
      <4>2. avail'[a] = AtLeastZero(avail[a] - Need[h][a])
        BY <2>1, <3>2 DEF Book, Decrement
      <4>3. avail[a] >= Need[h][a]
        <5>1. CASE a \in Items(h)
          <6> HIDE DEF IInv
          <6> QED
            BY <2>1, <2>3, <3>2, <5>1, NoClamp
        <5>2. CASE a \notin Items(h)
          BY <1>2, <2>1, <5>2 DEF Items
        <5> QED
          BY <5>1, <5>2
      <4>4. avail'[a] = avail[a] - Need[h][a]
        BY <1>2, <2>1, <4>2, <4>3 DEF AtLeastZero
      <4> QED
        BY <1>1, <1>2, <2>1, <2>2, <3>1, <4>1, <4>4
    <3>3. CASE Release(h)
      <4>1. row[a] = 0
        BY <1>3, <2>1, <3>3
      <4>2. /\ total[a] \in Nat /\ avail[a] \in Nat /\ booking[h][a] \in Nat
            /\ Booked(a, Holders)' \in Nat
        <5>1. booking' \in [Holders -> [Assets -> Nat]]
          BY <1>3 DEF IInv, TypesFit, TypeOK, InvTypeOK
        <5> DEFINE m == [g \in Holders |-> booking'[g][a]]
        <5>2. \A g \in Holders : m[g] \in Nat
          BY <2>1, <5>1
        <5>3. Booked(a, Holders)' = Cardinality(CountedUnits(m, Holders))
          BY DEF Booked, Units, CountedUnits
        <5> HIDE DEF m
        <5>4. Booked(a, Holders)' \in Nat
          BY <5>2, <5>3, HoldersFinite, CountIsFinite
        <5> QED
          BY <1>2, <2>1, <5>4
      <4>3. avail[a] + booking[h][a] = total[a] - Booked(a, Holders)'
        BY <2>2, <3>1, <4>1, <4>2
      <4>4. avail'[a] = IF booking[h][a] > 0
                        THEN AtMost(total[a], AtLeastZero(avail[a] + booking[h][a])) ELSE avail[a]
        BY <2>1, <3>3 DEF Release, Restored
      <4>5. avail'[a] = avail[a] + booking[h][a]
        BY <4>2, <4>3, <4>4 DEF AtMost, AtLeastZero
      <4> QED
        BY <1>1, <4>3, <4>5
    <3> QED
      BY <3>2, <3>3
  <2> QED
    BY <1>1, <2>1, <2>3 DEF LedgerHolds, AllMeet, Overlaps
<1>7. ASSUME NEW v \in Actors, AtReceipt(job'[v])
      PROVE  ReceiptFits(v)'
  <2>1. ReceiptFits(v)
    BY <1>1, <1>7 DEF StockFits
  <2>2. \A a \in Assets : assetLock[a] = v => total'[a] = total[a] /\ avail'[a] = avail[a]
    BY <1>1, <1>5, NobodyType
  <2> QED
    BY <1>1, <2>1, <2>2, OtherReceipt
<1>8. (\A r \in InboundRequests : RequestAdds(r))'
  BY <1>1 DEF StockFits, RequestAdds
<1>9. (\A v \in Actors, a \in Assets : assetLock[a] = v => AtReceipt(job[v]))'
  BY <1>1 DEF StockFits, AtReceipt
<1>10. \A v : AtReceipt(job[v])' <=> AtReceipt(job'[v])
  BY DEF AtReceipt
<1> QED
  BY <1>4, <1>6, <1>7, <1>8, <1>9, <1>10 DEF StockFits

------------------------------------------------------------------------------
(* The stock: the theorems.                                                *)

LEMMA StockInit == Init => SInv
<1> SUFFICES ASSUME Init
             PROVE  StockFits
  BY DEF SInv
<1>1. ASSUME NEW a \in Assets
      PROVE  LedgerHolds(a)
  <2>1. Received(a) = 0
    <3>1. \A r \in InboundRequests : ReceivedInto(arrived[r], a) = 0
      <4>1. ReceivedInto(None, a) = 0
        BY UnitsType DEF Places
      <4> QED
        BY <4>1 DEF Init
    <3>2. UNION {{r} \X (1 .. ReceivedInto(arrived[r], a)) : r \in InboundRequests} = {}
      BY <3>1
    <3> QED
      BY <3>2, FS_EmptySet DEF Received
  <2>2. Booked(a, Holders) = 0
    <3>1. Units(a, Holders) = {}
      BY DEF Units, Init, InvInit
    <3> QED
      BY <3>1, FS_EmptySet DEF Booked
  <2>3. total[a] = Stock[a] /\ avail[a] = Stock[a] /\ Stock[a] \in Nat
    BY StockType DEF Init, InvInit
  <2> QED
    BY <2>1, <2>2, <2>3 DEF LedgerHolds
<1>2. ASSUME NEW r \in InboundRequests
      PROVE  RequestAdds(r)
  <2>1. ReceivedInto(None, Fresh) = 0
    BY UnitsType DEF Places
  <2> QED
    BY <2>1 DEF Init, RequestAdds
<1>3. \A w \in Actors : ~AtReceipt(job[w])
  BY IdleIsQuiet DEF Init
<1>4. \A a \in Assets : assetLock[a] \notin Actors
  BY NobodyType DEF Init, InvInit
<1>5. \A h \in Holders, a \in Assets : booking[h][a] \in {0, Need[h][a]}
  BY DEF Init, InvInit
<1> QED
  BY <1>1, <1>2, <1>3, <1>4, <1>5 DEF StockFits

\* What has been written against a check stays marked.
LEMMA MarksStay ==
    ASSUME [Next]_vars
    PROVE  disturbed \subseteq disturbed'
<1>1. ASSUME NEW w \in Actors, BeginAny(w)
      PROVE  UNCHANGED disturbed
  BY <1>1 DEF BeginAny, BeginSubmitForApproval, BeginApprove, BeginClientDecision, BeginMarkAsNoCost,
     BeginCancel, BeginPrice, BeginComplete, BeginEditItem, BeginUpdate, BeginMove, Begin, historyVars
<1>2. ASSUME NEW w \in Actors, Resume(w)
      PROVE  disturbed \subseteq disturbed'
  <2>1. CASE Move(w) \/ Edit(w) \/ CommitReceipt(w)
    BY <2>1 DEF Move, Edit, CommitReceipt, Disturbed
  <2>2. CASE RenderEstimate(w) \/ UploadEstimate(w) \/ SendQuote(w)
    BY <2>2 DEF RenderEstimate, UploadEstimate, SendQuote, historyVars
  <2>3. CASE WriteAsset(w) \/ \E k \in Places : ReadAsset(w, k) \/ MakeAsset(w, k)
    BY <2>3 DEF WriteAsset, ReadAsset, MakeAsset, historyVars
  <2> QED
    BY <1>2, <2>1, <2>2, <2>3 DEF Resume
<1>3. ASSUME NEW w \in Actors, Crash(w)
      PROVE  UNCHANGED disturbed
  BY <1>3 DEF Crash, historyVars
<1>4. ASSUME NEW r \in InboundRequests, CreateInboundRequest(r)
      PROVE  UNCHANGED disturbed
  BY <1>4 DEF CreateInboundRequest, historyVars
<1>5. ASSUME NEW h \in Holders, Book(h) \/ Release(h)
      PROVE  UNCHANGED disturbed
  BY <1>5 DEF Book, Release, historyVars
<1>6. CASE UNCHANGED vars
  BY <1>6 DEF vars, historyVars
<1> QED
  BY <1>1, <1>2, <1>3, <1>4, <1>5, <1>6 DEF Next

LEMMA StockKeeps == IInv /\ SInv /\ [Next]_vars => SInv'
<1> SUFFICES ASSUME IInv, SInv, [Next]_vars, disturbed' = {}
             PROVE  StockFits'
  BY DEF SInv
<1>1. StockFits
  BY MarksStay DEF SInv
<1>2. ASSUME NEW w \in Actors, BeginAny(w) \/ Resume(w) \/ Crash(w)
      PROVE  StockFits'
  <2> HIDE DEF IInv
  <2>1. CASE Resume(w)
    BY <1>1, <2>1, MoveStock, PaperStock, ReadStock, MakeStock, WriteStock, CommitStock DEF Resume
  <2> QED
    BY <1>1, <1>2, <2>1, BeginAnyStock, CrashStock
<1>3. CASE UNCHANGED vars
  <2>1. UNCHANGED <<total, avail, booking, assetLock, status, arrived, made, lost, job>>
    BY <1>3 DEF vars, invVars, requestVars, historyVars
  <2> QED
    BY <1>1, <2>1, StockOutside
<1> HIDE DEF IInv
<1> QED
  BY <1>1, <1>2, <1>3, CreateStock, OrderStock DEF Next

\* However completions and orders interleave, each completion with rows that it
\* reads without a lock, and wherever one dies: until a handler has written a
\* request against its check, a request is completed once, every unit of its
\* items goes to the pool with the completion and no other unit does, and a row
\* of which no write has undone another's holds just what it started with and
\* what was received (completeInboundRequest).
THEOREM UnitsArriveOnce ==
    Spec => [](disturbed = {} =>
                 /\ \A a \in Assets \ lost : total[a] = Stock[a] + Received(a)
                 /\ \A r \in InboundRequests : RequestAdds(r))
<1> DEFINE P == disturbed = {} =>
                  /\ \A a \in Assets \ lost : total[a] = Stock[a] + Received(a)
                  /\ \A r \in InboundRequests : RequestAdds(r)
<1>1. SInv => P
  BY DEF SInv, StockFits, LedgerHolds
<1> HIDE DEF P
<1>2. Spec => []P
  BY <1>1, InitHolds, NextKeeps, StockInit, StockKeeps, PTL DEF Spec
<1> QED
  BY <1>2 DEF P

\* ... and where the orders all book the same days, so that no booking has to
\* clamp the counter at zero, available_quantity is just what of the row is not
\* booked.
THEOREM StockStands == AllMeet /\ Spec => []StockAddsUp
<1> SUFFICES ASSUME AllMeet
             PROVE  Spec => []StockAddsUp
  OBVIOUS
<1>1. SInv => StockAddsUp
  BY DEF SInv, StockFits, LedgerHolds, RequestAdds, StockAddsUp
<1> QED
  BY <1>1, InitHolds, NextKeeps, StockInit, StockKeeps, PTL DEF Spec
==============================================================================
