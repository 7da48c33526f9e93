-------------------------- MODULE SelfBooking_proofs --------------------------
(***************************************************************************)
(* Theorems about SelfBooking, for every set of self-bookings, holders,    *)
(* assets and handlers, every stock and every adjustment.                  *)
(***************************************************************************)
EXTENDS SelfBooking, UnitCounting

------------------------------------------------------------------------------
(* The inductive invariant.                                                *)

Ops == {"idle", "create", "scan", "cancel", "adjust", "submit"}
BookingSteps == {"check", "insert", "write", "commit", "flip", "settle"}
AssetSteps == {"ledger", "apply"}
HolderSteps == {"gate", "book"}
Steps == {"idle"} \cup BookingSteps \cup AssetSteps \cup HolderSteps
Jobs == [op : Ops, on : SelfBookings \cup Assets \cup Holders \cup {Nobody}, line : Lines,
         step : Steps, units : Int, base : Nat, last : BOOLEAN, stale : BOOLEAN]

\* A scan writes a count that has been scanned, and no more than was taken.
ScanFits(j) ==
    /\ j.units \in Nat
    /\ j.base <= scanned[j.on][j.line]
    /\ j.base + j.units <= LineQty[j.on][j.line]
JobFits(j) ==
    /\ j \in Jobs
    /\ j.step \in BookingSteps => j.on \in SelfBookings
    /\ j.step \in AssetSteps => j.on \in Assets
    /\ j.step \in HolderSteps => j.on \in Holders
    /\ j.step \in {"write", "commit"} => ScanFits(j)
JobsFit == job \in [Actors -> Jobs] /\ \A w \in Actors : JobFits(job[w])

Backed ==
    /\ scanned \in [SelfBookings -> [Lines -> Nat]]
    /\ \A b \in SelfBookings, l \in Lines :
        scanned[b][l] <= LineQty[b][l] /\ returned[b][l] <= scanned[b][l]

\* What is in the ledger of a and not in its total yet: the adjustment of w.
Waits(w, a) == At(w, "apply") /\ On(w) = a
ToAdd(a) == [w \in Actors |-> IF Waits(w, a) /\ job[w].units > 0 THEN job[w].units ELSE 0]
ToTake(a) == [w \in Actors |-> IF Waits(w, a) /\ job[w].units < 0 THEN -job[w].units ELSE 0]
Sum(n) == Cardinality(CountedUnits(n, Actors))

\* The ledger is ahead of the total by at least that.
LedgerAhead(a) ==
    /\ total[a] + Sum(ToAdd(a)) <= Stock[a] + ledger[a].in
    /\ Stock[a] + Sum(ToTake(a)) <= total[a] + ledger[a].out
Ahead == \A a \in Assets : LedgerAhead(a)

IInv == TypeOK /\ JobsFit /\ Backed /\ Ahead

------------------------------------------------------------------------------
(* What a step of one handler leaves of another.                           *)

LEMMA IdleFits == Idle \in Jobs /\ Idle.step = "idle"
BY DEF Idle, Jobs, Ops, Steps, Lines

\* v goes on as before; at most what it has read is outdated.
Same(v) ==
    /\ job'[v] \in Jobs
    /\ job'[v].on = job[v].on /\ job'[v].line = job[v].line /\ job'[v].step = job[v].step
    /\ job'[v].units = job[v].units /\ job'[v].base = job[v].base

\* Counts of what was scanned only grow.
Grows == \A b \in SelfBookings, l \in Lines : scanned[b][l] <= scanned'[b][l]

LEMMA SameFits ==
    ASSUME Backed, Backed', JobsFit, Grows, NEW v \in Actors, Same(v)
    PROVE  JobFits(job[v])'
<1>1. JobFits(job[v]) /\ job[v] \in Jobs
  BY DEF JobsFit, JobFits
<1>2. ASSUME job[v].step \in {"write", "commit"}
      PROVE  ScanFits(job[v])'
  <2>1. PICK b \in SelfBookings, l \in Lines :
            /\ job[v].on = b /\ job[v].line = l /\ job'[v].on = b /\ job'[v].line = l
    BY <1>1, <1>2 DEF JobFits, Jobs, BookingSteps, Same
  <2>2. /\ job[v].units \in Nat /\ job[v].base \in Nat /\ job[v].base <= scanned[b][l]
        /\ job[v].base + job[v].units <= LineQty[b][l]
    BY <1>1, <1>2, <2>1 DEF JobFits, ScanFits, Jobs
  <2>3. scanned[b][l] \in Nat /\ scanned'[b][l] \in Nat /\ scanned[b][l] <= scanned'[b][l]
    BY DEF Backed, Grows
  <2> QED
    BY <2>1, <2>2, <2>3 DEF ScanFits, Same
<1> QED
  BY <1>1, <1>2 DEF JobFits, Same

LEMMA StepKeeps ==
    ASSUME IInv, TypeOK', Backed', Ahead', Grows, job' \in [Actors -> Jobs], NEW w \in Actors,
           \A v \in Actors \ {w} : Same(v), JobFits(job[w])'
    PROVE  IInv'
<1>1. ASSUME NEW v \in Actors
      PROVE  JobFits(job[v])'
  BY <1>1, SameFits DEF IInv
<1> QED
  BY <1>1 DEF IInv, JobsFit

LEMMA OneJob ==
    ASSUME JobsFit, NEW w \in Actors, NEW r \in Jobs, job' = [job EXCEPT ![w] = r]
    PROVE  job' \in [Actors -> Jobs] /\ job'[w] = r /\ \A v \in Actors \ {w} : Same(v)
BY DEF JobsFit, JobFits, Same

\* w is done, and others may have been outdated.
LEMMA DoneKeeps ==
    ASSUME JobsFit, NEW w \in Actors, NEW b, job' = Outdates(w, b) \/ job' = Takes(w)
    PROVE  job' \in [Actors -> Jobs] /\ job'[w] = Idle /\ \A v \in Actors \ {w} : Same(v)
<1>1. ASSUME NEW v \in Actors \ {w}, NEW x \in BOOLEAN, job'[v] = [job[v] EXCEPT !.stale = x]
      PROVE  Same(v)
  <2>1. job[v] \in Jobs
    BY DEF JobsFit, JobFits
  <2> QED
    BY <1>1, <2>1 DEF Same, Jobs
<1>2. ASSUME NEW v \in Actors \ {w}
      PROVE  \E x \in BOOLEAN : job'[v] = [job[v] EXCEPT !.stale = x]
  <2>1. CASE job' = Outdates(w, b)
    <3>1. job'[v] = [job[v] EXCEPT !.stale = job[v].stale \/ job[v].on = b]
      BY <2>1 DEF Outdates
    <3> QED
      BY <3>1
  <2>2. CASE job' = Takes(w)
    <3>1. job'[v] = [job[v] EXCEPT !.stale = job[v].stale \/ HasChecked(v)]
      BY <2>2 DEF Takes
    <3> QED
      BY <3>1
  <2> QED
    BY <2>1, <2>2
<1>3. \A v \in Actors \ {w} : Same(v)
  BY <1>1, <1>2
<1>4. job'[w] = Idle /\ job' = [v \in Actors |-> job'[v]]
  BY DEF Outdates, Takes
<1>5. \A v \in Actors : job'[v] \in Jobs
  BY <1>3, <1>4, IdleFits DEF Same
<1> QED
  BY <1>3, <1>4, <1>5

------------------------------------------------------------------------------
(* The ledger and the totals.                                              *)

WaitType(a) == \A v \in Actors : ToAdd(a)[v] \in Nat /\ ToTake(a)[v] \in Nat

LEMMA WaitTypes ==
    ASSUME job \in [Actors -> Jobs], NEW a
    PROVE  WaitType(a)
<1>1. ASSUME NEW v \in Actors
      PROVE  job[v].units \in Int
  BY DEF Jobs
<1> QED
  BY <1>1 DEF ToAdd, ToTake, WaitType

\* A step of w changes what waits by what w itself adds or takes.
LEMMA WaitChanges ==
    ASSUME JobsFit, job' \in [Actors -> Jobs], NEW w \in Actors,
           \A v \in Actors \ {w} : Same(v), NEW a \in Assets
    PROVE  /\ Sum(ToAdd(a))' = Sum(ToAdd(a)) + ToAdd(a)'[w] - ToAdd(a)[w]
           /\ Sum(ToTake(a))' = Sum(ToTake(a)) + ToTake(a)'[w] - ToTake(a)[w]
           /\ Sum(ToAdd(a)) \in Nat /\ Sum(ToTake(a)) \in Nat
<1> DEFINE m == ToAdd(a)'
           n == ToAdd(a)
           p == ToTake(a)'
           q == ToTake(a)
<1>1. \A v \in Actors : n[v] \in Nat /\ q[v] \in Nat
  BY WaitTypes DEF JobsFit, WaitType
<1>2. \A v \in Actors : m[v] \in Nat /\ p[v] \in Nat
  <2>1. ASSUME NEW v \in Actors
        PROVE  job'[v].units \in Int
    BY DEF Jobs
  <2> QED
    BY <2>1 DEF ToAdd, ToTake
<1>3. \A v \in Actors \ {w} : m[v] = n[v] /\ p[v] = q[v]
  BY DEF ToAdd, ToTake, Waits, At, On, Same
<1>4. /\ Sum(ToAdd(a)) = Cardinality(CountedUnits(n, Actors))
      /\ Sum(ToTake(a)) = Cardinality(CountedUnits(q, Actors))
      /\ Sum(ToAdd(a))' = Cardinality(CountedUnits(m, Actors))
      /\ Sum(ToTake(a))' = Cardinality(CountedUnits(p, Actors))
  BY DEF Sum, CountedUnits
<1> HIDE DEF m, n, p, q
<1>5. /\ Cardinality(CountedUnits(m, Actors)) = Cardinality(CountedUnits(n, Actors)) + m[w] - n[w]
      /\ Cardinality(CountedUnits(p, Actors)) = Cardinality(CountedUnits(q, Actors)) + p[w] - q[w]
  BY <1>1, <1>2, <1>3, ActorsFinite, CountAfterChange
<1>6. /\ Cardinality(CountedUnits(n, Actors)) \in Nat
      /\ Cardinality(CountedUnits(q, Actors)) \in Nat
  BY <1>1, ActorsFinite, CountIsFinite
<1> QED
  BY <1>4, <1>5, <1>6 DEF m, n, p, q

\* A step that neither enters nor applies an adjustment.
LEMMA AheadStays ==
    ASSUME IInv, UNCHANGED <<total, ledger>>, job' \in [Actors -> Jobs], NEW w \in Actors,
           \A v \in Actors \ {w} : Same(v), job'[w].step # "apply"
    PROVE  Ahead'
<1> SUFFICES ASSUME NEW a \in Assets
             PROVE  LedgerAhead(a)'
  BY DEF Ahead
<1>1. /\ Sum(ToAdd(a))' = Sum(ToAdd(a)) + ToAdd(a)'[w] - ToAdd(a)[w]
      /\ Sum(ToTake(a))' = Sum(ToTake(a)) + ToTake(a)'[w] - ToTake(a)[w]
      /\ Sum(ToAdd(a)) \in Nat /\ Sum(ToTake(a)) \in Nat
  BY WaitChanges DEF IInv
<1>2. ToAdd(a)'[w] = 0 /\ ToTake(a)'[w] = 0
  BY DEF ToAdd, ToTake, Waits, At
<1>3. ToAdd(a)[w] \in Nat /\ ToTake(a)[w] \in Nat
  BY WaitTypes DEF IInv, JobsFit, WaitType
<1>4. Sum(ToAdd(a))' <= Sum(ToAdd(a)) /\ Sum(ToTake(a))' <= Sum(ToTake(a))
      /\ Sum(ToAdd(a))' \in Int /\ Sum(ToTake(a))' \in Int
  BY <1>1, <1>2, <1>3
<1>5. /\ total[a] \in Nat /\ Stock[a] \in Nat /\ ledger[a].in \in Nat /\ ledger[a].out \in Nat
      /\ LedgerAhead(a)
  BY StockType DEF IInv, TypeOK, InvTypeOK, Ahead
<1> QED
  BY <1>1, <1>4, <1>5 DEF LedgerAhead

\* Such a step that leaves the returns alone too.
LEMMA QuietKeeps ==
    ASSUME IInv, TypeOK', UNCHANGED <<total, ledger, returned, scanned>>,
           job' \in [Actors -> Jobs], NEW w \in Actors, \A v \in Actors \ {w} : Same(v),
           JobFits(job[w])', job'[w].step # "apply"
    PROVE  IInv'
<1>1. Backed' /\ Grows
  BY DEF IInv, Backed, Grows
<1>2. Ahead'
  BY AheadStays
<1> QED
  BY <1>1, <1>2, StepKeeps

\* With the job of w rewritten to r.
LEMMA QuietJob ==
    ASSUME IInv, TypeOK', UNCHANGED <<total, ledger, returned, scanned>>, NEW w \in Actors,
           NEW r \in Jobs, job' = [job EXCEPT ![w] = r], r.step # "apply",
           r.step \in BookingSteps => r.on \in SelfBookings, r.step \in AssetSteps => r.on \in Assets,
           r.step \in HolderSteps => r.on \in Holders, r.step \in {"write", "commit"} => ScanFits(r)
    PROVE  IInv'
<1>1. job' \in [Actors -> Jobs] /\ job'[w] = r /\ \A v \in Actors \ {w} : Same(v)
  BY OneJob DEF IInv
<1>2. JobFits(job[w])'
  BY <1>1 DEF JobFits, ScanFits
<1> QED
  BY <1>1, <1>2, QuietKeeps

\* With w done.
LEMMA QuietEnd ==
    ASSUME IInv, TypeOK', UNCHANGED <<total, ledger, returned, scanned>>, NEW w \in Actors, NEW b,
           job' = [job EXCEPT ![w] = Idle] \/ job' = Outdates(w, b) \/ job' = Takes(w)
    PROVE  IInv'
<1>1. job' \in [Actors -> Jobs] /\ job'[w] = Idle /\ \A v \in Actors \ {w} : Same(v)
  BY IdleFits, OneJob, DoneKeeps DEF IInv
<1>2. JobFits(job[w])'
  BY <1>1, IdleFits DEF JobFits, BookingSteps, AssetSteps, HolderSteps
<1> QED
  BY <1>1, <1>2, IdleFits, QuietKeeps

------------------------------------------------------------------------------
(* The steps.                                                              *)

LEMMA JobForType ==
    ASSUME NEW op \in Ops, NEW x \in SelfBookings \cup Assets \cup Holders, NEW step \in Steps
    PROVE  LET j == JobFor(op, x, step) IN
           j \in Jobs /\ j.on = x /\ j.step = step /\ j.line = 1 /\ j.base = 0
BY IdleFits DEF JobFor, Jobs, Idle

\* A handler begins.
LEMMA BeginKeeps ==
    ASSUME IInv, NEW w \in Actors, BeginAny(w)
    PROVE  IInv'
<1>1. ASSUME NEW j \in Jobs, Begin(w, j), j.step # "apply",
             j.step \in BookingSteps => j.on \in SelfBookings, j.step \in AssetSteps => j.on \in Assets,
             j.step \in HolderSteps => j.on \in Holders, j.step \in {"write", "commit"} => ScanFits(j)
      PROVE  IInv'
  <2>1. TypeOK' /\ UNCHANGED <<total, ledger, returned, scanned>> /\ job' = [job EXCEPT ![w] = j]
    BY <1>1 DEF Begin, IInv, TypeOK, InvTypeOK, invVars, bookingVars
  <2> QED
    BY <1>1, <2>1, QuietJob
<1>2. {"create", "cancel", "scan", "adjust", "submit"} \subseteq Ops
  BY DEF Ops
<1>3. {"check", "flip", "write", "ledger", "gate"} \subseteq Steps
  BY DEF Steps, BookingSteps, AssetSteps, HolderSteps
<1>4. ASSUME NEW b \in SelfBookings, NEW op \in {"create", "cancel"}, NEW step \in {"check", "flip"},
             Begin(w, JobFor(op, b, step))
      PROVE  IInv'
  <2> DEFINE j == JobFor(op, b, step)
  <2>1. j \in Jobs /\ j.on = b /\ j.step = step
    BY <1>2, <1>3, JobForType
  <2>2. Begin(w, j)
    BY <1>4
  <2> HIDE DEF j
  <2> QED
    BY <1>1, <2>1, <2>2 DEF AssetSteps, HolderSteps
<1>5. ASSUME NEW h \in Holders, BeginSubmit(w, h)
      PROVE  IInv'
  <2> DEFINE j == JobFor("submit", h, "gate")
  <2>1. j \in Jobs /\ j.on = h /\ j.step = "gate"
    BY <1>2, <1>3, JobForType
  <2>2. Begin(w, j)
    BY <1>5 DEF BeginSubmit
  <2> HIDE DEF j
  <2> QED
    BY <1>1, <2>1, <2>2 DEF AssetSteps, BookingSteps
<1>6. ASSUME NEW b \in SelfBookings, NEW l \in Lines, NEW q \in 1 .. LineQty[b][l],
             BeginScan(w, b, l, q)
      PROVE  IInv'
  <2>1. PICK k \in Jobs : k = JobFor("scan", b, "write") /\ k.on = b /\ k.step = "write"
    BY <1>2, <1>3, JobForType
  <2>2. PICK n \in Nat : n = returned[b][l] /\ n <= scanned[b][l]
    BY DEF IInv, TypeOK, Backed
  <2>3. LineQty[b][l] \in Nat /\ q \in Nat /\ n + q <= LineQty[b][l]
    <3>1. LineQty[b][l] \in Nat
      BY LinesType
    <3>2. q \in Nat /\ q <= LineQty[b][l] - n
      BY <1>6, <2>2, <3>1 DEF BeginScan
    <3> QED
      BY <3>1, <3>2
  <2> DEFINE j == [k EXCEPT !.line = l, !.units = q, !.base = n]
  <2>4. Begin(w, j)
    BY <1>6, <2>1, <2>2 DEF BeginScan
  <2>5. j \in Jobs /\ j.on = b /\ j.step = "write" /\ j.line = l /\ j.units = q /\ j.base = n
    <3>1. q \in Int
      BY <2>3
    <3> QED
      BY <2>1, <3>1 DEF Jobs
  <2> HIDE DEF j
  <2>6. ScanFits(j)
    BY <2>2, <2>3, <2>5 DEF ScanFits
  <2> QED
    BY <1>1, <2>4, <2>5, <2>6 DEF AssetSteps, HolderSteps
<1>7. ASSUME NEW a \in Assets, NEW d \in Deltas[a], BeginAdjust(w, a, d)
      PROVE  IInv'
  <2>1. PICK k \in Jobs : k = JobFor("adjust", a, "ledger") /\ k.on = a /\ k.step = "ledger"
    BY <1>2, <1>3, JobForType
  <2> DEFINE j == [k EXCEPT !.units = d]
  <2>2. d \in Int
    BY DeltasType
  <2>3. j \in Jobs /\ j.on = a /\ j.step = "ledger"
    BY <2>1, <2>2 DEF Jobs
  <2>4. /\ job' = [job EXCEPT ![w] = j] /\ UNCHANGED <<invVars, bookingVars, ledger, scanned>>
    BY <1>7, <2>1 DEF BeginAdjust
  <2>5. TypeOK' /\ UNCHANGED <<total, ledger, returned, scanned>>
    BY <2>4 DEF IInv, TypeOK, InvTypeOK, invVars, bookingVars
  <2> HIDE DEF j
  <2> QED
    BY <2>3, <2>4, <2>5, QuietJob DEF BookingSteps, HolderSteps
<1> QED
  BY <1>4, <1>5, <1>6, <1>7 DEF BeginAny, BeginCreate, BeginCancel

\* What is known of the handler that takes a step.
LEMMA JobFacts ==
    ASSUME IInv, NEW w \in Actors
    PROVE  /\ job[w] \in Jobs /\ job \in [Actors -> Jobs]
           /\ job[w].step \in BookingSteps => On(w) \in SelfBookings
           /\ job[w].step \in AssetSteps => On(w) \in Assets
           /\ job[w].step \in HolderSteps => On(w) \in Holders
           /\ job[w].step \in {"write", "commit"} => ScanFits(job[w])
           /\ job[w].line \in Lines /\ job[w].units \in Int /\ job[w].base \in Nat
           /\ w \in Actors \cup {Nobody}
BY DEF IInv, JobsFit, JobFits, On, Jobs

\* A create checks and inserts.
LEMMA CreateKeeps ==
    ASSUME IInv, NEW w \in Actors, CheckLine(w) \/ InsertBooking(w)
    PROVE  IInv'
<1>1. /\ job[w] \in Jobs /\ On(w) \in SelfBookings /\ job[w].on \in SelfBookings
  BY JobFacts DEF CheckLine, InsertBooking, At, On, BookingSteps
<1>2. CASE CheckLine(w)
  <2>1. /\ TypeOK' /\ UNCHANGED <<total, ledger, returned, scanned>> /\ job[w].step = "check"
    BY <1>2 DEF CheckLine, At, IInv, TypeOK, InvTypeOK, invVars, bookingVars
  <2>2. CASE job' = [job EXCEPT ![w] = Idle]
    BY <2>1, <2>2, QuietEnd
  <2>3. CASE job' # [job EXCEPT ![w] = Idle]
    <3> DEFINE r == [job[w] EXCEPT !.line = 2]
               s == [job[w] EXCEPT !.step = "insert"]
    <3>1. job' = [job EXCEPT ![w] = r] \/ job' = [job EXCEPT ![w] = s]
      BY <1>2, <2>3 DEF CheckLine, Finish, GoTo
    <3>2. /\ r \in Jobs /\ r.on \in SelfBookings /\ r.step = "check"
          /\ s \in Jobs /\ s.on \in SelfBookings /\ s.step = "insert"
      BY <1>1, <2>1 DEF Jobs, Lines, Steps, BookingSteps
    <3> HIDE DEF r, s
    <3>3. CASE job' = [job EXCEPT ![w] = r]
      BY <2>1, <3>2, <3>3, QuietJob DEF AssetSteps, HolderSteps
    <3>4. CASE job' = [job EXCEPT ![w] = s]
      BY <2>1, <3>2, <3>4, QuietJob DEF AssetSteps, HolderSteps
    <3> QED
      BY <3>1, <3>3, <3>4
  <2> QED
    BY <2>2, <2>3
<1>3. CASE InsertBooking(w)
  <2>1. TypeOK' /\ UNCHANGED <<total, ledger, returned, scanned>> /\ job' = Takes(w)
    BY <1>1, <1>3 DEF InsertBooking, IInv, TypeOK, InvTypeOK, invVars, Statuses
  <2> QED
    BY <2>1, QuietEnd
<1> QED
  BY <1>2, <1>3

\* A scan updates its line.
LEMMA WriteKeeps ==
    ASSUME IInv, NEW w \in Actors, WriteLine(w)
    PROVE  IInv'
<1>1. /\ job[w] \in Jobs /\ job[w].on \in SelfBookings /\ job[w].step = "write" /\ ScanFits(job[w])
  BY JobFacts DEF WriteLine, At, On, BookingSteps
<1>2. PICK x \in BOOLEAN : job' = [job EXCEPT ![w] = [job[w] EXCEPT !.step = "commit", !.last = x]]
  <2>1. (LineBack(w) /\ \A k \in Lines \ {job[w].line} : lineStatus[On(w)][k] = "RETURNED") \in BOOLEAN
    OBVIOUS
  <2> QED
    BY <1>1, <2>1 DEF WriteLine, IInv, JobsFit
<1> DEFINE r == [job[w] EXCEPT !.step = "commit", !.last = x]
<1>3. /\ r \in Jobs /\ r.on = job[w].on /\ r.line = job[w].line /\ r.units = job[w].units
      /\ r.base = job[w].base /\ r.step = "commit"
  BY <1>1 DEF Jobs, Steps, BookingSteps
<1>4. TypeOK' /\ UNCHANGED <<total, ledger, returned, scanned>> /\ job' = [job EXCEPT ![w] = r]
  <2>1. lineLock' \in [SelfBookings -> [Lines -> Actors \cup {Nobody}]]
    BY DEF WriteLine, IInv, TypeOK
  <2> QED
    BY <1>2, <2>1 DEF WriteLine, IInv, TypeOK, InvTypeOK, invVars
<1> HIDE DEF r
<1>5. ScanFits(r)
  BY <1>1, <1>3 DEF ScanFits
<1> QED
  BY <1>1, <1>3, <1>4, <1>5, QuietJob DEF AssetSteps, HolderSteps

\* It commits a count computed from what it had read before: no more than what
\* was taken, and no more than what has been scanned by now.
LEMMA CommitKeeps ==
    ASSUME IInv, NEW w \in Actors, CommitScan(w)
    PROVE  IInv'
<1>1. PICK b \in SelfBookings, l \in Lines : On(w) = b /\ job[w].line = l
  BY JobFacts DEF CommitScan, At, BookingSteps
<1>2. PICK u \in Nat, n \in Nat : /\ job[w].units = u /\ job[w].base = n
                                  /\ n <= scanned[b][l] /\ n + u <= LineQty[b][l]
  BY <1>1, JobFacts DEF CommitScan, At, ScanFits, On
<1>3. /\ returned' = [returned EXCEPT ![b][l] = n + u]
      /\ scanned' = [scanned EXCEPT ![b][l] = AtMost(LineQty[b][l], scanned[b][l] + u)]
      /\ UNCHANGED <<total, avail, booking, assetLock, bookingLock, ledger>>
      /\ job' = Outdates(w, b)
  BY <1>1, <1>2 DEF CommitScan, Back, invVars
<1>4. TypeOK'
  <2>1. /\ status' \in [SelfBookings -> Statuses]
        /\ lineStatus' \in [SelfBookings -> [Lines -> {"OUT", "RETURNED"}]]
        /\ lineLock' \in [SelfBookings -> [Lines -> Actors \cup {Nobody}]]
    BY <1>1 DEF CommitScan, IInv, TypeOK, Statuses
  <2>2. returned' \in [SelfBookings -> [Lines -> Nat]]
    <3>1. n + u \in Nat
      OBVIOUS
    <3> QED
      BY <1>3, <3>1 DEF IInv, TypeOK
  <2> QED
    BY <1>3, <2>1, <2>2 DEF IInv, TypeOK, InvTypeOK
<1>5. Backed' /\ Grows
  <2>1. PICK s \in Nat : s = AtMost(LineQty[b][l], scanned[b][l] + u)
    BY LinesType DEF AtMost, IInv, Backed
  <2>2. scanned[b][l] <= s /\ n + u <= s /\ s <= LineQty[b][l]
    <3>1. /\ LineQty[b][l] \in Nat /\ scanned[b][l] \in Nat /\ scanned[b][l] <= LineQty[b][l]
      BY LinesType DEF IInv, Backed
    <3> QED
      BY <1>2, <2>1, <3>1 DEF AtMost
  <2>3. /\ scanned' = [scanned EXCEPT ![b] = [scanned[b] EXCEPT ![l] = s]]
        /\ returned' = [returned EXCEPT ![b] = [returned[b] EXCEPT ![l] = n + u]]
    BY <1>3, <2>1
  <2>4. /\ scanned \in [SelfBookings -> [Lines -> Nat]]
        /\ returned \in [SelfBookings -> [Lines -> Nat]]
    BY DEF IInv, TypeOK, Backed
  <2>5. ASSUME NEW c \in SelfBookings, NEW k \in Lines
        PROVE  /\ scanned'[c][k] = IF c = b /\ k = l THEN s ELSE scanned[c][k]
               /\ returned'[c][k] = IF c = b /\ k = l THEN n + u ELSE returned[c][k]
    BY <2>3, <2>4
  <2>6. scanned' \in [SelfBookings -> [Lines -> Nat]]
    BY <2>3, <2>4
  <2>7. Grows
    BY <2>2, <2>4, <2>5 DEF Grows
  <2> QED
    BY <2>2, <2>5, <2>6, <2>7 DEF IInv, Backed
<1>6. job' \in [Actors -> Jobs] /\ job'[w] = Idle /\ \A v \in Actors \ {w} : Same(v)
  BY <1>3, DoneKeeps DEF IInv
<1>7. JobFits(job[w])'
  BY <1>6, IdleFits DEF JobFits, BookingSteps, AssetSteps, HolderSteps
<1>8. Ahead'
  BY <1>3, <1>6, IdleFits, AheadStays
<1> QED
  BY <1>4, <1>5, <1>6, <1>7, <1>8, StepKeeps

LEMMA CancelKeeps ==
    ASSUME IInv, NEW w \in Actors, FlipBooking(w) \/ SettleLines(w)
    PROVE  IInv'
<1>1. job[w] \in Jobs /\ job[w].on \in SelfBookings /\ On(w) = job[w].on
  BY JobFacts DEF FlipBooking, SettleLines, At, On, BookingSteps
<1>2. CASE FlipBooking(w)
  <2> DEFINE r == [job[w] EXCEPT !.step = "settle"]
  <2>1. r \in Jobs /\ r.on = job[w].on /\ r.step = "settle"
    BY <1>1 DEF Jobs, Steps, BookingSteps
  <2>2. TypeOK' /\ UNCHANGED <<total, ledger, returned, scanned>> /\ job' = [job EXCEPT ![w] = r]
    BY <1>2 DEF FlipBooking, GoTo, IInv, TypeOK, InvTypeOK, invVars
  <2> HIDE DEF r
  <2> QED
    BY <1>1, <2>1, <2>2, QuietJob DEF AssetSteps, HolderSteps
<1>3. CASE SettleLines(w)
  <2>1. /\ TypeOK' /\ UNCHANGED <<total, ledger, returned, scanned>> /\ job' = Outdates(w, On(w))
    BY <1>3 DEF SettleLines, IInv, TypeOK, InvTypeOK, invVars, Statuses
  <2> QED
    BY <2>1, QuietEnd
<1> QED
  BY <1>2, <1>3

\* The ledger row comes first.
LEMMA EnterKeeps ==
    ASSUME IInv, NEW w \in Actors, EnterMovement(w)
    PROVE  IInv'
<1>1. PICK a \in Assets, d \in Int : On(w) = a /\ job[w].units = d /\ job[w].on = a
  BY JobFacts DEF EnterMovement, At, On, AssetSteps
<1> DEFINE r == [job[w] EXCEPT !.step = "apply"]
<1>2. r \in Jobs /\ r.on = a /\ r.units = d /\ r.step = "apply"
  BY <1>1, JobFacts DEF Jobs, Steps, AssetSteps
<1>3. /\ ledger' = [ledger EXCEPT ![a] = Entered(ledger[a], d)] /\ job' = [job EXCEPT ![w] = r]
      /\ UNCHANGED <<total, avail, booking, assetLock, status, lineStatus, returned, lineLock,
                     bookingLock, scanned>>
      /\ job[w].step = "ledger"
  BY <1>1 DEF EnterMovement, GoTo, At, invVars, bookingVars
<1> HIDE DEF r
<1>4. PICK e \in [in : Nat, out : Nat] : e = ledger[a]
  BY DEF IInv, TypeOK
<1>5. /\ ledger' \in [Assets -> [in : Nat, out : Nat]]
      /\ ledger'[a].in = e.in + (IF d > 0 THEN d ELSE 0)
      /\ ledger'[a].out = e.out + (IF d > 0 THEN 0 ELSE -d)
  <2>1. PICK f \in [in : Nat, out : Nat] : /\ f = Entered(e, d)
                                           /\ f.in = e.in + (IF d > 0 THEN d ELSE 0)
                                           /\ f.out = e.out + (IF d > 0 THEN 0 ELSE -d)
    <3>1. CASE d > 0
      <4>1. Entered(e, d) = [e EXCEPT !.in = e.in + d] /\ e.in + d \in Nat
        BY <3>1 DEF Entered
      <4> QED
        BY <3>1, <4>1
    <3>2. CASE ~(d > 0)
      <4>1. Entered(e, d) = [e EXCEPT !.out = e.out - d] /\ e.out - d \in Nat /\ e.out - d = e.out + (-d)
        BY <3>2 DEF Entered
      <4> QED
        BY <3>2, <4>1
    <3> QED
      BY <3>1, <3>2
  <2> QED
    BY <1>3, <1>4, <2>1 DEF IInv, TypeOK
<1>6. TypeOK'
  BY <1>3, <1>5 DEF IInv, TypeOK, InvTypeOK
<1>7. job' \in [Actors -> Jobs] /\ job'[w] = r /\ \A v \in Actors \ {w} : Same(v)
  BY <1>2, <1>3, OneJob DEF IInv
<1>8. JobFits(job[w])'
  BY <1>2, <1>7 DEF JobFits, BookingSteps, HolderSteps
<1>9. Backed' /\ Grows
  BY <1>3 DEF IInv, Backed, Grows
<1>10. ASSUME NEW c \in Assets
       PROVE  LedgerAhead(c)'
  <2>1. /\ Sum(ToAdd(c))' = Sum(ToAdd(c)) + ToAdd(c)'[w] - ToAdd(c)[w]
        /\ Sum(ToTake(c))' = Sum(ToTake(c)) + ToTake(c)'[w] - ToTake(c)[w]
        /\ Sum(ToAdd(c)) \in Nat /\ Sum(ToTake(c)) \in Nat
    BY <1>7, WaitChanges DEF IInv
  <2>2. ToAdd(c)[w] = 0 /\ ToTake(c)[w] = 0
    BY <1>3 DEF ToAdd, ToTake, Waits, At
  <2>3. /\ total'[c] \in Nat /\ Stock[c] \in Nat /\ ledger[c].in \in Nat /\ ledger[c].out \in Nat
        /\ LedgerAhead(c) /\ total'[c] = total[c]
    BY <1>3, StockType DEF IInv, TypeOK, InvTypeOK, Ahead
  <2>4. CASE c = a
    <3>1. /\ ToAdd(a)'[w] = IF d > 0 THEN d ELSE 0
          /\ ToTake(a)'[w] = IF d > 0 THEN 0 ELSE -d
      BY <1>2, <1>7 DEF ToAdd, ToTake, Waits, At, On
    <3> QED
      BY <1>4, <1>5, <2>1, <2>2, <2>3, <2>4, <3>1 DEF LedgerAhead
  <2>5. CASE c # a
    <3>1. ToAdd(c)'[w] = 0 /\ ToTake(c)'[w] = 0
      BY <1>2, <1>7, <2>5 DEF ToAdd, ToTake, Waits, On
    <3>2. ledger'[c] = ledger[c]
      BY <1>3, <2>5 DEF IInv, TypeOK
    <3> QED
      BY <2>1, <2>2, <2>3, <3>1, <3>2 DEF LedgerAhead
  <2> QED
    BY <2>4, <2>5
<1> QED
  BY <1>6, <1>7, <1>8, <1>9, <1>10, StepKeeps DEF Ahead

\* What the UPDATE changes is what has been waiting, or less.
LEMMA ApplyKeeps ==
    ASSUME IInv, NEW w \in Actors, ApplyMovement(w)
    PROVE  IInv'
<1>1. PICK a \in Assets, d \in Int : On(w) = a /\ job[w].units = d /\ job[w].on = a
  BY JobFacts DEF ApplyMovement, At, On, AssetSteps
<1>2. /\ total' = [total EXCEPT ![a] = Shifted(total[a], d)]
      /\ avail' = [avail EXCEPT ![a] = Shifted(avail[a], d)]
      /\ job' = [job EXCEPT ![w] = Idle] \/ job' = Takes(w)
      /\ UNCHANGED <<booking, assetLock, status, lineStatus, returned, lineLock,
                     bookingLock, ledger, scanned>>
      /\ job[w].step = "apply"
  BY <1>1 DEF ApplyMovement, At, bookingVars
<1>3. /\ total[a] \in Nat /\ avail[a] \in Nat
      /\ Shifted(total[a], d) \in Nat /\ Shifted(avail[a], d) \in Nat
  <2>1. total[a] \in Nat /\ avail[a] \in Nat
    BY DEF IInv, TypeOK, InvTypeOK
  <2> QED
    BY <2>1 DEF Shifted, AtLeastZero
<1>4. TypeOK'
  <2>1. total' \in [Assets -> Nat] /\ avail' \in [Assets -> Nat]
    BY <1>2, <1>3 DEF IInv, TypeOK, InvTypeOK
  <2> QED
    BY <1>2, <2>1 DEF IInv, TypeOK, InvTypeOK
<1>5. job' \in [Actors -> Jobs] /\ job'[w] = Idle /\ \A v \in Actors \ {w} : Same(v)
  BY <1>2, IdleFits, OneJob, DoneKeeps DEF IInv
<1>6. JobFits(job[w])'
  BY <1>5, IdleFits DEF JobFits, BookingSteps, AssetSteps, HolderSteps
<1>7. Backed' /\ Grows
  BY <1>2 DEF IInv, Backed, Grows
<1>8. ASSUME NEW c \in Assets
      PROVE  LedgerAhead(c)'
  <2>1. /\ Sum(ToAdd(c))' = Sum(ToAdd(c)) + ToAdd(c)'[w] - ToAdd(c)[w]
        /\ Sum(ToTake(c))' = Sum(ToTake(c)) + ToTake(c)'[w] - ToTake(c)[w]
        /\ Sum(ToAdd(c)) \in Nat /\ Sum(ToTake(c)) \in Nat
    BY <1>5, WaitChanges DEF IInv
  <2>2. ToAdd(c)'[w] = 0 /\ ToTake(c)'[w] = 0
    BY <1>5, IdleFits DEF ToAdd, ToTake, Waits, At
  <2>3. /\ total[c] \in Nat /\ Stock[c] \in Nat /\ ledger[c].in \in Nat /\ ledger[c].out \in Nat
        /\ LedgerAhead(c) /\ ledger' = ledger
    BY <1>2, StockType DEF IInv, TypeOK, InvTypeOK, Ahead
  <2>4. CASE c = a
    <3>1. /\ ToAdd(a)[w] = IF d > 0 THEN d ELSE 0
          /\ ToTake(a)[w] = IF d < 0 THEN -d ELSE 0
      BY <1>1, <1>2 DEF ToAdd, ToTake, Waits, At
    <3>2. total'[a] = IF total[a] + d < 0 THEN 0 ELSE total[a] + d
      BY <1>2 DEF Shifted, AtLeastZero, IInv, TypeOK, InvTypeOK
    <3> QED
      BY <2>1, <2>2, <2>3, <2>4, <3>1, <3>2 DEF LedgerAhead
  <2>5. CASE c # a
    <3>1. ToAdd(c)[w] = 0 /\ ToTake(c)[w] = 0
      BY <1>1, <2>5 DEF ToAdd, ToTake, Waits
    <3>2. total'[c] = total[c]
      BY <1>2, <2>5 DEF IInv, TypeOK, InvTypeOK
    <3> QED
      BY <2>1, <2>2, <2>3, <3>1, <3>2 DEF LedgerAhead
  <2> QED
    BY <2>4, <2>5
<1> QED
  BY <1>4, <1>5, <1>6, <1>7, <1>8, StepKeeps DEF Ahead

\* A submit locks the assets and books.
LEMMA SubmitKeeps ==
    ASSUME IInv, NEW w \in Actors, Gate(w) \/ Book(w)
    PROVE  IInv'
<1>1. job[w] \in Jobs /\ job[w].on \in Holders /\ On(w) = job[w].on
  BY JobFacts DEF Gate, Book, At, On, HolderSteps
<1>2. CASE Gate(w)
  <2>1. UNCHANGED <<total, avail, booking, ledger, status, lineStatus, returned, lineLock,
                    bookingLock, scanned>>
    BY <1>2 DEF Gate, stockVars, bookingVars
  <2>2. CASE job' = [job EXCEPT ![w] = Idle]
    <3>1. assetLock' \in [Assets -> Actors \cup {Nobody}]
      BY <1>2 DEF Gate, LockedBy, IInv, TypeOK, InvTypeOK
    <3>2. TypeOK'
      BY <2>1, <3>1 DEF IInv, TypeOK, InvTypeOK
    <3> QED
      BY <2>1, <2>2, <3>2, QuietEnd
  <2>3. CASE job' # [job EXCEPT ![w] = Idle]
    <3> DEFINE r == [job[w] EXCEPT !.step = "book"]
    <3>1. assetLock' = LockedBy(w, Items(On(w))) /\ job' = [job EXCEPT ![w] = r]
      BY <1>2, <2>3 DEF Gate, Finish, GoTo
    <3>2. TypeOK'
      BY <2>1, <3>1 DEF LockedBy, IInv, TypeOK, InvTypeOK
    <3>3. r \in Jobs /\ r.on \in Holders /\ r.step = "book"
      BY <1>1 DEF Jobs, Steps, HolderSteps
    <3> HIDE DEF r
    <3> QED
      BY <2>1, <3>1, <3>2, <3>3, QuietJob DEF AssetSteps, BookingSteps
  <2> QED
    BY <2>2, <2>3
<1>3. CASE Book(w)
  <2>1. /\ UNCHANGED <<total, ledger, status, lineStatus, returned, lineLock, bookingLock, scanned>>
        /\ job' = Takes(w)
    BY <1>3 DEF Book, bookingVars
  <2>2. /\ booking' \in [Holders -> [Assets -> Nat]]
        /\ assetLock' \in [Assets -> Actors \cup {Nobody}]
    <3>1. assetLock' \in [Assets -> Actors \cup {Nobody}]
      BY <1>3 DEF Book, UnlockedBy, IInv, TypeOK, InvTypeOK
    <3>2. PICK h \in Holders : h = On(w)
      BY <1>1
    <3>3. [a \in Assets |-> IF Need[h][a] > 0 THEN Need[h][a] ELSE booking[h][a]] \in [Assets -> Nat]
      BY NeedType DEF IInv, TypeOK, InvTypeOK
    <3> QED
      BY <1>3, <3>1, <3>2, <3>3 DEF Book, InsertRows, IInv, TypeOK, InvTypeOK
  <2>3. avail' \in [Assets -> Nat]
    <3>1. ASSUME NEW a \in Assets
          PROVE  AtLeastZero(avail[a] - Need[On(w)][a]) \in Nat
      BY <1>1, NeedType DEF AtLeastZero, IInv, TypeOK, InvTypeOK
    <3> QED
      BY <1>3, <3>1 DEF Book, Decrement
  <2>4. TypeOK'
    BY <2>1, <2>2, <2>3 DEF IInv, TypeOK, InvTypeOK
  <2> QED
    BY <2>1, <2>4, QuietEnd
<1> QED
  BY <1>2, <1>3

LEMMA RollbackKeeps ==
    ASSUME IInv, NEW w \in Actors, Rollback(w)
    PROVE  IInv'
<1>1. /\ UNCHANGED <<total, avail, booking, ledger, status, lineStatus, returned, scanned>>
      /\ job' = [job EXCEPT ![w] = Idle]
  BY DEF Rollback, Finish, stockVars
<1>2. /\ assetLock' \in [Assets -> Actors \cup {Nobody}]
      /\ lineLock' \in [SelfBookings -> [Lines -> Actors \cup {Nobody}]]
      /\ bookingLock' \in [SelfBookings -> Actors \cup {Nobody}]
  BY DEF Rollback, UnlockedBy, IInv, TypeOK, InvTypeOK
<1>3. TypeOK'
  BY <1>1, <1>2 DEF IInv, TypeOK, InvTypeOK
<1> QED
  BY <1>1, <1>3, QuietEnd

\* A step that no handler takes.
LEMMA OutsideKeeps ==
    ASSUME IInv, TypeOK', UNCHANGED <<total, ledger, returned, scanned, job>>
    PROVE  IInv'
<1>1. Backed' /\ JobsFit'
  BY DEF IInv, Backed, JobsFit, JobFits, ScanFits
<1>2. Ahead'
  BY DEF IInv, Ahead, LedgerAhead, Sum, ToAdd, ToTake, Waits, At, On, CountedUnits
<1> QED
  BY <1>1, <1>2 DEF IInv

LEMMA ReleaseKeeps ==
    ASSUME IInv, NEW h \in Holders, Release(h)
    PROVE  IInv'
<1>1. UNCHANGED <<total, assetLock, ledger, status, lineStatus, returned, lineLock, bookingLock,
                  scanned, job>>
  BY DEF Release, bookingVars
<1>2. booking' \in [Holders -> [Assets -> Nat]]
  BY DEF Release, DeleteRows, IInv, TypeOK, InvTypeOK
<1>3. avail' \in [Assets -> Nat]
  <2>1. ASSUME NEW a \in Assets
        PROVE  Restored(booking[h])[a] \in Nat
    <3>1. avail[a] \in Nat /\ total[a] \in Nat /\ booking[h][a] \in Nat
      BY DEF IInv, TypeOK, InvTypeOK
    <3> QED
      BY <3>1 DEF Restored, AtMost, AtLeastZero
  <2> QED
    BY <2>1 DEF Release, Restored
<1>4. TypeOK'
  BY <1>1, <1>2, <1>3 DEF IInv, TypeOK, InvTypeOK
<1> QED
  BY <1>1, <1>4, OutsideKeeps

------------------------------------------------------------------------------
(* The theorems.                                                           *)

LEMMA InitHolds ==
    Init => IInv
<1> SUFFICES ASSUME Init
             PROVE  IInv
  OBVIOUS
<1>1. TypeOK
  BY StockType DEF Init, InvInit, TypeOK, InvTypeOK, Statuses
<1>2. JobsFit
  BY IdleFits DEF Init, JobsFit, JobFits, BookingSteps, AssetSteps, HolderSteps
<1>3. Backed
  BY LinesType DEF Init, Backed
<1>4. ASSUME NEW a \in Assets
      PROVE  LedgerAhead(a)
  <2>1. \A w \in Actors : ToAdd(a)[w] = 0 /\ ToTake(a)[w] = 0
    BY IdleFits DEF Init, ToAdd, ToTake, Waits, At
  <2>2. CountedUnits(ToAdd(a), Actors) = {} /\ CountedUnits(ToTake(a), Actors) = {}
    BY <2>1 DEF CountedUnits
  <2>3. Sum(ToAdd(a)) = 0 /\ Sum(ToTake(a)) = 0
    BY <2>2, FS_EmptySet DEF Sum
  <2>4. Stock[a] \in Nat /\ total[a] = Stock[a] /\ ledger[a].in = 0 /\ ledger[a].out = 0
    BY StockType DEF Init, InvInit
  <2> QED
    BY <2>3, <2>4 DEF LedgerAhead
<1> QED
  BY <1>1, <1>2, <1>3, <1>4 DEF IInv, Ahead

LEMMA NextKeeps ==
    IInv /\ [Next]_vars => IInv'
<1> SUFFICES ASSUME IInv, [Next]_vars
             PROVE  IInv'
  OBVIOUS
<1>1. ASSUME NEW w \in Actors, Resume(w)
      PROVE  IInv'
  BY <1>1, CreateKeeps, WriteKeeps, CommitKeeps, CancelKeeps, EnterKeeps, ApplyKeeps,
     SubmitKeeps DEF Resume
<1>2. ASSUME NEW w \in Actors, NEW v \in Actors, Crash(w) \/ BreakDeadlock(w, v)
      PROVE  IInv'
  BY <1>2, RollbackKeeps DEF Crash, BreakDeadlock
<1>3. CASE UNCHANGED vars
  <2>1. /\ UNCHANGED <<total, avail, booking, assetLock, ledger, status, lineStatus, returned,
                       lineLock, bookingLock, scanned, job>>
    BY <1>3 DEF vars, invVars, bookingVars
  <2>2. TypeOK'
    BY <2>1 DEF IInv, TypeOK, InvTypeOK
  <2> QED
    BY <2>1, <2>2, OutsideKeeps
<1> QED
  BY <1>1, <1>2, <1>3, BeginKeeps, ReleaseKeeps DEF Next

\* The variables keep their types.
THEOREM TypeCorrect == Spec => []TypeOK
<1>1. IInv => TypeOK
  BY DEF IInv
<1> QED
  BY <1>1, InitHolds, NextKeeps, PTL DEF Spec

\* However many scans of one line interleave, each with a count it has read before
\* its transaction, a line never has more back than was taken or was scanned
\* (returnScan).
THEOREM ReturnsBacked == Spec => []ReturnsBackedByScans
<1>1. IInv => ReturnsBackedByScans
  <2> SUFFICES ASSUME IInv, NEW b \in SelfBookings, NEW l \in Lines
               PROVE  returned[b][l] <= AtMost(LineQty[b][l], scanned[b][l])
    BY DEF ReturnsBackedByScans
  <2>1. /\ returned[b][l] \in Nat /\ scanned[b][l] \in Nat /\ LineQty[b][l] \in Nat
        /\ returned[b][l] <= scanned[b][l] /\ scanned[b][l] <= LineQty[b][l]
    BY LinesType DEF IInv, TypeOK, Backed
  <2> QED
    BY <2>1 DEF AtMost
<1> QED
  BY <1>1, InitHolds, NextKeeps, PTL DEF Spec

\* However many adjustments are between their two statements, and wherever one of
\* them dies, the pool has changed by no more than the ledger accounts for
\* (record in stock-movement.service.ts).
THEOREM LedgerExplains == Spec => []ChangesAreInLedger
<1>1. IInv => ChangesAreInLedger
  <2> SUFFICES ASSUME IInv, NEW a \in Assets
               PROVE  /\ Stock[a] - ledger[a].out <= total[a]
                      /\ total[a] <= Stock[a] + ledger[a].in
    BY DEF ChangesAreInLedger
  <2>1. Sum(ToAdd(a)) \in Nat /\ Sum(ToTake(a)) \in Nat
    <3>1. \A v \in Actors : ToAdd(a)[v] \in Nat /\ ToTake(a)[v] \in Nat
      BY WaitTypes DEF IInv, JobsFit, WaitType
    <3> QED
      BY <3>1, ActorsFinite, CountIsFinite DEF Sum
  <2>2. /\ total[a] \in Nat /\ Stock[a] \in Nat /\ ledger[a].in \in Nat /\ ledger[a].out \in Nat
        /\ LedgerAhead(a)
    BY StockType DEF IInv, TypeOK, InvTypeOK, Ahead
  <2> QED
    BY <2>1, <2>2 DEF LedgerAhead
<1> QED
  BY <1>1, InitHolds, NextKeeps, PTL DEF Spec
------------------------------------------------------------------------------
(* The bookings that no outdated handler has written.                      *)

\* Not stored yet: nothing of it has been scanned.
FreshBooking(b) == status[b] = "NONE" =>
    \A l \in Lines : scanned[b][l] = 0 /\ returned[b][l] = 0

\* A line that is back is back entirely, an active booking has a line out, and
\* one that is not active has none.
BookFits(b) ==
    /\ \A l \in Lines : returned[b][l] = scanned[b][l]
    /\ status[b] = "ACTIVE" => \E l \in Lines : lineStatus[b][l] = "OUT"
    /\ status[b] \in {"ACTIVE", "COMPLETED"} =>
         \A l \in Lines : lineStatus[b][l] = "RETURNED" => returned[b][l] = LineQty[b][l]
    /\ status[b] \in {"COMPLETED", "CANCELLED"} => \A l \in Lines : lineStatus[b][l] = "RETURNED"
BooksFit == \A b \in SelfBookings : FreshBooking(b) /\ (b \in disturbed \/ BookFits(b))

\* What a scan has read of its line, and of the others, still holds.
ScanStands(j) ==
    /\ status[j.on] = "ACTIVE"
    /\ j.base = returned[j.on][j.line]
    /\ j.step = "commit" =>
         (j.last <=> /\ j.base + j.units >= LineQty[j.on][j.line]
                     /\ \A k \in Lines \ {j.line} : lineStatus[j.on][k] = "RETURNED")

Creates(j) == j.step \in {"check", "insert"}
Knows(j) ==
    /\ Creates(j) => status[j.on] = "NONE"
    /\ j.step \in {"write", "commit", "flip", "settle"} => status[j.on] # "NONE"
    /\ j.step \in {"write", "commit"} /\ ~j.stale /\ j.on \notin disturbed => ScanStands(j)

\* One handler at a time creates a booking.
OneCreator == \A v, w \in Actors :
    Creates(job[v]) /\ Creates(job[w]) /\ On(v) = On(w) => v = w

KInv == BooksFit /\ OneCreator /\ \A w \in Actors : Knows(job[w])

\* v goes on as before; at most it is outdated.
Later(v) ==
    /\ Same(v) /\ job'[v].last = job[v].last
    /\ job[v].stale => job'[v].stale

LEMMA OneJobLater ==
    ASSUME JobsFit, NEW w \in Actors, NEW r, job' = [job EXCEPT ![w] = r]
    PROVE  job'[w] = r /\ \A v \in Actors \ {w} : Later(v)
BY DEF JobsFit, JobFits, Same, Later

LEMMA DoneLater ==
    ASSUME JobsFit, NEW w \in Actors, NEW b, job' = Outdates(w, b) \/ job' = Takes(w)
    PROVE  /\ job'[w] = Idle
           /\ \A v \in Actors \ {w} : Later(v)
           /\ job' = Outdates(w, b) => \A v \in Actors \ {w} : job[v].on = b => job'[v].stale
<1>1. ASSUME NEW v \in Actors \ {w}, NEW x \in BOOLEAN,
             job'[v] = [job[v] EXCEPT !.stale = job[v].stale \/ x]
      PROVE  Later(v) /\ (x => job'[v].stale)
  <2>1. job[v] \in Jobs
    BY DEF JobsFit, JobFits
  <2>2. job[v].stale \in BOOLEAN /\ job'[v].stale = (job[v].stale \/ x)
    BY <1>1, <2>1 DEF Jobs
  <2>3. /\ job'[v] \in Jobs /\ job'[v].on = job[v].on /\ job'[v].line = job[v].line
        /\ job'[v].step = job[v].step /\ job'[v].units = job[v].units
        /\ job'[v].base = job[v].base /\ job'[v].last = job[v].last
    BY <1>1, <2>1 DEF Jobs
  <2> QED
    BY <2>2, <2>3 DEF Later, Same
<1>2. ASSUME NEW v \in Actors \ {w}, job' = Outdates(w, b)
      PROVE  Later(v) /\ (job[v].on = b => job'[v].stale)
  <2>1. job'[v] = [job[v] EXCEPT !.stale = job[v].stale \/ job[v].on = b]
    BY <1>2 DEF Outdates
  <2> QED
    BY <1>1, <2>1
<1>3. ASSUME NEW v \in Actors \ {w}, job' = Takes(w)
      PROVE  Later(v)
  <2>1. job'[v] = [job[v] EXCEPT !.stale = job[v].stale \/ HasChecked(v)]
    BY <1>3 DEF Takes
  <2>2. HasChecked(v) \in BOOLEAN
    BY DEF HasChecked, At
  <2> QED
    BY <1>1, <2>1, <2>2
<1>4. job'[w] = Idle
  BY DEF Outdates, Takes
<1> QED
  BY <1>2, <1>3, <1>4

\* A handler that goes on still knows what it did, as long as no other writes the
\* booking that it is about, unless it is outdated by that.
LEMMA LaterKnows ==
    ASSUME NEW v \in Actors, JobFits(job[v]), Knows(job[v]), Later(v),
           job[v].step \in BookingSteps =>
             /\ status[job[v].on] = "NONE" <=> status'[job[v].on] = "NONE"
             /\ \/ job'[v].stale
                \/ /\ status'[job[v].on] = status[job[v].on]
                   /\ lineStatus'[job[v].on] = lineStatus[job[v].on]
                   /\ returned'[job[v].on] = returned[job[v].on]
                   /\ job[v].on \in disturbed => job[v].on \in disturbed'
    PROVE  Knows(job[v])'
<1> DEFINE x == job[v].on
           s == job[v].step
<1>1. /\ job'[v].on = x /\ job'[v].step = s /\ job'[v].line = job[v].line
      /\ job'[v].units = job[v].units /\ job'[v].base = job[v].base /\ job'[v].last = job[v].last
      /\ job[v].stale => job'[v].stale
  BY DEF Later, Same
<1>2. CASE s \notin BookingSteps
  BY <1>1, <1>2 DEF Knows, Creates, BookingSteps
<1>3. CASE s \in BookingSteps
  <2>1. /\ s \in {"check", "insert"} => status'[x] = "NONE"
        /\ s \in {"write", "commit", "flip", "settle"} => status'[x] # "NONE"
    BY <1>3 DEF Knows, Creates
  <2>2. ASSUME s \in {"write", "commit"}, ~job'[v].stale, x \notin disturbed'
        PROVE  ScanStands(job[v])'
    <3>1. ~job[v].stale
      BY <1>1, <2>2
    <3>2. x \notin disturbed /\ status'[x] = status[x] /\ lineStatus'[x] = lineStatus[x]
          /\ returned'[x] = returned[x]
      BY <1>3, <2>2
    <3>3. ScanStands(job[v])
      BY <2>2, <3>1, <3>2 DEF Knows
    <3>4. /\ status'[x] = "ACTIVE" /\ job[v].base = returned'[x][job[v].line]
          /\ s = "commit" =>
               (job[v].last <=> /\ job[v].base + job[v].units >= LineQty[x][job[v].line]
                                /\ \A k \in Lines \ {job[v].line} : lineStatus'[x][k] = "RETURNED")
      BY <3>2, <3>3 DEF ScanStands
    <3> QED
      BY <1>1, <3>4 DEF ScanStands
  <2> QED
    BY <1>1, <2>1, <2>2 DEF Knows, Creates
<1> QED
  BY <1>2, <1>3

\* A step that writes no booking.
LEMMA QuietKnows ==
    ASSUME IInv, KInv, UNCHANGED <<status, lineStatus, returned, scanned, disturbed>>,
           NEW w \in Actors, \A v \in Actors \ {w} : Later(v), Knows(job[w])',
           Creates(job[w])' => \/ Creates(job[w]) /\ job'[w].on = job[w].on
                               \/ \A v \in Actors \ {w} : job[v].on # job'[w].on
    PROVE  KInv'
<1>1. BooksFit'
  BY DEF KInv, BooksFit, FreshBooking, BookFits
<1>2. OneCreator'
  <2> SUFFICES ASSUME NEW u \in Actors, NEW v \in Actors, Creates(job[u])', Creates(job[v])',
                      job'[u].on = job'[v].on, u # v
               PROVE  FALSE
    BY DEF OneCreator, On
  <2>1. \A x \in Actors \ {w} : job'[x].on = job[x].on /\ (Creates(job[x])' => Creates(job[x]))
    BY DEF Later, Same, Creates
  <2>2. \A x, y \in Actors : Creates(job[x]) /\ Creates(job[y]) /\ job[x].on = job[y].on => x = y
    BY DEF KInv, OneCreator, On
  <2>3. CASE u = w
    BY <2>1, <2>2, <2>3
  <2>4. CASE v = w
    BY <2>1, <2>2, <2>4
  <2>5. CASE u # w /\ v # w
    BY <2>1, <2>2, <2>5
  <2> QED
    BY <2>3, <2>4, <2>5
<1>3. ASSUME NEW v \in Actors \ {w}
      PROVE  Knows(job[v])'
  <2>1. JobFits(job[v]) /\ Knows(job[v])
    BY DEF IInv, JobsFit, KInv
  <2> QED
    BY <2>1, LaterKnows
<1> QED
  BY <1>1, <1>2, <1>3 DEF KInv

\* A step that writes booking b and is done.
LEMMA WrittenKnows ==
    ASSUME IInv, KInv, NEW w \in Actors, NEW b \in SelfBookings, job'[w] = Idle,
           \A v \in Actors \ {w} : Later(v),
           \A c \in SelfBookings \ {b} :
               /\ status'[c] = status[c] /\ lineStatus'[c] = lineStatus[c]
               /\ returned'[c] = returned[c] /\ scanned'[c] = scanned[c]
               /\ c \in disturbed' <=> c \in disturbed,
           status'[b] # "NONE", b \in disturbed' \/ BookFits(b)',
           \A v \in Actors \ {w} : job[v].step \in BookingSteps /\ job[v].on = b =>
               ~Creates(job[v]) /\ job'[v].stale
    PROVE  KInv'
<1>1. BooksFit'
  <2>1. FreshBooking(b)'
    BY DEF FreshBooking
  <2>2. ASSUME NEW c \in SelfBookings \ {b}
        PROVE  FreshBooking(c)' /\ (c \in disturbed' \/ BookFits(c)')
    BY DEF KInv, BooksFit, FreshBooking, BookFits
  <2> QED
    BY <2>1, <2>2 DEF BooksFit
<1>2. OneCreator'
  <2>1. ~Creates(job[w])'
    BY IdleFits DEF Creates
  <2>2. \A x \in Actors \ {w} : job'[x].on = job[x].on /\ (Creates(job[x])' => Creates(job[x]))
    BY DEF Later, Same, Creates
  <2> QED
    BY <2>1, <2>2 DEF KInv, OneCreator, On
<1>3. Knows(job[w])'
  BY IdleFits DEF Knows, Creates
<1>4. ASSUME NEW v \in Actors \ {w}
      PROVE  Knows(job[v])'
  <2>1. JobFits(job[v]) /\ Knows(job[v])
    BY DEF IInv, JobsFit, KInv
  <2>2. CASE job[v].step \notin BookingSteps
    BY <2>1, <2>2, LaterKnows
  <2>3. CASE job[v].step \in BookingSteps /\ job[v].on # b
    <3>1. job[v].on \in SelfBookings \ {b}
      BY <2>1, <2>3 DEF JobFits
    <3> QED
      BY <2>1, <3>1, LaterKnows
  <2>4. CASE job[v].step \in BookingSteps /\ job[v].on = b
    <3>1. status[b] # "NONE"
      BY <2>1, <2>4 DEF Knows, Creates, BookingSteps
    <3> QED
      BY <2>1, <2>4, <3>1, LaterKnows
  <2> QED
    BY <2>2, <2>3, <2>4
<1> QED
  BY <1>1, <1>2, <1>3, <1>4 DEF KInv

\* A handler begins, with a booking that is not stored yet or that is active.
LEMMA BeginKnows ==
    ASSUME IInv, KInv, NEW w \in Actors, BeginAny(w)
    PROVE  KInv'
<1>1. UNCHANGED <<status, lineStatus, returned, scanned, disturbed>>
  BY DEF BeginAny, BeginCreate, BeginCancel, BeginScan, BeginAdjust, BeginSubmit, Begin, bookingVars
<1>2. ASSUME NEW j \in Jobs, job' = [job EXCEPT ![w] = j], Knows(j),
             Creates(j) => \A v \in Actors : job[v].on # j.on
      PROVE  KInv'
  <2>1. job'[w] = j /\ \A v \in Actors \ {w} : Later(v)
    BY <1>2, OneJobLater DEF IInv
  <2>2. Knows(job[w])'
    BY <1>1, <1>2, <2>1 DEF Knows, Creates, ScanStands
  <2>3. Creates(job[w])' => \A v \in Actors \ {w} : job[v].on # job'[w].on
    BY <1>2, <2>1 DEF Creates
  <2> QED
    BY <1>1, <2>1, <2>2, <2>3, QuietKnows
<1>3. {"create", "cancel", "scan", "adjust", "submit"} \subseteq Ops
  BY DEF Ops
<1>4. {"check", "flip", "write", "ledger", "gate"} \subseteq Steps
  BY DEF Steps, BookingSteps, AssetSteps, HolderSteps
<1>5. ASSUME NEW b \in SelfBookings, BeginCreate(w, b) \/ BeginCancel(w, b)
      PROVE  KInv'
  <2>1. PICK op \in {"create", "cancel"}, step \in {"check", "flip"} :
            /\ job' = [job EXCEPT ![w] = JobFor(op, b, step)]
            /\ step = "check" => status[b] = "NONE" /\ \A v \in Actors : job[v].on # b
            /\ step = "flip" => status[b] # "NONE"
    BY <1>5 DEF BeginCreate, BeginCancel, Begin
  <2> DEFINE j == JobFor(op, b, step)
  <2>2. j \in Jobs /\ j.on = b /\ j.step = step
    BY <1>3, <1>4, JobForType
  <2>3. job' = [job EXCEPT ![w] = j]
    BY <2>1
  <2> HIDE DEF j
  <2>4. Knows(j) /\ (Creates(j) => \A v \in Actors : job[v].on # j.on)
    BY <2>1, <2>2 DEF Knows, Creates
  <2> QED
    BY <1>2, <2>2, <2>3, <2>4
<1>6. ASSUME NEW j \in Jobs, j.step \in {"ledger", "gate"}, job' = [job EXCEPT ![w] = j]
      PROVE  KInv'
  <2>1. Knows(j) /\ ~Creates(j)
    BY <1>6 DEF Knows, Creates
  <2> QED
    BY <1>2, <1>6, <2>1
<1>7. ASSUME NEW h \in Holders, BeginSubmit(w, h)
      PROVE  KInv'
  <2>1. PICK j \in Jobs : j = JobFor("submit", h, "gate") /\ j.step = "gate"
    BY <1>3, <1>4, JobForType
  <2>2. job' = [job EXCEPT ![w] = j]
    BY <1>7, <2>1 DEF BeginSubmit, Begin
  <2> QED
    BY <1>6, <2>1, <2>2
<1>8. ASSUME NEW a \in Assets, NEW d \in Deltas[a], BeginAdjust(w, a, d)
      PROVE  KInv'
  <2>1. PICK k \in Jobs : k = JobFor("adjust", a, "ledger") /\ k.step = "ledger"
    BY <1>3, <1>4, JobForType
  <2> DEFINE j == [k EXCEPT !.units = d]
  <2>2. d \in Int
    BY DeltasType
  <2>3. j \in Jobs /\ j.step = "ledger" /\ job' = [job EXCEPT ![w] = j]
    BY <1>8, <2>1, <2>2 DEF Jobs, BeginAdjust
  <2> HIDE DEF j
  <2> QED
    BY <1>6, <2>3
<1>9. ASSUME NEW b \in SelfBookings, NEW l \in Lines, NEW q \in 1 .. LineQty[b][l],
             BeginScan(w, b, l, q)
      PROVE  KInv'
  <2>1. PICK k \in Jobs : k = JobFor("scan", b, "write") /\ k.on = b /\ k.step = "write"
    BY <1>3, <1>4, JobForType
  <2>2. PICK n \in Nat : n = returned[b][l]
    BY DEF IInv, TypeOK
  <2> DEFINE j == [k EXCEPT !.line = l, !.units = q, !.base = n]
  <2>3. job' = [job EXCEPT ![w] = j] /\ status[b] = "ACTIVE"
    BY <1>9, <2>1, <2>2 DEF BeginScan, Begin
  <2>4. j \in Jobs /\ j.on = b /\ j.step = "write" /\ j.line = l /\ j.base = n
    <3>1. q \in Int
      BY LinesType
    <3> QED
      BY <2>1, <3>1 DEF Jobs
  <2> HIDE DEF j
  <2>5. Knows(j) /\ ~Creates(j)
    BY <2>2, <2>3, <2>4 DEF Knows, Creates, ScanStands
  <2> QED
    BY <1>2, <2>3, <2>4, <2>5
<1> QED
  BY <1>5, <1>7, <1>8, <1>9 DEF BeginAny

\* A handler ends, and writes no booking.
LEMMA EndKnows ==
    ASSUME IInv, KInv, UNCHANGED <<status, lineStatus, returned, scanned, disturbed>>,
           NEW w \in Actors, job' = [job EXCEPT ![w] = Idle] \/ job' = Takes(w)
    PROVE  KInv'
<1>1. job'[w] = Idle /\ \A v \in Actors \ {w} : Later(v)
  BY OneJobLater, DoneLater DEF IInv
<1>2. Knows(job[w])' /\ ~Creates(job[w])'
  BY <1>1, IdleFits DEF Knows, Creates
<1> QED
  BY <1>1, <1>2, QuietKnows

\* A handler goes on with its job, and writes no booking.
LEMMA GoesOnKnows ==
    ASSUME IInv, KInv, UNCHANGED <<status, lineStatus, returned, scanned, disturbed>>,
           NEW w \in Actors, NEW r, job' = [job EXCEPT ![w] = r], Knows(r),
           Creates(r) => Creates(job[w]) /\ r.on = job[w].on
    PROVE  KInv'
<1>1. job'[w] = r /\ \A v \in Actors \ {w} : Later(v)
  BY OneJobLater DEF IInv
<1>2. Knows(job[w])' /\ (Creates(job[w])' => Creates(job[w]) /\ job'[w].on = job[w].on)
  BY <1>1 DEF Knows, Creates, ScanStands
<1> QED
  BY <1>1, <1>2, QuietKnows

LEMMA KnowsNow ==
    ASSUME IInv, KInv, NEW w \in Actors
    PROVE  Knows(job[w])
BY DEF KInv

\* The steps that read a booking or that concern none.
LEMMA ReadKnows ==
    ASSUME IInv, KInv, NEW w \in Actors,
           CheckLine(w) \/ FlipBooking(w) \/ EnterMovement(w) \/ ApplyMovement(w) \/ Gate(w) \/ Book(w)
    PROVE  KInv'
<1>1. UNCHANGED <<status, lineStatus, returned, scanned, disturbed>>
  BY DEF CheckLine, FlipBooking, EnterMovement, ApplyMovement, Gate, Book, bookingVars
<1>2. job[w] \in Jobs /\ Knows(job[w])
  BY JobFacts, KnowsNow
<1>3. CASE job' = [job EXCEPT ![w] = Idle] \/ job' = Takes(w)
  BY <1>1, <1>3, EndKnows
<1>4. ASSUME NEW from \in Steps, NEW to \in Steps, job[w].step = from,
             job' = [job EXCEPT ![w].step = to],
             <<from, to>> \in {<<"check", "insert">>, <<"flip", "settle">>, <<"ledger", "apply">>, <<"gate", "book">>}
      PROVE  KInv'
  <2> DEFINE r == [job[w] EXCEPT !.step = to]
  <2>1. job' = [job EXCEPT ![w] = r] /\ r.step = to /\ r.on = job[w].on
    BY <1>2, <1>4 DEF Jobs
  <2> HIDE DEF r
  <2>2. Knows(r) /\ (Creates(r) => Creates(job[w]))
    BY <1>2, <1>4, <2>1 DEF Knows, Creates
  <2> QED
    BY <1>1, <2>1, <2>2, GoesOnKnows
<1>5. {"check", "insert", "flip", "settle", "ledger", "apply", "gate", "book"} \subseteq Steps
  BY DEF Steps, BookingSteps, AssetSteps, HolderSteps
<1>6. CASE CheckLine(w) /\ job' = [job EXCEPT ![w].line = 2]
  <2> DEFINE r == [job[w] EXCEPT !.line = 2]
  <2>1. job' = [job EXCEPT ![w] = r] /\ r.step = "check" /\ r.on = job[w].on /\ job[w].step = "check"
    BY <1>2, <1>6 DEF Jobs, CheckLine, At
  <2> HIDE DEF r
  <2>2. Knows(r) /\ Creates(job[w])
    BY <1>2, <2>1 DEF Knows, Creates
  <2> QED
    BY <1>1, <2>1, <2>2, GoesOnKnows
<1>7. CASE CheckLine(w)
  BY <1>3, <1>4, <1>5, <1>6, <1>7 DEF CheckLine, At, Finish, GoTo
<1>8. CASE ~CheckLine(w)
  BY <1>3, <1>4, <1>5, <1>8 DEF FlipBooking, EnterMovement, ApplyMovement, Gate, Book, At, Finish, GoTo
<1> QED
  BY <1>7, <1>8

\* The insert is by the only handler that has to do with the booking, and it has
\* a line with units.
LEMMA InsertKnows ==
    ASSUME IInv, KInv, NEW w \in Actors, InsertBooking(w)
    PROVE  KInv'
<1>1. PICK b \in SelfBookings : b = On(w) /\ job[w].on = b
  BY JobFacts DEF InsertBooking, At, On, BookingSteps
<1>2. job[w].step = "insert" /\ status[b] = "NONE" /\ Creates(job[w])
  BY <1>1, KnowsNow DEF InsertBooking, At, Knows, Creates
<1>3. job'[w] = Idle /\ \A v \in Actors \ {w} : Later(v)
  BY DoneLater DEF InsertBooking, IInv
<1>4. /\ status' = [status EXCEPT ![b] = "ACTIVE"] /\ UNCHANGED <<returned, scanned, disturbed>>
      /\ lineStatus' = [lineStatus EXCEPT ![b] =
                          [l \in Lines |-> IF LineQty[b][l] > 0 THEN "OUT" ELSE "RETURNED"]]
  BY <1>1 DEF InsertBooking
<1>5. /\ status'[b] = "ACTIVE"
      /\ \A l \in Lines : lineStatus'[b][l] = IF LineQty[b][l] > 0 THEN "OUT" ELSE "RETURNED"
      /\ \A c \in SelfBookings \ {b} : status'[c] = status[c] /\ lineStatus'[c] = lineStatus[c]
  BY <1>4 DEF IInv, TypeOK
<1>6. BookFits(b)'
  <2>1. \A l \in Lines : returned'[b][l] = 0 /\ scanned'[b][l] = 0 /\ LineQty[b][l] \in Nat
    BY <1>2, <1>4, LinesType DEF KInv, BooksFit, FreshBooking
  <2>2. PICK l \in Lines : LineQty[b][l] > 0
    BY BookingsTakeUnits
  <2>3. \A k \in Lines : lineStatus'[b][k] = "RETURNED" => LineQty[b][k] = 0
    BY <1>5, <2>1
  <2> QED
    BY <1>5, <2>1, <2>2, <2>3 DEF BookFits
<1>7. ASSUME NEW v \in Actors \ {w}, job[v].step \in BookingSteps, job[v].on = b
      PROVE  FALSE
  <2>1. Creates(job[v])
    BY <1>2, <1>7, KnowsNow DEF Knows, Creates, BookingSteps
  <2> QED
    BY <1>1, <1>2, <1>7, <2>1 DEF KInv, OneCreator, On
<1> QED
  BY <1>3, <1>4, <1>5, <1>6, <1>7, WrittenKnows

\* The UPDATE of the line, with what the other lines say at that moment.
LEMMA WriteKnows ==
    ASSUME IInv, KInv, NEW w \in Actors, WriteLine(w)
    PROVE  KInv'
<1>1. /\ job[w] \in Jobs /\ job[w].step = "write" /\ Knows(job[w])
      /\ UNCHANGED <<status, lineStatus, returned, scanned, disturbed>>
  BY JobFacts, KnowsNow DEF WriteLine, At
<1> DEFINE x == LineBack(w) /\ \A k \in Lines \ {job[w].line} : lineStatus[On(w)][k] = "RETURNED"
           r == [job[w] EXCEPT !.step = "commit", !.last = x]
<1>2. /\ r.on = job[w].on /\ r.line = job[w].line /\ r.units = job[w].units /\ r.base = job[w].base
      /\ r.stale = job[w].stale /\ r.step = "commit" /\ r.last = x
  BY <1>1 DEF Jobs
<1>3. job' = [job EXCEPT ![w] = r]
  BY DEF WriteLine, IInv, JobsFit
<1>4. r.last <=> /\ r.base + r.units >= LineQty[r.on][r.line]
                 /\ \A k \in Lines \ {r.line} : lineStatus[r.on][k] = "RETURNED"
  BY <1>2 DEF LineBack, Back, On
<1> HIDE DEF x, r
<1>5. Knows(r) /\ ~Creates(r)
  <2>1. status[r.on] # "NONE"
    BY <1>1, <1>2 DEF Knows
  <2>2. ASSUME ~r.stale, r.on \notin disturbed
        PROVE  ScanStands(r)
    <3>1. ScanStands(job[w])
      BY <1>1, <1>2, <2>2 DEF Knows
    <3> QED
      BY <1>2, <1>4, <3>1 DEF ScanStands
  <2> QED
    BY <1>2, <2>1, <2>2 DEF Knows, Creates
<1> QED
  BY <1>1, <1>3, <1>5, GoesOnKnows

\* The commits write one booking, and outdate all that others have read of it.
LEMMA OutdatesKnows ==
    ASSUME IInv, KInv, NEW w \in Actors, NEW b \in SelfBookings, status[b] # "NONE",
           job' = Outdates(w, b),
           \A c \in SelfBookings \ {b} :
               /\ status'[c] = status[c] /\ lineStatus'[c] = lineStatus[c]
               /\ returned'[c] = returned[c] /\ scanned'[c] = scanned[c]
               /\ c \in disturbed' <=> c \in disturbed,
           status'[b] # "NONE", b \in disturbed' \/ BookFits(b)'
    PROVE  KInv'
<1>1. /\ job'[w] = Idle
      /\ \A v \in Actors \ {w} : Later(v) /\ (job[v].on = b => job'[v].stale)
  BY DoneLater DEF IInv
<1>2. \A v \in Actors : job[v].on = b => ~Creates(job[v])
  BY KnowsNow DEF Knows
<1> QED
  BY <1>1, <1>2, WrittenKnows

\* A scan that nothing has overtaken brings its line to what was scanned of it,
\* and completes the booking exactly with the last line.
LEMMA CommitKnows ==
    ASSUME IInv, IInv', KInv, NEW w \in Actors, CommitScan(w)
    PROVE  KInv'
<1>1. PICK b \in SelfBookings, l \in Lines :
          On(w) = b /\ job[w].line = l /\ job[w].on = b /\ job[w].step = "commit"
  BY JobFacts DEF CommitScan, At, On, BookingSteps
<1>2. PICK u \in Nat, n \in Nat : /\ job[w].units = u /\ job[w].base = n
                                  /\ n <= scanned[b][l] /\ n + u <= LineQty[b][l]
  BY <1>1, JobFacts DEF CommitScan, At, ScanFits, On
<1>3. status[b] # "NONE" /\ Knows(job[w])
  BY <1>1, KnowsNow DEF Knows
<1> DEFINE full == n + u >= LineQty[b][l]
           done == job[w].last
<1>4. /\ returned' = [returned EXCEPT ![b][l] = n + u]
      /\ scanned' = [scanned EXCEPT ![b][l] = AtMost(LineQty[b][l], scanned[b][l] + u)]
      /\ lineStatus' = [lineStatus EXCEPT ![b][l] = IF full THEN "RETURNED" ELSE "OUT"]
      /\ status' = [status EXCEPT ![b] = IF done THEN "COMPLETED" ELSE status[b]]
      /\ disturbed' = IF job[w].stale THEN disturbed \cup {b} ELSE disturbed
      /\ job' = Outdates(w, b)
  BY <1>1, <1>2 DEF CommitScan, LineBack, Back
<1>5. \A c \in SelfBookings \ {b} :
          /\ status'[c] = status[c] /\ lineStatus'[c] = lineStatus[c]
          /\ returned'[c] = returned[c] /\ scanned'[c] = scanned[c]
          /\ c \in disturbed' <=> c \in disturbed
  BY <1>4 DEF IInv, TypeOK, Backed
<1>6. status'[b] = IF done THEN "COMPLETED" ELSE status[b]
  BY <1>4 DEF IInv, TypeOK
<1>7. ASSUME NEW k \in Lines
      PROVE  /\ returned'[b][k] = IF k = l THEN n + u ELSE returned[b][k]
             /\ scanned'[b][k] = IF k = l THEN AtMost(LineQty[b][l], scanned[b][l] + u) ELSE scanned[b][k]
             /\ lineStatus'[b][k] = IF k = l THEN (IF full THEN "RETURNED" ELSE "OUT") ELSE lineStatus[b][k]
  BY <1>4 DEF IInv, TypeOK, Backed
<1>8. ASSUME b \notin disturbed'
      PROVE  BookFits(b)'
  <2>1. b \notin disturbed /\ ~job[w].stale
    BY <1>4, <1>8
  <2>2. BookFits(b) /\ ScanStands(job[w])
    BY <1>1, <1>3, <2>1 DEF KInv, BooksFit, Knows
  <2>3. status[b] = "ACTIVE" /\ n = returned[b][l] /\ returned[b][l] = scanned[b][l]
    BY <1>1, <1>2, <2>2 DEF ScanStands, BookFits
  <2>4. done <=> full /\ \A k \in Lines \ {l} : lineStatus[b][k] = "RETURNED"
    BY <1>1, <1>2, <2>2 DEF ScanStands
  <2>5. LineQty[b][l] \in Nat
    BY LinesType
  <2>6. \A k \in Lines : returned'[b][k] = scanned'[b][k]
    <3>1. AtMost(LineQty[b][l], scanned[b][l] + u) = n + u
      BY <1>2, <2>3, <2>5 DEF AtMost
    <3>2. \A k \in Lines : returned[b][k] = scanned[b][k]
      BY <2>2 DEF BookFits
    <3> QED
      BY <1>7, <3>1, <3>2
  <2>7. \A k \in Lines : lineStatus'[b][k] = "RETURNED" => returned'[b][k] = LineQty[b][k]
    <3>1. \A k \in Lines : lineStatus[b][k] = "RETURNED" => returned[b][k] = LineQty[b][k]
      BY <2>2, <2>3 DEF BookFits
    <3>2. full => n + u = LineQty[b][l]
      BY <1>2, <2>5
    <3> QED
      BY <1>7, <3>1, <3>2
  <2>8. CASE done
    <3>1. full /\ \A k \in Lines \ {l} : lineStatus[b][k] = "RETURNED"
      BY <2>4, <2>8
    <3>2. \A k \in Lines : lineStatus'[b][k] = "RETURNED"
      BY <1>7, <3>1
    <3> QED
      BY <1>6, <2>6, <2>7, <2>8, <3>2 DEF BookFits
  <2>9. CASE ~done
    <3>1. \E k \in Lines : lineStatus'[b][k] = "OUT"
      <4>1. CASE ~full
        BY <1>7, <4>1
      <4>2. CASE full
        <5>1. PICK k \in Lines \ {l} : lineStatus[b][k] # "RETURNED"
          BY <2>4, <2>9, <4>2
        <5>2. lineStatus[b][k] = "OUT"
          BY <5>1 DEF IInv, TypeOK
        <5> QED
          BY <1>7, <5>1, <5>2
      <4> QED
        BY <4>1, <4>2
    <3> QED
      BY <1>6, <2>3, <2>6, <2>7, <2>9, <3>1 DEF BookFits
  <2> QED
    BY <2>8, <2>9
<1>9. status'[b] # "NONE"
  BY <1>3, <1>6
<1> QED
  BY <1>3, <1>4, <1>5, <1>8, <1>9, OutdatesKnows

LEMMA SettleKnows ==
    ASSUME IInv, KInv, NEW w \in Actors, SettleLines(w)
    PROVE  KInv'
<1>1. PICK b \in SelfBookings : On(w) = b /\ job[w].on = b /\ job[w].step = "settle"
  BY JobFacts DEF SettleLines, At, On, BookingSteps
<1>2. status[b] # "NONE"
  BY <1>1, KnowsNow DEF Knows
<1>3. /\ status' = [status EXCEPT ![b] = "CANCELLED"]
      /\ lineStatus' = [lineStatus EXCEPT ![b] = [l \in Lines |-> "RETURNED"]]
      /\ disturbed' = IF job[w].stale THEN disturbed \cup {b} ELSE disturbed
      /\ job' = Outdates(w, b) /\ UNCHANGED <<returned, scanned>>
  BY <1>1 DEF SettleLines
<1>4. \A c \in SelfBookings \ {b} :
          /\ status'[c] = status[c] /\ lineStatus'[c] = lineStatus[c]
          /\ returned'[c] = returned[c] /\ scanned'[c] = scanned[c]
          /\ c \in disturbed' <=> c \in disturbed
  BY <1>3 DEF IInv, TypeOK
<1>5. status'[b] = "CANCELLED" /\ \A l \in Lines : lineStatus'[b][l] = "RETURNED"
  BY <1>3 DEF IInv, TypeOK
<1>6. b \in disturbed' \/ BookFits(b)'
  BY <1>3, <1>5 DEF KInv, BooksFit, BookFits
<1> QED
  BY <1>2, <1>3, <1>4, <1>5, <1>6, OutdatesKnows

LEMMA InitKnows ==
    Init => KInv
<1> SUFFICES ASSUME Init
             PROVE  KInv
  OBVIOUS
<1>1. BooksFit
  BY DEF Init, BooksFit, FreshBooking, BookFits
<1>2. \A w \in Actors : Knows(job[w]) /\ ~Creates(job[w])
  BY IdleFits DEF Init, Knows, Creates
<1> QED
  BY <1>1, <1>2 DEF KInv, OneCreator

LEMMA NextKnows ==
    IInv /\ KInv /\ [Next]_vars => KInv'
<1> SUFFICES ASSUME IInv, KInv, [Next]_vars
             PROVE  KInv'
  OBVIOUS
<1>1. IInv'
  BY NextKeeps
<1>2. ASSUME NEW w \in Actors, Resume(w)
      PROVE  KInv'
  BY <1>1, <1>2, ReadKnows, InsertKnows, WriteKnows, CommitKnows, SettleKnows DEF Resume
<1>3. ASSUME NEW w \in Actors, NEW v \in Actors, Crash(w) \/ BreakDeadlock(w, v)
      PROVE  KInv'
  <2>1. /\ job' = [job EXCEPT ![w] = Idle]
        /\ UNCHANGED <<status, lineStatus, returned, scanned, disturbed>>
    BY <1>3 DEF Crash, BreakDeadlock, Rollback, Finish
  <2> QED
    BY <2>1, EndKnows
<1>4. ASSUME UNCHANGED <<status, lineStatus, returned, scanned, disturbed, job>>
      PROVE  KInv'
  BY <1>4 DEF KInv, BooksFit, FreshBooking, BookFits, OneCreator, Knows, Creates, ScanStands, On
<1>5. CASE UNCHANGED vars
  BY <1>4, <1>5 DEF vars, bookingVars
<1>6. ASSUME NEW h \in Holders, Release(h)
      PROVE  KInv'
  BY <1>4, <1>6 DEF Release, bookingVars
<1> QED
  BY <1>2, <1>3, <1>5, <1>6, BeginKnows DEF Next

\* As long as no handler has written a booking that had changed since it was read,
\* the count of a line is what was scanned of it, a booking is completed exactly
\* when all of it is back, and one that was cancelled blocks nothing (returnScan,
\* cancelSelfBooking).
THEOREM BookingsCoherent == Spec => []UndisturbedIsCoherent
<1>1. IInv /\ KInv => UndisturbedIsCoherent
  <2> SUFFICES ASSUME IInv, KInv, NEW b \in SelfBookings, b \notin disturbed
               PROVE  Coherent(b)
    BY DEF UndisturbedIsCoherent
  <2>1. BookFits(b)
    BY DEF KInv, BooksFit
  <2>2. /\ returned[b] \in [Lines -> Nat] /\ scanned[b] \in [Lines -> Nat]
        /\ LineQty[b] \in [Lines -> Nat]
    BY LinesType DEF IInv, TypeOK, Backed
  <2>3. returned[b] = scanned[b]
    BY <2>1, <2>2 DEF BookFits
  <2>4. ASSUME status[b] = "COMPLETED"
        PROVE  returned[b] = LineQty[b]
    <3>1. \A l \in Lines : returned[b][l] = LineQty[b][l]
      BY <2>1, <2>4 DEF BookFits
    <3> QED
      BY <2>2, <3>1
  <2>5. status[b] \in {"COMPLETED", "CANCELLED"} => OutLines(b) = {}
    BY <2>1 DEF BookFits, OutLines
  <2>6. status[b] = "ACTIVE" => \E l \in Lines : lineStatus[b][l] = "OUT"
    BY <2>1 DEF BookFits
  <2> QED
    BY <2>3, <2>4, <2>5, <2>6 DEF Coherent
<1> QED
  BY <1>1, InitHolds, NextKeeps, InitKnows, NextKnows, PTL DEF Spec

------------------------------------------------------------------------------
(* The pool: the inductive invariant of ShortOnlyByLateChecks.             *)

\* What holds units on a check that accounts for them.
LiveRows(a) == [h \in Holders |-> IF h \in late THEN 0 ELSE booking[h][a]]
LiveLines(a) == [x \in SelfBookings \X Lines |->
                   IF x[1] \in late \/ LineAsset[x[1]][x[2]] # a THEN 0 ELSE Owes(x[1], x[2])]
Live(a, S) == Cardinality(CountedUnits(LiveRows(a), S))
                + Cardinality(CountedUnits(LiveLines(a), SelfBookings \X Lines))

\* The pool is short of that by no more than adjustments took, and will be by
\* no more than is in the ledger already.
PoolFits(a) ==
    /\ Sum(ToTake(a)) <= ledger[a].out
    /\ \A t \in Days : Live(a, Covering(a, t)) + Sum(ToTake(a)) <= total[a] + ledger[a].out

\* What a handler has checked still holds.
LineFits(b, l) == Live(LineAsset[b][l], Holders) + LineQty[b][l] <= total[LineAsset[b][l]]
HolderFits(h) == \A a \in Items(h), t \in Days :
    h \in Covering(a, t) => Live(a, Covering(a, t) \ {h}) + Need[h][a] <= total[a]
CheckStands(j) ==
    /\ j.step = "book" => HolderFits(j.on)
    /\ j.step = "insert" => \A l \in Lines : LineFits(j.on, l)
    /\ j.step = "check" /\ j.line = 2 => LineFits(j.on, 1)

RInv ==
    /\ \A a \in Assets : PoolFits(a)
    /\ \A w \in Actors : job[w].stale \/ CheckStands(job[w])

------------------------------------------------------------------------------
(* Counting what is live.                                                  *)

PoolLines == SelfBookings \X Lines

LEMMA LinesFinite == IsFiniteSet(PoolLines)
<1>1. IsFiniteSet(Lines)
  <2>1. 1 \in Int /\ 2 \in Int
    OBVIOUS
  <2>2. IsFiniteSet(1 .. 2)
    BY ONLY <2>1, FS_Interval
  <2> QED
    BY <2>2 DEF Lines
<1> QED
  BY <1>1, SelfBookingsType, FS_Product DEF PoolLines

LEMMA OwesType ==
    ASSUME IInv, NEW b \in SelfBookings, NEW l \in Lines
    PROVE  Owes(b, l) \in Nat /\ Owes(b, l) <= LineQty[b][l]
<1>1. /\ LineQty[b][l] \in Nat /\ returned[b][l] \in Nat /\ returned[b][l] <= LineQty[b][l]
  <2>1. /\ returned[b][l] \in Nat /\ scanned[b][l] \in Nat /\ LineQty[b][l] \in Nat
        /\ returned[b][l] <= scanned[b][l] /\ scanned[b][l] <= LineQty[b][l]
    BY LinesType DEF IInv, TypeOK, Backed
  <2> QED
    BY <2>1
<1> QED
  BY <1>1 DEF Owes

LEMMA LiveTypes ==
    ASSUME IInv, NEW a \in Assets
    PROVE  /\ \A h \in Holders : LiveRows(a)[h] \in Nat /\ LiveRows(a)[h] <= booking[h][a]
           /\ \A x \in PoolLines : LiveLines(a)[x] \in Nat
           /\ \A h \in Holders : LiveRows(a)[h] = IF h \in late THEN 0 ELSE booking[h][a]
           /\ \A b \in SelfBookings, l \in Lines : LiveLines(a)[<<b, l>>] =
                IF b \in late \/ LineAsset[b][l] # a THEN 0 ELSE Owes(b, l)
<1>1. ASSUME NEW h \in Holders
      PROVE  booking[h][a] \in Nat
  BY DEF IInv, TypeOK, InvTypeOK
<1>2. ASSUME NEW h \in Holders
      PROVE  LiveRows(a)[h] \in Nat /\ LiveRows(a)[h] <= booking[h][a]
  BY <1>1 DEF LiveRows
<1>3. ASSUME NEW b \in SelfBookings, NEW l \in Lines
      PROVE  LiveLines(a)[<<b, l>>] = IF b \in late \/ LineAsset[b][l] # a THEN 0 ELSE Owes(b, l)
  BY DEF LiveLines
<1>4. ASSUME NEW b \in SelfBookings, NEW l \in Lines
      PROVE  LiveLines(a)[<<b, l>>] \in Nat
  BY <1>3, OwesType
<1>5. ASSUME NEW x \in PoolLines
      PROVE  LiveLines(a)[x] \in Nat
  BY <1>4 DEF PoolLines
<1> QED
  BY <1>2, <1>3, <1>5 DEF LiveRows

LEMMA OwesTypeNext ==
    ASSUME IInv', NEW b \in SelfBookings, NEW l \in Lines
    PROVE  Owes(b, l)' \in Nat /\ Owes(b, l)' <= LineQty[b][l]
<1>1. /\ LineQty[b][l] \in Nat /\ returned'[b][l] \in Nat /\ returned'[b][l] <= LineQty[b][l]
  <2>1. /\ returned'[b][l] \in Nat /\ scanned'[b][l] \in Nat /\ LineQty[b][l] \in Nat
        /\ returned'[b][l] <= scanned'[b][l] /\ scanned'[b][l] <= LineQty[b][l]
    BY LinesType DEF IInv, TypeOK, Backed
  <2> QED
    BY <2>1
<1> QED
  BY <1>1 DEF Owes

\* The same after a step.
LEMMA LiveTypesNext ==
    ASSUME IInv', NEW a \in Assets
    PROVE  /\ \A h \in Holders : LiveRows(a)'[h] \in Nat
           /\ \A x \in PoolLines : LiveLines(a)'[x] \in Nat
           /\ \A h \in Holders : LiveRows(a)'[h] = IF h \in late' THEN 0 ELSE booking'[h][a]
           /\ \A b \in SelfBookings, l \in Lines : LiveLines(a)'[<<b, l>>] =
                IF b \in late' \/ LineAsset[b][l] # a THEN 0 ELSE Owes(b, l)'
<1>1. ASSUME NEW h \in Holders
      PROVE  booking'[h][a] \in Nat
  BY DEF IInv, TypeOK, InvTypeOK
<1>2. \A h \in Holders : LiveRows(a)'[h] = IF h \in late' THEN 0 ELSE booking'[h][a]
  BY DEF LiveRows
<1>3. ASSUME NEW b \in SelfBookings, NEW l \in Lines
      PROVE  LiveLines(a)'[<<b, l>>] = IF b \in late' \/ LineAsset[b][l] # a THEN 0 ELSE Owes(b, l)'
  BY DEF LiveLines
<1>4. ASSUME NEW b \in SelfBookings, NEW l \in Lines
      PROVE  LiveLines(a)'[<<b, l>>] \in Nat
  BY <1>3, OwesTypeNext
<1>5. ASSUME NEW x \in PoolLines
      PROVE  LiveLines(a)'[x] \in Nat
  BY <1>4 DEF PoolLines
<1> QED
  BY <1>1, <1>2, <1>3, <1>5

LEMMA LiveType ==
    ASSUME IInv, NEW a \in Assets, NEW S \in SUBSET Holders
    PROVE  /\ Live(a, S) \in Nat
           /\ Cardinality(CountedUnits(LiveRows(a), S)) \in Nat
           /\ Cardinality(CountedUnits(LiveLines(a), PoolLines)) \in Nat
<1> DEFINE m == LiveRows(a)
           n == LiveLines(a)
<1>1. \A h \in S : m[h] \in Nat
  BY LiveTypes
<1>2. \A x \in PoolLines : n[x] \in Nat
  BY LiveTypes
<1>3. IsFiniteSet(S)
  BY HoldersFinite, FS_Subset
<1> HIDE DEF m, n
<1>4. /\ Cardinality(CountedUnits(m, S)) \in Nat
      /\ Cardinality(CountedUnits(n, PoolLines)) \in Nat
  BY <1>1, <1>2, <1>3, LinesFinite, CountIsFinite
<1> QED
  BY <1>4 DEF m, n, Live, PoolLines

LEMMA LiveTypeNext ==
    ASSUME IInv', NEW a \in Assets, NEW S \in SUBSET Holders
    PROVE  Live(a, S)' \in Nat
<1> DEFINE m == LiveRows(a)'
           n == LiveLines(a)'
<1>1. (\A h \in S : m[h] \in Nat) /\ (\A x \in PoolLines : n[x] \in Nat)
  BY LiveTypesNext
<1>2. IsFiniteSet(S)
  BY HoldersFinite, FS_Subset
<1>3. Live(a, S)' = Cardinality(CountedUnits(m, S)) + Cardinality(CountedUnits(n, PoolLines))
  BY DEF Live, CountedUnits, PoolLines
<1> HIDE DEF m, n
<1>4. /\ Cardinality(CountedUnits(m, S)) \in Nat
      /\ Cardinality(CountedUnits(n, PoolLines)) \in Nat
  BY <1>1, <1>2, LinesFinite, CountIsFinite
<1> QED
  BY <1>3, <1>4

\* The live units of each holder and each line go down or stay.
FallsAt(a) ==
    /\ \A h \in Holders : LiveRows(a)'[h] <= LiveRows(a)[h]
    /\ \A b \in SelfBookings, l \in Lines : LiveLines(a)'[<<b, l>>] <= LiveLines(a)[<<b, l>>]
Falls == \A a \in Assets : FallsAt(a)

LEMMA LiveFalls ==
    ASSUME IInv, IInv', NEW a \in Assets, FallsAt(a), NEW S \in SUBSET Holders
    PROVE  Live(a, S)' <= Live(a, S)
<1> DEFINE m == LiveRows(a)'
           n == LiveRows(a)
           p == LiveLines(a)'
           q == LiveLines(a)
<1>1. /\ \A h \in S : n[h] \in Nat /\ m[h] \in Nat /\ m[h] <= n[h]
  <2>1. \A h \in Holders : n[h] \in Nat
    BY LiveTypes
  <2>2. \A h \in Holders : m[h] \in Nat
    <3>1. ASSUME NEW h \in Holders
          PROVE  m[h] \in Nat
      <4>1. booking'[h][a] \in Nat
        BY DEF IInv, TypeOK, InvTypeOK
      <4> QED
        BY <4>1 DEF LiveRows
    <3> QED
      BY <3>1
  <2> QED
    BY <2>1, <2>2 DEF FallsAt
<1>2. /\ \A x \in PoolLines : q[x] \in Nat /\ p[x] \in Nat /\ p[x] <= q[x]
  <2>1. \A x \in PoolLines : q[x] \in Nat
    BY LiveTypes
  <2>2. (\A x \in PoolLines : LiveLines(a)[x] \in Nat)'
    BY LiveTypesNext
  <2>3. \A x \in PoolLines : p[x] <= q[x]
    BY DEF FallsAt, PoolLines
  <2> QED
    BY <2>1, <2>2, <2>3
<1>3. IsFiniteSet(S)
  BY HoldersFinite, FS_Subset
<1>4. /\ Live(a, S)' = Cardinality(CountedUnits(m, S)) + Cardinality(CountedUnits(p, PoolLines))
      /\ Live(a, S) = Cardinality(CountedUnits(n, S)) + Cardinality(CountedUnits(q, PoolLines))
  BY DEF Live, CountedUnits, PoolLines
<1> HIDE DEF m, n, p, q
<1>5. /\ Cardinality(CountedUnits(m, S)) <= Cardinality(CountedUnits(n, S))
      /\ Cardinality(CountedUnits(p, PoolLines)) <= Cardinality(CountedUnits(q, PoolLines))
  BY <1>1, <1>2, <1>3, LinesFinite, CountIsMonotone
<1>6. /\ Cardinality(CountedUnits(m, S)) \in Nat /\ Cardinality(CountedUnits(n, S)) \in Nat
      /\ Cardinality(CountedUnits(p, PoolLines)) \in Nat
      /\ Cardinality(CountedUnits(q, PoolLines)) \in Nat
  BY <1>1, <1>2, <1>3, LinesFinite, CountIsFinite
<1> QED
  BY <1>4, <1>5, <1>6

------------------------------------------------------------------------------
(* Steps in which nothing that is live grows.                              *)

\* What fits still fits while the pool does not shrink.
LEMMA RoomStays ==
    ASSUME IInv, IInv', Falls, NEW a \in Assets, total[a] <= total'[a],
           NEW S \in SUBSET Holders, NEW n \in Nat, Live(a, S) + n <= total[a]
    PROVE  Live(a, S)' + n <= total'[a]
<1>1. Live(a, S)' <= Live(a, S)
  BY LiveFalls DEF Falls
<1>2. Live(a, S) \in Nat /\ Live(a, S)' \in Nat
  BY LiveType, LiveTypeNext
<1>3. total[a] \in Nat /\ total'[a] \in Nat
  BY DEF IInv, TypeOK, InvTypeOK
<1> QED
  BY <1>1, <1>2, <1>3

LEMMA LineStays ==
    ASSUME IInv, IInv', Falls, \A a \in Assets : total[a] <= total'[a],
           NEW b \in SelfBookings, NEW l \in Lines, LineFits(b, l)
    PROVE  LineFits(b, l)'
<1>1. PICK a \in Assets, n \in Nat : a = LineAsset[b][l] /\ n = LineQty[b][l]
  BY LinesType
<1>2. Live(a, Holders) + n <= total[a]
  BY <1>1 DEF LineFits
<1>3. Live(a, Holders)' + n <= total'[a]
  BY <1>2, RoomStays
<1> QED
  BY <1>1, <1>3 DEF LineFits

LEMMA HolderStays ==
    ASSUME IInv, IInv', Falls, \A a \in Assets : total[a] <= total'[a],
           NEW h \in Holders, HolderFits(h)
    PROVE  HolderFits(h)'
<1>1. ASSUME NEW a \in Items(h), NEW t \in Days, h \in Covering(a, t)
      PROVE  Live(a, Covering(a, t) \ {h})' + Need[h][a] <= total'[a]
  <2>1. a \in Assets /\ Need[h][a] \in Nat /\ Covering(a, t) \ {h} \in SUBSET Holders
    BY NeedType DEF Items, Covering
  <2>2. Live(a, Covering(a, t) \ {h}) + Need[h][a] <= total[a]
    BY <1>1 DEF HolderFits
  <2> HIDE DEF Falls
  <2> QED
    BY <2>1, <2>2, RoomStays
<1> QED
  BY <1>1 DEF HolderFits, Live, CountedUnits, LiveRows, LiveLines, Covering, Items, Days

\* So what a handler has checked stands.
LEMMA CheckStays ==
    ASSUME IInv, IInv', Falls, NEW v \in Actors, Later(v), job[v].stale \/ CheckStands(job[v]),
           \A a \in Assets : total[a] <= total'[a]
    PROVE  (job[v].stale \/ CheckStands(job[v]))'
<1> SUFFICES ASSUME ~job'[v].stale
             PROVE  CheckStands(job[v])'
  OBVIOUS
<1>1. JobFits(job[v]) /\ job[v] \in Jobs
  BY DEF IInv, JobsFit, JobFits
<1> DEFINE x == job[v].on
           s == job[v].step
<1>2. /\ job'[v].on = x /\ job'[v].step = s /\ job'[v].line = job[v].line /\ CheckStands(job[v])
  BY DEF Later, Same
<1>3. s = "book" => HolderFits(x)'
  <2> SUFFICES ASSUME s = "book"
               PROVE  HolderFits(x)'
    OBVIOUS
  <2>1. PICK h \in Holders : h = x
    BY <1>1 DEF JobFits, HolderSteps
  <2>2. HolderFits(h)
    BY <1>2, <2>1 DEF CheckStands
  <2>3. HolderFits(h)'
    BY <2>2, HolderStays
  <2> QED
    BY <1>2, <2>1, <2>3
<1>4. ASSUME NEW l \in Lines, s = "insert" \/ (s = "check" /\ job[v].line = 2 /\ l = 1)
      PROVE  LineFits(x, l)'
  <2>1. PICK b \in SelfBookings : b = x
    BY <1>1, <1>4 DEF JobFits, BookingSteps
  <2>2. LineFits(b, l)
    BY <1>2, <1>4, <2>1 DEF CheckStands
  <2>3. LineFits(b, l)'
    BY <2>2, LineStays
  <2> QED
    BY <1>2, <2>1, <2>3
<1> QED
  BY <1>2, <1>3, <1>4 DEF CheckStands, Lines

\* The pool of a fits as long as what is live, or what is to be taken, does.
LEMMA PoolStays ==
    ASSUME IInv, IInv', NEW a \in Assets, PoolFits(a), Sum(ToTake(a))' <= ledger'[a].out,
           Sum(ToTake(a))' \in Nat, Sum(ToTake(a)) \in Nat,
           Sum(ToTake(a))' + total[a] + ledger[a].out <= Sum(ToTake(a)) + total'[a] + ledger'[a].out,
           \A t \in Days : \/ Live(a, Covering(a, t))' <= Live(a, Covering(a, t))
                           \/ Live(a, Covering(a, t))' <= total'[a]
    PROVE  PoolFits(a)'
<1>1. /\ total[a] \in Nat /\ total'[a] \in Nat
      /\ ledger[a].out \in Nat /\ ledger'[a].out \in Nat
  BY DEF IInv, TypeOK, InvTypeOK
<1>2. ASSUME NEW t \in Days
      PROVE  Live(a, Covering(a, t))' + Sum(ToTake(a))' <= total'[a] + ledger'[a].out
  <2>1. Covering(a, t) \in SUBSET Holders
    BY DEF Covering
  <2>2. PICK k \in Nat, n \in Nat : k = Live(a, Covering(a, t)) /\ n = Live(a, Covering(a, t))'
    BY <2>1, LiveType, LiveTypeNext
  <2>3. k + Sum(ToTake(a)) <= total[a] + ledger[a].out /\ (n <= k \/ n <= total'[a])
    BY <2>2 DEF PoolFits
  <2>4. n + Sum(ToTake(a))' <= total'[a] + ledger'[a].out
    BY <1>1, <2>3
  <2> QED
    BY <2>2, <2>4
<1> QED
  BY <1>2 DEF PoolFits, Days

LEMMA TakesStale ==
    ASSUME IInv, NEW w \in Actors, job' = Takes(w), NEW v \in Actors
    PROVE  (job[v].stale \/ CheckStands(job[v]))'
<1>1. job'[w] = Idle
  BY DEF Takes
<1>2. CASE v = w
  BY <1>1, <1>2, IdleFits DEF CheckStands
<1>3. CASE v # w
  <2>1. job[v] \in Jobs /\ job'[v] = [job[v] EXCEPT !.stale = job[v].stale \/ HasChecked(v)]
    BY <1>3 DEF IInv, JobsFit, JobFits, Takes
  <2>2. job'[v].step = job[v].step /\ job'[v].line = job[v].line
        /\ job'[v].stale = (job[v].stale \/ HasChecked(v))
    BY <2>1 DEF Jobs
  <2>3. CASE HasChecked(v)
    BY <2>2, <2>3
  <2>4. CASE ~HasChecked(v)
    BY <2>2, <2>4 DEF HasChecked, At, CheckStands
  <2> QED
    BY <2>3, <2>4
<1> QED
  BY <1>2, <1>3

TakeType(a) == Sum(ToTake(a))' \in Nat

LEMMA TakeTypes ==
    ASSUME IInv', NEW a \in Assets
    PROVE  TakeType(a)
<1> DEFINE m == ToTake(a)'
<1>1. \A v \in Actors : m[v] \in Nat
  <2>1. ASSUME NEW v \in Actors
        PROVE  job'[v].units \in Int
    BY DEF IInv, JobsFit, Jobs
  <2> QED
    BY <2>1 DEF ToTake
<1>2. Sum(ToTake(a))' = Cardinality(CountedUnits(m, Actors))
  BY DEF Sum, CountedUnits
<1> HIDE DEF m
<1> QED
  BY <1>1, <1>2, ActorsFinite, CountIsFinite DEF TakeType

\* A step that leaves the ledger, with no adjustment.
LEMMA TakeFalls ==
    ASSUME IInv, IInv', UNCHANGED ledger, NEW w \in Actors, \A v \in Actors \ {w} : Same(v),
           job'[w].step # "apply", NEW a \in Assets, PoolFits(a)
    PROVE  /\ Sum(ToTake(a))' <= Sum(ToTake(a)) /\ Sum(ToTake(a))' <= ledger'[a].out
           /\ Sum(ToTake(a)) \in Nat /\ Sum(ToTake(a))' \in Nat
<1>1. /\ Sum(ToTake(a))' = Sum(ToTake(a)) + ToTake(a)'[w] - ToTake(a)[w]
      /\ Sum(ToTake(a)) \in Nat
  BY WaitChanges DEF IInv, JobsFit
<1>2. ToTake(a)'[w] = 0
  BY DEF ToTake, Waits, At
<1>3. ToTake(a)[w] \in Nat
  BY WaitTypes DEF IInv, JobsFit, WaitType
<1>4. Sum(ToTake(a))' \in Nat
  BY TakeTypes DEF TakeType
<1>5. Sum(ToTake(a)) <= ledger[a].out /\ ledger[a].out \in Nat
  BY DEF PoolFits, IInv, TypeOK
<1> QED
  BY <1>1, <1>2, <1>3, <1>4, <1>5

\* A step of w that leaves the totals and the ledger, and in which nothing live
\* grows.
LEMMA QuietFits ==
    ASSUME IInv, IInv', RInv, UNCHANGED <<total, ledger>>, Falls, NEW w \in Actors,
           \A v \in Actors \ {w} : Later(v), job'[w].step # "apply",
           (job[w].stale \/ CheckStands(job[w]))'
    PROVE  RInv'
<1>1. \A v \in Actors \ {w} : Same(v)
  BY DEF Later
<1>2. ASSUME NEW a \in Assets
      PROVE  PoolFits(a)'
  <2>1. PoolFits(a)
    BY DEF RInv
  <2>2. /\ Sum(ToTake(a))' <= Sum(ToTake(a)) /\ Sum(ToTake(a))' <= ledger'[a].out
        /\ Sum(ToTake(a)) \in Nat /\ Sum(ToTake(a))' \in Nat
    BY <1>1, <2>1, TakeFalls
  <2>3. total[a] \in Nat /\ ledger[a].out \in Nat
    BY DEF IInv, TypeOK, InvTypeOK
  <2>4. Sum(ToTake(a))' + total[a] + ledger[a].out <= Sum(ToTake(a)) + total'[a] + ledger'[a].out
    BY <2>2, <2>3
  <2>5. ASSUME NEW t \in Days
        PROVE  Live(a, Covering(a, t))' <= Live(a, Covering(a, t))
    <3>1. Covering(a, t) \in SUBSET Holders
      BY DEF Covering
    <3> QED
      BY <3>1, LiveFalls DEF Falls
  <2> HIDE DEF PoolFits
  <2> QED
    BY <2>1, <2>2, <2>4, <2>5, PoolStays
<1>3. \A a \in Assets : total[a] <= total'[a]
  BY DEF IInv, TypeOK, InvTypeOK
<1>4. ASSUME NEW v \in Actors \ {w}
      PROVE  (job[v].stale \/ CheckStands(job[v]))'
  BY <1>3, CheckStays DEF RInv
<1> QED
  BY <1>2, <1>4 DEF RInv

\* A step that takes units: whatever has been checked is outdated.
LEMMA TakesFits ==
    ASSUME IInv, IInv', RInv, UNCHANGED <<total, ledger>>, NEW w \in Actors, job' = Takes(w),
           \A a \in Assets : \A t \in Days :
               \/ Live(a, Covering(a, t))' <= Live(a, Covering(a, t))
               \/ Live(a, Covering(a, t))' <= total[a]
    PROVE  RInv'
<1>1. job'[w] = Idle /\ \A v \in Actors \ {w} : Later(v)
  BY DoneLater DEF IInv
<1>2. \A v \in Actors \ {w} : Same(v)
  BY <1>1 DEF Later
<1>3. job'[w].step = "idle"
  BY <1>1, IdleFits
<1>4. ASSUME NEW a \in Assets
      PROVE  PoolFits(a)'
  <2>1. PoolFits(a)
    BY DEF RInv
  <2>2. /\ Sum(ToTake(a))' <= Sum(ToTake(a)) /\ Sum(ToTake(a))' <= ledger'[a].out
        /\ Sum(ToTake(a)) \in Nat /\ Sum(ToTake(a))' \in Nat
    BY <1>2, <1>3, <2>1, TakeFalls
  <2>3. total[a] \in Nat /\ ledger[a].out \in Nat
    BY DEF IInv, TypeOK, InvTypeOK
  <2>4. Sum(ToTake(a))' + total[a] + ledger[a].out <= Sum(ToTake(a)) + total'[a] + ledger'[a].out
    BY <2>2, <2>3
  <2> HIDE DEF PoolFits
  <2> QED
    BY <2>1, <2>2, <2>4, PoolStays
<1>5. ASSUME NEW v \in Actors
      PROVE  (job[v].stale \/ CheckStands(job[v]))'
  BY <1>1, <1>3, TakesStale
<1> QED
  BY <1>4, <1>5 DEF RInv

\* How a step of each kind leaves what is live.
LEMMA FallsWhen ==
    ASSUME IInv, IInv', NEW a \in Assets,
           \A h \in Holders : \/ h \in late' \/ booking'[h][a] = 0
                              \/ h \notin late /\ booking'[h][a] = booking[h][a],
           \A b \in SelfBookings, l \in Lines :
               \/ b \in late' \/ LineAsset[b][l] # a \/ Owes(b, l)' = 0
               \/ b \notin late /\ Owes(b, l)' <= Owes(b, l)
    PROVE  FallsAt(a)
<1>1. ASSUME NEW h \in Holders
      PROVE  LiveRows(a)'[h] <= LiveRows(a)[h]
  <2>1. /\ LiveRows(a)[h] \in Nat /\ LiveRows(a)'[h] \in Nat
        /\ LiveRows(a)[h] = IF h \in late THEN 0 ELSE booking[h][a]
        /\ LiveRows(a)'[h] = IF h \in late' THEN 0 ELSE booking'[h][a]
    BY LiveTypes, LiveTypesNext
  <2> QED
    BY <2>1
<1>2. ASSUME NEW b \in SelfBookings, NEW l \in Lines
      PROVE  LiveLines(a)'[<<b, l>>] <= LiveLines(a)[<<b, l>>]
  <2>1. PICK n \in Nat : n = Owes(b, l)
    BY OwesType
  <2>2. PICK m \in Nat : m = Owes(b, l)'
    BY OwesTypeNext
  <2>3. /\ LiveLines(a)[<<b, l>>] = IF b \in late \/ LineAsset[b][l] # a THEN 0 ELSE n
        /\ LiveLines(a)'[<<b, l>>] = IF b \in late' \/ LineAsset[b][l] # a THEN 0 ELSE m
    BY <2>1, <2>2, LiveTypes, LiveTypesNext
  <2>4. b \in late' \/ LineAsset[b][l] # a \/ m = 0 \/ (b \notin late /\ m <= n)
    BY <2>1, <2>2
  <2> QED
    BY <2>3, <2>4
<1> QED
  BY <1>1, <1>2 DEF FallsAt

LEMMA SameOwed ==
    ASSUME IInv, NEW b \in SelfBookings, NEW l \in Lines, status'[b] = status[b],
           lineStatus'[b][l] = lineStatus[b][l], returned'[b][l] = returned[b][l]
    PROVE  Owes(b, l)' <= Owes(b, l)
<1>1. Owes(b, l)' = Owes(b, l)
  BY DEF Owes
<1>2. Owes(b, l) \in Nat
  BY OwesType
<1> QED
  BY <1>1, <1>2

LEMMA StaysLive ==
    ASSUME IInv, IInv', UNCHANGED <<status, lineStatus, returned, booking, late>>
    PROVE  Falls
<1>1. \A b \in SelfBookings, l \in Lines : Owes(b, l)' <= Owes(b, l)
  BY SameOwed
<1> QED
  BY <1>1, FallsWhen DEF Falls

\* A handler ends, or outdates those that know the booking it wrote.
LEMMA EndFits ==
    ASSUME IInv, IInv', RInv, UNCHANGED <<total, ledger>>, Falls, NEW w \in Actors, NEW b,
           job' = [job EXCEPT ![w] = Idle] \/ job' = Outdates(w, b) \/ job' = Takes(w)
    PROVE  RInv'
<1>1. job'[w] = Idle /\ \A v \in Actors \ {w} : Later(v)
  BY OneJobLater, DoneLater DEF IInv
<1>2. (job[w].stale \/ CheckStands(job[w]))' /\ job'[w].step # "apply"
  BY <1>1, IdleFits DEF CheckStands
<1> HIDE DEF Falls
<1> QED
  BY <1>1, <1>2, QuietFits

LEMMA BeginFits ==
    ASSUME IInv, IInv', RInv, NEW w \in Actors, BeginAny(w)
    PROVE  RInv'
<1>1. UNCHANGED <<total, ledger, status, lineStatus, returned, booking, late>>
  BY DEF BeginAny, BeginCreate, BeginCancel, BeginScan, BeginAdjust, BeginSubmit, Begin, bookingVars,
         invVars
<1>2. Falls
  BY <1>1, StaysLive
<1>3. ASSUME NEW r \in Jobs, job' = [job EXCEPT ![w] = r],
             \/ r.step \in {"write", "flip", "ledger", "gate"}
             \/ r.step = "check" /\ r.line = 1
      PROVE  RInv'
  <2>1. job'[w] = r /\ \A v \in Actors \ {w} : Later(v)
    BY <1>3, OneJobLater DEF IInv
  <2>2. (job[w].stale \/ CheckStands(job[w]))' /\ job'[w].step # "apply"
    BY <1>3, <2>1 DEF CheckStands
  <2> HIDE DEF Falls
  <2> QED
    BY <1>1, <1>2, <2>1, <2>2, QuietFits
<1>4. {"create", "cancel", "scan", "adjust", "submit"} \subseteq Ops
  BY DEF Ops
<1>5. {"check", "flip", "write", "ledger", "gate"} \subseteq Steps
  BY DEF Steps, BookingSteps, AssetSteps, HolderSteps
<1>6. ASSUME NEW op \in Ops, NEW x \in SelfBookings \cup Assets \cup Holders,
             NEW step \in {"check", "flip", "gate"}, Begin(w, JobFor(op, x, step))
      PROVE  RInv'
  <2> DEFINE j == JobFor(op, x, step)
  <2>1. j \in Jobs /\ j.step = step /\ j.line = 1
    BY <1>5, JobForType
  <2>2. job' = [job EXCEPT ![w] = j]
    BY <1>6 DEF Begin
  <2> HIDE DEF j
  <2> QED
    BY <1>3, <2>1, <2>2
<1>7. ASSUME NEW b \in SelfBookings, NEW l \in Lines, NEW q \in 1 .. LineQty[b][l],
             BeginScan(w, b, l, q)
      PROVE  RInv'
  <2>1. PICK k \in Jobs : k = JobFor("scan", b, "write") /\ k.step = "write"
    BY <1>4, <1>5, JobForType
  <2>2. PICK n \in Nat : n = returned[b][l]
    BY DEF IInv, TypeOK
  <2> DEFINE j == [k EXCEPT !.line = l, !.units = q, !.base = n]
  <2>3. job' = [job EXCEPT ![w] = j]
    BY <1>7, <2>1, <2>2 DEF BeginScan, Begin
  <2>4. j \in Jobs /\ j.step = "write"
    <3>1. q \in Int
      BY LinesType
    <3> QED
      BY <2>1, <3>1 DEF Jobs
  <2> HIDE DEF j
  <2> QED
    BY <1>3, <2>3, <2>4
<1>8. ASSUME NEW a \in Assets, NEW d \in Deltas[a], BeginAdjust(w, a, d)
      PROVE  RInv'
  <2>1. PICK k \in Jobs : k = JobFor("adjust", a, "ledger") /\ k.step = "ledger"
    BY <1>4, <1>5, JobForType
  <2> DEFINE j == [k EXCEPT !.units = d]
  <2>2. d \in Int
    BY DeltasType
  <2>3. j \in Jobs /\ j.step = "ledger" /\ job' = [job EXCEPT ![w] = j]
    BY <1>8, <2>1, <2>2 DEF Jobs, BeginAdjust
  <2> HIDE DEF j
  <2> QED
    BY <1>3, <2>3
<1> QED
  BY <1>4, <1>6, <1>7, <1>8 DEF BeginAny, BeginCreate, BeginCancel, BeginSubmit

------------------------------------------------------------------------------
(* The checks.                                                             *)

\* What is live is booked or out.
LEMMA LiveWithin ==
    ASSUME IInv, NEW a \in Assets, NEW S \in SUBSET Holders
    PROVE  /\ Live(a, S) <= Booked(a, S) + SelfBooked(a)
           /\ Booked(a, S) \in Nat /\ SelfBooked(a) \in Nat
<1> DEFINE m == LiveRows(a)
           n == LiveLines(a)
           p == [h \in Holders |-> booking[h][a]]
           q == [x \in PoolLines |-> Owes(x[1], x[2])]
           L == {y \in LinesOn(a) : y[1] \in SelfBookings}
           K == {x \in PoolLines : n[x] > 0}
<1>1. \A h \in S : p[h] \in Nat /\ m[h] \in Nat /\ m[h] <= p[h]
  BY LiveTypes DEF IInv, TypeOK, InvTypeOK
<1>2. Booked(a, S) = Cardinality(CountedUnits(p, S))
  BY DEF Booked, Units, CountedUnits
<1>3. L \in SUBSET PoolLines /\ IsFiniteSet(L)
  BY LinesFinite, FS_Subset DEF LinesOn, PoolLines
<1>4. SelfBooked(a) = Cardinality(CountedUnits(q, L))
  BY DEF SelfBooked, OwedUnits, CountedUnits, LinesOn, PoolLines
<1>5. ASSUME NEW x \in PoolLines
      PROVE  q[x] \in Nat /\ n[x] \in Nat /\ n[x] <= q[x] /\ (n[x] > 0 => x \in L)
  <2>1. PICK b \in SelfBookings, l \in Lines : x = <<b, l>>
    BY DEF PoolLines
  <2>2. PICK k \in Nat : k = Owes(b, l) /\ q[x] = k
    BY <2>1, OwesType
  <2>3. n[x] = IF b \in late \/ LineAsset[b][l] # a THEN 0 ELSE k
    BY <2>1, <2>2, LiveTypes
  <2>4. LineAsset[b][l] = a => x \in L
    BY <2>1 DEF LinesOn, PoolLines
  <2> QED
    BY <2>2, <2>3, <2>4
<1>6. CountedUnits(n, PoolLines) = CountedUnits(n, K)
  <2>1. ASSUME NEW x \in PoolLines, NEW i \in 1 .. n[x]
        PROVE  x \in K
    BY <1>5
  <2> QED
    BY <2>1 DEF CountedUnits
<1>7. K \in SUBSET L
  BY <1>5
<1>8. Live(a, S) = Cardinality(CountedUnits(m, S)) + Cardinality(CountedUnits(n, PoolLines))
  BY DEF Live, PoolLines
<1>9. IsFiniteSet(S)
  BY HoldersFinite, FS_Subset
<1>10. /\ \A x \in L : q[x] \in Nat
       /\ \A x \in K : n[x] \in Nat /\ n[x] <= q[x]
  BY <1>3, <1>5
<1> HIDE DEF m, n, p, q, L, K
<1>11. Cardinality(CountedUnits(m, S)) <= Cardinality(CountedUnits(p, S))
  BY <1>1, <1>9, CountIsMonotone
<1>12. Cardinality(CountedUnits(n, K)) <= Cardinality(CountedUnits(q, L))
  BY <1>3, <1>7, <1>10, CountIsMonotone
<1>13. /\ Cardinality(CountedUnits(m, S)) \in Nat /\ Cardinality(CountedUnits(p, S)) \in Nat
       /\ Cardinality(CountedUnits(q, L)) \in Nat /\ Cardinality(CountedUnits(n, K)) \in Nat
  <2>1. IsFiniteSet(K)
    BY <1>3, <1>7, FS_Subset
  <2> QED
    BY <1>1, <1>3, <1>9, <1>10, <2>1, CountIsFinite
<1> QED
  BY <1>2, <1>4, <1>6, <1>8, <1>11, <1>12, <1>13

\* A line is checked against all that is booked and out, of all days at once.
LEMMA CheckFits ==
    ASSUME IInv, IInv', RInv, NEW w \in Actors, CheckLine(w)
    PROVE  RInv'
<1>1. PICK b \in SelfBookings, l \in Lines : On(w) = b /\ job[w].on = b /\ job[w].line = l
  BY JobFacts DEF CheckLine, At, On, BookingSteps
<1>2. /\ job[w].step = "check" /\ job[w] \in Jobs
      /\ UNCHANGED <<total, ledger, status, lineStatus, returned, booking, late>>
  BY JobFacts DEF CheckLine, At, invVars, bookingVars
<1>3. Falls
  BY <1>2, StaysLive
<1>4. CASE job' = [job EXCEPT ![w] = Idle]
  <2> HIDE DEF Falls
  <2> QED
    BY <1>2, <1>3, <1>4, EndFits
<1>5. CASE job' # [job EXCEPT ![w] = Idle]
  <2>1. /\ LineQty[b][l] <= Unbooked(LineAsset[b][l])
        /\ job' = IF l = 1 THEN [job EXCEPT ![w].line = 2] ELSE [job EXCEPT ![w].step = "insert"]
    <3>1. ~(LineQty[b][l] > Unbooked(LineAsset[b][l]))
      BY <1>1, <1>5 DEF CheckLine, Finish
    <3>2. PICK a \in Assets, n \in Nat : a = LineAsset[b][l] /\ n = LineQty[b][l]
      BY LinesType
    <3>3. Unbooked(a) \in Int
      <4>1. Booked(a, Holders) \in Nat /\ SelfBooked(a) \in Nat
        BY LiveWithin
      <4>2. total[a] \in Nat
        BY DEF IInv, TypeOK, InvTypeOK
      <4> QED
        BY <4>1, <4>2 DEF Unbooked
    <3>4. LineQty[b][l] <= Unbooked(LineAsset[b][l])
      BY <3>1, <3>2, <3>3
    <3> QED
      BY <1>1, <3>1, <3>4 DEF CheckLine, GoTo
  <2> DEFINE r == IF l = 1 THEN [job[w] EXCEPT !.line = 2] ELSE [job[w] EXCEPT !.step = "insert"]
  <2>2. job' = [job EXCEPT ![w] = r]
    BY <2>1
  <2>3. /\ r.stale = job[w].stale /\ r.on = b
        /\ l = 1 => r.step = "check" /\ r.line = 2
        /\ l # 1 => r.step = "insert" /\ l = 2
    BY <1>1, <1>2 DEF Jobs, Lines
  <2> HIDE DEF r
  <2>4. job'[w] = r /\ \A v \in Actors \ {w} : Later(v)
    BY <2>2, OneJobLater DEF IInv
  <2>5. LineFits(b, l)
    <3>1. PICK a \in Assets, n \in Nat : a = LineAsset[b][l] /\ n = LineQty[b][l]
      BY LinesType
    <3>2. /\ Live(a, Holders) <= Booked(a, Holders) + SelfBooked(a) /\ Live(a, Holders) \in Nat
          /\ Booked(a, Holders) \in Nat /\ SelfBooked(a) \in Nat /\ total[a] \in Nat
      BY LiveWithin, LiveType DEF IInv, TypeOK, InvTypeOK
    <3>3. n <= total[a] - Booked(a, Holders) - SelfBooked(a)
      BY <2>1, <3>1 DEF Unbooked
    <3>4. Live(a, Holders) + n <= total[a]
      BY <3>2, <3>3
    <3> QED
      BY <3>1, <3>4 DEF LineFits
  <2>6. \A k \in Lines : LineFits(b, k) => LineFits(b, k)'
    <3>1. \A a \in Assets : total[a] <= total'[a]
      BY <1>2 DEF IInv, TypeOK, InvTypeOK
    <3> HIDE DEF Falls
    <3> QED
      BY <1>3, <3>1, LineStays
  <2>7. l = 2 => job[w].stale \/ LineFits(b, 1)
    BY <1>1, <1>2 DEF RInv, CheckStands
  <2>8. (job[w].stale \/ CheckStands(job[w]))'
    <3> SUFFICES ASSUME ~r.stale
                 PROVE  CheckStands(job[w])'
      BY <2>4
    <3>1. LineFits(b, l)'
      BY <2>5, <2>6
    <3>2. l = 2 => LineFits(b, 1)'
      BY <2>3, <2>6, <2>7 DEF Lines
    <3>3. job'[w].on = b /\ job'[w].step = r.step /\ job'[w].line = r.line
      BY <2>3, <2>4
    <3> QED
      BY <2>3, <3>1, <3>2, <3>3 DEF CheckStands, Lines
  <2>9. job'[w].step # "apply"
    BY <2>3, <2>4
  <2> HIDE DEF Falls
  <2> QED
    BY <1>2, <1>3, <2>4, <2>8, <2>9, QuietFits
<1> QED
  BY <1>4, <1>5

------------------------------------------------------------------------------
(* The steps that take units, or give them back.                           *)

\* One line takes units.
LEMMA LineRises ==
    ASSUME IInv, IInv', NEW a \in Assets, NEW b \in SelfBookings, NEW l \in Lines, NEW k \in Nat,
           LiveLines(a)'[<<b, l>>] <= k, NEW S \in SUBSET Holders,
           \A h \in Holders : LiveRows(a)'[h] <= LiveRows(a)[h],
           \A x \in PoolLines \ {<<b, l>>} : LiveLines(a)'[x] <= LiveLines(a)[x]
    PROVE  Live(a, S)' <= Live(a, Holders) + k
<1> DEFINE m == LiveRows(a)'
           n == LiveRows(a)
           p == LiveLines(a)'
           q == LiveLines(a)
           o == <<b, l>>
<1>1. \A h \in Holders : n[h] \in Nat /\ m[h] \in Nat /\ m[h] <= n[h]
  BY LiveTypes, LiveTypesNext
<1>2. \A x \in PoolLines : q[x] \in Nat /\ p[x] \in Nat
  BY LiveTypes, LiveTypesNext
<1>3. \A x \in PoolLines \ {o} : p[x] <= q[x]
  OBVIOUS
<1>4. o \in PoolLines /\ p[o] <= k
  BY DEF PoolLines
<1>5. /\ Live(a, S)' = Cardinality(CountedUnits(m, S)) + Cardinality(CountedUnits(p, PoolLines))
      /\ Live(a, Holders) = Cardinality(CountedUnits(n, Holders)) + Cardinality(CountedUnits(q, PoolLines))
  BY DEF Live, CountedUnits, PoolLines
<1> HIDE DEF m, n, p, q, o
<1>6. Cardinality(CountedUnits(m, S)) <= Cardinality(CountedUnits(n, Holders))
  BY <1>1, HoldersFinite, CountIsMonotone
<1>7. Cardinality(CountedUnits(p, PoolLines)) <= Cardinality(CountedUnits(q, PoolLines)) + p[o]
  BY <1>2, <1>3, <1>4, LinesFinite, CountWithOne
<1>8. /\ Cardinality(CountedUnits(m, S)) \in Nat /\ Cardinality(CountedUnits(n, Holders)) \in Nat
      /\ Cardinality(CountedUnits(p, PoolLines)) \in Nat
      /\ Cardinality(CountedUnits(q, PoolLines)) \in Nat
  <2>1. IsFiniteSet(S)
    BY HoldersFinite, FS_Subset
  <2> QED
    BY <1>1, <1>2, <2>1, HoldersFinite, LinesFinite, CountIsFinite
<1>9. p[o] \in Nat
  BY <1>2, <1>4
<1> QED
  BY <1>4, <1>5, <1>6, <1>7, <1>8, <1>9

\* One holder does.
LEMMA RowRises ==
    ASSUME IInv, IInv', NEW a \in Assets, NEW h \in Holders, NEW S \in SUBSET Holders,
           NEW k \in Nat, LiveRows(a)'[h] <= k,
           \A g \in Holders \ {h} : LiveRows(a)'[g] <= LiveRows(a)[g],
           \A x \in PoolLines : LiveLines(a)'[x] <= LiveLines(a)[x]
    PROVE  Live(a, S)' <= Live(a, S \ {h}) + k
<1> DEFINE m == LiveRows(a)'
           n == LiveRows(a)
           p == LiveLines(a)'
           q == LiveLines(a)
           T == S \ {h}
<1>1. \A g \in Holders : n[g] \in Nat /\ m[g] \in Nat
  BY LiveTypes, LiveTypesNext
<1>2. \A x \in PoolLines : q[x] \in Nat /\ p[x] \in Nat /\ p[x] <= q[x]
  BY LiveTypes, LiveTypesNext
<1>3. \A g \in T : m[g] <= n[g]
  OBVIOUS
<1>4. m[h] \in Nat /\ m[h] <= k
  BY <1>1
<1>5. /\ Live(a, S)' = Cardinality(CountedUnits(m, S)) + Cardinality(CountedUnits(p, PoolLines))
      /\ Live(a, T) = Cardinality(CountedUnits(n, T)) + Cardinality(CountedUnits(q, PoolLines))
  BY DEF Live, CountedUnits, PoolLines
<1>6. IsFiniteSet(S) /\ IsFiniteSet(T) /\ T \subseteq Holders
  BY HoldersFinite, FS_Subset
<1> HIDE DEF m, n, p, q
<1>7. Cardinality(CountedUnits(m, S)) <= Cardinality(CountedUnits(n, T)) + m[h]
  BY <1>1, <1>3, <1>4, <1>6, CountWithOne
<1> HIDE DEF T
<1>8. Cardinality(CountedUnits(p, PoolLines)) <= Cardinality(CountedUnits(q, PoolLines))
  BY <1>2, LinesFinite, CountIsMonotone
<1>9. /\ Cardinality(CountedUnits(m, S)) \in Nat /\ Cardinality(CountedUnits(n, T)) \in Nat
      /\ Cardinality(CountedUnits(p, PoolLines)) \in Nat
      /\ Cardinality(CountedUnits(q, PoolLines)) \in Nat
  BY <1>1, <1>2, <1>6, LinesFinite, CountIsFinite
<1> QED
  BY <1>4, <1>5, <1>7, <1>8, <1>9 DEF T

\* A booking that was checked against all that is there fits; any other is late.
LEMMA InsertFits ==
    ASSUME IInv, IInv', RInv, NEW w \in Actors, InsertBooking(w)
    PROVE  RInv'
<1>1. PICK b \in SelfBookings : On(w) = b /\ job[w].on = b
  BY JobFacts DEF InsertBooking, At, On, BookingSteps
<1>2. /\ status' = [status EXCEPT ![b] = "ACTIVE"]
      /\ lineStatus' = [lineStatus EXCEPT ![b] =
                          [l \in Lines |-> IF LineQty[b][l] > 0 THEN "OUT" ELSE "RETURNED"]]
      /\ late' = IF job[w].stale \/ Repeats(b) THEN late \cup {b} ELSE late
      /\ job' = Takes(w) /\ UNCHANGED <<total, booking, returned, ledger>>
      /\ job[w].step = "insert"
  BY <1>1 DEF InsertBooking, At, invVars
<1>3. ASSUME NEW c \in SelfBookings \ {b}, NEW l \in Lines
      PROVE  Owes(c, l)' <= Owes(c, l)
  <2>1. status'[c] = status[c] /\ lineStatus'[c] = lineStatus[c]
    BY <1>2 DEF IInv, TypeOK
  <2> QED
    BY <1>2, <2>1, SameOwed
<1>4. CASE job[w].stale \/ Repeats(b)
  <2>1. late' = late \cup {b}
    BY <1>2, <1>4
  <2>2. Falls
    BY <1>2, <1>3, <2>1, FallsWhen DEF Falls
  <2> HIDE DEF Falls
  <2> QED
    BY <1>2, <2>2, EndFits
<1>5. CASE ~(job[w].stale \/ Repeats(b))
  <2>1. late' = late
    BY <1>2, <1>5
  <2>2. \A l \in Lines : LineFits(b, l)
    BY <1>1, <1>2, <1>5 DEF RInv, CheckStands
  <2>3. ASSUME NEW a \in Assets, NEW t \in Days
        PROVE  \/ Live(a, Covering(a, t))' <= Live(a, Covering(a, t))
               \/ Live(a, Covering(a, t))' <= total[a]
    <3>1. Covering(a, t) \in SUBSET Holders
      BY DEF Covering
    <3>2. CASE \E l \in Lines : LineAsset[b][l] = a /\ LineQty[b][l] > 0
      <4>1. PICK l \in Lines : LineAsset[b][l] = a /\ LineQty[b][l] > 0
        BY <3>2
      <4>2. PICK k \in Nat : k = LineQty[b][l]
        BY LinesType
      <4>3. LiveLines(a)'[<<b, l>>] <= k
        <5>1. PICK m \in Nat : m = Owes(b, l)' /\ m <= k
          BY <4>2, OwesTypeNext
        <5>2. LiveLines(a)'[<<b, l>>] = IF b \in late' \/ LineAsset[b][l] # a THEN 0 ELSE m
          BY <5>1, LiveTypesNext
        <5> QED
          BY <5>1, <5>2
      <4>4. \A h \in Holders : LiveRows(a)'[h] <= LiveRows(a)[h]
        <5>1. ASSUME NEW h \in Holders
              PROVE  LiveRows(a)'[h] <= LiveRows(a)[h]
          <6>1. LiveRows(a)'[h] = LiveRows(a)[h] /\ LiveRows(a)[h] \in Nat
            BY <1>2, <2>1, LiveTypes, LiveTypesNext
          <6> QED
            BY <6>1
        <5> QED
          BY <5>1
      <4>5. ASSUME NEW x \in PoolLines \ {<<b, l>>}
            PROVE  LiveLines(a)'[x] <= LiveLines(a)[x]
        <5>1. PICK c \in SelfBookings, j \in Lines : x = <<c, j>>
          BY DEF PoolLines
        <5>2. PICK n \in Nat : n = Owes(c, j)
          BY OwesType
        <5>3. PICK m \in Nat : m = Owes(c, j)'
          BY OwesTypeNext
        <5>4. /\ LiveLines(a)[x] = IF c \in late \/ LineAsset[c][j] # a THEN 0 ELSE n
              /\ LiveLines(a)'[x] = IF c \in late \/ LineAsset[c][j] # a THEN 0 ELSE m
          BY <2>1, <5>1, <5>2, <5>3, LiveTypes, LiveTypesNext
        <5>5. LineAsset[c][j] # a \/ m <= n
          <6>1. CASE c # b
            BY <1>3, <5>2, <5>3, <6>1
          <6>2. CASE c = b
            <7>1. j # l /\ LineQty[b][j] \in Nat
              BY <5>1, <6>2, LinesType
            <7>2. LineAsset[b][j] = a => ~(LineQty[b][j] > 0)
              BY <1>5, <4>1, <7>1 DEF Repeats, Lines
            <7>3. LineAsset[b][j] = a => m = 0
              BY <5>3, <6>2, <7>2 DEF Owes
            <7> QED
              BY <6>2, <7>3
          <6> QED
            BY <6>1, <6>2
        <5> QED
          BY <5>4, <5>5
      <4>6. Live(a, Covering(a, t))' <= Live(a, Holders) + k
        BY <3>1, <4>3, <4>4, <4>5, LineRises
      <4>7. Live(a, Holders) + k <= total[a]
        BY <2>2, <4>1, <4>2 DEF LineFits
      <4>8. /\ Live(a, Covering(a, t))' \in Nat /\ Live(a, Holders) \in Nat /\ total[a] \in Nat
        BY <3>1, LiveType, LiveTypeNext DEF IInv, TypeOK, InvTypeOK
      <4> QED
        BY <4>6, <4>7, <4>8
    <3>3. CASE ~\E l \in Lines : LineAsset[b][l] = a /\ LineQty[b][l] > 0
      <4>1. \A l \in Lines : LineAsset[b][l] # a \/ Owes(b, l)' = 0
        BY <3>3 DEF Owes
      <4>2. FallsAt(a)
        BY <1>2, <1>3, <2>1, <4>1, FallsWhen
      <4> HIDE DEF FallsAt
      <4> QED
        BY <3>1, <4>2, LiveFalls
    <3> QED
      BY <3>2, <3>3
  <2> QED
    BY <1>2, <2>3, TakesFits
<1> QED
  BY <1>4, <1>5

\* A scan gives back; a line that blocks more than before makes its booking late.
LEMMA CommitFits ==
    ASSUME IInv, IInv', RInv, NEW w \in Actors, CommitScan(w)
    PROVE  RInv'
<1>1. /\ UNCHANGED <<total, booking, ledger>> /\ job' = Outdates(w, On(w))
      /\ late' = late \cup Revived
  BY DEF CommitScan, invVars
<1>2. ASSUME NEW h \in Holders
      PROVE  h \in late' \/ h \notin late
  BY <1>1
<1>3. ASSUME NEW b \in SelfBookings, NEW l \in Lines
      PROVE  b \in late' \/ (b \notin late /\ Owes(b, l)' <= Owes(b, l))
  <2>1. Owes(b, l) \in Nat /\ Owes(b, l)' \in Nat
    BY OwesType, OwesTypeNext
  <2>2. Owes(b, l)' > Owes(b, l) => b \in Revived
    BY DEF Revived
  <2> QED
    BY <1>1, <2>1, <2>2
<1>4. Falls
  BY <1>1, <1>2, <1>3, FallsWhen DEF Falls
<1> HIDE DEF Falls
<1> QED
  BY <1>1, <1>4, EndFits

\* A cancel gives back all.
LEMMA CancelFits ==
    ASSUME IInv, IInv', RInv, NEW w \in Actors, SettleLines(w)
    PROVE  RInv'
<1>1. PICK b \in SelfBookings : On(w) = b
  BY JobFacts DEF SettleLines, At, BookingSteps
<1>2. /\ UNCHANGED <<total, booking, ledger, late, returned>> /\ job' = Outdates(w, b)
      /\ status' = [status EXCEPT ![b] = "CANCELLED"]
      /\ lineStatus' = [lineStatus EXCEPT ![b] = [l \in Lines |-> "RETURNED"]]
  BY <1>1 DEF SettleLines, invVars
<1>3. ASSUME NEW c \in SelfBookings, NEW l \in Lines
      PROVE  Owes(c, l)' = 0 \/ Owes(c, l)' <= Owes(c, l)
  <2>1. CASE c = b
    <3>1. lineStatus'[c][l] = "RETURNED"
      BY <1>2, <2>1 DEF IInv, TypeOK
    <3> QED
      BY <3>1 DEF Owes
  <2>2. CASE c # b
    <3>1. status'[c] = status[c] /\ lineStatus'[c] = lineStatus[c]
      BY <1>2, <2>2 DEF IInv, TypeOK
    <3> QED
      BY <1>2, <3>1, SameOwed
  <2> QED
    BY <2>1, <2>2
<1>4. Falls
  BY <1>2, <1>3, FallsWhen DEF Falls
<1> HIDE DEF Falls
<1> QED
  BY <1>2, <1>4, EndFits

\* The steps that go on with the booking as it is.
LEMMA GoOnFits ==
    ASSUME IInv, IInv', RInv, NEW w \in Actors, WriteLine(w) \/ FlipBooking(w)
    PROVE  RInv'
<1>1. /\ UNCHANGED <<total, ledger, status, lineStatus, returned, booking, late>>
      /\ job[w] \in Jobs
  BY JobFacts DEF WriteLine, FlipBooking, invVars
<1>2. PICK r : job' = [job EXCEPT ![w] = r] /\ r.step \in {"commit", "settle"}
  <2> DEFINE p == [job[w] EXCEPT !.step = "commit",
                     !.last = LineBack(w) /\ \A k \in Lines \ {job[w].line} :
                                                lineStatus[On(w)][k] = "RETURNED"]
             q == [job[w] EXCEPT !.step = "settle"]
  <2>1. p.step = "commit" /\ q.step = "settle"
    BY <1>1 DEF Jobs
  <2>2. job' = [job EXCEPT ![w] = p] \/ job' = [job EXCEPT ![w] = q]
    BY DEF WriteLine, FlipBooking, GoTo
  <2> HIDE DEF p, q
  <2> QED
    BY <2>1, <2>2
<1>3. job'[w] = r /\ \A v \in Actors \ {w} : Later(v)
  BY <1>2, OneJobLater DEF IInv
<1>4. (job[w].stale \/ CheckStands(job[w]))' /\ job'[w].step # "apply"
  BY <1>2, <1>3 DEF CheckStands
<1>5. Falls
  BY <1>1, StaysLive
<1> HIDE DEF Falls
<1> QED
  BY <1>1, <1>3, <1>4, <1>5, QuietFits

------------------------------------------------------------------------------
(* Adjustments, orders and the release.                                    *)

\* What is entered as taken is room for what is still to be taken.
LEMMA EnterFits ==
    ASSUME IInv, IInv', RInv, NEW w \in Actors, EnterMovement(w)
    PROVE  RInv'
<1>1. PICK a \in Assets, d \in Int : On(w) = a /\ job[w].units = d /\ job[w].on = a
  BY JobFacts DEF EnterMovement, At, On, AssetSteps
<1> DEFINE r == [job[w] EXCEPT !.step = "apply"]
<1>2. r \in Jobs /\ r.on = a /\ r.units = d /\ r.step = "apply"
  BY <1>1, JobFacts DEF Jobs, Steps, AssetSteps
<1>3. /\ ledger' = [ledger EXCEPT ![a] = Entered(ledger[a], d)] /\ job' = [job EXCEPT ![w] = r]
      /\ UNCHANGED <<total, status, lineStatus, returned, booking, late>>
      /\ job[w].step = "ledger"
  BY <1>1 DEF EnterMovement, GoTo, At, invVars, bookingVars
<1> HIDE DEF r
<1>4. Falls
  BY <1>3, StaysLive
<1>5. job'[w] = r /\ \A v \in Actors \ {w} : Later(v)
  BY <1>3, OneJobLater DEF IInv
<1>6. \A v \in Actors \ {w} : Same(v)
  BY <1>5 DEF Later
<1>7. ASSUME NEW c \in Assets
      PROVE  PoolFits(c)'
  <2>1. /\ Sum(ToTake(c))' = Sum(ToTake(c)) + ToTake(c)'[w] - ToTake(c)[w]
        /\ Sum(ToTake(c)) \in Nat
    BY <1>6, WaitChanges DEF IInv, JobsFit
  <2>2. ToTake(c)[w] = 0
    BY <1>3 DEF ToTake, Waits, At
  <2>3. ToTake(c)'[w] = IF c = a /\ d < 0 THEN -d ELSE 0
    BY <1>2, <1>5 DEF ToTake, Waits, At, On
  <2>4. PICK e \in [in : Nat, out : Nat] : e = ledger[c]
    BY DEF IInv, TypeOK
  <2>5. ledger'[c].out = IF c = a /\ d < 0 THEN e.out - d ELSE e.out
    <3>1. CASE c = a
      <4>1. ledger'[c] = Entered(e, d)
        BY <1>3, <2>4, <3>1 DEF IInv, TypeOK
      <4>2. CASE d > 0
        BY <3>1, <4>1, <4>2 DEF Entered
      <4>3. CASE ~(d > 0)
        <5>1. Entered(e, d) = [e EXCEPT !.out = e.out - d]
          BY <4>3 DEF Entered
        <5>2. Entered(e, d).out = e.out - d
          BY <5>1
        <5> QED
          BY <3>1, <4>1, <4>3, <5>2
      <4> QED
        BY <4>2, <4>3
    <3>2. CASE c # a
      BY <1>3, <2>4, <3>2 DEF IInv, TypeOK
    <3> QED
      BY <3>1, <3>2
  <2>6. PICK n \in Nat : n = IF c = a /\ d < 0 THEN -d ELSE 0
    OBVIOUS
  <2>7. /\ Sum(ToTake(c))' = Sum(ToTake(c)) + n /\ ledger'[c].out = ledger[c].out + n
        /\ e.out \in Nat
    <3>1. e.out \in Nat
      OBVIOUS
    <3>2. Sum(ToTake(c))' = Sum(ToTake(c)) + n
      BY <2>1, <2>2, <2>3, <2>6
    <3>3. ledger'[c].out = e.out + n
      BY <2>5, <2>6, <3>1
    <3> QED
      BY <2>4, <3>1, <3>2, <3>3
  <2>8. PoolFits(c) /\ Sum(ToTake(c)) <= ledger[c].out /\ total'[c] = total[c] /\ total[c] \in Nat
    BY <1>3 DEF RInv, PoolFits, IInv, TypeOK, InvTypeOK
  <2>9. /\ Sum(ToTake(c))' <= ledger'[c].out /\ Sum(ToTake(c))' \in Nat
        /\ Sum(ToTake(c))' + total[c] + ledger[c].out <= Sum(ToTake(c)) + total'[c] + ledger'[c].out
    BY <2>1, <2>4, <2>7, <2>8
  <2>10. ASSUME NEW t \in Days
         PROVE  Live(c, Covering(c, t))' <= Live(c, Covering(c, t))
    <3>1. Covering(c, t) \in SUBSET Holders
      BY DEF Covering
    <3> QED
      BY <1>4, <3>1, LiveFalls DEF Falls
  <2> HIDE DEF PoolFits
  <2> QED
    BY <2>1, <2>8, <2>9, <2>10, PoolStays
<1>8. ASSUME NEW v \in Actors
      PROVE  (job[v].stale \/ CheckStands(job[v]))'
  <2>1. CASE v = w
    BY <1>2, <1>5, <2>1 DEF CheckStands
  <2>2. CASE v # w
    <3>1. \A c \in Assets : total[c] <= total'[c]
      BY <1>3 DEF IInv, TypeOK, InvTypeOK
    <3> HIDE DEF Falls
    <3> QED
      BY <1>4, <1>5, <2>2, <3>1, CheckStays DEF RInv
  <2> QED
    BY <2>1, <2>2
<1> QED
  BY <1>7, <1>8 DEF RInv

\* Units that are taken are no longer to be taken.
LEMMA ApplyFits ==
    ASSUME IInv, IInv', RInv, NEW w \in Actors, ApplyMovement(w)
    PROVE  RInv'
<1>1. PICK a \in Assets, d \in Int : On(w) = a /\ job[w].units = d /\ job[w].on = a
  BY JobFacts DEF ApplyMovement, At, On, AssetSteps
<1>2. /\ total' = [total EXCEPT ![a] = Shifted(total[a], d)]
      /\ job' = IF d < 0 THEN Takes(w) ELSE [job EXCEPT ![w] = Idle]
      /\ UNCHANGED <<ledger, status, lineStatus, returned, booking, late>>
      /\ job[w].step = "apply"
  BY <1>1 DEF ApplyMovement, At, bookingVars
<1>3. Falls
  BY <1>2, StaysLive
<1>4. job'[w] = Idle /\ \A v \in Actors \ {w} : Later(v)
  BY <1>2, OneJobLater, DoneLater DEF IInv
<1>5. \A v \in Actors \ {w} : Same(v)
  BY <1>4 DEF Later
<1>6. ASSUME NEW c \in Assets
      PROVE  /\ total[c] \in Nat /\ total'[c] \in Nat
             /\ total'[c] >= IF c = a THEN total[c] + d ELSE total[c]
  <2>1. total[c] \in Nat /\ total'[c] \in Nat
    BY DEF IInv, TypeOK, InvTypeOK
  <2>2. total'[c] = IF c = a THEN Shifted(total[c], d) ELSE total[c]
    BY <1>2 DEF IInv, TypeOK, InvTypeOK
  <2> QED
    BY <2>1, <2>2 DEF Shifted, AtLeastZero
<1>7. ASSUME NEW c \in Assets
      PROVE  PoolFits(c)'
  <2>1. /\ Sum(ToTake(c))' = Sum(ToTake(c)) + ToTake(c)'[w] - ToTake(c)[w]
        /\ Sum(ToTake(c)) \in Nat
    BY <1>5, WaitChanges DEF IInv, JobsFit
  <2>2. ToTake(c)'[w] = 0
    BY <1>4, IdleFits DEF ToTake, Waits, At
  <2>3. ToTake(c)[w] = IF c = a /\ d < 0 THEN -d ELSE 0
    BY <1>1, <1>2 DEF ToTake, Waits, At
  <2>4. PoolFits(c) /\ Sum(ToTake(c)) <= ledger[c].out /\ ledger'[c].out = ledger[c].out
        /\ ledger[c].out \in Nat
    BY <1>2 DEF RInv, PoolFits, IInv, TypeOK
  <2>5. /\ Sum(ToTake(c))' \in Nat /\ Sum(ToTake(c))' <= Sum(ToTake(c))
    <3>1. TakeType(c)
      BY TakeTypes
    <3> QED
      BY <2>1, <2>2, <2>3, <3>1 DEF TakeType
  <2>6. Sum(ToTake(c))' + total[c] + ledger[c].out <= Sum(ToTake(c)) + total'[c] + ledger'[c].out
    BY <1>6, <2>1, <2>2, <2>3, <2>4
  <2>7. ASSUME NEW t \in Days
        PROVE  Live(c, Covering(c, t))' <= Live(c, Covering(c, t))
    <3>1. Covering(c, t) \in SUBSET Holders
      BY DEF Covering
    <3> QED
      BY <1>3, <3>1, LiveFalls DEF Falls
  <2>8. Sum(ToTake(c))' <= ledger'[c].out
    BY <2>1, <2>4, <2>5
  <2> HIDE DEF PoolFits
  <2> QED
    BY <2>1, <2>4, <2>5, <2>6, <2>7, <2>8, PoolStays
<1>8. ASSUME NEW v \in Actors
      PROVE  (job[v].stale \/ CheckStands(job[v]))'
  <2>1. CASE d < 0
    BY <1>2, <2>1, TakesStale
  <2>2. CASE ~(d < 0) /\ v = w
    BY <1>4, <2>2, IdleFits DEF CheckStands
  <2>3. CASE ~(d < 0) /\ v # w
    <3>1. \A c \in Assets : total[c] <= total'[c]
      BY <1>6, <2>3
    <3> HIDE DEF Falls
    <3> QED
      BY <1>3, <1>4, <2>3, <3>1, CheckStays DEF RInv
  <2> QED
    BY <2>1, <2>2, <2>3
<1> QED
  BY <1>7, <1>8 DEF RInv

\* An order is admitted, without self-pickups, by what is booked on its days and
\* what self-bookings have out.
LEMMA GateFits ==
    ASSUME IInv, IInv', RInv, Pickups = {}, NEW w \in Actors, Gate(w)
    PROVE  RInv'
<1>1. PICK h \in Holders : On(w) = h /\ job[w].on = h
  BY JobFacts DEF Gate, At, On, HolderSteps
<1>2. /\ UNCHANGED <<total, ledger, status, lineStatus, returned, booking, late>>
      /\ job[w] \in Jobs
  BY JobFacts DEF Gate, stockVars, bookingVars
<1>3. Falls
  BY <1>2, StaysLive
<1>4. CASE job' = [job EXCEPT ![w] = Idle]
  <2> HIDE DEF Falls
  <2> QED
    BY <1>2, <1>3, <1>4, EndFits
<1>5. CASE job' # [job EXCEPT ![w] = Idle]
  <2> DEFINE r == [job[w] EXCEPT !.step = "book"]
  <2>1. Admitted(h) /\ job' = [job EXCEPT ![w] = r]
    BY <1>1, <1>5 DEF Gate, Finish, GoTo
  <2>2. r.on = h /\ r.step = "book"
    BY <1>1, <1>2 DEF Jobs
  <2> HIDE DEF r
  <2>3. job'[w] = r /\ \A v \in Actors \ {w} : Later(v)
    BY <2>1, OneJobLater DEF IInv
  <2>4. ASSUME NEW a \in Items(h), NEW t \in Days, h \in Covering(a, t)
        PROVE  Live(a, Covering(a, t) \ {h}) + Need[h][a] <= total[a]
    <3> DEFINE S == Covering(a, t) \ {h}
               C == Competitors(h, a)
    <3>1. a \in Assets /\ S \in SUBSET Holders /\ C \in SUBSET Holders
      BY DEF Items, Covering, Competitors
    <3>2. S \subseteq C
      <4>1. t \in Int /\ t >= Window[h][a].from /\ t <= Window[h][a].until
        BY <2>4, <3>1, WindowType DEF Covering
      <4>2. ASSUME NEW g \in S
            PROVE  g \in C
        <5>1. /\ g \in Holders \ {h} /\ t >= Window[g][a].from /\ t <= Window[g][a].until
              /\ Window[g][a].from \in Int /\ Window[g][a].until \in Int
              /\ Window[h][a].from \in Int /\ Window[h][a].until \in Int
          BY <3>1, WindowType DEF Covering
        <5>2. Overlaps(h, g, a)
          BY <4>1, <5>1 DEF Overlaps
        <5> QED
          BY <5>1, <5>2 DEF Competitors
      <4> QED
        BY <4>2
    <3> HIDE DEF S, C
    <3>3. /\ Live(a, S) <= Booked(a, S) + SelfBooked(a) /\ Live(a, S) \in Nat
          /\ Booked(a, S) \in Nat /\ SelfBooked(a) \in Nat
      BY <3>1, LiveWithin, LiveType
    <3>4. Booked(a, S) <= Booked(a, C) /\ Booked(a, C) \in Nat
      <4> DEFINE p == [g \in Holders |-> booking[g][a]]
      <4>1. \A g \in C : p[g] \in Nat
        BY <3>1 DEF IInv, TypeOK, InvTypeOK
      <4>2. Booked(a, S) = Cardinality(CountedUnits(p, S)) /\ Booked(a, C) = Cardinality(CountedUnits(p, C))
        BY <3>1 DEF Booked, Units, CountedUnits
      <4>3. IsFiniteSet(C)
        BY <3>1, HoldersFinite, FS_Subset
      <4> HIDE DEF p
      <4>4. \A g \in S : p[g] \in Nat /\ p[g] <= p[g]
        BY <3>2, <4>1
      <4>5. Cardinality(CountedUnits(p, S)) <= Cardinality(CountedUnits(p, C))
        BY <3>2, <4>1, <4>3, <4>4, CountIsMonotone
      <4>6. Cardinality(CountedUnits(p, C)) \in Nat
        BY <4>1, <4>3, CountIsFinite
      <4> QED
        BY <4>2, <4>5, <4>6
    <3>5. PICK n \in Nat : n = Need[h][a] /\ n > 0
      BY NeedType DEF Items
    <3>6. AtLeastZero(total[a] - Booked(a, C) - SelfBooked(a)) >= n
      BY <2>1, <3>5 DEF Admitted, C
    <3>7. total[a] \in Nat
      BY <3>1 DEF IInv, TypeOK, InvTypeOK
    <3>8. Live(a, S) + n <= total[a]
      BY <3>3, <3>4, <3>5, <3>6, <3>7 DEF AtLeastZero
    <3> QED
      BY <3>5, <3>8 DEF S
  <2>5. HolderFits(h)'
    <3>1. HolderFits(h)
      BY <2>4 DEF HolderFits
    <3>2. \A a \in Assets : total[a] <= total'[a]
      BY <1>2 DEF IInv, TypeOK, InvTypeOK
    <3> HIDE DEF Falls
    <3> QED
      BY <1>3, <3>1, <3>2, HolderStays
  <2>6. (job[w].stale \/ CheckStands(job[w]))' /\ job'[w].step # "apply"
    BY <2>2, <2>3, <2>5 DEF CheckStands
  <2> HIDE DEF Falls
  <2> QED
    BY <1>2, <1>3, <2>3, <2>6, QuietFits
<1> QED
  BY <1>4, <1>5

\* It books what it was admitted for, or is late.
LEMMA OrderFits ==
    ASSUME IInv, IInv', RInv, NEW w \in Actors, Book(w)
    PROVE  RInv'
<1>1. PICK h \in Holders : On(w) = h /\ job[w].on = h
  BY JobFacts DEF Book, At, On, HolderSteps
<1>2. /\ booking' = [booking EXCEPT ![h] =
                      [a \in Assets |-> IF Need[h][a] > 0 THEN Need[h][a] ELSE booking[h][a]]]
      /\ late' = IF job[w].stale THEN late \cup {h} ELSE late
      /\ job' = Takes(w) /\ job[w].step = "book"
      /\ UNCHANGED <<total, ledger, status, lineStatus, returned>>
  BY <1>1 DEF Book, InsertRows, At, bookingVars
<1>3. ASSUME NEW a \in Assets
      PROVE  /\ \A g \in Holders \ {h} : booking'[g][a] = booking[g][a]
             /\ booking'[h][a] = IF a \in Items(h) THEN Need[h][a] ELSE booking[h][a]
  BY <1>2 DEF IInv, TypeOK, InvTypeOK, Items
<1>4. \A b \in SelfBookings, l \in Lines : Owes(b, l)' <= Owes(b, l)
  BY <1>2, SameOwed
<1>5. CASE job[w].stale
  <2>1. late' = late \cup {h}
    BY <1>2, <1>5
  <2>2. Falls
    BY <1>3, <1>4, <2>1, SelfBookingsType, FallsWhen DEF Falls
  <2> HIDE DEF Falls
  <2> QED
    BY <1>2, <2>2, EndFits
<1>6. CASE ~job[w].stale
  <2>1. late' = late
    BY <1>2, <1>6
  <2>2. HolderFits(h)
    BY <1>1, <1>2, <1>6 DEF RInv, CheckStands
  <2>3. ASSUME NEW a \in Assets, NEW t \in Days
        PROVE  \/ Live(a, Covering(a, t))' <= Live(a, Covering(a, t))
               \/ Live(a, Covering(a, t))' <= total[a]
    <3> DEFINE S == Covering(a, t)
    <3>1. S \in SUBSET Holders
      BY DEF Covering
    <3>2. CASE a \notin Items(h)
      <4>1. FallsAt(a)
        BY <1>3, <1>4, <2>1, <3>2, FallsWhen
      <4> HIDE DEF FallsAt
      <4> QED
        BY <3>1, <4>1, LiveFalls
    <3>3. ASSUME NEW g \in Holders, g # h \/ a \notin Items(h)
          PROVE  LiveRows(a)'[g] <= LiveRows(a)[g]
      <4>1. LiveRows(a)[g] \in Nat /\ LiveRows(a)'[g] = LiveRows(a)[g]
        BY <1>3, <2>1, <3>3, LiveTypes, LiveTypesNext
      <4> QED
        BY <4>1
    <3>4. ASSUME NEW x \in PoolLines
          PROVE  LiveLines(a)'[x] = LiveLines(a)[x] /\ LiveLines(a)[x] \in Nat
      BY <1>2, <2>1, <3>4, LiveTypes DEF LiveLines, Owes, PoolLines
    <3>5. CASE a \in Items(h) /\ h \notin S
      <4> DEFINE m == LiveRows(a)'
                 n == LiveRows(a)
      <4>1. \A g \in S : m[g] \in Nat /\ n[g] \in Nat /\ m[g] <= n[g]
        BY <3>1, <3>3, <3>5, LiveTypes, LiveTypesNext
      <4>2. /\ Live(a, S)' = Cardinality(CountedUnits(m, S)) + Cardinality(CountedUnits(LiveLines(a), PoolLines))
            /\ Live(a, S) = Cardinality(CountedUnits(n, S)) + Cardinality(CountedUnits(LiveLines(a), PoolLines))
        <5>1. CountedUnits(LiveLines(a)', PoolLines) = CountedUnits(LiveLines(a), PoolLines)
          BY <3>4 DEF CountedUnits
        <5>2. Live(a, S)' = Cardinality(CountedUnits(m, S)) + Cardinality(CountedUnits(LiveLines(a)', PoolLines))
          BY DEF Live, CountedUnits, PoolLines, Covering
        <5> QED
          BY <5>1, <5>2 DEF Live, PoolLines
      <4>3. /\ Cardinality(CountedUnits(LiveLines(a), PoolLines)) \in Nat
            /\ IsFiniteSet(S)
        BY <3>1, LiveType, HoldersFinite, FS_Subset
      <4> HIDE DEF m, n, S
      <4>4. /\ Cardinality(CountedUnits(m, S)) <= Cardinality(CountedUnits(n, S))
            /\ Cardinality(CountedUnits(m, S)) \in Nat /\ Cardinality(CountedUnits(n, S)) \in Nat
        BY <4>1, <4>3, CountIsMonotone, CountIsFinite
      <4> QED
        BY <4>2, <4>3, <4>4 DEF S
    <3>6. CASE a \in Items(h) /\ h \in S
      <4>1. PICK k \in Nat : k = Need[h][a]
        BY NeedType
      <4>2. Live(a, S \ {h}) + k <= total[a]
        BY <2>2, <3>6, <4>1 DEF HolderFits
      <4>3. LiveRows(a)'[h] <= k
        <5>1. LiveRows(a)'[h] = IF h \in late' THEN 0 ELSE k
          BY <1>3, <3>6, <4>1, LiveTypesNext
        <5> QED
          BY <5>1
      <4>4. \A g \in Holders \ {h} : LiveRows(a)'[g] <= LiveRows(a)[g]
        BY <3>3
      <4>5. \A x \in PoolLines : LiveLines(a)'[x] <= LiveLines(a)[x]
        BY <3>4
      <4>6. Live(a, S)' <= Live(a, S \ {h}) + k
        BY <3>1, <4>3, <4>4, <4>5, RowRises
      <4>7. /\ Live(a, S)' \in Nat /\ total[a] \in Nat
            /\ Live(a, S \ {h}) \in Nat
        <5>1. S \ {h} \in SUBSET Holders
          BY <3>1
        <5> QED
          BY <3>1, <5>1, LiveType, LiveTypeNext DEF IInv, TypeOK, InvTypeOK
      <4> QED
        BY <4>2, <4>6, <4>7
    <3> QED
      BY <3>2, <3>5, <3>6
  <2> QED
    BY <1>2, <2>3, TakesFits
<1> QED
  BY <1>5, <1>6

\* A step that no handler takes.
LEMMA AloneFits ==
    ASSUME IInv, IInv', RInv, UNCHANGED <<total, ledger, job>>, Falls
    PROVE  RInv'
<1>1. ASSUME NEW a \in Assets
      PROVE  PoolFits(a)'
  <2>1. Sum(ToTake(a))' = Sum(ToTake(a))
    BY DEF Sum, ToTake, Waits, At, On, CountedUnits
  <2>2. TakeType(a)
    BY TakeTypes
  <2>3. PoolFits(a) /\ Sum(ToTake(a))' <= ledger'[a].out /\ ledger[a].out \in Nat /\ total[a] \in Nat
    BY <2>1 DEF RInv, PoolFits, IInv, TypeOK, InvTypeOK
  <2>4. /\ Sum(ToTake(a))' \in Nat /\ Sum(ToTake(a)) \in Nat
        /\ Sum(ToTake(a))' + total[a] + ledger[a].out <= Sum(ToTake(a)) + total'[a] + ledger'[a].out
    <3>1. Sum(ToTake(a)) \in Nat
      BY <2>1, <2>2 DEF TakeType
    <3> QED
      BY <2>1, <2>3, <3>1
  <2>5. ASSUME NEW t \in Days
        PROVE  Live(a, Covering(a, t))' <= Live(a, Covering(a, t))
    <3>1. Covering(a, t) \in SUBSET Holders
      BY DEF Covering
    <3> QED
      BY <3>1, LiveFalls DEF Falls
  <2> HIDE DEF PoolFits
  <2> QED
    BY <2>3, <2>4, <2>5, PoolStays
<1>2. ASSUME NEW v \in Actors
      PROVE  (job[v].stale \/ CheckStands(job[v]))'
  <2>1. Later(v)
    BY DEF Later, Same, IInv, JobsFit, JobFits
  <2>2. \A a \in Assets : total[a] <= total'[a]
    BY DEF IInv, TypeOK, InvTypeOK
  <2> HIDE DEF Falls
  <2> QED
    BY <2>1, <2>2, CheckStays DEF RInv
<1> QED
  BY <1>1, <1>2 DEF RInv

\* Rows that are deleted were live, or late and no longer are.
LEMMA ReleaseFits ==
    ASSUME IInv, IInv', RInv, NEW h \in Holders, Release(h)
    PROVE  RInv'
<1>1. /\ UNCHANGED <<total, ledger, status, lineStatus, returned, job>> /\ late' = late \ {h}
      /\ booking' = [booking EXCEPT ![h] = [a \in Assets |-> 0]]
  BY DEF Release, DeleteRows, bookingVars
<1>2. ASSUME NEW a \in Assets
      PROVE  FallsAt(a)
  <2>1. \A g \in Holders : booking'[g][a] = IF g = h THEN 0 ELSE booking[g][a]
    BY <1>1 DEF IInv, TypeOK, InvTypeOK
  <2>2. \A b \in SelfBookings, l \in Lines :
            b \in late' \/ (b \notin late /\ Owes(b, l)' <= Owes(b, l))
    BY <1>1, SameOwed, SelfBookingsType
  <2>3. \A g \in Holders : \/ g \in late' \/ booking'[g][a] = 0
                           \/ g \notin late /\ booking'[g][a] = booking[g][a]
    BY <1>1, <2>1
  <2> QED
    BY <2>2, <2>3, FallsWhen
<1>3. Falls
  BY <1>2 DEF Falls
<1> QED
  BY <1>1, <1>3, AloneFits

------------------------------------------------------------------------------
(* The theorem.                                                            *)

LEMMA InitFits ==
    ASSUME Init
    PROVE  RInv
<1>1. IInv
  BY InitHolds
<1>2. ASSUME NEW a \in Assets
      PROVE  PoolFits(a)
  <2>1. \A w \in Actors : ToTake(a)[w] = 0
    BY IdleFits DEF Init, ToTake, Waits, At
  <2>2. CountedUnits(ToTake(a), Actors) = {}
    BY <2>1 DEF CountedUnits
  <2>3. Sum(ToTake(a)) = 0
    BY <2>2, FS_EmptySet DEF Sum
  <2>4. ledger[a].out = 0 /\ total[a] \in Nat
    BY <1>1 DEF Init, IInv, TypeOK, InvTypeOK
  <2>5. ASSUME NEW t \in Days
        PROVE  Live(a, Covering(a, t)) = 0
    <3>1. \A h \in Covering(a, t) : LiveRows(a)[h] = 0
      BY DEF LiveRows, Covering, Init, InvInit
    <3>2. \A x \in PoolLines : LiveLines(a)[x] = 0
      BY DEF LiveLines, PoolLines, Owes, Init
    <3>3. CountedUnits(LiveRows(a), Covering(a, t)) = {} /\ CountedUnits(LiveLines(a), PoolLines) = {}
      BY <3>1, <3>2 DEF CountedUnits
    <3>4. /\ Cardinality(CountedUnits(LiveRows(a), Covering(a, t))) = 0
          /\ Cardinality(CountedUnits(LiveLines(a), PoolLines)) = 0
      BY <3>3, FS_EmptySet
    <3> QED
      BY <3>4 DEF Live, PoolLines
  <2> QED
    BY <2>3, <2>4, <2>5 DEF PoolFits
<1>3. ASSUME NEW w \in Actors
      PROVE  CheckStands(job[w])
  BY IdleFits DEF Init, CheckStands
<1> QED
  BY <1>2, <1>3 DEF RInv

LEMMA NextFits ==
    ASSUME Pickups = {}, IInv, RInv, [Next]_vars
    PROVE  RInv'
<1>1. IInv'
  BY NextKeeps
<1>2. ASSUME NEW w \in Actors, Resume(w)
      PROVE  RInv'
  BY <1>1, <1>2, CheckFits, InsertFits, GoOnFits, CommitFits, CancelFits, EnterFits, ApplyFits,
     GateFits, OrderFits DEF Resume
<1>3. ASSUME NEW w \in Actors, NEW v \in Actors, Crash(w) \/ BreakDeadlock(w, v)
      PROVE  RInv'
  <2>1. /\ job' = [job EXCEPT ![w] = Idle]
        /\ UNCHANGED <<total, ledger, status, lineStatus, returned, booking, late>>
    BY <1>3 DEF Crash, BreakDeadlock, Rollback, Finish, stockVars
  <2>2. Falls
    BY <1>1, <2>1, StaysLive
  <2> HIDE DEF Falls
  <2> QED
    BY <1>1, <2>1, <2>2, EndFits
<1>4. CASE UNCHANGED vars
  <2>1. UNCHANGED <<total, ledger, status, lineStatus, returned, booking, late, job>>
    BY <1>4 DEF vars, invVars, bookingVars
  <2>2. Falls
    BY <1>1, <2>1, StaysLive
  <2> HIDE DEF Falls
  <2> QED
    BY <1>1, <2>1, <2>2, AloneFits
<1> QED
  BY <1>1, <1>2, <1>3, <1>4, BeginFits, ReleaseFits DEF Next

\* What is not late is live or counted as late.
LEMMA LiveOrLate ==
    ASSUME IInv, NEW a \in Assets, NEW S \in SUBSET Holders
    PROVE  /\ Booked(a, S) + SelfBooked(a) <= Live(a, S) + LateUnits(a)
           /\ Booked(a, S) \in Nat /\ SelfBooked(a) \in Nat /\ LateUnits(a) \in Nat
<1> DEFINE U == Units(a, S)
           V == CountedUnits(LiveRows(a), S)
           W == Units(a, late \cap Holders)
           X == OwedUnits(a, SelfBookings)
           Y == CountedUnits(LiveLines(a), PoolLines)
           Z == OwedUnits(a, late)
<1>1. ASSUME NEW H \in SUBSET Holders
      PROVE  IsFiniteSet(Units(a, H)) /\ Cardinality(Units(a, H)) \in Nat
  <2> DEFINE p == [g \in Holders |-> booking[g][a]]
  <2>1. \A g \in H : p[g] \in Nat
    BY DEF IInv, TypeOK, InvTypeOK
  <2>2. IsFiniteSet(H)
    BY HoldersFinite, FS_Subset
  <2>3. Units(a, H) = CountedUnits(p, H)
    BY DEF Units, CountedUnits
  <2> HIDE DEF p
  <2> QED
    BY <2>1, <2>2, <2>3, CountIsFinite
<1>2. ASSUME NEW B
      PROVE  IsFiniteSet(OwedUnits(a, B)) /\ Cardinality(OwedUnits(a, B)) \in Nat
  <2> DEFINE q == [x \in PoolLines |-> Owes(x[1], x[2])]
             L == {y \in LinesOn(a) : y[1] \in B}
  <2>1. L \in SUBSET PoolLines /\ IsFiniteSet(L)
    BY LinesFinite, FS_Subset DEF LinesOn, PoolLines
  <2>2. ASSUME NEW x \in PoolLines
        PROVE  q[x] \in Nat
    <3>1. PICK b \in SelfBookings, l \in Lines : x = <<b, l>>
      BY DEF PoolLines
    <3> QED
      BY <3>1, OwesType
  <2>3. OwedUnits(a, B) = CountedUnits(q, L)
    BY <2>1 DEF OwedUnits, CountedUnits
  <2> HIDE DEF q, L
  <2> QED
    BY <2>1, <2>2, <2>3, CountIsFinite
<1>3. IsFiniteSet(V) /\ IsFiniteSet(Y)
  <2> DEFINE m == LiveRows(a)
             n == LiveLines(a)
  <2>1. (\A h \in S : m[h] \in Nat) /\ (\A x \in PoolLines : n[x] \in Nat) /\ IsFiniteSet(S)
    BY LiveTypes, HoldersFinite, FS_Subset
  <2> HIDE DEF m, n
  <2>2. IsFiniteSet(CountedUnits(m, S)) /\ IsFiniteSet(CountedUnits(n, PoolLines))
    BY <2>1, LinesFinite, CountIsFinite
  <2> QED
    BY <2>2 DEF m, n
<1>4. U \subseteq V \cup W
  <2> SUFFICES ASSUME NEW h \in S, NEW i \in 1 .. booking[h][a]
               PROVE  <<h, i>> \in V \cup W
    BY DEF Units
  <2>1. CASE h \in late
    BY <2>1 DEF Units
  <2>2. CASE h \notin late
    <3>1. LiveRows(a)[h] = booking[h][a]
      BY <2>2 DEF LiveRows
    <3> QED
      BY <3>1 DEF CountedUnits
  <2> QED
    BY <2>1, <2>2
<1>5. X \subseteq Y \cup Z
  <2> SUFFICES ASSUME NEW x \in LinesOn(a), NEW i \in 1 .. Owes(x[1], x[2])
               PROVE  <<x, i>> \in Y \cup Z
    BY DEF OwedUnits
  <2>1. CASE x[1] \in late
    BY <2>1 DEF OwedUnits
  <2>2. CASE x[1] \notin late
    <3>1. x \in PoolLines /\ LiveLines(a)[x] = Owes(x[1], x[2])
      BY <2>2 DEF LiveLines, LinesOn, PoolLines
    <3> QED
      BY <3>1 DEF CountedUnits
  <2> QED
    BY <2>1, <2>2
<1>6. ASSUME NEW A, NEW B, NEW C, IsFiniteSet(B), IsFiniteSet(C), A \subseteq B \cup C
      PROVE  Cardinality(A) <= Cardinality(B) + Cardinality(C) /\ Cardinality(A) \in Nat
             /\ Cardinality(B) \in Nat /\ Cardinality(C) \in Nat
  <2>1. IsFiniteSet(B \cap C) /\ Cardinality(B \cap C) \in Nat
        /\ Cardinality(B) \in Nat /\ Cardinality(C) \in Nat
    BY <1>6, FS_Intersection, FS_CardinalityType
  <2>2. IsFiniteSet(B \cup C) /\ Cardinality(B \cup C) = Cardinality(B) + Cardinality(C) - Cardinality(B \cap C)
    BY <1>6, FS_Union
  <2>3. IsFiniteSet(A) /\ Cardinality(A) <= Cardinality(B \cup C) /\ Cardinality(A) \in Nat
    BY <1>6, <2>2, FS_Subset, FS_CardinalityType
  <2> QED
    BY <2>1, <2>2, <2>3
<1>7. /\ IsFiniteSet(W) /\ IsFiniteSet(Z)
      /\ Cardinality(U) \in Nat /\ Cardinality(X) \in Nat
  <2>1. late \cap Holders \in SUBSET Holders
    OBVIOUS
  <2> QED
    BY <1>1, <1>2, <2>1
<1>8. /\ Booked(a, S) = Cardinality(U) /\ SelfBooked(a) = Cardinality(X)
      /\ LateUnits(a) = Cardinality(W) + Cardinality(Z)
      /\ Live(a, S) = Cardinality(V) + Cardinality(Y)
  BY DEF Booked, SelfBooked, LateUnits, Live, PoolLines
<1> HIDE DEF U, V, W, X, Y, Z
<1>9. /\ Cardinality(U) <= Cardinality(V) + Cardinality(W)
      /\ Cardinality(V) \in Nat /\ Cardinality(W) \in Nat
  BY <1>3, <1>4, <1>6, <1>7
<1>10. /\ Cardinality(X) <= Cardinality(Y) + Cardinality(Z)
       /\ Cardinality(Y) \in Nat /\ Cardinality(Z) \in Nat
  BY <1>3, <1>5, <1>6, <1>7
<1> QED
  BY <1>7, <1>8, <1>9, <1>10

\* Where no self-pickup is admitted by the counter alone: however creates, scans,
\* cancels, adjustments and orders interleave, and wherever one dies, an asset is
\* short on no day by more than what is held on an outdated check, by a booking
\* with two lines of it or by a scan that reopened a line, and what adjustments
\* took (createSelfBooking, checkAvailability).
THEOREM ShortageExplained == Pickups = {} /\ Spec => []ShortOnlyByLateChecks
<1> SUFFICES ASSUME Pickups = {}
             PROVE  Spec => []ShortOnlyByLateChecks
  OBVIOUS
<1>1. IInv /\ RInv => ShortOnlyByLateChecks
  <2> SUFFICES ASSUME IInv, RInv, NEW a \in Assets, NEW t \in Days
               PROVE  Committed(a, t) + SelfBooked(a) <= total[a] + LateUnits(a) + ledger[a].out
    BY DEF ShortOnlyByLateChecks
  <2>1. Covering(a, t) \in SUBSET Holders
    BY DEF Covering
  <2>2. /\ Committed(a, t) + SelfBooked(a) <= Live(a, Covering(a, t)) + LateUnits(a)
        /\ Committed(a, t) \in Nat /\ SelfBooked(a) \in Nat /\ LateUnits(a) \in Nat
    BY <2>1, LiveOrLate DEF Committed
  <2>3. Live(a, Covering(a, t)) + Sum(ToTake(a)) <= total[a] + ledger[a].out
    BY DEF RInv, PoolFits
  <2>4. Live(a, Covering(a, t)) \in Nat
    BY <2>1, LiveType
  <2>5. Sum(ToTake(a)) \in Nat
    <3>1. \A v \in Actors : ToTake(a)[v] \in Nat
      BY WaitTypes DEF IInv, JobsFit, WaitType
    <3> QED
      BY <3>1, ActorsFinite, CountIsFinite DEF Sum
  <2>6. total[a] \in Nat /\ ledger[a].out \in Nat
    BY DEF IInv, TypeOK, InvTypeOK
  <2> QED
    BY <2>2, <2>3, <2>4, <2>5, <2>6
<1>2. Init => RInv
  BY InitFits
<1>3. IInv /\ RInv /\ [Next]_vars => RInv'
  BY NextFits
<1> QED
  BY <1>1, <1>2, <1>3, InitHolds, NextKeeps, PTL DEF Spec
==============================================================================
