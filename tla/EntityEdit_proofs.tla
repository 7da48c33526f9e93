-------------------------- MODULE EntityEdit_proofs --------------------------
(***************************************************************************)
(* Theorems about EntityEdit, for every set of entities, assets and        *)
(* handlers, every stock and every edit.                                   *)
(***************************************************************************)
EXTENDS EntityEdit, UnitCounting

------------------------------------------------------------------------------
(* The inductive invariant.                                                *)

Ops == {"idle", "edit", "release", "cancel", "drop", "quote", "approve"}
Steps == {"idle", "entity", "rows", "assets", "sum", "delete", "blocked", "released",
          "flip", "check", "confirm"}
Edits == [kind : Kinds, asset : Assets, qty : Nat \ {0}, window : Windows]
Jobs == [op : Ops, on : Entities \cup {Nobody}, step : Steps, change : Edits \cup {Nobody},
         draft : Contents \cup {Nobody}, sum : [Assets -> Nat], aim : SUBSET Assets,
         stale : BOOLEAN]

\* What a handler v with job j knows and holds: an edit has the entity from its
\* second step on, and the rows from its third; who deletes rows has them; who
\* has locked an asset is about to commit.
JobFits(v, j) ==
    /\ j \in Jobs
    /\ j.step # "idle" => j.on \in Entities /\ status[j.on] # "NONE"
    /\ j.op = "edit" /\ j.step = "entity" => j.change \in Edits
    /\ j.op = "edit" /\ j.step \in {"rows", "assets"} => j.draft \in Contents /\ entityLock[j.on] = v
    /\ j.step = "check" => j.draft \in Contents
    /\ j.step = "rows" => j.op = "edit"
    /\ j.op = "edit" => j.step \in {"entity", "rows", "assets"}
    /\ j.op = "edit" /\ j.step = "assets" => rowsLock[j.on] = v
    /\ j.op # "edit" /\ j.step = "assets" /\ j.aim # {} => rowsLock[j.on] = v
    /\ \A a \in Assets : assetLock[a] = v => j.step = "assets"

JobsFit == job \in [Actors -> Jobs] /\ \A v \in Actors : JobFits(v, job[v])

\* What an edit has checked still fits while it holds the asset.
CheckHolds(v) ==
    (job[v].op = "edit" /\ At(v, "assets")) =>
        \A a \in Risky(On(v), job[v].draft) : assetLock[a] = v => Fits(On(v), a, job[v].draft)
ChecksHold == \A v \in Actors : CheckHolds(v)

\* On no day, be it one that nobody books, is more of an asset promised to orders
\* than there is.
Orders(a, t) == Covering(a, t) \ Pickups
FitsOn(a, t) == Booked(a, Orders(a, t)) <= Stock[a]
NeverOver == \A a \in Assets, t \in Int : FitsOn(a, t)

IInv == TypeOK /\ JobsFit /\ ChecksHold /\ NeverOver

------------------------------------------------------------------------------
(* Counting booked units.                                                  *)

Quantity(r, a) == [e \in Entities |-> r[e][a].qty]

LEMMA BookedIsCount ==
    ASSUME NEW a \in Assets, NEW S \in SUBSET Entities
    PROVE  /\ Booked(a, S) = Cardinality(CountedUnits(Quantity(row, a), S))
           /\ Booked(a, S)' = Cardinality(CountedUnits(Quantity(row', a), S))
<1>1. Units(a, S) = CountedUnits(Quantity(row, a), S)
  BY DEF Units, CountedUnits, Quantity
<1>2. Units(a, S)' = CountedUnits(Quantity(row', a), S)
  BY DEF Units, CountedUnits, Quantity
<1> QED
  BY <1>1, <1>2 DEF Booked

\* The rows of a have at most gone.
Shrinks(a) == \A g \in Entities : row'[g][a] = row[g][a] \/ row'[g][a] = NoRow

LEMMA QuantityType ==
    ASSUME TypeOK, NEW a \in Assets, NEW g \in Entities
    PROVE  /\ Quantity(row, a)[g] = row[g][a].qty /\ row[g][a].qty \in Nat
           /\ row[g][a].from \in Int /\ row[g][a].until \in Int
BY DEF TypeOK, Quantity

\* A day that was not oversold is not when rows have gone.
LEMMA FitsAfterShrinking ==
    ASSUME TypeOK, TypeOK', NEW a \in Assets, NEW t \in Int, Shrinks(a), FitsOn(a, t)
    PROVE  FitsOn(a, t)'
<1> DEFINE m == Quantity(row', a)
           n == Quantity(row, a)
           S == Orders(a, t)'
           T == Orders(a, t)
<1>1. /\ S \in SUBSET Entities /\ T \in SUBSET Entities
      /\ IsFiniteSet(T) /\ IsFiniteSet(S)
  BY EntitiesFinite, FS_Subset DEF Orders, Covering
<1>2. \A g \in Entities : n[g] \in Nat /\ m[g] \in Nat
  BY DEF TypeOK, Quantity
<1>3. ASSUME NEW g \in S
      PROVE  g \in T /\ m[g] <= n[g]
  <2>1. g \in Entities /\ row'[g][a].qty > 0 /\ t \in row'[g][a].from .. row'[g][a].until
    BY DEF Orders, Covering
  <2>2. row'[g][a] = row[g][a]
    BY <2>1 DEF Shrinks, NoRow
  <2> QED
    BY <1>2, <2>1, <2>2 DEF Orders, Covering, Quantity
<1>4. Cardinality(CountedUnits(m, S)) <= Cardinality(CountedUnits(n, T))
  <2> HIDE DEF m, n, S, T
  <2> QED
    BY <1>1, <1>2, <1>3, CountIsMonotone
<1>5. Booked(a, Orders(a, t)) = Cardinality(CountedUnits(n, T))
  BY <1>1, BookedIsCount
<1>6. Booked(a, Orders(a, t))' = Cardinality(CountedUnits(m, S))
  BY DEF Booked, Units, CountedUnits, Quantity, Orders, Covering
<1>7. Cardinality(CountedUnits(m, S)) \in Nat /\ Cardinality(CountedUnits(n, T)) \in Nat
  <2> HIDE DEF m, n, S, T
  <2> QED
    BY <1>1, <1>2, CountIsFinite
<1>8. Stock[a] \in Nat
  BY StockType
<1> QED
  BY <1>4, <1>5, <1>6, <1>7, <1>8 DEF FitsOn

\* A row that fits leaves each of its days within the stock.
LEMMA NewRowFits ==
    ASSUME TypeOK, TypeOK', NEW a \in Assets, NEW t \in Int, NEW e \in Entities,
           NEW c \in Contents, Fits(e, a, c), row'[e][a] = RowsOf(c)[a],
           \A g \in Entities \ {e} : row'[g][a] = row[g][a], e \in Covering(a, t)'
    PROVE  Booked(a, Covering(a, t))' <= Stock[a]
<1> DEFINE m == Quantity(row', a)
           n == Quantity(row, a)
           S == Covering(a, t)'
           T == Rivals(e, a, c.window)
<1>1. /\ S \in SUBSET Entities /\ T \in SUBSET Entities /\ IsFiniteSet(T) /\ IsFiniteSet(S)
  BY EntitiesFinite, FS_Subset DEF Covering, Rivals
<1>2. \A g \in Entities : n[g] \in Nat /\ m[g] \in Nat
  BY DEF TypeOK, Quantity
<1>3. /\ c.items[a] \in Nat /\ c.window.from \in Int /\ c.window.until \in Int
  BY DEF Contents, Windows
<1>4. t \in c.window.from .. c.window.until /\ m[e] = c.items[a]
  BY <1>3 DEF Covering, RowsOf, NoRow, Quantity
<1>5. ASSUME NEW g \in S \ {e}
      PROVE  g \in T /\ m[g] <= n[g]
  <2>1. g \in Entities /\ row'[g][a] = row[g][a]
    BY <1>1
  <2>2. row[g][a].qty > 0 /\ t \in row[g][a].from .. row[g][a].until
    BY <2>1 DEF Covering
  <2>3. row[g][a].from \in Int /\ row[g][a].until \in Int
    BY <2>1, QuantityType
  <2>4. Overlaps(row[g][a], c.window)
    BY <1>3, <1>4, <2>2, <2>3 DEF Overlaps
  <2>5. m[g] <= n[g]
    BY <1>2, <2>1 DEF Quantity
  <2> QED
    BY <2>1, <2>4, <2>5 DEF Rivals
<1>6. Cardinality(CountedUnits(m, S)) <= Cardinality(CountedUnits(n, T)) + m[e]
  <2> HIDE DEF m, n, S, T
  <2> QED
    BY <1>1, <1>2, <1>5, CountWithOne
<1>7. Booked(a, Rivals(e, a, c.window)) = Cardinality(CountedUnits(n, T))
  BY <1>1, BookedIsCount
<1>8. Booked(a, Covering(a, t))' = Cardinality(CountedUnits(m, S))
  BY DEF Booked, Units, CountedUnits, Quantity, Covering
<1>9. Cardinality(CountedUnits(m, S)) \in Nat /\ Cardinality(CountedUnits(n, T)) \in Nat
  <2> HIDE DEF m, n, S, T
  <2> QED
    BY <1>1, <1>2, CountIsFinite
<1>10. Stock[a] \in Nat
  BY StockType
<1> QED
  BY <1>3, <1>4, <1>6, <1>7, <1>8, <1>9, <1>10 DEF Fits

\* Nor when the row of e is one that fits, or one of a self-pickup.
LEMMA FitsAfterBooking ==
    ASSUME TypeOK, TypeOK', NEW a \in Assets, NEW t \in Int, NEW e \in Entities,
           NEW c \in Contents, e \notin Pickups => Fits(e, a, c), FitsOn(a, t),
           row'[e][a] = RowsOf(c)[a], \A g \in Entities \ {e} : row'[g][a] = row[g][a]
    PROVE  FitsOn(a, t)'
<1> DEFINE m == Quantity(row', a)
           n == Quantity(row, a)
           S == Orders(a, t)'
           T == Rivals(e, a, c.window)
<1>1. CASE e \notin S
  <2> DEFINE C == Orders(a, t)
  <2>1. /\ S \in SUBSET Entities /\ C \in SUBSET Entities /\ IsFiniteSet(C) /\ IsFiniteSet(S)
    BY EntitiesFinite, FS_Subset DEF Orders, Covering
  <2>2. \A g \in Entities : n[g] \in Nat /\ m[g] \in Nat
    BY DEF TypeOK, Quantity
  <2>3. \A g \in S : g \in C /\ m[g] <= n[g]
    BY <1>1, <2>2 DEF Orders, Covering, Quantity
  <2>4. Cardinality(CountedUnits(m, S)) <= Cardinality(CountedUnits(n, C))
    <3> HIDE DEF m, n, S, C
    <3> QED
      BY <2>1, <2>2, <2>3, CountIsMonotone
  <2>5. Booked(a, Orders(a, t)) = Cardinality(CountedUnits(n, C))
    BY <2>1, BookedIsCount
  <2>6. Booked(a, Orders(a, t))' = Cardinality(CountedUnits(m, S))
    BY DEF Booked, Units, CountedUnits, Quantity, Orders, Covering
  <2>7. Cardinality(CountedUnits(m, S)) \in Nat /\ Cardinality(CountedUnits(n, C)) \in Nat
    <3> HIDE DEF m, n, S, C
    <3> QED
      BY <2>1, <2>2, CountIsFinite
  <2>8. Stock[a] \in Nat
    BY StockType
  <2> QED
    BY <2>4, <2>5, <2>6, <2>7, <2>8 DEF FitsOn
<1>2. CASE e \in S
  <2> DEFINE C == Covering(a, t)'
  <2>1. /\ S \in SUBSET Entities /\ C \in SUBSET Entities /\ S \subseteq C
        /\ IsFiniteSet(C) /\ IsFiniteSet(S)
    BY EntitiesFinite, FS_Subset DEF Orders, Covering
  <2>2. \A g \in Entities : m[g] \in Nat
    BY DEF TypeOK, Quantity
  <2>3. Cardinality(CountedUnits(m, S)) <= Cardinality(CountedUnits(m, C))
    <3> HIDE DEF m, n, S, T, C
    <3> QED
      BY <2>1, <2>2, CountIsMonotone
  <2>4. Cardinality(CountedUnits(m, S)) \in Nat /\ Cardinality(CountedUnits(m, C)) \in Nat
    <3> HIDE DEF m, n, S, T, C
    <3> QED
      BY <2>1, <2>2, CountIsFinite
  <2>5. Booked(a, Covering(a, t))' = Cardinality(CountedUnits(m, C))
    BY DEF Booked, Units, CountedUnits, Quantity, Covering
  <2>6. Booked(a, Orders(a, t))' = Cardinality(CountedUnits(m, S))
    BY DEF Booked, Units, CountedUnits, Quantity, Orders, Covering
  <2>7. Booked(a, Covering(a, t))' <= Stock[a]
    BY <1>2, NewRowFits DEF Orders
  <2>8. Stock[a] \in Nat
    BY StockType
  <2> QED
    BY <2>3, <2>4, <2>5, <2>6, <2>7, <2>8 DEF FitsOn
<1> QED
  BY <1>1, <1>2

\* Nor when the row of e has shrunk on its days.
LEMMA FitsAfterLess ==
    ASSUME TypeOK, TypeOK', NEW a \in Assets, NEW t \in Int, NEW e \in Entities, FitsOn(a, t),
           row'[e][a].qty <= row[e][a].qty, row'[e][a].from = row[e][a].from,
           row'[e][a].until = row[e][a].until,
           \A g \in Entities \ {e} : row'[g][a] = row[g][a]
    PROVE  FitsOn(a, t)'
<1> DEFINE m == Quantity(row', a)
           n == Quantity(row, a)
           S == Orders(a, t)'
           T == Orders(a, t)
<1>1. /\ S \in SUBSET Entities /\ T \in SUBSET Entities
      /\ IsFiniteSet(T) /\ IsFiniteSet(S)
  BY EntitiesFinite, FS_Subset DEF Orders, Covering
<1>2. \A g \in Entities : n[g] \in Nat /\ m[g] \in Nat /\ m[g] = row'[g][a].qty /\ n[g] = row[g][a].qty
  BY DEF TypeOK, Quantity
<1>3. ASSUME NEW g \in S
      PROVE  g \in T /\ m[g] <= n[g]
  <2>1. g \in Entities /\ row'[g][a].qty > 0 /\ t \in row'[g][a].from .. row'[g][a].until
    BY DEF Orders, Covering
  <2>2. row'[g][a].qty <= row[g][a].qty /\ t \in row[g][a].from .. row[g][a].until
    BY <1>2, <2>1
  <2>3. row[g][a].qty > 0
    BY <1>2, <2>1, <2>2
  <2>4. g \in T
    BY <2>1, <2>2, <2>3 DEF Orders, Covering
  <2> QED
    BY <1>2, <2>1, <2>2, <2>4
<1>4. Cardinality(CountedUnits(m, S)) <= Cardinality(CountedUnits(n, T))
  <2> HIDE DEF m, n, S, T
  <2> QED
    BY <1>1, <1>2, <1>3, CountIsMonotone
<1>5. Booked(a, Orders(a, t)) = Cardinality(CountedUnits(n, T))
  BY <1>1, BookedIsCount
<1>6. Booked(a, Orders(a, t))' = Cardinality(CountedUnits(m, S))
  BY DEF Booked, Units, CountedUnits, Quantity, Orders, Covering
<1>7. Cardinality(CountedUnits(m, S)) \in Nat /\ Cardinality(CountedUnits(n, T)) \in Nat
  <2> HIDE DEF m, n, S, T
  <2> QED
    BY <1>1, <1>2, CountIsFinite
<1>8. Stock[a] \in Nat
  BY StockType
<1> QED
  BY <1>4, <1>5, <1>6, <1>7, <1>8 DEF FitsOn

\* What fits still fits when rows of others have gone.
LEMMA CheckAfterShrinking ==
    ASSUME TypeOK, TypeOK', NEW a \in Assets, NEW e \in Entities, NEW c \in Contents,
           Shrinks(a), Fits(e, a, c)
    PROVE  Fits(e, a, c)'
<1> DEFINE m == Quantity(row', a)
           n == Quantity(row, a)
           S == Rivals(e, a, c.window)'
           T == Rivals(e, a, c.window)
<1>1. /\ S \in SUBSET Entities /\ T \in SUBSET Entities
      /\ IsFiniteSet(T) /\ IsFiniteSet(S)
  BY EntitiesFinite, FS_Subset DEF Rivals
<1>2. \A g \in Entities : n[g] \in Nat /\ m[g] \in Nat
  BY DEF TypeOK, Quantity
<1>3. ASSUME NEW g \in S
      PROVE  g \in T /\ m[g] <= n[g]
  <2>1. g \in Entities \ {e} /\ Overlaps(row'[g][a], c.window)
    BY DEF Rivals
  <2>2. row'[g][a] = row[g][a]
    BY <2>1 DEF Shrinks, NoRow, Overlaps
  <2> QED
    BY <1>2, <2>1, <2>2 DEF Rivals, Quantity
<1>4. Cardinality(CountedUnits(m, S)) <= Cardinality(CountedUnits(n, T))
  <2> HIDE DEF m, n, S, T
  <2> QED
    BY <1>1, <1>2, <1>3, CountIsMonotone
<1>5. Booked(a, Rivals(e, a, c.window)) = Cardinality(CountedUnits(n, T))
  BY <1>1, BookedIsCount
<1>6. Booked(a, Rivals(e, a, c.window))' = Cardinality(CountedUnits(m, S))
  BY DEF Booked, Units, CountedUnits, Quantity, Rivals
<1>7. Cardinality(CountedUnits(m, S)) \in Nat /\ Cardinality(CountedUnits(n, T)) \in Nat
  <2> HIDE DEF m, n, S, T
  <2> QED
    BY <1>1, <1>2, CountIsFinite
<1>8. Stock[a] \in Nat /\ c.items[a] \in Nat
  BY StockType DEF Contents
<1> QED
  BY <1>4, <1>5, <1>6, <1>7, <1>8 DEF Fits

------------------------------------------------------------------------------
(* What a step of one handler leaves of another.                           *)

\* v goes on as before: nothing but its deletion may have lost its aim, and no
\* lock of it is gone or new.
Keeps(v) ==
    /\ job'[v] \in Jobs
    /\ job'[v].op = job[v].op /\ job'[v].on = job[v].on /\ job'[v].step = job[v].step
    /\ job'[v].change = job[v].change /\ job'[v].draft = job[v].draft
    /\ job'[v].aim \subseteq job[v].aim
    /\ \A e \in Entities : entityLock[e] = v => entityLock'[e] = v
    /\ \A e \in Entities : rowsLock[e] = v => rowsLock'[e] = v
    /\ \A a \in Assets : assetLock'[a] = v => assetLock[a] = v

\* The rows that an edit of v has checked are as they were, and nobody has
\* booked more of the assets it has locked.
KeepsRows(v) ==
    /\ (job[v].op = "edit" /\ At(v, "assets")) => row'[On(v)] = row[On(v)]
    /\ \A a \in Assets : assetLock[a] = v => Shrinks(a)

StaysLive == \A e \in Entities : status[e] # "NONE" => status'[e] # "NONE"

LEMMA OtherFits ==
    ASSUME JobsFit, StaysLive, NEW v \in Actors, Keeps(v)
    PROVE  JobFits(v, job[v])'
<1>1. JobFits(v, job[v])
  BY DEF JobsFit
<1>2. job[v] \in Jobs /\ job'[v] \in Jobs
  BY <1>1 DEF JobFits, Keeps
<1> QED
  BY <1>1, <1>2 DEF JobFits, Keeps, StaysLive

LEMMA OtherChecks ==
    ASSUME TypeOK, TypeOK', JobsFit, ChecksHold, NEW v \in Actors, Keeps(v), KeepsRows(v)
    PROVE  CheckHolds(v)'
<1> SUFFICES ASSUME job'[v].op = "edit", job'[v].step = "assets",
                    NEW a \in Risky(On(v), job[v].draft)', assetLock'[a] = v
             PROVE  Fits(On(v), a, job[v].draft)'
  BY DEF CheckHolds, At
<1>0. /\ job[v].op = "edit" /\ At(v, "assets")
      /\ job[v].on \in Entities /\ job[v].draft \in Contents
      /\ job'[v].on = job[v].on /\ job'[v].draft = job[v].draft
  <2>1. job'[v].on = job[v].on /\ job'[v].draft = job[v].draft /\ job[v].op = "edit" /\ At(v, "assets")
    BY DEF Keeps, At
  <2>2. JobFits(v, job[v])
    BY DEF JobsFit
  <2> QED
    BY <2>1, <2>2 DEF JobFits, At
<1>1. PICK e \in Entities, c \in Contents :
        /\ job[v].on = e /\ job[v].draft = c /\ job'[v].on = e /\ job'[v].draft = c
  BY <1>0
<1>2. row'[e] = row[e]
  BY <1>0, <1>1 DEF KeepsRows, On
<1>3. a \in Assets /\ a \in Risky(e, c)
  BY <1>1, <1>2 DEF Risky, ItemsOf, RowsOf, On
<1>4. assetLock[a] = v
  BY <1>3 DEF Keeps
<1>5. Fits(e, a, c) /\ Shrinks(a)
  BY <1>0, <1>1, <1>3, <1>4 DEF ChecksHold, CheckHolds, KeepsRows, On
<1>6. Fits(e, a, c)'
  BY <1>3, <1>5, CheckAfterShrinking
<1> QED
  BY <1>1, <1>6 DEF On, Fits, Booked, Units, Rivals

\* A step of w that keeps the others and does its own part keeps the invariant.
LEMMA StepKeeps ==
    ASSUME IInv, TypeOK', job' \in [Actors -> Jobs], StaysLive, NEW w \in Actors, NeverOver',
           \A v \in Actors \ {w} : Keeps(v) /\ KeepsRows(v),
           JobFits(w, job[w])', CheckHolds(w)'
    PROVE  IInv'
<1>1. ASSUME NEW v \in Actors
      PROVE  JobFits(v, job[v])' /\ CheckHolds(v)'
  BY <1>1, OtherFits, OtherChecks DEF IInv
<1> QED
  BY <1>1 DEF IInv, JobsFit, ChecksHold

LEMMA RowsUnchanged ==
    ASSUME IInv, TypeOK', UNCHANGED row
    PROVE  NeverOver' /\ \A v : KeepsRows(v)
<1>1. \A a \in Assets : Shrinks(a)
  BY DEF Shrinks
<1>2. ASSUME NEW a \in Assets, NEW t \in Int
      PROVE  FitsOn(a, t)'
  BY <1>1, FitsAfterShrinking DEF IInv, NeverOver
<1> QED
  BY <1>1, <1>2 DEF NeverOver, KeepsRows

\* COMMIT and ROLLBACK leave w without locks, and take none from others.
LEMMA FreeLocksFacts ==
    ASSUME TypeOK, NEW w \in Actors, FreeLocks(w)
    PROVE  /\ entityLock' \in [Entities -> Actors \cup {Nobody}]
           /\ rowsLock' \in [Entities -> Actors \cup {Nobody}]
           /\ assetLock' \in [Assets -> Actors \cup {Nobody}]
           /\ \A a \in Assets : assetLock'[a] # w
           /\ \A v \in Actors \ {w} :
                /\ \A e \in Entities : entityLock[e] = v => entityLock'[e] = v
                /\ \A e \in Entities : rowsLock[e] = v => rowsLock'[e] = v
                /\ \A a \in Assets : assetLock'[a] = v => assetLock[a] = v
BY NobodyType DEF FreeLocks, TypeOK

LEMMA IdleFacts ==
    /\ Idle \in Jobs /\ Idle.step = "idle" /\ Idle.op = "idle" /\ Idle.aim = {}
BY DEF Idle, Jobs, Ops, Steps

\* A handler that is idle and holds no asset fits.
LEMMA IdleFits ==
    ASSUME NEW w \in Actors, job'[w] = Idle, \A a \in Assets : assetLock'[a] # w
    PROVE  JobFits(w, job[w])' /\ CheckHolds(w)'
BY IdleFacts DEF JobFits, CheckHolds, At

\* Being overtaken changes no more of a job than that.
LEMMA OvertakeFacts ==
    ASSUME JobsFit, NEW w \in Actors, NEW e, NEW S, NEW v \in Actors \ {w}
    PROVE  LET j == Overtake(w, e, S)[v] IN
           /\ j \in Jobs /\ j.op = job[v].op /\ j.on = job[v].on /\ j.step = job[v].step
           /\ j.change = job[v].change /\ j.draft = job[v].draft /\ j.aim \subseteq job[v].aim
<1>1. job[v] \in Jobs
  BY DEF JobsFit, JobFits
<1>2. job[v].aim \ S \in SUBSET Assets
  BY <1>1 DEF Jobs
<1>3. CASE job[v].on = e /\ job[v].op # "edit"
  <2>1. Overtake(w, e, S)[v] = [job[v] EXCEPT !.stale = TRUE, !.aim = job[v].aim \ S]
    BY <1>1, <1>3 DEF Overtake, Jobs
  <2> QED
    BY <1>1, <1>2, <2>1 DEF Jobs
<1>4. CASE ~(job[v].on = e /\ job[v].op # "edit")
  <2>1. Overtake(w, e, S)[v] = job[v]
    BY <1>4 DEF Overtake
  <2> QED
    BY <1>1, <2>1
<1> QED
  BY <1>3, <1>4

LEMMA AvailAfterType ==
    ASSUME TypeOK, NEW old \in [Assets -> Nat], NEW new \in [Assets -> Nat]
    PROVE  AvailAfter(old, new) \in [Assets -> Nat]
<1>1. ASSUME NEW a \in Assets
      PROVE  AvailAfter(old, new)[a] \in Nat
  <2>1. avail[a] \in Nat /\ Stock[a] \in Nat /\ Net(old, new, a) \in Int
    BY StockType DEF TypeOK, Net
  <2>2. avail[a] + Net(old, new, a) \in Int
    BY <2>1
  <2>3. Clamped(a, avail[a] + Net(old, new, a)) \in Nat
    BY <2>1, <2>2 DEF Clamped, AtMost
  <2> QED
    BY <2>1, <2>3 DEF AvailAfter
<1> QED
  BY <1>1 DEF AvailAfter

LEMMA RowsOfType ==
    ASSUME NEW c \in Contents
    PROVE  /\ RowsOf(c) \in [Assets -> [qty : Nat, from : Int, until : Int]]
           /\ c.items \in [Assets -> Nat]
           /\ \A a \in Assets : c.items[a] = 0 => RowsOf(c)[a] = NoRow
           /\ \A a \in Assets : RowsOf(c)[a].qty = c.items[a]
BY DEF RowsOf, Contents, Windows, NoRow

LEMMA HeldType ==
    ASSUME TypeOK, NEW e \in Entities
    PROVE  Held(e) \in [Assets -> Nat] /\ Nothing \in [Assets -> Nat]
BY DEF TypeOK, Held, Nothing

------------------------------------------------------------------------------
(* Steps that leave the booking rows alone.                                *)

OtherLocks(w) == \A v \in Actors \ {w} :
    /\ \A e \in Entities : entityLock[e] = v => entityLock'[e] = v
    /\ \A e \in Entities : rowsLock[e] = v => rowsLock'[e] = v
    /\ \A a \in Assets : assetLock'[a] = v => assetLock[a] = v

\* Only the job of w changes.
LEMMA OneJobKeeps ==
    ASSUME JobsFit, NEW w \in Actors, NEW r \in Jobs, job' = [job EXCEPT ![w] = r], OtherLocks(w)
    PROVE  /\ job' \in [Actors -> Jobs] /\ job'[w] = r
           /\ \A v \in Actors \ {w} : Keeps(v)
BY DEF JobsFit, OtherLocks, Keeps

\* w is done, and the others on e have been overtaken.
LEMMA OvertakeKeeps ==
    ASSUME JobsFit, NEW w \in Actors, NEW e, NEW S, job' = Overtake(w, e, S), OtherLocks(w)
    PROVE  /\ job' \in [Actors -> Jobs] /\ job'[w] = Idle
           /\ \A v \in Actors \ {w} : Keeps(v)
<1>1. ASSUME NEW v \in Actors \ {w}
      PROVE  Keeps(v)
  BY OvertakeFacts DEF OtherLocks, Keeps
<1>2. job'[w] = Idle
  BY DEF Overtake
<1>3. \A v \in Actors : job'[v] \in Jobs
  BY <1>1, <1>2, IdleFacts DEF Keeps
<1>4. job' = [v \in Actors |-> job'[v]]
  BY DEF Overtake
<1> QED
  BY <1>1, <1>2, <1>3, <1>4

LEMMA QuietStep ==
    ASSUME IInv, TypeOK', NEW w \in Actors, UNCHANGED <<status, row>>,
           job' \in [Actors -> Jobs], \A v \in Actors \ {w} : Keeps(v),
           JobFits(w, job[w])', CheckHolds(w)'
    PROVE  IInv'
<1>1. NeverOver' /\ \A v : KeepsRows(v)
  BY RowsUnchanged
<1>2. StaysLive
  BY DEF StaysLive
<1> QED
  BY <1>1, <1>2, StepKeeps

LEMMA BeginKeeps ==
    ASSUME IInv, NEW w \in Actors, NEW e \in Entities, BeginAny(w, e)
    PROVE  IInv'
<1>1. ASSUME NEW j \in Jobs, j.on = e, status[e] # "NONE", j.step \notin {"rows", "assets"},
             j.op = "edit" => j.change \in Edits /\ j.step = "entity", j.step = "check" => j.draft \in Contents,
             Begin(w, j)
      PROVE  IInv'
  <2>1. TypeOK' /\ UNCHANGED <<status, row, entityLock, rowsLock, assetLock>>
    BY <1>1 DEF Begin, locks, IInv, TypeOK
  <2>2. /\ job' \in [Actors -> Jobs] /\ job'[w] = j /\ \A v \in Actors \ {w} : Keeps(v)
    <3>1. OtherLocks(w) /\ job' = [job EXCEPT ![w] = j]
      BY <1>1, <2>1 DEF OtherLocks, Begin
    <3> QED
      BY <3>1, OneJobKeeps DEF IInv
  <2>3. \A a \in Assets : assetLock[a] # w
    BY <1>1, IdleFacts DEF Begin, IInv, JobsFit, JobFits
  <2>4. JobFits(w, job[w])' /\ CheckHolds(w)'
    BY <1>1, <2>1, <2>2, <2>3 DEF JobFits, CheckHolds, At
  <2> QED
    BY <2>1, <2>2, <2>4, QuietStep
<1>2. Holding \cup EditableBand \subseteq Statuses \ {"NONE"} /\ "QUOTED" # "NONE"
  BY DEF Holding, EditableBand, Statuses
<1>3. ASSUME NEW op \in Ops, NEW step \in Steps
      PROVE  LET j == JobFor(op, e, step) IN
             /\ j \in Jobs /\ j.on = e /\ j.op = op /\ j.step = step
  <2>1. Idle \in Jobs
    BY IdleFacts
  <2> QED
    BY <2>1 DEF JobFor, Jobs
<1>4. CASE \E change \in Changes[e] : BeginEdit(w, e, change)
  <2>1. PICK change \in Changes[e] : BeginEdit(w, e, change)
    BY <1>4
  <2>2. change \in Edits
    BY ChangesType DEF Edits
  <2> DEFINE j == [JobFor("edit", e, "entity") EXCEPT !.change = change]
  <2>3. /\ j \in Jobs /\ j.on = e /\ j.step = "entity" /\ j.change = change
    <3>1. "edit" \in Ops /\ "entity" \in Steps
      BY DEF Ops, Steps
    <3>2. PICK k \in Jobs : k = JobFor("edit", e, "entity") /\ k.on = e /\ k.step = "entity"
      BY <1>3, <3>1
    <3> QED
      BY <2>2, <3>2 DEF Jobs
  <2>4. Begin(w, j) /\ status[e] # "NONE"
    BY <1>2, <2>1 DEF BeginEdit
  <2> HIDE DEF j
  <2> QED
    BY <1>1, <2>2, <2>3, <2>4
<1>5. CASE BeginRelease(w, e) \/ BeginCancel(w, e) \/ BeginQuote(w, e)
  <2>1. ASSUME NEW op \in Ops \ {"edit"}, NEW step \in Steps \ {"rows", "assets", "check"},
               Begin(w, JobFor(op, e, step)), status[e] # "NONE"
        PROVE  IInv'
    <3> DEFINE j == JobFor(op, e, step)
    <3>1. j \in Jobs /\ j.on = e /\ j.op = op /\ j.step = step
      BY <1>3
    <3>2. Begin(w, j)
      BY <2>1
    <3> HIDE DEF j
    <3> QED
      BY <1>1, <2>1, <3>1, <3>2
  <2>2. /\ {"release", "drop", "cancel", "quote"} \subseteq Ops \ {"edit"}
        /\ {"sum", "entity", "flip"} \subseteq Steps \ {"rows", "assets", "check"}
    BY DEF Ops, Steps
  <2>3. status[e] # "NONE"
    BY <1>2, <1>5 DEF BeginRelease, BeginCancel, BeginQuote
  <2>4. CASE BeginRelease(w, e)
    BY <2>1, <2>2, <2>3, <2>4 DEF BeginRelease
  <2>5. CASE BeginCancel(w, e)
    BY <2>1, <2>2, <2>3, <2>5 DEF BeginCancel
  <2>6. CASE BeginQuote(w, e)
    BY <2>1, <2>2, <2>3, <2>6 DEF BeginQuote
  <2> QED
    BY <1>5, <2>4, <2>5, <2>6
<1>6. CASE BeginApprove(w, e)
  <2>1. PICK c \in Contents : c = content[e]
    BY DEF IInv, TypeOK
  <2>2. PICK step \in {"confirm", "check"} : step = IF e \in Pickups THEN "confirm" ELSE "check"
    OBVIOUS
  <2> DEFINE j == [JobFor("approve", e, step) EXCEPT !.draft = c]
  <2>3. /\ j \in Jobs /\ j.on = e /\ j.step = step /\ j.draft = c /\ j.op = "approve"
    <3>1. "approve" \in Ops /\ step \in Steps
      BY <2>2 DEF Ops, Steps
    <3>2. PICK k \in Jobs : /\ k = JobFor("approve", e, step) /\ k.on = e /\ k.step = step
                            /\ k.op = "approve"
      BY <1>3, <3>1
    <3> QED
      BY <3>2 DEF Jobs
  <2>4. Begin(w, j) /\ status[e] # "NONE"
    BY <1>6, <2>1, <2>2 DEF BeginApprove
  <2> HIDE DEF j
  <2> QED
    BY <1>1, <2>2, <2>3, <2>4
<1> QED
  BY <1>4, <1>5, <1>6 DEF BeginAny

\* A crash, a deadlock or a refused edit leaves nothing behind.
LEMMA EndKeeps ==
    ASSUME IInv, NEW w \in Actors, job' = [job EXCEPT ![w] = Idle], FreeLocks(w),
           UNCHANGED <<status, content, row, avail>>
    PROVE  IInv'
<1>1. TypeOK' /\ OtherLocks(w) /\ \A a \in Assets : assetLock'[a] # w
  BY FreeLocksFacts DEF IInv, TypeOK, OtherLocks
<1>2. /\ job' \in [Actors -> Jobs] /\ job'[w] = Idle /\ \A v \in Actors \ {w} : Keeps(v)
  BY <1>1, IdleFacts, OneJobKeeps DEF IInv
<1> QED
  BY <1>1, <1>2, IdleFits, QuietStep

\* The lock steps of an edit and of a cancel.
LEMMA LockKeeps ==
    ASSUME IInv, NEW w \in Actors, LockForEdit(w) \/ LockForCancel(w) \/ LockRows(w)
    PROVE  IInv'
<1>1. /\ JobFits(w, job[w]) /\ job[w] \in Jobs /\ job \in [Actors -> Jobs]
      /\ \A a \in Assets : assetLock[a] = w => At(w, "assets")
  BY DEF IInv, JobsFit, JobFits, At
<1>2. w # Nobody
  BY NobodyType
<1>3. CASE LockForEdit(w)
  <2> DEFINE e == On(w)
  <2>1. /\ At(w, "entity") /\ job[w].op = "edit" /\ entityLock[e] = Nobody
        /\ UNCHANGED <<status, content, row, avail, rowsLock, assetLock>>
        /\ e \in Entities /\ status[e] # "NONE" /\ job[w].change \in Edits
    BY <1>1, <1>3 DEF LockForEdit, JobFits, At, On
  <2>2. \A a \in Assets : assetLock'[a] # w
    BY <1>1, <2>1 DEF At
  <2>3. CASE ~(Editable(e) /\ Applies(content[e], job[w].change))
    <3>1. job' = [job EXCEPT ![w] = Idle] /\ UNCHANGED entityLock
      BY <1>3, <2>3 DEF LockForEdit
    <3>2. TypeOK' /\ OtherLocks(w)
      BY <2>1, <3>1 DEF IInv, TypeOK, OtherLocks
    <3>3. job' \in [Actors -> Jobs] /\ job'[w] = Idle /\ \A v \in Actors \ {w} : Keeps(v)
      BY <3>1, <3>2, IdleFacts, OneJobKeeps DEF IInv
    <3> QED
      BY <2>1, <2>2, <3>2, <3>3, IdleFits, QuietStep
  <2>4. CASE Editable(e) /\ Applies(content[e], job[w].change)
    <3> DEFINE d == Edited(content[e], job[w].change)
               r == [job[w] EXCEPT !.step = "rows", !.draft = d]
    <3>1. entityLock' = [entityLock EXCEPT ![e] = w]
      BY <1>3, <2>4 DEF LockForEdit
    <3>2. job' = [job EXCEPT ![w] = r]
      BY <1>1, <1>3, <2>4 DEF LockForEdit
    <3>3. d \in Contents
      <4>1. PICK c \in Contents : c = content[e]
        BY <2>1 DEF IInv, TypeOK
      <4>2. PICK ch \in Edits : ch = job[w].change
        BY <2>1
      <4>3. Edited(c, ch) \in Contents
        <5>1. /\ ch.asset \in Assets /\ ch.qty \in Nat /\ ch.window \in Windows
              /\ ch.kind \in {"UPDATE", "ADD", "REMOVE", "MOVE"}
              /\ c.items \in [Assets -> Nat] /\ c.window \in Windows
          BY DEF Edits, Contents, Kinds
        <5>2. [c EXCEPT !.window = ch.window] \in Contents
          BY <5>1 DEF Contents
        <5>3. ASSUME NEW n \in Nat
              PROVE  [c EXCEPT !.items[ch.asset] = n] \in Contents
          BY <5>1 DEF Contents
        <5>4. c.items[ch.asset] + ch.qty \in Nat /\ 0 \in Nat
          BY <5>1
        <5> QED
          BY <5>1, <5>2, <5>3, <5>4 DEF Edited
      <4> QED
        BY <4>1, <4>2, <4>3
    <3>4. r \in Jobs /\ r.on = e /\ r.op = "edit" /\ r.step = "rows" /\ r.draft = d
      <4> HIDE DEF d
      <4> QED
        BY <1>1, <2>1, <3>3 DEF Jobs, Steps, On
    <3>5. TypeOK' /\ OtherLocks(w)
      BY <1>2, <2>1, <3>1, NobodyType DEF IInv, TypeOK, OtherLocks
    <3>6. /\ job' \in [Actors -> Jobs] /\ job'[w] = r
          /\ \A v \in Actors \ {w} : Keeps(v)
      <4> HIDE DEF r
      <4> QED
        BY <3>2, <3>4, <3>5, OneJobKeeps DEF IInv
    <3>7. entityLock'[e] = w
      BY <2>1, <3>1 DEF IInv, TypeOK
    <3>8. JobFits(w, job[w])' /\ CheckHolds(w)'
      <4> HIDE DEF r, d
      <4>1. job'[w].on \in Entities /\ status'[job'[w].on] # "NONE"
            /\ entityLock'[job'[w].on] = w
        BY <2>1, <3>4, <3>6, <3>7
      <4> QED
        BY <2>2, <3>3, <3>4, <3>6, <4>1 DEF JobFits, CheckHolds, At
    <3> QED
      BY <2>1, <3>5, <3>6, <3>8, QuietStep
  <2> QED
    BY <2>3, <2>4
<1>4. CASE LockForCancel(w)
  <2> DEFINE e == On(w)
             r == [job[w] EXCEPT !.step = "sum"]
  <2>1. /\ At(w, "entity") /\ job[w].op = "cancel" /\ entityLock[e] = Nobody
        /\ UNCHANGED <<status, content, row, avail, rowsLock, assetLock>>
        /\ e \in Entities /\ status[e] # "NONE"
        /\ entityLock' = [entityLock EXCEPT ![e] = w]
        /\ job' = [job EXCEPT ![w] = r]
    BY <1>1, <1>4 DEF LockForCancel, JobFits, At, On, GoTo
  <2>2. r \in Jobs /\ r.on = e /\ r.op = "cancel" /\ r.step = "sum"
    BY <1>1, <2>1 DEF Jobs, Steps, On
  <2>3. TypeOK' /\ OtherLocks(w)
    BY <1>2, <2>1, NobodyType DEF IInv, TypeOK, OtherLocks
  <2>4. job' \in [Actors -> Jobs] /\ job'[w] = r /\ \A v \in Actors \ {w} : Keeps(v)
    <3> HIDE DEF r
    <3> QED
      BY <2>1, <2>2, <2>3, OneJobKeeps DEF IInv
  <2>5. JobFits(w, job[w])' /\ CheckHolds(w)'
    <3> HIDE DEF r
    <3> QED
      BY <1>1, <2>1, <2>2, <2>4 DEF JobFits, CheckHolds, At
  <2> QED
    BY <2>1, <2>3, <2>4, <2>5, QuietStep
<1>5. CASE LockRows(w)
  <2> DEFINE e == On(w)
             r == [job[w] EXCEPT !.step = "assets"]
  <2>1. /\ At(w, "rows") /\ rowsLock[e] = Nobody
        /\ UNCHANGED <<status, content, row, avail, entityLock, assetLock>>
        /\ e \in Entities /\ status[e] # "NONE"
        /\ rowsLock' = [rowsLock EXCEPT ![e] = w]
        /\ job' = [job EXCEPT ![w] = r]
    BY <1>1, <1>5 DEF LockRows, JobFits, At, On, GoTo
  <2>2. /\ r \in Jobs /\ r.on = e /\ r.op = job[w].op /\ r.step = "assets"
        /\ r.draft = job[w].draft
    BY <1>1, <2>1 DEF Jobs, Steps, On
  <2>3. TypeOK' /\ OtherLocks(w)
    BY <1>2, <2>1, NobodyType DEF IInv, TypeOK, OtherLocks
  <2>4. job' \in [Actors -> Jobs] /\ job'[w] = r /\ \A v \in Actors \ {w} : Keeps(v)
    <3> HIDE DEF r
    <3> QED
      BY <2>1, <2>2, <2>3, OneJobKeeps DEF IInv
  <2>5. rowsLock'[e] = w /\ \A a \in Assets : assetLock'[a] # w
    BY <1>1, <2>1 DEF IInv, TypeOK, At
  <2>6. job[w].op = "edit" /\ job[w].draft \in Contents /\ entityLock[e] = w
    BY <1>1, <2>1 DEF JobFits, At, On
  <2>7. JobFits(w, job[w])' /\ CheckHolds(w)'
    <3> HIDE DEF r, e
    <3>1. /\ job'[w] \in Jobs /\ job'[w].on = e /\ job'[w].op = "edit" /\ job'[w].step = "assets"
          /\ job'[w].draft \in Contents
      BY <2>2, <2>4, <2>6
    <3>2. JobFits(w, job[w])'
      BY <2>1, <2>5, <2>6, <3>1 DEF JobFits
    <3> QED
      BY <2>5, <3>2 DEF CheckHolds, Risky, ItemsOf
  <2> QED
    BY <2>1, <2>3, <2>4, <2>7, QuietStep
<1> QED
  BY <1>3, <1>4, <1>5

\* An edit or a release locks one more asset; a checked one that does not fit
\* ends the edit.
LEMMA LockAssetKeeps ==
    ASSUME IInv, NEW w \in Actors, NEW a \in Assets, LockAsset(w, a)
    PROVE  IInv'
<1> DEFINE e == On(w)
           checks == IF job[w].op = "edit" THEN Risky(e, job[w].draft) ELSE {}
<1>1. /\ JobFits(w, job[w]) /\ job[w] \in Jobs /\ job \in [Actors -> Jobs] /\ w # Nobody
      /\ At(w, "assets") /\ assetLock[a] = Nobody /\ e \in Entities
  BY NobodyType DEF IInv, JobsFit, JobFits, LockAsset, At, On
<1>2. CASE a \in checks /\ ~Fits(e, a, job[w].draft)
  <2>1. Rollback(w)
    BY <1>2 DEF LockAsset
  <2> QED
    BY <2>1, EndKeeps DEF Rollback
<1>3. CASE ~(a \in checks /\ ~Fits(e, a, job[w].draft))
  <2>1. /\ assetLock' = [assetLock EXCEPT ![a] = w]
        /\ UNCHANGED <<status, content, row, avail, entityLock, rowsLock, job>>
    BY <1>3 DEF LockAsset
  <2>2. TypeOK'
    BY <2>1 DEF IInv, TypeOK
  <2>3. \A v \in Actors \ {w} : Keeps(v)
    BY <1>1, <2>1, NobodyType DEF Keeps, IInv, TypeOK
  <2>4. JobFits(w, job[w])'
    BY <1>1, <2>1 DEF JobFits, At
  <2>5. CheckHolds(w)'
    <3> SUFFICES ASSUME job[w].op = "edit",
                        NEW b \in Risky(On(w), job[w].draft), assetLock'[b] = w
                 PROVE  Fits(On(w), b, job[w].draft)
      BY <2>1 DEF CheckHolds, At, On, Risky, Fits, Booked, Units, Rivals
    <3>1. b \in Assets
      BY DEF Risky, ItemsOf
    <3>2. CASE b = a
      BY <1>3, <3>2
    <3>3. CASE b # a
      <4>1. assetLock[b] = w
        BY <2>1, <3>1, <3>3 DEF IInv, TypeOK
      <4> QED
        BY <1>1, <4>1 DEF IInv, ChecksHold, CheckHolds
    <3> QED
      BY <3>2, <3>3
  <2> QED
    BY <1>1, <2>1, <2>2, <2>3, <2>4, <2>5, QuietStep
<1> QED
  BY <1>2, <1>3

\* Summing and deleting the rows of e.
LEMMA DeleteKeeps ==
    ASSUME IInv, NEW w \in Actors, SumRows(w) \/ DeleteRows(w) \/ UnblockDelete(w)
    PROVE  IInv'
<1> DEFINE e == On(w)
<1>1. /\ JobFits(w, job[w]) /\ job[w] \in Jobs /\ job \in [Actors -> Jobs] /\ w # Nobody
      /\ \A a \in Assets : assetLock[a] # w
      /\ e \in Entities /\ status[e] # "NONE"
      /\ UNCHANGED <<status, content, row, avail, entityLock, assetLock>>
  BY NobodyType DEF IInv, JobsFit, JobFits, SumRows, DeleteRows, UnblockDelete, At, On, locks
<1>2. ASSUME NEW r \in Jobs, r.on = e, job' = [job EXCEPT ![w] = r],
             r.op = job[w].op, r.op # "edit", TypeOK', OtherLocks(w),
             r.step \in {"delete", "blocked", "assets"},
             r.step = "assets" /\ r.aim # {} => rowsLock'[e] = w
      PROVE  IInv'
  <2>1. job' \in [Actors -> Jobs] /\ job'[w] = r /\ \A v \in Actors \ {w} : Keeps(v)
    BY <1>2, OneJobKeeps DEF IInv
  <2>2. /\ job'[w] \in Jobs /\ job'[w].on \in Entities /\ status'[job'[w].on] # "NONE"
        /\ job'[w].op # "edit" /\ job'[w].step \in {"delete", "blocked", "assets"}
        /\ job'[w].step = "assets" /\ job'[w].aim # {} => rowsLock'[job'[w].on] = w
        /\ \A a \in Assets : assetLock'[a] # w
    BY <1>1, <1>2, <2>1
  <2>3. JobFits(w, job[w])'
    BY <2>2 DEF JobFits
  <2>4. CheckHolds(w)'
    BY <2>2 DEF CheckHolds, At
  <2> QED
    BY <1>1, <1>2, <2>1, <2>3, <2>4, QuietStep
<1>3. {"delete", "blocked", "assets"} \subseteq Steps
  BY DEF Steps
<1>4. CASE SumRows(w)
  <2> DEFINE r == [job[w] EXCEPT !.step = "delete", !.sum = Held(e)]
  <2>1. UNCHANGED rowsLock /\ TypeOK' /\ OtherLocks(w)
    BY <1>1, <1>4 DEF SumRows, locks, IInv, TypeOK, OtherLocks
  <2>2. Held(e) \in [Assets -> Nat]
    BY <1>1, HeldType DEF IInv
  <2>3. r \in Jobs /\ r.on = e /\ r.op = job[w].op /\ r.step = "delete"
    <3> HIDE DEF e
    <3> QED
      BY <1>1, <1>3, <2>2 DEF Jobs, On, e
  <2>4. job' = [job EXCEPT ![w] = r]
    BY <1>1, <1>4 DEF SumRows
  <2>5. job[w].op # "edit"
    BY <1>1, <1>4 DEF JobFits, SumRows, At
  <2> HIDE DEF r
  <2> QED
    BY <1>2, <2>1, <2>3, <2>4, <2>5
<1>5. CASE DeleteRows(w)
  <2>1. PICK goal \in {"assets", "blocked"} :
            goal = IF rowsLock[e] = Nobody THEN "assets" ELSE "blocked"
    OBVIOUS
  <2> DEFINE r == [job[w] EXCEPT !.step = goal, !.aim = RowAssets(e)]
  <2>2. /\ rowsLock' = IF rowsLock[e] = Nobody
                       THEN [rowsLock EXCEPT ![e] = IF HasRows(e) THEN w ELSE Nobody]
                       ELSE rowsLock
        /\ job' = [job EXCEPT ![w] = r]
    BY <1>1, <1>5, <2>1 DEF DeleteRows
  <2>3. job[w].op # "edit"
    BY <1>1, <1>5 DEF JobFits, DeleteRows, At
  <2>4. /\ r \in Jobs /\ r.on = e /\ r.op = job[w].op /\ r.step = goal
        /\ r.aim = RowAssets(e)
    <3>1. RowAssets(e) \in SUBSET Assets /\ job[w].on = e /\ goal \in Steps
      BY <1>3 DEF RowAssets, On
    <3> HIDE DEF e
    <3> QED
      BY <1>1, <3>1 DEF Jobs
  <2>5. TypeOK' /\ OtherLocks(w)
    BY <1>1, <2>2, NobodyType DEF IInv, TypeOK, OtherLocks
  <2>6. goal = "assets" /\ RowAssets(e) # {} => rowsLock'[e] = w
    BY <1>1, <2>1, <2>2 DEF RowAssets, HasRows, IInv, TypeOK
  <2> HIDE DEF r
  <2> QED
    BY <1>2, <2>2, <2>3, <2>4, <2>5, <2>6
<1>6. CASE UnblockDelete(w)
  <2> DEFINE r == [job[w] EXCEPT !.step = "assets"]
  <2>1. /\ rowsLock' = [rowsLock EXCEPT ![e] = IF job[w].aim # {} THEN w ELSE Nobody]
        /\ rowsLock[e] = Nobody
        /\ job' = [job EXCEPT ![w] = r]
    BY <1>1, <1>6 DEF UnblockDelete, GoTo
  <2>2. job[w].op # "edit"
    BY <1>1, <1>6 DEF JobFits, UnblockDelete, At
  <2>3. /\ r \in Jobs /\ r.on = e /\ r.op = job[w].op /\ r.step = "assets"
        /\ r.aim = job[w].aim
    <3>1. job[w].on = e
      BY DEF On
    <3> HIDE DEF e
    <3> QED
      BY <1>1, <1>3, <3>1 DEF Jobs
  <2>4. TypeOK' /\ OtherLocks(w)
    BY <1>1, <2>1, NobodyType DEF IInv, TypeOK, OtherLocks
  <2>5. job[w].aim # {} => rowsLock'[e] = w
    BY <1>1, <2>1 DEF IInv, TypeOK
  <2> HIDE DEF r
  <2> QED
    BY <1>2, <2>1, <2>2, <2>3, <2>4, <2>5
<1> QED
  BY <1>4, <1>5, <1>6

\* A status is written by id, and the others on e have been overtaken.
LEMMA FlipKeeps ==
    ASSUME IInv, NEW w \in Actors, FlipDropped(w) \/ Quote(w) \/ Confirm(w)
    PROVE  IInv'
<1> DEFINE e == On(w)
<1>1. /\ e \in Entities /\ \A a \in Assets : assetLock[a] # w
      /\ UNCHANGED <<content, row, avail, entityLock, rowsLock, assetLock>>
      /\ job' = Overtake(w, e, {})
  BY DEF IInv, JobsFit, JobFits, FlipDropped, Quote, Confirm, At, On, locks
<1>2. PICK s \in Statuses \ {"NONE"} : status' = [status EXCEPT ![e] = s]
  BY DEF FlipDropped, Quote, Confirm, Statuses, Holding, EditableBand
<1>3. TypeOK' /\ StaysLive /\ OtherLocks(w)
  BY <1>1, <1>2 DEF IInv, TypeOK, StaysLive, OtherLocks
<1>4. /\ job' \in [Actors -> Jobs] /\ job'[w] = Idle /\ \A v \in Actors \ {w} : Keeps(v)
  <2> HIDE DEF e
  <2> QED
    BY <1>1, <1>3, OvertakeKeeps DEF IInv
<1>5. NeverOver' /\ \A v : KeepsRows(v)
  BY <1>1, <1>3, RowsUnchanged
<1>6. JobFits(w, job[w])' /\ CheckHolds(w)'
  BY <1>1, <1>4, IdleFits
<1> QED
  BY <1>3, <1>4, <1>5, <1>6, StepKeeps

------------------------------------------------------------------------------
(* Steps that delete booking rows.                                         *)

LEMMA DropRowsKeeps ==
    ASSUME IInv, TypeOK', NEW w \in Actors, NEW e \in Entities, NEW S \in SUBSET Assets,
           row' = [row EXCEPT ![e] = [a \in Assets |-> IF a \in S THEN NoRow ELSE row[e][a]]],
           S # {} => rowsLock[e] = w
    PROVE  NeverOver' /\ \A v \in Actors \ {w} : KeepsRows(v)
<1>1. /\ \A a \in Assets : row'[e][a] = IF a \in S THEN NoRow ELSE row[e][a]
      /\ \A g \in Entities \ {e} : row'[g] = row[g]
  BY DEF IInv, TypeOK
<1>2. \A a \in Assets : Shrinks(a)
  BY <1>1 DEF Shrinks
<1>3. ASSUME NEW a \in Assets, NEW t \in Int
      PROVE  FitsOn(a, t)'
  BY <1>2, FitsAfterShrinking DEF IInv, NeverOver
<1>4. ASSUME NEW v \in Actors \ {w}, job[v].op = "edit", At(v, "assets")
      PROVE  row'[On(v)] = row[On(v)]
  <2>1. On(v) \in Entities /\ rowsLock[On(v)] = v
    BY <1>4 DEF IInv, JobsFit, JobFits, At, On
  <2>2. CASE On(v) # e
    BY <1>1, <2>1, <2>2
  <2>3. CASE On(v) = e
    <3>1. S = {}
      BY <2>1, <2>3
    <3>2. row[e] = [a \in Assets |-> row[e][a]]
      BY DEF IInv, TypeOK
    <3>3. row' = [row EXCEPT ![e] = row[e]]
      BY <3>1, <3>2
    <3> QED
      BY <2>3, <3>3 DEF IInv, TypeOK
  <2> QED
    BY <2>2, <2>3
<1> QED
  BY <1>2, <1>3, <1>4 DEF NeverOver, KeepsRows

LEMMA DropKeeps ==
    ASSUME IInv, NEW w \in Actors, CommitDrop(w) \/ CommitRelease(w)
    PROVE  IInv'
<1> DEFINE e == On(w)
           S == job[w].aim
<1>1. /\ JobFits(w, job[w]) /\ job[w] \in Jobs /\ At(w, "assets") /\ e \in Entities
      /\ job[w].op # "edit" /\ S \in SUBSET Assets /\ (S # {} => rowsLock[e] = w)
      /\ job[w].sum \in [Assets -> Nat] /\ status[e] # "NONE"
  BY DEF IInv, JobsFit, JobFits, Jobs, CommitDrop, CommitRelease, At, On
<1>2. /\ row' = [row EXCEPT ![e] = [a \in Assets |-> IF a \in S THEN NoRow ELSE row[e][a]]]
      /\ avail' = AvailAfter(job[w].sum, Nothing) /\ FreeLocks(w) /\ UNCHANGED content
  BY DEF CommitDrop, CommitRelease
<1>3. avail' \in [Assets -> Nat]
  BY <1>1, <1>2, HeldType, AvailAfterType DEF IInv
<1>4. row' \in [Entities -> [Assets -> [qty : Nat, from : Int, until : Int]]]
  <2>1. [a \in Assets |-> IF a \in S THEN NoRow ELSE row[e][a]]
            \in [Assets -> [qty : Nat, from : Int, until : Int]]
    BY <1>1 DEF IInv, TypeOK, NoRow
  <2> QED
    BY <1>1, <1>2, <2>1 DEF IInv, TypeOK
<1>5. OtherLocks(w) /\ \A a \in Assets : assetLock'[a] # w
  BY <1>2, FreeLocksFacts DEF IInv, OtherLocks
<1>6. ASSUME status' \in [Entities -> Statuses]
      PROVE  TypeOK'
  BY <1>2, <1>3, <1>4, <1>6, FreeLocksFacts DEF IInv, TypeOK
<1>7. CASE CommitDrop(w)
  <2>1. /\ status' = [status EXCEPT ![e] = "DROPPED"] /\ job' = Overtake(w, e, {})
    BY <1>7 DEF CommitDrop
  <2>2. TypeOK' /\ StaysLive
    BY <1>1, <1>6, <2>1 DEF IInv, TypeOK, StaysLive, Statuses
  <2>3. NeverOver' /\ \A v \in Actors \ {w} : KeepsRows(v)
    <3> HIDE DEF e, S
    <3> QED
      BY <1>1, <1>2, <2>2, DropRowsKeeps
  <2>4. /\ job' \in [Actors -> Jobs] /\ job'[w] = Idle /\ \A v \in Actors \ {w} : Keeps(v)
    <3> HIDE DEF e
    <3> QED
      BY <1>5, <2>1, OvertakeKeeps DEF IInv
  <2>5. JobFits(w, job[w])' /\ CheckHolds(w)'
    BY <1>5, <2>4, IdleFits
  <2> QED
    BY <2>2, <2>3, <2>4, <2>5, StepKeeps
<1>8. CASE CommitRelease(w)
  <2> DEFINE r == [job[w] EXCEPT !.step = "released"]
  <2>1. /\ UNCHANGED status /\ job' = [Overtake(w, e, {}) EXCEPT ![w] = r]
    BY <1>8 DEF CommitRelease
  <2>2. TypeOK' /\ StaysLive
    BY <1>6, <2>1 DEF IInv, TypeOK, StaysLive
  <2>3. NeverOver' /\ \A v \in Actors \ {w} : KeepsRows(v)
    <3> HIDE DEF e, S
    <3> QED
      BY <1>1, <1>2, <2>2, DropRowsKeeps
  <2>4. r \in Jobs /\ r.on = e /\ r.op # "edit" /\ r.step = "released"
    BY <1>1 DEF Jobs, Steps, On
  <2>5. DOMAIN Overtake(w, e, {}) = Actors
    BY DEF Overtake
  <2>6. ASSUME NEW v \in Actors \ {w}
        PROVE  Keeps(v)
    <3>1. job'[v] = Overtake(w, e, {})[v]
      <4> HIDE DEF r, e
      <4> QED
        BY <2>1, <2>5
    <3> HIDE DEF e
    <3> QED
      BY <1>5, <3>1, OvertakeFacts DEF IInv, OtherLocks, Keeps
  <2>7. job'[w] = r /\ job' = [v \in Actors |-> job'[v]]
    <3> HIDE DEF r, e
    <3> QED
      BY <2>1, <2>5
  <2>8. job' \in [Actors -> Jobs]
    <3>1. \A v \in Actors : job'[v] \in Jobs
      BY <2>4, <2>6, <2>7 DEF Keeps
    <3> HIDE DEF r
    <3> QED
      BY <2>7, <3>1
  <2>9. /\ job'[w] \in Jobs /\ job'[w].on \in Entities /\ status'[job'[w].on] # "NONE"
        /\ job'[w].op # "edit" /\ job'[w].step = "released"
        /\ \A a \in Assets : assetLock'[a] # w
    <3> HIDE DEF r, e
    <3> QED
      BY <1>1, <1>5, <2>1, <2>4, <2>7
  <2>10. JobFits(w, job[w])'
    BY <2>9 DEF JobFits
  <2>11. CheckHolds(w)'
    BY <2>9 DEF CheckHolds, At
  <2> QED
    BY <2>2, <2>3, <2>6, <2>8, <2>10, <2>11, StepKeeps
<1> QED
  BY <1>7, <1>8

------------------------------------------------------------------------------
(* Steps that write booking rows.                                          *)

\* The rows of e become those of c: an asset is not oversold when c fits there,
\* or takes no more than e had on the same days, or nothing.
LEMMA RebookFits ==
    ASSUME IInv, TypeOK', NEW e \in Entities, NEW c \in Contents,
           row' = [row EXCEPT ![e] = RowsOf(c)],
           e \notin Pickups => \A a \in ItemsOf(c) : a \in Risky(e, c) => Fits(e, a, c)
    PROVE  NeverOver'
<1>1. row'[e] = RowsOf(c) /\ \A g \in Entities \ {e} : row'[g] = row[g]
  BY DEF IInv, TypeOK
<1>2. SUFFICES ASSUME NEW a \in Assets, NEW t \in Int
               PROVE  FitsOn(a, t)'
  BY DEF NeverOver
<1>3. FitsOn(a, t) /\ TypeOK
  BY DEF IInv, NeverOver
<1>4. CASE a \notin ItemsOf(c)
  <2>1. RowsOf(c)[a] = NoRow
    BY <1>4, RowsOfType DEF ItemsOf, Contents
  <2>2. Shrinks(a)
    BY <1>1, <2>1 DEF Shrinks
  <2> QED
    BY <1>3, <2>2, FitsAfterShrinking
<1>5. CASE a \in ItemsOf(c) /\ (e \notin Pickups => Fits(e, a, c))
  BY <1>1, <1>3, <1>5, FitsAfterBooking
<1>6. CASE a \in ItemsOf(c) /\ e \notin Pickups /\ ~Fits(e, a, c)
  <2>1. a \notin Risky(e, c)
    BY <1>6
  <2>2. /\ RowsOf(c)[a].qty <= row[e][a].qty
        /\ RowsOf(c)[a].from = row[e][a].from /\ RowsOf(c)[a].until = row[e][a].until
    <3>1. RowsOf(c)[a].qty \in Nat /\ row[e][a].qty \in Nat
      BY <1>3, RowsOfType, QuantityType DEF Contents
    <3> QED
      BY <1>6, <2>1, <3>1 DEF Risky
  <2> QED
    BY <1>1, <1>3, <2>2, FitsAfterLess
<1> QED
  BY <1>4, <1>5, <1>6

\* What v has checked is left alone when v does not edit e and what e takes is
\* not locked by v.
LEMMA RebookSpares ==
    ASSUME IInv, NEW e \in Entities, NEW c \in Contents, row' = [row EXCEPT ![e] = RowsOf(c)],
           NEW v \in Actors, (job[v].op = "edit" /\ At(v, "assets")) => On(v) # e,
           \A a \in ItemsOf(c) : assetLock[a] # v
    PROVE  KeepsRows(v)
<1>1. row'[e] = RowsOf(c) /\ \A g \in Entities \ {e} : row'[g] = row[g]
  BY DEF IInv, TypeOK
<1>2. ASSUME NEW a \in Assets, assetLock[a] = v
      PROVE  Shrinks(a)
  <2>1. RowsOf(c)[a] = NoRow
    BY <1>2, RowsOfType DEF ItemsOf, Contents
  <2> QED
    BY <1>1, <2>1 DEF Shrinks
<1>3. ASSUME job[v].op = "edit", At(v, "assets")
      PROVE  row'[On(v)] = row[On(v)]
  <2>1. On(v) \in Entities
    BY <1>3 DEF IInv, JobsFit, JobFits, At, On
  <2> QED
    BY <1>1, <1>3, <2>1
<1> QED
  BY <1>2, <1>3 DEF KeepsRows

LEMMA CommitEditKeeps ==
    ASSUME IInv, NEW w \in Actors, CommitEdit(w)
    PROVE  IInv'
<1>1. PICK e \in Entities, c \in Contents : On(w) = e /\ job[w].draft = c
  BY DEF IInv, JobsFit, JobFits, CommitEdit, At, On
<1>2. /\ At(w, "assets") /\ job[w].op = "edit" /\ entityLock[e] = w /\ rowsLock[e] = w
      /\ w # Nobody /\ status[e] # "NONE"
  BY <1>1, NobodyType DEF IInv, JobsFit, JobFits, CommitEdit, At, On
<1>3. /\ content' = [content EXCEPT ![e] = c] /\ row' = [row EXCEPT ![e] = RowsOf(c)]
      /\ avail' = AvailAfter(Held(e), c.items)
      /\ status' = [status EXCEPT ![e] = StatusAfter(e)] /\ FreeLocks(w)
  BY <1>1 DEF CommitEdit, RowsAfter, FreedBy
<1>4. PICK S : job' = Overtake(w, e, S)
  BY <1>1 DEF CommitEdit
<1>5. \A a \in ItemsOf(c) : assetLock[a] = w
  BY <1>1, <1>2 DEF CommitEdit, Wanted, Locked, ItemsOf
<1>6. avail' \in [Assets -> Nat]
  BY <1>3, RowsOfType, HeldType, AvailAfterType DEF IInv
<1>7. StatusAfter(e) \in Statuses \ {"NONE"}
  BY <1>2 DEF StatusAfter, IInv, TypeOK, Statuses, Holding, EditableBand
<1>8. TypeOK' /\ StaysLive
  <2>1. row' \in [Entities -> [Assets -> [qty : Nat, from : Int, until : Int]]]
    BY <1>3, RowsOfType DEF IInv, TypeOK
  <2>2. status' \in [Entities -> Statuses] /\ content' \in [Entities -> Contents] /\ StaysLive
    BY <1>3, <1>7 DEF IInv, TypeOK, StaysLive
  <2> QED
    BY <1>3, <1>6, <2>1, <2>2, FreeLocksFacts DEF IInv, TypeOK
<1>9. ASSUME NEW a \in ItemsOf(c), a \in Risky(e, c)
      PROVE  Fits(e, a, c)
  BY <1>1, <1>2, <1>5, <1>9 DEF IInv, ChecksHold, CheckHolds
<1>10. NeverOver'
  BY <1>3, <1>8, <1>9, RebookFits
<1>11. ASSUME NEW v \in Actors \ {w}
       PROVE  KeepsRows(v)
  <2>1. (job[v].op = "edit" /\ At(v, "assets")) => On(v) # e
    BY <1>2 DEF IInv, JobsFit, JobFits, At, On
  <2> QED
    BY <1>3, <1>5, <2>1, RebookSpares
<1>12. OtherLocks(w) /\ \A a \in Assets : assetLock'[a] # w
  BY <1>3, FreeLocksFacts DEF IInv, OtherLocks
<1>13. /\ job' \in [Actors -> Jobs] /\ job'[w] = Idle /\ \A v \in Actors \ {w} : Keeps(v)
  BY <1>4, <1>12, OvertakeKeeps DEF IInv
<1>14. JobFits(w, job[w])' /\ CheckHolds(w)'
  BY <1>12, <1>13, IdleFits
<1> QED
  BY <1>8, <1>10, <1>11, <1>13, <1>14, StepKeeps

\* An approval checks under the locks of the assets, which nobody else has.
LEMMA CheckApprovalKeeps ==
    ASSUME IInv, NEW w \in Actors, CheckApproval(w)
    PROVE  IInv'
<1>1. PICK e \in Entities, c \in Contents : On(w) = e /\ job[w].draft = c
  BY DEF IInv, JobsFit, JobFits, CheckApproval, At, On
<1>2. /\ At(w, "check") /\ job[w] \in Jobs /\ job[w].op # "edit" /\ status[e] # "NONE"
      /\ Unlocked(ItemsOf(c)) /\ \A a \in Assets : assetLock[a] # w
      /\ UNCHANGED <<status, content, entityLock, rowsLock, assetLock>>
  BY <1>1 DEF IInv, JobsFit, JobFits, CheckApproval, At, On, locks
<1>3. OtherLocks(w)
  BY <1>2 DEF OtherLocks
<1>4. CASE \E a \in ItemsOf(c) : ~Fits(e, a, c)
  <2>1. job' = [job EXCEPT ![w] = Idle] /\ UNCHANGED <<row, avail>>
    BY <1>1, <1>4 DEF CheckApproval
  <2>2. TypeOK'
    BY <1>2, <2>1 DEF IInv, TypeOK
  <2>3. job' \in [Actors -> Jobs] /\ job'[w] = Idle /\ \A v \in Actors \ {w} : Keeps(v)
    BY <1>3, <2>1, IdleFacts, OneJobKeeps DEF IInv
  <2> QED
    BY <1>2, <2>1, <2>2, <2>3, IdleFits, QuietStep
<1>5. CASE \A a \in ItemsOf(c) : Fits(e, a, c)
  <2> DEFINE r == [job[w] EXCEPT !.step = "confirm"]
  <2>1. job' = [job EXCEPT ![w] = r]
    BY <1>1, <1>2, <1>5 DEF CheckApproval, GoTo
  <2>2. r \in Jobs /\ r.on = e /\ r.op # "edit" /\ r.step = "confirm"
    BY <1>1, <1>2 DEF Jobs, Steps, On
  <2>3. job' \in [Actors -> Jobs] /\ job'[w] = r /\ \A v \in Actors \ {w} : Keeps(v)
    <3> HIDE DEF r
    <3> QED
      BY <1>3, <2>1, <2>2, OneJobKeeps DEF IInv
  <2>4. /\ job'[w] \in Jobs /\ job'[w].on \in Entities /\ status'[job'[w].on] # "NONE"
        /\ job'[w].op # "edit" /\ job'[w].step = "confirm"
        /\ \A a \in Assets : assetLock'[a] # w
    <3> HIDE DEF r
    <3> QED
      BY <1>2, <2>2, <2>3
  <2>5. JobFits(w, job[w])'
    BY <2>4 DEF JobFits
  <2>6. CheckHolds(w)'
    BY <2>4 DEF CheckHolds, At
  <2>7. CASE HasRows(e)
    <3>1. UNCHANGED <<row, avail>>
      BY <1>1, <1>5, <2>7 DEF CheckApproval
    <3>2. TypeOK'
      BY <1>2, <3>1 DEF IInv, TypeOK
    <3> QED
      BY <1>2, <2>3, <2>5, <2>6, <3>1, <3>2, QuietStep
  <2>8. CASE ~HasRows(e)
    <3>1. /\ entityLock[e] = Nobody /\ row' = [row EXCEPT ![e] = RowsOf(c)]
          /\ avail' = AvailAfter(Nothing, c.items)
      BY <1>1, <1>5, <2>8 DEF CheckApproval
    <3>2. avail' \in [Assets -> Nat]
      BY <3>1, RowsOfType, HeldType, AvailAfterType DEF IInv
    <3>3. TypeOK' /\ StaysLive
      BY <1>2, <3>1, <3>2, RowsOfType DEF IInv, TypeOK, StaysLive
    <3>4. NeverOver'
      BY <1>5, <3>1, <3>3, RebookFits
    <3>5. ASSUME NEW v \in Actors \ {w}
          PROVE  KeepsRows(v)
      <4>1. v # Nobody
        BY NobodyType
      <4>2. (job[v].op = "edit" /\ At(v, "assets")) => On(v) # e
        BY <3>1, <4>1 DEF IInv, JobsFit, JobFits, At, On
      <4>3. \A a \in ItemsOf(c) : assetLock[a] # v
        BY <1>2, <4>1 DEF Unlocked
      <4> QED
        BY <3>1, <4>2, <4>3, RebookSpares
    <3> QED
      BY <2>3, <2>5, <2>6, <3>3, <3>4, <3>5, StepKeeps
  <2> QED
    BY <2>7, <2>8
<1> QED
  BY <1>4, <1>5

\* Nobody works on an entity that is being submitted.
LEMMA SubmitKeeps ==
    ASSUME IInv, NEW e \in Entities, Submit(e)
    PROVE  IInv'
<1>1. PICK c \in Contents : c = content[e]
  BY DEF IInv, TypeOK
<1>2. /\ status[e] = "NONE" /\ Unlocked(ItemsOf(c))
      /\ e \notin Pickups => \A a \in ItemsOf(c) : Fits(e, a, c)
      /\ status' = [status EXCEPT ![e] = "PRICING_REVIEW"]
      /\ row' = [row EXCEPT ![e] = RowsOf(c)] /\ avail' = AvailAfter(Nothing, c.items)
      /\ UNCHANGED <<content, entityLock, rowsLock, assetLock, job>>
  BY <1>1 DEF Submit, Admitted, locks
<1>3. avail' \in [Assets -> Nat]
  BY <1>2, RowsOfType, HeldType, AvailAfterType DEF IInv
<1>4. TypeOK' /\ StaysLive
  <2>1. row' \in [Entities -> [Assets -> [qty : Nat, from : Int, until : Int]]]
    BY <1>2, RowsOfType DEF IInv, TypeOK
  <2>2. status' \in [Entities -> Statuses] /\ StaysLive
    BY <1>2 DEF IInv, TypeOK, StaysLive, Statuses, Holding, EditableBand
  <2> QED
    BY <1>2, <1>3, <2>1, <2>2 DEF IInv, TypeOK
<1>5. NeverOver'
  BY <1>2, <1>4, RebookFits
<1>6. ASSUME NEW v \in Actors
      PROVE  JobFits(v, job[v])' /\ CheckHolds(v)'
  <2>1. Keeps(v)
    BY <1>2 DEF Keeps, IInv, JobsFit, JobFits
  <2>2. (job[v].op = "edit" /\ At(v, "assets")) => On(v) # e
    BY <1>2 DEF IInv, JobsFit, JobFits, At, On
  <2>3. \A a \in ItemsOf(c) : assetLock[a] # v
    BY <1>2, NobodyType DEF Unlocked
  <2>4. KeepsRows(v)
    BY <1>2, <2>2, <2>3, RebookSpares
  <2> QED
    BY <1>4, <2>1, <2>4, OtherFits, OtherChecks DEF IInv
<1> QED
  BY <1>2, <1>4, <1>5, <1>6 DEF IInv, JobsFit, ChecksHold

------------------------------------------------------------------------------
(* The theorems.                                                           *)

LEMMA InitHolds ==
    Init => IInv
<1> SUFFICES ASSUME Init
             PROVE  IInv
  OBVIOUS
<1>1. TypeOK
  <2>1. NoRow \in [qty : Nat, from : Int, until : Int] /\ "NONE" \in Statuses
    BY DEF NoRow, Statuses
  <2> QED
    BY <2>1, SubmittedType, StockType DEF Init, TypeOK, NoRows
<1>2. JobsFit
  BY IdleFacts, NobodyType DEF Init, JobsFit, JobFits
<1>3. ChecksHold
  BY IdleFacts DEF Init, ChecksHold, CheckHolds
<1>4. ASSUME NEW a \in Assets, NEW t \in Int
      PROVE  FitsOn(a, t)
  <2>1. Orders(a, t) = {}
    BY DEF Init, Orders, Covering, NoRows, NoRow
  <2>2. Units(a, Orders(a, t)) = {}
    BY <2>1 DEF Units
  <2>3. Booked(a, Orders(a, t)) = 0
    BY <2>2, FS_EmptySet DEF Booked
  <2> QED
    BY <2>3, StockType DEF FitsOn
<1> QED
  BY <1>1, <1>2, <1>3, <1>4 DEF IInv, NeverOver

LEMMA NextKeeps ==
    IInv /\ [Next]_vars => IInv'
<1> SUFFICES ASSUME IInv, [Next]_vars
             PROVE  IInv'
  OBVIOUS
<1>1. ASSUME NEW w \in Actors, Resume(w)
      PROVE  IInv'
  BY <1>1, LockKeeps, LockAssetKeeps, CommitEditKeeps, DeleteKeeps, DropKeeps, FlipKeeps,
     CheckApprovalKeeps DEF Resume
<1>2. ASSUME NEW w \in Actors, Abort(w)
      PROVE  IInv'
  BY <1>2, EndKeeps DEF Abort
<1>3. CASE UNCHANGED vars
  <2>1. UNCHANGED <<status, content, row, avail, entityLock, rowsLock, assetLock, job>>
    BY <1>3 DEF vars, locks
  <2>2. TypeOK' /\ JobsFit'
    BY <2>1 DEF IInv, TypeOK, JobsFit, JobFits
  <2>3. \A v \in Actors : Keeps(v)
    BY <2>1 DEF Keeps, IInv, JobsFit, JobFits
  <2>4. NeverOver' /\ \A v : KeepsRows(v)
    BY <2>1, <2>2, RowsUnchanged
  <2>5. ChecksHold'
    BY <2>2, <2>3, <2>4, OtherChecks DEF IInv, ChecksHold
  <2> QED
    BY <2>2, <2>4, <2>5 DEF IInv
<1> QED
  BY <1>1, <1>2, <1>3, BeginKeeps, SubmitKeeps DEF Next

\* The variables keep their types.
THEOREM TypeCorrect == Spec => []TypeOK
<1>1. IInv => TypeOK
  BY DEF IInv
<1> QED
  BY <1>1, InitHolds, NextKeeps, PTL DEF Spec

\* An edit that holds the locks of the assets it has checked can trust its
\* checks until it commits: whoever else books those assets waits
\* (reconcileBookings, "risky" assets), and what was checked stays true.
THEOREM CheckedEditsFit == Spec => []ChecksHold
<1>1. IInv => ChecksHold
  BY DEF IInv
<1> QED
  BY <1>1, InitHolds, NextKeeps, PTL DEF Spec

\* No day is promised to orders beyond the stock, through every edit, approval,
\* release, crash and rollback.
OrdersNeverOversold == \A a \in Assets : \A t \in Int :
    Booked(a, Covering(a, t) \ Pickups) <= Stock[a]
THEOREM OrdersStayWithinStock == Spec => []OrdersNeverOversold
<1>1. IInv => OrdersNeverOversold
  BY DEF IInv, NeverOver, FitsOn, Orders, OrdersNeverOversold
<1> QED
  BY <1>1, InitHolds, NextKeeps, PTL DEF Spec

------------------------------------------------------------------------------
(* Who books anew stays within the stock.                                  *)

StepFits == \A e \in Entities, a \in Assets : BooksAnew(e, a) =>
    \A t \in row'[e][a].from .. row'[e][a].until : Booked(a, Covering(a, t))' <= Stock[a]

LEMMA NothingAnew ==
    ASSUME TypeOK, TypeOK', \A a \in Assets : Shrinks(a)
    PROVE  StepFits
<1>1. ASSUME NEW e \in Entities, NEW a \in Assets
      PROVE  ~BooksAnew(e, a)
  <2>1. row[e][a].qty \in Nat
    BY QuantityType
  <2> QED
    BY <2>1 DEF Shrinks, BooksAnew, NoRow
<1> QED
  BY <1>1 DEF StepFits

LEMMA RebookAnew ==
    ASSUME TypeOK, TypeOK', NEW e \in Entities, NEW c \in Contents,
           row' = [row EXCEPT ![e] = RowsOf(c)],
           \A a \in ItemsOf(c) : BooksAnew(e, a) => Fits(e, a, c)
    PROVE  StepFits
<1>1. row'[e] = RowsOf(c) /\ \A g \in Entities \ {e} : row'[g] = row[g]
  BY DEF TypeOK
<1>2. SUFFICES ASSUME NEW g \in Entities, NEW a \in Assets, BooksAnew(g, a),
                      NEW t \in row'[g][a].from .. row'[g][a].until
               PROVE  Booked(a, Covering(a, t))' <= Stock[a]
  BY DEF StepFits
<1>3. g = e
  <2>1. row[g][a].qty \in Nat
    BY QuantityType
  <2> QED
    BY <1>1, <1>2, <2>1 DEF BooksAnew
<1>4. a \in ItemsOf(c)
  <2>1. c.items[a] \in Nat
    BY DEF Contents
  <2> QED
    BY <1>1, <1>2, <1>3, <2>1 DEF BooksAnew, RowsOf, NoRow, ItemsOf
<1>5. t \in Int /\ e \in Covering(a, t)'
  <2>1. row'[e][a].from \in Int /\ row'[e][a].until \in Int
    BY DEF TypeOK
  <2> QED
    BY <1>2, <1>3, <2>1 DEF BooksAnew, Covering
<1> QED
  BY <1>1, <1>2, <1>3, <1>4, <1>5, NewRowFits

LEMMA StepStaysWithin ==
    IInv /\ IInv' /\ [Next]_vars => StepFits
<1> SUFFICES ASSUME IInv, IInv', [Next]_vars
             PROVE  StepFits
  OBVIOUS
<1>0. TypeOK /\ TypeOK'
  BY DEF IInv
<1>1. CASE UNCHANGED row
  BY <1>0, <1>1, NothingAnew DEF Shrinks
<1>2. ASSUME NEW w \in Actors, CommitDrop(w) \/ CommitRelease(w)
      PROVE  StepFits
  <2>1. PICK e \in Entities : On(w) = e
    BY <1>2 DEF IInv, JobsFit, JobFits, CommitDrop, CommitRelease, At, On
  <2>2. row' = [row EXCEPT ![e] = [a \in Assets |-> IF a \in job[w].aim THEN NoRow ELSE row[e][a]]]
    BY <1>2, <2>1 DEF CommitDrop, CommitRelease
  <2>3. \A a \in Assets : Shrinks(a)
    BY <1>0, <2>2 DEF Shrinks, TypeOK
  <2> QED
    BY <1>0, <2>3, NothingAnew
<1>3. ASSUME NEW w \in Actors, CommitEdit(w)
      PROVE  StepFits
  <2>1. PICK e \in Entities, c \in Contents : On(w) = e /\ job[w].draft = c
    BY <1>3 DEF IInv, JobsFit, JobFits, CommitEdit, At, On
  <2>2. row' = [row EXCEPT ![e] = RowsOf(c)]
    BY <1>3, <2>1 DEF CommitEdit, RowsAfter
  <2>3. ASSUME NEW a \in ItemsOf(c), BooksAnew(e, a)
        PROVE  Fits(e, a, c)
    <3>1. row'[e] = RowsOf(c)
      BY <1>0, <2>2 DEF TypeOK
    <3>2. a \in Risky(e, c)
      BY <2>3, <3>1 DEF Risky, BooksAnew
    <3>3. assetLock[a] = w
      BY <1>3, <2>1, <2>3 DEF CommitEdit, Wanted, Locked, ItemsOf
    <3> QED
      BY <1>3, <2>1, <3>2, <3>3 DEF IInv, ChecksHold, CheckHolds, CommitEdit, At
  <2> QED
    BY <1>0, <2>2, <2>3, RebookAnew
<1>4. ASSUME NEW w \in Actors, CheckApproval(w)
      PROVE  StepFits
  <2>1. PICK e \in Entities, c \in Contents : On(w) = e /\ job[w].draft = c
    BY <1>4 DEF IInv, JobsFit, JobFits, CheckApproval, At, On
  <2>2. CASE UNCHANGED row
    BY <1>0, <2>2, NothingAnew DEF Shrinks
  <2>3. CASE ~UNCHANGED row
    <3>1. \A a \in ItemsOf(c) : Fits(e, a, c)
      BY <1>4, <2>1, <2>3 DEF CheckApproval
    <3>2. ~HasRows(e)
      BY <1>4, <2>1, <2>3, <3>1 DEF CheckApproval
    <3>3. row' = [row EXCEPT ![e] = RowsOf(c)]
      BY <1>4, <2>1, <3>1, <3>2 DEF CheckApproval
    <3> QED
      BY <1>0, <3>1, <3>3, RebookAnew
  <2> QED
    BY <2>2, <2>3
<1>5. ASSUME NEW e \in Entities, Submit(e)
      PROVE  StepFits
  <2>1. PICK c \in Contents : c = content[e]
    BY <1>0 DEF TypeOK
  <2>2. row' = [row EXCEPT ![e] = RowsOf(c)] /\ status[e] = "NONE" /\ Admitted(e)
    BY <1>5, <2>1 DEF Submit
  <2>3. \A a \in ItemsOf(c) : BooksAnew(e, a) => Fits(e, a, c)
    BY <2>1, <2>2 DEF BooksAnew, Admitted
  <2> QED
    BY <1>0, <2>2, <2>3, RebookAnew
<1>6. ASSUME NEW w \in Actors, Resume(w)
      PROVE  StepFits
  <2>1. CASE CommitEdit(w) \/ CommitDrop(w) \/ CommitRelease(w) \/ CheckApproval(w)
    BY <1>2, <1>3, <1>4, <2>1
  <2>2. CASE \/ LockForEdit(w) \/ LockForCancel(w) \/ LockRows(w) \/ SumRows(w) \/ DeleteRows(w)
             \/ UnblockDelete(w) \/ FlipDropped(w) \/ Quote(w) \/ Confirm(w)
    BY <1>1, <2>2 DEF LockForEdit, LockForCancel, LockRows, SumRows, DeleteRows, UnblockDelete,
        FlipDropped, Quote, Confirm
  <2>3. ASSUME NEW a \in Assets, LockAsset(w, a)
        PROVE  StepFits
    BY <1>1, <2>3 DEF LockAsset, Rollback
  <2> QED
    BY <1>6, <2>1, <2>2, <2>3 DEF Resume
<1>7. ASSUME NEW w \in Actors, NEW e \in Entities, BeginAny(w, e)
      PROVE  StepFits
  BY <1>1, <1>7 DEF BeginAny, BeginEdit, BeginRelease, BeginCancel, BeginQuote, BeginApprove, Begin
<1>8. ASSUME NEW w \in Actors, Abort(w)
      PROVE  StepFits
  BY <1>1, <1>8 DEF Abort
<1> QED
  BY <1>1, <1>5, <1>6, <1>7, <1>8 DEF Next, vars

\* Every edit, and every submit and approval of an order, leaves the days it books
\* within the stock, pickups and orders together, whatever runs in between.
THEOREM BookingsFit == Spec => BookingFits
<1>1. IInv /\ IInv' /\ [Next]_vars => [\A e \in Entities, a \in Assets : BooksAnew(e, a) =>
        \A t \in row'[e][a].from .. row'[e][a].until : Booked(a, Covering(a, t))' <= Stock[a]]_vars
  BY StepStaysWithin DEF StepFits
<1> QED
  BY <1>1, InitHolds, NextKeeps, PTL DEF Spec, BookingFits

------------------------------------------------------------------------------
(* The rows, the offer and the counters of entities that no outdated       *)
(* handler has written: what a handler that is not outdated still knows.   *)

\* No row is left over for an asset of which nothing is booked.
EmptyRows == \A e \in Entities, a \in Assets : row[e][a].qty = 0 => row[e][a] = NoRow

\* Which handler does which steps; an edit that has the entity edits in the band.
RoleFits(j) ==
    /\ j.step = "flip" => j.op = "quote"
    /\ j.step \in {"check", "confirm"} => j.op = "approve"
    /\ j.step = "check" => j.on \notin Pickups
    /\ j.step = "released" => j.op = "drop"
    /\ j.op = "drop" => j.on \in Pickups
    /\ j.op = "edit" /\ j.step \in {"rows", "assets"} => status[j.on] \in EditableBand

\* What a handler has read is still so.
Knows(j) ==
    /\ j.step = "flip" => status[j.on] = "PRICING_REVIEW"
    /\ j.step \in {"check", "confirm"} => status[j.on] = "QUOTED" /\ j.draft = content[j.on]
    /\ j.op # "edit" /\ j.step \in {"delete", "blocked", "assets"} => j.sum = Held(j.on)
    /\ j.op # "edit" /\ j.step \in {"blocked", "assets"} => RowAssets(j.on) \subseteq j.aim
    /\ j.step = "released" => row[j.on] = NoRows

Informed(v) == job[v].stale \/ job[v].on \in overtaken \/ Knows(job[v])

KInv ==
    /\ offer \in [Entities -> Contents]
    /\ EmptyRows
    /\ \A v \in Actors : RoleFits(job[v]) /\ Informed(v)
    /\ HoldFollowsContent /\ QuoteStands

\* Steps that write no row, no status and no content.
LEMMA QuietKnows ==
    ASSUME IInv, KInv, NEW w \in Actors, NEW r \in Jobs, job' = [job EXCEPT ![w] = r],
           UNCHANGED <<status, content, row, offer>>, overtaken \subseteq overtaken',
           At(w, "released") => On(w) \in overtaken',
           RoleFits(r), r.stale \/ r.on \in overtaken \/ Knows(r)
    PROVE  KInv'
<1>1. job'[w] = r /\ \A v \in Actors \ {w} : job'[v] = job[v]
  BY DEF IInv, JobsFit
<1>2. ASSUME NEW v \in Actors
      PROVE  RoleFits(job[v])' /\ Informed(v)'
  <2>1. PICK j : j = job'[v]
    OBVIOUS
  <2>2. RoleFits(j) /\ (j.stale \/ j.on \in overtaken \/ Knows(j))
    BY <1>1, <2>1 DEF KInv, Informed
  <2> QED
    BY <2>1, <2>2 DEF RoleFits, Knows, Informed, Held, RowAssets
<1>3. EmptyRows'
  BY DEF KInv, EmptyRows
<1>4. ASSUME NEW e \in Entities, e \notin overtaken'
      PROVE  HalfDropped(e)' \/ (row[e] = ShouldHold(e))'
  <2>1. e \notin overtaken
    BY <1>4
  <2>2. CASE HalfDropped(e)
    <3>1. PICK v \in Actors : At(v, "released") /\ On(v) = e
      BY <2>2 DEF HalfDropped
    <3>2. v # w
      BY <1>4, <3>1
    <3> QED
      BY <1>1, <3>1, <3>2 DEF HalfDropped, At, On
  <2>3. CASE row[e] = ShouldHold(e)
    BY <2>3 DEF ShouldHold
  <2> QED
    BY <2>1, <2>2, <2>3 DEF KInv, HoldFollowsContent
<1>5. HoldFollowsContent'
  BY <1>4 DEF HoldFollowsContent
<1>6. QuoteStands'
  BY DEF KInv, QuoteStands
<1> QED
  BY <1>2, <1>3, <1>5, <1>6 DEF KInv

\* What a write of w on e leaves of another handler: it is outdated on e, or e is
\* counted as written by who was.
Outdated(w, e, v) ==
    \/ \E S : job'[v] = Overtake(w, e, S)[v]
    \/ job'[v] = job[v] /\ e \in overtaken'

LEMMA OutdatedFacts ==
    ASSUME IInv, NEW w \in Actors, NEW e, NEW v \in Actors \ {w}, Outdated(w, e, v)
    PROVE  /\ job'[v].op = job[v].op /\ job'[v].on = job[v].on /\ job'[v].step = job[v].step
           /\ job'[v] = job[v] \/ job'[v].stale
           /\ job[v].on = e /\ job[v].op # "edit" => job'[v].stale \/ e \in overtaken'
<1>0. CASE job'[v] = job[v] /\ e \in overtaken'
  BY <1>0
<1>1. ASSUME NEW S, job'[v] = Overtake(w, e, S)[v]
      PROVE  /\ job'[v].op = job[v].op /\ job'[v].on = job[v].on /\ job'[v].step = job[v].step
             /\ job'[v] = job[v] \/ job'[v].stale
             /\ job[v].on = e /\ job[v].op # "edit" => job'[v].stale
  <2>2. job[v] \in Jobs
    BY DEF IInv, JobsFit, JobFits
  <2>3. CASE job[v].on = e /\ job[v].op # "edit"
    <3>1. job'[v] = [job[v] EXCEPT !.stale = TRUE, !.aim = job[v].aim \ S]
      BY <1>1, <2>2, <2>3 DEF Overtake, Jobs
    <3>2. /\ job'[v].op = job[v].op /\ job'[v].on = job[v].on /\ job'[v].step = job[v].step
          /\ job'[v].stale = TRUE
      BY <2>2, <3>1 DEF Jobs
    <3> QED
      BY <3>2
  <2>4. CASE ~(job[v].on = e /\ job[v].op # "edit")
    <3>1. job'[v] = job[v]
      BY <1>1, <2>4 DEF Overtake
    <3> QED
      BY <2>4, <3>1
  <2> QED
    BY <2>3, <2>4
<1> QED
  BY <1>0, <1>1 DEF Outdated

OnlyOn(e) == \A g \in Entities \ {e} :
    /\ status'[g] = status[g] /\ content'[g] = content[g] /\ row'[g] = row[g] /\ offer'[g] = offer[g]

\* A write of w on e: the others on e are outdated; nobody edits e unless it
\* stays in the band; and e itself is as it should be.
LEMMA WriteKnows ==
    ASSUME IInv, KInv, NEW w \in Actors, NEW e \in Entities, OnlyOn(e), overtaken \subseteq overtaken',
           \A v \in Actors \ {w} : Outdated(w, e, v),
           (\E v \in Actors \ {w} : entityLock[e] = v) => status'[e] \in EditableBand \cup {status[e]},
           offer' \in [Entities -> Contents],
           \A a \in Assets : row'[e][a].qty = 0 => row'[e][a] = NoRow,
           RoleFits(job[w])', Informed(w)', On(w) = e,
           e \in overtaken' \/ HalfDropped(e)' \/ (row[e] = ShouldHold(e))',
           status'[e] \in {"QUOTED", "CONFIRMED"} => e \in overtaken' \/ content'[e] = offer'[e]
    PROVE  KInv'
<1>1. ASSUME NEW v \in Actors \ {w}
      PROVE  RoleFits(job[v])' /\ Informed(v)'
  <2>1. /\ job'[v].op = job[v].op /\ job'[v].on = job[v].on /\ job'[v].step = job[v].step
        /\ job'[v] = job[v] \/ job'[v].stale
        /\ job[v].on = e /\ job[v].op # "edit" => job'[v].stale \/ e \in overtaken'
    BY OutdatedFacts
  <2>2. RoleFits(job[v]) /\ Informed(v) /\ JobFits(v, job[v])
    BY DEF KInv, IInv, JobsFit
  <2>3. RoleFits(job[v])'
    <3>1. ASSUME job[v].op = "edit", job[v].step \in {"rows", "assets"}
          PROVE  status'[job[v].on] \in EditableBand
      <4>1. job[v].on \in Entities /\ entityLock[job[v].on] = v /\ status[job[v].on] \in EditableBand
        BY <2>2, <3>1 DEF RoleFits, JobFits
      <4> QED
        BY <4>1 DEF OnlyOn
    <3> QED
      BY <2>1, <2>2, <3>1 DEF RoleFits
  <2>4. Informed(v)'
    <3>1. CASE job'[v].stale
      BY <3>1 DEF Informed
    <3>2. CASE job[v].on \in overtaken'
      BY <2>1, <3>2 DEF Informed
    <3>3. CASE job'[v] = job[v] /\ ~job'[v].stale /\ job[v].on \notin overtaken'
      <4>1. CASE job[v].step = "idle"
        BY <3>3, <4>1 DEF Informed, Knows
      <4>2. CASE job[v].op = "edit"
        BY <2>2, <3>3, <4>2 DEF Informed, Knows, RoleFits
      <4>3. CASE job[v].step # "idle" /\ job[v].op # "edit"
        <5>1. job[v].on \in Entities \ {e}
          BY <2>1, <2>2, <3>3, <4>3 DEF JobFits
        <5>2. /\ status'[job[v].on] = status[job[v].on] /\ content'[job[v].on] = content[job[v].on]
              /\ row'[job[v].on] = row[job[v].on]
          BY <5>1 DEF OnlyOn
        <5>3. job[v].on \in overtaken \/ Knows(job[v])
          BY <2>2, <3>3 DEF Informed
        <5>4. Knows(job[v]) => Knows(job[v])'
          BY <3>3, <5>2 DEF Knows, Held, RowAssets
        <5> QED
          BY <3>3, <5>3, <5>4 DEF Informed
      <4> QED
        BY <4>1, <4>2, <4>3
    <3> QED
      BY <2>1, <3>1, <3>2, <3>3
  <2> QED
    BY <2>3, <2>4
<1>2. EmptyRows'
  BY DEF KInv, EmptyRows, OnlyOn
<1>3. ASSUME NEW g \in Entities \ {e}, g \notin overtaken'
      PROVE  HalfDropped(g)' \/ (row[g] = ShouldHold(g))'
  <2>1. CASE HalfDropped(g)
    <3>1. PICK v \in Actors : At(v, "released") /\ On(v) = g
      BY <2>1 DEF HalfDropped
    <3>2. v # w
      BY <3>1
    <3>3. job'[v].on = job[v].on /\ job'[v].step = job[v].step
      BY <3>2, OutdatedFacts
    <3> QED
      BY <3>1, <3>3 DEF HalfDropped, At, On
  <2>2. CASE row[g] = ShouldHold(g)
    BY <2>2 DEF ShouldHold, OnlyOn
  <2> QED
    BY <1>3, <2>1, <2>2 DEF KInv, HoldFollowsContent
<1>4. HoldFollowsContent'
  BY <1>3 DEF HoldFollowsContent
<1>5. QuoteStands'
  BY DEF KInv, QuoteStands, OnlyOn
<1> QED
  BY <1>1, <1>2, <1>4, <1>5 DEF KInv
\* The counters follow what is held: e holds new instead of old of every asset.
LEMMA CounterFollows ==
    ASSUME IInv, TypeOK', CounterExact, overtaken = {}, NEW e \in Entities,
           NEW old \in [Assets -> Nat], NEW new \in [Assets -> Nat],
           \A a \in Assets : row[e][a].qty = old[a] /\ row'[e][a].qty = new[a],
           \A g \in Entities \ {e} : row'[g] = row[g],
           avail' = AvailAfter(old, new), clamped' = clamped \cup ClampedBy(old, new)
    PROVE  CounterExact'
<1> SUFFICES ASSUME NEW a \in Assets, a \notin clamped'
             PROVE  avail'[a] = Stock[a] - Booked(a, Entities)'
  BY DEF CounterExact
<1>1. avail[a] = Stock[a] - Booked(a, Entities)
  BY DEF CounterExact
<1>2. avail'[a] = avail[a] + Net(old, new, a)
  BY DEF ClampedBy
<1> DEFINE n == Quantity(row, a)
           m == Quantity(row', a)
<1>3. /\ \A g \in Entities : m[g] \in Nat /\ n[g] \in Nat
      /\ \A g \in Entities \ {e} : m[g] = n[g]
      /\ m[e] = new[a] /\ n[e] = old[a]
  BY DEF IInv, TypeOK, Quantity
<1>4. Cardinality(CountedUnits(m, Entities)) = Cardinality(CountedUnits(n, Entities)) + m[e] - n[e]
  <2> HIDE DEF m, n
  <2> QED
    BY <1>3, EntitiesFinite, CountAfterChange
<1>5. /\ Booked(a, Entities) = Cardinality(CountedUnits(n, Entities))
      /\ Booked(a, Entities)' = Cardinality(CountedUnits(m, Entities))
  BY BookedIsCount
<1>6. Cardinality(CountedUnits(n, Entities)) \in Nat
  <2> HIDE DEF m, n
  <2> QED
    BY <1>3, EntitiesFinite, CountIsFinite
<1>7. Stock[a] \in Nat /\ old[a] \in Nat /\ new[a] \in Nat
  BY StockType
<1> HIDE DEF m, n
<1> QED
  BY <1>1, <1>2, <1>3, <1>4, <1>5, <1>6, <1>7 DEF Net

LEMMA CounterStays ==
    ASSUME CounterExact, UNCHANGED <<row, avail>>, overtaken \subseteq overtaken', clamped \subseteq clamped'
    PROVE  CounterExact'
BY DEF CounterExact, Booked, Units

CInv == IInv /\ KInv /\ CounterExact

\* A handler begins with what it reads.
LEMMA BeginKnows ==
    ASSUME CInv, NEW w \in Actors, NEW e \in Entities, BeginAny(w, e)
    PROVE  KInv' /\ CounterExact'
<1>1. /\ UNCHANGED <<status, content, row, avail, offer, overtaken, clamped>> /\ job[w] = Idle
      /\ \A a \in Assets : avail'[a] = avail[a]
  BY DEF BeginAny, BeginEdit, BeginRelease, BeginCancel, BeginQuote, BeginApprove, Begin, history
<1>2. CounterExact'
  BY <1>1, CounterStays DEF CInv
<1>3. IInv' /\ IInv
  BY BeginKeeps DEF CInv
<1>4. PICK r \in Jobs : Begin(w, r) /\ r = job'[w]
  <2>1. \E r : Begin(w, r)
    BY DEF BeginAny, BeginEdit, BeginRelease, BeginCancel, BeginQuote, BeginApprove
  <2>2. PICK r : Begin(w, r)
    BY <2>1
  <2>3. job'[w] = r
    BY <1>3, <2>2 DEF Begin, JobsFit, IInv
  <2> QED
    BY <1>3, <2>2, <2>3 DEF IInv, JobsFit, JobFits
<1>5. ASSUME NEW op, NEW step
      PROVE  LET j == JobFor(op, e, step) IN j.on = e /\ j.op = op /\ j.step = step
  BY DEF JobFor, Idle
<1>6. RoleFits(r) /\ Knows(r)
  <2>1. CASE \E change \in Changes[e] : BeginEdit(w, e, change)
    <3>1. PICK change \in Changes[e] : BeginEdit(w, e, change)
      BY <2>1
    <3>2. job'[w] = [JobFor("edit", e, "entity") EXCEPT !.change = change]
      BY <1>3, <3>1 DEF BeginEdit, Begin, IInv, JobsFit
    <3>3. r.op = "edit" /\ r.step = "entity"
      BY <1>4, <3>2 DEF JobFor, Idle
    <3> QED
      BY <3>3 DEF RoleFits, Knows
  <2>2. CASE BeginRelease(w, e)
    <3>1. r.op = "release" /\ r.step = "sum"
      BY <1>3, <1>4, <1>5, <2>2 DEF BeginRelease, Begin, IInv, JobsFit
    <3> QED
      BY <3>1 DEF RoleFits, Knows
  <2>3. CASE BeginCancel(w, e)
    <3>1. CASE e \in Pickups
      <4>1. r.op = "drop" /\ r.step = "sum" /\ r.on = e
        BY <1>3, <1>4, <1>5, <2>3, <3>1 DEF BeginCancel, Begin, IInv, JobsFit
      <4> QED
        BY <3>1, <4>1 DEF RoleFits, Knows
    <3>2. CASE e \notin Pickups
      <4>1. r.op = "cancel" /\ r.step = "entity"
        BY <1>3, <1>4, <1>5, <2>3, <3>2 DEF BeginCancel, Begin, IInv, JobsFit
      <4> QED
        BY <4>1 DEF RoleFits, Knows
    <3> QED
      BY <3>1, <3>2
  <2>4. CASE BeginQuote(w, e)
    <3>1. r.op = "quote" /\ r.step = "flip" /\ r.on = e /\ status[e] = "PRICING_REVIEW"
      BY <1>3, <1>4, <1>5, <2>4 DEF BeginQuote, Begin, IInv, JobsFit
    <3> QED
      BY <3>1 DEF RoleFits, Knows
  <2>5. CASE BeginApprove(w, e)
    <3>1. PICK step \in {"confirm", "check"} : step = IF e \in Pickups THEN "confirm" ELSE "check"
      OBVIOUS
    <3>2. job'[w] = [JobFor("approve", e, step) EXCEPT !.draft = content[e]]
      BY <1>3, <2>5, <3>1 DEF BeginApprove, Begin, IInv, JobsFit
    <3>3. r.op = "approve" /\ r.step = step /\ r.on = e /\ r.draft = content[e]
      BY <1>4, <3>2 DEF JobFor, Idle
    <3>4. status[e] = "QUOTED"
      BY <2>5 DEF BeginApprove
    <3> QED
      BY <3>1, <3>3, <3>4 DEF RoleFits, Knows
  <2> QED
    BY <2>1, <2>2, <2>3, <2>4, <2>5 DEF BeginAny
<1>7. ~At(w, "released")
  BY <1>1, IdleFacts DEF At
<1> QED
  BY <1>1, <1>2, <1>3, <1>4, <1>6, <1>7, QuietKnows DEF CInv, Begin

\* A step of w that writes nothing but locks and its own job.
LEMMA OwnStepKnows ==
    ASSUME CInv, IInv', NEW w \in Actors, NEW r, job' = [job EXCEPT ![w] = r],
           UNCHANGED <<status, content, row, avail, offer, clamped>>, overtaken \subseteq overtaken',
           At(w, "released") => On(w) \in overtaken',
           RoleFits(r), r.stale \/ r.on \in overtaken \/ Knows(r)
    PROVE  KInv' /\ CounterExact'
<1>1. job'[w] = r /\ r \in Jobs
  BY DEF CInv, IInv, JobsFit, JobFits
<1>2. CounterExact'
  BY CounterStays DEF CInv
<1> QED
  BY <1>1, <1>2, QuietKnows DEF CInv

LEMMA IdleKnows == RoleFits(Idle) /\ Knows(Idle)
BY DEF RoleFits, Knows, Idle

\* A crash between the two transactions of a drop leaves e to be counted as outdated.
LEMMA AbortKnows ==
    ASSUME CInv, IInv', NEW w \in Actors, Abort(w)
    PROVE  KInv' /\ CounterExact'
BY OwnStepKnows, IdleKnows DEF Abort

LEMMA LockKnows ==
    ASSUME CInv, IInv', NEW w \in Actors, LockForEdit(w) \/ LockForCancel(w) \/ LockRows(w)
    PROVE  KInv' /\ CounterExact'
<1>1. /\ job[w] \in Jobs /\ RoleFits(job[w]) /\ JobFits(w, job[w])
      /\ UNCHANGED <<status, content, row, avail, offer, overtaken, clamped>>
      /\ ~At(w, "released")
  BY DEF CInv, IInv, JobsFit, JobFits, KInv, LockForEdit, LockForCancel, LockRows, history, At
<1>2. CASE job' = [job EXCEPT ![w] = Idle]
  BY <1>1, <1>2, IdleKnows, OwnStepKnows
<1>3. CASE LockForEdit(w) /\ job' # [job EXCEPT ![w] = Idle]
  <2> DEFINE d == Edited(content[On(w)], job[w].change)
             r == [job[w] EXCEPT !.step = "rows", !.draft = d]
  <2>1. /\ job' = [job EXCEPT ![w] = r] /\ job[w].op = "edit" /\ Editable(On(w))
    BY <1>1, <1>3 DEF LockForEdit
  <2>2. r.op = "edit" /\ r.step = "rows" /\ r.on = job[w].on
    BY <1>1, <2>1 DEF Jobs
  <2>3. RoleFits(r) /\ Knows(r)
    <3> HIDE DEF r
    <3> QED
      BY <1>1, <2>1, <2>2 DEF RoleFits, Knows, Editable, On
  <2> HIDE DEF r
  <2> QED
    BY <1>1, <2>1, <2>3, OwnStepKnows
<1>4. CASE LockForCancel(w)
  <2> DEFINE r == [job[w] EXCEPT !.step = "sum"]
  <2>1. job' = [job EXCEPT ![w] = r] /\ job[w].op = "cancel"
    BY <1>1, <1>4 DEF LockForCancel, GoTo
  <2>2. r.op = "cancel" /\ r.step = "sum" /\ r.on = job[w].on
    BY <1>1, <2>1 DEF Jobs
  <2>3. RoleFits(r) /\ Knows(r)
    <3> HIDE DEF r
    <3> QED
      BY <2>2 DEF RoleFits, Knows
  <2> HIDE DEF r
  <2> QED
    BY <1>1, <2>1, <2>3, OwnStepKnows
<1>5. CASE LockRows(w)
  <2> DEFINE r == [job[w] EXCEPT !.step = "assets"]
  <2>1. job' = [job EXCEPT ![w] = r] /\ job[w].op = "edit" /\ job[w].step = "rows"
    BY <1>1, <1>5 DEF LockRows, GoTo, JobFits, At
  <2>2. r.op = "edit" /\ r.step = "assets" /\ r.on = job[w].on
    BY <1>1, <2>1 DEF Jobs
  <2>3. RoleFits(r) /\ Knows(r)
    <3> HIDE DEF r
    <3> QED
      BY <1>1, <2>1, <2>2 DEF RoleFits, Knows
  <2> HIDE DEF r
  <2> QED
    BY <1>1, <2>1, <2>3, OwnStepKnows
<1> QED
  BY <1>2, <1>3, <1>4, <1>5

LEMMA LockAssetKnows ==
    ASSUME CInv, IInv', NEW w \in Actors, NEW a \in Assets, LockAsset(w, a)
    PROVE  KInv' /\ CounterExact'
<1>1. UNCHANGED <<status, content, row, avail, offer, overtaken, clamped>> /\ ~At(w, "released")
  BY DEF LockAsset, Rollback, history, At
<1>2. CASE job' = [job EXCEPT ![w] = Idle]
  BY <1>1, <1>2, IdleKnows, OwnStepKnows
<1>3. CASE job' # [job EXCEPT ![w] = Idle]
  <2>1. job' = [job EXCEPT ![w] = job[w]]
    BY <1>3 DEF LockAsset, Rollback, CInv, IInv, JobsFit
  <2>2. RoleFits(job[w]) /\ Informed(w)
    BY DEF CInv, KInv
  <2> QED
    BY <1>1, <2>1, <2>2, OwnStepKnows DEF Informed
<1> QED
  BY <1>2, <1>3

\* A release knows the sum from its first step on, and its rows from the second.
LEMMA DeleteKnows ==
    ASSUME CInv, IInv', NEW w \in Actors, SumRows(w) \/ DeleteRows(w) \/ UnblockDelete(w)
    PROVE  KInv' /\ CounterExact'
<1>1. /\ job[w] \in Jobs /\ RoleFits(job[w]) /\ Informed(w) /\ JobFits(w, job[w])
      /\ UNCHANGED <<status, content, row, avail, offer, overtaken, clamped>>
      /\ ~At(w, "released")
  BY DEF CInv, IInv, JobsFit, JobFits, KInv, SumRows, DeleteRows, UnblockDelete, history, At
<1>2. CASE SumRows(w)
  <2> DEFINE r == [job[w] EXCEPT !.step = "delete", !.sum = Held(On(w))]
  <2>1. job' = [job EXCEPT ![w] = r]
    BY <1>2 DEF SumRows
  <2>2. r.op = job[w].op /\ r.step = "delete" /\ r.on = job[w].on /\ r.sum = Held(job[w].on)
    BY <1>1 DEF Jobs, On
  <2>3. RoleFits(r) /\ Knows(r)
    <3> HIDE DEF r
    <3> QED
      BY <1>1, <2>2 DEF RoleFits, Knows
  <2> HIDE DEF r
  <2> QED
    BY <1>1, <2>1, <2>3, OwnStepKnows
<1>3. CASE DeleteRows(w)
  <2>1. PICK goal \in {"assets", "blocked"} :
            job' = [job EXCEPT ![w] = [job[w] EXCEPT !.step = goal, !.aim = RowAssets(On(w))]]
    BY <1>1, <1>3 DEF DeleteRows
  <2> DEFINE r == [job[w] EXCEPT !.step = goal, !.aim = RowAssets(On(w))]
  <2>2. /\ r.op = job[w].op /\ r.step = goal /\ r.on = job[w].on /\ r.aim = RowAssets(job[w].on)
        /\ r.sum = job[w].sum /\ r.stale = job[w].stale /\ r.op # "edit" /\ job[w].step = "delete"
    BY <1>1, <1>3 DEF Jobs, On, DeleteRows, At, JobFits
  <2>3. RoleFits(r) /\ (r.stale \/ r.on \in overtaken \/ Knows(r))
    <3> HIDE DEF r
    <3> QED
      BY <1>1, <2>2 DEF RoleFits, Knows, Informed
  <2>4. job' = [job EXCEPT ![w] = r]
    BY <2>1
  <2> HIDE DEF r
  <2> QED
    BY <1>1, <2>3, <2>4, OwnStepKnows
<1>4. CASE UnblockDelete(w)
  <2> DEFINE r == [job[w] EXCEPT !.step = "assets"]
  <2>1. job' = [job EXCEPT ![w] = r]
    BY <1>1, <1>4 DEF UnblockDelete, GoTo
  <2>2. /\ r.op = job[w].op /\ r.step = "assets" /\ r.on = job[w].on /\ r.aim = job[w].aim
        /\ r.sum = job[w].sum /\ r.stale = job[w].stale /\ r.op # "edit" /\ job[w].step = "blocked"
    BY <1>1, <1>4 DEF Jobs, UnblockDelete, At, JobFits
  <2>3. RoleFits(r) /\ (r.stale \/ r.on \in overtaken \/ Knows(r))
    <3> HIDE DEF r
    <3> QED
      BY <1>1, <2>2 DEF RoleFits, Knows, Informed
  <2> HIDE DEF r
  <2> QED
    BY <1>1, <2>1, <2>3, OwnStepKnows
<1> QED
  BY <1>2, <1>3, <1>4

\* COMMIT of a handler that ends.
LEMMA DoneKnows ==
    ASSUME CInv, IInv', NEW w \in Actors, NEW e \in Entities, On(w) = e, NEW S, job' = Overtake(w, e, S)
    PROVE  /\ RoleFits(job[w])' /\ Informed(w)'
           /\ \A v \in Actors \ {w} : Outdated(w, e, v)
<1>1. job'[w] = Idle
  BY DEF Overtake
<1>2. RoleFits(job[w])' /\ Informed(w)'
  BY <1>1 DEF RoleFits, Informed, Knows, Idle
<1> QED
  BY <1>2 DEF Outdated

\* A status written by who has read e as it is keeps e together; by another, e
\* is outdated.
LEMMA FlipKnows ==
    ASSUME CInv, IInv', NEW w \in Actors, FlipDropped(w) \/ Quote(w) \/ Confirm(w)
    PROVE  KInv' /\ CounterExact'
<1>0. PICK e \in Entities : e = On(w)
  BY DEF CInv, IInv, JobsFit, JobFits, FlipDropped, Quote, Confirm, At, On
<1>1. /\ job[w] \in Jobs /\ RoleFits(job[w]) /\ Informed(w) /\ JobFits(w, job[w])
      /\ UNCHANGED <<content, row, avail, clamped>> /\ overtaken' = Overtaken(w)
      /\ entityLock[e] = Nobody /\ job' = Overtake(w, e, {})
  BY <1>0 DEF CInv, IInv, JobsFit, JobFits, KInv, FlipDropped, Quote, Confirm
<1>2. overtaken \subseteq overtaken' /\ (e \in overtaken' \/ Knows(job[w]))
  BY <1>0, <1>1 DEF Overtaken, Informed, On
<1>3. /\ status' = [status EXCEPT ![e] = status'[e]] /\ OnlyOn(e) /\ offer' \in [Entities -> Contents]
  BY <1>0, <1>1 DEF FlipDropped, Quote, Confirm, OnlyOn, CInv, IInv, TypeOK, KInv
<1>4. CounterExact'
  BY <1>1, <1>2, CounterStays DEF CInv
<1>5. ~\E v \in Actors \ {w} : entityLock[e] = v
  BY <1>1, NobodyType
<1>6. /\ RoleFits(job[w])' /\ Informed(w)' /\ \A v \in Actors \ {w} : Outdated(w, e, v)
  BY <1>0, <1>1, DoneKnows
<1>7. \A a \in Assets : row'[e][a].qty = 0 => row'[e][a] = NoRow
  BY <1>1 DEF CInv, KInv, EmptyRows
<1>8. ASSUME e \notin overtaken'
      PROVE  /\ HalfDropped(e)' \/ (row[e] = ShouldHold(e))'
             /\ status'[e] \in {"QUOTED", "CONFIRMED"} => content'[e] = offer'[e]
  <2>1. Knows(job[w]) /\ e \notin overtaken
    BY <1>2, <1>8
  <2>2. HalfDropped(e) \/ row[e] = ShouldHold(e)
    BY <1>1, <2>1 DEF CInv, KInv, HoldFollowsContent
  <2>3. CASE FlipDropped(w)
    <3>1. row[e] = NoRows /\ status'[e] = "DROPPED"
      BY <1>0, <1>1, <2>1, <2>3 DEF FlipDropped, Knows, At, On, CInv, IInv, TypeOK
    <3>2. status'[e] \notin Holding /\ status'[e] \notin {"QUOTED", "CONFIRMED"}
      BY <3>1 DEF Holding, EditableBand
    <3> QED
      BY <1>1, <3>1, <3>2 DEF ShouldHold
  <2>4. CASE Quote(w) \/ Confirm(w)
    <3>1. status[e] \in Holding /\ status'[e] \in Holding /\ ~At(w, "released")
      BY <1>0, <1>1, <2>1, <2>4 DEF Quote, Confirm, Knows, At, On, CInv, IInv, TypeOK, Holding, EditableBand
    <3>0. content'[e] = offer'[e]
      <4>1. CASE Quote(w)
        BY <1>0, <1>1, <4>1 DEF Quote, CInv, KInv, IInv, TypeOK
      <4>2. CASE Confirm(w)
        BY <1>0, <1>1, <2>1, <4>2 DEF Confirm, Knows, At, On, CInv, KInv, QuoteStands
      <4> QED
        BY <2>4, <4>1, <4>2
    <3>2. CASE HalfDropped(e)
      <4>1. PICK v \in Actors : At(v, "released") /\ On(v) = e
        BY <3>2 DEF HalfDropped
      <4>2. v # w /\ Outdated(w, e, v)
        BY <1>0, <1>6, <3>1, <4>1
      <4>3. job'[v].on = job[v].on /\ job'[v].step = job[v].step
        BY <4>2, OutdatedFacts DEF CInv
      <4>4. HalfDropped(e)'
        BY <4>1, <4>3 DEF HalfDropped, At, On
      <4> QED
        BY <4>4, <3>0
    <3>3. CASE row[e] = ShouldHold(e)
      <4>1. (row[e] = ShouldHold(e))'
        BY <1>1, <3>1, <3>3 DEF ShouldHold
      <4> QED
        BY <4>1, <3>0
    <3> QED
      BY <2>2, <3>2, <3>3
  <2> QED
    BY <2>3, <2>4
<1>9. KInv'
  BY <1>0, <1>2, <1>3, <1>5, <1>6, <1>7, <1>8, WriteKnows DEF CInv
<1> QED
  BY <1>4, <1>9

LEMMA RowsOfEmpty ==
    ASSUME NEW c \in Contents
    PROVE  \A a \in Assets : RowsOf(c)[a].qty = 0 => RowsOf(c)[a] = NoRow
BY DEF RowsOf, Contents, NoRow

\* An edit writes the rows of what it writes, and takes a quote back.
LEMMA CommitEditKnows ==
    ASSUME CInv, IInv', NEW w \in Actors, CommitEdit(w)
    PROVE  KInv' /\ CounterExact'
<1>1. PICK e \in Entities, c \in Contents : On(w) = e /\ job[w].draft = c
  BY DEF CInv, IInv, JobsFit, JobFits, CommitEdit, At, On
<1>2. /\ status[e] \in EditableBand /\ entityLock[e] = w
  BY <1>1 DEF CInv, IInv, JobsFit, JobFits, KInv, RoleFits, CommitEdit, At, On
<1>3. /\ content' = [content EXCEPT ![e] = c] /\ row' = [row EXCEPT ![e] = RowsOf(c)]
      /\ avail' = AvailAfter(Held(e), c.items) /\ clamped' = clamped \cup ClampedBy(Held(e), c.items)
      /\ status' = [status EXCEPT ![e] = StatusAfter(e)] /\ UNCHANGED <<offer, overtaken>>
  BY <1>1 DEF CommitEdit, RowsAfter, FreedBy
<1>4. PICK S : job' = Overtake(w, e, S)
  BY <1>1 DEF CommitEdit
<1>5. status'[e] = "PRICING_REVIEW"
  BY <1>2, <1>3 DEF StatusAfter, EditableBand, CInv, IInv, TypeOK
<1>6. OnlyOn(e) /\ content'[e] = c /\ row'[e] = RowsOf(c) /\ \A g \in Entities \ {e} : row'[g] = row[g]
  BY <1>3 DEF OnlyOn, CInv, IInv, TypeOK
<1>7. (row[e] = ShouldHold(e))'
  BY <1>5, <1>6 DEF ShouldHold, Holding, EditableBand, RowsOf
<1>8. RoleFits(job[w])' /\ Informed(w)' /\ \A v \in Actors \ {w} : Outdated(w, e, v)
  BY <1>1, <1>4, DoneKnows
<1>9. KInv'
  <2>1. offer' \in [Entities -> Contents] /\ status'[e] \in EditableBand
        /\ status'[e] \notin {"QUOTED", "CONFIRMED"}
    BY <1>3, <1>5 DEF CInv, KInv, EditableBand
  <2>2. \A a \in Assets : row'[e][a].qty = 0 => row'[e][a] = NoRow
    BY <1>6, RowsOfEmpty
  <2>3. OnlyOn(e) /\ overtaken \subseteq overtaken' /\ IInv /\ KInv
    BY <1>3, <1>6 DEF CInv
  <2> QED
    BY <1>1, <1>7, <1>8, <2>1, <2>2, <2>3, WriteKnows
<1>10. CounterExact'
  <2>1. CASE overtaken = {}
    <3>1. \A a \in Assets : row[e][a].qty = Held(e)[a] /\ row'[e][a].qty = c.items[a]
      BY <1>6, RowsOfType DEF Held
    <3> QED
      BY <1>3, <1>6, <2>1, <3>1, HeldType, RowsOfType, CounterFollows DEF CInv, IInv
  <2>2. CASE overtaken # {}
    BY <1>3, <2>2 DEF CounterExact
  <2> QED
    BY <2>1, <2>2
<1> QED
  BY <1>9, <1>10

\* Nobody works on an entity that is being submitted, and it holds nothing.
LEMMA SubmitKnows ==
    ASSUME CInv, IInv', NEW e \in Entities, Submit(e)
    PROVE  KInv' /\ CounterExact'
<1>1. PICK c \in Contents : c = content[e]
  BY DEF CInv, IInv, TypeOK
<1>2. /\ status[e] = "NONE" /\ status' = [status EXCEPT ![e] = "PRICING_REVIEW"]
      /\ row' = [row EXCEPT ![e] = RowsOf(c)] /\ avail' = AvailAfter(Nothing, c.items)
      /\ clamped' = clamped \cup ClampedBy(Nothing, c.items)
      /\ UNCHANGED <<content, job, offer, overtaken>>
  BY <1>1 DEF Submit
<1>3. \A v \in Actors : job[v].step # "idle" => job[v].on \in Entities \ {e}
  BY <1>2 DEF CInv, IInv, JobsFit, JobFits
<1>4. OnlyOn(e) /\ row'[e] = RowsOf(c) /\ \A g \in Entities \ {e} : row'[g] = row[g]
  BY <1>2 DEF OnlyOn, CInv, IInv, TypeOK
<1>5. ASSUME NEW v \in Actors
      PROVE  RoleFits(job[v])' /\ Informed(v)'
  <2>1. RoleFits(job[v]) /\ Informed(v)
    BY DEF CInv, KInv
  <2>2. CASE job[v].step = "idle"
    BY <1>2, <2>1, <2>2 DEF RoleFits, Informed, Knows
  <2>3. CASE job[v].step # "idle"
    <3>1. PICK g \in Entities \ {e} : g = job[v].on
      BY <1>3, <2>3
    <3>2. status'[g] = status[g] /\ content'[g] = content[g] /\ row'[g] = row[g] /\ job' = job
      BY <1>2, <1>4 DEF OnlyOn
    <3>3. RoleFits(job[v])'
      BY <2>1, <3>1, <3>2 DEF RoleFits
    <3>4. Knows(job[v]) => Knows(job[v])'
      BY <3>1, <3>2 DEF Knows, Held, RowAssets
    <3> QED
      BY <1>2, <2>1, <3>2, <3>3, <3>4 DEF Informed
  <2> QED
    BY <2>2, <2>3
<1>6. EmptyRows'
  BY <1>4, RowsOfEmpty DEF EmptyRows, CInv, KInv
<1>7. HoldFollowsContent'
  <2>1. (row[e] = ShouldHold(e))'
    <3>1. status'[e] \in Holding /\ content'[e] = c
      BY <1>1, <1>2 DEF CInv, IInv, TypeOK, Holding, EditableBand
    <3> QED
      BY <1>4, <3>1 DEF ShouldHold, RowsOf
  <2>2. ASSUME NEW g \in Entities \ {e}
        PROVE  /\ HalfDropped(g) => HalfDropped(g)'
               /\ row[g] = ShouldHold(g) => (row[g] = ShouldHold(g))'
    BY <1>2, <1>4 DEF HalfDropped, At, On, ShouldHold, OnlyOn
  <2> QED
    BY <1>2, <2>1, <2>2 DEF HoldFollowsContent, CInv, KInv
<1>8. QuoteStands'
  BY <1>2, <1>4 DEF QuoteStands, CInv, KInv, OnlyOn, IInv, TypeOK
<1>9. KInv'
  BY <1>2, <1>5, <1>6, <1>7, <1>8 DEF KInv, CInv
<1>10. CounterExact'
  <2>1. CASE overtaken = {}
    <3>1. row[e] = NoRows
      <4>1. ~HalfDropped(e)
        BY <1>3 DEF HalfDropped, At, On
      <4> QED
        BY <1>2, <2>1, <4>1 DEF CInv, KInv, HoldFollowsContent, ShouldHold, Holding, EditableBand
    <3>2. \A a \in Assets : row[e][a].qty = Nothing[a] /\ row'[e][a].qty = c.items[a]
      BY <1>4, <3>1, RowsOfType DEF Nothing, NoRows, NoRow
    <3> QED
      BY <1>2, <1>4, <2>1, <3>2, HeldType, RowsOfType, CounterFollows DEF CInv, IInv
  <2>2. CASE overtaken # {}
    BY <1>2, <2>2 DEF CounterExact
  <2> QED
    BY <2>1, <2>2
<1> QED
  BY <1>9, <1>10

\* A release deletes the rows it has seen: all of them unless it is outdated.
LEMMA DropRows ==
    ASSUME CInv, IInv', NEW w \in Actors, CommitDrop(w) \/ CommitRelease(w),
           NEW e \in Entities, On(w) = e
    PROVE  /\ \A a \in Assets : row'[e][a].qty = 0 => row'[e][a] = NoRow
           /\ \A g \in Entities \ {e} : row'[g] = row[g]
           /\ overtaken \subseteq overtaken'
           /\ e \in overtaken' \/ (e \notin overtaken /\ row'[e] = NoRows)
           /\ CounterExact'
<1>1. /\ job[w] \in Jobs /\ Informed(w) /\ At(w, "assets") /\ job[w].op # "edit"
      /\ row' = [row EXCEPT ![e] = [a \in Assets |-> IF a \in job[w].aim THEN NoRow ELSE row[e][a]]]
      /\ overtaken' = Overtaken(w)
      /\ avail' = AvailAfter(job[w].sum, Nothing)
      /\ clamped' = clamped \cup ClampedBy(job[w].sum, Nothing)
  BY DEF CInv, IInv, JobsFit, JobFits, KInv, CommitDrop, CommitRelease
<1>2. /\ \A a \in Assets : row'[e][a] = IF a \in job[w].aim THEN NoRow ELSE row[e][a]
      /\ row'[e] = [a \in Assets |-> row'[e][a]]
      /\ \A g \in Entities \ {e} : row'[g] = row[g]
  BY <1>1 DEF CInv, IInv, TypeOK
<1>3. \A a \in Assets : row'[e][a].qty = 0 => row'[e][a] = NoRow
  BY <1>2 DEF CInv, KInv, EmptyRows
<1>4. overtaken \subseteq overtaken' /\ (job[w].stale => e \in overtaken')
  BY <1>1 DEF Overtaken, On
<1>5. ASSUME e \notin overtaken'
      PROVE  /\ ~job[w].stale /\ e \notin overtaken /\ row'[e] = NoRows
             /\ job[w].sum = Held(e)
  <2>1. ~job[w].stale /\ e \notin overtaken /\ Knows(job[w])
    BY <1>1, <1>4, <1>5 DEF Informed, On
  <2>2. RowAssets(e) \subseteq job[w].aim /\ job[w].sum = Held(e)
    BY <1>1, <2>1 DEF Knows, At, On
  <2>3. \A a \in Assets : row'[e][a] = NoRow
    <3> SUFFICES ASSUME NEW a \in Assets, a \notin job[w].aim
                 PROVE  row[e][a] = NoRow
      BY <1>2
    <3>1. ~(row[e][a].qty > 0) /\ row[e][a].qty \in Nat
      BY <2>2, QuantityType DEF RowAssets, CInv, IInv
    <3> QED
      BY <3>1 DEF CInv, KInv, EmptyRows
  <2>4. row'[e] = NoRows
    BY <1>2, <2>3 DEF NoRows
  <2> QED
    BY <2>1, <2>2, <2>4
<1>6. CounterExact'
  <2>1. CASE overtaken' = {}
    <3>1. overtaken = {} /\ row'[e] = NoRows /\ job[w].sum = Held(e)
      BY <1>4, <1>5, <2>1
    <3>2. \A a \in Assets : row[e][a].qty = Held(e)[a] /\ row'[e][a].qty = Nothing[a]
      BY <3>1 DEF Held, Nothing, NoRows, NoRow
    <3>3. avail' = AvailAfter(Held(e), Nothing) /\ clamped' = clamped \cup ClampedBy(Held(e), Nothing)
      BY <1>1, <3>1
    <3> QED
      BY <1>2, <3>1, <3>2, <3>3, HeldType, CounterFollows DEF CInv, IInv
  <2>2. CASE overtaken' # {}
    BY <2>2 DEF CounterExact
  <2> QED
    BY <2>1, <2>2
<1> QED
  BY <1>2, <1>3, <1>4, <1>5, <1>6

LEMMA DropKnows ==
    ASSUME CInv, IInv', NEW w \in Actors, CommitDrop(w) \/ CommitRelease(w)
    PROVE  KInv' /\ CounterExact'
<1>1. PICK e \in Entities : On(w) = e
  BY DEF CInv, IInv, JobsFit, JobFits, CommitDrop, CommitRelease, At, On
<1>2. /\ \A a \in Assets : row'[e][a].qty = 0 => row'[e][a] = NoRow
      /\ \A g \in Entities \ {e} : row'[g] = row[g]
      /\ overtaken \subseteq overtaken'
      /\ e \in overtaken' \/ (e \notin overtaken /\ row'[e] = NoRows)
      /\ CounterExact'
  BY <1>1, DropRows
<1>3. IInv /\ KInv /\ offer' \in [Entities -> Contents] /\ OnlyOn(e)
  BY <1>1, <1>2 DEF CommitDrop, CommitRelease, CInv, KInv, OnlyOn, IInv, TypeOK
<1>4. CASE CommitDrop(w)
  <2>1. /\ job' = Overtake(w, e, {}) /\ status'[e] = "DROPPED" /\ entityLock[e] \in {w, Nobody}
    BY <1>1, <1>4 DEF CommitDrop, CInv, IInv, TypeOK
  <2>2. /\ RoleFits(job[w])' /\ Informed(w)' /\ \A v \in Actors \ {w} : Outdated(w, e, v)
    BY <1>1, <2>1, DoneKnows
  <2>3. ~\E v \in Actors \ {w} : entityLock[e] = v
    BY <2>1, NobodyType
  <2>4. status'[e] \notin {"QUOTED", "CONFIRMED"} /\ (e \in overtaken' \/ (row[e] = ShouldHold(e))')
    BY <1>2, <2>1 DEF ShouldHold, Holding, EditableBand
  <2>5. KInv'
    BY <1>1, <1>2, <1>3, <2>2, <2>3, <2>4, WriteKnows
  <2> QED
    BY <1>2, <2>5
<1>5. CASE CommitRelease(w)
  <2> DEFINE r == [job[w] EXCEPT !.step = "released"]
  <2>1. job' = [Overtake(w, e, {}) EXCEPT ![w] = r] /\ job[w].op = "drop" /\ job[w] \in Jobs
    BY <1>1, <1>5 DEF CommitRelease, CInv, IInv, JobsFit, JobFits
  <2>2. DOMAIN Overtake(w, e, {}) = Actors
    BY DEF Overtake
  <2>3. job'[w] = r /\ \A v \in Actors \ {w} : job'[v] = Overtake(w, e, {})[v]
    <3> HIDE DEF r
    <3> QED
      BY <2>1, <2>2
  <2>4. r.op = "drop" /\ r.on = e /\ r.step = "released"
    BY <1>1, <2>1 DEF Jobs, On
  <2>5. e \in Pickups
    BY <1>1, <2>1 DEF CInv, KInv, RoleFits, On
  <2>6. RoleFits(job[w])' /\ Informed(w)' /\ HalfDropped(e)'
    <3> HIDE DEF r
    <3>1. job'[w].op = "drop" /\ job'[w].on = e /\ job'[w].step = "released"
      BY <2>3, <2>4
    <3>2. RoleFits(job[w])'
      BY <2>5, <3>1 DEF RoleFits
    <3>3. Informed(w)'
      BY <1>2, <3>1 DEF Informed, Knows
    <3>4. HalfDropped(e)'
      BY <3>1 DEF HalfDropped, At, On
    <3> QED
      BY <3>2, <3>3, <3>4
  <2>7. \A v \in Actors \ {w} : Outdated(w, e, v)
    BY <2>3 DEF Outdated
  <2>8. status'[e] \in EditableBand \cup {status[e]}
    BY <1>5 DEF CommitRelease
  <2>9. status'[e] \in {"QUOTED", "CONFIRMED"} => e \in overtaken' \/ content'[e] = offer'[e]
    BY <1>2, <1>3, <1>5 DEF CommitRelease, KInv, QuoteStands
  <2>10. KInv'
    <3> HIDE DEF r
    <3> QED
      BY <1>1, <1>2, <1>3, <2>6, <2>7, <2>8, <2>9, WriteKnows
  <2> QED
    BY <1>2, <2>10
<1> QED
  BY <1>4, <1>5

\* An approval that finds no rows has been outdated, or there is nothing to book.
LEMMA CheckApprovalKnows ==
    ASSUME CInv, IInv', NEW w \in Actors, CheckApproval(w)
    PROVE  KInv' /\ CounterExact'
<1>1. PICK e \in Entities, c \in Contents : On(w) = e /\ job[w].draft = c
  BY DEF CInv, IInv, JobsFit, JobFits, CheckApproval, At, On
<1>2. /\ At(w, "check") /\ job[w] \in Jobs /\ RoleFits(job[w]) /\ Informed(w)
      /\ UNCHANGED <<status, content, offer>>
  BY DEF CheckApproval, CInv, KInv, IInv, JobsFit, JobFits
<1> DEFINE r == [job[w] EXCEPT !.step = "confirm"]
<1>3. /\ r.step = "confirm" /\ r.op = "approve" /\ r.on = e /\ r.draft = c
      /\ r.stale = job[w].stale /\ job[w].op = "approve" /\ e \notin Pickups
  BY <1>1, <1>2 DEF Jobs, RoleFits, At, On
<1>4. RoleFits(r) /\ (r.stale \/ r.on \in overtaken \/ Knows(r))
  <2> HIDE DEF r
  <2> QED
    BY <1>1, <1>2, <1>3 DEF RoleFits, Knows, Informed, At, On
<1>5. ~At(w, "released")
  BY <1>2 DEF At
<1>6. CASE \E a \in ItemsOf(c) : ~Fits(e, a, c)
  <2>1. job' = [job EXCEPT ![w] = Idle] /\ UNCHANGED <<row, avail, clamped, overtaken>>
    BY <1>1, <1>6 DEF CheckApproval
  <2> QED
    BY <1>2, <1>5, <2>1, IdleKnows, OwnStepKnows
<1>7. CASE ~(\E a \in ItemsOf(c) : ~Fits(e, a, c)) /\ HasRows(e)
  <2>1. job' = [job EXCEPT ![w] = r] /\ UNCHANGED <<row, avail, clamped, overtaken>>
    BY <1>1, <1>7 DEF CheckApproval, GoTo
  <2> HIDE DEF r
  <2> QED
    BY <1>2, <1>4, <1>5, <2>1, OwnStepKnows
<1>8. CASE ~(\E a \in ItemsOf(c) : ~Fits(e, a, c)) /\ ~HasRows(e)
  <2>1. /\ job' = [job EXCEPT ![w] = r] /\ entityLock[e] = Nobody
        /\ row' = [row EXCEPT ![e] = RowsOf(c)] /\ avail' = AvailAfter(Nothing, c.items)
        /\ clamped' = clamped \cup ClampedBy(Nothing, c.items)
        /\ overtaken' = Overtaken(w)
    BY <1>1, <1>8 DEF CheckApproval, GoTo
  <2>2. overtaken \subseteq overtaken' /\ (job[w].stale => e \in overtaken')
    BY <1>1, <2>1 DEF Overtaken
  <2>3. job'[w] = r /\ \A v \in Actors \ {w} : job'[v] = job[v]
    <3> HIDE DEF r
    <3> QED
      BY <2>1 DEF CInv, IInv, JobsFit
  <2>4. CASE e \in overtaken'
    <3>1. \A v \in Actors \ {w} : Outdated(w, e, v)
      BY <2>3, <2>4 DEF Outdated
    <3>2. RoleFits(job[w])' /\ Informed(w)'
      <4> HIDE DEF r
      <4>1. job'[w].step = "confirm" /\ job'[w].op = "approve" /\ job'[w].on = e
        BY <1>3, <2>3
      <4> QED
        BY <2>4, <4>1 DEF RoleFits, Informed
    <3>3. ~\E v \in Actors \ {w} : entityLock[e] = v
      BY <2>1, NobodyType
    <3>4. OnlyOn(e) /\ row'[e] = RowsOf(c)
      BY <1>2, <2>1 DEF OnlyOn, CInv, IInv, TypeOK
    <3>5. \A a \in Assets : row'[e][a].qty = 0 => row'[e][a] = NoRow
      BY <3>4, RowsOfEmpty
    <3>6. IInv /\ KInv /\ offer' \in [Entities -> Contents]
      BY <1>2 DEF CInv, KInv
    <3>7. KInv'
      <4> HIDE DEF r
      <4> QED
        BY <1>1, <2>2, <2>4, <3>1, <3>2, <3>3, <3>4, <3>5, <3>6, WriteKnows
    <3> QED
      BY <2>4, <3>7 DEF CounterExact
  <2>5. CASE e \notin overtaken'
    <3>1. status[e] = "QUOTED" /\ c = content[e] /\ e \notin overtaken
      BY <1>1, <1>2, <2>2, <2>5 DEF Informed, Knows, At, On
    <3>2. ~HalfDropped(e)
      BY <1>3 DEF HalfDropped, At, On, CInv, KInv, RoleFits
    <3>3. row[e] = RowsOf(c)
      BY <3>1, <3>2 DEF CInv, KInv, HoldFollowsContent, ShouldHold, Holding, EditableBand
    <3>4. \A a \in Assets : c.items[a] = 0
      <4> SUFFICES ASSUME NEW a \in Assets
                   PROVE  c.items[a] = 0
        OBVIOUS
      <4>1. ~(row[e][a].qty > 0) /\ row[e][a].qty = c.items[a] /\ c.items[a] \in Nat
        BY <1>8, <3>3, RowsOfType DEF HasRows
      <4> QED
        BY <4>1
    <3>5. row' = row /\ avail' = avail /\ clamped \subseteq clamped'
      <4>1. \A a \in Assets : Net(Nothing, c.items, a) = 0
        BY <3>4 DEF Net, Nothing
      <4>2. AvailAfter(Nothing, c.items) = [a \in Assets |-> avail[a]]
        BY <4>1 DEF AvailAfter
      <4>3. avail = [a \in Assets |-> avail[a]]
        BY DEF CInv, IInv, TypeOK
      <4> QED
        BY <2>1, <3>3, <4>2, <4>3 DEF CInv, IInv, TypeOK
    <3>6. CounterExact'
      BY <2>2, <3>5, CounterStays DEF CInv
    <3>7. r \in Jobs
      BY <2>3 DEF IInv, JobsFit, JobFits
    <3> HIDE DEF r
    <3> QED
      BY <1>2, <1>4, <1>5, <2>1, <2>2, <3>5, <3>6, <3>7, QuietKnows DEF CInv
  <2> QED
    BY <2>4, <2>5
<1> QED
  BY <1>6, <1>7, <1>8

LEMMA InitKnows ==
    Init => CInv
<1> SUFFICES ASSUME Init
             PROVE  CInv
  OBVIOUS
<1>1. IInv
  BY InitHolds
<1>2. offer \in [Entities -> Contents]
  BY SubmittedType DEF Init
<1>3. EmptyRows
  BY DEF Init, EmptyRows, NoRows, NoRow
<1>4. \A v \in Actors : RoleFits(job[v]) /\ Informed(v)
  BY IdleKnows DEF Init, Informed
<1>5. HoldFollowsContent /\ QuoteStands
  BY DEF Init, HoldFollowsContent, ShouldHold, QuoteStands, Holding, EditableBand
<1>6. CounterExact
  <2> SUFFICES ASSUME NEW a \in Assets
               PROVE  avail[a] = Stock[a] - Booked(a, Entities)
    BY DEF CounterExact
  <2>1. Units(a, Entities) = {}
    BY DEF Init, Units, NoRows, NoRow
  <2>2. Booked(a, Entities) = 0
    BY <2>1, FS_EmptySet DEF Booked
  <2>3. avail[a] = Stock[a] /\ Stock[a] \in Nat
    BY StockType DEF Init
  <2> QED
    BY <2>2, <2>3
<1> QED
  BY <1>1, <1>2, <1>3, <1>4, <1>5, <1>6 DEF CInv, KInv

LEMMA NextKnows ==
    CInv /\ [Next]_vars => CInv'
<1> SUFFICES ASSUME CInv, [Next]_vars
             PROVE  CInv'
  OBVIOUS
<1>1. IInv'
  BY NextKeeps DEF CInv
<1>2. ASSUME NEW w \in Actors, Resume(w)
      PROVE  KInv' /\ CounterExact'
  BY <1>1, <1>2, LockKnows, LockAssetKnows, CommitEditKnows, DeleteKnows, DropKnows, FlipKnows,
     CheckApprovalKnows DEF Resume
<1>3. CASE UNCHANGED vars
  <2>1. UNCHANGED <<status, content, row, avail, job, offer, overtaken, clamped>>
    BY <1>3 DEF vars, history
  <2>2. CounterExact'
    BY <2>1, CounterStays DEF CInv
  <2>3. KInv'
    BY <2>1 DEF CInv, KInv, EmptyRows, RoleFits, Informed, Knows, Held, RowAssets,
                HoldFollowsContent, HalfDropped, ShouldHold, At, On, QuoteStands
  <2> QED
    BY <1>1, <2>2, <2>3 DEF CInv
<1>4. ASSUME NEW w \in Actors, Abort(w)
      PROVE  KInv' /\ CounterExact'
  BY <1>1, <1>4, AbortKnows
<1>5. ASSUME NEW w \in Actors, NEW e \in Entities, BeginAny(w, e)
      PROVE  KInv' /\ CounterExact'
  BY <1>5, BeginKnows
<1>6. ASSUME NEW e \in Entities, Submit(e)
      PROVE  KInv' /\ CounterExact'
  BY <1>1, <1>6, SubmitKnows
<1>7. CASE Next
  <2>1. KInv' /\ CounterExact'
    BY <1>2, <1>4, <1>5, <1>6, <1>7 DEF Next
  <2> QED
    BY <1>1, <2>1 DEF CInv
<1> QED
  BY <1>3, <1>7

\* A live entity holds its items as they are now on its days as they are now and
\* an ended one nothing, through every interleaving of edits, releases, drops,
\* quotes and approvals, unless a handler has written what an earlier write had
\* outdated (approveQuote and declineQuote write by id) or is between the two
\* transactions of cancelSelfPickup.
THEOREM HoldsFollowContent == Spec => []HoldFollowsContent
<1>1. CInv => HoldFollowsContent
  BY DEF CInv, KInv
<1> QED
  BY <1>1, InitKnows, NextKnows, PTL DEF Spec

\* What stands as quoted or confirmed is what staff have quoted: an edit takes the
\* quote back (editEntity, QUOTED to PRICING_REVIEW), whatever else is in flight.
THEOREM QuotesStand == Spec => []QuoteStands
<1>1. CInv => QuoteStands
  BY DEF CInv, KInv
<1> QED
  BY <1>1, InitKnows, NextKnows, PTL DEF Spec

\* available_quantity is the stock less what is booked until it is clamped: every
\* edit, submission, release and rollback moves the counter by what it books.
THEOREM CountersAreExact == Spec => []CounterExact
<1>1. CInv => CounterExact
  BY DEF CInv
<1> QED
  BY <1>1, InitKnows, NextKnows, PTL DEF Spec
==============================================================================
