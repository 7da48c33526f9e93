------------------------- MODULE OrderScanning_proofs -------------------------
(***************************************************************************)
(* Theorems about OrderScanning: whatever is said of a place, an asset in  *)
(* one direction, whose scans did not overlap holds for every number of    *)
(* scanners, assets and units.                                             *)
(***************************************************************************)
EXTENDS OrderScanning, UnitCounting

(***************************************************************************)
(* The units of a set of rows.                                             *)
(***************************************************************************)
UnitSet(S) == UNION {{e} \X (1 .. e.qty) : e \in S}

\* Finitely many rows have finitely many units.
LEMMA UnitsFinite ==
    ASSUME NEW S, IsFiniteSet(S), \A e \in S : e.qty \in Nat
    PROVE  IsFiniteSet(UnitSet(S)) /\ Units(S) \in Nat /\ Units(S) = Cardinality(UnitSet(S))
<1> DEFINE n == [e \in S |-> e.qty]
<1>1. CountedUnits(n, S) = UnitSet(S)
  BY DEF CountedUnits, UnitSet
<1>2. \A e \in S : n[e] \in Nat
  OBVIOUS
<1>3. IsFiniteSet(CountedUnits(n, S)) /\ Cardinality(CountedUnits(n, S)) \in Nat
  <2> HIDE DEF n
  <2> QED
    BY <1>2, CountIsFinite
<1> QED
  BY <1>1, <1>3 DEF Units, UnitSet

\* No rows, no units.
LEMMA UnitsNone == Units({}) = 0
<1>1. UNION {{e} \X (1 .. e.qty) : e \in {}} = {}
  OBVIOUS
<1> QED
  BY <1>1, FS_EmptySet DEF Units

\* A row adds its quantity.
LEMMA UnitsOfOneMore ==
    ASSUME NEW S, IsFiniteSet(S), \A e \in S : e.qty \in Nat, NEW x, x \notin S, x.qty \in Nat
    PROVE  Units(S \cup {x}) = Units(S) + x.qty
<1> DEFINE P == {x} \X (1 .. x.qty)
           U == UnitSet(S)
<1>1. UnitSet(S \cup {x}) = U \cup P
  BY DEF UnitSet
<1>2. IsFiniteSet(U) /\ Cardinality(U) \in Nat /\ Units(S) = Cardinality(U)
  BY UnitsFinite
<1>3. IsFiniteSet(P) /\ Cardinality(P) = x.qty
  <2>1. IsFiniteSet({x}) /\ Cardinality({x}) = 1
    BY FS_Singleton
  <2>2. PICK q \in Nat : q = x.qty
    OBVIOUS
  <2>3. IsFiniteSet(1 .. q) /\ Cardinality(1 .. q) = q
    BY FS_Interval
  <2>4. Cardinality({x} \X (1 .. q)) = 1 * q /\ IsFiniteSet({x} \X (1 .. q))
    <3>1. Cardinality({x} \X (1 .. q)) = Cardinality({x}) * Cardinality(1 .. q)
      BY <2>1, <2>3, FS_Product
    <3>2. IsFiniteSet({x} \X (1 .. q))
      BY <2>1, <2>3, FS_Product
    <3> QED
      BY <2>1, <2>3, <3>1, <3>2
  <2> QED
    BY <2>2, <2>4
<1>4. U \cap P = {}
  BY DEF UnitSet
<1>5. Cardinality(U \cup P) = Cardinality(U) + Cardinality(P) - Cardinality(U \cap P)
  <2> HIDE DEF U, P
  <2> QED
    BY <1>2, <1>3, FS_Union
<1>6. Cardinality(U \cap P) = 0
  BY <1>4, FS_EmptySet
<1>7. Units(S \cup {x}) = Cardinality(U \cup P)
  <2>1. Units(S \cup {x}) = Cardinality(UnitSet(S \cup {x}))
    BY DEF Units, UnitSet
  <2> QED
    BY <1>1, <2>1
<1> HIDE DEF U, P
<1> QED
  BY <1>2, <1>3, <1>5, <1>6, <1>7

\* The ledger rows of some events have the units of the events.
LEMMA UnitsOfMovements ==
    ASSUME NEW S, IsFiniteSet(S), NEW I, NEW A, NEW D,
           S \subseteq [id : I, asset : A, dir : D, qty : Nat]
    PROVE  Units({Movement(e) : e \in S}) = Units(S)
<1> DEFINE T == {Movement(e) : e \in S}
           f == [u \in UnitSet(S) |-> <<Movement(u[1]), u[2]>>]
<1>1. \A e \in S : e.qty \in Nat
  OBVIOUS
<1>2. IsFiniteSet(UnitSet(S)) /\ Units(S) = Cardinality(UnitSet(S))
  BY <1>1, UnitsFinite
<1>3. \A e, d \in S : Movement(e) = Movement(d) => e = d
  BY DEF Movement
<1>4. \A u \in UnitSet(S) : u[1] \in S /\ u[2] \in 1 .. u[1].qty /\ u = <<u[1], u[2]>>
  BY DEF UnitSet
<1>5. f \in [UnitSet(S) -> UnitSet(T)]
  <2> SUFFICES ASSUME NEW u \in UnitSet(S)
               PROVE  <<Movement(u[1]), u[2]>> \in UnitSet(T)
    OBVIOUS
  <2>1. Movement(u[1]) \in T /\ Movement(u[1]).qty = u[1].qty
    BY <1>4 DEF Movement
  <2> QED
    BY <1>4, <2>1 DEF UnitSet
<1>6. \A u, v \in UnitSet(S) : f[u] = f[v] => u = v
  BY <1>3, <1>4
<1>7. ASSUME NEW v \in UnitSet(T)
      PROVE  \E u \in UnitSet(S) : f[u] = v
  <2>1. PICK m \in T : \E i \in 1 .. m.qty : v = <<m, i>>
    BY DEF UnitSet
  <2>2. PICK e \in S : m = Movement(e)
    BY <2>1
  <2>5. PICK i \in 1 .. m.qty : v = <<m, i>>
    BY <2>1
  <2>3. m.qty = e.qty
    BY <2>2 DEF Movement
  <2>4. <<e, i>> \in UnitSet(S)
    BY <2>5, <2>3 DEF UnitSet
  <2> QED
    BY <2>5, <2>2, <2>4
<1>8. ExistsBijection(UnitSet(S), UnitSet(T))
  <2>1. f \in Bijection(UnitSet(S), UnitSet(T))
    <3> HIDE DEF f, T
    <3> QED
      BY <1>5, <1>6, <1>7 DEF Bijection, Injection, Surjection, IsInjective
  <2> QED
    BY <2>1 DEF ExistsBijection
<1>9. Cardinality(UnitSet(T)) = Cardinality(UnitSet(S))
  <2> HIDE DEF f, T
  <2> QED
    BY <1>2, <1>8, FS_Bijection
<1> QED
  BY <1>2, <1>9 DEF Units, UnitSet

(***************************************************************************)
(* The totals of an order: if no asset is scanned too often and the totals *)
(* agree, no asset is short.                                               *)
(***************************************************************************)
LEMMA NoneIsShort ==
    ASSUME NEW S, IsFiniteSet(S), \A e \in S : e.qty \in Nat /\ e.asset \in Assets,
           \A a \in Assets : Units({e \in S : e.asset = a}) <= Qty[a],
           Units(S) >= Wanted
    PROVE  \A a \in Assets : Units({e \in S : e.asset = a}) = Qty[a]
<1> DEFINE Of(a) == {e \in S : e.asset = a}
<1>1. SUFFICES ASSUME NEW b \in Assets, Units(Of(b)) # Qty[b]
               PROVE  FALSE
  OBVIOUS
<1>2. \A a \in Assets : Qty[a] \in Nat
  BY QtyType
<1>3. ASSUME NEW a \in Assets
      PROVE  IsFiniteSet(Of(a)) /\ IsFiniteSet(UnitSet(Of(a))) /\ Units(Of(a)) \in Nat
             /\ Units(Of(a)) = Cardinality(UnitSet(Of(a)))
  <2>1. IsFiniteSet(Of(a))
    BY FS_Subset
  <2> QED
    BY <2>1, UnitsFinite
<1> DEFINE cap == [a \in Assets |-> IF a = b THEN Qty[b] - 1 ELSE Qty[a]]
           Room(a) == Injection(UnitSet(Of(a)), 1 .. cap[a])
           pack == [a \in Assets |-> CHOOSE f : f \in Room(a)]
           H == [u \in UnitSet(S) |-> <<u[1].asset, pack[u[1].asset][u]>>]
<1>4. \A a \in Assets : cap[a] \in Nat /\ Units(Of(a)) <= cap[a]
  <2> SUFFICES ASSUME NEW a \in Assets
               PROVE  cap[a] \in Nat /\ Units(Of(a)) <= cap[a]
    OBVIOUS
  <2>1. Qty[a] \in Nat /\ Units(Of(a)) \in Nat /\ Units(Of(a)) <= Qty[a]
    BY <1>2, <1>3
  <2>2. cap[a] = IF a = b THEN Qty[a] - 1 ELSE Qty[a]
    OBVIOUS
  <2>3. a = b => Units(Of(a)) # Qty[a]
    BY <1>1
  <2> HIDE DEF cap, Of
  <2> QED
    BY <2>1, <2>2, <2>3
<1>5. ASSUME NEW a \in Assets
      PROVE  pack[a] \in Room(a)
  <2> DEFINE U == UnitSet(Of(a))
             n == Cardinality(U)
  <2>1. n \in Nat /\ n <= cap[a] /\ ExistsBijection(1 .. n, U)
    BY <1>3, <1>4, FS_CardinalityType
  <2>2. PICK g : g \in Bijection(1 .. n, U)
    BY <2>1 DEF ExistsBijection
  <2> DEFINE f == [u \in U |-> CHOOSE i \in 1 .. n : g[i] = u]
  <2>3. \A u \in U : \E i \in 1 .. n : g[i] = u
    BY <2>2 DEF Bijection, Surjection
  <2>4. \A u \in U : f[u] \in 1 .. n /\ g[f[u]] = u
    BY <2>3
  <2>5. f \in [U -> 1 .. cap[a]]
    <3>1. 1 .. n \subseteq 1 .. cap[a]
      <4>1. cap[a] \in Nat
        BY <1>4
      <4> HIDE DEF cap, n
      <4> QED
        BY <2>1, <4>1
    <3> QED
      BY <2>4, <3>1
  <2>6. f \in Room(a)
    <3> HIDE DEF f, n, cap
    <3> QED
      BY <2>4, <2>5 DEF Injection, IsInjective
  <2> HIDE DEF f, Room
  <2> QED
    BY <2>6
<1>6. \A u \in UnitSet(S) : u = <<u[1], u[2]>> /\ u[1] \in S /\ u[1].asset \in Assets
                            /\ u \in UnitSet(Of(u[1].asset))
  BY DEF UnitSet
<1>7. H \in Injection(UnitSet(S), CountedUnits(cap, Assets))
  <2>1. ASSUME NEW u \in UnitSet(S)
        PROVE  pack[u[1].asset][u] \in 1 .. cap[u[1].asset]
    <3> DEFINE a == u[1].asset
    <3>1. a \in Assets /\ u \in UnitSet(Of(a))
      BY <1>6
    <3>2. pack[a] \in [UnitSet(Of(a)) -> 1 .. cap[a]]
      <4> HIDE DEF pack, cap, Of
      <4> QED
        BY <1>5, <3>1 DEF Injection
    <3> HIDE DEF pack, cap, Of
    <3> QED
      BY <3>1, <3>2
  <2>2. H \in [UnitSet(S) -> CountedUnits(cap, Assets)]
    <3> SUFFICES ASSUME NEW u \in UnitSet(S)
                 PROVE  <<u[1].asset, pack[u[1].asset][u]>> \in CountedUnits(cap, Assets)
      OBVIOUS
    <3> DEFINE a == u[1].asset
    <3>1. a \in Assets /\ pack[a][u] \in 1 .. cap[a]
      BY <1>6, <2>1
    <3> HIDE DEF pack, cap, a
    <3>2. <<a, pack[a][u]>> \in {a} \X (1 .. cap[a])
      BY <3>1
    <3>3. <<a, pack[a][u]>> \in CountedUnits(cap, Assets)
      BY <3>1, <3>2 DEF CountedUnits
    <3> QED
      BY <3>3 DEF a
  <2>3. ASSUME NEW u \in UnitSet(S), NEW v \in UnitSet(S), H[u] = H[v]
        PROVE  u = v
    <3> DEFINE a == u[1].asset
    <3>1. v[1].asset = a /\ pack[a][u] = pack[a][v]
      <4> HIDE DEF pack
      <4> QED
        BY <2>3
    <3>2. a \in Assets /\ u \in UnitSet(Of(a)) /\ v \in UnitSet(Of(a))
      BY <1>6, <3>1
    <3>3. \A x, y \in UnitSet(Of(a)) : pack[a][x] = pack[a][y] => x = y
      <4> HIDE DEF pack, cap, Of
      <4> QED
        BY <1>5, <3>2 DEF Injection, IsInjective
    <3> HIDE DEF pack, Of
    <3> QED
      BY <3>1, <3>2, <3>3
  <2> HIDE DEF H
  <2> QED
    BY <2>2, <2>3 DEF Injection, IsInjective
<1>8. IsFiniteSet(Assets)
  BY AssetsType
<1>9. IsFiniteSet(CountedUnits(cap, Assets)) /\ Cardinality(CountedUnits(cap, Assets)) \in Nat
  <2> HIDE DEF cap
  <2> QED
    BY <1>4, <1>8, CountIsFinite
<1>10. Cardinality(UnitSet(S)) <= Cardinality(CountedUnits(cap, Assets))
  <2> HIDE DEF H, cap
  <2> QED
    BY <1>7, <1>9, FS_Injection
<1>11. Cardinality(CountedUnits(cap, Assets)) = Cardinality(CountedUnits(Qty, Assets)) + cap[b] - Qty[b]
  <2>1. \A a \in Assets \ {b} : cap[a] = Qty[a]
    OBVIOUS
  <2>2. \A a \in Assets : cap[a] \in Nat /\ Qty[a] \in Nat
    BY <1>2, <1>4
  <2> HIDE DEF cap
  <2> QED
    BY <1>8, <2>1, <2>2, CountAfterChange
<1>12. Wanted = Cardinality(CountedUnits(Qty, Assets)) /\ Wanted \in Nat
  <2>1. Cardinality(CountedUnits(Qty, Assets)) \in Nat
    BY <1>2, <1>8, CountIsFinite
  <2> QED
    BY <2>1 DEF Wanted, CountedUnits
<1>13. Units(S) = Cardinality(UnitSet(S)) /\ Units(S) \in Nat
  BY UnitsFinite
<1>14. cap[b] = Qty[b] - 1
  OBVIOUS
<1> HIDE DEF cap
<1> QED
  BY <1>2, <1>9, <1>10, <1>11, <1>12, <1>13, <1>14

(***************************************************************************)
(* The inductive invariant.                                                *)
(***************************************************************************)
Rows == [id : 1 .. MaxEvents, asset : Assets, dir : Dirs, qty : Nat]
Ledger == [id : 1 .. MaxEvents, asset : Pooled, dir : Dirs, qty : Nat, linked : BOOLEAN]
Steps == {"idle", "unlink", "insert", "move", "ready", "close"}
Jobs == [op : {"idle", "scan", "complete", "progress"}, step : Steps, asset : Assets \cup {{}},
         dir : Dirs, qty : Nat, id : 0 .. MaxEvents, prior : SUBSET Rows,
         doomed : SUBSET Ledger, short : [Assets -> Nat], stale : BOOLEAN]

\* What the step of a handler says of the rest of it.
Writes(j) == j.step \in {"unlink", "insert"}
Scans(j) == Writes(j) \/ j.step = "move"
Swaps(j) == j.dir = "IN" /\ j.asset \in Pooled
WellFormed(j) ==
    /\ j.op = "scan" <=> Scans(j)
    /\ Scans(j) => /\ j.asset \in Assets
                   /\ \A e \in j.prior : e.asset = j.asset /\ e.dir = j.dir
                   /\ \A m \in j.doomed : m.asset = j.asset /\ m.dir = j.dir
    /\ j.step = "unlink" => Swaps(j)
    /\ j.step = "move" => j.asset \in Pooled /\ j.id \in 1 .. MaxEvents
    /\ Scans(j) /\ ~Swaps(j) => j.doomed = {}

ScanTypeOK ==
    /\ TypeOK
    /\ IsFiniteSet(events)
    /\ stated \in [Assets -> Nat]
    /\ disturbed \subseteq Assets \X Dirs
    /\ skipped \in BOOLEAN
    /\ job \in [Actors -> Jobs]
    /\ \A w \in Actors : WellFormed(job[w])

\* The rows that a table or a handler still names by their id.
RowOf(r) == Event(r.id, r.asset, r.dir, r.qty)
Recording == {w \in Actors : job[w].step = "move"}
Named == events \cup {RowOf(m) : m \in moves} \cup {RowOf(job[w]) : w \in Recording}
             \cup UNION {job[w].prior : w \in Actors}
IdsName == \A x, y \in Named : x.id = y.id => x = y

\* Two scans of one place.
SamePlace(v, w) == Scans(job[v]) /\ job[v].asset = job[w].asset /\ job[v].dir = job[w].dir
RecordsAlone == \A w \in Recording : \A v \in Actors \ {w} : SamePlace(v, w) =>
    IF v \in Recording THEN <<job[w].asset, job[w].dir>> \in disturbed ELSE job[v].stale

\* What a handler that nobody overtook has read is still so.
TheDoomed(j) == {m \in moves : m.linked /\ \E e \in j.prior : e.id = m.id}
ReadsHold(j) ==
    /\ j.prior = EventsOf(j.asset, j.dir)
    /\ j.step = "insert" /\ Swaps(j) => j.doomed = TheDoomed(j)
    /\ IF Swaps(j) THEN j.qty <= Qty[j.asset] ELSE Counted(j.asset, j.dir) + j.qty <= Qty[j.asset]
    /\ status = IF j.dir = "OUT" THEN "IN_PREPARATION" ELSE "AWAITING_RETURN"
CompletionHolds(j) ==
    /\ j.step = "ready" => status = "IN_PREPARATION" /\ (j.op # "progress" => AllScannedOut)
    /\ j.step = "close" => status = "AWAITING_RETURN" /\ j.short = [a \in Assets |-> Short(a)]
FreshHold == \A w \in Actors : job[w].stale \/ ((Writes(job[w]) => ReadsHold(job[w])) /\ CompletionHolds(job[w]))

\* What is so of a place whose scans did not overlap.
Pending(a, dir) == {RowOf(job[w]) : w \in {v \in Recording : job[v].asset = a /\ job[v].dir = dir}}
LedgerMirrors(a, dir) ==
    /\ Pending(a, dir) \subseteq EventsOf(a, dir)
    /\ MovesOf(a, dir) = {Movement(e) : e \in EventsOf(a, dir) \ Pending(a, dir)}
Settled(a) == writtenOff[a] = IF status = "CLOSED" THEN Qty[a] - stated[a] ELSE 0
PlaceHolds(a, dir) ==
    /\ Counted(a, dir) <= Qty[a]
    /\ a \in Pooled => LedgerMirrors(a, dir)
    /\ dir = "IN" => Counted(a, "IN") = stated[a] /\ Settled(a)
Places == \A a \in Assets, dir \in Dirs : <<a, dir>> \in disturbed \/ PlaceHolds(a, dir)

IInv == ScanTypeOK /\ IdsName /\ RecordsAlone /\ FreshHold /\ Places /\ ReadyMeansAllOut

\* What the properties ask for is part of it.
LEMMA InvariantSuffices == IInv =>
    /\ TypeOK /\ UndisturbedCountIsLatest /\ LedgerFollowsEvents
    /\ ReadyMeansAllOut /\ SettledAsStated
<1> SUFFICES ASSUME IInv
             PROVE  /\ TypeOK /\ UndisturbedCountIsLatest /\ LedgerFollowsEvents
                    /\ ReadyMeansAllOut /\ SettledAsStated
  OBVIOUS
<1>1. TypeOK /\ ReadyMeansAllOut
  BY DEF IInv, ScanTypeOK
<1>2. ASSUME NEW a \in Assets, NEW dir \in Dirs, <<a, dir>> \notin disturbed
      PROVE  PlaceHolds(a, dir)
  BY <1>2 DEF IInv, Places
<1>3. UndisturbedCountIsLatest
  <2> SUFFICES ASSUME NEW a \in Assets, <<a, "IN">> \notin disturbed
               PROVE  Counted(a, "IN") = stated[a]
    BY DEF UndisturbedCountIsLatest
  <2> QED
    BY <1>2 DEF PlaceHolds, Dirs
<1>4. SettledAsStated
  <2> SUFFICES ASSUME NEW a \in Assets, status = "CLOSED", <<a, "IN">> \notin disturbed
               PROVE  writtenOff[a] = Qty[a] - stated[a]
    BY DEF SettledAsStated
  <2> QED
    BY <1>2 DEF PlaceHolds, Settled, Dirs
<1>5. LedgerFollowsEvents
  <2> SUFFICES ASSUME NEW a \in Pooled, NEW dir \in Dirs, Quiet(a, dir), <<a, dir>> \notin disturbed
               PROVE  Units(MovesOf(a, dir)) = Counted(a, dir)
    BY DEF LedgerFollowsEvents
  <2>1. a \in Assets
    BY AssetsType
  <2>2. LedgerMirrors(a, dir)
    BY <1>2, <2>1 DEF PlaceHolds
  <2>3. Pending(a, dir) = {}
    <3>1. ASSUME NEW v \in Actors
          PROVE  v \notin Recording \/ job[v].asset # a \/ job[v].dir # dir
      <4>1. job[v].step = "move" => job[v].op = "scan"
        BY DEF IInv, ScanTypeOK, WellFormed, Scans
      <4>2. job[v].op = "scan" => <<job[v].asset, job[v].dir>> # <<a, dir>>
        BY DEF Quiet
      <4> QED
        BY <4>1, <4>2 DEF Recording
    <3> QED
      BY <3>1 DEF Pending, Recording
  <2>4. MovesOf(a, dir) = {Movement(e) : e \in EventsOf(a, dir)}
    BY <2>2, <2>3 DEF LedgerMirrors
  <2>5. IsFiniteSet(EventsOf(a, dir)) /\ EventsOf(a, dir) \subseteq Rows
    <3>1. IsFiniteSet(events) /\ events \subseteq Rows
      BY DEF IInv, ScanTypeOK, TypeOK, Rows
    <3> QED
      BY <3>1, FS_Subset DEF EventsOf
  <2>6. Units({Movement(e) : e \in EventsOf(a, dir)}) = Units(EventsOf(a, dir))
    BY <2>5, UnitsOfMovements DEF Rows
  <2> QED
    BY <2>4, <2>6 DEF Counted
<1> QED
  BY <1>1, <1>3, <1>4, <1>5

\* Before the first scan there is nothing to be wrong about.
LEMMA InitHolds == Init => IInv
<1> SUFFICES ASSUME Init
             PROVE  IInv
  OBVIOUS
<1>1. /\ status = "IN_PREPARATION" /\ events = {} /\ moves = {} /\ disturbed = {} /\ skipped = FALSE
      /\ writtenOff = [a \in Assets |-> 0] /\ stated = [a \in Assets |-> 0]
      /\ job = [w \in Actors |-> Idle]
  BY DEF Init
<1>2. \A w \in Actors : job[w] = Idle
  BY <1>1
<1>3. /\ Idle \in Jobs /\ WellFormed(Idle) /\ Idle.step = "idle" /\ Idle.prior = {}
      /\ ~Scans(Idle) /\ ~Writes(Idle)
  BY BoundType DEF Idle, Jobs, Steps, Dirs, Rows, Ledger, WellFormed, Scans, Writes
<1>4. ScanTypeOK
  <2>1. job \in [Actors -> Jobs]
    BY <1>1, <1>3
  <2>2. \A w \in Actors : WellFormed(job[w])
    BY <1>2, <1>3
  <2>3. TypeOK
    BY <1>1 DEF TypeOK, Statuses
  <2>4. IsFiniteSet(events)
    BY <1>1, FS_EmptySet
  <2> QED
    BY <1>1, <2>1, <2>2, <2>3, <2>4 DEF ScanTypeOK
<1>5. Recording = {}
  BY <1>2, <1>3 DEF Recording
<1>6. Named = {}
  BY <1>1, <1>2, <1>3, <1>5 DEF Named
<1>7. IdsName /\ RecordsAlone
  BY <1>5, <1>6 DEF IdsName, RecordsAlone
<1>8. FreshHold
  BY <1>2, <1>3 DEF FreshHold, CompletionHolds
<1>9. Places
  <2> SUFFICES ASSUME NEW a \in Assets, NEW dir \in Dirs
               PROVE  PlaceHolds(a, dir)
    BY DEF Places
  <2>1. EventsOf(a, dir) = {} /\ MovesOf(a, dir) = {} /\ Pending(a, dir) = {}
    BY <1>1, <1>5 DEF EventsOf, MovesOf, Pending
  <2>2. Counted(a, dir) = 0 /\ Counted(a, dir) <= Qty[a]
    BY <2>1, UnitsNone, QtyType DEF Counted
  <2>3. LedgerMirrors(a, dir)
    BY <2>1 DEF LedgerMirrors
  <2>4. Settled(a) /\ stated[a] = 0
    BY <1>1 DEF Settled
  <2> QED
    BY <2>2, <2>3, <2>4 DEF PlaceHolds
<1>10. ReadyMeansAllOut
  BY <1>1 DEF ReadyMeansAllOut
<1> QED
  BY <1>4, <1>7, <1>8, <1>9, <1>10 DEF IInv

(***************************************************************************)
(* Steps of a handler that write no row: it begins, lists the movements it *)
(* will delete, or dies.                                                   *)
(***************************************************************************)
tables == <<status, events, moves, writtenOff, stated, skipped>>

\* What rests on the tables alone.
LEMMA TablesDecide ==
    ASSUME UNCHANGED tables
    PROVE  /\ \A a, dir : EventsOf(a, dir)' = EventsOf(a, dir)
           /\ \A a, dir : MovesOf(a, dir)' = MovesOf(a, dir)
           /\ \A a, dir : Counted(a, dir)' = Counted(a, dir)
           /\ \A a : Short(a)' = Short(a) /\ Settled(a)' = Settled(a)
           /\ AllScannedOut' = AllScannedOut
           /\ \A v : ReadsHold(job'[v]) => ReadsHold(job[v])'
           /\ \A v : CompletionHolds(job'[v]) => CompletionHolds(job[v])'
<1>1. /\ \A a, dir : EventsOf(a, dir)' = EventsOf(a, dir)
      /\ \A a, dir : MovesOf(a, dir)' = MovesOf(a, dir)
  BY DEF tables, EventsOf, MovesOf
<1>2. \A a, dir : Counted(a, dir)' = Counted(a, dir)
  BY <1>1 DEF Counted
<1>3. \A a : Short(a)' = Short(a) /\ Settled(a)' = Settled(a)
  BY <1>2 DEF tables, Short, Settled
<1>4. AllScannedOut' = AllScannedOut
  BY DEF tables, AllScannedOut
<1>5. ASSUME NEW v, ReadsHold(job'[v])
      PROVE  ReadsHold(job[v])'
  BY <1>5 DEF tables, ReadsHold, EventsOf, Counted, TheDoomed, Swaps
<1>6. ASSUME NEW v, CompletionHolds(job'[v])
      PROVE  CompletionHolds(job[v])'
  BY <1>4, <1>6 DEF tables, CompletionHolds, Short, Counted, EventsOf
<1> QED
  BY <1>1, <1>2, <1>3, <1>4, <1>5, <1>6

LEMMA OnlyTheJob ==
    ASSUME IInv, NEW w \in Actors, NEW j \in Jobs, WellFormed(j),
           UNCHANGED tables, job' = [job EXCEPT ![w] = j], j.step # "move",
           disturbed \subseteq disturbed', disturbed' \subseteq Assets \X Dirs,
           w \in Recording => <<job[w].asset, job[w].dir>> \in disturbed',
           j.prior \subseteq events \cup job[w].prior,
           \A r \in Recording \ {w} : Scans(j) /\ j.asset = job[r].asset /\ j.dir = job[r].dir => j.stale,
           j.stale \/ ((Writes(j) => ReadsHold(j)) /\ CompletionHolds(j))
    PROVE  IInv'
<1>1. /\ job \in [Actors -> Jobs] /\ job'[w] = j
      /\ \A v \in Actors \ {w} : job'[v] = job[v]
  BY DEF IInv, ScanTypeOK
<1>2. Recording' = Recording \ {w}
  BY <1>1 DEF Recording
<1>3. ScanTypeOK'
  <2>1. job' \in [Actors -> Jobs] /\ \A v \in Actors : WellFormed(job'[v])
    BY <1>1 DEF IInv, ScanTypeOK
  <2>3. TypeOK'
    BY DEF IInv, ScanTypeOK, TypeOK, tables
  <2> QED
    BY <2>1, <2>3 DEF IInv, ScanTypeOK, tables, WellFormed
<1>4. IdsName'
  <2>1. Named' \subseteq Named
    <3> SUFFICES ASSUME NEW x \in Named'
                 PROVE  x \in Named
      OBVIOUS
    <3>1. CASE x \in events \/ x \in {RowOf(m) : m \in moves}
      BY <3>1 DEF Named
    <3>2. CASE \E v \in Actors : x \in job'[v].prior
      BY <1>1, <3>2 DEF Named
    <3>3. CASE \E r \in Recording' : x = RowOf(job'[r])
      <4>1. PICK r \in Recording \ {w} : x = RowOf(job'[r])
        BY <1>2, <3>3
      <4>2. job'[r] = job[r]
        BY <1>1, <4>1 DEF Recording
      <4> QED
        BY <4>1, <4>2 DEF Named
    <3> QED
      BY <3>1, <3>2, <3>3 DEF Named, tables
  <2> QED
    BY <2>1 DEF IInv, IdsName
<1>5. RecordsAlone'
  <2> SUFFICES ASSUME NEW r \in Recording', NEW v \in Actors \ {r}, SamePlace(v, r)'
               PROVE  IF v \in Recording' THEN <<job'[r].asset, job'[r].dir>> \in disturbed' ELSE job'[v].stale
    BY DEF RecordsAlone
  <2>1. r \in Recording \ {w} /\ r \in Actors /\ job'[r] = job[r]
    BY <1>1, <1>2 DEF Recording
  <2>2. CASE v = w
    BY <1>1, <1>2, <2>1, <2>2 DEF SamePlace
  <2>3. CASE v # w
    <3>1. SamePlace(v, r) /\ job'[v] = job[v] /\ (v \in Recording' <=> v \in Recording)
      BY <1>1, <1>2, <2>1, <2>3 DEF SamePlace
    <3> QED
      BY <2>1, <3>1 DEF IInv, RecordsAlone
  <2> QED
    BY <2>2, <2>3
<1>6. FreshHold'
  <2> SUFFICES ASSUME NEW v \in Actors, ~job'[v].stale
               PROVE  ((Writes(job[v]) => ReadsHold(job[v])) /\ CompletionHolds(job[v]))'
    BY DEF FreshHold
  <2>1. (Writes(job'[v]) => ReadsHold(job'[v])) /\ CompletionHolds(job'[v])
    BY <1>1 DEF IInv, FreshHold
  <2>2. (Writes(job'[v]) => ReadsHold(job[v])') /\ CompletionHolds(job[v])'
    BY <2>1, TablesDecide
  <2> QED
    BY <2>2 DEF Writes
<1>7. Places'
  <2> SUFFICES ASSUME NEW a \in Assets, NEW dir \in Dirs, <<a, dir>> \notin disturbed'
               PROVE  PlaceHolds(a, dir)'
    BY DEF Places
  <2>1. PlaceHolds(a, dir)
    BY DEF IInv, Places
  <2>2. Pending(a, dir)' = Pending(a, dir)
    BY <1>1, <1>2 DEF Pending, Recording
  <2>3. LedgerMirrors(a, dir)' = LedgerMirrors(a, dir)
    BY <2>2, TablesDecide DEF LedgerMirrors
  <2>4. Settled(a)' = Settled(a) /\ Counted(a, dir)' = Counted(a, dir) /\ Counted(a, "IN")' = Counted(a, "IN")
    BY TablesDecide
  <2> QED
    BY <2>1, <2>3, <2>4 DEF PlaceHolds, tables
<1>8. ReadyMeansAllOut'
  <2>1. \A a : Counted(a, "OUT")' = Counted(a, "OUT")
    BY TablesDecide
  <2> QED
    BY <2>1 DEF IInv, ReadyMeansAllOut, tables
<1> QED
  BY <1>3, <1>4, <1>5, <1>6, <1>7, <1>8 DEF IInv

\* What Idle says.
LEMMA IdleFits ==
    /\ Idle \in Jobs /\ WellFormed(Idle) /\ Idle.step = "idle" /\ Idle.op = "idle" /\ Idle.prior = {}
    /\ ~Scans(Idle) /\ ~Writes(Idle) /\ CompletionHolds(Idle)
BY BoundType DEF Idle, Jobs, Steps, Dirs, Rows, Ledger, WellFormed, Scans, Writes, CompletionHolds

LEMMA BeginKeeps ==
    ASSUME IInv, NEW w \in Actors, NEW j \in Jobs, WellFormed(j), Begin(w, j), j.step # "move",
           j.prior \subseteq events,
           \A r \in Recording : Scans(j) /\ j.asset = job[r].asset /\ j.dir = job[r].dir => j.stale,
           j.stale \/ ((Writes(j) => ReadsHold(j)) /\ CompletionHolds(j))
    PROVE  IInv'
<1>1. w \notin Recording
  BY IdleFits DEF Begin, Recording
<1>2. UNCHANGED tables /\ disturbed' = disturbed /\ job' = [job EXCEPT ![w] = j]
  BY DEF Begin, tables
<1>3. disturbed \subseteq Assets \X Dirs
  BY DEF IInv, ScanTypeOK
<1> QED
  BY <1>1, <1>2, <1>3, OnlyTheJob

LEMMA ScanBegins ==
    ASSUME IInv, NEW w \in Actors, NEW a \in Assets, NEW dir \in Dirs, NEW q \in Sizes(a),
           NEW step \in {"unlink", "insert"}, step = "unlink" => dir = "IN" /\ a \in Pooled,
           dir = "IN" /\ a \in Pooled /\ step = "insert" => EventsOf(a, dir) = {},
           IF dir = "IN" /\ a \in Pooled THEN q <= Qty[a] ELSE Counted(a, dir) + q <= Qty[a],
           status = IF dir = "OUT" THEN "IN_PREPARATION" ELSE "AWAITING_RETURN",
           Begin(w, ScanJob(a, dir, q, step))
    PROVE  IInv'
<1> DEFINE j == ScanJob(a, dir, q, step)
<1>1. q \in Nat
  BY QtyType DEF Sizes
<1>2. EventsOf(a, dir) \subseteq events /\ EventsOf(a, dir) \subseteq Rows
      /\ \A e \in EventsOf(a, dir) : e.asset = a /\ e.dir = dir
  BY DEF IInv, ScanTypeOK, TypeOK, Rows, EventsOf
<1>3. /\ j.op = "scan" /\ j.step = step /\ j.asset = a /\ j.dir = dir /\ j.qty = q
      /\ j.prior = EventsOf(a, dir) /\ j.doomed = {} /\ j.stale = ~Quiet(a, dir)
  BY DEF ScanJob, Idle
<1>4. Quiet(a, dir) \in BOOLEAN
  BY DEF Quiet
<1>5. j \in Jobs
  BY <1>1, <1>2, <1>4, IdleFits DEF ScanJob, Jobs, Steps
<1> HIDE DEF j
<1>6. WellFormed(j)
  BY <1>2, <1>3 DEF WellFormed, Scans, Writes, Swaps
<1>7. ASSUME NEW r \in Recording, j.asset = job[r].asset, j.dir = job[r].dir
      PROVE  j.stale
  <2>1. r \in Actors /\ job[r].op = "scan"
    BY DEF Recording, IInv, ScanTypeOK, WellFormed, Scans
  <2>2. ~Quiet(a, dir)
    BY <1>3, <1>7, <2>1 DEF Quiet
  <2> QED
    BY <1>3, <2>2
<1>8. ReadsHold(j)
  <2>1. Swaps(j) /\ j.step = "insert" => j.doomed = TheDoomed(j)
    BY <1>3 DEF Swaps, TheDoomed
  <2> QED
    BY <1>3, <2>1 DEF ReadsHold, Swaps
<1>9. CompletionHolds(j)
  BY <1>3 DEF CompletionHolds
<1>10. Begin(w, j)
  BY DEF j
<1> QED
  BY <1>2, <1>3, <1>5, <1>6, <1>7, <1>8, <1>9, <1>10, BeginKeeps

LEMMA BeginOutboundScanKeeps ==
    ASSUME IInv, NEW w \in Actors, NEW a \in Assets, NEW q \in Sizes(a), BeginOutboundScan(w, a, q)
    PROVE  IInv'
BY ScanBegins DEF BeginOutboundScan, Dirs

LEMMA BeginInboundScanKeeps ==
    ASSUME IInv, NEW w \in Actors, NEW a \in Assets, NEW q \in Sizes(a), BeginInboundScan(w, a, q)
    PROVE  IInv'
<1> DEFINE step == IF Replaces(a) THEN "unlink" ELSE "insert"
<1>1. /\ status = "AWAITING_RETURN" /\ InboundCount(a, q) <= Qty[a]
      /\ Begin(w, ScanJob(a, "IN", q, step))
  BY DEF BeginInboundScan
<1>2. step \in {"unlink", "insert"} /\ "IN" \in Dirs
  BY DEF Dirs
<1>3. /\ step = "unlink" => a \in Pooled
      /\ a \in Pooled /\ step = "insert" => EventsOf(a, "IN") = {}
  BY DEF Replaces
<1>4. IF a \in Pooled THEN q <= Qty[a] ELSE Counted(a, "IN") + q <= Qty[a]
  BY <1>1 DEF InboundCount
<1> HIDE DEF step
<1> QED
  BY <1>1, <1>2, <1>3, <1>4, ScanBegins

LEMMA CompletionBegins ==
    ASSUME IInv, NEW w \in Actors,
           BeginCompleteOutbound(w) \/ BeginProgress(w) \/ BeginCompleteInbound(w)
    PROVE  IInv'
<1>1. ASSUME NEW op \in {"complete", "progress"}, NEW step \in {"ready", "close"},
             NEW s \in [Assets -> Nat], Begin(w, [Idle EXCEPT !.op = op, !.step = step, !.short = s]),
             step = "ready" => status = "IN_PREPARATION" /\ (op # "progress" => AllScannedOut),
             step = "close" => status = "AWAITING_RETURN" /\ s = [a \in Assets |-> Short(a)]
      PROVE  IInv'
  <2> DEFINE j == [Idle EXCEPT !.op = op, !.step = step, !.short = s]
  <2>1. j.op = op /\ j.step = step /\ j.short = s /\ j.prior = {} /\ j.doomed = {}
    BY DEF Idle
  <2>2. j \in Jobs
    BY IdleFits DEF Jobs, Steps
  <2>3. Begin(w, j)
    BY <1>1
  <2> HIDE DEF j
  <2>4. WellFormed(j) /\ ~Scans(j) /\ ~Writes(j)
    BY <2>1 DEF WellFormed, Scans, Writes
  <2>5. CompletionHolds(j)
    BY <1>1, <2>1 DEF CompletionHolds
  <2> QED
    BY <2>1, <2>2, <2>3, <2>4, <2>5, BeginKeeps
<1>2. Idle.short = [a \in Assets |-> 0] /\ Idle = [Idle EXCEPT !.short = Idle.short]
  BY DEF Idle
<1>3. CASE BeginCompleteOutbound(w) \/ BeginProgress(w)
  <2>1. PICK op \in {"complete", "progress"} :
            /\ status = "IN_PREPARATION" /\ (op # "progress" => AllScannedOut)
            /\ Begin(w, [Idle EXCEPT !.op = op, !.step = "ready"])
    BY <1>3 DEF BeginCompleteOutbound, BeginProgress
  <2>2. [Idle EXCEPT !.op = op, !.step = "ready"] =
        [Idle EXCEPT !.op = op, !.step = "ready", !.short = [a \in Assets |-> 0]]
    BY <1>2, IdleFits DEF Jobs
  <2>3. Begin(w, [Idle EXCEPT !.op = op, !.step = "ready", !.short = [a \in Assets |-> 0]])
    BY <2>1, <2>2
  <2>4. [a \in Assets |-> 0] \in [Assets -> Nat]
    OBVIOUS
  <2> QED
    BY <1>1, <2>1, <2>3, <2>4
<1>4. CASE BeginCompleteInbound(w)
  <2>1. /\ status = "AWAITING_RETURN"
        /\ Begin(w, [Idle EXCEPT !.op = "complete", !.step = "close", !.short = [a \in Assets |-> Short(a)]])
    BY <1>4 DEF BeginCompleteInbound
  <2>2. \A a \in Assets : Short(a) \in Nat
    <3> SUFFICES ASSUME NEW a \in Assets
                 PROVE  Short(a) \in Nat
      OBVIOUS
    <3>1. IsFiniteSet(EventsOf(a, "IN")) /\ \A e \in EventsOf(a, "IN") : e.qty \in Nat
      <4>1. IsFiniteSet(events) /\ \A e \in events : e.qty \in Nat
        BY DEF IInv, ScanTypeOK, TypeOK
      <4> QED
        BY <4>1, FS_Subset DEF EventsOf
    <3>2. Counted(a, "IN") \in Nat
      BY <3>1, UnitsFinite DEF Counted
    <3> QED
      BY <3>2, QtyType DEF Short
  <2>3. [a \in Assets |-> Short(a)] \in [Assets -> Nat]
    BY <2>2
  <2> QED
    BY <1>1, <2>1, <2>3
<1> QED
  BY <1>3, <1>4

LEMMA UnlinkKeeps ==
    ASSUME IInv, NEW w \in Actors, Unlink(w)
    PROVE  IInv'
<1> DEFINE i == job[w]
           j == [i EXCEPT !.step = "insert", !.doomed = TheDoomed(i)]
<1>1. i \in Jobs /\ WellFormed(i) /\ i.step = "unlink"
  BY DEF IInv, ScanTypeOK, Unlink, At
<1>2. UNCHANGED tables /\ disturbed' = disturbed /\ disturbed \subseteq Assets \X Dirs
  BY DEF Unlink, tables, IInv, ScanTypeOK
<1>3. job' = [job EXCEPT ![w] = j]
  BY DEF Unlink, TheDoomed, IInv, ScanTypeOK
<1>4. /\ j.op = i.op /\ j.step = "insert" /\ j.asset = i.asset /\ j.dir = i.dir /\ j.qty = i.qty
      /\ j.prior = i.prior /\ j.doomed = TheDoomed(i) /\ j.stale = i.stale
  BY <1>1 DEF Jobs
<1>5. ASSUME NEW m \in TheDoomed(i)
      PROVE  m \in Ledger /\ m.asset = i.asset /\ m.dir = i.dir
  <2>1. m \in moves
    BY DEF TheDoomed
  <2>2. PICK e \in i.prior : e.id = m.id
    BY DEF TheDoomed
  <2>3. e \in Named /\ RowOf(m) \in Named
    BY <2>1 DEF Named
  <2>4. RowOf(m).id = m.id /\ RowOf(m).asset = m.asset /\ RowOf(m).dir = m.dir
    BY DEF RowOf, Event
  <2>5. RowOf(m) = e
    BY <2>2, <2>3, <2>4 DEF IInv, IdsName
  <2>6. e.asset = i.asset /\ e.dir = i.dir
    BY <1>1 DEF WellFormed, Scans, Writes
  <2>7. m \in Ledger
    BY <2>1 DEF IInv, ScanTypeOK, TypeOK, Ledger
  <2> QED
    BY <2>4, <2>5, <2>6, <2>7
<1>6. j \in Jobs
  BY <1>1, <1>5 DEF Jobs, Steps
<1> HIDE DEF i, j
<1>7. WellFormed(j) /\ Scans(j)
  BY <1>1, <1>4, <1>5 DEF WellFormed, Scans, Writes, Swaps
<1>8. ASSUME NEW r \in Recording \ {w}, j.asset = job[r].asset, j.dir = job[r].dir
      PROVE  j.stale
  <2>1. SamePlace(w, r) /\ w \notin Recording
    BY <1>1, <1>4, <1>8 DEF SamePlace, Scans, Writes, Recording, i
  <2> QED
    BY <1>4, <2>1 DEF IInv, RecordsAlone, i
<1>9. i.stale \/ (Writes(i) => ReadsHold(i))
  BY DEF IInv, FreshHold, i
<1>10. j.stale \/ ((Writes(j) => ReadsHold(j)) /\ CompletionHolds(j))
  <2>1. TheDoomed(j) = TheDoomed(i)
    BY <1>4 DEF TheDoomed
  <2> QED
    BY <1>1, <1>4, <1>9, <2>1 DEF ReadsHold, CompletionHolds, Writes, Swaps
<1>11. w \notin Recording
  BY <1>1 DEF Recording, i
<1>12. j.prior \subseteq events \cup job[w].prior
  BY <1>4 DEF i
<1> QED
  BY <1>2, <1>3, <1>4, <1>6, <1>7, <1>8, <1>10, <1>11, <1>12, OnlyTheJob

LEMMA CrashKeeps ==
    ASSUME IInv, NEW w \in Actors, Crash(w)
    PROVE  IInv'
<1>1. UNCHANGED tables /\ job' = [job EXCEPT ![w] = Idle]
  BY DEF Crash, Finish, tables
<1>2. disturbed \subseteq disturbed' /\ disturbed' \subseteq Assets \X Dirs
      /\ (w \in Recording => <<job[w].asset, job[w].dir>> \in disturbed')
  <2>1. disturbed \subseteq Assets \X Dirs /\ job[w] \in Jobs /\ WellFormed(job[w])
    BY DEF IInv, ScanTypeOK
  <2>2. At(w, "move") => job[w].asset \in Assets /\ job[w].dir \in Dirs
    BY <2>1 DEF At, WellFormed, Scans, Jobs
  <2> QED
    BY <2>1, <2>2 DEF Crash, At, Recording
<1> QED
  BY <1>1, <1>2, IdleFits, OnlyTheJob

(***************************************************************************)
(* The completions, which write the order and outdate everybody.           *)
(***************************************************************************)
LEMMA CountedType ==
    ASSUME IInv, NEW a, NEW dir
    PROVE  /\ IsFiniteSet(EventsOf(a, dir)) /\ EventsOf(a, dir) \subseteq Rows
           /\ Counted(a, dir) \in Nat
<1>1. IsFiniteSet(events) /\ events \subseteq Rows
  BY DEF IInv, ScanTypeOK, TypeOK, Rows
<1>2. IsFiniteSet(EventsOf(a, dir)) /\ EventsOf(a, dir) \subseteq Rows
  BY <1>1, FS_Subset DEF EventsOf
<1>3. \A e \in EventsOf(a, dir) : e.qty \in Nat
  BY <1>2 DEF Rows
<1> QED
  BY <1>2, <1>3, UnitsFinite DEF Counted

\* v goes on as before; at most what it has read is outdated.
GoesOn(v) ==
    /\ job'[v] \in Jobs /\ WellFormed(job'[v])
    /\ job'[v].op = job[v].op /\ job'[v].step = job[v].step /\ job'[v].asset = job[v].asset
    /\ job'[v].dir = job[v].dir /\ job'[v].qty = job[v].qty /\ job'[v].id = job[v].id
    /\ job'[v].prior = job[v].prior /\ job'[v].doomed = job[v].doomed
    /\ job'[v].short = job[v].short
    /\ job[v].stale => job'[v].stale

LEMMA OutdatedGoesOn ==
    ASSUME IInv, NEW v \in Actors, job'[v] = job[v] \/ job'[v] = [job[v] EXCEPT !.stale = job[v] # Idle]
                                     \/ job'[v] = [job[v] EXCEPT !.stale = TRUE]
    PROVE  GoesOn(v) /\ RowOf(job[v])' = RowOf(job[v])
<1>1. job[v] \in Jobs /\ WellFormed(job[v])
  BY DEF IInv, ScanTypeOK
<1>2. job[v].stale => job[v] # Idle
  BY DEF Idle
<1>3. PICK b \in BOOLEAN : job'[v] = [job[v] EXCEPT !.stale = b] /\ (job[v].stale => b)
  <2>1. CASE job'[v] = job[v]
    <3>1. job[v] = [job[v] EXCEPT !.stale = job[v].stale] /\ job[v].stale \in BOOLEAN
      BY <1>1 DEF Jobs
    <3> QED
      BY <2>1, <3>1
  <2>2. CASE job'[v] # job[v]
    BY <1>2, <2>2
  <2> QED
    BY <2>1, <2>2
<1>4. /\ job'[v].op = job[v].op /\ job'[v].step = job[v].step /\ job'[v].asset = job[v].asset
      /\ job'[v].dir = job[v].dir /\ job'[v].qty = job[v].qty /\ job'[v].id = job[v].id
      /\ job'[v].prior = job[v].prior /\ job'[v].doomed = job[v].doomed
      /\ job'[v].short = job[v].short /\ job'[v].stale = b /\ job'[v] \in Jobs
  BY <1>1, <1>3 DEF Jobs
<1>5. WellFormed(job'[v])
  BY <1>1, <1>4 DEF WellFormed, Scans, Writes, Swaps
<1> QED
  BY <1>3, <1>4, <1>5 DEF GoesOn, RowOf

LEMMA CompletedKeeps ==
    ASSUME IInv, NEW w \in Actors, job[w].step \in {"ready", "close"}, job' = AllOutdated(w),
           UNCHANGED <<events, moves, stated>>, disturbed' = Disturbed(w),
           status' \in Statuses, writtenOff' \in [Assets -> Nat], skipped' \in BOOLEAN,
           \A a \in Assets : <<a, "IN">> \in disturbed' \/ Settled(a)',
           ReadyMeansAllOut'
    PROVE  IInv'
<1>1. /\ job'[w] = Idle /\ job' = [v \in Actors |-> job'[v]]
      /\ \A v \in Actors \ {w} : GoesOn(v) /\ RowOf(job[v])' = RowOf(job[v])
      /\ \A v \in Actors : job'[v].stale \/ job'[v] = Idle
  <2>1. ASSUME NEW v \in Actors \ {w}
        PROVE  /\ GoesOn(v) /\ RowOf(job[v])' = RowOf(job[v])
               /\ job'[v].stale \/ job'[v] = Idle
    <3>1. job'[v] = [job[v] EXCEPT !.stale = job[v] # Idle] /\ job[v] \in Jobs
      BY DEF AllOutdated, IInv, ScanTypeOK
    <3>2. GoesOn(v) /\ RowOf(job[v])' = RowOf(job[v])
      BY <3>1, OutdatedGoesOn
    <3>3. job[v] # Idle => job'[v].stale
      BY <3>1 DEF Jobs
    <3>4. job[v] = Idle => job'[v] = Idle
      <4>1. ASSUME job[v] = Idle
            PROVE  job'[v] = Idle
        <5>1. job'[v] = [Idle EXCEPT !.stale = FALSE] /\ Idle.stale = FALSE
          BY <3>1, <4>1 DEF Idle
        <5> QED
          BY <5>1, IdleFits DEF Jobs
      <4> QED
        BY <4>1
    <3> QED
      BY <3>2, <3>3, <3>4
  <2>2. job'[w] = Idle /\ job' = [v \in Actors |-> job'[v]]
    BY DEF AllOutdated
  <2> QED
    BY <2>1, <2>2
<1>2. Recording' = Recording /\ w \notin Recording
  BY <1>1, IdleFits DEF Recording, GoesOn
<1>3. disturbed \subseteq disturbed' /\ disturbed' \subseteq Assets \X Dirs
  BY DEF Disturbed, IInv, ScanTypeOK
<1>4. ScanTypeOK'
  <2>1. \A v \in Actors : job'[v] \in Jobs /\ WellFormed(job'[v])
    BY <1>1, IdleFits DEF GoesOn
  <2>2. job' \in [Actors -> Jobs]
    BY <1>1, <2>1
  <2>3. TypeOK'
    BY DEF IInv, ScanTypeOK, TypeOK
  <2> QED
    BY <1>3, <2>1, <2>2, <2>3 DEF IInv, ScanTypeOK, WellFormed
<1>5. IdsName'
  <2>1. Named' \subseteq Named
    <3> SUFFICES ASSUME NEW x \in Named'
                 PROVE  x \in Named
      OBVIOUS
    <3>1. CASE x \in events \/ x \in {RowOf(m) : m \in moves}
      BY <3>1 DEF Named
    <3>2. CASE \E v \in Actors : x \in job'[v].prior
      BY <1>1, <3>2, IdleFits DEF Named, GoesOn
    <3>3. CASE \E r \in Recording' : x = RowOf(job[r])'
      <4>1. PICK r \in Recording : x = RowOf(job[r])' /\ r \in Actors \ {w}
        BY <1>2, <3>3 DEF Recording
      <4>2. x = RowOf(job[r])
        BY <1>1, <4>1
      <4> QED
        BY <4>1, <4>2 DEF Named
    <3> QED
      BY <3>1, <3>2, <3>3 DEF Named
  <2> QED
    BY <2>1 DEF IInv, IdsName
<1>6. RecordsAlone'
  <2> SUFFICES ASSUME NEW r \in Recording', NEW v \in Actors \ {r}, SamePlace(v, r)'
               PROVE  IF v \in Recording' THEN <<job'[r].asset, job'[r].dir>> \in disturbed' ELSE job'[v].stale
    BY DEF RecordsAlone
  <2>1. r \in Recording /\ r \in Actors \ {w} /\ GoesOn(r)
    BY <1>1, <1>2 DEF Recording
  <2>2. v # w /\ GoesOn(v)
    BY <1>1, IdleFits DEF SamePlace
  <2>3. SamePlace(v, r)
    BY <2>1, <2>2 DEF SamePlace, GoesOn, Scans, Writes
  <2> QED
    BY <1>2, <1>3, <2>1, <2>2, <2>3 DEF IInv, RecordsAlone, GoesOn
<1>7. FreshHold'
  <2> SUFFICES ASSUME NEW v \in Actors, job'[v] = Idle
               PROVE  (Writes(job[v]) => ReadsHold(job[v]))' /\ CompletionHolds(job[v])'
    BY <1>1 DEF FreshHold
  <2>1. job'[v].step = "idle"
    BY IdleFits
  <2> QED
    BY <2>1 DEF Writes, CompletionHolds
<1>8. Places'
  <2> SUFFICES ASSUME NEW a \in Assets, NEW dir \in Dirs, <<a, dir>> \notin disturbed'
               PROVE  PlaceHolds(a, dir)'
    BY DEF Places
  <2>1. PlaceHolds(a, dir)
    BY <1>3 DEF IInv, Places
  <2>2. Pending(a, dir)' = Pending(a, dir)
    <3>1. \A r \in Recording : /\ RowOf(job[r])' = RowOf(job[r])
                               /\ job'[r].asset = job[r].asset /\ job'[r].dir = job[r].dir
      BY <1>1, <1>2 DEF GoesOn, Recording
    <3> QED
      BY <1>2, <3>1 DEF Pending
  <2>3. EventsOf(a, dir)' = EventsOf(a, dir) /\ MovesOf(a, dir)' = MovesOf(a, dir)
    BY DEF EventsOf, MovesOf
  <2>4. Counted(a, dir)' = Counted(a, dir)
    BY <2>3 DEF Counted
  <2>5. Counted(a, "IN")' = Counted(a, "IN")
    BY DEF Counted, EventsOf
  <2>6. dir = "IN" => Settled(a)'
    OBVIOUS
  <2> QED
    BY <2>1, <2>2, <2>3, <2>4, <2>5, <2>6 DEF PlaceHolds, LedgerMirrors
<1> QED
  BY <1>4, <1>5, <1>6, <1>7, <1>8 DEF IInv

\* Once anybody has written an order that had moved on, every place of it is excused.
LEMMA AllExcused ==
    ASSUME NEW w, job[w].stale, disturbed' = Disturbed(w)
    PROVE  /\ \A a \in Assets : <<a, "IN">> \in disturbed'
           /\ ReadyMeansAllOut'
<1>1. disturbed' = Assets \X Dirs
  BY DEF Disturbed
<1> QED
  BY <1>1 DEF ReadyMeansAllOut, Dirs

LEMMA ReadyKeeps ==
    ASSUME IInv, NEW w \in Actors, Ready(w)
    PROVE  IInv'
<1>1. /\ job[w].step = "ready" /\ status' = "READY_FOR_DELIVERY" /\ disturbed' = Disturbed(w)
      /\ skipped' = (skipped \/ job[w].op = "progress")
      /\ job' = AllOutdated(w) /\ UNCHANGED <<events, moves, writtenOff, stated>>
  BY DEF Ready, At
<1>2. /\ writtenOff \in [Assets -> Nat] /\ skipped \in BOOLEAN
      /\ status' \in Statuses /\ skipped' \in BOOLEAN
  BY <1>1 DEF IInv, ScanTypeOK, TypeOK, Statuses
<1>3. CASE job[w].stale
  BY <1>1, <1>2, <1>3, AllExcused, CompletedKeeps
<1>4. CASE ~job[w].stale
  <2>1. status = "IN_PREPARATION" /\ (job[w].op # "progress" => AllScannedOut)
    BY <1>1, <1>4 DEF IInv, FreshHold, CompletionHolds
  <2>2. disturbed' = disturbed
    BY <1>1, <1>4 DEF Disturbed
  <2>3. ASSUME NEW a \in Assets, <<a, "IN">> \notin disturbed'
        PROVE  Settled(a)'
    <3>1. Settled(a)
      BY <2>2, <2>3 DEF IInv, Places, PlaceHolds, Dirs
    <3> QED
      BY <1>1, <2>1, <3>1 DEF Settled
  <2>4. ReadyMeansAllOut'
    <3> SUFFICES ASSUME ~skipped', \A a \in Assets : <<a, "OUT">> \notin disturbed'
                 PROVE  \A a \in Assets : Counted(a, "OUT")' = Qty[a]
      BY DEF ReadyMeansAllOut
    <3> DEFINE S == {e \in events : e.dir = "OUT"}
    <3>1. AllScannedOut
      BY <1>1, <2>1
    <3>2. IsFiniteSet(S) /\ \A e \in S : e.qty \in Nat /\ e.asset \in Assets
      <4>1. IsFiniteSet(events) /\ events \subseteq Rows
        BY DEF IInv, ScanTypeOK, TypeOK, Rows
      <4> QED
        BY <4>1, FS_Subset DEF Rows
    <3>3. \A a : {e \in S : e.asset = a} = EventsOf(a, "OUT")
      BY DEF EventsOf
    <3>4. \A a \in Assets : Units({e \in S : e.asset = a}) <= Qty[a]
      <4>1. \A a \in Assets : Counted(a, "OUT") <= Qty[a]
        BY <2>2 DEF IInv, Places, PlaceHolds, Dirs
      <4> QED
        BY <3>3, <4>1 DEF Counted
    <3>5. Units(S) >= Wanted
      BY <3>1 DEF AllScannedOut
    <3>6. \A a \in Assets : Units({e \in S : e.asset = a}) = Qty[a]
      <4> HIDE DEF S
      <4> QED
        BY <3>2, <3>4, <3>5, NoneIsShort
    <3>7. \A a \in Assets : Counted(a, "OUT") = Qty[a]
      BY <3>3, <3>6 DEF Counted
    <3>8. \A a \in Assets : Counted(a, "OUT")' = Counted(a, "OUT")
      BY <1>1 DEF Counted, EventsOf
    <3> QED
      BY <3>7, <3>8
  <2> QED
    BY <1>1, <1>2, <2>3, <2>4, CompletedKeeps
<1> QED
  BY <1>3, <1>4

LEMMA CloseKeeps ==
    ASSUME IInv, NEW w \in Actors, Close(w)
    PROVE  IInv'
<1>1. /\ job[w].step = "close" /\ status' = "CLOSED" /\ disturbed' = Disturbed(w)
      /\ writtenOff' = [a \in Assets |-> writtenOff[a] + job[w].short[a]]
      /\ job' = AllOutdated(w) /\ UNCHANGED <<events, moves, stated, skipped>>
  BY DEF Close, At
<1>2. /\ writtenOff \in [Assets -> Nat] /\ job[w].short \in [Assets -> Nat]
      /\ skipped' \in BOOLEAN /\ status' \in Statuses
  BY <1>1 DEF IInv, ScanTypeOK, TypeOK, Statuses, Jobs
<1>3. writtenOff' \in [Assets -> Nat]
  BY <1>1, <1>2
<1>4. CASE job[w].stale
  BY <1>1, <1>2, <1>3, <1>4, AllExcused, CompletedKeeps
<1>5. CASE ~job[w].stale
  <2>1. status = "AWAITING_RETURN" /\ job[w].short = [a \in Assets |-> Short(a)]
    BY <1>1, <1>5 DEF IInv, FreshHold, CompletionHolds
  <2>2. disturbed' = disturbed
    BY <1>1, <1>5 DEF Disturbed
  <2>3. ASSUME NEW a \in Assets, <<a, "IN">> \notin disturbed'
        PROVE  Settled(a)'
    <3>1. Settled(a) /\ Counted(a, "IN") <= Qty[a] /\ Counted(a, "IN") = stated[a]
      BY <2>2, <2>3 DEF IInv, Places, PlaceHolds, Dirs
    <3>2. Counted(a, "IN") \in Nat /\ Qty[a] \in Nat
      BY CountedType, QtyType
    <3>3. Short(a) = Qty[a] - stated[a]
      BY <3>1, <3>2 DEF Short
    <3>4. writtenOff[a] = 0 /\ writtenOff'[a] = writtenOff[a] + Short(a)
      BY <1>1, <2>1, <3>1 DEF Settled
    <3>5. writtenOff'[a] = Qty[a] - stated[a]
      BY <3>1, <3>2, <3>3, <3>4
    <3> QED
      BY <1>1, <3>5 DEF Settled
  <2>4. ReadyMeansAllOut'
    <3>1. \A a \in Assets : Counted(a, "OUT")' = Counted(a, "OUT")
      BY <1>1 DEF Counted, EventsOf
    <3> QED
      BY <1>1, <2>1, <2>2, <3>1 DEF IInv, ReadyMeansAllOut
  <2> QED
    BY <1>1, <1>2, <1>3, <2>3, <2>4, CompletedKeeps
<1> QED
  BY <1>4, <1>5

\* While an order is on its way nobody has read it and not been overtaken.
LEMMA DeliverKeeps ==
    ASSUME IInv, Deliver
    PROVE  IInv'
<1>1. /\ status = "READY_FOR_DELIVERY" /\ status' = "AWAITING_RETURN"
      /\ UNCHANGED <<events, moves, writtenOff, job, stated, disturbed, skipped>>
  BY DEF Deliver
<1>2. /\ \A a, dir : EventsOf(a, dir)' = EventsOf(a, dir)
      /\ \A a, dir : MovesOf(a, dir)' = MovesOf(a, dir)
      /\ \A a, dir : Pending(a, dir)' = Pending(a, dir)
      /\ Recording' = Recording /\ Named' = Named
  BY <1>1 DEF EventsOf, MovesOf, Pending, Recording, Named
<1>3. ScanTypeOK' /\ IdsName' /\ RecordsAlone'
  <2>1. TypeOK'
    BY <1>1 DEF IInv, ScanTypeOK, TypeOK, Statuses
  <2> QED
    BY <1>1, <1>2, <2>1 DEF IInv, ScanTypeOK, IdsName, RecordsAlone, SamePlace, WellFormed
<1>4. FreshHold'
  <2> SUFFICES ASSUME NEW v \in Actors, ~job[v].stale
               PROVE  (Writes(job[v]) => ReadsHold(job[v]))' /\ CompletionHolds(job[v])'
    BY <1>1 DEF FreshHold
  <2>1. ~Writes(job[v]) /\ job[v].step # "ready" /\ job[v].step # "close"
    BY <1>1 DEF IInv, FreshHold, ReadsHold, CompletionHolds
  <2> QED
    BY <1>1, <2>1 DEF Writes, CompletionHolds
<1>5. \A a, dir : Counted(a, dir)' = Counted(a, dir)
  BY <1>2 DEF Counted
<1>6. Places'
  <2> SUFFICES ASSUME NEW a \in Assets, NEW dir \in Dirs, <<a, dir>> \notin disturbed
               PROVE  PlaceHolds(a, dir)'
    BY <1>1 DEF Places
  <2>1. PlaceHolds(a, dir)
    BY DEF IInv, Places
  <2> QED
    BY <1>1, <1>2, <1>5, <2>1 DEF PlaceHolds, LedgerMirrors, Settled
<1>7. ReadyMeansAllOut'
  BY <1>1, <1>5 DEF IInv, ReadyMeansAllOut
<1> QED
  BY <1>3, <1>4, <1>6, <1>7 DEF IInv

(***************************************************************************)
(* The ledger row of a scan.                                               *)
(***************************************************************************)

\* While no one disturbs a place, one scan of it at most awaits its ledger row.
LEMMA OneIsPending ==
    ASSUME IInv, NEW w \in Actors, Scans(job[w]), <<job[w].asset, job[w].dir>> \notin disturbed,
           w \in Recording \/ ~job[w].stale
    PROVE  /\ \A r \in Recording \ {w} : <<job[r].asset, job[r].dir>> # <<job[w].asset, job[w].dir>>
           /\ Pending(job[w].asset, job[w].dir) = IF w \in Recording THEN {RowOf(job[w])} ELSE {}
<1>1. ASSUME NEW r \in Recording \ {w}, job[r].asset = job[w].asset, job[r].dir = job[w].dir
      PROVE  FALSE
  <2>1. r \in Actors /\ r # w /\ SamePlace(w, r)
    BY <1>1 DEF SamePlace, Recording
  <2>2. IF w \in Recording THEN <<job[r].asset, job[r].dir>> \in disturbed ELSE job[w].stale
    BY <2>1 DEF IInv, RecordsAlone
  <2> QED
    BY <1>1, <2>2
<1>2. \A r \in Recording \ {w} : job[r].asset # job[w].asset \/ job[r].dir # job[w].dir
  BY <1>1
<1> QED
  BY <1>2 DEF Pending

LEMMA RecordMovementKeeps ==
    ASSUME IInv, NEW w \in Actors, RecordMovement(w)
    PROVE  IInv'
<1> DEFINE e == RowOf(job[w])
<1>1. /\ job[w].step = "move" /\ job' = [job EXCEPT ![w] = Idle]
      /\ moves' = IF e \in events THEN moves \cup {Movement(e)} ELSE moves
      /\ UNCHANGED <<status, events, writtenOff, stated, disturbed, skipped>>
  BY DEF RecordMovement, At, Finish, RowOf
<1>2. /\ job \in [Actors -> Jobs] /\ job'[w] = Idle
      /\ \A v \in Actors \ {w} : job'[v] = job[v]
  BY <1>1 DEF IInv, ScanTypeOK
<1>3. /\ w \in Recording /\ Recording' = Recording \ {w} /\ Scans(job[w])
      /\ job[w].asset \in Pooled /\ job[w].id \in 1 .. MaxEvents /\ job[w].dir \in Dirs /\ job[w].qty \in Nat
  BY <1>1, <1>2, IdleFits DEF Recording, IInv, ScanTypeOK, WellFormed, Scans, Jobs
<1>4. /\ e.id = job[w].id /\ e.asset = job[w].asset /\ e.dir = job[w].dir /\ e.qty = job[w].qty
      /\ RowOf(Movement(e)) = e /\ Movement(e).linked = TRUE /\ Movement(e).id = e.id
      /\ Movement(e).asset = e.asset /\ Movement(e).dir = e.dir
  BY DEF RowOf, Event, Movement
<1>5. Movement(e) \in Ledger
  BY <1>3, <1>4 DEF Movement, RowOf, Event, Ledger
<1> HIDE DEF e
<1>6. ScanTypeOK'
  <2>1. TypeOK'
    BY <1>1, <1>5 DEF IInv, ScanTypeOK, TypeOK, Ledger
  <2>2. job' \in [Actors -> Jobs] /\ \A v \in Actors : WellFormed(job'[v])
    BY <1>1, <1>2, IdleFits DEF IInv, ScanTypeOK
  <2> QED
    BY <1>1, <2>1, <2>2 DEF IInv, ScanTypeOK, WellFormed
<1>7. e \in Named
  BY <1>3 DEF Named, e
<1>8. IdsName'
  <2>1. Named' \subseteq Named
    <3> SUFFICES ASSUME NEW x \in Named'
                 PROVE  x \in Named
      OBVIOUS
    <3>1. CASE x \in events
      BY <3>1 DEF Named
    <3>2. CASE \E m \in moves' : x = RowOf(m)
      <4>1. PICK m \in moves' : x = RowOf(m)
        BY <3>2
      <4>2. m \in moves \/ m = Movement(e)
        BY <1>1, <4>1
      <4> QED
        BY <1>4, <1>7, <4>1, <4>2 DEF Named
    <3>3. CASE \E v \in Actors : x \in job'[v].prior
      BY <1>2, <3>3, IdleFits DEF Named
    <3>4. CASE \E r \in Recording' : x = RowOf(job'[r])
      <4>1. PICK r \in Recording \ {w} : x = RowOf(job'[r])
        BY <1>3, <3>4
      <4>2. job'[r] = job[r]
        BY <1>2, <4>1 DEF Recording
      <4> QED
        BY <4>1, <4>2 DEF Named
    <3> QED
      BY <1>1, <3>1, <3>2, <3>3, <3>4 DEF Named
  <2> QED
    BY <2>1 DEF IInv, IdsName
<1>9. RecordsAlone'
  <2> SUFFICES ASSUME NEW r \in Recording', NEW v \in Actors \ {r}, SamePlace(v, r)'
               PROVE  IF v \in Recording' THEN <<job'[r].asset, job'[r].dir>> \in disturbed' ELSE job'[v].stale
    BY DEF RecordsAlone
  <2>1. r \in Recording \ {w} /\ r \in Actors /\ job'[r] = job[r]
    BY <1>2, <1>3 DEF Recording
  <2>2. v # w /\ job'[v] = job[v]
    BY <1>2, IdleFits DEF SamePlace
  <2>3. SamePlace(v, r) /\ (v \in Recording' <=> v \in Recording)
    BY <1>3, <2>1, <2>2 DEF SamePlace
  <2> QED
    BY <1>1, <2>1, <2>2, <2>3 DEF IInv, RecordsAlone
<1>10. FreshHold'
  <2> SUFFICES ASSUME NEW v \in Actors, ~job'[v].stale
               PROVE  (Writes(job[v]) => ReadsHold(job[v]))' /\ CompletionHolds(job[v])'
    BY DEF FreshHold
  <2>1. CASE v = w
    <3>1. job'[v].step = "idle"
      BY <1>2, <2>1, IdleFits
    <3> QED
      BY <3>1 DEF Writes, CompletionHolds
  <2>2. CASE v # w
    <3>1. job'[v] = job[v] /\ CompletionHolds(job[v]) /\ (Writes(job[v]) => ReadsHold(job[v]))
      BY <1>2, <2>2 DEF IInv, FreshHold
    <3>2. CompletionHolds(job[v])'
      BY <1>1, <3>1 DEF CompletionHolds, AllScannedOut, Short, Counted, EventsOf
    <3>3. ASSUME Writes(job[v])
          PROVE  ReadsHold(job[v])'
      <4>1. {m \in moves' : m.linked /\ \E d \in job[v].prior : d.id = m.id} = TheDoomed(job[v])
        <5>1. ASSUME e \in events, NEW d \in job[v].prior, d.id = e.id
              PROVE  FALSE
          <6>1. d \in Named
            BY DEF Named
          <6>2. d = e
            BY <1>7, <5>1, <6>1 DEF IInv, IdsName
          <6>3. Scans(job[v]) /\ v \notin Recording
            BY <3>3 DEF Scans, Writes, Recording
          <6>4. d.asset = job[v].asset /\ d.dir = job[v].dir
            BY <6>3 DEF IInv, ScanTypeOK, WellFormed
          <6>5. SamePlace(v, w)
            BY <1>4, <6>2, <6>3, <6>4 DEF SamePlace
          <6> QED
            BY <1>3, <2>2, <3>1, <6>3, <6>5 DEF IInv, RecordsAlone
        <5> QED
          BY <1>1, <1>4, <5>1 DEF TheDoomed
      <4>2. TheDoomed(job[v])' = TheDoomed(job[v])
        BY <3>1, <4>1 DEF TheDoomed
      <4>3. EventsOf(job[v].asset, job[v].dir)' = EventsOf(job[v].asset, job[v].dir)
        BY <1>1, <3>1 DEF EventsOf
      <4>4. Counted(job[v].asset, job[v].dir)' = Counted(job[v].asset, job[v].dir)
        BY <4>3 DEF Counted
      <4> QED
        BY <1>1, <3>1, <3>3, <4>2, <4>3, <4>4 DEF ReadsHold, Swaps
    <3> QED
      BY <3>1, <3>2, <3>3 DEF Writes
  <2> QED
    BY <2>1, <2>2
<1>11. \A a, dir : EventsOf(a, dir)' = EventsOf(a, dir) /\ Counted(a, dir)' = Counted(a, dir)
  BY <1>1 DEF EventsOf, Counted
<1>12. Places'
  <2> SUFFICES ASSUME NEW a \in Assets, NEW dir \in Dirs, <<a, dir>> \notin disturbed
               PROVE  PlaceHolds(a, dir)'
    BY <1>1 DEF Places
  <2>1. PlaceHolds(a, dir)
    BY DEF IInv, Places
  <2>2. a \in Pooled => LedgerMirrors(a, dir)'
    <3>1. CASE a = job[w].asset /\ dir = job[w].dir
      <4>1. /\ \A r \in Recording \ {w} : <<job[r].asset, job[r].dir>> # <<a, dir>>
            /\ Pending(a, dir) = {e}
        BY <1>3, <3>1, OneIsPending DEF e
      <4>2. Pending(a, dir)' = {}
        BY <1>2, <1>3, <4>1 DEF Pending, Recording
      <4>3. e \in EventsOf(a, dir) /\ e \in events
            /\ MovesOf(a, dir) = {Movement(d) : d \in EventsOf(a, dir) \ {e}}
        BY <1>3, <2>1, <3>1, <4>1 DEF PlaceHolds, LedgerMirrors, EventsOf
      <4>4. MovesOf(a, dir)' = MovesOf(a, dir) \cup {Movement(e)}
        BY <1>1, <1>4, <3>1, <4>3 DEF MovesOf
      <4>5. MovesOf(a, dir)' = {Movement(d) : d \in EventsOf(a, dir)}
        BY <4>3, <4>4
      <4> QED
        BY <1>11, <4>2, <4>5 DEF LedgerMirrors
    <3>2. CASE a # job[w].asset \/ dir # job[w].dir
      <4>1. MovesOf(a, dir)' = MovesOf(a, dir)
        BY <1>1, <1>4, <3>2 DEF MovesOf
      <4>2. Pending(a, dir)' = Pending(a, dir)
        BY <1>2, <1>3, <3>2 DEF Pending, Recording
      <4> QED
        BY <1>11, <2>1, <4>1, <4>2 DEF PlaceHolds, LedgerMirrors
    <3> QED
      BY <3>1, <3>2
  <2>3. Settled(a)' = Settled(a)
    BY <1>1 DEF Settled
  <2> QED
    BY <1>1, <1>11, <2>1, <2>2, <2>3 DEF PlaceHolds
<1>13. ReadyMeansAllOut'
  BY <1>1, <1>11 DEF IInv, ReadyMeansAllOut
<1> QED
  BY <1>6, <1>8, <1>9, <1>10, <1>12, <1>13 DEF IInv

(***************************************************************************)
(* The event of a scan, which replaces those that the scan has read.       *)
(***************************************************************************)
NewId == CHOOSE i \in FreshIds : TRUE
NewRow(w) == Event(NewId, job[w].asset, job[w].dir, job[w].qty)

\* A fresh id is that of no row that anybody names.
LEMMA NewIdIsNew ==
    ASSUME FreshIds # {}
    PROVE  NewId \in 1 .. MaxEvents /\ \A x \in Named : x.id # NewId
<1>1. NewId \in FreshIds
  BY DEF NewId
<1>2. /\ NewId \in 1 .. MaxEvents
      /\ \A e \in events : e.id # NewId
      /\ \A m \in moves : m.id # NewId
      /\ \A w \in Actors : job[w].id # NewId
      /\ \A w \in Actors : \A e \in job[w].prior : e.id # NewId
  <2>1. /\ NewId \in 1 .. MaxEvents
        /\ NewId \notin IdsOf(events) /\ NewId \notin IdsOf(moves)
        /\ NewId \notin {job[w].id : w \in Actors}
        /\ NewId \notin UNION {IdsOf(job[w].prior \cup job[w].doomed) : w \in Actors}
    BY <1>1 DEF FreshIds
  <2>2. \A e \in events : e.id # NewId
    BY <2>1 DEF IdsOf
  <2>3. \A m \in moves : m.id # NewId
    BY <2>1 DEF IdsOf
  <2>4. ASSUME NEW w \in Actors, NEW e \in job[w].prior
        PROVE  e.id # NewId
    <3>1. e.id \in IdsOf(job[w].prior \cup job[w].doomed)
      BY DEF IdsOf
    <3> QED
      BY <2>1, <3>1
  <2> QED
    BY <2>1, <2>2, <2>3, <2>4
<1>3. ASSUME NEW x \in Named
      PROVE  x.id # NewId
  <2>1. \A r : RowOf(r).id = r.id
    BY DEF RowOf, Event
  <2>2. \/ x \in events
        \/ \E m \in moves : x = RowOf(m)
        \/ \E w \in Recording : x = RowOf(job[w])
        \/ \E w \in Actors : x \in job[w].prior
    BY DEF Named
  <2>3. CASE x \in events
    BY <1>2, <2>3
  <2>4. CASE \E m \in moves : x = RowOf(m)
    BY <1>2, <2>1, <2>4
  <2>5. CASE \E w \in Recording : x = RowOf(job[w])
    BY <1>2, <2>1, <2>5 DEF Recording
  <2>6. CASE \E w \in Actors : x \in job[w].prior
    BY <1>2, <2>6
  <2> QED
    BY <2>2, <2>3, <2>4, <2>5, <2>6
<1> QED
  BY <1>2, <1>3

\* What the step writes, place by place.
Inserts(w) ==
    LET i == job[w]  a == job[w].asset  dir == job[w].dir IN
    /\ i.step = "insert" /\ i.op = "scan" /\ i \in Jobs /\ WellFormed(i) /\ Scans(i) /\ Writes(i)
    /\ a \in Assets /\ dir \in Dirs /\ i.qty \in Nat
    /\ NewId \in 1 .. MaxEvents /\ \A x \in Named : x.id # NewId
    /\ NewRow(w) \in Rows /\ NewRow(w).id = NewId /\ NewRow(w).asset = a
    /\ NewRow(w).dir = dir /\ NewRow(w).qty = i.qty
    /\ Replaced(w) = (IF Swaps(i) THEN i.prior ELSE {})
    /\ events' = (events \ Replaced(w)) \cup {NewRow(w)}
    /\ moves' = Unlinked(w)
    /\ status' = status /\ writtenOff' = writtenOff /\ skipped' = skipped
    /\ stated' = IF dir = "IN" THEN [stated EXCEPT ![a] = IF a \in Pooled THEN i.qty ELSE @ + i.qty]
                               ELSE stated
    /\ disturbed' = IF i.stale THEN disturbed \cup {<<a, dir>>} ELSE disturbed
    /\ job' = [v \in Actors |-> job'[v]]
    /\ job'[w] = IF a \in Pooled THEN [i EXCEPT !.step = "move", !.id = NewId] ELSE Idle

LEMMA InsertWrites ==
    ASSUME IInv, NEW w \in Actors, InsertEvent(w)
    PROVE  /\ Inserts(w)
           /\ \A v \in Actors \ {w} :
                 /\ GoesOn(v) /\ RowOf(job[v])' = RowOf(job[v])
                 /\ \/ job'[v].stale \/ job'[v] = Idle
                    \/ /\ job[v].op = "scan"
                       /\ job[v].asset # job[w].asset \/ job[v].dir # job[w].dir
<1> DEFINE i == job[w]
           a == i.asset
           dir == i.dir
<1>1. i \in Jobs /\ WellFormed(i) /\ i.step = "insert"
  BY DEF IInv, ScanTypeOK, InsertEvent, At
<1>2. Scans(i) /\ Writes(i) /\ i.op = "scan" /\ a \in Assets /\ dir \in Dirs /\ i.qty \in Nat
  BY <1>1 DEF WellFormed, Scans, Writes, Jobs
<1>3. NewId \in 1 .. MaxEvents /\ \A x \in Named : x.id # NewId
  BY NewIdIsNew DEF InsertEvent
<1>4. NewRow(w) = [id |-> NewId, asset |-> a, dir |-> dir, qty |-> i.qty]
  BY DEF NewRow, Event
<1>5. /\ NewRow(w) \in Rows /\ NewRow(w).id = NewId /\ NewRow(w).asset = a
      /\ NewRow(w).dir = dir /\ NewRow(w).qty = i.qty
  BY <1>2, <1>3, <1>4 DEF Rows
<1>6. Replaced(w) = (IF Swaps(i) THEN i.prior ELSE {})
  BY DEF Replaced, Swaps
<1>7. /\ events' = (events \ Replaced(w)) \cup {NewRow(w)}
      /\ moves' = Unlinked(w)
      /\ status' = status /\ writtenOff' = writtenOff /\ skipped' = skipped
      /\ stated' = IF dir = "IN" THEN [stated EXCEPT ![a] = IF a \in Pooled THEN i.qty ELSE @ + i.qty]
                                 ELSE stated
      /\ disturbed' = IF i.stale THEN disturbed \cup {<<a, dir>>} ELSE disturbed
      /\ job' = Outdated(IF a \in Pooled THEN [job EXCEPT ![w].step = "move", ![w].id = NewId]
                                         ELSE Finish(w), w, a, dir)
  BY DEF InsertEvent, NewRow, NewId
<1>8. job \in [Actors -> Jobs]
  BY DEF IInv, ScanTypeOK
<1> DEFINE next == IF a \in Pooled THEN [i EXCEPT !.step = "move", !.id = NewId] ELSE Idle
           jobs == [job EXCEPT ![w] = next]
<1>9. job' = Outdated(jobs, w, a, dir)
  <2>1. CASE a \in Pooled
    <3>1. [job EXCEPT ![w].step = "move", ![w].id = NewId] = jobs
      BY <1>8, <2>1
    <3> QED
      BY <1>7, <2>1, <3>1
  <2>2. CASE a \notin Pooled
    BY <1>7, <2>2 DEF Finish
  <2> QED
    BY <2>1, <2>2
<1>10. jobs[w] = next /\ \A v \in Actors \ {w} : jobs[v] = job[v]
  BY <1>8
<1> HIDE DEF jobs
<1>11. job'[w] = next /\ job' = [v \in Actors |-> job'[v]]
  BY <1>9, <1>10 DEF Outdated
<1>12. ASSUME NEW v \in Actors \ {w}
       PROVE  /\ GoesOn(v) /\ RowOf(job[v])' = RowOf(job[v])
              /\ job'[v].stale \/ job'[v] = Idle \/ (job[v].op = "scan" /\ (job[v].asset # a \/ job[v].dir # dir))
  <2>1. job[v] \in Jobs
    BY <1>8
  <2>2. job'[v] = IF job[v] # Idle /\ (job[v].op # "scan" \/ (job[v].asset = a /\ job[v].dir = dir))
                  THEN [job[v] EXCEPT !.stale = TRUE] ELSE job[v]
    BY <1>9, <1>10 DEF Outdated
  <2>3. job'[v] = job[v] \/ job'[v] = [job[v] EXCEPT !.stale = TRUE]
    BY <2>2
  <2>4. GoesOn(v) /\ RowOf(job[v])' = RowOf(job[v])
    BY <2>3, OutdatedGoesOn
  <2>5. [job[v] EXCEPT !.stale = TRUE].stale = TRUE
    BY <2>1 DEF Jobs
  <2> QED
    BY <2>2, <2>4, <2>5
<1> QED
  BY <1>1, <1>2, <1>3, <1>5, <1>6, <1>7, <1>11, <1>12 DEF Inserts

\* Other places keep their events and their ledger rows.
LEMMA OtherPlaces ==
    ASSUME IInv, NEW w \in Actors, Inserts(w)
    PROVE  /\ \A a, dir : a # job[w].asset \/ dir # job[w].dir =>
                /\ EventsOf(a, dir)' = EventsOf(a, dir)
                /\ MovesOf(a, dir)' = MovesOf(a, dir)
                /\ Counted(a, dir)' = Counted(a, dir)
           /\ \A m \in moves' : \E d \in moves : RowOf(m) = RowOf(d)
<1> DEFINE i == job[w]
<1>1. \A e \in Replaced(w) : e \in i.prior /\ e.asset = i.asset /\ e.dir = i.dir /\ e \in Named
  <2>1. \A e \in i.prior : e \in Named /\ e.asset = i.asset /\ e.dir = i.dir
    BY DEF Inserts, WellFormed, Named
  <2> QED
    BY <2>1 DEF Inserts
<1>2. \A m \in i.doomed : m.asset = i.asset /\ m.dir = i.dir
  BY DEF Inserts, WellFormed
<1>3. ASSUME NEW m \in moves
      PROVE  /\ RowOf(m) \in Named /\ RowOf(m).id = m.id /\ RowOf(m).asset = m.asset /\ RowOf(m).dir = m.dir
             /\ m \in Ledger
  BY DEF Named, RowOf, Event, IInv, ScanTypeOK, TypeOK, Ledger
<1>4. ASSUME NEW m \in moves, NEW e \in Replaced(w), e.id = m.id
      PROVE  m.asset = i.asset /\ m.dir = i.dir
  <2>1. RowOf(m) = e
    BY <1>1, <1>3, <1>4 DEF IInv, IdsName
  <2> QED
    BY <1>1, <1>3, <2>1
<1> DEFINE left(m) == IF \E e \in Replaced(w) : e.id = m.id THEN [m EXCEPT !.linked = FALSE] ELSE m
<1>5. moves' = {left(m) : m \in moves \ i.doomed}
  BY DEF Inserts, Unlinked
<1>6. ASSUME NEW m \in moves
      PROVE  /\ left(m).id = m.id /\ left(m).asset = m.asset /\ left(m).dir = m.dir /\ left(m).qty = m.qty
             /\ m.asset # i.asset \/ m.dir # i.dir => left(m) = m
  <2>1. m \in Ledger
    BY <1>3
  <2>2. m.asset # i.asset \/ m.dir # i.dir => ~\E e \in Replaced(w) : e.id = m.id
    BY <1>4
  <2> QED
    BY <2>1, <2>2 DEF Ledger
<1>7. ASSUME NEW a, NEW dir, a # i.asset \/ dir # i.dir
      PROVE  /\ EventsOf(a, dir)' = EventsOf(a, dir)
             /\ MovesOf(a, dir)' = MovesOf(a, dir)
  <2>1. EventsOf(a, dir)' = EventsOf(a, dir)
    BY <1>1, <1>7 DEF EventsOf, Inserts
  <2>2. ASSUME NEW m \in moves', m.asset = a, m.dir = dir
        PROVE  m \in moves
    <3>1. PICK d \in moves \ i.doomed : m = left(d)
      BY <1>5
    <3> HIDE DEF left
    <3>2. d.asset = a /\ d.dir = dir
      BY <1>6, <2>2, <3>1
    <3>3. m = d
      BY <1>6, <1>7, <3>1, <3>2
    <3> QED
      BY <3>1, <3>3
  <2>3. ASSUME NEW m \in moves, m.asset = a, m.dir = dir
        PROVE  m \in moves'
    <3>1. m \notin i.doomed
      BY <1>2, <1>7, <2>3
    <3>2. left(m) = m
      BY <1>6, <1>7, <2>3
    <3> HIDE DEF left
    <3> QED
      BY <1>5, <3>1, <3>2
  <2> QED
    BY <2>1, <2>2, <2>3 DEF MovesOf
<1>8. ASSUME NEW m \in moves'
      PROVE  \E d \in moves : RowOf(m) = RowOf(d)
  <2>1. PICK d \in moves \ i.doomed : m = left(d)
    BY <1>5
  <2> HIDE DEF left
  <2> QED
    BY <1>6, <2>1 DEF RowOf
<1> QED
  BY <1>7, <1>8 DEF Counted

\* The place that is scanned, unless the scan was overtaken.
LEMMA ThisPlace ==
    ASSUME IInv, NEW w \in Actors, Inserts(w), ~job[w].stale,
           NEW a, a = job[w].asset, NEW dir, dir = job[w].dir, <<a, dir>> \notin disturbed,
           \A v \in Actors \ {w} : GoesOn(v)
    PROVE  PlaceHolds(a, dir)'
<1> DEFINE i == job[w]
<1>e. PICK e : e = NewRow(w)
  OBVIOUS
<1>1. ReadsHold(i) /\ PlaceHolds(a, dir)
  BY DEF IInv, FreshHold, Places, Inserts
<1>2. a \in Assets /\ dir \in Dirs /\ Qty[a] \in Nat /\ i.qty \in Nat
  BY QtyType DEF Inserts
<1>3. w \notin Recording /\ Pending(a, dir) = {}
      /\ \A r \in Recording : <<job[r].asset, job[r].dir>> # <<a, dir>>
  <2>1. w \notin Recording
    BY DEF Inserts, Recording
  <2> QED
    BY <2>1, OneIsPending DEF Inserts
<1>4. e.asset = a /\ e.dir = dir /\ e.qty = i.qty /\ e.id = NewId /\ e \notin Named /\ e \notin events
  BY <1>e DEF Inserts, Named
<1>5. i.prior = EventsOf(a, dir)
  BY <1>1 DEF ReadsHold
<1>6. a \in Pooled => Pending(a, dir)' = {e}
  <2> SUFFICES ASSUME a \in Pooled
               PROVE  Pending(a, dir)' = {e}
    OBVIOUS
  <2>1. job'[w] = [i EXCEPT !.step = "move", !.id = NewId] /\ i \in Jobs
    BY DEF Inserts
  <2>2. job'[w].step = "move" /\ job'[w].asset = a /\ job'[w].dir = dir /\ RowOf(job'[w]) = e
    BY <1>e, <2>1 DEF Jobs, RowOf, NewRow
  <2>3. Recording' = Recording \cup {w}
    BY <2>2 DEF Recording, GoesOn
  <2>4. \A r \in Recording : job'[r].asset # a \/ job'[r].dir # dir
    BY <1>3 DEF GoesOn, Recording
  <2> QED
    BY <2>2, <2>3, <2>4 DEF Pending
<1>7. \A E, x : IsFiniteSet(E) /\ E \subseteq Rows /\ x \notin E /\ x.qty \in Nat =>
           Units(E \cup {x}) = Units(E) + x.qty
  BY UnitsOfOneMore DEF Rows
<1>8. Settled(a) /\ dir = "IN" => writtenOff[a] = 0 /\ status # "CLOSED"
  BY <1>1 DEF Settled, ReadsHold
<1>9. CASE Swaps(i)
  <2>1. dir = "IN" /\ a \in Pooled
    BY <1>9 DEF Swaps
  <2>2. EventsOf(a, dir)' = {e}
    BY <1>e, <1>4, <1>5, <1>9 DEF Inserts, EventsOf
  <2>3. Counted(a, dir)' = i.qty
    <3>1. IsFiniteSet({})
      BY FS_EmptySet
    <3>2. Units({} \cup {e}) = Units({}) + e.qty
      BY <1>2, <1>4, <1>7, <3>1
    <3>3. {} \cup {e} = {e}
      OBVIOUS
    <3>4. Units({e}) = i.qty
      BY <1>2, <1>4, <3>2, <3>3, UnitsNone
    <3> QED
      BY <2>2, <3>4 DEF Counted
  <2>4. i.qty <= Qty[a]
    BY <1>1, <1>9 DEF ReadsHold
  <2>5. stated'[a] = i.qty
    BY <1>2, <2>1 DEF Inserts, IInv, ScanTypeOK
  <2>6. MovesOf(a, dir)' = {}
    <3>1. MovesOf(a, dir) = {Movement(d) : d \in i.prior}
      BY <1>1, <1>3, <1>5, <2>1 DEF PlaceHolds, LedgerMirrors
    <3>2. i.doomed = TheDoomed(i)
      BY <1>1, <1>9 DEF ReadsHold, Inserts
    <3>3. \A m \in MovesOf(a, dir) : m \in i.doomed
      <4> SUFFICES ASSUME NEW m \in MovesOf(a, dir)
                   PROVE  m \in TheDoomed(i)
        BY <3>2
      <4>1. PICK d \in i.prior : m = Movement(d)
        BY <3>1
      <4>2. m \in moves /\ m.linked /\ d.id = m.id
        BY <4>1 DEF MovesOf, Movement
      <4> QED
        BY <4>2 DEF TheDoomed
    <3>4. ASSUME NEW m \in moves', m.asset = a, m.dir = dir
          PROVE  FALSE
      <4>1. PICK d \in moves \ i.doomed :
                m = IF \E x \in Replaced(w) : x.id = d.id THEN [d EXCEPT !.linked = FALSE] ELSE d
        BY DEF Inserts, Unlinked
      <4>2. d \in Ledger
        BY DEF IInv, ScanTypeOK, TypeOK, Ledger
      <4>3. d.asset = a /\ d.dir = dir
        BY <3>4, <4>1, <4>2 DEF Ledger
      <4> QED
        BY <3>3, <4>1, <4>3 DEF MovesOf
    <3> QED
      BY <3>4 DEF MovesOf
  <2>7. LedgerMirrors(a, dir)'
    BY <1>6, <2>1, <2>2, <2>6 DEF LedgerMirrors
  <2>8. Settled(a)'
    BY <1>1, <1>8, <2>1 DEF Settled, PlaceHolds, Inserts
  <2>9. Counted(a, "IN")' = stated'[a]
    BY <2>1, <2>3, <2>5
  <2> QED
    BY <2>3, <2>4, <2>7, <2>8, <2>9 DEF PlaceHolds, Inserts
<1>10. CASE ~Swaps(i)
  <2>1. Replaced(w) = {} /\ i.doomed = {}
    BY <1>10 DEF Inserts, WellFormed
  <2>2. moves' = moves
    BY <2>1 DEF Inserts, Unlinked
  <2>3. EventsOf(a, dir)' = EventsOf(a, dir) \cup {e}
    BY <1>e, <1>4, <2>1 DEF Inserts, EventsOf
  <2>4. e \notin EventsOf(a, dir)
    BY <1>4 DEF EventsOf
  <2>5. Counted(a, dir)' = Counted(a, dir) + i.qty
    <3>1. IsFiniteSet(EventsOf(a, dir)) /\ EventsOf(a, dir) \subseteq Rows
      BY CountedType
    <3>2. Units(EventsOf(a, dir) \cup {e}) = Units(EventsOf(a, dir)) + i.qty
      BY <1>2, <1>4, <1>7, <2>4, <3>1
    <3> QED
      BY <2>3, <3>2 DEF Counted
  <2>6. Counted(a, dir) + i.qty <= Qty[a]
    BY <1>1, <1>10 DEF ReadsHold
  <2>7. dir = "IN" => stated'[a] = Counted(a, "IN") + i.qty
    BY <1>1, <1>2, <1>10 DEF Inserts, IInv, ScanTypeOK, PlaceHolds, Swaps
  <2>8. MovesOf(a, dir)' = MovesOf(a, dir)
    BY <2>2 DEF MovesOf
  <2>9. a \in Pooled => LedgerMirrors(a, dir)'
    <3> SUFFICES ASSUME a \in Pooled
                 PROVE  LedgerMirrors(a, dir)'
      OBVIOUS
    <3>1. MovesOf(a, dir) = {Movement(d) : d \in EventsOf(a, dir)}
      BY <1>1, <1>3 DEF PlaceHolds, LedgerMirrors
    <3>2. EventsOf(a, dir)' \ Pending(a, dir)' = EventsOf(a, dir)
      BY <1>6, <2>3, <2>4
    <3>3. Pending(a, dir)' \subseteq EventsOf(a, dir)'
      BY <1>6, <2>3
    <3> QED
      BY <2>8, <3>1, <3>2, <3>3 DEF LedgerMirrors
  <2>10. dir = "IN" => Settled(a)'
    BY <1>1, <1>8 DEF Settled, PlaceHolds, Inserts
  <2> QED
    BY <2>5, <2>6, <2>7, <2>9, <2>10 DEF PlaceHolds, Inserts
<1> QED
  BY <1>9, <1>10

\* The tables after it, and the types.
LEMMA InsertRows ==
    ASSUME IInv, NEW w \in Actors, Inserts(w), \A v \in Actors \ {w} : GoesOn(v)
    PROVE  /\ disturbed \subseteq disturbed'
           /\ job'[w] \in Jobs /\ WellFormed(job'[w]) => ScanTypeOK'
<1>1. events' \subseteq Rows /\ IsFiniteSet(events')
  <2>1. IsFiniteSet(events) /\ events \subseteq Rows
    BY DEF IInv, ScanTypeOK, TypeOK, Rows
  <2>2. IsFiniteSet(events \ Replaced(w))
    BY <2>1, FS_Subset
  <2>3. IsFiniteSet((events \ Replaced(w)) \cup {NewRow(w)})
    BY <2>2, FS_AddElement
  <2> QED
    BY <2>1, <2>3 DEF Inserts
<1>2. moves' \subseteq Ledger
  <2> SUFFICES ASSUME NEW m \in moves'
               PROVE  m \in Ledger
    OBVIOUS
  <2>1. PICK d \in moves : m = IF \E x \in Replaced(w) : x.id = d.id THEN [d EXCEPT !.linked = FALSE] ELSE d
    BY DEF Inserts, Unlinked
  <2>2. d \in Ledger
    BY DEF IInv, ScanTypeOK, TypeOK, Ledger
  <2> QED
    BY <2>1, <2>2 DEF Ledger
<1>3. TypeOK'
  BY <1>1, <1>2 DEF IInv, ScanTypeOK, TypeOK, Rows, Ledger, Inserts
<1>4. stated' \in [Assets -> Nat]
  BY DEF Inserts, IInv, ScanTypeOK
<1>5. disturbed \subseteq disturbed' /\ disturbed' \subseteq Assets \X Dirs /\ skipped' \in BOOLEAN
  BY DEF Inserts, IInv, ScanTypeOK
<1>6. ASSUME job'[w] \in Jobs, WellFormed(job'[w])
      PROVE  ScanTypeOK'
  <2>1. \A v \in Actors : job'[v] \in Jobs /\ WellFormed(job'[v])
    BY <1>6 DEF GoesOn
  <2>2. job' \in [Actors -> Jobs]
    BY <2>1 DEF Inserts
  <2> QED
    BY <1>1, <1>3, <1>4, <1>5, <2>1, <2>2 DEF ScanTypeOK, WellFormed
<1> QED
  BY <1>5, <1>6

\* What the table of the handler and the rows become.
LEMMA InsertTypes ==
    ASSUME IInv, NEW w \in Actors, Inserts(w), \A v \in Actors \ {w} : GoesOn(v)
    PROVE  /\ ScanTypeOK'
           /\ disturbed \subseteq disturbed'
           /\ w \notin Recording
           /\ Recording' = IF job[w].asset \in Pooled THEN Recording \cup {w} ELSE Recording
           /\ IF job[w].asset \in Pooled
              THEN /\ job'[w].asset = job[w].asset /\ job'[w].dir = job[w].dir
                   /\ job'[w].prior = job[w].prior /\ RowOf(job'[w]) = NewRow(w)
              ELSE job'[w] = Idle
           /\ job'[w].step \in {"move", "idle"}
<1> DEFINE i == job[w]
<1>1. CASE i.asset \in Pooled
  <2>1. job'[w] = [i EXCEPT !.step = "move", !.id = NewId] /\ i \in Jobs /\ WellFormed(i)
    BY <1>1 DEF Inserts
  <2>2. /\ job'[w].step = "move" /\ job'[w].asset = i.asset /\ job'[w].dir = i.dir /\ job'[w].op = i.op
        /\ job'[w].prior = i.prior /\ job'[w].doomed = i.doomed /\ job'[w].id = NewId /\ job'[w].qty = i.qty
    BY <2>1 DEF Jobs
  <2>3. job'[w] \in Jobs
    <3>1. NewId \in 0 .. MaxEvents
      BY BoundType DEF Inserts
    <3> QED
      BY <2>1, <3>1 DEF Jobs, Steps
  <2>4. WellFormed(job'[w])
    BY <1>1, <2>2 DEF Inserts, WellFormed, Scans, Writes, Swaps
  <2>5. RowOf(job'[w]) = NewRow(w)
    BY <2>2 DEF RowOf, NewRow
  <2>6. Recording' = Recording \cup {w}
    BY <2>2 DEF Recording, GoesOn
  <2>7. w \notin Recording
    BY DEF Inserts, Recording
  <2> QED
    BY <1>1, <2>2, <2>3, <2>4, <2>5, <2>6, <2>7, InsertRows
<1>2. CASE i.asset \notin Pooled
  <2>1. job'[w] = Idle
    BY <1>2 DEF Inserts
  <2>2. w \notin Recording
    BY DEF Inserts, Recording
  <2>3. Recording' = Recording
    BY <2>1, <2>2, IdleFits DEF Recording, GoesOn
  <2> QED
    BY <1>2, <2>1, <2>2, <2>3, IdleFits, InsertRows
<1> QED
  BY <1>1, <1>2

LEMMA InsertEventKeeps ==
    ASSUME IInv, NEW w \in Actors, InsertEvent(w)
    PROVE  IInv'
<1> DEFINE i == job[w]
<1>a. PICK a : a = job[w].asset
  OBVIOUS
<1>d. PICK dir : dir = job[w].dir
  OBVIOUS
<1>e. PICK e : e = NewRow(w)
  OBVIOUS
<1>1. /\ Inserts(w)
      /\ \A v \in Actors \ {w} : GoesOn(v) /\ RowOf(job[v])' = RowOf(job[v])
      /\ \A v \in Actors \ {w} : \/ job'[v].stale \/ job'[v] = Idle
                                 \/ job[v].op = "scan" /\ (job[v].asset # a \/ job[v].dir # dir)
  BY <1>a, <1>d, InsertWrites
<1>2. /\ ScanTypeOK' /\ disturbed \subseteq disturbed' /\ w \notin Recording
      /\ Recording' = IF a \in Pooled THEN Recording \cup {w} ELSE Recording
      /\ a \in Pooled => /\ job'[w].asset = a /\ job'[w].dir = dir
                         /\ job'[w].prior = i.prior /\ RowOf(job'[w]) = e
      /\ a \notin Pooled => job'[w] = Idle
      /\ job'[w].step \in {"move", "idle"}
  BY <1>1, <1>a, <1>d, <1>e, InsertTypes
<1>3. /\ i.stale => <<a, dir>> \in disturbed'
      /\ ~i.stale => disturbed' = disturbed
      /\ a \in Assets /\ dir \in Dirs /\ Scans(i)
  BY <1>1, <1>a, <1>d DEF Inserts
<1>4. /\ \A b, d : b # a \/ d # dir =>
             /\ EventsOf(b, d)' = EventsOf(b, d)
             /\ MovesOf(b, d)' = MovesOf(b, d)
             /\ Counted(b, d)' = Counted(b, d)
      /\ \A m \in moves' : \E d \in moves : RowOf(m) = RowOf(d)
  BY <1>1, <1>a, <1>d, OtherPlaces
<1>5. IdsName'
  <2>1. Named' \subseteq Named \cup {e}
    <3> SUFFICES ASSUME NEW x \in Named'
                 PROVE  x \in Named \cup {e}
      OBVIOUS
    <3>1. CASE x \in events'
      BY <1>1, <1>e, <3>1 DEF Inserts, Named
    <3>2. CASE \E m \in moves' : x = RowOf(m)
      BY <1>4, <3>2 DEF Named
    <3>3. CASE \E v \in Actors : x \in job'[v].prior
      <4>1. \A v \in Actors : job'[v].prior \subseteq job[v].prior
        BY <1>1, <1>2, IdleFits DEF GoesOn
      <4> QED
        BY <3>3, <4>1 DEF Named
    <3>4. CASE \E r \in Recording' : x = RowOf(job[r])'
      <4>1. PICK r \in Recording' : x = RowOf(job[r])'
        BY <3>4
      <4>2. CASE r = w
        BY <1>2, <4>1, <4>2, IdleFits DEF Recording
      <4>3. CASE r # w
        <5>1. r \in Recording /\ r \in Actors \ {w}
          BY <1>2, <4>1, <4>3 DEF Recording
        <5> QED
          BY <1>1, <4>1, <5>1 DEF Named
      <4> QED
        BY <4>2, <4>3
    <3> QED
      BY <3>1, <3>2, <3>3, <3>4 DEF Named
  <2>2. \A x \in Named : x.id # e.id
    BY <1>1, <1>e DEF Inserts
  <2> QED
    BY <2>1, <2>2 DEF IInv, IdsName
<1>6. \A r \in Recording : <<job[r].asset, job[r].dir>> = <<a, dir>> => <<a, dir>> \in disturbed'
  <2> SUFFICES ASSUME NEW r \in Recording, job[r].asset = a, job[r].dir = dir
               PROVE  i.stale
    BY <1>3
  <2>1. r \in Actors /\ r # w /\ SamePlace(w, r)
    BY <1>2, <1>3, <1>a, <1>d DEF SamePlace, Recording
  <2> QED
    BY <1>2, <2>1 DEF IInv, RecordsAlone
<1>7. RecordsAlone'
  <2> SUFFICES ASSUME NEW r \in Recording', NEW v \in Actors \ {r}, SamePlace(v, r)'
               PROVE  IF v \in Recording' THEN <<job'[r].asset, job'[r].dir>> \in disturbed' ELSE job'[v].stale
    BY DEF RecordsAlone
  <2>1. r \in Actors /\ Scans(job'[v]) /\ job'[v].asset = job'[r].asset /\ job'[v].dir = job'[r].dir
    BY DEF SamePlace, Recording
  <2>2. CASE r = w
    <3>1. a \in Pooled /\ job'[w].asset = a /\ job'[w].dir = dir
      BY <1>2, <2>2
    <3>2. v # w /\ GoesOn(v) /\ job[v].asset = a /\ job[v].dir = dir
      BY <1>1, <2>1, <2>2, <3>1 DEF GoesOn
    <3>3. job'[v].stale
      BY <1>1, <2>1, <3>2, IdleFits
    <3>4. v \in Recording' => v \in Recording
      BY <1>2, <3>2
    <3> QED
      BY <1>6, <2>2, <3>1, <3>2, <3>3, <3>4
  <2>3. CASE v = w
    <3>1. a \in Pooled /\ job'[w].asset = a /\ job'[w].dir = dir
      BY <1>2, <2>1, <2>3, IdleFits
    <3>2. r \in Recording /\ r # w /\ GoesOn(r) /\ job[r].asset = a /\ job[r].dir = dir
      BY <1>1, <1>2, <2>1, <2>3, <3>1 DEF GoesOn
    <3>3. w \in Recording'
      BY <1>2, <3>1
    <3> QED
      BY <1>6, <2>1, <2>3, <3>1, <3>2, <3>3
  <2>4. CASE r # w /\ v # w
    <3>1. r \in Recording /\ GoesOn(r) /\ GoesOn(v) /\ (v \in Recording' <=> v \in Recording)
      BY <1>1, <1>2, <2>1, <2>4
    <3>2. SamePlace(v, r)
      BY <2>1, <3>1 DEF SamePlace, GoesOn, Scans, Writes
    <3> QED
      BY <1>2, <3>1, <3>2 DEF IInv, RecordsAlone, GoesOn
  <2> QED
    BY <2>2, <2>3, <2>4
<1>8. FreshHold'
  <2> SUFFICES ASSUME NEW v \in Actors, ~job'[v].stale
               PROVE  (Writes(job[v]) => ReadsHold(job[v]))' /\ CompletionHolds(job[v])'
    BY DEF FreshHold
  <2>1. CASE v = w \/ job'[v] = Idle
    <3>1. job'[v].step \in {"move", "idle"}
      BY <1>2, <2>1, IdleFits
    <3> QED
      BY <3>1 DEF Writes, CompletionHolds
  <2>2. CASE v # w /\ job'[v] # Idle
    <3>1. GoesOn(v) /\ job[v].op = "scan" /\ (job[v].asset # a \/ job[v].dir # dir)
      BY <1>1, <2>2
    <3>2. Scans(job[v]) /\ ~job[v].stale /\ WellFormed(job[v])
      BY <3>1 DEF IInv, ScanTypeOK, WellFormed, GoesOn
    <3>3. CompletionHolds(job[v])'
      BY <3>1, <3>2 DEF Scans, Writes, CompletionHolds, GoesOn
    <3>4. ASSUME Writes(job'[v])
          PROVE  ReadsHold(job[v])'
      <4>1. Writes(job[v]) /\ ReadsHold(job[v])
        BY <3>1, <3>2, <3>4 DEF IInv, FreshHold, GoesOn, Writes
      <4>b. PICK b : b = job[v].asset
        OBVIOUS
      <4>c. PICK c : c = job[v].dir
        OBVIOUS
      <4>p. PICK p : p = job[v].prior
        OBVIOUS
      <4>2. b # a \/ c # dir
        BY <3>1, <4>b, <4>c
      <4>3. EventsOf(b, c)' = EventsOf(b, c) /\ MovesOf(b, c)' = MovesOf(b, c)
            /\ Counted(b, c)' = Counted(b, c)
        BY <1>4, <4>2
      <4>4. \A m, d : d \in p /\ d.id = m.id /\ RowOf(m) \in Named => m.asset = b /\ m.dir = c
        <5> SUFFICES ASSUME NEW m, NEW d \in p, d.id = m.id, RowOf(m) \in Named
                     PROVE  m.asset = b /\ m.dir = c
          OBVIOUS
        <5>1. d \in Named /\ d.asset = b /\ d.dir = c
          BY <3>2, <4>b, <4>c, <4>p DEF Named, WellFormed
        <5>2. RowOf(m).id = m.id /\ RowOf(m).asset = m.asset /\ RowOf(m).dir = m.dir
          BY DEF RowOf, Event
        <5>3. RowOf(m) = d
          BY <5>1, <5>2 DEF IInv, IdsName
        <5> QED
          BY <5>1, <5>2, <5>3
      <4>5. \A m \in moves : RowOf(m) \in Named
        BY DEF Named
      <4>6. \A m \in moves' : RowOf(m) \in Named
        BY <1>4, <4>5
      <4>7. {m \in moves' : m.linked /\ \E d \in p : d.id = m.id} = {m \in moves : m.linked /\ \E d \in p : d.id = m.id}
        <5>1. ASSUME NEW m, NEW d \in p, d.id = m.id
              PROVE  m \in moves' <=> m \in moves
          BY <4>3, <4>4, <4>5, <4>6, <5>1 DEF MovesOf
        <5> QED
          BY <5>1
      <4>8. TheDoomed(job[v])' = TheDoomed(job[v])
        BY <3>1, <4>7, <4>p DEF TheDoomed, GoesOn
      <4>9. /\ EventsOf(job[v].asset, job[v].dir)' = EventsOf(job[v].asset, job[v].dir)
            /\ Counted(job[v].asset, job[v].dir)' = Counted(job[v].asset, job[v].dir)
        BY <3>1, <4>3, <4>b, <4>c DEF GoesOn, EventsOf, Counted
      <4> QED
        BY <1>1, <3>1, <4>1, <4>8, <4>9 DEF ReadsHold, Swaps, GoesOn, Inserts
    <3> QED
      BY <3>3, <3>4 DEF Writes
  <2> QED
    BY <2>1, <2>2
<1>9. Places'
  <2> SUFFICES ASSUME NEW b \in Assets, NEW c \in Dirs, <<b, c>> \notin disturbed'
               PROVE  PlaceHolds(b, c)'
    BY DEF Places
  <2>1. CASE b = a /\ c = dir
    <3>1. ~i.stale /\ <<a, dir>> \notin disturbed
      BY <1>2, <1>3, <2>1
    <3> QED
      BY <1>1, <1>a, <1>d, <2>1, <3>1, ThisPlace
  <2>2. CASE b # a \/ c # dir
    <3>1. PlaceHolds(b, c)
      BY <1>2 DEF IInv, Places
    <3>2. Pending(b, c)' = Pending(b, c)
      <4>1. \A r \in Recording : /\ RowOf(job[r])' = RowOf(job[r])
                                 /\ job'[r].asset = job[r].asset /\ job'[r].dir = job[r].dir
        BY <1>1, <1>2 DEF Recording, GoesOn
      <4>2. w \in Recording' => job'[w].asset # b \/ job'[w].dir # c
        BY <1>2, <2>2
      <4>3. {r \in Recording' : job'[r].asset = b /\ job'[r].dir = c} =
            {r \in Recording : job[r].asset = b /\ job[r].dir = c}
        BY <1>2, <4>1, <4>2
      <4> QED
        BY <4>1, <4>3 DEF Pending
    <3>3. EventsOf(b, c)' = EventsOf(b, c) /\ MovesOf(b, c)' = MovesOf(b, c)
          /\ Counted(b, c)' = Counted(b, c)
      BY <1>4, <2>2
    <3>4. c = "IN" => stated'[b] = stated[b]
      BY <1>1, <1>a, <1>d, <2>2 DEF Inserts, IInv, ScanTypeOK
    <3>5. c = "IN" => (Settled(b)' <=> Settled(b))
      BY <1>1, <3>4 DEF Settled, Inserts
    <3> QED
      BY <3>1, <3>2, <3>3, <3>4, <3>5 DEF PlaceHolds, LedgerMirrors
  <2> QED
    BY <2>1, <2>2
<1>10. ReadyMeansAllOut'
  <2>1. CASE dir = "OUT" /\ i.stale
    BY <1>3, <2>1 DEF ReadyMeansAllOut
  <2>2. CASE dir = "OUT" /\ ~i.stale
    <3>1. ReadsHold(i)
      BY <1>1, <2>2 DEF IInv, FreshHold, Inserts
    <3> QED
      BY <1>1, <1>d, <2>2, <3>1 DEF ReadsHold, ReadyMeansAllOut, Inserts
  <2>3. CASE dir = "IN"
    <3>1. \A b \in Assets : Counted(b, "OUT")' = Counted(b, "OUT")
      BY <1>4, <2>3
    <3> QED
      BY <1>1, <1>2, <3>1 DEF IInv, ReadyMeansAllOut, Inserts
  <2> QED
    BY <1>3, <2>1, <2>2, <2>3 DEF Dirs
<1> QED
  BY <1>2, <1>5, <1>7, <1>8, <1>9, <1>10 DEF IInv

(***************************************************************************)
(* Every step keeps the invariant.                                         *)
(***************************************************************************)
LEMMA StutterKeeps ==
    ASSUME IInv, UNCHANGED vars
    PROVE  IInv'
<1>1. UNCHANGED tables /\ UNCHANGED <<job, disturbed>>
  BY DEF vars, tables
<1>2. ScanTypeOK' /\ IdsName' /\ RecordsAlone'
  BY <1>1 DEF IInv, ScanTypeOK, TypeOK, WellFormed, IdsName, Named, Recording,
              RecordsAlone, SamePlace, tables
<1>3. FreshHold'
  <2> SUFFICES ASSUME NEW v \in Actors, ~job[v].stale
               PROVE  (Writes(job[v]) => ReadsHold(job[v]))' /\ CompletionHolds(job[v])'
    BY <1>1 DEF FreshHold
  <2>1. (Writes(job'[v]) => ReadsHold(job'[v])) /\ CompletionHolds(job'[v])
    BY <1>1 DEF IInv, FreshHold
  <2> QED
    BY <1>1, <2>1, TablesDecide DEF Writes
<1>4. /\ \A a, dir : /\ MovesOf(a, dir)' = MovesOf(a, dir) /\ EventsOf(a, dir)' = EventsOf(a, dir)
                     /\ Counted(a, dir)' = Counted(a, dir)
      /\ \A a : Settled(a)' = Settled(a)
  BY <1>1, TablesDecide
<1>5. Places'
  <2> SUFFICES ASSUME NEW a \in Assets, NEW dir \in Dirs, <<a, dir>> \notin disturbed
               PROVE  PlaceHolds(a, dir)'
    BY <1>1 DEF Places
  <2>1. PlaceHolds(a, dir)
    BY DEF IInv, Places
  <2>2. Pending(a, dir)' = Pending(a, dir)
    BY <1>1 DEF Pending, Recording
  <2> QED
    BY <1>1, <1>4, <2>1, <2>2 DEF PlaceHolds, LedgerMirrors, tables
<1>6. ReadyMeansAllOut'
  BY <1>1, <1>4 DEF IInv, ReadyMeansAllOut, tables
<1> QED
  BY <1>2, <1>3, <1>5, <1>6 DEF IInv

LEMMA NextKeeps == IInv /\ [Next]_vars => IInv'
<1> SUFFICES ASSUME IInv, [Next]_vars
             PROVE  IInv'
  OBVIOUS
<1>1. CASE UNCHANGED vars
  BY <1>1, StutterKeeps
<1>2. CASE Deliver
  BY <1>2, DeliverKeeps
<1>3. ASSUME NEW w \in Actors, BeginAny(w)
      PROVE  IInv'
  <2>1. ASSUME NEW a \in Assets, NEW q \in Sizes(a), BeginOutboundScan(w, a, q)
        PROVE  IInv'
    BY <2>1, BeginOutboundScanKeeps
  <2>2. ASSUME NEW a \in Assets, NEW q \in Sizes(a), BeginInboundScan(w, a, q)
        PROVE  IInv'
    BY <2>2, BeginInboundScanKeeps
  <2>3. CASE BeginCompleteOutbound(w) \/ BeginProgress(w) \/ BeginCompleteInbound(w)
    BY <2>3, CompletionBegins
  <2> QED
    BY <1>3, <2>1, <2>2, <2>3 DEF BeginAny
<1>4. ASSUME NEW w \in Actors, Resume(w)
      PROVE  IInv'
  <2>1. CASE Unlink(w)
    BY <2>1, UnlinkKeeps
  <2>2. CASE InsertEvent(w)
    BY <2>2, InsertEventKeeps
  <2>3. CASE RecordMovement(w)
    BY <2>3, RecordMovementKeeps
  <2>4. CASE Ready(w)
    BY <2>4, ReadyKeeps
  <2>5. CASE Close(w)
    BY <2>5, CloseKeeps
  <2> QED
    BY <1>4, <2>1, <2>2, <2>3, <2>4, <2>5 DEF Resume
<1>5. ASSUME NEW w \in Actors, Crash(w)
      PROVE  IInv'
  BY <1>5, CrashKeeps
<1> QED
  BY <1>1, <1>2, <1>3, <1>4, <1>5 DEF Next

LEMMA InvariantHolds == Spec => []IInv
BY InitHolds, NextKeeps, PTL DEF Spec

(***************************************************************************)
(* The theorems.                                                           *)
(***************************************************************************)

\* The rows keep their types, whoever scans, completes or dies: no ledger row is
\* written of an asset that is not pooled.
THEOREM TypeCorrect == Spec => []TypeOK
BY InvariantHolds, InvariantSuffices, PTL

\* Where no two inbound scans of an asset overlap, its events add up to what the
\* crew stated last, after any number of re-scans and crashes (inboundScan: a
\* re-scan replaces the events that it read, in one transaction).
THEOREM CountIsTheLatest == Spec => []UndisturbedCountIsLatest
BY InvariantHolds, InvariantSuffices, PTL

\* Once the scans of a pooled asset that did not overlap are done, the ledger has
\* the units of its events: the unlink, the replacement and the row that is written
\* on another connection leave no movement too many and none too few.
THEOREM LedgerFollows == Spec => []LedgerFollowsEvents
BY InvariantHolds, InvariantSuffices, PTL

\* An order that left the scan page without overlapping scans is scanned out in
\* full, asset by asset, for all that completeOutboundScan compares are two totals.
THEOREM ReadyIsComplete == Spec => []ReadyMeansAllOut
BY InvariantHolds, InvariantSuffices, PTL

\* A closed order has written off what the crew did not state to be back
\* (completeInboundScan), for every asset whose scans and completions did not overlap.
THEOREM SettlementIsStated == Spec => []SettledAsStated
BY InvariantHolds, InvariantSuffices, PTL
=============================================================================
