------------------------ MODULE BookingSystem_proofs ------------------------
(***************************************************************************)
(* Theorems about OrderBooking, SelfPickup and the two together, for every *)
(* set of orders, self-pickups, assets and actors, every stock, need and   *)
(* window.                                                                 *)
(***************************************************************************)
EXTENDS BookingSystem, UnitCounting

------------------------------------------------------------------------------
(* Counting the units that holders have booked.                            *)

\* The units of a in the rows b of the holders in S.
RowUnits(b, a, S) == CountedUnits([g \in Holders |-> b[g][a]], S)

LEMMA UnitsAreUnitsOf ==
    ASSUME NEW a, NEW S \in SUBSET Holders
    PROVE  /\ Booked(a, S) = Cardinality(RowUnits(booking, a, S))
           /\ Booked(a, S)' = Cardinality(RowUnits(booking', a, S))
<1>1. \A g \in S : g \in Holders
  OBVIOUS
<1>2. /\ Units(a, S) = RowUnits(booking, a, S)
      /\ Units(a, S)' = RowUnits(booking', a, S)
  BY <1>1 DEF Units, RowUnits, CountedUnits
<1> QED
  BY <1>2 DEF Booked

\* A finite set of holders has booked finitely many units.
LEMMA UnitsFinite ==
    ASSUME NEW b \in [Holders -> [Assets -> Nat]], NEW a \in Assets, NEW S \in SUBSET Holders
    PROVE  IsFiniteSet(RowUnits(b, a, S)) /\ Cardinality(RowUnits(b, a, S)) \in Nat
<1>1. IsFiniteSet(S)
  BY HoldersFinite, FS_Subset
<1>2. \A g \in S : [h \in Holders |-> b[h][a]][g] \in Nat
  OBVIOUS
<1> QED
  BY <1>1, <1>2, CountIsFinite DEF RowUnits

\* Fewer booked units per holder are fewer units in all.
LEMMA UnitsMonotone ==
    ASSUME NEW b \in [Holders -> [Assets -> Nat]], NEW c \in [Holders -> [Assets -> Nat]],
           NEW a \in Assets, NEW T \in SUBSET Holders, NEW S \in SUBSET T,
           \A g \in S : c[g][a] <= b[g][a]
    PROVE  /\ Cardinality(RowUnits(c, a, S)) <= Cardinality(RowUnits(b, a, T))
           /\ Cardinality(RowUnits(c, a, S)) \in Nat
           /\ Cardinality(RowUnits(b, a, T)) \in Nat
<1> DEFINE m == [g \in Holders |-> c[g][a]]
           n == [g \in Holders |-> b[g][a]]
<1>1. IsFiniteSet(T)
  BY HoldersFinite, FS_Subset
<1>2. /\ \A g \in T : n[g] \in Nat
      /\ \A g \in S : m[g] \in Nat /\ m[g] <= n[g]
  OBVIOUS
<1>3. Cardinality(CountedUnits(m, S)) <= Cardinality(CountedUnits(n, T))
  <2> HIDE DEF m, n
  <2> QED
    BY <1>1, <1>2, CountIsMonotone
<1>4. S \in SUBSET Holders
  OBVIOUS
<1> QED
  BY <1>3, <1>4, UnitsFinite DEF RowUnits

\* One holder's n units come on top of those of the others.
LEMMA UnitsWithOne ==
    ASSUME NEW b \in [Holders -> [Assets -> Nat]], NEW c \in [Holders -> [Assets -> Nat]],
           NEW a \in Assets, NEW S \in SUBSET Holders, NEW C \in SUBSET Holders,
           NEW o \in Holders, S \ {o} \subseteq C,
           \A g \in S \ {o} : c[g][a] <= b[g][a]
    PROVE  Cardinality(RowUnits(c, a, S)) <= Cardinality(RowUnits(b, a, C)) + c[o][a]
<1> DEFINE m == [g \in Holders |-> c[g][a]]
           n == [g \in Holders |-> b[g][a]]
<1>1. IsFiniteSet(C)
  BY HoldersFinite, FS_Subset
<1>2. /\ \A g \in C : n[g] \in Nat
      /\ m[o] \in Nat /\ m[o] = c[o][a]
      /\ \A g \in S \ {o} : m[g] \in Nat /\ m[g] <= n[g]
  OBVIOUS
<1>3. Cardinality(CountedUnits(m, S)) <= Cardinality(CountedUnits(n, C)) + m[o]
  <2> HIDE DEF m, n
  <2> QED
    BY <1>1, <1>2, CountWithOne
<1> QED
  BY <1>2, <1>3 DEF RowUnits

\* Other rows of one holder change the count by the difference.
LEMMA UnitsAfterChange ==
    ASSUME NEW b \in [Holders -> [Assets -> Nat]], NEW c \in [Holders -> [Assets -> Nat]],
           NEW a \in Assets, NEW o \in Holders,
           \A g \in Holders \ {o} : c[g][a] = b[g][a]
    PROVE  Cardinality(RowUnits(c, a, Holders))
               = Cardinality(RowUnits(b, a, Holders)) + c[o][a] - b[o][a]
<1> DEFINE m == [g \in Holders |-> c[g][a]]
           n == [g \in Holders |-> b[g][a]]
<1>1. /\ \A g \in Holders : m[g] \in Nat /\ n[g] \in Nat
      /\ \A g \in Holders \ {o} : m[g] = n[g]
      /\ m[o] = c[o][a] /\ n[o] = b[o][a]
  OBVIOUS
<1>2. Cardinality(CountedUnits(m, Holders)) = Cardinality(CountedUnits(n, Holders)) + m[o] - n[o]
  <2> HIDE DEF m, n
  <2> QED
    BY <1>1, HoldersFinite, CountAfterChange
<1> QED
  BY <1>1, <1>2 DEF RowUnits

\* The count of booked units is a number, before and after a step.
LEMMA BookedType ==
    ASSUME NEW a \in Assets, NEW S \in SUBSET Holders
    PROVE  /\ InvTypeOK => Booked(a, S) \in Nat
           /\ InvTypeOK' => Booked(a, S)' \in Nat
BY UnitsAreUnitsOf, UnitsFinite DEF InvTypeOK

------------------------------------------------------------------------------
(* The shared inventory: what its writes keep, and how the availability of *)
(* a window and the promises of a day follow the rows.                     *)

LEMMA RestoredType ==
    ASSUME InvTypeOK, NEW back \in [Assets -> Nat]
    PROVE  Restored(back) \in [Assets -> Nat]
BY DEF Restored, AtMost, AtLeastZero, InvTypeOK

LEMMA InsertRowsType ==
    ASSUME InvTypeOK, NEW h \in Holders, InsertRows(h)
    PROVE  booking' \in [Holders -> [Assets -> Nat]]
BY NeedType DEF InsertRows, InvTypeOK

LEMMA DecrementType ==
    ASSUME InvTypeOK, NEW h \in Holders, Decrement(h)
    PROVE  avail' \in [Assets -> Nat]
BY NeedType DEF Decrement, AtLeastZero, InvTypeOK

LEMMA DeleteRowsType ==
    ASSUME InvTypeOK, NEW h \in Holders, DeleteRows(h)
    PROVE  booking' \in [Holders -> [Assets -> Nat]]
BY DEF DeleteRows, InvTypeOK

LEMMA LocksType ==
    ASSUME InvTypeOK, NEW w \in Actors
    PROVE  /\ UnlockedBy(w) \in [Assets -> Actors \cup {Nobody}]
           /\ \A S : LockedBy(w, S) \in [Assets -> Actors \cup {Nobody}]
BY DEF UnlockedBy, LockedBy, InvTypeOK

LEMMA SeenType ==
    ASSUME InvTypeOK, NEW h \in Holders, NEW a \in Assets
    PROVE  /\ WindowAvailable(h, a) \in Nat
           /\ Booked(a, Competitors(h, a)) \in Nat
<1>1. Competitors(h, a) \in SUBSET Holders
  BY DEF Competitors
<1>2. Booked(a, Competitors(h, a)) \in Nat
  BY <1>1, BookedType
<1> QED
  BY <1>2 DEF WindowAvailable, ComputeAvailability, AtLeastZero, InvTypeOK

\* What holders are booked for asset a, and its pool, did not get worse.
NoWorse(a) ==
    /\ total'[a] = total[a]
    /\ \A g \in Holders : booking'[g][a] <= booking[g][a]

LEMMA WindowKept ==
    ASSUME InvTypeOK, InvTypeOK', NEW a \in Assets, NoWorse(a), NEW h \in Holders
    PROVE  /\ WindowAvailable(h, a) <= WindowAvailable(h, a)'
           /\ WindowAvailable(h, a) \in Nat /\ WindowAvailable(h, a)' \in Nat
<1> DEFINE C == Competitors(h, a)
<1>1. C \in SUBSET Holders /\ C' = C
  BY DEF Competitors, Overlaps
<1>2. booking \in [Holders -> [Assets -> Nat]] /\ booking' \in [Holders -> [Assets -> Nat]]
  BY DEF InvTypeOK
<1>3. /\ Booked(a, C) = Cardinality(RowUnits(booking, a, C))
      /\ Booked(a, C)' = Cardinality(RowUnits(booking', a, C))
  <2>1. /\ Booked(a, C) = Cardinality(RowUnits(booking, a, C))
        /\ Cardinality(Units(a, C))' = Cardinality(RowUnits(booking', a, C))
    BY <1>1, UnitsAreUnitsOf DEF Booked
  <2> QED
    BY <1>1, <2>1 DEF Booked
<1>4. Booked(a, C)' <= Booked(a, C) /\ Booked(a, C) \in Nat /\ Booked(a, C)' \in Nat
  <2> HIDE DEF C
  <2> QED
    BY <1>1, <1>2, <1>3, UnitsMonotone DEF NoWorse
<1>5. total[a] \in Nat /\ total'[a] = total[a]
  BY DEF InvTypeOK, NoWorse
<1> HIDE DEF C
<1>6. /\ AtLeastZero(total[a] - Booked(a, C)) <= AtLeastZero(total'[a] - Booked(a, C)')
      /\ AtLeastZero(total[a] - Booked(a, C)) \in Nat
      /\ AtLeastZero(total'[a] - Booked(a, C)') \in Nat
  BY <1>4, <1>5 DEF AtLeastZero
<1> QED
  BY <1>1, <1>6 DEF WindowAvailable, ComputeAvailability, C, AtLeastZero

\* The promises of a day, before and after a step, as counts of the same rows.
LEMMA CommittedIsBooked ==
    ASSUME NEW a \in Assets, NEW t
    PROVE  /\ Covering(a, t) \in SUBSET Holders
           /\ Committed(a, t) = Cardinality(RowUnits(booking, a, Covering(a, t)))
           /\ Committed(a, t)' = Cardinality(RowUnits(booking', a, Covering(a, t)))
<1> DEFINE S == Covering(a, t)
<1>1. S \in SUBSET Holders /\ S' = S
  BY DEF Covering
<1>2. /\ Booked(a, S) = Cardinality(RowUnits(booking, a, S))
      /\ Cardinality(Units(a, S))' = Cardinality(RowUnits(booking', a, S))
  BY <1>1, UnitsAreUnitsOf DEF Booked
<1> QED
  BY <1>1, <1>2 DEF Committed, Booked

LEMMA CommittedType ==
    ASSUME NEW a \in Assets, NEW t
    PROVE  /\ InvTypeOK => Committed(a, t) \in Nat
           /\ InvTypeOK' => Committed(a, t)' \in Nat
BY CommittedIsBooked, UnitsFinite DEF InvTypeOK

\* What is promised per day when no row of the asset that covers the day grows.
LEMMA CommittedKept ==
    ASSUME InvTypeOK, InvTypeOK', NEW a \in Assets, NEW t,
           \A g \in Covering(a, t) : booking'[g][a] <= booking[g][a]
    PROVE  Committed(a, t)' <= Committed(a, t)
<1>1. booking \in [Holders -> [Assets -> Nat]] /\ booking' \in [Holders -> [Assets -> Nat]]
  BY DEF InvTypeOK
<1> QED
  BY <1>1, CommittedIsBooked, UnitsMonotone

\* No day is promised more than all rows of the asset together.
LEMMA CommittedWithinBooked ==
    ASSUME InvTypeOK, NEW a \in Assets, NEW t
    PROVE  Committed(a, t) <= Booked(a, Holders)
<1>1. booking \in [Holders -> [Assets -> Nat]]
  BY DEF InvTypeOK
<1>2. Booked(a, Holders) = Cardinality(RowUnits(booking, a, Holders))
  BY UnitsAreUnitsOf
<1> QED
  BY <1>1, <1>2, CommittedIsBooked, UnitsMonotone

\* A step that adds to no row oversells no day.
LEMMA OversellKept ==
    ASSUME InvTypeOK, InvTypeOK', NoOversell,
           \A g \in Holders, a \in Assets : booking'[g][a] <= booking[g][a]
    PROVE  NoOversell'
<1> SUFFICES ASSUME NEW a \in Assets, NEW t \in Days
             PROVE  Committed(a, t)' <= Stock[a]
  BY DEF NoOversell, Days
<1>1. /\ Stock[a] \in Nat /\ Committed(a, t) <= Stock[a]
      /\ Committed(a, t) \in Nat /\ Committed(a, t)' \in Nat
  BY StockType, CommittedType DEF NoOversell
<1>2. Committed(a, t)' <= Committed(a, t)
  BY CommittedKept DEF Covering
<1> QED
  BY <1>1, <1>2

\* All booked units of an asset, before and after one holder's rows change.
LEMMA BookedAfterChange ==
    ASSUME InvTypeOK, InvTypeOK', NEW a \in Assets, NEW h \in Holders,
           \A g \in Holders \ {h} : booking'[g][a] = booking[g][a]
    PROVE  Booked(a, Holders)' = Booked(a, Holders) + booking'[h][a] - booking[h][a]
<1>1. booking \in [Holders -> [Assets -> Nat]] /\ booking' \in [Holders -> [Assets -> Nat]]
  BY DEF InvTypeOK
<1>2. /\ Booked(a, Holders) = Cardinality(RowUnits(booking, a, Holders))
      /\ Booked(a, Holders)' = Cardinality(RowUnits(booking', a, Holders))
  BY UnitsAreUnitsOf
<1> QED
  BY <1>1, <1>2, UnitsAfterChange

\* At the start nothing is booked.
LEMMA NothingBooked ==
    ASSUME booking = [h \in Holders |-> [a \in Assets |-> 0]], NEW a \in Assets,
           NEW S \in SUBSET Holders
    PROVE  Booked(a, S) = 0
<1>1. Units(a, S) = {}
  BY DEF Units
<1> QED
  BY <1>1, FS_EmptySet DEF Booked

------------------------------------------------------------------------------
(* Type correctness.                                                       *)

\* A running job is of the right type again when its actor gets a new one.
LEMMA JobUpdate ==
    ASSUME TypeOK, NEW w \in OrderActors, NEW r \in Jobs, r.step # "idle" => r.order \in Orders,
           job' = [job EXCEPT ![w] = r]
    PROVE  /\ job' \in [OrderActors -> Jobs]
           /\ \A v \in OrderActors : job'[v].step # "idle" => job'[v].order \in Orders
BY DEF TypeOK

LEMMA IdleIsJob == Idle \in Jobs /\ Idle.step = "idle"
BY DEF Idle, Jobs, Ops, Steps, Statuses, NoQty

\* A handler starts on an order of the platform.
LEMMA StartType ==
    ASSUME TypeOK, NEW w \in OrderActors, NEW o \in Orders, NEW name, NEW op \in Ops,
           NEW step \in Steps, NEW to \in Statuses,
           Start(w, name, op, o, step, to)
    PROVE  TypeOK'
<1> DEFINE r == [Idle EXCEPT !.op = op, !.order = o, !.step = step, !.read = status[o], !.to = to]
<1>1. r \in Jobs /\ r.order \in Orders
  BY DEF Idle, Jobs, NoQty, TypeOK
<1>2. job' = [job EXCEPT ![w] = r]
  BY DEF Start
<1>3. /\ job' \in [OrderActors -> Jobs]
      /\ \A v \in OrderActors : job'[v].step # "idle" => job'[v].order \in Orders
  <2> HIDE DEF r
  <2> QED
    BY <1>1, <1>2, JobUpdate
<1> QED
  BY <1>3 DEF Start, TypeOK, InvTypeOK, invVars, CalendarTypeOK, calendar

LEMMA BeginType ==
    ASSUME TypeOK, NEW w \in OrderActors, NEW o \in Orders, Begin(w, o)
    PROVE  TypeOK'
<1>1. CASE BeginSubmit(w, o)
  <2>1. {"PRICING_REVIEW"} \subseteq Statuses /\ "submit" \in Ops /\ "lock" \in Steps
    BY DEF Statuses, Ops, Steps
  <2> QED
    BY <1>1, <2>1, StartType DEF BeginSubmit
<1>2. CASE BeginApproveQuote(w, o)
  <2>1. "CONFIRMED" \in Statuses /\ "approve" \in Ops /\ "lock" \in Steps
    BY DEF Statuses, Ops, Steps
  <2> QED
    BY <1>2, <2>1, StartType DEF BeginApproveQuote
<1>3. CASE BeginDeclineQuote(w, o)
  <2>1. "DECLINED" \in Statuses /\ "decline" \in Ops /\ "sum" \in Steps
    BY DEF Statuses, Ops, Steps
  <2> QED
    BY <1>3, <2>1, StartType DEF BeginDeclineQuote
<1>4. CASE BeginCancelOrder(w, o)
  <2>1. "CANCELLED" \in Statuses /\ "cancel" \in Ops /\ "take" \in Steps
    BY DEF Statuses, Ops, Steps
  <2> QED
    BY <1>4, <2>1, StartType DEF BeginCancelOrder
<1>5. ASSUME NEW name, NEW to \in Statuses, Start(w, name, "status", o, "flip", to)
      PROVE  TypeOK'
  <2>1. "status" \in Ops /\ "flip" \in Steps
    BY DEF Ops, Steps
  <2> QED
    BY <1>5, <2>1, StartType
<1>6. CASE \/ BeginSubmitForApproval(w, o) \/ BeginAdminApproveQuote(w, o)
           \/ BeginReturnToLogistics(w, o) \/ BeginMarkAsNoCost(w, o)
           \/ BeginCompleteOutbound(w, o)
  <2>1. {"PENDING_APPROVAL", "QUOTED", "PRICING_REVIEW", "CONFIRMED", "READY_FOR_DELIVERY"}
            \subseteq Statuses
    BY DEF Statuses
  <2> QED
    BY <1>5, <1>6, <2>1 DEF BeginSubmitForApproval, BeginAdminApproveQuote,
        BeginReturnToLogistics, BeginMarkAsNoCost, BeginCompleteOutbound
<1>7. CASE \E to \in Statuses : BeginProgress(w, o, to)
  BY <1>5, <1>7 DEF BeginProgress
<1>8. CASE BeginProgressToClosed(w, o)
  <2>1. "CLOSED" \in Statuses /\ "close" \in Ops /\ "sum" \in Steps
    BY DEF Statuses, Ops, Steps
  <2> QED
    BY <1>8, <2>1, StartType DEF BeginProgressToClosed
<1>9. CASE BeginCompleteInbound(w, o)
  <2> DEFINE r == [Idle EXCEPT !.op = "complete", !.order = o, !.step = "sum",
                               !.read = status[o], !.to = "CLOSED", !.back = returned[o]]
  <2>1. returned[o] \in [Assets -> Nat] /\ status[o] \in Statuses
    BY DEF TypeOK
  <2>2. r \in Jobs /\ r.order \in Orders
    BY <2>1 DEF Idle, Jobs, NoQty, Ops, Steps, Statuses
  <2>3. job' = [job EXCEPT ![w] = r]
    BY <1>9 DEF BeginCompleteInbound
  <2>4. /\ job' \in [OrderActors -> Jobs]
        /\ \A v \in OrderActors : job'[v].step # "idle" => job'[v].order \in Orders
    <3> HIDE DEF r
    <3> QED
      BY <2>2, <2>3, JobUpdate
  <2> QED
    BY <1>9, <2>4 DEF BeginCompleteInbound, TypeOK, InvTypeOK, invVars, CalendarTypeOK, calendar
<1> QED
  BY <1>1, <1>2, <1>3, <1>4, <1>6, <1>7, <1>8, <1>9 DEF Begin

LEMMA CronBeginType ==
    ASSUME TypeOK, NEW o \in Orders, CronBegin(o)
    PROVE  TypeOK'
<1>1. CASE BeginEventStart(o) \/ BeginEventEnd(o)
  <2>1. /\ {"IN_USE", "AWAITING_RETURN"} \subseteq Statuses
        /\ "status" \in Ops /\ "flip" \in Steps
    BY DEF Statuses, Ops, Steps
  <2> QED
    BY <1>1, <2>1, OrderActorsType, StartType DEF BeginEventStart, BeginEventEnd
<1>2. CASE BeginExpire(o)
  <2> DEFINE r == [Idle EXCEPT !.op = "expire", !.order = o, !.step = "sum",
                               !.read = status[o], !.to = "CANCELLED"]
  <2>1. r \in Jobs /\ r.order \in Orders
    BY DEF Idle, Jobs, NoQty, Ops, Steps, Statuses, TypeOK
  <2>2. job' = [job EXCEPT ![Cron] = r]
    BY <1>2 DEF BeginExpire
  <2>3. /\ job' \in [OrderActors -> Jobs]
        /\ \A v \in OrderActors : job'[v].step # "idle" => job'[v].order \in Orders
    <3> HIDE DEF r
    <3> QED
      BY <2>1, <2>2, OrderActorsType, JobUpdate
  <2> QED
    BY <1>2, <2>3 DEF BeginExpire, TypeOK, InvTypeOK, invVars, CalendarTypeOK, calendar
<1> QED
  BY <1>1, <1>2 DEF CronBegin

LEMMA SettlementType ==
    ASSUME TypeOK, NEW w \in OrderActors, job[w].step # "idle"
    PROVE  /\ GivenBack(w) \in [Assets -> Nat]
           /\ TotalAfter(w) \in [Assets -> Nat]
           /\ \A a \in Assets : TotalAfter(w)[a] <= total[a]
<1>1. /\ job[w] \in Jobs /\ Item(w) \in Holders
      /\ job[w].seen \in [Assets -> Nat] /\ job[w].back \in [Assets -> Nat]
  BY OrdersType DEF TypeOK, Jobs, Item
<1>2. /\ total \in [Assets -> Nat]
      /\ \A a \in Assets : Need[Item(w)][a] \in Nat
  BY <1>1, NeedType DEF TypeOK, InvTypeOK
<1>3. GivenBack(w) \in [Assets -> Nat]
  BY <1>1 DEF GivenBack, AtMost
<1>4. ASSUME NEW a \in Assets
      PROVE  TotalAfter(w)[a] \in Nat /\ TotalAfter(w)[a] <= total[a]
  BY <1>1, <1>2 DEF TotalAfter, AtLeastZero
<1> QED
  BY <1>3, <1>4 DEF TotalAfter

\* Each step of a running handler keeps the types.
LEMMA ResumeType ==
    ASSUME TypeOK, NEW w \in OrderActors, Resume(w)
    PROVE  TypeOK'
<1> DEFINE o == Item(w)
<1>1. /\ job[w] \in Jobs /\ job[w].step # "idle"
      /\ o \in Orders /\ o \in Holders /\ job[w].to \in Statuses
      /\ job[w].seen \in [Assets -> Nat] /\ job[w].back \in [Assets -> Nat]
  <2>1. job[w].step # "idle"
    BY DEF Resume, At, LockAndCheck, BookSubmitted, BookApproved, Flip, TakeOrderRow, SumRows,
           ReleaseAndFlip, WriteOffRejected, CloseDeleteRows, CloseRestore
  <2> QED
    BY <2>1, OrdersType DEF TypeOK, Jobs, Item
<1>0. CalendarTypeOK'
  BY <1>1 DEF Resume, LockAndCheck, BookSubmitted, BookApproved, Flip, TakeOrderRow, SumRows,
      ReleaseAndFlip, WriteOffRejected, CloseDeleteRows, CloseRestore, Overtake, calendar,
      CalendarTypeOK, TypeOK, Item
<1>2. ASSUME Finish(w)
      PROVE  /\ job' \in [OrderActors -> Jobs]
             /\ \A v \in OrderActors : job'[v].step # "idle" => job'[v].order \in Orders
  BY <1>2, IdleIsJob, JobUpdate DEF Finish
<1>3. ASSUME NEW step \in Steps, NEW seen \in [Assets -> Nat],
             job' = [job EXCEPT ![w].step = step, ![w].seen = seen]
      PROVE  /\ job' \in [OrderActors -> Jobs]
             /\ \A v \in OrderActors : job'[v].step # "idle" => job'[v].order \in Orders
  <2> DEFINE r == [job[w] EXCEPT !.step = step, !.seen = seen]
  <2>1. r \in Jobs /\ r.order \in Orders
    BY <1>1 DEF Jobs, Item
  <2>2. job' = [job EXCEPT ![w] = r]
    BY <1>3 DEF TypeOK
  <2> HIDE DEF r
  <2> QED
    BY <2>1, <2>2, JobUpdate
<1>4. ASSUME NEW step \in Steps, GoTo(w, step)
      PROVE  /\ job' \in [OrderActors -> Jobs]
             /\ \A v \in OrderActors : job'[v].step # "idle" => job'[v].order \in Orders
  <2> DEFINE r == [job[w] EXCEPT !.step = step]
  <2>1. r \in Jobs /\ r.order \in Orders
    BY <1>1 DEF Jobs, Item
  <2>2. job' = [job EXCEPT ![w] = r]
    BY <1>4 DEF TypeOK, GoTo
  <2> HIDE DEF r
  <2> QED
    BY <2>1, <2>2, JobUpdate
<1>5. CASE LockAndCheck(w)
  <2>1. CASE Fits(o)
    <3> DEFINE seen == [a \in Assets |-> IF a \in Items(o) THEN WindowAvailable(o, a) ELSE 0]
    <3>1. seen \in [Assets -> Nat]
      BY <1>1, SeenType DEF TypeOK
    <3>2. job' = [job EXCEPT ![w].step = "book", ![w].seen = seen]
      BY <1>5, <2>1 DEF LockAndCheck
    <3>3. /\ job' \in [OrderActors -> Jobs]
          /\ \A v \in OrderActors : job'[v].step # "idle" => job'[v].order \in Orders
      <4> HIDE DEF seen
      <4>1. "book" \in Steps
        BY DEF Steps
      <4> QED
        BY <1>3, <3>1, <3>2, <4>1
    <3> QED
      BY <1>0, <1>5, <2>1, <3>3, LocksType, OrderActorsType DEF LockAndCheck, TypeOK, InvTypeOK
  <2>2. CASE ~Fits(o)
    BY <1>0, <1>2, <1>5, <2>2 DEF LockAndCheck, TypeOK, InvTypeOK
  <2> QED
    BY <2>1, <2>2
<1>6. CASE BookSubmitted(w)
  <2>1. booking' \in [Holders -> [Assets -> Nat]]
    BY <1>1, <1>6, InsertRowsType DEF BookSubmitted, TypeOK
  <2>2. avail' \in [Assets -> Nat]
    BY <1>1, <1>6, NeedType DEF BookSubmitted, Decrement, AtLeastZero, TypeOK, InvTypeOK
  <2>3. status' \in [Orders -> Statuses]
    BY <1>1, <1>6 DEF BookSubmitted, TypeOK
  <2> QED
    BY <1>0, <1>2, <1>6, <2>1, <2>2, <2>3, LocksType, OrderActorsType DEF BookSubmitted, TypeOK, InvTypeOK
<1>7. CASE BookApproved(w)
  <2>1. booking' \in [Holders -> [Assets -> Nat]]
    BY <1>1, <1>7, InsertRowsType DEF BookApproved, TypeOK, InvTypeOK
  <2>2. avail' \in [Assets -> Nat]
    BY <1>1, <1>7, NeedType DEF BookApproved, AtLeastZero, TypeOK, InvTypeOK
  <2>3. "flip" \in Steps
    BY DEF Steps
  <2> QED
    BY <1>0, <1>4, <1>7, <2>1, <2>2, <2>3, LocksType, OrderActorsType DEF BookApproved, TypeOK, InvTypeOK
<1>8. CASE Flip(w)
  BY <1>0, <1>1, <1>2, <1>8 DEF Flip, TypeOK, InvTypeOK, invVars
<1>9. CASE TakeOrderRow(w)
  <2>1. "sum" \in Steps
    BY DEF Steps
  <2> QED
    BY <1>0, <1>1, <1>4, <1>9, <2>1 DEF TakeOrderRow, TypeOK, InvTypeOK, invVars
<1>10. CASE SumRows(w)
  <2> DEFINE step == IF job[w].op = "close" THEN "delete" ELSE "apply"
  <2>1. step \in Steps
    BY DEF Steps
  <2>2. booking[o] \in [Assets -> Nat]
    BY <1>1 DEF TypeOK, InvTypeOK
  <2>3. job' = [job EXCEPT ![w].step = step, ![w].seen = booking[o]]
    BY <1>10 DEF SumRows, TypeOK
  <2>4. /\ job' \in [OrderActors -> Jobs]
        /\ \A v \in OrderActors : job'[v].step # "idle" => job'[v].order \in Orders
    <3> HIDE DEF step
    <3> QED
      BY <1>3, <2>1, <2>2, <2>3
  <2> QED
    BY <1>0, <1>10, <2>4 DEF SumRows, TypeOK, InvTypeOK, invVars
<1>11. CASE ReleaseAndFlip(w)
  <2>1. booking' \in [Holders -> [Assets -> Nat]]
    BY <1>1, <1>11, DeleteRowsType DEF ReleaseAndFlip, TypeOK
  <2>2. total' \in [Assets -> Nat] /\ avail' \in [Assets -> Nat]
    BY <1>1, <1>11, SettlementType, RestoredType DEF ReleaseAndFlip, TypeOK
  <2>3. status' \in [Orders -> Statuses]
    BY <1>1, <1>11 DEF ReleaseAndFlip, TypeOK
  <2>4. orderLock' \in [Orders -> OrderActors \cup {Nobody}]
    BY <1>1, <1>11 DEF ReleaseAndFlip, TypeOK
  <2> QED
    BY <1>0, <1>2, <1>11, <2>1, <2>2, <2>3, <2>4 DEF ReleaseAndFlip, TypeOK, InvTypeOK
<1>12. CASE WriteOffRejected(w)
  BY <1>0, <1>2, <1>12 DEF WriteOffRejected, TypeOK, InvTypeOK, invVars
<1>13. CASE CloseDeleteRows(w)
  <2>1. booking' \in [Holders -> [Assets -> Nat]]
    BY <1>1, <1>13, DeleteRowsType DEF CloseDeleteRows, TypeOK
  <2>2. {"flip", "restore"} \subseteq Steps
    BY DEF Steps
  <2> QED
    BY <1>0, <1>4, <1>13, <2>1, <2>2 DEF CloseDeleteRows, TypeOK, InvTypeOK
<1>14. ASSUME NEW a \in Assets, CloseRestore(w, a)
       PROVE  TypeOK'
  <2> DEFINE rest == [job[w].seen EXCEPT ![a] = 0]
             back == [b \in Assets |-> IF b = a THEN job[w].seen[a] ELSE 0]
             step == IF rest = NoQty THEN "flip" ELSE "restore"
  <2>1. rest \in [Assets -> Nat] /\ back \in [Assets -> Nat]
    BY <1>1
  <2>2. step \in Steps
    BY DEF Steps
  <2>3. job' = [job EXCEPT ![w].step = step, ![w].seen = rest]
    BY <1>14 DEF CloseRestore, TypeOK
  <2>4. avail' = Restored(back)
    BY <1>14 DEF CloseRestore
  <2>5. avail' \in [Assets -> Nat]
    <3> HIDE DEF back
    <3> QED
      BY <2>1, <2>4, RestoredType DEF TypeOK
  <2>6. /\ job' \in [OrderActors -> Jobs]
        /\ \A v \in OrderActors : job'[v].step # "idle" => job'[v].order \in Orders
    <3> HIDE DEF rest, step
    <3> QED
      BY <1>3, <2>1, <2>2, <2>3
  <2> QED
    BY <1>0, <1>14, <2>5, <2>6 DEF CloseRestore, TypeOK, InvTypeOK
<1> QED
  BY <1>5, <1>6, <1>7, <1>8, <1>9, <1>10, <1>11, <1>12, <1>13, <1>14 DEF Resume

LEMMA NextType ==
    ASSUME TypeOK, [Next]_vars
    PROVE  TypeOK'
<1>1. CASE \E w \in Workers, o \in Orders : Begin(w, o)
  BY <1>1, BeginType DEF Workers
<1>2. CASE \E o \in Orders : CronBegin(o)
  BY <1>2, CronBeginType
<1>3. CASE ListStuckQuotes
  BY <1>3 DEF ListStuckQuotes, TypeOK, InvTypeOK, CalendarTypeOK, calendar, invVars
<1>4. CASE \E w \in OrderActors : Resume(w)
  BY <1>4, ResumeType
<1>5. ASSUME NEW w \in OrderActors, Abort(w)
      PROVE  TypeOK'
  <2>1. /\ job' \in [OrderActors -> Jobs]
        /\ \A v \in OrderActors : job'[v].step # "idle" => job'[v].order \in Orders
    BY <1>5, IdleIsJob, JobUpdate DEF Abort, Finish
  <2>2. HalfClosed(w) => Item(w) \in Holders
    BY OrdersType DEF HalfClosed, Item, TypeOK
  <2> QED
    BY <1>5, <2>1, <2>2, LocksType, OrderActorsType DEF Abort, TypeOK, InvTypeOK, CalendarTypeOK
<1>6. ASSUME NEW o \in Orders, NEW a \in Assets, NEW q \in 1 .. Need[o][a], InboundScan(o, a, q)
      PROVE  TypeOK'
  <2>1. Need[o][a] \in Nat
    BY OrdersType, NeedType
  <2>2. returned' \in [Orders -> [Assets -> Nat]]
    BY <1>6, <2>1 DEF InboundScan, TypeOK
  <2> QED
    BY <1>6, <2>2 DEF InboundScan, TypeOK, InvTypeOK, CalendarTypeOK, calendar, invVars
<1>7. CASE Tick
  BY <1>7, DaysType DEF Tick, TypeOK, InvTypeOK, CalendarTypeOK, calendar, invVars
<1>8. CASE UNCHANGED vars
  BY <1>8 DEF vars, orderVars, invVars, TypeOK, InvTypeOK, CalendarTypeOK, calendar
<1> QED
  BY <1>1, <1>2, <1>3, <1>4, <1>5, <1>6, <1>7, <1>8 DEF Next

LEMMA InitType == Init => TypeOK
BY StockType, DaysType, IdleIsJob
   DEF Init, InvInit, CalendarInit, TypeOK, InvTypeOK, CalendarTypeOK, calendar, NoQty, Statuses

\* Whatever the handlers do, every row, job and lock keeps its type; counters
\* never go below zero.
THEOREM TypeCorrect == Spec => []TypeOK
<1>1. Init => TypeOK
  BY InitType
<1>2. TypeOK /\ [Next]_vars => TypeOK'
  BY NextType
<1> QED
  BY <1>1, <1>2, PTL DEF Spec

------------------------------------------------------------------------------
(* No oversell.  The inductive argument: an actor that has checked the     *)
(* stock and not yet committed owns the row lock of each item, and while   *)
(* it does, no step books more of them and no step shrinks their pool.     *)

IInv == TypeOK /\ CheckStaysGood /\ AvailableWithinTotal

\* A check stays good in a step that leaves its actor and its rows alone.
LEMMA CheckKept ==
    ASSUME TypeOK, TypeOK', CheckStaysGood, NEW w \in OrderActors, NEW h \in Holders, Item(w) = h,
           At(w, "book"), job'[w] = job[w],
           \A a \in Items(h) : assetLock'[a] = w /\ NoWorse(a)
    PROVE  \A a \in Items(h) : /\ assetLock'[a] = w
                               /\ Need[h][a] <= job'[w].seen[a]
                               /\ job'[w].seen[a] <= WindowAvailable(h, a)'
<1> SUFFICES ASSUME NEW a \in Items(h)
             PROVE  /\ Need[h][a] <= job'[w].seen[a]
                    /\ job'[w].seen[a] <= WindowAvailable(h, a)'
  OBVIOUS
<1>1. a \in Assets /\ job[w].seen[a] \in Nat
  BY DEF TypeOK, Jobs, Items
<1>2. Need[h][a] <= job[w].seen[a] /\ job[w].seen[a] <= WindowAvailable(h, a)
  BY DEF CheckStaysGood
<1>3. /\ WindowAvailable(h, a) <= WindowAvailable(h, a)'
      /\ WindowAvailable(h, a) \in Nat /\ WindowAvailable(h, a)' \in Nat
  BY <1>1, WindowKept DEF TypeOK
<1> QED
  BY <1>1, <1>2, <1>3

\* A step keeps every check if whoever stays at its commit keeps its rows.
LEMMA ChecksKept ==
    ASSUME TypeOK, TypeOK', CheckStaysGood,
           \A w \in OrderActors : job'[w].step = "book" =>
               /\ job'[w] = job[w]
               /\ \A a \in Items(job[w].order) : assetLock'[a] = w /\ NoWorse(a)
    PROVE  CheckStaysGood'
<1> SUFFICES ASSUME NEW w \in OrderActors, job'[w].step = "book",
                    NEW h, h = job'[w].order, NEW a \in Items(h)
             PROVE  /\ assetLock'[a] = w
                    /\ Need[h][a] <= job'[w].seen[a]
                    /\ job'[w].seen[a] <= WindowAvailable(h, a)'
  BY DEF CheckStaysGood, At, Item, Items
<1>1. job'[w] = job[w] /\ At(w, "book") /\ Item(w) = h
  BY DEF At, Item
<1>2. h \in Holders
  BY OrdersType DEF TypeOK
<1> QED
  BY <1>1, <1>2, CheckKept

\* Steps that touch neither stock nor locks nor a pending commit.
LEMMA QuietStep ==
    ASSUME IInv, TypeOK', UNCHANGED invVars,
           \A w \in OrderActors : job'[w].step = "book" => job'[w] = job[w]
    PROVE  IInv'
<1>1. ASSUME NEW w \in OrderActors, job'[w].step = "book"
      PROVE  /\ job'[w] = job[w]
             /\ \A a \in Items(job[w].order) : assetLock'[a] = w /\ NoWorse(a)
  <2>1. job'[w] = job[w]
    BY <1>1
  <2>2. ASSUME NEW a \in Items(job[w].order)
        PROVE  assetLock'[a] = w /\ NoWorse(a)
    <3>1. assetLock[a] = w /\ a \in Assets
      BY <1>1, <2>1, <2>2 DEF IInv, CheckStaysGood, At, Item, Items
    <3> QED
      BY <3>1 DEF NoWorse, invVars, IInv, TypeOK, InvTypeOK
  <2> QED
    BY <2>1, <2>2
<1>2. CheckStaysGood'
  BY <1>1, ChecksKept DEF IInv
<1>3. AvailableWithinTotal'
  BY DEF IInv, AvailableWithinTotal, invVars
<1> QED
  BY <1>2, <1>3 DEF IInv

\* The heart of it: who covers a day with o competes with o, so a booking
\* that passed the check fits on top of all of them.
LEMMA GrantFits ==
    ASSUME TypeOK, TypeOK', CheckStaysGood, NEW w \in OrderActors, At(w, "book"),
           NEW o \in Orders, o = Item(w), InsertRows(o),
           NEW a \in Items(o), NEW t \in Window[o][a].from .. Window[o][a].until
    PROVE  Committed(a, t)' <= total[a]
<1> DEFINE S == Covering(a, t)
           C == Competitors(o, a)
<1>1. /\ o \in Holders /\ a \in Assets /\ job[w].seen[a] \in Nat
      /\ Need[o][a] \in Nat /\ Need[o][a] > 0 /\ total[a] \in Nat
  BY OrdersType, NeedType DEF TypeOK, InvTypeOK, Jobs, Items, At
<1>2. Need[o][a] <= job[w].seen[a] /\ job[w].seen[a] <= WindowAvailable(o, a)
  BY DEF CheckStaysGood
<1>3. Booked(a, C) \in Nat /\ Booked(a, C) + Need[o][a] <= total[a]
  <2>1. Booked(a, C) \in Nat /\ WindowAvailable(o, a) \in Nat
    BY <1>1, SeenType DEF TypeOK
  <2>2. WindowAvailable(o, a) = AtLeastZero(total[a] - Booked(a, C))
    BY DEF WindowAvailable, ComputeAvailability
  <2> HIDE DEF C
  <2> QED
    BY <1>1, <1>2, <2>1, <2>2 DEF AtLeastZero
<1>4. S \ {o} \subseteq C
  <2> SUFFICES ASSUME NEW g \in S, g # o
               PROVE  Overlaps(o, g, a) /\ g \in Holders
    BY DEF Competitors
  <2>1. g \in Holders /\ t \in Window[g][a].from .. Window[g][a].until
    BY DEF Covering
  <2>2. /\ Window[g][a] \in [from : Int, until : Int]
        /\ Window[o][a] \in [from : Int, until : Int]
    BY <1>1, <2>1, WindowType
  <2> QED
    BY <2>1, <2>2 DEF Overlaps
<1>5. booking'[o][a] = Need[o][a] /\ \A g \in S \ {o} : booking'[g][a] <= booking[g][a]
  BY <1>1 DEF InsertRows, TypeOK, InvTypeOK, Covering
<1>6. Cardinality(RowUnits(booking', a, S)) <= Cardinality(RowUnits(booking, a, C)) + booking'[o][a]
  <2>1. S \in SUBSET Holders /\ C \in SUBSET Holders
    BY DEF Covering, Competitors
  <2>2. booking \in [Holders -> [Assets -> Nat]] /\ booking' \in [Holders -> [Assets -> Nat]]
    BY DEF TypeOK, InvTypeOK
  <2> HIDE DEF S, C
  <2> QED
    BY <1>1, <1>4, <1>5, <2>1, <2>2, UnitsWithOne
<1>7. Committed(a, t)' = Cardinality(RowUnits(booking', a, S))
  BY <1>1, CommittedIsBooked
<1>8. Booked(a, C) = Cardinality(RowUnits(booking, a, C))
  BY UnitsAreUnitsOf DEF Competitors
<1>9. Committed(a, t)' \in Nat
  BY <1>1, CommittedType DEF TypeOK
<1> HIDE DEF S, C
<1> QED
  BY <1>1, <1>3, <1>5, <1>6, <1>7, <1>8, <1>9

\* Who commits a booking leaves the rows of other pending commits alone.
LEMMA OthersKeepTheirRows ==
    ASSUME TypeOK, CheckStaysGood, NEW v \in OrderActors, At(v, "book"),
           NEW w \in OrderActors, w # v, At(w, "book"), InsertRows(Item(v)), UNCHANGED total,
           NEW a \in Items(Item(w)), assetLock' = UnlockedBy(v)
    PROVE  assetLock'[a] = w /\ NoWorse(a)
<1>1. a \in Assets /\ assetLock[a] = w
  BY DEF CheckStaysGood, Items
<1>2. a \notin Items(Item(v))
  BY <1>1 DEF CheckStaysGood
<1>3. Item(v) \in Holders
  BY OrdersType DEF TypeOK, At, Item
<1>4. ~(Need[Item(v)][a] > 0)
  BY <1>1, <1>2 DEF Items
<1>5. NoWorse(a)
  BY <1>1, <1>3, <1>4 DEF NoWorse, InsertRows, TypeOK, InvTypeOK
<1> QED
  BY <1>1, <1>5 DEF UnlockedBy

\* Giving up one's locks disturbs nobody else's check.
LEMMA UnlockKeepsChecks ==
    ASSUME TypeOK, TypeOK', CheckStaysGood, NEW w \in OrderActors, UNCHANGED <<total, booking>>,
           assetLock' = UnlockedBy(w), job'[w].step # "book",
           \A v \in OrderActors : v # w => job'[v] = job[v]
    PROVE  CheckStaysGood'
<1> SUFFICES ASSUME NEW v \in OrderActors, job'[v].step = "book"
             PROVE  /\ job'[v] = job[v]
                    /\ \A a \in Items(job[v].order) : assetLock'[a] = v /\ NoWorse(a)
  BY ChecksKept
<1>1. v # w /\ job'[v] = job[v] /\ At(v, "book")
  BY DEF At
<1> QED
  BY <1>1 DEF CheckStaysGood, Item, Items, NoWorse, UnlockedBy, TypeOK, InvTypeOK

LEMMA RestoredWithinTotal ==
    ASSUME IInv, NEW back \in [Assets -> Nat], NEW a \in Assets
    PROVE  Restored(back)[a] <= total[a]
BY DEF Restored, AtMost, AtLeastZero, IInv, TypeOK, InvTypeOK, AvailableWithinTotal

\* The check itself: what it reads is what the window has left.
LEMMA LockAndCheckInv ==
    ASSUME IInv, TypeOK', NEW w \in OrderActors, NEW o \in Orders, o = Item(w), Fits(o), LockAndCheck(w)
    PROVE  IInv'
<1> DEFINE seen == [a \in Assets |-> IF a \in Items(o) THEN WindowAvailable(o, a) ELSE 0]
<1>1. /\ TypeOK /\ CheckStaysGood /\ o \in Holders
      /\ job' = [job EXCEPT ![w].step = "book", ![w].seen = seen]
      /\ assetLock' = LockedBy(w, Items(o)) /\ Unlocked(Items(o))
      /\ UNCHANGED <<total, avail, booking>>
  BY OrdersType DEF IInv, LockAndCheck
<1>2. AvailableWithinTotal'
  BY <1>1 DEF IInv, AvailableWithinTotal
<1>3. CheckStaysGood'
  <2> SUFFICES ASSUME NEW v \in OrderActors, job'[v].step = "book",
                      NEW h, h = job'[v].order, NEW a \in Items(h)
               PROVE  /\ assetLock'[a] = v
                      /\ Need[h][a] <= job'[v].seen[a]
                      /\ job'[v].seen[a] <= WindowAvailable(h, a)'
    BY DEF CheckStaysGood, At, Item, Items
  <2>1. CASE v = w
    <3>1. /\ job'[w].order = job[w].order /\ job'[w].seen = seen
      <4> HIDE DEF seen
      <4> QED
        BY <1>1 DEF TypeOK, Jobs
    <3>2. h = o /\ a \in Assets
      BY <2>1, <3>1 DEF Item, Items
    <3>3. seen[a] = WindowAvailable(o, a)
      BY <3>2
    <3>4. WindowAvailable(o, a) \in Nat
      BY <1>1, <3>2, SeenType DEF TypeOK
    <3>5. WindowAvailable(o, a)' = WindowAvailable(o, a)
      BY <1>1 DEF WindowAvailable, ComputeAvailability, Booked, Units, Competitors, Overlaps
    <3>6. Need[o][a] <= WindowAvailable(o, a)
      BY <1>1, <3>2, <3>4, NeedType DEF Fits
    <3>7. assetLock'[a] = w
      BY <1>1, <3>2 DEF LockedBy
    <3> HIDE DEF seen
    <3> QED
      BY <2>1, <3>1, <3>2, <3>3, <3>4, <3>5, <3>6, <3>7
  <2>2. CASE v # w
    <3>1. job'[v] = job[v]
      BY <1>1, <2>2 DEF TypeOK
    <3>2. At(v, "book") /\ Item(v) = h /\ h \in Holders
      BY <1>1, <3>1, OrdersType DEF At, Item, TypeOK
    <3>3. ASSUME NEW b \in Items(h)
          PROVE  assetLock'[b] = v /\ NoWorse(b)
      <4>1. b \in Assets /\ assetLock[b] = v /\ v # Nobody
        BY <1>1, <3>2, NobodyType, OrderActorsType DEF CheckStaysGood, Items
      <4>2. assetLock'[b] = v
        BY <1>1, <4>1 DEF Unlocked, LockedBy
      <4> QED
        BY <1>1, <4>1, <4>2 DEF NoWorse, TypeOK, InvTypeOK
    <3>4. \A b \in Items(h) : /\ assetLock'[b] = v
                              /\ Need[h][b] <= job'[v].seen[b]
                              /\ job'[v].seen[b] <= WindowAvailable(h, b)'
      BY <1>1, <3>1, <3>2, <3>3, CheckKept
    <3> QED
      BY <3>4
  <2> QED
    BY <2>1, <2>2
<1> QED
  BY <1>2, <1>3 DEF IInv

\* The commit of a booking, by submit or by approve.
LEMMA CommitInv ==
    ASSUME IInv, TypeOK', NEW w \in OrderActors, NEW o \in Orders, o = Item(w), At(w, "book"),
           BookSubmitted(w) \/ (BookApproved(w) /\ ~HasRows(o))
    PROVE  IInv'
<1>1. /\ TypeOK /\ CheckStaysGood /\ o \in Holders
      /\ InsertRows(o) /\ UNCHANGED total /\ assetLock' = UnlockedBy(w)
      /\ job'[w].step # "book" /\ \A v \in OrderActors : v # w => job'[v] = job[v]
  BY OrdersType, IdleIsJob DEF IInv, TypeOK, Jobs, BookSubmitted, BookApproved, Finish, GoTo
<1>3. CheckStaysGood'
  <2> SUFFICES ASSUME NEW v \in OrderActors, job'[v].step = "book"
               PROVE  /\ job'[v] = job[v]
                      /\ \A a \in Items(job[v].order) : assetLock'[a] = v /\ NoWorse(a)
    BY <1>1, ChecksKept
  <2>1. v # w /\ job'[v] = job[v] /\ At(v, "book")
    BY <1>1 DEF At
  <2> QED
    BY <1>1, <2>1, OthersKeepTheirRows DEF Item
<1>4. AvailableWithinTotal'
  <2> SUFFICES ASSUME NEW a \in Assets
               PROVE  avail'[a] <= total[a] /\ total[a] <= Stock[a]
    BY <1>1 DEF AvailableWithinTotal
  <2>1. /\ avail[a] \in Nat /\ total[a] \in Nat /\ avail[a] <= total[a] /\ total[a] <= Stock[a]
        /\ Need[o][a] \in Nat
    BY <1>1, NeedType DEF IInv, AvailableWithinTotal, TypeOK, InvTypeOK
  <2>2. CASE BookSubmitted(w)
    BY <2>1, <2>2 DEF BookSubmitted, Decrement, AtLeastZero
  <2>3. CASE BookApproved(w) /\ ~HasRows(o)
    <3>1. CASE a \in Items(o)
      <4>1. /\ job[w].seen[a] \in Nat /\ job[w].seen[a] <= WindowAvailable(o, a)
            /\ Need[o][a] <= job[w].seen[a]
        BY <1>1, <3>1 DEF CheckStaysGood, At, TypeOK, Jobs
      <4>2. Booked(a, Competitors(o, a)) \in Nat
        BY <1>1, SeenType DEF TypeOK
      <4>3. WindowAvailable(o, a) \in Nat /\ WindowAvailable(o, a) <= total[a]
        BY <2>1, <4>2 DEF WindowAvailable, ComputeAvailability, AtLeastZero
      <4>4. avail'[a] = AtLeastZero(job[w].seen[a] - Need[o][a])
        BY <2>3, <3>1 DEF BookApproved
      <4> QED
        BY <2>1, <4>1, <4>3, <4>4 DEF AtLeastZero
    <3>2. CASE a \notin Items(o)
      BY <2>1, <2>3, <3>2 DEF BookApproved
    <3> QED
      BY <3>1, <3>2
  <2> QED
    BY <2>2, <2>3
<1> QED
  BY <1>3, <1>4 DEF IInv

\* A release waits for the rows it changes, so it changes nobody's check.
LEMMA ReleaseInv ==
    ASSUME IInv, TypeOK', NEW w \in OrderActors, NEW o \in Orders, o = Item(w),
           ReleaseAndFlip(w) \/ CloseDeleteRows(w)
    PROVE  IInv'
<1>1. /\ TypeOK /\ CheckStaysGood /\ o \in Holders /\ job[w].step # "idle"
      /\ DeleteRows(o) /\ UNCHANGED assetLock
      /\ job'[w].step # "book" /\ \A v \in OrderActors : v # w => job'[v] = job[v]
  BY OrdersType, IdleIsJob DEF IInv, TypeOK, Jobs, ReleaseAndFlip, CloseDeleteRows, Finish, GoTo, At
<1>3. ASSUME NEW a \in Assets, assetLock[a] # Nobody
      PROVE  NoWorse(a)
  <2>1. total'[a] = total[a]
    <3>1. CASE ReleaseAndFlip(w)
      <4>1. a \notin RowsTouched(w)
        BY <1>3, <3>1 DEF ReleaseAndFlip, Unlocked
      <4> QED
        BY <3>1, <4>1 DEF ReleaseAndFlip, RowsTouched
    <3>2. CASE CloseDeleteRows(w)
      BY <3>2 DEF CloseDeleteRows
    <3> QED
      BY <3>1, <3>2
  <2> QED
    BY <1>1, <2>1 DEF NoWorse, DeleteRows, TypeOK, InvTypeOK
<1>4. CheckStaysGood'
  <2> SUFFICES ASSUME NEW v \in OrderActors, job'[v].step = "book"
               PROVE  /\ job'[v] = job[v]
                      /\ \A a \in Items(job[v].order) : assetLock'[a] = v /\ NoWorse(a)
    BY <1>1, ChecksKept
  <2>1. v # w /\ job'[v] = job[v] /\ At(v, "book")
    BY <1>1 DEF At
  <2> QED
    BY <1>1, <1>3, <2>1, NobodyType, OrderActorsType DEF CheckStaysGood, Item, Items
<1>5. AvailableWithinTotal'
  <2> SUFFICES ASSUME NEW a \in Assets
               PROVE  avail'[a] <= total'[a] /\ total'[a] <= Stock[a]
    BY DEF AvailableWithinTotal
  <2>1. avail[a] <= total[a] /\ total[a] \in Nat /\ total[a] <= Stock[a] /\ Stock[a] \in Nat
    BY StockType DEF IInv, AvailableWithinTotal, TypeOK, InvTypeOK
  <2>2. CASE ReleaseAndFlip(w)
    <3>1. TotalAfter(w)[a] <= total[a] /\ TotalAfter(w)[a] \in Nat
      BY <1>1, SettlementType
    <3>2. avail'[a] <= total'[a] /\ total'[a] = TotalAfter(w)[a]
      BY <2>2 DEF ReleaseAndFlip, CheckHolds
    <3> QED
      BY <2>1, <3>1, <3>2
  <2>3. CASE CloseDeleteRows(w)
    BY <2>1, <2>3 DEF CloseDeleteRows
  <2> QED
    BY <2>2, <2>3
<1> QED
  BY <1>4, <1>5 DEF IInv

\* One counter given back outside a transaction.
LEMMA CloseRestoreInv ==
    ASSUME IInv, TypeOK', NEW w \in OrderActors, NEW b \in Assets, CloseRestore(w, b)
    PROVE  IInv'
<1>1. /\ TypeOK /\ CheckStaysGood /\ UNCHANGED <<total, booking, assetLock>>
      /\ job'[w].step # "book" /\ \A v \in OrderActors : v # w => job'[v] = job[v]
  BY DEF IInv, TypeOK, Jobs, CloseRestore
<1>2. CheckStaysGood'
  <2> SUFFICES ASSUME NEW v \in OrderActors, job'[v].step = "book"
               PROVE  /\ job'[v] = job[v]
                      /\ \A a \in Items(job[v].order) : assetLock'[a] = v /\ NoWorse(a)
    BY <1>1, ChecksKept
  <2>1. v # w /\ job'[v] = job[v] /\ At(v, "book")
    BY <1>1 DEF At
  <2> QED
    BY <1>1, <2>1 DEF CheckStaysGood, Item, Items, NoWorse, TypeOK, InvTypeOK
<1>3. AvailableWithinTotal'
  <2> DEFINE back == [a \in Assets |-> IF a = b THEN job[w].seen[b] ELSE 0]
  <2>1. back \in [Assets -> Nat]
    <3>1. job[w].seen \in [Assets -> Nat]
      BY <1>1 DEF TypeOK, Jobs
    <3> QED
      BY <3>1
  <2>2. avail' = Restored(back)
    BY DEF CloseRestore
  <2> HIDE DEF back
  <2>3. \A a \in Assets : avail'[a] <= total[a]
    BY <2>1, <2>2, RestoredWithinTotal
  <2> QED
    BY <1>1, <2>3 DEF AvailableWithinTotal, IInv
<1> QED
  BY <1>2, <1>3 DEF IInv

\* Each step of a running handler keeps the invariant.
LEMMA ResumeInv ==
    ASSUME IInv, NEW w \in OrderActors, Resume(w)
    PROVE  IInv'
<1>1. TypeOK /\ TypeOK'
  BY ResumeType DEF IInv
<1>2. PICK o \in Orders : o = Item(w)
  <2>1. job[w].step # "idle"
    BY DEF Resume, At, LockAndCheck, BookSubmitted, BookApproved, Flip, TakeOrderRow, SumRows,
           ReleaseAndFlip, WriteOffRejected, CloseDeleteRows, CloseRestore
  <2> QED
    BY <1>1, <2>1 DEF TypeOK, Item
<1>3. ASSUME UNCHANGED invVars, \A v \in OrderActors : v # w => job'[v] = job[v],
             job'[w].step # "book" \/ job'[w] = job[w]
      PROVE  IInv'
  BY <1>1, <1>3, QuietStep
<1>4. CASE LockAndCheck(w) /\ ~Fits(o)
  BY <1>1, <1>2, <1>3, <1>4, IdleIsJob DEF LockAndCheck, Finish, invVars, TypeOK
<1>5. CASE LockAndCheck(w) /\ Fits(o)
  BY <1>1, <1>2, <1>5, LockAndCheckInv
<1>6. CASE BookSubmitted(w) \/ (BookApproved(w) /\ ~HasRows(o))
  BY <1>1, <1>2, <1>6, CommitInv DEF BookSubmitted, BookApproved
<1>7. CASE BookApproved(w) /\ HasRows(o)
  <2>1. /\ UNCHANGED <<total, avail, booking>> /\ assetLock' = UnlockedBy(w)
        /\ job'[w].step # "book" /\ \A v \in OrderActors : v # w => job'[v] = job[v]
    BY <1>1, <1>2, <1>7 DEF BookApproved, GoTo, TypeOK, Jobs
  <2>2. CheckStaysGood'
    BY <1>1, <2>1, UnlockKeepsChecks DEF IInv
  <2>3. AvailableWithinTotal'
    BY <2>1 DEF IInv, AvailableWithinTotal
  <2> QED
    BY <1>1, <2>2, <2>3 DEF IInv
<1>8. CASE Flip(w) \/ TakeOrderRow(w) \/ SumRows(w) \/ WriteOffRejected(w)
  BY <1>1, <1>3, <1>8, IdleIsJob
     DEF Flip, TakeOrderRow, SumRows, WriteOffRejected, Finish, GoTo, TypeOK, Jobs, invVars
<1>9. CASE ReleaseAndFlip(w) \/ CloseDeleteRows(w)
  BY <1>1, <1>2, <1>9, ReleaseInv
<1>10. CASE \E a \in Assets : CloseRestore(w, a)
  BY <1>1, <1>10, CloseRestoreInv
<1> QED
  BY <1>4, <1>5, <1>6, <1>7, <1>8, <1>9, <1>10 DEF Resume

LEMMA NextInv ==
    ASSUME IInv, [Next]_vars
    PROVE  IInv'
<1>1. TypeOK /\ TypeOK'
  BY NextType DEF IInv
<1>2. ASSUME UNCHANGED invVars, NEW w \in OrderActors, NEW r, r.step # "book",
             job' = [job EXCEPT ![w] = r]
      PROVE  IInv'
  BY <1>1, <1>2, QuietStep DEF TypeOK
<1>3. ASSUME NEW w \in Workers, NEW o \in Orders, Begin(w, o)
      PROVE  IInv'
  <2>1. w \in OrderActors
    BY DEF Workers
  <2>2. ASSUME NEW name, NEW op, NEW step, NEW to, step # "book", Start(w, name, op, o, step, to)
        PROVE  IInv'
    <3>1. [Idle EXCEPT !.op = op, !.order = o, !.step = step, !.read = status[o], !.to = to].step # "book"
      BY <2>2 DEF Idle
    <3> QED
      BY <1>2, <2>1, <2>2, <3>1 DEF Start
  <2>3. CASE BeginCompleteInbound(w, o)
    <3>1. [Idle EXCEPT !.op = "complete", !.order = o, !.step = "sum", !.read = status[o],
                       !.to = "CLOSED", !.back = returned[o]].step # "book"
      BY DEF Idle
    <3> QED
      BY <1>2, <2>1, <2>3, <3>1 DEF BeginCompleteInbound
  <2> QED
    BY <1>3, <2>2, <2>3
       DEF Begin, BeginSubmit, BeginApproveQuote, BeginDeclineQuote, BeginCancelOrder,
           BeginSubmitForApproval, BeginAdminApproveQuote, BeginReturnToLogistics,
           BeginMarkAsNoCost, BeginProgress, BeginProgressToClosed, BeginCompleteOutbound
<1>4. ASSUME NEW o \in Orders, CronBegin(o)
      PROVE  IInv'
  <2>1. CASE BeginEventStart(o) \/ BeginEventEnd(o)
    <3>1. \A to : [Idle EXCEPT !.op = "status", !.order = o, !.step = "flip",
                                !.read = status[o], !.to = to].step # "book"
      BY DEF Idle
    <3> QED
      BY <1>2, <2>1, <3>1, OrderActorsType DEF BeginEventStart, BeginEventEnd, Start
  <2>2. CASE BeginExpire(o)
    <3>1. [Idle EXCEPT !.op = "expire", !.order = o, !.step = "sum",
                       !.read = status[o], !.to = "CANCELLED"].step # "book"
      BY DEF Idle
    <3> QED
      BY <1>2, <2>2, <3>1, OrderActorsType DEF BeginExpire
  <2> QED
    BY <1>4, <2>1, <2>2 DEF CronBegin
<1>5. ASSUME NEW w \in OrderActors, Abort(w)
      PROVE  IInv'
  <2>1. /\ UNCHANGED <<total, avail, booking>> /\ assetLock' = UnlockedBy(w)
        /\ job'[w].step # "book" /\ \A v \in OrderActors : v # w => job'[v] = job[v]
    BY <1>1, <1>5, IdleIsJob DEF Abort, Finish, TypeOK
  <2>2. CheckStaysGood'
    BY <1>1, <2>1, UnlockKeepsChecks DEF IInv
  <2>3. AvailableWithinTotal'
    BY <2>1 DEF IInv, AvailableWithinTotal
  <2> QED
    BY <1>1, <2>2, <2>3 DEF IInv
<1>6. CASE UNCHANGED <<invVars, job>>
  BY <1>1, <1>6, QuietStep
<1>7. CASE \/ ListStuckQuotes \/ Tick \/ UNCHANGED vars
           \/ \E o \in Orders, a \in Assets : \E q \in 1 .. Need[o][a] : InboundScan(o, a, q)
  BY <1>6, <1>7 DEF ListStuckQuotes, Tick, InboundScan, vars, orderVars, invVars
<1> QED
  BY <1>3, <1>4, <1>5, <1>7, ResumeInv DEF Next

LEMMA InitInv == Init => IInv
<1> SUFFICES ASSUME Init
             PROVE  IInv
  OBVIOUS
<1>1. TypeOK /\ booking = [h \in Holders |-> [a \in Assets |-> 0]] /\ total = Stock /\ avail = Stock
  BY InitType DEF Init, InvInit
<1>2. CheckStaysGood
  BY DEF Init, CheckStaysGood, At, Idle
<1>3. AvailableWithinTotal
  BY <1>1, StockType DEF AvailableWithinTotal
<1> QED
  BY <1>1, <1>2, <1>3 DEF IInv

\* The booking invariant: what a check under the row locks found is still
\* there when its transaction commits, and counters stay within the pool.
THEOREM BookingInvariant == Spec => []IInv
<1>1. IInv /\ [Next]_vars => IInv'
  BY NextInv
<1> QED
  BY <1>1, InitInv, PTL DEF Spec

\* The availability read under FOR UPDATE cannot go stale before the commit.
THEOREM ChecksStayGood == Spec => []CheckStaysGood
<1>1. IInv => CheckStaysGood
  BY DEF IInv
<1> QED
  BY <1>1, BookingInvariant, PTL

\* available_quantity never passes total_quantity, nor that the initial stock.
THEOREM CountersWithinPool == Spec => []AvailableWithinTotal
<1>1. IInv => AvailableWithinTotal
  BY DEF IInv
<1> QED
  BY <1>1, BookingInvariant, PTL

------------------------------------------------------------------------------
(* The engine is a reservation desk.                                       *)

\* What a step can do to the rows: book one order, release one, or nothing.
LEMMA StepKinds ==
    ASSUME TypeOK, [Next]_vars
    PROVE  \/ \E w \in OrderActors, o \in Orders :
                  /\ o = Item(w) /\ At(w, "book") /\ InsertRows(o) /\ UNCHANGED total
                  /\ job[w].op = "submit" \/ ~HasRows(o)
           \/ \E o \in Orders : DeleteRows(o) /\ \A a \in Assets : total'[a] <= total[a]
           \/ UNCHANGED <<booking, total>>
<1>1. ASSUME NEW w \in OrderActors, Resume(w)
      PROVE  \/ \E o \in Orders : /\ o = Item(w) /\ At(w, "book") /\ InsertRows(o)
                                  /\ UNCHANGED total
                                  /\ job[w].op = "submit" \/ ~HasRows(o)
             \/ \E o \in Orders : DeleteRows(o) /\ \A a \in Assets : total'[a] <= total[a]
             \/ UNCHANGED <<booking, total>>
  <2>1. job[w].step # "idle"
    BY <1>1 DEF Resume, At, LockAndCheck, BookSubmitted, BookApproved, Flip, TakeOrderRow,
           SumRows, ReleaseAndFlip, WriteOffRejected, CloseDeleteRows, CloseRestore
  <2>2. PICK o \in Orders : o = Item(w)
    BY <2>1 DEF TypeOK, Item
  <2>3. \A a \in Assets : TotalAfter(w)[a] <= total[a] /\ total[a] <= total[a]
    BY <2>1, SettlementType DEF TypeOK, InvTypeOK
  <2>4. CASE BookSubmitted(w) \/ (BookApproved(w) /\ ~HasRows(o))
    BY <2>2, <2>4 DEF BookSubmitted, BookApproved
  <2>5. CASE ReleaseAndFlip(w) \/ CloseDeleteRows(w)
    BY <2>2, <2>3, <2>5 DEF ReleaseAndFlip, CloseDeleteRows
  <2>6. CASE \/ LockAndCheck(w) \/ Flip(w) \/ TakeOrderRow(w) \/ SumRows(w)
             \/ WriteOffRejected(w) \/ (BookApproved(w) /\ HasRows(o))
             \/ \E a \in Assets : CloseRestore(w, a)
    BY <2>2, <2>6 DEF LockAndCheck, Flip, TakeOrderRow, SumRows, WriteOffRejected,
                      BookApproved, CloseRestore, invVars
  <2> QED
    BY <1>1, <2>4, <2>5, <2>6 DEF Resume
<1>2. CASE \E w \in Workers, o \in Orders : Begin(w, o)
  <2>1. ASSUME NEW w, NEW name, NEW op, NEW o, NEW step, NEW to, Start(w, name, op, o, step, to)
        PROVE  UNCHANGED <<booking, total>>
    BY <2>1 DEF Start, invVars
  <2>2. ASSUME NEW w, NEW o, BeginCompleteInbound(w, o)
        PROVE  UNCHANGED <<booking, total>>
    BY <2>2 DEF BeginCompleteInbound, invVars
  <2>3. UNCHANGED <<booking, total>>
    BY <1>2, <2>1, <2>2
       DEF Begin, BeginSubmit, BeginApproveQuote, BeginDeclineQuote, BeginCancelOrder,
           BeginSubmitForApproval, BeginAdminApproveQuote, BeginReturnToLogistics,
           BeginMarkAsNoCost, BeginProgress, BeginProgressToClosed, BeginCompleteOutbound
  <2> QED
    BY <2>3
<1>3. CASE \E o \in Orders : CronBegin(o)
  BY <1>3 DEF CronBegin, BeginEventStart, BeginEventEnd, BeginExpire, Start, invVars
<1>4. CASE \/ ListStuckQuotes \/ Tick \/ UNCHANGED vars \/ \E w \in OrderActors : Abort(w)
           \/ \E o \in Orders, a \in Assets : \E q \in 1 .. Need[o][a] : InboundScan(o, a, q)
  BY <1>4 DEF ListStuckQuotes, Tick, Abort, InboundScan, vars, orderVars, invVars
<1> QED
  BY <1>1, <1>2, <1>3, <1>4 DEF Next

\* A commit of a booking keeps every day within the stock ever owned.
LEMMA GrantKeepsNoOversell ==
    ASSUME IInv, NoOversell, TypeOK', NEW w \in OrderActors, At(w, "book"), NEW o \in Orders, o = Item(w),
           InsertRows(o), UNCHANGED total
    PROVE  NoOversell'
<1> SUFFICES ASSUME NEW a \in Assets, NEW t \in Days
             PROVE  Committed(a, t)' <= Stock[a]
  BY DEF NoOversell, Days
<1>1. /\ total[a] \in Nat /\ Stock[a] \in Nat /\ total[a] <= Stock[a]
      /\ Committed(a, t) <= Stock[a] /\ Committed(a, t) \in Nat /\ Committed(a, t)' \in Nat
  BY StockType, CommittedType DEF IInv, TypeOK, InvTypeOK, AvailableWithinTotal, NoOversell
<1>2. CASE a \in Items(o) /\ t \in Window[o][a].from .. Window[o][a].until
  <2>1. Committed(a, t)' <= total[a]
    BY <1>2, GrantFits DEF IInv
  <2> QED
    BY <1>1, <2>1
<1>3. CASE ~(a \in Items(o) /\ t \in Window[o][a].from .. Window[o][a].until)
  <2>1. \A g \in Covering(a, t) : booking'[g][a] <= booking[g][a]
    BY <1>3, OrdersType DEF Covering, InsertRows, Items, IInv, TypeOK, InvTypeOK
  <2>2. Committed(a, t)' <= Committed(a, t)
    BY <2>1, CommittedKept DEF IInv, TypeOK
  <2> QED
    BY <1>1, <2>2
<1> QED
  BY <1>2, <1>3

\* What a step of the engine does to the rows oversells no day.
LEMMA StepKeepsNoOversell ==
    ASSUME IInv, NoOversell, [Next]_vars
    PROVE  NoOversell'
<1>1. TypeOK /\ TypeOK'
  BY NextType DEF IInv
<1>2. ASSUME NEW w \in OrderActors, NEW o \in Orders, o = Item(w), At(w, "book"), InsertRows(o),
             UNCHANGED total
      PROVE  NoOversell'
  BY <1>1, <1>2, GrantKeepsNoOversell
<1>3. ASSUME NEW o \in Orders, DeleteRows(o)
      PROVE  NoOversell'
  <2>1. \A g \in Holders, a \in Assets : booking'[g][a] <= booking[g][a]
    BY <1>1, <1>3, OrdersType DEF DeleteRows, TypeOK, InvTypeOK
  <2> QED
    BY <1>1, <2>1, OversellKept DEF TypeOK
<1>4. ASSUME UNCHANGED <<booking, total>>
      PROVE  NoOversell'
  <2>1. \A g \in Holders, a \in Assets : booking'[g][a] <= booking[g][a]
    BY <1>1, <1>4 DEF TypeOK, InvTypeOK
  <2> QED
    BY <1>1, <2>1, OversellKept DEF TypeOK
<1> QED
  BY <1>1, <1>2, <1>3, <1>4, StepKinds

\* However many handlers race, die and are repeated, no asset is promised for
\* any day beyond the units the platform ever owned.
THEOREM NeverOversold == Spec => []NoOversell
<1>1. Init => NoOversell
  <2> SUFFICES ASSUME Init, NEW a \in Assets, NEW t \in Days
               PROVE  Committed(a, t) <= Stock[a]
    BY DEF NoOversell
  <2>1. Committed(a, t) = 0
    BY NothingBooked DEF Init, InvInit, Committed, Covering
  <2> QED
    BY <2>1, StockType
<1>2. IInv /\ NoOversell /\ [Next]_vars => NoOversell'
  BY StepKeepsNoOversell
<1> QED
  BY <1>1, <1>2, BookingInvariant, PTL DEF Spec

\* A step that books leaves each day of the window within the pool it finds.
LEMMA StepFits ==
    ASSUME IInv, [Next]_vars
    PROVE  \A o \in Orders, a \in Assets : booking'[o][a] > booking[o][a] =>
               \A t \in Window[o][a].from .. Window[o][a].until : Committed(a, t)' <= total'[a]
<1> SUFFICES ASSUME NEW o \in Orders, NEW a \in Assets, booking'[o][a] > booking[o][a],
                    NEW t \in Window[o][a].from .. Window[o][a].until
             PROVE  Committed(a, t)' <= total'[a]
  OBVIOUS
<1>1. TypeOK /\ TypeOK' /\ CheckStaysGood
  BY NextType DEF IInv
<1>2. o \in Holders /\ booking[o][a] \in Nat /\ booking'[o][a] \in Nat
  BY <1>1, OrdersType DEF TypeOK, InvTypeOK
<1>3. PICK w \in OrderActors, p \in Orders : p = Item(w) /\ At(w, "book") /\ InsertRows(p) /\ UNCHANGED total
  <2>1. ASSUME NEW p \in Orders, DeleteRows(p)
        PROVE  booking'[o][a] <= booking[o][a]
    BY <1>1, <1>2, <2>1 DEF DeleteRows, TypeOK, InvTypeOK
  <2> QED
    BY <1>1, <1>2, <2>1, StepKinds
<1>4. p = o /\ a \in Items(o)
  BY <1>1, <1>2, <1>3, NeedType DEF InsertRows, Items, TypeOK, InvTypeOK
<1>5. Committed(a, t)' <= total[a]
  BY <1>1, <1>3, <1>4, GrantFits
<1> QED
  BY <1>3, <1>5

\* Stock is given to an order only if every day of its window then fits what
\* the platform owns at that moment.
THEOREM AdmissionsFit == Spec => AdmissionFits
<1>1. IInv /\ [Next]_vars => [\A o \in Orders, a \in Assets :
          booking'[o][a] > booking[o][a] =>
              \A t \in Window[o][a].from .. Window[o][a].until : Committed(a, t)' <= total'[a]]_vars
  BY StepFits
<1> QED
  BY <1>1, BookingInvariant, PTL DEF Spec, AdmissionFits

\* An order is created by one handler that nobody else can know of.
NewOrderAlone == \A w \in OrderActors : job[w].op = "submit" =>
    /\ job[w].step \in {"lock", "book"}
    /\ status[job[w].order] = "NONE"
    /\ \A v \in OrderActors : v # w => job[v].order # job[w].order
HandledOrderExists == \A w \in OrderActors : job[w].step # "idle" =>
    job[w].to # "NONE" /\ (job[w].op = "submit" \/ status[job[w].order] # "NONE")
NoRowsBeforeOrder == \A o \in Orders : status[o] = "NONE" =>
    booking[o] = NoQty /\ o \notin expireList
WholeOrNothing == \A o \in Orders : booking[o] \in {NoQty, Need[o]}

RInv == NewOrderAlone /\ HandledOrderExists /\ NoRowsBeforeOrder /\ WholeOrNothing

\* An actor whose job is replaced by another than a submit, of an existing order.
LEMMA OtherJob ==
    ASSUME TypeOK, RInv, NEW w \in OrderActors, NEW r, job' = [job EXCEPT ![w] = r],
           r.op # "submit", r.step # "idle" => r.to # "NONE" /\ status[r.order] # "NONE",
           r.order = Nobody \/ (r.order \in Orders /\ status[r.order] # "NONE"),
           UNCHANGED <<status, booking>>, expireList' \subseteq expireList
    PROVE  RInv'
<1>1. job'[w] = r /\ \A v \in OrderActors : v # w => job'[v] = job[v]
  BY DEF TypeOK
<1>2. NewOrderAlone'
  <2> SUFFICES ASSUME NEW v \in OrderActors, job'[v].op = "submit"
               PROVE  /\ job'[v].step \in {"lock", "book"}
                      /\ status[job'[v].order] = "NONE"
                      /\ \A u \in OrderActors : u # v => job'[u].order # job'[v].order
    BY DEF NewOrderAlone
  <2>1. v # w /\ job'[v] = job[v]
    BY <1>1
  <2>2. /\ job[v].step \in {"lock", "book"} /\ status[job[v].order] = "NONE"
        /\ \A u \in OrderActors : u # v => job[u].order # job[v].order
    BY <2>1 DEF RInv, NewOrderAlone
  <2>3. job[v].order \in Orders
    BY <2>2 DEF TypeOK
  <2>4. r.order # job[v].order
    BY <2>2, <2>3, OrdersType
  <2> QED
    BY <1>1, <2>1, <2>2, <2>4
<1>3. HandledOrderExists'
  BY <1>1 DEF RInv, HandledOrderExists
<1>4. NoRowsBeforeOrder' /\ WholeOrNothing'
  BY DEF RInv, NoRowsBeforeOrder, WholeOrNothing
<1> QED
  BY <1>2, <1>3, <1>4 DEF RInv

LEMMA BeginRInv ==
    ASSUME TypeOK, RInv, NEW w \in OrderActors, NEW o \in Orders, Begin(w, o)
    PROVE  RInv'
<1>1. CASE BeginSubmit(w, o)
  <2> DEFINE r == [Idle EXCEPT !.op = "submit", !.order = o, !.step = "lock", !.read = status[o],
                               !.to = "PRICING_REVIEW"]
  <2>1. r.op = "submit" /\ r.order = o /\ r.step = "lock" /\ r.to = "PRICING_REVIEW"
    BY DEF Idle
  <2>2. /\ job' = [job EXCEPT ![w] = r] /\ UNCHANGED <<status, booking, expireList>>
        /\ status[o] = "NONE" /\ \A v \in OrderActors : job[v].order # o
    BY <1>1 DEF BeginSubmit, Start, invVars
  <2> HIDE DEF r
  <2>3. job'[w] = r /\ \A v \in OrderActors : v # w => job'[v] = job[v]
    BY <2>2 DEF TypeOK
  <2>4. NewOrderAlone'
    BY <2>1, <2>2, <2>3 DEF RInv, NewOrderAlone
  <2>5. HandledOrderExists'
    BY <2>1, <2>2, <2>3 DEF RInv, HandledOrderExists
  <2>6. NoRowsBeforeOrder' /\ WholeOrNothing'
    BY <2>2 DEF RInv, NoRowsBeforeOrder, WholeOrNothing
  <2> QED
    BY <2>4, <2>5, <2>6 DEF RInv
<1>2. ASSUME NEW name, NEW op, NEW step, NEW to, op # "submit", to # "NONE", status[o] # "NONE",
             Start(w, name, op, o, step, to)
      PROVE  RInv'
  <2> DEFINE r == [Idle EXCEPT !.op = op, !.order = o, !.step = step, !.read = status[o], !.to = to]
  <2>1. r.op = op /\ r.order = o /\ r.step = step /\ r.to = to
    BY DEF Idle
  <2>2. job' = [job EXCEPT ![w] = r] /\ UNCHANGED <<status, booking, expireList>>
    BY <1>2 DEF Start, invVars
  <2> HIDE DEF r
  <2> QED
    BY <1>2, <2>1, <2>2, OtherJob
<1>3. CASE BeginCompleteInbound(w, o)
  <2> DEFINE r == [Idle EXCEPT !.op = "complete", !.order = o, !.step = "sum", !.read = status[o],
                               !.to = "CLOSED", !.back = returned[o]]
  <2>1. r.op = "complete" /\ r.order = o /\ r.step = "sum" /\ r.to = "CLOSED"
    BY DEF Idle
  <2>2. /\ job' = [job EXCEPT ![w] = r] /\ UNCHANGED <<status, booking, expireList>>
        /\ status[o] # "NONE"
    BY <1>3 DEF BeginCompleteInbound, invVars
  <2> HIDE DEF r
  <2> QED
    BY <2>1, <2>2, OtherJob
<1>4. CASE \E to \in Statuses : BeginProgress(w, o, to)
  <2>1. PICK to \in Statuses : BeginProgress(w, o, to)
    BY <1>4
  <2>2. to # "NONE" /\ status[o] # "NONE"
    BY <2>1 DEF BeginProgress, ValidStateTransitions
  <2>3. Start(w, "progress", "status", o, "flip", to)
    BY <2>1 DEF BeginProgress
  <2> QED
    BY <1>2, <2>2, <2>3
<1>5. CASE BeginProgressToClosed(w, o)
  <2>1. status[o] # "NONE"
    BY <1>5 DEF BeginProgressToClosed, ValidStateTransitions
  <2> QED
    BY <1>2, <1>5, <2>1 DEF BeginProgressToClosed
<1>6. CASE \/ BeginApproveQuote(w, o) \/ BeginDeclineQuote(w, o)
           \/ BeginCancelOrder(w, o) \/ BeginSubmitForApproval(w, o)
           \/ BeginAdminApproveQuote(w, o) \/ BeginReturnToLogistics(w, o)
           \/ BeginMarkAsNoCost(w, o) \/ BeginCompleteOutbound(w, o)
  BY <1>2, <1>6 DEF BeginApproveQuote, BeginDeclineQuote, BeginCancelOrder,
      BeginSubmitForApproval, BeginAdminApproveQuote, BeginReturnToLogistics,
      BeginMarkAsNoCost, BeginCompleteOutbound, StuckStatuses
<1> QED
  BY <1>1, <1>3, <1>4, <1>5, <1>6 DEF Begin

LEMMA CronRInv ==
    ASSUME TypeOK, RInv, NEW o \in Orders, CronBegin(o)
    PROVE  RInv'
<1>1. ASSUME NEW r, job' = [job EXCEPT ![Cron] = r], r.op # "submit", r.order = o, r.to # "NONE",
             status[o] # "NONE", UNCHANGED <<status, booking>>, expireList' \subseteq expireList
      PROVE  RInv'
  BY <1>1, OrderActorsType, OtherJob
<1>2. CASE BeginEventStart(o) \/ BeginEventEnd(o)
  <2>1. PICK to \in {"IN_USE", "AWAITING_RETURN"} : Start(Cron, "eventDates", "status", o, "flip", to)
    BY <1>2 DEF BeginEventStart, BeginEventEnd
  <2> DEFINE r == [Idle EXCEPT !.op = "status", !.order = o, !.step = "flip", !.read = status[o], !.to = to]
  <2>2. r.op = "status" /\ r.order = o /\ r.to # "NONE"
    BY DEF Idle
  <2>3. /\ job' = [job EXCEPT ![Cron] = r] /\ UNCHANGED <<status, booking, expireList>>
        /\ status[o] # "NONE"
    BY <1>2, <2>1 DEF BeginEventStart, BeginEventEnd, Start, invVars
  <2> HIDE DEF r
  <2> QED
    BY <1>1, <2>2, <2>3
<1>3. CASE BeginExpire(o)
  <2> DEFINE r == [Idle EXCEPT !.op = "expire", !.order = o, !.step = "sum", !.read = status[o],
                               !.to = "CANCELLED"]
  <2>1. r.op = "expire" /\ r.order = o /\ r.to # "NONE"
    BY DEF Idle
  <2>2. /\ job' = [job EXCEPT ![Cron] = r] /\ UNCHANGED <<status, booking>>
        /\ expireList' \subseteq expireList /\ status[o] # "NONE"
    BY <1>3 DEF BeginExpire, invVars, RInv, NoRowsBeforeOrder
  <2> HIDE DEF r
  <2> QED
    BY <1>1, <2>1, <2>2
<1> QED
  BY <1>2, <1>3 DEF CronBegin

\* What an insert and a delete leave of an order's rows.
LEMMA InsertedIsNeed ==
    ASSUME TypeOK, NEW o \in Orders, InsertRows(o), booking[o] = NoQty
    PROVE  booking' = [booking EXCEPT ![o] = Need[o]]
<1>1. [a \in Assets |-> IF Need[o][a] > 0 THEN Need[o][a] ELSE booking[o][a]] = Need[o]
  BY OrdersType, NeedType DEF NoQty
<1> QED
  BY <1>1 DEF InsertRows

LEMMA NoRowsIsNoQty ==
    ASSUME TypeOK, NEW o \in Orders, ~HasRows(o)
    PROVE  booking[o] = NoQty
BY OrdersType DEF HasRows, NoQty, TypeOK, InvTypeOK

\* A handler ends or goes on after it changed its own order and nothing else.
LEMMA OwnOrder ==
    ASSUME TypeOK, RInv, NEW w \in OrderActors, NEW o \in Orders, job[w].order = o,
           NEW r, job' = [job EXCEPT ![w] = r], r.op # "submit",
           r.step # "idle" => r.to # "NONE" /\ r.order = o, r.order \in {Nobody, o},
           NEW s, s # "NONE", status' = [status EXCEPT ![o] = s],
           NEW q \in {NoQty, Need[o]}, booking' = [booking EXCEPT ![o] = q],
           UNCHANGED expireList
    PROVE  RInv'
<1>1. job'[w] = r /\ \A v \in OrderActors : v # w => job'[v] = job[v]
  BY DEF TypeOK
<1>2. status'[o] = s /\ \A x \in Orders : x # o => status'[x] = status[x] /\ booking'[x] = booking[x]
  BY OrdersType DEF TypeOK, InvTypeOK
<1>3. NewOrderAlone'
  <2> SUFFICES ASSUME NEW v \in OrderActors, job'[v].op = "submit"
               PROVE  /\ job'[v].step \in {"lock", "book"}
                      /\ status'[job'[v].order] = "NONE"
                      /\ \A u \in OrderActors : u # v => job'[u].order # job'[v].order
    BY DEF NewOrderAlone
  <2>1. v # w /\ job'[v] = job[v]
    BY <1>1
  <2>2. /\ job[v].step \in {"lock", "book"} /\ status[job[v].order] = "NONE"
        /\ \A u \in OrderActors : u # v => job[u].order # job[v].order
    BY <2>1 DEF RInv, NewOrderAlone
  <2>3. job[v].order \in Orders /\ job[v].order # o
    BY <2>1, <2>2 DEF TypeOK
  <2> QED
    BY <1>1, <1>2, <2>1, <2>2, <2>3, OrdersType
<1>4. HandledOrderExists'
  <2> SUFFICES ASSUME NEW v \in OrderActors, job'[v].step # "idle"
               PROVE  /\ job'[v].to # "NONE"
                      /\ job'[v].op = "submit" \/ status'[job'[v].order] # "NONE"
    BY DEF HandledOrderExists
  <2>1. CASE v = w
    BY <1>1, <1>2, <2>1
  <2>2. CASE v # w
    BY <1>1, <1>2, <2>2 DEF RInv, HandledOrderExists, TypeOK
  <2> QED
    BY <2>1, <2>2
<1>5. NoRowsBeforeOrder'
  BY <1>2 DEF RInv, NoRowsBeforeOrder
<1>6. WholeOrNothing'
  BY OrdersType DEF RInv, WholeOrNothing, TypeOK, InvTypeOK
<1> QED
  BY <1>3, <1>4, <1>5, <1>6 DEF RInv

LEMMA ResumeRInv ==
    ASSUME TypeOK, RInv, NEW w \in OrderActors, Resume(w)
    PROVE  RInv'
<1>1. job[w].step # "idle" /\ job[w] \in Jobs
  <2>1. job[w].step # "idle"
    BY DEF Resume, At, LockAndCheck, BookSubmitted, BookApproved, Flip, TakeOrderRow, SumRows,
           ReleaseAndFlip, WriteOffRejected, CloseDeleteRows, CloseRestore
  <2> QED
    BY <2>1 DEF TypeOK
<1>2. PICK o \in Orders : o = job[w].order
  BY <1>1 DEF TypeOK
<1>3. /\ job[w].to # "NONE" /\ o # Nobody
      /\ job[w].op # "submit" => status[o] # "NONE"
      /\ job[w].op = "submit" => job[w].step \in {"lock", "book"} /\ status[o] = "NONE"
  BY <1>1, <1>2, OrdersType DEF RInv, HandledOrderExists, NewOrderAlone
<1>4. /\ Idle.op # "submit" /\ Idle.step = "idle" /\ Idle.order = Nobody
  BY DEF Idle
<1>5. ASSUME Finish(w), UNCHANGED <<status, booking, expireList>>
      PROVE  RInv'
  BY <1>4, <1>5, OtherJob DEF Finish
<1>6. ASSUME NEW r, job' = [job EXCEPT ![w] = r], r.op = job[w].op, r.order = o,
             r.to = job[w].to, job[w].op # "submit", UNCHANGED <<status, booking, expireList>>
      PROVE  RInv'
  BY <1>3, <1>6, OtherJob
<1>7. CASE LockAndCheck(w)
  <2>1. CASE ~Fits(Item(w))
    BY <1>5, <1>7, <2>1 DEF LockAndCheck
  <2>2. CASE Fits(Item(w))
    <3> DEFINE seen == [a \in Assets |->
                           IF a \in Items(Item(w)) THEN WindowAvailable(Item(w), a) ELSE 0]
               r == [job[w] EXCEPT !.step = "book", !.seen = seen]
    <3>1. job' = [job EXCEPT ![w] = r] /\ UNCHANGED <<status, booking, expireList>>
      BY <1>7, <2>2 DEF LockAndCheck, TypeOK
    <3>2. /\ r.op = job[w].op /\ r.order = o /\ r.to = job[w].to /\ r.step = "book"
      <4> HIDE DEF seen
      <4> QED
        BY <1>1, <1>2 DEF Jobs
    <3> HIDE DEF r
    <3>3. CASE job[w].op # "submit"
      BY <1>6, <3>1, <3>2, <3>3
    <3>4. CASE job[w].op = "submit"
      <4>1. job'[w] = r /\ \A v \in OrderActors : v # w => job'[v] = job[v]
        BY <3>1 DEF TypeOK
      <4>2. NewOrderAlone'
        BY <1>2, <1>3, <3>1, <3>2, <3>4, <4>1 DEF RInv, NewOrderAlone
      <4>3. HandledOrderExists'
        BY <1>2, <1>3, <3>1, <3>2, <3>4, <4>1 DEF RInv, HandledOrderExists
      <4>4. NoRowsBeforeOrder' /\ WholeOrNothing'
        BY <3>1 DEF RInv, NoRowsBeforeOrder, WholeOrNothing
      <4> QED
        BY <4>2, <4>3, <4>4 DEF RInv
    <3> QED
      BY <3>3, <3>4
  <2> QED
    BY <2>1, <2>2
<1>8. CASE BookSubmitted(w)
  <2>1. booking' = [booking EXCEPT ![o] = Need[o]]
    <3>1. booking[o] = NoQty
      BY <1>2, <1>3, <1>8 DEF BookSubmitted, RInv, NoRowsBeforeOrder
    <3> QED
      BY <1>2, <1>8, <3>1, InsertedIsNeed DEF BookSubmitted, Item
  <2>2. /\ job' = [job EXCEPT ![w] = Idle] /\ status' = [status EXCEPT ![o] = job[w].to]
        /\ UNCHANGED expireList
    BY <1>2, <1>8 DEF BookSubmitted, Finish, Item
  <2> QED
    BY <1>2, <1>3, <1>4, <2>1, <2>2, OwnOrder
<1>9. ASSUME NEW step, NEW seen, NEW q \in {NoQty, Need[o]},
             job' = [job EXCEPT ![w] = [job[w] EXCEPT !.step = step, !.seen = seen]],
             booking' = [booking EXCEPT ![o] = q], job[w].op # "submit",
             UNCHANGED <<status, expireList>>
      PROVE  RInv'
  <2> DEFINE r == [job[w] EXCEPT !.step = step, !.seen = seen]
  <2>1. r.op = job[w].op /\ r.order = o /\ r.to = job[w].to
    BY <1>1, <1>2 DEF Jobs
  <2>2. status' = [status EXCEPT ![o] = status[o]]
    BY <1>9 DEF TypeOK
  <2> HIDE DEF r
  <2> QED
    BY <1>2, <1>3, <1>9, <2>1, <2>2, OwnOrder DEF r
<1>10. booking = [booking EXCEPT ![o] = booking[o]] /\ booking[o] \in {NoQty, Need[o]}
  BY OrdersType DEF TypeOK, InvTypeOK, RInv, WholeOrNothing
<1>11. CASE BookApproved(w)
  <2>1. job[w].op # "submit" /\ UNCHANGED <<status, expireList>>
    BY <1>11 DEF BookApproved
  <2>2. job' = [job EXCEPT ![w] = [job[w] EXCEPT !.step = "flip", !.seen = job[w].seen]]
    BY <1>1, <1>11 DEF BookApproved, GoTo, TypeOK, Jobs
  <2>3. CASE HasRows(o)
    BY <1>2, <1>9, <1>10, <1>11, <2>1, <2>2, <2>3 DEF BookApproved, Item
  <2>4. CASE ~HasRows(o)
    <3>1. booking' = [booking EXCEPT ![o] = Need[o]]
      BY <1>2, <1>11, <2>4, NoRowsIsNoQty, InsertedIsNeed DEF BookApproved, Item
    <3> QED
      BY <1>9, <2>1, <2>2, <3>1
  <2> QED
    BY <2>3, <2>4
<1>12. CASE Flip(w)
  <2>1. /\ job' = [job EXCEPT ![w] = Idle] /\ status' = [status EXCEPT ![o] = job[w].to]
        /\ booking' = [booking EXCEPT ![o] = booking[o]] /\ UNCHANGED expireList
    BY <1>2, <1>10, <1>12 DEF Flip, Finish, Item, invVars
  <2> QED
    BY <1>2, <1>3, <1>4, <1>10, <2>1, OwnOrder
<1>13. CASE TakeOrderRow(w) \/ SumRows(w)
  <2>1. job[w].op # "submit"
    BY <1>3, <1>13 DEF TakeOrderRow, SumRows, At
  <2>2. UNCHANGED <<status, booking, expireList>>
    BY <1>13 DEF TakeOrderRow, SumRows, invVars
  <2>3. \E step, seen : job' = [job EXCEPT ![w] = [job[w] EXCEPT !.step = step, !.seen = seen]]
    <3>1. CASE TakeOrderRow(w)
      <4>1. job' = [job EXCEPT ![w] = [job[w] EXCEPT !.step = "sum", !.seen = job[w].seen]]
        BY <1>1, <3>1 DEF TakeOrderRow, GoTo, TypeOK, Jobs
      <4> QED
        BY <4>1
    <3>2. CASE SumRows(w)
      <4>1. job' = [job EXCEPT ![w] = [job[w] EXCEPT
                      !.step = IF job[w].op = "close" THEN "delete" ELSE "apply",
                      !.seen = booking[o]]]
        BY <1>1, <1>2, <3>2 DEF SumRows, TypeOK, Jobs, Item
      <4> QED
        BY <4>1
    <3> QED
      BY <1>13, <3>1, <3>2
  <2> QED
    BY <1>9, <1>10, <2>1, <2>2, <2>3
<1>14. CASE ReleaseAndFlip(w)
  <2>1. /\ job' = [job EXCEPT ![w] = Idle] /\ status' = [status EXCEPT ![o] = job[w].to]
        /\ booking' = [booking EXCEPT ![o] = NoQty] /\ UNCHANGED expireList
    BY <1>2, <1>14 DEF ReleaseAndFlip, Finish, Item, DeleteRows, NoQty
  <2> QED
    BY <1>2, <1>3, <1>4, <2>1, OwnOrder
<1>15. CASE WriteOffRejected(w)
  BY <1>5, <1>15 DEF WriteOffRejected, invVars
<1>16. CASE CloseDeleteRows(w)
  <2>1. job[w].op # "submit"
    BY <1>3, <1>16 DEF CloseDeleteRows, At
  <2>2. /\ booking' = [booking EXCEPT ![o] = NoQty] /\ UNCHANGED <<status, expireList>>
    BY <1>2, <1>16 DEF CloseDeleteRows, Item, DeleteRows, NoQty
  <2> DEFINE step == IF job[w].seen = NoQty THEN "flip" ELSE "restore"
  <2>3. job' = [job EXCEPT ![w] = [job[w] EXCEPT !.step = step, !.seen = job[w].seen]]
    BY <1>1, <1>16 DEF CloseDeleteRows, GoTo, TypeOK, Jobs
  <2> QED
    BY <1>9, <2>1, <2>2, <2>3
<1>17. CASE \E a \in Assets : CloseRestore(w, a)
  <2>1. PICK a \in Assets : CloseRestore(w, a)
    BY <1>17
  <2>2. job[w].op # "submit" /\ UNCHANGED <<status, booking, expireList>>
    BY <1>3, <2>1 DEF CloseRestore, At
  <2> DEFINE rest == [job[w].seen EXCEPT ![a] = 0]
             step == IF rest = NoQty THEN "flip" ELSE "restore"
  <2>3. job' = [job EXCEPT ![w] = [job[w] EXCEPT !.step = step, !.seen = rest]]
    BY <1>1, <2>1 DEF CloseRestore, TypeOK, Jobs
  <2> QED
    BY <1>9, <1>10, <2>2, <2>3
<1> QED
  BY <1>7, <1>8, <1>11, <1>12, <1>13, <1>14, <1>15, <1>16, <1>17 DEF Resume

LEMMA NextRInv ==
    ASSUME TypeOK, RInv, [Next]_vars
    PROVE  RInv'
<1>1. CASE \E w \in Workers, o \in Orders : Begin(w, o)
  BY <1>1, BeginRInv DEF Workers
<1>2. CASE \E o \in Orders : CronBegin(o)
  BY <1>2, CronRInv
<1>3. CASE \E w \in OrderActors : Resume(w)
  BY <1>3, ResumeRInv
<1>4. ASSUME NEW w \in OrderActors, Abort(w)
      PROVE  RInv'
  <2>1. Idle.op # "submit" /\ Idle.step = "idle" /\ Idle.order = Nobody
    BY DEF Idle
  <2>2. /\ job' = [job EXCEPT ![w] = Idle] /\ UNCHANGED <<status, booking>>
        /\ expireList' \subseteq expireList
    BY <1>4 DEF Abort, Finish
  <2> QED
    BY <2>1, <2>2, OtherJob
<1>5. CASE ListStuckQuotes
  <2>1. \A o \in expireList' : status[o] # "NONE"
    BY <1>5 DEF ListStuckQuotes, Stuck, StuckStatuses
  <2> QED
    BY <1>5, <2>1 DEF ListStuckQuotes, invVars, RInv, NewOrderAlone, HandledOrderExists,
        NoRowsBeforeOrder, WholeOrNothing
<1>6. CASE \/ Tick \/ UNCHANGED vars
           \/ \E o \in Orders, a \in Assets : \E q \in 1 .. Need[o][a] : InboundScan(o, a, q)
  <2>1. UNCHANGED <<status, booking, job, expireList>>
    BY <1>6 DEF Tick, InboundScan, vars, orderVars, invVars
  <2> QED
    BY <2>1 DEF RInv, NewOrderAlone, HandledOrderExists, NoRowsBeforeOrder, WholeOrNothing
<1> QED
  BY <1>1, <1>2, <1>3, <1>4, <1>5, <1>6 DEF Next

LEMMA InitRInv == Init => RInv
BY OrdersType DEF Init, InvInit, Idle, RInv, NewOrderAlone, HandledOrderExists, NoRowsBeforeOrder,
       WholeOrNothing, NoQty

\* Each step of the engine is a grant, an ending, or nothing to the desk.
LEMMA StepImplementsDesk ==
    ASSUME IInv, RInv, [Next]_vars
    PROVE  [Desk!Next]_<<booking, total>>
<1>1. TypeOK /\ TypeOK' /\ CheckStaysGood
  BY NextType DEF IInv
<1>2. ASSUME NEW w \in OrderActors, NEW o \in Orders, o = Item(w), At(w, "book"), InsertRows(o),
             UNCHANGED total, job[w].op = "submit" \/ ~HasRows(o)
      PROVE  Desk!Grant(o)
  <2>1. booking[o] = NoQty
    <3>1. CASE job[w].op = "submit"
      BY <1>2, <3>1 DEF RInv, NewOrderAlone, NoRowsBeforeOrder, Item
    <3>2. CASE ~HasRows(o)
      BY <1>1, <3>2, NoRowsIsNoQty
    <3> QED
      BY <1>2, <3>1, <3>2
  <2>2. booking' = [booking EXCEPT ![o] = Need[o]]
    BY <1>1, <1>2, <2>1, InsertedIsNeed
  <2>3. ASSUME NEW a \in Assets, Need[o][a] > 0, NEW t \in Desk!DaysOf(o, a)
        PROVE  Desk!Promised(a, t)' <= total[a]
    <3>1. a \in Items(o) /\ t \in Window[o][a].from .. Window[o][a].until
      BY <2>3 DEF Items, Desk!DaysOf
    <3>2. Committed(a, t)' <= total[a]
      BY <1>1, <1>2, <3>1, GrantFits
    <3>3. Desk!Promised(a, t)' = Committed(a, t)'
      BY DEF Desk!Promised, Desk!DaysOf, Desk!Cardinality, Cardinality,
             Committed, Booked, Units, Covering
    <3> QED
      BY <3>2, <3>3
  <2> QED
    BY <1>2, <2>1, <2>2, <2>3 DEF Desk!Grant, Desk!Nothing, NoQty
<1>3. ASSUME NEW o \in Orders, DeleteRows(o), \A a \in Assets : total'[a] <= total[a]
      PROVE  Desk!Free(o)
  BY <1>1, <1>3 DEF Desk!Free, Desk!Nothing, DeleteRows, TypeOK, InvTypeOK
<1> QED
  BY <1>1, <1>2, <1>3, StepKinds, OrdersType DEF Desk!Next

\* The handlers with their locks, retries and crashes do only what the ideal
\* reservation desk may do.
THEOREM EngineImplementsDesk == Spec => ImplementsReservation
<1>1. Init => Desk!Init
  BY DEF Init, InvInit, Desk!Init, Desk!Nothing
<1>2. IInv /\ RInv /\ [Next]_vars => [Desk!Next]_<<booking, total>>
  BY StepImplementsDesk
<1>3. Init => RInv
  BY InitRInv
<1>4. IInv /\ RInv /\ [Next]_vars => RInv'
  BY NextRInv DEF IInv
<1> QED
  BY <1>1, <1>2, <1>3, <1>4, BookingInvariant, PTL DEF Spec, ImplementsReservation, Desk!Spec

\* An order holds all its items or none of them.
THEOREM HoldsAllOrNothing == Spec => []AllOrNothing
<1>1. IInv /\ RInv => AllOrNothing
  BY OrdersType DEF RInv, WholeOrNothing, AllOrNothing, HasRows, NoQty
<1>2. Init => RInv
  BY InitRInv
<1>3. IInv /\ RInv /\ [Next]_vars => RInv'
  BY NextRInv DEF IInv
<1> QED
  BY <1>1, <1>2, <1>3, BookingInvariant, PTL DEF Spec

------------------------------------------------------------------------------
(* Self-pickups: type correctness.                                         *)

PickupJobsOK ==
    /\ pickupJob \in [PickupActors -> PickupJobs]
    /\ \A w \in PickupActors : pickupJob[w].step # "idle" => pickupJob[w].pickup \in Pickups

LEMMA PickupJobUpdate ==
    ASSUME PickupTypeOK, NEW w \in PickupActors, NEW r \in PickupJobs,
           r.step # "idle" => r.pickup \in Pickups,
           pickupJob' = [pickupJob EXCEPT ![w] = r]
    PROVE  PickupJobsOK'
BY DEF PickupTypeOK, PickupJobsOK

LEMMA PickupIdleIsJob ==
    /\ PickupIdle \in PickupJobs /\ PickupIdle.step = "idle" /\ PickupIdle.op = "idle"
    /\ PickupIdle.pickup = Nobody
BY DEF PickupIdle, PickupJobs, PickupOps, PickupSteps, PickupStatuses, NoItems, NoQty, Lines

LEMMA JobForType ==
    ASSUME NEW op \in PickupOps, NEW p \in Pickups, NEW step \in PickupSteps,
           NEW to \in PickupStatuses, NEW j, j = JobFor(op, p, step, to)
    PROVE  /\ j \in PickupJobs
           /\ j.op = op /\ j.pickup = p /\ j.step = step /\ j.to = to
           /\ j.seen = NoQty /\ j.short = NoQty
<1>1. PickupIdle \in PickupJobs
  BY PickupIdleIsJob
<1>2. PickupIdle.seen = NoQty /\ PickupIdle.short = NoQty
  BY DEF PickupIdle
<1> HIDE DEF PickupIdle
<1> QED
  BY <1>1, <1>2 DEF JobFor, PickupJobs

\* A handler starts on a pickup: the job it is given.
LEMMA BeginPickupJob ==
    ASSUME PickupTypeOK, NEW w \in PickupActors, NEW request, NEW j \in PickupJobs,
           j.pickup \in Pickups, BeginPickup(w, request, j)
    PROVE  \E r \in PickupJobs :
               /\ pickupJob' = [pickupJob EXCEPT ![w] = r]
               /\ r.pickup = j.pickup /\ r.read = pickupStatus[j.pickup]
               /\ r.op = j.op /\ r.step = j.step /\ r.to = j.to /\ r.seen = j.seen
               /\ r.count = j.count /\ r.rows = j.rows /\ r.short = j.short
<1> DEFINE r == [j EXCEPT !.read = pickupStatus[j.pickup]]
<1>1. pickupJob' = [pickupJob EXCEPT ![w] = r]
  BY DEF BeginPickup
<1>2. /\ r \in PickupJobs /\ r.pickup = j.pickup /\ r.read = pickupStatus[j.pickup]
      /\ r.op = j.op /\ r.step = j.step /\ r.to = j.to /\ r.seen = j.seen
      /\ r.count = j.count /\ r.rows = j.rows /\ r.short = j.short
  BY DEF PickupTypeOK, PickupJobs
<1> HIDE DEF r
<1> QED
  BY <1>1, <1>2

\* The row sums of an asset are numbers.
LEMMA RowSumType ==
    ASSUME NEW r \in [Lines -> [Assets -> Nat]]
    PROVE  /\ RowSum(r) \in [Assets -> Nat]
           /\ \A a \in Assets : RowSum(r)[a] = r["first"][a] + r["second"][a] + r["added"][a]
<1>1. {"first", "second", "added"} \subseteq Lines
  BY DEF Lines, CartLines
<1>2. \A l \in {"first", "second", "added"}, a \in Assets : r[l][a] \in Nat
  BY <1>1
<1> QED
  BY <1>2 DEF RowSum

\* The types of what a handler takes along from the rows of its pickup.
LEMMA RowsTaken ==
    ASSUME PickupTypeOK, NEW p \in Pickups
    PROVE  /\ scanned[p] \in [Assets -> Nat] /\ pickupReturned[p] \in [Assets -> Nat]
           /\ items[p] \in [Lines -> [Assets -> Nat]]
           /\ RowSum(ShortRows(p)) \in [Assets -> Nat]
           /\ \A a \in Assets, q \in Nat : Only(a, q) \in [Assets -> Nat]
<1>1. /\ scanned[p] \in [Assets -> Nat] /\ pickupReturned[p] \in [Assets -> Nat]
      /\ items[p] \in [Lines -> [Assets -> Nat]]
      /\ collected[p] \in [Lines -> [Assets -> Nat]]
  BY DEF PickupTypeOK
<1>2. \A a \in Assets, l \in Lines : ShortOf(p, l, a) \in Nat
  BY <1>1 DEF ShortOf, AtLeastZero
<1>3. ShortRows(p) \in [Lines -> [Assets -> Nat]]
  BY <1>2 DEF ShortRows
<1> QED
  BY <1>1, <1>3, RowSumType DEF Only

\* The first job of each handler, with what it found when it read the pickup.
SubmitStarts(p, r) ==
    /\ r.op = "submit" /\ r.step = "gate" /\ r.to = "PRICING_REVIEW"
    /\ pickupStatus[p] = "NONE" /\ \A v \in PickupActors : pickupJob[v].pickup # p
CancelStarts(p, r) ==
    /\ r.op = "cancel" /\ r.step = "sum" /\ r.to = "CANCELLED"
    /\ pickupStatus[p] \in CancellableStatuses
DeclineStarts(p, r) ==
    /\ r.op = "decline" /\ r.step = "sum" /\ r.to = "DECLINED"
    /\ pickupStatus[p] = "QUOTED"
NoCostStarts(p, r) ==
    /\ r.op = "noCost" /\ r.step = "noCost" /\ r.to = "CONFIRMED"
    /\ pickupStatus[p] \in {"PRICING_REVIEW", "PENDING_APPROVAL"}
PickupMoves == {<<"PRICING_REVIEW", "PENDING_APPROVAL">>, <<"PENDING_APPROVAL", "QUOTED">>,
                <<"CONFIRMED", "READY_FOR_PICKUP">>, <<"PICKED_UP", "AWAITING_RETURN">>,
                <<"QUOTED", "CONFIRMED">>, <<"PENDING_APPROVAL", "PRICING_REVIEW">>}
StatusStarts(p, r) ==
    /\ r.op = "status" /\ r.step = "flip" /\ <<pickupStatus[p], r.to>> \in PickupMoves
HandoverStarts(p, r) ==
    /\ r.op = "handover" /\ r.to = "PICKED_UP" /\ pickupStatus[p] = "READY_FOR_PICKUP"
    /\ r.step = IF IsPartial(scanned[p], items[p]) THEN "sum" ELSE "hand"
    /\ r.count = scanned[p] /\ r.rows = items[p] /\ r.seen = NoQty
CompleteStarts(p, r) ==
    /\ r.op = "complete" /\ r.step = "sum" /\ r.to = "CLOSED"
    /\ pickupStatus[p] = "AWAITING_RETURN"
    /\ r.count = pickupReturned[p] /\ r.rows = items[p]
    /\ r.short = RowSum(ShortRows(p))
AddStarts(p, r) ==
    /\ r.op = "add" /\ r.step = "check"
    /\ pickupStatus[p] \in {"CONFIRMED", "READY_FOR_PICKUP"} /\ HasRows(p)
    /\ \E a \in Assets : \E q \in 1 .. MaxAdd[a] :
           r.seen = Only(a, q) /\ items[p]["added"][a] = 0
ScanOutStarts(p, r) ==
    /\ r.op = "scanOut" /\ r.step = "scan" /\ pickupStatus[p] = "READY_FOR_PICKUP"
    /\ r.count = scanned[p]
    /\ \E a \in ItemsOf(p) : \E q \in ScanSizes(a) :
           r.seen = Only(a, q) /\ scanned[p][a] + q <= items[p][FirstLine(p, a)][a]
ScanInStarts(p, r) ==
    /\ r.op = "scanIn" /\ r.step = "scan" /\ pickupStatus[p] = "AWAITING_RETURN"
    /\ r.count = pickupReturned[p]
    /\ \E a \in Assets : \E q \in ScanSizes(a) : r.seen = Only(a, q)

PickupStarts(p, r) ==
    \/ SubmitStarts(p, r) \/ CancelStarts(p, r) \/ DeclineStarts(p, r) \/ NoCostStarts(p, r)
    \/ StatusStarts(p, r) \/ HandoverStarts(p, r) \/ CompleteStarts(p, r) \/ AddStarts(p, r)
    \/ ScanOutStarts(p, r) \/ ScanInStarts(p, r)

LEMMA SizesAreNumbers ==
    ASSUME NEW a \in Assets
    PROVE  MaxAdd[a] \in Nat /\ ScanSizes(a) \subseteq Nat /\ 1 .. MaxAdd[a] \subseteq Nat
<1>1. MaxAdd[a] \in Nat /\ Stock[a] \in Nat
  BY MaxAddType, StockType
<1> QED
  BY <1>1 DEF ScanSizes

\* The first step of a handler changes nothing but its job.
LEMMA BeginIsLocal ==
    ASSUME NEW w, NEW p, BeginAnyPickup(w, p)
    PROVE  /\ pickupJob[w] = PickupIdle
           /\ UNCHANGED <<invVars, pickupStatus, noCost, items, collected, scanned,
                          pickupReturned, pickupExpire, dueList, today, overtaken, halfDone>>
<1>1. ASSUME NEW request, NEW j, BeginPickup(w, request, j)
      PROVE  UNCHANGED <<invVars, pickupStatus, noCost, items, collected, scanned,
                         pickupReturned, pickupExpire, dueList, today, overtaken, halfDone>>
  BY <1>1 DEF BeginPickup, rows, cronLists, calendar
<1>2. pickupJob[w] = PickupIdle
  BY DEF BeginAnyPickup
<1>3. \E request, j : BeginPickup(w, request, j)
  BY DEF BeginAnyPickup, BeginPickupSubmit, BeginCancel, BeginDecline, BeginPickupNoCost,
         BeginPickupReturnToLogistics, BeginStaffTransition, BeginClientApproveQuote,
         BeginTransition, BeginHandover, BeginCompleteReturn, BeginAdd, BeginOutboundScan,
         BeginInboundScan
<1> QED
  BY <1>1, <1>2, <1>3

\* w starts on p with job r.
Starts(w, p, r) ==
    /\ pickupJob' = [pickupJob EXCEPT ![w] = r]
    /\ r.pickup = p /\ r.read = pickupStatus[p]

\* The job that each handler starts with.
LEMMA BeginFacts ==
    ASSUME PickupTypeOK, NEW w \in PickupActors, NEW p \in Pickups, BeginAnyPickup(w, p)
    PROVE  \E r \in PickupJobs : Starts(w, p, r) /\ PickupStarts(p, r)
<1>1. /\ {"submit", "cancel", "decline", "complete", "handover", "noCost", "add", "scanOut",
          "scanIn", "status"} \subseteq PickupOps
      /\ {"gate", "sum", "hand", "noCost", "check", "scan", "flip"} \subseteq PickupSteps
      /\ {"NONE", "PRICING_REVIEW", "PENDING_APPROVAL", "QUOTED", "DECLINED", "CONFIRMED",
          "READY_FOR_PICKUP", "PICKED_UP", "AWAITING_RETURN", "CLOSED", "CANCELLED"}
            \subseteq PickupStatuses
  BY DEF PickupOps, PickupSteps, PickupStatuses
<1> DEFINE Fact == \E r \in PickupJobs : Starts(w, p, r) /\ PickupStarts(p, r)
           Given(j) == \E r \in PickupJobs :
                           /\ Starts(w, p, r)
                           /\ r.op = j.op /\ r.step = j.step /\ r.to = j.to /\ r.seen = j.seen
                           /\ r.count = j.count /\ r.rows = j.rows /\ r.short = j.short
<1>2. ASSUME NEW request, NEW op \in PickupOps, NEW step \in PickupSteps,
             NEW to \in PickupStatuses, BeginPickup(w, request, JobFor(op, p, step, to))
      PROVE  \E r \in PickupJobs : /\ Starts(w, p, r)
                                   /\ r.op = op /\ r.step = step /\ r.to = to
  <2> DEFINE j == JobFor(op, p, step, to)
  <2>1. j \in PickupJobs /\ j.op = op /\ j.pickup = p /\ j.step = step /\ j.to = to
    BY JobForType
  <2>2. BeginPickup(w, request, j)
    BY <1>2
  <2> HIDE DEF j
  <2> QED
    BY <2>1, <2>2, BeginPickupJob DEF Starts
<1>3. CASE \/ BeginPickupSubmit(w, p) \/ BeginCancel(w, p) \/ BeginDecline(w, p)
           \/ BeginPickupNoCost(w, p)
  <2>1. CASE BeginPickupSubmit(w, p)
    <3>1. \E r \in PickupJobs : Starts(w, p, r) /\ SubmitStarts(p, r)
      BY <1>1, <1>2, <2>1 DEF BeginPickupSubmit, SubmitStarts
    <3> QED
      BY <3>1 DEF PickupStarts
  <2>2. CASE BeginCancel(w, p)
    <3>1. \E r \in PickupJobs : Starts(w, p, r) /\ CancelStarts(p, r)
      BY <1>1, <1>2, <2>2 DEF BeginCancel, CancelStarts
    <3> QED
      BY <3>1 DEF PickupStarts
  <2>3. CASE BeginDecline(w, p)
    <3>1. \E r \in PickupJobs : Starts(w, p, r) /\ DeclineStarts(p, r)
      BY <1>1, <1>2, <2>3 DEF BeginDecline, DeclineStarts
    <3> QED
      BY <3>1 DEF PickupStarts
  <2>4. CASE BeginPickupNoCost(w, p)
    <3>1. \E r \in PickupJobs : Starts(w, p, r) /\ NoCostStarts(p, r)
      BY <1>1, <1>2, <2>4 DEF BeginPickupNoCost, NoCostStarts
    <3> QED
      BY <3>1 DEF PickupStarts
  <2>5. Fact
    BY <1>3, <2>1, <2>2, <2>3, <2>4
  <2> QED
    BY <2>5
<1>4. ASSUME NEW request, NEW from, NEW to \in PickupStatuses,
             BeginTransition(w, request, p, {from}, to), <<from, to>> \in PickupMoves
      PROVE  Fact
  <2>1. \E r \in PickupJobs : Starts(w, p, r) /\ StatusStarts(p, r)
    BY <1>1, <1>2, <1>4 DEF BeginTransition, StatusStarts
  <2> QED
    BY <2>1 DEF PickupStarts
<1>5. CASE \/ BeginPickupReturnToLogistics(w, p) \/ BeginStaffTransition(w, p)
           \/ BeginClientApproveQuote(w, p)
  <2>1. Fact
    <3> HIDE DEF Fact
    <3> QED
      BY <1>1, <1>4, <1>5 DEF BeginPickupReturnToLogistics, BeginStaffTransition,
          BeginClientApproveQuote, PickupMoves
  <2> QED
    BY <2>1
<1>6. CASE BeginHandover(w, p)
  <2> DEFINE step == IF IsPartial(scanned[p], items[p]) THEN "sum" ELSE "hand"
             k == JobFor("handover", p, step, "PICKED_UP")
             j == [k EXCEPT !.count = scanned[p], !.rows = items[p]]
  <2>1. step \in PickupSteps
    BY <1>1
  <2>2. /\ k \in PickupJobs /\ k.pickup = p /\ k.op = "handover" /\ k.step = step
        /\ k.to = "PICKED_UP" /\ k.seen = NoQty
    <3> HIDE DEF step
    <3> QED
      BY <1>1, <2>1, JobForType
  <2>3. /\ j \in PickupJobs /\ j.pickup = p /\ j.op = "handover" /\ j.step = step
        /\ j.to = "PICKED_UP" /\ j.seen = NoQty /\ j.count = scanned[p] /\ j.rows = items[p]
    <3> HIDE DEF k, step
    <3> QED
      BY <2>2, RowsTaken DEF PickupJobs
  <2>4. BeginPickup(w, "handover", j) /\ pickupStatus[p] = "READY_FOR_PICKUP"
    BY <1>6 DEF BeginHandover
  <2>5. Given(j)
    <3> HIDE DEF j
    <3> QED
      BY <2>3, <2>4, BeginPickupJob DEF Starts
  <2>6. Fact
    <3> HIDE DEF j
    <3> QED
      BY <2>3, <2>4, <2>5 DEF PickupStarts, HandoverStarts
  <2> QED
    BY <2>5, <2>6
<1>7. CASE BeginCompleteReturn(w, p)
  <2> DEFINE short == RowSum(ShortRows(p))
             k == JobFor("complete", p, "sum", "CLOSED")
             j == [k EXCEPT !.count = pickupReturned[p], !.rows = items[p], !.short = short]
  <2>1. k \in PickupJobs /\ k.pickup = p /\ k.op = "complete" /\ k.step = "sum" /\ k.to = "CLOSED"
    BY <1>1, JobForType
  <2>2. /\ j \in PickupJobs /\ j.pickup = p /\ j.op = "complete" /\ j.step = "sum"
        /\ j.to = "CLOSED" /\ j.count = pickupReturned[p] /\ j.rows = items[p]
        /\ j.short = short
    <3>1. short \in [Assets -> Nat]
      BY RowsTaken
    <3> HIDE DEF k, short
    <3> QED
      BY <2>1, <3>1, RowsTaken DEF PickupJobs
  <2>3. BeginPickup(w, "completeReturn", j) /\ pickupStatus[p] = "AWAITING_RETURN"
    BY <1>7 DEF BeginCompleteReturn
  <2>4. Given(j)
    <3> HIDE DEF j
    <3> QED
      BY <2>2, <2>3, BeginPickupJob DEF Starts
  <2>5. Fact
    <3> HIDE DEF j
    <3> QED
      BY <2>2, <2>3, <2>4 DEF PickupStarts, CompleteStarts
  <2> QED
    BY <2>4, <2>5
<1>8. ASSUME NEW request, NEW op \in PickupOps, NEW step \in PickupSteps, NEW a \in Assets,
             NEW q \in Nat, NEW j, j = [JobFor(op, p, step, "NONE") EXCEPT !.seen = Only(a, q)],
             BeginPickup(w, request, j)
      PROVE  \E r \in PickupJobs : /\ Starts(w, p, r)
                                   /\ r.op = op /\ r.step = step /\ r.seen = Only(a, q)
  <2> DEFINE k == JobFor(op, p, step, "NONE")
  <2>1. k \in PickupJobs /\ k.pickup = p /\ k.op = op /\ k.step = step
    BY <1>1, JobForType
  <2>2. j \in PickupJobs /\ j.pickup = p /\ j.op = op /\ j.step = step /\ j.seen = Only(a, q)
    <3>1. j = [k EXCEPT !.seen = Only(a, q)]
      BY <1>8
    <3> HIDE DEF k
    <3> QED
      BY <2>1, <3>1, RowsTaken DEF PickupJobs
  <2>3. BeginPickup(w, request, j)
    BY <1>8
  <2> QED
    BY <2>2, <2>3, BeginPickupJob DEF Starts
<1>9. CASE \E a \in Assets : \E q \in 1 .. MaxAdd[a] : BeginAdd(w, p, a, q)
  <2>1. PICK a \in Assets : \E q \in 1 .. MaxAdd[a] : BeginAdd(w, p, a, q)
    BY <1>9
  <2>2. PICK q \in 1 .. MaxAdd[a] : BeginAdd(w, p, a, q)
    BY <2>1
  <2>3. /\ BeginPickup(w, "addMidflow",
                       [JobFor("add", p, "check", "NONE") EXCEPT !.seen = Only(a, q)])
        /\ pickupStatus[p] \in {"CONFIRMED", "READY_FOR_PICKUP"} /\ HasRows(p)
        /\ items[p]["added"][a] = 0
    BY <2>2 DEF BeginAdd
  <2>4. a \in Assets /\ q \in Nat
    BY SizesAreNumbers
  <2>5. \E r \in PickupJobs : /\ Starts(w, p, r) /\ r.op = "add" /\ r.step = "check"
                             /\ r.seen = Only(a, q)
    <3> DEFINE j == [JobFor("add", p, "check", "NONE") EXCEPT !.seen = Only(a, q)]
    <3>1. \E request : BeginPickup(w, request, j)
      BY <2>3
    <3>2. j = [JobFor("add", p, "check", "NONE") EXCEPT !.seen = Only(a, q)]
      OBVIOUS
    <3> HIDE DEF j
    <3> QED
      BY <1>1, <1>8, <2>4, <3>1, <3>2
  <2>6. \E r \in PickupJobs : Starts(w, p, r) /\ AddStarts(p, r)
    BY <2>3, <2>4, <2>5 DEF AddStarts
  <2>7. Fact
    BY <2>6 DEF PickupStarts
  <2> QED
    BY <2>7
<1>10. CASE \E a \in Assets : \E q \in ScanSizes(a) : BeginOutboundScan(w, p, a, q)
  <2>1. PICK a \in Assets : \E q \in ScanSizes(a) : BeginOutboundScan(w, p, a, q)
    BY <1>10
  <2>2. PICK q \in ScanSizes(a) : BeginOutboundScan(w, p, a, q)
    BY <2>1
  <2>3. /\ BeginPickup(w, "outboundScan",
                       [JobFor("scanOut", p, "scan", "NONE") EXCEPT
                !.seen = Only(a, q), !.count = scanned[p]])
        /\ pickupStatus[p] = "READY_FOR_PICKUP" /\ a \in ItemsOf(p)
        /\ scanned[p][a] + q <= items[p][FirstLine(p, a)][a]
    BY <2>2 DEF BeginOutboundScan
  <2>4. a \in Assets /\ q \in Nat
    BY SizesAreNumbers DEF ItemsOf
  <2>5. \E r \in PickupJobs : /\ Starts(w, p, r) /\ r.op = "scanOut" /\ r.step = "scan"
                             /\ r.seen = Only(a, q) /\ r.count = scanned[p]
    <3> DEFINE k == JobFor("scanOut", p, "scan", "NONE")
               j == [k EXCEPT !.seen = Only(a, q), !.count = scanned[p]]
    <3>1. k \in PickupJobs /\ k.pickup = p /\ k.op = "scanOut" /\ k.step = "scan"
      BY <1>1, JobForType
    <3>2. /\ j \in PickupJobs /\ j.pickup = p /\ j.op = "scanOut" /\ j.step = "scan"
          /\ j.seen = Only(a, q) /\ j.count = scanned[p]
      <4> HIDE DEF k
      <4> QED
        BY <2>4, <3>1, RowsTaken DEF PickupJobs
    <3>3. \E request : BeginPickup(w, request, j)
      BY <2>3
    <3> HIDE DEF j
    <3> QED
      BY <3>2, <3>3, BeginPickupJob DEF Starts
  <2>6. \E r \in PickupJobs : Starts(w, p, r) /\ ScanOutStarts(p, r)
    BY <2>3, <2>4, <2>5 DEF ScanOutStarts
  <2>7. Fact
    BY <2>6 DEF PickupStarts
  <2> QED
    BY <2>7
<1>11. CASE \E a \in Assets : \E q \in ScanSizes(a) : BeginInboundScan(w, p, a, q)
  <2>1. PICK a \in Assets : \E q \in ScanSizes(a) : BeginInboundScan(w, p, a, q)
    BY <1>11
  <2>2. PICK q \in ScanSizes(a) : BeginInboundScan(w, p, a, q)
    BY <2>1
  <2>3. /\ BeginPickup(w, "inboundScan",
                       [JobFor("scanIn", p, "scan", "NONE") EXCEPT
                !.seen = Only(a, q), !.count = pickupReturned[p]])
        /\ pickupStatus[p] = "AWAITING_RETURN"
    BY <2>2 DEF BeginInboundScan
  <2>4. a \in Assets /\ q \in Nat
    BY SizesAreNumbers
  <2>5. \E r \in PickupJobs : /\ Starts(w, p, r) /\ r.op = "scanIn" /\ r.step = "scan"
                             /\ r.seen = Only(a, q) /\ r.count = pickupReturned[p]
    <3> DEFINE k == JobFor("scanIn", p, "scan", "NONE")
               j == [k EXCEPT !.seen = Only(a, q), !.count = pickupReturned[p]]
    <3>1. k \in PickupJobs /\ k.pickup = p /\ k.op = "scanIn" /\ k.step = "scan"
      BY <1>1, JobForType
    <3>2. /\ j \in PickupJobs /\ j.pickup = p /\ j.op = "scanIn" /\ j.step = "scan"
          /\ j.seen = Only(a, q) /\ j.count = pickupReturned[p]
      <4> HIDE DEF k
      <4> QED
        BY <2>4, <3>1, RowsTaken DEF PickupJobs
    <3>3. \E request : BeginPickup(w, request, j)
      BY <2>3
    <3> HIDE DEF j
    <3> QED
      BY <3>2, <3>3, BeginPickupJob DEF Starts
  <2>6. \E r \in PickupJobs : Starts(w, p, r) /\ ScanInStarts(p, r)
    BY <2>3, <2>4, <2>5 DEF ScanInStarts
  <2>7. Fact
    BY <2>6 DEF PickupStarts
  <2> QED
    BY <2>7
<1> QED
  BY <1>3, <1>5, <1>6, <1>7, <1>9, <1>10, <1>11 DEF BeginAnyPickup

LEMMA BeginAnyPickupType ==
    ASSUME PickupTypeOK, NEW w \in PickupActors, NEW p \in Pickups, BeginAnyPickup(w, p)
    PROVE  PickupTypeOK'
<1>1. PICK r \in PickupJobs : pickupJob' = [pickupJob EXCEPT ![w] = r] /\ r.pickup = p
  BY BeginFacts DEF Starts
<1>2. PickupJobsOK'
  BY <1>1, PickupJobUpdate
<1>3. UNCHANGED <<invVars, pickupStatus, noCost, items, collected, scanned,
                  pickupReturned, pickupExpire, dueList, today, overtaken, halfDone>>
  BY BeginIsLocal
<1> QED
  BY <1>2, <1>3 DEF PickupTypeOK, PickupJobsOK, InvTypeOK, invVars, CalendarTypeOK

\* A handler at a step after its first has its pickup, and ends or goes on.
LEMMA RunningPickup ==
    ASSUME PickupTypeOK, NEW w \in PickupActors, pickupJob[w].step # "idle"
    PROVE  /\ pickupJob[w] \in PickupJobs /\ On(w) \in Pickups /\ On(w) \in Holders
           /\ pickupJob[w].to \in PickupStatuses
           /\ pickupJob[w].seen \in [Assets -> Nat] /\ pickupJob[w].count \in [Assets -> Nat]
           /\ pickupJob[w].short \in [Assets -> Nat]
           /\ pickupJob[w].rows \in [Lines -> [Assets -> Nat]]
           /\ FinishPickup(w) => PickupJobsOK'
           /\ \A step \in PickupSteps : PickupGoTo(w, step) => PickupJobsOK'
<1>1. /\ pickupJob[w] \in PickupJobs /\ On(w) \in Pickups /\ On(w) \in Holders
  BY PickupsType DEF PickupTypeOK, On
<1>2. ASSUME FinishPickup(w)
      PROVE  PickupJobsOK'
  BY <1>2, PickupIdleIsJob, PickupJobUpdate DEF FinishPickup
<1>3. ASSUME NEW step \in PickupSteps, PickupGoTo(w, step)
      PROVE  PickupJobsOK'
  <2> DEFINE r == [pickupJob[w] EXCEPT !.step = step]
  <2>1. r \in PickupJobs /\ r.pickup \in Pickups
    BY <1>1 DEF PickupJobs, On
  <2>2. pickupJob' = [pickupJob EXCEPT ![w] = r]
    BY <1>3 DEF PickupGoTo, PickupTypeOK
  <2> HIDE DEF r
  <2> QED
    BY <2>1, <2>2, PickupJobUpdate
<1> QED
  BY <1>1, <1>2, <1>3 DEF PickupJobs

\* What a settlement gives back and leaves of the pool.
LEMMA PickupSettlementType ==
    ASSUME PickupTypeOK, NEW w \in PickupActors, pickupJob[w].step # "idle"
    PROVE  /\ PickupGivenBack(w) \in [Assets -> Nat]
           /\ PickupTotalAfter(w) \in [Assets -> Nat]
           /\ \A a \in Assets : PickupTotalAfter(w)[a] <= total[a]
<1>1. /\ pickupJob[w].seen \in [Assets -> Nat] /\ pickupJob[w].count \in [Assets -> Nat]
      /\ pickupJob[w].short \in [Assets -> Nat] /\ total \in [Assets -> Nat]
  BY RunningPickup DEF PickupTypeOK, InvTypeOK
<1> QED
  BY <1>1 DEF PickupGivenBack, PickupTotalAfter, AtMost, AtLeastZero

\* Each step of a running handler keeps the types.
LEMMA ResumePickupType ==
    ASSUME PickupTypeOK, NEW w \in PickupActors, ResumePickup(w)
    PROVE  PickupTypeOK'
<1> DEFINE p == On(w)
<1>1. pickupJob[w].step # "idle"
  BY DEF ResumePickup, PickupAt, Gate, Book, SumPickupRows, Release, Settle,
         PickupWriteOffRejected, Hand, NoCost, FlipPickup, Scan, CheckAdd, Add
<1>2. /\ pickupJob[w] \in PickupJobs /\ p \in Pickups /\ p \in Holders
      /\ pickupJob[w].to \in PickupStatuses
      /\ pickupJob[w].seen \in [Assets -> Nat] /\ pickupJob[w].count \in [Assets -> Nat]
      /\ pickupJob[w].short \in [Assets -> Nat]
      /\ pickupJob[w].rows \in [Lines -> [Assets -> Nat]]
      /\ FinishPickup(w) => PickupJobsOK'
      /\ \A step \in PickupSteps : PickupGoTo(w, step) => PickupJobsOK'
  BY <1>1, RunningPickup
<1>3. {"book", "hand", "release", "settle", "flip", "add"} \subseteq PickupSteps
  BY DEF PickupSteps
<1>4. InvTypeOK
  BY DEF PickupTypeOK
<1>5. CalendarTypeOK'
  BY <1>2 DEF ResumePickup, Gate, Book, SumPickupRows, Release, Settle, PickupWriteOffRejected,
      Hand, NoCost, FlipPickup, Scan, CheckAdd, Add, Overtake, calendar, CalendarTypeOK,
      PickupTypeOK
<1>6. ASSUME NEW f, f \in [Pickups -> [Assets -> Nat]]
      PROVE  [f EXCEPT ![p] = [a \in Assets |-> f[p][a] + pickupJob[w].seen[a]]]
                 \in [Pickups -> [Assets -> Nat]]
  BY <1>2, <1>6
<1>7. CASE Gate(w)
  <2>1. PickupJobsOK'
    BY <1>2, <1>3, <1>7 DEF Gate
  <2>2. assetLock' \in [Assets -> Actors \cup {Nobody}]
    BY <1>4, <1>7, LocksType, PickupActorsType DEF Gate, InvTypeOK
  <2> QED
    BY <1>5, <1>7, <2>1, <2>2 DEF Gate, PickupTypeOK, PickupJobsOK, InvTypeOK, rows, cronLists
<1>8. CASE Book(w)
  <2>1. PickupJobsOK'
    BY <1>2, <1>8 DEF Book
  <2>2. /\ booking' \in [Holders -> [Assets -> Nat]] /\ avail' \in [Assets -> Nat]
        /\ assetLock' \in [Assets -> Actors \cup {Nobody}]
    BY <1>2, <1>4, <1>8, InsertRowsType, DecrementType, LocksType, PickupActorsType DEF Book
  <2>3. /\ items' \in [Pickups -> [Lines -> [Assets -> Nat]]]
        /\ collected' \in [Pickups -> [Lines -> [Assets -> Nat]]]
    <3>1. CartRows(p) \in [Lines -> [Assets -> Nat]]
      BY <1>2, CartType DEF CartRows, Lines, NoQty
    <3> QED
      BY <1>2, <1>8, <3>1 DEF Book, PickupTypeOK
  <2>4. pickupStatus' \in [Pickups -> PickupStatuses]
    BY <1>2, <1>8 DEF Book, PickupTypeOK
  <2> QED
    BY <1>5, <1>8, <2>1, <2>2, <2>3, <2>4
       DEF Book, PickupTypeOK, PickupJobsOK, InvTypeOK, cronLists
<1>9. CASE SumPickupRows(w)
  <2> DEFINE step == CASE pickupJob[w].op \in {"cancel", "decline"} -> "release"
                       [] pickupJob[w].op = "handover" -> "hand"
                       [] OTHER -> "settle"
             r == [pickupJob[w] EXCEPT !.seen = booking[p], !.step = step]
  <2>1. step \in PickupSteps /\ booking[p] \in [Assets -> Nat]
    BY <1>2, <1>3, <1>4 DEF InvTypeOK
  <2>2. pickupJob' = [pickupJob EXCEPT ![w] = r]
    BY <1>9 DEF SumPickupRows, PickupTypeOK
  <2>3. r \in PickupJobs /\ r.pickup \in Pickups
    <3> HIDE DEF step
    <3> QED
      BY <1>2, <2>1 DEF PickupJobs, On
  <2>4. PickupJobsOK'
    <3> HIDE DEF r
    <3> QED
      BY <2>2, <2>3, PickupJobUpdate
  <2> QED
    BY <1>5, <1>9, <2>4 DEF SumPickupRows, PickupTypeOK, PickupJobsOK, InvTypeOK, invVars, rows, cronLists
<1>10. CASE Release(w)
  <2>1. PickupJobsOK'
    BY <1>2, <1>3, <1>10 DEF Release
  <2>2. booking' \in [Holders -> [Assets -> Nat]] /\ avail' \in [Assets -> Nat]
    BY <1>2, <1>4, <1>10, DeleteRowsType, RestoredType DEF Release
  <2> QED
    BY <1>5, <1>10, <2>1, <2>2
       DEF Release, PickupTypeOK, PickupJobsOK, InvTypeOK, rows, cronLists
<1>11. CASE Settle(w)
  <2>1. PickupJobsOK'
    BY <1>2, <1>11 DEF Settle
  <2>2. /\ booking' \in [Holders -> [Assets -> Nat]] /\ avail' \in [Assets -> Nat]
        /\ total' \in [Assets -> Nat]
    BY <1>1, <1>2, <1>4, <1>11, DeleteRowsType, RestoredType, PickupSettlementType DEF Settle
  <2>3. pickupStatus' \in [Pickups -> PickupStatuses]
    BY <1>2, <1>11 DEF Settle, PickupTypeOK
  <2> QED
    BY <1>5, <1>11, <2>1, <2>2, <2>3
       DEF Settle, PickupTypeOK, PickupJobsOK, InvTypeOK, rows, cronLists
<1>12. CASE PickupWriteOffRejected(w)
  BY <1>5, <1>2, <1>12 DEF PickupWriteOffRejected, PickupTypeOK, PickupJobsOK, InvTypeOK, invVars,
                     rows, cronLists
<1>13. CASE Hand(w)
  <2> DEFINE back == [a \in Assets |-> IF a \in Reduced(w)
                            THEN pickupJob[w].seen[a] - pickupJob[w].count[a] ELSE 0]
  <2>1. PickupJobsOK'
    BY <1>2, <1>3, <1>13 DEF Hand
  <2>2. avail' \in [Assets -> Nat]
    <3>1. back \in [Assets -> Nat]
      BY <1>2 DEF Reduced
    <3>2. avail' = Restored(back)
      BY <1>13 DEF Hand
    <3> HIDE DEF back
    <3> QED
      BY <1>4, <3>1, <3>2, RestoredType
  <2>3. booking' \in [Holders -> [Assets -> Nat]]
    BY <1>2, <1>4, <1>13 DEF Hand, InvTypeOK
  <2>4. collected' \in [Pickups -> [Lines -> [Assets -> Nat]]]
    <3>1. collected[p] \in [Lines -> [Assets -> Nat]]
      BY <1>2 DEF PickupTypeOK
    <3>2. [l \in Lines |-> [a \in Assets |->
              IF pickupJob[w].rows[l][a] > 0 THEN pickupJob[w].count[a] ELSE collected[p][l][a]]]
                 \in [Lines -> [Assets -> Nat]]
      BY <1>2, <3>1
    <3> QED
      BY <1>2, <1>13, <3>2 DEF Hand, PickupTypeOK
  <2> QED
    BY <1>5, <1>13, <2>1, <2>2, <2>3, <2>4
       DEF Hand, PickupTypeOK, PickupJobsOK, InvTypeOK, cronLists
<1>14. CASE NoCost(w)
  <2>1. PickupJobsOK'
    BY <1>2, <1>3, <1>14 DEF NoCost
  <2>2. noCost' \in [Pickups -> BOOLEAN]
    BY <1>2, <1>14 DEF NoCost, PickupTypeOK
  <2> QED
    BY <1>5, <1>14, <2>1, <2>2
       DEF NoCost, PickupTypeOK, PickupJobsOK, InvTypeOK, invVars, cronLists
<1>15. CASE FlipPickup(w)
  <2>1. pickupStatus' \in [Pickups -> PickupStatuses]
    BY <1>2, <1>15 DEF FlipPickup, PickupTypeOK
  <2> QED
    BY <1>2, <1>5, <1>15, <2>1
       DEF FlipPickup, PickupTypeOK, PickupJobsOK, InvTypeOK, invVars, rows, cronLists
<1>16. CASE Scan(w)
  <2>1. /\ scanned' \in [Pickups -> [Assets -> Nat]]
        /\ pickupReturned' \in [Pickups -> [Assets -> Nat]]
    <3>1. /\ scanned \in [Pickups -> [Assets -> Nat]]
          /\ pickupReturned \in [Pickups -> [Assets -> Nat]]
      BY DEF PickupTypeOK
    <3>2. CASE pickupJob[w].op = "scanOut"
      BY <1>6, <1>16, <3>1, <3>2 DEF Scan
    <3>3. CASE pickupJob[w].op # "scanOut"
      BY <1>6, <1>16, <3>1, <3>3 DEF Scan
    <3> QED
      BY <3>2, <3>3
  <2> QED
    BY <1>2, <1>5, <1>16, <2>1
       DEF Scan, PickupTypeOK, PickupJobsOK, InvTypeOK, invVars, rows, cronLists
<1>17. CASE CheckAdd(w)
  <2>1. PickupJobsOK'
    BY <1>2, <1>3, <1>17 DEF CheckAdd
  <2> QED
    BY <1>5, <1>17, <2>1 DEF CheckAdd, PickupTypeOK, PickupJobsOK, InvTypeOK, invVars, rows, cronLists
<1>18. CASE Add(w)
  <2>1. PickupJobsOK'
    BY <1>2, <1>18 DEF Add
  <2>2. booking' \in [Holders -> [Assets -> Nat]] /\ avail' \in [Assets -> Nat]
    BY <1>2, <1>4, <1>18 DEF Add, InvTypeOK, AtLeastZero
  <2>3. ASSUME NEW f \in [Pickups -> [Lines -> [Assets -> Nat]]],
               NEW g, g = [f EXCEPT ![p]["added"] =
                              [a \in Assets |-> @[a] + pickupJob[w].seen[a]]]
        PROVE  g \in [Pickups -> [Lines -> [Assets -> Nat]]]
    <3>1. "added" \in Lines
      BY DEF Lines
    <3>2. [a \in Assets |-> f[p]["added"][a] + pickupJob[w].seen[a]] \in [Assets -> Nat]
      BY <1>2, <3>1
    <3> QED
      BY <1>2, <2>3, <3>1, <3>2
  <2>4. /\ items' \in [Pickups -> [Lines -> [Assets -> Nat]]]
        /\ collected' \in [Pickups -> [Lines -> [Assets -> Nat]]]
    BY <1>18, <2>3 DEF Add, PickupTypeOK
  <2> QED
    BY <1>5, <1>18, <2>1, <2>2, <2>4
       DEF Add, PickupTypeOK, PickupJobsOK, InvTypeOK, cronLists
<1> QED
  BY <1>7, <1>8, <1>9, <1>10, <1>11, <1>12, <1>13, <1>14, <1>15, <1>16, <1>17, <1>18
     DEF ResumePickup

LEMMA PickupNextType ==
    ASSUME PickupTypeOK, [PickupNext]_pickupVars
    PROVE  PickupTypeOK'
<1>1. CASE \E w \in PickupWorkers, p \in Pickups : BeginAnyPickup(w, p)
  BY <1>1, BeginAnyPickupType DEF PickupWorkers
<1>2. CASE ListDuePickups \/ ListStuckPickups
  BY <1>2 DEF ListDuePickups, ListStuckPickups, PickupTypeOK, InvTypeOK, CalendarTypeOK, calendar, invVars, rows
<1>3. CASE TransitionDue
  <2>1. "AWAITING_RETURN" \in PickupStatuses
    BY DEF PickupStatuses
  <2>2. pickupStatus' \in [Pickups -> PickupStatuses]
    BY <1>3, <2>1 DEF TransitionDue, PickupTypeOK
  <2> QED
    BY <1>3, <2>2, PickupsType DEF TransitionDue, PickupTypeOK, InvTypeOK, CalendarTypeOK, calendar, invVars, rows
<1>4. ASSUME NEW p \in Pickups, BeginPickupExpire(p)
      PROVE  PickupTypeOK'
  <2> DEFINE k == JobFor("expire", p, "sum", "CANCELLED")
             r == [k EXCEPT !.read = pickupStatus[p]]
  <2>1. k \in PickupJobs /\ k.pickup = p
    <3>1. "expire" \in PickupOps /\ "sum" \in PickupSteps /\ "CANCELLED" \in PickupStatuses
      BY DEF PickupOps, PickupSteps, PickupStatuses
    <3> QED
      BY <3>1, JobForType
  <2>2. r \in PickupJobs /\ r.pickup \in Pickups
    <3> HIDE DEF k
    <3> QED
      BY <2>1 DEF PickupJobs, PickupTypeOK
  <2>3. pickupJob' = [pickupJob EXCEPT ![PickupCron] = r]
    BY <1>4 DEF BeginPickupExpire
  <2>4. PickupJobsOK'
    <3> HIDE DEF r
    <3> QED
      BY <2>2, <2>3, PickupJobUpdate, PickupActorsType
  <2> QED
    BY <1>4, <2>4 DEF BeginPickupExpire, PickupTypeOK, PickupJobsOK, InvTypeOK, CalendarTypeOK, calendar, invVars, rows
<1>5. ASSUME NEW w \in PickupActors, PickupAbort(w)
      PROVE  PickupTypeOK'
  <2>1. PickupJobsOK'
    BY <1>5, PickupIdleIsJob, PickupJobUpdate DEF PickupAbort, FinishPickup
  <2>2. assetLock' \in [Assets -> Actors \cup {Nobody}]
    BY <1>5, LocksType, PickupActorsType DEF PickupAbort, PickupTypeOK
  <2>3. pickupExpire' \in SUBSET Pickups /\ dueList' \in SUBSET Pickups
    BY <1>5 DEF PickupAbort, cronLists, PickupTypeOK
  <2>4. HalfWay(w) => On(w) \in Holders
    BY RunningPickup DEF HalfWay, PickupAt
  <2> QED
    BY <1>5, <2>1, <2>2, <2>3, <2>4 DEF PickupAbort, PickupTypeOK, PickupJobsOK, InvTypeOK, CalendarTypeOK, calendar, rows
<1>6. CASE PickupTick
  BY <1>6, DaysType DEF PickupTick, PickupTypeOK, InvTypeOK, CalendarTypeOK, calendar, invVars, rows, cronLists
<1>7. CASE UNCHANGED pickupVars
  BY <1>7 DEF pickupVars, ownPickupVars, PickupTypeOK, InvTypeOK, CalendarTypeOK, calendar, invVars, rows, cronLists
<1> QED
  BY <1>1, <1>2, <1>3, <1>4, <1>5, <1>6, <1>7, ResumePickupType DEF PickupNext

LEMMA PickupInitType == PickupInit => PickupTypeOK
<1> SUFFICES ASSUME PickupInit
             PROVE  PickupTypeOK
  OBVIOUS
<1>1. InvTypeOK
  BY StockType DEF PickupInit, InvInit, InvTypeOK
<1>2. PickupJobsOK
  BY PickupIdleIsJob DEF PickupInit, PickupJobsOK
<1>3. "NONE" \in PickupStatuses /\ 0 \in 0 .. MaxDay
  BY DaysType DEF PickupStatuses
<1> QED
  BY <1>1, <1>2, <1>3 DEF PickupInit, PickupTypeOK, PickupJobsOK, CalendarInit, CalendarTypeOK,
                             NoItems, NoQty, Lines

\* Whatever the handlers of self-pickups do, every row, tally, job and lock
\* keeps its type; the counter never goes below zero.
THEOREM PickupTypeCorrect == PickupSpec => []PickupTypeOK
<1>1. PickupInit => PickupTypeOK
  BY PickupInitType
<1>2. PickupTypeOK /\ [PickupNext]_pickupVars => PickupTypeOK'
  BY PickupNextType
<1> QED
  BY <1>1, <1>2, PTL DEF PickupSpec

------------------------------------------------------------------------------
(* The kinds of step that self-pickups take.                               *)

\* The cron starts to expire a pickup that it listed earlier.
ExpireStarts(p, r) ==
    /\ r.op = "expire" /\ r.step = "sum" /\ r.to = "CANCELLED" /\ r.short = NoQty
    /\ p \in pickupExpire

\* An idle actor gets a job, and nothing else changes but the list it is from.
Started(w, p, r) ==
    /\ pickupJob[w] = PickupIdle /\ Starts(w, p, r)
    /\ PickupStarts(p, r) \/ ExpireStarts(p, r)
    /\ UNCHANGED <<invVars, pickupStatus, noCost, items, collected, scanned, pickupReturned,
                   dueList, overtaken, halfDone>>
    /\ pickupExpire' \subseteq pickupExpire

\* The crons list pickups, or a day passes, or nothing happens.
Listing ==
    /\ UNCHANGED <<invVars, pickupStatus, noCost, items, collected, scanned, pickupReturned,
                   pickupJob, overtaken, halfDone>>
    /\ pickupExpire' \subseteq pickupExpire \cup {p \in Pickups : StuckPickup(p)}
    /\ dueList' \subseteq dueList \cup {p \in Pickups : Due(p)}

LEMMA PickupStepCases ==
    ASSUME PickupTypeOK, [PickupNext]_pickupVars
    PROVE  \/ \E w \in PickupActors, p \in Pickups, r \in PickupJobs : Started(w, p, r)
           \/ \E w \in PickupActors : ResumePickup(w)
           \/ \E w \in PickupActors : PickupAbort(w)
           \/ TransitionDue
           \/ Listing
<1>1. ASSUME NEW w \in PickupActors, NEW p \in Pickups, BeginAnyPickup(w, p)
      PROVE  \E r \in PickupJobs : Started(w, p, r)
  BY <1>1, BeginFacts, BeginIsLocal DEF Started
<1>2. ASSUME NEW p \in Pickups, BeginPickupExpire(p)
      PROVE  \E r \in PickupJobs : Started(PickupCron, p, r)
  <2> DEFINE k == JobFor("expire", p, "sum", "CANCELLED")
             r == [k EXCEPT !.read = pickupStatus[p]]
  <2>1. /\ k \in PickupJobs /\ k.pickup = p /\ k.op = "expire" /\ k.step = "sum"
        /\ k.to = "CANCELLED" /\ k.short = NoQty
    <3>1. "expire" \in PickupOps /\ "sum" \in PickupSteps /\ "CANCELLED" \in PickupStatuses
      BY DEF PickupOps, PickupSteps, PickupStatuses
    <3> QED
      BY <3>1, JobForType
  <2>2. /\ r \in PickupJobs /\ r.pickup = p /\ r.op = "expire" /\ r.step = "sum"
        /\ r.to = "CANCELLED" /\ r.read = pickupStatus[p] /\ r.short = NoQty
    <3> HIDE DEF k
    <3> QED
      BY <2>1 DEF PickupJobs, PickupTypeOK
  <2>3. pickupJob' = [pickupJob EXCEPT ![PickupCron] = r]
    BY <1>2 DEF BeginPickupExpire
  <2> HIDE DEF r
  <2>4. Starts(PickupCron, p, r) /\ ExpireStarts(p, r)
    BY <1>2, <2>2, <2>3 DEF Starts, ExpireStarts, BeginPickupExpire
  <2> QED
    BY <1>2, <2>2, <2>4 DEF Started, BeginPickupExpire, rows, calendar
<1>3. CASE ListDuePickups \/ ListStuckPickups
  BY <1>3 DEF ListDuePickups, ListStuckPickups, Listing, rows, calendar
<1>4. CASE PickupTick \/ UNCHANGED pickupVars
  BY <1>4 DEF PickupTick, pickupVars, ownPickupVars, Listing, rows, cronLists, calendar
<1>5. PickupCron \in PickupActors
  BY PickupActorsType
<1> QED
  BY <1>1, <1>2, <1>3, <1>4, <1>5 DEF PickupNext, PickupWorkers

------------------------------------------------------------------------------
(* The life of a pickup: how far a handler has come tells what it is, a    *)
(* pickup has its row before anything else, and a handler writes to its    *)
(* own pickup only.                                                        *)

\* The steps, the target and the status read that go with each operation.
JobShape(r) ==
    /\ r.op = "idle" => r = PickupIdle
    /\ r.op # "idle" => r.pickup \in Pickups
    /\ r.op = "submit" => r.step \in {"gate", "book"} /\ r.to = "PRICING_REVIEW"
    /\ r.op = "cancel" => /\ r.step \in {"sum", "release", "flip"} /\ r.to = "CANCELLED"
                          /\ r.read \in CancellableStatuses
    /\ r.op = "decline" => /\ r.step \in {"sum", "release", "flip"} /\ r.to = "DECLINED"
                           /\ r.read = "QUOTED"
    /\ r.op = "expire" => r.step \in {"sum", "settle"} /\ r.to = "CANCELLED" /\ r.short = NoQty
    /\ r.op = "complete" => /\ r.step \in {"sum", "settle"} /\ r.to = "CLOSED"
                            /\ r.read = "AWAITING_RETURN"
    /\ r.op = "handover" => /\ r.step \in {"sum", "hand", "flip"} /\ r.to = "PICKED_UP"
                            /\ r.read = "READY_FOR_PICKUP"
    /\ r.op = "noCost" => /\ r.step \in {"noCost", "flip"} /\ r.to = "CONFIRMED"
                          /\ r.read \in {"PRICING_REVIEW", "PENDING_APPROVAL"}
    /\ r.op = "status" => r.step = "flip" /\ <<r.read, r.to>> \in PickupMoves
    /\ r.op = "add" => r.step \in {"check", "add"} /\ r.read \in {"CONFIRMED", "READY_FOR_PICKUP"}
    /\ r.op = "scanOut" => r.step = "scan" /\ r.read = "READY_FOR_PICKUP"
    /\ r.op = "scanIn" => r.step = "scan" /\ r.read = "AWAITING_RETURN"

JobsShaped == \A w \in PickupActors : JobShape(pickupJob[w])

LEMMA StepTellsOp ==
    ASSUME NEW r \in PickupJobs, JobShape(r)
    PROVE  /\ r.step = "idle" => r = PickupIdle
           /\ r.step # "idle" => r.op # "idle" /\ r.pickup \in Pickups
           /\ r.step \in {"gate", "book"} => r.op = "submit"
           /\ r.step = "sum" => r.op \in {"cancel", "decline", "expire", "complete", "handover"}
           /\ r.step = "release" => r.op \in {"cancel", "decline"}
           /\ r.step = "settle" => r.op \in {"expire", "complete"}
           /\ r.step = "hand" => r.op = "handover"
           /\ r.step = "noCost" => r.op = "noCost"
           /\ r.step \in {"check", "add"} => r.op = "add"
           /\ r.step = "scan" => r.op \in {"scanOut", "scanIn"}
           /\ r.step = "flip" => r.op \in {"cancel", "decline", "handover", "noCost", "status"}
<1>1. r.op \in PickupOps
  BY DEF PickupJobs
<1>2. PickupIdle.step = "idle" /\ PickupIdle.op = "idle"
  BY PickupIdleIsJob
<1> QED
  BY <1>1, <1>2 DEF JobShape, PickupOps

\* A job that is not done goes on with what it has; a sum is what it adds.
GoesOn(old, new) ==
    /\ new.op = old.op /\ new.pickup = old.pickup /\ new.read = old.read /\ new.to = old.to
    /\ new.count = old.count /\ new.rows = old.rows /\ new.short = old.short
    /\ \/ /\ <<old.step, new.step>> \in {<<"gate", "book">>, <<"release", "flip">>,
              <<"hand", "flip">>, <<"noCost", "flip">>, <<"check", "add">>}
          /\ new.seen = old.seen
       \/ /\ old.step = "sum" /\ new.seen = booking[old.pickup]
          /\ new.step = CASE old.op \in {"cancel", "decline"} -> "release"
                          [] old.op = "handover" -> "hand"
                          [] OTHER -> "settle"

LEMMA PickupJobAfter ==
    ASSUME PickupTypeOK, NEW w \in PickupActors, ResumePickup(w) \/ PickupAbort(w)
    PROVE  /\ \A v \in PickupActors : v # w => pickupJob'[v] = pickupJob[v]
           /\ pickupJob'[w] = PickupIdle \/ GoesOn(pickupJob[w], pickupJob'[w])
<1>1. pickupJob \in [PickupActors -> PickupJobs] /\ pickupJob[w] \in PickupJobs
  BY DEF PickupTypeOK
<1>2. CASE FinishPickup(w)
  BY <1>1, <1>2 DEF FinishPickup
<1>3. ASSUME NEW step, PickupGoTo(w, step),
             <<pickupJob[w].step, step>> \in {<<"gate", "book">>, <<"release", "flip">>,
                 <<"hand", "flip">>, <<"noCost", "flip">>, <<"check", "add">>}
      PROVE  /\ \A v \in PickupActors : v # w => pickupJob'[v] = pickupJob[v]
             /\ GoesOn(pickupJob[w], pickupJob'[w])
  BY <1>1, <1>3 DEF PickupGoTo, GoesOn, PickupJobs
<1>4. CASE SumPickupRows(w)
  <2> DEFINE step == CASE pickupJob[w].op \in {"cancel", "decline"} -> "release"
                       [] pickupJob[w].op = "handover" -> "hand"
                       [] OTHER -> "settle"
  <2>1. pickupJob' = [pickupJob EXCEPT ![w].seen = booking[On(w)], ![w].step = step]
    BY <1>4 DEF SumPickupRows
  <2>2. pickupJob[w].step = "sum"
    BY <1>4 DEF SumPickupRows, PickupAt
  <2>3. /\ \A v \in PickupActors : v # w => pickupJob'[v] = pickupJob[v]
        /\ pickupJob'[w].seen = booking[On(w)] /\ pickupJob'[w].step = step
        /\ pickupJob'[w].op = pickupJob[w].op /\ pickupJob'[w].pickup = pickupJob[w].pickup
        /\ pickupJob'[w].read = pickupJob[w].read /\ pickupJob'[w].to = pickupJob[w].to
        /\ pickupJob'[w].count = pickupJob[w].count /\ pickupJob'[w].rows = pickupJob[w].rows
        /\ pickupJob'[w].short = pickupJob[w].short
    <3> HIDE DEF step
    <3> QED
      BY <1>1, <2>1 DEF PickupJobs
  <2> QED
    BY <2>2, <2>3 DEF GoesOn, On
<1>5. CASE Gate(w) \/ CheckAdd(w)
  BY <1>2, <1>3, <1>5 DEF Gate, CheckAdd, PickupAt
<1>6. CASE Release(w) \/ Hand(w) \/ NoCost(w)
  BY <1>3, <1>6 DEF Release, Hand, NoCost, PickupAt
<1>7. CASE Book(w) \/ Settle(w) \/ PickupWriteOffRejected(w) \/ FlipPickup(w) \/ Scan(w) \/ Add(w)
  BY <1>2, <1>7 DEF Book, Settle, PickupWriteOffRejected, FlipPickup, Scan, Add
<1>8. CASE PickupAbort(w)
  BY <1>2, <1>8 DEF PickupAbort
<1> QED
  BY <1>4, <1>5, <1>6, <1>7, <1>8 DEF ResumePickup

\* The job an actor starts with, and that of the others.
LEMMA StartedJob ==
    ASSUME PickupTypeOK, NEW w \in PickupActors, NEW p \in Pickups, NEW r \in PickupJobs,
           Started(w, p, r)
    PROVE  /\ \A v \in PickupActors : v # w => pickupJob'[v] = pickupJob[v]
           /\ pickupJob'[w] = r /\ r.pickup = p /\ r.read = pickupStatus[p] /\ JobShape(r)
<1>1. JobShape(r)
  <2>1. r.pickup = p /\ r.read = pickupStatus[p]
    BY DEF Started, Starts
  <2>2. CASE SubmitStarts(p, r) \/ CancelStarts(p, r) \/ DeclineStarts(p, r) \/ NoCostStarts(p, r)
    BY <2>1, <2>2 DEF SubmitStarts, CancelStarts, DeclineStarts, NoCostStarts, JobShape
  <2>3. CASE StatusStarts(p, r) \/ HandoverStarts(p, r) \/ CompleteStarts(p, r)
    BY <2>1, <2>3 DEF StatusStarts, HandoverStarts, CompleteStarts, JobShape
  <2>4. CASE AddStarts(p, r) \/ ScanOutStarts(p, r) \/ ScanInStarts(p, r) \/ ExpireStarts(p, r)
    BY <2>1, <2>4 DEF AddStarts, ScanOutStarts, ScanInStarts, ExpireStarts, JobShape
  <2> QED
    BY <2>2, <2>3, <2>4 DEF Started, PickupStarts
<1> QED
  BY <1>1 DEF Started, Starts, PickupTypeOK

\* A handler's step leaves every other pickup as it is.
LEMMA OwnPickupOnly ==
    ASSUME PickupTypeOK, NEW w \in PickupActors, ResumePickup(w), NEW p \in Pickups, p # On(w)
    PROVE  /\ pickupStatus'[p] = pickupStatus[p] /\ booking'[p] = booking[p]
           /\ items'[p] = items[p] /\ collected'[p] = collected[p]
           /\ scanned'[p] = scanned[p] /\ pickupReturned'[p] = pickupReturned[p]
           /\ p \in overtaken' => p \in overtaken
<1>1. /\ pickupStatus \in [Pickups -> PickupStatuses] /\ booking \in [Holders -> [Assets -> Nat]]
      /\ items \in [Pickups -> [Lines -> [Assets -> Nat]]]
      /\ collected \in [Pickups -> [Lines -> [Assets -> Nat]]]
      /\ scanned \in [Pickups -> [Assets -> Nat]] /\ pickupReturned \in [Pickups -> [Assets -> Nat]]
      /\ p \in Holders
  BY PickupsType DEF PickupTypeOK, InvTypeOK
<1>2. CASE Gate(w) \/ SumPickupRows(w) \/ PickupWriteOffRejected(w) \/ CheckAdd(w)
  BY <1>2 DEF Gate, SumPickupRows, PickupWriteOffRejected, CheckAdd, invVars, rows, calendar
<1>3. CASE Book(w)
  <2>1. /\ booking' = [booking EXCEPT ![On(w)] = booking'[On(w)]]
        /\ items' = [items EXCEPT ![On(w)] = items'[On(w)]]
        /\ collected' = [collected EXCEPT ![On(w)] = collected'[On(w)]]
    BY <1>1, <1>3 DEF Book, InsertRows
  <2> QED
    BY <1>1, <1>3, <2>1 DEF Book, calendar
<1>4. CASE Release(w) \/ Settle(w)
  BY <1>1, <1>4 DEF Release, Settle, DeleteRows, Overtake, rows
<1>5. CASE Hand(w)
  BY <1>1, <1>5 DEF Hand, Overtake
<1>6. CASE FlipPickup(w) \/ Scan(w) \/ NoCost(w)
  BY <1>1, <1>6 DEF FlipPickup, Scan, NoCost, Overtake, invVars, rows
<1>7. CASE Add(w)
  <2>1. /\ booking' = [booking EXCEPT ![On(w)] = booking'[On(w)]]
        /\ items' = [items EXCEPT ![On(w)] = items'[On(w)]]
        /\ collected' = [collected EXCEPT ![On(w)] = collected'[On(w)]]
    BY <1>1, <1>7 DEF Add
  <2> QED
    BY <1>1, <1>7, <2>1 DEF Add, Overtake
<1> QED
  BY <1>2, <1>3, <1>4, <1>5, <1>6, <1>7 DEF ResumePickup

\* A handler moves its pickup to its target or leaves it where it is, and
\* what was written over stays in the history.
LEMMA StatusAfter ==
    ASSUME PickupTypeOK, NEW w \in PickupActors, ResumePickup(w)
    PROVE  /\ \/ pickupStatus'[On(w)] = pickupStatus[On(w)]
              \/ /\ pickupStatus'[On(w)] = pickupJob[w].to
                 /\ pickupJob[w].step \in {"book", "settle", "flip"}
           /\ overtaken \subseteq overtaken' /\ halfDone' = halfDone
           /\ dueList' = dueList /\ pickupExpire' = pickupExpire
           /\ On(w) \in Pickups /\ On(w) \in Holders /\ pickupJob[w].step # "idle"
<1>1. pickupJob[w].step # "idle"
  BY DEF ResumePickup, PickupAt, Gate, Book, SumPickupRows, Release, Settle,
         PickupWriteOffRejected, Hand, NoCost, FlipPickup, Scan, CheckAdd, Add
<1>2. On(w) \in Pickups /\ On(w) \in Holders /\ pickupStatus \in [Pickups -> PickupStatuses]
  BY <1>1, RunningPickup DEF PickupTypeOK
<1>3. CASE Gate(w) \/ SumPickupRows(w) \/ PickupWriteOffRejected(w) \/ CheckAdd(w)
  BY <1>1, <1>2, <1>3 DEF Gate, SumPickupRows, PickupWriteOffRejected, CheckAdd, cronLists, calendar
<1>5. CASE Release(w) \/ Hand(w) \/ NoCost(w) \/ Scan(w) \/ Add(w)
  BY <1>1, <1>2, <1>5 DEF Release, Hand, NoCost, Scan, Add, Overtake, cronLists
<1>4. CASE Book(w) \/ Settle(w) \/ FlipPickup(w)
  BY <1>1, <1>2, <1>4 DEF Book, Settle, FlipPickup, PickupAt, Overtake, cronLists, calendar
<1> QED
  BY <1>3, <1>4, <1>5 DEF ResumePickup

\* Each job keeps the shape of its operation.
LEMMA ShapesKept ==
    ASSUME PickupTypeOK, JobsShaped, [PickupNext]_pickupVars
    PROVE  JobsShaped'
<1> SUFFICES ASSUME NEW v \in PickupActors
             PROVE  JobShape(pickupJob'[v])
  BY DEF JobsShaped
<1>1. JobShape(pickupJob[v]) /\ JobShape(PickupIdle)
  BY PickupIdleIsJob DEF JobsShaped, JobShape
<1>2. ASSUME NEW w \in PickupActors, ResumePickup(w) \/ PickupAbort(w)
      PROVE  JobShape(pickupJob'[v])
  <2>1. CASE v # w \/ pickupJob'[w] = PickupIdle
    BY <1>1, <1>2, <2>1, PickupJobAfter
  <2>2. CASE v = w /\ GoesOn(pickupJob[w], pickupJob'[w])
    <3>1. pickupJob[w].op # "idle"
      BY <1>1, <2>2, PickupIdleIsJob DEF JobShape, GoesOn
    <3> QED
      BY <1>1, <2>2, <3>1 DEF JobShape, GoesOn
  <2> QED
    BY <1>2, <2>1, <2>2, PickupJobAfter
<1>3. ASSUME NEW w \in PickupActors, NEW p \in Pickups, NEW r \in PickupJobs, Started(w, p, r)
      PROVE  JobShape(pickupJob'[v])
  BY <1>1, <1>3, StartedJob
<1>4. CASE TransitionDue \/ Listing
  BY <1>1, <1>4 DEF TransitionDue, Listing
<1> QED
  BY <1>2, <1>3, <1>4, PickupStepCases

\* A submit works alone on a pickup without a row; everybody else works on a
\* pickup that has one, and before it there is nothing of the pickup.
NewPickupAlone == \A w \in PickupActors : pickupJob[w].op = "submit" =>
    /\ pickupStatus[On(w)] = "NONE"
    /\ \A v \in PickupActors : v # w => pickupJob[v].pickup # On(w)
HandledPickupExists == \A w \in PickupActors : pickupJob[w].op \notin {"idle", "submit"} =>
    pickupStatus[On(w)] # "NONE"
ListedPickupExists == \A p \in pickupExpire \cup dueList : pickupStatus[p] # "NONE"
NothingBeforePickup == \A p \in Pickups : pickupStatus[p] = "NONE" =>
    /\ booking[p] = NoQty /\ items[p] = NoItems /\ collected[p] = NoItems
    /\ scanned[p] = NoQty /\ pickupReturned[p] = NoQty

PickupLife == /\ JobsShaped /\ NewPickupAlone /\ HandledPickupExists /\ ListedPickupExists
              /\ NothingBeforePickup

\* A pickup row, once there, stays.
LEMMA PickupRowStays ==
    ASSUME PickupTypeOK, JobsShaped, [PickupNext]_pickupVars, NEW p \in Pickups,
           pickupStatus[p] # "NONE"
    PROVE  pickupStatus'[p] # "NONE"
<1>1. ASSUME NEW w \in PickupActors, ResumePickup(w)
      PROVE  pickupStatus'[p] # "NONE"
  <2>1. CASE p # On(w)
    BY <1>1, <2>1, OwnPickupOnly
  <2>2. CASE p = On(w) /\ pickupStatus'[p] = pickupStatus[p]
    BY <2>2
  <2>3. CASE p = On(w) /\ pickupStatus'[p] = pickupJob[w].to
             /\ pickupJob[w].step \in {"book", "settle", "flip"}
    <3>1. JobShape(pickupJob[w]) /\ pickupJob[w] \in PickupJobs
      BY DEF JobsShaped, PickupTypeOK
    <3>2. pickupJob[w].op \in {"submit", "expire", "complete", "cancel", "decline", "handover",
                               "noCost", "status"}
      BY <2>3, <3>1, StepTellsOp
    <3> QED
      BY <2>3, <3>1, <3>2 DEF JobShape, PickupMoves
  <2> QED
    BY <1>1, <2>1, <2>2, <2>3, StatusAfter
<1>2. ASSUME NEW w \in PickupActors, PickupAbort(w)
      PROVE  pickupStatus'[p] # "NONE"
  BY <1>2 DEF PickupAbort
<1>3. ASSUME NEW w \in PickupActors, NEW q \in Pickups, NEW r \in PickupJobs, Started(w, q, r)
      PROVE  pickupStatus'[p] # "NONE"
  BY <1>3 DEF Started
<1>4. CASE TransitionDue \/ Listing
  BY <1>4 DEF TransitionDue, Listing
<1> QED
  BY <1>1, <1>2, <1>3, <1>4, PickupStepCases

\* A submit starts on a pickup without a row that nobody works on, any other
\* handler on one with a row.
LEMMA StartedRow ==
    ASSUME PickupTypeOK, ListedPickupExists, NEW w \in PickupActors, NEW p \in Pickups,
           NEW r \in PickupJobs, Started(w, p, r)
    PROVE  IF r.op = "submit"
           THEN pickupStatus[p] = "NONE" /\ \A v \in PickupActors : pickupJob[v].pickup # p
           ELSE pickupStatus[p] # "NONE"
<1>1. CASE SubmitStarts(p, r)
  BY <1>1 DEF SubmitStarts
<1>2. CASE ExpireStarts(p, r)
  BY <1>2 DEF ExpireStarts, ListedPickupExists
<1>3. CASE \/ CancelStarts(p, r) \/ DeclineStarts(p, r) \/ NoCostStarts(p, r)
           \/ HandoverStarts(p, r) \/ CompleteStarts(p, r) \/ AddStarts(p, r)
           \/ ScanOutStarts(p, r) \/ ScanInStarts(p, r)
  BY <1>3 DEF CancelStarts, DeclineStarts, NoCostStarts, HandoverStarts, CompleteStarts,
              AddStarts, ScanOutStarts, ScanInStarts, CancellableStatuses, StuckStatuses
<1>4. CASE StatusStarts(p, r)
  BY <1>4 DEF StatusStarts, PickupMoves
<1> QED
  BY <1>1, <1>2, <1>3, <1>4 DEF Started, PickupStarts

LEMMA NewPickupStaysAlone ==
    ASSUME PickupTypeOK, PickupLife, [PickupNext]_pickupVars
    PROVE  NewPickupAlone'
<1> SUFFICES ASSUME NEW w \in PickupActors, pickupJob'[w].op = "submit",
                    NEW v \in PickupActors, NEW p, p = pickupJob'[w].pickup
             PROVE  pickupStatus'[p] = "NONE" /\ (v # w => pickupJob'[v].pickup # p)
  BY DEF NewPickupAlone, On
<1> USE DEF On
<1>1. ASSUME pickupJob[w].op = "submit"
      PROVE  /\ pickupJob[w].pickup \in Pickups /\ pickupStatus[pickupJob[w].pickup] = "NONE"
             /\ \A x \in PickupActors : x # w => pickupJob[x].pickup # pickupJob[w].pickup
  BY <1>1 DEF PickupLife, NewPickupAlone, JobsShaped, JobShape
<1>2. PickupIdle.op # "submit" /\ PickupIdle.pickup = Nobody /\ Nobody \notin Pickups
  BY PickupIdleIsJob, PickupsType
<1>3. ASSUME NEW x \in PickupActors, ResumePickup(x) \/ PickupAbort(x)
      PROVE  pickupStatus'[p] = "NONE" /\ (v # w => pickupJob'[v].pickup # p)
  <2>1. /\ \A y \in PickupActors : y # x => pickupJob'[y] = pickupJob[y]
        /\ pickupJob'[x] = PickupIdle \/ GoesOn(pickupJob[x], pickupJob'[x])
    BY <1>3, PickupJobAfter
  <2>2. pickupJob[w].op = "submit" /\ pickupJob[w].pickup = p
    BY <1>2, <2>1 DEF GoesOn
  <2>3. v # w => pickupJob'[v].pickup # p
    BY <1>1, <1>2, <2>1, <2>2 DEF GoesOn
  <2>4. pickupStatus'[p] = "NONE"
    <3>1. CASE PickupAbort(x)
      BY <1>1, <2>2, <3>1 DEF PickupAbort
    <3>2. CASE x = w /\ ResumePickup(x)
      <4>1. GoesOn(pickupJob[w], pickupJob'[w])
        BY <1>2, <2>1, <3>2
      <4>2. pickupJob[w].step \in {"gate", "book"}
        BY <2>2 DEF PickupLife, JobsShaped, JobShape
      <4>3. pickupJob[w].step = "gate"
        BY <4>1, <4>2 DEF GoesOn
      <4> QED
        BY <1>1, <2>2, <3>2, <4>3, StatusAfter
    <3>3. CASE x # w /\ ResumePickup(x)
      BY <1>1, <2>2, <3>3, OwnPickupOnly
    <3> QED
      BY <1>3, <3>1, <3>2, <3>3
  <2> QED
    BY <2>3, <2>4
<1>4. ASSUME NEW x \in PickupActors, NEW q \in Pickups, NEW r \in PickupJobs, Started(x, q, r)
      PROVE  pickupStatus'[p] = "NONE" /\ (v # w => pickupJob'[v].pickup # p)
  <2>1. /\ \A y \in PickupActors : y # x => pickupJob'[y] = pickupJob[y]
        /\ pickupJob'[x] = r /\ r.pickup = q
    BY <1>4, StartedJob
  <2>2. IF r.op = "submit"
        THEN pickupStatus[q] = "NONE" /\ \A y \in PickupActors : pickupJob[y].pickup # q
        ELSE pickupStatus[q] # "NONE"
    BY <1>4, StartedRow DEF PickupLife
  <2>3. pickupStatus' = pickupStatus
    BY <1>4 DEF Started
  <2> QED
    BY <1>1, <2>1, <2>2, <2>3
<1>5. CASE TransitionDue
  <2>1. /\ pickupJob' = pickupJob
        /\ pickupStatus' = [y \in Pickups |-> IF y \in dueList THEN "AWAITING_RETURN"
                                                               ELSE pickupStatus[y]]
    BY <1>5 DEF TransitionDue
  <2> QED
    BY <1>1, <2>1 DEF PickupLife, ListedPickupExists
<1>6. CASE Listing
  BY <1>1, <1>6 DEF Listing
<1> QED
  BY <1>3, <1>4, <1>5, <1>6, PickupStepCases

LEMMA HandledPickupStays ==
    ASSUME PickupTypeOK, PickupLife, [PickupNext]_pickupVars
    PROVE  HandledPickupExists' /\ ListedPickupExists'
<1>1. ASSUME NEW w \in PickupActors, pickupJob'[w].op \notin {"idle", "submit"}
      PROVE  pickupStatus'[pickupJob'[w].pickup] # "NONE"
  <2>1. CASE pickupJob[w].op = pickupJob'[w].op /\ pickupJob[w].pickup = pickupJob'[w].pickup
    <3>1. pickupJob[w].pickup \in Pickups /\ pickupStatus[pickupJob[w].pickup] # "NONE"
      BY <1>1, <2>1 DEF PickupLife, HandledPickupExists, JobsShaped, JobShape, On
    <3> QED
      BY <2>1, <3>1, PickupRowStays DEF PickupLife
  <2>2. ASSUME NEW x \in PickupActors, NEW q \in Pickups, NEW r \in PickupJobs, Started(x, q, r),
               x = w
        PROVE  pickupStatus'[pickupJob'[w].pickup] # "NONE"
    <3>1. pickupJob'[w] = r /\ r.pickup = q
      BY <2>2, StartedJob
    <3>2. pickupStatus[q] # "NONE"
      BY <1>1, <2>2, <3>1, StartedRow DEF PickupLife
    <3> QED
      BY <2>2, <3>1, <3>2 DEF Started
  <2>3. ASSUME NEW x \in PickupActors, NEW q \in Pickups, NEW r \in PickupJobs, Started(x, q, r),
               x # w
        PROVE  pickupJob[w].op = pickupJob'[w].op /\ pickupJob[w].pickup = pickupJob'[w].pickup
    BY <2>3, StartedJob
  <2>4. ASSUME NEW x \in PickupActors, ResumePickup(x) \/ PickupAbort(x)
        PROVE  pickupJob[w].op = pickupJob'[w].op /\ pickupJob[w].pickup = pickupJob'[w].pickup
    BY <1>1, <2>4, PickupJobAfter, PickupIdleIsJob DEF GoesOn
  <2>5. CASE TransitionDue \/ Listing
    BY <2>1, <2>5 DEF TransitionDue, Listing
  <2> QED
    BY <2>1, <2>2, <2>3, <2>4, <2>5, PickupStepCases
<1>2. ASSUME NEW p \in pickupExpire' \cup dueList'
      PROVE  pickupStatus'[p] # "NONE"
  <2>1. /\ pickupExpire \cup dueList \subseteq Pickups
        /\ \A q \in Pickups : StuckPickup(q) \/ Due(q) => pickupStatus[q] # "NONE"
    BY DEF PickupTypeOK, StuckPickup, Due, StuckStatuses
  <2>2. p \in pickupExpire \cup dueList \/ (p \in Pickups /\ (StuckPickup(p) \/ Due(p)))
    <3>1. ASSUME NEW x \in PickupActors, NEW q \in Pickups, NEW r \in PickupJobs, Started(x, q, r)
          PROVE  p \in pickupExpire \cup dueList
      BY <1>2, <3>1 DEF Started
    <3>2. ASSUME NEW x \in PickupActors, ResumePickup(x)
          PROVE  p \in pickupExpire \cup dueList
      BY <1>2, <3>2, StatusAfter
    <3>3. ASSUME NEW x \in PickupActors, PickupAbort(x)
          PROVE  p \in pickupExpire \cup dueList
      BY <1>2, <3>3 DEF PickupAbort, cronLists
    <3>4. CASE TransitionDue \/ Listing
      BY <1>2, <3>4 DEF TransitionDue, Listing
    <3> QED
      BY <3>1, <3>2, <3>3, <3>4, PickupStepCases
  <2> QED
    BY <2>1, <2>2, PickupRowStays DEF PickupLife, ListedPickupExists
<1> QED
  BY <1>1, <1>2 DEF HandledPickupExists, ListedPickupExists, On

LEMMA NothingComesBefore ==
    ASSUME PickupTypeOK, PickupLife, [PickupNext]_pickupVars
    PROVE  NothingBeforePickup'
<1> SUFFICES ASSUME NEW p \in Pickups, pickupStatus'[p] = "NONE"
             PROVE  /\ booking'[p] = booking[p] /\ items'[p] = items[p]
                    /\ collected'[p] = collected[p] /\ scanned'[p] = scanned[p]
                    /\ pickupReturned'[p] = pickupReturned[p]
  BY PickupRowStays DEF PickupLife, NothingBeforePickup
<1>1. pickupStatus[p] = "NONE"
  BY PickupRowStays DEF PickupLife
<1>2. ASSUME NEW w \in PickupActors, ResumePickup(w)
      PROVE  /\ booking'[p] = booking[p] /\ items'[p] = items[p]
             /\ collected'[p] = collected[p] /\ scanned'[p] = scanned[p]
             /\ pickupReturned'[p] = pickupReturned[p]
  <2>1. CASE p # On(w)
    BY <1>2, <2>1, OwnPickupOnly
  <2>2. CASE p = On(w)
    <3>1. /\ pickupJob[w].step # "idle" /\ JobShape(pickupJob[w]) /\ pickupJob[w] \in PickupJobs
      BY <1>2, StatusAfter DEF PickupLife, JobsShaped, PickupTypeOK
    <3>2. pickupJob[w].op = "submit" /\ pickupJob[w].step \in {"gate", "book"}
          /\ pickupJob[w].to = "PRICING_REVIEW"
      BY <1>1, <2>2, <3>1, StepTellsOp DEF PickupLife, HandledPickupExists, JobShape
    <3>3. ~Book(w)
      BY <2>2, <3>2 DEF Book, PickupTypeOK
    <3>4. Gate(w)
      BY <1>2, <3>2, <3>3
         DEF ResumePickup, PickupAt, SumPickupRows, Release, Settle,
             PickupWriteOffRejected, Hand, NoCost, FlipPickup, Scan, CheckAdd, Add
    <3> QED
      BY <3>4 DEF Gate, rows
  <2> QED
    BY <2>1, <2>2
<1>3. ASSUME NEW w \in PickupActors, PickupAbort(w)
      PROVE  /\ booking'[p] = booking[p] /\ items'[p] = items[p]
             /\ collected'[p] = collected[p] /\ scanned'[p] = scanned[p]
             /\ pickupReturned'[p] = pickupReturned[p]
  BY <1>3 DEF PickupAbort, rows
<1>4. ASSUME NEW w \in PickupActors, NEW q \in Pickups, NEW r \in PickupJobs, Started(w, q, r)
      PROVE  /\ booking'[p] = booking[p] /\ items'[p] = items[p]
             /\ collected'[p] = collected[p] /\ scanned'[p] = scanned[p]
             /\ pickupReturned'[p] = pickupReturned[p]
  BY <1>4 DEF Started, invVars
<1>5. CASE TransitionDue \/ Listing
  BY <1>5 DEF TransitionDue, Listing, invVars, rows
<1> QED
  BY <1>2, <1>3, <1>4, <1>5, PickupStepCases

LEMMA NextPickupLife ==
    ASSUME PickupTypeOK, PickupLife, [PickupNext]_pickupVars
    PROVE  PickupLife'
BY ShapesKept, NewPickupStaysAlone, HandledPickupStays, NothingComesBefore DEF PickupLife

LEMMA InitPickupLife == PickupInit => PickupLife
BY PickupIdleIsJob, PickupsType
   DEF PickupInit, InvInit, PickupLife, JobsShaped, JobShape, NewPickupAlone, HandledPickupExists,
       ListedPickupExists, NothingBeforePickup, NoQty, NoItems

------------------------------------------------------------------------------
(* The row locks.  A submit that passed the gate owns the row lock of each *)
(* of its items until it commits, as a booking transaction of an order     *)
(* does; every other handler leaves a locked row as it is.                 *)

GateStaysGood == \A w \in PickupActors : PickupAt(w, "book") =>
    \A a \in Items(On(w)) : /\ assetLock[a] = w
                            /\ \A l \in CartLines : Cart[On(w)][l][a] <= avail[a]

\* A step that leaves the row of a, its lock and its bookings as they were.
SameRow(a) ==
    /\ total'[a] = total[a] /\ avail'[a] = avail[a] /\ assetLock'[a] = assetLock[a]
    /\ \A g \in Holders : booking'[g][a] = booking[g][a]

\* A write-back that gives nothing back leaves the counter alone.
LEMMA NothingRestored ==
    ASSUME InvTypeOK, NEW back, NEW a \in Assets, back[a] = 0
    PROVE  Restored(back)[a] = avail[a]
BY DEF Restored

LEMMA PickupLeavesLocked ==
    ASSUME PickupTypeOK, GateStaysGood, NEW v \in Actors, NEW a \in Assets, assetLock[a] = v,
           NEW w \in PickupActors, ResumePickup(w) \/ PickupAbort(w),
           w # v \/ (PickupAt(w, "book") /\ pickupJob'[w] = pickupJob[w])
    PROVE  SameRow(a)
<1>1. /\ v # Nobody /\ InvTypeOK /\ pickupJob \in [PickupActors -> PickupJobs]
      /\ total[a] \in Nat /\ avail[a] \in Nat
      /\ booking \in [Holders -> [Assets -> Nat]] /\ assetLock \in [Assets -> Actors \cup {Nobody}]
  BY NobodyType DEF PickupTypeOK, InvTypeOK
<1>2. ASSUME ResumePickup(w)
      PROVE  /\ On(w) \in Holders /\ pickupJob[w].seen \in [Assets -> Nat]
             /\ pickupJob[w].count \in [Assets -> Nat] /\ pickupJob[w].short \in [Assets -> Nat]
             /\ pickupJob[w].step # "idle"
  BY <1>2, StatusAfter, RunningPickup
<1>3. PickupIdle.step = "idle"
  BY PickupIdleIsJob
<1>4. CASE Gate(w)
  <2>1. a \notin Items(On(w)) \/ assetLock'[a] = assetLock[a]
    BY <1>1, <1>4 DEF Gate, Unlocked
  <2>2. assetLock'[a] = assetLock[a]
    BY <1>1, <1>4, <2>1 DEF Gate, LockedBy
  <2> QED
    BY <1>4, <2>2 DEF Gate, SameRow
<1>5. CASE Book(w)
  <2>1. w # v
    <3>1. FinishPickup(w)
      BY <1>5 DEF Book
    <3>2. pickupJob'[w].step # "book"
      BY <1>1, <1>3, <3>1 DEF FinishPickup
    <3> QED
      BY <3>2 DEF PickupAt
  <2>2. a \notin Items(On(w)) /\ On(w) \in Holders
    BY <1>2, <1>5, <2>1 DEF GateStaysGood, Book, ResumePickup
  <2>3. Need[On(w)][a] = 0
    BY <2>2, NeedType DEF Items
  <2>4. avail'[a] = avail[a] /\ \A g \in Holders : booking'[g][a] = booking[g][a]
    BY <1>1, <1>5, <2>2, <2>3 DEF Book, InsertRows, Decrement, AtLeastZero
  <2>5. assetLock'[a] = assetLock[a] /\ total'[a] = total[a]
    BY <1>1, <1>5, <2>1 DEF Book, UnlockedBy
  <2> QED
    BY <2>4, <2>5 DEF SameRow
<1>6. ASSUME Unlocked(PickupRowsTouched(w)), ResumePickup(w)
      PROVE  /\ pickupJob[w].seen[a] = 0 /\ booking[On(w)][a] = 0 /\ pickupJob[w].short[a] = 0
             /\ DeleteRows(On(w)) => \A g \in Holders : booking'[g][a] = booking[g][a]
  <2>1. a \notin PickupRowsTouched(w)
    BY <1>1, <1>6 DEF Unlocked
  <2>2. /\ pickupJob[w].seen[a] = 0 /\ booking[On(w)][a] = 0 /\ pickupJob[w].short[a] = 0
    BY <1>1, <1>2, <1>6, <2>1 DEF PickupRowsTouched
  <2> QED
    BY <1>1, <1>2, <1>6, <2>2 DEF DeleteRows
<1>7. CASE Release(w)
  <2>1. avail'[a] = avail[a]
    BY <1>1, <1>6, <1>7, NothingRestored DEF Release, ResumePickup
  <2> QED
    BY <1>6, <1>7, <2>1 DEF Release, ResumePickup, SameRow
<1>8. CASE Settle(w)
  <2>1. PickupGivenBack(w)[a] = 0 /\ PickupTotalAfter(w)[a] = total[a]
    BY <1>1, <1>2, <1>6, <1>8
       DEF Settle, ResumePickup, PickupGivenBack, PickupTotalAfter, AtMost, AtLeastZero
  <2>2. avail'[a] = avail[a] /\ total'[a] = total[a]
    BY <1>1, <1>8, <2>1, NothingRestored DEF Settle
  <2> QED
    BY <1>6, <1>8, <2>2 DEF Settle, ResumePickup, SameRow
<1>9. CASE Hand(w)
  <2> DEFINE back == [b \in Assets |-> IF b \in Reduced(w)
                            THEN pickupJob[w].seen[b] - pickupJob[w].count[b] ELSE 0]
  <2>1. a \notin Reduced(w)
    BY <1>1, <1>9 DEF Hand, Unlocked
  <2>2. avail'[a] = avail[a]
    <3>1. avail' = Restored(back) /\ back[a] = 0
      BY <1>9, <2>1 DEF Hand
    <3> HIDE DEF back
    <3> QED
      BY <1>1, <3>1, NothingRestored
  <2>3. \A g \in Holders : booking'[g][a] = booking[g][a]
    BY <1>1, <1>9, <2>1 DEF Hand
  <2> QED
    BY <1>9, <2>2, <2>3 DEF Hand, SameRow
<1>10. CASE Add(w)
  <2>1. pickupJob[w].seen[a] = 0
    BY <1>1, <1>2, <1>10 DEF Add, ResumePickup
  <2> QED
    BY <1>1, <1>2, <1>10, <2>1 DEF Add, SameRow, AtLeastZero
<1>11. CASE SumPickupRows(w) \/ PickupWriteOffRejected(w) \/ CheckAdd(w)
  BY <1>11 DEF SumPickupRows, PickupWriteOffRejected, CheckAdd, invVars, SameRow
<1>12. CASE NoCost(w) \/ FlipPickup(w) \/ Scan(w)
  BY <1>12 DEF NoCost, FlipPickup, Scan, invVars, SameRow
<1>13. CASE PickupAbort(w)
  <2>1. w # v
    BY <1>1, <1>3, <1>13 DEF PickupAbort, FinishPickup, PickupAt
  <2> QED
    BY <1>1, <1>13, <2>1 DEF PickupAbort, UnlockedBy, SameRow
<1> QED
  BY <1>4, <1>5, <1>7, <1>8, <1>9, <1>10, <1>11, <1>12, <1>13 DEF ResumePickup

\* A handler of a self-pickup leaves the row that another one locked alone,
\* and so does everything else that happens to self-pickups.
LEMMA PickupStepLeavesLocked ==
    ASSUME PickupTypeOK, GateStaysGood, [PickupNext]_pickupVars, NEW v \in Actors,
           NEW a \in Assets, assetLock[a] = v,
           v \in PickupActors => PickupAt(v, "book") /\ pickupJob'[v] = pickupJob[v]
    PROVE  SameRow(a)
<1>1. ASSUME NEW w \in PickupActors, ResumePickup(w) \/ PickupAbort(w)
      PROVE  SameRow(a)
  BY <1>1, PickupLeavesLocked
<1>2. ASSUME NEW w \in PickupActors, NEW p \in Pickups, NEW r \in PickupJobs, Started(w, p, r)
      PROVE  SameRow(a)
  BY <1>2 DEF Started, invVars, SameRow
<1>3. CASE TransitionDue \/ Listing
  BY <1>3 DEF TransitionDue, Listing, invVars, SameRow
<1> QED
  BY <1>1, <1>2, <1>3, PickupStepCases

\* Each line of the cart of p, on its own, is there.
LinesFit(p, a, counter) == \A l \in CartLines : Cart[p][l][a] <= counter

\* What a submit found at the gate is still there when it books.
LEMMA GatesStayGood ==
    ASSUME PickupTypeOK, JobsShaped, GateStaysGood, [PickupNext]_pickupVars
    PROVE  GateStaysGood'
<1> SUFFICES ASSUME NEW v \in PickupActors, pickupJob'[v].step = "book",
                    NEW a \in Items(pickupJob'[v].pickup)
             PROVE  assetLock'[a] = v /\ LinesFit(pickupJob'[v].pickup, a, avail'[a])
  BY DEF GateStaysGood, LinesFit, PickupAt, On, Items
<1>1. a \in Assets /\ v \in Actors /\ InvTypeOK /\ pickupJob \in [PickupActors -> PickupJobs]
  BY PickupActorsType DEF Items, PickupTypeOK
<1>2. CASE pickupJob'[v] = pickupJob[v]
  <2>1. PickupAt(v, "book") /\ assetLock[a] = v /\ LinesFit(pickupJob'[v].pickup, a, avail[a])
    BY <1>2 DEF PickupAt, GateStaysGood, On, LinesFit
  <2>2. SameRow(a)
    BY <1>1, <1>2, <2>1, PickupStepLeavesLocked
  <2> QED
    BY <2>1, <2>2 DEF SameRow
<1>3. ASSUME NEW w \in PickupActors, ResumePickup(w) \/ PickupAbort(w), pickupJob'[v] # pickupJob[v]
      PROVE  assetLock'[a] = v /\ LinesFit(pickupJob'[v].pickup, a, avail'[a])
  <2>1. v = w /\ GoesOn(pickupJob[w], pickupJob'[w])
    BY <1>3, PickupJobAfter, PickupIdleIsJob
  <2>2. pickupJob[v].step = "gate" /\ pickupJob'[v].pickup = pickupJob[v].pickup
    BY <2>1 DEF GoesOn
  <2>3. pickupJob[v].pickup \in Holders
    BY <2>2, RunningPickup DEF On
  <2>4. Gate(v)
    <3>1. pickupJob'[v] # PickupIdle
      BY PickupIdleIsJob
    <3>2. ~PickupAbort(v)
      BY <1>1, <3>1 DEF PickupAbort, FinishPickup
    <3> QED
      BY <1>3, <2>1, <2>2, <3>2
         DEF ResumePickup, PickupAt, Book, SumPickupRows, Release, Settle,
             PickupWriteOffRejected, Hand, NoCost, FlipPickup, Scan, CheckAdd, Add
  <2>5. Admitted(On(v))
    BY <1>1, <2>4, PickupIdleIsJob DEF Gate, FinishPickup
  <2>6. assetLock' = LockedBy(v, Items(On(v))) /\ avail' = avail
    BY <2>4, <2>5 DEF Gate
  <2> QED
    BY <1>1, <2>2, <2>5, <2>6 DEF LockedBy, On, Admitted, LinesFit
<1>4. ASSUME NEW w \in PickupActors, NEW p \in Pickups, NEW r \in PickupJobs, Started(w, p, r)
      PROVE  pickupJob'[v] = pickupJob[v]
  <2>1. CASE w # v
    BY <1>4, <2>1, StartedJob
  <2>2. CASE w = v
    <3>1. pickupJob'[v] = r /\ JobShape(r) /\ r.op = "submit"
      BY <1>4, <2>2, StartedJob, StepTellsOp
    <3>2. r.step = "gate"
      BY <1>4, <3>1 DEF Started, PickupStarts, SubmitStarts, CancelStarts, DeclineStarts,
         NoCostStarts, StatusStarts, HandoverStarts, CompleteStarts, AddStarts, ScanOutStarts,
         ScanInStarts, ExpireStarts
    <3> QED
      BY <3>1, <3>2
  <2> QED
    BY <2>1, <2>2
<1>5. CASE TransitionDue \/ Listing
  BY <1>2, <1>5 DEF TransitionDue, Listing
<1> QED
  BY <1>2, <1>3, <1>4, <1>5, PickupStepCases

------------------------------------------------------------------------------
(* Orders and self-pickups together.                                       *)

\* A handler of an order leaves a row that a submit of a self-pickup locked
\* alone.
LEMMA OrderLeavesLocked ==
    ASSUME TypeOK, CheckStaysGood, [Next]_vars, NEW v \in PickupActors, NEW a \in Assets,
           assetLock[a] = v
    PROVE  SameRow(a)
<1>1. /\ v # Nobody /\ v \notin OrderActors /\ InvTypeOK
      /\ total[a] \in Nat /\ avail[a] \in Nat
      /\ booking \in [Holders -> [Assets -> Nat]] /\ assetLock \in [Assets -> Actors \cup {Nobody}]
  BY NobodyType, PickupActorsType, ActorsSplit DEF TypeOK, InvTypeOK
<1>2. ASSUME UNCHANGED invVars
      PROVE  SameRow(a)
  BY <1>2 DEF invVars, SameRow
<1>3. ASSUME NEW w \in OrderActors, Resume(w)
      PROVE  SameRow(a)
  <2>1. w # v /\ job[w].step # "idle"
    BY <1>1, <1>3 DEF Resume, At, LockAndCheck, BookSubmitted, BookApproved, Flip, TakeOrderRow,
           SumRows, ReleaseAndFlip, WriteOffRejected, CloseDeleteRows, CloseRestore
  <2>2. /\ Item(w) \in Holders /\ job[w].seen \in [Assets -> Nat] /\ job[w].back \in [Assets -> Nat]
    BY <2>1, OrdersType DEF TypeOK, Jobs, Item
  <2>3. CASE LockAndCheck(w)
    <3>1. a \notin Items(Item(w)) \/ assetLock'[a] = assetLock[a]
      BY <1>1, <2>3 DEF LockAndCheck, Unlocked
    <3>2. assetLock'[a] = assetLock[a]
      BY <1>1, <2>3, <3>1 DEF LockAndCheck, LockedBy
    <3> QED
      BY <2>3, <3>2 DEF LockAndCheck, SameRow
  <2>4. CASE BookSubmitted(w) \/ BookApproved(w)
    <3>1. At(w, "book")
      BY <2>4 DEF BookSubmitted, BookApproved
    <3>2. a \notin Items(Item(w))
      BY <2>1, <3>1 DEF CheckStaysGood
    <3>3. Need[Item(w)][a] = 0
      BY <2>2, <3>2, NeedType DEF Items
    <3>4. InsertRows(Item(w)) => \A g \in Holders : booking'[g][a] = booking[g][a]
      BY <1>1, <2>2, <3>3 DEF InsertRows
    <3>5. Decrement(Item(w)) => avail'[a] = avail[a]
      BY <1>1, <3>3 DEF Decrement, AtLeastZero
    <3>6. assetLock'[a] = assetLock[a] /\ total' = total
      BY <1>1, <2>1, <2>4 DEF BookSubmitted, BookApproved, UnlockedBy
    <3>7. CASE BookSubmitted(w)
      BY <3>4, <3>5, <3>6, <3>7 DEF BookSubmitted, SameRow
    <3>8. CASE BookApproved(w)
      BY <3>2, <3>4, <3>6, <3>8 DEF BookApproved, SameRow
    <3> QED
      BY <2>4, <3>7, <3>8
  <2>5. CASE ReleaseAndFlip(w)
    <3>1. a \notin RowsTouched(w)
      BY <1>1, <2>5 DEF ReleaseAndFlip, Unlocked
    <3>2. job[w].seen[a] = 0 /\ booking[Item(w)][a] = 0 /\ TotalAfter(w)[a] = total[a]
      BY <1>1, <2>2, <3>1 DEF RowsTouched
    <3>3. GivenBack(w)[a] = 0
      BY <2>2, <3>2 DEF GivenBack, AtMost
    <3>4. avail'[a] = avail[a] /\ total'[a] = total[a]
      BY <1>1, <2>5, <3>2, <3>3, NothingRestored DEF ReleaseAndFlip
    <3>5. \A g \in Holders : booking'[g][a] = booking[g][a]
      BY <1>1, <2>2, <2>5, <3>2 DEF ReleaseAndFlip, DeleteRows
    <3> QED
      BY <2>5, <3>4, <3>5 DEF ReleaseAndFlip, SameRow
  <2>6. CASE CloseDeleteRows(w)
    <3>1. booking[Item(w)][a] = 0
      BY <1>1, <2>2, <2>6 DEF CloseDeleteRows, Unlocked
    <3>2. \A g \in Holders : booking'[g][a] = booking[g][a]
      BY <1>1, <2>2, <2>6, <3>1 DEF CloseDeleteRows, DeleteRows
    <3> QED
      BY <2>6, <3>2 DEF CloseDeleteRows, SameRow
  <2>7. ASSUME NEW b \in Assets, CloseRestore(w, b)
        PROVE  SameRow(a)
    <3> DEFINE back == [c \in Assets |-> IF c = b THEN job[w].seen[b] ELSE 0]
    <3>1. avail' = Restored(back) /\ b # a
      BY <1>1, <2>7 DEF CloseRestore
    <3>2. back[a] = 0
      BY <3>1
    <3>3. avail'[a] = avail[a]
      <4> HIDE DEF back
      <4> QED
        BY <1>1, <3>1, <3>2, NothingRestored
    <3> QED
      BY <2>7, <3>3 DEF CloseRestore, SameRow
  <2>8. CASE Flip(w) \/ TakeOrderRow(w) \/ SumRows(w) \/ WriteOffRejected(w)
    BY <1>2, <2>8 DEF Flip, TakeOrderRow, SumRows, WriteOffRejected
  <2> QED
    BY <1>3, <2>3, <2>4, <2>5, <2>6, <2>7, <2>8 DEF Resume
<1>4. CASE \E w \in Workers, o \in Orders : Begin(w, o)
  <2>1. ASSUME NEW w, NEW name, NEW op, NEW o, NEW step, NEW to, Start(w, name, op, o, step, to)
        PROVE  UNCHANGED invVars
    BY <2>1 DEF Start
  <2>2. ASSUME NEW w, NEW o, BeginCompleteInbound(w, o)
        PROVE  UNCHANGED invVars
    BY <2>2 DEF BeginCompleteInbound
  <2>3. UNCHANGED invVars
    BY <1>4, <2>1, <2>2
       DEF Begin, BeginSubmit, BeginApproveQuote, BeginDeclineQuote, BeginCancelOrder,
           BeginSubmitForApproval, BeginAdminApproveQuote, BeginReturnToLogistics,
           BeginMarkAsNoCost, BeginProgress, BeginProgressToClosed, BeginCompleteOutbound
  <2> QED
    BY <1>2, <2>3
<1>5. CASE \E o \in Orders : CronBegin(o)
  BY <1>2, <1>5 DEF CronBegin, BeginEventStart, BeginEventEnd, BeginExpire, Start
<1>6. CASE \/ ListStuckQuotes \/ Tick \/ UNCHANGED vars
           \/ \E o \in Orders, b \in Assets : \E q \in 1 .. Need[o][b] : InboundScan(o, b, q)
  BY <1>2, <1>6 DEF ListStuckQuotes, Tick, InboundScan, vars
<1>7. ASSUME NEW w \in OrderActors, Abort(w)
      PROVE  SameRow(a)
  BY <1>1, <1>7 DEF Abort, UnlockedBy, SameRow
<1> QED
  BY <1>3, <1>4, <1>5, <1>6, <1>7 DEF Next

\* The handlers of self-pickups keep the counters within the pool.
LEMMA PickupCountersKept ==
    ASSUME PickupTypeOK, AvailableWithinTotal, [PickupNext]_pickupVars
    PROVE  AvailableWithinTotal'
<1> SUFFICES ASSUME NEW a \in Assets
             PROVE  avail'[a] <= total'[a] /\ total'[a] <= Stock[a]
  BY DEF AvailableWithinTotal
<1>1. /\ InvTypeOK /\ avail[a] \in Nat /\ total[a] \in Nat /\ Stock[a] \in Nat
      /\ avail[a] <= total[a] /\ total[a] <= Stock[a]
  BY StockType DEF PickupTypeOK, InvTypeOK, AvailableWithinTotal
<1>2. ASSUME NEW back \in [Assets -> Nat]
      PROVE  Restored(back)[a] <= total[a]
  BY <1>1 DEF Restored, AtMost, AtLeastZero
<1>3. ASSUME UNCHANGED <<total, avail>>
      PROVE  avail'[a] <= total'[a] /\ total'[a] <= Stock[a]
  BY <1>1, <1>3
<1>4. ASSUME NEW w \in PickupActors, ResumePickup(w)
      PROVE  avail'[a] <= total'[a] /\ total'[a] <= Stock[a]
  <2>1. /\ On(w) \in Holders /\ pickupJob[w].step # "idle"
        /\ pickupJob[w].seen \in [Assets -> Nat] /\ pickupJob[w].count \in [Assets -> Nat]
    BY <1>4, StatusAfter, RunningPickup
  <2>2. Need[On(w)][a] \in Nat
    BY <2>1, NeedType
  <2>3. CASE Book(w) \/ Add(w)
    BY <1>1, <2>1, <2>2, <2>3 DEF Book, Add, Decrement, AtLeastZero
  <2>4. CASE Release(w)
    BY <1>1, <1>2, <2>1, <2>4 DEF Release
  <2>5. CASE Settle(w)
    <3>1. avail'[a] <= total'[a] /\ total'[a] = PickupTotalAfter(w)[a]
      BY <2>5 DEF Settle, PickupCheckHolds
    <3>2. PickupTotalAfter(w)[a] \in Nat /\ PickupTotalAfter(w)[a] <= total[a]
      BY <2>1, PickupSettlementType
    <3> QED
      BY <1>1, <3>1, <3>2
  <2>6. CASE Hand(w)
    <3> DEFINE back == [b \in Assets |-> IF b \in Reduced(w)
                              THEN pickupJob[w].seen[b] - pickupJob[w].count[b] ELSE 0]
    <3>1. back \in [Assets -> Nat]
      BY <2>1 DEF Reduced
    <3>2. avail' = Restored(back) /\ total' = total
      BY <2>6 DEF Hand
    <3> HIDE DEF back
    <3> QED
      BY <1>1, <1>2, <3>1, <3>2
  <2>7. CASE Gate(w) \/ SumPickupRows(w) \/ PickupWriteOffRejected(w) \/ CheckAdd(w)
    BY <1>3, <2>7 DEF Gate, SumPickupRows, PickupWriteOffRejected, CheckAdd, invVars
  <2>8. CASE NoCost(w) \/ FlipPickup(w) \/ Scan(w)
    BY <1>3, <2>8 DEF NoCost, FlipPickup, Scan, invVars
  <2> QED
    BY <1>4, <2>3, <2>4, <2>5, <2>6, <2>7, <2>8 DEF ResumePickup
<1>5. ASSUME NEW w \in PickupActors, PickupAbort(w)
      PROVE  avail'[a] <= total'[a] /\ total'[a] <= Stock[a]
  BY <1>3, <1>5 DEF PickupAbort
<1>6. ASSUME NEW w \in PickupActors, NEW p \in Pickups, NEW r \in PickupJobs, Started(w, p, r)
      PROVE  avail'[a] <= total'[a] /\ total'[a] <= Stock[a]
  BY <1>3, <1>6 DEF Started, invVars
<1>7. CASE TransitionDue \/ Listing
  BY <1>3, <1>7 DEF TransitionDue, Listing, invVars
<1> QED
  BY <1>4, <1>5, <1>6, <1>7, PickupStepCases

\* Handlers of self-pickups write no rows of anybody else.
LEMMA PickupRowsOnly ==
    ASSUME PickupTypeOK, [PickupNext]_pickupVars, NEW h \in Holders \ Pickups, NEW a \in Assets
    PROVE  booking'[h][a] = booking[h][a]
<1>1. booking \in [Holders -> [Assets -> Nat]]
  BY DEF PickupTypeOK, InvTypeOK
<1>2. ASSUME UNCHANGED booking
      PROVE  booking'[h][a] = booking[h][a]
  BY <1>2
<1>3. ASSUME NEW w \in PickupActors, ResumePickup(w)
      PROVE  booking'[h][a] = booking[h][a]
  <2>1. On(w) \in Holders /\ h # On(w)
    BY <1>3, StatusAfter
  <2>2. CASE Book(w)
    BY <1>1, <2>1, <2>2 DEF Book, InsertRows
  <2>3. CASE Release(w) \/ Settle(w)
    BY <1>1, <2>1, <2>3 DEF Release, Settle, DeleteRows
  <2>4. CASE Hand(w)
    BY <1>1, <2>1, <2>4 DEF Hand
  <2>5. CASE Add(w)
    BY <1>1, <2>1, <2>5 DEF Add
  <2>6. CASE Gate(w) \/ SumPickupRows(w) \/ PickupWriteOffRejected(w) \/ CheckAdd(w)
    BY <1>2, <2>6 DEF Gate, SumPickupRows, PickupWriteOffRejected, CheckAdd, invVars
  <2>7. CASE NoCost(w) \/ FlipPickup(w) \/ Scan(w)
    BY <1>2, <2>7 DEF NoCost, FlipPickup, Scan, invVars
  <2> QED
    BY <1>3, <2>2, <2>3, <2>4, <2>5, <2>6, <2>7 DEF ResumePickup
<1>4. ASSUME NEW w \in PickupActors, PickupAbort(w)
      PROVE  booking'[h][a] = booking[h][a]
  BY <1>2, <1>4 DEF PickupAbort
<1>5. ASSUME NEW w \in PickupActors, NEW p \in Pickups, NEW r \in PickupJobs, Started(w, p, r)
      PROVE  booking'[h][a] = booking[h][a]
  BY <1>2, <1>5 DEF Started, invVars
<1>6. CASE TransitionDue \/ Listing
  BY <1>2, <1>6 DEF TransitionDue, Listing, invVars
<1> QED
  BY <1>3, <1>4, <1>5, <1>6, PickupStepCases

\* What every state of the whole system satisfies.
SInv == IInv /\ PickupTypeOK /\ JobsShaped /\ GateStaysGood

LEMMA OrderStepInv ==
    ASSUME SInv, [Next]_vars, UNCHANGED ownPickupVars
    PROVE  SInv'
<1>1. IInv' /\ TypeOK'
  BY NextInv DEF SInv, IInv
<1>2. /\ pickupJob' = pickupJob
      /\ PickupTypeOK'
  BY <1>1 DEF SInv, PickupTypeOK, ownPickupVars, rows, cronLists, TypeOK
<1>3. JobsShaped'
  BY <1>2 DEF SInv, JobsShaped
<1>4. GateStaysGood'
  <2> SUFFICES ASSUME NEW w \in PickupActors, pickupJob[w].step = "book",
                      NEW a \in Items(pickupJob[w].pickup)
               PROVE  assetLock'[a] = w /\ LinesFit(pickupJob[w].pickup, a, avail'[a])
    BY <1>2 DEF GateStaysGood, PickupAt, On, Items, LinesFit
  <2>1. a \in Assets
    BY DEF Items
  <2>2. assetLock[a] = w /\ LinesFit(pickupJob[w].pickup, a, avail[a])
    BY DEF SInv, GateStaysGood, PickupAt, On, LinesFit
  <2>3. SameRow(a)
    BY <2>1, <2>2, OrderLeavesLocked DEF SInv, IInv
  <2> QED
    BY <2>2, <2>3 DEF SameRow
<1> QED
  BY <1>1, <1>2, <1>3, <1>4 DEF SInv

LEMMA PickupStepInv ==
    ASSUME SInv, [PickupNext]_pickupVars, UNCHANGED orderVars
    PROVE  SInv'
<1>1. PickupTypeOK' /\ JobsShaped' /\ GateStaysGood'
  BY PickupNextType, ShapesKept, GatesStayGood DEF SInv
<1>2. TypeOK /\ TypeOK' /\ job' = job
  BY <1>1 DEF SInv, IInv, TypeOK, PickupTypeOK, orderVars
<1>3. AvailableWithinTotal'
  BY PickupCountersKept DEF SInv, IInv
<1>4. CheckStaysGood'
  <2>1. ASSUME NEW w \in OrderActors, job[w].step = "book", NEW a \in Items(job[w].order)
        PROVE  assetLock'[a] = w /\ NoWorse(a)
    <3>1. w \in Actors /\ w \notin PickupActors /\ a \in Assets
      BY ActorsSplit DEF Items
    <3>2. assetLock[a] = w
      BY <2>1 DEF SInv, IInv, CheckStaysGood, At, Item
    <3>3. SameRow(a)
      BY <3>1, <3>2, PickupStepLeavesLocked DEF SInv
    <3>4. \A g \in Holders : booking'[g][a] = booking[g][a] /\ booking[g][a] \in Nat
      BY <1>2, <3>1, <3>3 DEF SameRow, TypeOK, InvTypeOK
    <3> QED
      BY <3>2, <3>3, <3>4 DEF SameRow, NoWorse
  <2> QED
    BY <1>2, <2>1, ChecksKept DEF SInv, IInv
<1> QED
  BY <1>1, <1>2, <1>3, <1>4 DEF SInv, IInv

\* Every step of the system is one of the orders or one of the self-pickups.
LEMMA SystemStepKinds ==
    ASSUME [SystemNext]_systemVars
    PROVE  \/ [Next]_vars /\ UNCHANGED ownPickupVars
           \/ [PickupNext]_pickupVars /\ UNCHANGED orderVars
BY DEF SystemNext, OrderStep, PickupStep, systemVars, vars, pickupVars

LEMMA InitGates == PickupInit => GateStaysGood
BY PickupIdleIsJob DEF PickupInit, GateStaysGood, PickupAt

\* In the whole system a check of an order and the gate of a submit both hold
\* until their handler books, whatever the handlers of the other kind do.
THEOREM SystemInvariant == SystemSpec => []SInv
<1>1. SystemInit => SInv
  BY InitInv, PickupInitType, InitPickupLife, InitGates DEF SystemInit, SInv, PickupLife
<1>2. SInv /\ [SystemNext]_systemVars => SInv'
  BY OrderStepInv, PickupStepInv, SystemStepKinds
<1> QED
  BY <1>1, <1>2, PTL DEF SystemSpec

LEMMA SystemStepFits ==
    ASSUME SInv, [SystemNext]_systemVars
    PROVE  \A o \in Orders, a \in Assets : booking'[o][a] > booking[o][a] =>
               \A t \in Window[o][a].from .. Window[o][a].until : Committed(a, t)' <= total'[a]
<1>1. CASE [Next]_vars
  BY <1>1, StepFits DEF SInv
<1>2. CASE [PickupNext]_pickupVars
  <2> SUFFICES ASSUME NEW o \in Orders, NEW a \in Assets, booking'[o][a] > booking[o][a]
               PROVE  FALSE
    OBVIOUS
  <2>1. o \in Holders \ Pickups
    BY HoldersSplit
  <2>2. booking'[o][a] = booking[o][a] /\ booking[o][a] \in Nat
    BY <1>2, <2>1, PickupRowsOnly DEF SInv, PickupTypeOK, InvTypeOK
  <2> QED
    BY <2>2
<1> QED
  BY <1>1, <1>2, SystemStepKinds

\* Also beside the self-pickups, stock is given to an order only if every day
\* of its window then fits what the platform owns.
THEOREM SystemAdmissionsFit == SystemSpec => OrderAdmissionFits
<1>1. SInv /\ [SystemNext]_systemVars => [\A o \in Orders, a \in Assets :
          booking'[o][a] > booking[o][a] =>
              \A t \in Window[o][a].from .. Window[o][a].until : Committed(a, t)' <= total'[a]]_systemVars
  BY SystemStepFits
<1> QED
  BY <1>1, SystemInvariant, PTL DEF SystemSpec, OrderAdmissionFits

------------------------------------------------------------------------------
(* What a step of a handler writes to its pickup.  A pickup that is not in  *)
(* `overtaken' afterwards was at its commit what the handler had read, so  *)
(* the guard of a handler still holds when it writes.                      *)

\* Each step of a handler is the action of its name.
LEMMA ActionOfStep ==
    ASSUME NEW w, ResumePickup(w)
    PROVE  /\ pickupJob[w].step = "gate" => Gate(w)
           /\ pickupJob[w].step = "book" => Book(w)
           /\ pickupJob[w].step = "sum" => SumPickupRows(w)
           /\ pickupJob[w].step = "release" => Release(w)
           /\ pickupJob[w].step = "settle" => Settle(w) \/ PickupWriteOffRejected(w)
           /\ pickupJob[w].step = "hand" => Hand(w)
           /\ pickupJob[w].step = "noCost" => NoCost(w)
           /\ pickupJob[w].step = "flip" => FlipPickup(w)
           /\ pickupJob[w].step = "scan" => Scan(w)
           /\ pickupJob[w].step = "check" => CheckAdd(w)
           /\ pickupJob[w].step = "add" => Add(w)
           /\ pickupJob[w].step \in {"gate", "book", "sum", "release", "settle", "hand",
                                     "noCost", "flip", "scan", "check", "add"}
<1>1. /\ (Gate(w) => pickupJob[w].step = "gate") /\ (Book(w) => pickupJob[w].step = "book")
      /\ (SumPickupRows(w) => pickupJob[w].step = "sum")
      /\ (Release(w) => pickupJob[w].step = "release")
      /\ (Settle(w) => pickupJob[w].step = "settle")
      /\ (PickupWriteOffRejected(w) => pickupJob[w].step = "settle")
      /\ (Hand(w) => pickupJob[w].step = "hand") /\ (NoCost(w) => pickupJob[w].step = "noCost")
      /\ (FlipPickup(w) => pickupJob[w].step = "flip") /\ (Scan(w) => pickupJob[w].step = "scan")
      /\ (CheckAdd(w) => pickupJob[w].step = "check") /\ (Add(w) => pickupJob[w].step = "add")
  BY DEF Gate, Book, SumPickupRows, Release, Settle, PickupWriteOffRejected, Hand, NoCost,
         FlipPickup, Scan, CheckAdd, Add, PickupAt
<1> QED
  BY <1>1 DEF ResumePickup

\* What was written over stays in the history.
LEMMA HistoryGrows ==
    ASSUME PickupTypeOK, [PickupNext]_pickupVars
    PROVE  overtaken \subseteq overtaken' /\ halfDone \subseteq halfDone'
<1>1. ASSUME NEW w \in PickupActors, ResumePickup(w)
      PROVE  overtaken \subseteq overtaken' /\ halfDone \subseteq halfDone'
  BY <1>1, StatusAfter
<1>2. ASSUME NEW w \in PickupActors, PickupAbort(w)
      PROVE  overtaken \subseteq overtaken' /\ halfDone \subseteq halfDone'
  BY <1>2 DEF PickupAbort
<1>3. ASSUME NEW w \in PickupActors, NEW p \in Pickups, NEW r \in PickupJobs, Started(w, p, r)
      PROVE  overtaken \subseteq overtaken' /\ halfDone \subseteq halfDone'
  BY <1>3 DEF Started
<1>4. CASE TransitionDue \/ Listing
  BY <1>4 DEF TransitionDue, Listing
<1> QED
  BY <1>1, <1>2, <1>3, <1>4, PickupStepCases

\* A write to a pickup that does not count as overtaken met its guard.
LEMMA MetItsGuard ==
    ASSUME NEW w, NEW current, Overtake(On(w), current), On(w) \notin overtaken'
    PROVE  current
BY DEF Overtake

\* The rows and scan events of p, and its status, are as they were.
Kept(p) == /\ booking'[p] = booking[p] /\ items'[p] = items[p]
           /\ collected'[p] = collected[p] /\ scanned'[p] = scanned[p]
Standing(p) == pickupStatus'[p] = pickupStatus[p]

\* What the handler w writes to its pickup p in each of its steps.
Books(w, p) ==
    /\ pickupJob[w].step = "book"
    /\ pickupStatus[p] = "NONE" /\ pickupStatus'[p] = "PRICING_REVIEW"
    /\ items'[p] = CartRows(p) /\ collected'[p] = CartRows(p)
    /\ booking'[p] = RowSum(CartRows(p)) /\ scanned'[p] = NoQty
Releases(w, p) ==
    /\ pickupJob[w].step = "release" /\ pickupJob[w].seen = booking[p]
    /\ pickupStatus[p] \in CancellableStatuses /\ Standing(p)
    /\ booking'[p] = NoQty /\ items'[p] = items[p]
    /\ collected'[p] = collected[p] /\ scanned'[p] = scanned[p]
Settles(w, p) ==
    /\ pickupJob[w].step = "settle" /\ pickupJob[w].seen = booking[p]
    /\ <<pickupJob[w].op, pickupStatus[p], pickupStatus'[p]>> \in
           {"expire"} \X StuckStatuses \X {"CANCELLED"}
               \cup {<<"complete", "AWAITING_RETURN", "CLOSED">>}
    /\ pickupJob[w].op = "complete" => pickupJob[w].rows = items[p]
    /\ booking'[p] = NoQty /\ items'[p] = items[p]
    /\ collected'[p] = collected[p] /\ scanned'[p] = scanned[p]
Hands(w, p) ==
    /\ pickupJob[w].step = "hand" /\ pickupJob[w].op = "handover"
    /\ pickupStatus[p] = "READY_FOR_PICKUP" /\ Standing(p)
    /\ pickupJob[w].count = scanned[p] /\ pickupJob[w].rows = items[p]
    /\ pickupJob[w].seen = IF IsPartial(scanned[p], items[p]) THEN booking[p] ELSE NoQty
    /\ booking'[p] = [a \in Assets |-> IF a \in Reduced(w) /\ booking[p][a] > 0
                                       THEN pickupJob[w].count[a] ELSE booking[p][a]]
    /\ collected'[p] = [l \in Lines |-> [a \in Assets |->
           IF pickupJob[w].rows[l][a] > 0 THEN pickupJob[w].count[a] ELSE collected[p][l][a]]]
    /\ items'[p] = items[p] /\ scanned'[p] = scanned[p]
Flips(w, p) ==
    /\ pickupJob[w].step = "flip"
    /\ pickupStatus[p] = pickupJob[w].read /\ pickupStatus'[p] = pickupJob[w].to
    /\ pickupJob[w].op = "handover" =>
           pickupJob[w].count = scanned[p] /\ pickupJob[w].rows = items[p]
    /\ Kept(p)
Scans(w, p) ==
    /\ pickupJob[w].step = "scan" /\ pickupJob[w].op = "scanOut"
    /\ pickupStatus[p] = "READY_FOR_PICKUP" /\ Standing(p)
    /\ pickupJob[w].count = scanned[p]
    /\ scanned'[p] = [a \in Assets |-> scanned[p][a] + pickupJob[w].seen[a]]
    /\ booking'[p] = booking[p] /\ items'[p] = items[p] /\ collected'[p] = collected[p]
Adds(w, p) ==
    /\ pickupJob[w].step = "add"
    /\ pickupStatus[p] \in {"CONFIRMED", "READY_FOR_PICKUP"} /\ Standing(p)
    /\ items'[p] = [items[p] EXCEPT !["added"] = [a \in Assets |-> @[a] + pickupJob[w].seen[a]]]
    /\ collected'[p] =
           [collected[p] EXCEPT !["added"] = [a \in Assets |-> @[a] + pickupJob[w].seen[a]]]
    /\ booking'[p] = [a \in Assets |-> booking[p][a] + pickupJob[w].seen[a]]
    /\ scanned'[p] = scanned[p]

Writes(w, p) == \/ Books(w, p) \/ Releases(w, p) \/ Settles(w, p) \/ Hands(w, p)
                \/ Flips(w, p) \/ Scans(w, p) \/ Adds(w, p)

\* A new pickup has the rows of its cart, and books what they add up to.
LEMMA CartIsNeeded ==
    ASSUME NEW p \in Pickups
    PROVE  /\ p \in Holders /\ CartRows(p) \in [Lines -> [Assets -> Nat]]
           /\ \A a \in Assets :
                  /\ RowSum(CartRows(p))[a] = Need[p][a]
                  /\ CartRows(p)["added"][a] = 0
                  /\ CartRows(p)["first"][a] = Cart[p]["first"][a]
                  /\ CartRows(p)["second"][a] = Cart[p]["second"][a]
<1>1. p \in Holders /\ Cart[p] \in [CartLines -> [Assets -> Nat]]
  BY PickupsType, CartType
<1>2. CartRows(p) \in [Lines -> [Assets -> Nat]]
  BY <1>1 DEF CartRows, Lines, NoQty
<1>3. ASSUME NEW a \in Assets
      PROVE  /\ CartRows(p)["added"][a] = 0
             /\ CartRows(p)["first"][a] = Cart[p]["first"][a]
             /\ CartRows(p)["second"][a] = Cart[p]["second"][a]
  BY DEF CartRows, Lines, CartLines, NoQty
<1>4. \A a \in Assets : Cart[p]["first"][a] \in Nat /\ Cart[p]["second"][a] \in Nat
  BY <1>1 DEF CartLines
<1> QED
  BY <1>1, <1>2, <1>3, <1>4, RowSumType, NeedOfCart

LEMMA OwnWrites ==
    ASSUME PickupTypeOK, PickupLife, NEW w \in PickupActors, ResumePickup(w),
           NEW p \in Pickups, p = On(w), p \notin overtaken'
    PROVE  \/ Writes(w, p)
           \/ /\ pickupJob[w].step \notin {"book", "release", "hand", "flip", "add"}
              /\ Kept(p) /\ Standing(p)
<1>1. /\ p \in Holders /\ JobShape(pickupJob[w]) /\ pickupJob[w] \in PickupJobs
      /\ pickupJob[w].step # "idle"
  BY StatusAfter DEF PickupLife, JobsShaped, PickupTypeOK
<1>2. /\ booking \in [Holders -> [Assets -> Nat]]
      /\ booking[p] \in [Assets -> Nat] /\ scanned[p] \in [Assets -> Nat]
      /\ items \in [Pickups -> [Lines -> [Assets -> Nat]]]
      /\ collected \in [Pickups -> [Lines -> [Assets -> Nat]]]
      /\ scanned \in [Pickups -> [Assets -> Nat]]
      /\ pickupStatus \in [Pickups -> PickupStatuses]
  BY <1>1 DEF PickupTypeOK, InvTypeOK
<1>3. CASE Book(w)
  <2>1. pickupJob[w].op = "submit" /\ pickupJob[w].to = "PRICING_REVIEW" /\ pickupJob[w].step = "book"
    BY <1>1, <1>3, StepTellsOp DEF Book, PickupAt, JobShape
  <2>2. /\ pickupStatus[p] = "NONE" /\ booking[p] = NoQty /\ scanned[p] = NoQty
    BY <2>1 DEF PickupLife, NewPickupAlone, NothingBeforePickup
  <2>3. booking'[p] = RowSum(CartRows(p))
    <3>1. booking'[p] = [a \in Assets |-> IF Need[p][a] > 0 THEN Need[p][a] ELSE booking[p][a]]
      BY <1>1, <1>2, <1>3 DEF Book, InsertRows
    <3>2. \A a \in Assets : booking[p][a] = 0 /\ Need[p][a] \in Nat
      BY <1>1, <2>2, NeedType DEF NoQty
    <3>3. RowSum(CartRows(p)) \in [Assets -> Nat] /\ \A a \in Assets : RowSum(CartRows(p))[a] = Need[p][a]
      BY CartIsNeeded, RowSumType
    <3>4. booking'[p] \in [Assets -> Nat] /\ \A a \in Assets : booking'[p][a] = Need[p][a]
      BY <3>1, <3>2
    <3> HIDE DEF RowSum
    <3> QED
      BY <3>3, <3>4
  <2>4. /\ items'[p] = CartRows(p) /\ collected'[p] = CartRows(p)
        /\ pickupStatus'[p] = "PRICING_REVIEW" /\ scanned'[p] = NoQty
    BY <1>2, <1>3, <2>1, <2>2 DEF Book
  <2> QED
    BY <2>1, <2>2, <2>3, <2>4 DEF Writes, Books
<1>4. ASSUME PickupCurrent(w)
      PROVE  /\ pickupStatus[p] = pickupJob[w].read
             /\ pickupJob[w].op = "expire" => pickupJob[w].read \in StuckStatuses
             /\ pickupJob[w].op \in {"handover", "scanOut"} => pickupJob[w].count = scanned[p]
             /\ pickupJob[w].op \in {"handover", "complete"} => pickupJob[w].rows = items[p]
  BY <1>4 DEF PickupCurrent
<1>5. CASE Release(w)
  <2>1. PickupCurrent(w) /\ pickupJob[w].seen = booking[p]
    BY <1>5 DEF Release, Overtake
  <2>2. pickupJob[w].step = "release" /\ pickupJob[w].read \in CancellableStatuses
    BY <1>1, <1>5, StepTellsOp DEF Release, PickupAt, JobShape, CancellableStatuses, StuckStatuses
  <2>3. booking'[p] = NoQty
    BY <1>1, <1>2, <1>5 DEF Release, DeleteRows, NoQty
  <2> QED
    BY <1>4, <1>5, <2>1, <2>2, <2>3 DEF Release, Writes, Releases, rows, Standing
<1>6. CASE Settle(w)
  <2>1. PickupCurrent(w) /\ pickupJob[w].seen = booking[p]
    BY <1>6 DEF Settle, Overtake
  <2>2. pickupJob[w].step = "settle" /\ pickupJob[w].op \in {"expire", "complete"}
    BY <1>1, <1>6, StepTellsOp DEF Settle, PickupAt
  <2>3. booking'[p] = NoQty /\ pickupStatus'[p] = pickupJob[w].to
    BY <1>1, <1>2, <1>6 DEF Settle, DeleteRows, NoQty
  <2>4. <<pickupJob[w].op, pickupStatus[p], pickupStatus'[p]>> \in
           {"expire"} \X StuckStatuses \X {"CANCELLED"}
               \cup {<<"complete", "AWAITING_RETURN", "CLOSED">>}
    BY <1>1, <1>4, <2>1, <2>2, <2>3 DEF JobShape
  <2> QED
    BY <1>4, <1>6, <2>1, <2>2, <2>3, <2>4 DEF Settle, Writes, Settles, rows
<1>7. CASE Hand(w)
  <2>1. PickupCurrent(w) /\ pickupJob[w].seen = ToReduce(w)
    BY <1>7 DEF Hand, Overtake
  <2>2. pickupJob[w].step = "hand" /\ pickupJob[w].op = "handover"
        /\ pickupJob[w].read = "READY_FOR_PICKUP"
    BY <1>1, <1>7, StepTellsOp DEF Hand, PickupAt, JobShape
  <2>3. /\ booking'[p] = [a \in Assets |-> IF a \in Reduced(w) /\ booking[p][a] > 0
                                       THEN pickupJob[w].count[a] ELSE booking[p][a]]
        /\ collected'[p] = [l \in Lines |-> [a \in Assets |->
             IF pickupJob[w].rows[l][a] > 0 THEN pickupJob[w].count[a] ELSE collected[p][l][a]]]
    BY <1>1, <1>2, <1>7 DEF Hand
  <2> QED
    BY <1>4, <1>7, <2>1, <2>2, <2>3 DEF Hand, Writes, Hands, ToReduce, Standing
<1>8. CASE FlipPickup(w)
  <2>1. PickupCurrent(w) /\ pickupStatus'[p] = pickupJob[w].to
    BY <1>2, <1>8 DEF FlipPickup, Overtake
  <2> QED
    BY <1>4, <1>8, <2>1 DEF FlipPickup, Writes, Flips, Kept, invVars, rows, PickupAt
<1>9. CASE Scan(w)
  <2>1. PickupCurrent(w) /\ pickupJob[w].step = "scan" /\ pickupJob[w].op \in {"scanOut", "scanIn"}
    BY <1>1, <1>9, StepTellsOp DEF Scan, Overtake, PickupAt
  <2>2. CASE pickupJob[w].op = "scanOut"
    <3>1. scanned'[p] = [a \in Assets |-> scanned[p][a] + pickupJob[w].seen[a]]
      BY <1>2, <1>9, <2>2 DEF Scan
    <3>2. pickupJob[w].read = "READY_FOR_PICKUP"
      BY <1>1, <2>2 DEF JobShape
    <3> QED
      BY <1>4, <1>9, <2>1, <2>2, <3>1, <3>2 DEF Scan, Writes, Scans, invVars, rows, Standing
  <2>3. CASE pickupJob[w].op # "scanOut"
    BY <1>9, <2>1, <2>3 DEF Scan, Kept, Standing, invVars, rows
  <2> QED
    BY <2>2, <2>3
<1>10. CASE Add(w)
  <2>1. PickupCurrent(w)
    BY <1>10 DEF Add, Overtake
  <2>2. pickupJob[w].step = "add" /\ pickupJob[w].read \in {"CONFIRMED", "READY_FOR_PICKUP"}
    BY <1>1, <1>10, StepTellsOp DEF Add, PickupAt, JobShape
  <2>3. /\ items'[p] = [items[p] EXCEPT !["added"] = [a \in Assets |-> @[a] + pickupJob[w].seen[a]]]
        /\ collected'[p] =
             [collected[p] EXCEPT !["added"] = [a \in Assets |-> @[a] + pickupJob[w].seen[a]]]
        /\ booking'[p] = [a \in Assets |-> booking[p][a] + pickupJob[w].seen[a]]
    BY <1>1, <1>2, <1>10 DEF Add
  <2> QED
    BY <1>4, <1>10, <2>1, <2>2, <2>3 DEF Add, Writes, Adds, Standing
<1>11. CASE Gate(w) \/ SumPickupRows(w) \/ PickupWriteOffRejected(w) \/ CheckAdd(w)
  BY <1>11 DEF Gate, SumPickupRows, PickupWriteOffRejected, CheckAdd, invVars, rows, Kept, Standing,
              PickupAt
<1>12. CASE NoCost(w)
  BY <1>12 DEF NoCost, invVars, Kept, Standing, PickupAt
<1> QED
  BY <1>3, <1>5, <1>6, <1>7, <1>8, <1>9, <1>10, <1>11, <1>12 DEF ResumePickup

\* The return cron calls a pickup back that has left.
CalledBack(p) ==
    Kept(p) /\ pickupStatus[p] = "PICKED_UP" /\ pickupStatus'[p] = "AWAITING_RETURN"

\* What a step does to a pickup that is not overtaken by it: nothing, or the
\* return cron calls it back, or a handler of its writes what it had checked.
LEMMA PickupWrites ==
    ASSUME PickupTypeOK, PickupLife, [PickupNext]_pickupVars, NEW p \in Pickups,
           p \notin overtaken'
    PROVE  \/ Kept(p) /\ Standing(p)
           \/ CalledBack(p)
           \/ \E w \in PickupActors : ResumePickup(w) /\ p = On(w) /\ Writes(w, p)
<1>1. ASSUME NEW w \in PickupActors, ResumePickup(w), On(w) # p
      PROVE  Kept(p) /\ Standing(p)
  BY <1>1, OwnPickupOnly DEF Kept, Standing
<1>2. ASSUME NEW w \in PickupActors, PickupAbort(w)
      PROVE  Kept(p) /\ Standing(p)
  BY <1>2 DEF PickupAbort, Kept, Standing, rows
<1>3. ASSUME NEW w \in PickupActors, NEW q \in Pickups, NEW r \in PickupJobs, Started(w, q, r)
      PROVE  Kept(p) /\ Standing(p)
  BY <1>3 DEF Started, Kept, Standing, invVars
<1>4. CASE TransitionDue
  <2>1. Kept(p)
    BY <1>4 DEF TransitionDue, Kept, invVars, rows
  <2>2. CASE p \in dueList
    BY <1>4, <2>1, <2>2 DEF TransitionDue, CalledBack
  <2>3. CASE p \notin dueList
    BY <1>4, <2>1, <2>3 DEF TransitionDue, Standing
  <2> QED
    BY <2>2, <2>3
<1>5. CASE Listing
  BY <1>5 DEF Listing, Kept, Standing, invVars
<1> QED
  BY <1>1, <1>2, <1>3, <1>4, <1>5, OwnWrites, PickupStepCases

\* How the job of an actor comes about: it is as it was, or its handler has
\* ended or died, or gone on, or a new one has started and written nothing.
LEMMA JobOrigin ==
    ASSUME PickupTypeOK, [PickupNext]_pickupVars, NEW w \in PickupActors
    PROVE  \/ pickupJob'[w] = pickupJob[w]
           \/ pickupJob'[w] = PickupIdle /\ (ResumePickup(w) \/ PickupAbort(w))
           \/ ResumePickup(w) /\ GoesOn(pickupJob[w], pickupJob'[w])
           \/ \E p \in Pickups : pickupJob'[w] \in PickupJobs /\ Started(w, p, pickupJob'[w])
<1>1. ASSUME NEW v \in PickupActors, ResumePickup(v) \/ PickupAbort(v)
      PROVE  \/ pickupJob'[w] = pickupJob[w]
             \/ pickupJob'[w] = PickupIdle /\ (ResumePickup(w) \/ PickupAbort(w))
             \/ ResumePickup(w) /\ GoesOn(pickupJob[w], pickupJob'[w])
  <2>1. CASE v # w \/ pickupJob'[w] = PickupIdle
    BY <1>1, <2>1, PickupJobAfter
  <2>2. CASE v = w /\ GoesOn(pickupJob[w], pickupJob'[w]) /\ pickupJob'[w] # PickupIdle
    <3>1. ResumePickup(w)
      BY <1>1, <2>2 DEF PickupAbort, FinishPickup, PickupTypeOK
    <3> QED
      BY <2>2, <3>1
  <2> QED
    BY <1>1, <2>1, <2>2, PickupJobAfter
<1>2. ASSUME NEW v \in PickupActors, NEW p \in Pickups, NEW r \in PickupJobs, Started(v, p, r)
      PROVE  \/ pickupJob'[w] = pickupJob[w]
             \/ pickupJob'[w] \in PickupJobs /\ Started(w, p, pickupJob'[w])
  BY <1>2, StartedJob
<1>3. CASE TransitionDue \/ Listing
  BY <1>3 DEF TransitionDue, Listing
<1> QED
  BY <1>1, <1>2, <1>3, PickupStepCases

------------------------------------------------------------------------------
(* The life of a pickup that nobody overtakes: it goes from status to       *)
(* status along the paths of the state machine, its tallies stay within its *)
(* item rows, and what a handler took along of them is never ahead.        *)

PickupPaths ==
    PickupMoves \cup (CancellableStatuses \X {"CANCELLED"})
        \cup {<<"NONE", "PRICING_REVIEW">>, <<"PRICING_REVIEW", "CONFIRMED">>,
              <<"PENDING_APPROVAL", "CONFIRMED">>, <<"QUOTED", "DECLINED">>,
              <<"READY_FOR_PICKUP", "PICKED_UP">>, <<"AWAITING_RETURN", "CLOSED">>}

LEMMA FollowsPaths ==
    ASSUME PickupTypeOK, PickupLife, [PickupNext]_pickupVars, NEW p \in Pickups,
           p \notin overtaken'
    PROVE  Standing(p) \/ <<pickupStatus[p], pickupStatus'[p]>> \in PickupPaths
<1>1. CASE CalledBack(p)
  BY <1>1 DEF CalledBack, PickupPaths, PickupMoves
<1>2. ASSUME NEW w \in PickupActors, Writes(w, p)
      PROVE  Standing(p) \/ <<pickupStatus[p], pickupStatus'[p]>> \in PickupPaths
  <2>1. JobShape(pickupJob[w]) /\ pickupJob[w] \in PickupJobs
    BY DEF PickupLife, JobsShaped, PickupTypeOK
  <2>2. CASE Books(w, p)
    BY <2>2 DEF Books, PickupPaths
  <2>3. CASE Settles(w, p)
    BY <2>3 DEF Settles, PickupPaths, CancellableStatuses
  <2>4. CASE Flips(w, p)
    <3>1. pickupJob[w].op \in {"cancel", "decline", "handover", "noCost", "status"}
      BY <2>1, <2>4, StepTellsOp DEF Flips
    <3>2. <<pickupJob[w].read, pickupJob[w].to>> \in PickupPaths
      BY <2>1, <3>1 DEF JobShape, PickupPaths
    <3> QED
      BY <2>4, <3>2 DEF Flips
  <2>5. CASE Releases(w, p) \/ Hands(w, p) \/ Scans(w, p) \/ Adds(w, p)
    BY <2>5 DEF Releases, Hands, Scans, Adds
  <2> QED
    BY <1>2, <2>2, <2>3, <2>4, <2>5 DEF Writes
<1> QED
  BY <1>1, <1>2, PickupWrites

\* A pickup that is ready, or further, never gets back to where it was, and once
\* it is called back its rows are settled.
ReadyOrLater == {"READY_FOR_PICKUP", "PICKED_UP", "AWAITING_RETURN", "CLOSED", "CANCELLED"}
CalledOrClosed == {"AWAITING_RETURN", "CLOSED"}

LEMMA NeverGoesBack ==
    ASSUME PickupTypeOK, PickupLife, [PickupNext]_pickupVars, NEW p \in Pickups,
           p \notin overtaken'
    PROVE  /\ pickupStatus[p] \in ReadyOrLater => pickupStatus'[p] \in ReadyOrLater
           /\ pickupStatus[p] \in CalledOrClosed => pickupStatus'[p] \in CalledOrClosed
           /\ pickupStatus[p] \in OutStatuses \cup {"CLOSED", "CANCELLED", "DECLINED"} =>
                  pickupStatus'[p] \in OutStatuses \cup {"CLOSED", "CANCELLED", "DECLINED"}
BY FollowsPaths DEF Standing, PickupPaths, PickupMoves, ReadyOrLater, CalledOrClosed, OutStatuses,
                    CancellableStatuses, StuckStatuses

\* Item rows and scans only grow, and what was collected changes no more once
\* the pickup has been called back.
LEMMA RowsOnlyGrow ==
    ASSUME PickupTypeOK, PickupTypeOK', PickupLife, [PickupNext]_pickupVars, NEW p \in Pickups,
           p \notin overtaken'
    PROVE  /\ \A l \in Lines, a \in Assets : items[p][l][a] <= items'[p][l][a]
           /\ \A a \in Assets : scanned[p][a] <= scanned'[p][a]
           /\ pickupStatus[p] \in OutStatuses \cup {"CLOSED", "CANCELLED", "DECLINED"} =>
                  items'[p] = items[p] /\ collected'[p] = collected[p] /\ scanned'[p] = scanned[p]
<1>1. /\ \A l \in Lines, a \in Assets : items[p][l][a] \in Nat /\ items'[p][l][a] \in Nat
      /\ \A a \in Assets : scanned[p][a] \in Nat /\ scanned'[p][a] \in Nat
      /\ items[p] \in [Lines -> [Assets -> Nat]]
  BY DEF PickupTypeOK
<1>2. CASE Kept(p)
  BY <1>1, <1>2 DEF Kept
<1>3. ASSUME NEW w \in PickupActors, ResumePickup(w), p = On(w), Writes(w, p)
      PROVE  /\ \A l \in Lines, a \in Assets : items[p][l][a] <= items'[p][l][a]
             /\ \A a \in Assets : scanned[p][a] <= scanned'[p][a]
             /\ pickupStatus[p] \in OutStatuses \cup {"CLOSED", "CANCELLED", "DECLINED"} =>
                    items'[p] = items[p] /\ collected'[p] = collected[p] /\ scanned'[p] = scanned[p]
  <2>1. pickupJob[w].seen \in [Assets -> Nat]
    BY <1>3, StatusAfter, RunningPickup
  <2>2. CASE Books(w, p)
    <3>1. items[p] = NoItems /\ scanned[p] = NoQty
      BY <2>2 DEF Books, PickupLife, NothingBeforePickup
    <3>2. \A l \in Lines, a \in Assets : items[p][l][a] = 0
      BY <3>1 DEF NoItems, NoQty
    <3> QED
      BY <1>1, <2>2, <3>1, <3>2 DEF Books, OutStatuses
  <2>3. CASE Adds(w, p)
    <3>1. \A l \in Lines, a \in Assets :
              items'[p][l][a] = IF l = "added" THEN items[p][l][a] + pickupJob[w].seen[a]
                                              ELSE items[p][l][a]
      BY <1>1, <2>3 DEF Adds
    <3> QED
      BY <1>1, <2>1, <2>3, <3>1 DEF Adds, OutStatuses
  <2>4. CASE Scans(w, p)
    BY <1>1, <2>1, <2>4 DEF Scans, OutStatuses
  <2>5. CASE Hands(w, p)
    BY <1>1, <2>5 DEF Hands, OutStatuses
  <2>6. CASE Releases(w, p) \/ Settles(w, p) \/ Flips(w, p)
    BY <1>1, <2>6 DEF Releases, Settles, Flips, Kept
  <2> QED
    BY <1>3, <2>2, <2>3, <2>4, <2>5, <2>6 DEF Writes
<1> QED
  BY <1>2, <1>3, PickupWrites DEF CalledBack

\* The item rows are those of the cart and at most one more; booked and scanned
\* units are within them, and what is not listed was not collected.
RowsTally(p) ==
    /\ pickupStatus[p] # "NONE" => \A l \in CartLines : items[p][l] = Cart[p][l]
    /\ \A a \in Assets : booking[p][a] <= RowSum(items[p])[a] /\ scanned[p][a] <= RowSum(items[p])[a]
    /\ \A l \in Lines, a \in Assets : items[p][l][a] = 0 => collected[p][l][a] = 0

\* What a handler took along: r.count, r.rows and r.short.
ShortBy(co, n) == [l \in Lines |-> [a \in Assets |-> AtLeastZero(co[l][a] - n[a])]]
JobTally(r, p) ==
    /\ r.op = "handover" =>
           /\ pickupStatus[p] \in ReadyOrLater
           /\ \A a \in Assets : r.count[a] <= scanned[p][a]
           /\ \A l \in Lines, a \in Assets : r.rows[l][a] <= items[p][l][a]
    /\ r.op = "complete" =>
           pickupStatus[p] \in CalledOrClosed /\ r.short = RowSum(ShortBy(collected[p], r.count))
    /\ r.op = "scanOut" => \A a \in Assets : r.count[a] + r.seen[a] <= RowSum(items[p])[a]

Tallied == \A p \in Pickups \ overtaken :
    RowsTally(p) /\ \A w \in PickupActors : pickupJob[w].pickup = p => JobTally(pickupJob[w], p)

\* The sums of item rows grow with them.
LEMMA SumsGrow ==
    ASSUME NEW r \in [Lines -> [Assets -> Nat]], NEW t \in [Lines -> [Assets -> Nat]], NEW a \in Assets,
           \A l \in Lines : r[l][a] <= t[l][a]
    PROVE  /\ RowSum(r)[a] <= RowSum(t)[a] /\ RowSum(r)[a] \in Nat /\ RowSum(t)[a] \in Nat
           /\ RowSum(r)[a] = r["first"][a] + r["second"][a] + r["added"][a]
           /\ \A l \in Lines : r[l][a] \in Nat /\ r[l][a] <= RowSum(r)[a]
<1>1. \A l \in {"first", "second", "added"} : l \in Lines /\ r[l][a] \in Nat /\ t[l][a] \in Nat
  BY DEF Lines, CartLines
<1>2. Lines = {"first", "second", "added"}
  BY DEF Lines, CartLines
<1>3. /\ RowSum(r)[a] = r["first"][a] + r["second"][a] + r["added"][a]
      /\ RowSum(t)[a] = t["first"][a] + t["second"][a] + t["added"][a]
  BY RowSumType
<1> HIDE DEF RowSum
<1>4. /\ r["first"][a] \in Nat /\ r["second"][a] \in Nat /\ r["added"][a] \in Nat
      /\ t["first"][a] \in Nat /\ t["second"][a] \in Nat /\ t["added"][a] \in Nat
      /\ r["first"][a] <= t["first"][a] /\ r["second"][a] <= t["second"][a]
      /\ r["added"][a] <= t["added"][a]
  BY <1>1
<1> QED
  BY <1>2, <1>3, <1>4


LEMMA RowsStayTallied ==
    ASSUME PickupTypeOK, PickupTypeOK', PickupLife, [PickupNext]_pickupVars, NEW p \in Pickups,
           p \notin overtaken', RowsTally(p),
           \A w \in PickupActors : pickupJob[w].pickup = p => JobTally(pickupJob[w], p)
    PROVE  RowsTally(p)'
<1> DEFINE Sum == RowSum(items[p])
           SumAfter == RowSum(items'[p])
<1>1. /\ items[p] \in [Lines -> [Assets -> Nat]] /\ items'[p] \in [Lines -> [Assets -> Nat]]
      /\ collected[p] \in [Lines -> [Assets -> Nat]]
      /\ scanned[p] \in [Assets -> Nat] /\ p \in Holders
      /\ booking[p] \in [Assets -> Nat] /\ booking'[p] \in [Assets -> Nat]
  BY PickupsType DEF PickupTypeOK, InvTypeOK
<1>2. \A a \in Assets : /\ Sum[a] \in Nat /\ SumAfter[a] \in Nat
                        /\ Sum[a] = items[p]["first"][a] + items[p]["second"][a] + items[p]["added"][a]
                        /\ SumAfter[a] = items'[p]["first"][a] + items'[p]["second"][a]
                                           + items'[p]["added"][a]
  BY <1>1, RowSumType
<1>3. RowsTally(p)' <=>
          /\ pickupStatus'[p] # "NONE" => \A l \in CartLines : items'[p][l] = Cart[p][l]
          /\ \A a \in Assets : booking'[p][a] <= SumAfter[a] /\ scanned'[p][a] <= SumAfter[a]
          /\ \A l \in Lines, a \in Assets : items'[p][l][a] = 0 => collected'[p][l][a] = 0
  BY DEF RowsTally
<1>4. /\ pickupStatus[p] # "NONE" => \A l \in CartLines : items[p][l] = Cart[p][l]
      /\ \A a \in Assets : booking[p][a] <= Sum[a] /\ scanned[p][a] <= Sum[a]
      /\ \A l \in Lines, a \in Assets : items[p][l][a] = 0 => collected[p][l][a] = 0
  BY DEF RowsTally
<1> HIDE DEF Sum, SumAfter
<1>5. CASE Kept(p)
  <2>1. pickupStatus[p] = "NONE" => items[p] = NoItems /\ booking[p] = NoQty
    BY DEF PickupLife, NothingBeforePickup
  <2>2. Standing(p) \/ CalledBack(p) \/ \E w \in PickupActors : Flips(w, p) \/ Settles(w, p)
          \/ Books(w, p) \/ Releases(w, p) \/ Hands(w, p) \/ Scans(w, p) \/ Adds(w, p)
    BY PickupWrites DEF Writes
  <2>3. pickupStatus'[p] # "NONE" => \A l \in CartLines : items'[p][l] = Cart[p][l]
    <3>1. CASE pickupStatus[p] # "NONE"
      BY <1>4, <1>5, <3>1 DEF Kept
    <3>2. CASE pickupStatus[p] = "NONE" /\ \E w \in PickupActors : Books(w, p)
      BY <3>2 DEF Books, CartRows, CartLines, Lines
    <3>3. CASE pickupStatus[p] = "NONE" /\ ~\E w \in PickupActors : Books(w, p)
      <4>1. ASSUME NEW w \in PickupActors, Flips(w, p)
            PROVE  FALSE
        <5>1. JobShape(pickupJob[w]) /\ pickupJob[w] \in PickupJobs
          BY DEF PickupLife, JobsShaped, PickupTypeOK
        <5> QED
          BY <3>3, <4>1, <5>1, StepTellsOp
             DEF Flips, JobShape, CancellableStatuses, StuckStatuses, PickupMoves
      <4> QED
        BY <2>2, <3>3, <4>1 DEF Standing, CalledBack, Settles, Releases, Hands, Scans, Adds,
           CancellableStatuses, StuckStatuses
    <3> QED
      BY <3>1, <3>2, <3>3
  <2>4. SumAfter = Sum
    BY <1>5 DEF Kept, Sum, SumAfter
  <2> QED
    BY <1>3, <1>4, <1>5, <2>3, <2>4 DEF Kept
<1>6. ASSUME NEW w \in PickupActors, ResumePickup(w), p = On(w), Writes(w, p), ~Kept(p)
      PROVE  RowsTally(p)'
  <2>1. /\ pickupJob[w].seen \in [Assets -> Nat] /\ pickupJob[w].count \in [Assets -> Nat]
        /\ JobShape(pickupJob[w]) /\ JobTally(pickupJob[w], p)
    BY <1>6, StatusAfter, RunningPickup DEF PickupLife, JobsShaped, On
  <2>2. CASE Books(w, p)
    <3>1. SumAfter = RowSum(CartRows(p)) /\ items'[p] = CartRows(p)
      BY <2>2 DEF Books, SumAfter
    <3>2. \A l \in CartLines : items'[p][l] = Cart[p][l]
      BY <3>1 DEF CartRows, CartLines, Lines
    <3>3. \A a \in Assets : booking'[p][a] = SumAfter[a] /\ scanned'[p][a] = 0
      BY <2>2, <3>1 DEF Books, NoQty
    <3>4. collected'[p] = items'[p]
      BY <2>2 DEF Books
    <3> QED
      BY <1>2, <1>3, <3>2, <3>3, <3>4
  <2>3. ASSUME items'[p] = items[p], pickupStatus[p] # "NONE",
               \A a \in Assets : booking'[p][a] <= booking[p][a] /\ scanned'[p][a] <= Sum[a],
               \A l \in Lines, a \in Assets : items[p][l][a] = 0 => collected'[p][l][a] = 0
        PROVE  RowsTally(p)'
    <3>1. SumAfter = Sum
      BY <2>3 DEF Sum, SumAfter
    <3>2. \A a \in Assets : booking'[p][a] <= Sum[a]
      BY <1>1, <1>2, <1>4, <2>3
    <3> QED
      BY <1>3, <1>4, <2>3, <3>1, <3>2
  <2>4. CASE Releases(w, p) \/ Settles(w, p)
    BY <1>1, <1>4, <2>3, <2>4 DEF Releases, Settles, NoQty, CancellableStatuses, StuckStatuses
  <2>5. CASE Hands(w, p)
    <3>1. \A a \in Assets : booking'[p][a] <= booking[p][a]
      <4>1. ASSUME NEW a \in Assets, a \in Reduced(w), booking[p][a] > 0
            PROVE  pickupJob[w].count[a] <= booking[p][a]
        <5>1. pickupJob[w].count[a] < pickupJob[w].seen[a]
          BY <4>1 DEF Reduced
        <5> QED
          BY <1>1, <2>1, <2>5, <4>1, <5>1 DEF Hands, NoQty
      <4> QED
        BY <1>1, <2>5, <4>1 DEF Hands
    <3>2. \A l \in Lines, a \in Assets : items[p][l][a] = 0 => collected'[p][l][a] = 0
      BY <1>1, <1>4, <2>5 DEF Hands
    <3> QED
      BY <1>4, <2>3, <2>5, <3>1, <3>2 DEF Hands
  <2>6. CASE Scans(w, p)
    <3>1. \A a \in Assets : scanned'[p][a] <= Sum[a]
      BY <2>1, <2>6 DEF Scans, JobTally, Sum
    <3> QED
      BY <1>1, <1>4, <2>3, <2>6, <3>1 DEF Scans
  <2>7. CASE Adds(w, p)
    <3>1. \A l \in Lines, a \in Assets :
              items'[p][l][a] = IF l = "added" THEN items[p][l][a] + pickupJob[w].seen[a]
                                              ELSE items[p][l][a]
      BY <1>1, <2>7 DEF Adds
    <3>2. \A l \in Lines, a \in Assets :
              collected'[p][l][a] = IF l = "added" THEN collected[p][l][a] + pickupJob[w].seen[a]
                                                   ELSE collected[p][l][a]
      BY <1>1, <2>7 DEF Adds
    <3>3. \A l \in CartLines : items'[p][l] = items[p][l]
      BY <1>1, <2>7 DEF Adds, CartLines, Lines
    <3>4. \A a \in Assets : SumAfter[a] = Sum[a] + pickupJob[w].seen[a]
      BY <1>1, <1>2, <2>1, <3>1 DEF Lines, CartLines
    <3>5. \A a \in Assets : /\ booking'[p][a] = booking[p][a] + pickupJob[w].seen[a]
                            /\ scanned'[p][a] = scanned[p][a]
      BY <1>1, <2>7 DEF Adds
    <3>6. pickupStatus[p] # "NONE"
      BY <2>7 DEF Adds
    <3>7. ASSUME NEW a \in Assets
          PROVE  booking'[p][a] <= SumAfter[a] /\ scanned'[p][a] <= SumAfter[a]
      <4>1. /\ booking[p][a] \in Nat /\ scanned[p][a] \in Nat /\ Sum[a] \in Nat
            /\ pickupJob[w].seen[a] \in Nat
            /\ booking[p][a] <= Sum[a] /\ scanned[p][a] <= Sum[a]
        BY <1>1, <1>2, <1>4, <2>1
      <4>2. /\ SumAfter[a] = Sum[a] + pickupJob[w].seen[a]
            /\ booking'[p][a] = booking[p][a] + pickupJob[w].seen[a]
            /\ scanned'[p][a] = scanned[p][a]
        BY <3>4, <3>5
      <4> QED
        BY <4>1, <4>2
    <3>8. ASSUME NEW l \in Lines, NEW a \in Assets, items'[p][l][a] = 0
          PROVE  collected'[p][l][a] = 0
      <4>1. items[p][l][a] \in Nat /\ collected[p][l][a] \in Nat /\ pickupJob[w].seen[a] \in Nat
        BY <1>1, <2>1
      <4>2. /\ items'[p][l][a] = items[p][l][a] + pickupJob[w].seen[a] \/ l # "added"
            /\ l # "added" => /\ items'[p][l][a] = items[p][l][a]
                              /\ collected'[p][l][a] = collected[p][l][a]
            /\ l = "added" => collected'[p][l][a] = collected[p][l][a] + pickupJob[w].seen[a]
        BY <3>1, <3>2
      <4>3. items[p][l][a] = 0 /\ (l = "added" => pickupJob[w].seen[a] = 0)
        BY <3>8, <4>1, <4>2
      <4>4. collected[p][l][a] = 0
        BY <1>4, <4>3
      <4> QED
        BY <4>2, <4>3, <4>4
    <3> QED
      BY <1>3, <1>4, <3>3, <3>6, <3>7, <3>8
  <2> QED
    BY <1>6, <2>2, <2>4, <2>5, <2>6, <2>7 DEF Writes, Flips
<1> QED
  BY <1>5, <1>6, PickupWrites DEF CalledBack

\* What a handler finds when it starts is within the rows of its pickup.
LEMMA StartedTally ==
    ASSUME PickupTypeOK, NEW w \in PickupActors, NEW p \in Pickups, NEW r \in PickupJobs,
           Started(w, p, r), RowsTally(p)
    PROVE  JobTally(r, p)
<1>1. /\ items[p] \in [Lines -> [Assets -> Nat]] /\ collected[p] \in [Lines -> [Assets -> Nat]]
      /\ scanned[p] \in [Assets -> Nat]
  BY DEF PickupTypeOK
<1>2. CASE HandoverStarts(p, r)
  <2>1. pickupStatus[p] \in ReadyOrLater /\ r.op = "handover"
    BY <1>2 DEF HandoverStarts, ReadyOrLater
  <2>2. /\ \A a \in Assets : r.count[a] <= scanned[p][a]
        /\ \A l \in Lines, a \in Assets : r.rows[l][a] <= items[p][l][a]
    BY <1>1, <1>2 DEF HandoverStarts
  <2> QED
    BY <2>1, <2>2 DEF JobTally
<1>3. CASE CompleteStarts(p, r)
  <2>1. ShortRows(p) = ShortBy(collected[p], pickupReturned[p])
    BY DEF ShortRows, ShortOf, ShortBy
  <2> QED
    BY <1>3, <2>1 DEF CompleteStarts, JobTally, CalledOrClosed
<1>4. CASE ScanOutStarts(p, r)
  <2>0. PICK a \in ItemsOf(p) : \E q \in ScanSizes(a) :
            r.seen = Only(a, q) /\ scanned[p][a] + q <= items[p][FirstLine(p, a)][a]
    BY <1>4 DEF ScanOutStarts
  <2>1. PICK q \in ScanSizes(a) :
            r.seen = Only(a, q) /\ scanned[p][a] + q <= items[p][FirstLine(p, a)][a]
    BY <2>0
  <2>2. a \in Assets /\ q \in Nat /\ FirstLine(p, a) \in Lines
    BY <2>1, SizesAreNumbers DEF ItemsOf, FirstLine, Lines, CartLines
  <2>3. ASSUME NEW b \in Assets
        PROVE  r.count[b] + r.seen[b] <= RowSum(items[p])[b]
    <3>1. RowSum(items[p])[b] \in Nat /\ scanned[p][b] <= RowSum(items[p])[b]
      BY <1>1, RowSumType DEF RowsTally
    <3>2. r.count[b] = scanned[p][b] /\ r.seen[b] = (IF b = a THEN q ELSE 0)
      BY <1>4, <2>1 DEF ScanOutStarts, Only
    <3>3. items[p][FirstLine(p, a)][a] <= RowSum(items[p])[a]
          /\ items[p][FirstLine(p, a)][a] \in Nat /\ RowSum(items[p])[a] \in Nat
      <4>1. \A l \in Lines : items[p][l][a] <= items[p][l][a]
        BY <1>1, <2>2
      <4> HIDE DEF RowSum
      <4> QED
        BY <1>1, <2>2, <4>1, SumsGrow
    <3> HIDE DEF RowSum
    <3> QED
      BY <1>1, <2>1, <2>2, <3>1, <3>2, <3>3
  <2> QED
    BY <1>4, <2>3 DEF ScanOutStarts, JobTally
<1>5. CASE \/ SubmitStarts(p, r) \/ CancelStarts(p, r) \/ DeclineStarts(p, r) \/ NoCostStarts(p, r)
           \/ StatusStarts(p, r) \/ AddStarts(p, r) \/ ScanInStarts(p, r) \/ ExpireStarts(p, r)
  BY <1>5 DEF SubmitStarts, CancelStarts, DeclineStarts, NoCostStarts, StatusStarts, AddStarts,
              ScanInStarts, ExpireStarts, JobTally
<1> QED
  BY <1>2, <1>3, <1>4, <1>5 DEF Started, PickupStarts

\* What a handler took along stays within the rows that grow meanwhile.
LEMMA JobsStayTallied ==
    ASSUME PickupTypeOK, PickupTypeOK', PickupLife, [PickupNext]_pickupVars, NEW p \in Pickups,
           p \notin overtaken', RowsTally(p),
           \A w \in PickupActors : pickupJob[w].pickup = p => JobTally(pickupJob[w], p),
           NEW w \in PickupActors, pickupJob'[w].pickup = p
    PROVE  JobTally(pickupJob[w], p)'
<1> DEFINE r == pickupJob[w]
           t == pickupJob'[w]
<1>1. JobTally(pickupJob[w], p)' <=>
          /\ t.op = "handover" =>
                 /\ pickupStatus'[p] \in ReadyOrLater
                 /\ \A a \in Assets : t.count[a] <= scanned'[p][a]
                 /\ \A l \in Lines, a \in Assets : t.rows[l][a] <= items'[p][l][a]
          /\ t.op = "complete" =>
                 pickupStatus'[p] \in CalledOrClosed /\ t.short = RowSum(ShortBy(collected'[p], t.count))
          /\ t.op = "scanOut" => \A a \in Assets : t.count[a] + t.seen[a] <= RowSum(items'[p])[a]
  BY DEF JobTally
<1>2. /\ items[p] \in [Lines -> [Assets -> Nat]] /\ items'[p] \in [Lines -> [Assets -> Nat]]
      /\ scanned[p] \in [Assets -> Nat] /\ scanned'[p] \in [Assets -> Nat]
      /\ r \in PickupJobs /\ t \in PickupJobs
  BY DEF PickupTypeOK
<1>3. ASSUME JobTally(r, p), t.op = r.op, t.count = r.count, t.rows = r.rows, t.short = r.short,
             t.op = "scanOut" => t.seen = r.seen
      PROVE  JobTally(pickupJob[w], p)'
  <2>1. /\ t.count \in [Assets -> Nat] /\ t.rows \in [Lines -> [Assets -> Nat]]
        /\ t.seen \in [Assets -> Nat]
    BY <1>2 DEF PickupJobs
  <2>2. ASSUME t.op = "handover"
        PROVE  /\ pickupStatus'[p] \in ReadyOrLater
               /\ \A a \in Assets : t.count[a] <= scanned'[p][a]
               /\ \A l \in Lines, a \in Assets : t.rows[l][a] <= items'[p][l][a]
    <3>1. /\ pickupStatus[p] \in ReadyOrLater
          /\ \A a \in Assets : t.count[a] <= scanned[p][a]
          /\ \A l \in Lines, a \in Assets : t.rows[l][a] <= items[p][l][a]
      BY <1>3, <2>2 DEF JobTally
    <3>2. pickupStatus'[p] \in ReadyOrLater
      BY <3>1, NeverGoesBack
    <3>3. /\ \A l \in Lines, a \in Assets : items[p][l][a] <= items'[p][l][a]
          /\ \A a \in Assets : scanned[p][a] <= scanned'[p][a]
      BY RowsOnlyGrow
    <3>4. ASSUME NEW a \in Assets
          PROVE  t.count[a] <= scanned'[p][a]
      BY <1>2, <2>1, <3>1, <3>3
    <3>5. ASSUME NEW l \in Lines, NEW a \in Assets
          PROVE  t.rows[l][a] <= items'[p][l][a]
      BY <1>2, <2>1, <3>1, <3>3
    <3> QED
      BY <3>2, <3>4, <3>5
  <2>3. ASSUME t.op = "complete"
        PROVE  /\ pickupStatus'[p] \in CalledOrClosed
               /\ t.short = RowSum(ShortBy(collected'[p], t.count))
    <3>1. pickupStatus[p] \in CalledOrClosed /\ t.short = RowSum(ShortBy(collected[p], t.count))
      BY <1>3, <2>3 DEF JobTally
    <3>2. pickupStatus[p] \in OutStatuses \cup {"CLOSED", "CANCELLED", "DECLINED"}
      BY <3>1 DEF CalledOrClosed, OutStatuses
    <3>3. collected'[p] = collected[p] /\ pickupStatus'[p] \in CalledOrClosed
      BY <3>1, <3>2, RowsOnlyGrow, NeverGoesBack
    <3> QED
      BY <3>1, <3>3
  <2>4. ASSUME t.op = "scanOut", NEW a \in Assets
        PROVE  t.count[a] + t.seen[a] <= RowSum(items'[p])[a]
    <3>1. t.count[a] + t.seen[a] <= RowSum(items[p])[a]
      BY <1>3, <2>4 DEF JobTally
    <3>2. \A l \in Lines : items[p][l][a] <= items'[p][l][a]
      BY RowsOnlyGrow
    <3>3. /\ RowSum(items[p])[a] <= RowSum(items'[p])[a]
          /\ RowSum(items[p])[a] \in Nat /\ RowSum(items'[p])[a] \in Nat
      BY <1>2, <3>2, SumsGrow
    <3> QED
      BY <2>1, <3>1, <3>3
  <2> HIDE DEF r, t
  <2> QED
    BY <1>1, <2>2, <2>3, <2>4
<1>4. CASE pickupJob'[w] = pickupJob[w]
  <2>1. JobTally(r, p)
    BY <1>4
  <2> QED
    BY <1>3, <1>4, <2>1
<1>5. CASE pickupJob'[w] = PickupIdle
  BY <1>5, PickupsType DEF PickupIdle
<1>6. CASE GoesOn(pickupJob[w], pickupJob'[w])
  <2>1. r.pickup = p
    BY <1>6 DEF GoesOn
  <2>2. JobShape(r)
    BY DEF PickupLife, JobsShaped
  <2>3. r.op # "scanOut"
    BY <1>6, <2>2 DEF GoesOn, JobShape
  <2>4. /\ t.op = r.op /\ t.count = r.count /\ t.rows = r.rows /\ t.short = r.short
    BY <1>6 DEF GoesOn
  <2> QED
    BY <1>3, <2>1, <2>3, <2>4
<1>7. ASSUME NEW q \in Pickups, pickupJob'[w] \in PickupJobs, Started(w, q, pickupJob'[w])
      PROVE  JobTally(pickupJob[w], p)'
  <2>1. q = p
    BY <1>7 DEF Started, Starts
  <2>2. JobTally(t, p)
    BY <1>7, <2>1, StartedTally
  <2>3. /\ pickupStatus' = pickupStatus /\ items' = items /\ collected' = collected
        /\ scanned' = scanned
    BY <1>7 DEF Started
  <2> QED
    BY <1>1, <2>2, <2>3 DEF JobTally
<1> QED
  BY <1>4, <1>5, <1>6, <1>7, JobOrigin

LEMMA TalliesKept ==
    ASSUME PickupTypeOK, PickupTypeOK', PickupLife, [PickupNext]_pickupVars, Tallied
    PROVE  Tallied'
<1> SUFFICES ASSUME NEW p \in Pickups, p \notin overtaken'
             PROVE  /\ RowsTally(p)'
                    /\ \A w \in PickupActors : pickupJob'[w].pickup = p => JobTally(pickupJob[w], p)'
  BY DEF Tallied
<1>1. p \notin overtaken
  BY HistoryGrows
<1>2. RowsTally(p) /\ \A w \in PickupActors : pickupJob[w].pickup = p => JobTally(pickupJob[w], p)
  BY <1>1 DEF Tallied
<1> QED
  BY <1>2, RowsStayTallied, JobsStayTallied

LEMMA InitTallies == PickupInit => Tallied
<1> SUFFICES ASSUME PickupInit, NEW p \in Pickups
             PROVE  RowsTally(p) /\ \A w \in PickupActors : pickupJob[w].pickup # p
  BY DEF Tallied
<1>1. /\ pickupStatus[p] = "NONE" /\ items[p] = NoItems /\ collected[p] = NoItems
      /\ scanned[p] = NoQty /\ booking[p] = NoQty
  BY PickupsType DEF PickupInit, InvInit, NoQty
<1>2. ASSUME NEW a \in Assets
      PROVE  RowSum(items[p])[a] \in Nat /\ booking[p][a] = 0 /\ scanned[p][a] = 0
  <2>1. items[p] \in [Lines -> [Assets -> Nat]]
    BY PickupInitType DEF PickupTypeOK
  <2>2. RowSum(items[p])[a] \in Nat
    BY <2>1, RowSumType
  <2> QED
    BY <1>1, <2>2 DEF NoQty
<1>3. \A l \in Lines, a \in Assets : collected[p][l][a] = 0
  BY <1>1 DEF NoItems, NoQty
<1>4. RowsTally(p)
  BY <1>1, <1>2, <1>3 DEF RowsTally
<1>5. \A w \in PickupActors : pickupJob[w].pickup # p
  BY PickupsType DEF PickupInit, PickupIdle
<1> QED
  BY <1>4, <1>5

------------------------------------------------------------------------------
(* The stages of a pickup that nobody overtakes.  While it can be cancelled  *)
(* it books all of its rows, once it has left it books what was scanned; in  *)
(* between, and forever after a crash there, a handler stands between its    *)
(* two commits.                                                              *)

\* Nobody but w is, or has died, between two commits on p; with no w, nobody.
AloneAt(p, w) == /\ p \notin halfDone
                 /\ \A v \in PickupActors \ {w} : HalfWay(v) => pickupJob[v].pickup # p
Clear(p) == /\ p \notin halfDone
            /\ \A v \in PickupActors : HalfWay(v) => pickupJob[v].pickup # p

\* A handover that is not partial has counted every unit of every row.
LEMMA FullIsAll ==
    ASSUME NEW sc \in [Assets -> Nat], NEW it \in [Lines -> [Assets -> Nat]], ~IsPartial(sc, it),
           \A a \in Assets : sc[a] <= RowSum(it)[a]
    PROVE  \A a \in Assets : sc[a] = RowSum(it)[a]
<1> DEFINE n == RowSum(it)
<1>1. \A b \in Assets : sc[b] \in Nat /\ n[b] \in Nat /\ sc[b] <= n[b]
  BY RowSumType
<1>2. /\ UnitsOf(sc) = Cardinality(CountedUnits(sc, Assets))
      /\ UnitsOf(n) = Cardinality(CountedUnits(n, Assets))
  BY DEF UnitsOf, CountedUnits
<1>3. ~(UnitsOf(sc) < UnitsOf(n))
  BY DEF IsPartial
<1> HIDE DEF n
<1>4. Cardinality(CountedUnits(sc, Assets)) \in Nat /\ Cardinality(CountedUnits(n, Assets)) \in Nat
  BY <1>1, AssetsFinite, CountIsFinite
<1>5. Cardinality(CountedUnits(n, Assets)) <= Cardinality(CountedUnits(sc, Assets))
  BY <1>2, <1>3, <1>4
<1>6. \A b \in Assets : sc[b] = n[b]
  BY <1>1, <1>5, AssetsFinite, CountIsStrict
<1> QED
  BY <1>6 DEF n

\* Whoever stands between his two commits stood there, or has just released the
\* rows or handed them over.
LEMMA HalfWayOrigin ==
    ASSUME PickupTypeOK, PickupLife, [PickupNext]_pickupVars, NEW p \in Pickups, p \notin overtaken',
           NEW w \in PickupActors, HalfWay(w)', pickupJob'[w].pickup = p
    PROVE  \/ pickupJob'[w] = pickupJob[w] /\ HalfWay(w)
           \/ /\ ResumePickup(w) /\ p = On(w)
              /\ Releases(w, p) \/ Hands(w, p)
              /\ GoesOn(pickupJob[w], pickupJob'[w]) /\ pickupJob[w].step # "flip"
<1>1. pickupJob'[w].step = "flip" /\ pickupJob'[w].op \in {"cancel", "decline", "handover"}
  BY DEF HalfWay, PickupAt
<1>2. JobShape(pickupJob[w]) /\ pickupJob[w] \in PickupJobs
  BY DEF PickupLife, JobsShaped, PickupTypeOK
<1>3. CASE pickupJob'[w] = pickupJob[w]
  BY <1>1, <1>3 DEF HalfWay, PickupAt
<1>4. CASE pickupJob'[w] = PickupIdle
  BY <1>1, <1>4, PickupIdleIsJob
<1>5. CASE ResumePickup(w) /\ GoesOn(pickupJob[w], pickupJob'[w])
  <2>1. p = On(w) /\ pickupJob[w].op \in {"cancel", "decline", "handover"}
    BY <1>1, <1>5 DEF GoesOn, On
  <2>2. pickupJob[w].step \in {"release", "hand", "noCost"}
    BY <1>1, <1>2, <1>5, <2>1, StepTellsOp DEF GoesOn
  <2>3. pickupJob[w].step \in {"release", "hand"}
    BY <1>2, <2>1, <2>2, StepTellsOp
  <2>4. Writes(w, p)
    BY <1>5, <2>1, <2>3, OwnWrites
  <2>5. Releases(w, p) \/ Hands(w, p)
    BY <2>3, <2>4 DEF Writes, Books, Settles, Flips, Scans, Adds
  <2> QED
    BY <1>5, <2>1, <2>3, <2>5
<1>6. ASSUME NEW q \in Pickups, pickupJob'[w] \in PickupJobs, Started(w, q, pickupJob'[w])
      PROVE  FALSE
  BY <1>1, <1>6 DEF Started, PickupStarts, SubmitStarts, CancelStarts, DeclineStarts, NoCostStarts,
     StatusStarts, HandoverStarts, CompleteStarts, AddStarts, ScanOutStarts, ScanInStarts, ExpireStarts
<1> QED
  BY <1>3, <1>4, <1>5, <1>6, JobOrigin

\* Whoever stood between his two commits still stands there, or has written the
\* status, or has died there.
LEMMA HalfWayEnds ==
    ASSUME PickupTypeOK, PickupLife, [PickupNext]_pickupVars, NEW p \in Pickups, p \notin overtaken',
           NEW w \in PickupActors, HalfWay(w), pickupJob[w].pickup = p
    PROVE  \/ pickupJob'[w] = pickupJob[w] /\ HalfWay(w)'
           \/ ResumePickup(w) /\ p = On(w) /\ Flips(w, p)
           \/ p \in halfDone'
<1>1. pickupJob[w].step = "flip" /\ pickupJob[w].op \in {"cancel", "decline", "handover"} /\ p = On(w)
  BY DEF HalfWay, PickupAt, On
<1>2. CASE pickupJob'[w] = pickupJob[w]
  BY <1>1, <1>2 DEF HalfWay, PickupAt
<1>3. CASE ResumePickup(w)
  <2>1. Writes(w, p)
    BY <1>1, <1>3, OwnWrites
  <2> QED
    BY <1>1, <1>3, <2>1 DEF Writes, Books, Releases, Settles, Hands, Scans, Adds
<1>4. CASE PickupAbort(w)
  BY <1>1, <1>4 DEF PickupAbort, HalfWay, PickupAt
<1>5. ASSUME NEW q \in Pickups, pickupJob'[w] \in PickupJobs, Started(w, q, pickupJob'[w])
      PROVE  FALSE
  BY <1>1, <1>5, PickupIdleIsJob DEF Started
<1> QED
  BY <1>2, <1>3, <1>4, <1>5, JobOrigin

\* If nobody but w, or nobody, stands between his commits, it was so before, or
\* somebody else has just written his status.
LEMMA AloneBefore ==
    ASSUME PickupTypeOK, PickupLife, [PickupNext]_pickupVars, NEW p \in Pickups, p \notin overtaken'
    PROVE  /\ Clear(p)' => \/ Clear(p)
                           \/ \E v \in PickupActors : HalfWay(v) /\ Flips(v, p)
           /\ \A w \in PickupActors : AloneAt(p, w)' =>
                  \/ AloneAt(p, w)
                  \/ \E v \in PickupActors : HalfWay(v) /\ Flips(v, p)
<1>1. p \in halfDone => p \in halfDone'
  BY HistoryGrows
<1>2. ASSUME NEW v \in PickupActors, HalfWay(v), pickupJob[v].pickup = p, p \notin halfDone',
             ~(HalfWay(v)' /\ pickupJob'[v].pickup = p)
      PROVE  Flips(v, p)
  BY <1>2, HalfWayEnds
<1>3. Clear(p)' <=> /\ p \notin halfDone'
                    /\ \A v \in PickupActors : HalfWay(v)' => pickupJob'[v].pickup # p
  BY DEF Clear
<1>4. \A w \in PickupActors :
          AloneAt(p, w)' <=> /\ p \notin halfDone'
                             /\ \A v \in PickupActors \ {w} : HalfWay(v)' => pickupJob'[v].pickup # p
  BY DEF AloneAt
<1> QED
  BY <1>1, <1>2, <1>3, <1>4 DEF Clear, AloneAt

\* Until it leaves, a pickup books its rows; from then on, what was scanned.
AllBooked(p) == \A a \in Assets : booking[p][a] = RowSum(items[p])[a]
AsScanned(p, exact) ==
    /\ \A a \in Assets : booking[p][a] <= scanned[p][a] /\ (exact => booking[p][a] = scanned[p][a])
    /\ \A l \in Lines, a \in Assets : items[p][l][a] > 0 => collected[p][l][a] = scanned[p][a]
EarlyStage(p) == Clear(p) /\ pickupStatus[p] \in CancellableStatuses => AllBooked(p)
Handing(w, p) == /\ HalfWay(w) /\ pickupJob[w].op = "handover" /\ pickupJob[w].pickup = p
                 /\ pickupStatus[p] = "READY_FOR_PICKUP"
                 /\ pickupJob[w].count = scanned[p] /\ pickupJob[w].rows = items[p]
HandedStage(w, p) == Handing(w, p) => AsScanned(p, AloneAt(p, w))
OutStage(p) == pickupStatus[p] \in OutStatuses => AsScanned(p, Clear(p))
Staged == \A p \in Pickups \ overtaken :
    EarlyStage(p) /\ OutStage(p) /\ \A w \in PickupActors : HandedStage(w, p)

\* What the transaction of a handover leaves booked and collected.
LEMMA HandBooks ==
    ASSUME PickupTypeOK, PickupTypeOK', PickupLife, NEW w \in PickupActors, NEW p \in Pickups, p = On(w),
           Hands(w, p), RowsTally(p)
    PROVE  /\ \A a \in Assets : booking'[p][a] <= scanned'[p][a]
           /\ AllBooked(p) => \A a \in Assets : booking'[p][a] = scanned'[p][a]
           /\ \A l \in Lines, a \in Assets : items'[p][l][a] > 0 => collected'[p][l][a] = scanned'[p][a]
<1> DEFINE n == pickupJob[w].count
           Sum == RowSum(items[p])
<1>1. /\ booking[p] \in [Assets -> Nat] /\ items[p] \in [Lines -> [Assets -> Nat]]
      /\ scanned[p] \in [Assets -> Nat] /\ n = scanned[p] /\ scanned'[p] = scanned[p]
      /\ items'[p] = items[p] /\ pickupJob[w].rows = items[p]
  BY PickupsType DEF PickupTypeOK, InvTypeOK, Hands
<1>2. \A a \in Assets : /\ Sum[a] \in Nat /\ booking[p][a] <= Sum[a] /\ scanned[p][a] <= Sum[a]
                        /\ Sum[a] = items[p]["first"][a] + items[p]["second"][a] + items[p]["added"][a]
  BY <1>1, RowSumType DEF RowsTally
<1>3. \A a \in Assets : ~Listed(w, a) => booking[p][a] = 0 /\ scanned[p][a] = 0
  <2> SUFFICES ASSUME NEW a \in Assets, ~Listed(w, a)
               PROVE  booking[p][a] = 0 /\ scanned[p][a] = 0
    OBVIOUS
  <2>1. \A l \in {"first", "second", "added"} : l \in Lines /\ items[p][l][a] = 0
    BY <1>1 DEF Listed, Lines, CartLines
  <2>2. Sum[a] = 0
    BY <1>2, <2>1
  <2> HIDE DEF Sum
  <2> QED
    BY <1>1, <1>2, <2>2
<1>4. \A l \in Lines, a \in Assets : items'[p][l][a] > 0 => collected'[p][l][a] = scanned'[p][a]
  BY <1>1 DEF Hands
<1>5. \A a \in Assets : booking'[p][a] = IF a \in Reduced(w) /\ booking[p][a] > 0
                                         THEN n[a] ELSE booking[p][a]
  BY DEF Hands
<1>6. CASE IsPartial(scanned[p], items[p])
  <2>1. pickupJob[w].seen = booking[p]
    BY <1>6 DEF Hands
  <2>2. ASSUME NEW a \in Assets
        PROVE  booking'[p][a] = AtMost(booking[p][a], scanned[p][a])
    <3>1. a \in Reduced(w) <=> Listed(w, a) /\ scanned[p][a] < booking[p][a]
      BY <1>1, <2>1 DEF Reduced
    <3>2. /\ booking[p][a] \in Nat /\ scanned[p][a] \in Nat
          /\ ~Listed(w, a) => booking[p][a] = 0 /\ scanned[p][a] = 0
          /\ booking'[p][a] = IF a \in Reduced(w) /\ booking[p][a] > 0
                              THEN scanned[p][a] ELSE booking[p][a]
      BY <1>1, <1>3, <1>5
    <3> QED
      BY <3>1, <3>2 DEF AtMost
  <2>3. \A a \in Assets : booking'[p][a] <= scanned'[p][a]
    BY <1>1, <2>2 DEF AtMost
  <2>4. ASSUME AllBooked(p), NEW a \in Assets
        PROVE  booking'[p][a] = scanned'[p][a]
    <3>1. booking[p][a] = Sum[a]
      BY <2>4 DEF AllBooked
    <3> HIDE DEF Sum
    <3> QED
      BY <1>1, <1>2, <2>2, <3>1 DEF AtMost
  <2> QED
    BY <1>4, <2>3, <2>4
<1>7. CASE ~IsPartial(scanned[p], items[p])
  <2>1. pickupJob[w].seen = NoQty
    BY <1>7 DEF Hands
  <2>2. \A a \in Assets : a \notin Reduced(w)
    BY <1>1, <2>1 DEF Reduced, NoQty
  <2>3. \A a \in Assets : booking'[p][a] = booking[p][a]
    BY <1>5, <2>2
  <2>4. \A a \in Assets : scanned[p][a] = Sum[a]
    BY <1>1, <1>2, <1>7, FullIsAll
  <2> HIDE DEF Sum
  <2>5. \A a \in Assets : booking'[p][a] <= scanned'[p][a]
    BY <1>1, <1>2, <2>3, <2>4
  <2>6. ASSUME AllBooked(p), NEW a \in Assets
        PROVE  booking'[p][a] = scanned'[p][a]
    BY <1>1, <2>3, <2>4, <2>6 DEF AllBooked, Sum
  <2> QED
    BY <1>4, <2>5, <2>6
<1> QED
  BY <1>6, <1>7

\* After its first commit a handler stands between the two.
LEMMA FirstCommit ==
    ASSUME PickupTypeOK, PickupLife, NEW w \in PickupActors, ResumePickup(w), NEW p \in Pickups,
           p = On(w), Releases(w, p) \/ Hands(w, p)
    PROVE  HalfWay(w)' /\ pickupJob'[w].pickup = p /\ pickupJob[w].step # "flip"
<1>1. pickupJob[w].step \in {"release", "hand"} /\ (Release(w) \/ Hand(w))
  BY ActionOfStep DEF Releases, Hands
<1>2. pickupJob' = [pickupJob EXCEPT ![w].step = "flip"]
  BY <1>1 DEF Release, Hand, PickupGoTo
<1>3. /\ pickupJob'[w].step = "flip" /\ pickupJob'[w].op = pickupJob[w].op
      /\ pickupJob'[w].pickup = p
  BY <1>2 DEF PickupTypeOK, PickupJobs, On
<1>4. pickupJob[w].op \in {"cancel", "decline", "handover"}
  BY <1>1, StepTellsOp DEF PickupLife, JobsShaped, PickupTypeOK
<1> QED
  BY <1>1, <1>3, <1>4 DEF HalfWay, PickupAt

LEMMA EarlyStageKept ==
    ASSUME PickupTypeOK, PickupTypeOK', PickupLife, [PickupNext]_pickupVars, NEW p \in Pickups,
           p \notin overtaken', EarlyStage(p)
    PROVE  EarlyStage(p)'
<1> SUFFICES ASSUME Clear(p)', pickupStatus'[p] \in CancellableStatuses
             PROVE  AllBooked(p)'
  BY DEF EarlyStage
<1>1. AllBooked(p)' <=> \A a \in Assets : booking'[p][a] = RowSum(items'[p])[a]
  BY DEF AllBooked
<1>2. /\ items[p] \in [Lines -> [Assets -> Nat]] /\ items'[p] \in [Lines -> [Assets -> Nat]]
      /\ p \in Holders /\ booking[p] \in [Assets -> Nat] /\ booking'[p] \in [Assets -> Nat]
  BY PickupsType DEF PickupTypeOK, InvTypeOK
<1>3. Clear(p)
  <2>1. ASSUME NEW v \in PickupActors, HalfWay(v), Flips(v, p)
        PROVE  FALSE
    <3>1. pickupJob[v].to \in {"CANCELLED", "DECLINED", "PICKED_UP"}
      BY <2>1 DEF HalfWay, PickupLife, JobsShaped, JobShape
    <3> QED
      BY <2>1, <3>1 DEF Flips, CancellableStatuses, StuckStatuses
  <2> QED
    BY <2>1, AloneBefore
<1>4. ASSUME NEW w \in PickupActors, ResumePickup(w), p = On(w), Releases(w, p) \/ Hands(w, p)
      PROVE  FALSE
  BY <1>4, FirstCommit DEF Clear
<1>5. CASE Kept(p) /\ pickupStatus[p] \in CancellableStatuses
  BY <1>1, <1>3, <1>5 DEF Kept, EarlyStage, AllBooked
<1>6. ASSUME NEW w \in PickupActors, ResumePickup(w), p = On(w), Writes(w, p)
      PROVE  AllBooked(p)'
  <2>1. /\ pickupJob[w].seen \in [Assets -> Nat]
        /\ JobShape(pickupJob[w]) /\ pickupJob[w] \in PickupJobs
    BY <1>6, StatusAfter, RunningPickup DEF PickupLife, JobsShaped
  <2>2. CASE Books(w, p)
    BY <1>1, <2>2 DEF Books
  <2>3. CASE Settles(w, p)
    BY <2>3 DEF Settles, CancellableStatuses, StuckStatuses
  <2>4. CASE Flips(w, p)
    <3>1. pickupJob[w].op \in {"cancel", "decline", "handover", "noCost", "status"}
      BY <2>1, <2>4, StepTellsOp DEF Flips
    <3>2. pickupStatus[p] \in CancellableStatuses
      BY <2>1, <2>4, <3>1 DEF Flips, JobShape, PickupMoves, CancellableStatuses, StuckStatuses
    <3> QED
      BY <1>5, <2>4, <3>2 DEF Flips
  <2>5. CASE Scans(w, p)
    <3>1. AllBooked(p)
      BY <1>3, <2>5 DEF Scans, EarlyStage, CancellableStatuses
    <3> QED
      BY <1>1, <2>5, <3>1 DEF Scans, AllBooked
  <2>6. CASE Adds(w, p)
    <3>1. AllBooked(p)
      BY <1>3, <2>6 DEF Adds, EarlyStage, CancellableStatuses
    <3> SUFFICES ASSUME NEW a \in Assets
                 PROVE  booking'[p][a] = RowSum(items'[p])[a]
      BY <1>1
    <3>2. /\ items'[p]["first"][a] = items[p]["first"][a]
          /\ items'[p]["second"][a] = items[p]["second"][a]
          /\ items'[p]["added"][a] = items[p]["added"][a] + pickupJob[w].seen[a]
          /\ items[p]["first"][a] \in Nat /\ items[p]["second"][a] \in Nat
          /\ items[p]["added"][a] \in Nat
      BY <1>2, <2>6 DEF Adds, Lines, CartLines
    <3>3. booking'[p][a] = booking[p][a] + pickupJob[w].seen[a]
      BY <1>2, <2>6 DEF Adds
    <3>4. /\ RowSum(items[p])[a] = items[p]["first"][a] + items[p]["second"][a] + items[p]["added"][a]
          /\ RowSum(items'[p])[a] = items'[p]["first"][a] + items'[p]["second"][a] + items'[p]["added"][a]
      BY <1>2, RowSumType
    <3>5. booking[p][a] = RowSum(items[p])[a] /\ pickupJob[w].seen[a] \in Nat
      BY <2>1, <3>1 DEF AllBooked
    <3> HIDE DEF RowSum
    <3> QED
      BY <3>2, <3>3, <3>4, <3>5
  <2> QED
    BY <1>4, <1>6, <2>2, <2>3, <2>4, <2>5, <2>6 DEF Writes
<1> QED
  BY <1>5, <1>6, PickupWrites DEF Standing, CalledBack, CancellableStatuses, StuckStatuses

LEMMA HandedStageKept ==
    ASSUME PickupTypeOK, PickupTypeOK', PickupLife, [PickupNext]_pickupVars, NEW p \in Pickups,
           p \notin overtaken', EarlyStage(p), NEW w \in PickupActors, HandedStage(w, p), RowsTally(p),
           pickupJob[w].pickup = p => JobTally(pickupJob[w], p)
    PROVE  HandedStage(w, p)'
<1> SUFFICES ASSUME HalfWay(w)', pickupJob'[w].op = "handover", pickupJob'[w].pickup = p,
                    pickupStatus'[p] = "READY_FOR_PICKUP",
                    pickupJob'[w].count = scanned'[p], pickupJob'[w].rows = items'[p]
             PROVE  /\ \A a \in Assets : booking'[p][a] <= scanned'[p][a]
                    /\ AloneAt(p, w)' => \A a \in Assets : booking'[p][a] = scanned'[p][a]
                    /\ \A l \in Lines, a \in Assets :
                           items'[p][l][a] > 0 => collected'[p][l][a] = scanned'[p][a]
  BY DEF HandedStage, Handing, AsScanned
<1>1. /\ items[p] \in [Lines -> [Assets -> Nat]] /\ items'[p] \in [Lines -> [Assets -> Nat]]
      /\ collected[p] \in [Lines -> [Assets -> Nat]]
      /\ scanned[p] \in [Assets -> Nat] /\ scanned'[p] \in [Assets -> Nat]
      /\ p \in Holders /\ booking[p] \in [Assets -> Nat] /\ booking'[p] \in [Assets -> Nat]
      /\ JobShape(pickupJob[w]) /\ pickupJob[w] \in PickupJobs
  BY PickupsType DEF PickupTypeOK, InvTypeOK, PickupLife, JobsShaped
<1>2. AloneAt(p, w)' => AloneAt(p, w)
  <2>1. ASSUME NEW v \in PickupActors, HalfWay(v), Flips(v, p)
        PROVE  FALSE
    <3>1. pickupJob[v].to \in {"CANCELLED", "DECLINED", "PICKED_UP"}
      BY <2>1 DEF HalfWay, PickupLife, JobsShaped, JobShape
    <3> QED
      BY <2>1, <3>1 DEF Flips
  <2> QED
    BY <2>1, AloneBefore
<1>3. CASE ResumePickup(w) /\ p = On(w) /\ Hands(w, p)
  <2>1. ASSUME AloneAt(p, w)'
        PROVE  AllBooked(p)
    <3>1. Clear(p)
      BY <1>2, <1>3, <2>1 DEF AloneAt, Clear, HalfWay, PickupAt, Hands
    <3> QED
      BY <1>3, <3>1 DEF EarlyStage, Hands, CancellableStatuses
  <2> QED
    BY <1>3, <2>1, HandBooks
<1>4. CASE pickupJob'[w] = pickupJob[w] /\ HalfWay(w)
  <2> DEFINE r == pickupJob[w]
  <2>1. /\ pickupStatus[p] \in ReadyOrLater
        /\ \A a \in Assets : r.count[a] <= scanned[p][a]
        /\ \A l \in Lines, a \in Assets : r.rows[l][a] <= items[p][l][a]
    BY <1>4 DEF JobTally
  <2>2. Standing(p) /\ pickupStatus[p] = "READY_FOR_PICKUP"
    BY <2>1, FollowsPaths
       DEF Standing, PickupPaths, PickupMoves, ReadyOrLater, CancellableStatuses, StuckStatuses
  <2>3. \A a \in Assets : scanned[p][a] = scanned'[p][a]
    <3> SUFFICES ASSUME NEW a \in Assets
                 PROVE  scanned[p][a] = scanned'[p][a]
      OBVIOUS
    <3>1. scanned[p][a] <= scanned'[p][a] /\ scanned'[p][a] <= scanned[p][a]
      BY <1>4, <2>1, RowsOnlyGrow
    <3>2. scanned[p][a] \in Nat /\ scanned'[p][a] \in Nat
      BY <1>1
    <3> QED
      BY <3>1, <3>2
  <2>4. \A l \in Lines, a \in Assets : items[p][l][a] = items'[p][l][a]
    <3> SUFFICES ASSUME NEW l \in Lines, NEW a \in Assets
                 PROVE  items[p][l][a] = items'[p][l][a]
      OBVIOUS
    <3>1. items[p][l][a] <= items'[p][l][a] /\ items'[p][l][a] <= items[p][l][a]
      BY <1>4, <2>1, RowsOnlyGrow
    <3>2. items[p][l][a] \in Nat /\ items'[p][l][a] \in Nat
      BY <1>1
    <3> QED
      BY <3>1, <3>2
  <2>5. scanned[p] = scanned'[p] /\ items[p] = items'[p]
    <3>1. \A l \in Lines : items[p][l] = items'[p][l]
      BY <1>1, <2>4
    <3> QED
      BY <1>1, <2>3, <3>1
  <2>6. AsScanned(p, AloneAt(p, w))
    BY <1>4, <2>2, <2>5 DEF HandedStage, Handing
  <2>7. CASE /\ \A a \in Assets : booking'[p][a] = booking[p][a]
             /\ \A l \in Lines, a \in Assets : collected'[p][l][a] = collected[p][l][a]
    BY <1>2, <2>5, <2>6, <2>7 DEF AsScanned
  <2>8. ASSUME NEW v \in PickupActors, ResumePickup(v), p = On(v), Writes(v, p)
        PROVE  /\ \A a \in Assets : booking'[p][a] <= scanned'[p][a]
               /\ AloneAt(p, w)' => \A a \in Assets : booking'[p][a] = scanned'[p][a]
               /\ \A l \in Lines, a \in Assets :
                      items'[p][l][a] > 0 => collected'[p][l][a] = scanned'[p][a]
    <3>1. CASE Releases(v, p) \/ Hands(v, p)
      <4>1. HalfWay(v)' /\ pickupJob'[v].pickup = p /\ v # w
        BY <1>4, <2>8, <3>1, FirstCommit DEF HalfWay, PickupAt
      <4>2. ~AloneAt(p, w)'
        BY <4>1 DEF AloneAt
      <4>3. CASE Releases(v, p)
        <5>1. \A a \in Assets : booking'[p][a] = 0 /\ collected'[p] = collected[p]
          BY <4>3 DEF Releases, NoQty
        <5> QED
          BY <1>1, <2>5, <2>6, <4>2, <5>1 DEF AsScanned
      <4>4. CASE Hands(v, p)
        BY <2>8, <4>2, <4>4, HandBooks
      <4> QED
        BY <3>1, <4>3, <4>4
    <3>2. CASE Flips(v, p) \/ Scans(v, p)
      BY <2>7, <3>2 DEF Flips, Kept, Scans
    <3>3. CASE Adds(v, p)
      <4>1. pickupJob[v].seen \in [Assets -> Nat]
        BY <2>8, StatusAfter, RunningPickup
      <4>2. \A a \in Assets : items'[p]["added"][a] = items[p]["added"][a] + pickupJob[v].seen[a]
        BY <1>1, <3>3 DEF Adds, Lines, CartLines
      <4>3. \A a \in Assets : items[p]["added"][a] \in Nat /\ items'[p]["added"][a] = items[p]["added"][a]
        BY <1>1, <2>5 DEF Lines
      <4>4. ASSUME NEW a \in Assets
            PROVE  pickupJob[v].seen[a] = 0
        <5>1. /\ pickupJob[v].seen[a] \in Nat /\ items[p]["added"][a] \in Nat
              /\ items[p]["added"][a] = items[p]["added"][a] + pickupJob[v].seen[a]
          BY <4>1, <4>2, <4>3
        <5> QED
          BY <5>1
      <4>5. \A a \in Assets : booking'[p][a] = booking[p][a]
        BY <1>1, <3>3, <4>4 DEF Adds
      <4>6. \A l \in Lines, a \in Assets : collected'[p][l][a] = collected[p][l][a]
        BY <1>1, <3>3, <4>4 DEF Adds
      <4> QED
        BY <2>7, <4>5, <4>6
    <3>4. CASE Books(v, p) \/ Settles(v, p)
      BY <2>2, <3>4 DEF Books, Settles, StuckStatuses
    <3> QED
      BY <2>8, <3>1, <3>2, <3>3, <3>4 DEF Writes
  <2> QED
    BY <2>2, <2>7, <2>8, PickupWrites DEF CalledBack, Kept
<1>5. ~Releases(w, p) \/ pickupJob'[w].op # pickupJob[w].op
  BY <1>1, StepTellsOp DEF Releases
<1> QED
  BY <1>3, <1>4, <1>5, HalfWayOrigin DEF GoesOn

LEMMA OutStageKept ==
    ASSUME PickupTypeOK, PickupTypeOK', PickupLife, [PickupNext]_pickupVars, NEW p \in Pickups,
           p \notin overtaken', OutStage(p), \A w \in PickupActors : HandedStage(w, p)
    PROVE  OutStage(p)'
<1> SUFFICES ASSUME pickupStatus'[p] \in OutStatuses
             PROVE  /\ \A a \in Assets : booking'[p][a] <= scanned'[p][a]
                    /\ Clear(p)' => \A a \in Assets : booking'[p][a] = scanned'[p][a]
                    /\ \A l \in Lines, a \in Assets :
                           items'[p][l][a] > 0 => collected'[p][l][a] = scanned'[p][a]
  BY DEF OutStage, AsScanned
<1>1. \A v \in PickupActors : JobShape(pickupJob[v]) /\ pickupJob[v] \in PickupJobs
  BY DEF PickupTypeOK, PickupLife, JobsShaped
<1>2. CASE pickupStatus[p] \in OutStatuses
  <2>1. Kept(p)
    BY <1>2, PickupWrites DEF CalledBack, Writes, Books, Releases, Settles, Hands, Flips, Scans, Adds,
       OutStatuses, CancellableStatuses, StuckStatuses
  <2>2. ASSUME NEW v \in PickupActors, HalfWay(v), Flips(v, p)
        PROVE  FALSE
    <3>1. pickupJob[v].read \in CancellableStatuses
      BY <1>1, <2>2 DEF HalfWay, JobShape, CancellableStatuses, StuckStatuses
    <3> QED
      BY <1>2, <2>2, <3>1 DEF Flips, OutStatuses, CancellableStatuses, StuckStatuses
  <2>3. Clear(p)' => Clear(p)
    BY <2>2, AloneBefore
  <2> QED
    BY <1>2, <2>1, <2>3 DEF OutStage, AsScanned, Kept
<1>3. CASE pickupStatus[p] \notin OutStatuses
  <2>1. pickupStatus[p] = "READY_FOR_PICKUP" /\ pickupStatus'[p] = "PICKED_UP"
    BY <1>3, FollowsPaths
       DEF Standing, PickupPaths, PickupMoves, OutStatuses, CancellableStatuses, StuckStatuses
  <2>2. PICK v \in PickupActors : ResumePickup(v) /\ p = On(v) /\ Writes(v, p)
    BY <2>1, PickupWrites DEF Standing, CalledBack
  <2>3. Flips(v, p)
    BY <2>1, <2>2 DEF Writes, Books, Releases, Settles, Hands, Scans, Adds, Standing
  <2>4. pickupJob[v].op = "handover"
    BY <1>1, <2>1, <2>3, StepTellsOp DEF Flips, JobShape, PickupMoves
  <2>5. Handing(v, p)
    BY <2>1, <2>2, <2>3, <2>4 DEF Flips, Handing, HalfWay, PickupAt, On
  <2>6. AsScanned(p, AloneAt(p, v)) /\ Kept(p)
    BY <2>3, <2>5 DEF HandedStage, Flips
  <2>7. ASSUME Clear(p)'
        PROVE  AloneAt(p, v)
    <3>1. p \notin halfDone
      BY <2>7, HistoryGrows DEF Clear
    <3>2. \A u \in PickupActors \ {v} : pickupJob'[u] = pickupJob[u]
      BY <2>2, PickupJobAfter
    <3>3. \A u \in PickupActors : HalfWay(u)' => pickupJob'[u].pickup # p
      BY <2>7 DEF Clear
    <3> QED
      BY <3>1, <3>2, <3>3 DEF AloneAt, HalfWay, PickupAt
  <2> QED
    BY <2>6, <2>7 DEF AsScanned, Kept
<1> QED
  BY <1>2, <1>3

LEMMA StagesKept ==
    ASSUME PickupTypeOK, PickupTypeOK', PickupLife, [PickupNext]_pickupVars, Tallied, Staged
    PROVE  Staged'
<1> SUFFICES ASSUME NEW p \in Pickups, p \notin overtaken'
             PROVE  /\ EarlyStage(p)' /\ OutStage(p)'
                    /\ \A w \in PickupActors : HandedStage(w, p)'
  BY DEF Staged
<1>1. p \notin overtaken
  BY HistoryGrows
<1>2. /\ EarlyStage(p) /\ OutStage(p) /\ \A w \in PickupActors : HandedStage(w, p)
      /\ RowsTally(p) /\ \A w \in PickupActors : pickupJob[w].pickup = p => JobTally(pickupJob[w], p)
  BY <1>1 DEF Staged, Tallied
<1> QED
  BY <1>2, EarlyStageKept, OutStageKept, HandedStageKept

LEMMA InitStaged == PickupInit => Staged
<1> SUFFICES ASSUME PickupInit, NEW p \in Pickups
             PROVE  /\ EarlyStage(p) /\ OutStage(p)
                    /\ \A w \in PickupActors : HandedStage(w, p)
  BY DEF Staged
<1>1. pickupStatus[p] = "NONE"
  BY DEF PickupInit
<1> QED
  BY <1>1 DEF EarlyStage, OutStage, HandedStage, Handing, OutStatuses, CancellableStatuses, StuckStatuses

\* What a handler of self-pickups keeps, and what is so from the start.
StagesInv == PickupTypeOK /\ PickupLife /\ Tallied /\ Staged

LEMMA InitStagesInv == PickupInit => StagesInv
BY PickupInitType, InitPickupLife, InitTallies, InitStaged DEF StagesInv

LEMMA NextStagesInv == StagesInv /\ [PickupNext]_pickupVars => StagesInv'
BY PickupNextType, NextPickupLife, TalliesKept, StagesKept DEF StagesInv

\* What the collector took stays booked until it is back
\* (CollectedStaysBooked): whatever handlers and crons interleave, and whichever of them
\* die, it is at most what was scanned, and exactly that unless one died between the
\* two commits of a release or a handover.
THEOREM WhatIsOutStaysBooked == PickupSpec => []CollectedStaysBooked
<1>1. StagesInv => CollectedStaysBooked
  <2> SUFFICES ASSUME StagesInv, NEW p \in Pickups, p \notin overtaken,
                      pickupStatus[p] \in OutStatuses,
                      \A w \in PickupActors : pickupJob[w].pickup # p
               PROVE  /\ \A a \in Assets : booking[p][a] <= scanned[p][a]
                      /\ p \notin halfDone => booking[p] = scanned[p]
    BY DEF CollectedStaysBooked
  <2>1. AsScanned(p, Clear(p))
    BY DEF StagesInv, Staged, OutStage
  <2>2. p \notin halfDone => Clear(p)
    BY DEF Clear
  <2>3. booking[p] \in [Assets -> Nat] /\ scanned[p] \in [Assets -> Nat]
    BY PickupsType DEF StagesInv, PickupTypeOK, InvTypeOK
  <2> QED
    BY <2>1, <2>2, <2>3 DEF AsScanned
<1> QED
  BY <1>1, InitStagesInv, NextStagesInv, PTL DEF PickupSpec

------------------------------------------------------------------------------
(* The stock.  What a handler takes from the counter it books, what it     *)
(* takes off the rows it gives back or writes off.                          *)

\* Only a handler's step writes stock.
LEMMA StockStep ==
    ASSUME PickupTypeOK, [PickupNext]_pickupVars
    PROVE  UNCHANGED <<total, avail, booking>> \/ \E w \in PickupActors : ResumePickup(w)
<1>1. ASSUME NEW w \in PickupActors, PickupAbort(w)
      PROVE  UNCHANGED <<total, avail, booking>>
  BY <1>1 DEF PickupAbort
<1>2. ASSUME NEW w \in PickupActors, NEW p \in Pickups, NEW r \in PickupJobs, Started(w, p, r)
      PROVE  UNCHANGED <<total, avail, booking>>
  BY <1>2 DEF Started, invVars
<1>3. CASE TransitionDue \/ Listing
  BY <1>3 DEF TransitionDue, Listing, invVars
<1> QED
  BY <1>1, <1>2, <1>3, PickupStepCases

\* n units of a are taken from the counter and booked for the pickup of w.
Takes(w, a, n) ==
    /\ n \in Nat
    /\ avail'[a] = AtLeastZero(avail[a] - n) /\ total'[a] = total[a]
    /\ booking'[On(w)][a] = booking[On(w)][a] + n

\* n units of a are taken off the rows of the pickup of w, some of them given
\* back to the counter, and the pool shrinks by the units that are lost.
Gives(w, a, n, back, lost) ==
    /\ n \in Nat /\ back \in Nat /\ lost \in Nat /\ back <= n /\ n <= booking[On(w)][a]
    /\ avail'[a] = IF back > 0 THEN AtMost(total[a], avail[a] + back) ELSE avail[a]
    /\ total'[a] = AtLeastZero(total[a] - lost)
    /\ booking'[On(w)][a] = booking[On(w)][a] - n

\* The stock after each step of a handler that does not overtake its pickup.
LEMMA StockAfter ==
    ASSUME PickupTypeOK, PickupLife, NEW w \in PickupActors, ResumePickup(w),
           On(w) \notin overtaken', NEW a \in Assets
    PROVE  \/ PickupAt(w, "book") /\ Takes(w, a, Need[On(w)][a]) /\ booking[On(w)][a] = 0
           \/ PickupAt(w, "add") /\ Takes(w, a, pickupJob[w].seen[a])
           \/ \E n \in Nat : Gives(w, a, n, n, 0)
           \/ /\ Settle(w) /\ pickupJob[w].seen[a] = booking[On(w)][a]
              /\ Gives(w, a, booking[On(w)][a], PickupGivenBack(w)[a], pickupJob[w].short[a])
<1> DEFINE p == On(w)
<1>1. /\ p \in Pickups /\ p \in Holders /\ pickupJob[w].step # "idle"
      /\ pickupJob[w].seen \in [Assets -> Nat] /\ pickupJob[w].count \in [Assets -> Nat]
      /\ pickupJob[w].short \in [Assets -> Nat]
      /\ JobShape(pickupJob[w]) /\ pickupJob[w] \in PickupJobs
  BY StatusAfter, RunningPickup DEF PickupLife, JobsShaped
<1>2. /\ total[a] \in Nat /\ avail[a] \in Nat /\ booking \in [Holders -> [Assets -> Nat]]
      /\ booking[p][a] \in Nat /\ Need[p][a] \in Nat
  BY <1>1, NeedType DEF PickupTypeOK, InvTypeOK
<1>3. CASE UNCHANGED <<total, avail, booking>>
  <2>1. Gives(w, a, 0, 0, 0)
    BY <1>2, <1>3 DEF Gives, AtLeastZero
  <2> QED
    BY <2>1
<1>4. CASE Book(w)
  <2>1. PickupAt(w, "book") /\ pickupJob[w].op = "submit"
    BY <1>1, <1>4, StepTellsOp DEF Book, PickupAt
  <2>2. pickupStatus[p] = "NONE"
    BY <2>1 DEF PickupLife, NewPickupAlone
  <2>3. booking[p][a] = 0
    BY <1>1, <2>2 DEF PickupLife, NothingBeforePickup, NoQty
  <2>4. booking'[p][a] = Need[p][a]
    BY <1>1, <1>2, <1>4, <2>3 DEF Book, InsertRows
  <2>5. avail'[a] = AtLeastZero(avail[a] - Need[p][a]) /\ total'[a] = total[a]
    BY <1>4 DEF Book, Decrement
  <2> QED
    BY <1>2, <2>1, <2>3, <2>4, <2>5 DEF Takes
<1>5. CASE Release(w)
  <2>1. pickupJob[w].seen = booking[p]
    BY <1>5 DEF Release, Overtake
  <2>2. booking'[p][a] = 0
    BY <1>1, <1>2, <1>5 DEF Release, DeleteRows
  <2>3. Gives(w, a, booking[p][a], booking[p][a], 0)
    BY <1>2, <1>5, <2>1, <2>2 DEF Gives, Release, Restored, AtLeastZero
  <2> QED
    BY <1>2, <2>3
<1>6. CASE Settle(w)
  <2>1. pickupJob[w].seen = booking[p]
    BY <1>6 DEF Settle, Overtake
  <2>2. booking'[p][a] = 0
    BY <1>1, <1>2, <1>6 DEF Settle, DeleteRows
  <2>3. PickupGivenBack(w)[a] \in Nat /\ PickupGivenBack(w)[a] <= booking[p][a]
    BY <1>1, <1>2, <2>1 DEF PickupGivenBack, AtMost
  <2>4. /\ avail'[a] = Restored(PickupGivenBack(w))[a]
        /\ total'[a] = AtLeastZero(total[a] - pickupJob[w].short[a])
    BY <1>6 DEF Settle, PickupTotalAfter
  <2>5. Gives(w, a, booking[p][a], PickupGivenBack(w)[a], pickupJob[w].short[a])
    BY <1>1, <1>2, <2>2, <2>3, <2>4 DEF Gives, Restored, AtLeastZero
  <2> QED
    BY <1>6, <2>1, <2>5
<1>7. CASE Hand(w)
  <2> DEFINE back == [b \in Assets |-> IF b \in Reduced(w)
                            THEN pickupJob[w].seen[b] - pickupJob[w].count[b] ELSE 0]
  <2>1. avail' = Restored(back) /\ total' = total
    BY <1>7 DEF Hand
  <2>2. booking'[p][a] = IF a \in Reduced(w) /\ booking[p][a] > 0 THEN pickupJob[w].count[a]
                                                                   ELSE booking[p][a]
    BY <1>1, <1>2, <1>7 DEF Hand
  <2>3. CASE a \in Reduced(w)
    <3>1. pickupJob[w].count[a] < pickupJob[w].seen[a]
      BY <2>3 DEF Reduced
    <3>2. pickupJob[w].seen # NoQty
      BY <1>1, <3>1 DEF NoQty
    <3>3. pickupJob[w].seen = booking[p]
      BY <1>7, <3>2 DEF Hand, Overtake, ToReduce
    <3>4. back[a] = booking[p][a] - pickupJob[w].count[a]
      BY <2>3, <3>3
    <3> HIDE DEF back
    <3>5. Gives(w, a, back[a], back[a], 0)
      BY <1>1, <1>2, <2>1, <2>2, <2>3, <3>1, <3>3, <3>4 DEF Gives, Restored, AtLeastZero
    <3>6. back[a] \in Nat
      BY <3>5 DEF Gives
    <3> QED
      BY <3>5, <3>6
  <2>4. CASE a \notin Reduced(w)
    <3>1. back[a] = 0
      BY <2>4
    <3> HIDE DEF back
    <3>2. Gives(w, a, 0, 0, 0)
      BY <1>1, <1>2, <2>1, <2>2, <2>4, <3>1 DEF Gives, Restored, AtLeastZero
    <3> QED
      BY <3>2
  <2> QED
    BY <2>3, <2>4
<1>8. CASE Add(w)
  <2>1. PickupAt(w, "add") /\ booking'[p][a] = booking[p][a] + pickupJob[w].seen[a]
    BY <1>1, <1>2, <1>8 DEF Add
  <2>2. avail'[a] = AtLeastZero(avail[a] - pickupJob[w].seen[a]) /\ total'[a] = total[a]
    BY <1>8 DEF Add
  <2> QED
    BY <1>1, <2>1, <2>2 DEF Takes
<1>9. CASE Gate(w) \/ SumPickupRows(w) \/ PickupWriteOffRejected(w) \/ CheckAdd(w)
  BY <1>3, <1>9 DEF Gate, SumPickupRows, PickupWriteOffRejected, CheckAdd, invVars
<1>10. CASE NoCost(w) \/ FlipPickup(w) \/ Scan(w)
  BY <1>3, <1>10 DEF NoCost, FlipPickup, Scan, invVars
<1> QED
  BY <1>4, <1>5, <1>6, <1>7, <1>8, <1>9, <1>10 DEF ResumePickup

\* The numbers of a step of a handler.
LEMMA BookedAfterStep ==
    ASSUME PickupTypeOK, PickupTypeOK', [PickupNext]_pickupVars,
           NEW w \in PickupActors, ResumePickup(w), NEW a \in Assets
    PROVE  /\ Booked(a, Holders)' = Booked(a, Holders) + booking'[On(w)][a] - booking[On(w)][a]
           /\ Booked(a, Holders) \in Nat /\ Booked(a, Holders)' \in Nat
           /\ booking[On(w)][a] \in Nat /\ booking'[On(w)][a] \in Nat
           /\ avail[a] \in Nat /\ avail'[a] \in Nat /\ total[a] \in Nat /\ total'[a] \in Nat
<1>1. On(w) \in Holders /\ InvTypeOK /\ InvTypeOK'
  BY StatusAfter DEF PickupTypeOK
<1>2. Holders \in SUBSET Holders /\ Booked(a, Holders) \in Nat /\ Booked(a, Holders)' \in Nat
  BY <1>1, BookedType
<1>3. ASSUME NEW g \in Holders \ {On(w)}
      PROVE  booking'[g][a] = booking[g][a]
  <2>1. CASE g \in Pickups
    BY <1>3, <2>1, OwnPickupOnly
  <2>2. CASE g \notin Pickups
    BY <1>3, <2>2, PickupRowsOnly
  <2> QED
    BY <2>1, <2>2
<1>4. Booked(a, Holders)' = Booked(a, Holders) + booking'[On(w)][a] - booking[On(w)][a]
  BY <1>1, <1>3, BookedAfterChange
<1> QED
  BY <1>1, <1>2, <1>4 DEF InvTypeOK

\* The surplus of a pickup is a number, and how many units they are together.
LEMMA SurplusType ==
    ASSUME NEW p \in Pickups, NEW a \in Assets
    PROVE  /\ Cart[p]["first"][a] \in Nat /\ Cart[p]["second"][a] \in Nat
           /\ PickupTypeOK => Surplus(p, a) \in Nat /\ items[p]["added"][a] \in Nat
           /\ PickupTypeOK' => Surplus(p, a)' \in Nat /\ items'[p]["added"][a] \in Nat
<1>1. Cart[p]["first"][a] \in Nat /\ Cart[p]["second"][a] \in Nat
  BY CartType DEF CartLines
<1>2. /\ PickupTypeOK => items[p]["added"][a] \in Nat
      /\ PickupTypeOK' => items'[p]["added"][a] \in Nat
  BY DEF PickupTypeOK, Lines, CartLines
<1> QED
  BY <1>1, <1>2 DEF Surplus, AtMost

LEMMA ExcessType ==
    ASSUME NEW a \in Assets
    PROVE  /\ PickupTypeOK => Excess(a) \in Nat
           /\ PickupTypeOK' => Excess(a)' \in Nat
           /\ Excess(a) = Cardinality(CountedUnits([p \in Pickups |-> Surplus(p, a)], Pickups))
           /\ Excess(a)' = Cardinality(CountedUnits([p \in Pickups |-> Surplus(p, a)'], Pickups))
<1> DEFINE n == [p \in Pickups |-> Surplus(p, a)]
           m == [p \in Pickups |-> Surplus(p, a)']
<1>1. IsFiniteSet(Pickups)
  BY PickupsType, HoldersFinite, FS_Subset
<1>2. /\ Excess(a) = Cardinality(CountedUnits(n, Pickups))
      /\ Excess(a)' = Cardinality(CountedUnits(m, Pickups))
  BY DEF Excess, CountedUnits
<1>3. /\ PickupTypeOK => \A p \in Pickups : n[p] \in Nat
      /\ PickupTypeOK' => \A p \in Pickups : m[p] \in Nat
  BY SurplusType
<1>4. /\ PickupTypeOK => Cardinality(CountedUnits(n, Pickups)) \in Nat
      /\ PickupTypeOK' => Cardinality(CountedUnits(m, Pickups)) \in Nat
  <2> HIDE DEF n, m
  <2> QED
    BY <1>1, <1>3, CountIsFinite
<1> QED
  BY <1>2, <1>4

\* A surplus is never taken back.
LEMMA SurplusGrows ==
    ASSUME PickupTypeOK, PickupTypeOK', PickupLife, [PickupNext]_pickupVars, NEW p \in Pickups,
           p \notin overtaken', NEW a \in Assets
    PROVE  /\ Surplus(p, a) <= Surplus(p, a)'
           /\ \A w \in PickupActors : (ResumePickup(w) /\ p = On(w)) =>
                  /\ PickupAt(w, "add") =>
                         Surplus(p, a)' = Surplus(p, a) + pickupJob[w].seen[a]
                  /\ PickupAt(w, "book") =>
                         /\ Surplus(p, a) = 0
                         /\ Surplus(p, a)' = AtMost(Cart[p]["first"][a], Cart[p]["second"][a])
<1> DEFINE m == AtMost(Cart[p]["first"][a], Cart[p]["second"][a])
<1>1. /\ m \in Nat /\ items[p]["added"][a] \in Nat /\ items'[p]["added"][a] \in Nat
      /\ "added" \in Lines /\ items[p] \in [Lines -> [Assets -> Nat]]
  BY SurplusType DEF AtMost, Lines, PickupTypeOK
<1>2. items[p]["added"][a] <= items'[p]["added"][a]
  BY <1>1, RowsOnlyGrow
<1>3. pickupStatus[p] # "NONE" => pickupStatus'[p] # "NONE"
  BY PickupRowStays DEF PickupLife
<1>4. /\ Surplus(p, a) = items[p]["added"][a] + IF pickupStatus[p] = "NONE" THEN 0 ELSE m
      /\ Surplus(p, a)' = items'[p]["added"][a] + IF pickupStatus'[p] = "NONE" THEN 0 ELSE m
  BY DEF Surplus
<1> HIDE DEF m
<1>5. Surplus(p, a) <= Surplus(p, a)'
  BY <1>1, <1>2, <1>3, <1>4
<1>6. ASSUME NEW w \in PickupActors, ResumePickup(w), p = On(w), PickupAt(w, "add")
      PROVE  Surplus(p, a)' = Surplus(p, a) + pickupJob[w].seen[a]
  <2>1. Add(w)
    BY <1>6, ActionOfStep DEF PickupAt
  <2>2. pickupJob[w].seen[a] \in Nat /\ pickupStatus'[p] = pickupStatus[p]
    BY <1>6, <2>1, StatusAfter, RunningPickup DEF Add
  <2>3. items'[p]["added"][a] = items[p]["added"][a] + pickupJob[w].seen[a]
    BY <1>1, <1>6, <2>1 DEF Add, PickupTypeOK
  <2> QED
    BY <1>1, <1>4, <2>2, <2>3
<1>7. ASSUME NEW w \in PickupActors, ResumePickup(w), p = On(w), PickupAt(w, "book")
      PROVE  Surplus(p, a) = 0 /\ Surplus(p, a)' = m
  <2>1. Books(w, p)
    <3>1. Book(w) /\ pickupJob[w].op = "submit" /\ pickupJob[w].to = "PRICING_REVIEW"
      <4>1. JobShape(pickupJob[w]) /\ pickupJob[w] \in PickupJobs
        BY DEF PickupLife, JobsShaped, PickupTypeOK
      <4> QED
        BY <1>7, <4>1, ActionOfStep, StepTellsOp DEF PickupAt, JobShape
    <3>2. pickupStatus[p] = "NONE" /\ pickupStatus'[p] = "PRICING_REVIEW"
      BY <1>7, <3>1 DEF Book, PickupTypeOK, PickupLife, NewPickupAlone
    <3> QED
      BY <1>7, <3>2, OwnWrites DEF Writes, Standing, Books, Releases, Settles, Hands, Flips, Scans,
         Adds, PickupAt
  <2>2. items[p]["added"][a] = 0
    BY <2>1 DEF Books, PickupLife, NothingBeforePickup, NoItems, NoQty, Lines
  <2>3. items'[p]["added"][a] = 0
    BY <2>1, CartIsNeeded DEF Books
  <2> QED
    BY <1>1, <1>4, <2>1, <2>2, <2>3 DEF Books
<1> QED
  BY <1>5, <1>6, <1>7 DEF m

\* What the counter shows and what is booked come to no more than was bought and
\* what the gate lets in on top.
WithinExcess == overtaken = {} => \A a \in Assets : avail[a] + Booked(a, Holders) <= Stock[a] + Excess(a)

LEMMA StaysWithinExcess ==
    ASSUME PickupTypeOK, PickupTypeOK', PickupLife, GateStaysGood, WithinExcess,
           [PickupNext]_pickupVars
    PROVE  WithinExcess'
<1> SUFFICES ASSUME overtaken' = {}, NEW a \in Assets
             PROVE  avail'[a] + Booked(a, Holders)' <= Stock[a] + Excess(a)'
  BY DEF WithinExcess
<1>1. /\ avail[a] + Booked(a, Holders) <= Stock[a] + Excess(a)
      /\ Stock[a] \in Nat /\ Excess(a) \in Nat /\ Excess(a)' \in Nat
  BY HistoryGrows, StockType, ExcessType DEF WithinExcess
<1>2. \A p \in Pickups : /\ Surplus(p, a) \in Nat /\ Surplus(p, a)' \in Nat
                         /\ Surplus(p, a) <= Surplus(p, a)'
  BY SurplusType, SurplusGrows
<1>3. IsFiniteSet(Pickups)
  BY PickupsType, HoldersFinite, FS_Subset
<1> DEFINE n == [p \in Pickups |-> Surplus(p, a)]
           m == [p \in Pickups |-> Surplus(p, a)']
<1>4. \A p \in Pickups : n[p] = Surplus(p, a) /\ m[p] = Surplus(p, a)'
  OBVIOUS
<1>5. Excess(a) = Cardinality(CountedUnits(n, Pickups)) /\ Excess(a)' = Cardinality(CountedUnits(m, Pickups))
  BY ExcessType
<1> HIDE DEF n, m
<1>6. CASE UNCHANGED <<total, avail, booking>>
  <2>1. Excess(a) <= Excess(a)'
    BY <1>2, <1>3, <1>4, <1>5, CountIsMonotone
  <2>2. Booked(a, Holders)' = Booked(a, Holders) /\ avail'[a] = avail[a]
    BY <1>6 DEF Booked, Units
  <2>3. avail[a] \in Nat /\ Booked(a, Holders) \in Nat
    BY BookedType DEF PickupTypeOK, InvTypeOK
  <2> QED
    BY <1>1, <2>1, <2>2, <2>3
<1>7. ASSUME NEW w \in PickupActors, ResumePickup(w), NEW p \in Pickups, p = On(w)
      PROVE  avail'[a] + Booked(a, Holders)' <= Stock[a] + Excess(a)'
  <2>1. /\ Booked(a, Holders)' = Booked(a, Holders) + booking'[p][a] - booking[p][a]
        /\ Booked(a, Holders) \in Nat /\ Booked(a, Holders)' \in Nat
        /\ booking[p][a] \in Nat /\ booking'[p][a] \in Nat
        /\ avail[a] \in Nat /\ total[a] \in Nat
    BY <1>7, BookedAfterStep
  <2>2. p \in Pickups /\ p \notin overtaken'
    BY <1>7
  <2>3. Excess(a)' = Excess(a) + Surplus(p, a)' - Surplus(p, a)
    <3>1. \A q \in Pickups \ {p} : m[q] = n[q]
      <4>1. ASSUME NEW q \in Pickups \ {p}
            PROVE  Surplus(q, a)' = Surplus(q, a)
        BY <1>7, <4>1, OwnPickupOnly DEF Surplus
      <4> QED
        BY <1>4, <4>1
    <3>2. \A q \in Pickups : m[q] \in Nat /\ n[q] \in Nat
      BY <1>2, <1>4
    <3>3. Cardinality(CountedUnits(m, Pickups))
              = Cardinality(CountedUnits(n, Pickups)) + m[p] - n[p]
      BY <1>3, <2>2, <3>1, <3>2, CountAfterChange
    <3> QED
      BY <1>4, <1>5, <2>2, <3>3
  <2>4. /\ Surplus(p, a) \in Nat /\ Surplus(p, a)' \in Nat /\ Surplus(p, a) <= Surplus(p, a)'
    BY <1>2, <2>2
  <2>5. CASE PickupAt(w, "book") /\ Takes(w, a, Need[On(w)][a])
    <3> DEFINE f == Cart[p]["first"][a]
               s == Cart[p]["second"][a]
    <3>1. Surplus(p, a) = 0 /\ Surplus(p, a)' = AtMost(f, s)
      BY <1>7, <2>2, <2>5, SurplusGrows
    <3>2. f \in Nat /\ s \in Nat /\ Need[p][a] = f + s
      BY <2>2, SurplusType, NeedOfCart
    <3>3. f <= avail[a] /\ s <= avail[a]
      <4>1. CASE Need[p][a] = 0
        BY <2>1, <3>2, <4>1
      <4>2. CASE Need[p][a] > 0
        BY <1>7, <2>5, <4>2 DEF GateStaysGood, Items, CartLines
      <4> QED
        BY <3>2, <4>1, <4>2
    <3>4. /\ avail'[a] = AtLeastZero(avail[a] - Need[p][a])
          /\ booking'[p][a] = booking[p][a] + Need[p][a]
      BY <1>7, <2>5 DEF Takes
    <3> HIDE DEF f, s
    <3> QED
      BY <1>1, <2>1, <2>3, <2>4, <3>1, <3>2, <3>3, <3>4 DEF AtMost, AtLeastZero
  <2>6. CASE PickupAt(w, "add") /\ Takes(w, a, pickupJob[w].seen[a])
    <3>1. Surplus(p, a)' = Surplus(p, a) + pickupJob[w].seen[a]
      BY <1>7, <2>2, <2>6, SurplusGrows
    <3> QED
      BY <1>1, <1>7, <2>1, <2>3, <2>4, <2>6, <3>1 DEF Takes, AtLeastZero
  <2>7. ASSUME NEW k, NEW back, NEW lost, Gives(w, a, k, back, lost)
        PROVE  avail'[a] + Booked(a, Holders)' <= Stock[a] + Excess(a)'
    BY <1>1, <1>7, <2>1, <2>3, <2>4, <2>7 DEF Gives, AtMost
  <2> QED
    BY <1>7, <2>2, <2>5, <2>6, <2>7, StockAfter
<1> QED
  BY <1>6, <1>7, StockStep, StatusAfter

\* The gate checks each line of a cart alone and a mid-flow add checks days, so
\* more than there is can be promised, but never by more than these units, and never
\* at all of an asset that no cart repeats and nothing is added from: whatever the
\* carts, the handlers that interleave or die between their commits, the partial
\* handovers and write-offs, until a handler writes over a pickup that has moved on.
THEOREM PickupsOversellBounded == PickupSpec => []OversellBounded
<1> DEFINE Inv == PickupTypeOK /\ PickupLife /\ GateStaysGood /\ WithinExcess
<1>1. PickupInit => Inv
  <2> SUFFICES ASSUME PickupInit
               PROVE  WithinExcess
    BY PickupInitType, InitPickupLife, InitGates
  <2>1. ASSUME NEW a \in Assets
        PROVE  avail[a] + Booked(a, Holders) <= Stock[a] + Excess(a)
    <3>1. Booked(a, Holders) = 0 /\ avail[a] = Stock[a] /\ Stock[a] \in Nat
      BY NothingBooked, StockType DEF PickupInit, InvInit
    <3>2. Excess(a) \in Nat
      BY ExcessType, PickupInitType
    <3> QED
      BY <3>1, <3>2
  <2> QED
    BY <2>1 DEF WithinExcess
<1>2. Inv /\ [PickupNext]_pickupVars => Inv'
  BY PickupNextType, NextPickupLife, GatesStayGood, StaysWithinExcess DEF PickupLife
<1>3. Inv => OversellBounded
  <2> SUFFICES ASSUME Inv, overtaken = {}, NEW a \in Assets, NEW t \in Days
               PROVE  Committed(a, t) <= Stock[a] + Excess(a)
    BY DEF OversellBounded
  <2>1. /\ InvTypeOK /\ avail[a] \in Nat /\ Stock[a] \in Nat /\ Excess(a) \in Nat
        /\ avail[a] + Booked(a, Holders) <= Stock[a] + Excess(a)
    BY StockType, ExcessType DEF PickupTypeOK, InvTypeOK, WithinExcess
  <2>2. Committed(a, t) <= Booked(a, Holders) /\ Committed(a, t) \in Nat
        /\ Booked(a, Holders) \in Nat
    BY <2>1, CommittedWithinBooked, CommittedType, BookedType
  <2> QED
    BY <2>1, <2>2
<1> HIDE DEF Inv
<1> QED
  BY <1>1, <1>2, <1>3, PTL DEF PickupSpec

------------------------------------------------------------------------------
(* The counter.  A step gives back or writes off what it takes off the rows, *)
(* at least; it does so exactly when no line of a cart comes on top of       *)
(* another and nobody stands between two commits.                            *)

LEMMA NoSurplus ==
    ASSUME PickupTypeOK, NEW a \in Assets, Excess(a) = 0
    PROVE  \A p \in Pickups : Surplus(p, a) = 0
<1> DEFINE n == [p \in Pickups |-> Surplus(p, a)]
           z == [p \in Pickups |-> 0]
<1>1. IsFiniteSet(Pickups)
  BY PickupsType, HoldersFinite, FS_Subset
<1>2. \A p \in Pickups : n[p] = Surplus(p, a) /\ n[p] \in Nat /\ z[p] = 0 /\ z[p] <= n[p]
  BY SurplusType
<1>3. Cardinality(CountedUnits(n, Pickups)) = 0
  BY ExcessType
<1> HIDE DEF n, z
<1>4. Cardinality(CountedUnits(z, Pickups)) \in Nat
  BY <1>1, <1>2, CountIsFinite
<1>5. Cardinality(CountedUnits(n, Pickups)) <= Cardinality(CountedUnits(z, Pickups))
  BY <1>3, <1>4
<1>6. \A p \in Pickups : z[p] = n[p]
  BY <1>1, <1>2, <1>5, CountIsStrict
<1> QED
  BY <1>2, <1>6

\* A completed return writes off what it does not give back: at least that, and no
\* more if the asset is in one row and as many were collected as are booked.
LEMMA LostIsWrittenOff ==
    ASSUME StagesInv, NEW w \in PickupActors, ResumePickup(w), Settle(w), NEW p \in Pickups, p = On(w),
           p \notin overtaken, p \notin overtaken', NEW a \in Assets
    PROVE  /\ booking[p][a] - PickupGivenBack(w)[a] <= pickupJob[w].short[a]
           /\ Surplus(p, a) = 0 /\ Clear(p) =>
                  pickupJob[w].short[a] = booking[p][a] - PickupGivenBack(w)[a]
<1> DEFINE r == pickupJob[w]
           b == booking[p][a]
           c == pickupJob[w].count[a]
           s == scanned[p][a]
           d(l) == AtLeastZero(collected[p][l][a] - c)
<1>1. /\ PickupTypeOK /\ PickupLife /\ p \in Holders /\ JobShape(r) /\ r \in PickupJobs
      /\ r.step = "settle" /\ RowsTally(p) /\ JobTally(r, p) /\ OutStage(p)
  BY PickupsType DEF StagesInv, Tallied, Staged, PickupTypeOK, PickupLife, JobsShaped, On, Settle, PickupAt
<1>2. Settles(w, p)
  <2>1. PickupCurrent(w) /\ pickupStatus'[p] = r.to
    BY <1>1 DEF Settle, Overtake, PickupTypeOK
  <2>2. pickupStatus[p] = r.read /\ r.read # r.to
    BY <1>1, <2>1, StepTellsOp DEF PickupCurrent, JobShape, StuckStatuses
  <2>3. Writes(w, p)
    BY <1>1, <2>1, <2>2, OwnWrites DEF Standing
  <2> QED
    BY <1>1, <2>3 DEF Writes, Books, Releases, Hands, Flips, Scans, Adds
<1>3. /\ b \in Nat /\ s \in Nat /\ c \in Nat /\ r.seen[a] = b /\ r.short[a] \in Nat
      /\ items[p] \in [Lines -> [Assets -> Nat]] /\ collected[p] \in [Lines -> [Assets -> Nat]]
  BY <1>1, <1>2 DEF Settles, PickupTypeOK, InvTypeOK, PickupJobs
<1>4. CASE r.op # "complete"
  <2>1. PickupGivenBack(w)[a] = b /\ r.short[a] = 0
    BY <1>1, <1>2, <1>3, <1>4, StepTellsOp DEF PickupGivenBack, JobShape, NoQty
  <2> QED
    BY <1>3, <2>1
<1>5. CASE r.op = "complete"
  <2>1. pickupStatus[p] = "AWAITING_RETURN" /\ r.rows = items[p]
    BY <1>2, <1>5 DEF Settles
  <2>2. AsScanned(p, Clear(p))
    BY <1>1, <2>1 DEF OutStage, OutStatuses
  <2>3. \A l \in Lines : d(l) \in Nat /\ ShortBy(collected[p], r.count)[l][a] = d(l)
    BY <1>3 DEF AtLeastZero, ShortBy
  <2>4. r.short[a] = d("first") + d("second") + d("added")
    <3>1. r.short = RowSum(ShortBy(collected[p], r.count))
      BY <1>1, <1>5 DEF JobTally
    <3>2. {"first", "second", "added"} \subseteq Lines
      BY DEF Lines, CartLines
    <3> HIDE DEF d
    <3> QED
      BY <2>3, <3>1, <3>2 DEF RowSum
  <2>5. \A l \in Lines : /\ items[p][l][a] \in Nat
                         /\ items[p][l][a] > 0 => d(l) = AtLeastZero(s - c)
                         /\ items[p][l][a] = 0 => d(l) = 0
    BY <1>1, <1>3, <2>2 DEF AsScanned, RowsTally, AtLeastZero
  <2>6. Lines = {"first", "second", "added"}
    BY DEF Lines, CartLines
  <2>7. CASE ~Listed(w, a)
    <3>1. \A l \in Lines : items[p][l][a] = 0
      BY <1>3, <2>1, <2>5, <2>7 DEF Listed
    <3>2. b = 0
      <4>1. b <= RowSum(items[p])[a]
        BY <1>1 DEF RowsTally
      <4>2. RowSum(items[p])[a] = 0
        BY <1>3, <2>6, <3>1, RowSumType
      <4> QED
        BY <1>3, <4>1, <4>2
    <3>3. r.short[a] = 0
      BY <2>4, <2>5, <2>6, <3>1
    <3>4. PickupGivenBack(w)[a] = b
      BY <1>3, <2>7 DEF PickupGivenBack
    <3> QED
      BY <3>2, <3>3, <3>4
  <2>8. CASE Listed(w, a)
    <3>1. PickupGivenBack(w)[a] = AtMost(b, c)
      BY <1>3, <1>5, <2>8 DEF PickupGivenBack
    <3>2. PICK k \in Lines : items[p][k][a] > 0
      BY <2>1, <2>8 DEF Listed
    <3>3. d(k) = AtLeastZero(s - c)
      BY <2>5, <3>2
    <3>4. b <= s /\ (Clear(p) => b = s)
      BY <2>2 DEF AsScanned
    <3>5. r.short[a] >= d(k)
      <4> HIDE DEF d
      <4> QED
        BY <2>3, <2>4, <2>6
    <3>6. b - AtMost(b, c) <= r.short[a]
      <4> HIDE DEF b, c, s, d
      <4> QED
        BY <1>3, <2>3, <3>3, <3>4, <3>5 DEF AtMost, AtLeastZero
    <3>7. ASSUME Surplus(p, a) = 0
          PROVE  r.short[a] = d(k)
      <4>1. /\ items[p]["added"][a] = 0
            /\ items[p]["first"][a] = 0 \/ items[p]["second"][a] = 0
        <5>1. /\ items[p]["first"][a] = Cart[p]["first"][a]
              /\ items[p]["second"][a] = Cart[p]["second"][a]
          BY <1>1, <2>1 DEF RowsTally, CartLines
        <5>2. /\ items[p]["added"][a] + AtMost(Cart[p]["first"][a], Cart[p]["second"][a]) = 0
              /\ items[p]["added"][a] \in Nat
              /\ Cart[p]["first"][a] \in Nat /\ Cart[p]["second"][a] \in Nat
          BY <1>1, <2>1, <3>7, SurplusType DEF Surplus
        <5> QED
          BY <5>1, <5>2 DEF AtMost
      <4>2. \A l \in Lines : l # k => items[p][l][a] = 0
        BY <2>6, <3>2, <4>1
      <4>3. \A l \in Lines : l # k => d(l) = 0
        BY <2>5, <4>2
      <4>4. d(k) \in Nat
        BY <2>3
      <4> HIDE DEF d
      <4> QED
        BY <2>4, <2>6, <4>3, <4>4
    <3>8. ASSUME Surplus(p, a) = 0, Clear(p)
          PROVE  r.short[a] = b - AtMost(b, c)
      <4>1. r.short[a] = AtLeastZero(s - c) /\ b = s
        BY <3>3, <3>4, <3>7, <3>8
      <4> HIDE DEF b, c, s, d
      <4> QED
        BY <1>3, <4>1 DEF AtMost, AtLeastZero
    <3> QED
      BY <3>1, <3>6, <3>8
  <2> QED
    BY <2>7, <2>8
<1> QED
  BY <1>4, <1>5

\* Nobody has died between his two commits, and who is between them has not seen
\* his pickup leave or end meanwhile.
Ended == OutStatuses \cup {"CLOSED", "CANCELLED", "DECLINED"}
InOrder == /\ halfDone = {}
           /\ \A w \in PickupActors : HalfWay(w) => pickupStatus[pickupJob[w].pickup] \notin Ended
CounterSums == overtaken = {} => \A a \in Assets :
    /\ avail[a] + Booked(a, Holders) >= total[a]
    /\ InOrder /\ Excess(a) = 0 => avail[a] + Booked(a, Holders) = total[a]

LEMMA InOrderBefore ==
    ASSUME PickupTypeOK, PickupLife, [PickupNext]_pickupVars, overtaken' = {}, InOrder'
    PROVE  InOrder
<1>1. halfDone' = {} /\ halfDone = {}
  BY HistoryGrows DEF InOrder
<1>2. \A w \in PickupActors : HalfWay(w)' => pickupStatus'[pickupJob'[w].pickup] \notin Ended
  BY DEF InOrder
<1>3. ASSUME NEW w \in PickupActors, HalfWay(w), NEW p, p = pickupJob[w].pickup, pickupStatus[p] \in Ended
      PROVE  FALSE
  <2>1. p \in Pickups /\ JobShape(pickupJob[w])
    BY <1>3 DEF HalfWay, PickupAt, PickupTypeOK, PickupLife, JobsShaped
  <2>2. ~Flips(w, p)
    BY <1>3, <2>1 DEF HalfWay, PickupAt, Flips, JobShape, Ended, OutStatuses, CancellableStatuses, StuckStatuses
  <2>3. pickupJob'[w] = pickupJob[w] /\ HalfWay(w)'
    BY <1>1, <1>3, <2>1, <2>2, HalfWayEnds
  <2>4. pickupStatus'[p] \in Ended
    BY <1>3, <2>1, NeverGoesBack DEF Ended
  <2> QED
    BY <1>2, <1>3, <2>3, <2>4
<1> QED
  BY <1>1, <1>3 DEF InOrder

LEMMA CounterKept ==
    ASSUME StagesInv, StagesInv', GateStaysGood, CounterSums, [PickupNext]_pickupVars
    PROVE  CounterSums'
<1> SUFFICES ASSUME overtaken' = {}, NEW a \in Assets
             PROVE  /\ avail'[a] + Booked(a, Holders)' >= total'[a]
                    /\ InOrder' /\ Excess(a)' = 0 => avail'[a] + Booked(a, Holders)' = total'[a]
  BY DEF CounterSums
<1>1. PickupTypeOK /\ PickupTypeOK' /\ PickupLife
  BY DEF StagesInv
<1>2. /\ overtaken = {} /\ avail[a] + Booked(a, Holders) >= total[a]
      /\ InOrder /\ Excess(a) = 0 => avail[a] + Booked(a, Holders) = total[a]
  BY <1>1, HistoryGrows DEF CounterSums
<1>3. ASSUME Excess(a)' = 0
      PROVE  Excess(a) = 0 /\ \A p \in Pickups : Surplus(p, a) = 0 /\ Surplus(p, a)' = 0
  <2> DEFINE n == [p \in Pickups |-> Surplus(p, a)]
             m == [p \in Pickups |-> Surplus(p, a)']
  <2>1. \A p \in Pickups : /\ n[p] = Surplus(p, a) /\ m[p] = Surplus(p, a)'
                           /\ n[p] \in Nat /\ m[p] \in Nat /\ n[p] <= m[p]
    BY <1>1, SurplusType, SurplusGrows
  <2>2. /\ Excess(a) = Cardinality(CountedUnits(n, Pickups)) /\ Excess(a) \in Nat
        /\ Excess(a)' = Cardinality(CountedUnits(m, Pickups))
    BY <1>1, ExcessType
  <2>3. IsFiniteSet(Pickups)
    BY PickupsType, HoldersFinite, FS_Subset
  <2> HIDE DEF n, m
  <2>4. Cardinality(CountedUnits(n, Pickups)) <= Cardinality(CountedUnits(m, Pickups))
    BY <2>1, <2>3, CountIsMonotone
  <2>5. Excess(a) = 0
    BY <1>3, <2>2, <2>4
  <2>6. \A p \in Pickups : n[p] = 0
    BY <1>1, <2>1, <2>5, NoSurplus
  <2>7. Cardinality(CountedUnits(m, Pickups)) <= Cardinality(CountedUnits(n, Pickups))
    BY <1>3, <2>2, <2>5
  <2>8. \A p \in Pickups : n[p] = m[p]
    BY <2>1, <2>3, <2>7, CountIsStrict
  <2> QED
    BY <2>1, <2>5, <2>6, <2>8
<1>4. InOrder' => InOrder
  BY <1>1, InOrderBefore
<1>5. CASE UNCHANGED <<total, avail, booking>>
  <2>1. Booked(a, Holders)' = Booked(a, Holders) /\ avail'[a] = avail[a] /\ total'[a] = total[a]
    BY <1>5 DEF Booked, Units
  <2> QED
    BY <1>2, <1>3, <1>4, <2>1
<1>6. ASSUME NEW w \in PickupActors, ResumePickup(w), NEW p \in Pickups, p = On(w)
      PROVE  /\ avail'[a] + Booked(a, Holders)' >= total'[a]
             /\ InOrder' /\ Excess(a)' = 0 => avail'[a] + Booked(a, Holders)' = total'[a]
  <2>1. /\ Booked(a, Holders)' = Booked(a, Holders) + booking'[p][a] - booking[p][a]
        /\ Booked(a, Holders) \in Nat /\ Booked(a, Holders)' \in Nat
        /\ booking[p][a] \in Nat /\ booking'[p][a] \in Nat
        /\ avail[a] \in Nat /\ avail'[a] \in Nat /\ total[a] \in Nat /\ total'[a] \in Nat
    BY <1>1, <1>6, BookedAfterStep
  <2>2. ASSUME NEW n, Takes(w, a, n), Excess(a)' = 0 => n <= avail[a]
        PROVE  /\ avail'[a] + Booked(a, Holders)' >= total'[a]
               /\ InOrder' /\ Excess(a)' = 0 => avail'[a] + Booked(a, Holders)' = total'[a]
    <3>1. /\ n \in Nat /\ avail'[a] = AtLeastZero(avail[a] - n) /\ total'[a] = total[a]
          /\ booking'[p][a] = booking[p][a] + n
      BY <1>6, <2>2 DEF Takes
    <3> QED
      BY <1>2, <1>3, <1>4, <2>1, <2>2, <3>1 DEF AtLeastZero
  <2>3. ASSUME NEW n, NEW back, NEW lost, Gives(w, a, n, back, lost), n - back <= lost,
               InOrder' /\ Excess(a)' = 0 => lost = n - back
        PROVE  /\ avail'[a] + Booked(a, Holders)' >= total'[a]
               /\ InOrder' /\ Excess(a)' = 0 => avail'[a] + Booked(a, Holders)' = total'[a]
    <3>1. /\ n \in Nat /\ back \in Nat /\ lost \in Nat /\ back <= n /\ n <= booking[p][a]
          /\ avail'[a] = IF back > 0 THEN AtMost(total[a], avail[a] + back) ELSE avail[a]
          /\ total'[a] = AtLeastZero(total[a] - lost)
          /\ booking'[p][a] = booking[p][a] - n
      BY <1>6, <2>3 DEF Gives
    <3>2. Booked(a, Holders)' = Booked(a, Holders) - n
      BY <2>1, <3>1
    <3>3. avail'[a] + Booked(a, Holders)' >= total'[a]
      BY <1>2, <2>1, <2>3, <3>1, <3>2 DEF AtLeastZero, AtMost
    <3>4. ASSUME InOrder', Excess(a)' = 0
          PROVE  avail'[a] + Booked(a, Holders)' = total'[a]
      <4>1. lost = n - back /\ avail[a] + Booked(a, Holders) = total[a]
        BY <1>2, <1>3, <1>4, <2>3, <3>4
      <4> QED
        BY <2>1, <3>1, <3>2, <4>1 DEF AtLeastZero, AtMost
    <3> QED
      BY <3>3, <3>4
  <2>4. CASE PickupAt(w, "book") /\ Takes(w, a, Need[p][a])
    <3> DEFINE f == Cart[p]["first"][a]
               s == Cart[p]["second"][a]
    <3>1. f \in Nat /\ s \in Nat /\ Need[p][a] = f + s
      BY SurplusType, NeedOfCart
    <3>2. f <= avail[a] /\ s <= avail[a]
      <4>1. CASE Need[p][a] = 0
        BY <2>1, <3>1, <4>1
      <4>2. CASE Need[p][a] > 0
        BY <1>6, <2>4, <4>2 DEF GateStaysGood, Items, CartLines
      <4> QED
        BY <3>1, <4>1, <4>2
    <3>3. ASSUME Excess(a)' = 0
          PROVE  AtMost(f, s) = 0
      <4>1. Surplus(p, a)' = AtMost(f, s)
        BY <1>1, <1>6, <2>4, SurplusGrows
      <4> QED
        BY <1>3, <3>3, <4>1
    <3> HIDE DEF f, s
    <3>4. Excess(a)' = 0 => Need[p][a] <= avail[a]
      BY <2>1, <3>1, <3>2, <3>3 DEF AtMost
    <3> QED
      BY <2>2, <2>4, <3>4
  <2>5. CASE PickupAt(w, "add") /\ Takes(w, a, pickupJob[w].seen[a])
    <3>1. Surplus(p, a)' = Surplus(p, a) + pickupJob[w].seen[a]
      BY <1>1, <1>6, <2>5, SurplusGrows
    <3>2. pickupJob[w].seen[a] \in Nat
      BY <2>5 DEF Takes
    <3>3. Excess(a)' = 0 => pickupJob[w].seen[a] <= avail[a]
      BY <1>3, <2>1, <3>1, <3>2
    <3> QED
      BY <2>2, <2>5, <3>3
  <2>6. ASSUME NEW n \in Nat, Gives(w, a, n, n, 0)
        PROVE  /\ avail'[a] + Booked(a, Holders)' >= total'[a]
               /\ InOrder' /\ Excess(a)' = 0 => avail'[a] + Booked(a, Holders)' = total'[a]
    BY <2>3, <2>6
  <2>7. CASE /\ Settle(w) /\ pickupJob[w].seen[a] = booking[p][a]
             /\ Gives(w, a, booking[p][a], PickupGivenBack(w)[a], pickupJob[w].short[a])
    <3>1. /\ booking[p][a] - PickupGivenBack(w)[a] <= pickupJob[w].short[a]
          /\ Surplus(p, a) = 0 /\ Clear(p) =>
                 pickupJob[w].short[a] = booking[p][a] - PickupGivenBack(w)[a]
      BY <1>2, <1>6, <2>7, LostIsWrittenOff
    <3>2. ASSUME InOrder'
          PROVE  Clear(p)
      <4>1. pickupStatus'[p] = pickupJob[w].to /\ pickupJob[w].to \in {"CANCELLED", "CLOSED"}
        <5>1. JobShape(pickupJob[w]) /\ pickupJob[w] \in PickupJobs /\ pickupJob[w].step = "settle"
          BY <1>1, <2>7 DEF PickupLife, JobsShaped, PickupTypeOK, Settle, PickupAt
        <5> QED
          BY <1>1, <1>6, <2>7, <5>1, StepTellsOp DEF Settle, JobShape, PickupTypeOK
      <4>2. \A v \in PickupActors \ {w} : pickupJob'[v] = pickupJob[v]
        BY <1>1, <1>6, PickupJobAfter
      <4>3. ~HalfWay(w)
        BY <2>7 DEF HalfWay, Settle, PickupAt
      <4>4. \A v \in PickupActors : HalfWay(v)' => pickupStatus'[pickupJob'[v].pickup] \notin Ended
        BY <3>2 DEF InOrder
      <4>5. p \notin halfDone
        BY <1>4, <3>2 DEF InOrder
      <4> QED
        BY <4>1, <4>2, <4>3, <4>4, <4>5 DEF Clear, HalfWay, PickupAt, Ended
    <3>3. InOrder' /\ Excess(a)' = 0 =>
              pickupJob[w].short[a] = booking[p][a] - PickupGivenBack(w)[a]
      BY <1>3, <3>1, <3>2
    <3> QED
      BY <2>3, <2>7, <3>1, <3>3
  <2>8. On(w) \notin overtaken'
    OBVIOUS
  <2> QED
    BY <1>1, <1>6, <2>4, <2>5, <2>6, <2>7, <2>8, StockAfter
<1> QED
  BY <1>1, <1>5, <1>6, StockStep, StatusAfter

\* The counter of an asset (CounterExact): it never shows fewer units than are free,
\* and it is exactly the pool less what pickups hold as long as no cart repeats the
\* asset, nothing is added mid-flow and no handler is, or has died, between its two
\* commits.  Repeated lines, adds, partial handovers, write-offs, crashes and
\* handlers that interleave are all in; only writing over a pickup is not.
THEOREM PickupCounterIsExact == PickupSpec => []CounterExact
<1> DEFINE Inv == StagesInv /\ GateStaysGood /\ CounterSums
<1>1. PickupInit => Inv
  <2> SUFFICES ASSUME PickupInit
               PROVE  CounterSums
    BY InitStagesInv, InitGates
  <2>1. ASSUME NEW a \in Assets
        PROVE  avail[a] + Booked(a, Holders) = total[a] /\ total[a] \in Nat
    BY NothingBooked, StockType DEF PickupInit, InvInit
  <2>2. \A a \in Assets : avail[a] + Booked(a, Holders) >= total[a]
    BY <2>1
  <2> QED
    BY <2>1, <2>2 DEF CounterSums
<1>2. Inv /\ [PickupNext]_pickupVars => Inv'
  BY NextStagesInv, GatesStayGood, CounterKept DEF StagesInv, PickupLife
<1>3. Inv => CounterExact
  BY DEF CounterSums, CounterExact, InOrder
<1> HIDE DEF Inv
<1> QED
  BY <1>1, <1>2, <1>3, PTL DEF PickupSpec

------------------------------------------------------------------------------
(* What orders hold: active ones their rows, ended ones none, whatever         *)
(* handlers overlap, die, or close an order in three commits.                  *)

\* The statuses that an order is moved to without a release.
MoveTargets == Statuses \ {"NONE", "CLOSED", "CANCELLED"}

OrderJobShape(r) ==
    \/ r = Idle
    \/ /\ r.order \in Orders
       /\ \/ r.op = "submit" /\ r.step \in {"lock", "book"} /\ r.to = "PRICING_REVIEW"
          \/ /\ r.op = "approve" /\ r.step \in {"lock", "book", "flip"}
             /\ r.read = "QUOTED" /\ r.to = "CONFIRMED"
          \/ /\ r.op \in {"decline", "cancel", "expire", "complete"}
             /\ r.step \in {"take", "sum", "apply"} /\ r.to \in TerminalStatuses
             /\ r.op # "expire" /\ r.read \in {"RETURN_IN_TRANSIT", "CLOSED"} => r.to = "CLOSED"
          \/ /\ r.op = "close" /\ r.step \in {"sum", "delete", "restore", "flip"}
             /\ r.read = "RETURN_IN_TRANSIT" /\ r.to = "CLOSED"
          \/ /\ r.op = "status" /\ r.step = "flip" /\ r.to \in MoveTargets
             /\ r.read \in ActiveStatuses \ {"RETURN_IN_TRANSIT"}
OrderJobsShaped == \A w \in OrderActors : OrderJobShape(job[w])

\* A request or the cron starts a handler w for order o.
OrderStarted(w, o) ==
    /\ OrderJobShape(job'[w]) /\ job'[w].order = o /\ job'[w].read = status[o]
    /\ job'[w].op = "close" => job'[w].step = "sum"
    /\ job[w] = Idle /\ \A v \in OrderActors : v # w => job'[v] = job[v]
    /\ UNCHANGED <<invVars, status, overtaken, halfDone>>

\* A step that changes neither the stock, nor a job, nor a status.
OrdersRest == UNCHANGED <<invVars, status, job, overtaken, halfDone>>

LEMMA BeginStarts ==
    ASSUME TypeOK, NEW w \in OrderActors, NEW o \in Orders, Begin(w, o)
    PROVE  OrderStarted(w, o)
<1>1. job \in [OrderActors -> Jobs]
  BY DEF TypeOK
<1>2. ASSUME NEW name, NEW op, NEW step, NEW to, Start(w, name, op, o, step, to)
      PROVE  /\ job'[w].op = op /\ job'[w].order = o /\ job'[w].step = step
             /\ job'[w].read = status[o] /\ job'[w].to = to
             /\ job[w] = Idle /\ \A v \in OrderActors : v # w => job'[v] = job[v]
             /\ UNCHANGED <<invVars, status, overtaken, halfDone>>
  BY <1>1, <1>2 DEF Start, Idle, calendar
<1>3. CASE BeginSubmit(w, o)
  BY <1>2, <1>3 DEF BeginSubmit, OrderStarted, OrderJobShape
<1>4. CASE BeginApproveQuote(w, o)
  BY <1>2, <1>4 DEF BeginApproveQuote, OrderStarted, OrderJobShape
<1>5. CASE BeginDeclineQuote(w, o)
  BY <1>2, <1>5 DEF BeginDeclineQuote, OrderStarted, OrderJobShape, TerminalStatuses
<1>6. CASE BeginCancelOrder(w, o)
  <2>1. status[o] \notin {"RETURN_IN_TRANSIT", "CLOSED"}
    BY <1>6 DEF BeginCancelOrder, NonCancellableStatuses, DispatchedStatuses
  <2> QED
    BY <1>2, <1>6, <2>1 DEF BeginCancelOrder, OrderStarted, OrderJobShape, TerminalStatuses
<1>7. ASSUME NEW name, NEW to \in MoveTargets, status[o] \in ActiveStatuses,
             status[o] # "RETURN_IN_TRANSIT", Start(w, name, "status", o, "flip", to)
      PROVE  OrderStarted(w, o)
  BY <1>2, <1>7 DEF OrderStarted, OrderJobShape
<1>8. CASE \/ BeginSubmitForApproval(w, o) \/ BeginAdminApproveQuote(w, o)
           \/ BeginReturnToLogistics(w, o) \/ BeginMarkAsNoCost(w, o) \/ BeginCompleteOutbound(w, o)
  <2>1. /\ {"PENDING_APPROVAL", "QUOTED", "PRICING_REVIEW", "CONFIRMED",
             "READY_FOR_DELIVERY"} \subseteq MoveTargets
        /\ StuckStatuses \cup {"PENDING_APPROVAL", "IN_PREPARATION"}
             \subseteq ActiveStatuses \ {"RETURN_IN_TRANSIT"}
    BY DEF MoveTargets, Statuses, ActiveStatuses, StuckStatuses
  <2>2. "PRICING_REVIEW" \in StuckStatuses
    BY DEF StuckStatuses
  <2> QED
    BY <1>7, <1>8, <2>1, <2>2 DEF BeginSubmitForApproval, BeginAdminApproveQuote,
       BeginReturnToLogistics, BeginMarkAsNoCost, BeginCompleteOutbound
<1>9. ASSUME NEW to \in Statuses, BeginProgress(w, o, to)
      PROVE  OrderStarted(w, o)
  <2>1. to \in MoveTargets /\ status[o] \in ActiveStatuses /\ status[o] # "RETURN_IN_TRANSIT"
    BY <1>9 DEF BeginProgress, ValidStateTransitions, MoveTargets, ActiveStatuses, Statuses
  <2> QED
    BY <1>7, <1>9, <2>1 DEF BeginProgress
<1>10. CASE BeginProgressToClosed(w, o)
  <2>1. status[o] = "RETURN_IN_TRANSIT"
    BY <1>10 DEF BeginProgressToClosed, ValidStateTransitions
  <2> QED
    BY <1>2, <1>10, <2>1 DEF BeginProgressToClosed, OrderStarted, OrderJobShape
<1>11. CASE BeginCompleteInbound(w, o)
  BY <1>1, <1>11 DEF BeginCompleteInbound, OrderStarted, OrderJobShape, TerminalStatuses, Idle, calendar
<1> QED
  BY <1>3, <1>4, <1>5, <1>6, <1>8, <1>9, <1>10, <1>11 DEF Begin

LEMMA CronStarts ==
    ASSUME TypeOK, NEW o \in Orders, CronBegin(o)
    PROVE  OrderStarted(Cron, o)
<1>1. job \in [OrderActors -> Jobs] /\ Cron \in OrderActors
  BY OrderActorsType DEF TypeOK
<1>2. CASE BeginEventStart(o)
  BY <1>1, <1>2 DEF BeginEventStart, Start, Idle, OrderStarted, OrderJobShape, MoveTargets,
     ActiveStatuses, Statuses, calendar
<1>3. CASE BeginEventEnd(o)
  BY <1>1, <1>3 DEF BeginEventEnd, Start, Idle, OrderStarted, OrderJobShape, MoveTargets,
     ActiveStatuses, Statuses, calendar
<1>4. CASE BeginExpire(o)
  BY <1>1, <1>4 DEF BeginExpire, Idle, OrderStarted, OrderJobShape, TerminalStatuses, calendar
<1> QED
  BY <1>2, <1>3, <1>4 DEF CronBegin

LEMMA OrderStepCases ==
    ASSUME TypeOK, [Next]_vars
    PROVE  \/ \E w \in OrderActors, o \in Orders : OrderStarted(w, o)
           \/ \E w \in OrderActors : Resume(w)
           \/ \E w \in OrderActors : Abort(w)
           \/ OrdersRest
<1>1. CASE \E w \in Workers, o \in Orders : Begin(w, o)
  BY <1>1, BeginStarts DEF Workers
<1>2. CASE \E o \in Orders : CronBegin(o)
  BY <1>2, CronStarts, OrderActorsType
<1>3. CASE \/ ListStuckQuotes \/ Tick \/ UNCHANGED vars
           \/ \E o \in Orders, a \in Assets : \E q \in 1 .. Need[o][a] : InboundScan(o, a, q)
  BY <1>3 DEF ListStuckQuotes, Tick, InboundScan, vars, orderVars, invVars, calendar, OrdersRest
<1> QED
  BY <1>1, <1>2, <1>3 DEF Next

\* How far a handler comes with one step.
OrderGoesOn(old, new) ==
    /\ new.op = old.op /\ new.order = old.order /\ new.to = old.to /\ new.read = old.read
    /\ \/ old.step = "lock" /\ new.step = "book"
       \/ old.step = "book" /\ old.op = "approve" /\ new.step = "flip"
       \/ old.step = "take" /\ new.step = "sum"
       \/ old.step = "sum" /\ old.op # "close" /\ new.step = "apply"
       \/ old.step = "sum" /\ old.op = "close" /\ new.step = "delete"
       \/ old.step \in {"delete", "restore"} /\ new.step \in {"restore", "flip"}

\* Neither the rows nor a status change, and no order gets into or out of a close.
RowsRest(w) == UNCHANGED <<booking, status>> /\ (HalfClosed(w)' <=> HalfClosed(w))

\* A step of a handler is one of these, and leaves the other handlers alone.
LEMMA OrderResumeKinds ==
    ASSUME TypeOK, NEW w \in OrderActors, OrderJobShape(job[w]), Resume(w)
    PROVE  /\ job[w].step # "idle" /\ Item(w) \in Orders /\ Item(w) \in Holders
           /\ \A v \in OrderActors : v # w => job'[v] = job[v]
           /\ job'[w] = Idle \/ OrderGoesOn(job[w], job'[w])
           /\ halfDone' = halfDone /\ overtaken \subseteq overtaken'
           /\ \/ BookSubmitted(w) \/ BookApproved(w) \/ Flip(w) \/ ReleaseAndFlip(w)
              \/ CloseDeleteRows(w) \/ RowsRest(w)
<1>1. job[w].step # "idle"
  BY DEF Resume, At, LockAndCheck, BookSubmitted, BookApproved, Flip, TakeOrderRow,
         SumRows, ReleaseAndFlip, WriteOffRejected, CloseDeleteRows, CloseRestore
<1>2. Item(w) \in Orders /\ Item(w) \in Holders
  BY <1>1, OrdersType DEF TypeOK, Item
<1>3. job \in [OrderActors -> Jobs] /\ job[w] # Idle
  BY <1>1 DEF TypeOK, Idle
<1>4. job[w].step \in {"lock", "book", "take", "apply"} => job[w].op # "close"
  BY <1>3 DEF OrderJobShape
<1>5. ASSUME Finish(w)
      PROVE  /\ job'[w] = Idle /\ ~HalfClosed(w)'
             /\ \A v \in OrderActors : v # w => job'[v] = job[v]
  BY <1>3, <1>5 DEF Finish, HalfClosed, Idle
<1>6. ASSUME NEW step, GoTo(w, step)
      PROVE  /\ \A v \in OrderActors : v # w => job'[v] = job[v]
             /\ job'[w].op = job[w].op /\ job'[w].order = job[w].order
             /\ job'[w].to = job[w].to /\ job'[w].read = job[w].read /\ job'[w].step = step
  BY <1>3, <1>6 DEF GoTo, Jobs
<1>7. \A h, c : Overtake(h, c) => overtaken \subseteq overtaken'
  BY DEF Overtake
<1>8. CASE LockAndCheck(w)
  <2>1. CASE Fits(Item(w))
    <3>1. /\ \A v \in OrderActors : v # w => job'[v] = job[v]
          /\ job'[w].op = job[w].op /\ job'[w].order = job[w].order /\ job'[w].read = job[w].read
          /\ job'[w].to = job[w].to /\ job'[w].step = "book"
      BY <1>3, <1>8, <2>1 DEF LockAndCheck, Jobs
    <3>2. job[w].op # "close"
      BY <1>4, <1>8 DEF LockAndCheck, At
    <3> QED
      BY <1>1, <1>2, <1>8, <3>1, <3>2 DEF LockAndCheck, At, OrderGoesOn, RowsRest, HalfClosed, calendar
  <2>2. CASE ~Fits(Item(w))
    BY <1>1, <1>2, <1>4, <1>5, <1>8, <2>2 DEF LockAndCheck, At, RowsRest, HalfClosed, calendar
  <2> QED
    BY <2>1, <2>2
<1>9. CASE BookSubmitted(w)
  BY <1>1, <1>2, <1>5, <1>9 DEF BookSubmitted, calendar
<1>10. CASE Flip(w)
  BY <1>1, <1>2, <1>5, <1>7, <1>10 DEF Flip
<1>11. CASE ReleaseAndFlip(w)
  BY <1>1, <1>2, <1>5, <1>7, <1>11 DEF ReleaseAndFlip
<1>12. CASE BookApproved(w)
  BY <1>1, <1>2, <1>6, <1>7, <1>12 DEF BookApproved, At, OrderGoesOn
<1>13. CASE TakeOrderRow(w)
  BY <1>1, <1>2, <1>6, <1>13 DEF TakeOrderRow, At, OrderGoesOn, RowsRest, HalfClosed, invVars, calendar
<1>14. CASE SumRows(w)
  <2>1. /\ \A v \in OrderActors : v # w => job'[v] = job[v]
        /\ job'[w].op = job[w].op /\ job'[w].order = job[w].order
        /\ job'[w].to = job[w].to /\ job'[w].read = job[w].read
        /\ job'[w].step = IF job[w].op = "close" THEN "delete" ELSE "apply"
    BY <1>3, <1>14 DEF SumRows, Jobs
  <2>2. job[w].step = "sum" /\ UNCHANGED <<booking, status, overtaken, halfDone>>
    BY <1>14 DEF SumRows, At, invVars, calendar
  <2>3. OrderGoesOn(job[w], job'[w])
    BY <2>1, <2>2 DEF OrderGoesOn
  <2>4. RowsRest(w)
    BY <2>1, <2>2 DEF RowsRest, HalfClosed
  <2> QED
    BY <1>1, <1>2, <2>1, <2>2, <2>3, <2>4
<1>15. CASE WriteOffRejected(w)
  BY <1>1, <1>2, <1>5, <1>15 DEF WriteOffRejected, At, RowsRest, HalfClosed, invVars, calendar
<1>16. CASE CloseDeleteRows(w)
  <2>1. PICK step \in {"restore", "flip"} : GoTo(w, step)
    BY <1>16 DEF CloseDeleteRows
  <2> QED
    BY <1>1, <1>2, <1>6, <1>7, <1>16, <2>1 DEF CloseDeleteRows, At, OrderGoesOn
<1>17. ASSUME NEW a \in Assets, CloseRestore(w, a)
       PROVE  /\ \A v \in OrderActors : v # w => job'[v] = job[v]
              /\ OrderGoesOn(job[w], job'[w]) /\ RowsRest(w)
              /\ halfDone' = halfDone /\ overtaken' = overtaken
  <2>1. /\ \A v \in OrderActors : v # w => job'[v] = job[v]
        /\ job'[w].op = job[w].op /\ job'[w].order = job[w].order
        /\ job'[w].to = job[w].to /\ job'[w].read = job[w].read
        /\ job'[w].step \in {"restore", "flip"}
    BY <1>3, <1>17 DEF CloseRestore, Jobs
  <2> QED
    BY <1>17, <2>1 DEF CloseRestore, At, OrderGoesOn, RowsRest, HalfClosed, calendar
<1> QED
  BY <1>1, <1>2, <1>8, <1>9, <1>10, <1>11, <1>12, <1>13, <1>14, <1>15, <1>16, <1>17 DEF Resume

\* A handler that dies leaves the stock, the statuses and the other handlers alone.
LEMMA AbortIsQuiet ==
    ASSUME TypeOK, NEW w \in OrderActors, Abort(w)
    PROVE  /\ job'[w] = Idle /\ \A v \in OrderActors : v # w => job'[v] = job[v]
           /\ UNCHANGED <<total, avail, booking, status, overtaken>>
           /\ halfDone \subseteq halfDone' /\ (HalfClosed(w) => job[w].order \in halfDone')
BY DEF TypeOK, Abort, Finish, Item

LEMMA OrderShapesKept ==
    ASSUME TypeOK, OrderJobsShaped, [Next]_vars
    PROVE  OrderJobsShaped'
<1> SUFFICES ASSUME NEW v \in OrderActors
             PROVE  OrderJobShape(job'[v])
  BY DEF OrderJobsShaped, OrderJobShape
<1>1. OrderJobShape(job[v]) /\ OrderJobShape(Idle)
  BY DEF OrderJobsShaped, OrderJobShape
<1>2. ASSUME NEW w \in OrderActors, NEW o \in Orders, OrderStarted(w, o)
      PROVE  OrderJobShape(job'[v])
  BY <1>1, <1>2 DEF OrderStarted
<1>3. ASSUME NEW w \in OrderActors, Resume(w)
      PROVE  OrderJobShape(job'[v])
  <2>1. OrderJobShape(job[w])
    BY DEF OrderJobsShaped
  <2>2. ASSUME OrderGoesOn(job[w], job'[w])
        PROVE  OrderJobShape(job'[w])
    <3>1. job[w].step # "idle"
      BY <2>2 DEF OrderGoesOn
    <3>2. job[w] # Idle
      BY <3>1 DEF Idle
    <3> QED
      BY <2>1, <2>2, <3>2 DEF OrderJobShape, OrderGoesOn
  <2> QED
    BY <1>1, <1>3, <2>1, <2>2, OrderResumeKinds
<1>4. ASSUME NEW w \in OrderActors, Abort(w)
      PROVE  OrderJobShape(job'[v])
  BY <1>1, <1>4, AbortIsQuiet
<1>5. CASE OrdersRest
  BY <1>1, <1>5 DEF OrdersRest
<1> QED
  BY <1>2, <1>3, <1>4, <1>5, OrderStepCases

LEMMA InitOrderShapes == Init => OrderJobsShaped
BY DEF Init, OrderJobsShaped, OrderJobShape

\* An order that nobody wrote over keeps to its status: while it is being closed it
\* is out or closed and, once its rows are deleted, has none; ended ones have none;
\* an active one has them unless a close hangs, or has died, between two commits.
OrderKept(o) ==
    /\ \A w \in OrderActors : (job[w].op = "close" /\ job[w].order = o) =>
           status[o] \in {"RETURN_IN_TRANSIT", "CLOSED"} /\ (HalfClosed(w) => ~HasRows(o))
    /\ status[o] \in {"CLOSED", "CANCELLED"} => ~HasRows(o)
    /\ (status[o] \in ActiveStatuses /\ Items(o) # {} /\ o \notin halfDone
           /\ \A w \in OrderActors : HalfClosed(w) => job[w].order # o) => HasRows(o)
OrdersKept == \A o \in Orders \ overtaken : OrderKept(o)

\* What does not touch the rows, the status or a close of an order keeps it.
LEMMA RestKeepsOrder ==
    ASSUME NEW o \in Orders, OrderKept(o), booking'[o] = booking[o], status'[o] = status[o],
           halfDone \subseteq halfDone',
           \A w \in OrderActors : (job'[w].op = "close" /\ job'[w].order = o) =>
               /\ status[o] \in {"RETURN_IN_TRANSIT", "CLOSED"}
               /\ HalfClosed(w)' => HalfClosed(w) /\ job[w].op = "close" /\ job[w].order = o,
           \A w \in OrderActors : (HalfClosed(w) /\ job[w].order = o) =>
               (HalfClosed(w)' /\ job'[w].order = o) \/ o \in halfDone'
    PROVE  OrderKept(o)'
<1>1. HasRows(o)' = HasRows(o) /\ Items(o)' = Items(o)
  BY DEF HasRows, Items
<1> QED
  BY <1>1 DEF OrderKept

\* A handler's step is about its own order.
LEMMA OwnOrderOnly ==
    ASSUME TypeOK, NEW w \in OrderActors, OrderJobShape(job[w]), Resume(w)
    PROVE  /\ \A h \in Holders : h # Item(w) => booking'[h] = booking[h]
           /\ \A o \in Orders : o # Item(w) => status'[o] = status[o]
<1>1. booking \in [Holders -> [Assets -> Nat]] /\ status \in [Orders -> Statuses]
  BY DEF TypeOK, InvTypeOK
<1>2. CASE BookSubmitted(w)
  BY <1>1, <1>2 DEF BookSubmitted, InsertRows
<1>3. CASE BookApproved(w)
  <2>1. UNCHANGED booking \/ InsertRows(Item(w))
    BY <1>3 DEF BookApproved
  <2> QED
    BY <1>1, <1>3, <2>1 DEF BookApproved, InsertRows
<1>4. CASE Flip(w)
  BY <1>1, <1>4 DEF Flip, invVars
<1>5. CASE ReleaseAndFlip(w)
  BY <1>1, <1>5 DEF ReleaseAndFlip, DeleteRows
<1>6. CASE CloseDeleteRows(w)
  BY <1>1, <1>6 DEF CloseDeleteRows, DeleteRows
<1>7. CASE RowsRest(w)
  BY <1>7 DEF RowsRest
<1> QED
  BY <1>2, <1>3, <1>4, <1>5, <1>6, <1>7, OrderResumeKinds

\* The step of a handler on its own order.
LEMMA OwnOrderKept ==
    ASSUME TypeOK, RInv, OrderJobsShaped, NEW w \in OrderActors, Resume(w), NEW o \in Orders,
           o = Item(w), OrderKept(o), o \notin overtaken'
    PROVE  OrderKept(o)'
<1>1. /\ booking \in [Holders -> [Assets -> Nat]] /\ status \in [Orders -> Statuses]
      /\ o \in Holders /\ OrderJobShape(job[w]) /\ job[w] # Idle /\ job[w].order = o
      /\ \A v \in OrderActors : v # w => job'[v] = job[v]
      /\ job'[w] = Idle \/ OrderGoesOn(job[w], job'[w])
      /\ halfDone' = halfDone
  BY OrderResumeKinds, OrdersType DEF TypeOK, InvTypeOK, OrderJobsShaped, Item, Idle
<1>2. Idle.op = "idle" /\ \A v \in OrderActors : v # w => (HalfClosed(v)' <=> HalfClosed(v))
  BY <1>1 DEF Idle, HalfClosed
<1>3. job'[w].op = "close" => job[w].op = "close"
  BY <1>1, <1>2 DEF OrderGoesOn
<1>4. Items(o)' = Items(o)
  BY DEF Items
\* Undisturbed, it finds the status that it has read.
<1>5. ASSUME NEW c, Overtake(o, c)
      PROVE  c
  <2>1. o \in overtaken' \/ c
    BY <1>5 DEF Overtake
  <2> QED
    BY <2>1
<1>6. ASSUME InsertRows(o), Items(o) # {}
      PROVE  HasRows(o)'
  <2>1. PICK a \in Assets : Need[o][a] > 0
    BY <1>6 DEF Items
  <2>2. booking'[o][a] = Need[o][a]
    BY <1>1, <1>6, <2>1 DEF InsertRows
  <2> QED
    BY <2>1, <2>2 DEF HasRows
<1>7. ASSUME DeleteRows(o)
      PROVE  ~HasRows(o)'
  BY <1>1, <1>7 DEF DeleteRows, HasRows
<1>8. CASE BookSubmitted(w)
  <2>1. job[w].op = "submit" /\ job[w].to = "PRICING_REVIEW"
    BY <1>1, <1>8 DEF BookSubmitted, OrderJobShape
  <2>2. \A v \in OrderActors : ~(job'[v].op = "close" /\ job'[v].order = o)
    BY <1>1, <1>3, <2>1 DEF RInv, NewOrderAlone
  <2>3. status'[o] = "PRICING_REVIEW" /\ InsertRows(o)
    BY <1>1, <1>8, <2>1 DEF BookSubmitted
  <2> QED
    BY <1>4, <1>6, <2>2, <2>3 DEF OrderKept
<1>9. CASE BookApproved(w)
  <2>1. job[w].op = "approve" /\ job[w].read = "QUOTED" /\ status' = status
    BY <1>1, <1>9 DEF BookApproved, OrderJobShape
  <2>2. job'[w].op # "close" /\ ~HalfClosed(w)
    BY <1>3, <2>1 DEF HalfClosed
  <2>3. CASE HasRows(o)
    <3>1. booking' = booking
      BY <1>9, <2>3 DEF BookApproved
    <3> QED
      BY <1>1, <1>2, <2>1, <2>2, <3>1, RestKeepsOrder DEF OrderKept
  <2>4. CASE ~HasRows(o)
    <3>1. InsertRows(o) /\ Overtake(o, Current(w))
      BY <1>9, <2>4 DEF BookApproved
    <3>2. status[o] = "QUOTED"
      BY <1>5, <2>1, <3>1 DEF Current
    <3>3. \A v \in OrderActors : ~(job'[v].op = "close" /\ job'[v].order = o)
      BY <1>1, <2>2, <3>2 DEF OrderKept
    <3> QED
      BY <1>4, <1>6, <2>1, <3>1, <3>2, <3>3 DEF OrderKept
  <2> QED
    BY <2>3, <2>4
<1>10. CASE Flip(w)
  <2>1. status'[o] = job[w].to /\ status[o] = job[w].read /\ job'[w] = Idle
    <3>1. Overtake(o, Current(w))
      BY <1>10 DEF Flip
    <3> QED
      BY <1>1, <1>5, <1>10, <3>1 DEF Flip, Current, Finish, TypeOK
  <2>2. HasRows(o)' = HasRows(o)
    BY <1>10 DEF Flip, invVars, HasRows
  <2>3. job'[w].op # "close" /\ ~HalfClosed(w)' /\ job[w].step = "flip"
    BY <1>2, <1>10, <2>1 DEF HalfClosed, Flip, At
  <2>4. CASE job[w].op = "close"
    <3>1. HalfClosed(w) /\ job[w].to = "CLOSED"
      BY <1>1, <2>3, <2>4 DEF HalfClosed, OrderJobShape
    <3>2. ~HasRows(o)'
      BY <1>1, <2>2, <2>4, <3>1 DEF OrderKept
    <3> QED
      BY <1>1, <1>2, <2>1, <2>3, <3>1, <3>2 DEF OrderKept, ActiveStatuses
  <2>5. CASE job[w].op # "close"
    <3>1. /\ status[o] \in ActiveStatuses \ {"RETURN_IN_TRANSIT"}
          /\ status'[o] \notin {"CLOSED", "CANCELLED"}
      BY <1>1, <2>1, <2>3, <2>5 DEF OrderJobShape, MoveTargets, ActiveStatuses, Statuses
    <3>2. ~HalfClosed(w) /\ status[o] # "CLOSED"
      BY <2>5, <3>1 DEF HalfClosed, ActiveStatuses
    <3>3. \A v \in OrderActors : ~(job'[v].op = "close" /\ job'[v].order = o)
      BY <1>1, <2>3, <3>1, <3>2 DEF OrderKept
    <3> QED
      BY <1>1, <1>2, <1>4, <2>2, <3>1, <3>2, <3>3 DEF OrderKept
  <2> QED
    BY <2>4, <2>5
<1>11. CASE ReleaseAndFlip(w)
  <2>1. DeleteRows(o) /\ status'[o] = job[w].to /\ job'[w] = Idle /\ job[w].step = "apply"
    BY <1>1, <1>11 DEF ReleaseAndFlip, Finish, TypeOK, At
  <2>2. Current(w)
    BY <1>5, <1>11 DEF ReleaseAndFlip
  <2>3. /\ job[w].to \in TerminalStatuses /\ job[w].op # "close"
        /\ job[w].op # "expire" /\ job[w].read \in {"RETURN_IN_TRANSIT", "CLOSED"} => job[w].to = "CLOSED"
    BY <1>1, <2>1 DEF OrderJobShape
  <2>4. status[o] \in {"RETURN_IN_TRANSIT", "CLOSED"} => status'[o] = "CLOSED"
    BY <1>1, <2>1, <2>2, <2>3 DEF Current, StuckStatuses, Item
  <2>5. status'[o] \notin ActiveStatuses
    BY <2>1, <2>3 DEF TerminalStatuses, ActiveStatuses
  <2> QED
    BY <1>1, <1>3, <1>7, <2>1, <2>3, <2>4, <2>5 DEF OrderKept
<1>12. CASE CloseDeleteRows(w)
  <2>1. DeleteRows(o) /\ status' = status /\ job[w].step = "delete"
    BY <1>12 DEF CloseDeleteRows, At
  <2>2. job[w].op = "close"
    BY <1>1, <2>1 DEF OrderJobShape
  <2>3. HalfClosed(w)' /\ job'[w].order = o
    <3>1. PICK step \in {"restore", "flip"} : GoTo(w, step)
      BY <1>12 DEF CloseDeleteRows
    <3> QED
      BY <1>1, <2>2, <3>1 DEF GoTo, HalfClosed, TypeOK, Jobs
  <2> QED
    BY <1>1, <1>3, <1>7, <2>1, <2>2, <2>3 DEF OrderKept
<1>13. CASE RowsRest(w)
  <2>1. HalfClosed(w) => job'[w] # Idle
    BY <1>2, <1>13 DEF RowsRest, HalfClosed
  <2>2. HalfClosed(w) => job'[w].order = o
    BY <1>1, <2>1 DEF OrderGoesOn
  <2> QED
    BY <1>1, <1>2, <1>3, <1>13, <2>2, RestKeepsOrder DEF RowsRest, OrderKept
<1> QED
  BY <1>8, <1>9, <1>10, <1>11, <1>12, <1>13, OrderResumeKinds DEF OrderJobsShaped

LEMMA OrdersStayKept ==
    ASSUME TypeOK, RInv, OrderJobsShaped, OrdersKept, [Next]_vars
    PROVE  OrdersKept'
<1> SUFFICES ASSUME NEW o \in Orders, o \notin overtaken'
             PROVE  OrderKept(o)'
  BY DEF OrdersKept
<1>1. o \in Holders /\ Idle.op = "idle" /\ (o \notin overtaken => OrderKept(o))
  BY OrdersType DEF OrdersKept, Idle
<1>2. ASSUME NEW w \in OrderActors, NEW p \in Orders, OrderStarted(w, p)
      PROVE  OrderKept(o)'
  <2>1. ~HalfClosed(w) /\ ~HalfClosed(w)' /\ job[w].op # "close"
    BY <1>1, <1>2 DEF OrderStarted, HalfClosed
  <2>2. (job'[w].op = "close" /\ job'[w].order = o) => status[o] = "RETURN_IN_TRANSIT"
    BY <1>2 DEF OrderStarted, OrderJobShape, Idle
  <2>3. \A v \in OrderActors : v # w => job'[v] = job[v] /\ (HalfClosed(v)' <=> HalfClosed(v))
    BY <1>2 DEF OrderStarted, HalfClosed
  <2>4. OrderKept(o) /\ UNCHANGED <<booking, status, halfDone>>
    BY <1>1, <1>2 DEF OrderStarted, invVars
  <2>5. ASSUME NEW v \in OrderActors, job'[v].op = "close", job'[v].order = o
        PROVE  /\ status[o] \in {"RETURN_IN_TRANSIT", "CLOSED"}
               /\ HalfClosed(v)' => HalfClosed(v) /\ job[v].op = "close" /\ job[v].order = o
    BY <2>1, <2>2, <2>3, <2>4, <2>5 DEF OrderKept
  <2>6. \A v \in OrderActors : (HalfClosed(v) /\ job[v].order = o) =>
            HalfClosed(v)' /\ job'[v].order = o
    BY <2>1, <2>3
  <2> QED
    BY <2>4, <2>5, <2>6, RestKeepsOrder
<1>3. ASSUME NEW w \in OrderActors, Resume(w)
      PROVE  OrderKept(o)'
  <2>1. /\ OrderJobShape(job[w]) /\ o \notin overtaken /\ OrderKept(o)
        /\ \A v \in OrderActors : v # w => job'[v] = job[v]
        /\ job'[w] = Idle \/ job'[w].order = job[w].order
        /\ halfDone' = halfDone
    BY <1>1, <1>3, OrderResumeKinds DEF OrderJobsShaped, OrderGoesOn
  <2>2. CASE o = Item(w)
    BY <1>3, <2>1, <2>2, OwnOrderKept
  <2>3. CASE o # Item(w)
    <3>1. booking'[o] = booking[o] /\ status'[o] = status[o] /\ job[w].order # o
      BY <1>1, <1>3, <2>1, <2>3, OwnOrderOnly DEF Item
    <3>2. ASSUME NEW v \in OrderActors, job'[v].op = "close", job'[v].order = o
          PROVE  /\ status[o] \in {"RETURN_IN_TRANSIT", "CLOSED"}
                 /\ HalfClosed(v)' => HalfClosed(v) /\ job[v].op = "close" /\ job[v].order = o
      <4>1. job'[v] = job[v]
        BY <1>1, <2>1, <3>1, <3>2
      <4> QED
        BY <2>1, <3>2, <4>1 DEF OrderKept, HalfClosed
    <3>3. ASSUME NEW v \in OrderActors, HalfClosed(v), job[v].order = o
          PROVE  HalfClosed(v)' /\ job'[v].order = o
      BY <2>1, <3>1, <3>3 DEF HalfClosed
    <3> QED
      BY <2>1, <3>1, <3>2, <3>3, RestKeepsOrder
  <2> QED
    BY <2>2, <2>3
<1>4. ASSUME NEW w \in OrderActors, Abort(w)
      PROVE  OrderKept(o)'
  <2>1. /\ job'[w] = Idle /\ \A v \in OrderActors : v # w => job'[v] = job[v]
        /\ UNCHANGED <<booking, status, overtaken>>
        /\ halfDone \subseteq halfDone' /\ (HalfClosed(w) => job[w].order \in halfDone')
    BY <1>4, AbortIsQuiet
  <2>2. OrderKept(o)
    BY <1>1, <2>1
  <2>3. ASSUME NEW v \in OrderActors, job'[v].op = "close", job'[v].order = o
        PROVE  /\ status[o] \in {"RETURN_IN_TRANSIT", "CLOSED"}
               /\ HalfClosed(v)' => HalfClosed(v) /\ job[v].op = "close" /\ job[v].order = o
    <3>1. job'[v] = job[v]
      BY <1>1, <2>1, <2>3
    <3> QED
      BY <2>2, <2>3, <3>1 DEF OrderKept, HalfClosed
  <2>4. ASSUME NEW v \in OrderActors, HalfClosed(v), job[v].order = o
        PROVE  (HalfClosed(v)' /\ job'[v].order = o) \/ o \in halfDone'
    BY <2>1, <2>4 DEF HalfClosed
  <2> QED
    BY <2>1, <2>2, <2>3, <2>4, RestKeepsOrder
<1>5. CASE OrdersRest
  <2>1. OrderKept(o) /\ UNCHANGED <<booking, status, job, halfDone>>
    BY <1>1, <1>5 DEF OrdersRest, invVars
  <2> QED
    BY <2>1 DEF OrderKept, HalfClosed, HasRows, Items
<1> QED
  BY <1>2, <1>3, <1>4, <1>5, OrderStepCases

OrdersHold == OrderJobsShaped /\ RInv /\ OrdersKept

LEMMA InitOrdersHold == Init => OrdersHold
<1> SUFFICES ASSUME Init
             PROVE  OrdersKept
  BY InitOrderShapes, InitRInv DEF OrdersHold
<1>1. ASSUME NEW o \in Orders
      PROVE  OrderKept(o)
  BY DEF Init, OrderKept, Idle, ActiveStatuses
<1> QED
  BY <1>1 DEF OrdersKept

LEMMA NextOrdersHold == ASSUME TypeOK, OrdersHold, [Next]_vars PROVE OrdersHold'
BY OrderShapesKept, NextRInv, OrdersStayKept DEF OrdersHold

LEMMA HoldsOfOrders == OrdersHold => ActiveKeepsHold /\ EndedFreesStock
<1> SUFFICES ASSUME OrdersHold
             PROVE  ActiveKeepsHold /\ EndedFreesStock
  OBVIOUS
<1>1. EndedFreesStock
  BY DEF OrdersHold, OrdersKept, OrderKept, EndedFreesStock
<1>2. ActiveKeepsHold
  BY DEF OrdersHold, OrdersKept, OrderKept, ActiveKeepsHold, Quiet
<1> QED
  BY <1>1, <1>2

\* An active order that nobody works on holds its rows (ActiveKeepsHold): any
\* number of handlers, crashes and closes by staff in three commits are in; only an
\* order that a handler wrote over, or whose close died halfway, is not.
THEOREM ActiveOrdersHold == Spec => []ActiveKeepsHold
<1>1. Init => OrdersHold
  BY InitOrdersHold
<1>2. TypeOK /\ OrdersHold /\ [Next]_vars => OrdersHold'
  BY NextOrdersHold
<1>3. OrdersHold => ActiveKeepsHold
  BY HoldsOfOrders
<1> QED
  BY <1>1, <1>2, <1>3, TypeCorrect, PTL DEF Spec

\* A step of a self-pickup does not touch what is said of the orders.
LEMMA PickupsKeepOrders ==
    ASSUME PickupTypeOK, [PickupNext]_pickupVars, PickupTypeOK', UNCHANGED orderVars, OrdersHold
    PROVE  OrdersHold'
<1>1. booking \in [Holders -> [Assets -> Nat]] /\ booking' \in [Holders -> [Assets -> Nat]]
  BY DEF PickupTypeOK, InvTypeOK
<1>2. ASSUME NEW o \in Orders
      PROVE  booking'[o] = booking[o]
  <2>1. o \in Holders \ Pickups
    BY HoldersSplit
  <2>2. \A a \in Assets : booking'[o][a] = booking[o][a]
    BY <2>1, PickupRowsOnly
  <2> QED
    BY <1>1, <2>1, <2>2
<1>3. UNCHANGED <<status, job, expireList>>
  BY DEF orderVars
<1>4. overtaken \subseteq overtaken' /\ halfDone \subseteq halfDone'
  BY HistoryGrows
<1>5. OrderJobsShaped'
  BY <1>3 DEF OrdersHold, OrderJobsShaped
<1>6. RInv'
  BY <1>2, <1>3 DEF OrdersHold, RInv, NewOrderAlone, HandledOrderExists, NoRowsBeforeOrder,
     WholeOrNothing
<1>7. ASSUME NEW o \in Orders, o \notin overtaken'
      PROVE  OrderKept(o)'
  <2>1. OrderKept(o)
    BY <1>4, <1>7 DEF OrdersHold, OrdersKept
  <2>2. \A w \in OrderActors : HalfClosed(w)' <=> HalfClosed(w)
    BY <1>3 DEF HalfClosed
  <2> QED
    BY <1>2, <1>3, <1>4, <2>1, <2>2, RestKeepsOrder DEF OrderKept
<1> QED
  BY <1>5, <1>6, <1>7 DEF OrdersHold, OrdersKept

\* Beside any number of self-pickups of the same pool, too, an active order holds its
\* rows, and one that was closed or cancelled holds none (EndedFreesStock).
THEOREM SystemHoldsMatch == SystemSpec => [](ActiveKeepsHold /\ EndedFreesStock)
<1>1. SystemInit => OrdersHold
  BY InitOrdersHold DEF SystemInit
<1>2. SInv /\ OrdersHold /\ [SystemNext]_systemVars => OrdersHold'
  <2> SUFFICES ASSUME SInv, OrdersHold, [SystemNext]_systemVars
               PROVE  OrdersHold'
    OBVIOUS
  <2>1. CASE [Next]_vars
    BY <2>1, NextOrdersHold DEF SInv, IInv
  <2>2. CASE [PickupNext]_pickupVars /\ UNCHANGED orderVars
    BY <2>2, PickupNextType, PickupsKeepOrders DEF SInv
  <2> QED
    BY <2>1, <2>2, SystemStepKinds
<1>3. OrdersHold => ActiveKeepsHold /\ EndedFreesStock
  BY HoldsOfOrders
<1> QED
  BY <1>1, <1>2, <1>3, SystemInvariant, PTL DEF SystemSpec

------------------------------------------------------------------------------
(* The counter that orders and self-pickups share loses no unit.              *)

\* Handlers of orders write no rows of anybody else, and no history of theirs.
LEMMA OrderRowsOnly ==
    ASSUME TypeOK, [Next]_vars, NEW h \in Holders \ Orders
    PROVE  booking'[h] = booking[h]
<1>1. booking \in [Holders -> [Assets -> Nat]]
  BY DEF TypeOK, InvTypeOK
<1>2. ASSUME NEW o \in Orders, InsertRows(o) \/ DeleteRows(o)
      PROVE  booking'[h] = booking[h]
  BY <1>1, <1>2 DEF InsertRows, DeleteRows
<1> QED
  BY <1>2, StepKinds

LEMMA OrderHistoryGrows ==
    ASSUME TypeOK, OrderJobsShaped, [Next]_vars
    PROVE  overtaken \subseteq overtaken' /\ halfDone \subseteq halfDone'
<1>1. ASSUME NEW w \in OrderActors, Resume(w)
      PROVE  overtaken \subseteq overtaken' /\ halfDone \subseteq halfDone'
  BY <1>1, OrderResumeKinds DEF OrderJobsShaped
<1> QED
  BY <1>1, OrderStepCases, AbortIsQuiet DEF OrderStarted, OrdersRest

\* A step of an order does not touch what is said of the self-pickups.
LEMMA OrdersKeepPickups ==
    ASSUME TypeOK, OrderJobsShaped, StagesInv, PickupTypeOK', [Next]_vars, UNCHANGED ownPickupVars
    PROVE  StagesInv'
<1>1. \A p \in Pickups : booking'[p] = booking[p]
  BY OrderRowsOnly, HoldersSplit
<1>2. UNCHANGED <<pickupStatus, noCost, items, collected, scanned, pickupReturned, pickupJob,
                  pickupExpire, dueList>>
  BY DEF ownPickupVars, rows, cronLists
<1>3. overtaken \subseteq overtaken' /\ halfDone \subseteq halfDone'
  BY OrderHistoryGrows
<1>4. PickupLife'
  <2>1. NothingBeforePickup'
    BY <1>1, <1>2 DEF StagesInv, PickupLife, NothingBeforePickup
  <2>2. NewPickupAlone' /\ HandledPickupExists' /\ ListedPickupExists' /\ JobsShaped'
    BY <1>2 DEF StagesInv, PickupLife, NewPickupAlone, HandledPickupExists, ListedPickupExists,
       JobsShaped, On
  <2> QED
    BY <2>1, <2>2 DEF PickupLife
<1>5. Tallied'
  <2> SUFFICES ASSUME NEW p \in Pickups, p \notin overtaken'
               PROVE  /\ RowsTally(p)'
                      /\ \A w \in PickupActors : pickupJob'[w].pickup = p => JobTally(pickupJob[w], p)'
    BY <1>2 DEF Tallied
  <2>1. RowsTally(p) /\ \A w \in PickupActors : pickupJob[w].pickup = p => JobTally(pickupJob[w], p)
    BY <1>3 DEF StagesInv, Tallied
  <2>2. RowsTally(p)'
    BY <1>1, <1>2, <2>1 DEF RowsTally
  <2>3. ASSUME NEW w \in PickupActors, pickupJob[w].pickup = p
        PROVE  JobTally(pickupJob[w], p)'
    BY <1>2, <2>1, <2>3 DEF JobTally
  <2> QED
    BY <1>2, <2>2, <2>3
<1>6. Staged'
  <2> SUFFICES ASSUME NEW p \in Pickups, p \notin overtaken'
               PROVE  (EarlyStage(p) /\ OutStage(p) /\ \A w \in PickupActors : HandedStage(w, p))'
    BY DEF Staged
  <2>1. EarlyStage(p) /\ OutStage(p) /\ \A w \in PickupActors : HandedStage(w, p)
    BY <1>3 DEF StagesInv, Staged
  <2>2. \A w \in PickupActors : HalfWay(w)' <=> HalfWay(w)
    BY <1>2 DEF HalfWay, PickupAt
  <2>3. (Clear(p)' => Clear(p)) /\ \A w \in PickupActors : AloneAt(p, w)' => AloneAt(p, w)
    BY <1>2, <1>3, <2>2 DEF Clear, AloneAt
  <2>4. AllBooked(p) => AllBooked(p)'
    BY <1>1, <1>2 DEF AllBooked
  <2>5. EarlyStage(p)'
    BY <1>2, <2>1, <2>3, <2>4 DEF EarlyStage
  <2>6. OutStage(p)'
    BY <1>1, <1>2, <2>1, <2>3 DEF OutStage, AsScanned
  <2>7. ASSUME NEW w \in PickupActors
        PROVE  HandedStage(w, p)'
    <3>1. Handing(w, p)' <=> Handing(w, p)
      BY <1>2, <2>2 DEF Handing
    <3> QED
      BY <1>1, <1>2, <2>1, <2>3, <3>1 DEF HandedStage, AsScanned
  <2> QED
    BY <2>5, <2>6, <2>7
<1> QED
  BY <1>4, <1>5, <1>6 DEF StagesInv

\* What w has deleted of a and not given back yet, and all of it together.
Hanging(w, a) == IF At(w, "restore") THEN job[w].seen[a] ELSE 0

LEMMA CountOfSome ==
    ASSUME NEW S, NEW T \in SUBSET S, NEW k, NEW n, \A w \in S : n[w] = IF w \in T THEN k[w] ELSE 0
    PROVE  CountedUnits(k, T) = CountedUnits(n, S)
<1>1. ASSUME NEW u \in CountedUnits(k, T)
      PROVE  u \in CountedUnits(n, S)
  <2>1. PICK w \in T : u \in {w} \X (1 .. k[w])
    BY DEF CountedUnits
  <2>2. w \in S /\ n[w] = k[w]
    BY <2>1
  <2> QED
    BY <2>1, <2>2 DEF CountedUnits
<1>2. ASSUME NEW u \in CountedUnits(n, S)
      PROVE  u \in CountedUnits(k, T)
  <2>1. PICK w \in S : u \in {w} \X (1 .. n[w])
    BY DEF CountedUnits
  <2>2. 1 .. n[w] # {}
    BY <2>1
  <2>3. w \in T /\ n[w] = k[w]
    BY <2>2
  <2> QED
    BY <2>1, <2>3 DEF CountedUnits
<1> QED
  BY <1>1, <1>2

LEMMA HangingType ==
    ASSUME NEW a \in Assets
    PROVE  /\ TypeOK => InFlightBack(a) \in Nat /\ \A w \in OrderActors : Hanging(w, a) \in Nat
           /\ TypeOK' => InFlightBack(a)' \in Nat /\ \A w \in OrderActors : Hanging(w, a)' \in Nat
           /\ InFlightBack(a) = Cardinality(CountedUnits([w \in OrderActors |-> Hanging(w, a)], OrderActors))
           /\ InFlightBack(a)' = Cardinality(CountedUnits([w \in OrderActors |-> Hanging(w, a)'], OrderActors))
<1> DEFINE n == [w \in OrderActors |-> Hanging(w, a)]
           m == [w \in OrderActors |-> Hanging(w, a)']
           k == [w \in OrderActors |-> job[w].seen[a]]
           j == [w \in OrderActors |-> job'[w].seen[a]]
           T == {v \in OrderActors : At(v, "restore")}
           R == {v \in OrderActors : job'[v].step = "restore"}
<1>1. /\ TypeOK => \A w \in OrderActors : Hanging(w, a) \in Nat
      /\ TypeOK' => \A w \in OrderActors : Hanging(w, a)' \in Nat
  BY DEF TypeOK, Jobs, Hanging
<1>2. \A w \in OrderActors : n[w] = (IF w \in T THEN k[w] ELSE 0) /\ n[w] = Hanging(w, a)
  BY DEF Hanging
<1>3. \A w \in OrderActors : m[w] = (IF w \in R THEN j[w] ELSE 0) /\ m[w] = Hanging(w, a)'
  BY DEF Hanging, At
<1>4. UNION {{w} \X (1 .. job[w].seen[a]) : w \in T} = CountedUnits(k, T)
  BY DEF CountedUnits
<1>5. UNION {{w} \X (1 .. job'[w].seen[a]) : w \in R} = CountedUnits(j, R)
  BY DEF CountedUnits
<1>6. InFlightBack(a) = Cardinality(CountedUnits(k, T))
  BY <1>4 DEF InFlightBack
<1>7. InFlightBack(a)' = Cardinality(CountedUnits(j, R))
  BY <1>5 DEF InFlightBack, At
<1>8. T \in SUBSET OrderActors /\ R \in SUBSET OrderActors
  OBVIOUS
<1> HIDE DEF n, m, k, j, T, R
<1>9. InFlightBack(a) = Cardinality(CountedUnits(n, OrderActors))
  BY <1>2, <1>6, <1>8, CountOfSome
<1>10. InFlightBack(a)' = Cardinality(CountedUnits(m, OrderActors))
  BY <1>3, <1>7, <1>8, CountOfSome
<1>11. TypeOK => InFlightBack(a) \in Nat
  BY <1>1, <1>2, <1>9, OrderActorsFinite, CountIsFinite
<1>12. TypeOK' => InFlightBack(a)' \in Nat
  BY <1>1, <1>3, <1>10, OrderActorsFinite, CountIsFinite
<1> QED
  BY <1>1, <1>9, <1>10, <1>11, <1>12 DEF n, m

\* The balance of asset a and order o: what a step of w takes from one side turns
\* up on another, or the counter is as high as the pool.
Balances(w, o, a) ==
    \/ avail'[a] >= total'[a]
    \/ avail'[a] + booking'[o][a] + Hanging(w, a)' + total[a]
           >= avail[a] + booking[o][a] + Hanging(w, a) + total'[a]

\* A release gives back to the counter what it has summed; a completed return
\* gives back what was scanned in and writes the rest off.
LEMMA ReleaseBalances ==
    ASSUME TypeOK, WholeOrNothing, NEW w \in OrderActors, NEW o \in Orders, o = Item(w),
           ReleaseAndFlip(w), job[w].seen = booking[o], NEW a \in Assets
    PROVE  \/ avail'[a] >= total'[a]
           \/ avail'[a] + booking'[o][a] + total[a] >= avail[a] + booking[o][a] + total'[a]
<1> DEFINE n == booking[o][a]
           back == job[w].back[a]
           short == Need[o][a] - back
<1>1. /\ o \in Holders /\ n \in Nat /\ Need[o][a] \in Nat /\ total[a] \in Nat
      /\ avail[a] \in Nat /\ back \in Nat
  BY OrdersType, NeedType DEF TypeOK, InvTypeOK, Jobs
<1>2. booking'[o][a] = 0
  BY <1>1 DEF ReleaseAndFlip, DeleteRows, TypeOK, InvTypeOK
<1>3. /\ avail'[a] = IF GivenBack(w)[a] > 0
                     THEN AtMost(total[a], AtLeastZero(avail[a] + GivenBack(w)[a])) ELSE avail[a]
      /\ total'[a] = TotalAfter(w)[a]
  BY DEF ReleaseAndFlip, Restored
<1>4. CASE job[w].op # "complete"
  <2>1. GivenBack(w)[a] = n /\ TotalAfter(w)[a] = total[a]
    BY <1>4 DEF GivenBack, TotalAfter
  <2> QED
    BY <1>1, <1>2, <1>3, <2>1 DEF AtMost, AtLeastZero
<1>5. CASE job[w].op = "complete"
  <2>1. GivenBack(w)[a] = AtMost(n, back)
    BY <1>5 DEF GivenBack
  <2>2. TotalAfter(w)[a] = IF short > 0 THEN AtLeastZero(total[a] - short) ELSE total[a]
    BY <1>5 DEF TotalAfter
  <2>3. n = 0 \/ n = Need[o][a]
    BY DEF WholeOrNothing, NoQty
  <2> HIDE DEF n, back
  <2> QED
    BY <1>1, <1>2, <1>3, <2>1, <2>2, <2>3 DEF AtMost, AtLeastZero, n
<1> QED
  BY <1>4, <1>5

\* A handler that finds its order as it has read it keeps the balance.
LEMMA OrderStepBalances ==
    ASSUME TypeOK, TypeOK', OrdersHold, NEW w \in OrderActors, Resume(w), NEW o \in Orders,
           o = Item(w), o \notin overtaken, o \notin overtaken', o \notin halfDone, NEW a \in Assets
    PROVE  Balances(w, o, a)
<1> DEFINE n == booking[o][a]
<1>1. /\ booking \in [Holders -> [Assets -> Nat]] /\ o \in Holders
      /\ n \in Nat /\ avail[a] \in Nat /\ total[a] \in Nat /\ Need[o][a] \in Nat
      /\ Hanging(w, a) \in Nat /\ job[w].seen[a] \in Nat /\ job \in [OrderActors -> Jobs]
  <2>1. Hanging(w, a) \in Nat
    BY HangingType
  <2>2. job[w].seen[a] \in Nat /\ job \in [OrderActors -> Jobs]
    BY DEF TypeOK, Jobs
  <2> QED
    BY <2>1, <2>2, OrdersType, NeedType DEF TypeOK, InvTypeOK
<1>2. /\ OrderJobShape(job[w]) /\ OrderKept(o) /\ RInv /\ job[w].order = o /\ job[w] # Idle
  BY OrderResumeKinds DEF OrdersHold, OrderJobsShaped, OrdersKept, Item, Idle
<1>3. ASSUME NEW c, Overtake(o, c)
      PROVE  c
  <2>1. o \in overtaken' \/ c
    BY <1>3 DEF Overtake
  <2> QED
    BY <2>1
<1>4. Finish(w) => Hanging(w, a)' = 0
  BY <1>1 DEF Finish, Hanging, At, Idle
<1>5. ASSUME UNCHANGED <<total, avail, booking>>, Hanging(w, a)' = Hanging(w, a)
      PROVE  Balances(w, o, a)
  BY <1>1, <1>5 DEF Balances
<1>6. CASE LockAndCheck(w) \/ TakeOrderRow(w) \/ SumRows(w) \/ WriteOffRejected(w)
  <2>1. ~At(w, "restore") /\ Hanging(w, a) = 0
    BY <1>6 DEF LockAndCheck, TakeOrderRow, SumRows, WriteOffRejected, At, Hanging
  <2>2. UNCHANGED <<total, avail, booking>>
    BY <1>6 DEF LockAndCheck, TakeOrderRow, SumRows, WriteOffRejected, invVars
  <2>3. job'[w].step # "restore"
    <3>1. Idle.step = "idle"
      BY DEF Idle
    <3>2. CASE job'[w] = Idle
      BY <3>1, <3>2
    <3>3. CASE OrderGoesOn(job[w], job'[w])
      <4>1. job[w].step # "delete"
        BY <1>6 DEF LockAndCheck, TakeOrderRow, SumRows, WriteOffRejected, At
      <4> QED
        BY <2>1, <3>3, <4>1 DEF OrderGoesOn, At
    <3> QED
      BY <1>2, <3>2, <3>3, OrderResumeKinds
  <2> QED
    BY <1>5, <2>1, <2>2, <2>3 DEF Hanging, At
<1>7. CASE Flip(w)
  <2>1. Hanging(w, a) = 0 /\ Finish(w) /\ UNCHANGED <<total, avail, booking>>
    BY <1>7 DEF Flip, Hanging, At, invVars
  <2> QED
    BY <1>4, <1>5, <2>1
<1>8. CASE BookSubmitted(w)
  <2>1. Hanging(w, a) = 0 /\ Hanging(w, a)' = 0
    BY <1>4, <1>8 DEF BookSubmitted, Hanging, At
  <2>2. job[w].op = "submit"
    BY <1>8 DEF BookSubmitted
  <2>3. status[o] = "NONE"
    BY <1>2, <2>2 DEF RInv, NewOrderAlone
  <2>4. n = 0
    BY <1>2, <2>3 DEF RInv, NoRowsBeforeOrder, NoQty
  <2>5. /\ booking'[o][a] = Need[o][a] /\ total'[a] = total[a]
        /\ avail'[a] = AtLeastZero(avail[a] - Need[o][a])
    BY <1>1, <1>8, <2>4 DEF BookSubmitted, InsertRows, Decrement
  <2> QED
    BY <1>1, <2>1, <2>4, <2>5 DEF Balances, AtLeastZero
<1>9. CASE BookApproved(w)
  <2>1. Hanging(w, a) = 0 /\ Hanging(w, a)' = 0 /\ total' = total
    <3>1. Hanging(w, a) = 0 /\ GoTo(w, "flip")
      BY <1>9 DEF BookApproved, Hanging, At
    <3>2. job'[w].step = "flip"
      BY <1>1, <3>1 DEF GoTo, Jobs
    <3> QED
      BY <1>9, <3>1, <3>2 DEF BookApproved, Hanging, At
  <2>2. CASE HasRows(o)
    BY <1>5, <1>9, <2>1, <2>2 DEF BookApproved
  <2>3. CASE ~HasRows(o)
    <3>1. job[w].op = "approve" /\ job[w].read = "QUOTED" /\ Overtake(o, Current(w)) /\ InsertRows(o)
      BY <1>2, <1>9, <2>3 DEF BookApproved, OrderJobShape
    <3>2. status[o] = "QUOTED"
      BY <1>3, <3>1 DEF Current
    <3>3. \A v \in OrderActors : HalfClosed(v) => job[v].order # o
      BY <1>2, <3>2 DEF OrderKept, HalfClosed
    <3>4. Items(o) = {}
      BY <1>2, <2>3, <3>2, <3>3 DEF OrderKept, ActiveStatuses, Statuses
    <3>5. ~(Need[o][a] > 0) /\ a \notin Items(o)
      BY <3>4 DEF Items
    <3>6. avail'[a] = avail[a]
      BY <1>9, <2>3, <3>5 DEF BookApproved
    <3>7. booking'[o][a] = n
      BY <1>1, <3>1, <3>5 DEF InsertRows
    <3> QED
      BY <1>1, <2>1, <3>6, <3>7 DEF Balances
  <2> QED
    BY <2>2, <2>3
<1>10. CASE ReleaseAndFlip(w)
  <2>1. Hanging(w, a) = 0 /\ Hanging(w, a)' = 0
    BY <1>4, <1>10 DEF ReleaseAndFlip, Hanging, At
  <2>2. job[w].seen = booking[o]
    BY <1>3, <1>10 DEF ReleaseAndFlip
  <2>3. \/ avail'[a] >= total'[a]
        \/ avail'[a] + booking'[o][a] + total[a] >= avail[a] + n + total'[a]
    BY <1>2, <1>10, <2>2, ReleaseBalances DEF RInv
  <2>4. avail'[a] \in Nat /\ total'[a] \in Nat /\ booking'[o][a] \in Nat
    BY <1>1 DEF TypeOK, InvTypeOK
  <2> QED
    BY <1>1, <2>1, <2>3, <2>4 DEF Balances
<1>11. CASE CloseDeleteRows(w)
  <2>1. /\ job[w].seen = booking[o] /\ DeleteRows(o) /\ UNCHANGED <<total, avail>>
        /\ Hanging(w, a) = 0
    BY <1>3, <1>11 DEF CloseDeleteRows, Hanging, At
  <2>2. job'[w].seen = job[w].seen
        /\ job'[w].step = IF job[w].seen = NoQty THEN "flip" ELSE "restore"
    BY <1>1, <1>11 DEF CloseDeleteRows, GoTo, Jobs
  <2>3. Hanging(w, a)' = n
    BY <1>1, <2>1, <2>2 DEF Hanging, At, NoQty
  <2>4. booking'[o][a] = 0
    BY <1>1, <2>1 DEF DeleteRows
  <2> QED
    BY <1>1, <2>1, <2>3, <2>4 DEF Balances
<1>12. ASSUME NEW b \in Assets, CloseRestore(w, b)
       PROVE  Balances(w, o, a)
  <2> DEFINE rest == [job[w].seen EXCEPT ![b] = 0]
  <2>1. /\ job'[w].seen = rest /\ UNCHANGED <<total, booking>> /\ job[w].seen[b] > 0
        /\ job'[w].step = IF rest = NoQty THEN "flip" ELSE "restore"
        /\ avail' = Restored([c \in Assets |-> IF c = b THEN job[w].seen[b] ELSE 0])
        /\ Hanging(w, a) = job[w].seen[a]
    BY <1>1, <1>12 DEF CloseRestore, Jobs, Hanging, At
  <2>2. Hanging(w, a)' = rest[a]
    BY <2>1 DEF Hanging, At, NoQty
  <2>3. job[w].seen \in [Assets -> Nat]
    BY <1>1 DEF Jobs
  <2>4. CASE a = b
    <3>1. avail'[a] = AtMost(total[a], AtLeastZero(avail[a] + job[w].seen[a]))
      BY <2>1, <2>4 DEF Restored
    <3>2. rest[a] = 0
      BY <2>3, <2>4
    <3> QED
      BY <1>1, <2>1, <2>2, <3>1, <3>2 DEF Balances, AtMost, AtLeastZero
  <2>5. CASE a # b
    <3>1. avail'[a] = avail[a] /\ rest[a] = job[w].seen[a]
      BY <2>1, <2>3, <2>5 DEF Restored
    <3> QED
      BY <1>1, <2>1, <2>2, <3>1 DEF Balances
  <2> QED
    BY <2>4, <2>5
<1> QED
  BY <1>6, <1>7, <1>8, <1>9, <1>10, <1>11, <1>12 DEF Resume

\* With one term changed, by a step of w, or with none.
LEMMA InFlightAfter ==
    ASSUME TypeOK, TypeOK', NEW a \in Assets, NEW w \in OrderActors,
           \A v \in OrderActors \ {w} : job'[v] = job[v]
    PROVE  InFlightBack(a)' = InFlightBack(a) + Hanging(w, a)' - Hanging(w, a)
<1> DEFINE n == [v \in OrderActors |-> Hanging(v, a)]
           m == [v \in OrderActors |-> Hanging(v, a)']
<1>1. \A v \in OrderActors : /\ n[v] = Hanging(v, a) /\ m[v] = Hanging(v, a)'
                             /\ n[v] \in Nat /\ m[v] \in Nat
  BY DEF TypeOK, Jobs, Hanging
<1>2. \A v \in OrderActors \ {w} : m[v] = n[v]
  BY DEF Hanging, At
<1>3. InFlightBack(a) = Cardinality(CountedUnits(n, OrderActors))
  BY HangingType
<1>4. InFlightBack(a)' = Cardinality(CountedUnits(m, OrderActors))
  BY HangingType
<1> HIDE DEF n, m
<1>5. Cardinality(CountedUnits(m, OrderActors))
          = Cardinality(CountedUnits(n, OrderActors)) + m[w] - n[w]
  BY <1>1, <1>2, OrderActorsFinite, CountAfterChange
<1> QED
  BY <1>1, <1>3, <1>4, <1>5

LEMMA OrderStepLeaksNothing ==
    ASSUME TypeOK, TypeOK', OrdersHold, NoStockLeak, [Next]_vars
    PROVE  NoStockLeak'
<1> SUFFICES ASSUME overtaken' = {}, halfDone' \cap Orders = {}, NEW a \in Assets
             PROVE  avail'[a] + Booked(a, Holders)' + InFlightBack(a)' >= total'[a]
  BY DEF NoStockLeak
<1>1. /\ overtaken = {} /\ halfDone \cap Orders = {}
      /\ avail[a] + Booked(a, Holders) + InFlightBack(a) >= total[a]
  BY OrderHistoryGrows DEF OrdersHold, NoStockLeak
<1>2. /\ Booked(a, Holders) \in Nat /\ Booked(a, Holders)' \in Nat
      /\ InFlightBack(a) \in Nat /\ InFlightBack(a)' \in Nat
      /\ avail[a] \in Nat /\ avail'[a] \in Nat /\ total[a] \in Nat /\ total'[a] \in Nat
  <2>1. InFlightBack(a)' \in Nat /\ InFlightBack(a) \in Nat
    BY HangingType
  <2>2. Booked(a, Holders) \in Nat /\ Booked(a, Holders)' \in Nat
    BY BookedType DEF TypeOK
  <2> QED
    BY <2>1, <2>2 DEF TypeOK, InvTypeOK
<1>3. ASSUME UNCHANGED <<total, avail, booking>>, NEW w \in OrderActors,
             \A v \in OrderActors \ {w} : job'[v] = job[v], Hanging(w, a)' = 0, Hanging(w, a) = 0
      PROVE  avail'[a] + Booked(a, Holders)' + InFlightBack(a)' >= total'[a]
  <2>1. InFlightBack(a)' = InFlightBack(a)
    BY <1>2, <1>3, InFlightAfter
  <2>2. Booked(a, Holders)' = Booked(a, Holders)
    BY <1>3 DEF Booked, Units
  <2> QED
    BY <1>1, <1>3, <2>1, <2>2
<1>4. Idle.step = "idle" /\ Idle.op = "idle"
  BY DEF Idle
<1>5. ASSUME NEW w \in OrderActors, NEW o \in Orders, OrderStarted(w, o)
      PROVE  avail'[a] + Booked(a, Holders)' + InFlightBack(a)' >= total'[a]
  <2>1. job[w].step # "restore" /\ job'[w].step # "restore"
    BY <1>4, <1>5 DEF OrderStarted, OrderJobShape
  <2>2. Hanging(w, a)' = 0 /\ Hanging(w, a) = 0
    BY <2>1 DEF Hanging, At
  <2> QED
    BY <1>3, <1>5, <2>2 DEF OrderStarted, invVars
<1>6. ASSUME NEW w \in OrderActors, Abort(w)
      PROVE  avail'[a] + Booked(a, Holders)' + InFlightBack(a)' >= total'[a]
  <2>1. /\ job'[w] = Idle /\ \A v \in OrderActors : v # w => job'[v] = job[v]
        /\ UNCHANGED <<total, avail, booking>> /\ (HalfClosed(w) => job[w].order \in halfDone')
    BY <1>6, AbortIsQuiet
  <2>2. OrderJobShape(job[w])
    BY DEF OrdersHold, OrderJobsShaped
  <2>3. ~At(w, "restore")
    <3>1. SUFFICES ASSUME job[w].step = "restore"
                   PROVE  FALSE
      BY DEF At
    <3>2. job[w].op = "close" /\ job[w].order \in Orders
      BY <1>4, <2>2, <3>1 DEF OrderJobShape
    <3> QED
      BY <2>1, <3>1, <3>2 DEF HalfClosed
  <2>4. Hanging(w, a)' = 0 /\ Hanging(w, a) = 0
    BY <1>4, <2>1, <2>3 DEF Hanging, At
  <2> QED
    BY <1>3, <2>1, <2>4
<1>7. ASSUME NEW w \in OrderActors, Resume(w)
      PROVE  avail'[a] + Booked(a, Holders)' + InFlightBack(a)' >= total'[a]
  <2> DEFINE o == Item(w)
  <2>1. /\ OrderJobShape(job[w]) /\ o \in Orders /\ o \in Holders
        /\ \A v \in OrderActors : v # w => job'[v] = job[v]
        /\ \A h \in Holders : h # o => booking'[h] = booking[h]
    BY <1>7, OrderResumeKinds, OwnOrderOnly DEF OrdersHold, OrderJobsShaped
  <2>2. Balances(w, o, a)
    BY <1>1, <1>7, <2>1, OrderStepBalances
  <2>3. InFlightBack(a)' = InFlightBack(a) + Hanging(w, a)' - Hanging(w, a)
    BY <2>1, InFlightAfter
  <2>4. Booked(a, Holders)' = Booked(a, Holders) + booking'[o][a] - booking[o][a]
    BY <2>1, BookedAfterChange DEF TypeOK
  <2>5. booking[o][a] \in Nat /\ booking'[o][a] \in Nat
    BY <2>1 DEF TypeOK, InvTypeOK
  <2>6. Hanging(w, a) \in Nat /\ Hanging(w, a)' \in Nat
    BY HangingType
  <2> HIDE DEF o
  <2> QED
    BY <1>1, <1>2, <2>2, <2>3, <2>4, <2>5, <2>6 DEF Balances
<1>8. CASE OrdersRest
  <2>1. Booked(a, Holders)' = Booked(a, Holders) /\ InFlightBack(a)' = InFlightBack(a)
    BY <1>8 DEF OrdersRest, invVars, Booked, Units, InFlightBack, At
  <2> QED
    BY <1>1, <1>8, <2>1 DEF OrdersRest, invVars
<1> QED
  BY <1>5, <1>6, <1>7, <1>8, OrderStepCases

LEMMA PickupStepLeaksNothing ==
    ASSUME TypeOK, StagesInv, StagesInv', NoStockLeak, [PickupNext]_pickupVars, UNCHANGED orderVars
    PROVE  NoStockLeak'
<1> SUFFICES ASSUME overtaken' = {}, halfDone' \cap Orders = {}, NEW a \in Assets
             PROVE  avail'[a] + Booked(a, Holders)' + InFlightBack(a)' >= total'[a]
  BY DEF NoStockLeak
<1>1. PickupTypeOK /\ PickupTypeOK' /\ PickupLife
  BY DEF StagesInv
<1>2. /\ overtaken = {} /\ avail[a] + Booked(a, Holders) + InFlightBack(a) >= total[a]
      /\ InFlightBack(a) \in Nat /\ InFlightBack(a)' = InFlightBack(a)
  <2>1. overtaken = {} /\ halfDone \cap Orders = {}
    BY <1>1, HistoryGrows
  <2>2. InFlightBack(a)' = InFlightBack(a)
    BY DEF orderVars, InFlightBack, At
  <2> QED
    BY <2>1, <2>2, HangingType DEF NoStockLeak
<1>3. CASE UNCHANGED <<total, avail, booking>>
  <2>1. Booked(a, Holders)' = Booked(a, Holders)
    BY <1>3 DEF Booked, Units
  <2> QED
    BY <1>2, <1>3, <2>1
<1>4. ASSUME NEW w \in PickupActors, ResumePickup(w), NEW p \in Pickups, p = On(w)
      PROVE  avail'[a] + Booked(a, Holders)' + InFlightBack(a)' >= total'[a]
  <2>1. /\ Booked(a, Holders)' = Booked(a, Holders) + booking'[p][a] - booking[p][a]
        /\ Booked(a, Holders) \in Nat /\ Booked(a, Holders)' \in Nat
        /\ booking[p][a] \in Nat /\ booking'[p][a] \in Nat
        /\ avail[a] \in Nat /\ avail'[a] \in Nat /\ total[a] \in Nat /\ total'[a] \in Nat
    BY <1>1, <1>4, BookedAfterStep
  <2>2. ASSUME NEW n, Takes(w, a, n)
        PROVE  avail'[a] + Booked(a, Holders)' + InFlightBack(a)' >= total'[a]
    <3>1. /\ n \in Nat /\ avail'[a] = AtLeastZero(avail[a] - n) /\ total'[a] = total[a]
          /\ booking'[p][a] = booking[p][a] + n
      BY <1>4, <2>2 DEF Takes
    <3> QED
      BY <1>2, <2>1, <3>1 DEF AtLeastZero
  <2>3. ASSUME NEW n, NEW back, NEW lost, Gives(w, a, n, back, lost), n - back <= lost
        PROVE  avail'[a] + Booked(a, Holders)' + InFlightBack(a)' >= total'[a]
    <3>1. /\ n \in Nat /\ back \in Nat /\ lost \in Nat /\ back <= n /\ n <= booking[p][a]
          /\ avail'[a] = IF back > 0 THEN AtMost(total[a], avail[a] + back) ELSE avail[a]
          /\ total'[a] = AtLeastZero(total[a] - lost)
          /\ booking'[p][a] = booking[p][a] - n
      BY <1>4, <2>3 DEF Gives
    <3>2. Booked(a, Holders)' = Booked(a, Holders) - n
      BY <2>1, <3>1
    <3> QED
      BY <1>2, <2>1, <2>3, <3>1, <3>2 DEF AtLeastZero, AtMost
  <2>4. ASSUME Settle(w)
        PROVE  booking[p][a] - PickupGivenBack(w)[a] <= pickupJob[w].short[a]
    BY <1>2, <1>4, <2>4, LostIsWrittenOff
  <2>5. ASSUME NEW n \in Nat, Gives(w, a, n, n, 0)
        PROVE  avail'[a] + Booked(a, Holders)' + InFlightBack(a)' >= total'[a]
    BY <2>3, <2>5
  <2>6. \/ PickupAt(w, "book") /\ Takes(w, a, Need[On(w)][a]) /\ booking[On(w)][a] = 0
        \/ PickupAt(w, "add") /\ Takes(w, a, pickupJob[w].seen[a])
        \/ \E n \in Nat : Gives(w, a, n, n, 0)
        \/ /\ Settle(w) /\ pickupJob[w].seen[a] = booking[On(w)][a]
           /\ Gives(w, a, booking[On(w)][a], PickupGivenBack(w)[a], pickupJob[w].short[a])
    <3>1. On(w) \notin overtaken'
      OBVIOUS
    <3> QED
      BY <1>1, <1>4, <3>1, StockAfter
  <2> QED
    BY <1>4, <2>2, <2>3, <2>4, <2>5, <2>6
<1> QED
  BY <1>1, <1>3, <1>4, StockStep, StatusAfter

\* The counter that both kinds of holder share never loses a unit (NoStockLeak):
\* approvals, closes in three commits, short returns, write-offs, partial handovers,
\* mid-flow items and any number of handlers are in; a holder that was written over
\* and a close that died halfway are not.
THEOREM SystemLeaksNothing == SystemSpec => []NoStockLeak
<1> DEFINE Inv == OrdersHold /\ StagesInv /\ NoStockLeak
<1>1. SystemInit => Inv
  <2> SUFFICES ASSUME SystemInit
               PROVE  NoStockLeak
    BY InitOrdersHold, InitStagesInv DEF SystemInit
  <2>1. ASSUME NEW a \in Assets
        PROVE  avail[a] + Booked(a, Holders) + InFlightBack(a) >= total[a]
    <3>1. Booked(a, Holders) = 0 /\ avail[a] = total[a] /\ total[a] \in Nat
      BY NothingBooked, StockType DEF SystemInit, Init, InvInit
    <3>2. TypeOK
      BY InitType DEF SystemInit
    <3>3. InFlightBack(a) \in Nat
      BY <3>2, HangingType
    <3> QED
      BY <3>1, <3>3
  <2> QED
    BY <2>1 DEF NoStockLeak
<1>2. SInv /\ SInv' /\ Inv /\ [SystemNext]_systemVars => Inv'
  <2> SUFFICES ASSUME SInv, SInv', Inv, [SystemNext]_systemVars
               PROVE  Inv'
    OBVIOUS
  <2>1. TypeOK /\ TypeOK' /\ PickupTypeOK /\ PickupTypeOK'
    BY DEF SInv, IInv
  <2>2. CASE [Next]_vars /\ UNCHANGED ownPickupVars
    <3>1. OrdersHold' /\ NoStockLeak'
      BY <2>1, <2>2, NextOrdersHold, OrderStepLeaksNothing
    <3>2. StagesInv'
      BY <2>1, <2>2, OrdersKeepPickups DEF OrdersHold
    <3> QED
      BY <3>1, <3>2
  <2>3. CASE [PickupNext]_pickupVars /\ UNCHANGED orderVars
    <3>1. OrdersHold' /\ StagesInv'
      BY <2>1, <2>3, PickupsKeepOrders, NextStagesInv
    <3>2. NoStockLeak'
      BY <2>1, <2>3, <3>1, PickupStepLeaksNothing
    <3> QED
      BY <3>1, <3>2
  <2> QED
    BY <2>2, <2>3, SystemStepKinds
<1>3. Inv => NoStockLeak
  OBVIOUS
<1> HIDE DEF Inv
<1> QED
  BY <1>1, <1>2, <1>3, SystemInvariant, PTL DEF SystemSpec
=============================================================================
