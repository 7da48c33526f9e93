---------------------------- MODULE UnitCounting ----------------------------
(***************************************************************************)
(* Counting units: each g of a finite set S has n[g] of them, and unit i   *)
(* of g is the pair <<g, i>>.  Inventory and EntityEdit count the booked   *)
(* units of an asset in this way; the lemmas here compare two such counts. *)
(***************************************************************************)
EXTENDS Integers, FiniteSets, FunctionTheorems, FiniteSetTheorems, TLAPS

CountedUnits(n, S) == UNION {{g} \X (1 .. n[g]) : g \in S}

\* Finitely many holders have finitely many units.
LEMMA CountIsFinite ==
    ASSUME NEW S, IsFiniteSet(S), NEW n, \A g \in S : n[g] \in Nat
    PROVE  IsFiniteSet(CountedUnits(n, S)) /\ Cardinality(CountedUnits(n, S)) \in Nat
<1> DEFINE T == {{g} \X (1 .. n[g]) : g \in S}
           f == [g \in S |-> {g} \X (1 .. n[g])]
<1>1. f \in Surjection(S, T)
  BY DEF Surjection
<1>2. IsFiniteSet(T)
  BY <1>1, FS_Surjection
<1>3. ASSUME NEW g \in S
      PROVE  IsFiniteSet({g} \X (1 .. n[g]))
  <2>1. IsFiniteSet({g})
    BY FS_Singleton
  <2>2. n[g] \in Nat
    OBVIOUS
  <2>3. IsFiniteSet(1 .. n[g])
    BY <2>2, FS_Interval
  <2> QED
    BY <2>1, <2>3, FS_Product
<1>4. IsFiniteSet(UNION T)
  BY <1>2, <1>3, FS_UNION
<1> QED
  BY <1>4, FS_CardinalityType DEF CountedUnits

\* Fewer holders with fewer units each have fewer units in all.
LEMMA CountIsMonotone ==
    ASSUME NEW T, IsFiniteSet(T), NEW S \in SUBSET T, NEW m, NEW n,
           \A g \in T : n[g] \in Nat, \A g \in S : m[g] \in Nat /\ m[g] <= n[g]
    PROVE  Cardinality(CountedUnits(m, S)) <= Cardinality(CountedUnits(n, T))
<1>1. CountedUnits(m, S) \subseteq CountedUnits(n, T)
  <2> SUFFICES ASSUME NEW g \in S, NEW i \in 1 .. m[g]
               PROVE  <<g, i>> \in CountedUnits(n, T)
    BY DEF CountedUnits
  <2>1. i \in 1 .. n[g]
    OBVIOUS
  <2> QED
    BY <2>1 DEF CountedUnits
<1>2. IsFiniteSet(CountedUnits(n, T))
  BY CountIsFinite
<1> QED
  BY <1>1, <1>2, FS_Subset

\* The units of one holder come on top of those of the others.
LEMMA CountWithOne ==
    ASSUME NEW T, IsFiniteSet(T), NEW S, NEW o, S \ {o} \subseteq T, NEW m, NEW n,
           \A g \in T : n[g] \in Nat, m[o] \in Nat,
           \A g \in S \ {o} : m[g] \in Nat /\ m[g] <= n[g]
    PROVE  Cardinality(CountedUnits(m, S)) <= Cardinality(CountedUnits(n, T)) + m[o]
<1> DEFINE P == {o} \X (1 .. m[o])
           U == CountedUnits(n, T)
<1>1. CountedUnits(m, S) \subseteq U \cup P
  <2> SUFFICES ASSUME NEW g \in S, NEW i \in 1 .. m[g]
               PROVE  <<g, i>> \in U \cup P
    BY DEF CountedUnits
  <2>1. CASE g = o
    BY <2>1
  <2>2. CASE g # o
    <3>1. g \in T /\ i \in 1 .. n[g]
      BY <2>2
    <3> QED
      BY <3>1 DEF CountedUnits
  <2> QED
    BY <2>1, <2>2
<1>2. IsFiniteSet(U) /\ Cardinality(U) \in Nat
  BY CountIsFinite
<1>3. IsFiniteSet(P) /\ Cardinality(P) = m[o]
  <2>1. IsFiniteSet({o}) /\ Cardinality({o}) = 1
    BY FS_Singleton
  <2>2. IsFiniteSet(1 .. m[o]) /\ Cardinality(1 .. m[o]) = m[o]
    BY FS_Interval
  <2>3. Cardinality({o} \X (1 .. m[o])) = 1 * m[o] /\ IsFiniteSet({o} \X (1 .. m[o]))
    BY <2>1, <2>2, FS_Product
  <2> QED
    BY <2>3
<1>4. IsFiniteSet(U \cup P) /\ Cardinality(U \cup P) <= Cardinality(U) + m[o]
  <2>1. IsFiniteSet(U \cap P) /\ Cardinality(U \cap P) \in Nat
    BY <1>2, FS_Intersection, FS_CardinalityType
  <2>2. /\ IsFiniteSet(U \cup P)
        /\ Cardinality(U \cup P) = Cardinality(U) + Cardinality(P) - Cardinality(U \cap P)
    BY <1>2, <1>3, FS_Union
  <2> HIDE DEF U, P
  <2> QED
    BY <1>2, <1>3, <2>1, <2>2
<1>5. Cardinality(CountedUnits(m, S)) <= Cardinality(U \cup P)
  BY <1>1, <1>4, FS_Subset
<1>6. Cardinality(CountedUnits(m, S)) \in Nat /\ Cardinality(U \cup P) \in Nat
  BY <1>1, <1>4, FS_Subset, FS_CardinalityType
<1> QED
  BY <1>2, <1>4, <1>5, <1>6

\* Giving one holder other units changes the count by the difference.
LEMMA CountAfterChange ==
    ASSUME NEW S, IsFiniteSet(S), NEW o \in S, NEW m, NEW n,
           \A g \in S : m[g] \in Nat /\ n[g] \in Nat, \A g \in S \ {o} : m[g] = n[g]
    PROVE  Cardinality(CountedUnits(m, S)) = Cardinality(CountedUnits(n, S)) + m[o] - n[o]
<1>1. ASSUME NEW k, \A g \in S : k[g] \in Nat
      PROVE  Cardinality(CountedUnits(k, S)) = Cardinality(CountedUnits(k, S \ {o})) + k[o]
  <2> DEFINE P == {o} \X (1 .. k[o])
             U == CountedUnits(k, S \ {o})
  <2>1. CountedUnits(k, S) = U \cup P
    BY DEF CountedUnits
  <2>2. IsFiniteSet(U) /\ Cardinality(U) \in Nat
    <3>1. IsFiniteSet(S \ {o})
      BY FS_Difference
    <3> QED
      BY <1>1, <3>1, CountIsFinite
  <2>3. IsFiniteSet(P) /\ Cardinality(P) = k[o]
    <3>1. IsFiniteSet({o}) /\ Cardinality({o}) = 1
      BY FS_Singleton
    <3>2. PICK q \in Nat : q = k[o]
      BY <1>1
    <3>3. IsFiniteSet(1 .. q) /\ Cardinality(1 .. q) = q
      BY FS_Interval
    <3>4. Cardinality({o} \X (1 .. q)) = 1 * q /\ IsFiniteSet({o} \X (1 .. q))
      <4> HIDE DEF P, U
      <4> QED
        BY <3>1, <3>3, FS_Product
    <3> QED
      BY <3>2, <3>4
  <2>4. U \cap P = {}
    BY DEF CountedUnits
  <2>5. Cardinality(U \cup P) = Cardinality(U) + Cardinality(P) - Cardinality(U \cap P)
    <3> HIDE DEF U, P
    <3> QED
      BY <2>2, <2>3, FS_Union
  <2>6. Cardinality(U \cap P) = 0
    BY <2>4, FS_EmptySet
  <2>7. Cardinality(CountedUnits(k, S)) = Cardinality(U) + k[o]
    <3>1. k[o] \in Nat
      BY <1>1
    <3> HIDE DEF U, P
    <3> QED
      BY <2>1, <2>2, <2>3, <2>5, <2>6, <3>1
  <2> QED
    BY <2>7
<1>2. CountedUnits(m, S \ {o}) = CountedUnits(n, S \ {o})
  BY DEF CountedUnits
<1>3. Cardinality(CountedUnits(n, S \ {o})) \in Nat
  <2>1. IsFiniteSet(S \ {o})
    BY FS_Difference
  <2> QED
    BY <2>1, CountIsFinite
<1>4. /\ Cardinality(CountedUnits(m, S)) = Cardinality(CountedUnits(m, S \ {o})) + m[o]
      /\ Cardinality(CountedUnits(n, S)) = Cardinality(CountedUnits(n, S \ {o})) + n[o]
  BY <1>1
<1> QED
  BY <1>2, <1>3, <1>4

\* No fewer units in all, with no more of any holder: each has the same.
LEMMA CountIsStrict ==
    ASSUME NEW S, IsFiniteSet(S), NEW m, NEW n,
           \A g \in S : m[g] \in Nat /\ n[g] \in Nat /\ m[g] <= n[g],
           Cardinality(CountedUnits(n, S)) <= Cardinality(CountedUnits(m, S))
    PROVE  \A g \in S : m[g] = n[g]
<1> SUFFICES ASSUME NEW o \in S, m[o] < n[o]
             PROVE  FALSE
  OBVIOUS
<1> DEFINE k == [g \in S |-> IF g = o THEN m[o] ELSE n[g]]
<1>1. /\ \A g \in S : k[g] \in Nat /\ m[g] <= k[g]
      /\ \A g \in S \ {o} : k[g] = n[g]
      /\ k[o] = m[o]
  OBVIOUS
<1> HIDE DEF k
<1>2. Cardinality(CountedUnits(k, S)) = Cardinality(CountedUnits(n, S)) + k[o] - n[o]
  BY <1>1, CountAfterChange
<1>3. Cardinality(CountedUnits(m, S)) <= Cardinality(CountedUnits(k, S))
  BY <1>1, CountIsMonotone
<1>4. Cardinality(CountedUnits(m, S)) \in Nat /\ Cardinality(CountedUnits(n, S)) \in Nat
  BY CountIsFinite
<1> QED
  BY <1>1, <1>2, <1>3, <1>4
=============================================================================
