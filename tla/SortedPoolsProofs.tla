------------------------- MODULE SortedPoolsProofs -------------------------
(***************************************************************************)
(* The positions of the pools are a numbering, for any names: the proofs   *)
(* about PoolRemoval and TsigKeys rest on this.                            *)
(***************************************************************************)
EXTENDS SortedPools, FiniteSetTheorems, TLAPS

LEMMA NamesFinite == IsFiniteSet(Names) /\ Cardinality(Names) \in Nat
  <1> DEFINE f == [i \in DOMAIN Order |-> Order[i]]
  <1>1. f \in Surjection(DOMAIN Order, Names)
    BY DEF Surjection, Names
  <1>2. IsFiniteSet(Names)
    <2> HIDE DEF f
    <2> QED BY <1>1, OrderOK, FS_Surjection
  <1> QED BY <1>2, FS_CardinalityType

\* The names are totally ordered.
LEMMA BeforeOrder ==
  /\ \A p \in Names : ~Before(p, p)
  /\ \A p, q \in Names : p # q => Before(p, q) \/ Before(q, p)
  /\ \A p, q, r \in Names : Before(p, q) /\ Before(q, r) => Before(p, r)
  <1>1. \A p \in Names : \E i \in DOMAIN Order : Order[i] = p
    BY DEF Names
  <1>2. \A i, j \in DOMAIN Order : i \in Nat /\ j \in Nat /\ (Order[i] = Order[j] => i = j)
    BY OrderOK
  <1>3. \A p \in Names : ~Before(p, p)
    BY <1>2 DEF Before
  <1>4. \A p, q \in Names : p # q => Before(p, q) \/ Before(q, p)
    <2> TAKE p, q \in Names
    <2> HAVE p # q
    <2>1. PICK i \in DOMAIN Order : Order[i] = p
      BY <1>1
    <2>2. PICK j \in DOMAIN Order : Order[j] = q
      BY <1>1
    <2>3. i < j \/ j < i
      BY <1>2, <2>1, <2>2
    <2> QED BY <2>1, <2>2, <2>3 DEF Before
  <1>5. \A p, q, r \in Names : Before(p, q) /\ Before(q, r) => Before(p, r)
    <2> TAKE p, q, r \in Names
    <2> HAVE Before(p, q) /\ Before(q, r)
    <2>1. PICK i, j \in DOMAIN Order : i < j /\ Order[i] = p /\ Order[j] = q
      BY DEF Before
    <2>2. PICK k, l \in DOMAIN Order : k < l /\ Order[k] = q /\ Order[l] = r
      BY DEF Before
    <2>3. i < l
      BY <1>2, <2>1, <2>2
    <2> QED BY <2>1, <2>2, <2>3 DEF Before
  <1> QED BY <1>3, <1>4, <1>5

\* Every pool has a position of its own, and every position has its pool.
LEMMA Positions ==
  ASSUME NEW P \in SUBSET Names
  PROVE  /\ \A p \in P :
              /\ Position(P, p) \in 0 .. Cardinality(P) - 1
              /\ PoolAt(P, Position(P, p)) = p
         /\ \A k \in 0 .. Cardinality(P) - 1 :
              PoolAt(P, k) \in P /\ Position(P, PoolAt(P, k)) = k
         /\ IsFiniteSet(P) /\ Cardinality(P) \in Nat /\ Cardinality(P) <= Cardinality(Names)
         /\ (Cardinality(P) = 0) <=> (P = {})
  <1> DEFINE n == Cardinality(P)
             Below(p) == {q \in P : Before(q, p)}
             f == [p \in P |-> Position(P, p)]
  <1>0. /\ IsFiniteSet(P) /\ n \in Nat /\ n <= Cardinality(Names)
        /\ (n = 0) <=> (P = {})
    BY NamesFinite, FS_Subset, FS_CardinalityType, FS_EmptySet
  <1>1. \A p \in P : Position(P, p) = Cardinality(Below(p))
    BY DEF Position
  <1> HIDE DEF n
  <1>2. \A p \in P : Below(p) \in SUBSET P /\ p \notin Below(p) /\ IsFiniteSet(Below(p))
                     /\ Cardinality(Below(p)) \in Nat
    <2> TAKE p \in P
    <2>1. Below(p) \in SUBSET P /\ p \notin Below(p)
      BY <1>0, BeforeOrder
    <2> HIDE DEF Below
    <2>2. IsFiniteSet(Below(p))
      BY <1>0, <2>1, FS_Subset
    <2> QED BY <2>1, <2>2, FS_CardinalityType
  <1>3. \A p \in P : Cardinality(Below(p)) \in 0 .. n - 1
    <2> TAKE p \in P
    <2> HIDE DEF Below
    <2>1. Cardinality(Below(p)) <= n /\ (n = Cardinality(Below(p)) => P = Below(p))
      BY <1>0, <1>2, FS_Subset DEF n
    <2> QED BY <1>0, <1>2, <2>1
  <1>4. ASSUME NEW p \in P, NEW q \in P, Before(p, q)
        PROVE  Cardinality(Below(p)) < Cardinality(Below(q))
    <2>1. Below(p) \in SUBSET Below(q) /\ p \in Below(q)
      BY <1>0, <1>4, BeforeOrder
    <2> HIDE DEF Below
    <2>2. /\ Cardinality(Below(p)) <= Cardinality(Below(q))
          /\ (Cardinality(Below(q)) = Cardinality(Below(p)) => Below(q) = Below(p))
      BY <1>2, <2>1, FS_Subset
    <2> QED BY <1>2, <2>1, <2>2
  <1> HIDE DEF Below
  <1>5. \A p, q \in P : Position(P, p) = Position(P, q) => p = q
    <2> SUFFICES ASSUME NEW p \in P, NEW q \in P, p # q
                 PROVE  Position(P, p) # Position(P, q)
      OBVIOUS
    <2>1. Before(p, q) \/ Before(q, p)
      BY <1>0, BeforeOrder
    <2> QED BY <1>1, <1>2, <1>4, <2>1
  <1>6. f \in Injection(P, 0 .. n - 1)
    BY <1>1, <1>3, <1>5 DEF Injection, IsInjective
  <1>7. f \in Surjection(P, 0 .. n - 1)
    <2> HIDE DEF f
    <2>1. IsFiniteSet(0 .. n - 1) /\ Cardinality(0 .. n - 1) = n
      <3>1. n \in Nat /\ 0 \in Int /\ n - 1 \in Int
        BY <1>0
      <3>2. IsFiniteSet(0 .. n - 1) /\ Cardinality(0 .. n - 1) = IF 0 > n - 1 THEN 0 ELSE n - 1 - 0 + 1
        BY <3>1, FS_Interval
      <3> QED BY <3>1, <3>2
    <2> QED BY <1>6, <2>1, FS_Injection DEF n
  <1>8. \A k \in 0 .. n - 1 : \E p \in P : Position(P, p) = k
    BY <1>7 DEF Surjection
  <1>9. \A k \in 0 .. n - 1 : PoolAt(P, k) \in P /\ Position(P, PoolAt(P, k)) = k
    BY <1>8 DEF PoolAt
  <1>10. \A p \in P : PoolAt(P, Position(P, p)) = p
    BY <1>1, <1>3, <1>5, <1>9
  <1> QED BY <1>0, <1>1, <1>3, <1>9, <1>10 DEF n

\* There is a first position, and a position for every pool.
LEMMA SlotFacts == 0 \in Slots /\ \A k \in Slots : k \in Nat
  <1>1. Cardinality(Names) \in Nat /\ Cardinality(Names) # 0
    BY NamesFinite, OrderOK, FS_EmptySet
  <1> QED BY <1>1 DEF Slots

=============================================================================
