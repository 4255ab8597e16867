---------------------------- MODULE SortedPools ----------------------------
(***************************************************************************)
(* The pools of the multipool ConfigMap.                                   *)
(*                                                                         *)
(* GetMultipoolConfig sorts them by name.  The bind9 controller numbers    *)
(* StatefulSets, address maps and TSIG Secrets by the position of the pool *)
(* in that list, so that adding or removing a pool moves those after it.   *)
(***************************************************************************)
EXTENDS Naturals, FiniteSets

CONSTANTS
  Order,         \* the pool names that occur, in sorted order
  Default        \* "default"

Names == {Order[i] : i \in DOMAIN Order}
Slots == 0 .. Cardinality(Names) - 1     \* positions

ASSUME OrderOK ==
  /\ DOMAIN Order \subseteq Nat /\ IsFiniteSet(DOMAIN Order)
  /\ \A i, j \in DOMAIN Order : Order[i] = Order[j] => i = j
  /\ Default \in Names /\ "" \notin Names    \* validatePools

\* Without a multipool ConfigMap there is the default pool.
PoolsIn(c) == IF c = {} THEN {Default} ELSE c

Before(p, q) == \E i, j \in DOMAIN Order : i < j /\ Order[i] = p /\ Order[j] = q

\* Position of a pool in the sorted list of the pools S, and back.
Position(S, p) == Cardinality({q \in S : Before(q, p)})

PoolAt(S, k) == CHOOSE p \in S : Position(S, p) = k
=============================================================================
