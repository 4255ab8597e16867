------------------------- MODULE PredictableIPsProofs -------------------------
(***************************************************************************)
(* What TLAPS proves of the predictable addresses, for every size of the   *)
(* range, number of pools and set of replica counts.                       *)
(***************************************************************************)
EXTENDS PredictableIPs, TLAPS

----------------------------------------------------------------------------
(* The inductive invariant *)

\* Until the last map is written, the scan covers the main maps.
Scanned ==
  pc \in {"mdns", "bind", "pools", "unbound"} =>
    \A m \in MainMaps : \A i \in Holders :
      map[m][i] # 0 => map[m][i] \in allocatedIPs

Injective(f) == \A i, j \in Holders : f[i] # 0 /\ f[i] = f[j] => i = j

Written == {Bind(k) : k \in {l \in Pools : l < poolIdx}}

\* The combined bind map while it is being cut into pools: new to everybody
\* else, faithful to pool 0, and used up from the front.
Combined ==
  pc = "pools" =>
    /\ Injective(updatedBindMap)
    /\ \A i \in Holders : updatedBindMap[i] # 0 => updatedBindMap[i] \in allocatedIPs
    /\ \A i, j \in Holders : \A m \in {Mdns, Unbound} :
         updatedBindMap[i] # 0 => updatedBindMap[i] # map[m][j]
    /\ poolIdx = 0 =>
         /\ bindIndex = 0
         /\ \A i \in Holders : map[Bind(0)][i] # 0 /\ updatedBindMap[i] # 0
                                 => updatedBindMap[i] = map[Bind(0)][i]
    /\ \A m \in Written : \A i \in Holders :
         map[m][i] # 0 =>
           \E j \in Holders : j < bindIndex /\ updatedBindMap[j] = map[m][i]
    /\ DistinctIn(map, Written)

\* Between two reconciles of the maps nothing is known but MainMaps.
Fresh == pc \in {"idle", "mdns", "bind"} => poolIdx = 0 /\ bindIndex = 0

Published ==
  /\ pc \in {"unbound", "scaleMdns", "scaleBind", "scaleUnbound"} => Distinct(map)
  /\ pc = "unbound" => \A m \in Maps : \A i \in Holders :
                         map[m][i] # 0 => map[m][i] \in allocatedIPs

IInv ==
  /\ TypeOK /\ Scanned /\ Combined /\ Fresh /\ Published
  /\ DistinctIn(map, MainMaps)

----------------------------------------------------------------------------
(* The maps and the allocation *)

LEMMA MapFacts ==
  /\ MainMaps \subseteq Maps /\ \A k \in Pools : Bind(k) \in Maps
  /\ 0 \in Pools
  /\ Mdns # Unbound
  /\ \A k : Bind(k) # Mdns /\ Bind(k) # Unbound
  /\ \A k, l : Bind(k) = Bind(l) => k = l
  /\ \A m \in Maps : m = Mdns \/ m = Unbound \/ \E k \in Pools : m = Bind(k)
  <1>1. 0 \in Pools
    BY ConstantsOK DEF Pools
  <1> QED BY <1>1 DEF MainMaps, Maps, Mdns, Unbound, Bind

LEMMA EmptyType == Empty \in [Holders -> Addr0] /\ \A i \in Holders : Empty[i] = 0
  BY ConstantsOK DEF Empty, Addr0

\* What allocatePredictableIPs returns: addresses kept for the same index or
\* free ones, and no address twice.
LEMMA AllocationFacts ==
  ASSUME NEW existing \in [Holders -> Addr0], NEW n, NEW used,
         NEW f \in Allocations(existing, n, used),
         Injective(existing),
         \A i \in Holders : existing[i] # 0 => existing[i] \in used
  PROVE  /\ f \in [Holders -> Addr0]
         /\ \A i \in Holders : f[i] # 0 => f[i] = existing[i] \/ f[i] \notin used
         /\ \A i \in Holders : existing[i] # 0 /\ f[i] # 0 => f[i] = existing[i]
         /\ Injective(f)
  <1>1. f \in [Holders -> Addr0]
    BY DEF Allocations
  <1>2. \A i \in Holders : f[i] # 0 =>
          \/ existing[i] # 0 /\ f[i] = existing[i]
          \/ /\ existing[i] = 0 /\ f[i] \notin used
             /\ \A j \in Holders : j < i => f[j] # f[i]
    BY ConstantsOK DEF Allocations, Holders
  <1>3. Injective(f)
    <2> SUFFICES ASSUME NEW i \in Holders, NEW j \in Holders,
                        f[i] # 0, f[i] = f[j], i # j
                 PROVE  FALSE
      BY DEF Injective
    <2>1. CASE existing[i] # 0 /\ existing[j] # 0
      BY <2>1, <1>2 DEF Injective
    <2>2. CASE (existing[i] = 0) # (existing[j] = 0)
      BY <2>2, <1>2
    <2>3. CASE existing[i] = 0 /\ existing[j] = 0
      <3>1. i < j \/ j < i
        BY DEF Holders
      <3> QED BY <3>1, <2>3, <1>2
    <2> QED BY <2>1, <2>2, <2>3
  <1> QED BY <1>1, <1>2, <1>3

LEMMA ResetFacts ==
  ASSUME LocalsReset, TypeOK
  PROVE  /\ pc' = "idle" /\ goal' \in Wants /\ allocatedIPs' \subseteq Addrs
         /\ updatedBindMap' \in [Holders -> Addr0]
         /\ poolIdx' = 0 /\ bindIndex' = 0
  BY EmptyType DEF LocalsReset, TypeOK

\* Publishing the map of mDNS or Unbound.
LEMMA PublishFacts ==
  ASSUME IInv, NEW m \in {Mdns, Unbound}, NEW n, NEW next,
         pc \in {"mdns", "unbound"},
         Publish(m, n, next)
  PROVE  \/ /\ LocalsReset /\ map' = map
         \/ \E f \in [Holders -> Addr0] :
              /\ map' = [map EXCEPT ![m] = f]
              /\ allocatedIPs' = allocatedIPs \cup ValuesOf(f)
              /\ pc' = next
              /\ UNCHANGED <<goal, updatedBindMap, poolIdx, bindIndex>>
              /\ Injective(f)
              /\ \A i \in Holders : f[i] # 0 => f[i] = map[m][i] \/ f[i] \notin allocatedIPs
              /\ \A i \in Holders : map[m][i] # 0 /\ f[i] # 0 => f[i] = map[m][i]
  <1>1. m \in MainMaps /\ m \in Maps
    BY MapFacts DEF MainMaps
  <1>2. map[m] \in [Holders -> Addr0]
    BY <1>1 DEF IInv, TypeOK
  <1>3. Injective(map[m])
    BY <1>1 DEF IInv, DistinctIn, Injective
  <1>4. \A i \in Holders : map[m][i] # 0 => map[m][i] \in allocatedIPs
    BY <1>1 DEF IInv, Scanned
  <1>5. CASE \E f \in Allocations(map[m], n, allocatedIPs) :
               /\ map' = [map EXCEPT ![m] = f]
               /\ allocatedIPs' = allocatedIPs \cup ValuesOf(f)
               /\ pc' = next
               /\ UNCHANGED <<goal, updatedBindMap, poolIdx, bindIndex>>
    <2>1. PICK f \in Allocations(map[m], n, allocatedIPs) :
               /\ map' = [map EXCEPT ![m] = f]
               /\ allocatedIPs' = allocatedIPs \cup ValuesOf(f)
               /\ pc' = next
               /\ UNCHANGED <<goal, updatedBindMap, poolIdx, bindIndex>>
      BY <1>5
    <2>2. /\ f \in [Holders -> Addr0]
          /\ \A i \in Holders : f[i] # 0 => f[i] = map[m][i] \/ f[i] \notin allocatedIPs
          /\ \A i \in Holders : map[m][i] # 0 /\ f[i] # 0 => f[i] = map[m][i]
          /\ Injective(f)
      BY <1>2, <1>3, <1>4, AllocationFacts
    <2> QED BY <2>1, <2>2
  <1> QED BY <1>5 DEF Publish

----------------------------------------------------------------------------
(* One step *)

\* Back to idle with the maps as they were.
LEMMA ResetStep ==
  ASSUME IInv, LocalsReset, map' = map, want' \in Wants,
         replicas' \in [Maps -> Nat], pod' \in [Maps -> [Holders -> Addr0]],
         changes' \in 0 .. MaxChanges, faults' \in 0 .. MaxFaults
  PROVE  IInv' /\ Keeps(MainMaps)
  <1>1. TypeOK'
    <2>1. 0 \in 0 .. MaxPools /\ 0 \in Nat
      BY ConstantsOK
    <2> QED BY <2>1, ResetFacts DEF IInv, TypeOK
  <1>2. (Scanned /\ Combined /\ Fresh /\ Published)'
    BY ResetFacts DEF IInv, Scanned, Combined, Fresh, Published
  <1>3. DistinctIn(map, MainMaps)'
    BY DEF IInv, DistinctIn, MainMaps, Mdns, Unbound, Bind
  <1> QED BY <1>1, <1>2, <1>3 DEF IInv, Keeps

\* Steps that touch neither the maps nor the locals of the reconcile.
LEMMA QuietStep ==
  ASSUME IInv, UNCHANGED <<map, localVars>>, want' \in Wants,
         replicas' \in [Maps -> Nat], pod' \in [Maps -> [Holders -> Addr0]],
         changes' \in 0 .. MaxChanges, faults' \in 0 .. MaxFaults
  PROVE  IInv' /\ Keeps(MainMaps)
  <1> USE DEF localVars
  <1>1. TypeOK'
    BY DEF IInv, TypeOK
  <1>2. Scanned' /\ Fresh'
    BY DEF IInv, Scanned, Fresh, MainMaps, Mdns, Unbound, Bind
  <1>3. Combined'
    BY DEF IInv, Combined, Written, DistinctIn, Injective, Mdns, Unbound, Bind
  <1>4. Published' /\ DistinctIn(map, MainMaps)'
    BY DEF IInv, Published, Distinct, DistinctIn, MainMaps, Mdns, Unbound, Bind
  <1> QED BY <1>1, <1>2, <1>3, <1>4 DEF IInv, Keeps

LEMMA FetchStep == IInv /\ Fetch => IInv' /\ Keeps(MainMaps)
  <1> SUFFICES ASSUME IInv, Fetch PROVE IInv' /\ Keeps(MainMaps)
    OBVIOUS
  <1>0. \A m \in MainMaps : \A i \in Holders : map[m][i] \in Addr0
    BY MapFacts DEF IInv, TypeOK
  <1>1. Scanned'
    <2>1. \A m \in MainMaps : \A i \in Holders :
            map[m][i] # 0 => map[m][i] \in allocatedIPs'
      BY DEF Fetch, ValuesOf, MainMaps
    <2> QED BY <2>1 DEF Scanned, Fetch, MainMaps, Mdns, Unbound, Bind
  <1>2. TypeOK'
    <2>1. allocatedIPs' \subseteq Addrs
      BY <1>0, ConstantsOK DEF Fetch, ValuesOf, Addr0, Addrs, MainMaps
    <2> QED BY <2>1 DEF IInv, TypeOK, Fetch
  <1>3. Combined' /\ Fresh' /\ Published'
    BY DEF IInv, Combined, Fresh, Published, Fetch
  <1>4. DistinctIn(map, MainMaps)'
    BY DEF IInv, DistinctIn, MainMaps, Mdns, Unbound, Bind, Fetch
  <1> QED BY <1>1, <1>2, <1>3, <1>4 DEF IInv, Keeps, Fetch

LEMMA MdnsStep == IInv /\ PublishMdns => IInv' /\ Keeps(MainMaps)
  <1> SUFFICES ASSUME IInv, PublishMdns PROVE IInv' /\ Keeps(MainMaps)
    OBVIOUS
  <1>1. CASE LocalsReset /\ map' = map
    BY <1>1, ResetStep DEF IInv, TypeOK, PublishMdns
  <1>2. ASSUME NEW f \in [Holders -> Addr0],
               map' = [map EXCEPT ![Mdns] = f],
               allocatedIPs' = allocatedIPs \cup ValuesOf(f),
               pc' = "bind",
               UNCHANGED <<goal, updatedBindMap, poolIdx, bindIndex>>,
               Injective(f),
               \A i \in Holders : f[i] # 0 => f[i] = map[Mdns][i] \/ f[i] \notin allocatedIPs,
               \A i \in Holders : map[Mdns][i] # 0 /\ f[i] # 0 => f[i] = map[Mdns][i]
        PROVE  IInv' /\ Keeps(MainMaps)
    <2>0. /\ map'[Mdns] = f
          /\ \A m \in Maps : m # Mdns => map'[m] = map[m]
          /\ pc = "mdns"
      BY <1>2, MapFacts DEF IInv, TypeOK, MainMaps, PublishMdns
    <2>1. TypeOK'
      <3>1. ValuesOf(f) \subseteq Addrs
        BY <1>2, ConstantsOK DEF ValuesOf, Addr0, Addrs
      <3>2. map' \in [Maps -> [Holders -> Addr0]]
        BY <1>2 DEF IInv, TypeOK
      <3> QED BY <1>2, <3>1, <3>2 DEF IInv, TypeOK, PublishMdns
    <2>2. Scanned'
      <3>1. \A m \in MainMaps : \A i \in Holders :
              map'[m][i] # 0 => map'[m][i] \in allocatedIPs'
        BY <1>2, <2>0, MapFacts DEF IInv, Scanned, ValuesOf
      <3> QED BY <3>1 DEF Scanned, MainMaps, Mdns, Unbound, Bind
    <2>3. Combined' /\ Fresh' /\ Published'
      BY <1>2, <2>0 DEF IInv, Combined, Fresh, Published
    <2>4. DistinctIn(map, MainMaps)'
      <3>1. \A m \in MainMaps : m # Mdns => map'[m] = map[m]
        BY <2>0, MapFacts
      <3>2. \A m \in MainMaps : \A i, j \in Holders :
              m # Mdns /\ f[i] # 0 => f[i] # map[m][j]
        BY <1>2, <2>0, MapFacts DEF IInv, Scanned, DistinctIn, MainMaps
      <3>3. \A m, n \in MainMaps : \A i, j \in Holders :
              map'[m][i] # 0 /\ map'[m][i] = map'[n][j] => m = n /\ i = j
        BY <1>2, <2>0, <3>1, <3>2 DEF IInv, DistinctIn, Injective
      <3> QED BY <3>3 DEF DistinctIn, MainMaps, Mdns, Unbound, Bind
    <2>5. Keeps(MainMaps)
      BY <1>2, <2>0, MapFacts DEF Keeps
    <2> QED BY <2>1, <2>2, <2>3, <2>4, <2>5 DEF IInv
  <1> QED BY <1>1, <1>2, PublishFacts DEF PublishMdns

LEMMA BindStep == IInv /\ AllocateBind => IInv' /\ Keeps(MainMaps)
  <1> SUFFICES ASSUME IInv, AllocateBind PROVE IInv' /\ Keeps(MainMaps)
    OBVIOUS
  <1>1. CASE LocalsReset
    BY <1>1, ResetStep DEF IInv, TypeOK, AllocateBind
  <1>2. ASSUME NEW f \in Allocations(map[Bind(0)], TotalBinds(goal), allocatedIPs),
               updatedBindMap' = f,
               allocatedIPs' = allocatedIPs \cup ValuesOf(f),
               pc' = "pools",
               UNCHANGED <<goal, poolIdx, bindIndex>>
        PROVE  IInv' /\ Keeps(MainMaps)
    <2>0. Bind(0) \in MainMaps /\ map' = map /\ pc = "bind"
      BY DEF MainMaps, AllocateBind
    <2>1. /\ map[Bind(0)] \in [Holders -> Addr0]
          /\ Injective(map[Bind(0)])
          /\ \A i \in Holders : map[Bind(0)][i] # 0 => map[Bind(0)][i] \in allocatedIPs
      BY <2>0, MapFacts DEF IInv, TypeOK, DistinctIn, Injective, Scanned
    <2>2. /\ f \in [Holders -> Addr0]
          /\ \A i \in Holders : f[i] # 0 => f[i] = map[Bind(0)][i] \/ f[i] \notin allocatedIPs
          /\ \A i \in Holders : map[Bind(0)][i] # 0 /\ f[i] # 0 => f[i] = map[Bind(0)][i]
          /\ Injective(f)
      BY <2>1, AllocationFacts
    <2>3. TypeOK'
      <3>1. ValuesOf(f) \subseteq Addrs
        BY <2>2, ConstantsOK DEF ValuesOf, Addr0, Addrs
      <3> QED BY <1>2, <2>2, <3>1 DEF IInv, TypeOK, AllocateBind
    <2>4. Scanned'
      <3>1. \A m \in MainMaps : \A i \in Holders :
              map[m][i] # 0 => map[m][i] \in allocatedIPs'
        BY <1>2, <2>0 DEF IInv, Scanned
      <3> QED BY <3>1, <2>0 DEF Scanned, MainMaps, Mdns, Unbound, Bind
    <2>5. Combined'
      <3>1. \A i, j \in Holders : \A m \in {Mdns, Unbound} : f[i] # 0 => f[i] # map[m][j]
        BY <2>0, <2>2, MapFacts DEF IInv, Scanned, DistinctIn, MainMaps
      <3>2. \A i \in Holders : f[i] # 0 => f[i] \in allocatedIPs'
        BY <1>2 DEF ValuesOf
      <3>3. poolIdx = 0 /\ bindIndex = 0
        BY <2>0 DEF IInv, Fresh
      <3>4. Written' = {}
        BY <3>3, <1>2 DEF Written, Pools
      <3> QED BY <1>2, <2>0, <2>2, <3>1, <3>2, <3>3, <3>4
              DEF Combined, DistinctIn, Injective, Mdns, Unbound, Bind
    <2>6. Fresh' /\ Published'
      BY <1>2 DEF Fresh, Published
    <2>7. DistinctIn(map, MainMaps)'
      BY <2>0 DEF IInv, DistinctIn, MainMaps, Mdns, Unbound, Bind
    <2> QED BY <2>0, <2>3, <2>4, <2>5, <2>6, <2>7 DEF IInv, Keeps
  <1> QED BY <1>1, <1>2 DEF AllocateBind

\* The next pool takes the next entries of the combined map.
LEMMA PoolStep == IInv /\ WritePool => IInv' /\ Keeps(MainMaps)
  <1> SUFFICES ASSUME IInv, WritePool PROVE IInv' /\ Keeps(MainMaps)
    OBVIOUS
  <1> DEFINE g == PoolBindMap(poolIdx)
             U == updatedBindMap
  <1>0. /\ pc = "pools" /\ pc' = "pools"
        /\ poolIdx \in Pools /\ poolIdx' = poolIdx + 1
        /\ goal.binds[poolIdx] \in Nat
        /\ bindIndex \in Nat /\ bindIndex' = bindIndex + goal.binds[poolIdx]
        /\ bindIndex' \in Nat /\ bindIndex <= bindIndex'
        /\ poolIdx' \in 0 .. MaxPools
        /\ Bind(poolIdx) \in Maps
    <2>1. /\ pc = "pools" /\ pc' = pc /\ poolIdx < goal.npools
          /\ poolIdx' = poolIdx + 1 /\ bindIndex' = bindIndex + goal.binds[poolIdx]
          /\ goal \in Wants /\ poolIdx \in 0 .. MaxPools /\ bindIndex \in Nat
      BY DEF IInv, TypeOK, WritePool
    <2>2. /\ goal.npools \in 1 .. MaxPools /\ MaxPools \in Nat /\ MaxHolders \in Nat
          /\ goal.binds \in [0 .. MaxPools - 1 -> 0 .. MaxHolders]
      BY <2>1, ConstantsOK
    <2>3. poolIdx \in Pools /\ poolIdx' \in 0 .. MaxPools
      BY <2>1, <2>2 DEF Pools
    <2>4. goal.binds[poolIdx] \in Nat
      BY <2>2, <2>3 DEF Pools
    <2> QED BY <2>1, <2>3, <2>4, MapFacts
  <1>1. /\ U \in [Holders -> Addr0] /\ U' = U /\ allocatedIPs' = allocatedIPs
        /\ map' = [map EXCEPT ![Bind(poolIdx)] = g]
    BY DEF IInv, TypeOK, WritePool
  <1>2. \A i \in Holders :
          \/ g[i] = 0
          \/ /\ bindIndex + i \in Holders /\ g[i] = U[bindIndex + i]
             /\ bindIndex + i < bindIndex'
    BY <1>0 DEF PoolBindMap, At, Holders
  <1>3. g \in [Holders -> Addr0]
    <2>1. 0 \in Addr0
      BY ConstantsOK DEF Addr0
    <2> QED BY <1>1, <2>1 DEF PoolBindMap, At
  <1>4. /\ map'[Bind(poolIdx)] = g
        /\ \A m \in Maps : m # Bind(poolIdx) => map'[m] = map[m]
    BY <1>0, <1>1 DEF IInv, TypeOK
  <1>5. Injective(g)
    <2> SUFFICES ASSUME NEW i \in Holders, NEW j \in Holders, g[i] # 0, g[i] = g[j]
                 PROVE  i = j
      BY DEF Injective
    <2>1. bindIndex + i = bindIndex + j
      BY <1>0, <1>2 DEF IInv, Combined, Injective
    <2> QED BY <2>1, <1>0 DEF Holders
  <1>6. /\ \A i \in Holders : g[i] # 0 => g[i] \in allocatedIPs
        /\ \A i, j \in Holders : \A m \in {Mdns, Unbound} : g[i] # 0 => g[i] # map[m][j]
    BY <1>0, <1>2 DEF IInv, Combined
  <1>7. \A m \in MainMaps : m \in {Mdns, Unbound} \/ m = Bind(0)
    BY DEF MainMaps
  <1>8. TypeOK'
    <2>1. map' \in [Maps -> [Holders -> Addr0]]
      BY <1>1, <1>3 DEF IInv, TypeOK
    <2> QED BY <1>0, <1>1, <2>1 DEF IInv, TypeOK, WritePool
  <1>9. Scanned'
    <2>1. \A m \in MainMaps : \A i \in Holders :
            map'[m][i] # 0 => map'[m][i] \in allocatedIPs
      BY <1>0, <1>4, <1>6, MapFacts DEF IInv, Scanned
    <2> QED BY <1>1, <2>1 DEF Scanned, MainMaps, Mdns, Unbound, Bind
  <1>10. Combined'
    <2>1. Mdns # Bind(poolIdx) /\ Unbound # Bind(poolIdx)
          /\ Mdns \in Maps /\ Unbound \in Maps
      BY MapFacts DEF MainMaps
    <2>2. Written' = Written \cup {Bind(poolIdx)}
      <3>1. \A l \in Pools : l < poolIdx + 1 <=> l < poolIdx \/ l = poolIdx
        BY <1>0 DEF Pools
      <3> QED BY <3>1, <1>0 DEF Written, Bind
    <2>3. Written \subseteq Maps /\ Bind(poolIdx) \notin Written
      BY <1>0, MapFacts DEF Written, Pools
    <2>4. \A m \in Written : \A i \in Holders :
            map[m][i] # 0 => \E j \in Holders : j < bindIndex /\ U[j] = map[m][i]
      BY <1>0 DEF IInv, Combined
    <2>5. \A m \in Written' : \A i \in Holders :
            map'[m][i] # 0 => \E j \in Holders : j < bindIndex' /\ U[j] = map'[m][i]
      <3> SUFFICES ASSUME NEW m \in Written', NEW i \in Holders, map'[m][i] # 0
                   PROVE  \E j \in Holders : j < bindIndex' /\ U[j] = map'[m][i]
        OBVIOUS
      <3>1. CASE m = Bind(poolIdx)
        BY <3>1, <1>2, <1>4
      <3>2. CASE m \in Written
        <4>1. map'[m] = map[m]
          BY <3>2, <2>3, <1>4
        <4>2. PICK j \in Holders : j < bindIndex /\ U[j] = map[m][i]
          BY <3>2, <4>1, <2>4
        <4>3. j < bindIndex'
          BY <1>0, <4>2 DEF Holders
        <4> QED BY <4>1, <4>2, <4>3
      <3> QED BY <3>1, <3>2, <2>2
    <2>6. \A m \in Written : \A i, j \in Holders :
            g[i] # 0 => g[i] # map[m][j]
      <3> SUFFICES ASSUME NEW m \in Written, NEW i \in Holders, NEW j \in Holders,
                          g[i] # 0, g[i] = map[m][j]
                   PROVE  FALSE
        OBVIOUS
      <3>1. PICK k \in Holders : k < bindIndex /\ U[k] = map[m][j]
        BY <2>4
      <3>2. bindIndex + i \in Holders /\ U[bindIndex + i] = U[k]
            /\ U[bindIndex + i] # 0
        BY <3>1, <1>2
      <3>3. bindIndex + i = k
        BY <3>1, <3>2, <1>0 DEF IInv, Combined, Injective
      <3> QED BY <3>1, <3>3, <1>0 DEF Holders
    <2>7. \A m, n \in Written' : \A i, j \in Holders :
            map'[m][i] # 0 /\ map'[m][i] = map'[n][j] => m = n /\ i = j
      <3>1. \A m \in Written : map'[m] = map[m]
        BY <2>3, <1>4
      <3>2. DistinctIn(map, Written)
        BY <1>0 DEF IInv, Combined
      <3> QED BY <2>2, <2>6, <3>1, <3>2, <1>4, <1>5 DEF DistinctIn, Injective
    <2>8. DistinctIn(map, Written)'
      BY <2>7 DEF DistinctIn
    <2>9. \A i, j \in Holders : \A m \in {Mdns, Unbound} :
            U[i] # 0 => U[i] # map'[m][j]
      BY <1>0, <1>4, <2>1 DEF IInv, Combined
    <2>10. \A i \in Holders : U[i] # 0 => U[i] \in allocatedIPs
      BY <1>0 DEF IInv, Combined
    <2>11. Injective(U)
      BY <1>0 DEF IInv, Combined
    <2>12. poolIdx' # 0
      BY <1>0 DEF Pools
    <2> QED
      BY <1>1, <2>5, <2>8, <2>9, <2>10, <2>11, <2>12
      DEF Combined, Injective, Mdns, Unbound
  <1>11. Fresh' /\ Published'
    BY <1>0 DEF Fresh, Published
  <1>12. DistinctIn(map, MainMaps)'
    <2>1. \A m, n \in MainMaps : \A i, j \in Holders :
            map'[m][i] # 0 /\ map'[m][i] = map'[n][j] => m = n /\ i = j
      <3>1. CASE poolIdx = 0
        <4>1. map'[Bind(0)] = g /\ \A m \in {Mdns, Unbound} : map'[m] = map[m]
          BY <3>1, <1>4, MapFacts DEF MainMaps
        <4> QED BY <4>1, <1>5, <1>6, <1>7 DEF IInv, DistinctIn, Injective, MainMaps
      <3>2. CASE poolIdx # 0
        <4>1. \A m \in MainMaps : map'[m] = map[m]
          BY <3>2, <1>4, <1>7, MapFacts
        <4> QED BY <4>1 DEF IInv, DistinctIn
      <3> QED BY <3>1, <3>2
    <2> QED BY <2>1 DEF DistinctIn, MainMaps, Mdns, Unbound, Bind
  <1>13. Keeps(MainMaps)
    <2>1. CASE poolIdx = 0
      <3>1. bindIndex = 0 /\ \A i \in Holders : map[Bind(0)][i] # 0 /\ U[i] # 0
                                                  => U[i] = map[Bind(0)][i]
        BY <2>1, <1>0 DEF IInv, Combined
      <3>2. \A i \in Holders : g[i] = 0 \/ g[i] = U[i]
        BY <3>1, <1>2 DEF Holders
      <3> QED BY <2>1, <3>1, <3>2, <1>4, <1>7, MapFacts DEF Keeps, MainMaps
    <2>2. CASE poolIdx # 0
      <3>1. \A m \in MainMaps : map'[m] = map[m]
        BY <2>2, <1>4, <1>7, MapFacts
      <3> QED BY <3>1 DEF Keeps
    <2> QED BY <2>1, <2>2
  <1> QED BY <1>8, <1>9, <1>10, <1>11, <1>12, <1>13 DEF IInv

\* Deleting the map of a removed pool, or finding none left to delete.
LEMMA OrphanStep == IInv /\ DeleteOrphanMap => IInv' /\ Keeps(MainMaps)
  <1> SUFFICES ASSUME IInv, DeleteOrphanMap PROVE IInv' /\ Keeps(MainMaps)
    OBVIOUS
  <1>0. /\ pc = "pools" /\ poolIdx >= goal.npools
        /\ UNCHANGED <<want, goal, allocatedIPs, updatedBindMap, poolIdx,
                       bindIndex, replicas, pod, changes, faults>>
        /\ goal.npools \in 1 .. MaxPools /\ poolIdx \in 0 .. MaxPools
    BY ConstantsOK DEF IInv, TypeOK, DeleteOrphanMap
  <1>1. ASSUME NEW k \in Pools, k >= goal.npools,
               map' = [map EXCEPT ![Bind(k)] = Empty], pc' = pc
        PROVE  IInv' /\ Keeps(MainMaps)
    <2>0. /\ \A m \in Maps : \A i \in Holders : map'[m][i] \in {0, map[m][i]}
          /\ \A m \in Maps : m # Bind(k) => map'[m] = map[m]
          /\ map' \in [Maps -> [Holders -> Addr0]]
      BY <1>1, EmptyType, MapFacts DEF IInv, TypeOK
    <2>1. Bind(k) # Bind(0)
      BY <1>0, <1>1, MapFacts DEF Pools
    <2>2. \A m \in MainMaps : map'[m] = map[m]
      BY <2>0, <2>1, MapFacts DEF MainMaps
    <2>3. TypeOK'
      BY <1>0, <1>1, <2>0 DEF IInv, TypeOK
    <2>4. (Scanned /\ DistinctIn(map, MainMaps))' /\ Keeps(MainMaps)
      BY <1>0, <1>1, <2>2 DEF IInv, Scanned, DistinctIn, Keeps, MainMaps, Mdns, Unbound, Bind
    <2>5. Combined'
      <3>1. Written' = Written /\ Written \subseteq Maps
        BY <1>0, MapFacts DEF Written, Bind
      <3>2. \A m \in Written : \A i \in Holders :
              map'[m][i] # 0 =>
                \E j \in Holders : j < bindIndex /\ updatedBindMap[j] = map'[m][i]
        BY <1>0, <2>0, <3>1 DEF IInv, Combined
      <3>3. \A m, n \in Written : \A i, j \in Holders :
              map'[m][i] # 0 /\ map'[m][i] = map'[n][j] => m = n /\ i = j
        BY <1>0, <2>0, <3>1 DEF IInv, Combined, DistinctIn
      <3>4. \A i, j \in Holders : \A m \in {Mdns, Unbound} :
              updatedBindMap[i] # 0 => updatedBindMap[i] # map'[m][j]
        BY <1>0, <2>2 DEF IInv, Combined, MainMaps
      <3>5. poolIdx # 0
        BY <1>0
      <3> QED BY <1>0, <3>1, <3>2, <3>3, <3>4, <3>5
              DEF IInv, Combined, Injective, DistinctIn, Mdns, Unbound
    <2>6. Fresh' /\ Published'
      BY <1>0, <1>1 DEF Fresh, Published
    <2> QED BY <2>3, <2>4, <2>5, <2>6 DEF IInv
  <1>2. ASSUME \A k \in Pools : k >= goal.npools => map[Bind(k)] = Empty,
               pc' = "unbound", map' = map
        PROVE  IInv' /\ Keeps(MainMaps)
    <2>1. TypeOK'
      BY <1>0, <1>2 DEF IInv, TypeOK
    <2>2. (Scanned /\ DistinctIn(map, MainMaps))' /\ Keeps(MainMaps)
      BY <1>0, <1>2 DEF IInv, Scanned, DistinctIn, Keeps, MainMaps, Mdns, Unbound, Bind
    <2>3. \A m \in Maps : \A i \in Holders :
            map[m][i] # 0 => m \in {Mdns, Unbound} \/ m \in Written
      <3> SUFFICES ASSUME NEW m \in Maps, NEW i \in Holders, map[m][i] # 0,
                          m \notin {Mdns, Unbound}
                   PROVE  m \in Written
        OBVIOUS
      <3>1. PICK k \in Pools : m = Bind(k)
        BY MapFacts
      <3>2. ~(k >= goal.npools)
        BY <1>2, <3>1, EmptyType
      <3>3. k < poolIdx
        BY <1>0, <3>2 DEF Pools
      <3> QED BY <3>1, <3>3 DEF Written
    <2>4. \A m \in Written : \A i \in Holders : map[m][i] # 0 =>
            /\ map[m][i] \in allocatedIPs
            /\ \A n \in {Mdns, Unbound} : \A j \in Holders : map[m][i] # map[n][j]
      <3> SUFFICES ASSUME NEW m \in Written, NEW i \in Holders, map[m][i] # 0
                   PROVE  /\ map[m][i] \in allocatedIPs
                          /\ \A n \in {Mdns, Unbound} : \A j \in Holders :
                               map[m][i] # map[n][j]
        OBVIOUS
      <3>1. PICK l \in Holders : updatedBindMap[l] = map[m][i]
        BY <1>0 DEF IInv, Combined
      <3> QED BY <3>1, <1>0 DEF IInv, Combined
    <2>5. \A m, n \in Maps : \A i, j \in Holders :
            map[m][i] # 0 /\ map[m][i] = map[n][j] => m = n /\ i = j
      <3> SUFFICES ASSUME NEW m \in Maps, NEW n \in Maps, NEW i \in Holders,
                          NEW j \in Holders, map[m][i] # 0, map[m][i] = map[n][j]
                   PROVE  m = n /\ i = j
        OBVIOUS
      <3>1. CASE m \in {Mdns, Unbound} /\ n \in {Mdns, Unbound}
        BY <3>1 DEF IInv, DistinctIn, MainMaps
      <3>2. CASE m \in Written /\ n \in Written
        BY <3>2, <1>0 DEF IInv, Combined, DistinctIn
      <3>3. CASE m \in Written /\ n \in {Mdns, Unbound}
        BY <3>3, <2>4
      <3>4. CASE n \in Written /\ m \in {Mdns, Unbound}
        BY <3>4, <2>4
      <3> QED BY <2>3, <3>1, <3>2, <3>3, <3>4
    <2>6. \A m \in Maps : \A i \in Holders : map[m][i] # 0 => map[m][i] \in allocatedIPs
      BY <2>3, <2>4, <1>0 DEF IInv, Scanned, MainMaps
    <2>7. Published'
      BY <1>0, <1>2, <2>5, <2>6 DEF Published, Distinct, DistinctIn
    <2>8. Combined' /\ Fresh'
      BY <1>2 DEF Combined, Fresh
    <2> QED BY <2>1, <2>2, <2>7, <2>8 DEF IInv
  <1> QED BY <1>1, <1>2 DEF DeleteOrphanMap

LEMMA UnboundStep == IInv /\ PublishUnbound => IInv' /\ Keeps(MainMaps)
  <1> SUFFICES ASSUME IInv, PublishUnbound PROVE IInv' /\ Keeps(MainMaps)
    OBVIOUS
  <1>1. CASE LocalsReset /\ map' = map
    BY <1>1, ResetStep DEF IInv, TypeOK, PublishUnbound
  <1>2. ASSUME NEW f \in [Holders -> Addr0],
               map' = [map EXCEPT ![Unbound] = f],
               allocatedIPs' = allocatedIPs \cup ValuesOf(f),
               pc' = "scaleMdns",
               UNCHANGED <<goal, updatedBindMap, poolIdx, bindIndex>>,
               Injective(f),
               \A i \in Holders : f[i] # 0 => f[i] = map[Unbound][i] \/ f[i] \notin allocatedIPs,
               \A i \in Holders : map[Unbound][i] # 0 /\ f[i] # 0 => f[i] = map[Unbound][i]
        PROVE  IInv' /\ Keeps(MainMaps)
    <2>0. /\ map'[Unbound] = f /\ Unbound \in Maps
          /\ \A m \in Maps : m # Unbound => map'[m] = map[m]
          /\ pc = "unbound"
      BY <1>2, MapFacts DEF IInv, TypeOK, MainMaps, PublishUnbound
    <2>1. TypeOK'
      <3>1. ValuesOf(f) \subseteq Addrs
        BY <1>2, ConstantsOK DEF ValuesOf, Addr0, Addrs
      <3>2. map' \in [Maps -> [Holders -> Addr0]]
        BY <1>2 DEF IInv, TypeOK
      <3> QED BY <1>2, <3>1, <3>2 DEF IInv, TypeOK, PublishUnbound
    <2>2. Scanned' /\ Combined' /\ Fresh'
      BY <1>2 DEF Scanned, Combined, Fresh
    <2>3. \A m \in Maps : \A i, j \in Holders :
            m # Unbound /\ f[i] # 0 => f[i] # map[m][j]
      BY <1>2, <2>0 DEF IInv, Published, Distinct, DistinctIn
    <2>4. \A m, n \in Maps : \A i, j \in Holders :
            map'[m][i] # 0 /\ map'[m][i] = map'[n][j] => m = n /\ i = j
      BY <1>2, <2>0, <2>3 DEF IInv, Published, Distinct, DistinctIn, Injective
    <2>5. Published' /\ DistinctIn(map, MainMaps)'
      BY <1>2, <2>4, MapFacts DEF Published, Distinct, DistinctIn
    <2>6. Keeps(MainMaps)
      BY <1>2, <2>0, MapFacts DEF Keeps
    <2> QED BY <2>1, <2>2, <2>5, <2>6 DEF IInv
  <1> QED BY <1>1, <1>2, PublishFacts DEF PublishUnbound

LEMMA CountType ==
  ASSUME NEW w \in Wants, NEW m \in Maps
  PROVE  Count(w, m) \in Nat
  <1>1. /\ w.mdns \in Nat /\ w.unbound \in Nat /\ MdnsCount(w) \in Nat
        /\ w.binds \in [Pools -> Nat]
    BY ConstantsOK DEF MdnsCount, Pools
  <1>2. m = Mdns \/ m = Unbound \/ \E k \in Pools : m = Bind(k)
    BY MapFacts
  <1>3. CASE m = Mdns
    BY <1>1, <1>3 DEF Count
  <1>4. CASE m = Unbound
    BY <1>1, <1>4, MapFacts DEF Count
  <1>5. ASSUME NEW k \in Pools, m = Bind(k) PROVE Count(w, m) \in Nat
    <2>1. m # Mdns /\ m # Unbound
      BY <1>5, MapFacts
    <2>2. m[2] = k
      BY <1>5 DEF Bind
    <2> QED BY <1>1, <2>1, <2>2 DEF Count
  <1> QED BY <1>2, <1>3, <1>4, <1>5

\* The maps are not touched once they are written.
LEMMA ScaleStep ==
  IInv /\ (ScaleMdns \/ ScaleBind \/ ScaleUnbound) => IInv' /\ Keeps(MainMaps)
  <1> SUFFICES ASSUME IInv, ScaleMdns \/ ScaleBind \/ ScaleUnbound
               PROVE  IInv' /\ Keeps(MainMaps)
    OBVIOUS
  <1>1. CASE ScaleUnbound
    <2>1. goal.unbound \in Nat
      BY ConstantsOK DEF IInv, TypeOK
    <2>2. replicas' \in [Maps -> Nat]
      BY <1>1, <2>1 DEF IInv, TypeOK, ScaleUnbound
    <2> QED BY <1>1, <2>2, ResetStep DEF IInv, TypeOK, ScaleUnbound
  <1>2. CASE ScaleMdns \/ ScaleBind
    <2>1. /\ map' = map /\ pc' \in {"scaleBind", "scaleUnbound"}
          /\ pc \in {"scaleMdns", "scaleBind"}
          /\ UNCHANGED <<want, goal, allocatedIPs, updatedBindMap, poolIdx,
                         bindIndex, pod, changes, faults>>
      BY <1>2 DEF ScaleMdns, ScaleBind, Scale
    <2>2. replicas' \in [Maps -> Nat]
      <3>1. /\ Count(goal, Mdns) \in Nat /\ Count(goal, Bind(0)) \in Nat
            /\ replicas \in [Maps -> Nat]
        BY CountType, MapFacts DEF IInv, TypeOK, MainMaps
      <3> QED BY <1>2, <3>1 DEF ScaleMdns, ScaleBind, Scale
    <2>3. TypeOK'
      BY <2>1, <2>2 DEF IInv, TypeOK
    <2>4. Scanned' /\ Combined' /\ Fresh'
      BY <2>1 DEF Scanned, Combined, Fresh
    <2>5. Published' /\ DistinctIn(map, MainMaps)'
      BY <2>1 DEF IInv, Published, Distinct, DistinctIn, MainMaps, Mdns, Unbound, Bind
    <2> QED BY <2>1, <2>3, <2>4, <2>5 DEF IInv, Keeps
  <1> QED BY <1>1, <1>2

LEMMA OtherStep ==
  ASSUME IInv,
         \/ Interrupted \/ UserChange
         \/ \E k \in Pools : ScalePool(k)
         \/ \E m \in Maps : \E i \in Holders : PodStep(m, i) \/ KillPod(m, i)
  PROVE  IInv' /\ Keeps(MainMaps)
  <1>0. TypeOK
    BY DEF IInv
  <1>1. CASE Interrupted
    <2>1. faults' \in 0 .. MaxFaults
      BY <1>0, <1>1, ConstantsOK DEF TypeOK, Interrupted
    <2> QED BY <1>0, <1>1, <2>1, ResetStep DEF TypeOK, Interrupted
  <1>2. CASE UserChange
    <2>1. changes' \in 0 .. MaxChanges
      BY <1>0, <1>2, ConstantsOK DEF TypeOK, UserChange
    <2> QED BY <1>0, <1>2, <2>1, QuietStep DEF TypeOK, UserChange
  <1>3. ASSUME NEW k \in Pools, ScalePool(k) PROVE IInv' /\ Keeps(MainMaps)
    <2>1. Count(want, Bind(k)) \in Nat
      BY <1>0, CountType, MapFacts DEF TypeOK
    <2>2. replicas' \in [Maps -> Nat]
      BY <1>0, <1>3, <2>1 DEF TypeOK, ScalePool
    <2> QED BY <1>0, <1>3, <2>2, QuietStep DEF TypeOK, ScalePool
  <1>4. ASSUME NEW m \in Maps, NEW i \in Holders, PodStep(m, i) \/ KillPod(m, i)
        PROVE  IInv' /\ Keeps(MainMaps)
    <2>1. faults' \in 0 .. MaxFaults
      BY <1>0, <1>4, ConstantsOK DEF TypeOK, PodStep, StartPod, StopPod, KillPod
    <2>2. map[m][i] \in Addr0 /\ 0 \in Addr0
      BY <1>0, ConstantsOK DEF TypeOK, Addr0
    <2>3. PICK a \in Addr0 : pod' = [pod EXCEPT ![m][i] = a]
      BY <1>4, <2>2 DEF PodStep, StartPod, StopPod, KillPod
    <2>4. pod' \in [Maps -> [Holders -> Addr0]]
      BY <1>0, <2>3 DEF TypeOK
    <2> QED BY <1>0, <1>4, <2>1, <2>4, QuietStep
            DEF TypeOK, PodStep, StartPod, StopPod, KillPod
  <1> QED BY <1>1, <1>2, <1>3, <1>4

LEMMA NextStep == IInv /\ [Next]_vars => IInv' /\ (Keeps(MainMaps) \/ UNCHANGED vars)
  <1> SUFFICES ASSUME IInv, [Next]_vars
               PROVE  IInv' /\ (Keeps(MainMaps) \/ UNCHANGED vars)
    OBVIOUS
  <1>1. CASE Reconcile
    BY <1>1, FetchStep, MdnsStep, BindStep, PoolStep, OrphanStep, UnboundStep,
       ScaleStep DEF Reconcile
  <1>2. CASE UNCHANGED vars
    BY <1>2, QuietStep DEF IInv, TypeOK, vars
  <1> QED BY <1>1, <1>2, OtherStep DEF Next

LEMMA InitInv == Init => IInv
  <1> SUFFICES ASSUME Init PROVE IInv
    OBVIOUS
  <1>1. \A m \in Maps : \A i \in Holders : map[m][i] = 0
    BY EmptyType DEF Init
  <1>2. TypeOK
    BY EmptyType, ConstantsOK DEF Init, TypeOK
  <1>3. Scanned /\ Combined /\ Fresh /\ Published
    BY DEF Init, Scanned, Combined, Fresh, Published
  <1>4. DistinctIn(map, MainMaps)
    BY <1>1, MapFacts DEF DistinctIn
  <1> QED BY <1>2, <1>3, <1>4 DEF IInv

LEMMA Invariance == Spec => []IInv
  <1>1. IInv /\ [Next]_vars => IInv'
    BY NextStep
  <1> QED BY <1>1, InitInv, PTL DEF Spec

----------------------------------------------------------------------------
(* Theorems *)

\* With any number of pools, a reconcile that has written the maps has given
\* no address twice, and the mDNS, Unbound and first bind maps never overlap.
THEOREM PublishedDisjoint == Spec => []DisjointWhenPublished
  <1>1. IInv => DisjointWhenPublished
    BY DEF IInv, DisjointWhenPublished, Published
  <1> QED BY <1>1, Invariance, PTL

\* Without extra pools the maps are disjoint in every state, also after a
\* reconcile that failed between two writes.
THEOREM AlwaysDisjoint == MaxPools = 1 /\ Spec => []MapsDisjoint
  <1> SUFFICES ASSUME MaxPools = 1 PROVE Spec => []MapsDisjoint
    OBVIOUS
  <1>1. MainMaps = Maps
    <2>1. Pools = {0}
      BY DEF Pools
    <2> QED BY <2>1 DEF Maps, MainMaps, Mdns, Unbound, Bind
  <1>2. IInv => MapsDisjoint
    BY <1>1 DEF IInv, MapsDisjoint, Distinct
  <1> QED BY <1>2, Invariance, PTL

\* A pod of mDNS, Unbound or the first pool keeps its address while its index
\* stays in the map, for every sequence of changes and failures.
THEOREM MainAddressesKept == Spec => KeepsMainAddresses
  <1>1. IInv /\ [Next]_vars => [Keeps(MainMaps)]_vars
    BY NextStep
  <1> QED BY <1>1, Invariance, PTL DEF Spec, KeepsMainAddresses

\* Every variable keeps its type; allocatePredictableIPs hands out addresses
\* of the range only, for every range and number of pools.
THEOREM TypeCorrect == Spec => []TypeOK
  <1>1. IInv => TypeOK
    BY DEF IInv
  <1> QED BY <1>1, Invariance, PTL

LEMMA OneMainMap == MaxPools = 1 => MainMaps = Maps /\ Pools = {0}
  <1>1. MaxPools = 1 => Pools = {0}
    BY DEF Pools
  <1> QED BY <1>1 DEF Maps, MainMaps, Mdns, Unbound, Bind

\* Without extra pools, every pod keeps its address while its index stays in
\* the map.
THEOREM AddressesKept == MaxPools = 1 /\ Spec => KeepsAddresses
  <1> SUFFICES ASSUME MaxPools = 1 PROVE Spec => KeepsAddresses
    OBVIOUS
  <1>1. IInv /\ [Next]_vars => [Keeps(Maps)]_vars
    BY NextStep, OneMainMap
  <1> QED BY <1>1, Invariance, PTL DEF Spec, KeepsAddresses

----------------------------------------------------------------------------
(* Pods and maps, in a deployment without extra pools whose counts change   *)
(* only once the pods have followed the last change                         *)

\* A running pod has the address of its entry; one without an entry is one too
\* many and gets no other address.
PodsFollow ==
  \A m \in Maps : \A i \in Holders :
    pod[m][i] # 0 =>
      \/ map[m][i] = pod[m][i]
      \/ map[m][i] = 0 /\ ~(i < Count(want, m))

\* A reconcile works for the counts that are wanted.
GoalIsWant == pc # "idle" => goal = want

\* The combined map has the entries of the only pool.
CombinedKeeps ==
  pc = "pools" =>
    \A i \in Holders : i < goal.binds[0] /\ map[Bind(0)][i] # 0 =>
                         updatedBindMap[i] = map[Bind(0)][i]

MatchInv == PodsFollow /\ GoalIsWant /\ CombinedKeeps

\* With one pool the combined map is as long as the pool's.
LEMMA TotalOfOne ==
  ASSUME MaxPools = 1, NEW w \in Wants
  PROVE  TotalBinds(w) = w.binds[0]
  <1> DEFINE P(g) == g = [k \in 0 .. MaxPools |->
                            IF k = 0 THEN 0 ELSE g[k - 1] + w.binds[k - 1]]
             s == [k \in 0 .. MaxPools |-> IF k = 0 THEN 0 ELSE w.binds[0]]
             sum == CHOOSE g : P(g)
  <1>0. w.binds[0] \in Nat /\ w.npools = 1
    BY ConstantsOK
  <1>1. P(s)
    <2>1. \A k \in 0 .. MaxPools : k = 0 \/ k = 1
      OBVIOUS
    <2>2. 0 \in 0 .. MaxPools /\ s[0] = 0
      OBVIOUS
    <2>3. \A k \in 0 .. MaxPools :
            (IF k = 0 THEN 0 ELSE s[k - 1] + w.binds[k - 1]) = IF k = 0 THEN 0 ELSE w.binds[0]
      BY <1>0, <2>1, <2>2
    <2> HIDE DEF s
    <2>4. s = [k \in 0 .. MaxPools |-> IF k = 0 THEN 0 ELSE w.binds[0]]
      BY DEF s
    <2> QED BY <2>3, <2>4
  <1>2. P(sum)
    <2> HIDE DEF P, s
    <2> QED BY <1>1, Zenon
  <1>3. sum[0] = 0
    <2> HIDE DEF sum
    <2> QED BY <1>2
  <1>4. sum[1] = w.binds[0]
    <2> HIDE DEF sum
    <2> QED BY <1>0, <1>2, <1>3
  <1>5. TotalBinds(w) = sum[w.npools]
    BY DEF TotalBinds
  <1> QED BY <1>0, <1>4, <1>5

LEMMA Counts ==
  ASSUME MaxPools = 1, NEW w \in Wants
  PROVE  /\ Count(w, Mdns) = MdnsCount(w) /\ Count(w, Unbound) = w.unbound
         /\ Count(w, Bind(0)) = w.binds[0] /\ w.npools = 1
         /\ \A m \in Maps : Count(w, m) \in Nat
  <1>1. w.npools = 1
    BY ConstantsOK
  <1>2. Bind(0)[2] = 0
    BY DEF Bind
  <1> QED BY <1>1, <1>2, MapFacts, CountType DEF Count

\* An allocation has an entry for exactly the required holders, and keeps
\* theirs.
LEMMA AllocationKeeps ==
  ASSUME NEW existing \in [Holders -> Addr0], NEW n, NEW used,
         NEW f \in Allocations(existing, n, used)
  PROVE  /\ f \in [Holders -> Addr0]
         /\ \A i \in Holders : ~(i < n) => f[i] = 0
         /\ \A i \in Holders : i < n /\ existing[i] # 0 => f[i] = existing[i]
         /\ \A i \in Holders : i < n /\ existing[i] = 0 => f[i] \in Addrs \ used
         /\ \A i \in Holders : i < n => f[i] # 0
  <1>1. \A a \in Addrs : a # 0
    BY DEF Addrs
  <1>2. /\ f \in [Holders -> Addr0]
        /\ \A i \in Holders : ~(i < n) => f[i] = 0
        /\ \A i \in Holders : i < n /\ existing[i] # 0 => f[i] = existing[i]
        /\ \A i \in Holders : i < n /\ existing[i] = 0 => f[i] \in Addrs \ used
    BY DEF Allocations
  <1> QED BY <1>1, <1>2

\* A map is replaced by an allocation for the wanted count.
LEMMA FollowReplace ==
  ASSUME IInv, PodsFollow, NEW m \in Maps, NEW f \in [Holders -> Addr0],
         map' = [map EXCEPT ![m] = f], UNCHANGED <<want, pod>>,
         \A i \in Holders : ~(i < Count(want, m)) => f[i] = 0,
         \A i \in Holders : i < Count(want, m) /\ map[m][i] # 0 => f[i] = map[m][i]
  PROVE  PodsFollow'
  <1>1. /\ map'[m] = f
        /\ \A n \in Maps : n # m => map'[n] = map[n]
    BY DEF IInv, TypeOK
  <1> SUFFICES ASSUME NEW n \in Maps, NEW i \in Holders, pod[n][i] # 0
               PROVE  \/ map'[n][i] = pod[n][i]
                      \/ map'[n][i] = 0 /\ ~(i < Count(want, n))
    BY DEF PodsFollow
  <1>2. CASE n # m
    BY <1>1, <1>2 DEF PodsFollow
  <1>3. CASE n = m
    BY <1>1, <1>3 DEF PodsFollow
  <1> QED BY <1>2, <1>3

LEMMA FollowSame ==
  ASSUME PodsFollow, UNCHANGED <<want, pod, map>>
  PROVE  PodsFollow'
  BY DEF PodsFollow

LEMMA MatchPublish ==
  ASSUME MaxPools = 1, IInv, MatchInv, PublishMdns \/ PublishUnbound
  PROVE  MatchInv'
  <1>0. /\ goal = want /\ goal \in Wants /\ UNCHANGED <<want, pod>>
        /\ Mdns \in Maps /\ Unbound \in Maps
    BY MapFacts DEF IInv, TypeOK, MatchInv, GoalIsWant, PublishMdns, PublishUnbound, MainMaps
  <1>1. CASE LocalsReset /\ UNCHANGED map
    BY <1>0, <1>1, FollowSame DEF MatchInv, GoalIsWant, CombinedKeeps, LocalsReset
  <1>2. ASSUME NEW m \in {Mdns, Unbound},
               NEW f \in Allocations(map[m], Count(goal, m), allocatedIPs),
               map' = [map EXCEPT ![m] = f], UNCHANGED goal, pc' \in {"bind", "scaleMdns"}
        PROVE  MatchInv'
    <2>1. map[m] \in [Holders -> Addr0] /\ m \in Maps
      BY <1>0 DEF IInv, TypeOK
    <2>2. PodsFollow'
      <3>1. /\ f \in [Holders -> Addr0]
            /\ \A i \in Holders : ~(i < Count(want, m)) => f[i] = 0
            /\ \A i \in Holders : i < Count(want, m) /\ map[m][i] # 0 => f[i] = map[m][i]
        BY <1>0, <1>2, <2>1, AllocationKeeps
      <3>2. PodsFollow
        BY DEF MatchInv
      <3> QED BY <1>0, <1>2, <2>1, <3>1, <3>2, FollowReplace
    <2> QED BY <1>0, <1>2, <2>2 DEF MatchInv, GoalIsWant, CombinedKeeps
  <1> QED BY <1>0, <1>1, <1>2, Counts DEF PublishMdns, PublishUnbound, Publish

LEMMA MatchBind ==
  ASSUME MaxPools = 1, IInv, MatchInv, AllocateBind
  PROVE  MatchInv'
  <1>0. goal = want /\ goal \in Wants /\ UNCHANGED <<want, pod, map>>
    BY DEF IInv, TypeOK, MatchInv, GoalIsWant, AllocateBind
  <1>1. CASE LocalsReset
    BY <1>0, <1>1, FollowSame DEF MatchInv, GoalIsWant, CombinedKeeps, LocalsReset
  <1>2. ASSUME NEW f \in Allocations(map[Bind(0)], TotalBinds(goal), allocatedIPs),
               updatedBindMap' = f, pc' = "pools", UNCHANGED goal
        PROVE  MatchInv'
    <2>1. map[Bind(0)] \in [Holders -> Addr0]
      BY MapFacts DEF IInv, TypeOK
    <2>2. CombinedKeeps'
      BY <1>0, <1>2, <2>1, AllocationKeeps, TotalOfOne DEF CombinedKeeps, Bind
    <2> QED BY <1>0, <1>2, <2>2, FollowSame DEF MatchInv, GoalIsWant
  <1> QED BY <1>1, <1>2 DEF AllocateBind

\* With one pool, its map becomes the first part of the combined map.
LEMMA OnlyPool ==
  ASSUME MaxPools = 1, IInv, WritePool
  PROVE  /\ pc = "pools" /\ poolIdx = 0 /\ bindIndex = 0 /\ goal \in Wants
         /\ PoolBindMap(0) \in [Holders -> Addr0] /\ map' = [map EXCEPT ![Bind(0)] = PoolBindMap(0)]
         /\ \A i \in Holders : PoolBindMap(0)[i] = IF i < goal.binds[0] THEN updatedBindMap[i] ELSE 0
  <1>1. pc = "pools" /\ poolIdx < goal.npools /\ goal \in Wants /\ poolIdx \in 0 .. MaxPools
    BY DEF IInv, TypeOK, WritePool
  <1>2. poolIdx = 0
    BY <1>1, Counts
  <1>3. bindIndex = 0
    BY <1>1, <1>2 DEF IInv, Combined
  <1>4. \A i \in Holders : PoolBindMap(0)[i] = IF i < goal.binds[0] THEN updatedBindMap[i] ELSE 0
    BY <1>3 DEF PoolBindMap, At, Holders
  <1>5. PoolBindMap(0) \in [Holders -> Addr0]
    <2>1. updatedBindMap \in [Holders -> Addr0] /\ 0 \in Addr0
      BY ConstantsOK DEF IInv, TypeOK, Addr0
    <2>2. \A i \in Holders : PoolBindMap(0)[i] \in Addr0
      BY <1>4, <2>1
    <2> QED BY <2>2 DEF PoolBindMap
  <1> QED BY <1>1, <1>2, <1>3, <1>4, <1>5 DEF WritePool

LEMMA MatchPool ==
  ASSUME MaxPools = 1, IInv, MatchInv, WritePool
  PROVE  MatchInv'
  <1> DEFINE g == PoolBindMap(0)
  <1>0. /\ UNCHANGED <<want, goal, pod, pc, updatedBindMap>> /\ Bind(0) \in Maps
        /\ pc = "pools" /\ goal = want /\ goal \in Wants
    BY MapFacts, OnlyPool DEF WritePool, MatchInv, GoalIsWant, MainMaps
  <1>1. /\ g \in [Holders -> Addr0] /\ map' = [map EXCEPT ![Bind(0)] = g]
        /\ \A i \in Holders : g[i] = IF i < goal.binds[0] THEN updatedBindMap[i] ELSE 0
    BY OnlyPool
  <1> HIDE DEF g
  <1>2. \A i \in Holders : i < goal.binds[0] /\ map[Bind(0)][i] # 0 => g[i] = map[Bind(0)][i]
    BY <1>0, <1>1 DEF MatchInv, CombinedKeeps
  <1>3. Count(want, Bind(0)) = goal.binds[0]
    BY <1>0, Counts
  <1>4. PodsFollow'
    <2>1. /\ \A i \in Holders : ~(i < Count(want, Bind(0))) => g[i] = 0
          /\ \A i \in Holders : i < Count(want, Bind(0)) /\ map[Bind(0)][i] # 0
                                => g[i] = map[Bind(0)][i]
      BY <1>1, <1>2, <1>3
    <2>2. PodsFollow
      BY DEF MatchInv
    <2> QED BY <1>0, <1>1, <2>1, <2>2, FollowReplace
  <1>5. CombinedKeeps'
    <2>1. map'[Bind(0)] = g
      BY <1>0, <1>1 DEF IInv, TypeOK
    <2> QED BY <1>0, <1>1, <2>1 DEF CombinedKeeps, Bind
  <1> QED BY <1>0, <1>4, <1>5 DEF MatchInv, GoalIsWant

LEMMA MatchOther ==
  ASSUME MaxPools = 1, ~Overlap, IInv, MatchInv,
         \/ Fetch \/ DeleteOrphanMap \/ ScaleMdns \/ ScaleBind \/ ScaleUnbound
         \/ Interrupted \/ UserChange \/ UNCHANGED vars
         \/ \E k \in Pools : ScalePool(k)
         \/ \E m \in Maps : \E i \in Holders : PodStep(m, i) \/ KillPod(m, i)
  PROVE  MatchInv'
  <1>1. CASE DeleteOrphanMap
    <2>1. map' = map
      <3>1. goal \in Wants /\ Pools = {0}
        BY OneMainMap DEF IInv, TypeOK
      <3>2. goal.npools = 1
        BY <3>1, Counts
      <3>3. ~(\E k \in Pools : k >= goal.npools)
        BY <3>1, <3>2
      <3> QED BY <1>1, <3>3 DEF DeleteOrphanMap
    <2>2. UNCHANGED <<want, goal, pod, updatedBindMap>> /\ pc = "pools"
      BY <1>1 DEF DeleteOrphanMap
    <2> QED BY <2>1, <2>2, FollowSame DEF MatchInv, GoalIsWant, CombinedKeeps, Bind
  <1>2. CASE \/ Fetch \/ ScaleMdns \/ ScaleBind \/ ScaleUnbound \/ Interrupted
             \/ UNCHANGED vars \/ \E k \in Pools : ScalePool(k)
    <2> USE DEF Fetch, ScaleMdns, ScaleBind, ScaleUnbound, Interrupted, ScalePool, Scale,
                vars, localVars, LocalsReset
    <2>1. UNCHANGED <<want, map, pod>>
      BY <1>2
    <2>2. GoalIsWant'
      BY <1>2, <2>1 DEF MatchInv, GoalIsWant
    <2>3. pc' # "pools" \/ (pc = "pools" /\ UNCHANGED <<goal, updatedBindMap>>)
      BY <1>2
    <2> QED BY <2>1, <2>2, <2>3, FollowSame DEF MatchInv, CombinedKeeps, Bind
  <1>3. CASE UserChange
    <2>1. Settled /\ want' \in Wants /\ UNCHANGED <<map, pod, localVars>> /\ pc = "idle"
      BY <1>3 DEF UserChange, Settled
    <2>2. \A m \in Maps : \A i \in Holders : pod[m][i] # 0 => map[m][i] = pod[m][i]
      BY <2>1 DEF Settled, MatchInv, PodsFollow
    <2> QED BY <2>1, <2>2 DEF MatchInv, PodsFollow, GoalIsWant, CombinedKeeps, localVars
  <1>4. ASSUME NEW m \in Maps, NEW i \in Holders, PodStep(m, i) \/ KillPod(m, i)
        PROVE  MatchInv'
    <2>1. UNCHANGED <<want, map, localVars>>
      BY <1>4 DEF PodStep, StartPod, StopPod, KillPod
    <2>2. \E a \in {0, map[m][i]} : pod' = [pod EXCEPT ![m][i] = a]
      BY <1>4 DEF PodStep, StartPod, StopPod, KillPod
    <2>3. \A n \in Maps : \A j \in Holders :
            pod'[n][j] = pod[n][j] \/ pod'[n][j] = 0 \/ pod'[n][j] = map[n][j]
      BY <2>2 DEF IInv, TypeOK
    <2>4. PodsFollow'
      BY <2>1, <2>3 DEF MatchInv, PodsFollow
    <2> QED BY <2>1, <2>4 DEF MatchInv, GoalIsWant, CombinedKeeps, localVars, Bind
  <1> QED BY <1>1, <1>2, <1>3, <1>4

LEMMA MatchStep ==
  ASSUME MaxPools = 1, ~Overlap, IInv, MatchInv, [Next]_vars
  PROVE  MatchInv'
  BY MatchPublish, MatchBind, MatchPool, MatchOther DEF Next, Reconcile

LEMMA MatchInit == Init => MatchInv
  <1> SUFFICES ASSUME Init PROVE MatchInv
    OBVIOUS
  <1>1. \A m \in Maps : \A i \in Holders : pod[m][i] = 0
    BY EmptyType DEF Init
  <1> QED BY <1>1 DEF Init, MatchInv, PodsFollow, GoalIsWant, CombinedKeeps

\* Without extra pools, and when the counts change only after the pods have
\* followed the last change, a running pod answers at the address its map
\* names, whatever fails in between.
THEOREM PodsMatch == MaxPools = 1 /\ ~Overlap /\ Spec => []PodsMatchMaps
  <1> SUFFICES ASSUME MaxPools = 1, ~Overlap PROVE Spec => []PodsMatchMaps
    OBVIOUS
  <1>1. IInv /\ MatchInv /\ [Next]_vars => MatchInv'
    BY MatchStep
  <1>2. MatchInv => PodsMatchMaps
    BY DEF MatchInv, PodsFollow, PodsMatchMaps
  <1> QED BY <1>1, <1>2, MatchInit, Invariance, PTL DEF Spec

----------------------------------------------------------------------------
(* No two pods with one address                                             *)

\* No reconcile fails for lack of addresses.
NotExhausted ==
  pc \in {"mdns", "bind", "unbound"} /\ pc' = "idle" => faults' # faults

RangeSuffices == [][NotExhausted]_vars

\* Every wanted pod of a map has its entry.
Complete(m) == \A i \in Holders : i < Count(want, m) => map[m][i] # 0

AllComplete == \A m \in Maps : Complete(m)

\* The address of a running pod is in no other entry ...
NoReuse ==
  \A m, n \in Maps : \A i, j \in Holders :
    pod[m][i] # 0 /\ pod[m][i] = map[n][j] => m = n /\ i = j

\* ... nor in the map that is about to be written.
NoReuseCombined ==
  pc = "pools" =>
    \A m \in Maps : \A i, j \in Holders :
      pod[m][i] # 0 /\ pod[m][i] = updatedBindMap[j] => m = Bind(0) /\ i = j

CombinedOwn ==
  pc = "pools" =>
    \A i, j \in Holders :
      updatedBindMap[j] # 0 /\ updatedBindMap[j] = map[Bind(0)][i] => i = j

\* A reconcile that still has addresses to give knows those of all pods, even
\* of pods whose entry it has dropped.
KnownPods ==
  pc \in {"mdns", "bind", "pools", "unbound"} /\ ~AllComplete =>
    \A m \in Maps : \A i \in Holders : pod[m][i] # 0 => pod[m][i] \in allocatedIPs

IdlePods ==
  pc = "idle" /\ ~AllComplete =>
    \A m \in Maps : \A i \in Holders : pod[m][i] # 0 => pod[m][i] = map[m][i]

\* What a reconcile has completed so far.
Progress ==
  /\ pc \in {"bind", "pools", "unbound", "scaleMdns", "scaleBind", "scaleUnbound"} =>
       Complete(Mdns)
  /\ pc = "pools" => \A i \in Holders : i < goal.binds[0] => updatedBindMap[i] # 0
  /\ pc = "pools" /\ poolIdx > 0 => Complete(Bind(0))
  /\ pc \in {"unbound", "scaleMdns", "scaleBind", "scaleUnbound"} => Complete(Bind(0))
  /\ pc \in {"scaleMdns", "scaleBind", "scaleUnbound"} => AllComplete

Apart ==
  /\ Distinct(pod) /\ NoReuse /\ NoReuseCombined /\ CombinedOwn /\ KnownPods /\ IdlePods
  /\ Progress

\* Whether the maps are complete, and what was known of the pods, survives an
\* allocation.
LEMMA CompleteGrows ==
  ASSUME IInv, NEW m \in Maps, NEW f \in [Holders -> Addr0],
         map' = [map EXCEPT ![m] = f], UNCHANGED want,
         \A i \in Holders : i < Count(want, m) => f[i] # 0
  PROVE  /\ Complete(m)' /\ (AllComplete => AllComplete')
         /\ \A n \in Maps : Complete(n) => Complete(n)'
  <1>1. /\ map'[m] = f
        /\ \A n \in Maps : n # m => map'[n] = map[n]
    BY DEF IInv, TypeOK
  <1>2. Complete(m)'
    BY <1>1 DEF Complete
  <1>3. ASSUME NEW n \in Maps, Complete(n) PROVE Complete(n)'
    <2>1. CASE n # m
      BY <1>1, <1>3, <2>1 DEF Complete
    <2> QED BY <1>2, <2>1
  <1> QED BY <1>2, <1>3 DEF AllComplete

\* A new entry of an allocation is the address of no running pod.
LEMMA NewEntries ==
  ASSUME IInv, NoReuse, KnownPods, pc \in {"mdns", "bind", "unbound"},
         NEW m \in Maps, NEW f \in Allocations(map[m], Count(want, m), allocatedIPs)
  PROVE  /\ f \in [Holders -> Addr0]
         /\ \A i \in Holders : i < Count(want, m) => f[i] # 0
         /\ \A j \in Holders : f[j] # 0 => f[j] = map[m][j] \/ f[j] \notin allocatedIPs
         /\ \A n \in Maps : \A i, j \in Holders :
              pod[n][i] # 0 /\ pod[n][i] = f[j] => m = n /\ i = j
  <1>1. map[m] \in [Holders -> Addr0]
    BY DEF IInv, TypeOK
  <1>2. /\ f \in [Holders -> Addr0]
        /\ \A i \in Holders : ~(i < Count(want, m)) => f[i] = 0
        /\ \A i \in Holders : i < Count(want, m) /\ map[m][i] # 0 => f[i] = map[m][i]
        /\ \A i \in Holders : i < Count(want, m) /\ map[m][i] = 0 => f[i] \in Addrs \ allocatedIPs
        /\ \A i \in Holders : i < Count(want, m) => f[i] # 0
    BY <1>1, AllocationKeeps
  <1>3. \A j \in Holders : f[j] # 0 => f[j] = map[m][j] \/ (f[j] \notin allocatedIPs /\ ~AllComplete)
    BY <1>2 DEF AllComplete, Complete
  <1>4. ASSUME NEW n \in Maps, NEW i \in Holders, NEW j \in Holders,
               pod[n][i] # 0, pod[n][i] = f[j]
        PROVE  m = n /\ i = j
    <2>1. CASE f[j] = map[m][j]
      BY <1>4, <2>1 DEF NoReuse
    <2>2. CASE f[j] \notin allocatedIPs /\ ~AllComplete
      BY <1>4, <2>2 DEF KnownPods
    <2> QED BY <1>3, <1>4, <2>1, <2>2
  <1> QED BY <1>2, <1>3, <1>4

\* Replacing a map by such entries.
LEMMA ReuseReplace ==
  ASSUME IInv, NoReuse, NEW m \in Maps, NEW f \in [Holders -> Addr0],
         map' = [map EXCEPT ![m] = f], UNCHANGED pod,
         \A n \in Maps : \A i, j \in Holders :
           pod[n][i] # 0 /\ pod[n][i] = f[j] => m = n /\ i = j
  PROVE  NoReuse'
  <1>1. /\ map'[m] = f
        /\ \A n \in Maps : n # m => map'[n] = map[n]
    BY DEF IInv, TypeOK
  <1> SUFFICES ASSUME NEW n \in Maps, NEW k \in Maps, NEW i \in Holders, NEW j \in Holders,
                      pod[n][i] # 0, pod[n][i] = map'[k][j]
               PROVE  n = k /\ i = j
    BY DEF NoReuse
  <1>2. CASE k # m
    BY <1>1, <1>2 DEF NoReuse
  <1>3. CASE k = m
    BY <1>1, <1>3
  <1> QED BY <1>2, <1>3

LEMMA ApartPublish ==
  ASSUME MaxPools = 1, IInv, MatchInv, Apart, NotExhausted, PublishMdns \/ PublishUnbound
  PROVE  Apart'
  <1>0. /\ goal = want /\ goal \in Wants /\ UNCHANGED <<want, pod, faults>>
        /\ Mdns \in Maps /\ Unbound \in Maps /\ Bind(0) \in Maps
        /\ pc \in {"mdns", "unbound"}
    BY MapFacts DEF IInv, TypeOK, MatchInv, GoalIsWant, PublishMdns, PublishUnbound, MainMaps
  <1>1. PICK m \in {Mdns, Unbound} :
          \E f \in Allocations(map[m], Count(want, m), allocatedIPs) :
            /\ map' = [map EXCEPT ![m] = f] /\ allocatedIPs' = allocatedIPs \cup ValuesOf(f)
            /\ \/ m = Mdns /\ pc = "mdns" /\ pc' = "bind"
               \/ m = Unbound /\ pc = "unbound" /\ pc' = "scaleMdns"
    <2>1. ~LocalsReset
      BY <1>0 DEF NotExhausted, LocalsReset
    <2>2. Count(want, Mdns) = MdnsCount(goal) /\ Count(want, Unbound) = goal.unbound
      BY <1>0, Counts
    <2>3. CASE PublishMdns
      BY <2>1, <2>2, <2>3 DEF PublishMdns, Publish
    <2>4. CASE PublishUnbound
      BY <2>1, <2>2, <2>4 DEF PublishUnbound, Publish
    <2> QED BY <2>3, <2>4
  <1>2. PICK f \in Allocations(map[m], Count(want, m), allocatedIPs) :
          /\ map' = [map EXCEPT ![m] = f] /\ allocatedIPs' = allocatedIPs \cup ValuesOf(f)
          /\ \/ m = Mdns /\ pc = "mdns" /\ pc' = "bind"
             \/ m = Unbound /\ pc = "unbound" /\ pc' = "scaleMdns"
    BY <1>1
  <1>3. NoReuse /\ KnownPods /\ m \in Maps
    BY <1>0 DEF Apart
  <1>4. /\ f \in [Holders -> Addr0]
        /\ \A i \in Holders : i < Count(want, m) => f[i] # 0
        /\ \A n \in Maps : \A i, j \in Holders :
             pod[n][i] # 0 /\ pod[n][i] = f[j] => m = n /\ i = j
    BY <1>0, <1>3, NewEntries
  <1>5. NoReuse'
    BY <1>0, <1>2, <1>3, <1>4, ReuseReplace
  <1>6. /\ Complete(m)' /\ (AllComplete => AllComplete')
        /\ \A n \in Maps : Complete(n) => Complete(n)'
    BY <1>0, <1>2, <1>3, <1>4, CompleteGrows
  <1>7. KnownPods'
    BY <1>0, <1>2, <1>6 DEF Apart, KnownPods
  <1>8. Progress'
    <2>1. CASE m = Mdns
      BY <1>2, <1>6, <2>1, MapFacts DEF Progress
    <2>2. CASE m = Unbound
      <3>1. Complete(Mdns) /\ Complete(Bind(0)) /\ pc' = "scaleMdns"
        BY <1>2, <2>2, MapFacts DEF Apart, Progress
      <3>2. Complete(Mdns)' /\ Complete(Bind(0))' /\ Complete(Unbound)'
        BY <1>0, <1>6, <2>2, <3>1
      <3>3. AllComplete'
        <4>1. \A n \in Maps : n = Mdns \/ n = Unbound \/ n = Bind(0)
          BY OneMainMap DEF MainMaps
        <4> QED BY <3>2, <4>1 DEF AllComplete
      <3> QED BY <3>1, <3>2, <3>3 DEF Progress
    <2> QED BY <2>1, <2>2
  <1> QED BY <1>0, <1>2, <1>5, <1>7, <1>8
          DEF Apart, NoReuseCombined, CombinedOwn, IdlePods, Distinct, DistinctIn

LEMMA ApartBind ==
  ASSUME MaxPools = 1, IInv, MatchInv, Apart, NotExhausted, AllocateBind
  PROVE  Apart'
  <1>0. /\ goal = want /\ goal \in Wants /\ UNCHANGED <<want, pod, faults, map>>
        /\ Bind(0) \in Maps /\ Bind(0) \in MainMaps /\ pc = "bind"
    BY MapFacts DEF IInv, TypeOK, MatchInv, GoalIsWant, AllocateBind, MainMaps
  <1>1. PICK f \in Allocations(map[Bind(0)], Count(want, Bind(0)), allocatedIPs) :
          /\ updatedBindMap' = f /\ allocatedIPs' = allocatedIPs \cup ValuesOf(f)
          /\ pc' = "pools" /\ UNCHANGED <<goal, poolIdx, bindIndex>>
    <2>1. ~LocalsReset
      BY <1>0 DEF NotExhausted, LocalsReset
    <2>2. Count(want, Bind(0)) = TotalBinds(goal)
      BY <1>0, Counts, TotalOfOne
    <2> QED BY <2>1, <2>2 DEF AllocateBind
  <1>2. NoReuse /\ KnownPods
    BY DEF Apart
  <1>3. /\ f \in [Holders -> Addr0]
        /\ \A i \in Holders : i < Count(want, Bind(0)) => f[i] # 0
        /\ \A j \in Holders : f[j] # 0 => f[j] = map[Bind(0)][j] \/ f[j] \notin allocatedIPs
        /\ \A n \in Maps : \A i, j \in Holders :
             pod[n][i] # 0 /\ pod[n][i] = f[j] => Bind(0) = n /\ i = j
    BY <1>0, <1>2, NewEntries
  <1>4. NoReuse'
    BY <1>0, <1>2 DEF NoReuse
  <1>5. NoReuseCombined'
    BY <1>0, <1>1, <1>3 DEF NoReuseCombined, Bind
  <1>6. CombinedOwn'
    <2>1. ASSUME NEW i \in Holders, NEW j \in Holders, f[j] # 0, f[j] = map[Bind(0)][i]
          PROVE  i = j
      <3>1. CASE f[j] = map[Bind(0)][j]
        <4>1. map[Bind(0)][j] # 0 /\ map[Bind(0)][j] = map[Bind(0)][i]
          BY <2>1, <3>1
        <4>2. DistinctIn(map, MainMaps)
          BY DEF IInv
        <4> QED BY <1>0, <4>1, <4>2 DEF DistinctIn
      <3>2. CASE f[j] \notin allocatedIPs
        BY <1>0, <2>1, <3>2 DEF IInv, Scanned
      <3> QED BY <1>3, <2>1, <3>1, <3>2
    <2> QED BY <1>0, <1>1, <2>1 DEF CombinedOwn, Bind
  <1>7. AllComplete' = AllComplete /\ \A n \in Maps : Complete(n)' = Complete(n)
    BY <1>0 DEF AllComplete, Complete
  <1>8. KnownPods'
    BY <1>0, <1>1, <1>7 DEF Apart, KnownPods
  <1>9. Progress'
    <2>1. Complete(Mdns)'
      BY <1>0 DEF Apart, Progress, Complete, Mdns
    <2>2. poolIdx = 0
      BY <1>0 DEF IInv, Fresh
    <2>3. Count(want, Bind(0)) = goal.binds[0]
      BY <1>0, Counts
    <2>4. poolIdx' = 0 /\ pc' = "pools" /\ goal' = goal
      BY <1>1, <2>2
    <2>5. \A i \in Holders : i < goal'.binds[0] => updatedBindMap'[i] # 0
      BY <1>1, <1>3, <2>3
    <2> QED BY <2>1, <2>4, <2>5 DEF Progress
  <1> QED BY <1>0, <1>1, <1>4, <1>5, <1>6, <1>8, <1>9
          DEF Apart, IdlePods, Distinct, DistinctIn

LEMMA ApartPool ==
  ASSUME MaxPools = 1, IInv, MatchInv, Apart, WritePool
  PROVE  Apart'
  <1> DEFINE g == PoolBindMap(0)
             U == updatedBindMap
  <1>0. /\ UNCHANGED <<want, goal, pod, pc, allocatedIPs, updatedBindMap>>
        /\ pc = "pools" /\ goal = want /\ goal \in Wants
        /\ Bind(0) \in Maps /\ Mdns \in Maps
    BY MapFacts, OnlyPool DEF WritePool, MatchInv, GoalIsWant, MainMaps
  <1>1. /\ g \in [Holders -> Addr0] /\ map' = [map EXCEPT ![Bind(0)] = g]
        /\ \A i \in Holders : g[i] = IF i < goal.binds[0] THEN U[i] ELSE 0
    BY OnlyPool
  <1> HIDE DEF g
  <1>2. map'[Bind(0)] = g /\ Count(want, Bind(0)) = goal.binds[0]
    BY <1>0, <1>1, Counts DEF IInv, TypeOK
  <1>3. \A i \in Holders : i < Count(want, Bind(0)) => g[i] # 0
    BY <1>0, <1>1, <1>2 DEF Apart, Progress
  <1>4. NoReuse'
    <2>1. \A n \in Maps : \A i, j \in Holders :
            pod[n][i] # 0 /\ pod[n][i] = g[j] => Bind(0) = n /\ i = j
      BY <1>0, <1>1 DEF Apart, NoReuseCombined
    <2>2. NoReuse
      BY DEF Apart
    <2> QED BY <1>0, <1>1, <2>1, <2>2, ReuseReplace
  <1>5. NoReuseCombined'
    BY <1>0 DEF Apart, NoReuseCombined, Bind
  <1>6. CombinedOwn'
    <2>1. ASSUME NEW i \in Holders, NEW j \in Holders, U[j] # 0, U[j] = g[i]
          PROVE  i = j
      BY <1>0, <1>1, <2>1 DEF IInv, Combined, Injective
    <2>2. /\ U' = U /\ map'[Bind(0)] = g
      BY <1>0, <1>2
    <2> HIDE DEF U
    <2>3. \A i, j \in Holders : U'[j] # 0 /\ U'[j] = map'[Bind(0)][i] => i = j
      BY <2>1, <2>2
    <2> QED BY <2>3 DEF CombinedOwn, Bind, U
  <1>7. /\ Complete(Bind(0))' /\ (AllComplete => AllComplete')
        /\ \A n \in Maps : Complete(n) => Complete(n)'
    BY <1>0, <1>1, <1>3, CompleteGrows
  <1>8. KnownPods'
    BY <1>0, <1>7 DEF Apart, KnownPods
  <1>9. Progress'
    BY <1>0, <1>7 DEF Apart, Progress
  <1> QED BY <1>0, <1>4, <1>5, <1>6, <1>8, <1>9
          DEF Apart, IdlePods, Distinct, DistinctIn

LEMMA ApartFetch ==
  ASSUME MaxPools = 1, IInv, Apart, Fetch
  PROVE  Apart'
  <1>1. /\ pc = "idle" /\ pc' = "mdns" /\ UNCHANGED <<want, map, pod>>
        /\ allocatedIPs' = ValuesOf(map[Bind(0)]) \cup ValuesOf(map[Mdns])
                           \cup ValuesOf(map[Unbound])
    BY DEF Fetch
  <1>2. \A m \in Maps : m = Mdns \/ m = Unbound \/ m = Bind(0)
    BY OneMainMap DEF MainMaps
  <1>3. \A m \in Maps : \A i \in Holders : map[m][i] # 0 => map[m][i] \in allocatedIPs'
    BY <1>1, <1>2 DEF ValuesOf
  <1>4. AllComplete' = AllComplete
    BY <1>1 DEF AllComplete, Complete
  <1>5. KnownPods'
    BY <1>1, <1>3, <1>4 DEF Apart, IdlePods, KnownPods
  <1> QED BY <1>1, <1>5
          DEF Apart, NoReuse, NoReuseCombined, CombinedOwn, IdlePods, Progress, Distinct, DistinctIn

\* The steps that touch neither the maps nor the pods.
LEMMA ApartOther ==
  ASSUME MaxPools = 1, IInv, MatchInv, Apart,
         \/ DeleteOrphanMap \/ ScaleMdns \/ ScaleBind \/ ScaleUnbound
         \/ UNCHANGED vars \/ \E k \in Pools : ScalePool(k)
  PROVE  Apart'
  <1>1. CASE DeleteOrphanMap
    <2>0. goal \in Wants /\ Pools = {0}
      BY OneMainMap DEF IInv, TypeOK
    <2>1. goal.npools = 1
      BY <2>0, Counts
    <2>2. ~(\E k \in Pools : k >= goal.npools)
      BY <2>0, <2>1
    <2>3. /\ UNCHANGED <<want, map, pod, allocatedIPs>>
          /\ pc = "pools" /\ pc' = "unbound" /\ poolIdx >= 1
      BY <1>1, <2>1, <2>2 DEF DeleteOrphanMap
    <2>4. poolIdx > 0
      BY <2>3 DEF IInv, TypeOK
    <2>5. AllComplete' = AllComplete /\ \A m \in Maps : Complete(m)' = Complete(m)
      BY <2>3 DEF AllComplete, Complete
    <2>6. Complete(Mdns)' /\ Complete(Bind(0))'
      <3>1. Complete(Mdns) /\ Complete(Bind(0)) /\ Mdns \in Maps /\ Bind(0) \in Maps
        BY <2>3, <2>4, MapFacts DEF Apart, Progress, MainMaps
      <3> QED BY <2>5, <3>1
    <2> QED BY <2>3, <2>5, <2>6
            DEF Apart, NoReuse, NoReuseCombined, CombinedOwn, KnownPods, IdlePods, Progress,
                Distinct, DistinctIn
  <1>2. CASE ScaleMdns \/ ScaleBind \/ ScaleUnbound
    <2>1. /\ UNCHANGED <<want, map, pod>> /\ pc \in {"scaleMdns", "scaleBind", "scaleUnbound"}
          /\ pc' \in {"scaleBind", "scaleUnbound", "idle"}
      BY <1>2 DEF ScaleMdns, ScaleBind, ScaleUnbound, Scale, LocalsReset
    <2>2. Mdns \in Maps /\ Bind(0) \in Maps
      BY MapFacts DEF MainMaps
    <2>3. AllComplete'
      BY <2>1 DEF Apart, Progress, AllComplete, Complete
    <2>4. Complete(Mdns)' /\ Complete(Bind(0))'
      BY <2>2, <2>3 DEF AllComplete
    <2>5. Progress'
      BY <2>1, <2>3, <2>4 DEF Progress
    <2> QED BY <2>1, <2>3, <2>5
            DEF Apart, NoReuse, NoReuseCombined, CombinedOwn, KnownPods, IdlePods,
                Distinct, DistinctIn
  <1>3. CASE UNCHANGED vars \/ \E k \in Pools : ScalePool(k)
    <2>1. UNCHANGED <<want, map, pod, localVars>>
      BY <1>3 DEF vars, ScalePool, localVars
    <2>2. AllComplete' = AllComplete /\ \A m : Complete(m)' = Complete(m)
      BY <2>1 DEF AllComplete, Complete
    <2>3. Progress'
      <3>1. Complete(Mdns)' = Complete(Mdns) /\ Complete(Bind(0))' = Complete(Bind(0))
        BY <2>1 DEF Complete, Mdns, Bind
      <3> QED BY <2>1, <2>2, <3>1 DEF Apart, Progress, localVars
    <2>4. NoReuse' /\ Distinct(pod)'
      BY <2>1 DEF Apart, NoReuse, Distinct, DistinctIn
    <2>5. NoReuseCombined' /\ CombinedOwn'
      BY <2>1 DEF Apart, NoReuseCombined, CombinedOwn, localVars, Bind
    <2>6. KnownPods' /\ IdlePods'
      BY <2>1, <2>2 DEF Apart, KnownPods, IdlePods, localVars
    <2> QED BY <2>3, <2>4, <2>5, <2>6 DEF Apart
  <1> QED BY <1>1, <1>2, <1>3

\* A pod starts with an address that no other pod has, and a pod that stops
\* only frees one.
LEMMA ApartPod ==
  ASSUME MaxPools = 1, IInv, MatchInv, Apart, NEW m \in Maps, NEW i \in Holders, PodStep(m, i)
  PROVE  Apart'
  <1>0. UNCHANGED <<want, map, localVars>>
    BY DEF PodStep, StartPod, StopPod
  <1>1. \E a \in {0, map[m][i]} : pod' = [pod EXCEPT ![m][i] = a]
    BY DEF PodStep, StartPod, StopPod
  <1>2. \A n \in Maps : \A j \in Holders :
          \/ pod'[n][j] = pod[n][j]
          \/ pod'[n][j] = 0
          \/ n = m /\ j = i /\ pod'[n][j] = map[m][i]
    BY <1>1 DEF IInv, TypeOK
  <1>3. \A n, k \in Maps : \A j, l \in Holders :
          map[n][j] # 0 /\ map[n][j] = map[k][l] => n = k /\ j = l
    BY OneMainMap DEF IInv, DistinctIn
  <1>4. \A n, k \in Maps : \A j, l \in Holders :
          pod[n][j] # 0 /\ pod[n][j] = map[k][l] => n = k /\ j = l
    BY DEF Apart, NoReuse
  <1>5. \A n, k \in Maps : \A j, l \in Holders :
          pod[n][j] # 0 /\ pod[n][j] = pod[k][l] => n = k /\ j = l
    BY DEF Apart, Distinct, DistinctIn
  <1>6. Distinct(pod)'
    <2> SUFFICES ASSUME NEW n \in Maps, NEW k \in Maps, NEW j \in Holders, NEW l \in Holders,
                        pod'[n][j] # 0, pod'[n][j] = pod'[k][l]
                 PROVE  n = k /\ j = l
      BY DEF Distinct, DistinctIn
    <2>1. \/ pod'[n][j] = pod[n][j] /\ pod[n][j] # 0
          \/ n = m /\ j = i /\ pod'[n][j] = map[m][i]
      BY <1>2
    <2>2. \/ pod'[k][l] = pod[k][l] /\ pod[k][l] # 0
          \/ k = m /\ l = i /\ pod'[k][l] = map[m][i]
      BY <1>2
    <2> QED BY <1>4, <1>5, <2>1, <2>2
  <1>7. NoReuse'
    <2>1. \A n, k \in Maps : \A j, l \in Holders :
            pod'[n][j] # 0 /\ pod'[n][j] = map[k][l] => n = k /\ j = l
      BY <1>2, <1>3, <1>4
    <2> QED BY <1>0, <2>1 DEF NoReuse
  <1>8. NoReuseCombined' /\ CombinedOwn'
    <2>1. CombinedOwn'
      BY <1>0 DEF Apart, CombinedOwn, localVars, Bind
    <2>2. ASSUME pc = "pools"
          PROVE  \A j \in Holders : map[m][i] # 0 /\ map[m][i] = updatedBindMap[j]
                                      => m = Bind(0) /\ i = j
      <3>1. m = Mdns \/ m = Unbound \/ m = Bind(0)
        BY OneMainMap DEF MainMaps
      <3>2. CASE m = Bind(0)
        BY <2>2, <3>2 DEF Apart, CombinedOwn
      <3>3. CASE m = Mdns \/ m = Unbound
        BY <2>2, <3>3 DEF IInv, Combined
      <3> QED BY <3>1, <3>2, <3>3
    <2>3. ASSUME pc = "pools", NEW n \in Maps, NEW j \in Holders, NEW l \in Holders,
                 pod'[n][j] # 0, pod'[n][j] = updatedBindMap[l]
          PROVE  n = Bind(0) /\ j = l
      <3>1. CASE pod'[n][j] = pod[n][j]
        <4>1. pod[n][j] # 0 /\ pod[n][j] = updatedBindMap[l]
          BY <2>3, <3>1
        <4>2. NoReuseCombined
          BY DEF Apart
        <4> QED BY <2>3, <4>1, <4>2 DEF NoReuseCombined
      <3>2. CASE n = m /\ j = i /\ pod'[n][j] = map[m][i]
        BY <2>2, <2>3, <3>2
      <3> QED BY <1>2, <2>3, <3>1, <3>2
    <2> QED BY <1>0, <2>1, <2>3 DEF NoReuseCombined, localVars, Bind
  <1>9. KnownPods' /\ IdlePods'
    <2>1. AllComplete' = AllComplete
      BY <1>0 DEF AllComplete, Complete
    <2>2. pc \in {"mdns", "bind", "pools", "unbound"} =>
            \A n \in Maps : \A j \in Holders : map[n][j] # 0 => map[n][j] \in allocatedIPs
      BY OneMainMap DEF IInv, Scanned
    <2>3. KnownPods'
      BY <1>0, <1>2, <2>1, <2>2 DEF Apart, KnownPods, localVars
    <2>4. IdlePods'
      BY <1>0, <1>2, <2>1 DEF Apart, IdlePods, localVars
    <2> QED BY <2>3, <2>4
  <1>10. Progress'
    <2>1. /\ AllComplete' = AllComplete /\ Complete(Mdns)' = Complete(Mdns)
          /\ Complete(Bind(0))' = Complete(Bind(0))
      BY <1>0 DEF AllComplete, Complete, Mdns, Bind
    <2> QED BY <1>0, <2>1 DEF Apart, Progress, localVars
  <1> QED BY <1>6, <1>7, <1>8, <1>9, <1>10 DEF Apart

\* The counts change once every pod has the address of its entry.
LEMMA ApartChange ==
  ASSUME ~Overlap, IInv, MatchInv, Apart, UserChange
  PROVE  Apart'
  <1>1. Settled /\ want' \in Wants /\ UNCHANGED <<map, pod, localVars>> /\ pc = "idle"
    BY DEF UserChange, Settled
  <1>2. \A m \in Maps : \A i \in Holders : pod[m][i] # 0 => map[m][i] = pod[m][i]
    BY <1>1 DEF Settled, MatchInv, PodsFollow
  <1>3. IdlePods'
    BY <1>1, <1>2 DEF IdlePods
  <1> QED BY <1>1, <1>3
          DEF Apart, NoReuse, NoReuseCombined, CombinedOwn, KnownPods, Progress,
              Distinct, DistinctIn, localVars

InvDistinct == faults = 0 => Apart

LEMMA ApartStep ==
  ASSUME MaxPools = 1, ~Overlap, IInv, MatchInv, InvDistinct,
         [Next]_vars, [NotExhausted]_vars
  PROVE  InvDistinct'
  <1> SUFFICES ASSUME faults' = 0 PROVE Apart'
    BY DEF InvDistinct
  <1>0. faults \in Nat
    BY ConstantsOK DEF IInv, TypeOK
  <1>1. ~Interrupted /\ \A m \in Maps : \A i \in Holders : ~KillPod(m, i)
    BY <1>0 DEF Interrupted, KillPod
  <1>2. CASE UNCHANGED vars
    <2>1. Apart
      BY <1>2 DEF InvDistinct, vars
    <2> QED BY <1>2, <2>1, ApartOther
  <1>3. CASE Next /\ NotExhausted
    <2>1. faults = 0
      BY <1>0, <1>1, <1>3
         DEF Next, Reconcile, Fetch, PublishMdns, AllocateBind, WritePool, DeleteOrphanMap,
             PublishUnbound, ScaleMdns, ScaleBind, ScaleUnbound, Scale, UserChange, ScalePool,
             PodStep, StartPod, StopPod
    <2>2. Apart
      BY <2>1 DEF InvDistinct
    <2> QED BY <1>1, <1>3, <2>2, ApartPublish, ApartBind, ApartPool, ApartFetch, ApartOther,
               ApartPod, ApartChange DEF Next, Reconcile
  <1> QED BY <1>2, <1>3

LEMMA ApartInit == Init => InvDistinct
  <1> SUFFICES ASSUME Init PROVE Apart
    BY DEF InvDistinct
  <1>1. \A m \in Maps : \A i \in Holders : pod[m][i] = 0
    BY EmptyType DEF Init
  <1> QED BY <1>1
          DEF Init, Apart, NoReuse, NoReuseCombined, CombinedOwn, KnownPods, IdlePods, Progress,
              Distinct, DistinctIn

\* Without extra pools, when the counts change only after the pods have
\* followed the last change, the range never runs out of addresses and nothing
\* fails, no two running pods have one address.
THEOREM PodsApart ==
  MaxPools = 1 /\ ~Overlap /\ Spec /\ RangeSuffices => []PodsDistinct
  <1> SUFFICES ASSUME MaxPools = 1, ~Overlap PROVE Spec /\ RangeSuffices => []PodsDistinct
    OBVIOUS
  <1>1. IInv /\ MatchInv /\ [Next]_vars => MatchInv'
    BY MatchStep
  <1>2. IInv /\ MatchInv /\ InvDistinct /\ [Next]_vars /\ [NotExhausted]_vars => InvDistinct'
    BY ApartStep
  <1>3. InvDistinct => PodsDistinct
    BY DEF InvDistinct, Apart, PodsDistinct
  <1> QED BY <1>1, <1>2, <1>3, MatchInit, ApartInit, Invariance, PTL DEF Spec, RangeSuffices

=============================================================================
