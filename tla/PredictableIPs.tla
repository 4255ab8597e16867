---------------------------- MODULE PredictableIPs ----------------------------
(***************************************************************************)
(* Predictable addresses of the mDNS, bind9 and Unbound pods.              *)
(*                                                                         *)
(* The Designate controller gives every replica an address of a fixed      *)
(* range and publishes them in ConfigMaps: one for mDNS, one for Unbound   *)
(* and one per bind pool, pool 0 being the one a deployment without pools  *)
(* has.  A pod sets the address its index has in the map when it starts.   *)
(* The maps are also the controller's only memory of what it gave away.    *)
(***************************************************************************)
EXTENDS Integers

CONSTANTS
  PoolSize,      \* BindProvPredictablePoolSize
  MaxHolders,    \* bound: replicas per map, and binds over all pools
  MaxPools,      \* bound: bind pools
  Wants,         \* the replica counts users ask for: see ConstantsOK
  MaxChanges, MaxFaults,    \* bounds
  Overlap        \* may users change the counts while pods still come and go?

ASSUME ConstantsOK ==
  /\ PoolSize \in Nat /\ MaxHolders \in Nat /\ MaxPools \in Nat \ {0}
  /\ MaxChanges \in Nat /\ MaxFaults \in Nat /\ Overlap \in BOOLEAN
  /\ Wants # {}
  /\ \A w \in Wants :
       /\ w.mdns \in 0 .. MaxHolders /\ w.unbound \in 0 .. MaxHolders
       /\ w.npools \in 1 .. MaxPools
       /\ w.binds \in [0 .. MaxPools - 1 -> 0 .. MaxHolders]
       /\ w.multi \in BOOLEAN /\ (~w.multi => w.npools = 1)

Addrs == 1 .. PoolSize
Addr0 == 0 .. PoolSize          \* 0: no entry
Holders == 0 .. MaxHolders - 1
Pools == 0 .. MaxPools - 1
Maps == {<<"mdns", 0>>, <<"unbound", 0>>} \cup ({"bind"} \X Pools)
Mdns == <<"mdns", 0>>
Unbound == <<"unbound", 0>>
Bind(k) == <<"bind", k>>
Empty == [i \in Holders |-> 0]

VARIABLES
  want,          \* Spec replicas and the multipool ConfigMap
  map,           \* the ConfigMaps: address per pod index
  \* One reconcile of the Designate controller
  pc,
  goal,          \* the want it read
  allocatedIPs,
  updatedBindMap,
  poolIdx, bindIndex,
  \* Workloads
  replicas,      \* of each StatefulSet
  pod,           \* address of each running pod, 0 if it does not run
  changes, faults

localVars == <<pc, goal, allocatedIPs, updatedBindMap, poolIdx,
               bindIndex>>
vars == <<want, map, localVars, replicas, pod, changes, faults>>

Init ==
  /\ want \in Wants
  /\ map = [m \in Maps |-> Empty]
  /\ pc = "idle" /\ goal = want /\ allocatedIPs = {}
  /\ updatedBindMap = Empty /\ poolIdx = 0 /\ bindIndex = 0
  /\ replicas = [m \in Maps |-> 0]
  /\ pod = [m \in Maps |-> Empty]
  /\ changes = 0 /\ faults = 0

----------------------------------------------------------------------------
(* Allocation *)

ValuesOf(f) == {f[i] : i \in Holders} \ {0}

\* Mutant: the first entry is not looked up in the existing map.
Allocations_Renumber(existing, n, used) ==
  {f \in [Holders -> Addr0] :
     /\ \A i \in Holders : ~(i < n) => f[i] = 0
     /\ \A i \in Holders : i < n =>
          /\ f[i] \in Addrs \ used
          /\ \A j \in Holders : j < i => f[j] # f[i]
          /\ \A a \in Addrs \ used : a < f[i] =>
               \E j \in Holders : j < i /\ f[j] = a}

\* Mutant: the address after the end of the range is handed out too.
Allocations_PastRange(existing, n, used) ==
  {f \in [Holders -> 0 .. PoolSize + 1] :
     /\ \A i \in Holders : (f[i] # 0) <=> i < n
     /\ \A i \in Holders : i < n /\ existing[i] # 0 => f[i] = existing[i]
     /\ \A i \in Holders : i < n /\ existing[i] = 0 => f[i] \notin used
     /\ \A i, j \in Holders : i < j /\ j < n => f[i] # f[j]}

\* What allocatePredictableIPs(n holders, existing, used) may return: entries
\* of required holders are kept, each other one gets the lowest free address
\* (GetNextIP), in order.  Empty when the range runs out of addresses.
Allocations(existing, n, used) ==
  {f \in [Holders -> Addr0] :
     /\ \A i \in Holders : ~(i < n) => f[i] = 0
     /\ \A i \in Holders : i < n /\ existing[i] # 0 => f[i] = existing[i]
     /\ \A i \in Holders : i < n /\ existing[i] = 0 =>
          /\ f[i] \in Addrs \ used
          /\ \A j \in Holders : j < i => f[j] # f[i]
          /\ \A a \in Addrs \ used : a < f[i] =>
               \E j \in Holders : j < i /\ existing[j] = 0 /\ f[j] = a}

\* We cannot have 0 mDNS pods.
MdnsCount(w) == IF w.mdns > 1 THEN w.mdns ELSE 1

TotalBinds(w) ==
  LET sum[k \in 0 .. MaxPools] == IF k = 0 THEN 0 ELSE sum[k - 1] + w.binds[k - 1]
  IN  sum[w.npools]

\* Pods of map m under the counts w.
Count(w, m) ==
  CASE m = Mdns -> MdnsCount(w)
    [] m = Unbound -> w.unbound
    [] OTHER -> IF m[2] < w.npools THEN w.binds[m[2]] ELSE 0

----------------------------------------------------------------------------
(* The Designate controller *)

LocalsReset ==
  /\ pc' = "idle" /\ goal' = want /\ allocatedIPs' = {}
  /\ updatedBindMap' = Empty /\ poolIdx' = 0 /\ bindIndex' = 0

\* Mutant: Unbound's map is not scanned.
Fetch_NoUnbound ==
  /\ pc = "idle" /\ pc' = "mdns"
  /\ goal' = want
  /\ allocatedIPs' = ValuesOf(map[Bind(0)]) \cup ValuesOf(map[Mdns])
  /\ UNCHANGED <<want, map, updatedBindMap, poolIdx, bindIndex, replicas, pod,
                 changes, faults>>

\* Read the wanted counts and the addresses in the three main maps.
Fetch ==
  /\ pc = "idle" /\ pc' = "mdns"
  /\ goal' = want
  /\ allocatedIPs' = ValuesOf(map[Bind(0)]) \cup ValuesOf(map[Mdns])
                     \cup ValuesOf(map[Unbound])
  /\ UNCHANGED <<want, map, updatedBindMap, poolIdx, bindIndex, replicas, pod,
                 changes, faults>>

\* Allocate for one map and publish it, or fail for lack of addresses.
Publish(m, n, next) ==
  \/ \E f \in Allocations(map[m], n, allocatedIPs) :
       /\ map' = [map EXCEPT ![m] = f]
       /\ allocatedIPs' = allocatedIPs \cup ValuesOf(f)
       /\ pc' = next
       /\ UNCHANGED <<goal, updatedBindMap, poolIdx, bindIndex>>
  \/ /\ Allocations(map[m], n, allocatedIPs) = {}
     /\ LocalsReset
     /\ UNCHANGED map

PublishMdns ==
  /\ pc = "mdns"
  /\ Publish(Mdns, MdnsCount(goal), "bind")
  /\ UNCHANGED <<want, replicas, pod, changes, faults>>

\* Mutant: new bind addresses are not recorded as allocated.
AllocateBind_Forgets ==
  /\ pc = "bind"
  /\ LET fs == Allocations(map[Bind(0)], TotalBinds(goal), allocatedIPs)
     IN \/ \E f \in fs : /\ updatedBindMap' = f
                         /\ pc' = "pools"
                         /\ UNCHANGED <<goal, poolIdx, bindIndex,
                                        allocatedIPs>>
        \/ fs = {} /\ LocalsReset
  /\ UNCHANGED <<want, map, replicas, pod, changes, faults>>

\* All binds of all pools get their addresses in one combined map, kept
\* entries coming from the map of pool 0.
AllocateBind ==
  /\ pc = "bind"
  /\ LET fs == Allocations(map[Bind(0)], TotalBinds(goal), allocatedIPs)
     IN \/ \E f \in fs : /\ updatedBindMap' = f
                         /\ allocatedIPs' = allocatedIPs \cup ValuesOf(f)
                         /\ pc' = "pools"
                         /\ UNCHANGED <<goal, poolIdx, bindIndex>>
        \/ fs = {} /\ LocalsReset
  /\ UNCHANGED <<want, map, replicas, pod, changes, faults>>

\* A missing key of the combined map reads as no address.
At(f, i) == IF i \in Holders THEN f[i] ELSE 0

\* Mutant: a pool's local index is used in the combined map.
PoolBindMap_LocalIndex(k) ==
  [i \in Holders |-> IF i < goal.binds[k] THEN At(updatedBindMap, i) ELSE 0]

\* Pool-local indexes become indexes of the combined map.
PoolBindMap(k) ==
  [i \in Holders |->
     IF i < goal.binds[k] THEN At(updatedBindMap, bindIndex + i) ELSE 0]

WritePool ==
  /\ pc = "pools" /\ poolIdx < goal.npools
  /\ map' = [map EXCEPT ![Bind(poolIdx)] = PoolBindMap(poolIdx)]
  /\ bindIndex' = bindIndex + goal.binds[poolIdx]
  /\ poolIdx' = poolIdx + 1
  /\ UNCHANGED <<want, pc, goal, allocatedIPs, updatedBindMap, replicas, pod,
                 changes, faults>>

\* Maps of pools that are no longer configured are deleted one by one.
DeleteOrphanMap ==
  /\ pc = "pools" /\ poolIdx >= goal.npools
  /\ \/ \E k \in Pools : /\ k >= goal.npools /\ map[Bind(k)] # Empty
                         /\ map' = [map EXCEPT ![Bind(k)] = Empty]
                         /\ UNCHANGED pc
     \/ /\ \A k \in Pools : k >= goal.npools => map[Bind(k)] = Empty
        /\ pc' = "unbound" /\ UNCHANGED map
  /\ UNCHANGED <<want, goal, allocatedIPs, updatedBindMap, poolIdx, bindIndex,
                 replicas, pod, changes, faults>>

\* Mutant: the last Unbound replica gets no address.
PublishUnbound_Short ==
  /\ pc = "unbound"
  /\ Publish(Unbound, goal.unbound - 1, "scaleMdns")
  /\ UNCHANGED <<want, replicas, pod, changes, faults>>

PublishUnbound ==
  /\ pc = "unbound"
  /\ Publish(Unbound, goal.unbound, "scaleMdns")
  /\ UNCHANGED <<want, replicas, pod, changes, faults>>

\* Update a sub-CR; its controller passes the replicas to the StatefulSet.
Scale(m, next) ==
  /\ replicas' = [replicas EXCEPT ![m] = Count(goal, m)]
  /\ pc' = next
  /\ UNCHANGED <<want, map, goal, allocatedIPs, updatedBindMap, poolIdx,
                 bindIndex, pod, changes, faults>>

ScaleMdns == pc = "scaleMdns" /\ Scale(Mdns, "scaleBind")

\* The pools' StatefulSets are not sized by the sub-CR: see ScalePool.
ScaleBind ==
  /\ pc = "scaleBind"
  /\ IF goal.multi
       THEN /\ pc' = "scaleUnbound"
            /\ UNCHANGED <<want, map, goal, allocatedIPs, updatedBindMap,
                           poolIdx, bindIndex, replicas, pod, changes, faults>>
       ELSE Scale(Bind(0), "scaleUnbound")

ScaleUnbound ==
  /\ pc = "scaleUnbound" /\ LocalsReset
  /\ replicas' = [replicas EXCEPT ![Unbound] = goal.unbound]
  /\ UNCHANGED <<want, map, pod, changes, faults>>

\* An API error, a wait for a job, or the end of the operator process.
Interrupted ==
  /\ pc # "idle" /\ faults < MaxFaults
  /\ LocalsReset /\ faults' = faults + 1
  /\ UNCHANGED <<want, map, replicas, pod, changes>>

\* The bind9 controller sizes the pools' StatefulSets from the multipool
\* ConfigMap, and removes those of pools that are gone.
ScalePool(k) ==
  /\ want.multi \/ k > 0
  /\ replicas[Bind(k)] # Count(want, Bind(k))
  /\ replicas' = [replicas EXCEPT ![Bind(k)] = Count(want, Bind(k))]
  /\ UNCHANGED <<want, map, localVars, pod, changes, faults>>

----------------------------------------------------------------------------
(* Pods and users *)

\* The init container (setipalias.py) needs the pod's entry in the map.
StartPod(m, i) ==
  /\ i < replicas[m] /\ pod[m][i] = 0 /\ map[m][i] # 0
  /\ pod' = [pod EXCEPT ![m][i] = map[m][i]]
  /\ UNCHANGED <<want, map, localVars, replicas, changes, faults>>

StopPod(m, i) ==
  /\ i >= replicas[m] /\ pod[m][i] # 0
  /\ pod' = [pod EXCEPT ![m][i] = 0]
  /\ UNCHANGED <<want, map, localVars, replicas, changes, faults>>

KillPod(m, i) ==
  /\ pod[m][i] # 0 /\ faults < MaxFaults
  /\ pod' = [pod EXCEPT ![m][i] = 0] /\ faults' = faults + 1
  /\ UNCHANGED <<want, map, localVars, replicas, changes>>

\* Exactly the wanted pods run.
Settled ==
  /\ pc = "idle"
  /\ \A m \in Maps : /\ replicas[m] = Count(want, m)
                     /\ \A i \in Holders : (pod[m][i] # 0) <=> i < replicas[m]

UserChange ==
  /\ changes < MaxChanges /\ (Overlap \/ Settled)
  /\ want' \in Wants \ {want}
  /\ changes' = changes + 1
  /\ UNCHANGED <<map, localVars, replicas, pod, faults>>

Reconcile ==
  \/ Fetch \/ PublishMdns \/ AllocateBind \/ WritePool \/ DeleteOrphanMap
  \/ PublishUnbound \/ ScaleMdns \/ ScaleBind \/ ScaleUnbound

PodStep(m, i) == StartPod(m, i) \/ StopPod(m, i)

Next ==
  \/ Reconcile \/ Interrupted \/ UserChange
  \/ \E k \in Pools : ScalePool(k)
  \/ \E m \in Maps : \E i \in Holders : PodStep(m, i) \/ KillPod(m, i)

Spec == Init /\ [][Next]_vars

\* The controllers requeue until they succeed and the StatefulSet controllers
\* keep starting and stopping pods.
FairSpec ==
  /\ Spec /\ WF_vars(Reconcile)
  /\ \A k \in Pools : WF_vars(ScalePool(k))
  /\ \A m \in Maps : \A i \in Holders : WF_vars(PodStep(m, i))

----------------------------------------------------------------------------
(* Properties *)

\* Types; allocatePredictableIPs hands out addresses of the range only.
TypeOK ==
  /\ want \in Wants /\ goal \in Wants
  /\ map \in [Maps -> [Holders -> Addr0]]
  /\ pc \in {"idle", "mdns", "bind", "pools", "unbound", "scaleMdns",
             "scaleBind", "scaleUnbound"}
  /\ allocatedIPs \subseteq Addrs
  /\ updatedBindMap \in [Holders -> Addr0] /\ poolIdx \in 0 .. MaxPools
  /\ bindIndex \in Nat
  /\ replicas \in [Maps -> Nat]
  /\ pod \in [Maps -> [Holders -> Addr0]]
  /\ changes \in 0 .. MaxChanges /\ faults \in 0 .. MaxFaults

\* In the tables of ms no address is in two entries.
DistinctIn(table, ms) ==
  \A m, n \in ms : \A i, j \in Holders :
    table[m][i] # 0 /\ table[m][i] = table[n][j] => m = n /\ i = j

Distinct(table) == DistinctIn(table, Maps)

\* The published maps never give one address to two pods, not even between
\* the writes of an interrupted reconcile (deployments without extra pools).
MapsDisjoint == Distinct(map)

\* The maps that allocatedIPs is computed from.
MainMaps == {Mdns, Unbound, Bind(0)}

\* With several pools, the maps are disjoint whenever a reconcile has written
\* them all, and those the allocation starts from always are.
DisjointWhenPublished ==
  /\ DistinctIn(map, MainMaps)
  /\ pc \in {"scaleMdns", "scaleBind", "scaleUnbound"} => Distinct(map)

Keeps(ms) ==
  \A m \in ms : \A i \in Holders :
    map[m][i] # 0 /\ map'[m][i] # 0 => map'[m][i] = map[m][i]

\* A pod of mDNS, Unbound or the first bind pool keeps its address for as long
\* as its index stays in the map, however often the counts change and whatever
\* step of a reconcile fails.
KeepsMainAddresses == [][Keeps(MainMaps)]_vars

\* A pod index that stays in its map keeps its address: allocatePredictableIPs
\* keeps the existing allocations.
KeepsAddresses == [][Keeps(Maps)]_vars

\* No two running pods have the same address: an address is recycled only
\* after the pod that had it is gone.  Not so when a reconcile is interrupted
\* between writing the maps and scaling: the next one may give an address away
\* whose pod has not been asked to stop.
PodsDistinct == faults = 0 => Distinct(pod)

\* A running pod that has an entry in its map has that address, so what
\* pools.yaml and the NS records advertise is where it answers.
PodsMatchMaps ==
  \A m \in Maps : \A i \in Holders :
    pod[m][i] # 0 /\ map[m][i] # 0 => pod[m][i] = map[m][i]

\* Every wanted pod gets an address and runs, unless the counts change again.
EventuallyAllRun ==
  \A w \in Wants :
    want = w ~> (want # w \/ \A m \in Maps : \A i \in Holders :
                               (pod[m][i] # 0) <=> i < Count(w, m))

=============================================================================
