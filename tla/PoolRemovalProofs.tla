-------------------------- MODULE PoolRemovalProofs --------------------------
(***************************************************************************)
(* What TLAPS proves of the pools, for every number of pools and names.    *)
(***************************************************************************)
EXTENDS PoolRemoval, SortedPoolsProofs

LEMMA PoolsFacts ==
  ASSUME NEW c \in Configs \cup {{}}
  PROVE  /\ PoolsIn(c) \subseteq Names /\ Default \in PoolsIn(c)
         /\ IsFiniteSet(PoolsIn(c)) /\ Cardinality(PoolsIn(c)) \in Nat \ {0}
         /\ Cardinality(PoolsIn(c)) <= Cardinality(Names)
         /\ c \subseteq PoolsIn(c) /\ c \subseteq Names
  <1>1. /\ PoolsIn(c) \subseteq Names /\ Default \in PoolsIn(c)
        /\ c \subseteq PoolsIn(c) /\ c \subseteq Names
    BY ConstantsOK, OrderOK DEF PoolsIn
  <1>2. IsFiniteSet(PoolsIn(c)) /\ Cardinality(PoolsIn(c)) <= Cardinality(Names)
    BY <1>1, NamesFinite, FS_Subset
  <1>3. Cardinality(PoolsIn(c)) \in Nat
    BY <1>2, FS_CardinalityType
  <1>4. Cardinality(PoolsIn(c)) # 0
    BY <1>1, <1>2, FS_EmptySet
  <1> QED BY <1>1, <1>2, <1>3, <1>4

LEMMA PoolPositions ==
  ASSUME NEW c \in Configs \cup {{}}
  PROVE  /\ \A p \in PoolsIn(c) :
              /\ Position(PoolsIn(c), p) \in 0 .. Cardinality(PoolsIn(c)) - 1
              /\ PoolAt(PoolsIn(c), Position(PoolsIn(c), p)) = p
         /\ \A k \in 0 .. Cardinality(PoolsIn(c)) - 1 :
              /\ PoolAt(PoolsIn(c), k) \in PoolsIn(c)
              /\ Position(PoolsIn(c), PoolAt(PoolsIn(c), k)) = k
  <1>1. PoolsIn(c) \in SUBSET Names
    BY PoolsFacts
  <1> QED BY <1>1, Positions

----------------------------------------------------------------------------
(* Types                                                                    *)

StsType == [pool : Names, size : {"none", "up", "zero"}, pods : BOOLEAN]

\* A job only ever has the pools of a pools.yaml.
TypeInv == TypeOK /\ (update # {} => yaml # {})

LEMMA NoneType == None \in StsType
  BY OrderOK DEF None, StsType

\* A position of the loop is a StatefulSet, and it gets a pool of the list.
LEMMA AppliedFacts ==
  ASSUME bconfig \in Configs \cup {{}}, sts \in [Slots -> StsType],
         NEW k \in Nat, k < Cardinality(PoolsIn(bconfig))
  PROVE  /\ k \in Slots /\ k \in 0 .. Cardinality(PoolsIn(bconfig)) - 1
         /\ Applied(k) \in [Slots -> StsType]
         /\ \A j \in Slots : j # k => Applied(k)[j] = sts[j]
         /\ Applied(k)[k].size = "up" /\ Applied(k)[k].pool = PoolAt(PoolsIn(bconfig), k)
         /\ PoolAt(PoolsIn(bconfig), k) \in PoolsIn(bconfig)
         /\ Position(PoolsIn(bconfig), PoolAt(PoolsIn(bconfig), k)) = k
  <1> DEFINE n == Cardinality(PoolsIn(bconfig))
             q == PoolAt(PoolsIn(bconfig), k)
  <1>1. n \in Nat \ {0} /\ n <= Cardinality(Names) /\ PoolsIn(bconfig) \subseteq Names
    BY PoolsFacts
  <1>2. k \in Slots /\ k \in 0 .. n - 1
    BY <1>1, NamesFinite DEF Slots
  <1>3. q \in PoolsIn(bconfig) /\ Position(PoolsIn(bconfig), q) = k
    BY <1>2, PoolPositions
  <1>4. q \in Names
    BY <1>1, <1>3
  <1> DEFINE s == [sts[k] EXCEPT !.pool = q, !.size = "up"]
  <1>5. Applied(k) = [sts EXCEPT ![k] = s]
    BY DEF Applied
  <1> HIDE DEF n, q
  <1>7. s \in StsType /\ s.size = "up" /\ s.pool = q
    BY <1>2, <1>4 DEF StsType
  <1> HIDE DEF s
  <1>6. /\ Applied(k) \in [Slots -> StsType]
        /\ \A j \in Slots : j # k => Applied(k)[j] = sts[j]
        /\ Applied(k)[k].size = "up" /\ Applied(k)[k].pool = q
    BY <1>2, <1>5, <1>7
  <1> QED BY <1>2, <1>3, <1>6 DEF n, q

LEMMA RetiredType ==
  ASSUME NEW s \in StsType
  PROVE  Retired(s) \in StsType
  BY NoneType DEF Retired, StsType

LEMMA ListTypes ==
  ASSUME TypeOK
  PROVE  LET ListType == [state : {"none", "running", "done"}, names : SUBSET Names]
         IN  /\ NoList \in ListType /\ ListStarted \in ListType
             /\ \A S \in SUBSET Names : [state |-> "done", names |-> S] \in ListType
  BY DEF TypeOK, NoList, ListStarted

LEMMA InitTypes == Init => TypeInv
  <1> SUFFICES ASSUME Init PROVE TypeInv
    OBVIOUS
  <1>1. sts \in [Slots -> StsType]
    BY NoneType DEF Init
  <1>2. list \in [state : {"none", "running", "done"}, names : SUBSET Names]
    BY DEF Init, NoList
  <1>3. changes \in 0 .. MaxChanges /\ created \in 0 .. MaxZones /\ faults \in 0 .. MaxFaults
    <2>1. MaxChanges \in Nat /\ MaxZones \in Nat /\ MaxFaults \in Nat
      BY ConstantsOK
    <2>2. changes = 0 /\ created = 0 /\ faults = 0
      BY DEF Init
    <2> QED BY <2>1, <2>2
  <1>4. bconfig = {} /\ bidx = 0 /\ Cardinality(PoolsIn(bconfig)) \in Nat \ {0}
    BY PoolsFacts DEF Init
  <1>5. bidx \in 0 .. Cardinality(PoolsIn(bconfig)) /\ bpc # "apply"
    BY <1>4 DEF Init
  <1> QED BY <1>1, <1>2, <1>3, <1>5 DEF Init, TypeInv, TypeOK, StsType

LEMMA CounterTypes ==
  ASSUME TypeOK
  PROVE  /\ changes < MaxChanges => changes + 1 \in 0 .. MaxChanges
         /\ created < MaxZones => created + 1 \in 0 .. MaxZones
         /\ faults < MaxFaults => faults + 1 \in 0 .. MaxFaults
  <1>1. MaxChanges \in Nat /\ MaxZones \in Nat /\ MaxFaults \in Nat
    BY ConstantsOK
  <1>2. changes \in 0 .. MaxChanges /\ created \in 0 .. MaxZones /\ faults \in 0 .. MaxFaults
    BY DEF TypeOK
  <1> QED BY <1>1, <1>2

LEMMA WorldTypes ==
  ASSUME TypeInv, User \/ Jobs \/ UNCHANGED vars
  PROVE  TypeInv'
  <1>0. /\ changes < MaxChanges => changes + 1 \in 0 .. MaxChanges
        /\ created < MaxZones => created + 1 \in 0 .. MaxZones
        /\ faults < MaxFaults => faults + 1 \in 0 .. MaxFaults
    BY CounterTypes DEF TypeInv
  <1> USE DEF TypeInv, TypeOK, worldVars, statusVars, parentVars, bindVars
  <1>1. CASE UserEditsPools
    <2>1. changes' \in 0 .. MaxChanges
      BY <1>0, <1>1 DEF UserEditsPools
    <2> QED BY <1>1, <2>1 DEF UserEditsPools
  <1>2. ASSUME NEW p \in Names, UserCreatesZone(p) \/ UserDeletesZones(p) PROVE TypeInv'
    <2>1. created' \in 0 .. MaxZones
      BY <1>0, <1>2 DEF UserCreatesZone, UserDeletesZones
    <2> QED BY <1>2, <2>1 DEF UserCreatesZone, UserDeletesZones
  <1>3. CASE ListJobFinishes \/ ListJobExpires
    <2>1. list' \in [state : {"none", "running", "done"}, names : SUBSET Names]
      <3>1. TypeOK /\ db \cap yaml \in SUBSET Names
        OBVIOUS
      <3> HIDE DEF TypeOK
      <3> QED BY <1>3, <3>1, ListTypes DEF ListJobFinishes, ListJobExpires
    <2> QED BY <1>3, <2>1 DEF ListJobFinishes, ListJobExpires
  <1>4. CASE UpdateJobFinishes
    BY <1>4 DEF UpdateJobFinishes
  <1>5. CASE UpdateJobFails
    <2>1. faults' \in 0 .. MaxFaults
      BY <1>0, <1>5 DEF UpdateJobFails
    <2> QED BY <1>5, <2>1 DEF UpdateJobFails
  <1>6. CASE CentralStarts
    BY <1>6 DEF CentralStarts
  <1>7. CASE UNCHANGED vars
    BY <1>7 DEF vars
  <1> QED BY <1>1, <1>2, <1>3, <1>4, <1>5, <1>6, <1>7 DEF User, Jobs

LEMMA ParentTypes ==
  ASSUME TypeInv, Parent \/ ParentFails
  PROVE  TypeInv'
  <1>0. faults < MaxFaults => faults + 1 \in 0 .. MaxFaults
    BY CounterTypes DEF TypeInv
  <1>1. /\ \A c \in Configs \cup {{}} : c \subseteq Names
        /\ PoolsIn(config) \subseteq Names /\ Default \in PoolsIn(config)
    BY PoolsFacts DEF TypeInv, TypeOK
  <1>2. ListStarted \in [state : {"none", "running", "done"}, names : SUBSET Names]
    BY ListTypes DEF TypeInv
  <1> USE DEF TypeInv, TypeOK, worldVars, statusVars, parentVars, bindVars
  <1>3. CASE ParentReads
    BY <1>3 DEF ParentReads
  <1>4. CASE ParentValidates
    <2>1. list' \in [state : {"none", "running", "done"}, names : SUBSET Names]
      BY <1>2, <1>4 DEF ParentValidates, ParentAccepts
    <2>2. /\ pc' \in {"idle", "write"} /\ config' \in Configs \cup {{}}
          /\ lHash' \subseteq Names /\ hash' \subseteq Names
      BY <1>4 DEF ParentValidates, ParentAccepts, ParentEnds, ParentReset
    <2>3. lKnown' \in (SUBSET Names) \cup {Unset} /\ known' \in (SUBSET Names) \cup {Unset}
      BY <1>1, <1>4 DEF ParentValidates, ParentAccepts, ParentEnds, ParentReset
    <2>4. UNCHANGED <<worldVars, yaml, db, update, central, ready, bindVars, faults>>
      BY <1>4 DEF ParentValidates, ParentAccepts
    <2> QED BY <2>1, <2>2, <2>3, <2>4
  <1>5. CASE ParentWritesYaml
    BY <1>1, <1>5 DEF ParentWritesYaml
  <1>6. CASE ParentUpdates
    BY <1>6 DEF ParentUpdates
  <1>7. CASE ParentDeploys
    BY <1>7 DEF ParentDeploys, ParentEnds, ParentReset
  <1>8. CASE ParentFails
    <2>1. faults' \in 0 .. MaxFaults
      BY <1>0, <1>8 DEF ParentFails
    <2> QED BY <1>8, <2>1 DEF ParentFails, ParentEnds, ParentReset
  <1> QED BY <1>3, <1>4, <1>5, <1>6, <1>7, <1>8 DEF Parent

LEMMA BindTypes ==
  ASSUME TypeInv, Bind9 \/ Bind9Fails \/ \E k \in Slots : PodsFollow(k)
  PROVE  TypeInv'
  <1>0. /\ faults < MaxFaults => faults + 1 \in 0 .. MaxFaults
        /\ ListStarted \in [state : {"none", "running", "done"}, names : SUBSET Names]
        /\ NoList \in [state : {"none", "running", "done"}, names : SUBSET Names]
    BY CounterTypes, ListTypes DEF TypeInv
  <1>1. /\ sts \in [Slots -> StsType] /\ bconfig \in Configs \cup {{}} /\ {} \in Configs \cup {{}}
        /\ list \in [state : {"none", "running", "done"}, names : SUBSET Names]
        /\ keys \in Configs \cup {{}}
        /\ bidx \in 0 .. Cardinality(PoolsIn(bconfig))
        /\ bpc = "apply" => bidx < Cardinality(PoolsIn(bconfig))
    BY DEF TypeInv, TypeOK, StsType
  <1>2. \A c \in Configs \cup {{}} : Cardinality(PoolsIn(c)) \in Nat \ {0}
    BY PoolsFacts
  <1>10. \A k \in Nat : k < Cardinality(PoolsIn(bconfig)) => Applied(k) \in [Slots -> StsType]
    BY <1>1, AppliedFacts
  \* The variables of the other parts do not change.
  <1>3. ASSUME /\ sts' \in [Slots -> StsType] /\ keys' \in Configs \cup {{}}
               /\ list' \in [state : {"none", "running", "done"}, names : SUBSET Names]
               /\ bpc' \in {"idle", "apply", "cleanup", "keys"}
               /\ bconfig' \in Configs \cup {{}} /\ faults' \in 0 .. MaxFaults
               /\ bidx' \in 0 .. Cardinality(PoolsIn(bconfig'))
               /\ bpc' = "apply" => bidx' < Cardinality(PoolsIn(bconfig'))
               /\ UNCHANGED <<worldVars, yaml, db, update, central, statusVars, parentVars>>
        PROVE  TypeInv'
    BY <1>3 DEF TypeInv, TypeOK, StsType, worldVars, statusVars, parentVars
  <1>4. CASE Bind9Reads
    <2>1. bconfig' \in Configs \cup {{}} /\ bidx' = 0 /\ bpc' \in {"cleanup", "apply"}
      BY <1>4 DEF Bind9Reads, TypeInv, TypeOK
    <2>2. bidx' \in 0 .. Cardinality(PoolsIn(bconfig')) /\ bidx' < Cardinality(PoolsIn(bconfig'))
      BY <1>2, <2>1
    <2> QED BY <1>1, <1>3, <1>4, <2>1, <2>2 DEF Bind9Reads, TypeInv, TypeOK
  <1>5. CASE Bind9Applies
    <2> DEFINE n == Cardinality(PoolsIn(bconfig))
    <2>1. /\ bpc = "apply" /\ bconfig' = bconfig /\ bidx' = bidx + 1 /\ sts' = Applied(bidx)
          /\ bpc' = IF bidx' < n THEN "apply" ELSE "cleanup"
      BY <1>5 DEF Bind9Applies
    <2>2. n \in Nat /\ bidx \in Nat /\ bidx < n
      BY <1>1, <1>2, <2>1
    <2>3. sts' \in [Slots -> StsType]
      BY <1>10, <2>1, <2>2
    <2> HIDE DEF n
    <2>4. bidx' \in 0 .. n /\ (bpc' = "apply" => bidx' < n)
      BY <2>1, <2>2
    <2> QED BY <1>1, <1>3, <1>5, <2>1, <2>3, <2>4 DEF Bind9Applies, TypeInv, TypeOK, n
  <1>6. CASE Bind9CleansUp
    <2>1. sts' \in [Slots -> StsType]
      <3>1. ASSUME NEW k \in Slots PROVE [sts EXCEPT ![k] = Retired(@)] \in [Slots -> StsType]
        BY <1>1, RetiredType
      <3>2. Applied(0) \in [Slots -> StsType]
        BY <1>1, <1>2, <1>10
      <3> QED BY <1>1, <1>6, <3>1, <3>2 DEF Bind9CleansUp, Orphans
    <2>2. list' \in [state : {"none", "running", "done"}, names : SUBSET Names]
      BY <1>0, <1>1, <1>6 DEF Bind9CleansUp
    <2>3. keys' \in Configs \cup {{}} /\ bpc' \in {"idle", "keys"} /\ bconfig' = bconfig
          /\ bidx' = bidx
      BY <1>1, <1>6 DEF Bind9CleansUp
    <2>4. /\ UNCHANGED <<worldVars, yaml, db, update, central, statusVars, parentVars>>
          /\ faults' \in 0 .. MaxFaults
      BY <1>6 DEF Bind9CleansUp, TypeInv, TypeOK
    <2> QED BY <1>1, <1>3, <2>1, <2>2, <2>3, <2>4
  <1>7. CASE Bind9Keys
    <2>1. list' \in [state : {"none", "running", "done"}, names : SUBSET Names]
      BY <1>0, <1>1, <1>7 DEF Bind9Keys
    <2>2. keys' \in Configs \cup {{}} /\ bpc' = "idle" /\ bconfig' = {} /\ bidx' = 0 /\ sts' = sts
      BY <1>1, <1>7 DEF Bind9Keys, Bind9Reset
    <2>3. /\ UNCHANGED <<worldVars, yaml, db, update, central, statusVars, parentVars>>
          /\ faults' \in 0 .. MaxFaults
      BY <1>7 DEF Bind9Keys, TypeInv, TypeOK
    <2>4. bidx' \in 0 .. Cardinality(PoolsIn(bconfig'))
      BY <1>1, <1>2, <2>2
    <2> QED BY <1>1, <1>3, <2>1, <2>2, <2>3, <2>4
  <1>8. CASE Bind9Fails
    <2>1. bconfig' = {} /\ bidx' = 0 /\ bpc' = "idle"
      BY <1>8 DEF Bind9Fails, Bind9Reset
    <2>2. bidx' \in 0 .. Cardinality(PoolsIn(bconfig'))
      BY <1>1, <1>2, <2>1
    <2> QED BY <1>0, <1>1, <1>3, <1>8, <2>1, <2>2 DEF Bind9Fails
  <1>9. ASSUME NEW k \in Slots, PodsFollow(k) PROVE TypeInv'
    <2>1. sts' \in [Slots -> StsType]
      <3> DEFINE b == (sts[k].size = "up")
      <3>1. b \in BOOLEAN /\ sts' = [sts EXCEPT ![k].pods = b]
        BY <1>9 DEF PodsFollow
      <3> HIDE DEF b
      <3>2. [sts[k] EXCEPT !.pods = b] \in StsType
        BY <1>1, <3>1 DEF StsType
      <3> QED BY <1>1, <3>1, <3>2
    <2> QED BY <1>1, <1>3, <1>9, <2>1 DEF PodsFollow, TypeInv, TypeOK
  <1> QED BY <1>4, <1>5, <1>6, <1>7, <1>8, <1>9 DEF Bind9

LEMMA TypeStep == TypeInv /\ [Next]_vars => TypeInv'
  BY WorldTypes, ParentTypes, BindTypes DEF Next

LEMMA TypeInvariance == Spec => []TypeInv
  BY InitTypes, TypeStep, PTL DEF Spec

\* Every variable keeps its type; pools.yaml always has the default pool, and
\* pools are only registered from one.
THEOREM TypeCorrect == Spec => []TypeOK
  <1>1. TypeInv => TypeOK
    BY DEF TypeInv
  <1> QED BY <1>1, TypeInvariance, PTL

----------------------------------------------------------------------------
(* Pools with zones stay in pools.yaml                                      *)

\* Before the first edit the database, the jobs and pools.yaml have all the
\* pools of the configuration c or none.
Untouched(c) ==
  /\ yaml \in {{}, PoolsIn(c)} /\ db \in {{}, PoolsIn(c)} /\ update \in {{}, PoolsIn(c)}
  /\ list.names \in {{}, PoolsIn(c)}

\* The edit has reached pools.yaml.
Through == yaml = PoolsIn(cm) /\ (pc # "idle" => config = cm)

\* The stored list and the running reconcile's copy of it.
Stored(c) ==
  /\ pc # "idle" => config \in {c, cm}
  /\ known \in {Unset, c, cm}
  /\ pc = "validate" => lKnown = known
  /\ pc \in {"write", "update", "deploy"} => lKnown = config
  /\ yaml # {} \/ ready => known # Unset

\* Once the new list is accepted, no removed pool has zones, and none gets any.
AcceptedClean(c) ==
  cm # c /\ (known = cm \/ (pc \in {"write", "update", "deploy"} /\ config = cm))
    => zones \subseteq PoolsIn(cm)

\* An answer of the list job names the removed pools that have zones.
Listed == list.names = {} \/ zones \ PoolsIn(cm) \subseteq list.names

\* c is the configuration before the last edit.
EditFrom(c) ==
  /\ changes = 0 => cm = c /\ Untouched(c)
  /\ zones \subseteq yaml /\ Listed
  /\ yaml \in {{}, PoolsIn(c)} \/ Through
  /\ Stored(c) /\ AcceptedClean(c)

EditInv == \E c \in Configs : EditFrom(c)

\* The last edit is done with: the stored list, the running reconcile and
\* pools.yaml are those of the ConfigMap, and what the list job has answered
\* names every pool that has zones.
EditSettled ==
  /\ known \in {Unset, cm} /\ (pc # "idle" => config = cm) /\ yaml \in {{}, PoolsIn(cm)}
  /\ list.names = {} \/ zones \subseteq list.names

\* Every edit but the first finds the one before it done with.
EditsApart == [][UserEditsPools => changes = 0 \/ EditSettled]_vars

LEMMA NotUnset == \A c \in Configs \cup {{}} : c # Unset
  BY ConstantsOK, OrderOK DEF Unset

\* The first edit always finds a settled state.
LEMMA FirstSettled ==
  ASSUME TypeInv, EditInv, changes = 0
  PROVE  EditSettled
  <1>1. PICK c \in Configs : EditFrom(c)
    BY DEF EditInv
  <1>2. cm = c /\ Untouched(cm) /\ Stored(cm)
    BY <1>1 DEF EditFrom
  <1>3. zones \subseteq yaml
    BY <1>1 DEF EditFrom
  <1> QED BY <1>2, <1>3 DEF EditSettled, Untouched, Stored

\* After an edit of a settled state, that state is the one edited from.
LEMMA EditAgain ==
  ASSUME TypeInv, EditInv, UserEditsPools, EditSettled
  PROVE  EditInv'
  <1> USE DEF parentVars, statusVars, bindVars
  <1>1. /\ changes' = changes + 1 /\ changes \in Nat /\ cm \in Configs /\ cm' # cm
        /\ cm' \in Configs
        /\ UNCHANGED <<zones, yaml, db, list, update, statusVars, parentVars>>
    BY DEF UserEditsPools, TypeInv, TypeOK
  <1>2. PICK c \in Configs : EditFrom(c)
    BY DEF EditInv
  <1>3. PICK o \in Configs : o = cm
    BY <1>1
  <1>4. Stored(o)' /\ AcceptedClean(o)'
    BY <1>1, <1>2, <1>3, NotUnset DEF EditSettled, EditFrom, Stored, AcceptedClean
  <1>5. (zones \subseteq yaml)' /\ Listed' /\ (yaml \in {{}, PoolsIn(o)})' /\ changes' # 0
    BY <1>1, <1>2, <1>3 DEF EditSettled, EditFrom, Listed
  <1>6. EditFrom(o)'
    BY <1>4, <1>5 DEF EditFrom
  <1> QED BY <1>6 DEF EditInv

LEMMA EditUser ==
  ASSUME TypeInv, NEW c \in Configs, EditFrom(c),
         NEW p \in Names, UserCreatesZone(p) \/ UserDeletesZones(p)
  PROVE  EditFrom(c)'
  <1> USE DEF EditFrom, Untouched, Through, Stored, AcceptedClean, parentVars, statusVars
  <1>1. /\ UNCHANGED <<cm, changes, yaml, db, list, update, statusVars, parentVars>>
        /\ zones' \subseteq zones \cup (yaml \cap PoolsIn(cm))
    BY DEF UserCreatesZone, UserDeletesZones
  <1>2. zones' \subseteq yaml' /\ AcceptedClean(c)' /\ Listed'
    BY <1>1 DEF Listed
  <1>3. (yaml \in {{}, PoolsIn(c)} \/ Through)' /\ Stored(c)'
    BY <1>1
  <1>4. changes' = 0 => cm' = c /\ Untouched(c)'
    BY <1>1
  <1> QED BY <1>2, <1>3, <1>4

\* Jobs and the bind9 controller change the database and the list job only.
LEMMA EditJobs ==
  ASSUME TypeInv, NEW c \in Configs, EditFrom(c),
         \/ Jobs \/ Bind9 \/ Bind9Fails \/ UNCHANGED vars
         \/ \E k \in Slots : PodsFollow(k)
  PROVE  EditFrom(c)'
  <1>1. UNCHANGED <<cm, changes, zones, yaml, statusVars, parentVars>>
    BY DEF Jobs, ListJobFinishes, ListJobExpires, UpdateJobFinishes, UpdateJobFails,
           CentralStarts, Bind9, Bind9Reads, Bind9Applies, Bind9CleansUp, Bind9Keys, Bind9Fails,
           PodsFollow, vars, worldVars, statusVars, parentVars
  <1>2. db' \in {db, db \cup update} /\ update' \in {update, {}}
    BY DEF Jobs, ListJobFinishes, ListJobExpires, UpdateJobFinishes, UpdateJobFails,
           CentralStarts, Bind9, Bind9Reads, Bind9Applies, Bind9CleansUp, Bind9Keys, Bind9Fails,
           PodsFollow, vars
  <1>3. list'.names \in {list.names, {}, db \cap yaml}
    <2>1. NoList.names = {} /\ ListStarted.names = list.names
      BY DEF NoList, ListStarted, TypeInv, TypeOK
    <2>2. list' \in {list, NoList, ListStarted, [state |-> "done", names |-> db \cap yaml]}
      BY DEF Jobs, ListJobFinishes, ListJobExpires, UpdateJobFinishes, UpdateJobFails,
             CentralStarts, Bind9, Bind9Reads, Bind9Applies, Bind9CleansUp, Bind9Keys,
             Bind9Fails, PodsFollow, vars
    <2> QED BY <2>1, <2>2
  <1>4. /\ changes' = 0 => cm' = c /\ Untouched(c)'
        /\ (yaml \in {{}, PoolsIn(c)} \/ Through)'
    BY <1>1, <1>2, <1>3 DEF EditFrom, Untouched, Through, parentVars
  <1>5. Stored(c)' /\ AcceptedClean(c)'
    BY <1>1 DEF EditFrom, Stored, AcceptedClean, parentVars, statusVars
  <1>6. Listed'
    BY <1>1, <1>3 DEF EditFrom, Listed, TypeInv, TypeOK
  <1> QED BY <1>1, <1>4, <1>5, <1>6 DEF EditFrom

\* validatePoolRemovals: an accepted configuration has every pool with zones.
LEMMA AcceptClean ==
  ASSUME TypeInv, NEW c \in Configs, EditFrom(c), pc = "validate", config = cm, cm # c,
         \/ Removed = {}
         \/ list.names # {} /\ Removed \cap list.names \cap zones = {}
  PROVE  zones \subseteq PoolsIn(cm)
  <1>1. CASE Through
    BY <1>1 DEF EditFrom, Through
  <1>2. CASE yaml \in {{}, PoolsIn(c)}
    <2>0. /\ lKnown = known /\ known \in {Unset, c, cm} /\ zones \subseteq yaml
          /\ Default \in PoolsIn(cm) /\ cm \in Configs
      BY PoolsFacts DEF EditFrom, Stored, TypeInv, TypeOK
    <2>1. CASE known = Unset
      BY <2>0, <2>1 DEF EditFrom, Stored
    <2>2. CASE known = cm
      BY <2>2 DEF EditFrom, AcceptedClean
    <2>3. CASE known = c
      <3>1. Removed = c \ cm
        BY <2>0, <2>3, NotUnset DEF Removed
      <3>2. CASE c \ cm = {}
        BY <1>2, <2>0, <3>2 DEF PoolsIn
      <3>3. CASE c \ cm # {}
        <4>1. zones \ PoolsIn(cm) \subseteq list.names /\ zones \subseteq c
          BY <1>2, <2>0, <3>1, <3>3 DEF EditFrom, Listed, PoolsIn
        <4>2. cm \subseteq PoolsIn(cm)
          BY <2>0, PoolsFacts
        <4> QED BY <3>1, <3>3, <4>1, <4>2
      <3> QED BY <3>2, <3>3
    <2> QED BY <2>0, <2>1, <2>2, <2>3
  <1> QED BY <1>1, <1>2 DEF EditFrom

\* The end of a reconcile, whose status is stored or lost.
LEMMA EditEnds ==
  ASSUME TypeInv, NEW c \in Configs, EditFrom(c), pc # "idle",
         \/ ParentEnds /\ (ready' = ready \/ pc = "deploy")
         \/ ParentReset /\ UNCHANGED statusVars,
         UNCHANGED <<cm, changes, zones, yaml, db, update>>,
         list'.names = list.names
  PROVE  EditFrom(c)'
  <1>1. /\ changes' = 0 => cm' = c /\ Untouched(c)'
        /\ (yaml \in {{}, PoolsIn(c)} \/ Through)' /\ Listed'
    BY DEF EditFrom, Untouched, Through, Listed, ParentEnds, ParentReset
  <1>2. pc' = "idle" /\ known' \in {known, lKnown}
    BY DEF ParentEnds, ParentReset, statusVars
  <1>3. known' = known \/ (pc \in {"write", "update", "deploy"} /\ known' = config)
    BY <1>2 DEF EditFrom, Stored, TypeInv, TypeOK
  <1>4. known' \in {Unset, c, cm}
    BY <1>3 DEF EditFrom, Stored
  <1>5. AcceptedClean(c)'
    BY <1>2, <1>3 DEF EditFrom, AcceptedClean
  <1>6. yaml' # {} \/ ready' => known' # Unset
    <2>1. config # Unset
      BY NotUnset DEF TypeInv, TypeOK
    <2>2. CASE known' = known /\ ready' = ready
      BY <2>2 DEF EditFrom, Stored
    <2>3. CASE pc \in {"write", "update", "deploy"} /\ known' = config
      BY <2>1, <2>3
    <2>4. pc = "deploy" /\ ParentEnds => known' = config
      BY DEF EditFrom, Stored, ParentEnds
    <2> QED BY <1>3, <2>1, <2>2, <2>3, <2>4 DEF statusVars
  <1> QED BY <1>1, <1>2, <1>4, <1>5, <1>6 DEF EditFrom, Stored

LEMMA EditParent ==
  ASSUME TypeInv, NEW c \in Configs, EditFrom(c), Parent \/ ParentFails
  PROVE  EditFrom(c)' /\ yaml \cap zones \subseteq yaml'
  <1> USE DEF worldVars, statusVars
  <1>1. CASE ParentReads
    <2>1. /\ UNCHANGED <<worldVars, yaml, db, list, update, statusVars>>
          /\ pc' = "validate" /\ config' = cm /\ lKnown' = known
      BY <1>1 DEF ParentReads
    <2>2. /\ changes' = 0 => cm' = c /\ Untouched(c)'
          /\ (yaml \in {{}, PoolsIn(c)} \/ Through)' /\ Listed'
      BY <2>1 DEF EditFrom, Untouched, Through, Listed
    <2>3. Stored(c)' /\ AcceptedClean(c)'
      BY <2>1 DEF EditFrom, Stored, AcceptedClean
    <2> QED BY <2>1, <2>2, <2>3 DEF EditFrom
  <1>2. CASE ParentValidates
    <2>1. UNCHANGED <<worldVars, yaml, db, update>> /\ pc = "validate"
      BY <1>2 DEF ParentValidates
    <2>2. CASE ParentEnds
      <3>1. ListStarted.names = list.names
        BY DEF ListStarted, TypeInv, TypeOK
      <3>2. list'.names = list.names /\ ready' = ready
        BY <1>2, <3>1 DEF ParentValidates, ParentAccepts
      <3> QED BY <2>1, <2>2, <3>2, EditEnds
    <2>3. CASE /\ ParentAccepts
               /\ \/ Removed = {}
                  \/ list.names # {} /\ Removed \cap list.names \cap zones = {}
      <3>1. /\ pc' = "write" /\ lKnown' = config /\ UNCHANGED <<config, list, statusVars>>
        BY <2>3 DEF ParentAccepts
      <3>2. /\ changes' = 0 => cm' = c /\ Untouched(c)'
            /\ (yaml \in {{}, PoolsIn(c)} \/ Through)' /\ Listed'
        BY <2>1, <3>1 DEF EditFrom, Untouched, Through, Listed
      <3>3. Stored(c)'
        BY <2>1, <3>1 DEF EditFrom, Stored
      <3>4. AcceptedClean(c)'
        BY <2>1, <2>3, <3>1, AcceptClean DEF EditFrom, AcceptedClean
      <3> QED BY <2>1, <3>2, <3>3, <3>4 DEF EditFrom
    <2> QED BY <1>2, <2>1, <2>2, <2>3 DEF ParentValidates
  <1>3. CASE ParentWritesYaml
    <2>1. /\ UNCHANGED <<worldVars, db, list, update, statusVars, config, lKnown>>
          /\ pc = "write" /\ pc' \in {"update", "deploy"}
      BY <1>3 DEF ParentWritesYaml
    <2>2. yaml' = yaml \/ (ready /\ yaml' = PoolsIn(config))
      BY <1>3 DEF ParentWritesYaml
    <2>3. config \in {c, cm} /\ zones \subseteq yaml
      BY <2>1 DEF EditFrom, Stored
    <2>4. zones \subseteq yaml' /\ (yaml \in {{}, PoolsIn(c)} \/ Through)'
      <3>1. CASE yaml' = yaml
        BY <2>1, <2>3, <3>1 DEF EditFrom, Through
      <3>2. CASE yaml' = PoolsIn(config) /\ Through
        BY <2>1, <2>3, <3>2 DEF Through
      <3>3. CASE yaml' = PoolsIn(config) /\ yaml \in {{}, PoolsIn(c)} /\ config = c
        BY <2>1, <2>3, <3>3
      <3>4. CASE yaml' = PoolsIn(config) /\ config = cm /\ cm # c
        <4>1. zones \subseteq PoolsIn(cm)
          BY <2>1, <3>4 DEF EditFrom, AcceptedClean
        <4> QED BY <2>1, <3>4, <4>1 DEF Through
      <3> QED BY <2>2, <2>3, <3>1, <3>2, <3>3, <3>4 DEF EditFrom
    <2>5. Stored(c)'
      BY <2>1, <2>2 DEF EditFrom, Stored
    <2>6. AcceptedClean(c)' /\ Listed'
      BY <2>1 DEF EditFrom, AcceptedClean, Listed
    <2>7. changes' = 0 => cm' = c /\ Untouched(c)'
      BY <2>1, <2>2, <2>3 DEF EditFrom, Untouched
    <2> QED BY <2>1, <2>4, <2>5, <2>6, <2>7 DEF EditFrom
  <1>4. CASE ParentUpdates
    <2>1. /\ UNCHANGED <<worldVars, yaml, db, list, statusVars, config, lKnown>>
          /\ pc = "update" /\ pc' = "deploy" /\ update' \in {update, update \cup yaml}
      BY <1>4 DEF ParentUpdates
    <2>2. /\ changes' = 0 => cm' = c /\ Untouched(c)'
          /\ (yaml \in {{}, PoolsIn(c)} \/ Through)' /\ Listed'
      BY <2>1 DEF EditFrom, Untouched, Through, Listed
    <2>3. Stored(c)' /\ AcceptedClean(c)'
      BY <2>1 DEF EditFrom, Stored, AcceptedClean
    <2> QED BY <2>1, <2>2, <2>3 DEF EditFrom
  <1>5. CASE ParentDeploys
    <2>1. /\ UNCHANGED <<worldVars, yaml, db, list, update>> /\ pc = "deploy" /\ ParentEnds
      BY <1>5 DEF ParentDeploys
    <2> QED BY <2>1, EditEnds
  <1>6. CASE ParentFails
    <2>1. /\ UNCHANGED <<worldVars, yaml, db, list, update>> /\ pc # "idle"
          /\ \/ ParentEnds /\ ready' = ready
             \/ ParentReset /\ UNCHANGED statusVars
      BY <1>6 DEF ParentFails
    <2> QED BY <2>1, EditEnds
  <1> QED BY <1>1, <1>2, <1>3, <1>4, <1>5, <1>6 DEF Parent

LEMMA EditStep ==
  ASSUME TypeInv, EditInv, [Next]_vars, UserEditsPools => changes = 0 \/ EditSettled
  PROVE  EditInv' /\ yaml \cap zones \subseteq yaml'
  <1>1. PICK c \in Configs : EditFrom(c)
    BY DEF EditInv
  <1>2. CASE Parent \/ ParentFails
    BY <1>1, <1>2, EditParent DEF EditInv
  <1>3. CASE User
    <2>1. yaml' = yaml
      BY <1>3 DEF User, UserEditsPools, UserCreatesZone, UserDeletesZones
    <2>2. CASE UserEditsPools
      BY <2>1, <2>2, FirstSettled, EditAgain
    <2> QED BY <1>1, <1>3, <2>1, <2>2, EditUser DEF EditInv, User
  <1>4. CASE \/ Jobs \/ Bind9 \/ Bind9Fails \/ UNCHANGED vars
             \/ \E k \in Slots : PodsFollow(k)
    <2>1. yaml' = yaml
      BY <1>4 DEF Jobs, ListJobFinishes, ListJobExpires, UpdateJobFinishes, UpdateJobFails,
           CentralStarts, Bind9, Bind9Reads, Bind9Applies, Bind9CleansUp, Bind9Keys, Bind9Fails,
           PodsFollow, vars
    <2> QED BY <1>1, <1>4, <2>1, EditJobs DEF EditInv
  <1> QED BY <1>2, <1>3, <1>4 DEF Next

LEMMA EditInit == Init => EditInv
  <1> SUFFICES ASSUME Init PROVE EditFrom(cm)
    BY DEF Init, EditInv
  <1>1. list.names = {}
    BY DEF Init, NoList
  <1> QED BY <1>1 DEF Init, EditFrom, Untouched, Listed, Stored, AcceptedClean

\* A pool that has zones stays in pools.yaml however often the pools are edited,
\* whichever pools are added and removed, even before the first pools.yaml, and
\* whatever fails, when every edit but the first finds the one before it done
\* with: an answer of the list job that is older than the edit, or a lost status,
\* cannot let the removal of a pool with zones pass.
THEOREM ZonedPoolsKept == Spec /\ EditsApart => YamlKeepsZonedPools
  <1>1. /\ TypeInv /\ EditInv /\ [Next]_vars
        /\ [UserEditsPools => changes = 0 \/ EditSettled]_vars
        => EditInv' /\ [yaml \cap zones \subseteq yaml']_vars
    <2>1. ASSUME UNCHANGED vars PROVE ~UserEditsPools
      BY <2>1 DEF vars, worldVars, UserEditsPools
    <2> QED BY <2>1, EditStep
  <1> QED BY <1>1, EditInit, TypeInvariance, PTL DEF Spec, EditsApart, YamlKeepsZonedPools

----------------------------------------------------------------------------
(* Pools that stay configured stay served                                   *)

\* No pool sorts before the default one.
DefaultFirst == \A p \in Names : ~Before(p, Default)

Up(k) == sts[k].size = "up"

\* The default pool has the first position, and no other.
DefaultAtZero ==
  /\ sts[0].pool = Default
  /\ \A k \in Slots : k > 0 /\ Up(k) => sts[k].pool # Default

\* What the bind9 controller works with.
BindReads(c) ==
  /\ bpc # "idle" => bconfig \in {c, cm}
  /\ bpc \in {"apply", "keys"} => bconfig # {}

\* The positions the loop has been through have the StatefulSets of their pools.
AppliedFirst ==
  \A k \in Slots : k < bidx => Up(k) /\ sts[k].pool = PoolAt(PoolsIn(bconfig), k)

\* The loop has been through all of them before the cleanup.
LoopDone == bpc = "cleanup" /\ bconfig # {} => bidx = Cardinality(PoolsIn(bconfig))

\* No StatefulSet serves a pool that is not in the configuration c.
ServesOnly(c) == \A k \in Slots : Up(k) => sts[k].pool \in PoolsIn(c)

\* A pool that is new with the edit is only served by a reconcile that read it.
OldOnly(c) == changes = 0 \/ (bpc # "idle" /\ bconfig # cm) => ServesOnly(c)

\* c is the configuration before the last edit.
ServedFrom(c) ==
  /\ changes = 0 => cm = c
  /\ DefaultAtZero /\ BindReads(c) /\ AppliedFirst /\ LoopDone /\ OldOnly(c)

ServedInv == \E c \in Configs : ServedFrom(c)

\* The bind9 controller has no reconcile running, or one that has read the
\* ConfigMap as it is while only pools of the ConfigMap are served.
BindSettled == bpc # "idle" => bconfig = cm /\ ServesOnly(cm)

\* Every edit but the first comes between the reconciles of the bind9
\* controller or after it has retired the pools that were removed.
BindEditsApart == [][UserEditsPools => changes = 0 \/ BindSettled]_vars

LEMMA DefaultPosition ==
  ASSUME DefaultFirst, NEW c \in Configs \cup {{}}
  PROVE  /\ PoolAt(PoolsIn(c), 0) = Default
         /\ \A k \in Slots : 0 < k /\ k < Cardinality(PoolsIn(c)) => PoolAt(PoolsIn(c), k) # Default
  <1>1. Position(PoolsIn(c), Default) = 0
    <2>1. {q \in PoolsIn(c) : Before(q, Default)} = {}
      BY PoolsFacts DEF DefaultFirst
    <2> QED BY <2>1, FS_EmptySet DEF Position
  <1>2. PoolAt(PoolsIn(c), 0) = Default
    BY <1>1, PoolsFacts, PoolPositions
  <1>3. ASSUME NEW k \in Slots, 0 < k, k < Cardinality(PoolsIn(c))
        PROVE  PoolAt(PoolsIn(c), k) # Default
    <2>1. Cardinality(PoolsIn(c)) \in Nat
      BY PoolsFacts
    <2>2. k \in 0 .. Cardinality(PoolsIn(c)) - 1 /\ k # 0
      BY <1>3, <2>1, SlotFacts
    <2>3. Position(PoolsIn(c), PoolAt(PoolsIn(c), k)) = k
      BY <2>2, PoolPositions
    <2> QED BY <1>1, <2>2, <2>3
  <1> QED BY <1>2, <1>3

\* No reconcile of the bind9 controller.
Stopped == bpc = "idle" /\ bidx = 0

\* Steps that leave size and pool of every StatefulSet alone.
LEMMA ServedSame ==
  ASSUME TypeInv, NEW c \in Configs, ServedFrom(c),
         sts' \in [Slots -> StsType],
         \A k \in Slots : sts'[k].size = sts[k].size /\ sts'[k].pool = sts[k].pool,
         UNCHANGED <<cm, changes>>,
         UNCHANGED <<bpc, bconfig, bidx>> \/ Stopped' \/ Bind9Reads
  PROVE  ServedFrom(c)' /\ \A p : Served(p)' = Served(p)
  <1>1. \A p : Served(p)' = Served(p)
    BY DEF Served
  <1>2. DefaultAtZero'
    BY SlotFacts DEF ServedFrom, DefaultAtZero, Up
  <1>3. \A k \in Slots : ~(k < 0)
    BY SlotFacts
  <1>4. CASE UNCHANGED <<cm, changes, bpc, bconfig, bidx>>
    <2>1. BindReads(c)' /\ AppliedFirst' /\ LoopDone'
      BY <1>4 DEF ServedFrom, BindReads, AppliedFirst, LoopDone, Up
    <2>2. OldOnly(c)'
      BY <1>4 DEF ServedFrom, OldOnly, ServesOnly, Up
    <2> QED BY <1>1, <1>2, <1>4, <2>1, <2>2 DEF ServedFrom
  <1>5. CASE UNCHANGED <<cm, changes>> /\ Stopped'
    <2>1. bpc' = "idle" /\ bidx' = 0
      BY <1>5 DEF Stopped
    <2>2. AppliedFirst' /\ LoopDone'
      BY <1>3, <2>1 DEF AppliedFirst, LoopDone
    <2> QED BY <1>1, <1>2, <1>5, <2>1, <2>2 DEF ServedFrom, BindReads, OldOnly, ServesOnly, Up
  <1>6. CASE UNCHANGED <<cm, changes>> /\ Bind9Reads
    <2>1. /\ bconfig' = cm /\ cm' = cm /\ changes' = changes
          /\ bidx' = 0 /\ bpc' = IF cm = {} THEN "cleanup" ELSE "apply"
      BY <1>6 DEF Bind9Reads
    <2>2. BindReads(c)' /\ AppliedFirst' /\ LoopDone'
      BY <1>3, <2>1 DEF BindReads, AppliedFirst, LoopDone
    <2>3. OldOnly(c)'
      BY <2>1 DEF ServedFrom, OldOnly, ServesOnly, Up
    <2> QED BY <1>1, <1>2, <2>1, <2>2, <2>3 DEF ServedFrom
  <1> QED BY <1>4, <1>5, <1>6

\* After an edit of a settled state, that state is the one edited from.
LEMMA ServedAgain ==
  ASSUME TypeInv, ServedInv, UserEditsPools, changes = 0 \/ BindSettled
  PROVE  ServedInv' /\ \A p : Served(p)' = Served(p)
  <1>1. PICK c \in Configs : ServedFrom(c)
    BY DEF ServedInv
  <1>2. /\ changes' = changes + 1 /\ changes \in Nat /\ cm \in Configs
        /\ UNCHANGED <<bpc, bconfig, bidx, sts>>
    BY DEF UserEditsPools, bindVars, TypeInv, TypeOK
  <1>3. bpc # "idle" => bconfig = cm /\ ServesOnly(cm)
    BY <1>1 DEF ServedFrom, BindReads, OldOnly, BindSettled
  <1>4. PICK o \in Configs : o = cm
    BY <1>2
  <1>5. BindReads(o)' /\ AppliedFirst' /\ LoopDone' /\ DefaultAtZero'
    BY <1>1, <1>2, <1>3, <1>4
       DEF ServedFrom, BindReads, AppliedFirst, LoopDone, DefaultAtZero, Up
  <1>6. OldOnly(o)' /\ changes' # 0
    BY <1>2, <1>3, <1>4 DEF OldOnly, ServesOnly, Up
  <1>7. ServedFrom(o)'
    BY <1>5, <1>6 DEF ServedFrom
  <1> QED BY <1>2, <1>7 DEF ServedInv, Served

\* The loop gives position bidx to its pool: the pool that had it has a lower
\* position by now, keeps a later one, or is pushed back.
LEMMA ServedApply ==
  ASSUME DefaultFirst, TypeInv, NEW c \in Configs, ServedFrom(c), Bind9Applies
  PROVE  ServedFrom(c)' /\ \A p \in PoolsIn(cm) : Served(p) => Served(p)' \/ PushedBack(p)
  <1> DEFINE b == bconfig
             n == Cardinality(PoolsIn(b))
             q == PoolAt(PoolsIn(b), bidx)
  <1>0. /\ UNCHANGED <<cm, changes, bconfig>> /\ bpc = "apply" /\ sts' = Applied(bidx)
        /\ bidx' = bidx + 1 /\ bpc' = IF bidx' < n THEN "apply" ELSE "cleanup"
        /\ sts \in [Slots -> StsType] /\ b \in Configs \cup {{}}
        /\ b \in {c, cm} /\ b # {} /\ bidx \in 0 .. n /\ bidx < n
    BY DEF Bind9Applies, TypeInv, TypeOK, StsType, worldVars, ServedFrom, BindReads
  <1>1. n \in Nat /\ bidx \in Nat
    BY <1>0, PoolsFacts
  <1>2. /\ bidx \in Slots /\ \A j \in Slots : j # bidx => sts'[j] = sts[j]
        /\ sts'[bidx].size = "up" /\ sts'[bidx].pool = q /\ q \in PoolsIn(b) /\ Position(PoolsIn(b), q) = bidx
    <2>1. /\ bidx \in Slots
          /\ \A j \in Slots : j # bidx => Applied(bidx)[j] = sts[j]
          /\ Applied(bidx)[bidx].size = "up" /\ Applied(bidx)[bidx].pool = q
          /\ q \in PoolsIn(b) /\ Position(PoolsIn(b), q) = bidx
      BY <1>0, <1>1, AppliedFacts
    <2>2. \A j \in Slots : sts'[j] = Applied(bidx)[j]
      BY <1>0
    <2>3. sts'[bidx].size = "up" /\ sts'[bidx].pool = q
      BY <2>1, <2>2
    <2> QED BY <1>0, <2>1, <2>2, <2>3 DEF Up
  <1> HIDE DEF n, q
  <1>3. DefaultAtZero'
    <2>1. CASE bidx = 0
      <3>1. q = Default
        BY <1>0, <2>1, DefaultPosition DEF q
      <3> QED BY <1>2, <2>1, <3>1, SlotFacts DEF ServedFrom, DefaultAtZero, Up
    <2>2. CASE bidx # 0
      <3>1. q # Default
        BY <1>0, <1>1, <1>2, <2>2, DefaultPosition DEF q, n
      <3> QED BY <1>2, <2>2, <3>1, SlotFacts DEF ServedFrom, DefaultAtZero, Up
    <2> QED BY <2>1, <2>2
  <1>4. AppliedFirst'
    <2> SUFFICES ASSUME NEW k \in Slots, k < bidx + 1
                 PROVE  Up(k)' /\ sts'[k].pool = PoolAt(PoolsIn(b), k)
      BY <1>0 DEF AppliedFirst
    <2>1. CASE k = bidx
      BY <1>2, <2>1 DEF Up, q
    <2>2. CASE k # bidx
      <3>1. k < bidx
        BY <1>1, <2>2, SlotFacts
      <3> QED BY <1>2, <2>2, <3>1 DEF ServedFrom, AppliedFirst, Up
    <2> QED BY <2>1, <2>2
  <1>5. LoopDone' /\ BindReads(c)'
    <2>1. bpc' = "cleanup" => bidx' = n
      BY <1>0, <1>1
    <2> QED BY <1>0, <2>1 DEF LoopDone, BindReads, n
  <1>6. OldOnly(c)'
    <2> SUFFICES ASSUME changes = 0 \/ b # cm, NEW k \in Slots, Up(k)'
                 PROVE  sts'[k].pool \in PoolsIn(c)
      BY <1>0 DEF OldOnly, ServesOnly
    <2>1. b = c
      BY <1>0 DEF ServedFrom
    <2>2. CASE k = bidx
      BY <1>2, <2>1, <2>2
    <2>3. CASE k # bidx
      BY <1>0, <1>2, <2>3 DEF ServedFrom, OldOnly, ServesOnly, Up
    <2> QED BY <2>2, <2>3
  <1>7. ASSUME NEW p \in PoolsIn(cm), Served(p), ~PushedBack(p) PROVE Served(p)'
    <2>1. p \in PoolsIn(b)
      BY <1>0, <1>7 DEF Served, ServedFrom, OldOnly, ServesOnly, Up
    <2> DEFINE pos == Position(PoolsIn(b), p)
    <2>2. pos \in Nat /\ pos < n /\ pos \in Slots /\ PoolAt(PoolsIn(b), pos) = p
      <3>1. pos \in 0 .. n - 1 /\ PoolAt(PoolsIn(b), pos) = p
        BY <1>0, <2>1, PoolPositions DEF n
      <3>2. n <= Cardinality(Names)
        BY <1>0, PoolsFacts DEF n
      <3> QED BY <1>1, <3>1, <3>2, NamesFinite DEF Slots
    <2> HIDE DEF pos
    <2>3. CASE pos < bidx
      BY <1>1, <1>2, <2>2, <2>3 DEF ServedFrom, AppliedFirst, Served, Up
    <2>4. CASE pos = bidx
      BY <1>2, <2>2, <2>4 DEF Served, Up, q
    <2>5. CASE bidx < pos
      <3>1. PICK j \in Slots : Up(j) /\ sts[j].pool = p /\ ~(j < pos)
        BY <1>0, <1>7 DEF PushedBack, Up, pos
      <3>2. j # bidx
        BY <1>1, <2>2, <2>5, <3>1, SlotFacts
      <3> QED BY <1>2, <3>1, <3>2 DEF Served, Up
    <2> QED BY <1>1, <2>2, <2>3, <2>4, <2>5
  <1> QED BY <1>0, <1>3, <1>4, <1>5, <1>6, <1>7 DEF ServedFrom

\* An orphan that is scaled down serves no configured pool of its own.
LEMMA ServedCleanup ==
  ASSUME DefaultFirst, TypeInv, NEW c \in Configs, ServedFrom(c), Bind9CleansUp
  PROVE  ServedFrom(c)' /\ \A p \in PoolsIn(cm) : Served(p) => Served(p)'
  <1> DEFINE b == bconfig
             n == Cardinality(PoolsIn(b))
  <1>0. /\ UNCHANGED <<cm, changes, bconfig>> /\ bpc = "cleanup" /\ bpc' \in {"idle", "keys"}
        /\ bpc' = "keys" => b # {}
        /\ bidx' = bidx /\ bidx \in 0 .. n
        /\ sts \in [Slots -> StsType] /\ b \in Configs \cup {{}} /\ b \in {c, cm}
    BY DEF Bind9CleansUp, TypeInv, TypeOK, StsType, worldVars, ServedFrom, BindReads
  <1>1. n \in Nat \ {0} /\ (b = {} => PoolsIn(b) = {Default})
    BY <1>0, PoolsFacts DEF PoolsIn
  \* The pool of a StatefulSet that is up is configured, or was when b was read.
  <1>2. \A k \in Slots : Up(k) /\ sts[k].pool \in PoolsIn(cm) => sts[k].pool \in PoolsIn(b)
    BY <1>0 DEF ServedFrom, OldOnly, ServesOnly
  <1>3. LoopDone' /\ BindReads(c)'
    BY <1>0 DEF LoopDone, BindReads
  <1>4. CASE Orphans(b) = {} /\ b # {} /\ sts' = sts
    <2>1. DefaultAtZero' /\ OldOnly(c)' /\ AppliedFirst'
      BY <1>0, <1>4 DEF ServedFrom, DefaultAtZero, AppliedFirst, OldOnly, ServesOnly, Up
    <2>2. \A p : Served(p) => Served(p)'
      BY <1>4 DEF Served
    <2> QED BY <1>0, <1>3, <2>1, <2>2 DEF ServedFrom
  <1>5. CASE Orphans(b) = {} /\ b = {} /\ sts' = Applied(0)
    <2>1. n = 1
      BY <1>1, <1>5, FS_Singleton
    <2>2. /\ \A k \in Slots : k # 0 => sts'[k] = sts[k] /\ ~Up(k)
          /\ Up(0)' /\ sts'[0].pool = Default
      <3>1. /\ \A k \in Slots : k # 0 => Applied(0)[k] = sts[k]
            /\ Applied(0)[0].size = "up" /\ Applied(0)[0].pool = PoolAt(PoolsIn(b), 0)
            /\ PoolAt(PoolsIn(b), 0) \in PoolsIn(b)
        <4>1. 0 \in Nat /\ 0 < Cardinality(PoolsIn(bconfig))
          BY <2>1
        <4> QED BY <1>0, <4>1, AppliedFacts
      <3>2. PoolAt(PoolsIn(b), 0) = Default
        BY <1>1, <1>5, <3>1
      <3>3. \A k \in Slots : k # 0 => sts'[k] = sts[k]
        BY <1>5, <3>1
      <3>4. Up(0)' /\ sts'[0].pool = Default
        BY <1>5, <3>1, <3>2 DEF Up
      <3>5. \A k \in Slots : k # 0 => ~Up(k)
        BY <1>5, <2>1, SlotFacts DEF Orphans, Up
      <3> QED BY <3>3, <3>4, <3>5
    <2>3. \A p : Served(p) => Served(p)'
      BY <2>2, SlotFacts DEF Served, Up, ServedFrom, DefaultAtZero
    <2>4. DefaultAtZero'
      BY <2>2, SlotFacts DEF ServedFrom, DefaultAtZero, Up
    <2>5. OldOnly(c)'
      <3>1. Default \in PoolsIn(c)
        BY PoolsFacts
      <3> QED BY <2>2, <3>1 DEF OldOnly, ServesOnly, Up
    <2>6. AppliedFirst'
      <3> SUFFICES ASSUME NEW k \in Slots, k < bidx
                   PROVE  Up(k)' /\ sts'[k].pool = PoolAt(PoolsIn(b), k)
        BY <1>0 DEF AppliedFirst
      <3>1. k = 0
        <4> HIDE DEF n
        <4> QED BY <1>0, <2>1, SlotFacts
      <3>2. Default = PoolAt(PoolsIn(b), 0)
        BY <1>0, DefaultPosition
      <3> QED BY <2>2, <3>1, <3>2
    <2> QED BY <1>0, <1>3, <2>3, <2>4, <2>5, <2>6 DEF ServedFrom
  <1>6. ASSUME NEW k \in Orphans(b),
               sts' = sts \/ sts' = [sts EXCEPT ![k] = Retired(@)]
        PROVE  ServedFrom(c)' /\ \A p \in PoolsIn(cm) : Served(p) => Served(p)'
    <2>0. k \in Slots /\ k >= n /\ k # 0
      BY <1>1, <1>6, SlotFacts DEF Orphans
    <2>1. Retired(sts[k]).size # "up"
      BY <1>0, <2>0 DEF Retired, None, StsType
    <2>2. /\ \A j \in Slots : j # k => sts'[j] = sts[j]
          /\ Up(k)' => sts'[k] = sts[k]
      BY <1>0, <1>6, <2>0, <2>1 DEF Up
    <2>3. \A j \in Slots : Up(j)' => sts'[j] = sts[j] /\ Up(j)
      BY <2>2 DEF Up
    <2>4. DefaultAtZero'
      <3>1. sts'[0] = sts[0]
        BY <2>0, <2>2, SlotFacts
      <3> QED BY <2>3, <3>1 DEF ServedFrom, DefaultAtZero
    <2>5. OldOnly(c)'
      BY <1>0, <2>3 DEF ServedFrom, OldOnly, ServesOnly
    <2>6. ASSUME NEW p \in PoolsIn(cm), Served(p) PROVE Served(p)'
      <3>1. PICK j \in Slots : Up(j) /\ sts[j].pool = p
        BY <2>6 DEF Served, Up
      <3>2. CASE j # k
        BY <2>2, <3>1, <3>2 DEF Served, Up
      <3>3. CASE j = k
        <4>1. p \in PoolsIn(b)
          BY <1>2, <3>1
        <4>2. b # {}
          BY <1>1, <2>0, <3>1, <3>3, <4>1, SlotFacts DEF ServedFrom, DefaultAtZero
        <4> DEFINE pos == Position(PoolsIn(b), p)
        <4>3. pos \in 0 .. n - 1 /\ PoolAt(PoolsIn(b), pos) = p
          BY <1>0, <4>1, PoolPositions
        <4>4. pos \in Slots /\ pos < n /\ pos # k
          <5> HIDE DEF n
          <5>1. n \in Nat /\ k \in Nat /\ k >= n
            BY <1>1, <2>0, SlotFacts
          <5>2. pos \in Nat /\ pos < n
            BY <4>3, <5>1
          <5> QED BY <2>0, <5>1, <5>2, NamesFinite DEF Slots
        <4>5. Up(pos) /\ sts[pos].pool = p
          <5>1. bidx = n
            BY <1>0, <4>2 DEF ServedFrom, LoopDone
          <5> HIDE DEF n
          <5> QED BY <1>0, <4>3, <4>4, <5>1 DEF ServedFrom, AppliedFirst
        <4> QED BY <2>2, <4>4, <4>5 DEF Served, Up
      <3> QED BY <3>2, <3>3
    <2>7. AppliedFirst'
      <3> SUFFICES ASSUME NEW j \in Slots, j < bidx
                   PROVE  Up(j)' /\ sts'[j].pool = PoolAt(PoolsIn(b), j)
        BY <1>0 DEF AppliedFirst
      <3>1. j # k
        <4> HIDE DEF n
        <4> QED BY <1>0, <1>1, <2>0, SlotFacts
      <3> QED BY <2>2, <3>1 DEF ServedFrom, AppliedFirst, Up
    <2> QED BY <1>0, <1>3, <2>4, <2>5, <2>6, <2>7 DEF ServedFrom
  <1> QED BY <1>4, <1>5, <1>6 DEF Bind9CleansUp

LEMMA ServedStep ==
  ASSUME DefaultFirst, TypeInv, ServedInv, [Next]_vars,
         UserEditsPools => changes = 0 \/ BindSettled
  PROVE  ServedInv' /\ \A p \in PoolsIn(cm) \cap PoolsIn(cm)' :
                         Served(p) => Served(p)' \/ PushedBack(p)
  <1>1. PICK c \in Configs : ServedFrom(c)
    BY DEF ServedInv
  <1>0. sts \in [Slots -> StsType]
    BY DEF TypeInv, TypeOK, StsType
  <1>2. CASE Bind9Applies
    BY <1>1, <1>2, ServedApply DEF ServedInv
  <1>3. CASE Bind9CleansUp
    BY <1>1, <1>3, ServedCleanup DEF ServedInv
  <1>4. CASE /\ sts' \in [Slots -> StsType]
             /\ \A k \in Slots : sts'[k].size = sts[k].size /\ sts'[k].pool = sts[k].pool
             /\ UNCHANGED <<cm, changes>>
             /\ UNCHANGED <<bpc, bconfig, bidx>> \/ Stopped' \/ Bind9Reads
    BY <1>1, <1>4, ServedSame DEF ServedInv
  <1> USE DEF worldVars, bindVars
  <1>5. CASE User
    <2>1. CASE UserEditsPools
      BY <2>1, ServedAgain
    <2> QED BY <1>0, <1>4, <1>5, <2>1 DEF User, UserCreatesZone, UserDeletesZones
  <1>6. CASE Jobs \/ UNCHANGED vars
    <2>1. UNCHANGED <<cm, changes, bpc, bconfig, bidx, sts>>
      BY <1>6 DEF Jobs, ListJobFinishes, ListJobExpires, UpdateJobFinishes, UpdateJobFails,
                  CentralStarts, vars
    <2> QED BY <1>0, <1>4, <2>1
  <1>7. CASE Parent \/ ParentFails
    <2>1. UNCHANGED <<cm, changes, bpc, bconfig, bidx, sts>>
      BY <1>7 DEF Parent, ParentReads, ParentValidates, ParentWritesYaml, ParentUpdates,
                  ParentDeploys, ParentFails
    <2> QED BY <1>0, <1>4, <2>1
  <1>8. CASE Bind9Reads \/ Bind9Keys \/ Bind9Fails
    <2>1. /\ UNCHANGED <<cm, changes, sts>>
          /\ Stopped' \/ Bind9Reads
      BY <1>8 DEF Bind9Reads, Bind9Keys, Bind9Fails, Bind9Reset, Stopped
    <2> QED BY <1>0, <1>4, <2>1
  <1>9. ASSUME NEW k \in Slots, PodsFollow(k)
        PROVE  ServedInv' /\ \A p \in PoolsIn(cm) \cap PoolsIn(cm)' :
                         Served(p) => Served(p)' \/ PushedBack(p)
    <2>1. UNCHANGED <<cm, changes, bpc, bconfig, bidx>>
      BY <1>9 DEF PodsFollow
    <2> DEFINE up == (sts[k].size = "up")
    <2>2. up \in BOOLEAN /\ sts' = [sts EXCEPT ![k].pods = up]
      BY <1>9 DEF PodsFollow
    <2> HIDE DEF up
    <2>3. /\ [sts[k] EXCEPT !.pods = up] \in StsType
          /\ [sts[k] EXCEPT !.pods = up].size = sts[k].size
          /\ [sts[k] EXCEPT !.pods = up].pool = sts[k].pool
      BY <1>0, <2>2 DEF StsType
    <2>4. sts' \in [Slots -> StsType]
      BY <1>0, <2>2, <2>3
    <2>5. \A j \in Slots : sts'[j].size = sts[j].size /\ sts'[j].pool = sts[j].pool
      BY <1>0, <2>2, <2>3
    <2> QED BY <1>4, <2>1, <2>4, <2>5
  <1> QED BY <1>2, <1>3, <1>5, <1>6, <1>7, <1>8, <1>9 DEF Next, Bind9

LEMMA ServedInit == Init => ServedInv
  <1> SUFFICES ASSUME Init PROVE ServedFrom(cm)
    BY DEF Init, ServedInv
  <1>1. \A k \in Slots : sts[k] = None
    BY DEF Init
  <1>2. None.size # "up" /\ None.pool = Default
    BY DEF None
  <1> QED BY <1>1, <1>2, SlotFacts
          DEF Init, ServedFrom, DefaultAtZero, BindReads, AppliedFirst, LoopDone, OldOnly,
              ServesOnly, Up

\* When no pool sorts before the default one and edits are apart for the bind9
\* controller, a pool that stays configured keeps a StatefulSet, whichever step
\* of the loop or of the cleanup fails, unless the loop pushes it back to make
\* room for a pool added before it.
THEOREM KeptServed == DefaultFirst /\ Spec /\ BindEditsApart => KeptPoolsServed
  <1> SUFFICES ASSUME DefaultFirst PROVE Spec /\ BindEditsApart => KeptPoolsServed
    OBVIOUS
  <1>1. /\ TypeInv /\ ServedInv /\ [Next]_vars
        /\ [UserEditsPools => changes = 0 \/ BindSettled]_vars
        => /\ ServedInv'
           /\ [\A p \in PoolsIn(cm) \cap PoolsIn(cm)' :
                 Served(p) => Served(p)' \/ PushedBack(p)]_vars
    <2>1. ASSUME UNCHANGED vars PROVE ~UserEditsPools
      BY <2>1 DEF vars, worldVars, UserEditsPools
    <2> QED BY <2>1, ServedStep
  <1> QED BY <1>1, ServedInit, TypeInvariance, PTL DEF Spec, BindEditsApart, KeptPoolsServed

\* A single edit is apart: the hypotheses of both theorems hold.
THEOREM OneEditApart == MaxChanges = 1 /\ Spec => EditsApart /\ BindEditsApart
  <1> SUFFICES ASSUME MaxChanges = 1 PROVE Spec => EditsApart /\ BindEditsApart
    OBVIOUS
  <1>1. TypeInv => [UserEditsPools => changes = 0 \/ EditSettled]_vars
    BY DEF TypeInv, TypeOK, UserEditsPools
  <1>2. TypeInv => [UserEditsPools => changes = 0 \/ BindSettled]_vars
    BY DEF TypeInv, TypeOK, UserEditsPools
  <1> QED BY <1>1, <1>2, TypeInvariance, PTL DEF EditsApart, BindEditsApart

=============================================================================
