--------------------------- MODULE TsigKeysProofs ---------------------------
(***************************************************************************)
(* What TLAPS proves of the TSIG keys, for every number of pools, bound on *)
(* failures and set of configurations.                                     *)
(***************************************************************************)
EXTENDS TsigKeys, SortedPoolsProofs

----------------------------------------------------------------------------
(* The invariant                                                            *)

Hashes == [pools : SUBSET Names, mdns : Nat]
SecType == [ver : Nat, key : 0 .. made, hash : Hashes]

\* What the types of the variables depend on.
WorldOK ==
  /\ cm \in Configs /\ az \in AzModes /\ az \in BOOLEAN
  /\ touches \in 0 .. MaxTouches /\ mdns \in 1 .. touches + 1 /\ edits \in Nat
KeysOK == made \in Nat /\ keys \in [Names -> 0 .. made] /\ ids \in [Names -> 0 .. made]
SecOK ==
  /\ sec \in [Slots -> SecType] /\ ready \in {"absent", "false", "true"}
  /\ ready = "absent" <=> ~Exists(0)
PodsOK ==
  /\ DOMAIN sts = Slots /\ DOMAIN pods = Slots
  /\ \A k \in Slots : sts[k].ver \in Int /\ pods[k].tmpl.ver \in Int
PoolsOK ==
  /\ DOMAIN yaml \subseteq Names /\ \A p \in DOMAIN yaml : yaml[p] \in 0 .. made
  /\ DOMAIN live \subseteq Names /\ \A p \in DOMAIN live : live[p] \in 0 .. made
ParentOK == config \in Configs \cup {{}} /\ pc \in {"idle", "write"}
BindOK ==
  /\ bconfig \in Configs \cup {{}} /\ bhash \in Hashes /\ idx \in Slots
  /\ bpc \in {"idle", "drop", "compare", "keys", "clean", "write"}
  /\ bpc \in {"compare", "keys", "clean", "write"} => bconfig # {}
  /\ bpc \in {"keys", "clean", "write"} => bhash # NoHash

TypeInv ==
  /\ WorldOK /\ KeysOK /\ SecOK /\ PodsOK /\ PoolsOK /\ ParentOK /\ BindOK
  /\ job \in BOOLEAN /\ lost \in BOOLEAN

\* The key that pools.yaml names for a pool.
Entry(p) == IF p \in DOMAIN yaml THEN yaml[p] ELSE 0

\* The way of a key id, from Designate to the workers: it is never replaced by
\* another one, and never taken back.
OneId ==
  \A p \in Signed(cm) :
    /\ ids[p] # 0 => keys[p] = ids[p]
    /\ Entry(p) # 0 => ids[p] = Entry(p)
    /\ Uses(p) # 0 => Entry(p) = Uses(p)

\* A pool that needs no key before the last edit, of configuration c, has none
\* until a reconcile has read the new configuration.
NewPools(c) ==
  \A p \in Names \ Signed(c) :
    /\ edits = 0 \/ (p \in Signed(cm) /\ bpc # "idle" /\ bconfig # cm) => ids[p] = 0
    /\ edits = 0 \/ (p \in Signed(cm) /\ pc = "write" /\ config # cm) => Entry(p) = 0 /\ Uses(p) = 0

\* c is the configuration before the last edit.
EditFrom(c) ==
  /\ edits = 0 => cm = c
  /\ pc = "write" => config \in {c, cm}
  /\ bpc # "idle" => bconfig \in {c, cm}
  /\ bpc = "drop" => bconfig = {}
  /\ ready = "absent" => ids = NoIds
  /\ ~lost => OneId /\ NewPools(c)

EditInv == \E c \in Configs : EditFrom(c)

\* An edit whose new pools have no key: none is on record or in pools.yaml, and
\* workers never signed for them.  Reconciles that are running have read the
\* ConfigMap as it was before the edit.
BringsNewPools ==
  /\ pc = "write" => config = cm
  /\ bpc # "idle" => bconfig = cm
  /\ \A p \in Signed(cm)' \ Signed(cm) : ids[p] = 0 /\ Entry(p) = 0 /\ Uses(p) = 0

\* No edit overtakes the one before it, and no pool that had a key comes back.
EditsApart == [][EditPools => edits = 0 \/ BringsNewPools]_vars

\* A pod whose template has the version of the Secret has loaded its key.
VersionLoaded ==
  \A k \in Slots :
    /\ sts[k].ver <= sec[k].ver /\ pods[k].tmpl.ver <= sec[k].ver
    /\ Exists(k) => sec[k].ver > 0
    /\ sts[k].ver > 0 => sts[k].tsig
    /\ sts[k].tsig => Tsig(k)
    /\ Exists(k) /\ pods[k] # Down /\ pods[k].tmpl.ver = sec[k].ver
         => pods[k].key = sec[k].key

\* Workers may sign for the pool, now or after the next pools.yaml.
Published(p) == Entry(p) # 0 \/ (ready = "true" /\ ids[p] # 0)

\* The Secret of a published key has it, and so has every pod, now and later.
HasKey(p, k) ==
  /\ sec[k].key = ids[p] /\ sts[k].tsig
  /\ pods[k] # Down => pods[k].key = ids[p]

PublishedLoaded == \A p \in Signed(cm) : Published(p) => HasKey(p, Position(cm, p))

LoadInv == VersionLoaded /\ (~lost => PublishedLoaded)

\* Pools are added and removed at the end of the sorted list.
AppendOnly == \A c, d \in Configs : \A p \in c \cap d : Position(c, p) = Position(d, p)

----------------------------------------------------------------------------
(* Types                                                                    *)

\* The pools of a configuration take the first positions.
LEMMA ConfigSlots ==
  ASSUME NEW c \in Configs \cup {{}}
  PROVE  /\ c \in SUBSET Names /\ Cardinality(c) \in Nat /\ Cardinality(c) <= Cardinality(Names)
         /\ c # {} => Cardinality(c) - 1 \in Slots /\ Default \in c
         /\ \A p \in c : Position(c, p) \in Slots /\ Position(c, p) < Cardinality(c)
                         /\ PoolAt(c, Position(c, p)) = p
         /\ \A k \in Slots : k < Cardinality(c) => PoolAt(c, k) \in c
                                                   /\ Position(c, PoolAt(c, k)) = k
  <1>1. c \in SUBSET Names /\ (c # {} => Default \in c)
    BY ConstantsOK
  <1>2. /\ \A p \in c : Position(c, p) \in 0 .. Cardinality(c) - 1
                        /\ PoolAt(c, Position(c, p)) = p
        /\ \A k \in 0 .. Cardinality(c) - 1 : PoolAt(c, k) \in c
                                              /\ Position(c, PoolAt(c, k)) = k
        /\ Cardinality(c) \in Nat /\ Cardinality(c) <= Cardinality(Names)
        /\ (Cardinality(c) = 0) <=> (c = {})
    <2>1. c \in SUBSET Names
      BY <1>1
    <2> QED BY <2>1, Positions
  <1>3. Cardinality(Names) \in Nat
    BY NamesFinite
  <1> DEFINE n == Cardinality(c)
             N == Cardinality(Names)
  <1>4. n \in Nat /\ N \in Nat /\ n <= N /\ (n = 0 <=> c = {}) /\ Slots = 0 .. N - 1
    BY <1>2, <1>3 DEF Slots
  <1>5. \A p \in c : Position(c, p) \in 0 .. n - 1 /\ PoolAt(c, Position(c, p)) = p
    BY <1>2
  <1>6. \A k \in 0 .. n - 1 : PoolAt(c, k) \in c /\ Position(c, PoolAt(c, k)) = k
    BY <1>2
  <1> HIDE DEF n, N
  <1>7. \A k \in 0 .. n - 1 : k \in Slots /\ k < n
    BY <1>4
  <1>8. \A k \in Slots : k < n => k \in 0 .. n - 1
    BY <1>4
  <1>9. c # {} => n - 1 \in Slots
    BY <1>4
  <1> QED BY <1>1, <1>4, <1>5, <1>6, <1>7, <1>8, <1>9 DEF n, N

\* The type invariant has the types the run checks.
LEMMA TypeInvSuffices == TypeInv => TypeOK
  <1> SUFFICES ASSUME TypeInv PROVE TypeOK
    OBVIOUS
  <1>1. mdns \in 1 .. MaxTouches + 1
    BY ConstantsOK DEF TypeInv, WorldOK
  <1>2. DOMAIN sec = Slots /\ \A k \in Slots : sec[k].key \in 0 .. made /\ sec[k].ver \in Nat
    BY DEF TypeInv, SecOK, SecType
  <1>3. {keys, ids} \subseteq [Names -> 0 .. made] /\ made \in Nat
    BY DEF TypeInv, KeysOK
  <1> QED BY <1>1, <1>2, <1>3
      DEF TypeInv, WorldOK, SecOK, PodsOK, PoolsOK, ParentOK, BindOK, TypeOK

LEMMA TypeInit == Init => TypeInv
  <1> SUFFICES ASSUME Init PROVE TypeInv
    OBVIOUS
  <1>1. WorldOK
    <2>1. touches \in 0 .. MaxTouches /\ mdns \in 1 .. touches + 1
      BY ConstantsOK DEF Init
    <2> QED BY <2>1, ConstantsOK DEF Init, WorldOK
  <1>2. KeysOK
    BY DEF Init, KeysOK, NoIds
  <1>3. NoHash \in Hashes
    BY DEF NoHash, Hashes
  <1>4. SecOK
    <2>1. None \in SecType
      BY <1>3 DEF None, SecType, Init
    <2>2. sec \in [Slots -> SecType]
      BY <2>1 DEF Init
    <2>3. ~Exists(0)
      BY SlotFacts DEF Init, Exists, None
    <2> QED BY <2>2, <2>3 DEF Init, SecOK
  <1>5. PodsOK
    BY DEF Init, PodsOK, NoSts, Down
  <1>6. PoolsOK
    BY DEF Init, PoolsOK, NoPools
  <1>7. ParentOK /\ BindOK
    BY <1>3, SlotFacts DEF Init, ParentOK, BindOK
  <1> QED BY <1>1, <1>2, <1>4, <1>5, <1>6, <1>7 DEF TypeInv, Init

\* A deleted Secret has the type of one, and an ended reconcile that of one.
LEMMA DeletedType ==
  ASSUME TypeInv, NEW k \in Slots
  PROVE  Deleted(k) \in SecType /\ Deleted(k).hash = NoHash /\ Deleted(k).ver = sec[k].ver
  <1>1. sec[k] \in SecType /\ 0 \in 0 .. made
    BY DEF TypeInv, SecOK, KeysOK
  <1>2. NoHash \in Hashes
    BY DEF NoHash, Hashes
  <1> QED BY <1>1, <1>2 DEF Deleted, SecType

LEMMA IdleType == Idle => BindOK'
  BY SlotFacts DEF Idle, BindOK, NoHash, Hashes
\* Parts of the invariant that a step does not touch.
LEMMA Kept ==
  /\ WorldOK /\ UNCHANGED worldVars => WorldOK'
  /\ KeysOK /\ UNCHANGED <<keyVars, ids>> => KeysOK'
  /\ SecOK /\ UNCHANGED <<made, sec, ready>> => SecOK'
  /\ PodsOK /\ UNCHANGED podVars => PodsOK'
  /\ PoolsOK /\ UNCHANGED <<made, yaml, live>> => PoolsOK'
  /\ ParentOK /\ UNCHANGED parentVars => ParentOK'
  /\ BindOK /\ UNCHANGED bindVars => BindOK'
  <1>1. WorldOK /\ UNCHANGED worldVars => WorldOK'
    BY DEF WorldOK, worldVars
  <1>2. KeysOK /\ UNCHANGED <<keyVars, ids>> => KeysOK'
    BY DEF KeysOK, keyVars
  <1>3. SecOK /\ UNCHANGED <<made, sec, ready>> => SecOK'
    BY DEF SecOK, SecType, Exists
  <1>4. PodsOK /\ UNCHANGED podVars => PodsOK'
    BY DEF PodsOK, podVars
  <1>5. PoolsOK /\ UNCHANGED <<made, yaml, live>> => PoolsOK'
    BY DEF PoolsOK
  <1>6. ParentOK /\ UNCHANGED parentVars => ParentOK'
    BY DEF ParentOK, parentVars
  <1>7. BindOK /\ UNCHANGED bindVars => BindOK'
    BY DEF BindOK, bindVars
  <1> QED BY <1>1, <1>2, <1>3, <1>4, <1>5, <1>6, <1>7

\* Users, faults and the steps of the Designate controller.
LEMMA TypeParent ==
  ASSUME TypeInv,
         EditPools \/ MdnsMoves \/ ParentReads \/ ParentWrites \/ ParentFails
           \/ UpdateJobFinishes \/ BindFails
  PROVE  TypeInv'
  <1>1. CASE EditPools
    <2>1. WorldOK'
      BY <1>1 DEF EditPools, TypeInv, WorldOK
    <2> QED BY <1>1, <2>1, Kept DEF EditPools, TypeInv, poolVars, secVars, keyVars
  <1>2. CASE MdnsMoves
    <2>1. WorldOK'
      <3>1. touches' \in 0 .. MaxTouches /\ mdns' \in 1 .. touches' + 1
        BY <1>2, ConstantsOK DEF MdnsMoves, TypeInv, WorldOK
      <3> QED BY <1>2, <3>1 DEF MdnsMoves, TypeInv, WorldOK
    <2> QED BY <1>2, <2>1, Kept DEF MdnsMoves, TypeInv, poolVars, secVars, keyVars
  <1>3. CASE ParentReads
    <2>1. ParentOK'
      BY <1>3 DEF ParentReads, TypeInv, ParentOK, WorldOK
    <2> QED BY <1>3, <2>1, Kept DEF ParentReads, TypeInv, poolVars, secVars, keyVars
  <1>4. CASE ParentWrites
    <2>1. ParentOK'
      BY <1>4 DEF ParentWrites, ParentOK
    <2>2. PoolsIn(config) \subseteq Names
      BY OrderOK, ConfigSlots DEF TypeInv, ParentOK, PoolsIn
    <2>3. \A p \in Names : Picked(p) \in 0 .. made
      BY DEF TypeInv, KeysOK, PoolsOK, Picked
    <2>4. PoolsOK'
      BY <1>4, <2>2, <2>3 DEF ParentWrites, TypeInv, PoolsOK, keyVars
    <2>5. job' \in BOOLEAN
      BY <1>4 DEF ParentWrites
    <2> QED BY <1>4, <2>1, <2>4, <2>5, Kept DEF ParentWrites, TypeInv, secVars, keyVars
  <1>5. CASE ParentFails
    <2>1. ParentOK'
      BY <1>5 DEF ParentFails, ParentOK
    <2> QED BY <1>5, <2>1, Kept DEF ParentFails, TypeInv, poolVars, secVars, keyVars
  <1>6. CASE UpdateJobFinishes
    <2>1. PoolsOK'
      BY <1>6 DEF UpdateJobFinishes, TypeInv, PoolsOK, keyVars
    <2> QED BY <1>6, <2>1, Kept DEF UpdateJobFinishes, TypeInv, secVars, keyVars
  <1>7. CASE BindFails
    <2> QED BY <1>7, IdleType, Kept DEF BindFails, TypeInv, poolVars, secVars, keyVars
  <1> QED BY <1>1, <1>2, <1>3, <1>4, <1>5, <1>6, <1>7

\* Pods, and deleted Secrets.
LEMMA TypePods ==
  ASSUME TypeInv, NEW k \in Slots, PodStarts(k) \/ PodStops(k) \/ PodLost(k) \/ DeleteSecret(k)
  PROVE  TypeInv'
  <1>1. CASE PodStarts(k) \/ PodStops(k) \/ PodLost(k)
    <2>1. sts' = sts /\ DOMAIN pods' = Slots
      BY <1>1 DEF PodStarts, PodStops, PodLost, TypeInv, PodsOK
    <2>2. pods'[k].tmpl \in {sts[k], NoSts} /\ \A l \in Slots \ {k} : pods'[l] = pods[l]
      BY <1>1 DEF PodStarts, PodStops, PodLost, TypeInv, PodsOK, Down
    <2>3. NoSts.ver \in Int
      BY DEF NoSts
    <2>4. PodsOK'
      BY <2>1, <2>2, <2>3 DEF TypeInv, PodsOK
    <2> QED BY <1>1, <2>4, Kept
        DEF PodStarts, PodStops, PodLost, TypeInv, poolVars, secVars, keyVars
  <1>2. CASE DeleteSecret(k)
    <2>1. WorldOK'
      <3>1. touches' \in 0 .. MaxTouches /\ mdns' \in 1 .. touches' + 1
        BY <1>2, ConstantsOK DEF DeleteSecret, TypeInv, WorldOK
      <3> QED BY <1>2, <3>1 DEF DeleteSecret, TypeInv, WorldOK
    <2>2. KeysOK'
      BY <1>2 DEF DeleteSecret, TypeInv, KeysOK, keyVars, NoIds
    <2>3. sec' \in [Slots -> SecType']
      BY <1>2, DeletedType DEF DeleteSecret, TypeInv, SecOK, SecType, keyVars
    <2>4. ready' \in {"absent", "false", "true"} /\ (ready' = "absent" <=> ~Exists(0)')
      <3>1. CASE k = 0
        <4>1. sec'[0].hash = NoHash
          BY <1>2, <3>1, DeletedType DEF DeleteSecret, TypeInv, SecOK
        <4> QED BY <1>2, <3>1, <4>1 DEF DeleteSecret, Exists
      <3>2. CASE k # 0
        <4>1. sec'[0] = sec[0]
          BY <1>2, <3>2, SlotFacts DEF DeleteSecret, TypeInv, SecOK
        <4> QED BY <1>2, <3>2, <4>1 DEF DeleteSecret, TypeInv, SecOK, Exists
      <3> QED BY <3>1, <3>2
    <2>5. SecOK'
      BY <2>3, <2>4 DEF SecOK
    <2> QED BY <1>2, <2>1, <2>2, <2>5, Kept DEF DeleteSecret, TypeInv, poolVars, keyVars
  <1> QED BY <1>1, <1>2
\* A Secret written for a pool has the type of one and exists afterwards.
LEMMA WrittenType ==
  ASSUME TypeInv, bpc = "write", NEW k \in Slots
  PROVE  /\ Written(k) \in SecType
         /\ Written(k).key = KeyOf(PoolAt(bconfig, k)) /\ Written(k).hash = bhash
         /\ \/ Written(k) = sec[k] /\ (k > 0 \/ ready = "false")
            \/ Written(k).ver = sec[k].ver + 1
         /\ Written(k).ver \in {sec[k].ver, sec[k].ver + 1}
  <1> DEFINE q == KeyOf(PoolAt(bconfig, k))
             s == [sec[k] EXCEPT !.key = q, !.hash = bhash]
             t == [s EXCEPT !.ver = s.ver + 1]
  <1>1. sec[k] \in SecType /\ bhash \in Hashes
    BY DEF TypeInv, SecOK, BindOK
  <1>2. q \in 0 .. made
    <2>1. KeyOf(PoolAt(bconfig, k)) = IF PoolAt(bconfig, k) \in Signed(bconfig)
                                        THEN keys[PoolAt(bconfig, k)] ELSE 0
      BY DEF KeyOf
    <2>2. Signed(bconfig) \in SUBSET Names
      BY ConfigSlots DEF TypeInv, BindOK, Signed
    <2> QED BY <2>1, <2>2 DEF TypeInv, KeysOK
  <1>3. Written(k) = IF s = sec[k] /\ (k > 0 \/ ready = "false") THEN s ELSE t
    BY DEF Written
  <1> HIDE DEF q
  <1>4. s \in SecType /\ s.key = q /\ s.hash = bhash /\ s.ver = sec[k].ver
    BY <1>1, <1>2 DEF SecType
  <1> HIDE DEF s
  <1>5. t \in SecType /\ t.key = q /\ t.hash = bhash /\ t.ver = sec[k].ver + 1
    BY <1>4 DEF SecType
  <1> QED BY <1>3, <1>4, <1>5 DEF q

LEMMA TemplateType ==
  ASSUME NEW k \in Slots
  PROVE  /\ Template(k).tsig = Tsig(k) /\ Template(k).ver \in {0, sec[k].ver}
         /\ Template(k).ver = 0 \/ (Template(k).ver = sec[k].ver /\ Tsig(k))
  BY DEF Template

LEMMA TypeBind ==
  ASSUME TypeInv, Bind \/ \E n \in Slots : BindAppliesFails(n)
  PROVE  TypeInv'
  <1>1. CASE BindApplies
    <2>1. BindOK'
      BY <1>1 DEF BindApplies, TypeInv, WorldOK, BindOK
    <2>2. PodsOK'
      <3>1. DOMAIN sts' = Slots /\ pods' = pods
        BY <1>1 DEF BindApplies
      <3>2. \A k \in Slots : sts'[k].ver \in {sts[k].ver, sec[k].ver, 0, NoSts.ver}
        BY <1>1, TemplateType DEF BindApplies
      <3>3. NoSts.ver \in Int /\ \A k \in Slots : sec[k].ver \in Int
        BY DEF NoSts, TypeInv, SecOK, SecType
      <3> QED BY <3>1, <3>2, <3>3 DEF TypeInv, PodsOK
    <2> QED BY <1>1, <2>1, <2>2, Kept DEF BindApplies, TypeInv, secVars, keyVars, poolVars
  <1>2. CASE BindDrops
    <2>1. KeysOK'
      BY <1>2 DEF BindDrops, TypeInv, KeysOK, keyVars, NoIds
    <2>2. sec' \in [Slots -> SecType'] /\ ~Exists(0)'
      BY <1>2, DeletedType, SlotFacts DEF BindDrops, SecType, keyVars, Exists
    <2>3. SecOK'
      BY <1>2, <2>2 DEF BindDrops, SecOK
    <2>4. PodsOK'
      BY <1>2 DEF BindDrops, TypeInv, PodsOK
    <2> QED BY <1>2, <2>1, <2>3, <2>4, IdleType, Kept DEF BindDrops, TypeInv, poolVars, keyVars
  <1>3. CASE BindCompares
    <2> DEFINE h == [pools |-> bconfig, mdns |-> mdns]
               current == Exists(0) /\ Current(h)
    <2>1. \/ /\ current /\ ready = "false" /\ Idle /\ ready' = "true"
             /\ sec' = [sec EXCEPT ![0].ver = @ + 1]
          \/ /\ current /\ Idle /\ UNCHANGED <<ready, sec>>
          \/ bhash' = h /\ bpc' = "keys" /\ UNCHANGED <<ready, sec, bconfig, idx>>
      BY <1>3 DEF BindCompares
    <2>2. h \in Hashes /\ h # NoHash
      <3>1. mdns \in Nat /\ mdns # 0
        BY DEF TypeInv, WorldOK
      <3>2. bconfig \in SUBSET Names
        BY ConfigSlots DEF TypeInv, BindOK
      <3> QED BY <3>1, <3>2 DEF Hashes, NoHash
    <2> HIDE DEF h, current
    <2>3. BindOK'
      BY <1>3, <2>1, <2>2, IdleType DEF BindCompares, TypeInv, BindOK
    <2>4. SecOK'
      <3>1. CASE ready = "false" /\ ready' = "true" /\ sec' = [sec EXCEPT ![0].ver = @ + 1]
        <4> DEFINE s == [sec[0] EXCEPT !.ver = @ + 1]
        <4>1. s \in SecType /\ s.hash = sec[0].hash
          BY SlotFacts DEF TypeInv, SecOK, SecType
        <4>2. sec' = [sec EXCEPT ![0] = s]
          BY <3>1
        <4> HIDE DEF s
        <4>3. sec' \in [Slots -> SecType] /\ sec'[0].hash = sec[0].hash
          BY <4>1, <4>2, SlotFacts DEF TypeInv, SecOK
        <4>4. SecType' = SecType
          BY <1>3 DEF BindCompares, keyVars, SecType
        <4> QED BY <3>1, <4>3, <4>4 DEF TypeInv, SecOK, Exists
      <3>2. CASE UNCHANGED <<ready, sec>>
        BY <1>3, <3>2, Kept DEF BindCompares, TypeInv, keyVars
      <3> QED BY <2>1, <3>1, <3>2
    <2> QED BY <1>3, <2>3, <2>4, Kept DEF BindCompares, TypeInv, poolVars, keyVars
  <1>4. CASE BindEnsuresKeys
    <2>1. BindOK'
      BY <1>4, IdleType, Kept DEF BindEnsuresKeys, TypeInv, BindOK, bindVars
    <2>2. made' \in Nat /\ 0 .. made \subseteq 0 .. made' /\ ids' = ids
      BY <1>4 DEF BindEnsuresKeys, TypeInv, KeysOK, keyVars, secVars
    <2>3. keys' \in [Names -> 0 .. made']
      <3>1. CASE UNCHANGED keyVars
        BY <3>1 DEF TypeInv, KeysOK, keyVars
      <3>2. CASE keys' = [keys EXCEPT ![PoolAt(Missing, 0)] = made + 1] /\ made' = made + 1
        <4>1. made + 1 \in 0 .. made'
          BY <3>2 DEF TypeInv, KeysOK
        <4> QED BY <2>2, <3>2, <4>1 DEF TypeInv, KeysOK
      <3> QED BY <1>4, <3>1, <3>2 DEF BindEnsuresKeys
    <2>4. KeysOK'
      BY <2>2, <2>3 DEF TypeInv, KeysOK
    <2>5. SecOK'
      <3>1. sec' = sec /\ ready' = ready
        BY <1>4 DEF BindEnsuresKeys, secVars
      <3>2. sec' \in [Slots -> SecType']
        BY <2>2, <3>1 DEF TypeInv, SecOK, SecType
      <3> QED BY <3>1, <3>2 DEF TypeInv, SecOK, Exists
    <2>6. PoolsOK'
      BY <1>4, <2>2 DEF BindEnsuresKeys, TypeInv, PoolsOK, poolVars
    <2> QED BY <1>4, <2>1, <2>4, <2>5, <2>6, Kept DEF BindEnsuresKeys, TypeInv, poolVars
  <1>5. CASE BindCleansUp
    <2> DEFINE size == Cardinality(bconfig)
               keysLeft == [p \in Names |-> IF p \in bconfig THEN keys[p] ELSE 0]
               secLeft == [k \in Slots |-> IF k < size THEN sec[k] ELSE Deleted(k)]
    <2>1. /\ bpc = "clean" /\ bpc' = "write" /\ idx' = size - 1
          /\ keys' \in {keys, keysLeft} /\ sec' \in {sec, secLeft}
      BY <1>5 DEF BindCleansUp
    <2>2. size - 1 \in Slots /\ 0 < size
      BY <2>1, ConfigSlots, SlotFacts DEF TypeInv, BindOK
    <2> HIDE DEF size
    <2>3. BindOK'
      BY <1>5, <2>1, <2>2 DEF BindCleansUp, TypeInv, BindOK
    <2>4. KeysOK'
      BY <1>5, <2>1 DEF BindCleansUp, TypeInv, KeysOK
    <2>5. SecOK'
      <3>1. secLeft \in [Slots -> SecType] /\ secLeft[0] = sec[0]
        BY <2>2, DeletedType, SlotFacts DEF TypeInv, SecOK
      <3> HIDE DEF secLeft
      <3>2. sec' \in [Slots -> SecType] /\ sec'[0] = sec[0]
        BY <2>1, <3>1 DEF TypeInv, SecOK
      <3>3. SecType' = SecType
        BY <1>5 DEF BindCleansUp, SecType
      <3> QED BY <1>5, <3>2, <3>3 DEF BindCleansUp, TypeInv, SecOK, Exists
    <2> QED BY <1>5, <2>3, <2>4, <2>5, Kept DEF BindCleansUp, TypeInv, poolVars
  <1>6. CASE BindWrites
    <2>1. BindOK'
      <3>1. CASE idx > 0 /\ idx' = idx - 1 /\ UNCHANGED <<ids, ready, bpc, bconfig, bhash>>
        <4>1. idx - 1 \in Slots
          BY <3>1, NamesFinite DEF TypeInv, BindOK, Slots
        <4> QED BY <3>1, <4>1 DEF TypeInv, BindOK
      <3> QED BY <1>6, <3>1, IdleType DEF BindWrites
    <2>2. KeysOK'
      <3>1. \A p \in Names : KeyOf(p) \in 0 .. made
        BY DEF KeyOf, TypeInv, KeysOK
      <3> QED BY <1>6, <3>1 DEF BindWrites, TypeInv, KeysOK, keyVars
    <2>3. SecOK'
      <3>1. Written(idx) \in SecType /\ Written(idx).hash # NoHash
        BY <1>6, WrittenType DEF BindWrites, TypeInv, BindOK
      <3>2. sec' \in [Slots -> SecType] /\ SecType' = SecType
        BY <1>6, <3>1 DEF BindWrites, TypeInv, SecOK, keyVars, SecType
      <3>3. idx # 0 => sec'[0] = sec[0] /\ ready' = ready
        BY <1>6, SlotFacts DEF BindWrites, TypeInv, SecOK
      <3>4. idx = 0 => sec'[0] = Written(0) /\ ready' = "false"
        BY <1>6, SlotFacts DEF BindWrites, TypeInv, SecOK
      <3> QED BY <3>1, <3>2, <3>3, <3>4 DEF TypeInv, SecOK, Exists
    <2>4. UNCHANGED <<worldVars, podVars, made, yaml, live, job, parentVars, lost>>
      BY <1>6 DEF BindWrites, keyVars, poolVars
    <2>5. WorldOK' /\ PodsOK' /\ PoolsOK' /\ ParentOK'
      BY <2>4, Kept DEF TypeInv
    <2> QED BY <2>1, <2>2, <2>3, <2>4, <2>5 DEF TypeInv
  <1>7. ASSUME NEW n \in Slots, BindAppliesFails(n) PROVE TypeInv'
    <2>1. DOMAIN sts' = Slots /\ pods' = pods
      BY <1>7 DEF BindAppliesFails
    <2>2. \A k \in Slots : sts'[k].ver \in {sts[k].ver, sec[k].ver, 0}
      BY <1>7, TemplateType DEF BindAppliesFails
    <2>3. \A k \in Slots : sec[k].ver \in Int
      BY DEF TypeInv, SecOK, SecType
    <2>4. PodsOK'
      BY <2>1, <2>2, <2>3 DEF TypeInv, PodsOK
    <2> QED BY <1>7, <2>4, Kept DEF BindAppliesFails, TypeInv, secVars, keyVars, poolVars
  <1> QED BY <1>1, <1>2, <1>3, <1>4, <1>5, <1>6, <1>7 DEF Bind

LEMMA TypeStep == TypeInv /\ [Next]_vars => TypeInv'
  <1> SUFFICES ASSUME TypeInv, [Next]_vars PROVE TypeInv'
    OBVIOUS
  <1>1. CASE UNCHANGED vars
    BY <1>1, Kept DEF vars, TypeInv, keyVars, secVars, poolVars
  <1> QED BY <1>1, TypeParent, TypePods, TypeBind DEF Next, Parent, Kubelet

LEMMA Types == Spec => []TypeInv
  BY TypeInit, TypeStep, PTL DEF Spec

\* Positions, versions and key ids stay in their sets, the canonical Secret
\* exists exactly while it has a readiness mark: tsigSecretNameForPool,
\* createOrUpdatePerPoolTSIGSecret and cleanupMultipoolTSIGSecrets.
THEOREM TypeCorrect == Spec => []TypeOK
  BY Types, TypeInvSuffices, PTL
----------------------------------------------------------------------------
(* A pool keeps its key                                                     *)

\* The first edit brings only new pools.
LEMMA FirstEdit ==
  ASSUME TypeInv, EditInv, EditPools, edits = 0, ~lost
  PROVE  BringsNewPools
  <1>1. PICK c \in Configs : EditFrom(c)
    BY DEF EditInv
  <1>2. \A p \in Names \ Signed(cm) : ids[p] = 0 /\ Entry(p) = 0 /\ Uses(p) = 0
    BY <1>1 DEF EditFrom, NewPools
  <1>3. Signed(cm)' \in SUBSET Names
    BY ConfigSlots DEF EditPools, Signed
  <1> QED BY <1>1, <1>2, <1>3 DEF EditFrom, BringsNewPools

\* An edit of the ConfigMap: new pools have no key, no entry and no signing.
LEMMA EditUser ==
  ASSUME TypeInv, EditInv, EditPools, edits = 0 \/ BringsNewPools
  PROVE  EditInv'
  <1>1. PICK c \in Configs : EditFrom(c)
    BY DEF EditInv
  <1>2. UNCHANGED <<az, ids, keys, yaml, live, ready, pc, config, bpc, bconfig, lost>>
    BY DEF EditPools, keyVars, secVars, poolVars, parentVars, bindVars
  <1>3. /\ cm' \in Configs /\ Signed(cm)' \in SUBSET Names /\ cm \in Configs
        /\ edits' # 0
    BY ConfigSlots DEF EditPools, Signed, TypeInv, WorldOK
  <1>4. (pc = "write" => config = cm) /\ (bpc # "idle" => bconfig = cm)
    BY <1>1 DEF EditFrom, BringsNewPools
  <1>5. PICK o \in Configs : o = cm
    BY <1>3
  <1>6. ~lost => OneId' /\ NewPools(o)'
    <2> SUFFICES ASSUME ~lost PROVE OneId' /\ NewPools(o)'
      OBVIOUS
    <2>1. \A p \in Signed(cm)' \ Signed(o) : ids[p] = 0 /\ Entry(p) = 0 /\ Uses(p) = 0
      BY <1>5, FirstEdit DEF BringsNewPools
    <2>2. \A p \in Signed(o) : /\ ids[p] # 0 => keys[p] = ids[p]
                               /\ Entry(p) # 0 => ids[p] = Entry(p)
                               /\ Uses(p) # 0 => Entry(p) = Uses(p)
      BY <1>1, <1>5 DEF EditFrom, OneId
    <2>3. \A p \in Names : Entry(p)' = Entry(p) /\ Uses(p)' = Uses(p)
      BY <1>2 DEF Entry, Uses
    <2>4. OneId'
      BY <1>2, <1>3, <2>1, <2>2, <2>3 DEF OneId
    <2>5. Signed(o)' = Signed(o)
      BY <1>2 DEF Signed
    <2>6. NewPools(o)'
      BY <1>2, <1>3, <2>1, <2>3, <2>5 DEF NewPools
    <2> QED BY <2>4, <2>6
  <1>7. EditFrom(o)'
    BY <1>1, <1>2, <1>3, <1>4, <1>5, <1>6 DEF EditFrom
  <1> QED BY <1>7 DEF EditInv

\* Steps of the Designate controller and of the update job: the entries follow
\* the published ids, and the workers follow the entries.
LEMMA EditParent ==
  ASSUME TypeInv, NEW c \in Configs, EditFrom(c),
         ParentReads \/ ParentWrites \/ ParentFails \/ UpdateJobFinishes
  PROVE  EditFrom(c)'
  <1>1. UNCHANGED <<cm, az, edits, ids, keys, ready, bpc, bconfig, lost>>
    BY DEF ParentReads, ParentWrites, ParentFails, UpdateJobFinishes, worldVars, keyVars,
           secVars, bindVars
  <1>2. /\ pc' = "write" => config' \in {c, cm}
        /\ pc' = "write" /\ config' # cm => pc = "write" /\ config = config'
    BY DEF ParentReads, ParentWrites, ParentFails, UpdateJobFinishes, parentVars, EditFrom
  <1>3. Signed(cm) \in SUBSET Names /\ Signed(c) \in SUBSET Names
    BY ConfigSlots DEF TypeInv, WorldOK, Signed
  <1>4. ASSUME ~lost PROVE OneId' /\ NewPools(c)'
    <2>1. CASE ParentReads \/ ParentFails
      <3>1. \A p \in Names : Entry(p)' = Entry(p) /\ Uses(p)' = Uses(p)
        BY <2>1 DEF ParentReads, ParentFails, poolVars, Entry, Uses
      <3>2. OneId'
        BY <1>1, <1>3, <1>4, <3>1 DEF EditFrom, OneId, Signed
      <3>3. NewPools(c)'
        BY <1>1, <1>2, <1>4, <3>1 DEF EditFrom, NewPools, Signed
      <3> QED BY <3>2, <3>3
    <2>2. CASE UpdateJobFinishes
      <3>1. \A p \in Names : /\ Entry(p)' = Entry(p)
                             /\ Uses(p)' = IF p \in DOMAIN yaml THEN Entry(p) ELSE Uses(p)
        BY <2>2 DEF UpdateJobFinishes, Entry, Uses
      <3>2. \A p \in Names : p \notin DOMAIN yaml => Entry(p) = 0
        BY DEF Entry
      <3>3. OneId'
        BY <1>1, <1>3, <1>4, <3>1, <3>2 DEF EditFrom, OneId, Signed
      <3>4. NewPools(c)'
        BY <1>1, <1>2, <1>4, <3>1 DEF EditFrom, NewPools, Signed
      <3> QED BY <3>3, <3>4
    <2>3. CASE ParentWrites
      <3>1. pc = "write" /\ pc' = "idle" /\ config \in {c, cm} /\ live' = live
        BY <2>3 DEF ParentWrites, EditFrom
      <3>2. \A p \in Names : Uses(p)' = Uses(p)
        BY <3>1 DEF Uses
      <3>3. \A p \in Names : Entry(p)' = IF p \in PoolsIn(config) THEN Picked(p) ELSE 0
        BY <2>3 DEF ParentWrites, Entry
      <3>4. \A p \in Names : p \in Signed(config) =>
              Entry(p)' = IF ready = "false" THEN Entry(p) ELSE ids[p]
        <4> TAKE p \in Names
        <4> HAVE p \in Signed(config)
        <4>1. p \in PoolsIn(config)
          BY DEF Signed, PoolsIn
        <4> QED BY <3>3, <4>1 DEF Picked, Entry
      <3>5. \A p \in Names : p \notin Signed(config) => Entry(p)' = 0
        BY <3>3 DEF Picked
      <3>6. OneId'
        <4> SUFFICES ASSUME NEW p \in Signed(cm)
                     PROVE  /\ ids[p] # 0 => keys[p] = ids[p]
                            /\ Entry(p)' # 0 => ids[p] = Entry(p)'
                            /\ Uses(p) # 0 => Entry(p)' = Uses(p)
          BY <1>1, <1>3, <3>2 DEF OneId, Signed
        <4>1. /\ ids[p] # 0 => keys[p] = ids[p]
              /\ Entry(p) # 0 => ids[p] = Entry(p)
              /\ Uses(p) # 0 => Entry(p) = Uses(p)
          BY <1>4 DEF EditFrom, OneId
        <4>2. CASE p \in Signed(config)
          BY <1>3, <3>4, <4>1, <4>2
        <4>3. CASE p \notin Signed(config)
          <5>1. config = c /\ config # cm
            BY <3>1, <4>3
          <5>2. Uses(p) = 0
            BY <1>3, <1>4, <3>1, <4>3, <5>1 DEF EditFrom, NewPools
          <5> QED BY <1>3, <3>5, <4>1, <4>3, <5>2
        <4> QED BY <4>2, <4>3
      <3>7. NewPools(c)'
        <4>1. \A p \in Names \ Signed(c) : edits = 0 => Entry(p)' = 0
          BY <3>1, <3>5 DEF EditFrom
        <4> QED BY <1>1, <1>4, <3>1, <3>2, <4>1 DEF EditFrom, NewPools, Signed
      <3> QED BY <3>6, <3>7
    <2> QED BY <2>1, <2>2, <2>3
  <1> QED BY <1>1, <1>2, <1>4 DEF EditFrom
\* Steps that leave the pools, the ids and the workers alone.
LEMMA EditOther ==
  ASSUME TypeInv, NEW c \in Configs, EditFrom(c),
         UNCHANGED <<cm, az, edits, keys, ids, ready, yaml, live, parentVars, bpc, bconfig>>,
         lost => lost'
  PROVE  EditFrom(c)'
  <1>1. \A p \in Names : Entry(p)' = Entry(p) /\ Uses(p)' = Uses(p)
    BY DEF Entry, Uses
  <1>2. Signed(cm) \in SUBSET Names
    BY ConfigSlots DEF TypeInv, WorldOK, Signed
  <1>3. ~lost' => OneId' /\ NewPools(c)'
    <2>1. ~lost' => OneId'
      BY <1>1, <1>2 DEF EditFrom, OneId, Signed
    <2>2. ~lost' => NewPools(c)'
      BY <1>1 DEF EditFrom, NewPools, Signed, parentVars
    <2> QED BY <2>1, <2>2
  <1> QED BY <1>3 DEF EditFrom, parentVars

\* The bind9 controller: a stale list of pools knows no key of a new pool, and
\* no key is deleted, or left out, that was ever published.
LEMMA EditBind ==
  ASSUME TypeInv, NEW c \in Configs, EditFrom(c),
         Bind \/ BindFails \/ \E k \in Slots : BindAppliesFails(k)
  PROVE  EditFrom(c)'
  <1>1. UNCHANGED <<cm, az, edits, yaml, live, pc, config, lost>>
    BY DEF Bind, BindApplies, BindDrops, BindCompares, BindEnsuresKeys, BindCleansUp, BindWrites,
           BindFails, BindAppliesFails, worldVars, poolVars, parentVars
  <1>2. /\ bpc' # "idle" => bconfig' \in {c, cm}
        /\ bpc' # "idle" /\ bconfig' # cm => bpc # "idle" /\ bconfig = bconfig'
        /\ bpc' = "drop" => bconfig' = {}
    BY DEF Bind, BindApplies, BindDrops, BindCompares, BindEnsuresKeys, BindCleansUp, BindWrites,
           BindFails, BindAppliesFails, Idle, bindVars, EditFrom
  <1>3. \A p \in Names : Entry(p)' = Entry(p) /\ Uses(p)' = Uses(p)
    BY <1>1 DEF Entry, Uses
  <1>4. Signed(cm) \in SUBSET Names
    BY ConfigSlots DEF TypeInv, WorldOK, Signed
  \* A pool that the list of the reconcile does not have has no published id.
  <1>5. ASSUME ~lost, bpc # "idle", NEW p \in Signed(cm), p \notin Signed(bconfig)
        PROVE  ids[p] = 0 /\ Entry(p) = 0
    <2>1. bconfig = c /\ bconfig # cm
      BY <1>5 DEF EditFrom
    <2>2. ids[p] = 0
      BY <1>4, <1>5, <2>1 DEF EditFrom, NewPools
    <2> QED BY <1>5, <2>2 DEF EditFrom, OneId
  <1>6. /\ ready' = "absent" => ids' = NoIds
        /\ ~lost => OneId' /\ NewPools(c)'
    <2>1. CASE UNCHANGED <<keys, ids>> /\ (ready' = ready \/ ready' = "true")
      <3>1. ~lost => OneId'
        BY <1>1, <1>3, <1>4, <2>1 DEF EditFrom, OneId, Signed
      <3>2. ~lost => NewPools(c)'
        BY <1>1, <1>2, <1>3, <2>1 DEF EditFrom, NewPools, Signed
      <3> QED BY <2>1, <3>1, <3>2 DEF EditFrom
    <2>2. CASE BindDrops
      <3>1. ids' = NoIds /\ keys' = keys /\ bpc = "drop"
        BY <2>2 DEF BindDrops, keyVars
      <3>2. ~lost => \A p \in Signed(cm) : Entry(p) = 0
        BY <1>5, <3>1 DEF EditFrom, Signed
      <3>3. ~lost => OneId'
        <4> SUFFICES ASSUME ~lost, NEW p \in Signed(cm)
                     PROVE  ids'[p] = 0 /\ Entry(p)' = 0 /\ (Uses(p)' # 0 => Entry(p)' = Uses(p)')
          BY <1>1 DEF OneId, Signed
        <4> QED BY <1>3, <1>4, <3>1, <3>2 DEF NoIds, EditFrom, OneId
      <3>4. ~lost => NewPools(c)'
        BY <1>1, <1>2, <1>3, <3>1 DEF EditFrom, NewPools, NoIds, Signed
      <3> QED BY <3>1, <3>3, <3>4
    <2>3. CASE BindEnsuresKeys /\ keys' # keys
      <3>1. /\ UNCHANGED <<ids, ready>> /\ Missing # {}
            /\ keys' = [keys EXCEPT ![PoolAt(Missing, 0)] = made + 1]
        BY <2>3 DEF BindEnsuresKeys, keyVars, secVars
      <3>2. keys[PoolAt(Missing, 0)] = 0
        <4>1. Missing \in SUBSET Names
          BY ConfigSlots DEF TypeInv, BindOK, Missing, Signed
        <4>2. PoolAt(Missing, 0) \in Missing
          <5>1. Cardinality(Missing) \in Nat /\ Cardinality(Missing) # 0
            BY <3>1, <4>1, Positions
          <5>2. 0 \in 0 .. Cardinality(Missing) - 1
            BY <5>1
          <5> QED BY <4>1, <5>2, Positions
        <4> QED BY <4>2 DEF Missing
      <3>3. \A p \in Names : keys[p] # 0 => keys'[p] = keys[p]
        BY <3>1, <3>2 DEF TypeInv, KeysOK
      <3>4. ~lost => OneId'
        BY <1>1, <1>3, <1>4, <3>1, <3>3 DEF EditFrom, OneId, Signed
      <3>5. ~lost => NewPools(c)'
        BY <1>1, <1>2, <1>3, <3>1 DEF EditFrom, NewPools, Signed
      <3> QED BY <3>1, <3>4, <3>5 DEF EditFrom
    <2>4. CASE BindCleansUp
      <3>1. UNCHANGED <<ids, ready>> /\ bpc = "clean"
        BY <2>4 DEF BindCleansUp
      <3>2. \A p \in Names : p \in bconfig => keys'[p] = keys[p]
        BY <2>4 DEF BindCleansUp, TypeInv, KeysOK
      <3>3. ~lost => OneId'
        <4> SUFFICES ASSUME ~lost, NEW p \in Signed(cm), ids[p] # 0
                     PROVE  keys'[p] = ids[p]
          BY <1>1, <1>3, <1>4, <3>1 DEF EditFrom, OneId, Signed
        <4>1. p \in bconfig
          BY <1>5, <3>1 DEF Signed
        <4> QED BY <1>4, <3>2, <4>1 DEF EditFrom, OneId
      <3>4. ~lost => NewPools(c)'
        BY <1>1, <1>2, <1>3, <3>1 DEF EditFrom, NewPools, Signed
      <3> QED BY <3>1, <3>3, <3>4 DEF EditFrom
    <2>5. CASE BindWrites /\ idx = 0
      <3>1. /\ ids' = [p \in Names |-> KeyOf(p)] /\ ready' = "false" /\ bpc = "write"
            /\ bpc' = "idle" /\ keys' = keys
        BY <2>5 DEF BindWrites, Idle, keyVars
      <3>2. ~lost => OneId'
        <4> SUFFICES ASSUME ~lost, NEW p \in Signed(cm)
                     PROVE  /\ ids'[p] # 0 => keys[p] = ids'[p]
                            /\ Entry(p) # 0 => ids'[p] = Entry(p)
                            /\ Uses(p) # 0 => Entry(p) = Uses(p)
          BY <1>1, <1>3, <1>4, <3>1 DEF OneId, Signed
        <4>1. ids'[p] = IF p \in Signed(bconfig) THEN keys[p] ELSE 0
          BY <1>4, <3>1 DEF KeyOf
        <4> QED BY <1>5, <3>1, <4>1 DEF EditFrom, OneId
      <3>3. ~lost => NewPools(c)'
        <4>1. \A p \in Names \ Signed(c) : edits = 0 => ids'[p] = 0
          BY <3>1 DEF EditFrom, KeyOf
        <4> QED BY <1>1, <1>2, <1>3, <3>1, <4>1 DEF EditFrom, NewPools, Signed
      <3> QED BY <3>1, <3>2, <3>3
    <2> QED BY <2>1, <2>2, <2>3, <2>4, <2>5
        DEF Bind, BindApplies, BindCompares, BindEnsuresKeys, BindWrites, BindFails,
            BindAppliesFails, keyVars, secVars
  <1> QED BY <1>1, <1>2, <1>6 DEF EditFrom

LEMMA EditInit == Init => EditInv
  <1> SUFFICES ASSUME Init PROVE EditFrom(cm)
    BY DEF Init, EditInv
  <1>1. OneId /\ NewPools(cm)
    <2>1. \A p \in Names : ids[p] = 0 /\ Entry(p) = 0 /\ Uses(p) = 0
      BY DEF Init, NoIds, NoPools, Entry, Uses
    <2>2. Signed(cm) \in SUBSET Names
      BY ConfigSlots DEF Init, Signed
    <2> QED BY <2>1, <2>2 DEF OneId, NewPools
  <1> QED BY <1>1 DEF Init, EditFrom

LEMMA EditStep ==
  ASSUME TypeInv, EditInv, [Next]_vars, EditPools => edits = 0 \/ BringsNewPools
  PROVE  EditInv'
  <1>1. PICK c \in Configs : EditFrom(c)
    BY DEF EditInv
  <1>2. CASE EditPools
    BY <1>2, EditUser
  <1> SUFFICES ASSUME ~EditPools PROVE EditFrom(c)'
    BY <1>2 DEF EditInv
  <1>3. CASE Parent \/ ParentFails \/ UpdateJobFinishes
    BY <1>1, <1>3, EditParent DEF Parent
  <1>4. CASE Bind \/ BindFails \/ \E k \in Slots : BindAppliesFails(k)
    BY <1>1, <1>4, EditBind
  <1>5. CASE MdnsMoves \/ UNCHANGED vars \/ \E k \in Slots : PodStarts(k) \/ PodStops(k) \/ PodLost(k)
    <2>1. UNCHANGED <<cm, az, edits, keys, ids, ready, yaml, live, parentVars, bpc, bconfig, lost>>
      BY <1>5 DEF MdnsMoves, vars, PodStarts, PodStops, PodLost, worldVars, keyVars, secVars,
                  poolVars, bindVars
    <2> QED BY <1>1, <2>1, EditOther
  <1>6. ASSUME NEW k \in Slots, DeleteSecret(k) PROVE EditFrom(c)'
    <2>1. /\ UNCHANGED <<cm, edits, parentVars, bpc, bconfig>> /\ lost' = TRUE
          /\ ids' = NoIds \/ UNCHANGED <<ids, ready>>
      BY <1>6 DEF DeleteSecret, bindVars
    <2> QED BY <1>1, <2>1 DEF EditFrom, parentVars
  <1> QED BY <1>3, <1>4, <1>5, <1>6 DEF Next, Kubelet

LEMMA EditInvariance == Spec /\ EditsApart => []EditInv
  <1>1. Init => EditInv
    BY EditInit
  <1>2. TypeInv /\ EditInv /\ [Next]_vars /\ [EditPools => edits = 0 \/ BringsNewPools]_vars
          => EditInv'
    <2>1. ASSUME TypeInv, UNCHANGED vars PROVE ~EditPools
      BY <2>1 DEF vars, worldVars, EditPools
    <2> QED BY <2>1, EditStep
  <1> QED BY <1>1, <1>2, Types, PTL DEF Spec, EditsApart

\* However often the pools are edited, and whatever fails meanwhile, a pool
\* that stays keeps the key id its workers sign with, when no edit overtakes
\* the one before it and no pool comes back: createOrUpdatePerPoolTSIGSecret
\* writes the ids of existing keys, and the Designate controller keeps the
\* entries of the last pools.yaml while tsig-keys-ready is "false".
THEOREM KeyKept == Spec /\ EditsApart => KeysStable
  <1>1. TypeInv /\ EditInv /\ [Next]_vars
          => [~lost' => \A p \in Signed(cm) \cap Signed(cm)' : Uses(p) # 0 => Uses(p)' = Uses(p)]_vars
    <2> SUFFICES ASSUME TypeInv, EditInv, [Next]_vars, ~lost',
                        NEW p \in Signed(cm) \cap Signed(cm)', Uses(p) # 0
                 PROVE  Uses(p)' = Uses(p)
      OBVIOUS
    <2>1. CASE UpdateJobFinishes
      <3>1. ~lost
        BY <2>1 DEF UpdateJobFinishes
      <3>2. Entry(p) = Uses(p)
        BY <3>1 DEF EditInv, EditFrom, OneId
      <3>3. Uses(p)' = IF p \in DOMAIN yaml THEN Entry(p) ELSE Uses(p)
        BY <2>1 DEF UpdateJobFinishes, Entry, Uses
      <3> QED BY <3>2, <3>3
    <2>2. CASE ~UpdateJobFinishes
      <3>1. live' = live
        BY <2>2 DEF Next, Parent, Bind, Kubelet, vars, poolVars, EditPools, MdnsMoves, ParentReads,
           ParentWrites, ParentFails, BindApplies, BindDrops, BindCompares, BindEnsuresKeys,
           BindCleansUp, BindWrites, BindFails, BindAppliesFails,
       PodStarts, PodStops, PodLost, DeleteSecret
      <3> QED BY <3>1 DEF Uses
    <2> QED BY <2>1, <2>2
  <1> QED BY <1>1, EditInvariance, Types, PTL DEF Spec, KeysStable

\* A single edit is apart.
THEOREM OneEditApart == MaxEdits = 1 /\ Spec => EditsApart
  <1> SUFFICES ASSUME MaxEdits = 1 PROVE Spec => EditsApart
    OBVIOUS
  <1>1. TypeInv => [EditPools => edits = 0 \/ BringsNewPools]_vars
    BY DEF TypeInv, WorldOK, EditPools
  <1> QED BY <1>1, Types, PTL DEF EditsApart

----------------------------------------------------------------------------
(* Workers sign with keys that BIND has loaded                              *)

\* The id of a published key is on record.
LEMMA PublishedIds ==
  ASSUME NEW c, EditFrom(c), ~lost, NEW p \in Signed(cm), Published(p)
  PROVE  ids[p] # 0 /\ keys[p] = ids[p]
  BY DEF EditFrom, OneId, Published

\* A reconcile with an older list has the pools of all recorded keys, where
\* the new list has them.
LEMMA SamePlace ==
  ASSUME AppendOnly, TypeInv, NEW c \in Configs, EditFrom(c), ~lost, bpc # "idle",
         NEW p \in Signed(cm), ids[p] # 0
  PROVE  p \in Signed(bconfig) /\ Position(bconfig, p) = Position(cm, p)
  <1>1. Signed(cm) \in SUBSET Names /\ cm \in Configs
    BY ConfigSlots DEF TypeInv, WorldOK, Signed
  <1>2. CASE bconfig = cm
    BY <1>2
  <1>3. CASE bconfig # cm
    <2>1. bconfig = c
      BY <1>3 DEF EditFrom
    <2>2. p \in Signed(c)
      BY <1>1, <1>3 DEF EditFrom, NewPools
    <2>3. p \in c \cap cm
      BY <2>2 DEF Signed
    <2> QED BY <1>1, <2>1, <2>2, <2>3 DEF AppendOnly
  <1> QED BY <1>2, <1>3

LEMMA PlaceType ==
  ASSUME TypeInv, NEW p \in Signed(cm)
  PROVE  p \in Names /\ p \in cm /\ Position(cm, p) \in Slots
  BY ConfigSlots DEF TypeInv, WorldOK, Signed

\* Versions of Secrets only grow: what has another version than its Secret, or
\* no Secret, has an older one.
LEMMA VersionStep ==
  ASSUME TypeInv, VersionLoaded, [Next]_vars
  PROVE  VersionLoaded'
  <1> DEFINE Good(k) == /\ sts[k].ver <= sec[k].ver /\ pods[k].tmpl.ver <= sec[k].ver
                        /\ Exists(k) => sec[k].ver > 0
                        /\ sts[k].ver > 0 => sts[k].tsig
                        /\ sts[k].tsig => Tsig(k)
                        /\ Exists(k) /\ pods[k] # Down /\ pods[k].tmpl.ver = sec[k].ver
                             => pods[k].key = sec[k].key
  <1>0. \A k \in Slots : Good(k) /\ sts[k].ver \in Int /\ pods[k].tmpl.ver \in Int /\ sec[k].ver \in Nat
    BY DEF VersionLoaded, TypeInv, PodsOK, SecOK, SecType
  <1>1. az' = az
    BY DEF Next, Parent, Bind, Kubelet, vars, worldVars, EditPools, MdnsMoves, ParentReads,
       ParentWrites, ParentFails, UpdateJobFinishes, BindApplies, BindDrops, BindCompares,
       BindEnsuresKeys, BindCleansUp, BindWrites, BindFails, BindAppliesFails,
       PodStarts, PodStops, PodLost, DeleteSecret
  <1> SUFFICES ASSUME NEW k \in Slots PROVE Good(k)'
    BY DEF VersionLoaded
  <1>k. k \in Nat
    BY SlotFacts
  \* A Secret that is unchanged, deleted, or has a new version.
  <1>2. ASSUME sts' = sts, pods' = pods,
               \/ sec'[k] = sec[k]
               \/ sec'[k].hash = NoHash /\ sec'[k].ver = sec[k].ver
               \/ sec'[k].ver = sec[k].ver + 1
        PROVE  Good(k)'
    <2>1. sts'[k] = sts[k] /\ pods'[k] = pods[k] /\ Tsig(k)' = Tsig(k)
      BY <1>1, <1>2 DEF Tsig
    <2>2. CASE sec'[k] = sec[k]
      BY <1>0, <2>1, <2>2 DEF Exists
    <2>3. CASE sec'[k].hash = NoHash /\ sec'[k].ver = sec[k].ver
      BY <1>0, <2>1, <2>3 DEF Exists
    <2>4. CASE sec'[k].ver = sec[k].ver + 1
      BY <1>0, <2>1, <2>4 DEF Exists
    <2> QED BY <1>2, <2>2, <2>3, <2>4
  <1>3. CASE UNCHANGED <<sts, pods, sec>>
    BY <1>2, <1>3
  <1>4. CASE BindApplies \/ \E n \in Slots : BindAppliesFails(n)
    <2>1. sec' = sec /\ pods' = pods /\ Tsig(k)' = Tsig(k)
      BY <1>1, <1>4 DEF BindApplies, BindAppliesFails, secVars, Tsig
    <2>2. \/ sts'[k] = sts[k]
          \/ sts'[k].ver \in {0, -1} /\ (sts'[k].tsig => Tsig(k))
          \/ sts'[k].ver = sec[k].ver /\ Tsig(k) /\ sts'[k].tsig
      <3>1. sts'[k] \in {Template(k), sts[k], NoSts}
        BY <1>4 DEF BindApplies, BindAppliesFails
      <3>2. NoSts.ver = -1 /\ NoSts.tsig = FALSE
        BY DEF NoSts
      <3>3. CASE sts'[k] = Template(k)
        BY <3>3, TemplateType
      <3>4. CASE sts'[k] = NoSts
        BY <3>2, <3>4
      <3> QED BY <3>1, <3>3, <3>4
    <2>3. sts'[k].ver \in Int /\ -1 <= sec[k].ver /\ 0 <= sec[k].ver
      BY <1>0, <2>2
    <2> QED BY <1>0, <2>1, <2>2, <2>3 DEF Exists
  <1>5. CASE BindDrops
    <2>1. sec'[k].hash = NoHash /\ sec'[k].ver = sec[k].ver
      BY <1>5, DeletedType DEF BindDrops
    <2>2. pods' = pods /\ Tsig(k)' = Tsig(k)
      BY <1>1, <1>5 DEF BindDrops, podVars, Tsig
    <2>3. sts'[k] = sts[k] \/ (sts'[k].ver = 0 /\ sts'[k].tsig = FALSE)
      BY <1>5 DEF BindDrops, TypeInv, PodsOK
    <2> QED BY <1>0, <2>1, <2>2, <2>3 DEF Exists
  <1>6. CASE BindCompares
    <2>1. sec'[k] = sec[k] \/ sec'[k].ver = sec[k].ver + 1
      BY <1>6 DEF BindCompares, TypeInv, SecOK, SecType
    <2> QED BY <1>2, <1>6, <2>1 DEF BindCompares, podVars
  <1>7. CASE BindCleansUp
    <2>1. sec'[k] = sec[k] \/ sec'[k] = Deleted(k)
      BY <1>7 DEF BindCleansUp
    <2> QED BY <1>2, <1>7, <2>1, DeletedType DEF BindCleansUp, podVars
  <1>8. CASE BindWrites
    <2>1. sec'[k] = IF k = idx THEN Written(k) ELSE sec[k]
      BY <1>8 DEF BindWrites, TypeInv, SecOK
    <2>2. Written(k) = sec[k] \/ Written(k).ver = sec[k].ver + 1
      BY <1>8, WrittenType DEF BindWrites
    <2> QED BY <1>2, <1>8, <2>1, <2>2 DEF BindWrites, podVars
  <1>9. ASSUME NEW l \in Slots, PodStarts(l) PROVE Good(k)'
    <2>1. sts' = sts /\ sec' = sec /\ Tsig(k)' = Tsig(k)
      BY <1>1, <1>9 DEF PodStarts, secVars, Tsig
    <2>2. CASE l # k
      <3>1. pods'[k] = pods[k]
        BY <1>9, <2>2 DEF PodStarts, TypeInv, PodsOK
      <3> QED BY <1>0, <2>1, <3>1 DEF Exists
    <2>3. CASE l = k
      <3>1. pods'[k].tmpl = sts[k] /\ (sts[k].tsig => pods'[k].key = sec[k].key)
        BY <1>9, <2>3 DEF PodStarts, TypeInv, PodsOK
      <3> QED BY <1>0, <2>1, <3>1 DEF Exists
    <2> QED BY <2>2, <2>3
  <1>10. ASSUME NEW l \in Slots, PodStops(l) \/ PodLost(l) PROVE Good(k)'
    <2>1. sts' = sts /\ sec' = sec /\ Tsig(k)' = Tsig(k)
      BY <1>1, <1>10 DEF PodStops, PodLost, secVars, Tsig
    <2>2. pods'[k] = pods[k] \/ pods'[k] = Down
      BY <1>10 DEF PodStops, PodLost, TypeInv, PodsOK
    <2>3. Down.tmpl.ver = -1 /\ -1 <= sec[k].ver
      BY <1>0 DEF Down, NoSts
    <2> QED BY <1>0, <2>1, <2>2, <2>3 DEF Exists, Down
  <1>11. ASSUME NEW l \in Slots, DeleteSecret(l) PROVE Good(k)'
    <2>1. sec'[k] = sec[k] \/ sec'[k] = Deleted(k)
      BY <1>11 DEF DeleteSecret, TypeInv, SecOK
    <2> QED BY <1>2, <1>11, <2>1, DeletedType DEF DeleteSecret, podVars
  <1>12. EditPools \/ MdnsMoves \/ Parent \/ ParentFails \/ UpdateJobFinishes \/ BindEnsuresKeys
           \/ BindFails \/ UNCHANGED vars => UNCHANGED <<sts, pods, sec>>
    BY DEF EditPools, MdnsMoves, Parent, ParentReads, ParentWrites, ParentFails, UpdateJobFinishes,
       BindEnsuresKeys, BindFails, vars, secVars, podVars
  <1> HIDE DEF Good
  <1> QED BY <1>3, <1>4, <1>5, <1>6, <1>7, <1>8, <1>9, <1>10, <1>11, <1>12 DEF Next, Bind, Kubelet

\* A key is only published once the pod of its pool has loaded it.
LEMMA PublishStep ==
  ASSUME AppendOnly, TypeInv, VersionLoaded, NEW c \in Configs, EditFrom(c), ~lost,
         BindCompares, ready' = "true", ready = "false", NEW p \in Signed(cm), ids[p] # 0
  PROVE  HasKey(p, Position(cm, p))'
  <1> DEFINE k == Position(cm, p)
             h == [pools |-> bconfig, mdns |-> mdns]
  <1>1. /\ bpc = "compare" /\ Exists(0) /\ Current(h) /\ Loaded
        /\ sec' = [sec EXCEPT ![0].ver = @ + 1]
        /\ UNCHANGED <<cm, ids, sts, pods>>
    BY DEF BindCompares, podVars, worldVars
  <1>2. p \in Signed(bconfig) /\ Position(bconfig, p) = k /\ k \in Slots
    BY <1>1, SamePlace, PlaceType
  <1> HIDE DEF k
  <1>3. Exists(k) /\ sec[k].key = ids[p]
    BY <1>1, <1>2 DEF Current
  <1>4. sts[k].ver = sec[k].ver /\ pods[k] # Down /\ pods[k].tmpl = sts[k]
    BY <1>1, <1>2 DEF Loaded
  <1>5. pods[k].key = sec[k].key
    BY <1>2, <1>3, <1>4 DEF VersionLoaded
  <1>6. sts[k].tsig
    BY <1>2, <1>3, <1>4 DEF VersionLoaded
  <1>7. sec'[k].key = sec[k].key
    BY <1>1, <1>2 DEF TypeInv, SecOK, SecType
  <1>8. k' = k
    BY <1>1 DEF k
  <1> QED BY <1>1, <1>3, <1>5, <1>6, <1>7, <1>8 DEF HasKey, k

\* A published key stays published: in its Secret, which is only rewritten with
\* it, in the template, and in every pod that starts.
LEMMA HasKeyStep ==
  ASSUME AppendOnly, TypeInv, NEW c \in Configs, EditFrom(c), ~lost, ~lost', [Next]_vars, cm' = cm,
         NEW p \in Signed(cm), ids[p] # 0, keys[p] = ids[p], ids'[p] = ids[p], VersionLoaded,
         HasKey(p, Position(cm, p)), ~BindDrops
  PROVE  HasKey(p, Position(cm, p))'
  <1> DEFINE k == Position(cm, p)
  <1>1. k \in Slots /\ p \in cm /\ p \in Names /\ k' = k
    BY PlaceType
  <1>2. sec[k].key = ids[p] /\ sts[k].tsig /\ (pods[k] # Down => pods[k].key = ids[p])
    BY DEF HasKey
  <1>3. bpc # "idle" => p \in Signed(bconfig) /\ Position(bconfig, p) = k
    BY SamePlace
  <1> SUFFICES sec'[k].key = ids[p] /\ sts'[k].tsig /\ (pods'[k] # Down => pods'[k].key = ids[p])
    BY <1>1 DEF HasKey
  <1> HIDE DEF k
  <1>4. CASE UNCHANGED <<sec, sts, pods>>
    BY <1>2, <1>4
  <1>5. CASE BindApplies \/ \E n \in Slots : BindAppliesFails(n)
    <2>1. sec' = sec /\ pods' = pods
      BY <1>5 DEF BindApplies, BindAppliesFails, secVars
    <2>2. k < Cardinality(cm)
      BY <1>1, ConfigSlots DEF TypeInv, WorldOK, k
    <2>3. Tsig(k)
      BY <1>1, <1>2 DEF VersionLoaded
    <2>4. sts'[k].tsig
      <3>1. sts'[k] \in {Template(k), sts[k]}
        BY <1>1, <1>5, <2>2 DEF BindApplies, BindAppliesFails
      <3> QED BY <1>1, <1>2, <2>3, <3>1, TemplateType
    <2> QED BY <1>2, <2>1, <2>4
  <1>6. CASE BindCompares
    <2>1. sec'[k].key = sec[k].key
      BY <1>1, <1>6 DEF BindCompares, TypeInv, SecOK, SecType
    <2> QED BY <1>2, <1>6, <2>1 DEF BindCompares, podVars
  <1>7. CASE BindCleansUp
    <2>1. k < Cardinality(bconfig)
      <3>1. p \in bconfig /\ Position(bconfig, p) = k
        BY <1>3, <1>7 DEF BindCleansUp, Signed
      <3> QED BY <3>1, ConfigSlots DEF TypeInv, BindOK
    <2>2. sec'[k] = sec[k]
      BY <1>1, <1>7, <2>1 DEF BindCleansUp
    <2> QED BY <1>2, <1>7, <2>2 DEF BindCleansUp, podVars
  <1>8. CASE BindWrites
    <2>1. bpc = "write" /\ sec' = [sec EXCEPT ![idx] = Written(idx)] /\ sts' = sts /\ pods' = pods
      BY <1>8 DEF BindWrites, podVars
    <2>2. CASE idx # k
      <3>1. sec'[k] = sec[k]
        BY <1>1, <2>1, <2>2 DEF TypeInv, SecOK
      <3> QED BY <1>2, <2>1, <3>1
    <2>3. CASE idx = k
      <3>1. p \in Signed(bconfig) /\ p \in bconfig /\ Position(bconfig, p) = k
        BY <1>3, <2>1 DEF Signed
      <3>2. PoolAt(bconfig, k) = p
        BY <3>1, ConfigSlots DEF TypeInv, BindOK
      <3>3. sec'[k] = Written(k)
        BY <1>1, <2>1, <2>3 DEF TypeInv, SecOK
      <3>4. Written(k).key = KeyOf(p)
        BY <1>1, <2>1, <3>2, WrittenType
      <3>5. sec'[k].key = ids[p]
        BY <3>1, <3>3, <3>4 DEF KeyOf
      <3> QED BY <1>2, <2>1, <3>5
    <2> QED BY <2>2, <2>3
  <1>9. ASSUME NEW l \in Slots, PodStarts(l) \/ PodStops(l) \/ PodLost(l)
        PROVE  sec'[k].key = ids[p] /\ sts'[k].tsig /\ (pods'[k] # Down => pods'[k].key = ids[p])
    <2>1. sts' = sts /\ sec' = sec
      BY <1>9 DEF PodStarts, PodStops, PodLost, secVars
    <2>2. \/ pods'[k] = pods[k] \/ pods'[k] = Down
          \/ sts[k].tsig => pods'[k].key = sec[k].key
      BY <1>1, <1>9 DEF PodStarts, PodStops, PodLost, TypeInv, PodsOK
    <2> QED BY <1>2, <2>1, <2>2
  <1>10. \A l \in Slots : ~DeleteSecret(l)
    BY DEF DeleteSecret
  <1>11. EditPools \/ MdnsMoves \/ Parent \/ ParentFails \/ UpdateJobFinishes \/ BindEnsuresKeys
           \/ BindFails \/ UNCHANGED vars => UNCHANGED <<sec, sts, pods>>
    BY DEF EditPools, MdnsMoves, Parent, ParentReads, ParentWrites, ParentFails, UpdateJobFinishes,
       BindEnsuresKeys, BindFails, vars, secVars, podVars
  <1> QED BY <1>4, <1>5, <1>6, <1>7, <1>8, <1>9, <1>10, <1>11 DEF Next, Bind, Kubelet
\* Only the readiness mark publishes a key, and no step but a deletion takes a
\* published one back.
LEMMA PublishedBefore ==
  ASSUME AppendOnly, TypeInv, NEW c \in Configs, EditFrom(c), ~lost, ~lost', [Next]_vars, cm' = cm,
         NEW p \in Signed(cm), Published(p)'
  PROVE  /\ ~BindDrops
         /\ \/ Published(p) /\ ids'[p] = ids[p]
            \/ BindCompares /\ ready' = "true" /\ ready = "false" /\ ids[p] # 0
  <1>0. p \in Names /\ (Entry(p) # 0 => ids[p] = Entry(p)) /\ (ids[p] # 0 => keys[p] = ids[p])
    BY PlaceType DEF EditFrom, OneId
  <1>1. CASE BindDrops
    <2>1. bpc = "drop" /\ bconfig = {} /\ ready' = "absent" /\ UNCHANGED yaml
      BY <1>1 DEF BindDrops, EditFrom, poolVars
    <2>2. ids[p] = 0
      BY <2>1, SamePlace DEF Signed
    <2>3. Entry(p)' = 0
      BY <1>0, <2>1, <2>2 DEF Entry
    <2> QED BY <2>1, <2>3 DEF Published
  <1>2. CASE ParentWrites
    <2>1. ids' = ids /\ ready' = ready
      BY <1>2 DEF ParentWrites, secVars
    <2>2. Entry(p)' \in {0, Entry(p)} \/ (Entry(p)' = ids[p] /\ ready # "false")
      BY <1>2 DEF ParentWrites, Entry, Picked
    <2>3. ready = "absent" => ids[p] = 0
      BY <1>0 DEF EditFrom, NoIds
    <2>4. ready \in {"absent", "false", "true"}
      BY DEF TypeInv, SecOK
    <2>5. ~BindDrops
      BY <1>2 DEF ParentWrites, BindDrops, parentVars
    <2>6. Published(p)
      BY <2>1, <2>2, <2>3, <2>4 DEF Published
    <2> QED BY <2>1, <2>5, <2>6
  <1>3. CASE BindCompares
    <2>1. /\ Entry(p)' = Entry(p) /\ ids' = ids
          /\ ready' = ready \/ (ready' = "true" /\ ready = "false")
      BY <1>3 DEF BindCompares, poolVars, Entry
    <2> QED BY <1>3, <2>1 DEF Published, BindCompares, BindDrops
  <1>4. CASE BindWrites
    <2>1. Entry(p)' = Entry(p) /\ bpc = "write"
      BY <1>4 DEF BindWrites, poolVars, Entry
    <2>2. CASE UNCHANGED <<ids, ready>>
      BY <2>1, <2>2 DEF Published, BindDrops
    <2>3. CASE ids' = [q \in Names |-> KeyOf(q)] /\ ready' = "false"
      <3>1. Entry(p) # 0 /\ ids[p] # 0 /\ keys[p] = ids[p]
        BY <1>0, <2>1, <2>3 DEF Published
      <3>2. p \in Signed(bconfig)
        BY <2>1, <3>1, SamePlace
      <3>3. ids'[p] = ids[p]
        BY <1>0, <2>3, <3>1, <3>2 DEF KeyOf
      <3> QED BY <2>1, <3>1, <3>3 DEF Published, BindDrops
    <2> QED BY <1>4, <2>2, <2>3 DEF BindWrites
  <1>5. CASE UNCHANGED <<yaml, ids, ready>> /\ ~BindDrops
    <2>1. Entry(p)' = Entry(p)
      BY <1>5 DEF Entry
    <2> QED BY <1>5, <2>1 DEF Published
  <1>6. \A l \in Slots : ~DeleteSecret(l)
    BY DEF DeleteSecret
  <1>7. \A l \in Slots : PodStarts(l) \/ PodStops(l) \/ PodLost(l) => UNCHANGED <<yaml, ids, ready>>
    BY DEF PodStarts, PodStops, PodLost, secVars, poolVars
  <1>8. EditPools \/ MdnsMoves \/ ParentReads \/ ParentFails \/ UpdateJobFinishes \/ BindApplies
          \/ (\E n \in Slots : BindAppliesFails(n)) \/ BindEnsuresKeys \/ BindCleansUp \/ BindFails \/ UNCHANGED vars
          => UNCHANGED <<yaml, ids, ready>>
    BY DEF EditPools, MdnsMoves, ParentReads, ParentFails, UpdateJobFinishes, BindApplies,
       BindAppliesFails, BindEnsuresKeys, BindCleansUp, BindFails, vars, secVars, poolVars
  <1> QED BY <1>1, <1>2, <1>3, <1>4, <1>5, <1>6, <1>7, <1>8 DEF Next, Parent, Bind, Kubelet

LEMMA LoadInit == Init => LoadInv
  <1> SUFFICES ASSUME Init PROVE LoadInv
    OBVIOUS
  <1>1. VersionLoaded
    BY DEF Init, VersionLoaded, None, NoSts, Down, Exists
  <1>2. \A p \in Signed(cm) : ~Published(p)
    BY DEF Init, Published, Entry, NoPools
  <1> QED BY <1>1, <1>2 DEF LoadInv, PublishedLoaded

LEMMA LoadStep ==
  ASSUME AppendOnly, TypeInv, EditInv, LoadInv, [Next]_vars,
         EditPools => edits = 0 \/ BringsNewPools
  PROVE  LoadInv'
  <1>1. VersionLoaded /\ VersionLoaded'
    BY VersionStep DEF LoadInv
  <1>2. lost => lost'
    BY DEF Next, Parent, Bind, Kubelet, vars, EditPools, MdnsMoves, ParentReads,
       ParentWrites, ParentFails, UpdateJobFinishes, BindApplies, BindDrops, BindCompares,
       BindEnsuresKeys, BindCleansUp, BindWrites, BindFails, BindAppliesFails,
       PodStarts, PodStops, PodLost, DeleteSecret
  <1>3. PICK c \in Configs : EditFrom(c)
    BY DEF EditInv
  <1> SUFFICES ASSUME ~lost', ~lost, NEW p \in Signed(cm)', Published(p)'
               PROVE  HasKey(p, Position(cm, p))'
    BY <1>1, <1>2 DEF LoadInv, PublishedLoaded, HasKey
  <1>4. ASSUME NEW q \in Signed(cm), Published(q) PROVE HasKey(q, Position(cm, q))
    BY <1>4 DEF LoadInv, PublishedLoaded, HasKey
  <1>5. CASE EditPools
    <2>1. /\ cm \in Configs /\ cm' \in Configs
          /\ UNCHANGED <<az, yaml, ids, ready, sec, sts, pods>>
      BY <1>5 DEF EditPools, TypeInv, WorldOK, poolVars, secVars, podVars
    <2>2. p \in Signed(cm') /\ p \in cm' /\ p \in Names
      BY <2>1, ConfigSlots DEF Signed
    <2>3. Published(p)
      BY <2>1 DEF Published, Entry
    <2>4. p \in Signed(cm)
      BY <1>5, <2>3, FirstEdit DEF BringsNewPools, Published
    <2>5. Position(cm', p) = Position(cm, p)
      <3>1. p \in cm' \cap cm /\ cm \in Configs
        BY <2>1, <2>2, <2>4 DEF Signed
      <3> QED BY <2>1, <3>1 DEF AppendOnly
    <2>6. HasKey(p, Position(cm, p))
      BY <1>4, <2>3, <2>4
    <2> QED BY <2>1, <2>5, <2>6 DEF HasKey
  <1>6. CASE ~EditPools
    <2>1. cm' = cm /\ az' = az
      BY <1>6 DEF Next, Parent, Bind, Kubelet, vars, worldVars, MdnsMoves, ParentReads,
       ParentWrites, ParentFails, UpdateJobFinishes, BindApplies, BindDrops, BindCompares,
       BindEnsuresKeys, BindCleansUp, BindWrites, BindFails, BindAppliesFails,
       PodStarts, PodStops, PodLost, DeleteSecret
    <2>2. p \in Signed(cm)
      BY <2>1 DEF Signed
    <2>3. /\ ~BindDrops
          /\ \/ Published(p) /\ ids'[p] = ids[p]
             \/ BindCompares /\ ready' = "true" /\ ready = "false" /\ ids[p] # 0
      BY <1>3, <2>1, <2>2, PublishedBefore
    <2>4. CASE Published(p) /\ ids'[p] = ids[p]
      <3>1. ids[p] # 0 /\ keys[p] = ids[p]
        BY <1>3, <2>2, <2>4, PublishedIds
      <3>2. HasKey(p, Position(cm, p))
        BY <1>4, <2>2, <2>4
      <3> QED BY <1>1, <1>3, <2>1, <2>2, <2>3, <2>4, <3>1, <3>2, HasKeyStep
    <2>5. CASE BindCompares /\ ready' = "true" /\ ready = "false" /\ ids[p] # 0
      <3>1. HasKey(p, Position(cm, p))'
        BY <1>1, <1>3, <2>2, <2>5, PublishStep
      <3> QED BY <3>1
    <2> QED BY <2>3, <2>4, <2>5
  <1> QED BY <1>5, <1>6

\* While edits add and remove pools at the end of the list, one after the
\* other, whatever reconciles fail, Secrets are rewritten and pods restart: if
\* the workers sign for a pool with a key of Designate, the pod of that pool has
\* loaded it.  publishTSIGKeysWhenReady compares the versions of Secrets,
\* templates and pods before it publishes, and what is published is not taken
\* back.
THEOREM LoadedBeforeSigned == AppendOnly /\ Spec /\ EditsApart => []SignedKeysLoaded
  <1> SUFFICES ASSUME AppendOnly PROVE Spec /\ EditsApart => []SignedKeysLoaded
    OBVIOUS
  <1>1. Init => LoadInv
    BY LoadInit
  <1>2. /\ TypeInv /\ EditInv /\ LoadInv /\ [Next]_vars
        /\ [EditPools => edits = 0 \/ BringsNewPools]_vars
        => LoadInv'
    <2>1. ASSUME TypeInv, UNCHANGED vars PROVE ~EditPools
      BY <2>1 DEF vars, worldVars, EditPools
    <2> QED BY <2>1, LoadStep
  <1>3. EditInv /\ LoadInv => SignedKeysLoaded
    <2> SUFFICES ASSUME EditInv, LoadInv, ~lost, NEW p \in Signed(cm), Uses(p) # 0
                 PROVE  pods[Position(cm, p)] # Down => pods[Position(cm, p)].key = Uses(p)
      BY DEF SignedKeysLoaded
    <2>1. Entry(p) = Uses(p) /\ ids[p] = Entry(p)
      BY DEF EditInv, EditFrom, OneId
    <2>2. Published(p)
      BY <2>1 DEF Published
    <2> QED BY <2>1, <2>2 DEF LoadInv, PublishedLoaded, HasKey
  <1> QED BY <1>1, <1>2, <1>3, EditInvariance, Types, PTL DEF Spec, EditsApart

=============================================================================
