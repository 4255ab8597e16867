------------------------------ MODULE TsigKeys ------------------------------
(***************************************************************************)
(* Per-pool TSIG keys.                                                     *)
(*                                                                         *)
(* The bind9 controller creates one key per pool in Designate, writes one  *)
(* Secret per pool for BIND, waits until the StatefulSets have loaded them *)
(* and then publishes the ids of the keys: it sets tsig-keys-ready on the  *)
(* canonical Secret, the one of position 0.  The Designate controller puts *)
(* published ids into pools.yaml, and a pool update job hands them to the  *)
(* workers, which sign with them from then on.                             *)
(***************************************************************************)
EXTENDS Integers, SortedPools

CONSTANTS
  Configs,       \* contents of the multipool ConfigMap; {}: there is none
  AzModes,       \* values of Spec.AZAwareMode that occur
  MaxEdits,      \* bounds: edits of the multipool ConfigMap,
  MaxTouches,    \* changes of the mDNS addresses and deleted Secrets,
  MaxFaults      \* failed calls and lost pods

ASSUME ConstantsOK ==
  /\ \A c \in Configs : c \subseteq Names /\ (c # {} => Default \in c)
  /\ AzModes \subseteq BOOLEAN
  /\ MaxEdits \in Nat /\ MaxTouches \in Nat /\ MaxFaults \in Nat

VARIABLES
  cm, az, mdns,         \* pools, AZ mode and version of the mDNS addresses
  keys, made,           \* id of each pool's key in Designate, 0: none; ids used
  sec,                  \* per position: the TSIG Secret
  ids, ready,           \* canonical Secret: ids of the keys, tsig-keys-ready
  sts, pods,            \* per position: pod template, and its pod
  yaml, job, live,      \* pools.yaml, pool update job due, ids the workers use
  pc, config,           \* reconcile of the Designate controller
  bpc, bconfig, bhash, idx,   \* reconcile of the bind9 controller
  edits, touches, faults, lost

worldVars == <<cm, az, mdns, edits, touches>>
keyVars == <<keys, made>>
secVars == <<sec, ids, ready>>
podVars == <<sts, pods>>
poolVars == <<yaml, job, live>>
parentVars == <<pc, config>>
bindVars == <<bpc, bconfig, bhash, idx>>
vars == <<worldVars, keyVars, secVars, podVars, poolVars, parentVars, bindVars,
          faults, lost>>

\* Pools that need a key.
Signed(c) == IF az THEN c ELSE c \ {Default}

NoPools == [p \in {} |-> 0]
NoIds == [p \in Names |-> 0]
NoHash == [pools |-> {}, mdns |-> 0]

\* A Secret that does not exist has no hash.  Versions are not used again.
None == [ver |-> 0, key |-> 0, hash |-> NoHash]
Exists(k) == sec[k].hash # NoHash
Deleted(k) == [sec[k] EXCEPT !.key = 0, !.hash = NoHash]

NoSts == [ver |-> -1, tsig |-> FALSE]
Down == [tmpl |-> NoSts, key |-> 0, mdns |-> 0]

Init ==
  /\ cm \in Configs /\ az \in AzModes /\ mdns = 1
  /\ keys = NoIds /\ made = 0
  /\ sec = [k \in Slots |-> None] /\ ids = NoIds /\ ready = "absent"
  /\ sts = [k \in Slots |-> NoSts] /\ pods = [k \in Slots |-> Down]
  /\ yaml = NoPools /\ job = FALSE /\ live = NoPools
  /\ pc = "idle" /\ config = {}
  /\ bpc = "idle" /\ bconfig = {} /\ bhash = NoHash /\ idx = 0
  /\ edits = 0 /\ touches = 0 /\ faults = 0 /\ lost = FALSE

----------------------------------------------------------------------------
(* Users and the addresses of mDNS *)

EditPools ==
  /\ edits < MaxEdits /\ edits' = edits + 1
  /\ cm' \in Configs \ {cm}
  /\ UNCHANGED <<az, mdns, touches, keyVars, secVars, podVars, poolVars, parentVars,
                 bindVars, faults, lost>>

MdnsMoves ==
  /\ touches < MaxTouches /\ touches' = touches + 1 /\ mdns' = mdns + 1
  /\ UNCHANGED <<cm, az, edits, keyVars, secVars, podVars, poolVars, parentVars,
                 bindVars, faults, lost>>

\* Somebody deletes a TSIG Secret.
DeleteSecret(k) ==
  /\ touches < MaxTouches /\ touches' = touches + 1
  /\ Exists(k) /\ sec' = [sec EXCEPT ![k] = Deleted(k)] /\ lost' = TRUE
  /\ IF k = 0 THEN ids' = NoIds /\ ready' = "absent" ELSE UNCHANGED <<ids, ready>>
  /\ UNCHANGED <<cm, az, mdns, edits, keyVars, podVars, poolVars, parentVars,
                 bindVars, faults>>

(* The Designate controller *)

ParentReads ==
  /\ pc = "idle" /\ pc' = "write" /\ config' = cm
  /\ UNCHANGED <<worldVars, keyVars, secVars, podVars, poolVars, bindVars, faults, lost>>

\* Mutant: ids that are not published are left out.
Picked_DropsPending(p) ==
  IF p \notin Signed(config) \/ ready # "true" THEN 0 ELSE ids[p]

\* Published ids, or those of the last pools.yaml while new ones are pending.
Picked(p) ==
  CASE p \notin Signed(config) -> 0
    [] p \in Signed(config) /\ ready = "false" -> IF p \in DOMAIN yaml THEN yaml[p] ELSE 0
    [] p \in Signed(config) /\ ready # "false" -> ids[p]

\* A changed pools.yaml starts the pool update job.
ParentWrites ==
  /\ pc = "write" /\ pc' = "idle" /\ config' = {}
  /\ yaml' = [p \in PoolsIn(config) |-> Picked(p)]
  /\ job' = (job \/ yaml' # yaml)
  /\ UNCHANGED <<worldVars, keyVars, secVars, podVars, live, bindVars, faults, lost>>

ParentFails ==
  /\ pc # "idle" /\ faults < MaxFaults /\ faults' = faults + 1
  /\ pc' = "idle" /\ config' = {}
  /\ UNCHANGED <<worldVars, keyVars, secVars, podVars, poolVars, bindVars, lost>>

\* designate-manage pool update registers pools and never removes one.
UpdateJobFinishes ==
  /\ job /\ job' = FALSE
  /\ live' = [p \in DOMAIN yaml \cup DOMAIN live |->
                IF p \in DOMAIN yaml THEN yaml[p] ELSE live[p]]
  /\ UNCHANGED <<worldVars, keyVars, secVars, podVars, yaml, parentVars, bindVars,
                 faults, lost>>

(* The bind9 controller *)

Idle == bpc' = "idle" /\ bconfig' = {} /\ bhash' = NoHash /\ idx' = 0

Tsig(k) == az \/ k > 0

\* The template carries the version of the Secret.
Template(k) == [ver |-> IF Tsig(k) /\ Exists(k) THEN sec[k].ver ELSE 0, tsig |-> Tsig(k)]

\* reconcileMultipoolStatefulSets, and the cleanup of those past the last pool.
\* Without a ConfigMap the numbered StatefulSets go first.
BindApplies ==
  /\ bpc = "idle" /\ bconfig' = cm /\ bpc' = (IF cm = {} THEN "drop" ELSE "compare")
  /\ sts' = [k \in Slots |-> CASE k < Cardinality(cm) -> Template(k)
                               [] cm = {} /\ k = 0 -> sts[k]
                               [] OTHER -> NoSts]
  /\ UNCHANGED <<worldVars, keyVars, secVars, pods, poolVars, parentVars, bhash, idx,
                 faults, lost>>

\* An error in its loop leaves position n and the later ones as they were.
BindAppliesFails(n) ==
  /\ bpc = "idle" /\ n < Cardinality(cm) /\ faults < MaxFaults /\ faults' = faults + 1
  /\ sts' = [k \in Slots |-> IF k < n THEN Template(k) ELSE sts[k]]
  /\ UNCHANGED <<worldVars, keyVars, secVars, pods, poolVars, parentVars, bindVars, lost>>

\* cleanupMultipoolTSIGSecrets: the keys of the pools stay in Designate.
BindDrops ==
  /\ bpc = "drop" /\ Idle
  /\ sec' = [k \in Slots |-> Deleted(k)] /\ ids' = NoIds /\ ready' = "absent"
  /\ sts' = [sts EXCEPT ![0] = [ver |-> 0, tsig |-> FALSE]]
  /\ UNCHANGED <<worldVars, keyVars, pods, poolVars, parentVars, faults, lost>>

\* Mutant: only the hash of the canonical Secret is compared.
Current_HashOnly(h) == sec[0].hash = h

\* perPoolTSIGSecretsCurrent.
Current(h) ==
  /\ sec[0].hash = h
  /\ az \/ (ids[Default] = 0 /\ sec[0].key = 0)
  /\ \A p \in Signed(bconfig) :
       LET s == sec[Position(bconfig, p)]
       IN Exists(Position(bconfig, p)) /\ ids[p] # 0 /\ s.key = ids[p] /\ s.hash = h

\* Mutant: any running pod will do.
Loaded_AnyVersion == \A p \in Signed(bconfig) : pods[Position(bconfig, p)] # Down

\* Every StatefulSet has the version of its Secret and has rolled it out.
Loaded ==
  \A p \in Signed(bconfig) :
    LET k == Position(bconfig, p)
    IN sts[k].ver = sec[k].ver /\ pods[k] # Down /\ pods[k].tmpl = sts[k]

\* If all Secrets are current, publishTSIGKeysWhenReady; its patch gives the
\* canonical Secret a new version.
BindCompares ==
  LET h == [pools |-> bconfig, mdns |-> mdns]
      current == Exists(0) /\ Current(h)
  IN /\ bpc = "compare"
     /\ \/ /\ current /\ ready = "false" /\ Loaded /\ Idle /\ ready' = "true"
           /\ sec' = [sec EXCEPT ![0].ver = @ + 1]
        \/ /\ current /\ (ready = "true" \/ ~Loaded) /\ Idle
           /\ UNCHANGED <<ready, sec>>
        \/ /\ ~current /\ bhash' = h /\ bpc' = "keys"
           /\ UNCHANGED <<ready, sec, bconfig, idx>>
     /\ UNCHANGED <<worldVars, keyVars, ids, podVars, poolVars, parentVars, faults, lost>>

Missing == {p \in Signed(bconfig) : keys[p] = 0}

\* ensurePerPoolTSIGKeys, one key at a time, once all pools are registered.
BindEnsuresKeys ==
  /\ bpc = "keys"
  /\ \/ /\ ~(Signed(bconfig) \subseteq DOMAIN live) /\ Idle /\ UNCHANGED keyVars
     \/ /\ Signed(bconfig) \subseteq DOMAIN live /\ Missing # {}
        /\ LET p == PoolAt(Missing, 0)
           IN keys' = [keys EXCEPT ![p] = made + 1] /\ made' = made + 1
        /\ UNCHANGED bindVars
     \/ /\ Signed(bconfig) \subseteq DOMAIN live /\ Missing = {} /\ bpc' = "clean"
        /\ UNCHANGED <<keyVars, bconfig, bhash, idx>>
  /\ UNCHANGED <<worldVars, secVars, podVars, poolVars, parentVars, faults, lost>>

\* cleanupOrphanedPerPoolTSIGKeys and cleanupOrphanedPerPoolTSIGSecrets; the
\* reconcile goes on when one of them fails.
BindCleansUp ==
  LET size == Cardinality(bconfig)
      keysLeft == [p \in Names |-> IF p \in bconfig THEN keys[p] ELSE 0]
      secLeft == [k \in Slots |-> IF k < size THEN sec[k] ELSE Deleted(k)]
  IN /\ bpc = "clean" /\ bpc' = "write" /\ idx' = size - 1
     /\ \/ keys' = keysLeft /\ sec' = secLeft /\ UNCHANGED faults
        \/ /\ faults < MaxFaults /\ faults' = faults + 1
           /\ keys' \in {keys, keysLeft} /\ sec' \in {sec, secLeft}
     /\ UNCHANGED <<worldVars, made, ids, ready, podVars, poolVars, parentVars, bconfig,
                    bhash, lost>>

KeyOf(p) == IF p \in Signed(bconfig) THEN keys[p] ELSE 0

\* createOrUpdatePerPoolTSIGSecret; an unchanged Secret keeps its version.
Written(k) ==
  LET s == [sec[k] EXCEPT !.key = KeyOf(PoolAt(bconfig, k)), !.hash = bhash]
  IN IF s = sec[k] /\ (k > 0 \/ ready = "false") THEN s ELSE [s EXCEPT !.ver = @ + 1]

\* Mutant: the loop goes on past the canonical Secret.
BindWrites_PastZero ==
  /\ bpc = "write" /\ sec' = [sec EXCEPT ![idx] = Written(idx)] /\ idx' = idx - 1
  /\ IF idx = 0 THEN ids' = [p \in Names |-> KeyOf(p)] /\ ready' = "false"
     ELSE UNCHANGED <<ids, ready>>
  /\ UNCHANGED <<worldVars, keyVars, podVars, poolVars, parentVars, bpc, bconfig, bhash,
                 faults, lost>>

\* One Secret at a time, the canonical one last.
BindWrites ==
  /\ bpc = "write" /\ sec' = [sec EXCEPT ![idx] = Written(idx)]
  /\ \/ idx > 0 /\ idx' = idx - 1 /\ UNCHANGED <<ids, ready, bpc, bconfig, bhash>>
     \/ idx = 0 /\ ids' = [p \in Names |-> KeyOf(p)] /\ ready' = "false" /\ Idle
  /\ UNCHANGED <<worldVars, keyVars, podVars, poolVars, parentVars, faults, lost>>

\* An error or a restart; the controller has no other memory.
BindFails ==
  /\ bpc # "idle" /\ faults < MaxFaults /\ faults' = faults + 1 /\ Idle
  /\ UNCHANGED <<worldVars, keyVars, secVars, podVars, poolVars, parentVars, lost>>

(* Pods *)

\* init.sh includes the keys if the Secret, an optional volume, is there.
PodStarts(k) ==
  /\ pods[k] = Down /\ sts[k] # NoSts
  /\ pods' = [pods EXCEPT ![k] =
                [tmpl |-> sts[k], key |-> IF sts[k].tsig THEN sec[k].key ELSE 0,
                 mdns |-> IF sts[k].tsig THEN sec[k].hash.mdns ELSE 0]]
  /\ UNCHANGED <<worldVars, keyVars, secVars, sts, poolVars, parentVars, bindVars, faults,
                 lost>>

PodStops(k) ==
  /\ pods[k] # Down /\ pods[k].tmpl # sts[k] /\ pods' = [pods EXCEPT ![k] = Down]
  /\ UNCHANGED <<worldVars, keyVars, secVars, sts, poolVars, parentVars, bindVars, faults,
                 lost>>

PodLost(k) ==
  /\ pods[k] # Down /\ pods' = [pods EXCEPT ![k] = Down]
  /\ faults < MaxFaults /\ faults' = faults + 1
  /\ UNCHANGED <<worldVars, keyVars, secVars, sts, poolVars, parentVars, bindVars, lost>>

----------------------------------------------------------------------------

Parent == ParentReads \/ ParentWrites
Bind ==
  \/ BindApplies \/ BindDrops \/ BindCompares \/ BindEnsuresKeys \/ BindCleansUp
  \/ BindWrites
Kubelet == \E k \in Slots : PodStarts(k) \/ PodStops(k)

Next ==
  \/ Parent \/ Bind \/ UpdateJobFinishes \/ Kubelet
  \/ EditPools \/ MdnsMoves \/ ParentFails \/ BindFails
  \/ \E k \in Slots : DeleteSecret(k) \/ PodLost(k) \/ BindAppliesFails(k)

Spec == Init /\ [][Next]_vars

\* Both controllers requeue while keys are pending, the job ends and pods
\* follow their StatefulSet.
FairSpec ==
  Spec /\ WF_vars(Parent) /\ WF_vars(Bind) /\ WF_vars(UpdateJobFinishes)
       /\ WF_vars(Kubelet)

----------------------------------------------------------------------------
(* Properties *)

\* Types; ids are only those of keys that were created.
TypeOK ==
  /\ cm \in Configs /\ config \in Configs \cup {{}} /\ bconfig \in Configs \cup {{}}
  /\ az \in AzModes /\ mdns \in 1 .. MaxTouches + 1
  /\ {keys, ids} \subseteq [Names -> 0 .. made] /\ made \in Nat
  /\ DOMAIN sec = Slots /\ \A k \in Slots : sec[k].key \in 0 .. made /\ sec[k].ver \in Nat
  /\ ready \in {"absent", "false", "true"} /\ (ready = "absent" <=> ~Exists(0))
  /\ DOMAIN sts = Slots /\ DOMAIN pods = Slots
  /\ DOMAIN yaml \subseteq Names /\ DOMAIN live \subseteq Names
  /\ \A p \in DOMAIN live : live[p] \in 0 .. made
  /\ pc \in {"idle", "write"}
  /\ bpc \in {"idle", "drop", "compare", "keys", "clean", "write"}
  /\ idx \in Slots /\ {job, lost} \subseteq BOOLEAN

Uses(p) == IF p \in DOMAIN live THEN live[p] ELSE 0

\* Workers sign with a valid key only if the BIND of that pool has loaded it:
\* between the two lie the Secrets, the rollout, the readiness mark, pools.yaml
\* and the job.  (As long as nobody deletes a Secret; pools are added and
\* removed at the end of the list.)
SignedKeysLoaded ==
  ~lost => \A p \in Signed(cm) :
             LET pod == pods[Position(cm, p)]
             IN Uses(p) # 0 /\ Uses(p) = keys[p] /\ pod # Down => pod.key = Uses(p)

\* A pool that stays configured keeps the identity its workers use, while
\* Secrets are rewritten, rollouts are pending and reconciles fail.
KeysStable ==
  [][~lost' => \A p \in Signed(cm) \cap Signed(cm)' : Uses(p) # 0 => Uses(p)' = Uses(p)]_vars

\* In the end every pool that needs one has a key, BIND has loaded it with the
\* current mDNS addresses and the workers use it, and no other pool has one;
\* pools wait for keys, keys for registered pools, ids for the rollout.
KeysInUse ==
  <>[](\A p \in cm :
         IF p \in Signed(cm)
           THEN LET pod == pods[Position(cm, p)]
                IN keys[p] # 0 /\ Uses(p) = keys[p] /\ pod.key = keys[p] /\ pod.mdns = mdns
           ELSE Uses(p) = 0)
=============================================================================
