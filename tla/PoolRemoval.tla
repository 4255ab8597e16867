----------------------------- MODULE PoolRemoval -----------------------------
(***************************************************************************)
(* Adding and removing DNS pools.                                          *)
(*                                                                         *)
(* The multipool ConfigMap lists the pools.  Two controllers follow it     *)
(* independently: the Designate controller checks that removed pools have  *)
(* no zones, writes pools.yaml and runs the job that registers the pools   *)
(* with Designate; the bind9 controller keeps one StatefulSet per position *)
(* of the sorted list and retires those that are no longer expected.       *)
(***************************************************************************)
EXTENDS SortedPools

CONSTANTS
  PoolOf,        \* extractPoolNameFromStatefulSetName of each position
  Configs,       \* contents of the multipool ConfigMap; {}: there is none
  EarlyEdits,    \* pools may be edited before the first pools.yaml exists
  MaxChanges, MaxZones, MaxFaults    \* bounds

ASSUME ConstantsOK ==
  /\ Configs \subseteq SUBSET Names
  /\ \A c \in Configs : c = {} \/ Default \in c    \* validatePools
  /\ DOMAIN PoolOf = Slots
  /\ EarlyEdits \in BOOLEAN
  /\ MaxChanges \in Nat /\ MaxZones \in Nat /\ MaxFaults \in Nat

Unset == {""}              \* no list stored yet; no pool has the empty name
None == [pool |-> Default, size |-> "none", pods |-> FALSE]

VARIABLES
  \* Shared objects
  cm,            \* the multipool ConfigMap
  yaml,          \* pools of the pools.yaml ConfigMap
  db,            \* pools registered in Designate
  zones,         \* registered pools that have zones
  list,          \* the pool list job and the names it found
  update,        \* pools in the files of the running pool update jobs
  central,       \* the designate-central pods
  \* Status of the Designate CR
  known,         \* Status.Hash["multipool-pools"]
  hash,          \* Status.Hash[PoolUpdateHash]: the pools last handed to a job
  ready,         \* Status.DesignateCentralReadyCount > 0
  \* One reconcile of the Designate controller
  pc, config, lKnown, lHash,
  \* The bind9 controller and its StatefulSets
  bpc, bconfig,
  bidx,          \* StatefulSets its loop over the pools has applied
  sts,
  keys,          \* configuration the TSIG Secrets were made for
  changes, created, faults

worldVars  == <<cm, zones, created, changes>>
parentVars == <<pc, config, lKnown, lHash>>
statusVars == <<known, hash, ready>>
bindVars   == <<bpc, bconfig, bidx, sts, keys>>
vars == <<worldVars, yaml, db, list, update, central, statusVars, parentVars, bindVars,
          faults>>

NoList == [state |-> "none", names |-> {}]

Init ==
  /\ cm \in Configs /\ yaml = {} /\ db = {} /\ zones = {}
  /\ list = NoList /\ update = {} /\ central = "absent"
  /\ known = Unset /\ hash = {} /\ ready = FALSE
  /\ pc = "idle" /\ config = {} /\ lKnown = Unset /\ lHash = {}
  /\ bpc = "idle" /\ bconfig = {} /\ bidx = 0 /\ keys = {}
  /\ sts = [k \in Slots |-> None]
  /\ changes = 0 /\ created = 0 /\ faults = 0

----------------------------------------------------------------------------
(* Users, jobs and pods *)

UserEditsPools ==
  /\ changes < MaxChanges /\ changes' = changes + 1
  /\ EarlyEdits \/ yaml # {}
  /\ cm' \in Configs \ {cm}
  /\ UNCHANGED <<zones, created, yaml, db, list, update, central, statusVars,
                 parentVars, bindVars, faults>>

\* Nobody creates zones in a pool that is being removed.
UserCreatesZone(p) ==
  /\ created < MaxZones /\ created' = created + 1
  /\ p \in db \cap PoolsIn(cm) /\ p \in yaml
  /\ zones' = zones \cup {p}
  /\ UNCHANGED <<cm, changes, yaml, db, list, update, central, statusVars,
                 parentVars, bindVars, faults>>

UserDeletesZones(p) ==
  /\ p \in zones /\ zones' = zones \ {p}
  /\ UNCHANGED <<cm, created, changes, yaml, db, list, update, central,
                 statusVars, parentVars, bindVars, faults>>

\* designate-manage pool update --dry-run names the registered pools of the
\* file; it cannot start without the pools.yaml ConfigMap.
ListJobFinishes ==
  /\ list.state = "running" /\ yaml # {}
  /\ list' = [state |-> "done", names |-> db \cap yaml]
  /\ UNCHANGED <<worldVars, yaml, db, update, central, statusVars, parentVars,
                 bindVars, faults>>

\* The deadline of a job that cannot start, the time to live of a finished one.
ListJobExpires ==
  /\ list.state = "done" \/ (list.state = "running" /\ yaml = {})
  /\ list' = NoList
  /\ UNCHANGED <<worldVars, yaml, db, update, central, statusVars, parentVars,
                 bindVars, faults>>

\* designate-manage pool update without --delete: pools are never unregistered.
UpdateJobFinishes ==
  /\ update # {} /\ update' = {}
  /\ db' = db \cup update
  /\ UNCHANGED <<worldVars, yaml, list, central, statusVars, parentVars,
                 bindVars, faults>>

UpdateJobFails ==
  /\ update # {} /\ update' = {}
  /\ faults < MaxFaults /\ faults' = faults + 1
  /\ UNCHANGED <<worldVars, yaml, db, list, central, statusVars, parentVars,
                 bindVars>>

CentralStarts ==
  /\ central = "starting" /\ central' = "running"
  /\ UNCHANGED <<worldVars, yaml, db, list, update, statusVars, parentVars,
                 bindVars, faults>>

\* ListPoolsFromJob creates the job if there is none; until it has finished
\* there is no answer.
ListStarted == IF list.state = "none" THEN [list EXCEPT !.state = "running"] ELSE list

----------------------------------------------------------------------------
(* The Designate controller *)

ParentReset ==
  pc' = "idle" /\ config' = {} /\ lKnown' = Unset /\ lHash' = {}

\* The deferred patch of the status at the end of every reconcile.
ParentEnds == ParentReset /\ known' = lKnown /\ hash' = lHash

ParentReads ==
  /\ pc = "idle" /\ pc' = "validate"
  /\ config' = cm /\ lKnown' = known /\ lHash' = hash
  /\ UNCHANGED <<worldVars, yaml, db, list, update, central, statusVars,
                 bindVars, faults>>

Removed == IF lKnown = Unset THEN {} ELSE lKnown \ config

\* The removal is accepted: the new list is stored.
ParentAccepts ==
  /\ pc' = "write" /\ lKnown' = config
  /\ UNCHANGED <<config, lHash, list, statusVars>>

\* Mutant: while the job has no answer the removal goes ahead.
ParentValidates_Optimistic ==
  /\ pc = "validate"
  /\ \/ /\ Removed # {} /\ list.state = "done"
        /\ Removed \cap list.names \cap zones # {}
        /\ ParentEnds /\ UNCHANGED <<list, ready>>
     \/ /\ Removed = {} \/ list.state # "done" \/ Removed \cap list.names \cap zones = {}
        /\ ParentAccepts
  /\ UNCHANGED <<worldVars, yaml, db, update, central, bindVars, faults>>

\* validatePoolRemovals.  A list job that found no pool at all is an error.
ParentValidates ==
  /\ pc = "validate"
  /\ \/ Removed = {} /\ ParentAccepts
     \/ /\ Removed # {} /\ list.state # "done"
        /\ list' = ListStarted /\ ParentEnds /\ UNCHANGED ready
     \/ /\ Removed # {} /\ list.state = "done"
        /\ list.names = {} \/ Removed \cap list.names \cap zones # {}
        /\ ParentEnds /\ UNCHANGED <<list, ready>>
     \/ /\ Removed # {} /\ list.state = "done"
        /\ list.names # {} /\ Removed \cap list.names \cap zones = {}
        /\ ParentAccepts
  /\ UNCHANGED <<worldVars, yaml, db, update, central, bindVars, faults>>

\* Mutant: without a multipool ConfigMap the default pool is forgotten.
ParentWritesYaml_NoDefault ==
  /\ pc = "write"
  /\ \/ ready /\ yaml' = config /\ pc' = "update"
     \/ ~ready /\ pc' = "deploy" /\ UNCHANGED yaml
  /\ UNCHANGED <<worldVars, db, list, update, central, statusVars, config,
                 lKnown, lHash, bindVars, faults>>

\* pools.yaml is written once designate-central is ready.
ParentWritesYaml ==
  /\ pc = "write"
  /\ \/ ready /\ yaml' = PoolsIn(config) /\ pc' = "update"
     \/ ~ready /\ pc' = "deploy" /\ UNCHANGED yaml
  /\ UNCHANGED <<worldVars, db, list, update, central, statusVars, config,
                 lKnown, lHash, bindVars, faults>>

\* Mutant: the new hash is stored although no job was created.
ParentUpdates_NoJob ==
  /\ pc = "update" /\ pc' = "deploy" /\ lHash' = yaml
  /\ UNCHANGED <<worldVars, yaml, db, list, update, central, statusVars, config,
                 lKnown, bindVars, faults>>

\* A changed pools.yaml starts a job; its hash is stored without waiting.
ParentUpdates ==
  /\ pc = "update" /\ pc' = "deploy" /\ lHash' = yaml
  /\ update' = IF lHash # yaml THEN update \cup yaml ELSE update
  /\ UNCHANGED <<worldVars, yaml, db, list, central, statusVars, config, lKnown,
                 bindVars, faults>>

\* designate-central is deployed and its ready count copied to the status.
ParentDeploys ==
  /\ pc = "deploy" /\ ParentEnds
  /\ central' = IF central = "absent" THEN "starting" ELSE central
  /\ ready' = (central = "running")
  /\ UNCHANGED <<worldVars, yaml, db, list, update, bindVars, faults>>

\* An API error, or the end of the operator process.
ParentFails ==
  /\ pc # "idle" /\ faults < MaxFaults /\ faults' = faults + 1
  /\ \/ ParentEnds /\ UNCHANGED ready
     \/ ParentReset /\ UNCHANGED statusVars
  /\ UNCHANGED <<worldVars, yaml, db, list, update, central, bindVars>>

----------------------------------------------------------------------------
(* The bind9 controller *)

Bind9Reset == bpc' = "idle" /\ bconfig' = {} /\ bidx' = 0

Bind9Reads ==
  /\ bpc = "idle" /\ bconfig' = cm /\ bidx' = 0
  /\ bpc' = IF cm = {} THEN "cleanup" ELSE "apply"
  /\ UNCHANGED <<worldVars, yaml, db, list, update, central, statusVars,
                 parentVars, sts, keys, faults>>

\* The StatefulSet of position k is created or patched for the pool there.
Applied(k) ==
  [sts EXCEPT ![k] = [@ EXCEPT !.pool = PoolAt(PoolsIn(bconfig), k), !.size = "up"]]

\* reconcileMultipoolStatefulSets goes through the pools in order; an error
\* (Bind9Fails) leaves the later positions as they were.
Bind9Applies ==
  /\ bpc = "apply" /\ sts' = Applied(bidx) /\ bidx' = bidx + 1
  /\ bpc' = IF bidx' < Cardinality(PoolsIn(bconfig)) THEN "apply" ELSE "cleanup"
  /\ UNCHANGED <<worldVars, yaml, db, list, update, central, statusVars,
                 parentVars, bconfig, keys, faults>>

\* Mutant: one StatefulSet too many is taken for an orphan.
Orphans_OffByOne(c) ==
  {k \in Slots : k > 0 /\ k + 1 >= Cardinality(PoolsIn(c)) /\ sts[k].size # "none"}

Orphans(c) == {k \in Slots : k >= Cardinality(PoolsIn(c)) /\ sts[k].size # "none"}

\* checkPoolHasZones, with the name the StatefulSet's position stands for.
HasZones(name) ==
  name \in yaml /\ list.state = "done" /\ name \in list.names \cap zones

\* Mutant: an orphan with no pods is kept.
Retired_Keeps(s) == [s EXCEPT !.size = "zero"]

\* An orphan is scaled to 0, left alone while its pods go, then deleted.
Retired(s) ==
  CASE s.size = "up" -> [s EXCEPT !.size = "zero"]
    [] s.size = "zero" /\ s.pods -> s
    [] OTHER -> None

\* One orphan per reconcile, the first of the (unordered) list.  In single-pool
\* mode the one StatefulSet is applied, and the TSIG Secrets are deleted, once
\* there is no orphan left.
Bind9CleansUp ==
  /\ bpc = "cleanup"
  /\ \/ /\ Orphans(bconfig) = {}
        /\ sts' = IF bconfig = {} THEN Applied(0) ELSE sts
        /\ keys' = IF bconfig = {} THEN {} ELSE keys
        /\ UNCHANGED list
     \/ \E k \in Orphans(bconfig) :
          /\ list' = IF PoolOf[k] \in yaml THEN ListStarted ELSE list
          /\ sts' = IF HasZones(PoolOf[k]) THEN sts
                    ELSE [sts EXCEPT ![k] = Retired(@)]
          /\ UNCHANGED keys
  /\ bpc' = (IF bconfig = {} THEN "idle" ELSE "keys") /\ UNCHANGED <<bconfig, bidx>>
  /\ UNCHANGED <<worldVars, yaml, db, update, central, statusVars, parentVars,
                 faults>>

\* Every pool but the default one needs a TSIG key.
NeedKeys(c) == c \ {Default}

\* A changed configuration needs the pools' ids: a finished list job that lacks
\* one of them is deleted, so that the next one sees it.
Bind9Keys ==
  /\ bpc = "keys" /\ Bind9Reset
  /\ \/ /\ keys = bconfig \/ NeedKeys(bconfig) = {}
        /\ keys' = bconfig /\ UNCHANGED list
     \/ /\ keys # bconfig /\ NeedKeys(bconfig) # {} /\ list.state # "done"
        /\ list' = ListStarted /\ UNCHANGED keys
     \/ /\ keys # bconfig /\ list.state = "done" /\ ~(NeedKeys(bconfig) \subseteq list.names)
        /\ list' = NoList /\ UNCHANGED keys
     \/ /\ keys # bconfig /\ NeedKeys(bconfig) # {}
        /\ list.state = "done" /\ NeedKeys(bconfig) \subseteq list.names
        /\ keys' = bconfig /\ UNCHANGED list
  /\ UNCHANGED <<worldVars, yaml, db, update, central, statusVars, parentVars,
                 sts, faults>>

Bind9Fails ==
  /\ bpc # "idle" /\ faults < MaxFaults /\ faults' = faults + 1
  /\ Bind9Reset
  /\ UNCHANGED <<worldVars, yaml, db, list, update, central, statusVars,
                 parentVars, sts, keys>>

\* The StatefulSet controller.
PodsFollow(k) ==
  /\ sts[k].size # "none" /\ sts[k].pods # (sts[k].size = "up")
  /\ sts' = [sts EXCEPT ![k].pods = (sts[k].size = "up")]
  /\ UNCHANGED <<worldVars, yaml, db, list, update, central, statusVars,
                 parentVars, bpc, bconfig, bidx, keys, faults>>

----------------------------------------------------------------------------

Parent ==
  \/ ParentReads \/ ParentValidates \/ ParentWritesYaml \/ ParentUpdates
  \/ ParentDeploys
Bind9 == Bind9Reads \/ Bind9Applies \/ Bind9CleansUp \/ Bind9Keys
User ==
  \/ UserEditsPools
  \/ \E p \in Names : UserCreatesZone(p) \/ UserDeletesZones(p)
Jobs ==
  \/ ListJobFinishes \/ ListJobExpires \/ UpdateJobFinishes \/ UpdateJobFails
  \/ CentralStarts

Next ==
  \/ Parent \/ ParentFails \/ Bind9 \/ Bind9Fails \/ User \/ Jobs
  \/ \E k \in Slots : PodsFollow(k)

Spec == Init /\ [][Next]_vars

\* Both controllers requeue for as long as something is pending, jobs end and
\* expire, and Kubernetes starts and stops the pods.  Users owe nothing.
FairSpec ==
  /\ Spec /\ WF_vars(Parent) /\ WF_vars(Bind9)
  /\ WF_vars(ListJobFinishes) /\ WF_vars(ListJobExpires)
  /\ WF_vars(UpdateJobFinishes) /\ WF_vars(CentralStarts)
  /\ \A k \in Slots : WF_vars(PodsFollow(k))

----------------------------------------------------------------------------
(* Properties *)

\* Types; the default pool is in every pools.yaml, and pools are only
\* registered from one.
TypeOK ==
  /\ cm \in Configs /\ config \in Configs \cup {{}} /\ bconfig \in Configs \cup {{}}
  /\ yaml \subseteq Names /\ db \subseteq Names /\ zones \subseteq db
  /\ yaml # {} => Default \in yaml
  /\ db # {} => yaml # {}
  /\ list \in [state : {"none", "running", "done"}, names : SUBSET Names]
  /\ update \subseteq Names /\ central \in {"absent", "starting", "running"}
  /\ known \in (SUBSET Names) \cup {Unset} /\ lKnown \in (SUBSET Names) \cup {Unset}
  /\ ready \in BOOLEAN /\ hash \subseteq Names /\ lHash \subseteq Names
  /\ pc \in {"idle", "validate", "write", "update", "deploy"}
  /\ bpc \in {"idle", "apply", "cleanup", "keys"} /\ keys \in Configs \cup {{}}
  /\ bidx \in 0 .. Cardinality(PoolsIn(bconfig))
  /\ bpc = "apply" => bidx < Cardinality(PoolsIn(bconfig))
  /\ sts \in [Slots -> [pool : Names, size : {"none", "up", "zero"}, pods : BOOLEAN]]
  /\ changes \in 0 .. MaxChanges /\ created \in 0 .. MaxZones
  /\ faults \in 0 .. MaxFaults

\* validatePoolRemovals: a pool that has zones stays in pools.yaml.  (If the
\* pools are edited once: a second edit may bring a pool back, and a zone into
\* it, between the check and the write.)
YamlKeepsZonedPools == [][yaml \cap zones \subseteq yaml']_vars

Served(p) == \E k \in Slots : sts[k].size = "up" /\ sts[k].pool = p

\* The loop of the bind9 controller will give p a later position than it has: a
\* pool was added before it in the sorted list.
PushedBack(p) ==
  /\ bpc = "apply"
  /\ \A k \in Slots : sts[k].size = "up" /\ sts[k].pool = p => k < Position(PoolsIn(bconfig), p)

\* A pool that stays configured keeps a StatefulSet while the removal of others
\* renumbers them, wherever the loop or the cleanup after it is cut short: it is
\* without one only while the loop makes room for a pool added before it.  (If
\* the default pool sorts first: back in single-pool mode the StatefulSets of
\* later positions are retired before that of position 0 is given to it.)
KeptPoolsServed ==
  [][\A p \in PoolsIn(cm) \cap PoolsIn(cm)' :
       Served(p) => Served(p)' \/ PushedBack(p)]_vars

\* A pool that has zones is never without a StatefulSet: cleanup checks for
\* zones before it scales one down.
ZonedPoolsServed ==
  [][\A p \in zones \cap zones' : Served(p) => Served(p)']_vars

\* In the end every configured pool has the StatefulSet of its position, also
\* one that was pushed back, and removed pools are cleaned up: there is no other
\* StatefulSet, once nobody has zones in a removed pool.
OrphansRemoved ==
  \/ <>[](\E p \in zones : p \notin PoolsIn(cm))
  \/ <>[](Orphans(cm) = {} /\ \A p \in PoolsIn(cm) :
                                 sts[Position(PoolsIn(cm), p)].size = "up" /\
                                 sts[Position(PoolsIn(cm), p)].pool = p)

\* Every configured pool is registered with Designate in the end, unless a
\* removed pool with zones keeps blocking the reconcile.
PoolsRegistered ==
  <>[](\E p \in zones : p \notin PoolsIn(cm)) \/ <>[](PoolsIn(cm) \subseteq db)

=============================================================================
