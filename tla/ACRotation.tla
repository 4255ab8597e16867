----------------------------- MODULE ACRotation -----------------------------
(***************************************************************************)
(* Keystone application credentials of designate-api.                      *)
(*                                                                         *)
(* keystone-operator issues a credential in a Secret of its own and        *)
(* revokes a superseded one as soon as its Secret carries no consumer      *)
(* finalizer.  The DesignateAPI controller renders the credential its spec *)
(* names into the config Secret of the pods, holds the Secret's finalizer, *)
(* rolls the pods out and releases the credential it has tracked so far.   *)
(* Credentials are numbers in the order they are issued; 0 stands for      *)
(* password authentication.                                                *)
(***************************************************************************)
EXTENDS Integers, FiniteSets

CONSTANTS
  Pods,          \* replicas of designate-api
  MaxCreds,      \* bound: credentials issued
  MaxFaults,     \* bound: failed calls, restarts of the operator or a pod
  Overlap,       \* may credentials change before the last change has settled?
  LongOutages    \* may two reconciles in a row miss the password Secret?

ASSUME ConstantsOK ==
  IsFiniteSet(Pods) /\ MaxCreds \in Nat /\ MaxFaults \in Nat 
  /\ Overlap \in BOOLEAN /\ LongOutages \in BOOLEAN

VARIABLES
  \* Keystone and the DesignateAPI CR
  issued, current,   \* credentials issued so far; the valid one
  revoked,           \* credentials that no longer work, their Secrets deleted
  fin,               \* credentials whose Secret carries the consumer finalizer
  life,              \* the CR: "live", "deleting" or "gone"
  spec, seen,        \* Spec.Auth.ApplicationCredentialSecret, and in the cache
  tracked,           \* Status.ApplicationCredentialSecret
  hash,              \* Status.Hash
  \* The workload
  config,            \* credential in the rendered config Secret
  tmpl,              \* input hash of the pod template; None: no Deployment
  pods,              \* per pod the template and the credential it has loaded
  \* The running reconcile
  pc, new, old, input, ready,
  faults

None == -1
Bare == -2     \* the hash of an input without a rendered config
Down == [tmpl |-> None, cred |-> 0]
Creds == 1 .. issued

keystoneVars == <<issued, current, revoked>>
crVars == <<life, spec, seen>>
statusVars == <<tracked, hash>>
podVars == <<config, tmpl, pods>>
passVars == <<pc, new, old, input, ready>>
vars == <<keystoneVars, fin, crVars, statusVars, podVars, passVars, faults>>

Init ==
  /\ issued = 0 /\ current = 0 /\ revoked = {} /\ fin = {}
  /\ life = "live" /\ spec = 0 /\ seen = 0 /\ tracked = 0 /\ hash = None
  /\ config = 0 /\ tmpl = None /\ pods = [p \in Pods |-> Down]
  /\ pc = "idle" /\ new = 0 /\ old = 0 /\ input = None /\ ready = FALSE
  /\ faults = 0

Up(p) == pods[p] # Down

----------------------------------------------------------------------------
(* keystone-operator, openstack-operator and users *)

\* The last change is complete.
Settled ==
  /\ pc = "idle" /\ current = spec /\ seen = spec /\ tracked = spec
  /\ config = spec /\ fin = {spec} \ {0}
  /\ \A p \in Pods : Up(p) /\ pods[p].cred = spec

\* A first credential, a rotation, or a return to password authentication.
Issue ==
  /\ Overlap \/ Settled
  /\ \/ issued < MaxCreds /\ issued' = issued + 1 /\ current' = issued'
     \/ current # 0 /\ current' = 0 /\ UNCHANGED issued
  /\ UNCHANGED <<revoked, fin, crVars, statusVars, podVars, passVars, faults>>

\* openstack-operator passes the name of the Secret on.
SetSpec ==
  /\ life = "live" /\ spec # current /\ spec' = current
  /\ UNCHANGED <<keystoneVars, fin, life, seen, statusVars, podVars, passVars, faults>>

Revoke(c) ==
  /\ c \in Creds \ (fin \cup revoked \cup {current})
  /\ revoked' = revoked \cup {c}
  /\ UNCHANGED <<issued, current, fin, crVars, statusVars, podVars, passVars, faults>>

Delete ==
  /\ life = "live" /\ life' = "deleting"
  /\ UNCHANGED <<keystoneVars, fin, spec, seen, statusVars, podVars, passVars, faults>>

\* The informer cache catches up.
Learn ==
  /\ seen # spec /\ seen' = spec
  /\ UNCHANGED <<keystoneVars, fin, life, spec, statusVars, podVars, passVars, faults>>

(* One reconcile *)

Idle == pc' = "idle" /\ new' = 0 /\ old' = 0 /\ input' = None /\ ready' = FALSE

\* The deferred patch.
Return == Idle /\ tracked' = old

Begin ==
  /\ pc = "idle" /\ life # "gone"
  /\ pc' = IF life = "live" THEN "render" ELSE "releaseTracked"
  /\ new' = seen /\ old' = tracked /\ UNCHANGED <<input, ready>>
  /\ UNCHANGED <<keystoneVars, fin, crVars, statusVars, podVars, faults>>

\* generateServiceConfigMaps: without the Secret of the credential there is
\* an error, and the config Secret stays as it is.
RenderAC ==
  /\ pc = "render"
  /\ \/ new \in revoked /\ Return /\ UNCHANGED config
     \/ new \notin revoked /\ config' = new /\ input' = new /\ pc' = "hash"
        /\ UNCHANGED <<tracked, new, old, ready>>
  /\ UNCHANGED <<keystoneVars, fin, crVars, hash, tmpl, pods, faults>>

\* Without the service password Secret it returns early and reports no error:
\* the config Secret stays as it is, and the hash is made without it.
RenderSkipped ==
  /\ pc = "render" /\ (hash = Bare => LongOutages)
  /\ faults < MaxFaults /\ faults' = faults + 1
  /\ input' = Bare /\ pc' = "hash"
  /\ UNCHANGED <<keystoneVars, fin, crVars, statusVars, podVars, new, old, ready>>

\* A changed hash is stored and the reconcile starts over.
HashAC ==
  /\ pc = "hash"
  /\ \/ hash # input /\ hash' = input /\ Return
     \/ hash = input /\ pc' = "hold" /\ UNCHANGED <<hash, tracked, new, old, input, ready>>
  /\ UNCHANGED <<keystoneVars, fin, crVars, podVars, faults>>

\* Mutant: the finalizer is taken without a look at the name.
HoldAC_Empty ==
  /\ pc = "hold" /\ pc' = "deploy" /\ fin' = fin \cup {new}
  /\ UNCHANGED <<keystoneVars, crVars, statusVars, podVars, new, old, input, ready, faults>>

\* ManageSecretConsumerFinalizer.
HoldAC ==
  /\ pc = "hold"
  /\ \/ new \in revoked /\ Return /\ UNCHANGED fin
     \/ new \notin revoked /\ fin' = fin \cup ({new} \ {0}) /\ pc' = "deploy"
        /\ UNCHANGED <<tracked, new, old, input, ready>>
  /\ UNCHANGED <<keystoneVars, crVars, hash, podVars, faults>>

DeployAC ==
  /\ pc = "deploy" /\ tmpl' = input /\ pc' = "check"
  /\ UNCHANGED <<keystoneVars, fin, crVars, statusVars, config, pods, new, old, input,
                 ready, faults>>

\* deployment.IsReady and IsReadyForInput.
CheckAC ==
  /\ pc = "check" /\ pc' = "finalize"
  /\ ready' = \A p \in Pods : Up(p) /\ pods[p].tmpl = input
  /\ UNCHANGED <<keystoneVars, fin, crVars, statusVars, podVars, new, old, input, faults>>

\* Mutant: readiness of the pods is not waited for.
FinalizeAC_Early ==
  /\ pc = "finalize" /\ pc' = "prune"
  /\ fin' = IF old # new THEN fin \ {old} ELSE fin
  /\ old' = new
  /\ UNCHANGED <<keystoneVars, crVars, statusVars, podVars, new, input, ready, faults>>

\* Mutant: the returned name is not stored in the status.
FinalizeAC_StatusStuck ==
  /\ pc = "finalize" /\ pc' = "prune"
  /\ fin' = IF ready /\ old # new THEN fin \ {old} ELSE fin
  /\ UNCHANGED <<keystoneVars, crVars, statusVars, podVars, new, old, input, ready, faults>>

\* FinalizeSecretRotation.
FinalizeAC ==
  /\ pc = "finalize" /\ pc' = "prune"
  /\ fin' = IF ready /\ old # new THEN fin \ {old} ELSE fin
  /\ old' = IF ready THEN new ELSE old
  /\ UNCHANGED <<keystoneVars, crVars, statusVars, podVars, new, input, ready, faults>>

\* PruneSecretConsumerFinalizers, and the end of the reconcile.
PruneAC ==
  /\ pc = "prune" /\ fin' = fin \cap {old, new} /\ Return
  /\ UNCHANGED <<keystoneVars, crVars, hash, podVars, faults>>

\* Mutant: only the secret in the status is released.
ReleaseAC_TrackedOnly ==
  \/ /\ pc = "releaseTracked" /\ fin' = fin \ {old} /\ pc' = "releaseSpec"
     /\ UNCHANGED <<keystoneVars, crVars, statusVars, podVars, new, old, input, ready, faults>>
  \/ /\ pc = "releaseSpec" /\ UNCHANGED fin /\ life' = "gone" /\ Return
     /\ UNCHANGED <<keystoneVars, spec, seen, hash, podVars, faults>>

\* reconcileDelete: the names in the status and in the spec.
ReleaseAC ==
  \/ /\ pc = "releaseTracked" /\ fin' = fin \ {old} /\ pc' = "releaseSpec"
     /\ UNCHANGED <<keystoneVars, crVars, statusVars, podVars, new, old, input, ready, faults>>
  \/ /\ pc = "releaseSpec" /\ fin' = fin \ {new} /\ life' = "gone" /\ Return
     /\ UNCHANGED <<keystoneVars, spec, seen, hash, podVars, faults>>

\* A call fails or something else is not ready; the status is patched.
ReturnEarly ==
  /\ pc # "idle" /\ faults < MaxFaults /\ faults' = faults + 1 /\ Return
  /\ fin' \in {fin} \cup (IF pc = "finalize" /\ ready /\ old # new THEN {fin \ {old}} ELSE {})
  /\ UNCHANGED <<keystoneVars, crVars, hash, podVars>>

\* The operator restarts: what was not patched is lost.
Crash ==
  /\ pc # "idle" /\ faults < MaxFaults /\ faults' = faults + 1 /\ Idle /\ seen' = spec
  /\ UNCHANGED <<keystoneVars, fin, life, spec, statusVars, podVars>>

(* Pods *)

\* A pod loads the config Secret as it is when it starts.
StartPod(p) ==
  /\ life # "gone" /\ ~Up(p) /\ tmpl # None
  /\ pods' = [pods EXCEPT ![p] = [tmpl |-> tmpl, cred |-> config]]
  /\ UNCHANGED <<keystoneVars, fin, crVars, statusVars, config, tmpl, passVars, faults>>

\* Replaced after a change of the template, or lost.
StopPod(p) ==
  /\ Up(p) /\ pods' = [pods EXCEPT ![p] = Down]
  /\ \/ pods[p].tmpl # tmpl /\ UNCHANGED faults
     \/ faults < MaxFaults /\ faults' = faults + 1
  /\ UNCHANGED <<keystoneVars, fin, crVars, statusVars, config, tmpl, passVars>>

----------------------------------------------------------------------------

Reconcile ==
  \/ Begin \/ RenderAC \/ HashAC \/ HoldAC \/ DeployAC \/ CheckAC
  \/ FinalizeAC \/ PruneAC \/ ReleaseAC

Others ==
  \/ SetSpec \/ Learn \/ \E c \in Creds : Revoke(c)
  \/ \E p \in Pods : StartPod(p)

Rollout == \E p \in Pods : pods[p].tmpl # tmpl /\ StopPod(p) /\ UNCHANGED faults

Next ==
  \/ Reconcile \/ Others \/ Issue \/ Delete \/ RenderSkipped \/ ReturnEarly \/ Crash
  \/ \E p \in Pods : StopPod(p)

Spec == Init /\ [][Next]_vars

\* The CR is requeued until the rollout is complete, the other operators and
\* Kubernetes do their work.
FairSpec == Spec /\ WF_vars(Reconcile) /\ WF_vars(Others) /\ WF_vars(Rollout)

----------------------------------------------------------------------------
(* Properties *)

\* Only Secrets that exist are held, named or loaded.
TypeOK ==
  /\ issued \in 0 .. MaxCreds /\ current \in 0 .. issued
  /\ revoked \subseteq Creds /\ fin \subseteq Creds /\ fin \cap revoked = {}
  /\ life \in {"live", "deleting", "gone"}
  /\ {spec, seen, tracked, config, new, old} \subseteq 0 .. issued
  /\ {hash, tmpl} \subseteq {None, Bare} \cup 0 .. issued
  /\ input \in {None, Bare} \cup 0 .. issued
  /\ pods \in [Pods -> [tmpl : {None, Bare} \cup 0 .. issued, cred : 0 .. issued]]
  /\ pc \in {"idle", "render", "hash", "hold", "deploy", "check", "finalize", "prune",
             "releaseTracked", "releaseSpec"}
  /\ ready \in BOOLEAN /\ faults \in 0 .. MaxFaults

CU == INSTANCE CredentialUse WITH
        inUse <- IF life = "live" THEN {pods[p].cred : p \in Pods} \ {0} ELSE {}

\* Finalizer and status bookkeeping implements the promise: while the CR is
\* live no credential is revoked under a running pod and no pod comes up with
\* a revoked one, although a pod may load a credential before its finalizer
\* is set and the old one is released on the word of a status.
NeverRevokedInUse == CU!Spec

\* A deleted DesignateAPI leaves no finalizer behind, in the middle of a
\* rotation and after a restart too; otherwise keystone-operator could never
\* revoke that credential.
NoLeakAfterDelete == life = "gone" => fin = {}

\* A rotation completes: in the end the current credential is the only one
\* tracked, held and used, and all others are revoked.
RotationCompletes ==
  <>[](/\ life # "deleting"
       /\ revoked = Creds \ {current}
       /\ life = "live" => /\ tracked = current /\ fin = {current} \ {0}
                           /\ \A p \in Pods : Up(p) /\ pods[p].cred = current)
=============================================================================
