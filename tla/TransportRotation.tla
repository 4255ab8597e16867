-------------------------- MODULE TransportRotation --------------------------
(***************************************************************************)
(* Rotation of the RabbitMQ credentials of a Designate deployment.         *)
(*                                                                         *)
(* The Designate controller (the parent) reads the secret names published  *)
(* by its TransportURL CRs, puts a consumer finalizer on them, renders the *)
(* service configuration from them, stamps their hash on the sub-CRs and   *)
(* releases the superseded secret only when every sub-CR reports that its  *)
(* workload runs the new input.  One controller per sub-CR (api, central,  *)
(* worker, mdns, producer) rolls the configuration out.  A secret without  *)
(* the finalizer may be deleted, and its RabbitMQ user revoked, at once.   *)
(*                                                                         *)
(* Every action is one API call, or one run of calls that no other actor   *)
(* can tell apart; an error return or an operator crash may come between   *)
(* any two of them.                                                        *)
(***************************************************************************)
EXTENDS Naturals

CONSTANTS
  Services,     \* the sub-CRs whose workloads consume the transport secrets
  MaxTransport, MaxNotifications,   \* bounds: secret names issued per bus
  MaxFaults,    \* bound: error returns, held guards, crashes, pod restarts
  Changes,      \* what users and other operators do: see UserDelete etc.
  Overlap       \* may credentials change again before the last change settled?

T == "transport"
N == "notifications"
Bus == {T, N}

Limit(b) == IF b = T THEN MaxTransport ELSE MaxNotifications

Cfg == [Bus -> Nat]     \* the secret of each bus a configuration uses; 0: none
NoCfg == [b \in Bus |-> 0]
Names == Bus \X (Nat \ {0})     \* the secrets that can exist
Pods == [tmpl : Cfg, creds : Cfg]

ASSUME ConstantsOK ==
  /\ MaxTransport \in Nat
  /\ MaxNotifications \in Nat
  /\ MaxFaults \in Nat
  /\ Changes \subseteq {"notifications", "rotate", "delete", "password"}
  /\ Overlap \in BOOLEAN

VARIABLES
  \* The Designate CR and the objects of other operators
  obj,          \* life of the CR: "new" (no finalizer yet), "live", "deleting", "gone"
  enabled,      \* Spec.NotificationsBus != nil
  tuCR,         \* buses whose TransportURL CR exists
  tu,           \* TransportURL.Status.SecretName per bus
  issued,       \* number of names issued per bus
  fin,          \* <<bus, name>> of the secrets that hold the consumer finalizer
  \* Status of the Designate CR and the configuration secret it renders
  st,           \* Status.TransportURLSecret / NotificationsTransportURLSecret
  pHash,        \* Status.Hash of the rendered input
  config,       \* contents of the parent's config secret
  \* One reconcile of the parent
  pc, lst, p, wantN, todo, rdy, guard,
  \* Sub-CRs
  ann,          \* input-secret-hash annotation (with Spec.TransportURLSecret); NoCfg: no CR yet
  observed,     \* Generation = ObservedGeneration
  hash,         \* Status.Hash of the sub-CR's input
  ready,        \* the sub-CR's Ready condition
  applied,      \* Status.AppliedInputSecretHash
  \* One reconcile of each sub-CR
  spc, sAnn, sIn, seen,
  \* Workloads
  tmpl,         \* input hash in the Deployment / StatefulSet pod template
  pods,         \* running pods: their template and the credentials they loaded
  faults,
  base          \* history: the configuration of the last completed change

worldVars  == <<obj, enabled, tuCR, tu, issued>>
parentVars == <<pc, lst, p, wantN, todo, rdy, guard>>
crVars     == <<ann, observed, hash, ready, applied>>
subVars    == <<spc, sAnn, sIn, seen>>
podVars    == <<tmpl, pods>>
vars == <<worldVars, fin, st, pHash, config, parentVars, crVars,
          subVars, podVars, faults, base>>

Init ==
  /\ obj = "new" /\ tuCR = {}
  /\ enabled \in BOOLEAN /\ (enabled => "notifications" \in Changes)
  /\ tu = NoCfg /\ issued = NoCfg /\ fin = {}
  /\ st = NoCfg /\ pHash = NoCfg /\ config = NoCfg
  /\ pc = "idle" /\ lst = NoCfg /\ p = NoCfg /\ wantN = FALSE
  /\ todo = {} /\ rdy = {} /\ guard = FALSE
  /\ ann = [s \in Services |-> NoCfg]
  /\ observed = [s \in Services |-> FALSE]
  /\ hash = [s \in Services |-> NoCfg]
  /\ ready = [s \in Services |-> FALSE]
  /\ applied = [s \in Services |-> NoCfg]
  /\ spc = [s \in Services |-> "idle"]
  /\ sAnn = [s \in Services |-> NoCfg]
  /\ sIn = [s \in Services |-> NoCfg]
  /\ seen = [s \in Services |-> FALSE]
  /\ tmpl = [s \in Services |-> NoCfg]
  /\ pods = [s \in Services |-> {}]
  /\ faults = 0 /\ base = NoCfg

----------------------------------------------------------------------------
(* Users and the operators that own the secrets *)

\* A TransportURL the reconcile waits for has no secret name yet.
Waiting == tu[T] = 0 \/ (enabled /\ tu[N] = 0)

\* The credentials the deployment is asked to use.
Goal == IF Waiting THEN base
        ELSE [b \in Bus |-> IF b = N /\ ~enabled THEN 0 ELSE tu[b]]

\* The last change of credentials has been rolled out and finalized.
Settled == ~Waiting /\ Goal = base

MayChange == Overlap \/ Settled

UserEnableNotifications ==
  /\ "notifications" \in Changes /\ MayChange
  /\ obj \in {"new", "live"} /\ ~enabled
  /\ issued[N] < Limit(N)        \* bound: a name is left to publish
  /\ enabled' = TRUE
  /\ UNCHANGED <<obj, tuCR, tu, issued, fin, st, pHash, config,
                 parentVars, crVars, subVars, podVars, faults, base>>

UserDisableNotifications ==
  /\ "notifications" \in Changes /\ MayChange
  /\ obj \in {"new", "live"} /\ enabled
  /\ enabled' = FALSE
  /\ UNCHANGED <<obj, tuCR, tu, issued, fin, st, pHash, config,
                 parentVars, crVars, subVars, podVars, faults, base>>

\* kubectl delete: without a finalizer the object goes away immediately.
UserDelete ==
  /\ "delete" \in Changes /\ obj \in {"new", "live"}
  /\ obj' = IF obj = "new" THEN "gone" ELSE "deleting"
  /\ UNCHANGED <<enabled, tuCR, tu, issued, fin, st, pHash, config,
                 parentVars, crVars, subVars, podVars, faults, base>>

\* infra-operator publishes the first secret of a TransportURL CR.
PublishSecret(b) ==
  /\ b \in tuCR /\ tu[b] = 0 /\ issued[b] < Limit(b)
  /\ issued' = [issued EXCEPT ![b] = @ + 1]
  /\ tu' = [tu EXCEPT ![b] = issued'[b]]
  /\ UNCHANGED <<obj, enabled, tuCR, fin, st, pHash, config,
                 parentVars, crVars, subVars, podVars, faults, base>>

\* infra-operator rotates the RabbitMQ user: a new secret under a new name.
RotateSecret(b) ==
  /\ "rotate" \in Changes /\ MayChange /\ tu[b] # 0 /\ issued[b] < Limit(b)
  /\ issued' = [issued EXCEPT ![b] = @ + 1]
  /\ tu' = [tu EXCEPT ![b] = issued'[b]]
  /\ UNCHANGED <<obj, enabled, tuCR, fin, st, pHash, config,
                 parentVars, crVars, subVars, podVars, faults, base>>

----------------------------------------------------------------------------
(* The Designate controller *)

\* The locals of a reconcile die with it.
ParentIdle ==
  /\ pc' = "idle" /\ lst' = NoCfg /\ p' = NoCfg /\ wantN' = FALSE
  /\ todo' = {} /\ rdy' = {} /\ guard' = FALSE

\* Reconcile reads the CR; the first pass only adds the CR's own finalizer.
ParentFetch ==
  /\ pc = "idle" /\ obj # "gone"
  /\ \/ obj = "new" /\ obj' = "live" /\ ParentIdle
     \/ /\ obj = "live" /\ pc' = "transport"
        /\ lst' = st /\ wantN' = enabled
        /\ UNCHANGED <<obj, p, todo, rdy, guard>>
     \/ /\ obj = "deleting" /\ pc' = "release"
        /\ UNCHANGED <<obj, lst, p, wantN, todo, rdy, guard>>
  /\ UNCHANGED <<enabled, tuCR, tu, issued, fin, st, pHash, config,
                 crVars, subVars, podVars, faults, base>>

\* Mutant: a TransportURL without a secret name is used all the same.
UseTransportURL_NoWait(b, next) ==
  /\ tuCR' = tuCR \cup {b} /\ pc' = next
  /\ p' = [p EXCEPT ![b] = tu[b]]
  /\ lst' = [lst EXCEPT ![b] = IF @ = 0 THEN tu[b] ELSE @]
  /\ fin' = fin \cup {<<b, tu[b]>>}
  /\ UNCHANGED <<st, wantN, todo, rdy, guard>>

\* CreateOrUpdate the TransportURL of bus b.  Without a secret name, wait;
\* else track it if nothing is tracked yet and take the consumer finalizer.
UseTransportURL(b, next) ==
  /\ tuCR' = tuCR \cup {b}
  /\ \/ /\ tu[b] = 0
        /\ ParentIdle /\ st' = lst
        /\ UNCHANGED fin
     \/ /\ tu[b] # 0
        /\ pc' = next
        /\ p' = [p EXCEPT ![b] = tu[b]]
        /\ lst' = [lst EXCEPT ![b] = IF @ = 0 THEN tu[b] ELSE @]
        /\ fin' = fin \cup {<<b, tu[b]>>}
        /\ UNCHANGED <<st, wantN, todo, rdy, guard>>

ParentTransport ==
  /\ pc = "transport"
  /\ UseTransportURL(T, "notifications")
  /\ UNCHANGED <<obj, enabled, tu, issued, pHash, config, crVars,
                 subVars, podVars, faults, base>>

ParentNotifications ==
  /\ pc = "notifications"
  /\ \/ wantN /\ UseTransportURL(N, "config")
     \/ /\ ~wantN /\ pc' = "config"
        /\ UNCHANGED <<tuCR, lst, p, fin, st, wantN, todo, rdy, guard>>
  /\ UNCHANGED <<obj, enabled, tu, issued, pHash, config, crVars,
                 subVars, podVars, faults, base>>

\* reconcileInit renders the config secret; a changed input hash is persisted
\* and the reconcile starts over before any service is touched.
ParentConfig ==
  /\ pc = "config"
  /\ config' = p
  /\ IF pHash # p
       THEN pHash' = p /\ st' = lst /\ ParentIdle
       ELSE /\ pc' = "services" /\ todo' = Services
            /\ UNCHANGED <<pHash, st, lst, p, wantN, rdy, guard>>
  /\ UNCHANGED <<worldVars, fin, crVars, subVars, podVars, faults,
                 base>>

\* The service password Secret is not there: nothing is rendered and no error
\* is returned, so the old configuration stays while an empty input is hashed;
\* a second reconcile in a row without the Secret goes on to the services.
\* Bound: not before the first rendering.
ParentConfigSkipped ==
  /\ pc = "config" /\ config # NoCfg
  /\ faults < MaxFaults /\ faults' = faults + 1
  /\ \/ pHash # NoCfg /\ pHash' = NoCfg /\ st' = lst /\ ParentIdle
     \/ /\ pHash = NoCfg /\ "password" \in Changes
        /\ pc' = "services" /\ todo' = Services
        /\ UNCHANGED <<pHash, st, lst, p, wantN, rdy, guard>>
  /\ UNCHANGED <<worldVars, fin, config, crVars, subVars, podVars, base>>

\* No two reconciles in a row miss the password Secret.
BriefOutages == "password" \notin Changes

\* Mutant: the applied input hash is not compared.
ParentService_AnyInput(s) ==
  /\ pc = "services" /\ s \in todo
  /\ LET specChanged == ann[s] = NoCfg \/ ann[s][T] # p[T]
         upToDate == observed[s] /\ ~specChanged
     IN /\ ann' = [ann EXCEPT ![s] = p]
        /\ observed' = [observed EXCEPT ![s] = @ /\ ~specChanged]
        /\ seen' = [seen EXCEPT ![s] = @ /\ ~specChanged]
        /\ rdy' = IF upToDate /\ ready[s] THEN rdy \cup {s} ELSE rdy
  /\ todo' = todo \ {s}
  /\ UNCHANGED <<worldVars, fin, st, pHash, config, pc, lst, p, wantN,
                 guard, hash, ready, applied, spc, sAnn, sIn, podVars, faults,
                 base>>

\* CreateOrUpdate one sub-CR and read its status back.  Only the transport
\* secret is part of its Spec, so only that one changes its Generation.
ParentService(s) ==
  /\ pc = "services" /\ s \in todo
  /\ LET specChanged == ann[s] = NoCfg \/ ann[s][T] # p[T]
         upToDate == observed[s] /\ ~specChanged /\ applied[s] = p
     IN /\ ann' = [ann EXCEPT ![s] = p]
        /\ observed' = [observed EXCEPT ![s] = @ /\ ~specChanged]
        /\ seen' = [seen EXCEPT ![s] = @ /\ ~specChanged]
        /\ rdy' = IF upToDate /\ ready[s] THEN rdy \cup {s} ELSE rdy
  /\ todo' = todo \ {s}
  /\ UNCHANGED <<worldVars, fin, st, pHash, config, pc, lst, p, wantN,
                 guard, hash, ready, applied, spc, sAnn, sIn, podVars, faults,
                 base>>

\* Mutant: the guard is left out.
ParentGuard_Open ==
  /\ pc = "services" /\ todo = {}
  /\ pc' = "finalizeTransport"
  /\ guard' = TRUE
  /\ UNCHANGED <<worldVars, fin, st, pHash, config, lst, p, wantN,
                 todo, rdy, crVars, subVars, podVars, faults, base>>

\* All sub-CRs visited: may the superseded secrets be released?  Not while
\* another condition (db, bind9, unbound, TSIG keys) is not true yet, nor when
\* this reconcile rendered nothing, which makes InputReady false.
ParentGuard ==
  /\ pc = "services" /\ todo = {}
  /\ pc' = "finalizeTransport"
  /\ guard' = (rdy = Services /\ pHash = p)
  /\ UNCHANGED <<worldVars, fin, st, pHash, config, lst, p, wantN,
                 todo, rdy, crVars, subVars, podVars, faults, base>>

ParentGuardHeld ==
  /\ pc = "services" /\ todo = {} /\ faults < MaxFaults
  /\ pc' = "finalizeTransport"
  /\ guard' = FALSE /\ faults' = faults + 1
  /\ UNCHANGED <<worldVars, fin, st, pHash, config, lst, p, wantN, todo, rdy,
                 crVars, subVars, podVars, base>>

\* object.FinalizeSecretRotation for bus b.
FinalizeSecretRotation(b) ==
  /\ fin' = IF guard /\ lst[b] # p[b] THEN fin \ {<<b, lst[b]>>} ELSE fin
  /\ lst' = [lst EXCEPT ![b] = IF guard THEN p[b] ELSE @]

\* Mutant: the returned name is not stored in the status.
ParentFinalizeTransport_StatusStuck ==
  /\ pc = "finalizeTransport" /\ pc' = "finalizeNotifications"
  /\ fin' = IF guard /\ lst[T] # p[T] THEN fin \ {<<T, lst[T]>>} ELSE fin
  /\ UNCHANGED <<worldVars, st, pHash, config, lst, p, wantN, todo, rdy,
                 guard, crVars, subVars, podVars, faults, base>>

ParentFinalizeTransport ==
  /\ pc = "finalizeTransport" /\ pc' = "finalizeNotifications"
  /\ FinalizeSecretRotation(T)
  /\ UNCHANGED <<worldVars, st, pHash, config, p, wantN, todo, rdy,
                 guard, crVars, subVars, podVars, faults, base>>

\* Rotate, or tear down a bus that is no longer configured.
ParentFinalizeNotifications ==
  /\ pc = "finalizeNotifications"
  /\ \/ /\ wantN
        /\ FinalizeSecretRotation(N) /\ pc' = "prune"
     \/ /\ ~wantN /\ lst[N] # 0 /\ guard
        /\ fin' = fin \ {<<N, lst[N]>>} /\ pc' = "deleteNotifications"
        /\ UNCHANGED lst
     \/ /\ ~wantN /\ (lst[N] = 0 \/ ~guard)
        /\ pc' = "prune"
        /\ UNCHANGED <<fin, lst>>
  /\ UNCHANGED <<worldVars, st, pHash, config, p, wantN, todo, rdy,
                 guard, crVars, subVars, podVars, faults, base>>

\* Mutant: the TransportURL CR is forgotten.
ParentDeleteNotifications_KeepsCR ==
  /\ pc = "deleteNotifications" /\ pc' = "prune"
  /\ lst' = [lst EXCEPT ![N] = 0]
  /\ UNCHANGED <<worldVars, fin, st, pHash, config, p, wantN, todo, rdy, guard,
                 crVars, subVars, podVars, faults, base>>

ParentDeleteNotifications ==
  /\ pc = "deleteNotifications" /\ pc' = "prune"
  /\ tuCR' = tuCR \ {N}
  /\ tu' = [tu EXCEPT ![N] = 0]
  /\ lst' = [lst EXCEPT ![N] = 0]
  /\ UNCHANGED <<obj, enabled, issued, fin, st, pHash, config, p, wantN,
                 todo, rdy, guard, crVars, subVars, podVars, faults, base>>

\* Mutant: the tracked names are not kept.
Keep_CurrentOnly == {<<b, p[b]>> : b \in Bus}

\* object.PruneSecretConsumerFinalizers with the names still tracked or current.
Keep == {<<b, lst[b]>> : b \in Bus} \cup {<<b, p[b]>> : b \in Bus}

ParentPrune ==
  /\ pc = "prune" /\ pc' = "patch"
  /\ fin' = fin \cap Keep
  /\ UNCHANGED <<worldVars, st, pHash, config, lst, p, wantN, todo, rdy,
                 guard, crVars, subVars, podVars, faults, base>>

\* The deferred PatchInstance persists the status.
ParentPatch ==
  /\ pc = "patch" /\ ParentIdle
  /\ st' = lst
  /\ base' = IF guard /\ ~Waiting /\ p = Goal THEN p ELSE base
  /\ UNCHANGED <<worldVars, fin, pHash, config, crVars, subVars, podVars,
                 faults>>

Releasing == {"release", "deletePrune"}

\* An error or a wait (db sync job, network attachment, IP allocation...)
\* ends the reconcile early; the deferred patch persists what it changed.
ParentReturn ==
  /\ pc \notin {"idle"} \cup Releasing /\ faults < MaxFaults
  /\ ParentIdle /\ st' = lst /\ faults' = faults + 1
  /\ UNCHANGED <<worldVars, fin, pHash, config, crVars, subVars, podVars,
                 base>>

\* The operator process dies, or the reconcile panics: nothing is persisted.
ParentCrash ==
  /\ pc # "idle" /\ faults < MaxFaults
  /\ ParentIdle /\ faults' = faults + 1
  /\ UNCHANGED <<worldVars, fin, st, pHash, config, crVars, subVars,
                 podVars, base>>

\* reconcileDelete: release the tracked and the published secrets...
ParentRelease ==
  /\ pc = "release" /\ pc' = "deletePrune"
  /\ fin' = fin \ ({<<b, st[b]>> : b \in Bus} \cup {<<b, tu[b]>> : b \in tuCR})
  /\ UNCHANGED <<worldVars, st, pHash, config, lst, p, wantN, todo, rdy,
                 guard, crVars, subVars, podVars, faults, base>>

\* Mutant: nothing releases the stranded ones.
ParentDeletePrune_NoPrune ==
  /\ pc = "deletePrune" /\ ParentIdle
  /\ obj' = "gone"
  /\ UNCHANGED <<enabled, tuCR, tu, issued, fin, st, pHash, config, crVars,
                 subVars, podVars, faults, base>>

\* ...then every stranded one, and let the CR go.
ParentDeletePrune ==
  /\ pc = "deletePrune" /\ ParentIdle
  /\ fin' = {}
  /\ obj' = "gone"
  /\ UNCHANGED <<enabled, tuCR, tu, issued, st, pHash, config, crVars,
                 subVars, podVars, faults, base>>

----------------------------------------------------------------------------
(* The controller of one sub-CR *)

SubStart(s) ==
  /\ spc[s] = "idle" /\ ann[s] # NoCfg
  /\ spc' = [spc EXCEPT ![s] = "read"]
  /\ sAnn' = [sAnn EXCEPT ![s] = ann[s]]
  /\ seen' = [seen EXCEPT ![s] = TRUE]
  /\ UNCHANGED <<worldVars, fin, st, pHash, config, parentVars, crVars,
                 sIn, podVars, faults, base>>

SubIdle(s) ==
  /\ spc' = [spc EXCEPT ![s] = "idle"]
  /\ sAnn' = [sAnn EXCEPT ![s] = NoCfg]
  /\ sIn' = [sIn EXCEPT ![s] = NoCfg]
  /\ seen' = [seen EXCEPT ![s] = FALSE]

\* The status patch at the end of every reconcile.
SubPatch(s, isReady) ==
  /\ SubIdle(s)
  /\ ready' = [ready EXCEPT ![s] = isReady]
  /\ observed' = [observed EXCEPT ![s] = @ \/ seen[s]]

\* Hash the parent's config secret; a changed hash is persisted first.
SubRead(s) ==
  /\ spc[s] = "read"
  /\ IF hash[s] # config
       THEN /\ hash' = [hash EXCEPT ![s] = config]
            /\ SubPatch(s, FALSE)
       ELSE /\ sIn' = [sIn EXCEPT ![s] = config]
            /\ spc' = [spc EXCEPT ![s] = "deploy"]
            /\ UNCHANGED <<hash, ready, observed, sAnn, seen>>
  /\ UNCHANGED <<worldVars, fin, st, pHash, config, parentVars, ann,
                 applied, podVars, faults, base>>

\* CreateOrPatch of the Deployment or StatefulSet.
SubDeploy(s) ==
  /\ spc[s] = "deploy"
  /\ tmpl' = [tmpl EXCEPT ![s] = sIn[s]]
  /\ spc' = [spc EXCEPT ![s] = "check"]
  /\ UNCHANGED <<worldVars, fin, st, pHash, config, parentVars, crVars,
                 sAnn, sIn, seen, pods, faults, base>>

\* IsReady and IsReadyForInput: only pods of the template with this input run.
ReadyForInput(s) == pods[s] # {} /\ \A q \in pods[s] : q.tmpl = sIn[s]

SubCheck(s) ==
  /\ spc[s] = "check"
  /\ SubPatch(s, ReadyForInput(s))
  /\ applied' = [applied EXCEPT ![s] = IF ReadyForInput(s) THEN sAnn[s] ELSE @]
  /\ UNCHANGED <<worldVars, fin, st, pHash, config, parentVars, ann,
                 hash, podVars, faults, base>>

\* An early return on an error or a missing input: conditions were reset.
SubReturn(s) ==
  /\ spc[s] # "idle" /\ faults < MaxFaults
  /\ SubPatch(s, FALSE)
  /\ faults' = faults + 1
  /\ UNCHANGED <<worldVars, fin, st, pHash, config, parentVars, ann,
                 hash, applied, podVars, base>>

SubCrash(s) ==
  /\ spc[s] # "idle" /\ faults < MaxFaults
  /\ SubIdle(s)
  /\ faults' = faults + 1
  /\ UNCHANGED <<worldVars, fin, st, pHash, config, parentVars, crVars,
                 podVars, base>>

----------------------------------------------------------------------------
(* Workload controllers: a pod loads the configuration that is current when *)
(* it starts, whatever the input hash of its template says.                 *)

StartPod(s) ==
  /\ tmpl[s] # NoCfg
  /\ pods' = [pods EXCEPT ![s] = @ \cup {[tmpl |-> tmpl[s], creds |-> config]}]
  /\ UNCHANGED <<worldVars, fin, st, pHash, config, parentVars, crVars,
                 subVars, tmpl, faults, base>>

StopPod(s) ==
  /\ \E q \in pods[s] : /\ q.tmpl # tmpl[s]
                        /\ pods' = [pods EXCEPT ![s] = @ \ {q}]
  /\ UNCHANGED <<worldVars, fin, st, pHash, config, parentVars, crVars,
                 subVars, tmpl, faults, base>>

\* One replica restarts in place.
RestartPod(s) ==
  /\ faults < MaxFaults /\ faults' = faults + 1
  /\ \E q \in pods[s] : \E gone \in SUBSET {q} :
        pods' = [pods EXCEPT ![s] = (@ \ gone) \cup {[q EXCEPT !.creds = config]}]
  /\ UNCHANGED <<worldVars, fin, st, pHash, config, parentVars, crVars,
                 subVars, tmpl, base>>

----------------------------------------------------------------------------

ParentStep ==
  \/ ParentFetch \/ ParentTransport \/ ParentNotifications \/ ParentConfig
  \/ (\E s \in Services : ParentService(s)) \/ ParentGuard
  \/ ParentFinalizeTransport \/ ParentFinalizeNotifications
  \/ ParentDeleteNotifications \/ ParentPrune \/ ParentPatch
  \/ ParentRelease \/ ParentDeletePrune

SubStep(s) == SubStart(s) \/ SubRead(s) \/ SubDeploy(s) \/ SubCheck(s)

EnvStep ==
  \/ UserEnableNotifications \/ UserDisableNotifications \/ UserDelete
  \/ \E b \in Bus : PublishSecret(b) \/ RotateSecret(b)

FaultStep ==
  \/ ParentReturn \/ ParentCrash \/ ParentGuardHeld \/ ParentConfigSkipped
  \/ \E s \in Services : SubReturn(s) \/ SubCrash(s) \/ RestartPod(s)

PodStep(s) == StartPod(s) \/ StopPod(s)

Next ==
  \/ ParentStep \/ EnvStep \/ FaultStep
  \/ \E s \in Services : SubStep(s) \/ PodStep(s)

Spec == Init /\ [][Next]_vars

\* controller-runtime requeues a CR until its reconcile has run, and the
\* workload controllers keep rolling a changed template out.
Fairness ==
  /\ WF_vars(ParentStep)
  /\ \A b \in Bus : WF_vars(PublishSecret(b))
  /\ \A s \in Services : WF_vars(SubStep(s)) /\ WF_vars(StartPod(s))
                         /\ WF_vars(StopPod(s))

FairSpec == Spec /\ Fairness

----------------------------------------------------------------------------
(* Properties *)

\* Types; only published secret names are tracked, rendered and finalized.
TypeOK ==
  /\ obj \in {"new", "live", "deleting", "gone"}
  /\ enabled \in BOOLEAN /\ tuCR \subseteq Bus
  /\ tu \in Cfg /\ issued \in Cfg /\ fin \subseteq Names
  /\ st \in Cfg /\ pHash \in Cfg /\ config \in Cfg
  /\ pc \in {"idle", "transport", "notifications", "config", "services",
             "finalizeTransport", "finalizeNotifications",
             "deleteNotifications", "prune", "patch"} \cup Releasing
  /\ lst \in Cfg /\ p \in Cfg /\ wantN \in BOOLEAN /\ guard \in BOOLEAN
  /\ todo \subseteq Services /\ rdy \subseteq Services
  /\ ann \in [Services -> Cfg] /\ hash \in [Services -> Cfg]
  /\ applied \in [Services -> Cfg]
  /\ observed \in [Services -> BOOLEAN] /\ ready \in [Services -> BOOLEAN]
  /\ spc \in [Services -> {"idle", "read", "deploy", "check"}]
  /\ sAnn \in [Services -> Cfg] /\ sIn \in [Services -> Cfg]
  /\ seen \in [Services -> BOOLEAN]
  /\ tmpl \in [Services -> Cfg] /\ pods \in [Services -> SUBSET Pods]
  /\ faults \in 0 .. MaxFaults /\ base \in Cfg

Alive == obj \in {"new", "live"}

\* While the Designate CR lives, every secret whose credentials a running pod
\* uses holds the consumer finalizer: FinalizeSecretRotation, the teardown of
\* the notifications bus and the pruning never release one that is in use.
InUseProtected ==
  Alive => \A s \in Services : \A q \in pods[s] : \A b \in Bus :
             q.creds[b] # 0 => <<b, q.creds[b]>> \in fin

\* infra-operator may revoke the user of a superseded secret without finalizer.
Revocable ==
  (UNION {{<<b, n>> : n \in (1 .. issued[b]) \ {tu[b]}} : b \in Bus}) \ fin

CU == INSTANCE CredentialUse WITH
        inUse <- IF ~Alive THEN {}
                 ELSE UNION {{<<b, q.creds[b]>> : b \in {c \in Bus : q.creds[c] # 0}} :
                               q \in UNION {pods[s] : s \in Services}},
        revoked <- Revocable

\* The finalizers implement the promise of CredentialUse: as long as the CR is
\* alive no RabbitMQ user can be revoked under a running pod, no pod comes up
\* with a revoked one, and a released secret is never taken back.
NeverRevokedInUse == CU!Spec

\* The tracked secret is the oldest one in use: once Status.TransportURLSecret
\* has moved on, no pod runs with an older transport secret, however fast
\* the credentials rotate.
NoneOlderThanTracked ==
  Alive => \A s \in Services : \A q \in pods[s] : st[T] <= q.creds[T]

\* reconcileDelete leaves no finalizer behind, whatever rotation was under
\* way and wherever the operator crashed.
NoLeakAfterDelete == obj = "gone" => fin = {}

\* Superseded secrets are released in the end: exactly the current names hold
\* the finalizer and the status tracks them.
CurrentNames == {<<b, Goal[b]>> : b \in {c \in Bus : Goal[c] # 0}}
RotationCompletes ==
  <>[](\/ obj = "gone"
       \/ Goal = st /\ fin = CurrentNames)

\* A disabled notifications bus is torn down: its TransportURL CR goes away
\* unless the bus is enabled again or the Designate CR is deleted.
NotificationsTornDown ==
  (~enabled /\ N \in tuCR) ~> (enabled \/ N \notin tuCR \/ ~Alive)

=============================================================================
