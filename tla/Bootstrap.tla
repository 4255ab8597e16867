----------------------------- MODULE Bootstrap -----------------------------
(***************************************************************************)
(* How the Designate controller brings a deployment up and follows edits   *)
(* of its spec: the database and its account, the shared config Secret,    *)
(* the db sync job, the rndc keys of the operator's own binds and of       *)
(* external ones, and the CRs of the services.  Every service has an image  *)
(* of its own; the db sync job takes that of the API.                      *)
(*                                                                         *)
(* A reconcile works on the copies of the spec and the status it read at   *)
(* its start.  The status is written back when it returns, with an error   *)
(* or without, and is lost when the operator stops.                        *)
(***************************************************************************)
EXTENDS Integers, Sequences

CONSTANTS
  Services,      \* the services after designate-api, in the order they are deployed
  Accounts,      \* names of MariaDBAccounts
  Images,        \* the images a spec may name, one for each service
  MaxImage, MaxReplicas, MaxBinds,   \* bounds: images, bind pods, external binds,
  MaxEdits, MaxFaults,               \* edits, errors and restarts
  FailAt         \* the steps whose call to the API server can fail

Steps == {"db", "config", "hash", "sync", "api", "external", "rndc", "services",
          "accounts"}

CRs == {"api"} \cup {Services[n] : n \in DOMAIN Services}

ASSUME ConstantsOK ==
  /\ Services \in Seq(STRING) /\ Len(Services) > 0
  /\ Images \subseteq [CRs -> 1 .. MaxImage]
  /\ Accounts # {} /\ FailAt \subseteq Steps
  /\ MaxImage \in Nat \ {0} /\ MaxReplicas \in Nat \ {0} /\ MaxBinds \in Nat \ {0}
  /\ MaxEdits \in Nat /\ MaxFaults \in Nat

VARIABLES
  spec,          \* images, bind replicas, account, is an ExternalBindsSecret named?
  binds,         \* version of that Secret, 0: there is none
  password, ingress,   \* the service Secret exists; LoadBalancer addresses do
  status,        \* hostname known, hashes of the input, the db sync, external binds
  held, granted, \* accounts with our finalizer; accounts MariaDB has set up
  config,        \* the shared config Secret
  rndcKeys,      \* number of keys in the rndc key Secret
  rndc,          \* version of the binds in the external rndc Secret, -1: none
  job, schema,   \* the db sync job; image that last migrated the database
  cr,            \* image of each service's CR, 0: no CR
  bindReplicas,  \* replicas of the bind9 CR
  pc, seen, mem,        \* the reconcile under way: its step and its copies,
  idx, update,          \* and what one step hands to the next
  woken, edits, faults,
  toggled,       \* has an ExternalBindsSecret come or gone in the spec?
  ahead          \* services whose image the spec had later than the API's

userVars == <<spec, binds, password, ingress, edits, toggled, ahead>>
dbVars == <<held, granted, schema>>
secretVars == <<config, rndcKeys, rndc>>
crVars == <<cr, bindReplicas>>
memVars == <<seen, mem, idx, update>>
vars == <<userVars, status, dbVars, secretVars, job, crVars, pc, memVars, woken, faults>>

None == [none |-> TRUE]
NoJob == [def |-> None, done |-> FALSE]
NoStatus == [host |-> FALSE, input |-> None, sync |-> None, binds |-> 0]

Specs == [image : Images, replicas : 1 .. MaxReplicas, account : Accounts,
          external : BOOLEAN]

Init ==
  /\ spec \in Specs /\ spec.image = [s \in CRs |-> 1] /\ binds \in 0 .. 1 /\ edits = 0
  /\ password \in BOOLEAN /\ ingress \in BOOLEAN
  /\ status = NoStatus /\ held = {} /\ granted = {} /\ schema = 0
  /\ config = None /\ rndcKeys = 0 /\ rndc = -1 /\ job = NoJob
  /\ cr = [s \in CRs |-> 0] /\ bindReplicas = 0
  /\ pc = "idle" /\ seen = spec /\ mem = NoStatus /\ idx = 0 /\ update = FALSE
  /\ woken = TRUE /\ faults = 0 /\ toggled = FALSE /\ ahead = {}

----------------------------------------------------------------------------
(* Users, the MariaDB operator and the load balancer *)

\* Images only get later, each by itself.
EditSpec ==
  /\ edits < MaxEdits /\ edits' = edits + 1 /\ woken' = TRUE
  /\ spec' \in {s \in Specs : s # spec /\ \A c \in CRs : s.image[c] >= spec.image[c]}
  /\ toggled' = (toggled \/ spec'.external # spec.external)
  /\ ahead' = ahead \cup {c \in CRs : spec'.image[c] > spec'.image["api"]}
  /\ UNCHANGED <<binds, password, ingress, status, dbVars, secretVars, job, crVars, pc,
                 memVars, faults>>

\* The watch on Secrets maps the one the spec names.
EditBinds ==
  /\ edits < MaxEdits /\ edits' = edits + 1 /\ binds < MaxBinds /\ binds' = binds + 1
  /\ woken' = (woken \/ spec.external)
  /\ UNCHANGED <<spec, password, ingress, toggled, ahead, status, dbVars, secretVars,
                 job, crVars, pc, memVars, faults>>

\* The controller does not watch the service Secret.
PasswordArrives ==
  /\ ~password /\ password' = TRUE
  /\ UNCHANGED <<spec, binds, ingress, edits, toggled, ahead, status, dbVars, secretVars,
                 job, crVars, pc, memVars, woken, faults>>

IngressArrives ==
  /\ ~ingress /\ ingress' = TRUE /\ woken' = TRUE
  /\ UNCHANGED <<spec, binds, password, edits, toggled, ahead, status, dbVars, secretVars,
                 job, crVars, pc, memVars, faults>>

AccountReady(a) ==
  /\ a \in held \ granted /\ granted' = granted \cup {a} /\ woken' = TRUE
  /\ UNCHANGED <<userVars, status, held, schema, secretVars, job, crVars, pc, memVars,
                 faults>>

\* A pod of the job waits for the config Secret, and needs a host to connect to.
SyncFinishes ==
  /\ job # NoJob /\ ~job.done /\ config # None /\ config.host /\ job.def.host
  /\ config.account \in granted
  /\ job' = [job EXCEPT !.done = TRUE] /\ woken' = TRUE
  /\ schema' = (IF job.def.image > schema THEN job.def.image ELSE schema)
  /\ UNCHANGED <<userVars, status, held, granted, secretVars, crVars, pc, memVars, faults>>

(* The Designate controller *)

Starts ==
  /\ pc = "idle" /\ woken /\ woken' = FALSE
  /\ pc' = "db" /\ seen' = spec /\ mem' = status
  /\ UNCHANGED <<userVars, status, dbVars, secretVars, job, crVars, idx, update, faults>>

\* The deferred patch of the status.
Return(m, requeue) ==
  /\ pc' = "idle" /\ mem' = m /\ status' = m /\ idx' = 0 /\ update' = FALSE
  /\ woken' = (woken \/ requeue)

GoTo(step) == pc' = step /\ UNCHANGED <<status, woken, idx, update>>

\* Mutant: only the first account gets the finalizer.
Hold_First == IF held = {} THEN {seen.account} ELSE held

\* CreateOrPatchAll: our finalizer on the account.
Hold == held \cup {seen.account}

\* The database is waited for, but an error of that wait is dropped and the
\* reconcile goes on with the hostname of the status.
EnsureDB ==
  /\ pc = "db" /\ held' = Hold
  /\ \/ /\ seen.account \in granted /\ GoTo("config")
        /\ mem' = [mem EXCEPT !.host = TRUE] /\ UNCHANGED faults
     \/ /\ seen.account \notin granted /\ Return(mem, TRUE) /\ UNCHANGED faults
     \/ /\ faults < MaxFaults /\ faults' = faults + 1 /\ GoTo("config") /\ UNCHANGED mem
  /\ UNCHANGED <<userVars, granted, schema, secretVars, job, crVars, seen>>

\* Mutant: a Secret that is there is left as it is.
RndcKeys_FirstOnly == IF rndcKeys = 0 THEN seen.replicas ELSE rndcKeys

\* Keys there are stay, missing ones are made and those past the last bind go.
RndcKeys == seen.replicas

\* The rndc key Secret comes first; without the service Secret the config
\* Secret is not written, and that is no error.
GenerateConfig ==
  /\ pc = "config" /\ rndcKeys' = RndcKeys
  /\ config' = (IF password THEN [account |-> seen.account, host |-> mem.host] ELSE config)
  /\ pc' = "hash" /\ update' = password
  /\ UNCHANGED <<userVars, status, dbVars, rndc, job, crVars, seen, mem, idx, woken, faults>>

\* What the hash is taken over: nothing, when the config was not written.
Input ==
  IF update THEN [account |-> seen.account, host |-> mem.host] ELSE [empty |-> TRUE]

\* Mutant: an empty result lets reconcileNormal go on.
CheckHash_EmptyResult ==
  /\ pc = "hash" /\ mem' = [mem EXCEPT !.input = Input]
  /\ pc' = (IF Input # mem.input THEN "api" ELSE "sync") /\ update' = FALSE
  /\ UNCHANGED <<userVars, status, dbVars, secretVars, job, crVars, seen, idx, woken, faults>>

\* A new hash is stored before the reconcile goes on.
CheckHash ==
  /\ pc = "hash"
  /\ \/ Input # mem.input /\ Return([mem EXCEPT !.input = Input], TRUE)
     \/ /\ Input = mem.input /\ pc' = "sync" /\ update' = FALSE
        /\ UNCHANGED <<status, mem, idx, woken>>
  /\ UNCHANGED <<userVars, dbVars, secretVars, job, crVars, seen, faults>>

\* The job is defined by the API's image and the host of the database.
SyncDef == [image |-> seen.image["api"], host |-> mem.host]

\* A job of another definition is replaced, one that is done is not run again.
DbSync ==
  /\ pc = "sync"
  /\ \/ mem.sync = SyncDef /\ GoTo("api") /\ UNCHANGED <<job, mem>>
     \/ /\ mem.sync # SyncDef /\ job.def # SyncDef /\ Return(mem, TRUE)
        /\ job' = [def |-> SyncDef, done |-> FALSE]
     \/ /\ mem.sync # SyncDef /\ job.def = SyncDef /\ ~job.done /\ Return(mem, TRUE)
        /\ UNCHANGED job
     \/ /\ mem.sync # SyncDef /\ job.def = SyncDef /\ job.done /\ GoTo("api")
        /\ mem' = [mem EXCEPT !.sync = SyncDef] /\ UNCHANGED job
  /\ UNCHANGED <<userVars, dbVars, secretVars, crVars, seen, faults>>

DeployAPI ==
  /\ pc = "api" /\ cr' = [cr EXCEPT !["api"] = seen.image["api"]] /\ GoTo("external")
  /\ UNCHANGED <<userVars, dbVars, secretVars, job, bindReplicas, seen, mem, faults>>

\* What the external rndc Secret is to hold, and whether it is written.
ReadBinds(version, write) ==
  /\ pc' = "rndc" /\ idx' = version /\ update' = write /\ UNCHANGED <<status, woken>>

\* A LoadBalancer Service of the pool has no address yet.
PendingIngress == ~ingress

\* Mutant: the Secret is made once and not followed up.
ExternalBinds_Once ==
  /\ pc = "external"
  /\ \/ seen.external /\ (binds = 0 \/ PendingIngress) /\ Return(mem, TRUE)
     \/ /\ ~seen.external \/ (binds # 0 /\ ~PendingIngress)
        /\ ReadBinds(IF seen.external THEN binds ELSE 0, rndc = -1) /\ UNCHANGED mem
  /\ UNCHANGED <<userVars, dbVars, secretVars, job, crVars, seen, faults>>

\* The hash of the binds is set before the Secret made from them is written.
ExternalBinds ==
  /\ pc = "external"
  /\ \/ seen.external /\ (binds = 0 \/ PendingIngress) /\ Return(mem, TRUE)
     \/ /\ seen.external /\ binds # 0 /\ ~PendingIngress
        /\ ReadBinds(binds, binds # mem.binds) /\ mem' = [mem EXCEPT !.binds = binds]
     \/ ~seen.external /\ rndc = -1 /\ ReadBinds(0, TRUE) /\ UNCHANGED mem
     \/ /\ ~seen.external /\ rndc # -1 /\ ReadBinds(0, mem.binds # 0)
        /\ mem' = [mem EXCEPT !.binds = 0]
  /\ UNCHANGED <<userVars, dbVars, secretVars, job, crVars, seen, faults>>

WriteRndc ==
  /\ pc = "rndc" /\ rndc' = (IF update THEN idx ELSE rndc)
  /\ pc' = "services" /\ idx' = 1 /\ update' = FALSE
  /\ UNCHANGED <<userVars, status, dbVars, config, rndcKeys, job, crVars, seen, mem, woken,
                 faults>>

\* Mutant: the position runs past the last service.
DeployService_Past ==
  LET s == Services[idx]
  IN /\ pc = "services" /\ cr' = [cr EXCEPT ![s] = seen.image[s]] /\ idx' = idx + 1
     /\ bindReplicas' = (IF s = "bind9" THEN seen.replicas ELSE bindReplicas)
     /\ pc' = (IF idx <= Len(Services) THEN pc ELSE "accounts")
     /\ UNCHANGED <<userVars, status, dbVars, secretVars, job, seen, mem, update, woken,
                    faults>>

\* One CR after the other; the bind9 CR also gets the number of its pods.
DeployService ==
  LET s == Services[idx]
  IN /\ pc = "services" /\ cr' = [cr EXCEPT ![s] = seen.image[s]]
     /\ bindReplicas' = (IF s = "bind9" THEN seen.replicas ELSE bindReplicas)
     /\ IF idx < Len(Services) THEN pc' = pc /\ idx' = idx + 1
        ELSE pc' = "accounts" /\ idx' = 0
     /\ UNCHANGED <<userVars, status, dbVars, secretVars, job, seen, mem, update, woken,
                    faults>>

\* DeleteUnusedMariaDBAccountFinalizers ends the reconcile.
ReleaseAccounts ==
  /\ pc = "accounts" /\ held' = held \cap {seen.account} /\ Return(mem, FALSE)
  /\ UNCHANGED <<userVars, granted, schema, secretVars, job, crVars, seen, faults>>

\* A call fails: the status is still patched, and the reconcile is retried.
Fails ==
  /\ pc \in FailAt /\ faults < MaxFaults /\ faults' = faults + 1
  /\ Return(mem, TRUE)
  /\ UNCHANGED <<userVars, dbVars, secretVars, job, crVars, seen>>

\* The operator stops: its copy of the status is lost.
Stops ==
  /\ pc # "idle" /\ faults < MaxFaults /\ faults' = faults + 1
  /\ pc' = "idle" /\ mem' = status /\ idx' = 0 /\ update' = FALSE /\ woken' = TRUE
  /\ UNCHANGED <<userVars, status, dbVars, secretVars, job, crVars, seen>>

----------------------------------------------------------------------------

Reconcile ==
  \/ Starts \/ EnsureDB \/ GenerateConfig \/ CheckHash \/ DbSync \/ DeployAPI
  \/ ExternalBinds \/ WriteRndc \/ DeployService \/ ReleaseAccounts

Next ==
  \/ Reconcile \/ Fails \/ Stops \/ SyncFinishes
  \/ EditSpec \/ EditBinds \/ PasswordArrives \/ IngressArrives
  \/ \E a \in Accounts : AccountReady(a)

Spec == Init /\ [][Next]_vars

\* A reconcile runs on once started, what it waits for arrives, the job ends.
FairSpec ==
  /\ Spec /\ WF_vars(Reconcile) /\ WF_vars(SyncFinishes)
  /\ WF_vars(PasswordArrives) /\ WF_vars(IngressArrives)
  /\ \A a \in Accounts : WF_vars(AccountReady(a))

----------------------------------------------------------------------------
(* Properties *)

Configs == {None} \cup [account : Accounts, host : BOOLEAN]
Defs == {None} \cup [image : 1 .. MaxImage, host : BOOLEAN]
Statuses == [host : BOOLEAN, input : Configs \cup {[empty |-> TRUE]}, sync : Defs,
             binds : 0 .. MaxBinds]

\* Types; the copies a reconcile works on are a spec and a status, and it is
\* inside the list of services while it deploys them.
TypeOK ==
  /\ {spec, seen} \subseteq Specs /\ {status, mem} \subseteq Statuses
  /\ binds \in 0 .. MaxBinds /\ edits \in 0 .. MaxEdits /\ faults \in 0 .. MaxFaults
  /\ held \subseteq Accounts /\ granted \subseteq Accounts /\ schema \in 0 .. MaxImage
  /\ config \in Configs /\ rndcKeys \in 0 .. MaxReplicas /\ rndc \in -1 .. MaxBinds
  /\ job \in [def : Defs, done : BOOLEAN]
  /\ cr \in [CRs -> 0 .. MaxImage] /\ bindReplicas \in 0 .. MaxReplicas
  /\ pc \in Steps \cup {"idle"} /\ (pc = "services" => idx \in DOMAIN Services)
  /\ (pc = "idle" => idx = 0 /\ ~update)
  /\ {password, ingress, update, woken, toggled} \subseteq BOOLEAN /\ ahead \subseteq CRs

\* No service is given an image before a db sync job of that image, or of a
\* later one, has migrated the database: not when the spec is edited while a
\* job runs, when an error of the database is dropped, when the config could
\* not be written, or when the operator stops between the job and the patch.
\* It is so because the API's image migrates; a service whose image the spec
\* ever had later than the API's got it with no migration, and is left out.
SchemaFirst == \A s \in CRs \ ahead : cr[s] <= schema

\* The account in the shared config keeps the finalizer that stops MariaDB from
\* dropping it, from before it is written there until another one has replaced
\* it, also when reconciles of two accounts are cut short.
ConfigAccountHeld == config # None => config.account \in held

\* The bind9 CR never asks for pods that have no rndc key yet.
NewBindsHaveKeys == [][bindReplicas' > bindReplicas => bindReplicas' <= rndcKeys']_vars

\* Once the edits end, every service has its image of the spec, the config and
\* the finalizers are for its account and the rndc Secrets fit its binds, with
\* errors (not of the write of the external rndc Secret), restarts, late
\* Secrets and late addresses on the way.  Only where an error or a restart
\* meets a spec that starts or stops naming external binds is nothing said of
\* their keys.
Deployed ==
  <>[]((spec.external => binds # 0) =>
         /\ \A s \in CRs : cr[s] = spec.image[s]
         /\ config = [account |-> spec.account, host |-> TRUE] /\ held = {spec.account}
         /\ rndcKeys = spec.replicas /\ bindReplicas = spec.replicas
         /\ ((toggled => faults = 0) => rndc = (IF spec.external THEN binds ELSE 0)))
=============================================================================
