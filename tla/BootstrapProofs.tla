-------------------------- MODULE BootstrapProofs --------------------------
(***************************************************************************)
(* What TLAPS proves of the way a deployment comes up and follows edits of *)
(* its spec, for every list of services and every set of accounts.         *)
(***************************************************************************)
EXTENDS Bootstrap, TLAPS

\* The reconcile has written, or left out, the config it deploys.
Rendered == {"hash", "sync", "api", "external", "rndc", "services", "accounts"}

Deploying == {"api", "external", "rndc", "services"}

\* What one step hands to the next.
InvIdx == pc = "rndc" => idx \in 0 .. MaxBinds

\* A definition counts as synced only when its job has migrated the database,
\* and the copy a reconcile works on has such an image for the API once it
\* deploys.  The other services have no later one, but for those that had it.
InvSync ==
  /\ job.done => job.def # None
  /\ job.done => job.def.image <= schema
  /\ status.sync # None => status.sync.image <= schema
  /\ mem.sync # None => mem.sync.image <= schema
  /\ pc \in Deploying => seen.image["api"] <= schema
  /\ \A s \in CRs \ ahead : spec.image[s] <= spec.image["api"]
  /\ \A s \in CRs \ ahead : seen.image[s] <= seen.image["api"]
  /\ SchemaFirst

\* The account of a reconcile is held from its first step on, and is the one in
\* the config once that was written.
InvHeld ==
  /\ pc \in {"config"} \cup Rendered => seen.account \in held
  /\ pc \in Rendered /\ config # None => config.account = seen.account
  /\ ConfigAccountHeld
  /\ config # None => password

\* The keys are made before the binds.
InvKeys == pc \in Rendered => rndcKeys = seen.replicas

----------------------------------------------------------------------------
(* Types *)

\* What is absent is not a definition, a configuration or the empty input.
LEMMA NoneFacts ==
  /\ \A a, h : None # [account |-> a, host |-> h]
  /\ \A i, h : None # [image |-> i, host |-> h]
  /\ None \in Configs /\ None \in Defs
  BY DEF None, Configs, Defs

LEMMA StatusTypes ==
  ASSUME NEW m \in Statuses
  PROVE  /\ [m EXCEPT !.host = TRUE] \in Statuses
         /\ \A i \in Configs \cup {[empty |-> TRUE]} : [m EXCEPT !.input = i] \in Statuses
         /\ \A d \in Defs : [m EXCEPT !.sync = d] \in Statuses
         /\ \A v \in 0 .. MaxBinds : [m EXCEPT !.binds = v] \in Statuses
  BY DEF Statuses

LEMMA InitType == Init => TypeOK
  <1> SUFFICES ASSUME Init PROVE TypeOK
    OBVIOUS
  <1>1. NoStatus \in Statuses
    BY ConstantsOK, NoneFacts DEF NoStatus, Statuses
  <1>2. NoJob \in [def : Defs, done : BOOLEAN]
    BY NoneFacts DEF NoJob
  <1>3. {password, ingress, update, woken, toggled} \subseteq BOOLEAN
    BY DEF Init
  <1>4. /\ binds \in 0 .. MaxBinds /\ edits \in 0 .. MaxEdits /\ faults \in 0 .. MaxFaults
        /\ schema \in 0 .. MaxImage /\ rndcKeys \in 0 .. MaxReplicas
        /\ rndc \in -1 .. MaxBinds /\ bindReplicas \in 0 .. MaxReplicas
        /\ cr \in [CRs -> 0 .. MaxImage]
    BY ConstantsOK DEF Init
  <1> QED BY <1>1, <1>2, <1>3, <1>4, NoneFacts DEF Init, TypeOK, Steps

\* The images of a spec are those of its services, the API among them.
LEMMA SpecTypes ==
  ASSUME NEW s \in Specs
  PROVE  /\ s.image \in [CRs -> 1 .. MaxImage] /\ "api" \in CRs
         /\ \A c \in CRs : s.image[c] \in 1 .. MaxImage /\ s.image[c] \in Nat
         /\ s.image["api"] \in 1 .. MaxImage
  <1>1. s.image \in Images
    BY DEF Specs
  <1>2. s.image \in [CRs -> 1 .. MaxImage]
    BY <1>1, ConstantsOK
  <1>3. "api" \in CRs
    BY DEF CRs
  <1>4. \A i \in 1 .. MaxImage : i \in Nat
    OBVIOUS
  <1> QED BY <1>2, <1>3, <1>4

\* A job that is there and not done has a definition.
LEMMA JobDefined ==
  ASSUME TypeOK, job # NoJob, ~job.done
  PROVE  job.def \in Defs \ {None}
  BY DEF TypeOK, NoJob

LEMMA ReturnType ==
  ASSUME NEW m \in Statuses, NEW requeue \in BOOLEAN, woken \in BOOLEAN, Return(m, requeue)
  PROVE  /\ pc' = "idle" /\ mem' \in Statuses /\ status' \in Statuses
         /\ idx' = 0 /\ update' = FALSE /\ woken' \in BOOLEAN
  BY DEF Return

LEMMA OutsideType ==
  ASSUME TypeOK,
         EditSpec \/ EditBinds \/ PasswordArrives \/ IngressArrives \/ SyncFinishes
         \/ \E a \in Accounts : AccountReady(a)
  PROVE  TypeOK'
  <1> USE DEF userVars, dbVars, secretVars, crVars, memVars
  <1>1. CASE EditSpec
    <2>1. edits' \in 0 .. MaxEdits
      BY <1>1, ConstantsOK DEF TypeOK, EditSpec
    <2>2. toggled' \in BOOLEAN /\ woken' \in BOOLEAN /\ ahead' \subseteq CRs
      BY <1>1 DEF TypeOK, EditSpec
    <2> QED BY <1>1, <2>1, <2>2 DEF TypeOK, EditSpec
  <1>2. CASE EditBinds
    <2>1. edits' \in 0 .. MaxEdits /\ binds' \in 0 .. MaxBinds
      BY <1>2, ConstantsOK DEF TypeOK, EditBinds
    <2>2. woken' \in BOOLEAN
      BY <1>2 DEF EditBinds
    <2> QED BY <1>2, <2>1, <2>2 DEF TypeOK, EditBinds
  <1>3. CASE PasswordArrives
    BY <1>3 DEF TypeOK, PasswordArrives
  <1>4. CASE IngressArrives
    BY <1>4 DEF TypeOK, IngressArrives
  <1>5. CASE SyncFinishes
    <2>1. job' \in [def : Defs, done : BOOLEAN]
      BY <1>5 DEF TypeOK, SyncFinishes
    <2>2. schema' \in 0 .. MaxImage
      <3>1. job.def \in [image : 1 .. MaxImage, host : BOOLEAN]
        BY <1>5, JobDefined DEF SyncFinishes, Defs
      <3> QED BY <1>5, <3>1, ConstantsOK DEF TypeOK, SyncFinishes
    <2> QED BY <1>5, <2>1, <2>2 DEF TypeOK, SyncFinishes
  <1>6. ASSUME NEW a \in Accounts, AccountReady(a) PROVE TypeOK'
    BY <1>6 DEF TypeOK, AccountReady
  <1> QED BY <1>1, <1>2, <1>3, <1>4, <1>5, <1>6

\* The steps of a reconcile up to the db sync.
LEMMA EarlyType ==
  ASSUME TypeOK, Starts \/ EnsureDB \/ GenerateConfig \/ CheckHash \/ DbSync
  PROVE  TypeOK'
  <1> USE DEF userVars, dbVars, secretVars, crVars, memVars
  <1>0. woken \in BOOLEAN /\ mem \in Statuses /\ status \in Statuses /\ seen \in Specs
    BY DEF TypeOK
  <1>1. CASE Starts
    BY <1>1 DEF TypeOK, Starts, Steps
  <1>2. CASE EnsureDB
    <2>1. held' \subseteq Accounts
      BY <1>2, <1>0 DEF TypeOK, EnsureDB, Hold, Specs
    <2>2. CASE GoTo("config")
      <3>1. faults' \in 0 .. MaxFaults
        <4>1. faults' = faults \/ (faults < MaxFaults /\ faults' = faults + 1)
          BY <1>2 DEF EnsureDB
        <4> QED BY <4>1, ConstantsOK DEF TypeOK
      <3>2. mem' \in Statuses
        BY <1>0, <1>2, <2>2, StatusTypes DEF EnsureDB, GoTo, Return
      <3> QED BY <1>2, <2>1, <2>2, <3>1, <3>2 DEF TypeOK, EnsureDB, GoTo, Steps
    <2>3. CASE Return(mem, TRUE) /\ UNCHANGED faults
      BY <1>0, <1>2, <2>1, <2>3, ReturnType DEF TypeOK, EnsureDB, Steps
    <2> QED BY <1>2, <2>2, <2>3 DEF EnsureDB
  <1>3. CASE GenerateConfig
    <2>1. rndcKeys' \in 0 .. MaxReplicas
      BY <1>0, <1>3, ConstantsOK DEF GenerateConfig, RndcKeys, Specs
    <2>2. config' \in Configs
      BY <1>0, <1>3 DEF TypeOK, GenerateConfig, Configs, Specs, Statuses
    <2> QED BY <1>3, <2>1, <2>2 DEF TypeOK, GenerateConfig, Steps
  <1>4. CASE CheckHash
    <2>1. Input \in Configs \cup {[empty |-> TRUE]}
      BY <1>0 DEF Input, Configs, Specs, Statuses
    <2>2. CASE Return([mem EXCEPT !.input = Input], TRUE)
      <3>1. [mem EXCEPT !.input = Input] \in Statuses
        BY <1>0, <2>1, StatusTypes
      <3> QED BY <1>0, <1>4, <2>2, <3>1, ReturnType DEF TypeOK, CheckHash, Steps
    <2>3. CASE /\ pc' = "sync" /\ update' = FALSE /\ UNCHANGED <<status, mem, idx, woken>>
      BY <1>4, <2>3 DEF TypeOK, CheckHash, Steps
    <2> QED BY <1>4, <2>2, <2>3 DEF CheckHash
  <1>5. CASE DbSync
    <2>1. SyncDef \in Defs
      <3>1. seen.image["api"] \in 1 .. MaxImage
        BY <1>0, SpecTypes
      <3>2. mem.host \in BOOLEAN
        BY <1>0 DEF Statuses
      <3>3. \A i \in 1 .. MaxImage, h \in BOOLEAN : [image |-> i, host |-> h] \in Defs
        BY DEF Defs
      <3>4. [image |-> seen.image["api"], host |-> mem.host] \in Defs
        BY <3>1, <3>2, <3>3, Zenon
      <3> QED BY <3>4 DEF SyncDef
    <2>2. job' \in [def : Defs, done : BOOLEAN]
      <3>1. UNCHANGED job \/ job' = [def |-> SyncDef, done |-> FALSE]
        BY <1>5 DEF DbSync
      <3>2. job \in [def : Defs, done : BOOLEAN]
        BY DEF TypeOK
      <3>3. [def |-> SyncDef, done |-> FALSE] \in [def : Defs, done : BOOLEAN]
        BY <2>1
      <3> QED BY <3>1, <3>2, <3>3
    <2>3. CASE Return(mem, TRUE)
      BY <1>0, <1>5, <2>2, <2>3, ReturnType DEF TypeOK, DbSync, Steps
    <2>4. CASE GoTo("api")
      <3>1. mem' \in Statuses
        BY <1>0, <1>5, <2>1, <2>4, StatusTypes DEF DbSync, GoTo, Return
      <3> QED BY <1>5, <2>2, <2>4, <3>1 DEF TypeOK, DbSync, GoTo, Steps
    <2> QED BY <1>5, <2>3, <2>4 DEF DbSync
  <1> QED BY <1>1, <1>2, <1>3, <1>4, <1>5

\* The steps that deploy, and the ends of a reconcile.
LEMMA LateType ==
  ASSUME TypeOK, InvIdx,
         \/ DeployAPI \/ ExternalBinds \/ WriteRndc \/ DeployService \/ ReleaseAccounts
         \/ Fails \/ Stops
  PROVE  TypeOK'
  <1> USE DEF userVars, dbVars, secretVars, crVars, memVars
  <1>0. /\ woken \in BOOLEAN /\ mem \in Statuses /\ seen \in Specs
        /\ \A s \in CRs : seen.image[s] \in 0 .. MaxImage
        /\ seen.replicas \in 0 .. MaxReplicas
    BY ConstantsOK DEF TypeOK, Specs
  <1>1. CASE DeployAPI
    BY <1>0, <1>1 DEF TypeOK, DeployAPI, GoTo, Steps, CRs
  <1>2. CASE ExternalBinds
    <2>1. CASE Return(mem, TRUE)
      BY <1>0, <1>2, <2>1, ReturnType DEF TypeOK, ExternalBinds, Steps
    <2>2. CASE pc' = "rndc" /\ UNCHANGED <<status, woken>>
      <3>1. mem' \in Statuses
        <4>1. binds \in 0 .. MaxBinds /\ 0 \in 0 .. MaxBinds
          BY ConstantsOK DEF TypeOK
        <4> QED BY <1>0, <1>2, <2>2, <4>1, StatusTypes DEF ExternalBinds, Return
      <3>2. update' \in BOOLEAN
        BY <1>2, <2>2 DEF ExternalBinds, ReadBinds, Return
      <3> QED BY <1>2, <2>2, <3>1, <3>2 DEF TypeOK, ExternalBinds, Steps
    <2> QED BY <1>2, <2>1, <2>2 DEF ExternalBinds, ReadBinds
  <1>3. CASE WriteRndc
    <2>1. rndc' \in -1 .. MaxBinds
      BY <1>3, ConstantsOK DEF TypeOK, WriteRndc, InvIdx
    <2>2. 1 \in DOMAIN Services
      BY ConstantsOK
    <2> QED BY <1>3, <2>1, <2>2 DEF TypeOK, WriteRndc, Steps
  <1>4. CASE DeployService
    <2>1. Services[idx] \in CRs
      BY <1>4 DEF DeployService, TypeOK, CRs
    <2>2. cr' \in [CRs -> 0 .. MaxImage] /\ bindReplicas' \in 0 .. MaxReplicas
      BY <1>0, <1>4, <2>1 DEF DeployService, TypeOK
    <2>3. pc' \in {"services", "accounts"} /\ (pc' = "services" => idx' \in DOMAIN Services)
      BY <1>4, ConstantsOK DEF DeployService, TypeOK
    <2> QED BY <1>4, <2>2, <2>3 DEF DeployService, TypeOK, Steps
  <1>5. CASE ReleaseAccounts
    BY <1>0, <1>5, ReturnType DEF TypeOK, ReleaseAccounts, Steps
  <1>6. CASE Fails
    <2>1. faults' \in 0 .. MaxFaults
      BY <1>6, ConstantsOK DEF TypeOK, Fails
    <2> QED BY <1>0, <1>6, <2>1, ReturnType DEF TypeOK, Fails, Steps
  <1>7. CASE Stops
    <2>1. faults' \in 0 .. MaxFaults
      BY <1>7, ConstantsOK DEF TypeOK, Stops
    <2> QED BY <1>7, <2>1 DEF TypeOK, Stops, Steps
  <1> QED BY <1>1, <1>2, <1>3, <1>4, <1>5, <1>6, <1>7

LEMMA NextType ==
  ASSUME TypeOK, InvIdx, [Next]_vars
  PROVE  TypeOK' /\ InvIdx'
  <1> USE DEF userVars, dbVars, secretVars, crVars, memVars
  <1>1. CASE UNCHANGED vars
    BY <1>1 DEF TypeOK, InvIdx, vars
  <1>2. CASE Next
    <2>1. TypeOK'
      BY <1>2, OutsideType, EarlyType, LateType DEF Next, Reconcile
    <2>2. CASE ExternalBinds
      <3>1. pc' = "idle" \/ idx' = binds \/ idx' = 0
        BY <2>2 DEF ExternalBinds, ReadBinds, Return
      <3>2. InvIdx'
        BY <3>1, <2>1, ConstantsOK DEF InvIdx, TypeOK
      <3> QED BY <2>1, <3>2
    <2>3. CASE ~ExternalBinds
      <3>1. pc' # "rndc" \/ UNCHANGED <<pc, idx>>
        BY <1>2, <2>3
        DEF Next, Reconcile, Starts, EnsureDB, GenerateConfig, CheckHash, DbSync,
            DeployAPI, WriteRndc, DeployService, ReleaseAccounts, Fails, Stops, SyncFinishes,
            EditSpec, EditBinds, PasswordArrives, IngressArrives, AccountReady, Return, GoTo
      <3> QED BY <2>1, <3>1 DEF InvIdx
    <2> QED BY <2>1, <2>2, <2>3
  <1> QED BY <1>1, <1>2

\* Types of the spec and the status, for any operation on it.
THEOREM TypeCorrect == Spec => []TypeOK
  <1>1. Init => TypeOK /\ InvIdx
    BY InitType DEF Init, InvIdx
  <1>2. TypeOK /\ InvIdx /\ [Next]_vars => TypeOK' /\ InvIdx'
    BY NextType
  <1> QED BY <1>1, <1>2, PTL DEF Spec

----------------------------------------------------------------------------
(* The database is migrated first *)

\* A step that neither runs a job nor deploys anything, nor edits the spec.
LEMMA SyncFrame ==
  ASSUME InvSync, UNCHANGED <<schema, cr, job, spec, ahead>>, seen' \in {seen, spec},
         mem'.sync \in {mem.sync, status.sync}, status'.sync \in {mem.sync, status.sync},
         pc' \in Deploying => pc \in Deploying /\ seen' = seen
  PROVE  InvSync'
  BY DEF InvSync, SchemaFirst

\* The images compared are numbers.
LEMMA ImageTypes ==
  ASSUME TypeOK
  PROVE  /\ schema \in Nat
         /\ \A s \in CRs : seen.image[s] \in Nat /\ spec.image[s] \in Nat
         /\ \A s \in CRs : cr[s] \in Nat
         /\ job.def # None => job.def.image \in Nat
         /\ mem.sync # None => mem.sync.image \in Nat
         /\ status.sync # None => status.sync.image \in Nat
  <1>1. seen \in Specs /\ spec \in Specs
    BY DEF TypeOK
  <1>2. \A s \in CRs : seen.image[s] \in Nat /\ spec.image[s] \in Nat
    BY <1>1, SpecTypes
  <1>3. schema \in Nat /\ \A s \in CRs : cr[s] \in Nat
    BY ConstantsOK DEF TypeOK
  <1>4. \A d \in Defs : d # None => d.image \in Nat
    BY DEF Defs
  <1>5. job.def \in Defs /\ mem.sync \in Defs /\ status.sync \in Defs
    BY DEF TypeOK, Statuses
  <1> QED BY <1>2, <1>3, <1>4, <1>5

\* The job ends: the image of the schema only grows.
LEMMA SyncFinishesSync ==
  ASSUME TypeOK, InvSync, SyncFinishes
  PROVE  InvSync'
  <1> USE DEF userVars, secretVars, crVars, memVars
  <1>1. /\ UNCHANGED <<cr, mem, status, seen, pc, spec, ahead>> /\ ~job.done
        /\ job' = [job EXCEPT !.done = TRUE] /\ job # NoJob
        /\ schema' = IF job.def.image > schema THEN job.def.image ELSE schema
    BY DEF SyncFinishes
  <1>2. job.def \in Defs \ {None} /\ job'.def = job.def
    BY <1>1, JobDefined DEF TypeOK
  <1>3. schema <= schema' /\ job.def.image <= schema' /\ schema' \in Nat
    BY <1>1, <1>2, ImageTypes
  <1>4. ASSUME NEW s \in CRs \ ahead PROVE cr'[s] <= schema'
    BY <1>1, <1>3, ImageTypes DEF InvSync, SchemaFirst
  <1>5. /\ mem.sync # None => mem.sync.image <= schema'
        /\ status.sync # None => status.sync.image <= schema'
    BY <1>3, ImageTypes DEF InvSync
  <1>6. pc \in Deploying => seen.image["api"] <= schema'
    BY <1>3, ImageTypes DEF InvSync, CRs
  <1> QED BY <1>1, <1>2, <1>3, <1>4, <1>5, <1>6 DEF InvSync, SchemaFirst

\* A reconcile goes on only with a definition whose job has run.
LEMMA DbSyncSync ==
  ASSUME TypeOK, InvSync, DbSync
  PROVE  InvSync'
  <1> USE DEF userVars, dbVars, secretVars, crVars, memVars
  <1>1. /\ UNCHANGED <<schema, cr, seen, spec, ahead>>
        /\ SyncDef.image = seen.image["api"] /\ SyncDef # None
    BY NoneFacts DEF DbSync, SyncDef
  <1>2. CASE Return(mem, TRUE) /\ UNCHANGED job
    BY <1>1, <1>2, SyncFrame DEF Return, Deploying
  <1>3. CASE Return(mem, TRUE) /\ job' = [def |-> SyncDef, done |-> FALSE]
    BY <1>1, <1>3 DEF Return, Deploying, InvSync, SchemaFirst
  <1>4. CASE mem.sync = SyncDef /\ GoTo("api") /\ UNCHANGED <<job, mem>>
    <2>1. seen.image["api"] <= schema
      BY <1>1, <1>4 DEF InvSync
    <2> QED BY <1>1, <1>4, <2>1 DEF GoTo, InvSync, SchemaFirst
  <1>5. CASE job.def = SyncDef /\ job.done /\ GoTo("api") /\ UNCHANGED job
             /\ mem' = [mem EXCEPT !.sync = SyncDef]
    <2>1. seen.image["api"] <= schema /\ mem'.sync = SyncDef
      BY <1>1, <1>5 DEF InvSync, TypeOK, Statuses
    <2> QED BY <1>1, <1>5, <2>1 DEF GoTo, InvSync, SchemaFirst
  <1> QED BY <1>2, <1>3, <1>4, <1>5 DEF DbSync

\* A service that gets a later image than the API by an edit is noted.
LEMMA EditSync ==
  ASSUME TypeOK, InvSync, EditSpec
  PROVE  InvSync'
  <1> USE DEF dbVars, crVars, memVars
  <1>1. /\ UNCHANGED <<schema, cr, job, mem, status, seen, pc>> /\ spec' \in Specs
        /\ ahead' = ahead \cup {c \in CRs : spec'.image[c] > spec'.image["api"]}
    BY DEF EditSpec
  <1>2. \A s \in CRs : spec'.image[s] \in Nat
    BY <1>1, ConstantsOK DEF Specs
  <1>3. ASSUME NEW s \in CRs \ ahead' PROVE spec'.image[s] <= spec'.image["api"]
    BY <1>1, <1>2 DEF CRs
  <1>4. ahead \subseteq ahead'
    BY <1>1
  <1> QED BY <1>1, <1>3, <1>4 DEF InvSync, SchemaFirst

LEMMA NextSync ==
  ASSUME TypeOK, InvSync, [Next]_vars
  PROVE  InvSync'
  <1> USE DEF userVars, dbVars, secretVars, crVars, memVars
  <1>1. CASE DeployAPI \/ DeployService
    <2>1. /\ UNCHANGED <<schema, job, mem, status, seen, spec, ahead>>
          /\ seen.image["api"] <= schema
      BY <1>1 DEF DeployAPI, DeployService, InvSync, Deploying, GoTo
    <2>2. ASSUME NEW s \in CRs \ ahead PROVE cr'[s] <= schema
      <3>1. cr'[s] \in {cr[s], seen.image[s]}
        BY <1>1 DEF DeployAPI, DeployService, TypeOK
      <3>2. seen.image[s] <= schema
        BY <2>1, ImageTypes DEF InvSync, CRs
      <3> QED BY <3>1, <3>2 DEF InvSync, SchemaFirst
    <2> QED BY <2>1, <2>2 DEF InvSync, SchemaFirst
  <1>2. CASE Starts \/ EnsureDB \/ GenerateConfig \/ CheckHash
    <2>1. CASE EnsureDB
      BY <2>1, SyncFrame DEF EnsureDB, GoTo, Return, Deploying, TypeOK, Statuses
    <2>2. CASE CheckHash
      BY <2>2, SyncFrame DEF CheckHash, Return, Deploying, TypeOK, Statuses
    <2> QED BY <1>2, <2>1, <2>2, SyncFrame DEF Starts, GenerateConfig, Deploying
  <1>3. CASE ExternalBinds
    BY <1>3, SyncFrame DEF ExternalBinds, ReadBinds, Return, Deploying, TypeOK, Statuses
  <1>4. CASE WriteRndc \/ ReleaseAccounts \/ Fails \/ Stops
    BY <1>4, SyncFrame DEF WriteRndc, ReleaseAccounts, Fails, Stops, Return, Deploying
  <1>5. CASE \/ EditBinds \/ PasswordArrives \/ IngressArrives \/ UNCHANGED vars
             \/ \E a \in Accounts : AccountReady(a)
    BY <1>5, SyncFrame
       DEF EditBinds, PasswordArrives, IngressArrives, AccountReady, vars
  <1>6. CASE EditSpec
    BY <1>6, EditSync
  <1> QED BY <1>1, <1>2, <1>3, <1>4, <1>5, <1>6, SyncFinishesSync, DbSyncSync DEF Next, Reconcile

\* No service is given an image the database was not migrated for, unless the
\* spec at some time had it later than the API's, whose image is the one that
\* migrates: for every list of services, all images the spec may name, and any
\* number of edits, dropped errors, failed calls and restarts of the operator.
THEOREM MigratedFirst == Spec => []SchemaFirst
  <1>1. Init => InvSync
    <2> SUFFICES ASSUME Init PROVE InvSync
      OBVIOUS
    <2>1. spec.image = [s \in CRs |-> 1] /\ seen = spec /\ "api" \in CRs
      BY DEF Init, CRs
    <2>2. \A s \in CRs : spec.image[s] <= spec.image["api"]
      BY <2>1
    <2>3. \A s \in CRs : cr[s] <= schema
      BY DEF Init
    <2> QED BY <2>1, <2>2, <2>3 DEF Init, InvSync, SchemaFirst, NoJob, NoStatus, Deploying
  <1>2. TypeOK /\ InvSync /\ [Next]_vars => InvSync'
    BY NextSync
  <1>3. InvSync => SchemaFirst
    BY DEF InvSync
  <1> QED BY <1>1, <1>2, <1>3, TypeCorrect, PTL DEF Spec

----------------------------------------------------------------------------
(* The account in the config, and the keys of the binds *)

\* A step after which no more than before is said of the reconcile.
LEMMA HeldFrame ==
  ASSUME InvHeld, InvKeys, UNCHANGED <<config, rndcKeys>>, held \subseteq held',
         password => password',
         pc' \in {"config"} \cup Rendered => seen' = seen /\ pc \in {"config"} \cup Rendered,
         pc' \in Rendered => pc \in Rendered
  PROVE  InvHeld' /\ InvKeys'
  BY DEF InvHeld, InvKeys, ConfigAccountHeld

LEMMA NextHeld ==
  ASSUME TypeOK, InvHeld, InvKeys, [Next]_vars
  PROVE  InvHeld' /\ InvKeys'
  <1> USE DEF userVars, dbVars, secretVars, crVars, memVars
  <1>1. CASE EnsureDB
    <2>1. /\ UNCHANGED <<config, rndcKeys, password, seen>> /\ pc' \notin Rendered
          /\ held \subseteq held' /\ seen.account \in held'
      BY <1>1 DEF EnsureDB, Hold, GoTo, Return, Rendered
    <2> QED BY <2>1 DEF InvHeld, InvKeys, ConfigAccountHeld
  <1>2. CASE GenerateConfig
    <2>1. /\ UNCHANGED <<password, seen, held>> /\ seen.account \in held
          /\ rndcKeys' = seen.replicas
          /\ config' = IF password THEN [account |-> seen.account, host |-> mem.host] ELSE config
      BY <1>2 DEF GenerateConfig, RndcKeys, InvHeld
    <2>2. config' # None => config'.account = seen.account /\ password
      BY <2>1 DEF InvHeld
    <2> QED BY <2>1, <2>2 DEF InvHeld, InvKeys, ConfigAccountHeld
  <1>3. CASE ReleaseAccounts
    <2>1. /\ UNCHANGED <<config, rndcKeys, password, seen>> /\ pc' = "idle"
          /\ held' = held \cap {seen.account} /\ pc = "accounts"
      BY <1>3 DEF ReleaseAccounts, Return
    <2> QED BY <2>1 DEF InvHeld, InvKeys, ConfigAccountHeld, Rendered
  <1>4. CASE Starts \/ CheckHash \/ DbSync \/ DeployAPI
    BY <1>4, HeldFrame DEF Starts, CheckHash, DbSync, DeployAPI, GoTo, Return, Rendered
  <1>5. CASE ExternalBinds \/ WriteRndc \/ DeployService \/ Fails \/ Stops
    BY <1>5, HeldFrame
       DEF ExternalBinds, ReadBinds, WriteRndc, DeployService, Fails, Stops, Return, Rendered
  <1>6. CASE \/ EditSpec \/ EditBinds \/ PasswordArrives \/ IngressArrives \/ SyncFinishes
             \/ UNCHANGED vars \/ \E a \in Accounts : AccountReady(a)
    BY <1>6, HeldFrame
       DEF EditSpec, EditBinds, PasswordArrives, IngressArrives, SyncFinishes, AccountReady, vars
  <1> QED BY <1>1, <1>2, <1>3, <1>4, <1>5, <1>6 DEF Next, Reconcile

LEMMA Invariance == Spec => [](TypeOK /\ InvHeld /\ InvKeys)
  <1>1. Init => InvHeld /\ InvKeys
    BY DEF Init, InvHeld, InvKeys, ConfigAccountHeld, Rendered
  <1>2. TypeOK /\ InvHeld /\ InvKeys /\ [Next]_vars => InvHeld' /\ InvKeys'
    BY NextHeld
  <1> QED BY <1>1, <1>2, TypeCorrect, PTL DEF Spec

\* The account in the shared config always has our finalizer.
THEOREM AccountHeld == Spec => []ConfigAccountHeld
  <1>1. InvHeld => ConfigAccountHeld
    BY DEF InvHeld
  <1> QED BY <1>1, Invariance, PTL

\* The bind9 CR is scaled up only when the new pods have their rndc keys.
THEOREM KeysFirst == Spec => NewBindsHaveKeys
  <1>1. TypeOK /\ InvKeys /\ [Next]_vars
          => [bindReplicas' > bindReplicas => bindReplicas' <= rndcKeys']_vars
    <2> SUFFICES ASSUME TypeOK, InvKeys, Next, bindReplicas' > bindReplicas
                 PROVE  bindReplicas' <= rndcKeys'
      OBVIOUS
    <2> USE DEF userVars, dbVars, secretVars, crVars, memVars
    <2>1. bindReplicas \in Nat /\ seen.replicas \in Nat
      BY ConstantsOK DEF TypeOK, Specs
    <2>2. bindReplicas' # bindReplicas
      BY <2>1
    <2>3. DeployService
      BY <2>2 DEF Next, Reconcile, Starts, EnsureDB, GenerateConfig, CheckHash, DbSync,
         DeployAPI, ExternalBinds, WriteRndc, ReleaseAccounts, Fails, Stops, SyncFinishes,
         EditSpec, EditBinds, PasswordArrives, IngressArrives, AccountReady
    <2>4. bindReplicas' = seen.replicas /\ rndcKeys' = seen.replicas
      BY <2>2, <2>3 DEF DeployService, InvKeys, Rendered
    <2> QED BY <2>1, <2>4
  <1> QED BY <1>1, Invariance, PTL DEF Spec, NewBindsHaveKeys

=============================================================================
