# A TLA+ verification project for designate-operator

designate-operator is a Kubernetes operator, written in Go with
controller-runtime, that deploys OpenStack Designate (DNS as a service).  This
directory holds TLA+ models of its controllers, the TLC configurations that
check them on small instances, and theorems about them that TLAPS proves.

Paths below are relative to the repository.  `DC` is
`internal/controller/designate_controller.go`, `MP`
`internal/controller/designatebackendbind9_multipool.go`.

## 1. The system

### Components, their state and operations

| Component | Where | State | Operations |
|---|---|---|---|
| Designate controller (the parent) | `DC` | status of the `Designate` CR: tracked transport secrets, hashes, ready counts, known pools | one `Reconcile` that ensures database, message bus, keystone inputs, config secret, db sync, rndc secrets, address maps, pools.yaml, the seven sub-CRs, then finalizes secret rotations; `reconcileDelete` |
| Transport credential rotation | `DC` 908-1037, 1686-1767, 645-702 | consumer finalizers on secrets, `Status.TransportURLSecret`, `Status.NotificationsTransportURLSecret` | take, roll out, finalize, tear down, prune, release on delete |
| Sub-CR controllers api, central, worker, mdns, producer | `internal/controller/designate*_controller.go` | `Status.Hash`, `AppliedInputSecretHash`, `ObservedGeneration`, conditions | hash the inputs, render, create or patch the workload, report readiness for an input |
| Predictable addresses | `DC` 1258-1389, 1828-1892, `designate_bind_configmaps.go`, `templates/common/setipalias.py` | one ConfigMap per service or bind pool: pod index -> address | allocate, publish, delete maps of removed pools; pods take their address |
| Pool membership | `DC` 180-295, 1235-1256, 1391-1496, `MP` | multipool ConfigMap, pools.yaml, `Status.Hash` (`multipool-pools`, `pool-update`), StatefulSets by position | check removals, write pools.yaml, list and update jobs, apply and retire StatefulSets |
| TSIG keys | `designatebackendbind9_tsig.go`, `internal/designate/tsigkeys.go` | keys in Designate, Secrets per pool, readiness annotation | discover pool ids, ensure keys, write Secrets, publish when BIND has loaded them, clean up |
| bind9 controller, single pool | `designatebackendbind9_controller.go` | one StatefulSet, services | as the other sub-CRs, plus services per pod |
| Unbound controller | `designateunbound_controller.go` | StatefulSet, stub zones | render forwarders and stub zones, services per pod |
| Application credentials | `designateapi_controller.go` | finalizer on the application credential secret | take, roll out, release |
| Database, db sync | `DC` 704-906, `internal/designate/dbsync.go` | MariaDB account and finalizers, shared config Secret, sync job | ensure, render, run once per job definition, release unused accounts |
| pools.yaml generation | `internal/designate/generate_bind9_pools_yaml.go` | none (pure) | pools, masters, targets, NS records |
| rndc keys, external bind servers | `DC` 1121-1233, 1938-1999 | Secret of keys per bind, Secret of external keys, `Status.Hash` | add keys for new binds and drop surplus ones, follow the ExternalBindsSecret |
| Pod labels, DNS services | `internal/designate/common.go`, `MP` | labels, Services | label pods, one Service per pod |
| Network attachments | `internal/designate/network_parameters.go`, `bind_ctrl_network.go` | none (pure) | parse the NAD, derive the address range |
| Webhooks | `api/v1beta1/designate_webhook.go`, `multipool_configmap_webhook.go` | none | defaults, validation |
| Entry point, CR types | `cmd/main.go`, `api/v1beta1/*_types.go` | none | wiring |

### Interactions

Controllers do not call each other; they share Kubernetes objects.  The parent
writes sub-CR specs and annotations, ConfigMaps and Secrets, and reads the
sub-CRs' status.  Sub-CR controllers read the parent's config secret and own
the workloads.  The bind9 controller reads the multipool ConfigMap on its own,
not through the parent.  infra-operator owns the TransportURL CRs and the
RabbitMQ secrets; a secret without a consumer finalizer may be deleted and its
user revoked.  Jobs (`designate-manage pool update`, with and without
`--dry-run`) connect the controllers to Designate's database.

### What is hard

* Reconciles of several controllers interleave, and each one acts on what it
  read at its start: status fields, annotations, finished jobs.
* Any API call may fail and the process may stop between any two of them; the
  status is patched only at the end (a deferred call), objects at once.
* Rollouts take time: pods on old and new inputs coexist.
* The environment changes meanwhile: credentials rotate again, pools are
  edited again, the CR is deleted.
* Limits: the address range runs out, index arithmetic over pools.
* Something must happen in the end: rotations complete, orphans go, pools are
  registered.

`PROJECT.json` lists these hazards one by one, at the line where they bite.

### What makes each component correct

* Rotation: a secret used by a running pod holds the finalizer; no finalizer
  is left behind; rotations and teardowns complete.
* Addresses: no address twice, in the maps and among running pods; a pod keeps
  its address; what is advertised is where the pod answers.
* Pools: a pool with zones is neither dropped from pools.yaml nor left without
  servers; pools that stay keep being served; orphans go; new pools get
  registered; a refusal has a reason.
* TSIG: BIND has loaded a key before anything signs with it; a pool keeps its
  key; every pool that needs one gets one.
* Service controllers: no change of an input that is hashed or rendered is
  missed, whatever the caches show; a confirmed input is one the pods run; ready
  means complete.
* Application credentials: as for the transport credentials.
* Database: no service before the schema of the API's image is in place; the
  account in use is held.

## 2. Modules

| Module | Content |
|---|---|
| `CredentialUse` | abstract: a credential in use is not revoked |
| `TransportRotation` | parent, sub-CR controllers, pods, infra-operator, for the rotation of the two RabbitMQ secrets; implements `CredentialUse` |
| `TransportRotationInv` | its inductive invariant |
| `TransportRotationProofs` | its proofs |
| `ACRotation` | the API controller, pods and keystone-operator, for application credentials; implements `CredentialUse` |
| `ACRotationProofs` | inductive invariant and proofs |
| `InputHandshake` | abstract: what a service controller promises by confirming an input |
| `SubControllers` | the seven service controllers with lagging caches; implements `InputHandshake` |
| `SubControllersProofs` | inductive invariants and proofs |
| `Bootstrap` | the Designate controller from the database to the CRs of the services, and the rndc Secrets |
| `BootstrapProofs` | inductive invariants and proofs |
| `PredictableIPs` | the address maps, the reconcile that writes them, workloads and pods |
| `PredictableIPsProofs` | inductive invariant and proofs |
| `SortedPools` | the sorted list of pools: positions, pool at a position |
| `SortedPoolsProofs` | positions are a numbering of the pools |
| `PoolRemoval` | the Designate and the bind9 controller following the multipool ConfigMap |
| `PoolRemovalProofs` | inductive invariants and proofs |
| `TsigKeys` | the two controllers, Designate, BIND and the workers, for per-pool TSIG keys |
| `TsigKeysProofs` | inductive invariants and proofs |
| `MC...` | constants of the instances for TLC |

The modules overlap where components meet: `SubControllers` has, per service and
with caches, what `TransportRotation` has as one generic process for all five
services at once; `InputHandshake` is the contract between the two.  `TsigKeys`
has the job of `PoolRemoval` as one step, `PoolRemoval` the keys as one step.

Each component module also contains its *mutants*, operators named
`<Definition>_<Change>` that stand right before the definition they change the
way a plausible bug would.  They are in no specification; replacing the
definition by its mutant must break the property `PROJECT.json` pairs with it.

### TransportRotation

One action is one API call or a run of calls nobody else can tell apart.

| Code | Model |
|---|---|
| `Status.TransportURLSecret`, `Status.NotificationsTransportURLSecret` | `st`; `lst` in the running reconcile, written back by the deferred patch (`ParentPatch`, `ParentReturn`) |
| secret names | numbers per bus in the order they are issued, 0 for none |
| consumer finalizers | `fin` |
| rendered config secret, its hash | `config`, `pHash`; hashes are the hashed contents |
| `transportURLCreateOrUpdate`, adoption of the name, finalizer | `UseTransportURL`, used by `ParentTransport` and `ParentNotifications` |
| `reconcileInit` up to the changed-hash return | `ParentConfig`; `ParentConfigSkipped` when the service password Secret is missing: nothing is rendered, no error returned, an empty input hashed |
| create or update of one sub-CR and reading its status | `ParentService(s)` |
| `guardReady` | `ParentGuard` (all services ready, the hash that of the input), `ParentGuardHeld` (one of the other conditions is not true) |
| `FinalizeSecretRotation`, teardown, prune | `ParentFinalizeTransport`, `ParentFinalizeNotifications`, `ParentDeleteNotifications`, `ParentPrune` |
| `reconcileDelete` | `ParentRelease`, `ParentDeletePrune` |
| reconcile of a sub-CR | `SubStart`, `SubRead`, `SubDeploy`, `SubCheck`; `seen` says whether the generation it read is still the current one |
| early returns, crashes | `ParentReturn`, `ParentCrash`, `SubReturn`, `SubCrash` |
| rollout of a pod template | `StartPod`, `StopPod`; a pod loads the config that is current when it starts, so `creds` may differ from the template's hash; `RestartPod` |

`base` is a history variable: the configuration of the last completed change.
`Overlap = FALSE` restricts users and infra-operator to start a change of
credentials after the last one has settled.

### PredictableIPs

| Code | Model |
|---|---|
| predictable range | `Addrs`, `1 .. PoolSize`; 0 is "no entry" |
| `allocatePredictableIPs`, `GetNextIP` | `Allocations`: the maps it may return, described by what holds of them (kept entries, lowest free address in order); empty for an error |
| `allocatedIPs`, `updatedBindMap`, `bindIndex`, `poolIdx` | variables of the same names |
| the three blocks of `DC` 1318-1389 | `PublishMdns`, `AllocateBind`, `PublishUnbound` |
| `reconcileBindConfigMaps` | `WritePool`, `DeleteOrphanMap` |
| create or update of the sub-CRs | `ScaleMdns`, `ScaleBind`, `ScaleUnbound`; the sub-CR's controller passing replicas to its StatefulSet is merged into them |
| StatefulSets of pools | `ScalePool` |
| `setipalias.py` in the init container | `StartPod`: it needs the entry |

### PoolRemoval

| Code | Model |
|---|---|
| multipool ConfigMap | `cm`, the set of pools; `{}` if there is none |
| sorted pool list, StatefulSet per position | `Position`, `PoolAt` of `SortedPools`, `sts` |
| `extractPoolNameFromStatefulSetName` | `PoolOf`, a constant |
| pool list job, its deadline and time to live | `list`, `ListStarted`, `ListJobFinishes`, `ListJobExpires` |
| pool update job | `update`, `UpdateJobFinishes`, `UpdateJobFails` |
| `validatePoolRemovals` | `ParentValidates`, `ParentAccepts` |
| pools.yaml, its hash, start of the job | `ParentWritesYaml`, `ParentUpdates` |
| deployment of central, ready count | `ParentDeploys`, `CentralStarts` |
| bind9 controller | `Bind9Reads`; `Bind9Applies`, one position of the loop (`bidx`) per step, which may fail at any of them; `Bind9CleansUp` (one orphan per reconcile); `Bind9Keys` (TSIG pool discovery, which may delete the list job) |

### SubControllers

A behaviour follows one CR of one kind.  What a kind does is data, `Program`: a
sequence of steps put together from `<Kind>Inputs`, `<Kind>Config`,
`<Kind>Workload` and so on; the steps are the actions.

| Code | Model |
|---|---|
| versions of Secrets, ConfigMaps, NADs and so on | `ver`; 0 if missing |
| what the informers show | `seen`, `crSeen`, brought up to date by `Deliver`, `DeliverCR` |
| work queue, delayed requeues | `queued`, `retry` |
| `getSecret`, lookups of ConfigMaps, Topology and NADs | `ReadInput`, `NeedInput`; the four ways a missing one is handled are `miss` |
| `generateServiceConfigMaps` | `RenderConfig`, into `own` |
| `createHashOfInputHashes`, changed hash ends the reconcile | `HashInputs` |
| `hasMapChanged`, `hasSecretChanged` (bind9) | `NoteInput`, `RecheckNotes`: into `notes` of the status, not into the template |
| KeystoneService and KeystoneEndpoint (api) | `RegisterService`, `KeystoneRegisters` |
| `ensureTopology` | `EnsureTopology` |
| Deployment or StatefulSet, its readiness, `AppliedInputSecretHash` | `ApplyWorkload`, `CheckWorkload` with `ReadyForInput` |
| `findObjectsForSrc`, `SetupWithManager` | `<Kind>Fields`, `<Kind>Watches` |
| `reconcileDelete` | `<Kind>Cleanup`, `ReleaseHeld` |
| the parent's config Secret, CR spec and annotation | `ParentRender`, `ParentStamp`: the config first, the CR later |

### ACRotation

The reconcile of designate-api reduced to the credential: `RenderAC`, `HashAC`,
`HoldAC`, `DeployAC`, `CheckAC`, `FinalizeAC`, `PruneAC`, `ReleaseAC`.  `tracked` is
`Status.ApplicationCredentialSecret`, `fin` the finalizers, `revoked` what
keystone-operator has revoked, `input` what is about to be hashed.
`RenderSkipped` is a reconcile that misses the password Secret: it renders
nothing and hashes without the credential (`Bare`).  `Overlap = FALSE` as for the
transport; with `LongOutages = FALSE` no two reconciles in a row miss that Secret.

### TsigKeys

| Code | Model |
|---|---|
| keys in Designate | `keys`, by pool; ids are numbers and not used again |
| Secret per position, its resource version and content hash | `sec`; the canonical one also has `ids` and `ready` (`tsig-keys-ready`) |
| StatefulSet per position with the version of its Secret, its pod | `sts`, `pods`; `BindApplies`, and `BindAppliesFails(n)` when the loop ends after position `n` |
| selection of ids for pools.yaml | `Picked` |
| `perPoolTSIGSecretsCurrent`, `publishTSIGKeysWhenReady` | `Current`, `Loaded`, `BindCompares` |
| `ensurePerPoolTSIGKeys`, clean-up, Secrets | `BindEnsuresKeys`, `BindCleansUp`, `BindWrites` |
| way back to a single pool | `BindDrops` |
| `init.sh` of the bind pods | `PodStarts` |

### Bootstrap

| Code | Model |
|---|---|
| `Status.DatabaseHostname`, `Status.Hash` (input, db sync, external binds) | `status`; `mem` in the running reconcile, written back by `Return`, lost by `Stops` |
| `ensureDB`, with the dropped error of `WaitForDBCreated` | `EnsureDB` |
| `generateServiceConfigMaps`, `createHashOfInputHashes` | `GenerateConfig`, `CheckHash` |
| `ContainerImage` of each service | `spec.image`, an image per CR; `cr`, the images the CRs have been given |
| db sync job | `DbSync`, `SyncFinishes`; its definition (`SyncDef`) is the API's image and the host |
| external binds | `ExternalBinds`, `WriteRndc` |
| CRs in their order, bind replicas | `DeployAPI`, `DeployService` |
| `DeleteUnusedMariaDBAccountFinalizers` | `ReleaseAccounts` |
| requeues and watches | `woken` |

`ahead` is a history variable: the services whose image the spec ever had later
than the API's.

## 3. Runs

Passing runs:

| Run | Bounds | Checks |
|---|---|---|
| `Rotation` | one service, one rotation, notifications on and off, deletion, a fault, fair | `TypeOK`; `IInv`, the invariant of the proofs; `InUseProtected`: a secret a pod uses holds the finalizer; `NeverRevokedInUse`: `CredentialUse` is implemented; `RotationCompletes`, `NotificationsTornDown` |
| `RotationRapid` | three names, overlapping rotations, deletion, two faults | `NoneOlderThanTracked`: no running pod is behind the tracked secret; `NoLeakAfterDelete` |
| `ACRotation` | two pods, three credentials one after the other, deletion, two faults (a reconcile without the password Secret is one), fair | `TypeOK`, `NoLeakAfterDelete`, `NeverRevokedInUse` (`CredentialUse`), `RotationCompletes` |
| `SubControllers` | all seven kinds, an edit (two for Unbound), inputs that come late, caches that lag, faults for central and Unbound, deletion for central and api, fair | `TypeOK`; `NoChangeMissed`: at rest the pods run the current inputs that are hashed or rendered, and the status has noted the current address map (bind9); `ReadyMeansComplete`; `FinalizersAccounted`; `Handshake`: `InputHandshake` is implemented; `RolledOut`, in the end all of this holds |
| `Bootstrap` | two images, changed for all services, the API alone or all but the API; two replica counts, accounts and versions of external binds, an edit, a fault at any step, fair | `TypeOK`; `SchemaFirst`: no service before the db sync of its image, unless its image was ahead of the API's; `ConfigAccountHeld`; `NewBindsHaveKeys`; `Deployed` |
| `TsigKeys` | two pools or one or none, both AZ modes, an edit, a touched input, a fault, fair | `TypeOK`; `SignedKeysLoaded`: workers sign with keys BIND has; `KeysStable`; `KeysInUse` |
| `AddressesSingle` | one pool, two successive changes, a fault, fair | `TypeOK`, `MapsDisjoint`, `PodsDistinct`, `PodsMatchMaps`, `KeepsAddresses`, `EventuallyAllRun` |
| `AddressesMultipool` | two pools entered and left at any time, a range too small at times, a fault | `DisjointWhenPublished`, `KeepsMainAddresses` |
| `PoolsRemoval` | three pools, any one edit, one zone, one fault | `TypeOK`, `YamlKeepsZonedPools`; `KeptPoolsServed`: a pool that stays keeps a StatefulSet, unless the loop pushes it back to make room for a pool added before it |
| `PoolsLiveness` | three pools, one edit that adds (at the end or in the middle) or removes, a zone, fair | `OrphansRemoved`: every pool gets the StatefulSet of its position, also one that was pushed back, and nothing else stays; `PoolsRegistered` |

Runs that end in a counterexample, each for a statement the code makes about
itself (the quotations are in `PROJECT.json` under `findings`):

| Run | What TLC shows |
|---|---|
| `RotationPruneInUse` | After rotations A to B to C with the status still at A, pods rolled out on B lose B's finalizer: the prune keeps only the tracked and the current name (`DC` 1754). |
| `PoolsZonesUnserved` | The zone check before a StatefulSet is retired uses a name such as `pool1`, which no pool has, so the StatefulSet of a pool with zones is scaled to 0 (`MP` 593). |

### Further observations

Cases met while modelling that have no run of their own.  Those that name a
property can be reproduced with other constants.

Transport and application credentials:

* A notifications bus disabled before its first secret is published is never
  torn down, because teardown needs a tracked secret name (`DC` 1728):
  `NotificationsTornDown` with `Overlap = TRUE`.
* Application credentials have the prune of the transport and its weakness
  (`designateapi_controller.go` 1142): with `Overlap = TRUE` both
  `NeverRevokedInUse` and `NoLeakAfterDelete` fail in `ACRotation`, although the
  comments want "that rapid rotations don't revoke a credential still in use by
  pods" (921-923) and handle "the edge case where the reconciler crashed after
  adding the finalizer but before updating the status" (532-534).
* While the password Secret is missing, designate-api renders no config but goes
  on (`designateapi_controller.go` 1256-1267, 767-770).  After the second such
  reconcile in a row a new credential counts as rolled out and the old one is
  released, although the pods still load it: `NeverRevokedInUse` of `ACRotation`
  with `LongOutages = TRUE`, against the comment quoted in the last point (923).
* The Designate controller has the same early return (`DC` 2085-2096).  Two
  reconciles in a row without the password Secret stamp CRs for a configuration
  that was not written: with `"password" \in Changes`, `InUseProtected` fails in
  `TransportRotation` (`MaxTransport = 3`, two faults), and `NoneOlderThanTracked` with
  the constants of `RotationRapid`.  The services hash the transport secret
  itself except designate-api, which confirms at once; the others roll out first.

Service controllers:

* bind9 compares its address map and the rndc keys with what it noted in its
  status, but does not put them into the hash of the StatefulSet's template: a change
  restarts no pod, although the comment says "Predictable IPs and/or rndc keys
  have been updated, we need to update the statefulset"
  (`designatebackendbind9_controller.go` 519).  `NoChangeMissed` says of the map
  that the change is noted, and fails if pods are to have loaded the noted
  version; the rndc keys are not watched either.
* The expected input hash is a hash of secret *names* (`DC` 1081-1085), and the
  config Secret is read from a cache that may lag behind it.  A controller that
  reads the rotated secret itself is safe; designate-api, which does not read
  the transport secret, and every controller for the notifications secret can
  confirm an input that its pods do not run, and the parent then releases the
  old credential: `Handshake` with `Rotations <- StaleRotations`.
* api, worker and mdns drop the result of `getSecret` (worker line 453): with a
  missing input they go on, mark `InputReady` true and can become ready.
* Unbound and bind9 do not watch their NAD, and Unbound not its address map;
  they see a change with the next reconcile.  Address maps that pods mount are
  neither watched nor hashed by mdns.  With a missing NAD bind9's
  `generateServiceConfigMaps` returns without an error and without having written.
* Unbound's `reconcileDelete` removes its own finalizer before the one on the
  Topology.
* A restart between taking the finalizer on a Topology and the patch of the
  status leaks it; `FinalizersAccounted` excludes it with `crashed`.

Bootstrap:

* The images of the services are seven fields of the spec, and the db sync job
  has the API's (`internal/designate/dbsync.go` 77, 90).  A service whose image
  alone is upgraded is deployed with no migration: `SchemaFirst` without `ahead`.
* If the password Secret goes while the database account is edited, the config
  is not rendered again (`DC` 2085-2096) and goes on naming the old account,
  which the end of the reconcile releases (`DC` 1680-1684).  In the model the
  Secret comes and stays (`PasswordArrives`), so `ConfigAccountHeld` says nothing of it.
* The hash of the external binds is set (`DC` 1186, 1205) before the Secret is
  written (1223).  If that write fails, the patched hash says that it was done,
  and the Secret is not written until the binds change again: `Deployed` with
  `FailAt <- Steps`.
* If instead the Secret is written and the operator stops before the patch, and
  the spec then stops naming external binds, the old keys stay, because the
  code looks at the hash and not at the Secret: `Deployed` without its exception
  for `toggled`.  The comment says "check if the external rndc secret data is
  present and if it is - remove the contents" (`DC` 1189-1190).
* Unused accounts lose their finalizer at the end of every reconcile (`DC`
  1681), whether or not pods that use them have been replaced.  Deletion of the
  CR releases only the account its spec names (`DC` 651), so an account changed
  shortly before keeps its finalizer.
* rndc keys past the new number of binds are dropped at the start of a
  reconcile (`DC` 1997), the binds at its end.  A pool whose removal is refused
  for its zones in between (`DC` 1243) has lost its rndc keys all the same.
* In multipool mode the bind9 controller takes the replicas from the ConfigMap
  (`MP` 205-217), which it may read before the parent has added keys;
  `NewBindsHaveKeys` is about the replicas in the CR.
* An error of `WaitForDBCreated` is dropped (`DC` 889).  `SchemaFirst` and
  `Deployed` hold with it: without a host the job cannot finish, and its
  definition changes when the host is known.

TSIG keys:

* Secrets and StatefulSets go by position.  A pool removed or inserted in the
  middle moves later pools to Secrets of other keys while their workers go on
  signing with the old ones: `SignedKeysLoaded` with configurations that are not
  a chain.
* Clean-up of orphaned keys is not fatal, and not repeated once the hash of the
  configuration is stored.  A key deleted just before the operator stops is not
  made again when its pool returns, because `perPoolTSIGSecretsCurrent` does not
  look at Designate: `KeysInUse` with `MaxEdits = 2`, `MaxFaults = 2`.
* Back in single-pool mode the per-pool keys stay in Designate.
* If a TSIG Secret is deleted, the StatefulSets are applied before it is
  written again and BIND restarts without the key first (the volume is
  optional); `SignedKeysLoaded` says nothing after that (`lost`).
* Setting `tsig-keys-ready` changes the version of the canonical Secret, which in
  AZ mode rolls the first pool once more.

Addresses and pools:

* StatefulSets are patched position by position (`MP` 205-324).  A pool added in
  the middle of the sorted list takes over the StatefulSet of the pool behind it
  before that one is given another; an error in between prolongs the time it is without
  one: `KeptPoolsServed` without `PushedBack`.
* Binds of the second and later pools are allocated anew in every reconcile and
  move when mDNS, pool 0 or Unbound grows (`DC` 1359): `KeepsAddresses` with two
  pools.
* On a full address range, one bind less and one mDNS pod more fails in every
  retry, because the address to be freed is still counted as allocated
  (`DC` 1307): `EventuallyAllRun` with `PoolSize = 4` and requests of the same
  total size.
* The hash of pools.yaml is stored when the update job starts; a job that fails
  is not repeated (`DC` 1489): `PoolsRegistered` with a fault.
* A finished list job older than a pool lets that pool go, zones or not
  (`DC` 226).
* Position 0 is meant for the default pool ("Pool 0 (default) uses instance.Name",
  `MP` 209; only positions above 0 and availability zones get TSIG, `MP` 226), but
  the pools are sorted by name (`generate_bind9_pools_yaml.go` 171).  With a pool
  named, say, `alpha`, the way back to a single pool retires the StatefulSet of the
  default pool before position 0 is given to it: `KeptPoolsServed` with
  `Order <- <<"alpha", "default">>`.  The proof of `KeptServed` found this; the theorem has
  the hypothesis `DefaultFirst`.  Outside availability zones such a pool at position 0
  is never given a key either: `KeysInUse` with the same `Order`.
* A pool removed before pools.yaml first exists blocks the reconcile for good:
  the check waits for a job that mounts pools.yaml, which is written behind the
  check (`DC` 226): `PoolsRegistered` with `EarlyEdits = TRUE`.
* Deleting the multipool ConfigMap counts the default pool as removed, and is
  refused for its zones although it stays (`DC` 206): in `ParentValidates`,
  `Removed` contains `Default` when `config` is `{}`.

### Why the bounds are enough

Two secrets per bus make one rotation, three make one that is overtaken, which
is the smallest number for which "tracked", "in use" and "current" are three
different names.  Services do not know of each other; `Rotation` and
`RotationRapid` have one, `RotationPruneInUse` two, and the theorems hold for any
number.  `ACRotation` has two pods, so that old and new ones coexist.  One fault
may hit any step of any actor, a second one its recovery.

`SubControllers` starts every kind from nothing, with the inputs named in
`MCAbsent` missing at first, and changes those in `MCTouched`, which between
the kinds cover every way an input is read, hashed, rendered, noted or mounted.
Two edits of Unbound move a finalizer from one Topology to another.

`Bootstrap` starts from nothing as well; its edit and its fault may come at any
step, also of the first reconcile.  The four assignments of images are those in
which the API's is the same as, behind or ahead of the others'.  With two edits or two faults, and one
account, it passes too.  One service in front of bind9 stands for four, which
are deployed in the same way.

`TsigKeys`: two positions are the canonical Secret and another one; an edit
adds or removes a pool or leaves multipool mode.

`AddressesSingle` has exactly the addresses its largest request needs, so that
every address is reused; `AddressesMultipool` has one less than its largest
request.  Three pools are needed for a pool in the middle to go and renumber a
later one.  `PoolsRemoval` allows any of the five configurations before and
after the edit.  `YamlKeepsZonedPools` is checked for one edit: with a second one that overtakes it
a pool can come back, and get a zone, between the check and the write, which no
check in the controller could see.  For edits that do not overtake one another the
theorems hold, however many they are.

The bounds are the constants `Max...`; they appear in guards of users, other
operators and faults only, never in those of a controller.

### Fairness

Weak fairness of each controller's steps as one action: controller-runtime
requeues a CR until a reconcile succeeds.  In `TransportRotation`, `ACRotation`,
`PoolRemoval`, `TsigKeys` and `PredictableIPs` a reconcile may start at any time,
as each of the waits modelled ends in a requeue; `SubControllers` and `Bootstrap`
have the queue, so a controller that nothing wakes stays asleep.  Weak fairness
of infra-operator's first publication, of MariaDB's set-up, the load balancer's
addresses and the service Secret in `Bootstrap`, of the delivery of watch events,
of the pods' start and stop and of the end of jobs: Kubernetes and the other
operators are expected to do their work.  Nothing is assumed of edits and no
fault is fair.  The list job that cannot start is ended by its deadline, a
finished one by its time to live, and both are fair.  `CHECK_DEADLOCK FALSE` is
set where the end of a behaviour is legitimate: a deleted CR (rotations,
`SubControllers`) or a deployment with nothing left to do (`Bootstrap`,
`SubControllers`).

## 4. Proofs

All theorems hold for every value of the constants that satisfies the
assumptions of their module (`ConstantsOK`, `OrderOK`); these only give the types of
the bounds, of replica counts and of pool names.  Hypotheses beyond them are part of
the statement.

| Module | Theorem | Statement |
|---|---|---|
| `TransportRotationProofs` | `TypeCorrect` | `Spec => []TypeOK` |
| | `NoLeak` | `Spec => []NoLeakAfterDelete` |
| | `Invariance` | `~Overlap /\ BriefOutages /\ Spec => []IInv` |
| | `SecretsInUseProtected` | `~Overlap /\ BriefOutages /\ Spec => []InUseProtected` |
| | `Refinement` | `~Overlap /\ BriefOutages /\ Spec => NeverRevokedInUse` |
| | `NoneOlder` | `BriefOutages /\ Spec => []NoneOlderThanTracked` |
| `ACRotationProofs` | `TypeCorrect` | `Spec => []TypeOK` |
| | `NoLeak` | `~Overlap /\ ~LongOutages /\ Spec => []NoLeakAfterDelete` |
| | `Refinement` | `~Overlap /\ ~LongOutages /\ Spec => NeverRevokedInUse` |
| `BootstrapProofs` | `TypeCorrect` | `Spec => []TypeOK` |
| | `MigratedFirst` | `Spec => []SchemaFirst` |
| | `AccountHeld` | `Spec => []ConfigAccountHeld` |
| | `KeysFirst` | `Spec => NewBindsHaveKeys` |
| `SubControllersProofs` | `TypeCorrect` | `Spec => []TypeOK` |
| | `CompleteWhenReady` | `Spec => []ReadyMeansComplete` |
| | `FinalizersReleased` | `OwnFinalizerLast /\ Spec => []FinalizersAccounted` |
| | `HandshakeImplemented` | `ReadsRotated /\ Spec => Handshake` |
| | `NothingMissed` | `ChangesWatched /\ Spec => []NoChangeMissed` |
| `PredictableIPsProofs` | `TypeCorrect` | `Spec => []TypeOK` |
| | `PublishedDisjoint` | `Spec => []DisjointWhenPublished` |
| | `AlwaysDisjoint` | `MaxPools = 1 /\ Spec => []MapsDisjoint` |
| | `MainAddressesKept` | `Spec => KeepsMainAddresses` |
| | `AddressesKept` | `MaxPools = 1 /\ Spec => KeepsAddresses` |
| | `PodsMatch` | `MaxPools = 1 /\ ~Overlap /\ Spec => []PodsMatchMaps` |
| | `PodsApart` | `MaxPools = 1 /\ ~Overlap /\ Spec /\ RangeSuffices => []PodsDistinct` |
| `PoolRemovalProofs` | `TypeCorrect` | `Spec => []TypeOK` |
| | `ZonedPoolsKept` | `Spec /\ EditsApart => YamlKeepsZonedPools` |
| | `KeptServed` | `DefaultFirst /\ Spec /\ BindEditsApart => KeptPoolsServed` |
| | `OneEditApart` | `MaxChanges = 1 /\ Spec => EditsApart /\ BindEditsApart` |
| `TsigKeysProofs` | `TypeCorrect` | `Spec => []TypeOK` |
| | `KeyKept` | `Spec /\ EditsApart => KeysStable` |
| | `LoadedBeforeSigned` | `AppendOnly /\ Spec /\ EditsApart => []SignedKeysLoaded` |
| | `OneEditApart` | `MaxEdits = 1 /\ Spec => EditsApart` |

### Hypotheses

Each one is needed: without it the property fails in the model, and section 3 or 5
says how.  They are formulas over the constants or, for edits that follow one another,
over the steps `UserEditsPools` and `EditPools`; a behaviour with a single edit always
satisfies them (`OneEditApart`), so the runs, with one edit, check the same statement.

| Hypothesis | Meaning | Without it |
|---|---|---|
| `~Overlap` | a change of credentials, or of replica counts, starts after the last one has settled | `RotationPruneInUse`; an address in use twice while the old pod stops |
| `BriefOutages`, `~LongOutages` | no two reconciles in a row miss the service password Secret | section 3: `InUseProtected` and `NoneOlderThanTracked`, and `NeverRevokedInUse` of `ACRotation`, fail |
| `OwnFinalizerLast` | the controller gives up its own finalizer last, or no write fails | Unbound gives up its own first |
| `ReadsRotated` | the controller hashes the name of the rotated Secret | `Handshake` fails for api and for the notifications bus |
| `MaxPools = 1` | no extra bind pools | binds of later pools move in every reconcile |
| `RangeSuffices` | no reconcile fails for lack of addresses | a reconcile that fails between two maps is like a fault, before the first of which `PodsDistinct` is claimed |
| `ChangesWatched` | of the inputs a controller hashes or renders, those that change are watched or in its CR; those a pod can start without do not change | a network or address map (unwatched) that changes is not noticed; a Secret that comes and goes between two cache updates can be loaded by a pod and never be seen |
| `EditsApart` of `PoolRemovalProofs` | every edit but the first finds the stored list, a running reconcile and pools.yaml at the ConfigMap, and no answer of the list job that lacks a pool with zones | a pool can come back between a check and a write; an old answer lets a newer pool go |
| `BindEditsApart` | every edit but the first comes between two reconciles of the bind9 controller, or during one that has read the ConfigMap while only its pools are served | a reconcile that has read a list without a pool retires its StatefulSet when the pool is back |
| `EditsApart` of `TsigKeysProofs` | at every edit but the first, running reconciles have read the ConfigMap, and the pools that come have never had a key | a pool that comes back is signed for with its old key until the job takes that away |
| `DefaultFirst` | no pool sorts before the default one | the StatefulSet of the default pool is retired first |
| `AppendOnly` | pools that stay keep their position | Secrets are renumbered under keys in use |

### Arguments

*Transport rotation.*  `InUseProtected` says nothing about what the controllers are
about to do, so it is far from inductive.  `TransportRotationInv!IInv`
describes a change as the way from `base` to `Goal`: every annotation,
template, pod and reconcile is at one of the two (`InvSub`, `InvPlan`), what
has reached the goal got it from the rendered config, a sub-CR whose applied
hash is the goal can only keep running it (`Done`), and until all of them are
done the status goes on tracking the secrets of `base` (`InvStatus`), whose
finalizers are therefore kept by finalization and prune (`InvFin`).  A guard
that is true means all are done (`InvLocals`).  The refinement of `CredentialUse` follows
step by step from `IInv`: a name that is revoked has no finalizer, a name a pod has
or would load has one.  `NoLeak` rests on `InvLife`: no reconcile of a live CR runs
once it is gone.  `NoneOlder` holds for overlapping rotations as well; its invariant
says that names only grow along the way from infra-operator through config,
annotation, template and pod, and that a guard that is open has seen every
controller past the tracked name.

A reconcile that misses the password Secret leaves an empty hash behind, so the
next one starts over and cannot take the old configuration for the new one.

*Application credentials.*  The same with one controller: what the status or the
cached spec names is held, and nothing else is.  A hash made without the password
Secret is never the hash that a deployment is confirmed for.

*Bootstrap.*  A job that is there and not done has a definition; a reconcile that
goes on past `DbSync` has a definition whose job has run, although an error of the
database is dropped; a service that never had a later image than the API is within
the schema because the API is; the config's account is held while a reconcile that is about to
change it holds both.

*Service controllers.*  Programs are data, so facts about them (which steps a kind
has, and what precedes a step) are lemmas that are evaluated kind by kind; the
invariants then speak of the step a reconcile is at.  `CompleteWhenReady`: what is read
is collected before the hash, the hash is compared before the workload is checked.
`FinalizersReleased`: the finalizer on a Topology is where the status, or the running
reconcile, says.  `HandshakeImplemented`: a hash that names a Secret was read from a CR
that names it, and the config a pod loads is at least as new as that CR, because the
Designate controller writes the config first.

`NothingMissed` is about states at rest, where nothing is left to look at but what
the last reconcile left behind; its invariant `InvMissed` has three parts.  What is
recorded is never newer than what there is (`InvPast`): the caches lag behind the API
server, the hash, the template and the config behind the caches, and a pod has loaded
nothing older than its template was made for.  A reconcile that no event has
overtaken has read what the caches hold (`FreshSoFar`), step by step of its
program.  A controller at rest waits for an input it watches or for Keystone, or has
rolled out what its caches hold (`Rest`).  When the caches are also up to date, the pods
lie between the template and the API server, which are then equal.  That no program
gives up for an input that would not wake it is `Wired`, evaluated kind by kind.

*Addresses.*  `IInv` of `PredictableIPsProofs` says, per step of the reconcile,
what `allocatedIPs` covers (`Scanned`), that the combined bind map is
injective, disjoint from the other maps, faithful to pool 0 and used up from
the front while it is cut into pools (`Combined`), and that everything is
disjoint and covered once the pools are written (`Published`).  Between the
writes only the main maps are known to be disjoint, which is all the next
reconcile needs; so a fault at any step is harmless.  `PodsApart` adds where an
address may be while pods follow the maps: at the pod that has it, or in the one
entry it moved to, whose pod cannot start before the other one is gone.

*Pools.*  `SortedPoolsProofs!Positions` shows, without induction, that `Position` numbers
the pools of any set: ranks are injective and as many as there are pools.
`ZonedPoolsKept` follows the last edit through the reconcile that checks it:
pools.yaml has the pools before the edit or those after it (`Through`), an answer of the
list job names every removed pool that has zones (`Listed`), so a list that is
accepted has all of them (`AcceptedClean`), and a status that is lost makes the next
reconcile check again (`Stored`).  An edit of a settled state starts this anew, with that
state as the one edited from.  `KeptServed` says which
StatefulSets serve a pool while positions move: those of the old list behind the position the loop is at, those of the new list before it
(`AppliedFirst`), so only a pool that moves back can be without one, and an orphan that is scaled down serves no pool that
stays.

*TSIG keys.*  `EditInv` follows the id of a key from Designate to the workers: it is
never replaced (`OneId`), and a reconcile with a list from before the last edit knows none
for a new pool (`NewPools`), so it can neither publish nor delete one that matters.
`LoadInv` compares versions: what a pod has loaded is what its Secret has if their
versions agree (`VersionLoaded`), and a published key stays in the Secret, the
template and the pods (`PublishedLoaded`), because rewriting a Secret of a pool that has a
key writes that key again.

The invariants named here were checked by TLC on the instances of the runs before
they were proved; those of `NothingMissed` on two more (other inputs that change and
come late, faults; two pods), those for several edits with two edits of three pools
(`PoolRemoval`) and three edits of two pools (`TsigKeys`).  One proof changed a model: `TsigKeys!Picked` had overlapping `CASE`
guards, which TLC takes in their order and TLA+ does not; they are disjoint now.

*Only model-checked*: all liveness (`RotationCompletes`, `NotificationsTornDown`,
`RolledOut`, `Deployed`, `KeysInUse`, `EventuallyAllRun`, `OrphansRemoved`,
`PoolsRegistered`), because fairness is out of the prover's reach.

## 5. Assumptions and limits of the models

* Informer caches lag in `SubControllers` only; elsewhere reads return the
  current state of the API server.  A controller's own status is read as it
  last wrote it.  The periodic resync (10 hours) is not modelled: what is missed
  counts as missed.
* `SubControllers` assumes that a CA bundle, TLS certificates and an application
  credential are configured, and that the Designate CR is named `designate`,
  which the ConfigMap watches need.
* `TsigKeys` leaves out the removal check, the wait for central and failed
  update jobs, which are in `PoolRemoval`.
* `Bootstrap` leaves out deletion and everything between the external binds and
  the CRs of the services (`PoolRemoval`, `PredictableIPs`); images only get later,
  each by itself, and the password Secret, once there, stays.
* One reconcile per CR at a time and one operator process (controller-runtime
  and leader election).
* In `TransportRotation` the five sub-CR controllers are one parameterised
  process, translated from designate-central; `SubControllers` has them apart.
* `PodsDistinct` is claimed for changes made one after the other and before the
  first fault: when a reconcile is interrupted between writing the maps and scaling,
  or a change overtakes another, an address can be given to a new pod while the
  pod that had it is still stopping.
* Users create no zones in a pool that is being removed; the code cannot see a
  zone created between its check and its write.
* `designate-manage pool update` registers and updates pools and never
  unregisters one (no `--delete`); designate-central, once running, stays so.
* Pools are modelled in shared mode, not per availability zone.
* When one edit adds and removes pools, TSIG discovery may delete the finished
  pool list because the new pool is missing while the removal check in front of
  that pool's registration waits for the list.  Whether the two retries ever get
  out of step depends on timing, so `PoolsLiveness` uses edits in one direction.

Not modelled: labels of pods and volume claims, the contents of Unbound's stub
zones and of pools.yaml, the parsing of external binds and network attachments
and the generation of key material (pure functions), RBAC, migration of the
shared TSIG key, defaulting and validation of the CR, the CR types and the
entry point; of the partly modelled components see the notes in `PROJECT.json`.

## 6. Plan

The models cover the state-changing logic of the controllers, and every safety
property of the passing runs is proved.  What is left:

1. Weaker hypotheses for several edits: `EditsApart` of `PoolRemovalProofs` asks more than
   the model needs while no reconcile is running.
2. The way of `AddressesKept` with extra pools whose predecessors do not grow.
