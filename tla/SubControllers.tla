--------------------------- MODULE SubControllers ---------------------------
(***************************************************************************)
(* The controllers of the services: DesignateAPI, DesignateCentral,        *)
(* DesignateWorker, DesignateMdns, DesignateProducer, DesignateUnbound and *)
(* DesignateBackendbind9 (single pool).                                    *)
(*                                                                         *)
(* Each of them reads its inputs through informer caches that lag behind   *)
(* the API server, renders its own configuration, hashes what it has read, *)
(* applies a Deployment or StatefulSet with that hash, and reports when    *)
(* the workload runs it.  They differ in what they read, in which order,   *)
(* what they do when an input is missing and what wakes them up.  The      *)
(* order of the steps is data here (Program), one sequence for each        *)
(* controller; the steps are the actions.  A behaviour follows one CR.     *)
(***************************************************************************)
EXTENDS Integers, Sequences, FiniteSets

CONSTANTS
  Kinds,         \* the controllers that occur
  Touched,       \* for each kind the inputs that users and the parent change
  Absent,        \* for each kind the inputs that may not exist at first
  Rotations,     \* for each kind the buses whose credential is rotated
  Topologies,    \* names of Topology objects the CR may refer to
  Pods,          \* the replicas of the workload
  Deletes,       \* kinds whose CR may be deleted
  MaxEdits,      \* bounds for each kind: edits,
  MaxFaults      \* and failed writes, restarts and lost pods

NoTopology == "none"
Buses == {"transport", "notifications"}
Self == "self"

----------------------------------------------------------------------------
(* Steps of a reconcile.  "miss" says what a missing input leads to:       *)
(*   wait     requeue after 10 s                                           *)
(*   return   return without an error or a requeue                         *)
(*   error    return an error, which requeues                              *)
(*   carryOn  the hash is built without the input                          *)

Read(i, miss) == [op |-> "read", of |-> i, miss |-> miss]
Need(i, miss) == [op |-> "need", of |-> i, miss |-> miss]   \* only its presence
Render(S, leave) == [op |-> "render", of |-> S, miss |-> leave]
Hash == [op |-> "hash", of |-> "", miss |-> ""]
Note(i) == [op |-> "note", of |-> i, miss |-> "error"]
Recheck == [op |-> "recheck", of |-> "", miss |-> ""]
MarkInput == [op |-> "mark", of |-> "", miss |-> ""]
Services == [op |-> "services", of |-> "", miss |-> ""]
Register == [op |-> "register", of |-> "", miss |-> ""]
Topology == [op |-> "topology", of |-> "", miss |-> ""]
Deploy == [op |-> "deploy", of |-> "", miss |-> ""]
Check(how) == [op |-> "check", of |-> how, miss |-> ""]
Release(x) == [op |-> "release", of |-> x, miss |-> ""]

(* DesignateCentral *)

CentralInputs ==
  <<Read("osp", "wait"), Read("transport", "wait"), Read("scripts", "wait"),
    Read("config", "wait"), Read("defaults", "wait"), Read("ca", "return")>>

CentralConfig == <<Render({"spec"}, {})>>

CentralWorkload ==
  <<Hash, MarkInput, Topology, Deploy, Check("readyForInput")>>

CentralFields == {"osp", "ca"}

CentralWatches == CentralFields \cup {"scripts", "config", "defaults"}

CentralMounts == {"scripts", "config", "defaults", "ca", "own"}

CentralCleanup == <<Release("topology"), Release(Self)>>

(* DesignateWorker *)

WorkerInputs ==
  <<Read("osp", "carryOn"), Read("transport", "carryOn"),
    Read("scripts", "carryOn"), Read("config", "carryOn"),
    Read("defaults", "carryOn"), MarkInput, Read("ca", "return")>>

WorkerConfig == <<Render({"spec"}, {})>>

\* createHashOfInputHashes also reads the rndc keys.
WorkerHash == <<Read("rndc", "error"), Read("extrndc", "carryOn"), Hash>>

WorkerWorkload ==
  <<Need("nad", "wait"), Topology, Deploy, Check("readyForInput")>>

WorkerFields == {"osp", "ca"}

\* Mutant: the rndc Secrets are not watched.
WorkerWatches_NoKeys == WorkerFields \cup {"scripts", "config", "defaults"}

WorkerWatches ==
  WorkerFields \cup {"scripts", "config", "defaults", "rndc", "extrndc"}

WorkerMounts ==
  {"scripts", "config", "defaults", "ca", "rndc", "extrndc", "own"}

WorkerCleanup == <<Release("topology"), Release(Self)>>

(* DesignateProducer *)

ProducerInputs ==
  <<Read("osp", "wait"), Read("transport", "wait"), Read("scripts", "wait"),
    Read("config", "wait"), Read("defaults", "wait"), Read("ca", "return"),
    Need("nad", "wait")>>

ProducerConfig == <<Render({"spec"}, {})>>

ProducerWorkload ==
  <<Hash, MarkInput, Topology, Deploy, Check("readyForInput")>>

ProducerFields == {"osp", "ca"}

ProducerWatches == ProducerFields \cup {"scripts", "config", "defaults"}

ProducerMounts == {"scripts", "config", "defaults", "ca", "own"}

ProducerCleanup == <<Release("topology"), Release(Self)>>

(* DesignateMdns *)

MdnsInputs ==
  <<Read("osp", "carryOn"), Read("transport", "carryOn"),
    Read("scripts", "carryOn"), Read("config", "carryOn"),
    Read("defaults", "carryOn"), Read("ca", "return")>>

MdnsConfig == <<Services, Render({"spec"}, {})>>

MdnsWorkload ==
  <<Hash, MarkInput, Need("nad", "wait"), Topology, Deploy,
    Check("readyForInput")>>

MdnsFields == {"osp", "ca"}

MdnsWatches == MdnsFields \cup {"scripts", "config", "defaults"}

MdnsMounts == {"config", "defaults", "ca", "predip", "own"}

MdnsCleanup == <<Release("topology"), Release(Self)>>

(* DesignateUnbound *)

UnboundInputs == <<Services, Need("nad", "wait")>>

\* The stub zones name the addresses of the predictable IP map, the access
\* list the networks of the attachments.
UnboundConfig == <<Render({"spec", "predip", "nad"}, {})>>

UnboundWorkload == <<Hash, Topology, Deploy, Check("ready")>>

UnboundFields == {}

UnboundWatches == UnboundFields

UnboundMounts == {"unboundips", "own"}

UnboundCleanup == <<Release(Self), Release("topology")>>

(* DesignateBackendbind9, one StatefulSet *)

\* generateServiceConfigMaps gives up without an error when a network
\* attachment is missing, and nothing is written.
BindConfig == <<MarkInput, Render({"spec", "nad"}, {"nad"})>>

BindNotes == <<Hash, Note("predip"), Note("rndc"), Recheck>>

BindWorkload == <<Need("nad", "wait"), Topology, Deploy, Check("ready")>>

BindFields == {}

BindWatches == BindFields \cup {"predip"}

BindMounts == {"predip", "rndc", "own"}

BindCleanup == <<Release("topology"), Release(Self)>>

(* DesignateAPI *)

ApiInputs ==
  <<Read("osp", "carryOn"), Read("ca", "return"), Read("cert", "return"),
    Read("scripts", "carryOn"), Read("config", "carryOn"),
    Read("defaults", "carryOn")>>

\* Without the OpenStack Secret nothing is written, without an error.
ApiConfig ==
  <<Need("keystone", "error"), Render({"spec", "keystone", "osp", "ac"}, {"osp"})>>

ApiHash == <<Hash, MarkInput, Need("nad", "wait")>>

\* reconcileInit: the Services, the KeystoneService and the KeystoneEndpoint.
ApiRegistration == <<Services, Register>>

ApiWorkload == <<Topology, Deploy, Check("readyForInput")>>

ApiFields == {"osp", "ca", "cert", "ac"}

ApiKeystone == {"keystone"}

ApiWatches ==
  ApiFields \cup ApiKeystone \cup {"scripts", "config", "defaults", "nad"}

ApiMounts == {"scripts", "config", "defaults", "ca", "cert", "own"}

ApiCleanup ==
  <<Release("endpoint"), Release("service"), Release("topology"), Release(Self)>>

----------------------------------------------------------------------------

Program == [
  central  |-> CentralInputs \o CentralConfig \o CentralWorkload,
  worker   |-> WorkerInputs \o WorkerConfig \o WorkerHash \o WorkerWorkload,
  producer |-> ProducerInputs \o ProducerConfig \o ProducerWorkload,
  mdns     |-> MdnsInputs \o MdnsConfig \o MdnsWorkload,
  unbound  |-> UnboundInputs \o UnboundConfig \o UnboundWorkload,
  bind9    |-> BindConfig \o BindNotes \o BindWorkload,
  api      |-> ApiInputs \o ApiConfig \o ApiHash \o ApiRegistration \o ApiWorkload]

Cleanup == [
  central |-> CentralCleanup, worker |-> WorkerCleanup,
  producer |-> ProducerCleanup, mdns |-> MdnsCleanup,
  unbound |-> UnboundCleanup, bind9 |-> BindCleanup, api |-> ApiCleanup]

Watches == [
  central |-> CentralWatches, worker |-> WorkerWatches,
  producer |-> ProducerWatches, mdns |-> MdnsWatches,
  unbound |-> UnboundWatches, bind9 |-> BindWatches, api |-> ApiWatches]

Mounts == [
  central |-> CentralMounts, worker |-> WorkerMounts,
  producer |-> ProducerMounts, mdns |-> MdnsMounts,
  unbound |-> UnboundMounts, bind9 |-> BindMounts, api |-> ApiMounts]

OfKind(k, ops) == {Program[k][n] : n \in {m \in DOMAIN Program[k] : Program[k][m].op \in ops}}

Hashed(k) == {s.of : s \in OfKind(k, {"read"})}
Rendered(k) == UNION {s.of : s \in OfKind(k, {"render"})}
Noted(k) == {s.of : s \in OfKind(k, {"note"})}
Needed(k) == {s.of : s \in OfKind(k, {"need"})}

InSpec == {"spec", "transport"}          \* carried by the CR itself
Optional == {"extrndc"}                  \* the pods start without it

Inputs(k) ==
  (Hashed(k) \cup Rendered(k) \cup Noted(k) \cup Needed(k) \cup Mounts[k])
    \ (InSpec \cup {"own"})

\* Hashed inputs without which the controller goes no further.
Insisted(k) == {s.of : s \in {r \in OfKind(k, {"read"}) : r.miss # "carryOn"}}

\* What the service cannot do without: what its pods mount or its controller
\* insists on.
Required(k) ==
  (Inputs(k) \cap (Mounts[k] \cup Rendered(k) \cup Needed(k) \cup Noted(k) \cup Insisted(k)))
    \ Optional

ASSUME ConstantsOK ==
  /\ Kinds \subseteq DOMAIN Program
  /\ \A k \in Kinds : /\ Touched[k] \subseteq Inputs(k) \cup {"spec", "topology"}
                      /\ Absent[k] \subseteq Inputs(k)
                      /\ Rotations[k] \subseteq Buses
                      /\ MaxEdits[k] \in Nat /\ MaxFaults[k] \in Nat
  /\ NoTopology \notin Topologies /\ Topologies \cap {"service", "endpoint"} = {}
  /\ Deletes \subseteq Kinds

VARIABLES
  kind,          \* the controller this behaviour is about
  \* Objects of the API server: versions, 0 while an object does not exist
  ver,
  want,          \* the CR as the Designate controller wants it
  cr,            \* the CR: [ann, bus, spec, topo]
  life,          \* "new", "live", "deleting" or "gone"
  status,        \* [hash, notes, applied, topo, input, ready]; fin: has its finalizer
  own,           \* the Secret the controller renders
  held,          \* objects that carry this CR's finalizer
  registered,    \* the KeystoneService and KeystoneEndpoint are ready
  tmpl,          \* pod template of the workload
  pods,
  \* The controller
  seen, crSeen,  \* informer caches
  queued, retry, \* in the work queue; will be when the delay is over
  at,            \* step of the running reconcile, 0: none runs
  mine,          \* the CR as this reconcile read it
  got,           \* versions collected for the hash
  now,           \* the status in memory
  stamp, faults, crashed

worldVars == <<ver, want, cr, life, own, held, registered, tmpl, pods>>
cacheVars == <<seen, crSeen>>
queueVars == <<queued, retry>>
passVars  == <<at, mine, got, now>>
vars == <<kind, worldVars, status, cacheVars, queueVars, passVars, stamp, faults, crashed>>

Zero(S) == [i \in S |-> 0]
NoHash == [read |-> Zero({"unset"}), own |-> Zero({})]
NoTmpl == [hash |-> NoHash, topo |-> NoTopology]
Down == [tmpl |-> NoTmpl, loads |-> Zero({}), own |-> Zero({})]
NoStatus == [hash |-> NoHash, notes |-> Zero({"predip", "rndc"}), applied |-> 0, topo |-> NoTopology,
             input |-> FALSE, ready |-> FALSE, fin |-> TRUE]

NoPass == [cr |-> [ann |-> 0, bus |-> 0, spec |-> 0, topo |-> NoTopology],
           del |-> FALSE]

Init ==
  /\ kind \in Kinds
  /\ \E A \in SUBSET Absent[kind] :
       ver = [i \in Inputs(kind) |-> IF i \in A THEN 0 ELSE 1]
  /\ cr = [ann |-> 1, bus |-> 1, spec |-> 1, topo |-> NoTopology]
  /\ want = cr /\ life = "new" /\ status = NoStatus
  /\ own = Zero({}) /\ held = {} /\ registered = FALSE
  /\ tmpl = NoTmpl /\ pods = [p \in Pods |-> Down]
  /\ seen = ver /\ crSeen = cr /\ queued = TRUE /\ retry = FALSE
  /\ at = 0 /\ mine = NoPass /\ got = NoHash /\ now = NoStatus
  /\ stamp = 1 /\ faults = 0 /\ crashed = FALSE

----------------------------------------------------------------------------
(* Users and the Designate controller *)

Edit == stamp <= MaxEdits[kind] /\ stamp' = stamp + 1 /\ life # "gone"

\* An input that did not exist when the CR was created.
Appear(i) ==
  /\ i \in Absent[kind] /\ ver[i] = 0 /\ life # "gone"
  /\ ver' = [ver EXCEPT ![i] = stamp]
  /\ UNCHANGED <<kind, want, cr, life, own, held, registered, tmpl, pods, status,
                 cacheVars, queueVars, passVars, stamp, faults, crashed>>

\* An input changes, is deleted or is created again.
Change(i) ==
  /\ Edit /\ i \in Touched[kind] \cap Inputs(kind)
  /\ \E v \in {0, stamp'} : ver[i] # v /\ ver' = [ver EXCEPT ![i] = v]
  /\ UNCHANGED <<kind, want, cr, life, own, held, registered, tmpl, pods, status,
                 cacheVars, queueVars, passVars, faults, crashed>>

\* The Designate controller has a new credential: it writes the config Secret
\* first.  The input hash annotation covers the names of both buses' Secrets;
\* the spec names the one of the transport bus only.
ParentRender(b) ==
  /\ Edit /\ b \in Rotations[kind] /\ want = cr
  /\ ver' = [ver EXCEPT !["config"] = stamp']
  /\ want' = [want EXCEPT !.ann = stamp',
                         !.bus = IF b = "transport" THEN stamp' ELSE @]
  /\ UNCHANGED <<kind, cr, life, own, held, registered, tmpl, pods, status,
                 cacheVars, queueVars, passVars, faults, crashed>>

\* The service's section of the Designate CR is edited.
EditSpec ==
  /\ Edit /\ want = cr
  /\ \/ "spec" \in Touched[kind] /\ want' = [want EXCEPT !.spec = stamp']
     \/ /\ "topology" \in Touched[kind]
        /\ \E t \in (Topologies \cup {NoTopology}) \ {want.topo} :
             want' = [want EXCEPT !.topo = t]
  /\ UNCHANGED <<kind, ver, cr, life, own, held, registered, tmpl, pods, status,
                 cacheVars, queueVars, passVars, faults, crashed>>

\* <service>CreateOrUpdate of the Designate controller.
ParentStamp ==
  /\ life \in {"new", "live"} /\ cr # want /\ cr' = want
  /\ UNCHANGED <<kind, ver, want, life, own, held, registered, tmpl, pods, status,
                 cacheVars, queueVars, passVars, stamp, faults, crashed>>

DeleteCR ==
  /\ kind \in Deletes /\ life = "live" /\ life' = "deleting" /\ queued' = TRUE
  /\ UNCHANGED <<kind, ver, want, cr, own, held, registered, tmpl, pods, status,
                 cacheVars, retry, passVars, stamp, faults, crashed>>

(* Informers and the work queue *)

\* The cache learns of a change; a watched object enqueues the CR.
Deliver(i) ==
  /\ seen[i] # ver[i] /\ seen' = [seen EXCEPT ![i] = ver[i]]
  /\ queued' = (queued \/ i \in Watches[kind])
  /\ UNCHANGED <<kind, worldVars, status, crSeen, retry, passVars, stamp, faults,
                 crashed>>

DeliverCR ==
  /\ crSeen # cr /\ crSeen' = cr /\ queued' = TRUE
  /\ UNCHANGED <<kind, worldVars, status, seen, retry, passVars, stamp, faults,
                 crashed>>

RetryDue ==
  /\ retry /\ retry' = FALSE /\ queued' = TRUE
  /\ UNCHANGED <<kind, worldVars, status, cacheVars, passVars, stamp, faults, crashed>>

(* One reconcile *)

Steps == IF mine.del THEN Cleanup[kind] ELSE Program[kind]
Doing(op) == at > 0 /\ Steps[at].op = op
Cur == Steps[at]

Idle == at' = 0 /\ mine' = NoPass /\ got' = NoHash /\ now' = NoStatus

\* The deferred patch writes what the reconcile has changed, whatever it
\* returns; a changed CR comes back as an event.
Return(s, again) ==
  /\ Idle /\ status' = s
  /\ life' = IF s.fin THEN life ELSE "gone"
  /\ queued' = (queued \/ s # status)
  /\ retry' = (retry \/ again)

Advance == at' = at + 1 /\ UNCHANGED <<status, life, queueVars, mine>>

\* The first reconcile only adds the finalizer; a later one starts with all
\* conditions reset.
Begin ==
  /\ at = 0 /\ queued /\ life # "gone"
  /\ \/ /\ life = "new" /\ life' = "live"
        /\ UNCHANGED <<passVars, queued>>
     \/ /\ life # "new" /\ queued' = FALSE /\ at' = 1
        /\ mine' = [cr |-> crSeen, del |-> life = "deleting"]
        /\ got' = [read |-> Zero(Hashed(kind)), own |-> Zero({})]
        /\ now' = [status EXCEPT !.input = FALSE, !.ready = FALSE]
        /\ UNCHANGED life
  /\ UNCHANGED <<kind, ver, want, cr, own, held, registered, tmpl, pods, status,
                 cacheVars, retry, stamp, faults, crashed>>

Value(i) == CASE i = "spec" -> mine.cr.spec
              [] i = "transport" -> mine.cr.bus
              [] OTHER -> seen[i]

passOnly == <<kind, ver, want, cr, registered, pods, cacheVars, stamp, faults, crashed>>

\* Mutant: a missing input does not end the reconcile.
ReadInput_NoReturn ==
  /\ Doing("read")
  /\ got' = [got EXCEPT !.read[Cur.of] = Value(Cur.of)]
  /\ Advance /\ UNCHANGED now
  /\ UNCHANGED <<passOnly, own, held, tmpl>>

\* getSecret and the other lookups whose result goes into the hash.
ReadInput ==
  /\ Doing("read")
  /\ \/ /\ Value(Cur.of) # 0 \/ Cur.miss = "carryOn"
        /\ got' = [got EXCEPT !.read[Cur.of] = Value(Cur.of)]
        /\ Advance /\ UNCHANGED now
     \/ /\ Value(Cur.of) = 0 /\ Cur.miss # "carryOn"
        /\ Return(now, Cur.miss # "return")
  /\ UNCHANGED <<passOnly, own, held, tmpl>>

NeedInput ==
  /\ Doing("need")
  /\ \/ Value(Cur.of) # 0 /\ Advance /\ UNCHANGED <<got, now>>
     \/ Value(Cur.of) = 0 /\ Return(now, Cur.miss # "return")
  /\ UNCHANGED <<passOnly, own, held, tmpl>>

\* generateServiceConfigMaps.
RenderConfig ==
  LET missing == {i \in Cur.of : Value(i) = 0}
      content == [i \in Cur.of |-> Value(i)]
  IN /\ Doing("render")
     /\ \/ /\ missing = {} /\ own' = content
           /\ got' = [got EXCEPT !.own = content]
           /\ Advance /\ UNCHANGED now
        \/ /\ missing \cap Cur.miss # {}
           /\ Advance /\ UNCHANGED <<own, got, now>>
        \/ /\ missing # {} /\ missing \cap Cur.miss = {}
           /\ Return(now, TRUE) /\ UNCHANGED own
     /\ UNCHANGED <<passOnly, held, tmpl>>

\* Mutant: the new hash is not put into the status.
HashInputs_NotStored ==
  /\ Doing("hash")
  /\ \/ now.hash # got /\ Return(now, TRUE)
     \/ now.hash = got /\ Advance /\ UNCHANGED <<got, now>>
  /\ UNCHANGED <<passOnly, own, held, tmpl>>

\* createHashOfInputHashes: a new hash is stored first, the workload is
\* updated by the reconcile that finds it stored.
HashInputs ==
  /\ Doing("hash")
  /\ \/ now.hash # got /\ Return([now EXCEPT !.hash = got], FALSE)
     \/ now.hash = got /\ Advance /\ UNCHANGED <<got, now>>
  /\ UNCHANGED <<passOnly, own, held, tmpl>>

\* hasMapChanged and hasSecretChanged.
NoteInput ==
  /\ Doing("note")
  /\ \/ /\ Value(Cur.of) # 0
        /\ now' = [now EXCEPT !.notes[Cur.of] = Value(Cur.of)]
        /\ Advance /\ UNCHANGED got
     \/ Value(Cur.of) = 0 /\ Return(now, TRUE)
  /\ UNCHANGED <<passOnly, own, held, tmpl>>

RecheckNotes ==
  /\ Doing("recheck")
  /\ \/ now.notes # status.notes /\ Return(now, FALSE)
     \/ now.notes = status.notes /\ Advance /\ UNCHANGED <<got, now>>
  /\ UNCHANGED <<passOnly, own, held, tmpl>>

MarkInputReady ==
  /\ Doing("mark") /\ now' = [now EXCEPT !.input = TRUE]
  /\ Advance /\ UNCHANGED <<got, passOnly, own, held, tmpl>>

ApplyServices ==
  /\ Doing("services") /\ Advance
  /\ UNCHANGED <<got, now, passOnly, own, held, tmpl>>

\* The KeystoneService and the KeystoneEndpoint carry the CR's finalizer.
RegisterService ==
  /\ Doing("register") /\ held' = held \cup {"service", "endpoint"}
  /\ \/ registered /\ Advance /\ UNCHANGED <<got, now>>
     \/ ~registered /\ Return(now, FALSE)
  /\ UNCHANGED <<passOnly, own, tmpl>>

\* Mutant: the Topology used before keeps the finalizer.
EnsureTopology_NoRelease ==
  /\ Doing("topology")
  /\ held' = held \cup ({mine.cr.topo} \ {NoTopology})
  /\ now' = [now EXCEPT !.topo = mine.cr.topo]
  /\ Advance /\ UNCHANGED <<got, passOnly, own, tmpl>>

\* ensureTopology: the finalizer moves from the last applied Topology to the
\* one the spec names.
EnsureTopology ==
  /\ Doing("topology")
  /\ held' = (held \ {now.topo}) \cup ({mine.cr.topo} \ {NoTopology})
  /\ now' = [now EXCEPT !.topo = mine.cr.topo]
  /\ Advance /\ UNCHANGED <<got, passOnly, own, tmpl>>

\* The workload is owned: its change comes back as an event.
ApplyWorkload ==
  /\ Doing("deploy") /\ tmpl' = [hash |-> got, topo |-> mine.cr.topo]
  /\ queued' = (queued \/ tmpl' # tmpl) /\ at' = at + 1
  /\ UNCHANGED <<status, life, retry, mine, got, now, passOnly, own, held>>

Up(p) == pods[p] # Down

\* Mutant: IsReady, which looks at the number of ready replicas only.
ReadyForInput_AnyTemplate(how) == {\A p \in Pods : Up(p)}

\* IsReadyForInput also at the hash they were started with.  (IsReady does
\* not tell old from new pods, unless the update is not observed yet.)
ReadyForInput(how) ==
  LET up == \A p \in Pods : Up(p)
      current == \A p \in Pods : pods[p].tmpl = tmpl
  IN IF how = "readyForInput" \/ ~up THEN {up /\ current}
     ELSE {TRUE, current}

\* With network attachments a workload that is not ready is looked at again.
CheckWorkload ==
  /\ Doing("check")
  /\ \E ready \in ReadyForInput(Cur.of) :
     \E again \in IF ready \/ "nad" \notin Inputs(kind) THEN {FALSE} ELSE BOOLEAN :
       Return([now EXCEPT
                 !.ready = ready,
                 !.applied = IF ready /\ Cur.of = "readyForInput" THEN mine.cr.ann ELSE @],
              again)
  /\ UNCHANGED <<passOnly, own, held, tmpl>>

\* Mutant: the reconcile of a deleted CR goes on.
ReleaseHeld_NoReturn ==
  /\ Doing("release")
  /\ held' = held \ {IF Cur.of = "topology" THEN now.topo ELSE Cur.of}
  /\ now' = IF Cur.of = Self THEN [now EXCEPT !.fin = FALSE] ELSE now
  /\ Advance /\ UNCHANGED <<got, passOnly, own, tmpl>>

\* A step of reconcileDelete.
ReleaseHeld ==
  LET after == IF Cur.of = Self THEN [now EXCEPT !.fin = FALSE] ELSE now
  IN /\ Doing("release")
     /\ held' = held \ {IF Cur.of = "topology" THEN now.topo ELSE Cur.of}
     /\ \/ at < Len(Steps) /\ now' = after /\ Advance /\ UNCHANGED got
        \/ at = Len(Steps) /\ Return(after, FALSE)
     /\ UNCHANGED <<passOnly, own, tmpl>>

\* A write to the API server fails.
StepFails ==
  /\ faults < MaxFaults[kind] /\ faults' = faults + 1
  /\ \E op \in {"render", "services", "register", "topology", "deploy", "check", "release"} :
       Doing(op)
  /\ Return(now, TRUE)
  /\ held' \in {held} \cup (IF Doing("topology") /\ mine.cr.topo # now.topo
                           THEN {held \ {now.topo}} ELSE {})
  /\ UNCHANGED <<kind, ver, want, cr, registered, pods, own, tmpl, cacheVars, stamp,
                 crashed>>

\* The manager restarts: the status in memory is lost, the caches are filled
\* again and every CR is enqueued.
Crash ==
  /\ faults < MaxFaults[kind] /\ faults' = faults + 1 /\ life # "gone"
  /\ Idle /\ seen' = ver /\ crSeen' = cr /\ queued' = TRUE /\ retry' = FALSE
  /\ crashed' = (crashed \/ (at > 0 /\ now.topo # status.topo))
  /\ UNCHANGED <<kind, worldVars, status, stamp>>

(* Keystone and the pods *)

KeystoneRegisters ==
  /\ {"service", "endpoint"} \subseteq held /\ ~registered
  /\ registered' = TRUE /\ queued' = TRUE
  /\ UNCHANGED <<kind, ver, want, cr, life, own, held, tmpl, pods, status, cacheVars,
                 retry, passVars, stamp, faults, crashed>>

\* A pod starts once everything it mounts exists, and loads what is there.
PodStart(p) ==
  LET mounted == Mounts[kind] \cap Inputs(kind)
  IN /\ life # "gone" /\ ~Up(p) /\ tmpl # NoTmpl /\ own # Zero({})
     /\ \A i \in mounted \ Optional : ver[i] # 0
     /\ pods' = [pods EXCEPT ![p] =
                   [tmpl |-> tmpl, loads |-> [i \in mounted |-> ver[i]], own |-> own]]
     /\ queued' = TRUE
     /\ UNCHANGED <<kind, ver, want, cr, life, own, held, registered, tmpl, status,
                    cacheVars, retry, passVars, stamp, faults, crashed>>

\* Replaced one by one after an update; lost any time.
PodStop(p) ==
  /\ Up(p) /\ life # "gone" /\ pods' = [pods EXCEPT ![p] = Down] /\ queued' = TRUE
  /\ \/ /\ pods[p].tmpl # tmpl /\ \A q \in Pods : Up(q)
        /\ UNCHANGED faults
     \/ faults < MaxFaults[kind] /\ faults' = faults + 1
  /\ UNCHANGED <<kind, ver, want, cr, life, own, held, registered, tmpl, status,
                 cacheVars, retry, passVars, stamp, crashed>>

----------------------------------------------------------------------------

Pass ==
  \/ Begin \/ ReadInput \/ NeedInput \/ RenderConfig \/ HashInputs \/ NoteInput
  \/ RecheckNotes \/ MarkInputReady \/ ApplyServices \/ RegisterService
  \/ EnsureTopology \/ ApplyWorkload \/ CheckWorkload \/ ReleaseHeld

Next ==
  \/ Pass \/ StepFails \/ Crash \/ RetryDue \/ DeliverCR
  \/ ParentStamp \/ EditSpec \/ DeleteCR \/ KeystoneRegisters
  \/ \E b \in Buses : ParentRender(b)
  \/ \E i \in Inputs(kind) : Change(i) \/ Appear(i) \/ Deliver(i)
  \/ \E p \in Pods : PodStart(p) \/ PodStop(p)

Spec == Init /\ [][Next]_vars

\* Watches deliver.
Events == DeliverCR \/ \E i \in Inputs(kind) : Deliver(i)

\* The Designate controller finishes what it has begun, Keystone registers
\* the service and pods are replaced.
Others ==
  \/ ParentStamp \/ KeystoneRegisters
  \/ \E p \in Pods : PodStart(p) \/ (PodStop(p) /\ UNCHANGED faults)

\* The queue is served and delays pass.
Fairness ==
  WF_vars(Pass) /\ WF_vars(RetryDue) /\ WF_vars(Events) /\ WF_vars(Others)

FairSpec == Spec /\ Fairness

----------------------------------------------------------------------------
(* Properties *)

Versions == 0 .. MaxEdits[kind] + 1

CRs == [ann : Versions, bus : Versions, spec : Versions,
        topo : Topologies \cup {NoTopology}]

\* Every variable holds what the code can store there.
TypeOK ==
  /\ kind \in Kinds
  /\ ver \in [Inputs(kind) -> Versions] /\ seen \in [Inputs(kind) -> Versions]
  /\ {want, cr, crSeen, mine.cr} \subseteq CRs /\ mine.del \in BOOLEAN
  /\ life \in {"new", "live", "deleting", "gone"}
  /\ \A s \in {status, now} :
       /\ s.applied \in Versions /\ s.topo \in Topologies \cup {NoTopology}
       /\ s.input \in BOOLEAN /\ s.ready \in BOOLEAN /\ s.fin \in BOOLEAN
       /\ s.notes \in [{"predip", "rndc"} -> Versions]
       /\ s.hash = NoHash \/ s.hash.read \in [Hashed(kind) -> Versions]
  /\ own = Zero({}) \/ own \in [Rendered(kind) -> Versions]
  /\ held \subseteq Topologies \cup {"service", "endpoint"}
  /\ DOMAIN pods = Pods
  /\ \A b \in {registered, queued, retry, crashed} : b \in BOOLEAN
  /\ at \in 0 .. Len(Steps) /\ stamp \in Versions /\ faults \in 0 .. MaxFaults[kind]

\* Version of an input that the API server holds.
Current(i) == CASE i = "spec" -> cr.spec
                [] i = "transport" -> cr.bus
                [] OTHER -> ver[i]

Present == \A i \in Required(kind) : ver[i] # 0

\* Watched inputs whose changes only end up in a hash of the status (bind9's
\* rndc keys do, too, but are not watched).
Remarked == Noted(kind) \cap Watches[kind]

\* The service reports Ready, has confirmed the input hash it was asked to
\* apply, and its pods run the current version of every input that is hashed
\* or rendered; of an input that is only noted, it has noted that version.
UpToDate ==
  /\ status.ready
  /\ Check("readyForInput") \in OfKind(kind, {"check"}) => status.applied = cr.ann
  /\ \A i \in Hashed(kind) : tmpl.hash.read[i] = Current(i)
  /\ \A i \in Remarked : status.notes[i] = ver[i]
  /\ \A p \in Pods :
       /\ Up(p) /\ pods[p].tmpl = tmpl
       /\ \A i \in Hashed(kind) \cap Mounts[kind] : pods[p].loads[i] = ver[i]
       /\ \A i \in Rendered(kind) : pods[p].own[i] = Current(i)

\* Nothing is under way that could make the controller look again: no
\* reconcile, no entry in the queue, no delay, no event on its way, no pod
\* to be replaced.
Quiet ==
  /\ life = "live" /\ at = 0 /\ ~queued /\ ~retry
  /\ seen = ver /\ crSeen = cr /\ cr = want
  /\ {"service", "endpoint"} \subseteq held => registered
  /\ \A p \in Pods : IF Up(p) THEN pods[p].tmpl = tmpl
                     ELSE tmpl = NoTmpl \/ own = Zero({})

\* No change of what is hashed or rendered is missed: when a controller has
\* come to rest and its inputs exist, the pods run the current ones and the CR
\* says so, and a change of what is only noted (the addresses of bind9's pods)
\* has been noted.  Between the rests lie lagging caches, hashes stored by one
\* reconcile and deployed by another, missing inputs, failed writes, restarts.
NoChangeMissed == Quiet /\ Present => UpToDate

\* A service whose controller insists on an input (central, producer: all of
\* them) never reports Ready with a hash built without it.
ReadyMeansComplete ==
  status.ready => \A i \in Insisted(kind) : status.hash.read[i] # 0

\* A CR leaves its finalizer on the Topology its status names and on no
\* other, and on nothing once it is gone; otherwise that object could never
\* be deleted.  (Unless a restart loses the status in between.)
FinalizersAccounted ==
  ~crashed => /\ at = 0 => held \cap Topologies \subseteq {status.topo}
              /\ life = "gone" => held = {}

HS == INSTANCE InputHandshake WITH
        asked <- cr.ann,
        running <- {pods[p].loads["config"] :
                      p \in {q \in Pods : Up(q) /\ "config" \in Mounts[kind]}},
        confirmed <- status.applied

\* AppliedInputSecretHash is set only when every pod has loaded a config
\* Secret written for that hash, and never goes back: the Designate controller
\* revokes the previous credential on the strength of it.
Handshake == HS!Spec

\* Changes of what is hashed or rendered are rolled out in the end, changes of
\* what is only noted are noted, and a deleted CR goes away: the reconciles
\* that status updates, retries and pod events set off die down.
RolledOut ==
  <>[](life # "deleting" /\ (life = "live" /\ Present => UpToDate))
=============================================================================
