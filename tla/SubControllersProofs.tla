------------------------ MODULE SubControllersProofs ------------------------
(***************************************************************************)
(* What TLAPS proves of the controllers of the services, for every set of  *)
(* pods and Topologies and any number of edits and faults.                 *)
(***************************************************************************)
EXTENDS SubControllers, TLAPS

----------------------------------------------------------------------------
(* The programs.  All that the proofs use of a reconcile's order: it ends    *)
(* with applying the workload and checking it, and what it reads and renders *)
(* comes before the hash, which comes before both.                           *)

LEMMA Ops ==
  /\ \A i, miss : /\ Read(i, miss).op = "read" /\ Read(i, miss).of = i
                  /\ Read(i, miss).miss = miss
  /\ \A i, miss : Need(i, miss).op = "need" /\ Need(i, miss).of = i
  /\ \A S, l : Render(S, l).op = "render" /\ Render(S, l).of = S
  /\ \A i : Note(i).op = "note" /\ Note(i).of = i
  /\ \A h : Check(h).op = "check" /\ Check(h).of = h
  /\ Hash.op = "hash" /\ MarkInput.op = "mark" /\ Topology.op = "topology"
  /\ Deploy.op = "deploy" /\ Services.op = "services" /\ Register.op = "register"
  /\ Recheck.op = "recheck"
  BY DEF Read, Need, Render, Note, Check, Hash, MarkInput, Topology, Deploy, Services,
         Register, Recheck

StepOK(s, k, n, h) ==
  /\ s.op \in {"read", "need", "render", "hash", "note", "recheck", "mark", "services",
               "register", "topology", "deploy", "check"}
  /\ (s.op = "check") <=> (n = Len(Program[k]))
  /\ (s.op = "hash") <=> (n = h)
  /\ (s.op = "deploy") <=> (n + 1 = Len(Program[k]))
  /\ s.op = "deploy" => h < n
  /\ s.op \in {"read", "need"} => s.of \notin {"spec", "own"}
  /\ s.op \in {"read", "render"} => n < h
  /\ s.op = "note" => s.of \in {"predip", "rndc"}
  /\ s.op = "register" => k = "api"

Sound(k) ==
  LET P == Program[k]
  IN /\ Len(P) \in Nat \ {0} /\ DOMAIN P = 1 .. Len(P)
     /\ \E h \in 1 .. Len(P) : \A n \in 1 .. Len(P) : StepOK(P[n], k, n, h)
     /\ \A m, n \in 1 .. Len(P) :
          P[m].op = "read" /\ P[n].op = "read" /\ P[m].of = P[n].of => m = n
     /\ \A n \in 1 .. Len(P) : P[n].op = "render" => P[n].of = Rendered(k)
     /\ "own" \notin Rendered(k) /\ "transport" \notin Rendered(k)

Layout(k, L, h, r) ==
  LET P == Program[k]
  IN /\ L \in Nat \ {0} /\ h \in 1 .. L /\ Len(P) = L /\ DOMAIN P = 1 .. L
     /\ \A n \in 1 .. L : StepOK(P[n], k, n, h)
     /\ \A m, n \in 1 .. L :
          P[m].op = "read" /\ P[n].op = "read" /\ P[m].of = P[n].of => m = n
     /\ \A n \in 1 .. L : P[n].op = "render" => P[n].of = r
     /\ Rendered(k) = r /\ "own" \notin r /\ "transport" \notin r

LEMMA SoundIf ==
  ASSUME NEW k, NEW L, NEW h, NEW r, Layout(k, L, h, r)
  PROVE  Sound(k)
  <1> DEFINE P == Program[k]
  <1>1. \A n \in 1 .. L : P[n].op = "render" => P[n].of = Rendered(k)
    BY DEF Layout
  <1>2. \E i \in 1 .. L : \A n \in 1 .. L : StepOK(P[n], k, n, i)
    BY DEF Layout
  <1> QED BY <1>1, <1>2, Zenon DEF Sound, Layout

LEMMA CentralSteps ==
  LET P == Program["central"]
  IN /\ Len(P) = 12 /\ DOMAIN P = 1 .. 12
     /\ P[1] = Read("osp", "wait") /\ P[2] = Read("transport", "wait")
     /\ P[3] = Read("scripts", "wait") /\ P[4] = Read("config", "wait")
     /\ P[5] = Read("defaults", "wait") /\ P[6] = Read("ca", "return")
     /\ P[7] = Render({"spec"}, {}) /\ P[8] = Hash /\ P[9] = MarkInput /\ P[10] = Topology
     /\ P[11] = Deploy /\ P[12] = Check("readyForInput")
  BY DEF Program, CentralInputs, CentralConfig, CentralWorkload

LEMMA CentralSound == Sound("central")
  <1> DEFINE P == Program["central"]
  <1>1. Rendered("central") = {"spec"}
    BY CentralSteps, Ops DEF Rendered, OfKind
  <1>2. \A n \in 1 .. 12 : n \in {1, 2, 3, 4, 5, 6, 7, 8, 9, 10, 11, 12}
    OBVIOUS
  <1>3. ASSUME NEW n \in 1 .. 12 PROVE StepOK(P[n], "central", n, 8)
    BY <1>2, CentralSteps, Ops DEF StepOK
  <1>4. ASSUME NEW m \in 1 .. 12, NEW n \in 1 .. 12,
               P[m].op = "read", P[n].op = "read", P[m].of = P[n].of
        PROVE  m = n
    BY <1>2, <1>4, CentralSteps, Ops
  <1>5. ASSUME NEW n \in 1 .. 12, P[n].op = "render" PROVE P[n].of = {"spec"}
    BY <1>2, <1>5, CentralSteps, Ops
  <1>6. Len(P) = 12 /\ DOMAIN P = 1 .. 12
    BY CentralSteps
  <1>7. P = Program["central"]
    OBVIOUS
  <1> HIDE DEF P
  <1>8. "own" \notin {"spec"} /\ "transport" \notin {"spec"} /\ 12 \in Nat \ {0} /\ 8 \in 1 .. 12
    OBVIOUS
  <1>9. Layout("central", 12, 8, {"spec"})
    BY <1>1, <1>3, <1>4, <1>5, <1>6, <1>7, <1>8, Zenon DEF Layout
  <1> QED BY <1>9, SoundIf

LEMMA WorkerSteps ==
  LET P == Program["worker"]
  IN /\ Len(P) = 15 /\ DOMAIN P = 1 .. 15
     /\ P[1] = Read("osp", "carryOn") /\ P[2] = Read("transport", "carryOn")
     /\ P[3] = Read("scripts", "carryOn") /\ P[4] = Read("config", "carryOn")
     /\ P[5] = Read("defaults", "carryOn") /\ P[6] = MarkInput
     /\ P[7] = Read("ca", "return") /\ P[8] = Render({"spec"}, {})
     /\ P[9] = Read("rndc", "error") /\ P[10] = Read("extrndc", "carryOn") /\ P[11] = Hash
     /\ P[12] = Need("nad", "wait") /\ P[13] = Topology /\ P[14] = Deploy
     /\ P[15] = Check("readyForInput")
  BY DEF Program, WorkerInputs, WorkerConfig, WorkerHash, WorkerWorkload

LEMMA WorkerSound == Sound("worker")
  <1> DEFINE P == Program["worker"]
  <1>1. Rendered("worker") = {"spec"}
    BY WorkerSteps, Ops DEF Rendered, OfKind
  <1>2. \A n \in 1 .. 15 : n \in {1, 2, 3, 4, 5, 6, 7, 8, 9, 10, 11, 12, 13, 14, 15}
    OBVIOUS
  <1>3. ASSUME NEW n \in 1 .. 15 PROVE StepOK(P[n], "worker", n, 11)
    BY <1>2, WorkerSteps, Ops DEF StepOK
  <1>4. ASSUME NEW m \in 1 .. 15, NEW n \in 1 .. 15,
               P[m].op = "read", P[n].op = "read", P[m].of = P[n].of
        PROVE  m = n
    BY <1>2, <1>4, WorkerSteps, Ops
  <1>5. ASSUME NEW n \in 1 .. 15, P[n].op = "render" PROVE P[n].of = {"spec"}
    BY <1>2, <1>5, WorkerSteps, Ops
  <1>6. Len(P) = 15 /\ DOMAIN P = 1 .. 15
    BY WorkerSteps
  <1>7. P = Program["worker"]
    OBVIOUS
  <1> HIDE DEF P
  <1>8. "own" \notin {"spec"} /\ "transport" \notin {"spec"} /\ 15 \in Nat \ {0} /\ 11 \in 1 .. 15
    OBVIOUS
  <1>9. Layout("worker", 15, 11, {"spec"})
    BY <1>1, <1>3, <1>4, <1>5, <1>6, <1>7, <1>8, Zenon DEF Layout
  <1> QED BY <1>9, SoundIf

LEMMA ProducerSteps ==
  LET P == Program["producer"]
  IN /\ Len(P) = 13 /\ DOMAIN P = 1 .. 13
     /\ P[1] = Read("osp", "wait") /\ P[2] = Read("transport", "wait")
     /\ P[3] = Read("scripts", "wait") /\ P[4] = Read("config", "wait")
     /\ P[5] = Read("defaults", "wait") /\ P[6] = Read("ca", "return")
     /\ P[7] = Need("nad", "wait") /\ P[8] = Render({"spec"}, {}) /\ P[9] = Hash
     /\ P[10] = MarkInput /\ P[11] = Topology /\ P[12] = Deploy
     /\ P[13] = Check("readyForInput")
  BY DEF Program, ProducerInputs, ProducerConfig, ProducerWorkload

LEMMA ProducerSound == Sound("producer")
  <1> DEFINE P == Program["producer"]
  <1>1. Rendered("producer") = {"spec"}
    BY ProducerSteps, Ops DEF Rendered, OfKind
  <1>2. \A n \in 1 .. 13 : n \in {1, 2, 3, 4, 5, 6, 7, 8, 9, 10, 11, 12, 13}
    OBVIOUS
  <1>3. ASSUME NEW n \in 1 .. 13 PROVE StepOK(P[n], "producer", n, 9)
    BY <1>2, ProducerSteps, Ops DEF StepOK
  <1>4. ASSUME NEW m \in 1 .. 13, NEW n \in 1 .. 13,
               P[m].op = "read", P[n].op = "read", P[m].of = P[n].of
        PROVE  m = n
    BY <1>2, <1>4, ProducerSteps, Ops
  <1>5. ASSUME NEW n \in 1 .. 13, P[n].op = "render" PROVE P[n].of = {"spec"}
    BY <1>2, <1>5, ProducerSteps, Ops
  <1>6. Len(P) = 13 /\ DOMAIN P = 1 .. 13
    BY ProducerSteps
  <1>7. P = Program["producer"]
    OBVIOUS
  <1> HIDE DEF P
  <1>8. "own" \notin {"spec"} /\ "transport" \notin {"spec"} /\ 13 \in Nat \ {0} /\ 9 \in 1 .. 13
    OBVIOUS
  <1>9. Layout("producer", 13, 9, {"spec"})
    BY <1>1, <1>3, <1>4, <1>5, <1>6, <1>7, <1>8, Zenon DEF Layout
  <1> QED BY <1>9, SoundIf

LEMMA MdnsSteps ==
  LET P == Program["mdns"]
  IN /\ Len(P) = 14 /\ DOMAIN P = 1 .. 14
     /\ P[1] = Read("osp", "carryOn") /\ P[2] = Read("transport", "carryOn")
     /\ P[3] = Read("scripts", "carryOn") /\ P[4] = Read("config", "carryOn")
     /\ P[5] = Read("defaults", "carryOn") /\ P[6] = Read("ca", "return")
     /\ P[7] = Services /\ P[8] = Render({"spec"}, {}) /\ P[9] = Hash /\ P[10] = MarkInput
     /\ P[11] = Need("nad", "wait") /\ P[12] = Topology /\ P[13] = Deploy
     /\ P[14] = Check("readyForInput")
  BY DEF Program, MdnsInputs, MdnsConfig, MdnsWorkload

LEMMA MdnsSound == Sound("mdns")
  <1> DEFINE P == Program["mdns"]
  <1>1. Rendered("mdns") = {"spec"}
    BY MdnsSteps, Ops DEF Rendered, OfKind
  <1>2. \A n \in 1 .. 14 : n \in {1, 2, 3, 4, 5, 6, 7, 8, 9, 10, 11, 12, 13, 14}
    OBVIOUS
  <1>3. ASSUME NEW n \in 1 .. 14 PROVE StepOK(P[n], "mdns", n, 9)
    BY <1>2, MdnsSteps, Ops DEF StepOK
  <1>4. ASSUME NEW m \in 1 .. 14, NEW n \in 1 .. 14,
               P[m].op = "read", P[n].op = "read", P[m].of = P[n].of
        PROVE  m = n
    BY <1>2, <1>4, MdnsSteps, Ops
  <1>5. ASSUME NEW n \in 1 .. 14, P[n].op = "render" PROVE P[n].of = {"spec"}
    BY <1>2, <1>5, MdnsSteps, Ops
  <1>6. Len(P) = 14 /\ DOMAIN P = 1 .. 14
    BY MdnsSteps
  <1>7. P = Program["mdns"]
    OBVIOUS
  <1> HIDE DEF P
  <1>8. "own" \notin {"spec"} /\ "transport" \notin {"spec"} /\ 14 \in Nat \ {0} /\ 9 \in 1 .. 14
    OBVIOUS
  <1>9. Layout("mdns", 14, 9, {"spec"})
    BY <1>1, <1>3, <1>4, <1>5, <1>6, <1>7, <1>8, Zenon DEF Layout
  <1> QED BY <1>9, SoundIf

LEMMA UnboundSteps ==
  LET P == Program["unbound"]
  IN /\ Len(P) = 7 /\ DOMAIN P = 1 .. 7
     /\ P[1] = Services /\ P[2] = Need("nad", "wait")
     /\ P[3] = Render({"spec", "predip", "nad"}, {}) /\ P[4] = Hash /\ P[5] = Topology
     /\ P[6] = Deploy /\ P[7] = Check("ready")
  BY DEF Program, UnboundInputs, UnboundConfig, UnboundWorkload

LEMMA UnboundSound == Sound("unbound")
  <1> DEFINE P == Program["unbound"]
  <1>1. Rendered("unbound") = {"spec", "predip", "nad"}
    BY UnboundSteps, Ops DEF Rendered, OfKind
  <1>2. \A n \in 1 .. 7 : n \in {1, 2, 3, 4, 5, 6, 7}
    OBVIOUS
  <1>3. ASSUME NEW n \in 1 .. 7 PROVE StepOK(P[n], "unbound", n, 4)
    BY <1>2, UnboundSteps, Ops DEF StepOK
  <1>4. ASSUME NEW m \in 1 .. 7, NEW n \in 1 .. 7,
               P[m].op = "read", P[n].op = "read", P[m].of = P[n].of
        PROVE  m = n
    BY <1>2, <1>4, UnboundSteps, Ops
  <1>5. ASSUME NEW n \in 1 .. 7, P[n].op = "render" PROVE P[n].of = {"spec", "predip", "nad"}
    BY <1>2, <1>5, UnboundSteps, Ops
  <1>6. Len(P) = 7 /\ DOMAIN P = 1 .. 7
    BY UnboundSteps
  <1>7. P = Program["unbound"]
    OBVIOUS
  <1> HIDE DEF P
  <1>8. "own" \notin {"spec", "predip", "nad"} /\ "transport" \notin {"spec", "predip", "nad"} /\ 7 \in Nat \ {0} /\ 4 \in 1 .. 7
    OBVIOUS
  <1>9. Layout("unbound", 7, 4, {"spec", "predip", "nad"})
    BY <1>1, <1>3, <1>4, <1>5, <1>6, <1>7, <1>8, Zenon DEF Layout
  <1> QED BY <1>9, SoundIf

LEMMA Bind9Steps ==
  LET P == Program["bind9"]
  IN /\ Len(P) = 10 /\ DOMAIN P = 1 .. 10
     /\ P[1] = MarkInput /\ P[2] = Render({"spec", "nad"}, {"nad"}) /\ P[3] = Hash
     /\ P[4] = Note("predip") /\ P[5] = Note("rndc") /\ P[6] = Recheck
     /\ P[7] = Need("nad", "wait") /\ P[8] = Topology /\ P[9] = Deploy
     /\ P[10] = Check("ready")
  BY DEF Program, BindConfig, BindNotes, BindWorkload

LEMMA Bind9Sound == Sound("bind9")
  <1> DEFINE P == Program["bind9"]
  <1>1. Rendered("bind9") = {"spec", "nad"}
    BY Bind9Steps, Ops DEF Rendered, OfKind
  <1>2. \A n \in 1 .. 10 : n \in {1, 2, 3, 4, 5, 6, 7, 8, 9, 10}
    OBVIOUS
  <1>3. ASSUME NEW n \in 1 .. 10 PROVE StepOK(P[n], "bind9", n, 3)
    BY <1>2, Bind9Steps, Ops DEF StepOK
  <1>4. ASSUME NEW m \in 1 .. 10, NEW n \in 1 .. 10,
               P[m].op = "read", P[n].op = "read", P[m].of = P[n].of
        PROVE  m = n
    BY <1>2, <1>4, Bind9Steps, Ops
  <1>5. ASSUME NEW n \in 1 .. 10, P[n].op = "render" PROVE P[n].of = {"spec", "nad"}
    BY <1>2, <1>5, Bind9Steps, Ops
  <1>6. Len(P) = 10 /\ DOMAIN P = 1 .. 10
    BY Bind9Steps
  <1>7. P = Program["bind9"]
    OBVIOUS
  <1> HIDE DEF P
  <1>8. "own" \notin {"spec", "nad"} /\ "transport" \notin {"spec", "nad"} /\ 10 \in Nat \ {0} /\ 3 \in 1 .. 10
    OBVIOUS
  <1>9. Layout("bind9", 10, 3, {"spec", "nad"})
    BY <1>1, <1>3, <1>4, <1>5, <1>6, <1>7, <1>8, Zenon DEF Layout
  <1> QED BY <1>9, SoundIf

LEMMA ApiSteps ==
  LET P == Program["api"]
  IN /\ Len(P) = 16 /\ DOMAIN P = 1 .. 16
     /\ P[1] = Read("osp", "carryOn") /\ P[2] = Read("ca", "return")
     /\ P[3] = Read("cert", "return") /\ P[4] = Read("scripts", "carryOn")
     /\ P[5] = Read("config", "carryOn") /\ P[6] = Read("defaults", "carryOn")
     /\ P[7] = Need("keystone", "error")
     /\ P[8] = Render({"spec", "keystone", "osp", "ac"}, {"osp"}) /\ P[9] = Hash
     /\ P[10] = MarkInput /\ P[11] = Need("nad", "wait") /\ P[12] = Services
     /\ P[13] = Register /\ P[14] = Topology /\ P[15] = Deploy
     /\ P[16] = Check("readyForInput")
  BY DEF Program, ApiInputs, ApiConfig, ApiHash, ApiRegistration, ApiWorkload

LEMMA ApiSound == Sound("api")
  <1> DEFINE P == Program["api"]
  <1>1. Rendered("api") = {"spec", "keystone", "osp", "ac"}
    BY ApiSteps, Ops DEF Rendered, OfKind
  <1>2. \A n \in 1 .. 16 : n \in {1, 2, 3, 4, 5, 6, 7, 8, 9, 10, 11, 12, 13, 14, 15, 16}
    OBVIOUS
  <1>3. ASSUME NEW n \in 1 .. 16 PROVE StepOK(P[n], "api", n, 9)
    BY <1>2, ApiSteps, Ops DEF StepOK
  <1>4. ASSUME NEW m \in 1 .. 16, NEW n \in 1 .. 16,
               P[m].op = "read", P[n].op = "read", P[m].of = P[n].of
        PROVE  m = n
    BY <1>2, <1>4, ApiSteps, Ops
  <1>5. ASSUME NEW n \in 1 .. 16, P[n].op = "render" PROVE P[n].of = {"spec", "keystone", "osp", "ac"}
    BY <1>2, <1>5, ApiSteps, Ops
  <1>6. Len(P) = 16 /\ DOMAIN P = 1 .. 16
    BY ApiSteps
  <1>7. P = Program["api"]
    OBVIOUS
  <1> HIDE DEF P
  <1>8. "own" \notin {"spec", "keystone", "osp", "ac"} /\ "transport" \notin {"spec", "keystone", "osp", "ac"} /\ 16 \in Nat \ {0} /\ 9 \in 1 .. 16
    OBVIOUS
  <1>9. Layout("api", 16, 9, {"spec", "keystone", "osp", "ac"})
    BY <1>1, <1>3, <1>4, <1>5, <1>6, <1>7, <1>8, Zenon DEF Layout
  <1> QED BY <1>9, SoundIf

Known == {"central", "worker", "producer", "mdns", "unbound", "bind9", "api"}

LEMMA AllSound == \A k \in Kinds : Sound(k)
  <1>1. DOMAIN Program = Known
    BY DEF Program, Known
  <1>2. Kinds \subseteq Known
    BY <1>1, ConstantsOK
  <1> QED BY <1>2, CentralSound, WorkerSound, ProducerSound, MdnsSound, UnboundSound,
             Bind9Sound, ApiSound DEF Known

\* A reconcile of a deleted CR only releases things; its own finalizer last,
\* except for Unbound.
CleanupOK(k) ==
  LET C == Cleanup[k]
      L == IF k = "api" THEN 4 ELSE 2
  IN /\ Len(C) = L /\ DOMAIN C = 1 .. L
     /\ \A n \in 1 .. L : C[n].op = "release"
     /\ k = "api" => /\ C[1].of = "endpoint" /\ C[2].of = "service"
                     /\ C[3].of = "topology" /\ C[4].of = Self
     /\ k = "unbound" => C[1].of = Self /\ C[2].of = "topology"
     /\ k \notin {"api", "unbound"} => C[1].of = "topology" /\ C[2].of = Self

LEMMA AllCleanup == \A k \in Kinds : CleanupOK(k)
  <1>1. DOMAIN Program = Known
    BY DEF Program, Known
  <1> SUFFICES ASSUME NEW k \in Known PROVE CleanupOK(k)
    BY <1>1, ConstantsOK
  <1>0. \A x : Release(x).op = "release" /\ Release(x).of = x
    BY DEF Release
  <1>2. CASE k = "api"
    <2>1. Cleanup["api"] = ApiCleanup
      BY DEF Cleanup
    <2>2. /\ Len(ApiCleanup) = 4 /\ DOMAIN ApiCleanup = 1 .. 4
          /\ ApiCleanup[1] = Release("endpoint") /\ ApiCleanup[2] = Release("service")
          /\ ApiCleanup[3] = Release("topology") /\ ApiCleanup[4] = Release(Self)
      BY DEF ApiCleanup
    <2>3. \A n \in 1 .. 4 : n \in {1, 2, 3, 4}
      OBVIOUS
    <2> QED BY <1>0, <1>2, <2>1, <2>2, <2>3 DEF CleanupOK
  <1>3. CASE k = "unbound"
    <2>1. Cleanup["unbound"] = UnboundCleanup
      BY DEF Cleanup
    <2>2. /\ Len(UnboundCleanup) = 2 /\ DOMAIN UnboundCleanup = 1 .. 2
          /\ UnboundCleanup[1] = Release(Self) /\ UnboundCleanup[2] = Release("topology")
      BY DEF UnboundCleanup
    <2>3. \A n \in 1 .. 2 : n \in {1, 2}
      OBVIOUS
    <2> QED BY <1>0, <1>3, <2>1, <2>2, <2>3 DEF CleanupOK
  <1>4. CASE k \notin {"api", "unbound"}
    <2>2. LET C == Cleanup[k]
          IN /\ Len(C) = 2 /\ DOMAIN C = 1 .. 2
             /\ C[1] = Release("topology") /\ C[2] = Release(Self)
      BY <1>4 DEF Known, Cleanup, CentralCleanup, WorkerCleanup, ProducerCleanup,
                  MdnsCleanup, BindCleanup
    <2>3. \A n \in 1 .. 2 : n \in {1, 2}
      OBVIOUS
    <2> QED BY <1>0, <1>4, <2>2, <2>3 DEF CleanupOK
  <1> QED BY <1>2, <1>3, <1>4

----------------------------------------------------------------------------
(* Types *)

Owns == {Zero({})} \cup [Rendered(kind) -> Versions]
Hashes == [read : {Zero({"unset"})} \cup [Hashed(kind) -> Versions], own : Owns]
Statuses == [hash : Hashes, notes : [{"predip", "rndc"} -> Versions], applied : Versions,
             topo : Topologies \cup {NoTopology}, input : BOOLEAN, ready : BOOLEAN,
             fin : BOOLEAN]

HashOK(h) == h = NoHash \/ h.read \in [Hashed(kind) -> Versions]

WorldType ==
  /\ kind \in Kinds
  /\ ver \in [Inputs(kind) -> Versions] /\ seen \in [Inputs(kind) -> Versions]
  /\ want \in CRs /\ cr \in CRs /\ crSeen \in CRs /\ own \in Owns
  /\ held \subseteq Topologies \cup {"service", "endpoint"} /\ DOMAIN pods = Pods
  /\ stamp \in Versions /\ faults \in 0 .. MaxFaults[kind]

FlagType ==
  /\ life \in {"new", "live", "deleting", "gone"}
  /\ registered \in BOOLEAN /\ queued \in BOOLEAN /\ retry \in BOOLEAN
  /\ crashed \in BOOLEAN

PassType ==
  /\ mine \in [cr : CRs, del : BOOLEAN] /\ at \in 0 .. Len(Steps)
  /\ status \in Statuses /\ HashOK(status.hash)
  /\ now \in Statuses /\ HashOK(now.hash)
  /\ got \in Hashes /\ (at > 0 => got.read \in [Hashed(kind) -> Versions])

\* The types with what the steps of a reconcile hand to each other.
TypeInv == WorldType /\ FlagType /\ PassType

LEMMA TypeInvTypeOK == TypeInv => TypeOK
  <1> SUFFICES ASSUME TypeInv PROVE TypeOK
    OBVIOUS
  <1> USE DEF TypeInv, WorldType, FlagType, PassType
  <1>1. \A s \in {status, now} :
          /\ s.applied \in Versions /\ s.topo \in Topologies \cup {NoTopology}
          /\ s.input \in BOOLEAN /\ s.ready \in BOOLEAN /\ s.fin \in BOOLEAN
          /\ s.notes \in [{"predip", "rndc"} -> Versions]
          /\ s.hash = NoHash \/ s.hash.read \in [Hashed(kind) -> Versions]
    BY DEF Statuses, HashOK
  <1>2. own = Zero({}) \/ own \in [Rendered(kind) -> Versions]
    BY DEF Owns
  <1>3. \A b \in {registered, queued, retry, crashed} : b \in BOOLEAN
    OBVIOUS
  <1>4. {want, cr, crSeen, mine.cr} \subseteq CRs /\ mine.del \in BOOLEAN
    OBVIOUS
  <1> QED BY <1>1, <1>2, <1>3, <1>4 DEF TypeOK

\* What an execution is about does not change.
LEMMA SameKind ==
  ASSUME UNCHANGED kind
  PROVE  /\ Versions' = Versions /\ CRs' = CRs /\ Owns' = Owns /\ Hashes' = Hashes
         /\ Statuses' = Statuses
         /\ \A h : HashOK(h)' <=> HashOK(h)
  BY DEF Versions, CRs, Owns, Hashes, Statuses, HashOK, Versions

LEMMA VersionsFacts ==
  ASSUME kind \in Kinds
  PROVE  /\ MaxEdits[kind] \in Nat /\ MaxFaults[kind] \in Nat
         /\ 0 \in Versions /\ 1 \in Versions
         /\ \A v \in Versions : v \in Nat
  BY ConstantsOK DEF Versions

LEMMA NothingTypes ==
  ASSUME kind \in Kinds
  PROVE  /\ NoHash \in Hashes /\ HashOK(NoHash)
         /\ NoStatus \in Statuses /\ NoStatus.hash = NoHash
         /\ NoPass \in [cr : CRs, del : BOOLEAN]
  <1>1. NoHash \in Hashes
    BY DEF NoHash, Hashes, Owns
  <1>2. Zero({"predip", "rndc"}) \in [{"predip", "rndc"} -> Versions]
    BY VersionsFacts DEF Zero
  <1>3. NoStatus \in Statuses /\ NoStatus.hash = NoHash
    BY <1>1, <1>2, VersionsFacts DEF NoStatus, Statuses
  <1>4. NoPass \in [cr : CRs, del : BOOLEAN]
    BY VersionsFacts DEF NoPass, CRs
  <1> QED BY <1>1, <1>3, <1>4 DEF HashOK

LEMMA IdleType ==
  ASSUME TypeInv, UNCHANGED kind, Idle
  PROVE  /\ mine' \in [cr : CRs, del : BOOLEAN] /\ at' \in 0 .. Len(Steps') /\ at' = 0
         /\ now' \in Statuses /\ HashOK(now'.hash) /\ got' \in Hashes
  <1>1. kind \in Kinds
    BY DEF TypeInv, WorldType
  <1>2. Steps' = Program[kind]
    BY DEF Idle, NoPass, Steps
  <1>3. Len(Program[kind]) \in Nat
    BY <1>1, AllSound DEF Sound
  <1> QED BY <1>1, <1>2, <1>3, NothingTypes DEF Idle

LEMMA ReturnType ==
  ASSUME TypeInv, UNCHANGED <<kind, registered, crashed>>, WorldType',
         NEW s \in Statuses, HashOK(s.hash), NEW again \in BOOLEAN, Return(s, again)
  PROVE  TypeInv'
  <1>1. PassType'
    <2>1. Idle /\ status' = s
      BY DEF Return
    <2> QED BY <2>1, IdleType, SameKind DEF PassType
  <1>2. FlagType'
    <2>1. life' \in {"new", "live", "deleting", "gone"}
      BY DEF Return, TypeInv, FlagType
    <2>2. queued' \in BOOLEAN /\ retry' \in BOOLEAN
      BY DEF Return, TypeInv, FlagType
    <2> QED BY <2>1, <2>2 DEF TypeInv, FlagType
  <1> QED BY <1>1, <1>2 DEF TypeInv

\* The step of a running reconcile.
LEMMA StepFacts ==
  ASSUME TypeInv, at > 0
  PROVE  /\ at \in 1 .. Len(Steps) /\ kind \in Kinds
         /\ mine.del => Cur.op = "release" /\ CleanupOK(kind) /\ Steps = Cleanup[kind]
         /\ ~mine.del => /\ Steps = Program[kind] /\ at \in DOMAIN Program[kind]
                         /\ Sound(kind) /\ Cur = Program[kind][at]
  <1>1. kind \in Kinds /\ at \in 0 .. Len(Steps)
    BY DEF TypeInv, WorldType, PassType
  <1>2. CASE mine.del
    <2>1. CleanupOK(kind) /\ Steps = Cleanup[kind]
      BY <1>1, <1>2, AllCleanup DEF Steps
    <2>2. at \in 1 .. Len(Steps)
      BY <1>1, <2>1 DEF CleanupOK
    <2> QED BY <1>1, <1>2, <2>1, <2>2 DEF CleanupOK, Cur
  <1>3. CASE ~mine.del
    <2>1. Sound(kind) /\ Steps = Program[kind]
      BY <1>1, <1>3, AllSound DEF Steps
    <2>2. at \in 1 .. Len(Steps)
      BY <1>1, <2>1 DEF Sound
    <2> QED BY <1>1, <1>3, <2>1, <2>2 DEF Sound, Cur
  <1> QED BY <1>2, <1>3

LEMMA SamePass ==
  ASSUME PassType, UNCHANGED <<kind, passVars, status>>
  PROVE  PassType'
  <1>1. Steps' = Steps
    BY DEF Steps, passVars
  <1> QED BY <1>1, SameKind DEF PassType, passVars

\* Users, the Designate controller, informers, Keystone and the pods.
LEMMA OutsideType ==
  ASSUME TypeInv,
         \/ RetryDue \/ DeliverCR \/ ParentStamp \/ EditSpec \/ DeleteCR \/ KeystoneRegisters
         \/ \E b \in Buses : ParentRender(b)
         \/ \E i \in Inputs(kind) : Change(i) \/ Appear(i) \/ Deliver(i)
         \/ \E p \in Pods : PodStart(p) \/ PodStop(p)
  PROVE  TypeInv'
  <1> USE DEF worldVars, cacheVars, queueVars
  <1>0. UNCHANGED <<kind, passVars, status>>
    BY DEF RetryDue, DeliverCR, ParentStamp, EditSpec, DeleteCR, KeystoneRegisters,
           ParentRender, Change, Appear, Deliver, PodStart, PodStop
  <1>1. PassType'
    BY <1>0, SamePass DEF TypeInv
  <1>2. /\ kind \in Kinds /\ CRs' = CRs /\ Owns' = Owns /\ Versions' = Versions
        /\ Inputs(kind)' = Inputs(kind)
    BY <1>0, SameKind DEF TypeInv, WorldType
  <1>3. CASE RetryDue \/ DeliverCR \/ ParentStamp \/ DeleteCR \/ KeystoneRegisters
    <2>1. WorldType'
      BY <1>0, <1>2, <1>3 DEF TypeInv, WorldType, RetryDue, DeliverCR, ParentStamp, DeleteCR,
         KeystoneRegisters
    <2>2. FlagType'
      BY <1>3 DEF TypeInv, FlagType, RetryDue, DeliverCR, ParentStamp, DeleteCR,
         KeystoneRegisters
    <2> QED BY <1>1, <2>1, <2>2 DEF TypeInv
  <1>4. ASSUME Edit PROVE stamp' \in Versions
    BY <1>2, <1>4, VersionsFacts DEF Edit, TypeInv, WorldType, Versions
  <1>5. CASE EditSpec
    <2>1. want' \in CRs /\ stamp' \in Versions
      <3>1. want \in CRs /\ stamp' \in Versions
        BY <1>4, <1>5 DEF EditSpec, TypeInv, WorldType
      <3>2. \/ want' = [want EXCEPT !.spec = stamp']
            \/ \E t \in Topologies \cup {NoTopology} : want' = [want EXCEPT !.topo = t]
        BY <1>5 DEF EditSpec
      <3> QED BY <3>1, <3>2 DEF CRs
    <2> QED BY <1>0, <1>1, <1>2, <1>5, <2>1 DEF TypeInv, WorldType, FlagType, EditSpec
  <1>6. ASSUME NEW b \in Buses, ParentRender(b) PROVE TypeInv'
    <2>1. want' \in CRs /\ ver' \in [Inputs(kind) -> Versions] /\ stamp' \in Versions
      <3>1. want \in CRs /\ stamp' \in Versions /\ ver \in [Inputs(kind) -> Versions]
        BY <1>4, <1>6 DEF ParentRender, TypeInv, WorldType
      <3>2. /\ want' = [want EXCEPT !.ann = stamp',
                                    !.bus = IF b = "transport" THEN stamp' ELSE @]
            /\ ver' = [ver EXCEPT !["config"] = stamp']
        BY <1>6 DEF ParentRender
      <3> QED BY <3>1, <3>2 DEF CRs
    <2> QED BY <1>0, <1>1, <1>2, <1>6, <2>1 DEF TypeInv, WorldType, FlagType, ParentRender
  <1>7. ASSUME NEW i \in Inputs(kind), Change(i) \/ Appear(i) PROVE TypeInv'
    <2>1. ver' \in [Inputs(kind) -> Versions] /\ stamp' \in Versions
      <3>1. stamp' \in Versions /\ stamp \in Versions /\ ver \in [Inputs(kind) -> Versions]
        BY <1>4, <1>7 DEF Change, Appear, TypeInv, WorldType
      <3>2. \E v \in {0, stamp, stamp'} : ver' = [ver EXCEPT ![i] = v]
        BY <1>7 DEF Change, Appear
      <3> QED BY <1>2, <3>1, <3>2, VersionsFacts
    <2> QED BY <1>0, <1>1, <1>2, <1>7, <2>1 DEF TypeInv, WorldType, FlagType, Change, Appear
  <1>8. ASSUME NEW i \in Inputs(kind), Deliver(i) PROVE TypeInv'
    <2>1. seen' \in [Inputs(kind) -> Versions]
      BY <1>8 DEF Deliver, TypeInv, WorldType
    <2>2. queued' \in BOOLEAN
      BY <1>8 DEF Deliver
    <2> QED BY <1>0, <1>1, <1>2, <1>8, <2>1, <2>2 DEF TypeInv, WorldType, FlagType, Deliver
  <1>9. ASSUME NEW p \in Pods, PodStart(p) \/ PodStop(p) PROVE TypeInv'
    <2>1. faults' \in 0 .. MaxFaults[kind]
      <3>1. faults' = faults \/ (faults < MaxFaults[kind] /\ faults' = faults + 1)
        BY <1>9 DEF PodStart, PodStop
      <3> QED BY <1>2, <3>1, VersionsFacts DEF TypeInv, WorldType
    <2>2. DOMAIN pods' = Pods /\ queued' \in BOOLEAN
      BY <1>9 DEF PodStart, PodStop, TypeInv, WorldType
    <2>3. UNCHANGED <<ver, want, cr, life, own, held, registered, seen, crSeen, retry, stamp,
                      crashed>>
      BY <1>9 DEF PodStart, PodStop
    <2> QED BY <1>0, <1>1, <1>2, <2>1, <2>2, <2>3 DEF TypeInv, WorldType, FlagType
  <1> QED BY <1>3, <1>5, <1>6, <1>7, <1>8, <1>9

----------------------------------------------------------------------------
(* Types: the steps of a reconcile *)

LEMMA MoreSteps ==
  ASSUME TypeInv, at > 0, ~mine.del, Cur.op # "check"
  PROVE  at < Len(Steps) /\ at + 1 \in 0 .. Len(Steps)
  <1>1. /\ Steps = Program[kind] /\ at \in 1 .. Len(Program[kind]) /\ Sound(kind)
        /\ Cur = Program[kind][at]
    BY StepFacts
  <1>2. PICK h : StepOK(Program[kind][at], kind, at, h)
    BY <1>1 DEF Sound
  <1>3. at # Len(Program[kind]) /\ Len(Program[kind]) \in Nat
    BY <1>1, <1>2 DEF StepOK, Sound
  <1> QED BY <1>1, <1>3

LEMMA AdvanceType ==
  ASSUME TypeInv, at > 0, at < Len(Steps), UNCHANGED <<kind, registered, crashed>>,
         WorldType', FlagType', at' = at + 1, mine' = mine, status' = status,
         now' \in Statuses, HashOK(now'.hash), got' \in Hashes,
         got'.read \in [Hashed(kind) -> Versions]
  PROVE  TypeInv'
  <1>1. Steps' = Steps /\ Versions' = Versions
    BY SameKind DEF Steps
  <1>2. at' \in 0 .. Len(Steps)
    BY StepFacts
  <1>3. PassType'
    BY <1>1, <1>2, SameKind DEF PassType, TypeInv
  <1> QED BY <1>3 DEF TypeInv

LEMMA ValueType ==
  ASSUME TypeInv, NEW i \in Inputs(kind) \cup InSpec
  PROVE  Value(i) \in Versions
  BY DEF TypeInv, WorldType, PassType, Value, InSpec, CRs

\* What a step looks at is an input.
LEMMA CurOf ==
  ASSUME TypeInv, at > 0, ~mine.del
  PROVE  /\ Cur.op = "read" => Cur.of \in Hashed(kind) /\ Cur.of \in Inputs(kind) \cup InSpec
         /\ Cur.op = "need" => Cur.of \in Inputs(kind) \cup InSpec
         /\ Cur.op = "note" => /\ Cur.of \in {"predip", "rndc"}
                               /\ Cur.of \in Inputs(kind) \cup InSpec
         /\ Cur.op = "render" => /\ Cur.of = Rendered(kind)
                                 /\ Rendered(kind) \subseteq Inputs(kind) \cup InSpec
  <1>1. /\ at \in DOMAIN Program[kind] /\ at \in 1 .. Len(Program[kind]) /\ Sound(kind)
        /\ Cur = Program[kind][at]
    BY StepFacts
  <1>2. PICK h : StepOK(Program[kind][at], kind, at, h)
    BY <1>1 DEF Sound
  <1>3. Cur.op = "read" => Cur.of \in Hashed(kind)
    BY <1>1 DEF Hashed, OfKind
  <1>4. Cur.op = "need" => Cur.of \in Needed(kind)
    BY <1>1 DEF Needed, OfKind
  <1>5. Cur.op = "note" => Cur.of \in Noted(kind)
    BY <1>1 DEF Noted, OfKind
  <1>6. /\ Cur.op \in {"read", "need"} => Cur.of \notin {"spec", "own"}
        /\ Cur.op = "note" => Cur.of \in {"predip", "rndc"}
    BY <1>1, <1>2 DEF StepOK
  <1>7. /\ Cur.op = "render" => Cur.of = Rendered(kind)
        /\ "own" \notin Rendered(kind)
    BY <1>1 DEF Sound
  <1> QED BY <1>3, <1>4, <1>5, <1>6, <1>7 DEF Inputs, InSpec

LEMMA Undeleted ==
  ASSUME TypeInv, NEW op, op # "release", Doing(op)
  PROVE  at > 0 /\ ~mine.del /\ Cur.op = op
  BY StepFacts DEF Doing, Cur

LEMMA WorldKept ==
  ASSUME TypeInv, UNCHANGED <<kind, ver, want, cr, pods, seen, crSeen, stamp>>,
         own' \in Owns, held' \subseteq Topologies \cup {"service", "endpoint"},
         faults' \in 0 .. MaxFaults[kind]
  PROVE  WorldType'
  BY SameKind DEF TypeInv, WorldType

LEMMA BeginType ==
  ASSUME TypeInv, Begin
  PROVE  TypeInv'
  <1> USE DEF cacheVars
  <1>0. kind \in Kinds /\ UNCHANGED <<kind, registered, crashed, faults, own, held>>
    BY DEF Begin, TypeInv, WorldType
  <1>1. WorldType'
    BY WorldKept DEF Begin, TypeInv, WorldType
  <1>2. FlagType'
    <2>1. life' \in {"new", "live", "deleting", "gone"} /\ queued' \in BOOLEAN
      BY DEF Begin, TypeInv, FlagType
    <2> QED BY <2>1 DEF Begin, TypeInv, FlagType
  <1>3. CASE UNCHANGED passVars
    <2>1. PassType'
      BY <1>0, <1>3, SamePass DEF Begin, TypeInv
    <2> QED BY <1>1, <1>2, <2>1 DEF TypeInv
  <1>4. CASE ~UNCHANGED passVars
    <2>1. /\ at' = 1 /\ mine' = [cr |-> crSeen, del |-> life = "deleting"]
          /\ got' = [read |-> Zero(Hashed(kind)), own |-> Zero({})]
          /\ now' = [status EXCEPT !.input = FALSE, !.ready = FALSE] /\ status' = status
      BY <1>4 DEF Begin
    <2>2. mine' \in [cr : CRs, del : BOOLEAN]
      BY <2>1 DEF TypeInv, WorldType
    <2>3. Zero(Hashed(kind)) \in [Hashed(kind) -> Versions]
      BY <1>0, VersionsFacts DEF Zero
    <2>4. got' \in Hashes /\ got'.read \in [Hashed(kind) -> Versions]
      BY <2>1, <2>3 DEF Hashes, Owns
    <2>5. now' \in Statuses /\ HashOK(now'.hash)
      BY <2>1 DEF TypeInv, PassType, Statuses
    <2>6. at' \in 0 .. Len(Steps')
      <3>1. Len(Program[kind]) \in Nat \ {0}
        BY <1>0, AllSound DEF Sound
      <3>2. Len(Cleanup[kind]) \in Nat \ {0}
        BY <1>0, AllCleanup DEF CleanupOK
      <3>3. Len(Steps') \in Nat \ {0}
        BY <1>0, <3>1, <3>2 DEF Steps
      <3> QED BY <2>1, <3>3
    <2>7. PassType'
      BY <1>0, <2>1, <2>2, <2>4, <2>5, <2>6, SameKind DEF PassType, TypeInv
    <2> QED BY <1>1, <1>2, <2>7 DEF TypeInv
  <1> QED BY <1>3, <1>4

LEMMA Ends ==
  ASSUME TypeInv, UNCHANGED <<passOnly, own>>,
         held' \subseteq Topologies \cup {"service", "endpoint"},
         NEW s \in Statuses, HashOK(s.hash), NEW again \in BOOLEAN, Return(s, again)
  PROVE  TypeInv'
  <1>1. WorldType'
    BY WorldKept DEF passOnly, cacheVars, TypeInv, WorldType
  <1> QED BY <1>1, ReturnType DEF passOnly

LEMMA GoesOn ==
  ASSUME TypeInv, at > 0, at < Len(Steps), UNCHANGED passOnly, own' \in Owns,
         held' \subseteq Topologies \cup {"service", "endpoint"}, Advance,
         now' \in Statuses, HashOK(now'.hash), got' \in Hashes,
         got'.read \in [Hashed(kind) -> Versions]
  PROVE  TypeInv'
  <1>1. WorldType'
    BY WorldKept DEF passOnly, cacheVars, TypeInv, WorldType
  <1>2. FlagType'
    BY DEF passOnly, Advance, queueVars, TypeInv, FlagType
  <1> QED BY <1>1, <1>2, AdvanceType DEF passOnly, Advance

LEMMA Kept ==
  ASSUME TypeInv, at > 0
  PROVE  /\ now \in Statuses /\ HashOK(now.hash) /\ got \in Hashes
         /\ got.read \in [Hashed(kind) -> Versions] /\ own \in Owns
         /\ held \subseteq Topologies \cup {"service", "endpoint"}
         /\ status \in Statuses /\ HashOK(status.hash)
  BY DEF TypeInv, PassType, WorldType

LEMMA ReadInputType ==
  ASSUME TypeInv, ReadInput
  PROVE  TypeInv'
  <1>1. at > 0 /\ ~mine.del /\ Cur.op = "read" /\ at < Len(Steps)
    BY Undeleted, MoreSteps DEF ReadInput
  <1>2. Cur.of \in Hashed(kind) /\ Value(Cur.of) \in Versions
    BY <1>1, CurOf, ValueType
  <1>3. UNCHANGED passOnly /\ UNCHANGED <<own, held>>
    BY DEF ReadInput
  <1>4. CASE Advance /\ got' = [got EXCEPT !.read[Cur.of] = Value(Cur.of)] /\ UNCHANGED now
    <2>1. got' \in Hashes /\ got'.read \in [Hashed(kind) -> Versions]
      <3>1. got' = [got EXCEPT !.read = [got.read EXCEPT ![Cur.of] = Value(Cur.of)]]
        BY <1>4
      <3>2. [got.read EXCEPT ![Cur.of] = Value(Cur.of)] \in [Hashed(kind) -> Versions]
        BY <1>1, <1>2, Kept
      <3> QED BY <1>1, <3>1, <3>2, Kept DEF Hashes
    <2> QED BY <1>1, <1>3, <1>4, <2>1, Kept, GoesOn
  <1>5. CASE Return(now, Cur.miss # "return")
    BY <1>1, <1>3, <1>5, Kept, Ends
  <1> QED BY <1>4, <1>5 DEF ReadInput

LEMMA NeedInputType ==
  ASSUME TypeInv, NeedInput
  PROVE  TypeInv'
  <1>1. at > 0 /\ ~mine.del /\ Cur.op = "need" /\ at < Len(Steps)
    BY Undeleted, MoreSteps DEF NeedInput
  <1>3. UNCHANGED passOnly /\ UNCHANGED <<own, held>>
    BY DEF NeedInput
  <1>4. CASE Advance /\ UNCHANGED <<got, now>>
    BY <1>1, <1>3, <1>4, Kept, GoesOn
  <1>5. CASE Return(now, Cur.miss # "return")
    BY <1>1, <1>3, <1>5, Kept, Ends
  <1> QED BY <1>4, <1>5 DEF NeedInput

LEMMA RenderConfigType ==
  ASSUME TypeInv, RenderConfig
  PROVE  TypeInv'
  <1> DEFINE content == [i \in Cur.of |-> Value(i)]
  <1>1. at > 0 /\ ~mine.del /\ Cur.op = "render" /\ at < Len(Steps)
    BY Undeleted, MoreSteps DEF RenderConfig
  <1>2. content \in [Rendered(kind) -> Versions]
    BY <1>1, CurOf, ValueType
  <1>3. UNCHANGED passOnly /\ UNCHANGED held
    BY DEF RenderConfig
  <1>4. CASE Advance /\ own' = content /\ got' = [got EXCEPT !.own = content] /\ UNCHANGED now
    <2> HIDE DEF content
    <2>1. own' \in Owns
      BY <1>2, <1>4 DEF Owns
    <2>2. got' \in Hashes /\ got'.read = got.read
      BY <1>1, <1>4, <2>1, Kept DEF Hashes
    <2> QED BY <1>1, <1>3, <1>4, <2>1, <2>2, Kept, GoesOn
  <1>5. CASE Advance /\ UNCHANGED <<own, got, now>>
    BY <1>1, <1>3, <1>5, Kept, GoesOn
  <1>6. CASE Return(now, TRUE) /\ UNCHANGED own
    BY <1>1, <1>3, <1>6, Kept, Ends
  <1> QED BY <1>4, <1>5, <1>6 DEF RenderConfig

LEMMA HashInputsType ==
  ASSUME TypeInv, HashInputs
  PROVE  TypeInv'
  <1>1. at > 0 /\ ~mine.del /\ Cur.op = "hash" /\ at < Len(Steps)
    BY Undeleted, MoreSteps DEF HashInputs
  <1>3. UNCHANGED passOnly /\ UNCHANGED <<own, held>>
    BY DEF HashInputs
  <1>4. CASE Advance /\ UNCHANGED <<got, now>>
    BY <1>1, <1>3, <1>4, Kept, GoesOn
  <1>5. CASE Return([now EXCEPT !.hash = got], FALSE)
    <2>1. [now EXCEPT !.hash = got] \in Statuses /\ [now EXCEPT !.hash = got].hash = got
      BY <1>1, Kept DEF Statuses
    <2>2. HashOK(got)
      BY <1>1, Kept DEF HashOK
    <2> QED BY <1>3, <1>5, <1>1, <2>1, <2>2, Kept, Ends
  <1> QED BY <1>4, <1>5 DEF HashInputs

LEMMA NoteInputType ==
  ASSUME TypeInv, NoteInput
  PROVE  TypeInv'
  <1>1. at > 0 /\ ~mine.del /\ Cur.op = "note" /\ at < Len(Steps)
    BY Undeleted, MoreSteps DEF NoteInput
  <1>2. Cur.of \in {"predip", "rndc"} /\ Value(Cur.of) \in Versions
    BY <1>1, CurOf, ValueType
  <1>3. UNCHANGED passOnly /\ UNCHANGED <<own, held>>
    BY DEF NoteInput
  <1>4. CASE Advance /\ UNCHANGED got /\ now' = [now EXCEPT !.notes[Cur.of] = Value(Cur.of)]
    <2>1. now' = [now EXCEPT !.notes = [now.notes EXCEPT ![Cur.of] = Value(Cur.of)]]
      BY <1>4
    <2>2. [now.notes EXCEPT ![Cur.of] = Value(Cur.of)] \in [{"predip", "rndc"} -> Versions]
      BY <1>1, <1>2, Kept DEF Statuses
    <2>3. now' \in Statuses /\ now'.hash = now.hash
      BY <1>1, <2>1, <2>2, Kept DEF Statuses
    <2> QED BY <1>1, <1>3, <1>4, <2>3, Kept, GoesOn
  <1>5. CASE Return(now, TRUE)
    BY <1>1, <1>3, <1>5, Kept, Ends
  <1> QED BY <1>4, <1>5 DEF NoteInput

LEMMA RecheckNotesType ==
  ASSUME TypeInv, RecheckNotes
  PROVE  TypeInv'
  <1>1. at > 0 /\ ~mine.del /\ Cur.op = "recheck" /\ at < Len(Steps)
    BY Undeleted, MoreSteps DEF RecheckNotes
  <1>3. UNCHANGED passOnly /\ UNCHANGED <<own, held>>
    BY DEF RecheckNotes
  <1>4. CASE Advance /\ UNCHANGED <<got, now>>
    BY <1>1, <1>3, <1>4, Kept, GoesOn
  <1>5. CASE Return(now, FALSE)
    BY <1>1, <1>3, <1>5, Kept, Ends
  <1> QED BY <1>4, <1>5 DEF RecheckNotes

LEMMA MarkInputReadyType ==
  ASSUME TypeInv, MarkInputReady \/ ApplyServices
  PROVE  TypeInv'
  <1>1. at > 0 /\ ~mine.del /\ Cur.op # "check" /\ at < Len(Steps)
    BY Undeleted, MoreSteps DEF MarkInputReady, ApplyServices
  <1>2. now' \in Statuses /\ now'.hash = now.hash
    BY <1>1, Kept DEF MarkInputReady, ApplyServices, Statuses
  <1>3. UNCHANGED passOnly /\ UNCHANGED <<own, held, got>> /\ Advance
    BY DEF MarkInputReady, ApplyServices
  <1> QED BY <1>1, <1>2, <1>3, Kept, GoesOn

LEMMA RegisterServiceType ==
  ASSUME TypeInv, RegisterService
  PROVE  TypeInv'
  <1>1. at > 0 /\ ~mine.del /\ Cur.op = "register" /\ at < Len(Steps)
    BY Undeleted, MoreSteps DEF RegisterService
  <1>2. held' \subseteq Topologies \cup {"service", "endpoint"}
    BY <1>1, Kept DEF RegisterService
  <1>3. UNCHANGED passOnly /\ UNCHANGED own
    BY DEF RegisterService
  <1>4. CASE Advance /\ UNCHANGED <<got, now>>
    BY <1>1, <1>2, <1>3, <1>4, Kept, GoesOn
  <1>5. CASE Return(now, FALSE)
    BY <1>1, <1>2, <1>3, <1>5, Kept, Ends
  <1> QED BY <1>4, <1>5 DEF RegisterService

LEMMA EnsureTopologyType ==
  ASSUME TypeInv, EnsureTopology
  PROVE  TypeInv'
  <1>1. at > 0 /\ ~mine.del /\ Cur.op = "topology" /\ at < Len(Steps)
    BY Undeleted, MoreSteps DEF EnsureTopology
  <1>2. mine.cr.topo \in Topologies \cup {NoTopology}
    BY DEF TypeInv, PassType, CRs
  <1>3. held' \subseteq Topologies \cup {"service", "endpoint"}
    BY <1>1, <1>2, Kept DEF EnsureTopology
  <1>4. now' \in Statuses /\ now'.hash = now.hash
    BY <1>1, <1>2, Kept DEF EnsureTopology, Statuses
  <1>5. UNCHANGED passOnly /\ UNCHANGED <<own, got>> /\ Advance
    BY DEF EnsureTopology
  <1> QED BY <1>1, <1>3, <1>4, <1>5, Kept, GoesOn

LEMMA ApplyWorkloadType ==
  ASSUME TypeInv, ApplyWorkload
  PROVE  TypeInv'
  <1>1. at > 0 /\ ~mine.del /\ Cur.op = "deploy" /\ at < Len(Steps)
    BY Undeleted, MoreSteps DEF ApplyWorkload
  <1>2. WorldType'
    BY WorldKept DEF ApplyWorkload, passOnly, cacheVars, TypeInv, WorldType
  <1>3. queued' \in BOOLEAN
    BY DEF ApplyWorkload
  <1>4. FlagType'
    BY <1>3 DEF ApplyWorkload, passOnly, TypeInv, FlagType
  <1>5. /\ UNCHANGED <<kind, registered, crashed, got, now, status, mine>>
        /\ at' = at + 1
    BY DEF ApplyWorkload, passOnly
  <1> QED BY <1>1, <1>2, <1>4, <1>5, Kept, AdvanceType

LEMMA CheckWorkloadType ==
  ASSUME TypeInv, CheckWorkload
  PROVE  TypeInv'
  <1>1. at > 0 /\ ~mine.del /\ Cur.op = "check"
    BY Undeleted DEF CheckWorkload
  <1>2. \A how : ReadyForInput(how) \subseteq BOOLEAN
    BY DEF ReadyForInput
  <1>3. PICK ready \in BOOLEAN, again \in BOOLEAN :
          Return([now EXCEPT
                    !.ready = ready,
                    !.applied = IF ready /\ Cur.of = "readyForInput" THEN mine.cr.ann ELSE @],
                 again)
    BY <1>2 DEF CheckWorkload
  <1> DEFINE s == [now EXCEPT
                    !.ready = ready,
                    !.applied = IF ready /\ Cur.of = "readyForInput" THEN mine.cr.ann ELSE @]
  <1>4. mine.cr.ann \in Versions
    BY DEF TypeInv, PassType, CRs
  <1>5. s \in Statuses /\ s.hash = now.hash
    BY <1>1, <1>4, Kept DEF Statuses
  <1>6. UNCHANGED passOnly /\ UNCHANGED <<own, held>> /\ Return(s, again)
    BY <1>3 DEF CheckWorkload
  <1> HIDE DEF s
  <1> QED BY <1>1, <1>5, <1>6, Kept, Ends

LEMMA ReleaseHeldType ==
  ASSUME TypeInv, ReleaseHeld
  PROVE  TypeInv'
  <1> DEFINE after == IF Cur.of = Self THEN [now EXCEPT !.fin = FALSE] ELSE now
  <1>1. at > 0
    BY DEF ReleaseHeld, Doing
  <1>2. after \in Statuses /\ after.hash = now.hash
    BY <1>1, Kept DEF Statuses
  <1>3. held' \subseteq Topologies \cup {"service", "endpoint"}
    BY <1>1, Kept DEF ReleaseHeld
  <1>4. UNCHANGED passOnly /\ UNCHANGED own
    BY DEF ReleaseHeld
  <1>5. \/ at < Len(Steps) /\ now' = after /\ Advance /\ UNCHANGED got
        \/ Return(after, FALSE)
    BY DEF ReleaseHeld
  <1> HIDE DEF after
  <1>6. CASE at < Len(Steps) /\ now' = after /\ Advance /\ UNCHANGED got
    BY <1>1, <1>2, <1>3, <1>4, <1>6, Kept, GoesOn
  <1>7. CASE Return(after, FALSE)
    BY <1>1, <1>2, <1>3, <1>4, <1>7, Kept, Ends
  <1> QED BY <1>5, <1>6, <1>7

LEMMA StepFailsType ==
  ASSUME TypeInv, StepFails
  PROVE  TypeInv'
  <1>1. at > 0 /\ kind \in Kinds
    BY DEF StepFails, Doing, TypeInv, WorldType
  <1>2. held' \subseteq held
    BY DEF StepFails
  <1>3. faults' \in 0 .. MaxFaults[kind]
    BY <1>1, VersionsFacts DEF StepFails, TypeInv, WorldType
  <1>4. WorldType'
    BY <1>1, <1>2, <1>3, Kept, WorldKept DEF StepFails, cacheVars
  <1>5. UNCHANGED <<kind, registered, crashed>> /\ Return(now, TRUE)
    BY DEF StepFails
  <1> QED BY <1>1, <1>4, <1>5, Kept, ReturnType

LEMMA CrashType ==
  ASSUME TypeInv, Crash
  PROVE  TypeInv'
  <1>1. kind \in Kinds /\ UNCHANGED <<kind, worldVars, status, stamp>> /\ Idle
    BY DEF Crash, TypeInv, WorldType
  <1>2. faults' \in 0 .. MaxFaults[kind]
    BY <1>1, VersionsFacts DEF Crash, TypeInv, WorldType
  <1>3. WorldType'
    BY <1>1, <1>2, SameKind DEF Crash, TypeInv, WorldType, worldVars
  <1>4. FlagType'
    <2>1. crashed' \in BOOLEAN
      BY DEF Crash
    <2> QED BY <1>1, <2>1 DEF Crash, TypeInv, FlagType, worldVars
  <1>5. PassType'
    BY <1>1, IdleType, SameKind DEF TypeInv, PassType
  <1> QED BY <1>3, <1>4, <1>5 DEF TypeInv

LEMMA StutterType ==
  ASSUME TypeInv, UNCHANGED vars
  PROVE  TypeInv'
  <1>1. UNCHANGED <<kind, passVars, status>>
    BY DEF vars
  <1>2. PassType'
    BY <1>1, SamePass DEF TypeInv
  <1>3. WorldType' /\ FlagType'
    BY SameKind DEF vars, worldVars, cacheVars, queueVars, TypeInv, WorldType, FlagType
  <1> QED BY <1>2, <1>3 DEF TypeInv

LEMMA InitType ==
  ASSUME Init
  PROVE  TypeInv
  <1>1. kind \in Kinds /\ 0 \in Versions /\ 1 \in Versions
    BY VersionsFacts DEF Init
  <1>2. ver \in [Inputs(kind) -> Versions]
    BY <1>1 DEF Init
  <1>3. cr \in CRs
    BY <1>1 DEF Init, CRs
  <1>4. WorldType
    BY <1>1, <1>2, <1>3, VersionsFacts DEF Init, WorldType, Owns
  <1>5. FlagType
    BY DEF Init, FlagType
  <1>6. Len(Steps) \in Nat
    BY <1>1, AllSound DEF Init, NoPass, Steps, Sound
  <1>7. PassType
    BY <1>1, <1>6, NothingTypes DEF Init, PassType
  <1> QED BY <1>4, <1>5, <1>7 DEF TypeInv

LEMMA TypeStep ==
  ASSUME TypeInv, [Next]_vars
  PROVE  TypeInv'
  <1>1. CASE Pass
    BY <1>1, BeginType, ReadInputType, NeedInputType, RenderConfigType, HashInputsType,
       NoteInputType, RecheckNotesType, MarkInputReadyType, RegisterServiceType,
       EnsureTopologyType, ApplyWorkloadType, CheckWorkloadType, ReleaseHeldType DEF Pass
  <1>2. CASE StepFails \/ Crash
    BY <1>2, StepFailsType, CrashType
  <1>3. CASE UNCHANGED vars
    BY <1>3, StutterType
  <1> QED BY <1>1, <1>2, <1>3, OutsideType DEF Next

\* Every variable keeps its type, for all the controllers: in particular no
\* step of a reconcile looks up an input, or stores a version, that the
\* controller does not have, and no reconcile runs past its last step.
THEOREM TypeCorrect == Spec => []TypeOK
  <1>1. Init => TypeInv
    BY InitType
  <1>2. TypeInv /\ [Next]_vars => TypeInv'
    BY TypeStep
  <1>3. TypeInv => TypeOK
    BY TypeInvTypeOK
  <1> QED BY <1>1, <1>2, <1>3, PTL DEF Spec

----------------------------------------------------------------------------
(* A service is ready only with all it insists on.                          *)

\* A running reconcile has found everything it insists on that its steps so
\* far read.
ReadSoFar ==
  at > 0 /\ ~mine.del =>
    \A n \in 1 .. (at - 1) :
      LET s == Program[kind][n]
      IN s.op = "read" /\ s.miss # "carryOn" => got.read[s.of] # 0

\* Past the hash, the status has the hash of what this reconcile has read.
HashSoFar ==
  at > 0 /\ ~mine.del =>
    \A n \in 1 .. (at - 1) : Program[kind][n].op = "hash" => now.hash = got

\* Only its last step reports Ready.
NotYetReady == at > 0 => now.ready = FALSE

InvReady == NotYetReady /\ ReadSoFar /\ HashSoFar /\ ReadyMeansComplete

\* The steps before the current one and the current one.
LEMMA SoFar ==
  ASSUME TypeInv, at > 0, ~mine.del, at' = at + 1, mine' = mine, kind' = kind
  PROVE  /\ \A n \in 1 .. (at' - 1) : n \in 1 .. (at - 1) \/ n = at
         /\ \A n \in 1 .. (at - 1) : n < at /\ n \in 1 .. Len(Program[kind])
         /\ at \in 1 .. Len(Program[kind])
  <1>1. at \in 1 .. Len(Program[kind]) /\ Len(Program[kind]) \in Nat
    BY StepFacts DEF Sound
  <1> QED BY <1>1

LEMMA ReadyReturn ==
  ASSUME UNCHANGED kind, NEW s, NEW again, Return(s, again), s.ready = FALSE
  PROVE  InvReady'
  BY DEF Return, Idle, InvReady, NotYetReady, ReadSoFar, HashSoFar, ReadyMeansComplete

\* A step that is not a read leaves what was read.
LEMMA ReadyAdvance ==
  ASSUME TypeInv, InvReady, at > 0, UNCHANGED kind, at' = at + 1, mine' = mine,
         status' = status, now'.ready = now.ready, now'.hash = now.hash,
         ~mine.del => Cur.op \notin {"read", "render"} /\ got' = got,
         ~mine.del /\ Cur.op = "hash" => now.hash = got
  PROVE  InvReady'
  <1>1. NotYetReady' /\ ReadyMeansComplete'
    BY DEF InvReady, NotYetReady, ReadyMeansComplete
  <1>2. CASE mine.del
    BY <1>1, <1>2 DEF InvReady, ReadSoFar, HashSoFar
  <1>3. CASE ~mine.del
    <2>1. Cur = Program[kind][at]
      BY <1>3, StepFacts
    <2>2. ReadSoFar'
      BY <1>3, <2>1, SoFar DEF InvReady, ReadSoFar
    <2>3. HashSoFar'
      BY <1>3, <2>1, SoFar DEF InvReady, HashSoFar
    <2> QED BY <1>1, <2>2, <2>3 DEF InvReady
  <1> QED BY <1>2, <1>3

LEMMA InitReady == Init => InvReady
  BY DEF Init, NoStatus, InvReady, NotYetReady, ReadSoFar, HashSoFar, ReadyMeansComplete

LEMMA BeginReady ==
  ASSUME TypeInv, InvReady, Begin
  PROVE  InvReady'
  <1>1. UNCHANGED <<kind, status>>
    BY DEF Begin
  <1>2. CASE UNCHANGED passVars
    BY <1>1, <1>2 DEF passVars, InvReady, NotYetReady, ReadSoFar, HashSoFar, ReadyMeansComplete
  <1>3. CASE ~UNCHANGED passVars
    <2>1. at' = 1 /\ now' = [status EXCEPT !.input = FALSE, !.ready = FALSE]
      BY <1>3 DEF Begin
    <2>2. status \in Statuses
      BY DEF TypeInv, PassType
    <2>3. now'.ready = FALSE
      BY <2>1, <2>2 DEF Statuses
    <2>4. 1 .. (at' - 1) = {}
      BY <2>1
    <2> QED BY <1>1, <2>3, <2>4 DEF InvReady, NotYetReady, ReadSoFar, HashSoFar,
               ReadyMeansComplete
  <1> QED BY <1>2, <1>3

\* Reads and the render are before the hash, and every input is read once.
LEMMA ReadReady ==
  ASSUME TypeInv, InvReady, ReadInput
  PROVE  InvReady'
  <1>1. /\ at > 0 /\ ~mine.del /\ Cur.op = "read" /\ UNCHANGED kind
        /\ Cur.of \in Hashed(kind) /\ Cur = Program[kind][at] /\ Sound(kind)
    BY Undeleted, CurOf, StepFacts DEF ReadInput, passOnly
  <1>2. CASE Return(now, Cur.miss # "return")
    BY <1>1, <1>2, ReadyReturn DEF InvReady, NotYetReady
  <1>3. CASE /\ Advance /\ got' = [got EXCEPT !.read[Cur.of] = Value(Cur.of)] /\ UNCHANGED now
             /\ Value(Cur.of) # 0 \/ Cur.miss = "carryOn"
    <2>0. at' = at + 1 /\ mine' = mine /\ status' = status
      BY <1>3 DEF Advance
    <2>1. NotYetReady' /\ ReadyMeansComplete'
      BY <1>1, <1>3, <2>0 DEF InvReady, NotYetReady, ReadyMeansComplete
    <2>2. \A i \in Hashed(kind) :
            got'.read[i] = IF i = Cur.of THEN Value(Cur.of) ELSE got.read[i]
      BY <1>1, <1>3, Kept DEF Hashes
    <2>3. ASSUME NEW n \in 1 .. (at - 1), Program[kind][n].op = "read"
          PROVE  Program[kind][n].of # Cur.of /\ Program[kind][n].of \in Hashed(kind)
      <3>1. n \in 1 .. Len(Program[kind]) /\ n < at /\ at \in 1 .. Len(Program[kind])
        BY <1>1, <2>0, SoFar
      <3>2. n # at
        BY <3>1
      <3>3. Program[kind][n].of \in Hashed(kind)
        BY <1>1, <2>3, <3>1 DEF Hashed, OfKind, Sound
      <3> QED BY <1>1, <2>3, <3>1, <3>2, <3>3 DEF Sound
    <2>4. ReadSoFar'
      <3> SUFFICES ASSUME NEW n \in 1 .. (at' - 1), Program[kind][n].op = "read",
                          Program[kind][n].miss # "carryOn"
                   PROVE  got'.read[Program[kind][n].of] # 0
        BY <1>1 DEF ReadSoFar
      <3>1. CASE n = at
        BY <1>1, <1>3, <2>2, <3>1
      <3>2. CASE n \in 1 .. (at - 1)
        BY <1>1, <2>2, <2>3, <3>2 DEF InvReady, ReadSoFar
      <3> QED BY <1>1, <2>0, <3>1, <3>2, SoFar
    <2>5. HashSoFar'
      <3>1. PICK h \in 1 .. Len(Program[kind]) : \A n \in 1 .. Len(Program[kind]) :
              StepOK(Program[kind][n], kind, n, h)
        BY <1>1 DEF Sound
      <3>2. at \in 1 .. Len(Program[kind])
        BY <1>1, <2>0, SoFar
      <3>3. at < h
        BY <1>1, <3>1, <3>2 DEF StepOK
      <3>4. ASSUME NEW n \in 1 .. (at' - 1) PROVE Program[kind][n].op # "hash"
        <4>1. n \in 1 .. Len(Program[kind]) /\ n # h
          BY <1>1, <2>0, <3>2, <3>3, SoFar
        <4> QED BY <3>1, <4>1 DEF StepOK
      <3> QED BY <1>1, <3>4 DEF HashSoFar
    <2> QED BY <2>1, <2>4, <2>5 DEF InvReady
  <1> QED BY <1>2, <1>3 DEF ReadInput

LEMMA RenderReady ==
  ASSUME TypeInv, InvReady, RenderConfig
  PROVE  InvReady'
  <1>1. /\ at > 0 /\ ~mine.del /\ Cur.op = "render" /\ UNCHANGED kind
        /\ Cur = Program[kind][at] /\ Sound(kind)
    BY Undeleted, StepFacts DEF RenderConfig, passOnly
  <1>2. CASE Return(now, TRUE)
    BY <1>1, <1>2, ReadyReturn DEF InvReady, NotYetReady
  <1>3. CASE Advance
    <2>0. at' = at + 1 /\ mine' = mine /\ status' = status
      BY <1>3 DEF Advance
    <2>1. at' # 0
      BY <1>1, <2>0, StepFacts
    <2>2. now' = now
      BY <2>1 DEF RenderConfig, Return, Idle
    <2>3. got'.read = got.read
      BY <1>1, <2>1, Kept DEF RenderConfig, Return, Idle, Hashes
    <2>4. NotYetReady' /\ ReadyMeansComplete'
      BY <1>1, <2>0, <2>2 DEF InvReady, NotYetReady, ReadyMeansComplete
    <2>5. ReadSoFar'
      BY <1>1, <2>0, <2>3, SoFar DEF InvReady, ReadSoFar
    <2>6. HashSoFar'
      <3>1. PICK h \in 1 .. Len(Program[kind]) : \A n \in 1 .. Len(Program[kind]) :
              StepOK(Program[kind][n], kind, n, h)
        BY <1>1 DEF Sound
      <3>2. at \in 1 .. Len(Program[kind])
        BY <1>1, <2>0, SoFar
      <3>3. at < h
        BY <1>1, <3>1, <3>2 DEF StepOK
      <3>4. ASSUME NEW n \in 1 .. (at' - 1) PROVE Program[kind][n].op # "hash"
        <4>1. n \in 1 .. Len(Program[kind]) /\ n # h
          BY <1>1, <2>0, <3>2, <3>3, SoFar
        <4> QED BY <3>1, <4>1 DEF StepOK
      <3> QED BY <1>1, <3>4 DEF HashSoFar
    <2> QED BY <2>4, <2>5, <2>6 DEF InvReady
  <1> QED BY <1>2, <1>3 DEF RenderConfig

\* The workload is checked by a reconcile that has everything it insists on,
\* with a hash of exactly that in the status.
LEMMA CheckReady ==
  ASSUME TypeInv, InvReady, CheckWorkload
  PROVE  InvReady'
  <1>1. /\ at > 0 /\ ~mine.del /\ Cur.op = "check" /\ UNCHANGED kind
        /\ Cur = Program[kind][at] /\ Sound(kind) /\ at \in 1 .. Len(Program[kind])
    BY Undeleted, StepFacts DEF CheckWorkload, passOnly
  <1>2. PICK h \in 1 .. Len(Program[kind]) : \A n \in 1 .. Len(Program[kind]) :
          StepOK(Program[kind][n], kind, n, h)
    BY <1>1 DEF Sound
  <1>3. at = Len(Program[kind]) /\ Program[kind][h].op = "hash" /\ h # at
    BY <1>1, <1>2 DEF StepOK
  <1>4. h \in 1 .. (at - 1)
    BY <1>1, <1>2, <1>3
  <1>5. now.hash = got
    BY <1>1, <1>3, <1>4 DEF InvReady, HashSoFar
  <1>6. ASSUME NEW i \in Insisted(kind) PROVE got.read[i] # 0
    <2>1. PICK n \in DOMAIN Program[kind] :
            /\ Program[kind][n].op = "read" /\ Program[kind][n].miss # "carryOn"
            /\ Program[kind][n].of = i
      BY <1>6 DEF Insisted, OfKind
    <2>2. n \in 1 .. Len(Program[kind])
      BY <1>1, <2>1 DEF Sound
    <2>3. n # at
      BY <1>1, <2>1
    <2>4. n \in 1 .. (at - 1)
      BY <1>1, <1>3, <2>2, <2>3
    <2> QED BY <1>1, <2>1, <2>4 DEF InvReady, ReadSoFar
  <1>7. Idle /\ status'.hash = now.hash
    <2>1. PICK ready, applied, again :
            Return([now EXCEPT !.ready = ready, !.applied = applied], again)
      BY DEF CheckWorkload
    <2> QED BY <1>1, <2>1, Kept DEF Return, Statuses
  <1>8. ReadyMeansComplete'
    BY <1>1, <1>5, <1>6, <1>7 DEF ReadyMeansComplete
  <1> QED BY <1>7, <1>8 DEF Idle, InvReady, NotYetReady, ReadSoFar, HashSoFar

LEMMA HashReady ==
  ASSUME TypeInv, InvReady, HashInputs
  PROVE  InvReady'
  <1>1. at > 0 /\ ~mine.del /\ Cur.op = "hash" /\ UNCHANGED kind
    BY Undeleted DEF HashInputs, passOnly
  <1>2. CASE Return([now EXCEPT !.hash = got], FALSE)
    <2>1. [now EXCEPT !.hash = got].ready = FALSE
      BY <1>1, Kept DEF InvReady, NotYetReady, Statuses
    <2> QED BY <1>1, <1>2, <2>1, ReadyReturn
  <1>3. CASE now.hash = got /\ Advance /\ UNCHANGED <<got, now>>
    BY <1>1, <1>3, ReadyAdvance DEF Advance
  <1> QED BY <1>2, <1>3 DEF HashInputs

\* The other steps.
LEMMA PlainReady ==
  ASSUME TypeInv, InvReady,
         \/ NeedInput \/ NoteInput \/ RecheckNotes \/ MarkInputReady \/ ApplyServices
         \/ RegisterService \/ EnsureTopology \/ ApplyWorkload
  PROVE  InvReady'
  <1> DEFINE ops == {"need", "note", "recheck", "mark", "services", "register", "topology",
                     "deploy"}
  <1>1. \E op \in ops : Doing(op)
    BY DEF NeedInput, NoteInput, RecheckNotes, MarkInputReady, ApplyServices,
           RegisterService, EnsureTopology, ApplyWorkload
  <1>2. at > 0 /\ ~mine.del /\ Cur.op \in ops
    BY <1>1, Undeleted
  <1>3. UNCHANGED kind
    BY DEF NeedInput, NoteInput, RecheckNotes, MarkInputReady, ApplyServices,
           RegisterService, EnsureTopology, ApplyWorkload, passOnly
  <1>4. CASE \E again : Return(now, again)
    BY <1>2, <1>3, <1>4, ReadyReturn DEF InvReady, NotYetReady
  <1>5. CASE ~(\E again : Return(now, again))
    <2>1. at' = at + 1 /\ mine' = mine /\ status' = status /\ got' = got
      BY <1>5 DEF NeedInput, NoteInput, RecheckNotes, MarkInputReady, ApplyServices,
           RegisterService, EnsureTopology, ApplyWorkload, Advance
    <2>2. \/ now' = now
          \/ now' = [now EXCEPT !.notes[Cur.of] = Value(Cur.of)]
          \/ now' = [now EXCEPT !.input = TRUE]
          \/ now' = [now EXCEPT !.topo = mine.cr.topo]
      BY <1>5 DEF NeedInput, NoteInput, RecheckNotes, MarkInputReady, ApplyServices,
           RegisterService, EnsureTopology, ApplyWorkload
    <2>3. now'.ready = now.ready /\ now'.hash = now.hash
      BY <1>2, <2>2, Kept DEF Statuses
    <2> QED BY <1>2, <1>3, <2>1, <2>3, ReadyAdvance
  <1> QED BY <1>4, <1>5

LEMMA ReleaseReady ==
  ASSUME TypeInv, InvReady, ReleaseHeld
  PROVE  InvReady'
  <1> DEFINE after == IF Cur.of = Self THEN [now EXCEPT !.fin = FALSE] ELSE now
  <1>1. at > 0 /\ UNCHANGED kind /\ Cur.op = "release"
    BY DEF ReleaseHeld, Doing, Cur, passOnly
  <1>2. mine.del
    <2>1. CASE ~mine.del
      <3>1. PICK h : StepOK(Cur, kind, at, h)
        BY <1>1, <2>1, StepFacts DEF Sound
      <3> QED BY <1>1, <3>1 DEF StepOK
    <2> QED BY <2>1
  <1>3. after.ready = FALSE /\ after.hash = now.hash
    BY <1>1, Kept DEF Statuses, InvReady, NotYetReady
  <1>4. \/ now' = after /\ Advance /\ UNCHANGED got
        \/ Return(after, FALSE)
    BY DEF ReleaseHeld
  <1> HIDE DEF after
  <1>5. CASE now' = after /\ Advance /\ UNCHANGED got
    BY <1>1, <1>2, <1>3, <1>5, ReadyAdvance DEF Advance, InvReady, NotYetReady
  <1>6. CASE Return(after, FALSE)
    BY <1>1, <1>3, <1>6, ReadyReturn
  <1> QED BY <1>4, <1>5, <1>6

LEMMA FailReady ==
  ASSUME TypeInv, InvReady, StepFails \/ Crash
  PROVE  InvReady'
  <1>1. CASE StepFails
    <2>1. at > 0 /\ UNCHANGED kind /\ Return(now, TRUE)
      BY <1>1 DEF StepFails, Doing
    <2> QED BY <2>1, ReadyReturn DEF InvReady, NotYetReady
  <1>2. CASE Crash
    <2>1. Idle /\ UNCHANGED <<kind, status>>
      BY <1>2 DEF Crash
    <2> QED BY <2>1 DEF Idle, InvReady, NotYetReady, ReadSoFar, HashSoFar, ReadyMeansComplete
  <1> QED BY <1>1, <1>2

LEMMA OutsideReady ==
  ASSUME InvReady,
         \/ UNCHANGED vars
         \/ RetryDue \/ DeliverCR \/ ParentStamp \/ EditSpec \/ DeleteCR \/ KeystoneRegisters
         \/ \E b \in Buses : ParentRender(b)
         \/ \E i \in Inputs(kind) : Change(i) \/ Appear(i) \/ Deliver(i)
         \/ \E p \in Pods : PodStart(p) \/ PodStop(p)
  PROVE  InvReady'
  <1>1. UNCHANGED <<kind, passVars, status>>
    BY DEF vars, RetryDue, DeliverCR, ParentStamp, EditSpec, DeleteCR, KeystoneRegisters,
           ParentRender, Change, Appear, Deliver, PodStart, PodStop
  <1> QED BY <1>1 DEF passVars, InvReady, NotYetReady, ReadSoFar, HashSoFar,
             ReadyMeansComplete

LEMMA ReadyStep ==
  ASSUME TypeInv, InvReady, [Next]_vars
  PROVE  InvReady'
  <1>1. CASE Pass
    BY <1>1, BeginReady, ReadReady, RenderReady, HashReady, PlainReady, CheckReady,
       ReleaseReady DEF Pass
  <1>2. CASE StepFails \/ Crash
    BY <1>2, FailReady
  <1> QED BY <1>1, <1>2, OutsideReady DEF Next

\* A service whose controller insists on an input never reports Ready with a
\* hash built without it, whatever its cache shows, and whichever reconciles
\* end early, fail or are cut off by a restart.
THEOREM CompleteWhenReady == Spec => []ReadyMeansComplete
  <1>1. Init => TypeInv /\ InvReady
    BY InitType, InitReady
  <1>2. TypeInv /\ InvReady /\ [Next]_vars => TypeInv' /\ InvReady'
    BY TypeStep, ReadyStep
  <1>3. InvReady => ReadyMeansComplete
    BY DEF InvReady
  <1> QED BY <1>1, <1>2, <1>3, PTL DEF Spec

----------------------------------------------------------------------------
(* Finalizers.                                                              *)

\* The last step of Unbound's reconcileDelete is not its own finalizer: with a
\* failed write the CR would go and leave the Topology's finalizer behind.
OwnFinalizerLast == "unbound" \notin Deletes \/ MaxFaults["unbound"] = 0

\* The life of the CR as a reconcile knows it.
LifeKnown ==
  /\ life = "deleting" => kind \in Deletes
  /\ at > 0 => life # "gone"
  /\ at > 0 /\ mine.del => life = "deleting"

\* The CR is only without its own finalizer while Unbound's reconcileDelete
\* is in its last step.
OwnFinalizer ==
  /\ at > 0 /\ now.fin = FALSE => kind = "unbound" /\ mine.del /\ at = 2
  /\ status.fin = FALSE => life = "gone"

\* The Topology with the finalizer is the one named by the status, or, in a
\* reconcile, by the status in memory.
OneTopology ==
  ~crashed => held \cap Topologies \subseteq {IF at = 0 THEN status.topo ELSE now.topo}

OnlyApiRegisters == held \cap {"service", "endpoint"} # {} => kind = "api"

Released(x, objects) ==
  /\ x = "topology" => objects \cap Topologies = {}
  /\ x \in {"service", "endpoint"} => x \notin objects

\* reconcileDelete has released what its steps so far are for.
ReleasedSoFar ==
  at > 0 /\ mine.del /\ ~crashed => \A n \in 1 .. (at - 1) : Released(Cleanup[kind][n].of, held)

NothingHeldWhenGone == ~crashed /\ life = "gone" => held = {}

InvFin ==
  /\ LifeKnown /\ OwnFinalizer /\ OneTopology /\ OnlyApiRegisters /\ ReleasedSoFar
  /\ NothingHeldWhenGone

LEMMA Disjoint ==
  Topologies \cap {"service", "endpoint"} = {} /\ NoTopology \notin Topologies
  BY ConstantsOK

LEMMA FinInit == Init => InvFin
  BY DEF Init, NoStatus, InvFin, LifeKnown, OwnFinalizer, OneTopology, OnlyApiRegisters,
         ReleasedSoFar, NothingHeldWhenGone

LEMMA FinReturn ==
  ASSUME TypeInv, InvFin, at > 0, UNCHANGED <<kind, crashed>>,
         NEW s \in Statuses, NEW again, Return(s, again), s.topo = now.topo,
         held' \cap Topologies \subseteq held, OnlyApiRegisters',
         s.fin = FALSE /\ ~crashed => held' = {}
  PROVE  InvFin'
  <1>1. /\ at' = 0 /\ status' = s /\ life' = IF s.fin THEN life ELSE "gone"
    BY DEF Return, Idle
  <1>2. s.fin \in BOOLEAN
    BY DEF Statuses
  <1>3. LifeKnown' /\ OwnFinalizer' /\ ReleasedSoFar'
    BY <1>1, <1>2 DEF InvFin, LifeKnown, OwnFinalizer, ReleasedSoFar
  <1>4. OneTopology'
    BY <1>1 DEF InvFin, OneTopology
  <1>5. NothingHeldWhenGone'
    BY <1>1, <1>2 DEF InvFin, LifeKnown, NothingHeldWhenGone
  <1> QED BY <1>3, <1>4, <1>5 DEF InvFin

LEMMA FinAdvance ==
  ASSUME TypeInv, InvFin, at > 0, ~mine.del, UNCHANGED <<kind, crashed, life, status, mine>>,
         at' = at + 1, now'.fin = now.fin, OnlyApiRegisters',
         ~crashed => held' \cap Topologies \subseteq {now'.topo}
  PROVE  InvFin'
  <1>1. at' > 0
    BY StepFacts
  <1>2. LifeKnown' /\ OwnFinalizer' /\ ReleasedSoFar' /\ NothingHeldWhenGone'
    BY <1>1 DEF InvFin, LifeKnown, OwnFinalizer, ReleasedSoFar, NothingHeldWhenGone
  <1>3. OneTopology'
    BY <1>1 DEF OneTopology
  <1> QED BY <1>2, <1>3 DEF InvFin

\* The steps that leave the finalizers alone.
LEMMA FinPlain ==
  ASSUME TypeInv, InvFin,
         \/ ReadInput \/ NeedInput \/ RenderConfig \/ HashInputs \/ NoteInput
         \/ RecheckNotes \/ MarkInputReady \/ ApplyServices \/ ApplyWorkload \/ CheckWorkload
  PROVE  InvFin'
  <1> DEFINE ops == {"read", "need", "render", "hash", "note", "recheck", "mark",
                     "services", "deploy", "check"}
  <1> USE DEF ReadInput, NeedInput, RenderConfig, HashInputs, NoteInput, RecheckNotes,
              MarkInputReady, ApplyServices, ApplyWorkload, CheckWorkload
  <1>1. \E op \in ops : Doing(op)
    OBVIOUS
  <1>2. at > 0 /\ ~mine.del
    BY <1>1, Undeleted
  <1>3. UNCHANGED <<kind, crashed, held>>
    BY DEF passOnly
  <1>4. OnlyApiRegisters'
    BY <1>3 DEF InvFin, OnlyApiRegisters
  <1>5. now \in Statuses /\ now.fin = TRUE
    BY <1>2, Kept DEF InvFin, OwnFinalizer, Statuses
  <1>6. CASE \E s \in Statuses, again \in BOOLEAN :
               s.topo = now.topo /\ s.fin = now.fin /\ Return(s, again)
    BY <1>2, <1>3, <1>4, <1>5, <1>6, FinReturn
  <1>7. CASE /\ at' = at + 1 /\ UNCHANGED <<life, status, mine>>
             /\ now'.fin = now.fin /\ now'.topo = now.topo
    <2> HIDE DEF ReadInput, NeedInput, RenderConfig, HashInputs, NoteInput, RecheckNotes,
                 MarkInputReady, ApplyServices, ApplyWorkload, CheckWorkload
    <2>0. at # 0
      BY <1>2
    <2>1. ~crashed => held' \cap Topologies \subseteq {now'.topo}
      BY <1>3, <1>7, <2>0 DEF InvFin, OneTopology
    <2> QED BY <1>2, <1>3, <1>4, <1>7, <2>1, FinAdvance
  <1>8. \/ \E s \in Statuses, again \in BOOLEAN :
             s.topo = now.topo /\ s.fin = now.fin /\ Return(s, again)
        \/ /\ at' = at + 1 /\ UNCHANGED <<life, status, mine>>
           /\ now'.fin = now.fin /\ now'.topo = now.topo
    <2>1. CASE HashInputs
      <3>1. CASE Return([now EXCEPT !.hash = got], FALSE)
        BY <1>2, <3>1, Kept DEF Statuses
      <3> QED BY <2>1, <3>1 DEF Advance
    <2>2. CASE CheckWorkload
      <3>1. \A how : ReadyForInput(how) \subseteq BOOLEAN
        BY DEF ReadyForInput
      <3>2. PICK ready \in BOOLEAN, again \in BOOLEAN :
              Return([now EXCEPT
                        !.ready = ready,
                        !.applied = IF ready /\ Cur.of = "readyForInput"
                                    THEN mine.cr.ann ELSE @],
                     again)
        BY <2>2, <3>1
      <3>3. mine.cr.ann \in Versions
        BY DEF TypeInv, PassType, CRs
      <3> DEFINE s == [now EXCEPT
                        !.ready = ready,
                        !.applied = IF ready /\ Cur.of = "readyForInput"
                                    THEN mine.cr.ann ELSE @]
      <3>4. s \in Statuses /\ s.topo = now.topo /\ s.fin = now.fin
        BY <1>5, <3>3 DEF Statuses
      <3>5. Return(s, again)
        BY <3>2
      <3> HIDE DEF s
      <3> QED BY <3>4, <3>5
    <2>3. CASE NoteInput \/ MarkInputReady
      BY <1>5, <2>3 DEF Advance, Statuses
    <2>4. CASE ReadInput \/ NeedInput \/ RenderConfig \/ RecheckNotes
      BY <1>5, <2>4 DEF Advance
    <2>5. CASE ApplyServices \/ ApplyWorkload
      BY <2>5 DEF Advance
    <2> QED BY <2>1, <2>2, <2>3, <2>4, <2>5
  <1> QED BY <1>6, <1>7, <1>8

LEMMA FinBegin ==
  ASSUME TypeInv, InvFin, Begin
  PROVE  InvFin'
  <1>1. at = 0 /\ life # "gone" /\ UNCHANGED <<kind, crashed, held, status>>
    BY DEF Begin
  <1>2. CASE UNCHANGED passVars
    <2>1. at' = 0 /\ (life' = life \/ life' \notin {"gone", "deleting"})
      BY <1>1, <1>2 DEF Begin, passVars
    <2> QED BY <1>1, <2>1 DEF InvFin, LifeKnown, OwnFinalizer, OneTopology, OnlyApiRegisters,
               ReleasedSoFar, NothingHeldWhenGone, Released
  <1>3. CASE ~UNCHANGED passVars
    <2>1. /\ at' = 1 /\ mine' = [cr |-> crSeen, del |-> life = "deleting"] /\ life' = life
          /\ now' = [status EXCEPT !.input = FALSE, !.ready = FALSE]
      BY <1>3 DEF Begin
    <2>2. now'.topo = status.topo /\ now'.fin = TRUE /\ status.fin = TRUE
      BY <1>1, <2>1 DEF TypeInv, PassType, Statuses, InvFin, OwnFinalizer
    <2>3. LifeKnown' /\ OwnFinalizer' /\ OnlyApiRegisters' /\ NothingHeldWhenGone'
      BY <1>1, <2>1, <2>2 DEF InvFin, LifeKnown, OwnFinalizer, OnlyApiRegisters,
         NothingHeldWhenGone
    <2>4. OneTopology'
      BY <1>1, <2>1, <2>2 DEF InvFin, OneTopology
    <2>5. ReleasedSoFar'
      <3>1. 1 .. (at' - 1) = {}
        BY <2>1
      <3> QED BY <3>1 DEF ReleasedSoFar
    <2> QED BY <2>3, <2>4, <2>5 DEF InvFin
  <1> QED BY <1>2, <1>3

LEMMA FinRegister ==
  ASSUME TypeInv, InvFin, RegisterService
  PROVE  InvFin'
  <1>1. /\ at > 0 /\ ~mine.del /\ Cur.op = "register" /\ UNCHANGED <<kind, crashed>>
        /\ Cur = Program[kind][at] /\ Sound(kind) /\ at \in 1 .. Len(Program[kind])
    BY Undeleted, StepFacts DEF RegisterService, passOnly
  <1>2. kind = "api"
    BY <1>1 DEF Sound, StepOK
  <1>3. OnlyApiRegisters'
    BY <1>1, <1>2 DEF OnlyApiRegisters
  <1>4. held' \cap Topologies \subseteq held
    BY Disjoint DEF RegisterService
  <1>5. now \in Statuses /\ now.fin = TRUE
    BY <1>1, Kept DEF InvFin, OwnFinalizer, Statuses
  <1>6. CASE Advance /\ UNCHANGED <<got, now>>
    BY <1>1, <1>3, <1>4, <1>6, FinAdvance DEF Advance, InvFin, OneTopology
  <1>7. CASE Return(now, FALSE)
    BY <1>1, <1>3, <1>4, <1>5, <1>7, FinReturn
  <1> QED BY <1>6, <1>7 DEF RegisterService

LEMMA FinTopology ==
  ASSUME TypeInv, InvFin, EnsureTopology
  PROVE  InvFin'
  <1>1. at > 0 /\ ~mine.del /\ UNCHANGED <<kind, crashed>> /\ Advance
    BY Undeleted DEF EnsureTopology, passOnly
  <1>2. now' = [now EXCEPT !.topo = mine.cr.topo]
    BY DEF EnsureTopology
  <1>3. now'.topo = mine.cr.topo /\ now'.fin = now.fin
    BY <1>1, <1>2, Kept DEF Statuses
  <1>4. held' = (held \ {now.topo}) \cup ({mine.cr.topo} \ {NoTopology})
    BY DEF EnsureTopology
  <1>5. mine.cr.topo \in Topologies \cup {NoTopology}
    BY DEF TypeInv, PassType, CRs
  <1>6. OnlyApiRegisters'
    BY <1>1, <1>4, <1>5, Disjoint DEF InvFin, OnlyApiRegisters
  <1>7. ~crashed => held' \cap Topologies \subseteq {now'.topo}
    BY <1>1, <1>3, <1>4 DEF InvFin, OneTopology
  <1> QED BY <1>1, <1>3, <1>6, <1>7, FinAdvance DEF Advance

LEMMA FinRelease ==
  ASSUME TypeInv, InvFin, ReleaseHeld
  PROVE  InvFin'
  <1> DEFINE x == Cur.of
             after == IF x = Self THEN [now EXCEPT !.fin = FALSE] ELSE now
  <1>1. at > 0 /\ Cur.op = "release" /\ UNCHANGED <<kind, crashed>>
    BY DEF ReleaseHeld, Doing, Cur, passOnly
  <1>2. mine.del
    <2>1. CASE ~mine.del
      <3>1. PICK h : StepOK(Cur, kind, at, h)
        BY <1>1, <2>1, StepFacts DEF Sound
      <3> QED BY <1>1, <3>1 DEF StepOK
    <2> QED BY <2>1
  <1>3. /\ Steps = Cleanup[kind] /\ CleanupOK(kind) /\ Cur = Cleanup[kind][at]
        /\ at \in 1 .. Len(Cleanup[kind])
    BY <1>1, <1>2, StepFacts DEF Cur
  <1>4. after \in Statuses /\ after.topo = now.topo
    BY <1>1, Kept DEF Statuses
  <1>5. held' = held \ {IF x = "topology" THEN now.topo ELSE x}
    BY DEF ReleaseHeld
  <1>6. OnlyApiRegisters' /\ held' \subseteq held
    BY <1>1, <1>5 DEF InvFin, OnlyApiRegisters
  <1>7. ~crashed => Released(x, held')
    BY <1>1, <1>5 DEF InvFin, OneTopology, Released
  <1>8. ~crashed => \A n \in 1 .. at : Released(Cleanup[kind][n].of, held')
    <2>1. ASSUME NEW n \in 1 .. at PROVE n \in 1 .. (at - 1) \/ n = at
      BY <1>3, <1>1
    <2>2. ASSUME ~crashed, NEW n \in 1 .. (at - 1)
          PROVE  Released(Cleanup[kind][n].of, held')
      BY <1>1, <1>2, <1>6, <2>2 DEF InvFin, ReleasedSoFar, Released
    <2> QED BY <1>1, <1>3, <1>7, <2>1, <2>2
  <1>9. x = Self <=> (IF kind = "unbound" THEN at = 1 ELSE at = Len(Cleanup[kind]))
    <2>1. CASE kind = "api"
      <3>1. at \in {1, 2, 3, 4} /\ Len(Cleanup[kind]) = 4
        BY <1>3, <2>1 DEF CleanupOK
      <3> QED BY <1>3, <2>1, <3>1 DEF CleanupOK, Self
    <2>2. CASE kind # "api"
      <3>1. at \in {1, 2} /\ Len(Cleanup[kind]) = 2
        BY <1>3, <2>2 DEF CleanupOK
      <3> QED BY <1>3, <2>2, <3>1 DEF CleanupOK, Self
    <2> QED BY <2>1, <2>2
  <1>10. Len(Cleanup[kind]) \in {2, 4} /\ (kind = "unbound" => Len(Cleanup[kind]) = 2)
    BY <1>3 DEF CleanupOK
  <1>11. /\ \/ at < Len(Steps) /\ now' = after /\ Advance
            \/ at = Len(Steps) /\ Return(after, FALSE)
         /\ after = after
    BY DEF ReleaseHeld
  <1>12. after.fin = IF x = Self THEN FALSE ELSE now.fin
    BY <1>1, Kept DEF Statuses
  <1> HIDE DEF after
  <1>13. CASE at < Len(Steps) /\ now' = after /\ Advance
    <2>1. at' = at + 1 /\ at' > 0 /\ UNCHANGED <<life, status, mine>>
      BY <1>1, <1>3, <1>13 DEF Advance
    <2>2. LifeKnown' /\ NothingHeldWhenGone'
      BY <1>1, <1>6, <2>1 DEF InvFin, LifeKnown, NothingHeldWhenGone
    <2>3. OwnFinalizer'
      <3>1. status'.fin = FALSE => life' = "gone"
        BY <2>1 DEF InvFin, OwnFinalizer
      <3>2. now'.fin = FALSE => kind = "unbound" /\ at = 1
        <4> HIDE DEF x
        <4>1. at # Len(Cleanup[kind])
          BY <1>3, <1>10, <1>13
        <4>2. CASE x = Self
          BY <1>9, <4>1, <4>2
        <4>3. CASE x # Self
          <5>1. now'.fin = now.fin
            BY <1>12, <1>13, <4>3
          <5> QED BY <1>1, <1>10, <4>1, <5>1 DEF InvFin, OwnFinalizer
        <4> QED BY <4>2, <4>3
      <3> QED BY <1>1, <1>2, <2>1, <3>1, <3>2 DEF OwnFinalizer
    <2>4. OneTopology'
      BY <1>1, <1>4, <1>6, <1>13, <2>1 DEF InvFin, OneTopology
    <2>5. ReleasedSoFar'
      <3>1. \A n \in 1 .. (at' - 1) : n \in 1 .. at
        BY <1>3, <2>1
      <3> QED BY <1>1, <1>8, <2>1, <3>1 DEF ReleasedSoFar
    <2> QED BY <1>6, <2>2, <2>3, <2>4, <2>5 DEF InvFin
  <1>14. CASE at = Len(Steps) /\ Return(after, FALSE)
    <2>1. ~crashed => held' = {}
      <3> SUFFICES ASSUME ~crashed PROVE held' = {}
        OBVIOUS
      <3>0. held' \subseteq Topologies \cup {"service", "endpoint"}
        BY <1>1, <1>6, Kept
      <3>1. CASE kind = "api"
        <4>1. at = 4
          BY <1>3, <1>14, <3>1 DEF CleanupOK
        <4>2. 1 \in 1 .. at /\ 2 \in 1 .. at /\ 3 \in 1 .. at
          BY <4>1
        <4>3. /\ Cleanup[kind][1].of = "endpoint" /\ Cleanup[kind][2].of = "service"
              /\ Cleanup[kind][3].of = "topology"
          BY <1>3, <3>1 DEF CleanupOK
        <4>4. /\ Released("endpoint", held') /\ Released("service", held')
              /\ Released("topology", held')
          BY <1>8, <4>2, <4>3
        <4> QED BY <3>0, <4>4 DEF Released
      <3>2. CASE kind # "api"
        <4>1. at = 2
          BY <1>3, <1>14, <3>2 DEF CleanupOK
        <4>2. 1 \in 1 .. at /\ 2 \in 1 .. at
          BY <4>1
        <4>3. Cleanup[kind][1].of = "topology" \/ Cleanup[kind][2].of = "topology"
          BY <1>3, <3>2 DEF CleanupOK
        <4>4. Released("topology", held')
          BY <1>8, <4>2, <4>3
        <4>5. held' \cap {"service", "endpoint"} = {}
          BY <1>1, <1>6, <3>2 DEF OnlyApiRegisters
        <4> QED BY <3>0, <4>4, <4>5 DEF Released
      <3> QED BY <3>1, <3>2
    <2> QED BY <1>1, <1>4, <1>6, <1>14, <2>1, FinReturn
  <1> QED BY <1>11, <1>13, <1>14

LEMMA FinFails ==
  ASSUME OwnFinalizerLast, TypeInv, InvFin, StepFails
  PROVE  InvFin'
  <1>1. at > 0 /\ kind \in Kinds /\ UNCHANGED <<kind, crashed>> /\ Return(now, TRUE)
    BY DEF StepFails, Doing, TypeInv, WorldType
  <1>2. held' \subseteq held
    BY DEF StepFails
  <1>3. now \in Statuses /\ now.fin \in BOOLEAN
    BY <1>1, Kept DEF Statuses
  <1>4. now.fin = TRUE
    <2> SUFFICES ASSUME now.fin = FALSE PROVE FALSE
      BY <1>3
    <2>1. kind = "unbound" /\ kind \in Deletes
      BY <1>1 DEF InvFin, OwnFinalizer, LifeKnown
    <2>2. MaxFaults[kind] = 0
      BY <2>1 DEF OwnFinalizerLast
    <2> QED BY <2>2 DEF StepFails, TypeInv, WorldType
  <1>5. OnlyApiRegisters'
    BY <1>1, <1>2 DEF InvFin, OnlyApiRegisters
  <1> QED BY <1>1, <1>2, <1>3, <1>4, <1>5, FinReturn

LEMMA FinCrash ==
  ASSUME TypeInv, InvFin, Crash
  PROVE  InvFin'
  <1>1. /\ at' = 0 /\ life # "gone" /\ UNCHANGED <<kind, life, held, status>>
        /\ crashed' = (crashed \/ (at > 0 /\ now.topo # status.topo))
    BY DEF Crash, Idle, worldVars
  <1>2. at = 0 \/ at > 0
    <2>1. at = 0 \/ at \in Nat
      BY StepFacts DEF TypeInv, PassType
    <2> QED BY <2>1
  <1>3. OneTopology'
    BY <1>1, <1>2 DEF InvFin, OneTopology
  <1>4. LifeKnown' /\ OwnFinalizer' /\ OnlyApiRegisters' /\ ReleasedSoFar'
        /\ NothingHeldWhenGone'
    BY <1>1 DEF InvFin, LifeKnown, OwnFinalizer, OnlyApiRegisters, ReleasedSoFar,
       NothingHeldWhenGone
  <1> QED BY <1>3, <1>4 DEF InvFin

LEMMA FinOutside ==
  ASSUME TypeInv, InvFin,
         \/ UNCHANGED vars
         \/ RetryDue \/ DeliverCR \/ ParentStamp \/ EditSpec \/ DeleteCR \/ KeystoneRegisters
         \/ \E b \in Buses : ParentRender(b)
         \/ \E i \in Inputs(kind) : Change(i) \/ Appear(i) \/ Deliver(i)
         \/ \E p \in Pods : PodStart(p) \/ PodStop(p)
  PROVE  InvFin'
  <1>1. UNCHANGED <<kind, passVars, status, held, crashed>>
    BY DEF vars, worldVars, RetryDue, DeliverCR, ParentStamp, EditSpec, DeleteCR,
           KeystoneRegisters, ParentRender, Change, Appear, Deliver, PodStart, PodStop
  <1>2. \/ life' = life
        \/ kind \in Deletes /\ life = "live" /\ life' = "deleting"
    BY DEF vars, worldVars, RetryDue, DeliverCR, ParentStamp, EditSpec, DeleteCR,
           KeystoneRegisters, ParentRender, Change, Appear, Deliver, PodStart, PodStop
  <1> QED BY <1>1, <1>2 DEF passVars, InvFin, LifeKnown, OwnFinalizer, OneTopology,
             OnlyApiRegisters, ReleasedSoFar, Released, NothingHeldWhenGone

LEMMA FinStep ==
  ASSUME OwnFinalizerLast, TypeInv, InvFin, [Next]_vars
  PROVE  InvFin'
  <1>1. CASE Pass
    BY <1>1, FinBegin, FinPlain, FinRegister, FinTopology, FinRelease DEF Pass
  <1>2. CASE StepFails \/ Crash
    BY <1>2, FinFails, FinCrash
  <1> QED BY <1>1, <1>2, FinOutside DEF Next

\* A CR leaves its finalizer on the Topology its status names and on no other,
\* and on nothing once it is gone, for every controller, any number of
\* Topologies, edits, failed writes and restarts: except that a write of
\* Unbound's reconcileDelete must not fail, because it gives up its own
\* finalizer first.
THEOREM FinalizersReleased == OwnFinalizerLast /\ Spec => []FinalizersAccounted
  <1> SUFFICES ASSUME OwnFinalizerLast PROVE Spec => []FinalizersAccounted
    OBVIOUS
  <1>1. Init => TypeInv /\ InvFin
    BY InitType, FinInit
  <1>2. TypeInv /\ InvFin /\ [Next]_vars => TypeInv' /\ InvFin'
    BY TypeStep, FinStep
  <1>3. InvFin => FinalizersAccounted
    BY DEF InvFin, OneTopology, NothingHeldWhenGone, FinalizersAccounted
  <1> QED BY <1>1, <1>2, <1>3, PTL DEF Spec

----------------------------------------------------------------------------
(* The controllers implement InputHandshake.                                *)

\* Only credentials that the controller reads itself are rotated.
ReadsRotated ==
  \A k \in Kinds : /\ Rotations[k] \subseteq {"transport"}
                   /\ Rotations[k] # {} => "transport" \in Hashed(k)

\* A CR that asks for a new input hash also names the new Secret.
Settled(c) ==
  c.ann >= 1 /\ IF "transport" \in Hashed(kind) THEN c.bus = c.ann ELSE c.ann = 1

\* What is asked, what the cache shows and what is confirmed follow each
\* other, and the config Secret is written before anything is asked.
AskOrder ==
  /\ status.applied <= crSeen.ann /\ crSeen.ann <= cr.ann
  /\ cr.ann <= want.ann /\ want.ann <= stamp
  /\ Settled(want) /\ Settled(cr) /\ Settled(crSeen)
  /\ "config" \in Inputs(kind) /\ ver["config"] # 0 => ver["config"] >= want.ann

AskPass ==
  at > 0 => /\ Settled(mine.cr) /\ now.applied = status.applied
            /\ status.applied <= mine.cr.ann /\ mine.cr.ann <= crSeen.ann

\* The Secret named by the CR goes into the hash, the hash into the workload.
AskGot ==
  at > 0 /\ ~mine.del =>
    /\ "transport" \in Hashed(kind) =>
         /\ got.read["transport"] \in {0, mine.cr.bus}
         /\ \A n \in 1 .. (at - 1) :
              Program[kind][n].op = "read" /\ Program[kind][n].of = "transport" =>
                got.read["transport"] = mine.cr.bus
    /\ \A n \in 1 .. (at - 1) : Program[kind][n].op = "deploy" => tmpl.hash = got

AskTemplate ==
  "transport" \in Hashed(kind) /\ tmpl # NoTmpl =>
    tmpl.hash.read["transport"] \in 0 .. cr.ann

\* A pod has loaded a config Secret at least as new as what its template was
\* made for.
AskPods ==
  \A p \in Pods : Up(p) /\ "config" \in Mounts[kind] =>
    /\ pods[p].loads["config"] \in Nat \ {0}
    /\ "transport" \in Hashed(kind) =>
         /\ pods[p].tmpl.hash.read["transport"] \in Nat
         /\ pods[p].tmpl.hash.read["transport"] <= pods[p].loads["config"]

InvAsk == AskOrder /\ AskPass /\ AskGot /\ AskTemplate /\ AskPods

LEMMA AnnNat ==
  ASSUME TypeInv
  PROVE  /\ cr.ann \in Nat /\ want.ann \in Nat /\ crSeen.ann \in Nat /\ mine.cr.ann \in Nat
         /\ cr.bus \in Nat /\ want.bus \in Nat /\ crSeen.bus \in Nat /\ mine.cr.bus \in Nat
         /\ stamp \in Nat /\ status.applied \in Nat /\ now.applied \in Nat
         /\ \A i \in Inputs(kind) : ver[i] \in Nat
  <1>1. \A v \in Versions : v \in Nat
    BY VersionsFacts DEF TypeInv, WorldType
  <1>2. \A c \in CRs : c.ann \in Nat /\ c.bus \in Nat
    BY <1>1 DEF CRs
  <1>3. \A s \in Statuses : s.applied \in Nat
    BY <1>1 DEF Statuses
  <1>4. mine.cr \in CRs
    BY DEF TypeInv, PassType
  <1> QED BY <1>1, <1>2, <1>3, <1>4 DEF TypeInv, WorldType, PassType

LEMMA AskInit == Init => InvAsk
  <1> SUFFICES ASSUME Init PROVE InvAsk
    OBVIOUS
  <1>1. AskOrder
    BY DEF Init, NoStatus, AskOrder, Settled
  <1>2. AskPass /\ AskGot
    BY DEF Init, AskPass, AskGot
  <1>3. AskTemplate /\ AskPods
    BY DEF Init, AskTemplate, AskPods, Up
  <1> QED BY <1>1, <1>2, <1>3 DEF InvAsk

LEMMA AskReturn ==
  ASSUME TypeInv, InvAsk, at > 0, UNCHANGED <<kind, ver, want, cr, crSeen, stamp, pods, tmpl>>,
         NEW s, NEW again, Return(s, again), s.applied \in {now.applied, mine.cr.ann}
  PROVE  InvAsk'
  <1>1. at' = 0 /\ status' = s
    BY DEF Return, Idle
  <1>2. s.applied <= crSeen.ann
    BY AnnNat DEF InvAsk, AskOrder, AskPass
  <1>3. AskOrder'
    BY <1>1, <1>2 DEF InvAsk, AskOrder, Settled
  <1>4. AskPass' /\ AskGot' /\ AskTemplate' /\ AskPods'
    BY <1>1 DEF InvAsk, AskPass, AskGot, AskTemplate, AskPods, Up
  <1> QED BY <1>3, <1>4 DEF InvAsk

LEMMA AskAdvance ==
  ASSUME TypeInv, InvAsk, at > 0, UNCHANGED <<kind, ver, want, cr, crSeen, stamp, pods>>,
         UNCHANGED <<status, mine>>, at' = at + 1, now'.applied = now.applied, AskGot',
         AskTemplate'
  PROVE  InvAsk'
  <1>1. AskOrder' /\ AskPods'
    BY DEF InvAsk, AskOrder, Settled, AskPods, Up
  <1>2. AskPass'
    BY DEF InvAsk, AskPass, Settled
  <1> QED BY <1>1, <1>2 DEF InvAsk

\* Steps after which the reconcile knows and has deployed what it did before.
LEMMA AskSame ==
  ASSUME TypeInv, InvAsk, at > 0, UNCHANGED <<kind, ver, want, cr, crSeen, stamp, pods, tmpl>>,
         UNCHANGED <<status, mine, got>>, at' = at + 1, now'.applied = now.applied,
         ~mine.del => Cur.op \notin {"read", "deploy"}
  PROVE  InvAsk'
  <1>1. AskTemplate'
    BY DEF InvAsk, AskTemplate
  <1>2. AskGot'
    <2>1. CASE mine.del
      BY <2>1 DEF AskGot
    <2>2. CASE ~mine.del
      <3>1. Cur = Program[kind][at]
        BY <2>2, StepFacts
      <3> QED BY <2>2, <3>1, SoFar DEF InvAsk, AskGot
    <2> QED BY <2>1, <2>2
  <1> QED BY <1>1, <1>2, AskAdvance

\* A step before the hash: nothing is deployed yet.
LEMMA NotDeployed ==
  ASSUME TypeInv, at > 0, ~mine.del, Cur.op \in {"read", "render"},
         at' = at + 1, mine' = mine, kind' = kind
  PROVE  \A n \in 1 .. (at' - 1) : Program[kind][n].op # "deploy"
  <1>1. Cur = Program[kind][at] /\ Sound(kind) /\ at \in 1 .. Len(Program[kind])
    BY StepFacts
  <1>2. PICK h \in 1 .. Len(Program[kind]) : \A n \in 1 .. Len(Program[kind]) :
          StepOK(Program[kind][n], kind, n, h)
    BY <1>1 DEF Sound
  <1>3. at < h
    BY <1>1, <1>2 DEF StepOK
  <1> SUFFICES ASSUME NEW n \in 1 .. (at' - 1), Program[kind][n].op = "deploy" PROVE FALSE
    OBVIOUS
  <1>4. n \in 1 .. Len(Program[kind]) /\ n <= at
    BY <1>1, SoFar
  <1>5. h < n
    BY <1>2, <1>4 DEF StepOK
  <1> QED BY <1>1, <1>2, <1>3, <1>4, <1>5

LEMMA AskBegin ==
  ASSUME TypeInv, InvAsk, Begin
  PROVE  InvAsk'
  <1>1. UNCHANGED <<kind, ver, want, cr, crSeen, stamp, pods, tmpl, status>>
    BY DEF Begin, cacheVars
  <1>2. AskOrder' /\ AskTemplate' /\ AskPods'
    BY <1>1 DEF InvAsk, AskOrder, Settled, AskTemplate, AskPods, Up
  <1>3. CASE UNCHANGED passVars
    <2>1. AskPass' /\ AskGot'
      BY <1>1, <1>3 DEF passVars, InvAsk, AskPass, AskGot, Settled
    <2> QED BY <1>2, <2>1 DEF InvAsk
  <1>4. CASE ~UNCHANGED passVars
    <2>1. /\ at' = 1 /\ mine' = [cr |-> crSeen, del |-> life = "deleting"]
          /\ got' = [read |-> Zero(Hashed(kind)), own |-> Zero({})]
          /\ now' = [status EXCEPT !.input = FALSE, !.ready = FALSE]
      BY <1>4 DEF Begin
    <2>2. mine'.cr = crSeen /\ now'.applied = status.applied
      BY <2>1 DEF TypeInv, PassType, Statuses
    <2>3. AskPass'
      BY <1>1, <2>1, <2>2, AnnNat DEF InvAsk, AskOrder, AskPass, Settled
    <2>4. AskGot'
      <3>1. 1 .. (at' - 1) = {}
        BY <2>1
      <3>2. "transport" \in Hashed(kind) => got'.read["transport"] = 0
        BY <2>1 DEF Zero
      <3> QED BY <1>1, <3>1, <3>2 DEF AskGot
    <2> QED BY <1>2, <2>3, <2>4 DEF InvAsk
  <1> QED BY <1>3, <1>4

LEMMA AskRead ==
  ASSUME TypeInv, InvAsk, ReadInput
  PROVE  InvAsk'
  <1>1. /\ at > 0 /\ ~mine.del /\ Cur.op = "read" /\ Cur.of \in Hashed(kind)
        /\ Cur = Program[kind][at]
    BY Undeleted, CurOf, StepFacts DEF ReadInput
  <1>2. UNCHANGED <<kind, ver, want, cr, crSeen, stamp, pods, tmpl>>
    BY DEF ReadInput, passOnly, cacheVars
  <1>3. CASE Return(now, Cur.miss # "return")
    BY <1>1, <1>2, <1>3, AskReturn
  <1>4. CASE Advance /\ got' = [got EXCEPT !.read[Cur.of] = Value(Cur.of)] /\ UNCHANGED now
    <2>0. at' = at + 1 /\ mine' = mine /\ status' = status
      BY <1>4 DEF Advance
    <2>1. \A i \in Hashed(kind) :
            got'.read[i] = IF i = Cur.of THEN Value(Cur.of) ELSE got.read[i]
      BY <1>1, <1>4, Kept DEF Hashes
    <2>2. Value("transport") = mine.cr.bus
      BY DEF Value
    <2>3. "transport" \in Hashed(kind) =>
            /\ got'.read["transport"] \in {0, mine.cr.bus}
            /\ \A n \in 1 .. (at' - 1) :
                 Program[kind][n].op = "read" /\ Program[kind][n].of = "transport" =>
                   got'.read["transport"] = mine.cr.bus
      BY <1>1, <1>2, <2>0, <2>1, <2>2, SoFar DEF InvAsk, AskGot
    <2>4. AskGot'
      BY <1>1, <1>2, <2>0, <2>3, NotDeployed DEF AskGot
    <2>5. AskTemplate'
      BY <1>2 DEF InvAsk, AskTemplate
    <2> QED BY <1>1, <1>2, <1>4, <2>0, <2>4, <2>5, AskAdvance
  <1> QED BY <1>3, <1>4 DEF ReadInput

LEMMA AskRender ==
  ASSUME TypeInv, InvAsk, RenderConfig
  PROVE  InvAsk'
  <1>1. /\ at > 0 /\ ~mine.del /\ Cur.op = "render" /\ Cur = Program[kind][at]
    BY Undeleted, StepFacts DEF RenderConfig
  <1>2. UNCHANGED <<kind, ver, want, cr, crSeen, stamp, pods, tmpl>>
    BY DEF RenderConfig, passOnly, cacheVars
  <1>3. CASE Return(now, TRUE)
    BY <1>1, <1>2, <1>3, AskReturn
  <1>4. CASE Advance
    <2>0. at' = at + 1 /\ mine' = mine /\ status' = status
      BY <1>4 DEF Advance
    <2>1. at' # 0
      BY <1>1, <2>0, StepFacts
    <2>2. now' = now
      BY <2>1 DEF RenderConfig, Return, Idle
    <2>3. got'.read = got.read
      BY <1>1, <2>1, Kept DEF RenderConfig, Return, Idle, Hashes
    <2>4. AskGot'
      BY <1>1, <1>2, <2>0, <2>3, SoFar, NotDeployed DEF InvAsk, AskGot
    <2>5. AskTemplate'
      BY <1>2 DEF InvAsk, AskTemplate
    <2> QED BY <1>1, <1>2, <2>0, <2>2, <2>4, <2>5, AskAdvance
  <1> QED BY <1>3, <1>4 DEF RenderConfig

LEMMA AskDeploy ==
  ASSUME TypeInv, InvAsk, ApplyWorkload
  PROVE  InvAsk'
  <1>1. /\ at > 0 /\ ~mine.del /\ Cur.op = "deploy" /\ Cur = Program[kind][at] /\ Sound(kind)
        /\ at \in 1 .. Len(Program[kind])
    BY Undeleted, StepFacts DEF ApplyWorkload
  <1>2. UNCHANGED <<kind, ver, want, cr, crSeen, stamp, pods, status, mine, got, now>>
    BY DEF ApplyWorkload, passOnly, cacheVars
  <1>3. at' = at + 1 /\ tmpl' = [hash |-> got, topo |-> mine.cr.topo]
    BY DEF ApplyWorkload
  <1>4. AskGot'
    BY <1>1, <1>2, <1>3, SoFar DEF InvAsk, AskGot
  <1>5. AskTemplate'
    <2> SUFFICES ASSUME "transport" \in Hashed(kind)
                 PROVE  got.read["transport"] \in 0 .. cr.ann
      BY <1>2, <1>3 DEF AskTemplate
    <2>1. got.read["transport"] \in {0, mine.cr.bus}
      BY <1>1 DEF InvAsk, AskGot
    <2>2. mine.cr.bus = mine.cr.ann /\ mine.cr.ann <= cr.ann
      BY <1>1, AnnNat DEF InvAsk, AskOrder, AskPass, Settled
    <2> QED BY <2>1, <2>2, AnnNat
  <1> QED BY <1>1, <1>2, <1>3, <1>4, <1>5, AskAdvance

LEMMA AskPlain ==
  ASSUME TypeInv, InvAsk,
         \/ NeedInput \/ NoteInput \/ RecheckNotes \/ MarkInputReady \/ ApplyServices
         \/ RegisterService \/ EnsureTopology \/ HashInputs
  PROVE  InvAsk'
  <1> DEFINE ops == {"need", "note", "recheck", "mark", "services", "register", "topology",
                     "hash"}
  <1>1. \E op \in ops : Doing(op)
    BY DEF NeedInput, NoteInput, RecheckNotes, MarkInputReady, ApplyServices,
           RegisterService, EnsureTopology, HashInputs
  <1>2. at > 0 /\ ~mine.del /\ Cur.op \in ops
    BY <1>1, Undeleted
  <1>3. UNCHANGED <<kind, ver, want, cr, crSeen, stamp, pods, tmpl>>
    BY DEF NeedInput, NoteInput, RecheckNotes, MarkInputReady, ApplyServices,
           RegisterService, EnsureTopology, HashInputs, passOnly, cacheVars
  <1>4. CASE \E again : Return(now, again) \/ Return([now EXCEPT !.hash = got], again)
    <2>1. [now EXCEPT !.hash = got].applied = now.applied
      BY <1>2, Kept DEF Statuses
    <2> QED BY <1>2, <1>3, <1>4, <2>1, AskReturn
  <1>5. CASE ~(\E again : Return(now, again) \/ Return([now EXCEPT !.hash = got], again))
    <2>1. at' = at + 1 /\ mine' = mine /\ status' = status /\ got' = got
      BY <1>5 DEF NeedInput, NoteInput, RecheckNotes, MarkInputReady, ApplyServices,
           RegisterService, EnsureTopology, HashInputs, Advance
    <2>2. \/ now' = now
          \/ now' = [now EXCEPT !.notes[Cur.of] = Value(Cur.of)]
          \/ now' = [now EXCEPT !.input = TRUE]
          \/ now' = [now EXCEPT !.topo = mine.cr.topo]
      BY <1>5 DEF NeedInput, NoteInput, RecheckNotes, MarkInputReady, ApplyServices,
           RegisterService, EnsureTopology, HashInputs
    <2>3. now'.applied = now.applied
      BY <1>2, <2>2, Kept DEF Statuses
    <2> QED BY <1>2, <1>3, <2>1, <2>3, AskSame
  <1> QED BY <1>4, <1>5

LEMMA AskRelease ==
  ASSUME TypeInv, InvAsk, ReleaseHeld
  PROVE  InvAsk'
  <1> DEFINE after == IF Cur.of = Self THEN [now EXCEPT !.fin = FALSE] ELSE now
  <1>1. at > 0 /\ Cur.op = "release"
    BY DEF ReleaseHeld, Doing, Cur
  <1>2. UNCHANGED <<kind, ver, want, cr, crSeen, stamp, pods, tmpl>>
    BY DEF ReleaseHeld, passOnly, cacheVars
  <1>3. after.applied = now.applied
    BY <1>1, Kept DEF Statuses
  <1>4. \/ now' = after /\ Advance /\ UNCHANGED got
        \/ Return(after, FALSE)
    BY DEF ReleaseHeld
  <1> HIDE DEF after
  <1>5. CASE now' = after /\ Advance /\ UNCHANGED got
    BY <1>1, <1>2, <1>3, <1>5, AskSame DEF Advance
  <1>6. CASE Return(after, FALSE)
    BY <1>1, <1>2, <1>3, <1>6, AskReturn
  <1> QED BY <1>4, <1>5, <1>6

\* The check of the workload leaves everything but the status.
LEMMA CheckFacts ==
  ASSUME TypeInv, CheckWorkload
  PROVE  /\ at > 0 /\ ~mine.del /\ Cur.op = "check" /\ Cur = Program[kind][at] /\ Sound(kind)
         /\ at \in 1 .. Len(Program[kind])
         /\ UNCHANGED <<kind, ver, want, cr, crSeen, stamp, pods, tmpl>>
         /\ \E ready \in BOOLEAN, again \in BOOLEAN, s \in Statuses :
              /\ Return(s, again)
              /\ s.applied = IF ready /\ Cur.of = "readyForInput" THEN mine.cr.ann
                             ELSE now.applied
              /\ ready /\ Cur.of = "readyForInput" =>
                   \A p \in Pods : Up(p) /\ pods[p].tmpl = tmpl
  <1>1. /\ at > 0 /\ ~mine.del /\ Cur.op = "check" /\ Cur = Program[kind][at] /\ Sound(kind)
        /\ at \in 1 .. Len(Program[kind])
    BY Undeleted, StepFacts DEF CheckWorkload
  <1>2. UNCHANGED <<kind, ver, want, cr, crSeen, stamp, pods, tmpl>>
    BY DEF CheckWorkload, passOnly, cacheVars
  <1>3. \A how : ReadyForInput(how) \subseteq BOOLEAN
    BY DEF ReadyForInput
  <1>4. PICK ready \in ReadyForInput(Cur.of), again \in BOOLEAN :
          Return([now EXCEPT
                    !.ready = ready,
                    !.applied = IF ready /\ Cur.of = "readyForInput" THEN mine.cr.ann ELSE @],
                 again)
    BY DEF CheckWorkload
  <1> DEFINE s == [now EXCEPT
                    !.ready = ready,
                    !.applied = IF ready /\ Cur.of = "readyForInput" THEN mine.cr.ann ELSE @]
  <1>5. mine.cr.ann \in Versions
    BY DEF TypeInv, PassType, CRs
  <1>6. /\ s \in Statuses
        /\ s.applied = IF ready /\ Cur.of = "readyForInput" THEN mine.cr.ann ELSE now.applied
    BY <1>1, <1>3, <1>5, Kept DEF Statuses
  <1>7. ready /\ Cur.of = "readyForInput" => \A p \in Pods : Up(p) /\ pods[p].tmpl = tmpl
    BY <1>4 DEF ReadyForInput
  <1>8. Return(s, again) /\ ready \in BOOLEAN
    BY <1>3, <1>4
  <1> HIDE DEF s
  <1> QED BY <1>1, <1>2, <1>6, <1>7, <1>8

LEMMA AskCheck ==
  ASSUME TypeInv, InvAsk, CheckWorkload
  PROVE  InvAsk'
  <1>1. PICK ready \in BOOLEAN, again \in BOOLEAN, s \in Statuses :
          /\ Return(s, again)
          /\ s.applied = IF ready /\ Cur.of = "readyForInput" THEN mine.cr.ann ELSE now.applied
    BY CheckFacts
  <1>2. s.applied \in {now.applied, mine.cr.ann}
    BY <1>1
  <1>3. at > 0 /\ UNCHANGED <<kind, ver, want, cr, crSeen, stamp, pods, tmpl>>
    BY CheckFacts
  <1> QED BY <1>1, <1>2, <1>3, AskReturn

LEMMA AskFails ==
  ASSUME TypeInv, InvAsk, StepFails \/ Crash
  PROVE  InvAsk'
  <1>1. CASE StepFails
    <2>1. /\ at > 0 /\ Return(now, TRUE)
          /\ UNCHANGED <<kind, ver, want, cr, crSeen, stamp, pods, tmpl>>
      BY <1>1 DEF StepFails, Doing, cacheVars
    <2> QED BY <2>1, AskReturn
  <1>2. CASE Crash
    <2>1. /\ at' = 0 /\ crSeen' = cr
          /\ UNCHANGED <<kind, ver, want, cr, stamp, pods, tmpl, status>>
      BY <1>2 DEF Crash, Idle, worldVars
    <2>2. AskOrder'
      BY <2>1, AnnNat DEF InvAsk, AskOrder, Settled
    <2>3. AskPass' /\ AskGot' /\ AskTemplate' /\ AskPods'
      BY <2>1 DEF InvAsk, AskPass, AskGot, AskTemplate, AskPods, Up
    <2> QED BY <2>2, <2>3 DEF InvAsk
  <1> QED BY <1>1, <1>2

\* Steps outside the reconcile that leave the workload.
LEMMA AskOutside ==
  ASSUME TypeInv, InvAsk, UNCHANGED <<kind, passVars, status, tmpl, pods>>,
         AskOrder', cr.ann <= cr'.ann, cr'.ann \in Nat, crSeen.ann <= crSeen'.ann,
         crSeen'.ann \in Nat
  PROVE  InvAsk'
  <1>1. AskPods'
    BY DEF InvAsk, AskPods, Up
  <1>2. AskTemplate'
    BY AnnNat DEF InvAsk, AskTemplate
  <1>3. AskPass'
    BY AnnNat DEF passVars, InvAsk, AskPass, Settled
  <1>4. AskGot'
    BY DEF passVars, InvAsk, AskGot
  <1> QED BY <1>1, <1>2, <1>3, <1>4 DEF InvAsk

LEMMA AskWorld ==
  ASSUME ReadsRotated, TypeInv, InvAsk,
         \/ RetryDue \/ DeliverCR \/ ParentStamp \/ EditSpec \/ DeleteCR \/ KeystoneRegisters
         \/ \E b \in Buses : ParentRender(b)
         \/ \E i \in Inputs(kind) : Change(i) \/ Appear(i) \/ Deliver(i)
  PROVE  InvAsk'
  <1> USE DEF worldVars, cacheVars
  <1>0. UNCHANGED <<kind, passVars, status, tmpl, pods>>
    BY DEF RetryDue, DeliverCR, ParentStamp, EditSpec, DeleteCR, KeystoneRegisters,
           ParentRender, Change, Appear, Deliver
  <1>1. CASE \/ RetryDue \/ DeleteCR \/ KeystoneRegisters
             \/ \E i \in Inputs(kind) : Deliver(i)
    <2>1. UNCHANGED <<ver, want, cr, crSeen, stamp>>
      BY <1>1 DEF RetryDue, DeleteCR, KeystoneRegisters, Deliver
    <2>2. AskOrder'
      BY <1>0, <2>1 DEF InvAsk, AskOrder, Settled
    <2> QED BY <1>0, <2>1, <2>2, AnnNat, AskOutside
  <1>2. CASE DeliverCR \/ ParentStamp
    <2>1. \/ crSeen' = cr /\ UNCHANGED <<ver, want, cr, stamp>>
          \/ cr' = want /\ UNCHANGED <<ver, want, crSeen, stamp>>
      BY <1>2 DEF DeliverCR, ParentStamp
    <2>2. AskOrder'
      BY <1>0, <2>1, AnnNat DEF InvAsk, AskOrder, Settled
    <2> QED BY <1>0, <2>1, <2>2, AnnNat, AskOutside DEF InvAsk, AskOrder
  <1>3. CASE EditSpec
    <2>1. /\ UNCHANGED <<ver, cr, crSeen>> /\ stamp' = stamp + 1
          /\ \/ want' = [want EXCEPT !.spec = stamp']
             \/ \E t : want' = [want EXCEPT !.topo = t]
      BY <1>3 DEF EditSpec, Edit
    <2>2. want'.ann = want.ann /\ want'.bus = want.bus
      BY <2>1 DEF TypeInv, WorldType, CRs
    <2>3. AskOrder'
      BY <1>0, <2>1, <2>2, AnnNat DEF InvAsk, AskOrder, Settled
    <2> QED BY <1>0, <2>1, <2>3, AnnNat, AskOutside
  <1>4. ASSUME NEW b \in Buses, ParentRender(b) PROVE InvAsk'
    <2>0. b = "transport" /\ "transport" \in Hashed(kind)
      BY <1>4 DEF ReadsRotated, ParentRender, TypeInv, WorldType
    <2>1. /\ UNCHANGED <<cr, crSeen>> /\ stamp' = stamp + 1
          /\ ver' = [ver EXCEPT !["config"] = stamp']
          /\ want' = [want EXCEPT !.ann = stamp', !.bus = stamp']
      BY <1>4, <2>0 DEF ParentRender, Edit
    <2>2. want'.ann = stamp' /\ want'.bus = stamp'
      BY <2>1 DEF TypeInv, WorldType, CRs
    <2>3. "config" \in Inputs(kind) => ver'["config"] = stamp'
      BY <2>1 DEF TypeInv, WorldType
    <2>4. AskOrder'
      BY <1>0, <2>0, <2>1, <2>2, <2>3, AnnNat DEF InvAsk, AskOrder, Settled
    <2> QED BY <1>0, <2>1, <2>4, AnnNat, AskOutside
  <1>5. ASSUME NEW i \in Inputs(kind), Change(i) \/ Appear(i) PROVE InvAsk'
    <2>1. /\ UNCHANGED <<want, cr, crSeen>> /\ stamp' \in {stamp, stamp + 1}
          /\ \E v \in {0, stamp'} : ver' = [ver EXCEPT ![i] = v]
      BY <1>5 DEF Change, Appear, Edit
    <2>2. "config" \in Inputs(kind) => ver'["config"] \in {ver["config"], 0, stamp'}
      BY <2>1 DEF TypeInv, WorldType
    <2>3. AskOrder'
      BY <1>0, <2>1, <2>2, AnnNat DEF InvAsk, AskOrder, Settled
    <2> QED BY <1>0, <2>1, <2>3, AnnNat, AskOutside
  <1> QED BY <1>1, <1>2, <1>3, <1>4, <1>5

LEMMA MountedConfig ==
  ASSUME kind \in Kinds, "config" \in Mounts[kind]
  PROVE  "config" \in Inputs(kind)
  BY DEF Inputs, InSpec

\* What a pod that starts will have loaded.
LEMMA AskPodStart ==
  ASSUME TypeInv, InvAsk, NEW p \in Pods, PodStart(p)
  PROVE  InvAsk' /\ ("config" \in Mounts[kind] =>
                       /\ pods'[p].loads["config"] = ver["config"]
                       /\ ver["config"] \in Nat /\ ver["config"] >= want.ann)
  <1> DEFINE mounted == Mounts[kind] \cap Inputs(kind)
  <1>1. /\ pods' = [pods EXCEPT ![p] = [tmpl |-> tmpl, loads |-> [i \in mounted |-> ver[i]],
                                        own |-> own]]
        /\ tmpl # NoTmpl /\ \A i \in mounted \ Optional : ver[i] # 0
    BY DEF PodStart
  <1>2. /\ UNCHANGED <<kind, ver, want, cr, crSeen, stamp, tmpl, status, passVars>>
        /\ kind \in Kinds /\ DOMAIN pods = Pods
    BY DEF PodStart, cacheVars, TypeInv, WorldType
  <1>3. "config" \in Mounts[kind] => "config" \in mounted /\ "config" \in mounted \ Optional
    BY <1>2, MountedConfig DEF Optional
  <1>4. /\ \A q \in Pods : q # p => pods'[q] = pods[q]
        /\ pods'[p] = [tmpl |-> tmpl, loads |-> [i \in mounted |-> ver[i]], own |-> own]
    BY <1>1, <1>2
  <1>5. "config" \in Mounts[kind] =>
          /\ pods'[p].loads["config"] = ver["config"]
          /\ ver["config"] \in Nat /\ ver["config"] # 0 /\ ver["config"] >= want.ann
    BY <1>1, <1>3, <1>4, AnnNat DEF InvAsk, AskOrder
  <1>6. pods'[p].tmpl = tmpl
    BY <1>4
  <1>7. AskOrder' /\ AskPass' /\ AskGot' /\ AskTemplate'
    BY <1>2 DEF passVars, InvAsk, AskOrder, AskPass, AskGot, AskTemplate, Settled
  <1>8. AskPods'
    <2> SUFFICES ASSUME NEW q \in Pods, Up(q)', "config" \in Mounts[kind]
                 PROVE  /\ pods'[q].loads["config"] \in Nat \ {0}
                        /\ "transport" \in Hashed(kind) =>
                             /\ pods'[q].tmpl.hash.read["transport"] \in Nat
                             /\ pods'[q].tmpl.hash.read["transport"]
                                  <= pods'[q].loads["config"]
      BY <1>2 DEF AskPods
    <2>1. CASE q # p
      BY <1>4, <2>1 DEF InvAsk, AskPods, Up
    <2>2. CASE q = p
      <3>1. pods'[q].loads["config"] \in Nat \ {0}
        BY <1>5, <2>2
      <3>2. ASSUME "transport" \in Hashed(kind)
            PROVE  /\ tmpl.hash.read["transport"] \in Nat
                   /\ tmpl.hash.read["transport"] <= ver["config"]
        <4>1. tmpl.hash.read["transport"] \in 0 .. cr.ann
          BY <1>1, <3>2 DEF InvAsk, AskTemplate
        <4>2. cr.ann <= want.ann
          BY DEF InvAsk, AskOrder
        <4> QED BY <1>5, <4>1, <4>2, AnnNat
      <3> QED BY <1>5, <1>6, <2>2, <3>1, <3>2
    <2> QED BY <2>1, <2>2
  <1> QED BY <1>5, <1>7, <1>8 DEF InvAsk

LEMMA AskPodStop ==
  ASSUME TypeInv, InvAsk, NEW p \in Pods, PodStop(p)
  PROVE  InvAsk'
  <1>1. pods' = [pods EXCEPT ![p] = Down]
    BY DEF PodStop
  <1>2. /\ UNCHANGED <<kind, ver, want, cr, crSeen, stamp, tmpl, status, passVars>>
        /\ DOMAIN pods = Pods
    BY DEF PodStop, cacheVars, TypeInv, WorldType
  <1>3. /\ \A q \in Pods : q # p => pods'[q] = pods[q]
        /\ pods'[p] = Down
    BY <1>1, <1>2
  <1>4. AskOrder' /\ AskPass' /\ AskGot' /\ AskTemplate'
    BY <1>2 DEF passVars, InvAsk, AskOrder, AskPass, AskGot, AskTemplate, Settled
  <1>5. AskPods'
    BY <1>2, <1>3 DEF InvAsk, AskPods, Up
  <1> QED BY <1>4, <1>5 DEF InvAsk

LEMMA AskStep ==
  ASSUME ReadsRotated, TypeInv, InvAsk, [Next]_vars
  PROVE  InvAsk'
  <1>1. CASE Pass
    BY <1>1, AskBegin, AskRead, AskRender, AskPlain, AskDeploy, AskCheck, AskRelease DEF Pass
  <1>2. CASE StepFails \/ Crash
    BY <1>2, AskFails
  <1>3. CASE UNCHANGED vars
    <2>1. UNCHANGED <<kind, passVars, status, tmpl, pods, ver, want, cr, crSeen, stamp>>
      BY <1>3 DEF vars, worldVars, cacheVars
    <2>2. AskOrder'
      BY <2>1 DEF InvAsk, AskOrder, Settled
    <2> QED BY <2>1, <2>2, AnnNat, AskOutside
  <1>4. CASE \E p \in Pods : PodStart(p) \/ PodStop(p)
    BY <1>4, AskPodStart, AskPodStop
  <1> QED BY <1>1, <1>2, <1>3, <1>4, AskWorld DEF Next

\* The configurations that the pods run.
Running ==
  {pods[p].loads["config"] : p \in {q \in Pods : Up(q) /\ "config" \in Mounts[kind]}}

\* A controller confirms an input only when all pods run a configuration that
\* was written for it.
LEMMA ConfirmedRuns ==
  ASSUME TypeInv, InvAsk, CheckWorkload, \A p \in Pods : Up(p) /\ pods[p].tmpl = tmpl
  PROVE  \A v \in Running : v >= mine.cr.ann
  <1>1. /\ at > 0 /\ ~mine.del /\ Cur.op = "check" /\ Cur = Program[kind][at] /\ Sound(kind)
        /\ at \in 1 .. Len(Program[kind])
    BY CheckFacts
  <1>2. Settled(mine.cr)
    BY <1>1 DEF InvAsk, AskPass
  <1> SUFFICES ASSUME NEW p \in Pods, Up(p), "config" \in Mounts[kind]
               PROVE  pods[p].loads["config"] >= mine.cr.ann
    BY DEF Running
  <1>3. pods[p].loads["config"] \in Nat \ {0}
    BY DEF InvAsk, AskPods
  <1>4. CASE "transport" \notin Hashed(kind)
    BY <1>2, <1>3, <1>4 DEF Settled
  <1>5. CASE "transport" \in Hashed(kind)
    <2>1. PICK h \in 1 .. Len(Program[kind]) : \A n \in 1 .. Len(Program[kind]) :
            StepOK(Program[kind][n], kind, n, h)
      BY <1>1 DEF Sound
    <2>2. at = Len(Program[kind]) /\ h # at
      BY <1>1, <2>1 DEF StepOK
    <2>3. at - 1 \in 1 .. (at - 1) /\ at - 1 \in 1 .. Len(Program[kind])
      BY <1>1, <2>1, <2>2
    <2>4. Program[kind][at - 1].op = "deploy"
      <3>1. (at - 1) + 1 = Len(Program[kind])
        BY <1>1, <2>2
      <3>2. StepOK(Program[kind][at - 1], kind, at - 1, h)
        BY <2>1, <2>3
      <3> QED BY <3>1, <3>2 DEF StepOK
    <2>5. tmpl.hash = got
      BY <1>1, <2>3, <2>4 DEF InvAsk, AskGot
    <2>6. PICK n \in DOMAIN Program[kind] :
            Program[kind][n].op = "read" /\ Program[kind][n].of = "transport"
      BY <1>5 DEF Hashed, OfKind
    <2>7. n \in 1 .. Len(Program[kind]) /\ n # at
      BY <1>1, <2>6 DEF Sound
    <2>8. n \in 1 .. (at - 1)
      BY <1>1, <2>2, <2>7
    <2>9. got.read["transport"] = mine.cr.bus
      BY <1>1, <1>5, <2>6, <2>8 DEF InvAsk, AskGot
    <2>10. pods[p].tmpl.hash.read["transport"] = mine.cr.ann
      BY <1>2, <1>5, <2>5, <2>9 DEF Settled
    <2> QED BY <1>3, <1>5, <2>10 DEF InvAsk, AskPods
  <1> QED BY <1>4, <1>5

\* A step of a controller, or around it, is a step of the handshake or none.
LEMMA HandshakeStep ==
  ASSUME TypeInv, InvAsk, [Next]_vars
  PROVE  [HS!Next]_<<cr.ann, Running, status.applied>>
  <1> USE DEF HS!Next, HS!Ask, HS!Roll, HS!Confirm
  <1>1. CASE CheckWorkload
    <2>1. PICK ready \in BOOLEAN, again \in BOOLEAN, s \in Statuses :
            /\ Return(s, again)
            /\ s.applied = IF ready /\ Cur.of = "readyForInput" THEN mine.cr.ann
                           ELSE now.applied
            /\ ready /\ Cur.of = "readyForInput" =>
                 \A p \in Pods : Up(p) /\ pods[p].tmpl = tmpl
      BY <1>1, CheckFacts
    <2>2. at > 0 /\ UNCHANGED <<cr, pods, kind>>
      BY <1>1, CheckFacts
    <2>3. Running' = Running
      BY <2>2 DEF Running, Up
    <2>4. status' = s /\ now.applied = status.applied
      BY <2>1, <2>2 DEF Return, InvAsk, AskPass
    <2>5. CASE ready /\ Cur.of = "readyForInput"
      <3>1. \A v \in Running : v >= mine.cr.ann
        BY <1>1, <2>1, <2>5, ConfirmedRuns
      <3>2. status'.applied = mine.cr.ann
        BY <2>1, <2>4, <2>5
      <3>3. status.applied <= mine.cr.ann /\ mine.cr.ann <= cr.ann
        BY <2>2, AnnNat DEF InvAsk, AskPass, AskOrder
      <3>4. CASE mine.cr.ann = status.applied
        BY <2>2, <2>3, <3>2, <3>4
      <3>5. CASE mine.cr.ann # status.applied
        <4>1. mine.cr.ann > status.applied
          BY <3>3, <3>5, AnnNat
        <4> QED BY <2>2, <2>3, <3>1, <3>2, <3>3, <4>1 DEF Running
      <3> QED BY <3>4, <3>5
    <2>6. CASE ~(ready /\ Cur.of = "readyForInput")
      <3>1. status'.applied = status.applied
        BY <2>1, <2>4, <2>6
      <3> QED BY <2>2, <2>3, <3>1
    <2> QED BY <2>5, <2>6
  <1>2. ASSUME NEW p \in Pods, PodStart(p)
        PROVE  [HS!Next]_<<cr.ann, Running, status.applied>>
    <2>1. UNCHANGED <<kind, cr, status>> /\ DOMAIN pods = Pods
      BY <1>2 DEF PodStart, TypeInv, WorldType
    <2>2. \A q \in Pods : q # p => pods'[q] = pods[q]
      BY <1>2, <2>1 DEF PodStart
    <2>3. \A v \in Running' \ Running : v = pods'[p].loads["config"] /\ "config" \in Mounts[kind]
      BY <2>1, <2>2 DEF Running, Up
    <2>4. status.applied <= want.ann
      BY AnnNat DEF InvAsk, AskOrder
    <2>5. \A v \in Running' \ Running : v >= status.applied
      <3> SUFFICES ASSUME NEW v \in Running' \ Running PROVE v >= status.applied
        OBVIOUS
      <3>1. v = ver["config"] /\ ver["config"] \in Nat /\ ver["config"] >= want.ann
        BY <1>2, <2>3, AskPodStart
      <3> QED BY <2>4, <3>1, AnnNat
    <2> QED BY <2>1, <2>5 DEF Running
  <1>3. ASSUME NEW p \in Pods, PodStop(p)
        PROVE  [HS!Next]_<<cr.ann, Running, status.applied>>
    <2>1. UNCHANGED <<kind, cr, status>> /\ DOMAIN pods = Pods
      BY <1>3 DEF PodStop, TypeInv, WorldType
    <2>2. /\ \A q \in Pods : q # p => pods'[q] = pods[q]
          /\ pods'[p] = Down
      BY <1>3, <2>1 DEF PodStop
    <2>3. Running' \subseteq Running
      BY <2>1, <2>2 DEF Running, Up
    <2> QED BY <2>1, <2>3 DEF Running
  <1>4. CASE ParentStamp
    <2>1. cr' = want /\ UNCHANGED <<kind, pods, status>>
      BY <1>4 DEF ParentStamp
    <2>2. Running' = Running
      BY <2>1 DEF Running, Up
    <2>3. cr'.ann \in Nat /\ cr.ann \in Nat /\ cr.ann <= cr'.ann
      BY <2>1, AnnNat DEF InvAsk, AskOrder
    <2>4. CASE cr'.ann = cr.ann
      BY <2>1, <2>2, <2>4
    <2>5. CASE cr'.ann # cr.ann
      <3>1. cr'.ann > cr.ann
        BY <2>3, <2>5
      <3> QED BY <2>1, <2>2, <2>3, <3>1 DEF Running
    <2> QED BY <2>4, <2>5
  <1>5. ASSUME UNCHANGED <<kind, cr, pods>>, status'.applied = status.applied
        PROVE  [HS!Next]_<<cr.ann, Running, status.applied>>
    BY <1>5 DEF Running, Up
  <1>6. CASE StepFails \/ Crash
    <2>1. UNCHANGED <<kind, cr, pods>>
      BY <1>6 DEF StepFails, Crash, worldVars
    <2>2. status' = status \/ (at > 0 /\ status' = now)
      BY <1>6 DEF StepFails, Crash, Return, Doing
    <2>3. status'.applied = status.applied
      BY <2>2 DEF InvAsk, AskPass
    <2> QED BY <1>5, <2>1, <2>3
  <1>7. CASE \/ UNCHANGED vars
             \/ RetryDue \/ DeliverCR \/ EditSpec \/ DeleteCR \/ KeystoneRegisters \/ Begin
             \/ \E b \in Buses : ParentRender(b)
             \/ \E i \in Inputs(kind) : Change(i) \/ Appear(i) \/ Deliver(i)
    <2>1. UNCHANGED <<kind, cr, pods, status>>
      BY <1>7 DEF vars, worldVars, RetryDue, DeliverCR, EditSpec, DeleteCR,
                  KeystoneRegisters, Begin, ParentRender, Change, Appear, Deliver
    <2> QED BY <1>5, <2>1
  <1>8. CASE \/ ReadInput \/ NeedInput \/ RenderConfig \/ HashInputs \/ NoteInput
             \/ RecheckNotes \/ MarkInputReady \/ ApplyServices \/ RegisterService
             \/ EnsureTopology \/ ApplyWorkload \/ ReleaseHeld
    <2> USE DEF ReadInput, NeedInput, RenderConfig, HashInputs, NoteInput, RecheckNotes,
                MarkInputReady, ApplyServices, RegisterService, EnsureTopology,
                ApplyWorkload, ReleaseHeld
    <2>1. UNCHANGED <<kind, cr, pods>> /\ at > 0
      BY <1>8 DEF passOnly, Doing
    <2>2. \/ status' = status \/ status' = now
          \/ status' = [now EXCEPT !.hash = got] \/ status' = [now EXCEPT !.fin = FALSE]
      BY <1>8 DEF Advance, Return
    <2> HIDE DEF ReadInput, NeedInput, RenderConfig, HashInputs, NoteInput, RecheckNotes,
                MarkInputReady, ApplyServices, RegisterService, EnsureTopology,
                ApplyWorkload, ReleaseHeld
    <2>3. now \in Statuses /\ now.applied = status.applied
      BY <2>1, Kept DEF InvAsk, AskPass
    <2>4. status'.applied = status.applied
      BY <2>2, <2>3 DEF Statuses
    <2> QED BY <1>5, <2>1, <2>4
  <1> QED BY <1>1, <1>2, <1>3, <1>4, <1>6, <1>7, <1>8 DEF Next, Pass

\* Every controller implements InputHandshake: AppliedInputSecretHash is set
\* only when every pod has loaded a config Secret written for that hash, and
\* never goes back, with lagging caches, rolling updates, failed writes and
\* restarts.  The controller has to hash the name of the Secret that is
\* rotated: otherwise nothing ties the pods to what it confirms.
THEOREM HandshakeImplemented == ReadsRotated /\ Spec => Handshake
  <1> SUFFICES ASSUME ReadsRotated PROVE Spec => Handshake
    OBVIOUS
  <1>1. Init => TypeInv /\ InvAsk
    BY InitType, AskInit
  <1>2. TypeInv /\ InvAsk /\ [Next]_vars => TypeInv' /\ InvAsk'
    BY TypeStep, AskStep
  <1>3. Init => HS!Init
    <2> SUFFICES ASSUME Init PROVE HS!Init
      OBVIOUS
    <2>1. cr.ann = 1 /\ status.applied = 0
      BY DEF Init, NoStatus
    <2>2. \A q \in Pods : ~Up(q)
      BY DEF Init, Up
    <2> QED BY <2>1, <2>2 DEF HS!Init
  <1>4. TypeInv /\ InvAsk /\ [Next]_vars => [HS!Next]_<<cr.ann, Running, status.applied>>
    BY HandshakeStep
  <1> QED BY <1>1, <1>2, <1>3, <1>4, PTL DEF Spec, Handshake, HS!Spec, Running

-----------------------------------------------------------------------------
(* No change is missed.  Three parts: what is recorded is never newer than    *)
(* what there is (InvPast); a reconcile that no event has overtaken has read  *)
(* what the caches hold (FreshSoFar); a controller at rest waits for an input *)
(* it watches or for Keystone, or has rolled out what its caches hold (Rest). *)

\* Whatever goes into the hash or into the rendered configuration is watched
\* if it changes, and what pods can start without does not change.
ChangesWatched ==
  \A k \in Kinds :
    /\ Touched[k] \cap (Hashed(k) \cup Rendered(k)) \subseteq Watches[k] \cup {"spec"}
    /\ Touched[k] \cap Optional = {}

\* Rendered without being watched: networks and addresses that exist or not.
Blind(k) == Rendered(k) \ (Watches[k] \cup InSpec)

\* Version of an input in the controller's caches.
Cached(i) == CASE i = "spec" -> crSeen.spec
               [] i = "transport" -> crSeen.bus
               [] OTHER -> seen[i]

\* A version seen of input i is not newer than the one there is.
Past(i, v) == v <= stamp /\ (ver[i] # 0 \/ i \notin Touched[kind] => v <= ver[i])

\* Nothing in content a is newer than in content b.
NotNewer(a, b) ==
  a = Zero({}) \/ (b # Zero({}) /\ \A i \in Rendered(kind) : a[i] <= b[i])

CachePast ==
  /\ crSeen.spec <= cr.spec /\ cr.spec <= want.spec /\ want.spec <= stamp
  /\ \A i \in Inputs(kind) : ver[i] <= stamp /\ Past(i, seen[i])
  /\ \A i \in Blind(kind) : seen[i] # 0 => ver[i] = seen[i]

PassPast ==
  at > 0 => /\ mine.cr.spec <= crSeen.spec /\ (mine.del => life # "live")
            /\ now.hash = status.hash /\ got.own \in {Zero({}), own}
            /\ \A i \in Hashed(kind) \cap Inputs(kind) : Past(i, got.read[i])

\* What is rendered next is not older than what is rendered now.
OwnPast ==
  own # Zero({}) =>
    \A i \in Rendered(kind) :
      IF i = "spec" THEN own[i] <= crSeen.spec /\ (at > 0 => own[i] <= mine.cr.spec)
      ELSE Past(i, own[i]) /\ (seen[i] # 0 => own[i] <= seen[i])

TemplatePast ==
  tmpl # NoTmpl =>
    /\ tmpl.hash.read \in [Hashed(kind) -> Versions] /\ tmpl.hash.own \in Owns
    /\ \A i \in Hashed(kind) \cap Inputs(kind) : Past(i, tmpl.hash.read[i])
    /\ NotNewer(tmpl.hash.own, own) /\ \A i \in Blind(kind) : seen[i] # 0

\* A pod has loaded nothing older than what its template was made for.
PodsPast ==
  \A p \in Pods : Up(p) =>
    /\ pods[p].own \in [Rendered(kind) -> Versions]
    /\ NotNewer(pods[p].tmpl.hash.own, pods[p].own) /\ NotNewer(pods[p].own, own)
    /\ \A i \in Hashed(kind) \cap Mounts[kind] \cap Inputs(kind) :
         /\ pods[p].loads[i] \in Versions /\ Past(i, pods[p].loads[i])
         /\ pods[p].tmpl.hash.read[i] <= pods[p].loads[i]

\* The unwatched inputs that the reconcile has needed so far exist.
BlindSoFar ==
  at > 0 /\ ~mine.del =>
    \A n \in 1 .. (at - 1) :
      LET s == Program[kind][n]
      IN /\ s.op = "need" /\ s.of \in Blind(kind) => seen[s.of] # 0
         /\ s.op = "render" => \A i \in Blind(kind) \ s.miss : seen[i] # 0

OwnFresh ==
  own # Zero({}) /\ \A i \in Rendered(kind) : own[i] = Cached(i) /\ own[i] # 0

\* What keeps a reconcile that could not render from being the last one.
Pending ==
  (\E i \in Rendered(kind) \cap Watches[kind] : seen[i] = 0) \/ tmpl = NoTmpl

\* A reconcile that nothing has overtaken has read what the caches hold.
FreshSoFar ==
  at > 0 /\ ~mine.del /\ ~queued =>
    /\ mine.cr = crSeen
    /\ \A n \in 1 .. (at - 1) :
         LET s == Program[kind][n]
         IN /\ s.op = "read" => got.read[s.of] = Cached(s.of)
            /\ s.op = "render" => (got.own = own /\ OwnFresh) \/ Pending
            /\ s.op = "deploy" => tmpl # NoTmpl /\ tmpl.hash = got

\* And it has noted what the caches hold.
NotedSoFar ==
  at > 0 /\ ~mine.del /\ ~queued =>
    \A n \in 1 .. (at - 1) :
      LET s == Program[kind][n]
      IN s.op = "note" /\ s.of \in Watches[kind] => now.notes[s.of] = seen[s.of]

\* How the last step of a reconcile looks at the workload.
How == Program[kind][Len(Program[kind])].of

RolledOutFresh ==
  /\ tmpl # NoTmpl /\ tmpl.hash.own = own /\ OwnFresh
  /\ \A i \in Hashed(kind) : tmpl.hash.read[i] = Cached(i)
  /\ \A i \in Remarked : status.notes[i] = seen[i]
  /\ status.ready \in ReadyForInput(How)
  /\ status.ready /\ How = "readyForInput" => status.applied = crSeen.ann

\* A controller at rest waits for an input it watches or for Keystone, or it
\* has rolled out what its caches hold.
Rest ==
  at = 0 /\ ~queued /\ ~retry /\ life = "live" =>
    \/ \E i \in Required(kind) \cap Watches[kind] : seen[i] = 0
    \/ ~registered /\ {"service", "endpoint"} \subseteq held
    \/ RolledOutFresh

----------------------------------------------------------------------------
(* No change is missed: what the programs read, need and watch.             *)

\* A step reads only what wakes the controller up or comes with the CR; it
\* gives up without a retry only for want of a certificate, which is watched.
WiredStep(s, w, r) ==
  /\ s.op = "read" => /\ s.of \in w \cup {"transport"} /\ s.of \notin {"spec", "own", "unset"}
                      /\ s.miss = "return" => s.of \in {"ca", "cert"}
  /\ s.op = "need" => s.miss # "return"
  /\ s.op = "render" => /\ s.miss \subseteq r \ {"spec"}
                        /\ s.miss = {} \/ r \ (w \cup {"spec"}) \subseteq s.miss

LEMMA Misses ==
  /\ \A i, miss : Need(i, miss).miss = miss
  /\ \A S, leave : Render(S, leave).miss = leave
  BY DEF Need, Render

\* What is rendered and not watched is needed or cannot be left out.
Wired(k, w, r) ==
  LET P == Program[k]
  IN /\ Watches[k] = w /\ Rendered(k) = r
     /\ "spec" \in r /\ r \cap {"transport", "own", "config", "extrndc"} = {}
     /\ w \cap {"spec", "transport", "own", "unset"} = {}
     /\ "transport" \notin Mounts[k]
     /\ \A n \in 1 .. Len(P) : WiredStep(P[n], w, r)
     /\ \E n \in 1 .. Len(P) : P[n].op = "render"
     /\ \A i \in r \ (w \cup {"spec"}) : \E n \in 1 .. Len(P) :
          \/ P[n].op = "need" /\ P[n].of = i
          \/ P[n].op = "render" /\ i \notin P[n].miss

LEMMA CentralWired == \E w, r : Wired("central", w, r)
  <1> DEFINE P == Program["central"]
             w == {"osp", "ca", "scripts", "config", "defaults"}
             r == {"spec"}
  <1>1. Watches["central"] = w
    BY DEF Watches, CentralWatches, CentralFields
  <1>2. Rendered("central") = r
    BY CentralSteps, Ops DEF Rendered, OfKind
  <1>3. "transport" \notin Mounts["central"]
    BY DEF Mounts, CentralMounts
  <1>4. ASSUME NEW n \in 1 .. 12 PROVE WiredStep(P[n], w, r)
    <2>1. n \in {1, 2, 3, 4, 5, 6, 7, 8, 9, 10, 11, 12}
      OBVIOUS
    <2> QED BY <2>1, CentralSteps, Ops, Misses DEF WiredStep
  <1>5. P[7].op = "render" /\ 7 \in 1 .. Len(P) /\ Len(P) = 12
    BY CentralSteps, Ops
  <1>6. r \ (w \cup {"spec"}) = {}
    OBVIOUS
  <1>7. /\ "spec" \in r /\ r \cap {"transport", "own", "config", "extrndc"} = {}
        /\ w \cap {"spec", "transport", "own", "unset"} = {}
    OBVIOUS
  <1>8. \A i \in r \ (w \cup {"spec"}) : \E n \in 1 .. Len(P) :
          \/ P[n].op = "need" /\ P[n].of = i
          \/ P[n].op = "render" /\ i \notin P[n].miss
    BY <1>6, Zenon
  <1>9. \A n \in 1 .. Len(P) : WiredStep(P[n], w, r)
    BY <1>4, <1>5
  <1>10. P = Program["central"]
    OBVIOUS
  <1> HIDE DEF P, w, r
  <1>11. Wired("central", w, r)
    BY <1>1, <1>2, <1>3, <1>5, <1>7, <1>8, <1>9, <1>10, Zenon DEF Wired
  <1> QED BY <1>11

LEMMA WorkerWired == \E w, r : Wired("worker", w, r)
  <1> DEFINE P == Program["worker"]
             w == {"osp", "ca", "scripts", "config", "defaults", "rndc", "extrndc"}
             r == {"spec"}
  <1>1. Watches["worker"] = w
    BY DEF Watches, WorkerWatches, WorkerFields
  <1>2. Rendered("worker") = r
    BY WorkerSteps, Ops DEF Rendered, OfKind
  <1>3. "transport" \notin Mounts["worker"]
    BY DEF Mounts, WorkerMounts
  <1>4. ASSUME NEW n \in 1 .. 15 PROVE WiredStep(P[n], w, r)
    <2>1. n \in {1, 2, 3, 4, 5, 6, 7, 8, 9, 10, 11, 12, 13, 14, 15}
      OBVIOUS
    <2> QED BY <2>1, WorkerSteps, Ops, Misses DEF WiredStep
  <1>5. P[8].op = "render" /\ 8 \in 1 .. Len(P) /\ Len(P) = 15
    BY WorkerSteps, Ops
  <1>6. r \ (w \cup {"spec"}) = {}
    OBVIOUS
  <1>7. /\ "spec" \in r /\ r \cap {"transport", "own", "config", "extrndc"} = {}
        /\ w \cap {"spec", "transport", "own", "unset"} = {}
    OBVIOUS
  <1>8. \A i \in r \ (w \cup {"spec"}) : \E n \in 1 .. Len(P) :
          \/ P[n].op = "need" /\ P[n].of = i
          \/ P[n].op = "render" /\ i \notin P[n].miss
    BY <1>6, Zenon
  <1>9. \A n \in 1 .. Len(P) : WiredStep(P[n], w, r)
    BY <1>4, <1>5
  <1>10. P = Program["worker"]
    OBVIOUS
  <1> HIDE DEF P, w, r
  <1>11. Wired("worker", w, r)
    BY <1>1, <1>2, <1>3, <1>5, <1>7, <1>8, <1>9, <1>10, Zenon DEF Wired
  <1> QED BY <1>11

LEMMA ProducerWired == \E w, r : Wired("producer", w, r)
  <1> DEFINE P == Program["producer"]
             w == {"osp", "ca", "scripts", "config", "defaults"}
             r == {"spec"}
  <1>1. Watches["producer"] = w
    BY DEF Watches, ProducerWatches, ProducerFields
  <1>2. Rendered("producer") = r
    BY ProducerSteps, Ops DEF Rendered, OfKind
  <1>3. "transport" \notin Mounts["producer"]
    BY DEF Mounts, ProducerMounts
  <1>4. ASSUME NEW n \in 1 .. 13 PROVE WiredStep(P[n], w, r)
    <2>1. n \in {1, 2, 3, 4, 5, 6, 7, 8, 9, 10, 11, 12, 13}
      OBVIOUS
    <2> QED BY <2>1, ProducerSteps, Ops, Misses DEF WiredStep
  <1>5. P[8].op = "render" /\ 8 \in 1 .. Len(P) /\ Len(P) = 13
    BY ProducerSteps, Ops
  <1>6. r \ (w \cup {"spec"}) = {}
    OBVIOUS
  <1>7. /\ "spec" \in r /\ r \cap {"transport", "own", "config", "extrndc"} = {}
        /\ w \cap {"spec", "transport", "own", "unset"} = {}
    OBVIOUS
  <1>8. \A i \in r \ (w \cup {"spec"}) : \E n \in 1 .. Len(P) :
          \/ P[n].op = "need" /\ P[n].of = i
          \/ P[n].op = "render" /\ i \notin P[n].miss
    BY <1>6, Zenon
  <1>9. \A n \in 1 .. Len(P) : WiredStep(P[n], w, r)
    BY <1>4, <1>5
  <1>10. P = Program["producer"]
    OBVIOUS
  <1> HIDE DEF P, w, r
  <1>11. Wired("producer", w, r)
    BY <1>1, <1>2, <1>3, <1>5, <1>7, <1>8, <1>9, <1>10, Zenon DEF Wired
  <1> QED BY <1>11

LEMMA MdnsWired == \E w, r : Wired("mdns", w, r)
  <1> DEFINE P == Program["mdns"]
             w == {"osp", "ca", "scripts", "config", "defaults"}
             r == {"spec"}
  <1>1. Watches["mdns"] = w
    BY DEF Watches, MdnsWatches, MdnsFields
  <1>2. Rendered("mdns") = r
    BY MdnsSteps, Ops DEF Rendered, OfKind
  <1>3. "transport" \notin Mounts["mdns"]
    BY DEF Mounts, MdnsMounts
  <1>4. ASSUME NEW n \in 1 .. 14 PROVE WiredStep(P[n], w, r)
    <2>1. n \in {1, 2, 3, 4, 5, 6, 7, 8, 9, 10, 11, 12, 13, 14}
      OBVIOUS
    <2> QED BY <2>1, MdnsSteps, Ops, Misses DEF WiredStep
  <1>5. P[8].op = "render" /\ 8 \in 1 .. Len(P) /\ Len(P) = 14
    BY MdnsSteps, Ops
  <1>6. r \ (w \cup {"spec"}) = {}
    OBVIOUS
  <1>7. /\ "spec" \in r /\ r \cap {"transport", "own", "config", "extrndc"} = {}
        /\ w \cap {"spec", "transport", "own", "unset"} = {}
    OBVIOUS
  <1>8. \A i \in r \ (w \cup {"spec"}) : \E n \in 1 .. Len(P) :
          \/ P[n].op = "need" /\ P[n].of = i
          \/ P[n].op = "render" /\ i \notin P[n].miss
    BY <1>6, Zenon
  <1>9. \A n \in 1 .. Len(P) : WiredStep(P[n], w, r)
    BY <1>4, <1>5
  <1>10. P = Program["mdns"]
    OBVIOUS
  <1> HIDE DEF P, w, r
  <1>11. Wired("mdns", w, r)
    BY <1>1, <1>2, <1>3, <1>5, <1>7, <1>8, <1>9, <1>10, Zenon DEF Wired
  <1> QED BY <1>11

LEMMA UnboundWired == \E w, r : Wired("unbound", w, r)
  <1> DEFINE P == Program["unbound"]
             w == {}
             r == {"spec", "predip", "nad"}
  <1>1. Watches["unbound"] = w
    BY DEF Watches, UnboundWatches, UnboundFields
  <1>2. Rendered("unbound") = r
    BY UnboundSteps, Ops DEF Rendered, OfKind
  <1>3. "transport" \notin Mounts["unbound"]
    BY DEF Mounts, UnboundMounts
  <1>4. ASSUME NEW n \in 1 .. 7 PROVE WiredStep(P[n], w, r)
    <2>1. n \in {1, 2, 3, 4, 5, 6, 7}
      OBVIOUS
    <2> QED BY <2>1, UnboundSteps, Ops, Misses DEF WiredStep
  <1>5. P[3].op = "render" /\ 3 \in 1 .. Len(P) /\ Len(P) = 7
    BY UnboundSteps, Ops
  <1>6. \A i \in r \ (w \cup {"spec"}) : P[3].op = "render" /\ i \notin P[3].miss
    BY UnboundSteps DEF Render
  <1>7. /\ "spec" \in r /\ r \cap {"transport", "own", "config", "extrndc"} = {}
        /\ w \cap {"spec", "transport", "own", "unset"} = {}
    OBVIOUS
  <1>8. \A i \in r \ (w \cup {"spec"}) : \E n \in 1 .. Len(P) :
          \/ P[n].op = "need" /\ P[n].of = i
          \/ P[n].op = "render" /\ i \notin P[n].miss
    <2>1. 3 \in 1 .. Len(P)
      BY <1>5
    <2> QED BY <1>6, <2>1
  <1>9. \A n \in 1 .. Len(P) : WiredStep(P[n], w, r)
    BY <1>4, <1>5
  <1>10. P = Program["unbound"]
    OBVIOUS
  <1> HIDE DEF P, w, r
  <1>11. Wired("unbound", w, r)
    BY <1>1, <1>2, <1>3, <1>5, <1>7, <1>8, <1>9, <1>10, Zenon DEF Wired
  <1> QED BY <1>11

LEMMA Bind9Wired == \E w, r : Wired("bind9", w, r)
  <1> DEFINE P == Program["bind9"]
             w == {"predip"}
             r == {"spec", "nad"}
  <1>1. Watches["bind9"] = w
    BY DEF Watches, BindWatches, BindFields
  <1>2. Rendered("bind9") = r
    BY Bind9Steps, Ops DEF Rendered, OfKind
  <1>3. "transport" \notin Mounts["bind9"]
    BY DEF Mounts, BindMounts
  <1>4. ASSUME NEW n \in 1 .. 10 PROVE WiredStep(P[n], w, r)
    <2>1. n \in {1, 2, 3, 4, 5, 6, 7, 8, 9, 10}
      OBVIOUS
    <2> QED BY <2>1, Bind9Steps, Ops, Misses DEF WiredStep
  <1>5. P[2].op = "render" /\ 2 \in 1 .. Len(P) /\ Len(P) = 10
    BY Bind9Steps, Ops
  <1>6. \A i \in r \ (w \cup {"spec"}) : P[7].op = "need" /\ P[7].of = i
    BY Bind9Steps DEF Need
  <1>7. /\ "spec" \in r /\ r \cap {"transport", "own", "config", "extrndc"} = {}
        /\ w \cap {"spec", "transport", "own", "unset"} = {}
    OBVIOUS
  <1>8. \A i \in r \ (w \cup {"spec"}) : \E n \in 1 .. Len(P) :
          \/ P[n].op = "need" /\ P[n].of = i
          \/ P[n].op = "render" /\ i \notin P[n].miss
    <2>1. 7 \in 1 .. Len(P)
      BY <1>5
    <2> QED BY <1>6, <2>1
  <1>9. \A n \in 1 .. Len(P) : WiredStep(P[n], w, r)
    BY <1>4, <1>5
  <1>10. P = Program["bind9"]
    OBVIOUS
  <1> HIDE DEF P, w, r
  <1>11. Wired("bind9", w, r)
    BY <1>1, <1>2, <1>3, <1>5, <1>7, <1>8, <1>9, <1>10, Zenon DEF Wired
  <1> QED BY <1>11

LEMMA ApiWired == \E w, r : Wired("api", w, r)
  <1> DEFINE P == Program["api"]
             w == {"osp", "ca", "cert", "ac", "keystone", "scripts", "config", "defaults", "nad"}
             r == {"spec", "keystone", "osp", "ac"}
  <1>1. Watches["api"] = w
    BY DEF Watches, ApiWatches, ApiFields, ApiKeystone
  <1>2. Rendered("api") = r
    BY ApiSteps, Ops DEF Rendered, OfKind
  <1>3. "transport" \notin Mounts["api"]
    BY DEF Mounts, ApiMounts
  <1>4. ASSUME NEW n \in 1 .. 16 PROVE WiredStep(P[n], w, r)
    <2>1. n \in {1, 2, 3, 4, 5, 6, 7, 8, 9, 10, 11, 12, 13, 14, 15, 16}
      OBVIOUS
    <2> QED BY <2>1, ApiSteps, Ops, Misses DEF WiredStep
  <1>5. P[8].op = "render" /\ 8 \in 1 .. Len(P) /\ Len(P) = 16
    BY ApiSteps, Ops
  <1>6. r \ (w \cup {"spec"}) = {}
    OBVIOUS
  <1>7. /\ "spec" \in r /\ r \cap {"transport", "own", "config", "extrndc"} = {}
        /\ w \cap {"spec", "transport", "own", "unset"} = {}
    OBVIOUS
  <1>8. \A i \in r \ (w \cup {"spec"}) : \E n \in 1 .. Len(P) :
          \/ P[n].op = "need" /\ P[n].of = i
          \/ P[n].op = "render" /\ i \notin P[n].miss
    BY <1>6, Zenon
  <1>9. \A n \in 1 .. Len(P) : WiredStep(P[n], w, r)
    BY <1>4, <1>5
  <1>10. P = Program["api"]
    OBVIOUS
  <1> HIDE DEF P, w, r
  <1>11. Wired("api", w, r)
    BY <1>1, <1>2, <1>3, <1>5, <1>7, <1>8, <1>9, <1>10, Zenon DEF Wired
  <1> QED BY <1>11

LEMMA AllWired == \A k \in Kinds : Wired(k, Watches[k], Rendered(k))
  <1>1. DOMAIN Program = Known
    BY DEF Program, Known
  <1>2. Kinds \subseteq Known
    BY <1>1, ConstantsOK
  <1>3. \A k \in Kinds : \E w, r : Wired(k, w, r)
    BY <1>2, CentralWired, WorkerWired, ProducerWired, MdnsWired, UnboundWired, Bind9Wired,
       ApiWired DEF Known
  <1>4. \A k, w, r : Wired(k, w, r) => Watches[k] = w /\ Rendered(k) = r
    BY DEF Wired
  <1> QED BY <1>3, <1>4

----------------------------------------------------------------------------
(* No change is missed: how versions move.                                  *)

LEMMA WiredFacts ==
  ASSUME TypeInv
  PROVE  /\ kind \in Kinds /\ Wired(kind, Watches[kind], Rendered(kind)) /\ Sound(kind)
         /\ "spec" \in Rendered(kind) /\ "transport" \notin Rendered(kind)
         /\ Rendered(kind) \ {"spec"} \subseteq Inputs(kind)
         /\ Blind(kind) = Rendered(kind) \ (Watches[kind] \cup {"spec"})
         /\ Blind(kind) \subseteq Inputs(kind) /\ "config" \notin Blind(kind)
         /\ Rendered(kind) \cap Inputs(kind) \subseteq Required(kind)
         /\ Hashed(kind) \subseteq Watches[kind] \cup {"transport"}
         /\ "spec" \notin Hashed(kind) /\ "unset" \notin Hashed(kind)
         /\ Hashed(kind) \ {"transport"} \subseteq Inputs(kind)
         /\ Hashed(kind) \cap Mounts[kind] \subseteq Inputs(kind)
         /\ "spec" \notin Inputs(kind) /\ "transport" \notin Inputs(kind)
         /\ "transport" \notin Watches[kind] /\ "spec" \notin Watches[kind]
  <1>1. kind \in Kinds /\ Wired(kind, Watches[kind], Rendered(kind)) /\ Sound(kind)
    BY AllWired, AllSound DEF TypeInv, WorldType
  <1>2. /\ "spec" \in Rendered(kind)
        /\ Rendered(kind) \cap {"transport", "own", "config", "extrndc"} = {}
        /\ Watches[kind] \cap {"spec", "transport", "own", "unset"} = {}
        /\ "transport" \notin Mounts[kind]
    BY <1>1 DEF Wired
  <1>3. \A i \in Hashed(kind) :
          i \in Watches[kind] \cup {"transport"} /\ i \notin {"spec", "own", "unset"}
    <2> SUFFICES ASSUME NEW i \in Hashed(kind)
                 PROVE  i \in Watches[kind] \cup {"transport"} /\ i \notin {"spec", "own", "unset"}
      OBVIOUS
    <2>1. PICK n \in DOMAIN Program[kind] : Program[kind][n].op = "read" /\ Program[kind][n].of = i
      BY DEF Hashed, OfKind
    <2>2. n \in 1 .. Len(Program[kind])
      BY <1>1, <2>1 DEF Sound
    <2> QED BY <1>1, <2>1, <2>2 DEF Wired, WiredStep
  <1>4. Blind(kind) = Rendered(kind) \ (Watches[kind] \cup {"spec"})
    BY <1>2 DEF Blind, InSpec
  <1>5. Rendered(kind) \ {"spec"} \subseteq Inputs(kind)
    BY <1>2 DEF Inputs, InSpec
  <1>6. Rendered(kind) \cap Inputs(kind) \subseteq Required(kind)
    BY <1>2 DEF Required, Optional
  <1>7. /\ Hashed(kind) \ {"transport"} \subseteq Inputs(kind)
        /\ "spec" \notin Inputs(kind) /\ "transport" \notin Inputs(kind)
    BY <1>3 DEF Inputs, InSpec
  <1> QED BY <1>1, <1>2, <1>3, <1>4, <1>5, <1>6, <1>7

LEMMA VersionNats ==
  ASSUME TypeInv
  PROVE  /\ stamp \in Nat
         /\ \A i \in Inputs(kind) : ver[i] \in Nat /\ seen[i] \in Nat
         /\ cr.spec \in Nat /\ want.spec \in Nat /\ crSeen.spec \in Nat /\ mine.cr.spec \in Nat
         /\ \A v \in Versions : v \in Nat
         /\ own # Zero({}) => \A i \in Rendered(kind) : own[i] \in Nat
  <1>1. \A v \in Versions : v \in Nat
    BY VersionsFacts DEF TypeInv, WorldType
  <1>2. \A c \in CRs : c.spec \in Nat
    BY <1>1 DEF CRs
  <1>3. mine.cr \in CRs
    BY DEF TypeInv, PassType
  <1>4. own # Zero({}) => \A i \in Rendered(kind) : own[i] \in Nat
    BY <1>1 DEF TypeInv, WorldType, Owns
  <1> QED BY <1>1, <1>2, <1>3, <1>4 DEF TypeInv, WorldType

\* The steps of a reconcile change nothing of what they read.
LEMMA PassReads ==
  ASSUME Pass \/ StepFails
  PROVE  UNCHANGED <<kind, ver, want, cr, seen, crSeen, stamp, pods, registered>>
  BY DEF Pass, Begin, ReadInput, NeedInput, RenderConfig, HashInputs, NoteInput, RecheckNotes,
     MarkInputReady, ApplyServices, RegisterService, EnsureTopology, ApplyWorkload,
     CheckWorkload, ReleaseHeld, StepFails, passOnly, cacheVars

\* Versions grow, except that an input is deleted; caches catch up.
LEMMA Moves ==
  ASSUME TypeInv, [Next]_vars
  PROVE  /\ kind' = kind /\ stamp' \in {stamp, stamp + 1}
         /\ \A i \in Inputs(kind) :
              \/ ver'[i] = ver[i]
              \/ ver'[i] = 0 /\ i \in Touched[kind]
              \/ ver'[i] = stamp' /\ (ver[i] = 0 \/ i \in Touched[kind] \/ i = "config")
         /\ \A i \in Inputs(kind) : seen'[i] = seen[i] \/ (seen'[i] = ver[i] /\ ver' = ver)
  <1> USE DEF worldVars, cacheVars
  <1>0. ver \in [Inputs(kind) -> Versions] /\ seen \in [Inputs(kind) -> Versions]
    BY DEF TypeInv, WorldType
  <1>1. CASE Pass \/ StepFails
    BY <1>1, PassReads
  <1>2. CASE \/ Crash \/ RetryDue \/ DeliverCR \/ ParentStamp \/ DeleteCR \/ KeystoneRegisters
             \/ UNCHANGED vars
             \/ \E p \in Pods : PodStart(p) \/ PodStop(p)
    <2>1. UNCHANGED <<kind, ver, stamp>> /\ (seen' = seen \/ seen' = ver)
      BY <1>2 DEF Crash, RetryDue, DeliverCR, ParentStamp, DeleteCR, KeystoneRegisters, vars,
         PodStart, PodStop
    <2> QED BY <2>1
  <1>3. CASE EditSpec
    BY <1>3 DEF EditSpec, Edit
  <1>4. ASSUME NEW b \in Buses, ParentRender(b)
        PROVE  /\ UNCHANGED <<kind, seen>> /\ stamp' = stamp + 1
               /\ ver' = [ver EXCEPT !["config"] = stamp']
    BY <1>4 DEF ParentRender, Edit
  <1>5. ASSUME NEW i \in Inputs(kind), Change(i)
        PROVE  /\ UNCHANGED <<kind, seen>> /\ stamp' = stamp + 1 /\ i \in Touched[kind]
               /\ \E v \in {0, stamp'} : ver' = [ver EXCEPT ![i] = v]
    BY <1>5 DEF Change, Edit
  <1>6. ASSUME NEW i \in Inputs(kind), Appear(i)
        PROVE  /\ UNCHANGED <<kind, seen, stamp>> /\ ver[i] = 0
               /\ ver' = [ver EXCEPT ![i] = stamp]
    BY <1>6 DEF Appear
  <1>7. ASSUME NEW i \in Inputs(kind), Deliver(i)
        PROVE  UNCHANGED <<kind, ver, stamp>> /\ seen' = [seen EXCEPT ![i] = ver[i]]
    BY <1>7 DEF Deliver
  <1>8. CASE \E b \in Buses : ParentRender(b)
    BY <1>0, <1>4, <1>8
  <1>9. CASE \E i \in Inputs(kind) : Change(i)
    BY <1>0, <1>5, <1>9
  <1>10. CASE \E i \in Inputs(kind) : Appear(i)
    BY <1>0, <1>6, <1>10
  <1>11. CASE \E i \in Inputs(kind) : Deliver(i)
    BY <1>0, <1>7, <1>11
  <1> QED BY <1>1, <1>2, <1>3, <1>8, <1>9, <1>10, <1>11 DEF Next

\* What was not newer than an input is not newer after a step either.
LEMMA PastKept ==
  ASSUME TypeInv, [Next]_vars, NEW i \in Inputs(kind), NEW v \in Nat, Past(i, v)
  PROVE  Past(i, v)'
  <1>1. kind' = kind /\ stamp' \in {stamp, stamp + 1} /\ stamp \in Nat /\ ver[i] \in Nat
    BY Moves, VersionNats
  <1>2. \/ ver'[i] = ver[i]
        \/ ver'[i] = 0 /\ i \in Touched[kind]
        \/ ver'[i] = stamp'
    BY Moves
  <1> QED BY <1>1, <1>2 DEF Past

\* The CR as wanted, as it is and as the cache shows it.
LEMMA CRMoves ==
  ASSUME TypeInv, [Next]_vars
  PROVE  \/ /\ crSeen' = crSeen /\ cr' = cr
            /\ want'.spec = want.spec \/ (want'.spec = stamp' /\ stamp' = stamp + 1)
         \/ crSeen' = cr /\ cr' = cr /\ want' = want
         \/ crSeen' = crSeen /\ cr' = want /\ want' = want
  <1> USE DEF worldVars, cacheVars
  <1>1. CASE Pass \/ StepFails
    BY <1>1, PassReads
  <1>2. CASE \/ Crash \/ RetryDue \/ DeliverCR \/ ParentStamp \/ DeleteCR \/ KeystoneRegisters
             \/ UNCHANGED vars
             \/ \E p \in Pods : PodStart(p) \/ PodStop(p)
             \/ \E i \in Inputs(kind) : Change(i) \/ Appear(i) \/ Deliver(i)
    BY <1>2 DEF Crash, RetryDue, DeliverCR, ParentStamp, DeleteCR, KeystoneRegisters, vars,
       PodStart, PodStop, Change, Appear, Deliver
  <1>3. CASE EditSpec \/ \E b \in Buses : ParentRender(b)
    <2>1. crSeen' = crSeen /\ cr' = cr /\ stamp' = stamp + 1
      BY <1>3 DEF EditSpec, ParentRender, Edit
    <2>2. \/ want' = [want EXCEPT !.spec = stamp']
          \/ \E t : want' = [want EXCEPT !.topo = t]
          \/ \E b : want' = [want EXCEPT !.ann = stamp', !.bus = b]
      <3>1. CASE EditSpec
        BY <3>1 DEF EditSpec
      <3>2. CASE \E b \in Buses : ParentRender(b)
        <4>1. PICK b \in Buses : ParentRender(b)
          BY <3>2
        <4> QED BY <4>1 DEF ParentRender
      <3> QED BY <1>3, <3>1, <3>2
    <2>3. want \in CRs
      BY DEF TypeInv, WorldType
    <2>4. want'.spec = want.spec \/ want'.spec = stamp'
      BY <2>2, <2>3 DEF CRs
    <2> QED BY <2>1, <2>4
  <1> QED BY <1>1, <1>2, <1>3 DEF Next

\* An unwatched input that the cache shows stays as it is.
LEMMA BlindStays ==
  ASSUME ChangesWatched, TypeInv, CachePast, [Next]_vars, NEW i \in Blind(kind)
  PROVE  /\ i \in Inputs(kind) /\ i \notin Touched[kind]
         /\ seen[i] # 0 => seen'[i] = seen[i] /\ ver'[i] = ver[i]
  <1>1. /\ kind \in Kinds /\ i \in Inputs(kind) /\ i # "config" /\ i # "spec"
        /\ i \in Rendered(kind) /\ i \notin Watches[kind]
    BY WiredFacts
  <1>2. i \notin Touched[kind]
    BY <1>1 DEF ChangesWatched
  <1>3. ver'[i] = ver[i] \/ ver[i] = 0
    BY <1>1, <1>2, Moves
  <1>4. seen'[i] = seen[i] \/ seen'[i] = ver[i]
    BY <1>1, Moves
  <1>5. seen[i] # 0 => ver[i] = seen[i]
    BY DEF CachePast
  <1> QED BY <1>1, <1>2, <1>3, <1>4, <1>5

LEMMA CachePastStep ==
  ASSUME ChangesWatched, TypeInv, CachePast, [Next]_vars
  PROVE  /\ CachePast' /\ crSeen.spec <= crSeen'.spec
         /\ crSeen'.spec \in Nat
  <1>1. /\ crSeen.spec <= cr.spec /\ cr.spec <= want.spec /\ want.spec <= stamp
        /\ \A i \in Inputs(kind) : ver[i] <= stamp /\ Past(i, seen[i])
    BY DEF CachePast
  <1>2. kind' = kind /\ Inputs(kind)' = Inputs(kind) /\ stamp' \in {stamp, stamp + 1}
    BY Moves
  <1>3. /\ crSeen'.spec <= cr'.spec /\ cr'.spec <= want'.spec /\ want'.spec <= stamp'
        /\ crSeen.spec <= crSeen'.spec /\ crSeen'.spec \in Nat
    BY <1>1, <1>2, CRMoves, VersionNats
  <1>4. ASSUME NEW i \in Inputs(kind) PROVE ver'[i] <= stamp' /\ Past(i, seen[i])'
    <2>1. ver'[i] <= stamp'
      <3>1. ver'[i] = ver[i] \/ ver'[i] = 0 \/ ver'[i] = stamp'
        BY Moves
      <3> QED BY <1>1, <1>2, <3>1, VersionNats
    <2>2. Past(i, seen[i]) /\ Past(i, ver[i])
      BY <1>1, VersionNats DEF Past
    <2>4. CASE seen'[i] = seen[i]
      <3>1. seen[i] <= stamp' /\ (ver'[i] # 0 \/ i \notin Touched[kind] => seen[i] <= ver'[i])
        BY <1>2, <2>2, Moves, VersionNats DEF Past
      <3> QED BY <1>2, <2>1, <2>4, <3>1 DEF Past
    <2>5. CASE seen'[i] = ver[i] /\ ver' = ver
      BY <1>2, <2>1, <2>5, VersionNats DEF Past
    <2> QED BY <2>1, <2>4, <2>5, Moves
  <1>5. ASSUME NEW i \in Blind(kind), seen'[i] # 0 PROVE ver'[i] = seen'[i]
    <2>1. /\ i \in Inputs(kind) /\ i \notin Touched[kind]
          /\ seen[i] # 0 => seen'[i] = seen[i] /\ ver'[i] = ver[i]
      BY BlindStays
    <2>2. seen[i] # 0 => ver[i] = seen[i]
      BY DEF CachePast
    <2>3. seen'[i] = seen[i] \/ (seen'[i] = ver[i] /\ ver' = ver)
      BY <2>1, Moves
    <2> QED BY <1>5, <2>1, <2>2, <2>3
  <1>6. Blind(kind)' = Blind(kind)
    BY <1>2
  <1> QED BY <1>2, <1>3, <1>4, <1>5, <1>6 DEF CachePast

----------------------------------------------------------------------------
(* No change is missed: the steps of a reconcile.                           *)

StepOn == at > 0 /\ at' = at + 1 /\ UNCHANGED <<kind, mine, status, life, retry>>

\* What has been noted before the step, and by it.
NotesStep ==
  now'.notes = IF Cur.op = "note" THEN [now.notes EXCEPT ![Cur.of] = Value(Cur.of)]
               ELSE now.notes

\* Steps after which the reconcile knows, has rendered and has deployed what
\* it did before.
PlainStep ==
  /\ StepOn /\ UNCHANGED <<got, own, tmpl, queued>> /\ now'.hash = now.hash /\ NotesStep
  /\ ~mine.del => /\ Cur.op \notin {"read", "render", "deploy"}
                  /\ Cur.op = "need" => Value(Cur.of) # 0

ReadStep ==
  /\ StepOn /\ UNCHANGED <<now, own, tmpl, queued>> /\ ~mine.del /\ Cur.op = "read"
  /\ got' = [got EXCEPT !.read[Cur.of] = Value(Cur.of)]

RenderStep ==
  /\ StepOn /\ UNCHANGED <<now, tmpl, queued>> /\ ~mine.del /\ Cur.op = "render"
  /\ \/ /\ own' = [i \in Rendered(kind) |-> Value(i)] /\ got' = [got EXCEPT !.own = own']
        /\ \A i \in Rendered(kind) : Value(i) # 0
     \/ UNCHANGED <<own, got>> /\ \E i \in Cur.miss : Value(i) = 0

DeployStep ==
  /\ StepOn /\ UNCHANGED <<now, own, got>> /\ ~mine.del /\ Cur.op = "deploy"
  /\ tmpl' = [hash |-> got, topo |-> mine.cr.topo]
  /\ queued' = (queued \/ tmpl' # tmpl)

BeginStep ==
  /\ at = 0 /\ at' = 1 /\ mine' = [cr |-> crSeen, del |-> life = "deleting"]
  /\ got' = [read |-> Zero(Hashed(kind)), own |-> Zero({})] /\ now'.hash = status.hash
  /\ ~queued' /\ UNCHANGED <<kind, own, tmpl, status, life>>

\* Nothing of the reconcile, or the end of it.
Aside == UNCHANGED <<passVars, status, own, tmpl>>
Ended == Idle /\ UNCHANGED <<own, tmpl>>

LEMMA PassCases ==
  ASSUME TypeInv, Pass \/ StepFails
  PROVE  \/ PlainStep \/ ReadStep \/ RenderStep \/ DeployStep \/ BeginStep \/ Ended
         \/ at = 0 /\ Aside /\ UNCHANGED <<kind, queued>> /\ queued
  <1> USE DEF queueVars
  <1>0. UNCHANGED kind
    BY PassReads
  <1>1. CASE Begin
    <2>1. CASE UNCHANGED <<passVars, queued>>
      BY <1>0, <1>1, <2>1 DEF Begin, Aside
    <2>2. CASE /\ queued' = FALSE /\ at' = 1
               /\ mine' = [cr |-> crSeen, del |-> life = "deleting"]
               /\ got' = [read |-> Zero(Hashed(kind)), own |-> Zero({})]
               /\ now' = [status EXCEPT !.input = FALSE, !.ready = FALSE]
               /\ UNCHANGED life
      <3>1. status \in Statuses
        BY DEF TypeInv, PassType
      <3>2. now'.hash = status.hash
        BY <2>2, <3>1 DEF Statuses
      <3> QED BY <1>0, <1>1, <2>2, <3>2 DEF Begin, BeginStep
    <2> QED BY <1>1, <2>1, <2>2 DEF Begin
  <1>2. CASE ReadInput
    <2>1. at > 0 /\ ~mine.del /\ Cur.op = "read"
      BY <1>2, Undeleted DEF ReadInput
    <2>2. CASE Idle
      BY <1>2, <2>2 DEF ReadInput, Ended
    <2>3. CASE ~Idle
      BY <1>0, <1>2, <2>1, <2>3 DEF ReadInput, Return, Advance, ReadStep, StepOn
    <2> QED BY <2>2, <2>3
  <1>3. CASE RenderConfig
    <2>1. at > 0 /\ ~mine.del /\ Cur.op = "render" /\ Cur.of = Rendered(kind)
      BY <1>3, Undeleted, CurOf DEF RenderConfig
    <2>2. CASE Return(now, TRUE) /\ UNCHANGED own
      BY <1>3, <2>2 DEF RenderConfig, Return, Ended
    <2>3. CASE Advance /\ UNCHANGED <<own, got, now>>
               /\ {i \in Cur.of : Value(i) = 0} \cap Cur.miss # {}
      BY <1>0, <1>3, <2>1, <2>3 DEF RenderConfig, Advance, RenderStep, StepOn
    <2>4. CASE /\ Advance /\ {i \in Cur.of : Value(i) = 0} = {} /\ UNCHANGED now
               /\ own' = [i \in Cur.of |-> Value(i)]
               /\ got' = [got EXCEPT !.own = [i \in Cur.of |-> Value(i)]]
      <3>1. \A i \in Rendered(kind) : Value(i) # 0
        BY <2>1, <2>4
      <3> QED BY <1>0, <1>3, <2>1, <2>4, <3>1 DEF RenderConfig, Advance, RenderStep, StepOn
    <2>5. \/ Return(now, TRUE) /\ UNCHANGED own
          \/ Advance /\ UNCHANGED <<own, got, now>>
             /\ {i \in Cur.of : Value(i) = 0} \cap Cur.miss # {}
          \/ /\ Advance /\ {i \in Cur.of : Value(i) = 0} = {} /\ UNCHANGED now
             /\ own' = [i \in Cur.of |-> Value(i)]
             /\ got' = [got EXCEPT !.own = [i \in Cur.of |-> Value(i)]]
      BY <1>3 DEF RenderConfig
    <2> QED BY <2>2, <2>3, <2>4, <2>5
  <1>4. CASE ApplyWorkload
    <2>1. at > 0 /\ ~mine.del /\ Cur.op = "deploy"
      BY <1>4, Undeleted DEF ApplyWorkload
    <2> QED BY <1>0, <1>4, <2>1 DEF ApplyWorkload, DeployStep, StepOn
  <1>5. CASE ReleaseHeld
    <2> DEFINE after == IF Cur.of = Self THEN [now EXCEPT !.fin = FALSE] ELSE now
    <2>1. at > 0 /\ Cur.op = "release"
      BY <1>5 DEF ReleaseHeld, Doing, Cur
    <2>2. after.hash = now.hash /\ after.notes = now.notes
      BY <2>1, Kept DEF Statuses
    <2>3. /\ UNCHANGED <<own, tmpl>>
          /\ \/ now' = after /\ Advance /\ UNCHANGED got
             \/ Idle
      BY <1>5 DEF ReleaseHeld, Return
    <2> HIDE DEF after
    <2> QED BY <1>0, <2>1, <2>2, <2>3 DEF Advance, PlainStep, NotesStep, StepOn, Ended
  <1>6. CASE StepFails \/ CheckWorkload
    BY <1>6 DEF StepFails, CheckWorkload, Return, Ended
  <1>7. CASE \/ NeedInput \/ NoteInput \/ RecheckNotes \/ MarkInputReady \/ ApplyServices
             \/ RegisterService \/ EnsureTopology \/ HashInputs
    <2> DEFINE ops == {"need", "note", "recheck", "mark", "services", "register", "topology",
                       "hash"}
    <2>1. \E op \in ops : Doing(op)
      BY <1>7 DEF NeedInput, NoteInput, RecheckNotes, MarkInputReady, ApplyServices,
             RegisterService, EnsureTopology, HashInputs
    <2>2. at > 0 /\ ~mine.del /\ Cur.op \in ops
      BY <2>1, Undeleted
    <2>3. UNCHANGED <<own, tmpl>>
      BY <1>7 DEF NeedInput, NoteInput, RecheckNotes, MarkInputReady, ApplyServices,
             RegisterService, EnsureTopology, HashInputs
    <2>4. CASE Idle
      BY <2>3, <2>4 DEF Ended
    <2>5. CASE ~Idle
      <3>1. Advance /\ got' = got
        BY <1>7, <2>5 DEF NeedInput, NoteInput, RecheckNotes, MarkInputReady, ApplyServices,
             RegisterService, EnsureTopology, HashInputs, Return
      <3>2. \/ now' = now
            \/ now' = [now EXCEPT !.notes[Cur.of] = Value(Cur.of)]
            \/ now' = [now EXCEPT !.input = TRUE]
            \/ now' = [now EXCEPT !.topo = mine.cr.topo]
        BY <1>7, <2>5 DEF NeedInput, NoteInput, RecheckNotes, MarkInputReady, ApplyServices,
             RegisterService, EnsureTopology, HashInputs, Return
      <3>3. now'.hash = now.hash
        BY <2>2, <3>2, Kept DEF Statuses
      <3>4. Cur.op = "need" => Value(Cur.of) # 0
        <4>1. Cur.op = "need" => NeedInput
          BY <1>7 DEF Doing, Cur, NoteInput, RecheckNotes, MarkInputReady, ApplyServices,
             RegisterService, EnsureTopology, HashInputs
        <4> QED BY <2>5, <4>1 DEF NeedInput, Return
      <3>5. NotesStep
        <4>1. CASE NoteInput
          <5>1. Cur.op = "note" /\ Cur.of \in {"predip", "rndc"}
            BY <2>2, <4>1, CurOf DEF NoteInput, Doing, Cur
          <5>2. now' = [now EXCEPT !.notes[Cur.of] = Value(Cur.of)]
            BY <2>5, <4>1 DEF NoteInput, Return
          <5>3. now' = [now EXCEPT !.notes = [now.notes EXCEPT ![Cur.of] = Value(Cur.of)]]
            BY <5>2
          <5> QED BY <2>2, <5>1, <5>3, Kept DEF NotesStep, Statuses
        <4>2. CASE ~NoteInput
          <5>1. Cur.op # "note"
            BY <1>7, <4>2 DEF Doing, Cur, NeedInput, RecheckNotes, MarkInputReady, ApplyServices,
               RegisterService, EnsureTopology, HashInputs
          <5>2. \/ now' = now
                \/ now' = [now EXCEPT !.input = TRUE]
                \/ now' = [now EXCEPT !.topo = mine.cr.topo]
            BY <1>7, <2>5, <4>2 DEF NeedInput, RecheckNotes, MarkInputReady, ApplyServices,
               RegisterService, EnsureTopology, HashInputs, Return
          <5> QED BY <2>2, <5>1, <5>2, Kept DEF NotesStep, Statuses
        <4> QED BY <4>1, <4>2
      <3> QED BY <1>0, <2>2, <2>3, <3>1, <3>3, <3>4, <3>5 DEF Advance, PlainStep, StepOn
    <2> QED BY <2>4, <2>5
  <1> QED BY <1>1, <1>2, <1>3, <1>4, <1>5, <1>6, <1>7 DEF Pass

LEMMA StepCases ==
  ASSUME TypeInv, [Next]_vars
  PROVE  \/ PlainStep \/ ReadStep \/ RenderStep \/ DeployStep \/ BeginStep \/ Ended
         \/ Aside /\ (at = 0 \/ life' = life \/ life' = "deleting")
  <1>1. CASE Pass \/ StepFails
    BY <1>1, PassCases
  <1>2. CASE Crash
    BY <1>2 DEF Crash, Ended, worldVars
  <1>3. CASE ~(Pass \/ StepFails \/ Crash)
    BY <1>3 DEF Next, vars, worldVars, Aside, RetryDue, DeliverCR, ParentStamp, EditSpec,
       DeleteCR, KeystoneRegisters, ParentRender, Change, Appear, Deliver, PodStart, PodStop
  <1> QED BY <1>1, <1>2, <1>3

----------------------------------------------------------------------------
(* No change is missed: what is recorded is not newer than what there is.   *)

InvPast == CachePast /\ PassPast /\ OwnPast /\ TemplatePast /\ PodsPast /\ BlindSoFar

LEMMA ValueFacts ==
  ASSUME TypeInv, NEW i \in Inputs(kind)
  PROVE  Value(i) = seen[i] /\ Cached(i) = seen[i]
  BY WiredFacts DEF Value, Cached

LEMMA NotUnset ==
  ASSUME TypeInv, NEW h, h.read \in [Hashed(kind) -> Versions], NEW t
  PROVE  [hash |-> h, topo |-> t] # NoTmpl
  <1>1. DOMAIN h.read # {"unset"}
    BY WiredFacts
  <1>2. DOMAIN NoTmpl.hash.read = {"unset"}
    BY DEF NoTmpl, NoHash, Zero
  <1> QED BY <1>1, <1>2

\* The contents that a controller renders.
LEMMA Contents ==
  ASSUME TypeInv, NEW c \in [Rendered(kind) -> Versions]
  PROVE  c # Zero({}) /\ \A i \in Rendered(kind) : c[i] \in Nat
  <1>1. DOMAIN c # {}
    BY WiredFacts
  <1> QED BY <1>1, VersionNats DEF Zero

LEMMA NotNewerTrans ==
  ASSUME TypeInv, NEW a \in Owns, NEW b \in Owns, NEW c \in Owns,
         NotNewer(a, b), NotNewer(b, c)
  PROVE  NotNewer(a, c)
  <1>1. CASE a = Zero({})
    BY <1>1 DEF NotNewer
  <1>2. CASE a # Zero({})
    <2>1. b # Zero({}) /\ c # Zero({})
      BY <1>2 DEF NotNewer
    <2>2. \A i \in Rendered(kind) : a[i] <= b[i] /\ b[i] <= c[i]
      BY <1>2, <2>1 DEF NotNewer
    <2>3. \A i \in Rendered(kind) : a[i] \in Nat /\ b[i] \in Nat /\ c[i] \in Nat
      BY <1>2, <2>1, Contents DEF Owns
    <2> QED BY <2>1, <2>2, <2>3 DEF NotNewer
  <1> QED BY <1>1, <1>2

LEMMA NotNewerSelf ==
  ASSUME TypeInv, NEW a \in Owns
  PROVE  NotNewer(a, a)
  BY Contents DEF NotNewer, Owns

\* What a RenderStep writes.
LEMMA RenderedNew ==
  ASSUME TypeInv, InvPast, RenderStep, own' # own
  PROVE  /\ own' \in [Rendered(kind) -> Versions] /\ got'.own = own' /\ got'.read = got.read
         /\ \A i \in Rendered(kind) : own'[i] = Value(i) /\ Value(i) # 0
  <1>1. /\ own' = [i \in Rendered(kind) |-> Value(i)] /\ got' = [got EXCEPT !.own = own']
        /\ \A i \in Rendered(kind) : Value(i) # 0
    BY DEF RenderStep
  <1>2. got \in Hashes
    BY DEF TypeInv, PassType
  <1>3. \A i \in Rendered(kind) : Value(i) \in Versions
    BY WiredFacts, ValueType DEF InSpec
  <1> QED BY <1>1, <1>2, <1>3 DEF Hashes

LEMMA OwnGrows ==
  ASSUME TypeInv, InvPast, [Next]_vars
  PROVE  NotNewer(own, own') /\ own \in Owns /\ own' \in Owns
  <1>0. own \in Owns
    BY DEF TypeInv, WorldType
  <1>1. CASE own' = own
    BY <1>0, <1>1, NotNewerSelf
  <1>2. CASE own' # own
    <2>1. RenderStep
      BY <1>2, StepCases DEF PlainStep, ReadStep, DeployStep, BeginStep, Ended, Aside
    <2>2. /\ own' \in [Rendered(kind) -> Versions]
          /\ \A i \in Rendered(kind) : own'[i] = Value(i) /\ Value(i) # 0
      BY <1>2, <2>1, RenderedNew
    <2>3. ASSUME own # Zero({}), NEW i \in Rendered(kind) PROVE own[i] <= Value(i)
      <3>1. CASE i = "spec"
        BY <2>1, <2>3, <3>1 DEF InvPast, OwnPast, Value, RenderStep, StepOn
      <3>2. CASE i # "spec"
        <4>1. i \in Inputs(kind) /\ Value(i) = seen[i]
          BY <3>2, WiredFacts, ValueFacts
        <4> QED BY <2>2, <2>3, <3>2, <4>1 DEF InvPast, OwnPast
      <3> QED BY <3>1, <3>2
    <2> QED BY <1>0, <2>2, <2>3, Contents DEF NotNewer, Owns
  <1> QED BY <1>1, <1>2

LEMMA PassPastStep ==
  ASSUME ChangesWatched, TypeInv, InvPast, [Next]_vars
  PROVE  PassPast'
  <1>0. /\ kind' = kind /\ Hashed(kind)' = Hashed(kind) /\ Inputs(kind)' = Inputs(kind)
        /\ crSeen.spec <= crSeen'.spec /\ crSeen'.spec \in Nat
        /\ crSeen.spec \in Nat /\ mine.cr.spec \in Nat
    BY Moves, CachePastStep, VersionNats DEF InvPast
  <1>1. ASSUME at > 0, NEW i \in Hashed(kind) \cap Inputs(kind)
        PROVE  got.read[i] \in Nat
    BY <1>1, Kept, VersionNats
  <1>2. ASSUME at > 0
        PROVE  /\ mine.cr.spec <= crSeen.spec /\ (mine.del => life # "live")
               /\ now.hash = status.hash /\ got.own \in {Zero({}), own}
               /\ \A i \in Hashed(kind) \cap Inputs(kind) :
                    Past(i, got.read[i]) /\ got.read[i] \in Nat
    BY <1>1, <1>2 DEF InvPast, PassPast
  <1>3. ASSUME at > 0
        PROVE  mine.cr.spec <= crSeen'.spec
    BY <1>0, <1>2, <1>3
  <1>4. ASSUME at > 0, NEW i \in Hashed(kind) \cap Inputs(kind)
        PROVE  /\ got.read[i] <= stamp'
               /\ ver'[i] # 0 \/ i \notin Touched[kind] => got.read[i] <= ver'[i]
    <2>1. PICK v \in Nat : v = got.read[i]
      BY <1>1, <1>4
    <2>2. Past(i, v)
      BY <1>2, <1>4, <2>1
    <2>3. Past(i, v)'
      BY <2>2, PastKept
    <2> QED BY <1>0, <2>1, <2>3 DEF Past
  <1>5. CASE Ended
    BY <1>5 DEF Ended, Idle, PassPast
  <1>6. CASE Aside /\ (at = 0 \/ life' = life \/ life' = "deleting")
    <2>1. UNCHANGED <<at, mine, got, now, status, own>>
      BY <1>6 DEF Aside, passVars
    <2> SUFFICES ASSUME at > 0
                 PROVE  /\ mine.cr.spec <= crSeen'.spec /\ (mine.del => life' # "live")
                        /\ now.hash = status.hash /\ got.own \in {Zero({}), own}
                        /\ \A i \in Hashed(kind) \cap Inputs(kind) :
                             /\ got.read[i] <= stamp'
                             /\ ver'[i] # 0 \/ i \notin Touched[kind] => got.read[i] <= ver'[i]
      BY <1>0, <2>1 DEF PassPast, Past
    <2> QED BY <1>2, <1>3, <1>4, <1>6
  <1>7. CASE PlainStep \/ DeployStep
    <2>1. at > 0 /\ UNCHANGED <<mine, got, own, status, life>> /\ now'.hash = now.hash
      BY <1>7 DEF PlainStep, DeployStep, StepOn
    <2> QED BY <1>0, <1>2, <1>3, <1>4, <2>1 DEF PassPast, Past
  <1>8. CASE ReadStep
    <2>1. at > 0 /\ UNCHANGED <<mine, own, status, life, now>> /\ ~mine.del /\ Cur.op = "read"
      BY <1>8 DEF ReadStep, StepOn
    <2>2. got' = [got EXCEPT !.read[Cur.of] = Value(Cur.of)]
      BY <1>8 DEF ReadStep
    <2>3. /\ got'.own = got.own
          /\ \A i \in Hashed(kind) :
               got'.read[i] = IF i = Cur.of THEN Value(Cur.of) ELSE got.read[i]
      BY <2>1, <2>2, Kept DEF Hashes
    <2>4. ASSUME NEW i \in Hashed(kind) \cap Inputs(kind)
          PROVE  /\ got'.read[i] <= stamp'
                 /\ ver'[i] # 0 \/ i \notin Touched[kind] => got'.read[i] <= ver'[i]
      <3>1. CASE i = Cur.of
        <4>1. got'.read[i] = seen[i] /\ seen[i] \in Nat /\ Past(i, seen[i])
          BY <2>3, <3>1, ValueFacts, VersionNats DEF InvPast, CachePast
        <4>2. PICK v \in Nat : v = seen[i]
          BY <4>1
        <4>3. Past(i, v)'
          BY <4>1, <4>2, PastKept
        <4> QED BY <1>0, <4>1, <4>2, <4>3 DEF Past
      <3>2. CASE i # Cur.of
        BY <1>4, <2>1, <2>3, <3>2
      <3> QED BY <3>1, <3>2
    <2> QED BY <1>0, <1>2, <1>3, <2>1, <2>3, <2>4 DEF PassPast, Past
  <1>9. CASE RenderStep
    <2>1. at > 0 /\ UNCHANGED <<mine, status, life, now>>
      BY <1>9 DEF RenderStep, StepOn
    <2>2. got'.read = got.read /\ got'.own \in {Zero({}), own'}
      <3>1. CASE UNCHANGED <<own, got>>
        BY <1>2, <2>1, <3>1
      <3>2. CASE got' = [got EXCEPT !.own = own']
        BY <2>1, <3>2, Kept DEF Hashes
      <3> QED BY <1>9, <3>1, <3>2 DEF RenderStep
    <2> QED BY <1>0, <1>2, <1>3, <1>4, <2>1, <2>2 DEF PassPast, Past
  <1>10. CASE BeginStep
    <2>1. /\ mine'.cr = crSeen /\ (mine'.del => life = "deleting") /\ life' = life
          /\ now'.hash = status'.hash /\ got'.own = Zero({})
          /\ \A i \in Hashed(kind) : got'.read[i] = 0
      BY <1>10 DEF BeginStep, Zero
    <2>2. \A i \in Inputs(kind) : ver'[i] \in Nat /\ stamp' \in Nat
      BY <1>0, TypeStep DEF TypeInv, WorldType, Versions, TypeInv
    <2>3. \A i \in Hashed(kind) \cap Inputs(kind) : 0 <= stamp' /\ 0 <= ver'[i]
      BY <2>2
    <2> QED BY <1>0, <2>1, <2>3 DEF PassPast, Past
  <1> QED BY <1>5, <1>6, <1>7, <1>8, <1>9, <1>10, StepCases

\* A version recorded in the past stays one.
LEMMA PastKeptAt ==
  ASSUME TypeInv, [Next]_vars, NEW i \in Inputs(kind), NEW v, v \in Nat, Past(i, v)
  PROVE  v <= stamp' /\ (ver'[i] # 0 \/ i \notin Touched[kind] => v <= ver'[i])
  <1>1. PICK w \in Nat : w = v
    OBVIOUS
  <1>2. Past(i, w)'
    BY <1>1, PastKept
  <1>3. kind' = kind
    BY Moves
  <1> QED BY <1>1, <1>2, <1>3 DEF Past

LEMMA OwnPastStep ==
  ASSUME ChangesWatched, TypeInv, InvPast, [Next]_vars
  PROVE  OwnPast'
  <1>0. /\ kind' = kind /\ Rendered(kind)' = Rendered(kind)
        /\ crSeen.spec <= crSeen'.spec /\ crSeen'.spec \in Nat
        /\ crSeen.spec \in Nat /\ mine.cr.spec \in Nat
    BY Moves, CachePastStep, VersionNats DEF InvPast
  <1>1. CASE own' = own
    <2> SUFFICES ASSUME own # Zero({}), NEW i \in Rendered(kind)
                 PROVE  IF i = "spec"
                        THEN own[i] <= crSeen'.spec /\ (at' > 0 => own[i] <= mine'.cr.spec)
                        ELSE /\ own[i] <= stamp'
                             /\ ver'[i] # 0 \/ i \notin Touched[kind] => own[i] <= ver'[i]
                             /\ seen'[i] # 0 => own[i] <= seen'[i]
      BY <1>0, <1>1 DEF OwnPast, Past
    <2>0. own[i] \in Nat
      BY VersionNats
    <2>1. CASE i = "spec"
      <3>1. own[i] <= crSeen.spec /\ (at > 0 => own[i] <= mine.cr.spec)
        BY <2>1 DEF InvPast, OwnPast
      <3>2. at' > 0 => (at > 0 /\ mine' = mine) \/ mine'.cr = crSeen
        BY StepCases DEF PlainStep, ReadStep, RenderStep, DeployStep, StepOn, BeginStep, Ended,
           Idle, Aside, passVars
      <3> QED BY <1>0, <2>0, <2>1, <3>1, <3>2
    <2>2. CASE i # "spec"
      <3>1. i \in Inputs(kind)
        BY <2>2, WiredFacts
      <3>2. Past(i, own[i]) /\ (seen[i] # 0 => own[i] <= seen[i])
        BY <2>2 DEF InvPast, OwnPast
      <3>3. seen'[i] = seen[i] \/ (seen'[i] = ver[i] /\ ver' = ver)
        BY <3>1, Moves
      <3>4. /\ own[i] <= stamp'
            /\ ver'[i] # 0 \/ i \notin Touched[kind] => own[i] <= ver'[i]
        BY <2>0, <3>1, <3>2, PastKeptAt
      <3> QED BY <2>2, <3>2, <3>3, <3>4
    <2> QED BY <2>1, <2>2
  <1>2. CASE own' # own
    <2>1. RenderStep
      BY <1>2, StepCases DEF PlainStep, ReadStep, DeployStep, BeginStep, Ended, Aside
    <2>2. /\ at > 0 /\ mine' = mine
          /\ \A i \in Rendered(kind) : own'[i] = Value(i) /\ Value(i) # 0
      BY <1>2, <2>1, RenderedNew DEF RenderStep, StepOn
    <2>3. ASSUME NEW i \in Rendered(kind)
          PROVE  IF i = "spec"
                 THEN own'[i] <= crSeen'.spec /\ own'[i] <= mine'.cr.spec
                 ELSE /\ own'[i] <= stamp'
                      /\ ver'[i] # 0 \/ i \notin Touched[kind] => own'[i] <= ver'[i]
                      /\ seen'[i] # 0 => own'[i] <= seen'[i]
      <3>1. CASE i = "spec"
        <4>1. own'[i] = mine.cr.spec /\ mine.cr.spec <= crSeen.spec
          BY <2>2, <3>1 DEF Value, InvPast, PassPast
        <4> QED BY <1>0, <2>2, <3>1, <4>1
      <3>2. CASE i # "spec"
        <4>1. i \in Inputs(kind) /\ own'[i] = seen[i] /\ seen[i] \in Nat
          BY <2>2, <3>2, WiredFacts, ValueFacts, VersionNats
        <4>2. Past(i, seen[i])
          BY <4>1 DEF InvPast, CachePast
        <4>3. /\ seen[i] <= stamp'
              /\ ver'[i] # 0 \/ i \notin Touched[kind] => seen[i] <= ver'[i]
          BY <4>1, <4>2, PastKeptAt
        <4>4. seen'[i] = seen[i] \/ (seen'[i] = ver[i] /\ ver' = ver)
          BY <4>1, Moves
        <4> QED BY <3>2, <4>1, <4>3, <4>4
      <3> QED BY <3>1, <3>2
    <2> QED BY <1>0, <2>3 DEF OwnPast, Past
  <1> QED BY <1>1, <1>2

\* A reconcile that gets to the workload has found what it does not watch.
LEMMA BlindFound ==
  ASSUME TypeInv, BlindSoFar, at > 0, ~mine.del, Cur.op \in {"deploy", "check"},
         NEW i \in Blind(kind)
  PROVE  seen[i] # 0
  <1>1. /\ Wired(kind, Watches[kind], Rendered(kind)) /\ Sound(kind)
        /\ i \in Rendered(kind) \ (Watches[kind] \cup {"spec"})
    BY WiredFacts
  <1>2. PICK n \in 1 .. Len(Program[kind]) :
          \/ Program[kind][n].op = "need" /\ Program[kind][n].of = i
          \/ Program[kind][n].op = "render" /\ i \notin Program[kind][n].miss
    BY <1>1 DEF Wired
  <1>3. Cur = Program[kind][at] /\ at \in 1 .. Len(Program[kind])
    BY StepFacts
  <1>4. PICK h : \A m \in 1 .. Len(Program[kind]) : StepOK(Program[kind][m], kind, m, h)
    BY <1>1 DEF Sound
  <1>5. Len(Program[kind]) \in Nat
    BY <1>1 DEF Sound
  <1>6. at = Len(Program[kind]) \/ at + 1 = Len(Program[kind])
    BY <1>3, <1>4 DEF StepOK
  <1>7. n # Len(Program[kind]) /\ n + 1 # Len(Program[kind])
    BY <1>2, <1>4 DEF StepOK
  <1>8. n \in 1 .. (at - 1)
    BY <1>3, <1>5, <1>6, <1>7
  <1> QED BY <1>2, <1>8 DEF BlindSoFar

LEMMA TemplatePastStep ==
  ASSUME ChangesWatched, TypeInv, InvPast, [Next]_vars
  PROVE  TemplatePast'
  <1>0. /\ kind' = kind /\ Rendered(kind)' = Rendered(kind) /\ Hashed(kind)' = Hashed(kind)
        /\ Inputs(kind)' = Inputs(kind) /\ Blind(kind)' = Blind(kind)
        /\ Versions' = Versions /\ Owns' = Owns
    BY Moves, SameKind
  <1>1. NotNewer(own, own') /\ own \in Owns /\ own' \in Owns
    BY OwnGrows
  <1>2. \A i \in Blind(kind) : seen[i] # 0 => seen'[i] # 0
    BY BlindStays DEF InvPast
  <1>3. CASE tmpl' = tmpl
    <2> SUFFICES ASSUME tmpl # NoTmpl
                 PROVE  /\ tmpl.hash.read \in [Hashed(kind) -> Versions] /\ tmpl.hash.own \in Owns
                        /\ \A i \in Hashed(kind) \cap Inputs(kind) :
                             /\ tmpl.hash.read[i] <= stamp'
                             /\ ver'[i] # 0 \/ i \notin Touched[kind] =>
                                  tmpl.hash.read[i] <= ver'[i]
                        /\ NotNewer(tmpl.hash.own, own')
                        /\ \A i \in Blind(kind) : seen'[i] # 0
      BY <1>0, <1>3 DEF TemplatePast, Past, NotNewer
    <2>1. /\ tmpl.hash.read \in [Hashed(kind) -> Versions] /\ tmpl.hash.own \in Owns
          /\ \A i \in Hashed(kind) \cap Inputs(kind) : Past(i, tmpl.hash.read[i])
          /\ NotNewer(tmpl.hash.own, own) /\ \A i \in Blind(kind) : seen[i] # 0
      BY DEF InvPast, TemplatePast
    <2>2. \A i \in Hashed(kind) : tmpl.hash.read[i] \in Nat
      BY <2>1, VersionNats
    <2>3. \A i \in Hashed(kind) \cap Inputs(kind) :
            /\ tmpl.hash.read[i] <= stamp'
            /\ ver'[i] # 0 \/ i \notin Touched[kind] => tmpl.hash.read[i] <= ver'[i]
      BY <2>1, <2>2, PastKeptAt
    <2>4. NotNewer(tmpl.hash.own, own')
      BY <1>1, <2>1, NotNewerTrans
    <2> QED BY <1>2, <2>1, <2>3, <2>4
  <1>4. CASE tmpl' # tmpl
    <2>1. DeployStep
      BY <1>4, StepCases DEF PlainStep, ReadStep, RenderStep, BeginStep, Ended, Aside
    <2>2. /\ at > 0 /\ ~mine.del /\ Cur.op = "deploy" /\ tmpl'.hash = got /\ own' = own
      BY <2>1 DEF DeployStep, StepOn
    <2>3. got.read \in [Hashed(kind) -> Versions] /\ got.own \in Owns
      BY <2>2, Kept DEF Hashes
    <2>4. \A i \in Hashed(kind) \cap Inputs(kind) :
            got.read[i] \in Nat /\ Past(i, got.read[i])
      BY <2>2, <2>3, VersionNats DEF InvPast, PassPast
    <2>5. \A i \in Hashed(kind) \cap Inputs(kind) :
            /\ got.read[i] <= stamp'
            /\ ver'[i] # 0 \/ i \notin Touched[kind] => got.read[i] <= ver'[i]
      BY <2>4, PastKeptAt
    <2>6. got.own \in {Zero({}), own}
      BY <2>2 DEF InvPast, PassPast
    <2>7. NotNewer(got.own, own)
      BY <1>1, <2>6, NotNewerSelf DEF NotNewer
    <2>8. \A i \in Blind(kind) : seen'[i] # 0
      BY <1>2, <2>2, BlindFound DEF InvPast
    <2> QED BY <1>0, <2>2, <2>3, <2>5, <2>7, <2>8 DEF TemplatePast, Past, NotNewer
  <1> QED BY <1>3, <1>4

LEMMA BlindSoFarStep ==
  ASSUME ChangesWatched, TypeInv, InvPast, [Next]_vars
  PROVE  BlindSoFar'
  <1>0. kind' = kind /\ Blind(kind)' = Blind(kind)
    BY Moves
  <1>1. \A i \in Blind(kind) : seen[i] # 0 => seen'[i] # 0
    BY BlindStays DEF InvPast
  <1>2. CASE Ended
    BY <1>2 DEF Ended, Idle, BlindSoFar
  <1>3. CASE Aside
    BY <1>0, <1>1, <1>3 DEF Aside, passVars, InvPast, BlindSoFar
  <1>4. CASE BeginStep
    <2>1. 1 .. (at' - 1) = {}
      BY <1>4 DEF BeginStep
    <2> QED BY <2>1 DEF BlindSoFar
  <1>5. CASE PlainStep \/ ReadStep \/ RenderStep \/ DeployStep
    <2>0. at > 0 /\ at' = at + 1 /\ mine' = mine
      BY <1>5 DEF PlainStep, ReadStep, RenderStep, DeployStep, StepOn
    <2> SUFFICES ASSUME ~mine.del, NEW n \in 1 .. (at' - 1)
                 PROVE  /\ Program[kind][n].op = "need" /\ Program[kind][n].of \in Blind(kind) =>
                             seen'[Program[kind][n].of] # 0
                        /\ Program[kind][n].op = "render" =>
                             \A i \in Blind(kind) \ Program[kind][n].miss : seen'[i] # 0
      BY <1>0, <2>0 DEF BlindSoFar
    <2>1. n \in 1 .. (at - 1) \/ n = at
      BY <1>0, <2>0, SoFar
    <2>2. CASE n \in 1 .. (at - 1)
      BY <1>1, <2>0, <2>2 DEF InvPast, BlindSoFar
    <2>3. CASE n = at
      <3>1. Cur = Program[kind][n] /\ at \in 1 .. Len(Program[kind])
        BY <2>0, <2>3, StepFacts
      <3>2. \A i \in Blind(kind) : i \in Inputs(kind) /\ Value(i) = seen[i] /\ i \in Rendered(kind)
        BY WiredFacts, ValueFacts
      <3>3. Cur.op = "need" /\ Cur.of \in Blind(kind) => seen'[Cur.of] # 0
        BY <1>1, <1>5, <3>2 DEF PlainStep, ReadStep, RenderStep, DeployStep
      <3>4. ASSUME Cur.op = "render", NEW i \in Blind(kind) \ Cur.miss PROVE seen'[i] # 0
        <4>1. RenderStep
          BY <1>5, <3>4 DEF PlainStep, ReadStep, DeployStep
        <4>2. Cur.miss = {} \/ Blind(kind) \subseteq Cur.miss
          BY <2>3, <3>1, <3>4, WiredFacts DEF Wired, WiredStep
        <4>3. Value(i) # 0
          BY <3>2, <3>4, <4>1, <4>2 DEF RenderStep
        <4> QED BY <1>1, <3>2, <4>3
      <3> QED BY <3>1, <3>3, <3>4
    <2> QED BY <2>1, <2>2, <2>3
  <1> QED BY <1>2, <1>3, <1>4, <1>5, StepCases

LEMMA PodsPastStep ==
  ASSUME ChangesWatched, TypeInv, InvPast, [Next]_vars
  PROVE  PodsPast'
  <1> DEFINE Loads == Hashed(kind) \cap Mounts[kind] \cap Inputs(kind)
             Good(r) ==
               /\ r.own \in [Rendered(kind) -> Versions]
               /\ NotNewer(r.tmpl.hash.own, r.own) /\ NotNewer(r.own, own')
               /\ \A i \in Loads :
                    /\ r.loads[i] \in Versions /\ r.loads[i] <= stamp'
                    /\ ver'[i] # 0 \/ i \notin Touched[kind] => r.loads[i] <= ver'[i]
                    /\ r.tmpl.hash.read[i] <= r.loads[i]
  <1>0. /\ kind' = kind /\ Rendered(kind)' = Rendered(kind) /\ Loads' = Loads
        /\ Versions' = Versions /\ Owns' = Owns
    BY Moves, SameKind
  <1>1. NotNewer(own, own') /\ own \in Owns /\ own' \in Owns
    BY OwnGrows
  <1>2. ASSUME NEW p \in Pods, Up(p) PROVE Good(pods[p])
    <2>1. /\ pods[p].own \in [Rendered(kind) -> Versions]
          /\ NotNewer(pods[p].tmpl.hash.own, pods[p].own) /\ NotNewer(pods[p].own, own)
          /\ \A i \in Loads :
               /\ pods[p].loads[i] \in Versions /\ Past(i, pods[p].loads[i])
               /\ pods[p].tmpl.hash.read[i] <= pods[p].loads[i]
      BY <1>2 DEF InvPast, PodsPast
    <2>2. NotNewer(pods[p].own, own')
      BY <1>1, <2>1, NotNewerTrans DEF Owns
    <2>3. \A i \in Loads :
            /\ pods[p].loads[i] <= stamp'
            /\ ver'[i] # 0 \/ i \notin Touched[kind] => pods[p].loads[i] <= ver'[i]
      BY <2>1, VersionNats, PastKeptAt
    <2> QED BY <2>1, <2>2, <2>3
  <1>3. ASSUME NEW p \in Pods, PodStart(p) PROVE Good(pods'[p])
    <2> DEFINE mounted == Mounts[kind] \cap Inputs(kind)
    <2>1. /\ pods' = [pods EXCEPT ![p] = [tmpl |-> tmpl, loads |-> [i \in mounted |-> ver[i]],
                                          own |-> own]]
          /\ tmpl # NoTmpl /\ own # Zero({}) /\ \A i \in mounted \ Optional : ver[i] # 0
          /\ UNCHANGED <<ver, own, stamp>>
      BY <1>3 DEF PodStart
    <2>2. pods'[p] = [tmpl |-> tmpl, loads |-> [i \in mounted |-> ver[i]], own |-> own]
      BY <2>1 DEF TypeInv, WorldType
    <2>3. own \in [Rendered(kind) -> Versions] /\ NotNewer(tmpl.hash.own, own)
      BY <1>1, <2>1 DEF Owns, InvPast, TemplatePast
    <2>4. ASSUME NEW i \in Loads
          PROVE  /\ ver[i] \in Versions /\ ver[i] <= stamp
                 /\ tmpl.hash.read[i] <= ver[i]
      <3>1. ver[i] \in Versions /\ ver[i] <= stamp
        BY DEF TypeInv, WorldType, InvPast, CachePast
      <3>2. Past(i, tmpl.hash.read[i])
        BY <2>1 DEF InvPast, TemplatePast
      <3>3. ver[i] # 0 \/ i \notin Touched[kind]
        BY <2>1, WiredFacts DEF ChangesWatched
      <3> QED BY <3>1, <3>2, <3>3 DEF Past
    <2>5. \A i \in Loads : ver[i] \in Nat /\ pods'[p].loads[i] = ver[i]
      BY <2>2, VersionNats
    <2>6. pods'[p].own = own /\ pods'[p].tmpl = tmpl
      BY <2>2
    <2>7. \A i \in Loads :
            /\ pods'[p].loads[i] \in Versions /\ pods'[p].loads[i] <= stamp'
            /\ ver'[i] # 0 \/ i \notin Touched[kind] => pods'[p].loads[i] <= ver'[i]
            /\ pods'[p].tmpl.hash.read[i] <= pods'[p].loads[i]
      <3> HIDE DEF Loads, mounted
      <3>1. ver' = ver /\ stamp' = stamp
        BY <2>1
      <3> QED BY <2>4, <2>5, <2>6, <3>1
    <2>8. /\ pods'[p].own \in [Rendered(kind) -> Versions]
          /\ NotNewer(pods'[p].tmpl.hash.own, pods'[p].own) /\ NotNewer(pods'[p].own, own')
      BY <1>1, <2>3, <2>6
    <2> QED BY <2>7, <2>8
  <1>4. ASSUME NEW p \in Pods, Up(p)' PROVE Good(pods'[p])
    <2>1. CASE pods'[p] = pods[p]
      <3>1. Up(p)
        BY <1>4, <2>1 DEF Up
      <3> QED BY <1>2, <2>1, <3>1
    <2>2. CASE pods'[p] # pods[p]
      <3>1. pods' # pods
        BY <2>2
      <3>2. PICK q \in Pods : PodStart(q) \/ PodStop(q)
        BY <3>1, PassReads DEF Next, vars, worldVars, Crash, RetryDue, DeliverCR, ParentStamp,
           EditSpec, DeleteCR, KeystoneRegisters, ParentRender, Change, Appear, Deliver
      <3>3. DOMAIN pods = Pods
        BY DEF TypeInv, WorldType
      <3>4. \E r : pods' = [pods EXCEPT ![q] = r] /\ (PodStop(q) => r = Down)
        BY <3>2 DEF PodStart, PodStop
      <3>5. q = p /\ (PodStop(q) => pods'[p] = Down)
        BY <2>2, <3>2, <3>3, <3>4
      <3>6. PodStart(p)
        BY <1>4, <3>2, <3>5 DEF Up
      <3> QED BY <1>3, <3>6
    <2> QED BY <2>1, <2>2
  <1>5. \A p \in Pods : Up(p)' => Good(pods'[p])
    BY <1>4
  <1> QED BY <1>0, <1>5 DEF PodsPast, Past, NotNewer

LEMMA PastInit == Init => InvPast
  <1> SUFFICES ASSUME Init PROVE InvPast
    OBVIOUS
  <1>1. kind \in Kinds /\ TypeInv
    BY InitType DEF Init
  <1>2. CachePast
    <2>1. /\ cr = [ann |-> 1, bus |-> 1, spec |-> 1, topo |-> NoTopology] /\ want = cr
          /\ crSeen = cr /\ stamp = 1 /\ seen = ver
      BY DEF Init
    <2>2. \A i \in Inputs(kind) : ver[i] \in {0, 1}
      BY DEF Init
    <2>3. crSeen.spec <= cr.spec /\ cr.spec <= want.spec /\ want.spec <= stamp
      BY <2>1
    <2>4. \A i \in Inputs(kind) : ver[i] <= stamp /\ Past(i, seen[i])
      BY <2>1, <2>2 DEF Past
    <2> QED BY <2>1, <2>3, <2>4 DEF CachePast
  <1>3. PassPast /\ OwnPast /\ TemplatePast /\ PodsPast /\ BlindSoFar
    BY DEF Init, PassPast, OwnPast, TemplatePast, PodsPast, BlindSoFar, Up
  <1> QED BY <1>2, <1>3 DEF InvPast

LEMMA PastStep ==
  ASSUME ChangesWatched, TypeInv, InvPast, [Next]_vars
  PROVE  InvPast'
  BY CachePastStep, PassPastStep, OwnPastStep, TemplatePastStep, BlindSoFarStep, PodsPastStep
  DEF InvPast

----------------------------------------------------------------------------
(* No change is missed: a reconcile that nothing has overtaken.             *)

\* Steps outside the reconcile that do not enqueue the CR.
LEMMA Unnoticed ==
  ASSUME TypeInv, [Next]_vars, ~(Pass \/ StepFails \/ Crash), ~queued'
  PROVE  /\ UNCHANGED <<kind, at, mine, got, now, status, own, tmpl, held, registered, pods,
                        crSeen, life, retry>> /\ ~queued
         /\ \A i \in Inputs(kind) \cap Watches[kind] : seen'[i] = seen[i]
  <1> USE DEF worldVars, cacheVars, queueVars, passVars
  <1>1. CASE \/ RetryDue \/ DeliverCR \/ DeleteCR \/ KeystoneRegisters
             \/ \E p \in Pods : PodStart(p) \/ PodStop(p)
    BY <1>1 DEF RetryDue, DeliverCR, DeleteCR, KeystoneRegisters, PodStart, PodStop
  <1>2. CASE \/ ParentStamp \/ EditSpec \/ UNCHANGED vars
             \/ \E b \in Buses : ParentRender(b)
             \/ \E i \in Inputs(kind) : Change(i) \/ Appear(i)
    <2>1. UNCHANGED <<kind, at, mine, got, now, status, own, tmpl, held, registered, pods,
                      crSeen, life, retry, queued, seen>>
      <3>1. CASE ParentStamp \/ EditSpec \/ UNCHANGED vars
        BY <3>1 DEF ParentStamp, EditSpec, vars
      <3>2. CASE \/ \E b \in Buses : ParentRender(b)
                 \/ \E i \in Inputs(kind) : Change(i) \/ Appear(i)
        BY <3>2 DEF ParentRender, Change, Appear
      <3> QED BY <1>2, <3>1, <3>2
    <2>2. queued' = queued
      BY <2>1
    <2>3. ~queued
      BY <2>2
    <2> QED BY <2>1, <2>3
  <1>3. ASSUME NEW i \in Inputs(kind), Deliver(i)
        PROVE  /\ UNCHANGED <<kind, at, mine, got, now, status, own, tmpl, held, registered,
                              pods, crSeen, life, retry>> /\ ~queued
               /\ \A j \in Inputs(kind) \cap Watches[kind] : seen'[j] = seen[j]
    <2>1. /\ UNCHANGED <<kind, at, mine, got, now, status, own, tmpl, held, registered,
                         pods, crSeen, life, retry>>
          /\ seen' = [seen EXCEPT ![i] = ver[i]] /\ queued' = (queued \/ i \in Watches[kind])
      BY <1>3 DEF Deliver
    <2>2. ~queued /\ i \notin Watches[kind]
      BY <2>1
    <2>3. seen \in [Inputs(kind) -> Versions]
      BY DEF TypeInv, WorldType
    <2> QED BY <2>1, <2>2, <2>3
  <1>4. CASE \E i \in Inputs(kind) : Deliver(i)
    BY <1>3, <1>4
  <1> QED BY <1>1, <1>2, <1>4 DEF Next

LEMMA CachedStays ==
  ASSUME ChangesWatched, TypeInv, CachePast, [Next]_vars, kind' = kind,
         UNCHANGED <<crSeen, own, tmpl>>,
         \A i \in Inputs(kind) \cap Watches[kind] : seen'[i] = seen[i]
  PROVE  /\ \A i \in Hashed(kind) : Cached(i)' = Cached(i)
         /\ OwnFresh => OwnFresh'
         /\ Pending => Pending'
  <1>1. ASSUME NEW i \in Hashed(kind) PROVE Cached(i)' = Cached(i)
    <2>1. i = "transport" \/ (i \in Inputs(kind) \cap Watches[kind] /\ i # "spec")
      BY WiredFacts
    <2> QED BY <2>1 DEF Cached
  <1>2. ASSUME OwnFresh PROVE OwnFresh'
    <2>1. own # Zero({}) /\ \A i \in Rendered(kind) : own[i] = Cached(i) /\ own[i] # 0
      BY <1>2 DEF OwnFresh
    <2>2. ASSUME NEW i \in Rendered(kind) PROVE Cached(i)' = Cached(i)
      <3>1. CASE i = "spec"
        BY <3>1 DEF Cached
      <3>2. CASE i # "spec"
        <4>1. i \in Inputs(kind) /\ i # "transport" /\ Cached(i) = seen[i]
          BY <3>2, WiredFacts, ValueFacts
        <4>2. seen'[i] = seen[i]
          <5>1. CASE i \in Watches[kind]
            BY <4>1, <5>1
          <5>2. CASE i \notin Watches[kind]
            <6>1. i \in Blind(kind)
              BY <3>2, <5>2, WiredFacts
            <6>2. seen[i] # 0
              BY <2>1, <4>1
            <6> QED BY <6>1, <6>2, BlindStays
          <5> QED BY <5>1, <5>2
        <4>3. Cached(i)' = seen'[i]
          BY <3>2, <4>1 DEF Cached
        <4> QED BY <4>1, <4>2, <4>3
      <3> QED BY <3>1, <3>2
    <2> QED BY <2>1, <2>2 DEF OwnFresh
  <1>3. Pending => Pending'
    <2>1. Rendered(kind) \cap Watches[kind] \subseteq Inputs(kind)
      BY WiredFacts
    <2> QED BY <2>1 DEF Pending
  <1> QED BY <1>1, <1>2, <1>3

LEMMA FreshStep ==
  ASSUME ChangesWatched, TypeInv, InvPast, FreshSoFar, [Next]_vars
  PROVE  FreshSoFar'
  <1>0. kind' = kind /\ Rendered(kind)' = Rendered(kind) /\ Hashed(kind)' = Hashed(kind)
    BY Moves
  <1> SUFFICES ASSUME at' > 0, ~mine'.del, ~queued' PROVE FreshSoFar'
    BY DEF FreshSoFar
  <1>1. CASE ~(Pass \/ StepFails \/ Crash)
    <2>1. /\ UNCHANGED <<at, mine, got, own, tmpl, crSeen>> /\ ~queued
          /\ \A i \in Inputs(kind) \cap Watches[kind] : seen'[i] = seen[i]
      BY <1>1, Unnoticed
    <2>2. /\ \A i \in Hashed(kind) : Cached(i)' = Cached(i)
          /\ OwnFresh => OwnFresh'
          /\ Pending => Pending'
      BY <1>0, <2>1, CachedStays DEF InvPast
    <2>3. Sound(kind) /\ at \in 1 .. Len(Program[kind])
      BY <2>1, StepFacts
    <2>4. \A n \in 1 .. (at - 1) : Program[kind][n].op = "read" => Program[kind][n].of \in Hashed(kind)
      BY <2>3 DEF Sound, Hashed, OfKind
    <2> QED BY <1>0, <2>1, <2>2, <2>4 DEF FreshSoFar
  <1>2. CASE Crash
    BY <1>2 DEF Crash, Idle
  <1>3. CASE Pass \/ StepFails
    <2>0. UNCHANGED <<seen, crSeen>> /\ \A i : Cached(i)' = Cached(i)
      BY <1>3, PassReads DEF Cached
    <2>1. CASE Ended
      BY <2>1 DEF Ended, Idle
    <2>2. CASE at = 0 /\ Aside
      BY <2>2 DEF Aside, passVars
    <2>3. CASE BeginStep
      <3>1. mine'.cr = crSeen /\ 1 .. (at' - 1) = {}
        BY <2>3 DEF BeginStep
      <3> QED BY <2>0, <3>1 DEF FreshSoFar
    <2>4. CASE PlainStep \/ ReadStep \/ RenderStep \/ DeployStep
      <3>0. at > 0 /\ at' = at + 1 /\ mine' = mine /\ ~mine.del /\ ~queued
        <4>1. at > 0 /\ at' = at + 1 /\ mine' = mine
          BY <2>4 DEF PlainStep, ReadStep, RenderStep, DeployStep, StepOn
        <4>2. queued' = queued \/ queued' = (queued \/ tmpl' # tmpl)
          BY <2>4 DEF PlainStep, ReadStep, RenderStep, DeployStep
        <4>3. ~queued
          BY <4>2
        <4> QED BY <4>1, <4>3
      <3>1. /\ mine.cr = crSeen
            /\ \A n \in 1 .. (at - 1) :
                 /\ Program[kind][n].op = "read" =>
                      got.read[Program[kind][n].of] = Cached(Program[kind][n].of)
                 /\ Program[kind][n].op = "render" => (got.own = own /\ OwnFresh) \/ Pending
                 /\ Program[kind][n].op = "deploy" => tmpl # NoTmpl /\ tmpl.hash = got
        BY <3>0 DEF FreshSoFar
      <3>2. Cur = Program[kind][at] /\ at \in 1 .. Len(Program[kind]) /\ Sound(kind)
        BY <3>0, StepFacts
      <3>3. \A n \in 1 .. (at' - 1) : n \in 1 .. (at - 1) \/ n = at
        BY <1>0, <3>0, SoFar
      <3>4. \A n \in 1 .. (at - 1) : n \in 1 .. Len(Program[kind]) /\ n # at
        BY <1>0, <3>0, SoFar
      <3>5. \A n \in 1 .. (at' - 1) : Program[kind][n].op = "read" =>
              /\ Program[kind][n].of \in Hashed(kind)
              /\ n # at /\ Cur.op = "read" => Program[kind][n].of # Cur.of
        BY <3>2, <3>3, <3>4 DEF Sound, Hashed, OfKind
      <3> SUFFICES ASSUME NEW n \in 1 .. (at' - 1)
                   PROVE  /\ Program[kind][n].op = "read" =>
                               got'.read[Program[kind][n].of] = Cached(Program[kind][n].of)
                          /\ Program[kind][n].op = "render" =>
                               (got'.own = own' /\ OwnFresh') \/ Pending'
                          /\ Program[kind][n].op = "deploy" => tmpl' # NoTmpl /\ tmpl'.hash = got'
        BY <1>0, <2>0, <3>0, <3>1 DEF FreshSoFar
      <3>6. CASE PlainStep
        <4>1. UNCHANGED <<got, own, tmpl>> /\ Cur.op \notin {"read", "render", "deploy"}
          BY <3>0, <3>6 DEF PlainStep
        <4>2. (OwnFresh => OwnFresh') /\ (Pending => Pending')
          BY <1>0, <2>0, <4>1 DEF OwnFresh, Pending
        <4> QED BY <3>1, <3>2, <3>3, <4>1, <4>2
      <3>7. CASE ReadStep
        <4>1. UNCHANGED <<own, tmpl>> /\ Cur.op = "read"
          BY <3>7 DEF ReadStep
        <4>2. got' = [got EXCEPT !.read[Cur.of] = Value(Cur.of)]
          BY <3>7 DEF ReadStep
        <4>3. /\ got'.own = got.own
              /\ \A i \in Hashed(kind) :
                   got'.read[i] = IF i = Cur.of THEN Value(Cur.of) ELSE got.read[i]
          BY <3>0, <4>2, Kept DEF Hashes
        <4>4. (OwnFresh => OwnFresh') /\ (Pending => Pending')
          BY <1>0, <2>0, <4>1 DEF OwnFresh, Pending
        <4>5. Value(Cur.of) = Cached(Cur.of)
          BY <3>1 DEF Value, Cached
        <4>6. Program[kind][n].op # "deploy"
          BY <1>0, <3>0, <4>1, NotDeployed
        <4> QED BY <3>1, <3>2, <3>3, <3>5, <4>1, <4>3, <4>4, <4>5, <4>6
      <3>8. CASE RenderStep
        <4>1. UNCHANGED tmpl /\ Cur.op = "render"
          BY <3>8 DEF RenderStep
        <4>2. Program[kind][n].op # "deploy"
          BY <1>0, <3>0, <4>1, NotDeployed
        <4>3. CASE /\ own' = [i \in Rendered(kind) |-> Value(i)]
                   /\ got' = [got EXCEPT !.own = own']
                   /\ \A i \in Rendered(kind) : Value(i) # 0
          <5>1. got'.own = own' /\ got'.read = got.read
            BY <3>0, <4>3, Kept DEF Hashes
          <5>2. \A i \in Rendered(kind) : own'[i] = Cached(i) /\ own'[i] # 0
            BY <3>1, <4>3 DEF Value, Cached
          <5>3. own' # Zero({})
            <6>1. DOMAIN own' = Rendered(kind)
              BY <4>3
            <6> QED BY <6>1, WiredFacts DEF Zero
          <5>4. OwnFresh'
            BY <1>0, <2>0, <5>2, <5>3 DEF OwnFresh
          <5> QED BY <3>1, <3>2, <3>3, <4>1, <4>2, <5>1, <5>4
        <4>4. CASE UNCHANGED <<own, got>> /\ \E i \in Cur.miss : Value(i) = 0
          <5>1. PICK i \in Cur.miss : Value(i) = 0
            BY <4>4
          <5>2. i \in Rendered(kind) /\ i # "spec"
            BY <3>2, <4>1, WiredFacts DEF Wired, WiredStep
          <5>3. i \in Inputs(kind) /\ seen[i] = 0
            BY <5>1, <5>2, WiredFacts, ValueFacts
          <5>4. Pending
            <6>1. CASE i \in Watches[kind]
              BY <5>2, <5>3, <6>1 DEF Pending
            <6>2. CASE i \notin Watches[kind]
              <7>1. i \in Blind(kind)
                BY <5>2, <6>2, WiredFacts
              <7> QED BY <5>3, <7>1 DEF InvPast, TemplatePast, Pending
            <6> QED BY <6>1, <6>2
          <5>5. Pending'
            BY <1>0, <2>0, <4>1, <5>4 DEF Pending
          <5> QED BY <3>1, <3>2, <3>3, <4>1, <4>2, <4>4, <5>5
        <4> QED BY <3>8, <4>3, <4>4 DEF RenderStep
      <3>9. CASE DeployStep
        <4>1. /\ UNCHANGED <<got, own>> /\ tmpl' = tmpl /\ Cur.op = "deploy"
              /\ tmpl' = [hash |-> got, topo |-> mine.cr.topo]
          BY <3>0, <3>9 DEF DeployStep
        <4>2. (OwnFresh => OwnFresh') /\ (Pending => Pending')
          BY <1>0, <2>0, <4>1 DEF OwnFresh, Pending
        <4>3. got.read \in [Hashed(kind) -> Versions]
          BY <3>0, Kept
        <4>4. tmpl' # NoTmpl /\ tmpl'.hash = got'
          BY <4>1, <4>3, NotUnset
        <4> QED BY <3>1, <3>2, <3>3, <4>1, <4>2, <4>4
      <3> QED BY <2>4, <3>6, <3>7, <3>8, <3>9
    <2> QED BY <1>3, <2>1, <2>2, <2>3, <2>4, PassCases
  <1> QED BY <1>1, <1>2, <1>3

\* What a controller notes are inputs of it.
LEMMA NotedInputs ==
  ASSUME TypeInv
  PROVE  /\ \A n \in 1 .. Len(Program[kind]) :
              Program[kind][n].op = "note" => Program[kind][n].of \in {"predip", "rndc"}
         /\ Noted(kind) \subseteq {"predip", "rndc"} /\ Noted(kind) \subseteq Inputs(kind)
  <1>1. Sound(kind)
    BY WiredFacts
  <1>2. \A n \in 1 .. Len(Program[kind]) :
          Program[kind][n].op = "note" => Program[kind][n].of \in {"predip", "rndc"}
    BY <1>1 DEF Sound, StepOK
  <1>3. Noted(kind) \subseteq {"predip", "rndc"}
    BY <1>1, <1>2 DEF Noted, OfKind, Sound
  <1>4. Noted(kind) \subseteq Inputs(kind)
    BY <1>3 DEF Inputs, InSpec
  <1> QED BY <1>2, <1>3, <1>4

LEMMA NotedStep ==
  ASSUME TypeInv, NotedSoFar, [Next]_vars
  PROVE  NotedSoFar'
  <1>0. kind' = kind /\ Watches' = Watches
    BY Moves DEF Watches
  <1> SUFFICES ASSUME at' > 0, ~mine'.del, ~queued' PROVE NotedSoFar'
    BY DEF NotedSoFar
  <1>1. CASE ~(Pass \/ StepFails \/ Crash)
    <2>1. /\ UNCHANGED <<at, mine, now>> /\ ~queued
          /\ \A i \in Inputs(kind) \cap Watches[kind] : seen'[i] = seen[i]
      BY <1>1, Unnoticed
    <2>2. at \in 1 .. Len(Program[kind]) /\ Len(Program[kind]) \in Nat
      BY <2>1, StepFacts DEF Sound
    <2>3. \A n \in 1 .. (at - 1) :
            Program[kind][n].op = "note" => Program[kind][n].of \in Inputs(kind)
      BY <2>2, NotedInputs DEF Inputs, InSpec, Noted, OfKind
    <2> QED BY <1>0, <2>1, <2>3 DEF NotedSoFar
  <1>2. CASE Crash
    BY <1>2 DEF Crash, Idle
  <1>3. CASE Pass \/ StepFails
    <2>0. UNCHANGED seen
      BY <1>3, PassReads
    <2>1. CASE Ended
      BY <2>1 DEF Ended, Idle
    <2>2. CASE at = 0 /\ Aside
      BY <2>2 DEF Aside, passVars
    <2>3. CASE BeginStep
      <3>1. 1 .. (at' - 1) = {}
        BY <2>3 DEF BeginStep
      <3> QED BY <3>1 DEF NotedSoFar
    <2>4. CASE PlainStep \/ ReadStep \/ RenderStep \/ DeployStep
      <3>1. at > 0 /\ at' = at + 1 /\ mine' = mine /\ ~mine.del
        BY <2>4 DEF PlainStep, ReadStep, RenderStep, DeployStep, StepOn
      <3>2. ~queued
        <4>1. queued' = queued \/ queued' = (queued \/ tmpl' # tmpl)
          BY <2>4 DEF PlainStep, ReadStep, RenderStep, DeployStep
        <4> QED BY <4>1
      <3>3. Cur = Program[kind][at] /\ at \in 1 .. Len(Program[kind])
        BY <3>1, StepFacts
      <3>4. NotesStep
        BY <2>4 DEF PlainStep, ReadStep, RenderStep, DeployStep, NotesStep
      <3>5. now.notes \in [{"predip", "rndc"} -> Versions]
        BY <3>1, Kept DEF Statuses
      <3> SUFFICES ASSUME NEW n \in 1 .. (at' - 1), Program[kind][n].op = "note",
                          Program[kind][n].of \in Watches[kind]
                   PROVE  now'.notes[Program[kind][n].of] = seen[Program[kind][n].of]
        BY <1>0, <2>0 DEF NotedSoFar
      <3>6. n \in 1 .. (at - 1) \/ n = at
        BY <1>0, <3>1, SoFar
      <3>7. Program[kind][n].of \in {"predip", "rndc"} /\ Program[kind][n].of # "spec"
        <4>1. n \in 1 .. Len(Program[kind])
          BY <1>0, <3>1, <3>3, <3>6, SoFar
        <4> QED BY <4>1, NotedInputs
      <3>8. Value(Program[kind][n].of) = seen[Program[kind][n].of]
        BY <3>7 DEF Value
      <3>9. CASE n = at
        BY <3>3, <3>4, <3>5, <3>7, <3>8, <3>9 DEF NotesStep
      <3>10. CASE n \in 1 .. (at - 1)
        <4>1. now.notes[Program[kind][n].of] = seen[Program[kind][n].of]
          BY <3>1, <3>2, <3>10 DEF NotedSoFar
        <4> QED BY <3>4, <3>5, <3>7, <3>8, <4>1 DEF NotesStep
      <3> QED BY <3>6, <3>9, <3>10
    <2> QED BY <1>3, <2>1, <2>2, <2>3, <2>4, PassCases
  <1> QED BY <1>1, <1>2, <1>3

----------------------------------------------------------------------------
(* No change is missed: how a reconcile ends.                               *)

\* The last reconcile has found the status as it leaves it.
LEMMA LastReturn ==
  ASSUME NEW s, NEW again, Return(s, again), ~queued', ~retry', life' = "live"
  PROVE  ~queued /\ s = status /\ ~again /\ status' = s /\ life = "live"
  <1>1. queued' = (queued \/ s # status) /\ retry' = (retry \/ again) /\ status' = s
    BY DEF Return
  <1>2. life' = IF s.fin THEN life ELSE "gone"
    BY DEF Return
  <1>3. ~queued /\ s = status /\ ~again
    BY <1>1
  <1>4. life = "live"
    BY <1>2
  <1> QED BY <1>1, <1>3, <1>4

\* What the check of the workload returns.
LEMMA CheckReturns ==
  ASSUME TypeInv, CheckWorkload
  PROVE  \E ready \in ReadyForInput(Cur.of), again \in BOOLEAN, s \in Statuses :
           /\ Return(s, again) /\ s.ready = ready /\ s.notes = now.notes
           /\ ready /\ Cur.of = "readyForInput" => s.applied = mine.cr.ann
  <1>1. at > 0
    BY Undeleted DEF CheckWorkload
  <1>2. \A how : ReadyForInput(how) \subseteq BOOLEAN
    BY DEF ReadyForInput
  <1>3. PICK ready \in ReadyForInput(Cur.of), again \in BOOLEAN :
          Return([now EXCEPT
                    !.ready = ready,
                    !.applied = IF ready /\ Cur.of = "readyForInput" THEN mine.cr.ann ELSE @],
                 again)
    BY DEF CheckWorkload
  <1> DEFINE s == [now EXCEPT
                    !.ready = ready,
                    !.applied = IF ready /\ Cur.of = "readyForInput" THEN mine.cr.ann ELSE @]
  <1>4. mine.cr.ann \in Versions
    BY DEF TypeInv, PassType, CRs
  <1>5. /\ s \in Statuses /\ s.ready = ready /\ s.notes = now.notes
        /\ ready /\ Cur.of = "readyForInput" => s.applied = mine.cr.ann
    BY <1>1, <1>2, <1>4, Kept DEF Statuses
  <1>6. Return(s, again)
    BY <1>3
  <1> HIDE DEF s
  <1> QED BY <1>5, <1>6

\* A reconcile that has come to its last step and that nothing has overtaken.
LEMMA CheckedFresh ==
  ASSUME TypeInv, FreshSoFar, NotedSoFar, at > 0, ~mine.del, ~queued, Cur.op = "check"
  PROVE  /\ mine.cr = crSeen /\ tmpl # NoTmpl /\ Cur.of = How
         /\ \A i \in Hashed(kind) : tmpl.hash.read[i] = Cached(i)
         /\ \A i \in Remarked : now.notes[i] = seen[i]
         /\ \/ tmpl.hash.own = own /\ OwnFresh
            \/ \E i \in Required(kind) \cap Watches[kind] : seen[i] = 0
  <1> DEFINE P == Program[kind]
  <1>1. /\ Cur = P[at] /\ at \in 1 .. Len(P) /\ Sound(kind) /\ Len(P) \in Nat
        /\ DOMAIN P = 1 .. Len(P) /\ Wired(kind, Watches[kind], Rendered(kind))
    BY StepFacts, WiredFacts DEF Sound
  <1>2. PICK h : \A n \in 1 .. Len(P) : StepOK(P[n], kind, n, h)
    BY <1>1 DEF Sound
  <1>3. at = Len(P)
    BY <1>1, <1>2 DEF StepOK
  <1>4. \A n \in 1 .. Len(P) : P[n].op # "check" => n \in 1 .. (at - 1)
    BY <1>1, <1>3
  <1>5. /\ mine.cr = crSeen
        /\ \A n \in 1 .. (at - 1) :
             /\ P[n].op = "read" => got.read[P[n].of] = Cached(P[n].of)
             /\ P[n].op = "render" => (got.own = own /\ OwnFresh) \/ Pending
             /\ P[n].op = "deploy" => tmpl # NoTmpl /\ tmpl.hash = got
    BY DEF FreshSoFar
  <1>6. (got.own = own /\ OwnFresh) \/ Pending
    <2>1. PICK n \in 1 .. Len(P) : P[n].op = "render"
      BY <1>1 DEF Wired
    <2> QED BY <1>4, <1>5, <2>1
  <1>7. tmpl # NoTmpl /\ tmpl.hash = got
    <2>1. PICK n \in 1 .. Len(P) : P[n].op = "render"
      BY <1>1 DEF Wired
    <2>2. n \in 1 .. (at - 1)
      BY <1>4, <2>1
    <2>3. at - 1 \in 1 .. Len(P) /\ (at - 1) + 1 = Len(P) /\ at - 1 \in 1 .. (at - 1)
      BY <1>1, <1>3, <2>2
    <2>4. P[at - 1].op = "deploy"
      BY <1>2, <2>3 DEF StepOK
    <2> QED BY <1>5, <2>3, <2>4
  <1>8. ASSUME NEW i \in Hashed(kind) PROVE got.read[i] = Cached(i)
    <2>1. PICK n \in DOMAIN P : P[n].op = "read" /\ P[n].of = i
      BY DEF Hashed, OfKind
    <2> QED BY <1>1, <1>4, <1>5, <2>1
  <1>9. Pending => \E i \in Required(kind) \cap Watches[kind] : seen[i] = 0
    <2>1. Rendered(kind) \cap Watches[kind] \subseteq Required(kind)
      BY WiredFacts
    <2> QED BY <1>7, <2>1 DEF Pending
  <1>10. Cur.of = How
    BY <1>1, <1>3 DEF How
  <1>11. ASSUME NEW i \in Remarked PROVE now.notes[i] = seen[i]
    <2>1. PICK n \in DOMAIN P : P[n].op = "note" /\ P[n].of = i
      BY DEF Remarked, Noted, OfKind
    <2>2. n \in 1 .. (at - 1) /\ i \in Watches[kind]
      BY <1>1, <1>4, <2>1 DEF Remarked
    <2> QED BY <2>1, <2>2 DEF NotedSoFar
  <1> QED BY <1>5, <1>6, <1>7, <1>8, <1>9, <1>10, <1>11

\* A certificate that a controller cannot go on without.
LEMMA MissingWatched ==
  ASSUME TypeInv, at > 0, ~mine.del, Cur.op = "read", Cur.miss = "return", Value(Cur.of) = 0
  PROVE  \E i \in Required(kind) \cap Watches[kind] : seen[i] = 0
  <1>1. Cur = Program[kind][at] /\ at \in 1 .. Len(Program[kind]) /\ at \in DOMAIN Program[kind]
    BY StepFacts DEF Sound
  <1>2. Cur.of \in {"ca", "cert"} /\ Cur.of \in Watches[kind] \cup {"transport"}
    BY <1>1, WiredFacts DEF Wired, WiredStep
  <1>3. Cur.of \in Insisted(kind) /\ Cur.of \in Hashed(kind)
    BY <1>1 DEF Insisted, Hashed, OfKind
  <1>4. Cur.of \in Inputs(kind) /\ seen[Cur.of] = 0
    BY <1>2, <1>3, WiredFacts, ValueFacts
  <1>5. Cur.of \in Required(kind) /\ Cur.of \in Watches[kind]
    BY <1>2, <1>3, <1>4 DEF Required, Optional
  <1> QED BY <1>4, <1>5

\* The ends of a reconcile without a retry or a change of the status.
LEMMA RestReturn ==
  ASSUME ChangesWatched, TypeInv, InvPast, FreshSoFar, NotedSoFar, Pass \/ StepFails,
         at > 0, at' = 0, ~queued', ~retry', life' = "live"
  PROVE  Rest'
  <1>0. /\ UNCHANGED <<kind, seen, crSeen, pods, registered>>
        /\ \A i : Cached(i)' = Cached(i)
    BY PassReads DEF Cached
  <1>1. at \in Nat
    BY StepFacts DEF TypeInv, PassType, Sound, CleanupOK
  <1>2. ~Advance /\ at' # at + 1 /\ ~Begin
    BY <1>1 DEF Advance, Begin
  <1>3. now \in Statuses /\ status \in Statuses /\ now.hash = status.hash
    BY Kept DEF InvPast, PassPast
  <1>4. ASSUME \E i \in Required(kind) \cap Watches[kind] : seen[i] = 0 PROVE Rest'
    BY <1>0, <1>4 DEF Rest
  <1>5. CASE ReadInput
    <2>1. at > 0 /\ ~mine.del /\ Cur.op = "read"
      BY <1>5, Undeleted DEF ReadInput
    <2>2. Return(now, Cur.miss # "return") /\ Value(Cur.of) = 0
      BY <1>2, <1>5 DEF ReadInput
    <2>3. Cur.miss = "return"
      BY <2>2, LastReturn
    <2> QED BY <1>4, <2>1, <2>2, <2>3, MissingWatched
  <1>6. CASE NeedInput
    <2>1. at > 0 /\ ~mine.del /\ Cur.op = "need"
      BY <1>6, Undeleted DEF NeedInput
    <2>2. Return(now, Cur.miss # "return")
      BY <1>2, <1>6 DEF NeedInput
    <2>3. Cur.miss = "return"
      BY <2>2, LastReturn
    <2>4. Cur = Program[kind][at] /\ at \in 1 .. Len(Program[kind])
      BY <2>1, StepFacts
    <2> QED BY <2>1, <2>3, <2>4, WiredFacts DEF Wired, WiredStep
  <1>7. CASE RenderConfig \/ NoteInput \/ StepFails
    <2>1. Return(now, TRUE)
      BY <1>2, <1>7 DEF RenderConfig, NoteInput, StepFails
    <2> QED BY <2>1, LastReturn
  <1>8. CASE HashInputs
    <2>1. Return([now EXCEPT !.hash = got], FALSE) /\ now.hash # got
      BY <1>2, <1>8 DEF HashInputs
    <2>2. [now EXCEPT !.hash = got] = status
      BY <2>1, LastReturn
    <2>3. [now EXCEPT !.hash = got].hash = got
      BY <1>3 DEF Statuses
    <2> QED BY <1>3, <2>1, <2>2, <2>3
  <1>9. CASE RecheckNotes
    <2>1. Return(now, FALSE) /\ now.notes # status.notes
      BY <1>2, <1>9 DEF RecheckNotes
    <2> QED BY <2>1, LastReturn
  <1>10. CASE RegisterService
    <2>1. ~registered /\ {"service", "endpoint"} \subseteq held'
      BY <1>2, <1>10 DEF RegisterService
    <2> QED BY <1>0, <2>1 DEF Rest
  <1>11. CASE CheckWorkload
    <2>1. at > 0 /\ ~mine.del /\ Cur.op = "check" /\ UNCHANGED <<own, tmpl>>
      BY <1>11, Undeleted DEF CheckWorkload
    <2>2. PICK ready \in ReadyForInput(Cur.of), again \in BOOLEAN, s \in Statuses :
            /\ Return(s, again) /\ s.ready = ready /\ s.notes = now.notes
            /\ ready /\ Cur.of = "readyForInput" => s.applied = mine.cr.ann
      BY <1>11, CheckReturns
    <2>3. ~queued /\ status' = s
      BY <2>2, LastReturn
    <2>4. /\ mine.cr = crSeen /\ tmpl # NoTmpl /\ Cur.of = How
          /\ \A i \in Hashed(kind) : tmpl.hash.read[i] = Cached(i)
          /\ \A i \in Remarked : now.notes[i] = seen[i]
          /\ \/ tmpl.hash.own = own /\ OwnFresh
             \/ \E i \in Required(kind) \cap Watches[kind] : seen[i] = 0
      BY <2>1, <2>3, CheckedFresh
    <2>5. CASE tmpl.hash.own = own /\ OwnFresh
      <3>1. OwnFresh'
        BY <1>0, <2>1, <2>5 DEF OwnFresh
      <3>2. How' = How
        BY <1>0 DEF How
      <3>3. ReadyForInput(How)' = ReadyForInput(How)
        BY <1>0, <2>1, <3>2 DEF ReadyForInput, Up
      <3>4. status'.ready \in ReadyForInput(How)'
        BY <2>2, <2>3, <2>4, <3>3
      <3>5. status'.ready /\ How' = "readyForInput" => status'.applied = crSeen'.ann
        BY <1>0, <2>2, <2>3, <2>4, <3>2
      <3>6. \A i \in Hashed(kind)' : tmpl'.hash.read[i] = Cached(i)'
        BY <1>0, <2>1, <2>4
      <3>7. tmpl' # NoTmpl /\ tmpl'.hash.own = own'
        BY <2>1, <2>4, <2>5
      <3>8. \A i \in Remarked' : status'.notes[i] = seen'[i]
        BY <1>0, <2>2, <2>3, <2>4 DEF Remarked
      <3> QED BY <3>1, <3>4, <3>5, <3>6, <3>7, <3>8 DEF Rest, RolledOutFresh
    <2> QED BY <1>4, <2>4, <2>5
  <1>12. CASE ReleaseHeld
    <2>1. at > 0 /\ Cur.op = "release"
      BY <1>12 DEF ReleaseHeld, Doing, Cur
    <2>2. mine.del
      <3>1. CASE ~mine.del
        <4>1. PICK h : StepOK(Cur, kind, at, h)
          BY <2>1, <3>1, StepFacts DEF Sound
        <4> QED BY <2>1, <4>1 DEF StepOK
      <3> QED BY <3>1
    <2>3. \E s : Return(s, FALSE)
      BY <1>2, <1>12 DEF ReleaseHeld
    <2>4. life = "live"
      BY <2>3, LastReturn
    <2> QED BY <2>1, <2>2, <2>4 DEF InvPast, PassPast
  <1>13. ~(MarkInputReady \/ ApplyServices \/ EnsureTopology \/ ApplyWorkload)
    BY <1>2 DEF MarkInputReady, ApplyServices, EnsureTopology, ApplyWorkload
  <1> QED BY <1>2, <1>5, <1>6, <1>7, <1>8, <1>9, <1>10, <1>11, <1>12, <1>13 DEF Pass

LEMMA RestStep ==
  ASSUME ChangesWatched, TypeInv, InvPast, FreshSoFar, NotedSoFar, Rest, [Next]_vars
  PROVE  Rest'
  <1> SUFFICES ASSUME at' = 0, ~queued', ~retry', life' = "live" PROVE Rest'
    BY DEF Rest
  <1>1. CASE ~(Pass \/ StepFails \/ Crash)
    <2>1. /\ UNCHANGED <<kind, at, status, own, tmpl, held, registered, pods, crSeen, life, retry>>
          /\ ~queued /\ \A i \in Inputs(kind) \cap Watches[kind] : seen'[i] = seen[i]
      BY <1>1, Unnoticed
    <2>2. ~retry
      <3>1. retry' = retry
        BY <2>1
      <3> QED BY <3>1
    <2>3. \/ \E i \in Required(kind) \cap Watches[kind] : seen[i] = 0
          \/ ~registered /\ {"service", "endpoint"} \subseteq held
          \/ RolledOutFresh
      BY <2>1, <2>2 DEF Rest
    <2>4. /\ \A i \in Hashed(kind) : Cached(i)' = Cached(i)
          /\ OwnFresh => OwnFresh'
      BY <2>1, CachedStays DEF InvPast
    <2>5. CASE \E i \in Required(kind) \cap Watches[kind] : seen[i] = 0
      <3>1. Required(kind) \subseteq Inputs(kind)
        BY DEF Required
      <3> QED BY <2>1, <2>5, <3>1 DEF Rest
    <2>6. CASE ~registered /\ {"service", "endpoint"} \subseteq held
      <3>1. ~registered'
        <4>1. registered' = registered
          BY <2>1
        <4> QED BY <2>6, <4>1
      <3>2. {"service", "endpoint"} \subseteq held'
        BY <2>1, <2>6
      <3> QED BY <3>1, <3>2 DEF Rest
    <2>7. CASE RolledOutFresh
      <3>1. How' = How
        BY <2>1 DEF How
      <3>2. ReadyForInput(How)' = ReadyForInput(How)
        BY <2>1, <3>1 DEF ReadyForInput, Up
      <3>3. \A i \in Remarked' : status'.notes[i] = seen'[i]
        <4>1. Remarked' = Remarked /\ Remarked \subseteq Inputs(kind) \cap Watches[kind]
          BY <2>1, NotedInputs DEF Remarked
        <4> QED BY <2>1, <2>7, <4>1 DEF RolledOutFresh
      <3> QED BY <2>1, <2>4, <2>7, <3>1, <3>2, <3>3 DEF RolledOutFresh, Rest
    <2> QED BY <2>3, <2>5, <2>6, <2>7
  <1>2. CASE Crash
    BY <1>2 DEF Crash
  <1>3. CASE Pass \/ StepFails
    <2>1. CASE at > 0
      BY <1>3, <2>1, RestReturn
    <2>2. CASE ~(at > 0)
      <3>1. at = 0
        BY <2>2 DEF TypeInv, PassType
      <3>2. Begin
        BY <1>3, <2>2 DEF Pass, StepFails, Doing, ReadInput, NeedInput, RenderConfig,
           HashInputs, NoteInput, RecheckNotes, MarkInputReady, ApplyServices,
           RegisterService, EnsureTopology, ApplyWorkload, CheckWorkload, ReleaseHeld
      <3>3. UNCHANGED queued /\ queued
        BY <3>2 DEF Begin
      <3> QED BY <3>3
    <2> QED BY <2>1, <2>2
  <1> QED BY <1>1, <1>2, <1>3

\* Quiet, with the inputs there: what is rolled out is what there is.
LEMMA RestUpToDate ==
  ASSUME ChangesWatched, TypeInv, InvPast, Rest
  PROVE  NoChangeMissed
  <1> SUFFICES ASSUME Quiet, Present PROVE UpToDate
    BY DEF NoChangeMissed
  <1>1. at = 0 /\ ~queued /\ ~retry /\ life = "live" /\ seen = ver /\ crSeen = cr
    BY DEF Quiet
  <1>2. RolledOutFresh
    <2>1. ~(\E i \in Required(kind) \cap Watches[kind] : seen[i] = 0)
      BY <1>1 DEF Present
    <2>2. ~(~registered /\ {"service", "endpoint"} \subseteq held)
      BY DEF Quiet
    <2> QED BY <1>1, <2>1, <2>2 DEF Rest
  <1>3. \A i : Cached(i) = Current(i)
    BY <1>1 DEF Cached, Current
  <1>4. /\ tmpl # NoTmpl /\ tmpl.hash.own = own /\ own # Zero({})
        /\ \A i \in Rendered(kind) : own[i] = Current(i)
        /\ \A i \in Hashed(kind) : tmpl.hash.read[i] = Current(i)
    BY <1>2, <1>3 DEF RolledOutFresh, OwnFresh
  <1>5. \A p \in Pods : Up(p) /\ pods[p].tmpl = tmpl
    BY <1>4 DEF Quiet
  <1>6. status.ready
    <2>1. status.ready \in ReadyForInput(How)
      BY <1>2 DEF RolledOutFresh
    <2>2. ReadyForInput(How) = {TRUE}
      <3>1. (\A p \in Pods : Up(p)) = TRUE /\ (\A p \in Pods : pods[p].tmpl = tmpl) = TRUE
        BY <1>5
      <3> QED BY <3>1 DEF ReadyForInput
    <2> QED BY <2>1, <2>2
  <1>7. Check("readyForInput") \in OfKind(kind, {"check"}) => status.applied = cr.ann
    <2> SUFFICES ASSUME Check("readyForInput") \in OfKind(kind, {"check"})
                 PROVE  status.applied = cr.ann
      OBVIOUS
    <2>1. PICK n \in DOMAIN Program[kind] :
            Program[kind][n].op = "check" /\ Program[kind][n] = Check("readyForInput")
      BY DEF OfKind
    <2>2. Sound(kind) /\ n \in 1 .. Len(Program[kind])
      BY <2>1, WiredFacts DEF Sound
    <2>3. n = Len(Program[kind])
      BY <2>1, <2>2 DEF Sound, StepOK
    <2>4. How = "readyForInput"
      BY <2>1, <2>3, Ops DEF How
    <2> QED BY <1>1, <1>2, <1>6, <2>4 DEF RolledOutFresh
  <1>8. ASSUME NEW p \in Pods, NEW i \in Hashed(kind) \cap Mounts[kind]
        PROVE  pods[p].loads[i] = ver[i]
    <2>1. i \in Inputs(kind) /\ i \in Watches[kind] \cup {"transport"}
      BY WiredFacts
    <2>2. i \notin {"spec", "transport"}
      BY <2>1, WiredFacts
    <2>3. tmpl.hash.read[i] = ver[i]
      BY <1>4, <2>2 DEF Current
    <2>4. /\ pods[p].loads[i] \in Versions /\ Past(i, pods[p].loads[i])
          /\ ver[i] <= pods[p].loads[i]
      BY <1>5, <2>1, <2>3 DEF InvPast, PodsPast
    <2>5. ver[i] # 0 \/ i \notin Touched[kind]
      <3>1. i \in Required(kind) \/ i \in Optional
        BY <2>1 DEF Required
      <3> QED BY <3>1, WiredFacts DEF Present, ChangesWatched
    <2>6. ver[i] \in Nat /\ pods[p].loads[i] \in Nat
      BY <2>1, <2>4, VersionNats
    <2> QED BY <2>4, <2>5, <2>6 DEF Past
  <1>9. ASSUME NEW p \in Pods, NEW i \in Rendered(kind)
        PROVE  pods[p].own[i] = Current(i)
    <2>1. /\ pods[p].own \in [Rendered(kind) -> Versions]
          /\ NotNewer(own, pods[p].own) /\ NotNewer(pods[p].own, own)
      BY <1>4, <1>5 DEF InvPast, PodsPast
    <2>2. pods[p].own # Zero({}) /\ pods[p].own[i] \in Nat /\ own[i] \in Nat
      BY <1>4, <2>1, Contents, VersionNats
    <2>3. own[i] <= pods[p].own[i] /\ pods[p].own[i] <= own[i]
      BY <1>4, <2>1, <2>2 DEF NotNewer
    <2> QED BY <1>4, <2>2, <2>3
  <1>10. \A i \in Remarked : status.notes[i] = ver[i]
    BY <1>1, <1>2 DEF RolledOutFresh
  <1> QED BY <1>4, <1>5, <1>6, <1>7, <1>8, <1>9, <1>10 DEF UpToDate

InvMissed == InvPast /\ FreshSoFar /\ NotedSoFar /\ Rest

\* When a controller has come to rest and its inputs exist, the service's pods
\* run the current ones of those that are hashed or rendered and the CR says
\* so, and its status holds the current hash of those that are watched but only
\* noted (pods need not run these).  This whatever the caches showed while a
\* reconcile ran, whichever inputs were missing, deleted and created again, and
\* wherever writes failed, pods were lost or the manager restarted.
THEOREM NothingMissed == ChangesWatched /\ Spec => []NoChangeMissed
  <1> SUFFICES ASSUME ChangesWatched PROVE Spec => []NoChangeMissed
    OBVIOUS
  <1>1. Init => TypeInv /\ InvMissed
    <2>1. Init => FreshSoFar /\ NotedSoFar /\ Rest
      BY DEF Init, FreshSoFar, NotedSoFar, Rest
    <2> QED BY <2>1, InitType, PastInit DEF InvMissed
  <1>2. TypeInv /\ InvMissed /\ [Next]_vars => TypeInv' /\ InvMissed'
    BY TypeStep, PastStep, FreshStep, NotedStep, RestStep DEF InvMissed
  <1>3. TypeInv /\ InvMissed => NoChangeMissed
    BY RestUpToDate DEF InvMissed
  <1> QED BY <1>1, <1>2, <1>3, PTL DEF Spec

=============================================================================
