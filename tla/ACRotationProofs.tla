-------------------------- MODULE ACRotationProofs --------------------------
(***************************************************************************)
(* Proofs about ACRotation.                                                *)
(*                                                                         *)
(* When credentials change one at a time, a rotation leads from the        *)
(* tracked credential (the status moves last) to the current one (it       *)
(* moves first), and everything in between has one of these two.  The      *)
(* inductive invariant says in which order they pass from the one to the   *)
(* other.                                                                  *)
(***************************************************************************)
EXTENDS ACRotation, TLAPS

Releasing == pc \in {"releaseTracked", "releaseSpec"}

\* From the tracked to the current credential: the spec, the cache, the
\* reconcile and the config Secret follow each other.
InvOrder ==
  /\ {spec, seen, config} \subseteq {tracked, current}
  /\ seen # tracked => spec = current
  /\ config # tracked => seen = current
  /\ pc # "idle" => /\ new \in {tracked, current} /\ old \in {tracked, new}
                    /\ new # tracked => seen = current
                    /\ config # tracked => new = current
  /\ pc = "hash" => (input = Bare /\ hash # Bare) \/ (input = new /\ config = new)
  /\ pc \in {"hold", "deploy", "check", "finalize", "prune"} => input = new /\ config = new

\* A pod of a template with the current credential has loaded that one.
PodOK(p) ==
  pods[p] # Down =>
    /\ pods[p].tmpl \in {tracked, current} /\ pods[p].cred \in {tracked, current}
    /\ current \in {pods[p].tmpl, pods[p].cred} => pods[p].cred = current
    /\ pods[p].cred # tracked => config = current

\* The workload runs c, and pods that start will run it.
Runs(c) ==
  /\ config = c /\ tmpl = c
  /\ \A p \in Pods : pods[p] # Down => pods[p] = [tmpl |-> c, cred |-> c]

InvPods ==
  /\ tmpl \in {None, tracked, current}
  /\ tmpl \notin {None, tracked} => config = current
  /\ \A p \in Pods : PodOK(p)
  /\ pc \in {"check", "finalize", "prune"} => tmpl = new
  /\ pc \in {"finalize", "prune"} /\ ready => Runs(new)
  /\ pc # "idle" /\ old # tracked => pc = "prune" /\ ready /\ tracked \notin fin

\* Nothing but these two is held, and the tracked one for as long as a pod
\* runs it or would load it.
InvHeld ==
  /\ fin \subseteq {tracked, current}
  /\ current \notin revoked
  /\ current \in fin /\ current # tracked => config = current
  /\ life = "live" /\ tracked # 0 /\ tracked # current /\ tracked \notin fin =>
       Runs(current)

\* The life of the CR against the reconcile.
InvLife ==
  /\ life = "gone" => pc = "idle" /\ fin = {}
  /\ Releasing => life = "deleting" /\ old = tracked
  /\ pc = "releaseSpec" => fin \subseteq {new}

IInv == TypeOK /\ InvOrder /\ InvPods /\ InvHeld /\ InvLife

----------------------------------------------------------------------------
(* Types *)

\* An idle reconcile.
LEMMA IdleType ==
  ASSUME TypeOK, Idle
  PROVE  /\ issued \in Nat /\ new' \in 0 .. issued /\ old' \in 0 .. issued
         /\ pc' = "idle" /\ ready' \in BOOLEAN /\ input' \in {None, Bare} \cup 0 .. issued
  <1>1. issued \in Nat
    BY ConstantsOK DEF TypeOK
  <1>2. ready' \in BOOLEAN
    BY DEF Idle
  <1> QED BY <1>1, <1>2 DEF Idle

LEMMA InitType == Init => TypeOK
  <1> SUFFICES ASSUME Init PROVE TypeOK
    OBVIOUS
  <1>1. issued = 0 /\ 0 .. issued = {0} /\ issued \in 0 .. MaxCreds /\ faults \in 0 .. MaxFaults
    BY ConstantsOK DEF Init
  <1>2. pods \in [Pods -> [tmpl : {None, Bare} \cup 0 .. issued, cred : 0 .. issued]]
    BY <1>1 DEF Init, Down
  <1> QED BY <1>1, <1>2 DEF Init, TypeOK, Creds

\* Steps outside the reconcile.
LEMMA OthersType ==
  ASSUME TypeOK, Others \/ Issue \/ Delete \/ \E p \in Pods : StopPod(p)
  PROVE  TypeOK'
  <1> USE DEF keystoneVars, crVars, statusVars, podVars, passVars
  <1>1. CASE Issue
    BY <1>1, ConstantsOK DEF TypeOK, Issue, Creds
  <1>2. CASE SetSpec
    BY <1>2 DEF TypeOK, SetSpec, Creds
  <1>3. CASE Learn
    BY <1>3 DEF TypeOK, Learn, Creds
  <1>4. ASSUME NEW c \in Creds, Revoke(c) PROVE TypeOK'
    BY <1>4 DEF TypeOK, Revoke, Creds
  <1>5. CASE Delete
    BY <1>5 DEF TypeOK, Delete, Creds
  <1>6. ASSUME NEW p \in Pods, StartPod(p) PROVE TypeOK'
    BY <1>6 DEF TypeOK, StartPod, Creds
  <1>7. ASSUME NEW p \in Pods, StopPod(p) PROVE TypeOK'
    <2>1. Down \in [tmpl : {None, Bare} \cup 0 .. issued, cred : 0 .. issued]
      BY DEF TypeOK, Down
    <2> QED BY <1>7, <2>1, ConstantsOK DEF TypeOK, StopPod, Creds
  <1> QED BY <1>1, <1>2, <1>3, <1>4, <1>5, <1>6, <1>7 DEF Others

\* Steps of the reconcile, and its ends.
LEMMA ReconcileType ==
  ASSUME TypeOK, Reconcile \/ RenderSkipped \/ ReturnEarly \/ Crash
  PROVE  TypeOK'
  <1> USE DEF keystoneVars, crVars, statusVars, podVars, passVars, Return
  <1>1. CASE Begin
    BY <1>1 DEF TypeOK, Begin, Creds
  <1>2. CASE RenderAC
    BY <1>2, IdleType DEF TypeOK, RenderAC, Creds
  <1>3. CASE HashAC
    <2>1. {hash', tmpl'} \subseteq {None, Bare} \cup 0 .. issued
      BY <1>3 DEF TypeOK, HashAC
    <2> QED BY <1>3, <2>1, IdleType DEF TypeOK, HashAC, Creds
  <1>4. CASE HoldAC
    <2>1. new \in 0 .. issued /\ issued \in Nat
      BY ConstantsOK DEF TypeOK
    <2>2. \/ fin' = fin
          \/ fin' = fin \cup ({new} \ {0}) /\ new \notin revoked
      BY <1>4 DEF HoldAC
    <2>3. {new} \ {0} \subseteq 1 .. issued
      BY <2>1
    <2>4. fin' \subseteq Creds /\ fin' \cap revoked = {}
      BY <2>2, <2>3 DEF TypeOK, Creds
    <2> QED BY <1>4, <2>4, IdleType DEF TypeOK, HoldAC, Creds
  <1>5. CASE DeployAC
    BY <1>5 DEF TypeOK, DeployAC, Creds
  <1>6. CASE CheckAC
    BY <1>6 DEF TypeOK, CheckAC, Creds
  <1>7. CASE FinalizeAC
    BY <1>7 DEF TypeOK, FinalizeAC, Creds
  <1>8. CASE PruneAC
    BY <1>8, IdleType DEF TypeOK, PruneAC, Creds
  <1>9. CASE ReleaseAC
    BY <1>9, IdleType DEF TypeOK, ReleaseAC, Creds
  <1>10. CASE ReturnEarly
    BY <1>10, ConstantsOK, IdleType DEF TypeOK, ReturnEarly, Creds
  <1>11. CASE Crash
    BY <1>11, ConstantsOK, IdleType DEF TypeOK, Crash, Creds
  <1>12. CASE RenderSkipped
    BY <1>12, ConstantsOK DEF TypeOK, RenderSkipped, Creds
  <1> QED BY <1>1, <1>2, <1>3, <1>4, <1>5, <1>6, <1>7, <1>8, <1>9, <1>10, <1>11, <1>12
          DEF Reconcile

LEMMA NextType == TypeOK /\ [Next]_vars => TypeOK'
  <1> SUFFICES ASSUME TypeOK, [Next]_vars PROVE TypeOK'
    OBVIOUS
  <1>1. CASE UNCHANGED vars
    BY <1>1 DEF TypeOK, Creds, vars, keystoneVars, crVars, statusVars, podVars, passVars
  <1>2. CASE Next
    BY <1>2, OthersType, ReconcileType DEF Next
  <1> QED BY <1>1, <1>2

\* The variables of the rotation keep their types; only Secrets that were
\* issued are held, named or loaded, and none that is revoked is held.
THEOREM TypeCorrect == Spec => []TypeOK
  <1>1. Init => TypeOK
    BY InitType
  <1>2. TypeOK /\ [Next]_vars => TypeOK'
    BY NextType
  <1> QED BY <1>1, <1>2, PTL DEF Spec

----------------------------------------------------------------------------
(* The inductive invariant *)

LEMMA InitInv == Init => IInv
  <1> SUFFICES ASSUME Init PROVE IInv
    OBVIOUS
  <1>1. TypeOK
    BY InitType
  <1> QED BY <1>1 DEF Init, IInv, InvOrder, InvPods, InvHeld, InvLife, PodOK, Releasing

\* Keystone, the users and the cache.
LEMMA OutsideInv ==
  ASSUME ~Overlap, IInv,
         Issue \/ SetSpec \/ Learn \/ Delete \/ \E c \in Creds : Revoke(c)
  PROVE  IInv'
  <1> USE DEF IInv, keystoneVars, crVars, statusVars, podVars, passVars
  <1>0. TypeOK'
    BY OthersType DEF Others
  <1>1. CASE Issue
    <2>1. /\ Settled /\ UNCHANGED <<revoked, fin, crVars, statusVars, podVars, passVars>>
          /\ current' # current /\ current' \notin revoked
      BY <1>1, ConstantsOK DEF Issue, TypeOK, Creds
    <2>2. current = tracked /\ fin = {tracked} \ {0}
      BY <2>1 DEF Settled
    <2> QED BY <1>0, <2>1, <2>2 DEF Settled, InvOrder, InvPods, InvHeld, InvLife, PodOK,
            Runs, Releasing
  <1>2. CASE SetSpec
    BY <1>0, <1>2 DEF SetSpec, InvOrder, InvPods, InvHeld, InvLife, PodOK, Runs, Releasing
  <1>3. CASE Learn
    BY <1>0, <1>3 DEF Learn, InvOrder, InvPods, InvHeld, InvLife, PodOK, Runs, Releasing
  <1>4. ASSUME NEW c \in Creds, Revoke(c) PROVE IInv'
    BY <1>0, <1>4 DEF Revoke, InvOrder, InvPods, InvHeld, InvLife, PodOK, Runs, Releasing
  <1>5. CASE Delete
    BY <1>0, <1>5 DEF Delete, InvOrder, InvPods, InvHeld, InvLife, PodOK, Runs, Releasing
  <1> QED BY <1>1, <1>2, <1>3, <1>4, <1>5

LEMMA PodInv ==
  ASSUME IInv, NEW p \in Pods, StartPod(p) \/ StopPod(p)
  PROVE  IInv'
  <1> USE DEF IInv, keystoneVars, crVars, statusVars, podVars, passVars
  <1>0. TypeOK'
    BY OthersType DEF Others
  <1>1. CASE StartPod(p)
    BY <1>0, <1>1 DEF StartPod, TypeOK, InvOrder, InvPods, InvHeld, InvLife, PodOK, Runs,
       Releasing, Up
  <1>2. CASE StopPod(p)
    BY <1>0, <1>2 DEF StopPod, TypeOK, InvOrder, InvPods, InvHeld, InvLife, PodOK, Runs,
       Releasing, Up
  <1> QED BY <1>1, <1>2

\* A reconcile that ends: the status is patched, or lost.
LEMMA EndInv ==
  ASSUME IInv, TypeOK', Idle, pc # "idle",
         tracked' = tracked \/ tracked' = old,
         \/ fin' = fin
         \/ fin' = fin \ {tracked} /\ Runs(current),
         seen' = seen \/ seen' = spec,
         UNCHANGED <<issued, current, revoked, life, spec, config, tmpl, pods>>
  PROVE  IInv'
  <1> USE DEF IInv, Idle
  <1> QED BY DEF InvOrder, InvPods, InvHeld, InvLife, PodOK, Runs, Releasing

\* The steps of one reconcile.
LEMMA ReconcileInv ==
  ASSUME ~LongOutages, IInv, Reconcile \/ RenderSkipped \/ ReturnEarly \/ Crash
  PROVE  IInv'
  <1> USE DEF keystoneVars, crVars, statusVars, podVars, passVars
  <1>0. TypeOK'
    BY ReconcileType DEF IInv
  <1>1. CASE Begin
    BY <1>0, <1>1 DEF Begin, TypeOK, IInv, InvOrder, InvPods, InvHeld, InvLife, PodOK, Runs, Releasing
  <1>2. CASE RenderAC
    <2>1. CASE Return
      BY <1>0, <1>2, <2>1, EndInv DEF RenderAC, Return, Idle
    <2>2. CASE config' = new /\ input' = new /\ pc' = "hash"
               /\ UNCHANGED <<tracked, new, old, ready>>
      BY <1>0, <1>2, <2>2 DEF RenderAC, IInv, InvOrder, InvPods, InvHeld, InvLife, PodOK, Runs,
         Releasing
    <2> QED BY <1>2, <2>1, <2>2 DEF RenderAC
  <1>3. CASE HashAC
    <2>1. CASE Return
      BY <1>0, <1>3, <2>1, EndInv DEF HashAC, Return
    <2>2. CASE hash = input /\ pc' = "hold" /\ UNCHANGED <<tracked, new, old, input, ready>>
      BY <1>0, <1>3, <2>2 DEF HashAC, IInv, InvOrder, InvPods, InvHeld, InvLife, PodOK, Runs,
         Releasing
    <2> QED BY <1>3, <2>1, <2>2 DEF HashAC
  <1>4. CASE HoldAC
    <2>1. CASE Return
      BY <1>0, <1>4, <2>1, EndInv DEF HoldAC, Return, Idle
    <2>2. CASE fin' = fin \cup ({new} \ {0}) /\ pc' = "deploy"
               /\ UNCHANGED <<tracked, new, old, input, ready>>
      BY <1>0, <1>4, <2>2 DEF HoldAC, IInv, InvOrder, InvPods, InvHeld, InvLife, PodOK, Runs,
         Releasing
    <2> QED BY <1>4, <2>1, <2>2 DEF HoldAC
  <1>5. CASE DeployAC
    BY <1>0, <1>5 DEF DeployAC, IInv, InvOrder, InvPods, InvHeld, InvLife, PodOK, Runs, Releasing
  <1>6. CASE CheckAC
    BY <1>0, <1>6 DEF CheckAC, IInv, InvOrder, InvPods, InvHeld, InvLife, PodOK, Runs, Releasing,
       Up, TypeOK
  <1>7. CASE FinalizeAC
    BY <1>0, <1>7 DEF FinalizeAC, IInv, InvOrder, InvPods, InvHeld, InvLife, PodOK, Runs, Releasing
  <1>8. CASE PruneAC
    BY <1>0, <1>8 DEF PruneAC, Return, Idle, IInv, InvOrder, InvPods, InvHeld, InvLife, PodOK,
       Runs, Releasing
  <1>9. CASE ReleaseAC
    BY <1>0, <1>9 DEF ReleaseAC, Return, Idle, IInv, InvOrder, InvPods, InvHeld, InvLife, PodOK,
       Runs, Releasing
  <1>10. CASE ReturnEarly
    <2>1. \/ fin' = fin
          \/ fin' = fin \ {old} /\ pc = "finalize" /\ ready /\ old # new
      BY <1>10 DEF ReturnEarly
    <2>2. \/ fin' = fin
          \/ fin' = fin \ {tracked} /\ Runs(current)
      BY <2>1 DEF IInv, InvOrder, InvPods
    <2>3. /\ pc # "idle" /\ Idle /\ tracked' = old
          /\ UNCHANGED <<issued, current, revoked, life, spec, seen, config, tmpl, pods>>
      BY <1>10 DEF ReturnEarly, Return
    <2> QED BY <1>0, <2>2, <2>3, EndInv
  <1>11. CASE Crash
    BY <1>0, <1>11, EndInv DEF Crash
  <1>12. CASE RenderSkipped
    BY <1>0, <1>12 DEF RenderSkipped, IInv, InvOrder, InvPods, InvHeld, InvLife, PodOK, Runs,
       Releasing
  <1> QED BY <1>1, <1>2, <1>3, <1>4, <1>5, <1>6, <1>7, <1>8, <1>9, <1>10, <1>11, <1>12
          DEF Reconcile

LEMMA NextInv == ~Overlap /\ ~LongOutages /\ IInv /\ [Next]_vars => IInv'
  <1> SUFFICES ASSUME ~Overlap, ~LongOutages, IInv, [Next]_vars PROVE IInv'
    OBVIOUS
  <1>1. CASE UNCHANGED vars
    BY <1>1, NextType DEF vars, keystoneVars, crVars, statusVars, podVars, passVars,
       IInv, InvOrder, InvPods, InvHeld, InvLife, PodOK, Runs, Releasing
  <1>2. CASE Next
    BY <1>2, OutsideInv, PodInv, ReconcileInv DEF Next, Others
  <1> QED BY <1>1, <1>2

LEMMA Invariance == ~Overlap /\ ~LongOutages /\ Spec => []IInv
  <1> SUFFICES ASSUME ~Overlap, ~LongOutages PROVE Spec => []IInv
    OBVIOUS
  <1>1. IInv /\ [Next]_vars => IInv'
    BY NextInv
  <1> QED BY <1>1, InitInv, PTL DEF Spec

----------------------------------------------------------------------------

\* If credentials change one at a time and no two reconciles in a row miss the
\* password Secret, a deleted DesignateAPI leaves no
\* finalizer behind, for any number of pods, rotations, failed calls and
\* restarts: the names in its status and in the cached spec are all it holds.
THEOREM NoLeak == ~Overlap /\ ~LongOutages /\ Spec => []NoLeakAfterDelete
  <1>1. IInv => NoLeakAfterDelete
    BY DEF IInv, InvLife, NoLeakAfterDelete
  <1> QED BY <1>1, Invariance, PTL

\* What the pods of a live CR have loaded is held or current, hence valid.
LEMMA InUseValid ==
  ASSUME IInv, life = "live", NEW p \in Pods, pods[p].cred # 0
  PROVE  pods[p].cred \in fin \cup {current} /\ pods[p].cred \notin revoked
  BY DEF IInv, TypeOK, InvPods, InvHeld, PodOK, Runs, Down

\* Under the same conditions the finalizers implement what
\* CredentialUse promises: keystone-operator revokes no credential under a
\* running pod of a live CR, and no pod comes up with a revoked one.
THEOREM Refinement == ~Overlap /\ ~LongOutages /\ Spec => NeverRevokedInUse
  <1> SUFFICES ASSUME ~Overlap, ~LongOutages PROVE Spec => NeverRevokedInUse
    OBVIOUS
  <1> DEFINE used == IF life = "live" THEN {pods[p].cred : p \in Pods} \ {0} ELSE {}
  <1>1. Init => CU!Init
    BY DEF Init, CU!Init, Down
  <1>2. IInv /\ IInv' /\ [Next]_vars => [CU!Next]_<<used, revoked>>
    <2> SUFFICES ASSUME IInv, IInv', [Next]_vars PROVE [CU!Next]_<<used, revoked>>
      OBVIOUS
    <2>1. used \cap revoked = {} /\ used \subseteq fin \cup {current}
      BY InUseValid
    <2>2. used' \cap revoked' = {}
      <3>1. ASSUME life' = "live", NEW p \in Pods, pods'[p].cred # 0
            PROVE  pods'[p].cred \notin revoked'
        BY <3>1 DEF IInv, TypeOK, InvPods, InvHeld, PodOK, Runs, Down
      <3> QED BY <3>1
    <2>3. ASSUME NEW c \in Creds, Revoke(c) PROVE CU!Next
      BY <2>1, <2>3 DEF Revoke, CU!Next, CU!Revoke, crVars, podVars
    <2>4. CASE UNCHANGED revoked
      BY <2>2, <2>4 DEF CU!Next, CU!Use
    <2>5. UNCHANGED revoked \/ \E c \in Creds : Revoke(c)
      BY DEF Next, Reconcile, Others, Issue, SetSpec, Learn, Delete, StartPod, StopPod,
         Begin, RenderAC, HashAC, HoldAC, DeployAC, CheckAC, FinalizeAC, PruneAC,
         ReleaseAC, RenderSkipped, ReturnEarly, Crash, vars, keystoneVars
    <2> QED BY <2>3, <2>4, <2>5
  <1> QED BY <1>1, <1>2, Invariance, PTL DEF Spec, NeverRevokedInUse, CU!Spec

=============================================================================
