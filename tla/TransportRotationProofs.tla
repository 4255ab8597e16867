----------------------- MODULE TransportRotationProofs -----------------------
(***************************************************************************)
(* What TLAPS proves of the credential rotation, for every set of sub-CRs  *)
(* and every value of the bounds.                                          *)
(***************************************************************************)
EXTENDS TransportRotationInv, TLAPS

\* The configurations of the model are functions on the two buses.
LEMMA NoCfgType == NoCfg \in Cfg
  BY DEF NoCfg, Cfg, Bus

LEMMA BusFacts == T \in Bus /\ N \in Bus /\ T # N /\ Bus = {T, N}
  BY DEF Bus, T, N

LEMMA ParentIdleType ==
  ASSUME ParentIdle
  PROVE  /\ pc' = "idle" /\ lst' \in Cfg /\ p' \in Cfg
         /\ wantN' \in BOOLEAN /\ guard' \in BOOLEAN
         /\ todo' \subseteq Services /\ rdy' \subseteq Services
  BY NoCfgType DEF ParentIdle

LEMMA UseTransportURLType ==
  ASSUME TypeOK, NEW b \in Bus, NEW next, UseTransportURL(b, next)
  PROVE  /\ tuCR' \subseteq Bus /\ fin' \subseteq Names
         /\ st' \in Cfg /\ lst' \in Cfg /\ p' \in Cfg
         /\ wantN' \in BOOLEAN /\ guard' \in BOOLEAN
         /\ todo' \subseteq Services /\ rdy' \subseteq Services
         /\ pc' \in {"idle", next}
  <1>1. CASE tu[b] = 0
    BY <1>1, ParentIdleType DEF TypeOK, UseTransportURL
  <1>2. CASE tu[b] # 0
    BY <1>2 DEF TypeOK, UseTransportURL, Cfg, Names
  <1> QED BY <1>1, <1>2

LEMMA FinalizeType ==
  ASSUME TypeOK, NEW b \in Bus, FinalizeSecretRotation(b)
  PROVE  fin' \subseteq Names /\ lst' \in Cfg
  BY DEF TypeOK, FinalizeSecretRotation, Cfg

LEMMA InitType == Init => TypeOK
  <1> SUFFICES ASSUME Init PROVE TypeOK
    OBVIOUS
  <1>1. enabled \in BOOLEAN
    BY DEF Init
  <1>2. faults \in 0 .. MaxFaults
    BY ConstantsOK DEF Init
  <1> QED BY NoCfgType, <1>1, <1>2 DEF Init, TypeOK

LEMMA EnvType == TypeOK /\ EnvStep => TypeOK'
  <1> SUFFICES ASSUME TypeOK, EnvStep PROVE TypeOK'
    OBVIOUS
  <1> USE DEF worldVars, parentVars, crVars, subVars, podVars
  <1>1. CASE UserEnableNotifications
    BY <1>1 DEF TypeOK, UserEnableNotifications
  <1>2. CASE UserDisableNotifications
    BY <1>2 DEF TypeOK, UserDisableNotifications
  <1>3. CASE UserDelete
    BY <1>3 DEF TypeOK, UserDelete
  <1>4. ASSUME NEW b \in Bus, PublishSecret(b) \/ RotateSecret(b)
        PROVE  TypeOK'
    <2>1. issued' \in Cfg
      <3>1. issued' = [issued EXCEPT ![b] = issued[b] + 1]
        BY <1>4 DEF PublishSecret, RotateSecret
      <3>2. issued \in [Bus -> Nat] /\ issued[b] + 1 \in Nat
        BY DEF TypeOK, Cfg
      <3> QED BY <3>1, <3>2 DEF Cfg
    <2>2. tu' \in Cfg
      <3>1. tu' = [tu EXCEPT ![b] = issued'[b]]
        BY <1>4 DEF PublishSecret, RotateSecret
      <3>2. tu \in [Bus -> Nat] /\ issued'[b] \in Nat
        BY <2>1 DEF TypeOK, Cfg
      <3> QED BY <3>1, <3>2 DEF Cfg
    <2> QED BY <1>4, <2>1, <2>2 DEF TypeOK, PublishSecret, RotateSecret
  <1> QED BY <1>1, <1>2, <1>3, <1>4 DEF EnvStep

LEMMA ParentType == TypeOK /\ ParentStep => TypeOK'
  <1> SUFFICES ASSUME TypeOK, ParentStep PROVE TypeOK'
    OBVIOUS
  <1> USE DEF worldVars, parentVars, crVars, subVars, podVars
  <1>1. CASE ParentFetch
    BY <1>1, ParentIdleType DEF TypeOK, ParentFetch, Releasing
  <1>2. CASE ParentTransport
    BY <1>2, UseTransportURLType, BusFacts DEF TypeOK, ParentTransport
  <1>3. CASE ParentNotifications
    <2>1. CASE wantN /\ UseTransportURL(N, "config")
      BY <1>3, <2>1, UseTransportURLType, BusFacts DEF TypeOK, ParentNotifications
    <2>2. CASE ~wantN
      BY <1>3, <2>2 DEF TypeOK, ParentNotifications
    <2> QED BY <1>3, <2>1, <2>2 DEF ParentNotifications
  <1>4. CASE ParentConfig
    BY <1>4, ParentIdleType DEF TypeOK, ParentConfig
  <1>5. ASSUME NEW s \in Services, ParentService(s)
        PROVE  TypeOK'
    BY <1>5 DEF TypeOK, ParentService
  <1>6. CASE ParentGuard
    BY <1>6 DEF TypeOK, ParentGuard
  <1>7. CASE ParentFinalizeTransport
    BY <1>7, FinalizeType, BusFacts DEF TypeOK, ParentFinalizeTransport
  <1>8. CASE ParentFinalizeNotifications
    <2>1. fin' \subseteq Names /\ lst' \in Cfg
      BY <1>8, FinalizeType, BusFacts DEF TypeOK, ParentFinalizeNotifications
    <2> QED BY <1>8, <2>1 DEF TypeOK, ParentFinalizeNotifications
  <1>9. CASE ParentDeleteNotifications
    <2>1. tu' \in Cfg /\ lst' \in Cfg
      BY <1>9 DEF TypeOK, ParentDeleteNotifications, Cfg
    <2> QED BY <1>9, <2>1 DEF TypeOK, ParentDeleteNotifications
  <1>10. CASE ParentPrune
    BY <1>10 DEF TypeOK, ParentPrune
  <1>11. CASE ParentPatch
    BY <1>11, ParentIdleType DEF TypeOK, ParentPatch
  <1>12. CASE ParentRelease
    BY <1>12 DEF TypeOK, ParentRelease, Releasing
  <1>13. CASE ParentDeletePrune
    BY <1>13, ParentIdleType DEF TypeOK, ParentDeletePrune
  <1> QED BY <1>1, <1>2, <1>3, <1>4, <1>5, <1>6, <1>7, <1>8, <1>9, <1>10,
             <1>11, <1>12, <1>13 DEF ParentStep

LEMMA SubPatchType ==
  ASSUME TypeOK, NEW s \in Services, NEW r \in BOOLEAN, SubPatch(s, r)
  PROVE  /\ spc' \in [Services -> {"idle", "read", "deploy", "check"}]
         /\ sAnn' \in [Services -> Cfg] /\ sIn' \in [Services -> Cfg]
         /\ seen' \in [Services -> BOOLEAN]
         /\ ready' \in [Services -> BOOLEAN]
         /\ observed' \in [Services -> BOOLEAN]
  BY NoCfgType DEF TypeOK, SubPatch, SubIdle

LEMMA SubType ==
  ASSUME TypeOK, NEW s \in Services, SubStep(s) \/ SubReturn(s) \/ SubCrash(s)
  PROVE  TypeOK'
  <1> USE DEF worldVars, parentVars, crVars, subVars, podVars
  <1>1. CASE SubStart(s)
    BY <1>1 DEF TypeOK, SubStart
  <1>2. CASE SubRead(s)
    <2>1. CASE hash[s] # config
      BY <1>2, <2>1, SubPatchType DEF TypeOK, SubRead
    <2>2. CASE hash[s] = config
      BY <1>2, <2>2 DEF TypeOK, SubRead
    <2> QED BY <2>1, <2>2
  <1>3. CASE SubDeploy(s)
    BY <1>3 DEF TypeOK, SubDeploy
  <1>4. CASE SubCheck(s)
    <2>1. ReadyForInput(s) \in BOOLEAN
      BY DEF ReadyForInput
    <2>2. applied' \in [Services -> Cfg]
      BY <1>4 DEF TypeOK, SubCheck
    <2> QED BY <1>4, <2>1, <2>2, SubPatchType DEF TypeOK, SubCheck
  <1>5. CASE SubReturn(s)
    <2>1. faults' \in 0 .. MaxFaults
      BY <1>5, ConstantsOK DEF TypeOK, SubReturn
    <2> QED BY <1>5, <2>1, SubPatchType DEF TypeOK, SubReturn
  <1>6. CASE SubCrash(s)
    BY <1>6, NoCfgType, ConstantsOK DEF TypeOK, SubCrash, SubIdle
  <1> QED BY <1>1, <1>2, <1>3, <1>4, <1>5, <1>6 DEF SubStep

LEMMA PodType ==
  ASSUME TypeOK, NEW s \in Services, PodStep(s) \/ RestartPod(s)
  PROVE  TypeOK'
  <1> USE DEF worldVars, parentVars, crVars, subVars, podVars
  <1>1. CASE StartPod(s)
    BY <1>1 DEF TypeOK, StartPod, Pods
  <1>2. CASE StopPod(s)
    BY <1>2 DEF TypeOK, StopPod
  <1>3. CASE RestartPod(s)
    <2>1. PICK q \in pods[s] : \E gone \in SUBSET {q} :
             pods' = [pods EXCEPT ![s] = (@ \ gone) \cup {[q EXCEPT !.creds = config]}]
      BY <1>3 DEF RestartPod
    <2>2. [q EXCEPT !.creds = config] \in Pods
      BY <2>1 DEF TypeOK, Pods
    <2>3. pods' \in [Services -> SUBSET Pods]
      BY <2>1, <2>2 DEF TypeOK
    <2> QED BY <1>3, <2>3, ConstantsOK DEF TypeOK, RestartPod
  <1> QED BY <1>1, <1>2, <1>3 DEF PodStep

LEMMA FaultType == TypeOK /\ FaultStep => TypeOK'
  <1> SUFFICES ASSUME TypeOK, FaultStep PROVE TypeOK'
    OBVIOUS
  <1> USE DEF worldVars, parentVars, crVars, subVars, podVars
  <1>1. CASE ParentReturn
    BY <1>1, ParentIdleType, ConstantsOK DEF TypeOK, ParentReturn
  <1>2. CASE ParentCrash
    BY <1>2, ParentIdleType, ConstantsOK DEF TypeOK, ParentCrash
  <1>3. CASE ParentGuardHeld
    <2>1. faults' \in 0 .. MaxFaults
      BY <1>3, ConstantsOK DEF TypeOK, ParentGuardHeld
    <2> QED BY <1>3, <2>1 DEF TypeOK, ParentGuardHeld
  <1>4. CASE ParentConfigSkipped
    <2>1. faults' \in 0 .. MaxFaults
      BY <1>4, ConstantsOK DEF TypeOK, ParentConfigSkipped
    <2>2. CASE pHash # NoCfg
      BY <1>4, <2>1, <2>2, ParentIdleType, NoCfgType DEF TypeOK, ParentConfigSkipped
    <2>3. CASE pHash = NoCfg
      BY <1>4, <2>1, <2>3 DEF TypeOK, ParentConfigSkipped
    <2> QED BY <2>2, <2>3
  <1> QED BY <1>1, <1>2, <1>3, <1>4, SubType, PodType DEF FaultStep

LEMMA NextType == TypeOK /\ [Next]_vars => TypeOK'
  <1> SUFFICES ASSUME TypeOK, [Next]_vars PROVE TypeOK'
    OBVIOUS
  <1>1. CASE UNCHANGED vars
    BY <1>1 DEF TypeOK, vars, worldVars, parentVars, crVars, subVars, podVars
  <1>2. CASE Next
    BY <1>2, ParentType, EnvType, FaultType, SubType, PodType DEF Next
  <1> QED BY <1>1, <1>2

\* Type correctness of the rotation: in particular the locals of a reconcile
\* and every pod stay configurations of the two buses.
THEOREM TypeCorrect == Spec => []TypeOK
  <1>1. Init => TypeOK
    BY InitType
  <1>2. TypeOK /\ [Next]_vars => TypeOK'
    BY NextType
  <1> QED BY <1>1, <1>2, PTL DEF Spec

----------------------------------------------------------------------------
(* Deletion *)

LEMMA LifeStep == TypeOK /\ InvLife /\ [Next]_vars => InvLife'
  <1> SUFFICES ASSUME TypeOK, InvLife, [Next]_vars PROVE InvLife'
    OBVIOUS
  <1> USE DEF InvLife, Releasing, worldVars, parentVars, crVars, subVars, podVars
  <1>1. CASE UNCHANGED vars
    BY <1>1 DEF vars
  <1>2. CASE EnvStep
    BY <1>2 DEF EnvStep, UserEnableNotifications, UserDisableNotifications,
                UserDelete, PublishSecret, RotateSecret
  <1>3. CASE ParentFetch
    BY <1>3 DEF ParentFetch, ParentIdle
  <1>4. CASE ParentTransport \/ ParentNotifications
    BY <1>4 DEF ParentTransport, ParentNotifications, UseTransportURL, ParentIdle
  <1>5. CASE ParentConfig \/ (\E s \in Services : ParentService(s))
              \/ ParentGuard \/ ParentGuardHeld \/ ParentConfigSkipped
    BY <1>5 DEF ParentConfig, ParentConfigSkipped, ParentService, ParentGuard,
                ParentGuardHeld, ParentIdle
  <1>6. CASE ParentFinalizeTransport \/ ParentFinalizeNotifications
    BY <1>6 DEF ParentFinalizeTransport, ParentFinalizeNotifications,
                FinalizeSecretRotation
  <1>7. CASE ParentDeleteNotifications \/ ParentPrune \/ ParentPatch
              \/ ParentReturn \/ ParentCrash
    BY <1>7 DEF ParentDeleteNotifications, ParentPrune, ParentPatch,
                ParentReturn, ParentCrash, ParentIdle
  <1>8. CASE ParentRelease \/ ParentDeletePrune
    BY <1>8 DEF ParentRelease, ParentDeletePrune, ParentIdle
  <1>9. ASSUME NEW s \in Services,
               \/ SubStep(s) \/ SubReturn(s) \/ SubCrash(s)
               \/ PodStep(s) \/ RestartPod(s)
        PROVE  InvLife'
    BY <1>9 DEF SubStep, SubStart, SubRead, SubDeploy, SubCheck, SubReturn,
                SubCrash, PodStep, StartPod, StopPod, RestartPod
  <1> QED BY <1>1, <1>2, <1>3, <1>4, <1>5, <1>6, <1>7, <1>8, <1>9
          DEF Next, ParentStep, FaultStep

\* reconcileDelete leaves no consumer finalizer behind, whatever rotation was
\* under way when the CR was deleted and wherever the operator crashed.
THEOREM NoLeak == Spec => []NoLeakAfterDelete
  <1>1. Init => InvLife
    BY DEF Init, InvLife, Releasing
  <1>2. TypeOK /\ InvLife /\ [Next]_vars => InvLife'
    BY LifeStep
  <1>3. InvLife => NoLeakAfterDelete
    BY DEF InvLife, NoLeakAfterDelete
  <1> QED BY <1>1, <1>2, <1>3, TypeCorrect, PTL DEF Spec

----------------------------------------------------------------------------
(* Secrets in use.  The credentials change only when the last change has   *)
(* settled, so each change takes the deployment from base to Goal.         *)

LEMMA GoalFrame ==
  ASSUME UNCHANGED <<enabled, tu, base>>
  PROVE  Goal' = Goal /\ (Waiting' <=> Waiting) /\ (Settled' <=> Settled)
  BY DEF Goal, Waiting, Settled

LEMMA GoalType ==
  ASSUME TypeOK
  PROVE  Goal \in Cfg /\ base \in Cfg
  BY DEF TypeOK, Goal, Cfg

\* What a configuration is follows from its value on the two buses.
LEMMA CfgEqual ==
  ASSUME NEW x \in Cfg, NEW y \in Cfg, x[T] = y[T], x[N] = y[N]
  PROVE  x = y
  BY DEF Cfg, Bus

\* The goal and the plan of the reconcile, bus by bus.
GoalValue ==
  ~Waiting => Goal[T] = tu[T] /\ Goal[N] = IF enabled THEN tu[N] ELSE 0
PlanValue ==
  /\ FutureP \in Cfg
  /\ FutureP[T] = IF pc = "transport" THEN tu[T] ELSE p[T]
  /\ FutureP[N] = IF HasP THEN p[N] ELSE IF wantN THEN tu[N] ELSE 0

LEMMA Values ==
  /\ TypeOK => GoalValue /\ (Running => PlanValue)
  /\ TypeOK' => GoalValue' /\ (Running' => PlanValue')
  <1>1. TypeOK => GoalValue /\ (Running => PlanValue)
    BY BusFacts DEF TypeOK, Running, HasP, GoalValue, PlanValue, Goal, FutureP, Cfg
  <1>2. TypeOK' => GoalValue' /\ (Running' => PlanValue')
    BY BusFacts DEF TypeOK, Running, HasP, GoalValue, PlanValue, Goal, FutureP, Cfg
  <1> QED BY <1>1, <1>2

\* A reconcile that has read its inputs will render p.
LEMMA PlanIsP ==
  ASSUME IInv, HasP
  PROVE  /\ Proper /\ FutureP = p /\ p \in {base, Goal}
         /\ p = base => AllBase /\ lst = base /\ st = base
  BY DEF IInv, InvPlan, Running, HasP, Proper, FutureP

\* Steps of a sub-CR's controller or of its pods: nothing of the parent moves.
LEMMA SubFrame ==
  ASSUME IInv, TypeOK', InvSub',
         UNCHANGED <<worldVars, fin, st, config, parentVars, ann, base>>,
         AllBase => AllBase',
         \A s \in Services : applied[s] = Goal => applied'[s] = Goal
  PROVE  IInv'
  <1> USE DEF worldVars, parentVars
  <1>1. Goal' = Goal /\ (Waiting' <=> Waiting) /\ (Settled' <=> Settled)
    BY GoalFrame
  <1>2. /\ Running' <=> Running
        /\ HasP' <=> HasP
        /\ Proper' <=> Proper
        /\ FutureP' = FutureP
    BY DEF Running, HasP, Proper, FutureP
  <1>3. AllDone => AllDone'
    BY <1>1 DEF AllDone
  <1>4. InvNames'
    BY DEF IInv, InvNames
  <1>5. InvPlan'
    BY <1>1, <1>2 DEF IInv, InvPlan
  <1>6. InvLocals'
    <2>1. ASSUME NEW s \in Services, applied[s] = p, HasP
          PROVE  applied'[s] = p
      BY <2>1, PlanIsP DEF AllBase, SubBase
    <2>2. \A s \in rdy : applied'[s] = p
      BY <2>1 DEF IInv, InvLocals, TypeOK
    <2>3. guard => \A s \in Services : applied'[s] = p
      BY <2>1 DEF IInv, InvLocals
    <2> QED BY <1>2, <2>2, <2>3 DEF IInv, InvLocals
  <1>7. InvStatus'
    BY <1>1, <1>2, <1>3 DEF IInv, InvStatus, Tracks
  <1>8. InvFin'
    BY <1>1, <1>3 DEF IInv, InvFin, Alive
  <1> QED BY <1>4, <1>5, <1>6, <1>7, <1>8 DEF IInv

\* The other sub-CRs stay as they are.
SameSub(x) ==
  /\ ann'[x] = ann[x] /\ tmpl'[x] = tmpl[x] /\ pods'[x] = pods[x]
  /\ spc'[x] = spc[x] /\ sAnn'[x] = sAnn[x] /\ sIn'[x] = sIn[x]
  /\ applied'[x] = applied[x]

LEMMA SameSubOK ==
  ASSUME NEW x \in Services, SameSub(x), UNCHANGED <<config, enabled, tu, base>>
  PROVE  (SubOK(x) => SubOK(x)') /\ (SubBase(x) => SubBase(x)')
  <1>1. Goal' = Goal
    BY GoalFrame
  <1>2. Done(x) => Done(x)'
    BY <1>1 DEF Done, SameSub
  <1> QED BY <1>1, <1>2 DEF SubOK, SubBase, SameSub

\* To show that a step of sub-CR s keeps IInv, look at s alone.
LEMMA OneSub ==
  ASSUME IInv, TypeOK', NEW s \in Services,
         UNCHANGED <<worldVars, fin, st, config, parentVars, ann, base>>,
         \A x \in Services \ {s} : SameSub(x),
         SubOK(s)', config = base /\ SubBase(s) => SubBase(s)',
         applied[s] = Goal => applied'[s] = Goal
  PROVE  IInv'
  <1> USE DEF worldVars
  <1>1. Goal' = Goal
    BY GoalFrame
  <1>2. InvSub'
    BY <1>1, SameSubOK DEF IInv, InvSub
  <1>3. AllBase => AllBase'
    BY SameSubOK DEF AllBase
  <1>4. \A x \in Services : applied[x] = Goal => applied'[x] = Goal
    BY DEF SameSub
  <1> QED BY <1>2, <1>3, <1>4, SubFrame

LEMMA SubInv ==
  ASSUME IInv, NEW s \in Services, SubStep(s) \/ SubReturn(s) \/ SubCrash(s)
  PROVE  IInv'
  <1> USE DEF worldVars, parentVars, crVars, subVars, podVars
  <1>1. TypeOK /\ TypeOK' /\ SubOK(s) /\ config \in {base, Goal}
    BY SubType DEF IInv, InvSub
  <1>2. UNCHANGED <<worldVars, fin, st, config, parentVars, ann, base, pods>>
    BY DEF SubStep, SubStart, SubRead, SubDeploy, SubCheck, SubReturn, SubCrash
  <1>3. Goal' = Goal
    BY <1>2, GoalFrame
  <1>4. \A x \in Services \ {s} : SameSub(x)
    BY <1>1 DEF TypeOK, SameSub, SubStep, SubStart, SubRead, SubDeploy, SubCheck,
                SubReturn, SubCrash, SubPatch, SubIdle
  <1>5. /\ SubOK(s)'
        /\ config = base /\ SubBase(s) => SubBase(s)'
        /\ applied[s] = Goal => applied'[s] = Goal
    <2>1. CASE SubStart(s)
      BY <1>1, <1>2, <1>3, <2>1 DEF TypeOK, SubOK, SubBase, Done, SubStart
    <2>2. CASE SubRead(s)
      <3>1. CASE hash[s] # config
        BY <1>1, <1>2, <1>3, <2>2, <3>1
        DEF TypeOK, SubOK, SubBase, Done, SubRead, SubPatch, SubIdle
      <3>2. CASE hash[s] = config
        <4>1. /\ spc[s] = "read" /\ spc'[s] = "deploy" /\ sIn'[s] = config
              /\ UNCHANGED <<tmpl, pods, sAnn, applied>>
          BY <1>1, <2>2, <3>2 DEF TypeOK, SubRead
        <4> QED BY <1>1, <1>2, <1>3, <4>1 DEF SubOK, SubBase, Done
      <3> QED BY <3>1, <3>2
    <2>3. CASE SubDeploy(s)
      BY <1>1, <1>2, <1>3, <2>3 DEF TypeOK, SubOK, SubBase, Done, SubDeploy
    <2>4. CASE SubCheck(s)
      BY <1>1, <1>2, <1>3, <2>4
      DEF TypeOK, SubOK, SubBase, Done, SubCheck, SubPatch, SubIdle, ReadyForInput
    <2>5. CASE SubReturn(s) \/ SubCrash(s)
      BY <1>1, <1>2, <1>3, <2>5
      DEF TypeOK, SubOK, SubBase, Done, SubReturn, SubCrash, SubPatch, SubIdle
    <2> QED BY <2>1, <2>2, <2>3, <2>4, <2>5 DEF SubStep
  <1> QED BY <1>1, <1>2, <1>4, <1>5, OneSub

LEMMA PodInv ==
  ASSUME IInv, NEW s \in Services, PodStep(s) \/ RestartPod(s)
  PROVE  IInv'
  <1> USE DEF worldVars, parentVars, crVars, subVars, podVars
  <1>1. TypeOK /\ TypeOK' /\ SubOK(s) /\ config \in {base, Goal}
    BY PodType DEF IInv, InvSub
  <1>2. UNCHANGED <<worldVars, fin, st, config, parentVars, crVars, subVars, tmpl, base>>
    BY DEF PodStep, StartPod, StopPod, RestartPod
  <1>3. Goal' = Goal
    BY <1>2, GoalFrame
  <1>4. \A x \in Services \ {s} : SameSub(x)
    BY <1>1, <1>2 DEF TypeOK, SameSub, PodStep, StartPod, StopPod, RestartPod
  \* A pod of the next state was there already, or has the current template
  \* or the template of an old pod, and has just loaded the configuration.
  <1>5. \A q \in pods'[s] :
          \/ q \in pods[s]
          \/ q.creds = config /\ q.tmpl = tmpl[s]
          \/ q.creds = config /\ \E r \in pods[s] : q.tmpl = r.tmpl
    <2>1. CASE StartPod(s)
      BY <1>1, <2>1 DEF TypeOK, StartPod
    <2>2. CASE StopPod(s)
      BY <1>1, <2>2 DEF TypeOK, StopPod
    <2>3. CASE RestartPod(s)
      <3>1. PICK r \in pods[s] : \E gone \in SUBSET {r} :
               pods' = [pods EXCEPT ![s] = (@ \ gone) \cup {[r EXCEPT !.creds = config]}]
        BY <2>3 DEF RestartPod
      <3>2. r \in Pods
        BY <1>1 DEF TypeOK
      <3>3. /\ [r EXCEPT !.creds = config].creds = config
            /\ [r EXCEPT !.creds = config].tmpl = r.tmpl
        BY <3>2 DEF Pods
      <3>4. \A q \in pods'[s] : q \in pods[s] \/ q = [r EXCEPT !.creds = config]
        BY <1>1, <3>1 DEF TypeOK
      <3> QED BY <3>3, <3>4
    <2> QED BY <2>1, <2>2, <2>3 DEF PodStep
  <1>6. SubOK(s)'
    BY <1>1, <1>2, <1>3, <1>5 DEF SubOK, Done
  <1>7. config = base /\ SubBase(s) => SubBase(s)'
    BY <1>2, <1>5 DEF SubBase
  <1> QED BY <1>1, <1>2, <1>4, <1>6, <1>7, OneSub

\* A change of the goal finds everything at base.
LEMMA EnvFrame ==
  ASSUME IInv, TypeOK', Goal = base,
         UNCHANGED <<obj, fin, st, config, parentVars, crVars, subVars, podVars, base>>,
         tu[T] # 0 => tu'[T] # 0,
         InvNames', InvPlan', Settled' => st = base
  PROVE  IInv'
  <1> USE DEF parentVars, crVars, subVars, podVars
  <1>1. AllBase /\ AllBase'
    <2>1. AllBase
      BY DEF IInv, InvStatus
    <2> QED BY <2>1 DEF AllBase, SubBase
  <1>2. HasP' <=> HasP
    BY DEF HasP
  <1>3. Running' <=> Running
    BY <1>2 DEF Running
  <1>4. InvLocals'
    BY <1>2, <1>3 DEF IInv, InvLocals
  <1>5. InvStatus'
    BY <1>1, <1>3 DEF IInv, InvStatus, Tracks
  <1>6. InvSub'
    BY <1>1 DEF AllBase, SubBase, InvSub, SubOK, Done
  <1>7. InvFin'
    BY <1>1 DEF IInv, InvFin, AllBase, Alive
  <1> QED BY <1>4, <1>5, <1>6, <1>7 DEF IInv

\* An outside step that leaves the goal alone.
LEMMA StillFrame ==
  ASSUME IInv, TypeOK', Goal' = Goal, Settled' => Settled, Alive' => Alive,
         UNCHANGED <<fin, st, config, parentVars, crVars, subVars, podVars, base>>,
         tu[T] # 0 => tu'[T] # 0,
         InvNames', InvPlan'
  PROVE  IInv'
  <1> USE DEF parentVars, crVars, subVars, podVars
  <1>1. /\ HasP' <=> HasP
        /\ Running' <=> Running
    BY DEF HasP, Running
  <1>2. /\ AllBase' <=> AllBase
        /\ AllDone' <=> AllDone
        /\ \A s \in Services : SubOK(s)' <=> SubOK(s)
    BY DEF AllBase, SubBase, AllDone, SubOK, Done
  <1>3. InvLocals' /\ InvStatus' /\ InvSub' /\ InvFin'
    BY <1>1, <1>2 DEF IInv, InvLocals, InvStatus, InvSub, InvFin, Tracks
  <1> QED BY <1>3 DEF IInv

LEMMA EnvInv ==
  ASSUME ~Overlap, IInv, EnvStep
  PROVE  IInv'
  <1> USE DEF worldVars, parentVars, crVars, subVars, podVars
  <1>1. TypeOK /\ TypeOK'
    BY EnvType DEF IInv
  <1>2. Goal \in Cfg /\ base \in Cfg /\ tu \in Cfg /\ issued \in Cfg
    BY <1>1, GoalType DEF TypeOK
  <1>3. CASE UserDelete
    <2>1. Goal' = Goal /\ (Waiting' <=> Waiting) /\ (Settled' <=> Settled)
      BY <1>3, GoalFrame DEF UserDelete
    <2>2. /\ HasP' <=> HasP
          /\ Proper' <=> Proper
          /\ FutureP' = FutureP
      BY <1>3 DEF UserDelete, HasP, Proper, FutureP
    <2>3. Running' <=> Running
      BY <1>3, <2>2 DEF UserDelete, Running
    <2>4. AllBase' <=> AllBase
      BY <1>3, <2>1 DEF UserDelete, AllBase, SubBase
    <2>5. InvNames' /\ InvPlan' /\ (Alive' => Alive)
      BY <1>3, <2>1, <2>2, <2>3, <2>4
      DEF UserDelete, IInv, InvNames, InvPlan, Alive
    <2> QED BY <1>1, <1>3, <2>1, <2>5, StillFrame DEF UserDelete
  <1>4. CASE UserEnableNotifications \/ UserDisableNotifications
    <2>1. Settled /\ Goal = base /\ tu[T] # 0 /\ (enabled => tu[N] # 0)
      BY <1>4 DEF UserEnableNotifications, UserDisableNotifications, MayChange,
                  Settled, Waiting
    <2>2. UNCHANGED <<obj, tu, issued, fin, st, config, parentVars, crVars, subVars,
                      podVars, base>>
      BY <1>4 DEF UserEnableNotifications, UserDisableNotifications
    <2>3. AllBase' /\ lst' = lst /\ st' = base
      BY <2>1, <2>2 DEF IInv, InvStatus, AllBase, SubBase
    <2>4. /\ Running' <=> Running
          /\ Proper' <=> Proper
          /\ FutureP' = FutureP
      BY <2>2 DEF Running, HasP, Proper, FutureP
    <2>5. InvNames'
      BY <1>2, <1>4, <2>1, <2>2, BusFacts
      DEF IInv, InvNames, UserEnableNotifications, UserDisableNotifications, Goal,
          Settled
    <2>6. InvPlan'
      BY <1>4, <2>1, <2>2, <2>3, <2>4
      DEF IInv, InvPlan, UserEnableNotifications, UserDisableNotifications
    <2> QED BY <1>1, <2>1, <2>2, <2>3, <2>5, <2>6, EnvFrame
  <1>5. ASSUME NEW b \in Bus, RotateSecret(b)
        PROVE  IInv'
    <2>1. Settled /\ Goal = base /\ tu[T] # 0 /\ (enabled => tu[N] # 0)
      BY <1>5 DEF RotateSecret, MayChange, Settled, Waiting
    <2>2. UNCHANGED <<obj, enabled, fin, st, config, parentVars, crVars, subVars,
                      podVars, base>>
      BY <1>5 DEF RotateSecret
    <2>3. /\ tu[b] # 0 /\ tu'[b] # 0
          /\ tu'[b] = issued[b] + 1 /\ issued'[b] = issued[b] + 1
      BY <1>2, <1>5 DEF RotateSecret, Cfg
    <2>4. \A c \in Bus \ {b} : tu'[c] = tu[c] /\ issued'[c] = issued[c]
      BY <1>2, <1>5 DEF RotateSecret, Cfg
    <2>5. AllBase' /\ lst' = lst /\ st' = base
      BY <2>1, <2>2 DEF IInv, InvStatus, AllBase, SubBase
    <2>6. InvNames'
      BY <1>2, <2>1, <2>2, <2>3, <2>4, BusFacts DEF IInv, InvNames, Cfg
    <2>7. InvPlan'
      <3>1. ~Waiting /\ ~Waiting'
        BY <1>2, <2>1, <2>2, <2>3, <2>4, BusFacts DEF Settled, Waiting, Cfg
      <3>2. /\ HasP' <=> HasP
            /\ Running' <=> Running
            /\ Proper' <=> Proper
        BY <1>2, <2>1, <2>2, <2>3, <2>4, BusFacts DEF HasP, Running, Proper, Cfg
      <3>3. ASSUME Running, Proper
            PROVE  /\ FutureP' \in {base, Goal'}
                   /\ FutureP' = base => lst = base
        <4>1. FutureP = base /\ Goal = base /\ lst = base
          BY <2>1, <3>3 DEF IInv, InvPlan
        <4>2. GoalValue /\ PlanValue /\ GoalValue' /\ PlanValue'
          BY <1>1, <3>2, <3>3, Values
        <4>3. Goal' \in Cfg
          BY <1>1 DEF TypeOK, Goal, Cfg
        <4>4. CASE (b = T /\ pc = "transport") \/ (b = N /\ ~HasP /\ wantN)
          <5>1. FutureP'[T] = Goal'[T] /\ FutureP'[N] = Goal'[N]
            BY <2>2, <2>3, <2>4, <3>1, <3>2, <4>1, <4>2, <4>4, BusFacts
            DEF GoalValue, PlanValue, HasP
          <5>2. FutureP' = Goal'
            BY <4>2, <4>3, <5>1, CfgEqual DEF PlanValue
          <5> QED BY <4>1, <5>2
        <4>5. CASE ~((b = T /\ pc = "transport") \/ (b = N /\ ~HasP /\ wantN))
          <5>1. FutureP'[T] = FutureP[T] /\ FutureP'[N] = FutureP[N]
            BY <2>2, <2>4, <3>2, <4>2, <4>5, BusFacts DEF PlanValue
          <5>2. FutureP' = base
            BY <1>2, <4>1, <4>2, <5>1, CfgEqual DEF PlanValue
          <5> QED BY <4>1, <5>2
        <4> QED BY <4>4, <4>5
      <3> QED BY <1>2, <2>1, <2>2, <2>3, <2>4, <2>5, <3>2, <3>3, BusFacts
              DEF IInv, InvPlan, Cfg
    <2>8. tu'[T] # 0
      BY <2>1, <2>3, <2>4, BusFacts
    <2> QED BY <1>1, <2>1, <2>2, <2>5, <2>6, <2>7, <2>8, EnvFrame
  <1>6. ASSUME NEW b \in Bus, PublishSecret(b)
        PROVE  IInv'
    <2>1. UNCHANGED <<obj, enabled, fin, st, config, parentVars, crVars, subVars,
                      podVars, base>>
      BY <1>6 DEF PublishSecret
    <2>2. /\ tu[b] = 0 /\ tu'[b] # 0
          /\ tu'[b] = issued[b] + 1 /\ issued'[b] = issued[b] + 1
      BY <1>2, <1>6 DEF PublishSecret, Cfg
    <2>3. \A c \in Bus \ {b} : tu'[c] = tu[c] /\ issued'[c] = issued[c]
      BY <1>2, <1>6 DEF PublishSecret, Cfg
    <2>4. tu[T] # 0 => tu'[T] # 0
      BY <2>2, <2>3, BusFacts
    <2>5. InvNames'
      BY <1>2, <2>1, <2>2, <2>3, BusFacts DEF IInv, InvNames, Cfg
    <2>6. /\ HasP' <=> HasP
          /\ Running' <=> Running
      BY <2>1 DEF HasP, Running
    <2>7. CASE Waiting
      <3>1. Goal = base /\ AllBase /\ AllBase'
        BY <2>1, <2>7 DEF IInv, InvStatus, AllBase, SubBase, Goal
      <3>2. ~Waiting' => Goal'[b] # base[b]
        BY <1>1, <2>1, <2>2, <2>3, <2>7, Values, BusFacts
        DEF IInv, InvNames, GoalValue, Waiting, NoCfg
      <3>3. Settled' => st = base
        BY <2>1, <3>2 DEF Settled
      <3>4. ASSUME Running, Proper'
            PROVE  /\ FutureP' \in {base, Goal'}
                   /\ FutureP' = base => lst = base /\ st = base
        <4>1. GoalValue' /\ PlanValue /\ PlanValue'
          BY <1>1, <2>6, <3>4, Values
        <4>2. Goal' \in Cfg
          BY <1>1 DEF TypeOK, Goal, Cfg
        <4>3. CASE b = T \/ (~HasP /\ wantN)
          <5>1. ~Waiting'
            BY <2>1, <2>2, <2>3, <2>6, <3>4, <4>3, BusFacts
            DEF IInv, InvPlan, InvLocals, Proper, Waiting, Running
          <5>2. FutureP'[T] = Goal'[T] /\ FutureP'[N] = Goal'[N]
            BY <2>1, <2>2, <2>3, <2>6, <3>4, <4>1, <4>3, <5>1, BusFacts
            DEF IInv, InvPlan, InvLocals, GoalValue, PlanValue, Running
          <5>3. FutureP' = Goal'
            BY <4>1, <4>2, <5>2, CfgEqual DEF PlanValue
          <5> QED BY <3>2, <5>1, <5>3
        <4>4. CASE b = N /\ (HasP \/ ~wantN)
          <5>1. FutureP'[T] = FutureP[T] /\ FutureP'[N] = FutureP[N]
            BY <2>1, <2>3, <2>6, <4>1, <4>4, BusFacts DEF PlanValue
          <5>2. FutureP' = FutureP
            BY <4>1, <5>1, CfgEqual DEF PlanValue
          <5>3. Proper
            BY <2>1, <2>3, <3>4, <4>4, BusFacts DEF Proper, HasP
          <5> QED BY <3>1, <3>4, <5>2, <5>3 DEF IInv, InvPlan
        <4> QED BY <4>3, <4>4, BusFacts
      <3>5. InvPlan'
        BY <2>1, <2>2, <2>3, <2>6, <3>1, <3>4, BusFacts DEF IInv, InvPlan, InvLocals
      <3> QED BY <1>1, <2>1, <2>4, <2>5, <3>1, <3>3, <3>5, EnvFrame
    <2>8. CASE ~Waiting
      <3>1. b = N /\ ~enabled /\ ~Waiting'
        BY <2>1, <2>2, <2>3, <2>8, BusFacts DEF Waiting
      <3>2. Goal' = Goal /\ (Settled' <=> Settled)
        <4>1. Goal' \in Cfg /\ GoalValue /\ GoalValue'
          BY <1>1, Values DEF TypeOK, Goal, Cfg
        <4>2. Goal'[T] = Goal[T] /\ Goal'[N] = Goal[N]
          BY <2>1, <2>3, <2>8, <3>1, <4>1, BusFacts DEF GoalValue
        <4> QED BY <1>2, <2>1, <2>8, <3>1, <4>1, <4>2, CfgEqual DEF Settled
      <3>3. AllBase' <=> AllBase
        BY <2>1 DEF AllBase, SubBase
      <3>4. ~HasP /\ Running => ~wantN
        BY <2>2, <3>1 DEF IInv, InvPlan, Running
      <3>5. Running => (Proper' <=> Proper) /\ FutureP' = FutureP
        <4> SUFFICES ASSUME Running
                     PROVE  (Proper' <=> Proper) /\ FutureP' = FutureP
          OBVIOUS
        <4>1. PlanValue /\ PlanValue'
          BY <1>1, <2>6, Values
        <4>2. FutureP'[T] = FutureP[T] /\ FutureP'[N] = FutureP[N]
          BY <2>1, <2>3, <2>6, <3>1, <3>4, <4>1, BusFacts DEF PlanValue
        <4>3. FutureP' = FutureP
          BY <4>1, <4>2, CfgEqual DEF PlanValue
        <4>4. Proper' <=> Proper
          BY <2>1, <2>3, <3>1, <3>4, BusFacts DEF Proper, HasP
        <4> QED BY <4>3, <4>4
      <3>6. InvPlan'
        BY <2>1, <2>2, <2>3, <2>6, <3>1, <3>2, <3>3, <3>5, BusFacts
        DEF IInv, InvPlan
      <3> QED BY <1>1, <2>1, <2>4, <2>5, <3>2, <3>6, StillFrame DEF Alive
    <2> QED BY <2>7, <2>8
  <1> QED BY <1>3, <1>4, <1>5, <1>6 DEF EnvStep

\* Steps of the parent that render nothing and touch no sub-CR.
LEMMA ParentFrame ==
  ASSUME IInv,
         UNCHANGED <<enabled, tu, issued, config, ann, applied, tmpl, pods,
                     spc, sAnn, sIn, base>>
  PROVE  /\ Goal' = Goal
         /\ Waiting' <=> Waiting
         /\ Settled' <=> Settled
         /\ AllBase' <=> AllBase
         /\ AllDone' <=> AllDone
         /\ InvNames' /\ InvSub'
  <1>1. /\ Goal' = Goal
        /\ Waiting' <=> Waiting
        /\ Settled' <=> Settled
    BY GoalFrame
  <1>2. /\ AllBase' <=> AllBase
        /\ AllDone' <=> AllDone
        /\ \A s \in Services : SubOK(s)' <=> SubOK(s)
    BY <1>1 DEF AllBase, SubBase, AllDone, SubOK, Done
  <1>3. InvNames' /\ InvSub'
    BY <1>1, <1>2 DEF IInv, InvNames, InvSub
  <1> QED BY <1>1, <1>2, <1>3

\* When nothing is left to do the reconcile has not moved the status.
LEMMA SettledStatus ==
  ASSUME IInv, Running, Settled
  PROVE  lst = base
  <1>1. Goal = base /\ ~Waiting
    BY DEF Settled
  <1>2. Proper
    BY <1>1 DEF IInv, InvPlan, Proper, Waiting
  <1> QED BY <1>1, <1>2 DEF IInv, InvPlan

\* A reconcile that ends early, after its status was patched or not.
LEMMA EndInv ==
  ASSUME IInv, TypeOK', ParentIdle, fin' = fin, obj' = obj,
         UNCHANGED <<enabled, tu, issued, config, ann, applied, tmpl, pods,
                     spc, sAnn, sIn, base>>,
         st' = st \/ (Running /\ st' = lst)
  PROVE  IInv'
  <1>1. ~Running' /\ ~HasP' /\ pc' \notin Releasing /\ p' = NoCfg
    BY DEF ParentIdle, Running, HasP, Releasing
  <1>2. InvPlan' /\ InvLocals'
    BY <1>1 DEF ParentIdle, InvPlan, InvLocals, Running
  <1>3. InvStatus'
    BY <1>1, ParentFrame, SettledStatus DEF IInv, InvStatus, Tracks
  <1>4. \A b \in Bus : NoCfg[b] = 0
    BY DEF NoCfg
  <1>5. InvFin'
    BY <1>1, <1>4, ParentFrame DEF IInv, InvFin, Alive
  <1> QED BY <1>2, <1>3, <1>5, ParentFrame DEF IInv

LEMMA FetchInv ==
  ASSUME IInv, ParentFetch
  PROVE  IInv'
  <1> USE DEF worldVars, parentVars, crVars, subVars, podVars
  <1>1. TypeOK /\ TypeOK'
    BY ParentType DEF IInv, ParentStep
  <1>2. UNCHANGED <<enabled, tu, issued, fin, st, config, ann, applied, tmpl, pods,
                    spc, sAnn, sIn, base>> /\ (Alive' <=> Alive)
    BY DEF ParentFetch, Alive
  <1>3. ~Running /\ p = NoCfg /\ rdy = {} /\ ~guard
    BY DEF ParentFetch, IInv, InvLocals, Running, HasP
  <1>4. \A b \in Bus : NoCfg[b] = 0
    BY DEF NoCfg
  <1>5. p' = NoCfg /\ rdy' = {} /\ ~guard' /\ ~HasP'
    BY <1>3 DEF ParentFetch, ParentIdle, HasP
  <1>6. InvLocals'
    BY <1>4, <1>5, BusFacts DEF ParentFetch, ParentIdle, InvLocals, Running
  <1>7. InvFin'
    BY <1>2, <1>4, <1>5, ParentFrame
    DEF IInv, InvFin, Alive, ParentFetch, ParentIdle, Releasing
  <1>8. CASE pc' # "transport"
    <2>1. ~Running'
      BY <1>5, <1>8 DEF Running, ParentFetch, ParentIdle, HasP
    <2>2. InvPlan'
      BY <2>1 DEF InvPlan, Running
    <2>3. InvStatus'
      BY <1>2, <2>1, ParentFrame DEF IInv, InvStatus, Tracks
    <2> QED BY <1>1, <1>2, <1>6, <1>7, <2>2, <2>3, ParentFrame DEF IInv
  <1>9. CASE pc' = "transport"
    <2>1. Running' /\ lst' = st /\ wantN' = enabled
      BY <1>9 DEF Running, ParentFetch, ParentIdle
    <2>2. Proper' <=> ~Waiting
      BY <1>2, <1>9, <2>1 DEF Proper, Waiting
    <2>3. Proper' => FutureP' = Goal
      <3>1. GoalValue /\ PlanValue' /\ Goal \in Cfg
        BY <1>1, <2>1, Values, GoalType
      <3>2. ~Waiting => FutureP'[T] = Goal[T] /\ FutureP'[N] = Goal[N]
        BY <1>2, <1>5, <1>9, <2>1, <3>1 DEF GoalValue, PlanValue
      <3> QED BY <2>2, <3>1, <3>2, CfgEqual DEF PlanValue
    <2>4. InvPlan'
      BY <1>2, <1>9, <2>1, <2>2, <2>3, ParentFrame
      DEF IInv, InvPlan, InvStatus, Settled
    <2>5. InvStatus'
      BY <1>2, <2>1, ParentFrame DEF IInv, InvStatus, Tracks
    <2> QED BY <1>1, <1>2, <1>6, <1>7, <2>4, <2>5, ParentFrame DEF IInv
  <1> QED BY <1>8, <1>9

LEMMA TransportInv ==
  ASSUME IInv, ParentTransport
  PROVE  IInv'
  <1> USE DEF worldVars, parentVars, crVars, subVars, podVars
  <1>1. TypeOK /\ TypeOK'
    BY ParentType DEF IInv, ParentStep
  <1>2. UNCHANGED <<obj, enabled, tu, issued, config, ann, applied, tmpl, pods,
                    spc, sAnn, sIn, base>> /\ (Alive' <=> Alive)
    BY DEF ParentTransport, Alive
  <1>3. Running /\ ~HasP /\ pc = "transport"
    BY DEF ParentTransport, Running, HasP
  <1>4. CASE tu[T] = 0
    BY <1>1, <1>2, <1>3, <1>4, EndInv DEF ParentTransport, UseTransportURL
  <1>5. CASE tu[T] # 0
    <2>1. /\ pc' = "notifications" /\ wantN' = wantN /\ st' = st
          /\ rdy' = rdy /\ guard' = guard
          /\ p'[T] = tu[T] /\ p'[N] = p[N]
          /\ lst'[T] = (IF lst[T] = 0 THEN tu[T] ELSE lst[T]) /\ lst'[N] = lst[N]
          /\ fin' = fin \cup {<<T, tu[T]>>}
      BY <1>1, <1>5, BusFacts DEF ParentTransport, UseTransportURL, TypeOK, Cfg
    <2>2. Running' /\ ~HasP'
      BY <2>1 DEF Running, HasP
    <2>3. Proper' <=> Proper
      BY <1>2, <1>3, <1>5, <2>1 DEF Proper
    <2>4. FutureP' = FutureP
      <3>1. PlanValue /\ PlanValue'
        BY <1>1, <1>3, <2>2, Values
      <3>2. FutureP'[T] = FutureP[T] /\ FutureP'[N] = FutureP[N]
        BY <1>2, <1>3, <2>1, <2>2, <3>1 DEF PlanValue
      <3> QED BY <3>1, <3>2, CfgEqual DEF PlanValue
    <2>5. Proper /\ FutureP = base => lst' = base
      <3>1. ASSUME Proper, FutureP = base
            PROVE  lst' = base
        <4>1. lst = base /\ PlanValue /\ lst' \in Cfg /\ base \in Cfg
          BY <1>1, <1>3, <3>1, Values DEF IInv, InvPlan, TypeOK
        <4>2. base[T] = tu[T]
          BY <1>3, <3>1, <4>1 DEF PlanValue
        <4> QED BY <1>5, <2>1, <4>1, <4>2, CfgEqual
      <3> QED BY <3>1
    <2>6. InvPlan'
      BY <1>2, <1>3, <1>5, <2>1, <2>2, <2>3, <2>4, <2>5, ParentFrame DEF IInv, InvPlan
    <2>7. InvLocals'
      BY <1>2, <1>3, <1>5, <2>1, <2>2 DEF IInv, InvLocals
    <2>8. InvStatus'
      BY <1>2, <1>3, <2>1, <2>2, ParentFrame, BusFacts DEF IInv, InvStatus, Tracks
    <2>9. InvFin'
      BY <1>2, <1>3, <2>1, ParentFrame, BusFacts DEF IInv, InvFin, Releasing
    <2> QED BY <1>1, <1>2, <2>6, <2>7, <2>8, <2>9, ParentFrame DEF IInv
  <1> QED BY <1>4, <1>5

LEMMA NotificationsInv ==
  ASSUME IInv, ParentNotifications
  PROVE  IInv'
  <1> USE DEF worldVars, parentVars, crVars, subVars, podVars
  <1>1. TypeOK /\ TypeOK'
    BY ParentType DEF IInv, ParentStep
  <1>2. UNCHANGED <<obj, enabled, tu, issued, config, ann, applied, tmpl, pods,
                    spc, sAnn, sIn, base>> /\ (Alive' <=> Alive)
    BY DEF ParentNotifications, Alive
  <1>3. Running /\ ~HasP /\ pc = "notifications"
    BY DEF ParentNotifications, Running, HasP
  <1>4. CASE wantN /\ tu[N] = 0
    BY <1>1, <1>2, <1>3, <1>4, EndInv DEF ParentNotifications, UseTransportURL
  <1>5. CASE ~(wantN /\ tu[N] = 0)
    <2>1. /\ pc' = "config" /\ wantN' = wantN /\ st' = st
          /\ rdy' = rdy /\ guard' = guard
          /\ p'[T] = p[T] /\ lst'[T] = lst[T]
      BY <1>1, <1>5, BusFacts DEF ParentNotifications, UseTransportURL, TypeOK, Cfg
    <2>2. /\ wantN => /\ tu[N] # 0 /\ p'[N] = tu[N]
                      /\ lst'[N] = (IF lst[N] = 0 THEN tu[N] ELSE lst[N])
                      /\ fin' = fin \cup {<<N, tu[N]>>}
          /\ ~wantN => p' = p /\ lst' = lst /\ fin' = fin
      BY <1>1, <1>5, BusFacts DEF ParentNotifications, UseTransportURL, TypeOK, Cfg
    <2>3. Running' /\ HasP' /\ Proper' /\ Proper
      BY <1>3, <1>5, <2>1 DEF Running, HasP, Proper
    <2>4. FutureP' = FutureP
      <3>1. PlanValue /\ PlanValue'
        BY <1>1, <1>3, <2>3, Values
      <3>2. FutureP'[T] = FutureP[T] /\ FutureP'[N] = FutureP[N]
        BY <1>2, <1>3, <2>1, <2>2, <2>3, <3>1 DEF PlanValue, IInv, InvLocals
      <3> QED BY <3>1, <3>2, CfgEqual DEF PlanValue
    <2>5. FutureP = base => lst' = base
      <3>1. ASSUME FutureP = base
            PROVE  lst' = base
        <4>1. lst = base /\ PlanValue /\ lst' \in Cfg /\ base \in Cfg
          BY <1>1, <1>3, <2>3, <3>1, Values DEF IInv, InvPlan, TypeOK
        <4>2. wantN => base[N] = tu[N]
          BY <1>3, <3>1, <4>1 DEF PlanValue
        <4> QED BY <2>1, <2>2, <4>1, <4>2, CfgEqual
      <3> QED BY <3>1
    <2>6. InvPlan'
      BY <1>2, <1>3, <2>1, <2>3, <2>4, <2>5, ParentFrame DEF IInv, InvPlan
    <2>7. InvLocals'
      BY <1>2, <1>3, <2>1, <2>2, <2>3 DEF IInv, InvLocals
    <2>8. InvStatus'
      BY <1>2, <1>3, <2>1, <2>2, <2>3, ParentFrame, BusFacts DEF IInv, InvStatus, Tracks
    <2>9. InvFin'
      BY <1>2, <1>3, <2>1, <2>2, ParentFrame, BusFacts DEF IInv, InvFin, Releasing
    <2> QED BY <1>1, <1>2, <2>6, <2>7, <2>8, <2>9, ParentFrame DEF IInv
  <1> QED BY <1>4, <1>5

LEMMA ConfigInv ==
  ASSUME IInv, ParentConfig
  PROVE  IInv'
  <1> USE DEF worldVars, parentVars, crVars, subVars, podVars
  <1>1. TypeOK /\ TypeOK'
    BY ParentType DEF IInv, ParentStep
  <1>2. /\ UNCHANGED <<obj, enabled, tu, issued, fin, ann, applied, tmpl, pods,
                       spc, sAnn, sIn, base>>
        /\ config' = p /\ (Alive' <=> Alive)
    BY DEF ParentConfig, Alive
  <1>3. Running /\ HasP /\ pc = "config" /\ rdy = {} /\ ~guard
    BY DEF ParentConfig, Running, HasP, IInv, InvLocals
  <1>4. /\ p \in {base, Goal}
        /\ p = base => AllBase /\ lst = base /\ st = base
    BY <1>3, PlanIsP
  <1>5. /\ Goal' = Goal
        /\ Waiting' <=> Waiting
        /\ Settled' <=> Settled
    BY <1>2, GoalFrame
  <1>6. InvNames'
    BY <1>2 DEF IInv, InvNames
  <1>7. AllBase /\ p = base => AllBase'
    BY <1>2 DEF AllBase, SubBase
  <1>8. AllDone' <=> AllDone
    BY <1>2, <1>5 DEF AllDone
  <1>9. InvSub'
    BY <1>2, <1>4, <1>5 DEF IInv, InvSub, SubOK, Done, AllBase
  <1>10. InvFin'
    BY <1>2, <1>3, <1>8, NoCfgType
    DEF IInv, InvFin, ParentConfig, ParentIdle, Releasing, NoCfg
  <1>11. CASE pHash # p
    <2>1. ParentIdle /\ st' = lst /\ ~Running' /\ ~HasP'
      BY <1>11 DEF ParentConfig, ParentIdle, Running, HasP
    <2>2. InvPlan' /\ InvLocals'
      BY <2>1 DEF InvPlan, InvLocals, ParentIdle, Running
    <2>3. InvStatus'
      BY <1>2, <1>3, <1>4, <1>5, <1>7, <1>8, <2>1, SettledStatus
      DEF IInv, InvStatus, Tracks, Settled
    <2> QED BY <1>1, <1>6, <1>9, <1>10, <2>2, <2>3 DEF IInv
  <1>12. CASE pHash = p
    <2>1. pc' = "services" /\ UNCHANGED <<st, lst, p, wantN, rdy, guard>>
      BY <1>12 DEF ParentConfig
    <2>2. Running' /\ HasP' /\ FutureP' = p
      BY <2>1 DEF Running, HasP, FutureP
    <2>3. InvPlan'
      BY <1>2, <1>3, <1>4, <1>5, <1>7, <2>1, <2>2 DEF IInv, InvPlan
    <2>4. InvLocals'
      BY <1>2, <1>3, <2>1, <2>2 DEF IInv, InvLocals
    <2>5. InvStatus'
      BY <1>2, <1>3, <1>4, <1>5, <1>7, <1>8, <2>1, <2>2 DEF IInv, InvStatus, Tracks
    <2> QED BY <1>1, <1>6, <1>9, <1>10, <2>3, <2>4, <2>5 DEF IInv
  <1> QED BY <1>11, <1>12

LEMMA ServiceInv ==
  ASSUME IInv, NEW s \in Services, ParentService(s)
  PROVE  IInv'
  <1> USE DEF worldVars, parentVars, crVars, subVars, podVars
  <1>1. TypeOK /\ TypeOK'
    BY ParentType DEF IInv, ParentStep
  <1>2. /\ UNCHANGED <<obj, enabled, tu, issued, fin, st, config, pc, lst, p, wantN,
                       guard, applied, tmpl, pods, spc, sAnn, sIn, base>>
        /\ Alive' <=> Alive
    BY DEF ParentService, Alive
  <1>3. /\ Running /\ HasP /\ pc = "services" /\ config = p
        /\ p \in {base, Goal}
        /\ p = base => AllBase /\ lst = base /\ st = base
    BY PlanIsP DEF ParentService, Running, HasP, IInv, InvLocals
  <1>4. /\ ann'[s] = p
        /\ \A x \in Services \ {s} : ann'[x] = ann[x]
        /\ \A x \in rdy' : x \in rdy \/ applied[x] = p
    BY <1>1 DEF ParentService, TypeOK
  <1>5. /\ Goal' = Goal
        /\ Waiting' <=> Waiting
        /\ Settled' <=> Settled
    BY <1>2, GoalFrame
  <1>6. /\ Running' <=> Running
        /\ HasP' <=> HasP
        /\ Proper' <=> Proper
        /\ FutureP' = FutureP
    BY <1>2 DEF Running, HasP, Proper, FutureP
  <1>7. AllBase => AllBase'
    BY <1>2, <1>3, <1>4 DEF AllBase, SubBase
  <1>8. AllDone' <=> AllDone
    BY <1>2, <1>5 DEF AllDone
  <1>9. InvNames' /\ InvPlan' /\ InvStatus'
    BY <1>2, <1>5, <1>6, <1>7, <1>8 DEF IInv, InvNames, InvPlan, InvStatus, Tracks
  <1>10. InvLocals'
    BY <1>2, <1>3, <1>4, <1>6 DEF IInv, InvLocals
  <1>11. \A x \in Services : SubOK(x)'
    <2>1. ASSUME NEW x \in Services PROVE SubOK(x)'
      <3>1. SubOK(x)
        BY DEF IInv, InvSub
      <3>2. ann'[x] = ann[x] \/ ann'[x] = p
        BY <1>4
      <3> QED BY <1>2, <1>3, <1>5, <3>1, <3>2 DEF SubOK, Done
    <2> QED BY <2>1
  <1>12. InvSub'
    BY <1>2, <1>5, <1>11 DEF IInv, InvSub
  <1>13. InvFin'
    BY <1>2, <1>8 DEF IInv, InvFin
  <1> QED BY <1>1, <1>9, <1>10, <1>12, <1>13 DEF IInv

LEMMA GuardInv ==
  ASSUME IInv, TypeOK', ParentGuard \/ ParentGuardHeld
  PROVE  IInv'
  <1> USE DEF worldVars, parentVars, crVars, subVars, podVars
  <1>1. /\ UNCHANGED <<obj, enabled, tu, issued, fin, st, config, lst, p, wantN, rdy,
                       ann, applied, tmpl, pods, spc, sAnn, sIn, base>>
        /\ Alive' <=> Alive
    BY DEF ParentGuard, ParentGuardHeld, Alive
  <1>2. pc = "services" /\ pc' = "finalizeTransport" /\ (guard' => rdy = Services)
    BY DEF ParentGuard, ParentGuardHeld
  <1>3. Running /\ HasP /\ Running' /\ HasP' /\ FutureP' = p
    BY <1>1, <1>2 DEF Running, HasP, FutureP
  <1>4. InvPlan'
    BY <1>1, <1>2, <1>3, PlanIsP, ParentFrame DEF IInv, InvPlan
  <1>5. InvLocals'
    BY <1>1, <1>2, <1>3 DEF IInv, InvLocals
  <1>6. InvStatus'
    BY <1>1, <1>3, ParentFrame DEF IInv, InvStatus, Tracks
  <1>7. InvFin'
    BY <1>1, <1>2, ParentFrame DEF IInv, InvFin, Releasing
  <1> QED BY <1>1, <1>4, <1>5, <1>6, <1>7, ParentFrame DEF IInv

\* A reconcile that may release: either everyone is done with base, or base
\* is what it renders and what its status tracks.
LEMMA GuardMeans ==
  ASSUME IInv, guard
  PROVE  /\ HasP /\ Running /\ config = p
         /\ \/ p = Goal /\ AllDone
            \/ p = base /\ lst = base /\ st = base
  BY PlanIsP DEF IInv, InvLocals, Running, AllDone

LEMMA FinalizeTransportInv ==
  ASSUME IInv, ParentFinalizeTransport
  PROVE  IInv'
  <1> USE DEF worldVars, parentVars, crVars, subVars, podVars
  <1>1. TypeOK /\ TypeOK'
    BY ParentType DEF IInv, ParentStep
  <1>2. /\ UNCHANGED <<obj, enabled, tu, issued, st, config, p, wantN, rdy, guard,
                       ann, applied, tmpl, pods, spc, sAnn, sIn, base>>
        /\ Alive' <=> Alive
    BY DEF ParentFinalizeTransport, Alive
  <1>3. /\ pc = "finalizeTransport" /\ pc' = "finalizeNotifications"
        /\ Running /\ HasP /\ Running' /\ HasP' /\ FutureP' = p /\ config = p
    BY <1>2 DEF ParentFinalizeTransport, Running, HasP, FutureP, IInv, InvLocals
  <1>4. /\ guard => lst'[T] = p[T] /\ lst'[N] = lst[N]
        /\ ~guard => lst' = lst /\ fin' = fin
        /\ fin' = fin \/ (lst[T] # p[T] /\ fin' = fin \ {<<T, lst[T]>>})
    BY <1>1, BusFacts
    DEF ParentFinalizeTransport, FinalizeSecretRotation, TypeOK, Cfg
  <1>5. p = base => lst' = base
    <2>1. CASE ~guard
      BY <1>3, <1>4, <2>1, PlanIsP
    <2>2. CASE guard
      BY <1>1, <1>3, <1>4, <2>2, PlanIsP, CfgEqual DEF TypeOK
    <2> QED BY <2>1, <2>2
  <1>6. InvPlan'
    BY <1>2, <1>3, <1>5, PlanIsP, ParentFrame DEF IInv, InvPlan
  <1>7. InvLocals'
    BY <1>2, <1>3, <1>4 DEF IInv, InvLocals
  <1>8. InvStatus'
    BY <1>2, <1>3, <1>4, <1>5, GuardMeans, PlanIsP, ParentFrame, BusFacts
    DEF IInv, InvStatus, Tracks
  <1>9. InvFin'
    <2>1. ASSUME NEW b \in Bus, <<b, p[b]>> \in fin
          PROVE  <<b, p[b]>> \in fin'
      BY <1>4, <2>1
    <2>2. ASSUME NEW b \in Bus, <<b, base[b]>> \in fin, ~AllDone
          PROVE  <<b, base[b]>> \in fin'
      BY <1>4, <2>1, <2>2, GuardMeans
    <2> QED BY <1>2, <1>3, <2>1, <2>2, ParentFrame DEF IInv, InvFin, Releasing
  <1> QED BY <1>1, <1>2, <1>6, <1>7, <1>8, <1>9, ParentFrame DEF IInv

LEMMA FinalizeNotificationsInv ==
  ASSUME IInv, ParentFinalizeNotifications
  PROVE  IInv'
  <1> USE DEF worldVars, parentVars, crVars, subVars, podVars
  <1>1. TypeOK /\ TypeOK'
    BY ParentType DEF IInv, ParentStep
  <1>2. /\ UNCHANGED <<obj, enabled, tu, issued, st, config, p, wantN, rdy, guard,
                       ann, applied, tmpl, pods, spc, sAnn, sIn, base>>
        /\ Alive' <=> Alive
    BY DEF ParentFinalizeNotifications, Alive
  <1>3. /\ pc = "finalizeNotifications" /\ pc' \in {"prune", "deleteNotifications"}
        /\ Running /\ HasP /\ Running' /\ HasP' /\ FutureP' = p /\ config = p
        /\ p[N] # 0 <=> wantN
        /\ guard => lst[T] = p[T]
    BY <1>2 DEF ParentFinalizeNotifications, Running, HasP, FutureP, IInv, InvLocals
  <1>4. /\ lst'[T] = lst[T]
        /\ ~guard => lst' = lst /\ fin' = fin /\ pc' = "prune"
        /\ fin' = fin \/ (guard /\ lst[N] # p[N] /\ fin' = fin \ {<<N, lst[N]>>})
        /\ guard /\ pc' = "prune" => lst'[N] = p[N]
        /\ pc' = "deleteNotifications" => lst' = lst /\ ~wantN /\ lst[N] # 0 /\ guard
    BY <1>1, <1>3, BusFacts
    DEF ParentFinalizeNotifications, FinalizeSecretRotation, TypeOK, Cfg
  <1>5. guard /\ pc' = "prune" => lst' = p
    BY <1>1, <1>3, <1>4, CfgEqual DEF TypeOK
  <1>6. p = base => lst' = base
    BY <1>3, <1>4, <1>5, PlanIsP
  <1>7. InvPlan'
    BY <1>2, <1>3, <1>6, PlanIsP, ParentFrame DEF IInv, InvPlan
  <1>8. InvLocals'
    BY <1>2, <1>3, <1>4, <1>5 DEF IInv, InvLocals
  <1>9. InvStatus'
    BY <1>2, <1>3, <1>4, <1>6, GuardMeans, PlanIsP, ParentFrame, BusFacts
    DEF IInv, InvStatus, Tracks
  <1>10. InvFin'
    <2>1. ASSUME NEW b \in Bus, <<b, p[b]>> \in fin
          PROVE  <<b, p[b]>> \in fin'
      BY <1>4, <2>1
    <2>2. ASSUME NEW b \in Bus, <<b, base[b]>> \in fin, ~AllDone
          PROVE  <<b, base[b]>> \in fin'
      BY <1>4, <2>1, <2>2, GuardMeans
    <2> QED BY <1>2, <1>3, <2>1, <2>2, ParentFrame DEF IInv, InvFin, Releasing
  <1> QED BY <1>1, <1>2, <1>7, <1>8, <1>9, <1>10, ParentFrame DEF IInv

LEMMA DeleteNotificationsInv ==
  ASSUME IInv, ParentDeleteNotifications
  PROVE  IInv'
  <1> USE DEF worldVars, parentVars, crVars, subVars, podVars
  <1>1. TypeOK /\ TypeOK'
    BY ParentType DEF IInv, ParentStep
  <1>2. /\ UNCHANGED <<obj, enabled, issued, fin, st, config, p, wantN, rdy, guard,
                       ann, applied, tmpl, pods, spc, sAnn, sIn, base>>
        /\ Alive' <=> Alive
        /\ tu'[T] = tu[T] /\ tu'[N] = 0 /\ lst'[T] = lst[T] /\ lst'[N] = 0
    BY <1>1, BusFacts DEF ParentDeleteNotifications, Alive, TypeOK, Cfg
  <1>3. /\ pc = "deleteNotifications" /\ pc' = "prune"
        /\ Running /\ HasP /\ Running' /\ HasP' /\ FutureP' = p
    BY <1>2 DEF ParentDeleteNotifications, Running, HasP, FutureP
  <1>4. /\ guard /\ ~wantN /\ lst[N] # 0 /\ lst[T] = p[T] /\ p[N] = 0 /\ tu[T] # 0
        /\ config = p
    BY <1>3 DEF IInv, InvLocals
  \* A bus that is still the goal is not torn down.
  <1>5. p = Goal /\ p # base /\ AllDone /\ ~Waiting /\ ~enabled
    <2>1. p # base /\ p = Goal /\ AllDone
      BY <1>3, <1>4, PlanIsP, GuardMeans
    <2>2. ~Waiting
      BY <2>1 DEF Goal
    <2> QED BY <1>1, <1>4, <2>1, <2>2, Values DEF GoalValue, Waiting
  <1>6. Goal' = Goal /\ ~Waiting' /\ (Settled' <=> Settled)
    <2>1. ~Waiting'
      BY <1>2, <1>4, <1>5 DEF Waiting
    <2>2. Goal \in Cfg /\ Goal' \in Cfg
      BY <1>1, GoalType DEF TypeOK, Goal, Cfg
    <2>3. Goal'[T] = Goal[T] /\ Goal'[N] = Goal[N]
      <3>1. GoalValue /\ GoalValue'
        BY <1>1, Values
      <3> QED BY <1>2, <1>5, <2>1, <3>1 DEF GoalValue
    <2> QED BY <1>2, <1>5, <2>1, <2>2, <2>3, CfgEqual DEF Settled
  <1>7. /\ AllDone' <=> AllDone
        /\ \A s \in Services : SubOK(s)' <=> SubOK(s)
    BY <1>2, <1>6 DEF AllDone, SubOK, Done
  <1>8. InvNames'
    BY <1>1, <1>2, <1>4, <1>5, BusFacts DEF IInv, InvNames, TypeOK, Cfg
  <1>9. lst' = p
    BY <1>1, <1>2, <1>4, CfgEqual DEF TypeOK
  <1>10. InvPlan' /\ InvLocals'
    BY <1>2, <1>3, <1>4, <1>5, <1>6, <1>9 DEF IInv, InvPlan, InvLocals
  <1>11. InvStatus' /\ InvSub' /\ InvFin'
    BY <1>2, <1>3, <1>5, <1>6, <1>7
    DEF IInv, InvStatus, InvSub, InvFin, Settled, Releasing
  <1> QED BY <1>1, <1>8, <1>10, <1>11 DEF IInv

LEMMA PruneInv ==
  ASSUME IInv, ParentPrune
  PROVE  IInv'
  <1> USE DEF worldVars, parentVars, crVars, subVars, podVars
  <1>1. TypeOK /\ TypeOK'
    BY ParentType DEF IInv, ParentStep
  <1>2. /\ UNCHANGED <<obj, enabled, tu, issued, st, config, lst, p, wantN, rdy, guard,
                       ann, applied, tmpl, pods, spc, sAnn, sIn, base>>
        /\ Alive' <=> Alive
        /\ fin' = fin \cap Keep
    BY DEF ParentPrune, Alive
  <1>3. /\ pc = "prune" /\ pc' = "patch"
        /\ Running /\ HasP /\ Running' /\ HasP' /\ FutureP' = p /\ config = p
    BY <1>2 DEF ParentPrune, Running, HasP, FutureP, IInv, InvLocals
  <1>4. InvPlan'
    BY <1>2, <1>3, PlanIsP, ParentFrame DEF IInv, InvPlan
  <1>5. InvLocals'
    BY <1>2, <1>3 DEF IInv, InvLocals
  <1>6. InvStatus'
    BY <1>2, <1>3, ParentFrame DEF IInv, InvStatus, Tracks
  <1>7. InvFin'
    <2>1. \A b \in Bus : <<b, lst[b]>> \in Keep /\ <<b, p[b]>> \in Keep
      BY DEF Keep
    <2>2. \A b \in Bus : base[b] # 0 /\ ~AllDone => lst[b] = base[b]
      BY <1>3 DEF IInv, InvStatus, Tracks
    <2> QED BY <1>2, <1>3, <2>1, <2>2, ParentFrame DEF IInv, InvFin, Releasing
  <1> QED BY <1>1, <1>2, <1>4, <1>5, <1>6, <1>7, ParentFrame DEF IInv

\* The change is complete when the reconcile that saw everyone done persists
\* its status: from then on its configuration is the base of the next one.
LEMMA PatchInv ==
  ASSUME IInv, ParentPatch
  PROVE  IInv'
  <1> USE DEF worldVars, parentVars, crVars, subVars, podVars
  <1>1. TypeOK /\ TypeOK'
    BY ParentType DEF IInv, ParentStep
  <1>2. /\ UNCHANGED <<obj, enabled, tu, issued, fin, config, ann, applied, tmpl, pods,
                       spc, sAnn, sIn>>
        /\ st' = lst /\ ParentIdle
    BY DEF ParentPatch
  <1>3. pc = "patch" /\ Running /\ HasP /\ config = p
    BY DEF ParentPatch, Running, HasP, IInv, InvLocals
  <1>4. CASE guard /\ ~Waiting /\ p = Goal
    <2>1. base' = Goal /\ lst = p /\ AllDone
      BY <1>3, <1>4 DEF ParentPatch, IInv, InvLocals, AllDone
    <2>2. /\ ~Waiting' /\ Goal' = Goal
      BY <1>2, <1>4 DEF Waiting, Goal
    <2>3. ~Running' /\ ~HasP' /\ pc' \notin Releasing /\ p' = NoCfg
      BY <1>2 DEF ParentIdle, Running, HasP, Releasing
    <2>4. \A s \in Services : SubOK(s) /\ Done(s) /\ applied[s] = Goal
      BY <2>1 DEF IInv, InvSub, SubOK, AllDone
    <2>5. \A s \in Services : SubBase(s)'
      BY <1>2, <2>1, <2>4 DEF SubBase, SubOK, Done
    <2>6. AllBase'
      BY <1>2, <1>3, <1>4, <2>1, <2>5 DEF AllBase
    <2>7. InvNames'
      <3>1. base'[N] = IF enabled THEN tu[N] ELSE 0
        BY <1>1, <1>4, <2>1, Values DEF GoalValue
      <3> QED BY <1>2, <1>4, <3>1 DEF IInv, InvNames, Waiting
    <2>8. InvPlan' /\ InvLocals'
      BY <1>2, <2>3 DEF ParentIdle, InvPlan, InvLocals, Running
    <2>9. InvStatus'
      BY <1>2, <1>4, <2>1, <2>2, <2>3, <2>6 DEF InvStatus, Tracks
    <2>10. InvSub'
      BY <2>1, <2>2, <2>6 DEF InvSub, SubOK, Done, AllBase, SubBase
    <2>11. InvFin'
      <3>1. AllDone' /\ (Alive' <=> Alive)
        BY <1>2, <2>1, <2>2 DEF AllDone, Alive
      <3>2. \A b \in Bus : p'[b] = 0
        BY <2>3 DEF NoCfg
      <3> QED BY <1>2, <2>3, <3>1, <3>2 DEF IInv, InvFin
    <2> QED BY <1>1, <2>7, <2>8, <2>9, <2>10, <2>11 DEF IInv
  <1>5. CASE ~(guard /\ ~Waiting /\ p = Goal)
    <2>1. base' = base
      BY <1>5 DEF ParentPatch
    <2> QED BY <1>1, <1>2, <1>3, <2>1, EndInv
  <1> QED BY <1>4, <1>5

LEMMA ReturnInv ==
  ASSUME BriefOutages, IInv, ParentReturn \/ ParentCrash \/ ParentConfigSkipped
  PROVE  IInv'
  <1> USE DEF worldVars, parentVars, crVars, subVars, podVars
  <1>1. TypeOK'
    BY FaultType DEF IInv, FaultStep
  <1>2. ParentReturn \/ ParentConfigSkipped => Running
    BY DEF ParentReturn, ParentConfigSkipped, Running, HasP, Releasing, IInv, TypeOK
  <1> QED BY <1>1, <1>2, EndInv DEF ParentReturn, ParentCrash, ParentConfigSkipped, BriefOutages

LEMMA DeleteInv ==
  ASSUME IInv, ParentRelease \/ ParentDeletePrune
  PROVE  IInv'
  <1> USE DEF worldVars, parentVars, crVars, subVars, podVars
  <1>1. TypeOK /\ TypeOK'
    BY ParentType DEF IInv, ParentStep
  <1>2. UNCHANGED <<enabled, tu, issued, st, config, ann, applied, tmpl, pods,
                    spc, sAnn, sIn, base>>
    BY DEF ParentRelease, ParentDeletePrune
  <1>3. /\ ~Running /\ ~Running' /\ ~HasP' /\ pc' \in {"deletePrune", "idle"}
        /\ ~Alive /\ ~Alive'
    BY DEF ParentRelease, ParentDeletePrune, ParentIdle, Running, HasP, Releasing,
           Alive, IInv, InvFin
  <1>4. p' = NoCfg /\ rdy' = {} /\ ~guard'
    BY <1>3 DEF ParentRelease, ParentDeletePrune, ParentIdle, IInv, InvLocals, Running
  <1>5. InvPlan' /\ InvLocals'
    BY <1>3, <1>4 DEF InvPlan, InvLocals
  <1>6. InvStatus' /\ InvFin'
    BY <1>2, <1>3, ParentFrame DEF IInv, InvStatus, InvFin, Tracks
  <1> QED BY <1>1, <1>2, <1>5, <1>6, ParentFrame DEF IInv

LEMMA InitInv == Init => IInv
  <1> SUFFICES ASSUME Init PROVE IInv
    OBVIOUS
  <1>1. TypeOK
    BY InitType
  <1>2. tu[T] = 0 /\ Waiting /\ Goal = base /\ ~Running /\ ~HasP
    BY BusFacts DEF Init, NoCfg, Waiting, Goal, Running, HasP
  <1>3. AllBase
    BY DEF Init, AllBase, SubBase
  <1>4. InvNames
    BY BusFacts DEF Init, InvNames, NoCfg
  <1>5. InvPlan /\ InvLocals
    BY <1>2 DEF Init, InvPlan, InvLocals
  <1>6. InvStatus
    BY <1>2, <1>3 DEF Init, InvStatus, Settled, Tracks
  <1>7. InvSub
    BY <1>2, <1>3 DEF InvSub, SubOK, Done, AllBase, SubBase
  <1>8. InvFin
    BY DEF Init, InvFin, NoCfg, Releasing
  <1> QED BY <1>1, <1>4, <1>5, <1>6, <1>7, <1>8 DEF IInv

LEMMA NextInv ==
  ASSUME ~Overlap, BriefOutages, IInv, [Next]_vars
  PROVE  IInv'
  <1>1. CASE UNCHANGED vars
    <2> USE <1>1 DEF vars, worldVars, parentVars, crVars, subVars, podVars
    <2>1. TypeOK'
      BY NextType DEF IInv
    <2>2. /\ HasP' <=> HasP
          /\ Running' <=> Running
          /\ Proper' <=> Proper
          /\ FutureP' = FutureP
      BY DEF HasP, Running, Proper, FutureP
    <2>3. InvPlan' /\ InvLocals' /\ InvStatus' /\ InvFin'
      BY <2>2, ParentFrame
      DEF IInv, InvPlan, InvLocals, InvStatus, InvFin, Tracks, Alive
    <2> QED BY <2>1, <2>3, ParentFrame DEF IInv
  <1>2. CASE ParentStep
    BY <1>2, FetchInv, TransportInv, NotificationsInv, ConfigInv, ServiceInv,
       GuardInv, ParentType, FinalizeTransportInv, FinalizeNotificationsInv,
       DeleteNotificationsInv, PruneInv, PatchInv, DeleteInv
    DEF ParentStep, IInv
  <1>3. CASE EnvStep
    BY <1>3, EnvInv
  <1>4. CASE FaultStep
    BY <1>4, ReturnInv, GuardInv, FaultType, SubInv, PodInv
    DEF FaultStep, IInv
  <1>5. ASSUME NEW s \in Services, SubStep(s) \/ PodStep(s)
        PROVE  IInv'
    BY <1>5, SubInv, PodInv
  <1> QED BY <1>1, <1>2, <1>3, <1>4, <1>5 DEF Next

LEMMA InvImpliesProtected == IInv => InUseProtected
  <1> SUFFICES ASSUME IInv, Alive,
                      NEW s \in Services, NEW q \in pods[s], NEW b \in Bus,
                      q.creds[b] # 0
               PROVE  <<b, q.creds[b]>> \in fin
    BY DEF InUseProtected
  <1>1. SubOK(s) /\ q.creds \in {base, Goal}
    BY DEF IInv, InvSub, SubOK
  <1>2. CASE q.creds = Goal
    BY <1>1, <1>2 DEF SubOK, IInv, InvFin
  <1>3. CASE q.creds = base /\ base # Goal
    <2>1. ~AllDone
      BY <1>1, <1>3 DEF IInv, InvSub, SubOK, AllDone, Done
    <2> QED BY <1>3, <2>1 DEF IInv, InvFin
  <1> QED BY <1>1, <1>2, <1>3

\* When credentials change only after the last change has settled and no two
\* reconciles in a row miss the password Secret (BriefOutages), no rotation,
\* teardown or pruning ever releases a secret that a running pod uses: for any
\* number of sub-CRs, rotations, error returns, crashes and pod restarts.
THEOREM SecretsInUseProtected ==
  ~Overlap /\ BriefOutages /\ Spec => []InUseProtected
  <1> SUFFICES ASSUME ~Overlap, BriefOutages PROVE Spec => []InUseProtected
    OBVIOUS
  <1>1. Init => IInv
    BY InitInv
  <1>2. IInv /\ [Next]_vars => IInv'
    BY NextInv
  <1>3. IInv => InUseProtected
    BY InvImpliesProtected
  <1> QED BY <1>1, <1>2, <1>3, PTL DEF Spec

----------------------------------------------------------------------------
(* The finalizers implement CredentialUse *)


\* What the pods of a live CR use, and that it is held.
Used ==
  IF ~Alive THEN {}
  ELSE UNION {{<<b, q.creds[b]>> : b \in {c \in Bus : q.creds[c] # 0}} :
                q \in UNION {pods[s] : s \in Services}}

LEMMA UsedHeld == InUseProtected => Used \subseteq fin
  <1> SUFFICES ASSUME InUseProtected, Alive, NEW s \in Services, NEW q \in pods[s],
                      NEW b \in Bus, q.creds[b] # 0
               PROVE  <<b, q.creds[b]>> \in fin
    BY DEF Used
  <1> QED BY DEF InUseProtected

\* A name is revocable when it is issued, superseded and not held.
LEMMA RevocableFacts ==
  \A x : x \in Revocable <=>
           /\ x \notin fin
           /\ \E b \in Bus : \E n \in (1 .. issued[b]) \ {tu[b]} : x = <<b, n>>
  BY DEF Revocable

LEMMA RevocableFactsNext ==
  \A x : x \in Revocable' <=>
           /\ x \notin fin'
           /\ \E b \in Bus : \E n \in (1 .. issued'[b]) \ {tu'[b]} : x = <<b, n>>
  BY DEF Revocable

\* How a step may change the published names and the finalizers: names are
\* issued in order, and only published names are taken.
NamesMove ==
  \A b \in Bus :
    /\ issued'[b] \in Nat /\ issued[b] <= issued'[b]
    /\ tu'[b] = tu[b] \/ tu'[b] = 0 \/ tu'[b] > issued[b]

LEMMA Moves ==
  ASSUME TypeOK, TypeOK', pc \in Releasing => ~Alive, [Next]_vars
  PROVE  /\ NamesMove
         /\ \A x \in fin' \ fin : \E b \in Bus : x = <<b, tu[b]>> /\ tu'[b] = tu[b]
         /\ UNCHANGED Used \/ UNCHANGED Revocable
  <1> USE DEF worldVars, parentVars, crVars, subVars, podVars
  <1>0. /\ tu \in [Bus -> Nat] /\ issued \in [Bus -> Nat]
        /\ tu' \in [Bus -> Nat] /\ issued' \in [Bus -> Nat]
    BY DEF TypeOK, Cfg
  <1>1. ASSUME UNCHANGED <<tu, issued>>
        PROVE  NamesMove
    BY <1>0, <1>1 DEF NamesMove
  <1>2. ASSUME UNCHANGED <<obj, pods>> PROVE UNCHANGED Used
    BY <1>2 DEF Used, Alive
  <1>3. ASSUME UNCHANGED <<tu, issued, fin>> PROVE UNCHANGED Revocable
    BY <1>3 DEF Revocable
  <1>4. ASSUME NEW b \in Bus, PublishSecret(b) \/ RotateSecret(b)
        PROVE  NamesMove /\ UNCHANGED <<obj, pods, fin>>
    <2>1. /\ issued' = [issued EXCEPT ![b] = @ + 1]
          /\ tu' = [tu EXCEPT ![b] = issued'[b]]
      BY <1>4 DEF PublishSecret, RotateSecret
    <2> QED BY <1>0, <1>4, <2>1 DEF NamesMove, PublishSecret, RotateSecret
  <1>5. CASE EnvStep
    BY <1>1, <1>2, <1>3, <1>4, <1>5
       DEF EnvStep, UserEnableNotifications, UserDisableNotifications, UserDelete
  <1>6. ASSUME NEW s \in Services, SubStep(s) \/ PodStep(s) \/ SubReturn(s) \/ SubCrash(s)
                                   \/ RestartPod(s)
        PROVE  UNCHANGED <<tu, issued, fin>>
    BY <1>6 DEF SubStep, PodStep, SubReturn, SubCrash, RestartPod, SubStart, SubRead,
       SubDeploy, SubCheck, StartPod, StopPod
  <1>7. CASE \/ ParentReturn \/ ParentCrash \/ ParentGuardHeld
             \/ ParentConfigSkipped \/ UNCHANGED vars
    BY <1>1, <1>2, <1>3, <1>7 DEF ParentReturn, ParentCrash, ParentGuardHeld,
       ParentConfigSkipped, vars
  <1>8. CASE ParentStep
    <2>1. CASE ParentDeleteNotifications
      <3>1. UNCHANGED <<obj, pods, fin, issued>> /\ tu' = [tu EXCEPT ![N] = 0]
        BY <2>1 DEF ParentDeleteNotifications
      <3> QED BY <1>0, <1>2, <3>1 DEF NamesMove
    <2>2. CASE ParentTransport \/ ParentNotifications
      <3>1. /\ UNCHANGED <<obj, pods, tu, issued>>
            /\ fin' = fin \/ \E b \in Bus : fin' = fin \cup {<<b, tu[b]>>}
        BY <2>2, BusFacts DEF ParentTransport, ParentNotifications, UseTransportURL
      <3> QED BY <1>1, <1>2, <3>1
    <2>3. CASE ParentFetch
      <3>1. UNCHANGED <<tu, issued, fin>>
        BY <2>3 DEF ParentFetch
      <3> QED BY <1>1, <1>3, <3>1
    <2>4. CASE ParentDeletePrune
      <3>1. UNCHANGED <<tu, issued>> /\ fin' = {}
        BY <2>4 DEF ParentDeletePrune
      <3>2. ~Alive /\ ~Alive'
        BY <2>4 DEF ParentDeletePrune, Releasing, Alive
      <3>3. UNCHANGED Used
        BY <3>2 DEF Used
      <3> QED BY <1>1, <3>1, <3>3
    <2>5. CASE \/ ParentConfig \/ \E s \in Services : ParentService(s)
               \/ ParentGuard \/ ParentFinalizeTransport \/ ParentFinalizeNotifications
               \/ ParentPrune \/ ParentPatch \/ ParentRelease
      <3>1. UNCHANGED <<obj, pods, tu, issued>> /\ fin' \subseteq fin
        BY <2>5 DEF ParentConfig, ParentService, ParentGuard, ParentFinalizeTransport,
           ParentFinalizeNotifications, ParentPrune, ParentPatch, ParentRelease,
           FinalizeSecretRotation
      <3> QED BY <1>1, <1>2, <3>1
    <2> QED BY <1>8, <2>1, <2>2, <2>3, <2>4, <2>5 DEF ParentStep
  <1> QED BY <1>1, <1>3, <1>5, <1>6, <1>7, <1>8 DEF Next, FaultStep

\* A change of credentials moves every annotation, template, pod and running
\* reconcile from one configuration to the next, in the order in which finalizers
\* are taken and released, for any services, faults and restarts, while no
\* two reconciles in a row miss the password Secret (BriefOutages).
THEOREM Invariance ==
  ~Overlap /\ BriefOutages /\ Spec => []IInv
  <1> SUFFICES ASSUME ~Overlap, BriefOutages PROVE Spec => []IInv
    OBVIOUS
  <1>1. IInv /\ [Next]_vars => IInv'
    BY NextInv
  <1> QED BY <1>1, InitInv, PTL DEF Spec

UsedIsHeld == Used \subseteq fin

LEMMA UsedHeldNext == IInv' => UsedIsHeld'
  <1>1. IInv => UsedIsHeld
    BY UsedHeld, InvImpliesProtected DEF UsedIsHeld
  <1> QED BY <1>1, PTL

\* Under the conditions of SecretsInUseProtected the consumer finalizers implement what
\* CredentialUse promises: infra-operator can revoke no RabbitMQ user under a
\* running pod of a live CR, no pod comes up with a revoked one, and a secret
\* once released is never taken back.
THEOREM Refinement ==
  ~Overlap /\ BriefOutages /\ Spec => NeverRevokedInUse
  <1> SUFFICES ASSUME ~Overlap, BriefOutages PROVE Spec => NeverRevokedInUse
    OBVIOUS
  <1>1. Init => CU!Init
    <2> SUFFICES ASSUME Init PROVE Used = {} /\ Revocable = {}
      BY DEF CU!Init, Used
    <2>1. Used = {}
      BY DEF Used, Init
    <2>2. \A b \in Bus : 1 .. issued[b] = {}
      BY DEF Init, NoCfg
    <2>3. Revocable = {}
      BY <2>2, RevocableFacts
    <2> QED BY <2>1, <2>3
  <1>2. IInv /\ IInv' /\ [Next]_vars => [CU!Next]_<<Used, Revocable>>
    <2> SUFFICES ASSUME IInv, IInv', [Next]_vars
                 PROVE  CU!Next
      OBVIOUS
    <2>1. /\ NamesMove
          /\ \A x \in fin' \ fin : \E b \in Bus : x = <<b, tu[b]>> /\ tu'[b] = tu[b]
          /\ UNCHANGED Used \/ UNCHANGED Revocable
      BY Moves DEF IInv, InvFin
    <2>2. Used' \subseteq fin'
      BY UsedHeldNext DEF UsedIsHeld
    <2>3. Used' \cap Revocable' = {}
      BY <2>2, RevocableFactsNext
    <2>4. ASSUME NEW x \in Revocable PROVE x \in Revocable'
      <3>1. PICK b \in Bus : \E n \in (1 .. issued[b]) \ {tu[b]} : x = <<b, n>>
        BY RevocableFacts
      <3>2. PICK n \in (1 .. issued[b]) \ {tu[b]} : x = <<b, n>>
        BY <3>1
      <3>3. issued[b] \in Nat /\ issued'[b] \in Nat /\ tu'[b] \in Nat
        BY DEF IInv, TypeOK, Cfg
      <3>4. n \in (1 .. issued'[b]) \ {tu'[b]}
        BY <2>1, <3>2, <3>3 DEF NamesMove
      <3>5. x \notin fin /\ x \notin fin'
        BY <2>1, <3>2, RevocableFacts
      <3> QED BY <3>2, <3>4, <3>5, RevocableFactsNext
    <2>5. CASE UNCHANGED Revocable
      BY <2>3, <2>5 DEF CU!Next, CU!Use, Used
    <2>6. CASE UNCHANGED Used
      BY <2>3, <2>4, <2>6 DEF CU!Next, CU!Revoke, Used
    <2> QED BY <2>1, <2>5, <2>6
  <1> QED BY <1>1, <1>2, Invariance, PTL DEF Spec, NeverRevokedInUse, CU!Spec, Used

----------------------------------------------------------------------------
(* The tracked transport secret is the oldest one in use *)


\* The names compared are numbers.
LEMMA AgeTypes ==
  ASSUME TypeOK
  PROVE  /\ tu[T] \in Nat /\ issued[T] \in Nat /\ config[T] \in Nat /\ st[T] \in Nat
         /\ lst[T] \in Nat /\ p[T] \in Nat
         /\ \A s \in Services :
              /\ ann[s][T] \in Nat /\ applied[s][T] \in Nat /\ sAnn[s][T] \in Nat
              /\ sIn[s][T] \in Nat /\ tmpl[s][T] \in Nat
              /\ \A q \in pods[s] : q.tmpl[T] \in Nat /\ q.creds[T] \in Nat
  BY BusFacts DEF TypeOK, Cfg, Pods

LEMMA AgeTypesNext ==
  ASSUME TypeOK'
  PROVE  /\ tu'[T] \in Nat /\ issued'[T] \in Nat /\ config'[T] \in Nat /\ st'[T] \in Nat
         /\ lst'[T] \in Nat /\ p'[T] \in Nat
         /\ \A s \in Services :
              /\ ann'[s][T] \in Nat /\ applied'[s][T] \in Nat /\ sAnn'[s][T] \in Nat
              /\ sIn'[s][T] \in Nat /\ tmpl'[s][T] \in Nat
              /\ \A q \in pods'[s] : q.tmpl[T] \in Nat /\ q.creds[T] \in Nat
  BY BusFacts DEF TypeOK, Cfg, Pods

\* A sub-CR or pod step leaves the parent's order alone.
LEMMA AgeParentFrame ==
  ASSUME TypeOK, TypeOK', AgeParent,
         UNCHANGED <<tu, issued, config, st, pHash, pc, lst, p, rdy, guard>>,
         \A s \in Services : applied[s][T] <= applied'[s][T]
  PROVE  AgeParent'
  <1>1. HasP' <=> HasP
    BY DEF HasP
  <1>2. rdy \subseteq Services
    BY DEF TypeOK
  <1>3. ASSUME NEW s \in Services, p[T] <= applied[s][T] PROVE p'[T] <= applied'[s][T]
    BY <1>3, AgeTypes, AgeTypesNext
  <1> QED BY <1>1, <1>2, <1>3 DEF AgeParent

\* A parent step that renders nothing leaves the order below a sub-CR alone.
LEMMA AgeSubFrame ==
  ASSUME NEW s \in Services, AgeSub(s), UNCHANGED config,
         UNCHANGED <<applied[s], ann[s], tmpl[s], spc[s], sAnn[s], sIn[s], pods[s]>>
  PROVE  AgeSub(s)'
  BY DEF AgeSub

LEMMA AgeTrackedFrame ==
  ASSUME NEW s \in Services, AgeTracked(s), UNCHANGED <<st, config>>,
         Running' => Running /\ lst' = lst,
         UNCHANGED <<ann[s], tmpl[s], spc[s], pods[s]>>
  PROVE  AgeTracked(s)'
  BY DEF AgeTracked

\* Only sub-CR t moves.
LEMMA AgeOneSub ==
  ASSUME TypeOK, TypeOK', InvAge, NEW t \in Services,
         UNCHANGED <<tu, issued, config, st, pHash, pc, lst, p, rdy, guard>>,
         \A s \in Services \ {t} :
           UNCHANGED <<applied[s], ann[s], tmpl[s], spc[s], sAnn[s], sIn[s], pods[s]>>,
         applied[t][T] <= applied'[t][T], AgeSub(t)', AgeTracked(t)'
  PROVE  InvAge'
  <1>1. AgeParent'
    BY AgeParentFrame, AgeTypes DEF InvAge
  <1>2. Running' => Running /\ lst' = lst
    BY DEF Running, HasP
  <1>3. ASSUME NEW s \in Services PROVE AgeSub(s)' /\ AgeTracked(s)'
    BY <1>2, AgeSubFrame, AgeTrackedFrame DEF InvAge
  <1> QED BY <1>1, <1>3 DEF InvAge

LEMMA AgeSubInv ==
  ASSUME TypeOK, TypeOK', InvAge, NEW s \in Services,
         SubStep(s) \/ SubReturn(s) \/ SubCrash(s)
  PROVE  InvAge'
  <1> USE DEF worldVars, parentVars, crVars, subVars, podVars
  <1>0. /\ UNCHANGED <<tu, issued, config, st, pHash, pc, lst, p, rdy, guard, ann, pods>>
        /\ \A t \in Services \ {s} :
             UNCHANGED <<applied[t], ann[t], tmpl[t], spc[t], sAnn[t], sIn[t], pods[t]>>
    BY DEF TypeOK, SubStep, SubStart, SubRead, SubDeploy, SubCheck, SubReturn, SubCrash,
           SubPatch, SubIdle
  <1>1. AgeSub(s) /\ AgeTracked(s)
    BY DEF InvAge
  <1>2. Running' <=> Running
    BY <1>0 DEF Running, HasP
  <1>3. CASE SubStart(s)
    <2>1. /\ UNCHANGED <<applied, tmpl, sIn>> /\ ann[s] # NoCfg
          /\ spc'[s] = "read" /\ sAnn'[s] = ann[s]
      BY <1>3 DEF SubStart, TypeOK
    <2>2. AgeSub(s)'
      BY <1>0, <1>1, <2>1, AgeTypes DEF AgeSub
    <2>3. AgeTracked(s)'
      BY <1>0, <1>1, <1>2, <2>1 DEF AgeTracked
    <2> QED BY <1>0, <2>1, <2>2, <2>3, AgeOneSub, AgeTypes
  <1>4. CASE SubIdle(s) /\ UNCHANGED <<applied, tmpl>>
    <2>1. spc'[s] = "idle"
      BY <1>4 DEF SubIdle, TypeOK
    <2>2. AgeSub(s)'
      BY <1>0, <1>1, <1>4, <2>1, AgeTypes DEF AgeSub
    <2>3. AgeTracked(s)'
      BY <1>0, <1>1, <1>2, <1>4, <2>1 DEF AgeTracked
    <2> QED BY <1>0, <1>4, <2>2, <2>3, AgeOneSub, AgeTypes
  <1>5. CASE SubRead(s) /\ hash[s] = config
    <2>1. /\ UNCHANGED <<applied, tmpl, sAnn>> /\ spc[s] = "read"
          /\ spc'[s] = "deploy" /\ sIn'[s] = config
      BY <1>5 DEF SubRead, TypeOK
    <2>2. AgeSub(s)'
      BY <1>0, <1>1, <2>1, AgeTypes DEF AgeSub
    <2>3. AgeTracked(s)'
      BY <1>0, <1>1, <1>2, <2>1 DEF AgeTracked
    <2> QED BY <1>0, <2>1, <2>2, <2>3, AgeOneSub, AgeTypes
  <1>6. CASE SubDeploy(s)
    <2>1. /\ UNCHANGED <<applied, sAnn, sIn>> /\ spc[s] = "deploy"
          /\ spc'[s] = "check" /\ tmpl'[s] = sIn[s]
      BY <1>6 DEF SubDeploy, TypeOK
    <2>2. AgeSub(s)'
      BY <1>0, <1>1, <2>1, AgeTypes DEF AgeSub
    <2>3. AgeTracked(s)'
      BY <1>0, <1>1, <1>2, <2>1 DEF AgeTracked
    <2> QED BY <1>0, <2>1, <2>2, <2>3, AgeOneSub, AgeTypes
  <1>7. CASE SubCheck(s)
    <2>1. /\ UNCHANGED tmpl /\ spc[s] = "check" /\ spc'[s] = "idle"
          /\ applied'[s] = IF ReadyForInput(s) THEN sAnn[s] ELSE applied[s]
      BY <1>7 DEF SubCheck, SubPatch, SubIdle, TypeOK
    <2>2. /\ applied[s][T] <= applied'[s][T] /\ applied'[s][T] <= ann[s][T]
          /\ \A q \in pods[s] : applied'[s][T] <= q.creds[T]
      <3>1. CASE ReadyForInput(s)
        <4>1. \A q \in pods[s] : sIn[s][T] <= q.creds[T]
          BY <1>1, <3>1 DEF AgeSub, ReadyForInput
        <4> QED BY <1>1, <2>1, <3>1, <4>1, AgeTypes DEF AgeSub
      <3>2. CASE ~ReadyForInput(s)
        BY <1>1, <2>1, <3>2, AgeTypes DEF AgeSub
      <3> QED BY <3>1, <3>2
    <2>3. AgeSub(s)'
      BY <1>0, <1>1, <2>1, <2>2 DEF AgeSub
    <2>4. AgeTracked(s)'
      BY <1>0, <1>1, <1>2, <2>1 DEF AgeTracked
    <2> QED BY <1>0, <2>2, <2>3, <2>4, AgeOneSub
  <1> QED BY <1>3, <1>4, <1>5, <1>6, <1>7 DEF SubStep, SubRead, SubReturn, SubCrash, SubPatch

LEMMA AgePodInv ==
  ASSUME TypeOK, TypeOK', InvAge, NEW s \in Services, PodStep(s) \/ RestartPod(s)
  PROVE  InvAge'
  <1> USE DEF worldVars, parentVars, crVars, subVars, podVars
  <1>0. /\ UNCHANGED <<tu, issued, config, st, pHash, pc, lst, p, rdy, guard>>
        /\ UNCHANGED <<applied, ann, tmpl, spc, sAnn, sIn>>
        /\ \A t \in Services \ {s} : UNCHANGED pods[t]
    BY DEF TypeOK, PodStep, StartPod, StopPod, RestartPod
  <1>1. AgeSub(s) /\ AgeTracked(s)
    BY DEF InvAge
  <1>2. Running' <=> Running
    BY <1>0 DEF Running, HasP
  <1>3. /\ \A q \in pods'[s] : \/ q \in pods[s]
                               \/ q.creds = config /\ q.tmpl = tmpl[s]
                               \/ \E r \in pods[s] : q.creds = config /\ q.tmpl = r.tmpl
        /\ pods'[s] # {} => tmpl[s] # NoCfg \/ pods[s] # {}
    <2>1. CASE StartPod(s)
      BY <2>1 DEF TypeOK, StartPod
    <2>2. CASE StopPod(s)
      BY <2>2 DEF TypeOK, StopPod
    <2>3. CASE RestartPod(s)
      <3>1. PICK q \in pods[s] : \E gone \in SUBSET {q} :
              pods'[s] = (pods[s] \ gone) \cup {[q EXCEPT !.creds = config]}
        BY <2>3 DEF TypeOK, RestartPod
      <3>2. [q EXCEPT !.creds = config].creds = config
            /\ [q EXCEPT !.creds = config].tmpl = q.tmpl
        BY <3>1 DEF TypeOK, Pods
      <3> QED BY <3>1, <3>2
    <2> QED BY <2>1, <2>2, <2>3 DEF PodStep
  <1>4. AgeSub(s)'
    <2>1. ASSUME NEW q \in pods'[s]
          PROVE  /\ q.tmpl[T] <= q.creds[T] /\ q.creds[T] <= config[T]
                 /\ applied[s][T] <= q.creds[T]
      BY <1>1, <1>3, AgeTypes DEF AgeSub
    <2> QED BY <1>0, <1>1, <2>1 DEF AgeSub
  <1>5. AgeTracked(s)'
    <2>1. pods'[s] # {} => ann[s] # NoCfg
      BY <1>1, <1>3 DEF AgeTracked
    <2>2. ASSUME NEW q \in pods'[s]
          PROVE  st[T] <= q.creds[T] /\ (Running => lst[T] <= q.creds[T])
      BY <1>1, <1>3, <2>1 DEF AgeTracked
    <2> QED BY <1>0, <1>1, <1>2, <2>1, <2>2 DEF AgeTracked
  <1>6. \A t \in Services \ {s} :
          UNCHANGED <<applied[t], ann[t], tmpl[t], spc[t], sAnn[t], sIn[t], pods[t]>>
    BY <1>0
  <1> QED BY <1>0, <1>4, <1>5, <1>6, AgeOneSub, AgeTypes

\* A step of the parent or its environment that does not touch the sub-CRs.
LEMMA AgeQuiet ==
  ASSUME TypeOK, TypeOK', InvAge, AgeParent',
         UNCHANGED <<config, applied, ann, tmpl, spc, sAnn, sIn, pods>>,
         st' = st \/ (Running /\ st' = lst),
         Running' => \/ Running /\ lst'[T] = lst[T]
                     \/ lst'[T] = st[T]
                     \/ st[T] = 0
                     \/ guard /\ lst'[T] = p[T]
  PROVE  InvAge'
  <1> SUFFICES ASSUME NEW s \in Services PROVE AgeSub(s)' /\ AgeTracked(s)'
    BY DEF InvAge
  <1>1. AgeSub(s) /\ AgeTracked(s) /\ AgeParent
    BY DEF InvAge
  <1>2. AgeSub(s)'
    BY <1>1, AgeSubFrame
  <1>3. CASE ann[s] = NoCfg
    <2>1. ann'[s] = NoCfg /\ spc'[s] = "idle" /\ tmpl'[s] = NoCfg /\ pods'[s] = {}
      BY <1>1, <1>3 DEF AgeTracked
    <2> QED BY <1>2, <2>1 DEF AgeTracked
  <1>4. CASE ann[s] # NoCfg
    <2>1. /\ st[T] # 0 /\ st[T] <= config[T] /\ (Running => lst[T] <= config[T])
          /\ \A q \in pods[s] : st[T] <= q.creds[T] /\ (Running => lst[T] <= q.creds[T])
      BY <1>1, <1>4 DEF AgeTracked
    <2>2. guard => p[T] <= config[T] /\ \A q \in pods[s] : p[T] <= q.creds[T]
      BY <1>1, AgeTypes DEF AgeParent, AgeSub
    <2>3. st'[T] # 0
      BY <1>1, <2>1 DEF AgeParent, Running
    <2>4. st'[T] <= config[T] /\ \A q \in pods[s] : st'[T] <= q.creds[T]
      BY <2>1
    <2>5. Running' => lst'[T] <= config[T] /\ \A q \in pods[s] : lst'[T] <= q.creds[T]
      BY <2>1, <2>2
    <2>6. ann'[s] # NoCfg
      BY <1>4
    <2>7. UNCHANGED <<config, pods>>
      OBVIOUS
    <2> QED BY <1>2, <2>3, <2>4, <2>5, <2>6, <2>7 DEF AgeTracked
  <1> QED BY <1>2, <1>3, <1>4

\* What such a step leaves alone.
subjects == <<config, applied, ann, tmpl, spc, sAnn, sIn, pods>>

LEMMA AgeEnvInv ==
  ASSUME TypeOK, TypeOK', InvAge, EnvStep
  PROVE  InvAge'
  <1> USE DEF worldVars, parentVars, crVars, subVars, podVars
  <1>1. /\ UNCHANGED <<st, pHash, pc, lst, p, rdy, guard, subjects>>
        /\ tu[T] <= tu'[T] /\ tu'[T] <= issued'[T]
    <2>1. CASE UNCHANGED <<tu, issued>>
      BY <2>1, AgeTypes DEF InvAge, AgeParent, EnvStep, UserEnableNotifications,
         UserDisableNotifications, UserDelete, PublishSecret, RotateSecret, subjects
    <2>2. ASSUME NEW b \in Bus, PublishSecret(b) \/ RotateSecret(b)
          PROVE  /\ tu[T] <= tu'[T] /\ tu'[T] <= issued'[T]
                 /\ UNCHANGED <<st, pHash, pc, lst, p, rdy, guard, subjects>>
      <3>1. /\ issued' = [issued EXCEPT ![b] = @ + 1]
            /\ tu' = [tu EXCEPT ![b] = issued'[b]]
            /\ UNCHANGED <<st, pHash, pc, lst, p, rdy, guard, subjects>>
        BY <2>2 DEF PublishSecret, RotateSecret, subjects
      <3>2. tu \in [Bus -> Nat] /\ issued \in [Bus -> Nat] /\ tu[T] <= issued[T]
        BY DEF TypeOK, Cfg, InvAge, AgeParent
      <3> QED BY <3>1, <3>2, BusFacts
    <2> QED BY <2>1, <2>2 DEF EnvStep, UserEnableNotifications,
         UserDisableNotifications, UserDelete
  <1>2. HasP' <=> HasP
    BY <1>1 DEF HasP
  <1>3. AgeParent'
    BY <1>1, <1>2, AgeTypes, AgeTypesNext DEF InvAge, AgeParent, subjects
  <1> QED BY <1>1, <1>2, <1>3, AgeQuiet DEF Running, subjects

\* The reconcile ends: what it changed in the status is persisted, or lost.
LEMMA AgeEnd ==
  ASSUME TypeOK, TypeOK', InvAge, ParentIdle, UNCHANGED <<tu, issued, subjects>>,
         pHash' = pHash \/ pHash' = NoCfg,
         st' = st \/ (Running /\ st' = lst)
  PROVE  InvAge'
  <1>1. ~HasP' /\ ~Running' /\ pc' = "idle" /\ rdy' = {} /\ ~guard'
    BY DEF ParentIdle, HasP, Running
  <1>2. st'[T] <= tu'[T] /\ (st[T] # 0 => st'[T] # 0)
    BY AgeTypes DEF InvAge, AgeParent, Running
  <1>3. AgeParent'
    BY <1>1, <1>2 DEF InvAge, AgeParent, subjects
  <1> QED BY <1>1, <1>3, AgeQuiet DEF subjects

LEMMA AgeFetch ==
  ASSUME TypeOK, TypeOK', InvAge, ParentFetch
  PROVE  InvAge'
  <1> USE DEF worldVars, parentVars, crVars, subVars, podVars
  <1>1. UNCHANGED <<tu, issued, pHash, st, subjects>> /\ pc = "idle"
    BY DEF ParentFetch, subjects
  <1>2. CASE ParentIdle
    BY <1>1, <1>2, AgeEnd
  <1>3. CASE pc' \in {"transport", "release"} /\ UNCHANGED <<p, rdy, guard>>
             /\ (pc' = "transport" => lst' = st)
    <2>1. ~HasP' /\ ~HasP /\ pc' # "notifications" /\ (Running' => pc' = "transport")
      BY <1>1, <1>3 DEF HasP, Running
    <2>2. rdy = {} /\ ~guard
      BY <2>1 DEF InvAge, AgeParent
    <2>3. AgeParent'
      BY <1>1, <1>3, <2>1, <2>2 DEF InvAge, AgeParent, subjects
    <2> QED BY <1>1, <1>3, <2>1, <2>3, AgeQuiet DEF subjects
  <1> QED BY <1>2, <1>3 DEF ParentFetch

LEMMA AgeTransport ==
  ASSUME TypeOK, TypeOK', InvAge, ParentTransport
  PROVE  InvAge'
  <1> USE DEF worldVars, parentVars, crVars, subVars, podVars
  <1>1. UNCHANGED <<tu, issued, pHash, subjects>> /\ pc = "transport" /\ Running /\ ~HasP
    BY DEF ParentTransport, subjects, Running, HasP
  <1>2. CASE ParentIdle /\ st' = lst
    BY <1>1, <1>2, AgeEnd
  <1>3. CASE tu[T] # 0 /\ pc' = "notifications"
    <2>1. /\ p'[T] = tu[T] /\ lst'[T] = (IF lst[T] = 0 THEN tu[T] ELSE lst[T])
          /\ UNCHANGED <<st, rdy, guard>>
      BY <1>3, BusFacts DEF ParentTransport, UseTransportURL, TypeOK, Cfg, ParentIdle
    <2>2. lst[T] = st[T] /\ rdy = {} /\ ~guard /\ st[T] <= tu[T] /\ config[T] <= tu[T]
      BY <1>1 DEF InvAge, AgeParent
    <2>3. ~HasP' /\ Running'
      BY <1>3 DEF HasP, Running
    <2>4. AgeParent'
      BY <1>1, <1>3, <2>1, <2>2, <2>3, AgeTypes DEF InvAge, AgeParent, subjects
    <2> QED BY <1>1, <2>1, <2>2, <2>3, <2>4, AgeQuiet DEF subjects
  <1> QED BY <1>2, <1>3 DEF ParentTransport, UseTransportURL

\* A step of a reconcile that has read its transport secret and keeps it.
LEMMA AgeOnward ==
  ASSUME TypeOK, TypeOK', InvAge, pc = "notifications" \/ HasP,
         pc' = "config" \/ (pc # "notifications" /\ pc # "config" /\ HasP'),
         pc = "notifications" => pc' = "config",
         pc' = "config" => pc = "notifications",
         HasP', UNCHANGED <<tu, issued, pHash, st, subjects>>, p'[T] = p[T],
         lst'[T] = lst[T] \/ (guard /\ lst'[T] = p[T]),
         UNCHANGED rdy, guard' = guard \/ guard' = FALSE
                        \/ (pc = "services" /\ guard' = (rdy = Services))
  PROVE  InvAge'
  <1> USE DEF HasP
  <1>1. AgeParent
    BY DEF InvAge
  <1>2. pc' # "transport" /\ pc' # "notifications" /\ Running /\ Running'
    BY DEF Running
  <1>3. /\ p'[T] # 0 /\ lst'[T] # 0 /\ st'[T] <= p'[T] /\ lst'[T] <= p'[T]
        /\ config'[T] <= p'[T] /\ p'[T] <= tu'[T]
    BY <1>1, AgeTypes DEF AgeParent, subjects
  <1>4. pc' # "config" => config'[T] = p'[T] /\ st'[T] # 0
    BY <1>1 DEF AgeParent, subjects
  <1>5. rdy' # {} \/ guard' => pc' # "config"
    BY <1>1 DEF AgeParent
  <1>6. \A s \in rdy' : p'[T] <= applied'[s][T]
    BY <1>1 DEF AgeParent, subjects
  <1>7. guard' => \A s \in Services : p'[T] <= applied'[s][T]
    BY <1>1 DEF AgeParent, subjects
  <1>8. AgeParent'
    BY <1>1, <1>2, <1>3, <1>4, <1>5, <1>6, <1>7 DEF AgeParent, subjects
  <1> QED BY <1>2, <1>8, AgeQuiet DEF subjects

LEMMA AgeConfig ==
  ASSUME TypeOK, TypeOK', InvAge, ParentConfig
  PROVE  InvAge'
  <1> USE DEF worldVars, parentVars, crVars, subVars, podVars
  <1>1. /\ UNCHANGED <<tu, issued, applied, ann, tmpl, spc, sAnn, sIn, pods>>
        /\ pc = "config" /\ HasP /\ Running /\ config' = p
    BY DEF ParentConfig, HasP, Running
  <1>2. /\ AgeParent /\ p[T] # 0 /\ lst[T] # 0 /\ config[T] <= p[T] /\ p[T] <= tu[T]
        /\ st[T] <= p[T] /\ lst[T] <= p[T] /\ rdy = {} /\ ~guard
    BY <1>1 DEF InvAge, AgeParent
  <1>3. \/ ParentIdle /\ st' = lst
        \/ /\ pHash = p /\ pc' = "services" /\ UNCHANGED <<pHash, st, lst, p, rdy, guard>>
    BY DEF ParentConfig
  <1>4. AgeParent'
    <2>1. CASE ParentIdle /\ st' = lst
      <3>1. ~HasP' /\ pc' = "idle" /\ rdy' = {} /\ ~guard'
        BY <2>1 DEF ParentIdle, HasP
      <3> QED BY <1>1, <1>2, <2>1, <3>1, AgeTypes DEF AgeParent
    <2>2. CASE pHash = p /\ pc' = "services" /\ UNCHANGED <<pHash, st, lst, p, rdy, guard>>
      <3>1. HasP'
        BY <2>2 DEF HasP
      <3>2. p # NoCfg /\ st[T] # 0
        BY <1>2, <2>2, BusFacts DEF AgeParent, NoCfg
      <3> QED BY <1>1, <1>2, <2>2, <3>1, <3>2, AgeTypes DEF AgeParent
    <2> QED BY <1>3, <2>1, <2>2
  <1>5. ASSUME NEW s \in Services PROVE AgeSub(s)' /\ AgeTracked(s)'
    <2>1. AgeSub(s) /\ AgeTracked(s)
      BY DEF InvAge
    <2>2. AgeSub(s)'
      BY <1>1, <1>2, <2>1, AgeTypes DEF AgeSub
    <2>3. /\ st' = st \/ st' = lst
          /\ Running' => lst' = lst
      BY <1>3 DEF ParentIdle, Running, HasP
    <2>4. ann[s] # NoCfg => st'[T] # 0 /\ st'[T] <= config'[T] /\ (Running' => lst'[T] <= config'[T])
      BY <1>1, <1>2, <2>1, <2>3 DEF AgeTracked
    <2>5. \A q \in pods[s] : st'[T] <= q.creds[T] /\ (Running' => lst'[T] <= q.creds[T])
      BY <1>1, <2>1, <2>3 DEF AgeTracked
    <2> QED BY <1>1, <2>1, <2>2, <2>4, <2>5 DEF AgeTracked
  <1> QED BY <1>4, <1>5 DEF InvAge

LEMMA AgeService ==
  ASSUME TypeOK, TypeOK', InvAge, NEW s \in Services, ParentService(s)
  PROVE  InvAge'
  <1> USE DEF worldVars, parentVars, crVars, subVars, podVars
  <1>1. /\ UNCHANGED <<tu, issued, st, pHash, config, pc, lst, p, guard, applied, tmpl,
                       spc, sAnn, sIn, pods>>
        /\ pc = "services" /\ ann' = [ann EXCEPT ![s] = p]
        /\ rdy' \in {rdy, rdy \cup {s}} /\ (rdy' = rdy \cup {s} => s \in rdy \/ applied[s] = p)
    BY DEF ParentService
  <1>2. HasP /\ HasP' /\ Running /\ Running'
    BY <1>1 DEF HasP, Running
  <1>3. /\ AgeParent /\ p[T] # 0 /\ config[T] = p[T] /\ st[T] # 0
        /\ st[T] <= p[T] /\ lst[T] <= p[T]
    BY <1>1, <1>2 DEF InvAge, AgeParent
  <1>4. AgeParent'
    <2>1. ASSUME NEW t \in rdy' PROVE p[T] <= applied[t][T]
      BY <1>1, <1>3, AgeTypes DEF AgeParent
    <2> QED BY <1>1, <1>2, <1>3, <2>1 DEF AgeParent
  <1>5. ASSUME NEW t \in Services, t # s PROVE AgeSub(t)' /\ AgeTracked(t)'
    <2>1. ann'[t] = ann[t]
      BY <1>1, <1>5 DEF TypeOK
    <2> QED BY <1>1, <1>2, <2>1, AgeSubFrame, AgeTrackedFrame DEF InvAge
  <1>6. ann'[s] = p /\ p # NoCfg
    BY <1>1, <1>3, BusFacts DEF TypeOK, NoCfg
  <1>7. AgeSub(s) /\ AgeTracked(s)
    BY DEF InvAge
  <1>8. AgeSub(s)'
    BY <1>1, <1>3, <1>6, <1>7, AgeTypes DEF AgeSub
  <1>9. AgeTracked(s)'
    <2>1. \A q \in pods[s] : st[T] <= q.creds[T] /\ lst[T] <= q.creds[T]
      BY <1>2, <1>7 DEF AgeTracked
    <2> QED BY <1>1, <1>3, <1>6, <2>1 DEF AgeTracked
  <1> QED BY <1>4, <1>5, <1>8, <1>9 DEF InvAge

LEMMA AgeParentInv ==
  ASSUME TypeOK, TypeOK', InvAge, ParentStep
  PROVE  InvAge'
  <1> USE DEF worldVars, parentVars, crVars, subVars, podVars
  <1>1. CASE ParentNotifications
    <2>1. UNCHANGED <<tu, issued, pHash, subjects>> /\ pc = "notifications" /\ Running
      BY <1>1 DEF ParentNotifications, subjects, Running
    <2>2. CASE ParentIdle /\ st' = lst
      BY <2>1, <2>2, AgeEnd
    <2>3. CASE pc' = "config"
      <3>1. p'[T] = p[T] /\ lst'[T] = lst[T] /\ UNCHANGED <<st, rdy, guard>>
        BY <1>1, <2>3, BusFacts
           DEF ParentNotifications, UseTransportURL, TypeOK, Cfg, ParentIdle
      <3> QED BY <2>1, <2>3, <3>1, AgeOnward DEF HasP
    <2> QED BY <1>1, <2>2, <2>3 DEF ParentNotifications, UseTransportURL
  <1>2. CASE ParentGuard
    BY <1>2, AgeOnward DEF ParentGuard, HasP, subjects
  <1>3. CASE ParentFinalizeTransport
    <2>1. lst'[T] = lst[T] \/ (guard /\ lst'[T] = p[T])
      BY <1>3, BusFacts DEF ParentFinalizeTransport, FinalizeSecretRotation, TypeOK, Cfg
    <2> QED BY <1>3, <2>1, AgeOnward DEF ParentFinalizeTransport, HasP, subjects
  <1>4. CASE ParentFinalizeNotifications
    <2>1. lst'[T] = lst[T] /\ pc' \in {"prune", "deleteNotifications"}
      BY <1>4, BusFacts DEF ParentFinalizeNotifications, FinalizeSecretRotation, TypeOK, Cfg
    <2> QED BY <1>4, <2>1, AgeOnward DEF ParentFinalizeNotifications, HasP, subjects
  <1>5. CASE ParentPrune
    BY <1>5, AgeOnward DEF ParentPrune, HasP, subjects
  <1>6. CASE ParentPatch
    BY <1>6, AgeEnd DEF ParentPatch, Running, HasP, subjects
  <1>7. CASE ParentDeletePrune
    BY <1>7, AgeEnd DEF ParentDeletePrune, subjects
  <1>8. CASE ParentRelease
    <2>1. /\ UNCHANGED <<tu, issued, pHash, st, lst, p, rdy, guard, subjects>>
          /\ pc = "release" /\ pc' = "deletePrune"
      BY <1>8 DEF ParentRelease, subjects
    <2>2. ~HasP /\ ~HasP' /\ ~Running'
      BY <2>1 DEF HasP, Running
    <2>3. AgeParent'
      BY <2>1, <2>2 DEF InvAge, AgeParent, subjects
    <2> QED BY <2>1, <2>2, <2>3, AgeQuiet DEF subjects
  <1>9. CASE ParentDeleteNotifications
    <2>1. /\ UNCHANGED <<issued, pHash, st, p, rdy, guard, subjects>>
          /\ tu'[T] = tu[T] /\ lst'[T] = lst[T]
          /\ pc = "deleteNotifications" /\ pc' = "prune"
      BY <1>9, BusFacts DEF ParentDeleteNotifications, subjects, TypeOK, Cfg
    <2>2. HasP /\ HasP' /\ Running /\ Running'
      BY <2>1 DEF HasP, Running
    <2>3. AgeParent'
      BY <2>1, <2>2 DEF InvAge, AgeParent, subjects
    <2> QED BY <2>1, <2>2, <2>3, AgeQuiet DEF subjects
  <1> QED BY <1>1, <1>2, <1>3, <1>4, <1>5, <1>6, <1>7, <1>8, <1>9,
        AgeFetch, AgeTransport, AgeConfig, AgeService DEF ParentStep

LEMMA AgeNext ==
  ASSUME BriefOutages, TypeOK, TypeOK', InvAge, [Next]_vars
  PROVE  InvAge'
  <1> USE DEF worldVars, parentVars, crVars, subVars, podVars
  <1>1. CASE UNCHANGED vars
    <2>1. HasP' <=> HasP
      BY <1>1 DEF HasP, vars
    <2>2. AgeParent'
      BY <1>1, <2>1 DEF InvAge, AgeParent, vars
    <2> QED BY <1>1, <2>1, <2>2, AgeQuiet DEF vars, Running
  <1>2. CASE ParentReturn \/ ParentCrash
    <2>1. CASE ParentReturn
      BY <2>1, AgeEnd DEF ParentReturn, Running, HasP, Releasing, TypeOK, subjects
    <2>2. CASE ParentCrash
      BY <2>2, AgeEnd DEF ParentCrash, subjects
    <2> QED BY <1>2, <2>1, <2>2
  <1>3. CASE ParentGuardHeld
    BY <1>3, AgeOnward DEF ParentGuardHeld, HasP, subjects
  <1>4. CASE ParentConfigSkipped
    BY <1>4, AgeEnd DEF ParentConfigSkipped, BriefOutages, Running, HasP, subjects
  <1> QED BY <1>1, <1>2, <1>3, <1>4, AgeParentInv, AgeEnvInv, AgeSubInv, AgePodInv
      DEF Next, FaultStep

\* Once Status.TransportURLSecret has moved on, no pod runs with an older
\* transport secret: for any number of sub-CRs, however fast the credentials
\* rotate, whatever fails, crashes or restarts, and in the deletion too,
\* while no two reconciles in a row miss the password Secret.
THEOREM NoneOlder == BriefOutages /\ Spec => []NoneOlderThanTracked
  <1> SUFFICES ASSUME BriefOutages PROVE Spec => []NoneOlderThanTracked
    OBVIOUS
  <1>1. Init => InvAge
    <2> SUFFICES ASSUME Init PROVE InvAge
      OBVIOUS
    <2>1. ~HasP /\ ~Running
      BY DEF Init, HasP, Running
    <2>2. AgeParent
      BY <2>1, BusFacts DEF Init, AgeParent, NoCfg
    <2>3. ASSUME NEW s \in Services PROVE AgeSub(s) /\ AgeTracked(s)
      BY <2>1, BusFacts DEF Init, AgeSub, AgeTracked, NoCfg
    <2> QED BY <2>2, <2>3 DEF InvAge
  <1>2. TypeOK /\ TypeOK' /\ InvAge /\ [Next]_vars => InvAge'
    BY AgeNext
  <1>3. InvAge => NoneOlderThanTracked
    BY DEF InvAge, AgeTracked, NoneOlderThanTracked
  <1> QED BY <1>1, <1>2, <1>3, TypeCorrect, PTL DEF Spec

=============================================================================
