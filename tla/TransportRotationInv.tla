------------------------ MODULE TransportRotationInv ------------------------
(***************************************************************************)
(* The inductive invariant behind InUseProtected for an environment that   *)
(* changes credentials only when the last change has settled.  A change    *)
(* takes the deployment from configuration base to configuration Goal;     *)
(* the invariant says how far each actor has come on that way.             *)
(***************************************************************************)
EXTENDS TransportRotation

\* A reconcile of the live CR is under way; HasP: it has read all its inputs.
HasP == pc \in {"config", "services", "finalizeTransport",
                "finalizeNotifications", "deleteNotifications", "prune", "patch"}
Running == HasP \/ pc \in {"transport", "notifications"}

\* The configuration this reconcile will render, unless it has to wait.
Proper ==
  /\ pc = "transport" => tu[T] # 0
  /\ pc \in {"transport", "notifications"} /\ wantN => tu[N] # 0
FutureP ==
  IF HasP THEN p
  ELSE [b \in Bus |-> IF b = T THEN (IF pc = "transport" THEN tu[T] ELSE p[T])
                      ELSE (IF wantN THEN tu[N] ELSE 0)]

\* Nothing of the change under way has reached the sub-CR s or its pods.
SubBase(s) ==
  /\ ann[s] = base /\ applied[s] = base /\ tmpl[s] = base
  /\ \A q \in pods[s] : q.tmpl = base /\ q.creds = base
  /\ spc[s] # "idle" => sAnn[s] = base
  /\ spc[s] \in {"deploy", "check"} => sIn[s] = base

AllBase == config = base /\ \A s \in Services : SubBase(s)

\* The status x still tracks every secret of base.
Tracks(x) == \A b \in Bus : base[b] # 0 => x[b] = base[b]

\* The workload of s runs the goal and can only keep running it.
Done(s) ==
  /\ config = Goal /\ tmpl[s] = Goal /\ ann[s] = Goal
  /\ \A q \in pods[s] : q.tmpl = Goal
  /\ spc[s] # "idle" => sAnn[s] = Goal

AllDone == \A s \in Services : applied[s] = Goal

\* Names: the published name is one of the issued ones, and a bus that has
\* none yet has none in base either.
InvNames ==
  /\ \A b \in Bus : tu[b] <= issued[b]
  /\ tu[T] = 0 => base = NoCfg
  /\ enabled /\ tu[N] = 0 => base[N] = 0

\* The reconcile of the parent works towards the goal, or was overtaken by a
\* change before it left any trace of the old goal.
InvPlan ==
  /\ Running /\ Proper => FutureP \in {base, Goal}
  /\ Running /\ Proper /\ FutureP = base => AllBase /\ lst = base /\ st = base
  /\ pc \in {"transport", "notifications"} /\ wantN /\ tu[N] = 0 =>
       enabled /\ (pc = "notifications" => p[T] = tu[T])
  /\ Running /\ tu[T] = 0 => wantN = enabled

\* What the locals of that reconcile say at each of its steps.
InvLocals ==
  /\ pc = "notifications" \/ HasP => p[T] # 0 /\ tu[T] # 0
  /\ HasP => (p[N] # 0 <=> wantN)
  /\ pc \in {"transport", "notifications"} => p[N] = 0
  /\ pc = "transport" => p[T] = 0
  /\ ~Running => p = NoCfg
  /\ HasP /\ pc # "config" => config = p
  /\ rdy # {} \/ guard => HasP /\ pc # "config"
  /\ \A s \in rdy : applied[s] = p
  /\ guard => \A s \in Services : applied[s] = p
  /\ pc = "deleteNotifications" => guard /\ ~wantN /\ lst[N] # 0
  /\ pc = "finalizeNotifications" /\ guard => lst[T] = p[T]
  /\ pc = "deleteNotifications" => lst[T] = p[T]
  /\ pc \in {"prune", "patch"} /\ guard => lst = p

\* The status keeps tracking the secrets of base until everyone is done.
InvStatus ==
  /\ Goal = base => AllBase
  /\ Settled => st = base
  /\ Goal = base \/ ~AllDone => Tracks(st) /\ (Running => Tracks(lst))

\* Sub-CR s and its pods are on the way from base to the goal: what carries
\* the goal got it from the rendered configuration.
SubOK(s) ==
  /\ ann[s] \in {base, Goal} /\ (ann[s] = Goal => config = Goal)
  /\ tmpl[s] \in {base, Goal} /\ (tmpl[s] = Goal => config = Goal)
  /\ \A q \in pods[s] :
       /\ q.tmpl \in {base, Goal} /\ q.creds \in {base, Goal}
       /\ q.tmpl = Goal => q.creds = Goal /\ config = Goal
       /\ q.creds = Goal => config = Goal
  /\ spc[s] # "idle" =>
       sAnn[s] \in {base, Goal} /\ (sAnn[s] = Goal => config = Goal /\ ann[s] = Goal)
  /\ spc[s] \in {"deploy", "check"} =>
       /\ sIn[s] \in {base, Goal} /\ (sIn[s] = Goal => config = Goal)
       /\ sAnn[s] = Goal => sIn[s] = Goal
  /\ spc[s] = "check" => tmpl[s] = sIn[s]
  /\ applied[s] \in {base, Goal} /\ (applied[s] = Goal => Done(s))

InvSub == config \in {base, Goal} /\ \A s \in Services : SubOK(s)

\* The finalizers: what is rendered, what is read, what base still needs.
InvFin ==
  /\ pc \in Releasing => ~Alive
  /\ Alive => \A b \in Bus :
       /\ config[b] # 0 => <<b, config[b]>> \in fin
       /\ p[b] # 0 => <<b, p[b]>> \in fin
       /\ base[b] # 0 /\ ~AllDone => <<b, base[b]>> \in fin

\* Inductive when ~Overlap; together with TypeOK it implies InUseProtected.
IInv == TypeOK /\ InvNames /\ InvPlan /\ InvLocals /\ InvStatus /\ InvSub /\ InvFin

\* The life of the CR against the reconcile: finalizers are taken only by a
\* reconcile that fetched the CR alive, and none runs once it is gone.
InvLife ==
  /\ obj \in {"new", "gone"} => fin = {} /\ pc = "idle"
  /\ pc \in Releasing => obj = "deleting"

----------------------------------------------------------------------------
(* The ages of the transport secret.  Names are issued in increasing order,  *)
(* so the order below is the order in which the actors hand a name on; it    *)
(* does not need the environment to wait.                                    *)

\* The parent: never back to an older name than the one rendered or tracked.
AgeParent ==
  /\ tu[T] <= issued[T] /\ config[T] <= tu[T] /\ st[T] <= tu[T]
  /\ pc = "transport" => lst[T] = st[T]
  /\ pc = "notifications" \/ HasP =>
       /\ p[T] # 0 /\ lst[T] # 0
       /\ st[T] <= p[T] /\ lst[T] <= p[T] /\ config[T] <= p[T] /\ p[T] <= tu[T]
  /\ HasP /\ pc # "config" => config[T] = p[T] /\ st[T] # 0
  /\ pHash # NoCfg => st[T] # 0
  /\ rdy # {} \/ guard => HasP /\ pc # "config"
  /\ \A s \in rdy : p[T] <= applied[s][T]
  /\ guard => \A s \in Services : p[T] <= applied[s][T]

\* A sub-CR: what is applied <= what a reconcile saw <= what it hashed, and
\* every pod runs at least what is applied.
AgeSub(s) ==
  /\ applied[s][T] <= ann[s][T] /\ ann[s][T] <= config[T] /\ tmpl[s][T] <= config[T]
  /\ spc[s] # "idle" => applied[s][T] <= sAnn[s][T] /\ sAnn[s][T] <= ann[s][T]
  /\ spc[s] \in {"deploy", "check"} => sAnn[s][T] <= sIn[s][T] /\ sIn[s][T] <= config[T]
  /\ \A q \in pods[s] : /\ q.tmpl[T] <= q.creds[T] /\ q.creds[T] <= config[T]
                         /\ applied[s][T] <= q.creds[T]

\* The tracked name: no pod uses an older one, and none will.
AgeTracked(s) ==
  /\ ann[s] = NoCfg => spc[s] = "idle" /\ tmpl[s] = NoCfg /\ pods[s] = {}
  /\ ann[s] # NoCfg => /\ st[T] # 0 /\ st[T] <= config[T]
                       /\ Running => lst[T] <= config[T]
  /\ \A q \in pods[s] : st[T] <= q.creds[T] /\ (Running => lst[T] <= q.creds[T])

\* Inductive for every environment; implies NoneOlderThanTracked.
InvAge == AgeParent /\ \A s \in Services : AgeSub(s) /\ AgeTracked(s)

=============================================================================
