--------------------------- MODULE CredentialUse ---------------------------
(***************************************************************************)
(* What consumer finalizers are for.  The operator that issues credentials *)
(* revokes one when nothing holds it any more; whatever way the holders    *)
(* are tracked, a credential is not revoked while it is in use, a revoked  *)
(* one is not taken into use and stays revoked.                            *)
(***************************************************************************)
VARIABLES
  inUse,         \* credentials the running pods have loaded
  revoked        \* credentials that no longer work

Init == inUse = {} /\ revoked = {}

\* Pods start and stop.
Use == inUse' \cap revoked = {} /\ UNCHANGED revoked

Revoke ==
  /\ revoked \subseteq revoked' /\ revoked' \cap inUse = {}
  /\ UNCHANGED inUse

Next == Use \/ Revoke

Spec == Init /\ [][Next]_<<inUse, revoked>>
=============================================================================
