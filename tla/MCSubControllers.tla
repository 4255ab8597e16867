-------------------------- MODULE MCSubControllers --------------------------
(* Small instances of SubControllers.  osp stands for the inputs that are   *)
(* only hashed, config for those the parent writes and the pods mount.      *)
EXTENDS SubControllers

\* Inputs that change, by controller.
MCTouched == [
  central |-> {"osp", "topology"}, worker |-> {"osp", "config", "rndc"},
  producer |-> {"ca", "config", "nad"}, mdns |-> {"defaults", "nad", "spec"},
  unbound |-> {"spec", "topology"}, bind9 |-> {"predip", "spec"},
  api |-> {"osp", "keystone", "config"}]

\* Inputs that may be created after the CR.
MCAbsent == [
  central |-> {"config"}, worker |-> {"rndc"}, producer |-> {"nad"},
  mdns |-> {"ca"}, unbound |-> {"predip"}, bind9 |-> {"nad"}, api |-> {"osp"}]

\* DesignateAPI does not read the transport Secret: see StaleRotations.
MCRotations == [
  k \in Kinds |-> IF "transport" \in Hashed(k) THEN {"transport"} ELSE {}]

NothingTouched == [k \in Kinds |-> {}]
StaleRotations == [
  k \in Kinds |-> IF k = "api" THEN {"transport"} ELSE {"notifications"}]

MCFaults == [k \in Kinds |-> IF k \in {"central", "unbound"} THEN 1 ELSE 0]

\* Two edits move the finalizer from one Topology to another.
MCEdits == [k \in Kinds |-> IF k = "unbound" THEN 2 ELSE 1]
=============================================================================
