CONSTANTS
  Kinds = {"central", "worker", "producer", "mdns", "unbound", "bind9", "api"}
  Touched <- MCTouched
  Absent <- MCAbsent
  Rotations <- MCRotations
  Topologies = {"t1", "t2"}
  Pods = {p1}
  Deletes = {"central", "api"}
  MaxEdits <- MCEdits
  MaxFaults <- MCFaults
SPECIFICATION FairSpec
INVARIANTS TypeOK NoChangeMissed ReadyMeansComplete FinalizersAccounted
PROPERTIES Handshake RolledOut
CHECK_DEADLOCK FALSE
