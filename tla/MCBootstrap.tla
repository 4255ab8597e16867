---------------------------- MODULE MCBootstrap ----------------------------
EXTENDS Bootstrap

\* One service before bind9 stands for central, worker, mdns and producer.
MCServices == <<"central", "bind9">>

\* All services alike, the API upgraded alone or last.
MCImages ==
  {[s \in CRs |-> 1], [s \in CRs |-> 2], [s \in CRs |-> IF s = "api" THEN 2 ELSE 1],
   [s \in CRs |-> IF s = "api" THEN 1 ELSE 2]}

MCFailAt == Steps \ {"rndc"}
=============================================================================
