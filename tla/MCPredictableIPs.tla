-------------------------- MODULE MCPredictableIPs --------------------------
EXTENDS PredictableIPs

\* One pod or one more per map.
SingleSmall ==
  [mdns : 1 .. 2, unbound : 0 .. 1, npools : {1}, multi : {FALSE},
   binds : [{0} -> 0 .. 1]]

\* Up to two pools, entered from and left to the single-pool mode.
Multi ==
  [mdns : 1 .. 2, unbound : {1}, npools : {2}, multi : {TRUE},
   binds : {f \in [{0, 1} -> 1 .. 2] : f[0] + f[1] <= 3}]
  \cup [mdns : {0}, unbound : {1}, npools : {1}, multi : BOOLEAN,
        binds : {[k \in {0, 1} |-> 2 - 2 * k]}]
=============================================================================
