---- MODULE MCTransportRotation ----
EXTENDS TransportRotationInv, TLC
Perms == Permutations(Services)
====
