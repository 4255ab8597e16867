--------------------------- MODULE InputHandshake ---------------------------
(***************************************************************************)
(* What a service controller promises the Designate controller when it     *)
(* confirms an input: every pod runs a configuration at least as new as    *)
(* the confirmed one, so that what only older configurations use (the      *)
(* previous RabbitMQ user) can be revoked.                                 *)
(***************************************************************************)
EXTENDS Integers

VARIABLES
  asked,         \* newest configuration that must be confirmed
  running,       \* configurations the pods run
  confirmed      \* newest configuration confirmed to all pods; 0: none

Init == asked \in Nat /\ running = {} /\ confirmed = 0

\* A newer configuration has to be confirmed.
Ask ==
  /\ asked' \in Nat /\ asked' > asked
  /\ UNCHANGED <<running, confirmed>>

\* A pod stops, or starts with a configuration that is not older than the
\* confirmed one.
Roll ==
  /\ \A v \in running' \ running : v >= confirmed
  /\ UNCHANGED <<asked, confirmed>>

\* Confirmation moves forward only, and only when all pods have caught up.
Confirm ==
  /\ confirmed' > confirmed /\ confirmed' <= asked
  /\ \A v \in running : v >= confirmed'
  /\ UNCHANGED <<asked, running>>

Next == Ask \/ Roll \/ Confirm

Spec == Init /\ [][Next]_<<asked, running, confirmed>>
=============================================================================
