------------------------------ MODULE MCQueue ------------------------------
(* The queue on its own, with three keys and two consumers.                  *)
EXTENDS RedisTaskQueue, TLC

CONSTANTS k1, k2, k3, c1, c2

MCKey == {k1, k2, k3}
MCConsumer == {c1, c2}

\* Every fault but those that take a claim away under a running job.
Blips == {"crash", "redis"}
OnlyCrash == {"crash"}

TwoOfThree == {k1, k2}

\* A claim that expired, or was deleted under its payload, lets copies of one
\* payload multiply: the list is cut here.
ShortQueue == Len(queue) <= 2

Symmetry == Permutations(MCKey) \cup Permutations(MCConsumer)
=============================================================================
