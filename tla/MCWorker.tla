------------------------------ MODULE MCWorker ------------------------------
(* The whole job pipeline: queue, workers, quota and cache. k1 and k2 are   *)
(* two links of one user, who has one slot a day; k3 is another user's      *)
(* request for the first link, which shares its cache row.                  *)
EXTENDS Worker, TLC

CONSTANTS k1, k2, k3, c1, c2, u1, u2, l1, l2

TwoKeys == {k1, k2}
TwoConsumers == {c1, c2}
MCUser == {u1, u2}
MCLink == {l1, l2}
MCLimit == u1 :> 1 @@ u2 :> 2
MCOwner == [k \in Key |-> IF k = k3 THEN u2 ELSE u1]
MCLinkOf == [k \in Key |-> IF k = k2 THEN l2 ELSE l1]

NoFaults == {}

\* All but a claim that expires under its job: one that is deleted there comes
\* with a reply that is lost.
MostFaults == FaultKind \ {"expiry"}
OnlyTelegram == {"telegram"}

\* What the slot properties can tell apart: the histories no guard reads, of
\* deliveries, answers and settled jobs, are left out of a state's identity.
SlotView == <<redisVars, memoryVars, proc, stamp, quotaVars, jobVars, cached, stop,
              stops, paid>>

\* No link was delivered before: what a replay costs is no slot.
NoRows == WorkerInit /\ cached = {}

\* The consumers are the same but for their name, and so are the two requests
\* of the one user, with their links.
Renaming == k1 :> k2 @@ k2 :> k1 @@ l1 :> l2 @@ l2 :> l1
Symmetry == {p @@ r : p \in Permutations(TwoConsumers),
                      r \in {Renaming, [x \in DOMAIN Renaming |-> x]}}

\* A claim that expired, or was deleted under its payload, lets copies of one
\* payload multiply: the list is cut here.
ShortQueue == Len(queue) <= 2
=============================================================================
