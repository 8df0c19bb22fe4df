------------------------------ MODULE MCFaults ------------------------------
(* What the faults spare: the slots of the job pipeline and the payments,   *)
(* which share no state but the premium that a payment grants: a behaviour  *)
(* is one of one of them.                                                   *)
EXTENDS MCWorker, MCPay

VARIABLE side

Side(name) == /\ side = name /\ UNCHANGED side
              /\ name # "jobs" => UNCHANGED workerVars
              /\ name # "payments" => UNCHANGED vars

FaultsInit == /\ side \in {"jobs", "payments"}
              /\ NoRows /\ Init

FaultsNext == \/ Side("jobs") /\ WorkerNext
              \/ Side("payments") /\ Next

FaultsSpec == FaultsInit /\ [][FaultsNext]_<<side, workerVars, vars>>

FaultsView == <<side, SlotView, PayView>>

\* The updates of the buyer are called as the consumers and the photos as the
\* links, so that one renaming does for both sides.
FaultsSymmetry == {s @@ a : s \in Symmetry, a \in Permutations(MCAdmin)}
=============================================================================
