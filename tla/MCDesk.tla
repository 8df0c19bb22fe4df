------------------------------- MODULE MCDesk -------------------------------
(* Parts that share no state: a behaviour is one of one of them. The        *)
(* task queue, the sections of one user, the lease of three processes and   *)
(* an announcement.                                                         *)
EXTENDS MCQueue, DownloadMode, InstanceGuard, Broadcast

CONSTANTS youtube, generic, p1, p2, p3

VARIABLE part

Others(name) == /\ part = name /\ UNCHANGED part
                /\ name # "queue"     => UNCHANGED queueVars
                /\ name # "mode"      => UNCHANGED vars
                /\ name # "guard"     => UNCHANGED guardVars
                /\ name # "broadcast" => UNCHANGED broadcastVars

DeskInit == /\ part \in {"queue", "mode", "guard", "broadcast"}
            /\ QueueInit /\ Init /\ GuardInit /\ BroadcastInit

DeskNext == \/ Others("queue") /\ QueueNext
            \/ Others("mode") /\ Next
            \/ Others("guard") /\ GuardNext
            \/ Others("broadcast") /\ BroadcastNext

DeskSpec == DeskInit /\ [][DeskNext]_<<part, queueVars, vars, guardVars, broadcastVars>>

\* The type invariants of the parts.
DeskTypeOK == QueueTypeOK /\ ModeTypeOK /\ GuardTypeOK /\ BroadcastTypeOK

TwoSections == {youtube, generic}
MCProcess   == {p1, p2, p3}
LeaseSymmetry == Permutations(MCProcess)
=============================================================================
