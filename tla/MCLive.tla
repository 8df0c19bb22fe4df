------------------------------- MODULE MCLive -------------------------------
(* What must eventually happen: a behaviour is one of the job pipeline or   *)
(* one of the texts, which share no state.                                  *)
EXTENDS MCWorker, TextSync

CONSTANTS r1, r2

VARIABLE live

WorkersOnly == live = "workers" /\ UNCHANGED <<live, textVars>>
TextsOnly   == live = "texts" /\ UNCHANGED <<live, workerVars>>

BothInit == live \in {"workers", "texts"} /\ WorkerInit /\ cached = {} /\ TextInit

\* The texts may rest when nothing is left to edit, the pipeline may not.
BothNext == \/ WorkersOnly /\ WorkerNext
            \/ TextsOnly /\ TextNext
            \/ TextsOnly /\ UNCHANGED textVars

\* WorkerFairness and TextFairness, each for its own behaviours.
BothFairness ==
  /\ \A c \in Consumer : WF_workerVars(live = "workers" /\ (Loop(c) \/ Process(c) \/ Close(c)))
  /\ \A k \in Key : WF_workerVars(live = "workers" /\ EnqueuePush(k) /\ Submit(k))
  /\ WF_workerVars(live = "workers" /\ (ProcessStops \/ ProcessStarts))
  /\ \A p \in Replica : /\ WF_textVars(live = "texts" /\ SyncMoved(p))
                        /\ WF_textVars(live = "texts" /\ Fetch(p))
                        /\ WF_textVars(live = "texts" /\ Reload(p))
  /\ \A n \in EditId : WF_textVars(live = "texts" /\ EditStep(n))

BothSpec == BothInit /\ [][BothNext]_<<live, workerVars, textVars>> /\ BothFairness

MCReplica == {r1, r2}

\* r1 edits; its own reloads reach nothing the reader r2 can see.
MCSyncs == (r1 :> 0) @@ (r2 :> 2)
=============================================================================
