----------------------------- MODULE Lifecycle -----------------------------
(***************************************************************************)
(* One life of the process of main.py: connect_bot and build_app bring it  *)
(* up, polling or a webhook serves, shutdown takes it down. Tracked are    *)
(* the clients it has open, its lease, the tasks it owns and the deletions *)
(* of raw links its handlers leave in flight (handlers/user.py).           *)
(***************************************************************************)
CONSTANTS Loop,      \* app["workers"]: the consumers, loops and watchers
          GuardLoop, \* the one of them that renews the lease
          Deletion   \* deletions of raw links

ASSUME LoopAssumption == GuardLoop \in Loop

VARIABLES phase,     \* where build_app, the serving loop or shutdown stands
          mode,      \* BOT_MODE
          open,      \* clients that are open
          lease,     \* this process's lease is in Redis
          kept,      \* the release of the lease failed
          task,      \* per task
          stopEvent, \* app["stop_event"]
          signal,     \* what became of the last signal
          deletion,  \* per deletion
          early      \* the deletions shutdown waits for

clientVars    == <<open, lease, kept>>
lifecycleVars == <<phase, mode, clientVars, task, stopEvent, signal, deletion, early>>

Handle == {"session", "pool", "redis"}

Boot     == {"connect", "database", "redis", "guard", "orphans", "spawn"}
Serving  == {"prelude", "serve"}
Teardown == {"deletes", "draining", "tasks", "gather", "release", "closePool",
             "closeRedis", "closeSession"}

LifecycleTypeOK ==
  /\ phase \in Boot \cup Serving \cup Teardown \cup {"over", "killed"}
  /\ mode \in {"polling", "webhook"} /\ open \subseteq Handle
  /\ lease \in BOOLEAN /\ kept \in BOOLEAN /\ stopEvent \in BOOLEAN
  /\ task \in [Loop -> {"none", "idle", "busy", "cancelled", "done"}]
  /\ signal \in {"no", "lost", "heard"}
  /\ deletion \in [Deletion -> {"none", "flying", "landed", "dropped"}]
  /\ early \subseteq Deletion

LifecycleInit ==
  /\ phase = "connect" /\ mode \in {"polling", "webhook"}
  /\ open = {} /\ lease = FALSE /\ kept = FALSE
  /\ task = [t \in Loop |-> "none"] /\ stopEvent = FALSE /\ signal = "no"
  /\ deletion = [d \in Deletion |-> "none"] /\ early = {}

From(here, there) == phase = here /\ phase' = there

-----------------------------------------------------------------------------
(* connect_bot and build_app. A step that raises ends the process: main has *)
(* no finally around build_app, so what is open stays open.                 *)

\* The local server, or the cloud after it; a session that failed is closed.
Connect ==
  /\ \/ From("connect", "database") /\ open' = {"session"}
     \/ From("connect", "over") /\ UNCHANGED open
  /\ UNCHANGED <<mode, lease, kept, task, stopEvent, signal, deletion, early>>

OpenPoolTolerated ==
  /\ From("database", "redis") /\ open' \in {open, open \cup {"pool"}}
  /\ UNCHANGED <<mode, lease, kept, task, stopEvent, signal, deletion, early>>

OpenPool ==
  /\ \/ From("database", "redis") /\ open' = open \cup {"pool"}
     \/ From("database", "over") /\ UNCHANGED open
  /\ UNCHANGED <<mode, lease, kept, task, stopEvent, signal, deletion, early>>

\* A Redis that does not answer is not an error: queue and FSM in memory.
DialRedis ==
  /\ From("redis", "guard")
  /\ open' \in {open, open \cup {"redis"}}
  /\ UNCHANGED <<mode, lease, kept, task, stopEvent, signal, deletion, early>>

\* start_guard claims the lease, or meets a peer or a failing Redis.
StartGuard ==
  /\ From("guard", "orphans")
  /\ lease' \in {FALSE, "redis" \in open}
  /\ UNCHANGED <<mode, open, kept, task, stopEvent, signal, deletion, early>>

RequeueOrphans ==
  /\ From("orphans", "spawn") \/ ("redis" \in open /\ From("orphans", "over"))
  /\ UNCHANGED <<mode, clientVars, task, stopEvent, signal, deletion, early>>

SpawnTasks ==
  /\ From("spawn", "prelude")
  /\ task' = [t \in Loop |-> "idle"]
  /\ UNCHANGED <<mode, clientVars, stopEvent, signal, deletion, early>>

-----------------------------------------------------------------------------
(* The tasks: a consumer with its job, a watcher with its round.            *)

TaskBegins(t) ==
  /\ task[t] = "idle" /\ ~stopEvent
  /\ task' = [task EXCEPT ![t] = "busy"]
  /\ UNCHANGED <<phase, mode, clientVars, stopEvent, signal, deletion, early>>

\* A request of a task or a deletion opens a session again that was closed.
Calls == open' = open \cup {"session"}

TaskCalls(t) ==
  /\ task[t] \in {"busy", "cancelled"}
  /\ "session" \notin open /\ Calls
  /\ UNCHANGED <<phase, mode, lease, kept, task, stopEvent, signal, deletion, early>>

\* The end of a round; the guard's may have renewed or taken the lease.
TaskRests(t) ==
  /\ task[t] = "busy"
  /\ task' = [task EXCEPT ![t] = "idle"]
  /\ lease' \in {lease} \cup (IF t = GuardLoop THEN {"redis" \in open} ELSE {})
  /\ UNCHANGED <<phase, mode, open, kept, stopEvent, signal, deletion, early>>

\* A loop that sees the stop event returns; a cancelled task has wound up,
\* with its job handed back (_requeue_for_shutdown).
TaskEnds(t) ==
  /\ task[t] = "cancelled" \/ (task[t] = "idle" /\ stopEvent)
  /\ task' = [task EXCEPT ![t] = "done"]
  /\ UNCHANGED <<phase, mode, clientVars, stopEvent, signal, deletion, early>>

-----------------------------------------------------------------------------
(* Handlers, which shutdown does not wait for, drop links.                  *)

\* _forget_raw_link
DeleteBegins(d) ==
  /\ phase \in {"serve"} \cup Teardown
  /\ deletion[d] = "none"
  /\ deletion' = [deletion EXCEPT ![d] = "flying"]
  /\ UNCHANGED <<phase, mode, clientVars, task, stopEvent, signal, early>>

\* _delete_raw_link is silent in every outcome.
DeleteEnds(d) ==
  /\ deletion[d] = "flying"
  /\ \/ deletion' = [deletion EXCEPT ![d] = "dropped"] /\ UNCHANGED open
     \/ /\ phase \notin {"over", "killed"}
        /\ deletion' = [deletion EXCEPT ![d] = "landed"] /\ Calls
  /\ UNCHANGED <<phase, mode, lease, kept, task, stopEvent, signal, early>>

\* Those of the set that are still in flight come to nothing.
Drops(lost) ==
  deletion' = [d \in Deletion |-> IF d \in lost /\ deletion[d] = "flying" THEN "dropped" ELSE deletion[d]]

-----------------------------------------------------------------------------
(* Serving, and how it ends.                                                *)

\* The webhook of an earlier deployment is dropped, the commands published.
StartServing ==
  /\ From("prelude", "serve")
  /\ UNCHANGED <<mode, clientVars, task, stopEvent, signal, deletion, early>>

\* _request_stop: the event, and a stop_polling that dies when nothing polls
\* yet; until run_polling installs it, and with a webhook, a SIGTERM kills.
Terminate ==
  /\ phase \notin Teardown \cup {"over", "killed"} /\ signal # "heard"
  /\ IF mode = "polling" /\ phase \in Serving
       THEN /\ stopEvent' = TRUE
            /\ signal' = IF phase = "serve" THEN "heard" ELSE "lost"
            /\ UNCHANGED <<phase, task>>
       ELSE /\ phase' = "killed"
            /\ task' = [t \in Loop |-> "done"]
            /\ UNCHANGED <<stopEvent, signal>>
  /\ UNCHANGED <<mode, clientVars, deletion, early>>

\* start_polling returns; or an interrupt cancels the webhook's wait. Both close
\* the bot's session and cut what is under way on it; the webhook path then
\* calls delete_webhook, which opens it again.
ServingEnds ==
  /\ From("serve", "deletes")
  /\ mode = "polling" => signal = "heard"
  /\ stopEvent' = TRUE
  /\ IF mode = "polling" THEN open' = open \ {"session"} ELSE Calls
  /\ \E cut \in SUBSET Deletion : Drops(cut)
  /\ UNCHANGED <<mode, lease, kept, task, signal, early>>

-----------------------------------------------------------------------------
(* shutdown                                                                 *)

\* drain_pending_deletes: those in flight when it looks.
DrainLooks ==
  /\ From("deletes", "draining")
  /\ early' = {d \in Deletion : deletion[d] = "flying"}
  /\ UNCHANGED <<mode, clientVars, task, stopEvent, signal, deletion>>

\* They ended, or are cancelled after five seconds.
DrainEnds ==
  /\ From("draining", "tasks")
  /\ Drops(early)
  /\ UNCHANGED <<mode, clientVars, task, stopEvent, signal, early>>

Settled == \A t \in Loop : task[t] = "done"

\* Tasks that do not end in time are cancelled.
WaitTasks ==
  /\ From("tasks", "gather")
  /\ task' = [t \in Loop |-> IF task[t] = "done" THEN "done" ELSE "cancelled"]
  /\ UNCHANGED <<mode, clientVars, stopEvent, signal, deletion, early>>

\* Their cancellation is waited for.
Gather ==
  /\ From("gather", "release")
  /\ Settled
  /\ UNCHANGED <<mode, clientVars, task, stopEvent, signal, deletion, early>>

\* InstanceGuard.stop absorbs a failing Redis.
ReleaseLease ==
  /\ From("release", "closePool")
  /\ \/ lease' = FALSE /\ UNCHANGED kept
     \/ lease /\ kept' = TRUE /\ UNCHANGED lease
  /\ UNCHANGED <<mode, open, task, stopEvent, signal, deletion, early>>

CloseClient(here, client, there) ==
  /\ From(here, there)
  /\ open' = open \ {client}
  /\ UNCHANGED <<mode, lease, kept, task, stopEvent, signal, deletion, early>>

ClosePool    == CloseClient("closePool", "pool", "closeRedis")
CloseRedis   == CloseClient("closeRedis", "redis", "closeSession")
CloseSession == CloseClient("closeSession", "session", "over")

LifecycleNext ==
  \/ Connect \/ OpenPool \/ DialRedis \/ StartGuard \/ RequeueOrphans \/ SpawnTasks
  \/ \E t \in Loop : TaskBegins(t) \/ TaskCalls(t) \/ TaskRests(t) \/ TaskEnds(t)
  \/ \E d \in Deletion : DeleteBegins(d) \/ DeleteEnds(d)
  \/ StartServing \/ Terminate \/ ServingEnds
  \/ DrainLooks \/ DrainEnds \/ WaitTasks \/ Gather \/ ReleaseLease
  \/ ClosePool \/ CloseRedis \/ CloseSession

LifecycleSpec == LifecycleInit /\ [][LifecycleNext]_lifecycleVars

-----------------------------------------------------------------------------
\* A task at work, or winding up, has its pool, and shutdown has closed neither
\* Redis nor, for good, the session. That the end of the serving closed the
\* session under it costs it the request under way.
NoneWorksOnClosed ==
  (\E t \in Loop : task[t] \in {"busy", "cancelled"})
    => "pool" \in open /\ phase \notin {"closeSession", "over"}

\* Once shutdown is past its release nothing takes the lease again: the next
\* boot meets a lease of this process only when the delete itself failed.
LeaseIsGone ==
  lease /\ phase \in {"closePool", "closeRedis", "closeSession", "over"}
    => kept \/ \A t \in Loop : task[t] = "none"

\* The deletions shutdown found in flight ended before it takes anything down.
DeletesWaitedFor ==
  phase \in (Teardown \ {"deletes", "draining"}) \cup {"over"} => \A d \in early : deletion[d] # "flying"

\* What shutdown takes down in order (main.py shutdown).
OrderlyExit == NoneWorksOnClosed /\ LeaseIsGone /\ DeletesWaitedFor
=============================================================================
