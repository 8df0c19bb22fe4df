--------------------------- MODULE RedisTaskQueue ---------------------------
(***************************************************************************)
(* services/queue.py: the Redis list queue, its processing shelf and its   *)
(* single-flight claims, one Redis command per action. What lives in Redis *)
(* (claims, queue, shelf) survives a crash; what the process remembers     *)
(* (inflight, gate, at, has, moving) does not.                             *)
(*                                                                         *)
(* The head of the sequence "queue" is the end BRPOP takes from: LPUSH     *)
(* appends, RPUSH prepends. The shelf is a set: payloads carry their       *)
(* enqueue time, so two requests never share their bytes, and the order in *)
(* which requeue_orphans empties it is left open.                          *)
(***************************************************************************)
EXTENDS Naturals, Sequences, FiniteSets

CONSTANTS Key,        \* job keys: one user, one URL, one format and tier
          Consumer,   \* the worker loops of the process
          MaxStamp,   \* bound: requests accepted in one behaviour
          Faults,     \* which of FaultKind may happen
          NoTask      \* no payload

FaultKind == {"crash", "redis", "cancel", "expiry", "telegram", "db"}

Task == [key : Key, stamp : 1..MaxStamp]

ASSUME QueueAssumption == /\ Faults \subseteq FaultKind
                          /\ MaxStamp \in Nat
                          /\ NoTask \notin Task

VARIABLES claims,     \* keys whose SET NX claim exists
          queue,      \* the list the workers pop
          shelf,      \* the processing list
          inflight,   \* RedisTaskQueue._inflight: key -> raw payload
          gate,       \* per key: the request between SET and LPUSH, or 0
          at,         \* per consumer: where its queue call stands
          has,        \* per consumer: the payload it is working on
          moving,     \* the payload between RPOP and RPUSH of requeue_orphans
          unheard,    \* enqueues whose LPUSH landed and whose reply is lost
          proc,       \* "up", "booting" or "down"
          stamp,      \* requests whose claim was taken so far
          open,       \* history: payloads pushed and not yet settled
          doubted     \* history: keys of which a push landed and yet raised

redisVars  == <<claims, queue, shelf>>
memoryVars == <<inflight, gate, at, has, moving, unheard>>
queueVars  == <<claims, queue, shelf, inflight, gate, at, has, moving, unheard, proc,
                stamp, open, doubted>>

Place == {"idle", "popped", "holding", "lremmed", "freed", "taken"}

QueueTypeOK ==
  /\ claims \subseteq Key
  /\ queue \in Seq(Task)
  /\ shelf \subseteq Task
  /\ inflight \in [Key -> Task \cup {NoTask}]
  /\ gate \in [Key -> 0..MaxStamp]
  /\ at \in [Consumer -> Place]
  /\ has \in [Consumer -> Task \cup {NoTask}]
  /\ moving \in Task \cup {NoTask}
  /\ unheard \subseteq Task
  /\ proc \in {"up", "booting", "down"}
  /\ stamp \in 0..MaxStamp
  /\ open \subseteq Task
  /\ doubted \subseteq Key

EmptyMemory ==
  /\ inflight = [k \in Key |-> NoTask]
  /\ gate = [k \in Key |-> 0]
  /\ at = [c \in Consumer |-> "idle"]
  /\ has = [c \in Consumer |-> NoTask]
  /\ moving = NoTask
  /\ unheard = {}

QueueInit ==
  /\ claims = {} /\ queue = <<>> /\ shelf = {}
  /\ EmptyMemory
  /\ proc = "up" /\ stamp = 0 /\ open = {} /\ doubted = {}

-----------------------------------------------------------------------------
(* enqueue: SET NX EX, then LPUSH. A held claim answers -1 and changes     *)
(* nothing.                                                                *)

\* Mutant: SET without NX, the claim is taken again.
EnqueueClaimAlways(k) ==
  /\ proc = "up" /\ gate[k] = 0 /\ stamp < MaxStamp
  /\ claims' = claims \cup {k}
  /\ gate' = [gate EXCEPT ![k] = stamp + 1]
  /\ stamp' = stamp + 1
  /\ UNCHANGED <<queue, shelf, inflight, at, has, moving, unheard, proc, open, doubted>>

EnqueueClaim(k) ==
  /\ proc = "up"
  /\ gate[k] = 0
  /\ stamp < MaxStamp
  /\ k \notin claims
  /\ claims' = claims \cup {k}
  /\ gate' = [gate EXCEPT ![k] = stamp + 1]
  /\ stamp' = stamp + 1
  /\ UNCHANGED <<queue, shelf, inflight, at, has, moving, unheard, proc, open, doubted>>

\* The payload of the enqueue of k reaches the list.
Lands(k) ==
  /\ gate[k] # 0
  /\ LET t == [key |-> k, stamp |-> gate[k]] IN
       /\ queue' = Append(queue, t)
       /\ open' = open \cup {t}
  /\ gate' = [gate EXCEPT ![k] = 0]
  /\ UNCHANGED <<claims, shelf, inflight, at, has, moving, proc, stamp, doubted>>

EnqueuePush(k) == Lands(k) /\ UNCHANGED unheard

\* The reply of the push is lost: the payload is in the list, and the enqueue
\* waits for the socket timeout that makes it raise.
EnqueuePushUnheard(k) ==
  /\ "redis" \in Faults
  /\ Lands(k)
  /\ unheard' = unheard \cup {[key |-> k, stamp |-> gate[k]]}

\* release() of an enqueue of k that raised: raw off the shelf, the claim away.
\* Either command may raise in its turn, which is swallowed.
ReleaseRefused(k, raw) ==
  /\ inflight' = [inflight EXCEPT ![k] = NoTask]
  /\ \/ UNCHANGED <<claims, shelf>>
     \/ shelf' = shelf \ {raw} /\ claims' \in {claims, claims \ {k}}

\* LPUSH raises and did not land, so that raw is what the key has in flight. A
\* SET whose reply is lost ends as if nothing were released: a claim alone.
EnqueuePushFails(k) ==
  /\ "redis" \in Faults
  /\ gate[k] # 0
  /\ gate' = [gate EXCEPT ![k] = 0]
  /\ ReleaseRefused(k, inflight[k])
  /\ UNCHANGED <<queue, at, has, moving, unheard, proc, stamp, open, doubted>>

\* The LPUSH that landed unheard raises, whatever has become of its payload:
\* raw is what the key has in flight by now, or the payload itself.
PushRaises(t) ==
  /\ "redis" \in Faults
  /\ t \in unheard
  /\ unheard' = unheard \ {t}
  /\ ReleaseRefused(t.key, IF inflight[t.key] = NoTask THEN t ELSE inflight[t.key])
  /\ doubted' = doubted \cup {t.key}
  /\ UNCHANGED <<queue, gate, at, has, moving, proc, stamp, open>>

-----------------------------------------------------------------------------
(* dequeue: BRPOP, then LPUSH onto the shelf.                              *)

DequeuePop(c) ==
  /\ proc = "up"
  /\ at[c] = "idle"
  /\ queue # <<>>
  /\ has' = [has EXCEPT ![c] = Head(queue)]
  /\ queue' = Tail(queue)
  /\ at' = [at EXCEPT ![c] = "popped"]
  /\ UNCHANGED <<claims, shelf, inflight, gate, moving, unheard, proc, stamp, open, doubted>>

\* Mutant: the claim ends when the work starts.
DequeueShelveFrees(c) ==
  /\ at[c] = "popped"
  /\ claims' = claims \ {has[c].key}
  /\ shelf' = shelf \cup {has[c]}
  /\ inflight' = [inflight EXCEPT ![has[c].key] = has[c]]
  /\ at' = [at EXCEPT ![c] = "holding"]
  /\ UNCHANGED <<queue, gate, has, moving, unheard, proc, stamp, open, doubted>>

DequeueShelve(c) ==
  /\ at[c] = "popped"
  /\ shelf' = shelf \cup {has[c]}
  /\ inflight' = [inflight EXCEPT ![has[c].key] = has[c]]
  /\ at' = [at EXCEPT ![c] = "holding"]
  /\ UNCHANGED <<claims, queue, gate, has, moving, unheard, proc, stamp, open, doubted>>

\* The shelf push raises, landed or not: run_worker logs, backs off and pops
\* the next one. A BRPOP whose reply is lost ends the same way.
DequeueShelveFails(c) ==
  /\ "redis" \in Faults
  /\ at[c] = "popped"
  /\ shelf' \in {shelf, shelf \cup {has[c]}}
  /\ at' = [at EXCEPT ![c] = "idle"]
  /\ has' = [has EXCEPT ![c] = NoTask]
  /\ UNCHANGED <<claims, queue, inflight, gate, moving, unheard, proc, stamp, open, doubted>>

-----------------------------------------------------------------------------
(* release: LREM the bytes that were popped, then DEL the claim. Any error *)
(* is logged and absorbed.                                                 *)

\* _inflight.pop(job_key(task), task.to_payload())
Raw(c) == IF inflight[has[c].key] # NoTask THEN inflight[has[c].key] ELSE has[c]

\* Mutant: LREM of a payload serialised again matches nothing.
ReleaseLremMisses(c) ==
  /\ at[c] = "holding"
  /\ inflight' = [inflight EXCEPT ![has[c].key] = NoTask]
  /\ open' = open \ {has[c]}
  /\ at' = [at EXCEPT ![c] = "lremmed"]
  /\ UNCHANGED <<claims, queue, shelf, gate, has, moving, unheard, proc, stamp, doubted>>

ReleaseLrem(c) ==
  /\ at[c] = "holding"
  /\ shelf' = shelf \ {Raw(c)}
  /\ inflight' = [inflight EXCEPT ![has[c].key] = NoTask]
  /\ open' = open \ {has[c]}
  /\ at' = [at EXCEPT ![c] = "lremmed"]
  /\ UNCHANGED <<claims, queue, gate, has, moving, unheard, proc, stamp, doubted>>

\* Mutant: DEL of another key.
ReleaseDelMisses(c) ==
  /\ at[c] = "lremmed"
  /\ at' = [at EXCEPT ![c] = "freed"]
  /\ UNCHANGED <<claims, queue, shelf, inflight, gate, has, moving, unheard, proc, stamp, open, doubted>>

ReleaseDel(c) ==
  /\ at[c] = "lremmed"
  /\ claims' = claims \ {has[c].key}
  /\ at' = [at EXCEPT ![c] = "freed"]
  /\ UNCHANGED <<queue, shelf, inflight, gate, has, moving, unheard, proc, stamp, open, doubted>>

ReleaseReturn(c) ==
  /\ at[c] = "freed"
  /\ at' = [at EXCEPT ![c] = "idle"]
  /\ has' = [has EXCEPT ![c] = NoTask]
  /\ UNCHANGED <<claims, queue, shelf, inflight, gate, moving, unheard, proc, stamp, open, doubted>>

\* LREM or DEL raises: the rest of the release does not happen.
ReleaseFails(c) ==
  /\ "redis" \in Faults
  /\ at[c] \in {"holding", "lremmed"}
  /\ inflight' = [inflight EXCEPT ![has[c].key] = NoTask]
  /\ at' = [at EXCEPT ![c] = "idle"]
  /\ has' = [has EXCEPT ![c] = NoTask]
  /\ UNCHANGED <<claims, queue, shelf, gate, moving, unheard, proc, stamp, open, doubted>>

-----------------------------------------------------------------------------
(* requeue: LREM, then RPUSH to the end the workers pop. Worker calls it   *)
(* on shutdown; a cancellation can also cut into a release under way.      *)

\* Mutant: requeue frees the claim as release does.
RequeueLremFrees(c) ==
  /\ at[c] = "holding"
  /\ shelf' = shelf \ {Raw(c)}
  /\ claims' = claims \ {has[c].key}
  /\ has' = [has EXCEPT ![c] = Raw(c)]
  /\ inflight' = [inflight EXCEPT ![has[c].key] = NoTask]
  /\ at' = [at EXCEPT ![c] = "taken"]
  /\ UNCHANGED <<queue, gate, moving, unheard, proc, stamp, open, doubted>>

RequeueLrem(c) ==
  /\ at[c] = "holding" \/ ("cancel" \in Faults /\ at[c] \in {"lremmed", "freed"})
  /\ shelf' = shelf \ {Raw(c)}
  /\ has' = [has EXCEPT ![c] = Raw(c)]
  /\ inflight' = [inflight EXCEPT ![has[c].key] = NoTask]
  /\ at' = [at EXCEPT ![c] = "taken"]
  /\ UNCHANGED <<claims, queue, gate, moving, unheard, proc, stamp, open, doubted>>

\* Mutant: the payload is taken off the shelf and not pushed.
RequeuePushForgets(c) ==
  /\ at[c] = "taken"
  /\ at' = [at EXCEPT ![c] = "idle"]
  /\ has' = [has EXCEPT ![c] = NoTask]
  /\ UNCHANGED <<claims, queue, shelf, inflight, gate, moving, unheard, proc, stamp, open, doubted>>

RequeuePush(c) ==
  /\ at[c] = "taken"
  /\ queue' = <<has[c]>> \o queue
  /\ at' = [at EXCEPT ![c] = "idle"]
  /\ has' = [has EXCEPT ![c] = NoTask]
  /\ UNCHANGED <<claims, shelf, inflight, gate, moving, unheard, proc, stamp, open, doubted>>

\* A failing requeue is logged and absorbed by _requeue_for_shutdown: after
\* a failed LREM the payload is still shelved, after a failed RPUSH nowhere.
RequeueFails(c) ==
  /\ "redis" \in Faults
  /\ at[c] \in {"holding", "taken"}
  /\ inflight' = [inflight EXCEPT ![has[c].key] = NoTask]
  /\ at' = [at EXCEPT ![c] = "idle"]
  /\ has' = [has EXCEPT ![c] = NoTask]
  /\ UNCHANGED <<claims, queue, shelf, gate, moving, unheard, proc, stamp, open, doubted>>

-----------------------------------------------------------------------------
(* The process: it dies, ends, and comes back. requeue_orphans runs once   *)
(* before the first consumer starts.                                       *)

ForgetMemory ==
  /\ inflight' = [k \in Key |-> NoTask]
  /\ gate' = [k \in Key |-> 0]
  /\ at' = [c \in Consumer |-> "idle"]
  /\ has' = [c \in Consumer |-> NoTask]
  /\ moving' = NoTask
  /\ unheard' = {}

Crash ==
  /\ "crash" \in Faults
  /\ proc # "down"
  /\ proc' = "down"
  /\ ForgetMemory
  /\ UNCHANGED <<claims, queue, shelf, stamp, open, doubted>>

\* A graceful end: no handler is mid-enqueue and every consumer has ended. A
\* cancelled one ends where it stood: outside the try of _process_with_retry,
\* or in the middle of dequeue.
Stop ==
  /\ proc = "up"
  /\ \A k \in Key : gate[k] = 0
  /\ unheard = {}
  /\ \A c \in Consumer :
       at[c] = "idle" \/ ("cancel" \in Faults /\ at[c] \in {"popped", "holding"})
  /\ proc' = "down"
  /\ ForgetMemory
  /\ UNCHANGED <<claims, queue, shelf, stamp, open, doubted>>

Boot ==
  /\ proc = "down"
  /\ proc' = "booting"
  /\ UNCHANGED <<claims, queue, shelf, inflight, gate, at, has, moving, unheard, stamp, open, doubted>>

OrphanPop(t) ==
  /\ proc = "booting"
  /\ moving = NoTask
  /\ t \in shelf
  /\ shelf' = shelf \ {t}
  /\ moving' = t
  /\ UNCHANGED <<claims, queue, inflight, gate, at, has, unheard, proc, stamp, open, doubted>>

\* Mutant: the empty shelf's None is pushed too.
OrphanPushUnchecked ==
  /\ proc = "booting"
  /\ queue' = <<moving>> \o queue
  /\ moving' = NoTask
  /\ UNCHANGED <<claims, shelf, inflight, gate, at, has, unheard, proc, stamp, open, doubted>>

OrphanPush ==
  /\ proc = "booting"
  /\ moving # NoTask
  /\ queue' = <<moving>> \o queue
  /\ moving' = NoTask
  /\ UNCHANGED <<claims, shelf, inflight, gate, at, has, unheard, proc, stamp, open, doubted>>

\* Mutant: the shelf is deleted, not drained.
BootDoneDeletes ==
  /\ proc = "booting"
  /\ moving = NoTask
  /\ shelf' = {}
  /\ proc' = "up"
  /\ UNCHANGED <<claims, queue, inflight, gate, at, has, moving, unheard, stamp, open, doubted>>

BootDone ==
  /\ proc = "booting"
  /\ moving = NoTask
  /\ shelf = {}
  /\ proc' = "up"
  /\ UNCHANGED <<claims, queue, shelf, inflight, gate, at, has, moving, unheard, stamp, open, doubted>>

\* No enqueue, no open request and no release needs this claim: a death between
\* SET and LPUSH, or a DEL that failed, left it.
LeftBehind(k) ==
  /\ gate[k] = 0
  /\ \A t \in open : t.key # k
  /\ \A c \in Consumer : at[c] = "lremmed" => has[c].key # k

\* The claim's EX runs out: of one that was left behind, and as a fault also
\* while the job still waits or runs.
ClaimExpires(k) ==
  /\ k \in claims
  /\ "expiry" \in Faults \/ LeftBehind(k)
  /\ claims' = claims \ {k}
  /\ UNCHANGED <<queue, shelf, inflight, gate, at, has, moving, unheard, proc, stamp, open, doubted>>

-----------------------------------------------------------------------------
Gateway(k) == EnqueueClaim(k) \/ EnqueuePush(k) \/ EnqueuePushFails(k) \/ EnqueuePushUnheard(k)

Take(c)    == DequeuePop(c) \/ DequeueShelve(c) \/ DequeueShelveFails(c)
Settle(c)  == ReleaseLrem(c) \/ ReleaseDel(c) \/ ReleaseReturn(c) \/ ReleaseFails(c)
GiveBack(c) == RequeueLrem(c) \/ RequeuePush(c) \/ RequeueFails(c)

Orphans == (\E t \in shelf : OrphanPop(t)) \/ OrphanPush \/ BootDone

QueueNext ==
  \/ \E k \in Key : Gateway(k) \/ ClaimExpires(k)
  \/ \E t \in unheard : PushRaises(t)
  \/ \E c \in Consumer : Take(c) \/ Settle(c) \/ GiveBack(c)
  \/ Crash \/ Stop \/ Boot \/ Orphans

QueueSpec == QueueInit /\ [][QueueNext]_queueVars

-----------------------------------------------------------------------------
(* What the queue must keep true.                                          *)

Queued == {queue[i] : i \in DOMAIN queue}

\* The consumers that answer for a payload, and the payloads they answer for.
Working == {c \in Consumer : at[c] \in {"popped", "holding", "taken"}}
InHand  == {has[c] : c \in Working} \cup ({moving} \ {NoTask})

Located == Queued \cup shelf \cup InHand

\* Little can be said of a job once a push of it landed and yet raised: the
\* release() in enqueue deletes the claim under its payload, and a second one
\* gets in. These are the payloads of every other job.
Trusted(S) == {t \in S : t.key \notin doubted}

\* Whatever is queued, shelved or being worked on holds its single-flight
\* claim: a repeat of a job in the air is refused (enqueue, release, requeue),
\* unless a push of that job landed and yet raised.
ClaimCovers == \A t \in Trusted(Located) : t.key \in claims

\* One request, one copy: no two payloads of one key are alive, the list holds
\* no payload twice, a waiting payload is in no hand and on no shelf, and no
\* two consumers work on one job (the two-step pop, requeue, orphans); with
\* the same exception.
OneCopy ==
  /\ \A t, u \in Trusted(Located) : t.key = u.key => t = u
  /\ \A i, j \in DOMAIN queue : queue[i] = queue[j] /\ queue[i] \in Trusted(Queued) => i = j
  /\ Trusted(Queued) \cap (shelf \cup InHand) = {}
  /\ \A c, d \in Working : has[c] = has[d] /\ has[c] \in Trusted(InHand) => c = d

\* A settled job is gone for good: nothing that was released is still queued,
\* shelved or in somebody's hand (release, _settle, requeue_orphans), with the
\* same exception.
NoZombie == Trusted(Located) \subseteq open

\* What reached the Redis list or the shelf leaves it only into the hands of
\* a consumer, of a release or of requeue_orphans, whatever fails.
RedisKeepsIt ==
  [][\A t \in Queued \cup shelf :
        t \in unheard \/ t \in (Located \cup {has[c] : c \in Consumer})']_queueVars

\* Nothing accepted is ever nowhere (dequeue, requeue_orphans).
NothingLost == open \subseteq Located

\* The queue implements single flight, of every job until a push of it lands
\* and yet raises: there its request leaves the contract.
SF == INSTANCE SingleFlight WITH pending <- Trusted(open)
SingleFlightSpec == SF!Spec
=============================================================================
