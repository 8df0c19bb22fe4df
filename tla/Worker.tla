------------------------------- MODULE Worker -------------------------------
(***************************************************************************)
(* services/worker.py over services/queue.py and core/database.py: the     *)
(* consumer loop, the attempts at one job, its quota slot, its delivery,   *)
(* and the shutdown that hands a job back. Every queue call is the queue   *)
(* action of the same name; a stage is the stretch of code between two     *)
(* awaits whose outcomes differ.                                           *)
(*                                                                         *)
(* Both engines are one nondeterministic outcome: a fallback that serves   *)
(* the link goes the way of a download, one that fails too ends the job.   *)
(***************************************************************************)
EXTENDS RedisTaskQueue, Quota

CONSTANTS Link,         \* what the smart cache is keyed by: URL, format, tier
          Owner,        \* the user of a job key
          LinkOf,       \* the link of a job key
          MaxAttempts,  \* MAX_ATTEMPTS
          Parts,        \* messages one delivery takes (albums: several)
          MaxStops      \* bound: graceful shutdowns in one behaviour

ASSUME WorkerAssumption == /\ Owner \in [Key -> User]
                           /\ LinkOf \in [Key -> Link]
                           /\ MaxAttempts \in Nat \ {0}
                           /\ Parts \in Nat \ {0}
                           /\ MaxStops \in Nat

VARIABLES stage,     \* per consumer: where _process_with_retry stands
          tries,     \* the attempt under way
          held,      \* task.quota_held
          sent,      \* parts of this attempt that reached the chat
          claimDay,  \* history: the day the held slot was claimed on
          cached,    \* links with a smart_cache row
          stop,      \* stop_event
          stops,     \* graceful shutdowns so far
          copies,    \* history, per request: times its file arrived, up to 2
          paid,      \* history, per user and day: deliveries that spent a slot
          answered   \* history: requests whose user got a file or a verdict

jobVars == <<stage, tries, held, sent, claimDay>>
history == <<copies, paid, answered>>
workerVars == <<queueVars, quotaVars, jobVars, cached, stop, stops, history>>

Stage == {"none", "gone", "attempt", "lookup", "missed", "granted", "sent",
          "retrying", "failed", "settle", "handback"}

WorkerTypeOK ==
  /\ QueueTypeOK /\ QuotaTypeOK
  /\ stage \in [Consumer -> Stage]
  /\ tries \in [Consumer -> 0..MaxAttempts]
  /\ held \in [Consumer -> BOOLEAN]
  /\ sent \in [Consumer -> 0..Parts]
  /\ claimDay \in [Consumer -> 0..MaxDay]
  /\ cached \subseteq Link
  /\ stop \in BOOLEAN
  /\ stops \in 0..MaxStops
  /\ copies \in [1..MaxStamp -> 0..2]
  /\ paid \in [User -> [1..MaxDay -> Nat]]
  /\ answered \subseteq 1..MaxStamp

IdleJobs == /\ stage = [c \in Consumer |-> "none"]
            /\ tries = [c \in Consumer |-> 0]
            /\ held = [c \in Consumer |-> FALSE]
            /\ sent = [c \in Consumer |-> 0]
            /\ claimDay = [c \in Consumer |-> 0]

WorkerInit ==
  /\ QueueInit /\ QuotaInit /\ IdleJobs
  /\ cached \in SUBSET Link /\ stop = FALSE /\ stops = 0
  /\ copies = [n \in 1..MaxStamp |-> 0]
  /\ paid = [u \in User |-> [d \in 1..MaxDay |-> 0]]
  /\ answered = {}

UserOf(c) == Owner[has[c].key]
LinkAt(c) == LinkOf[has[c].key]

Goto(c, s) == stage' = [stage EXCEPT ![c] = s]
Answer(c)  == answered' = answered \cup {has[c].stamp}
Arrives(c) == copies' = [copies EXCEPT ![has[c].stamp] = IF @ = 2 THEN 2 ELSE @ + 1]

-----------------------------------------------------------------------------
(* run_worker: the loop around the job.                                    *)

LoopPop(c) ==
  /\ stage[c] = "none"
  /\ DequeuePop(c)
  /\ UNCHANGED <<quotaVars, jobVars, cached, stop, stops, history>>

LoopStart(c) ==
  /\ stage[c] = "none"
  /\ DequeueShelve(c)
  /\ Goto(c, "attempt")
  /\ tries' = [tries EXCEPT ![c] = 1]
  /\ UNCHANGED <<quotaVars, held, sent, claimDay, cached, stop, stops, history>>

LoopPopFails(c) ==
  /\ stage[c] = "none"
  /\ DequeueShelveFails(c)
  /\ Goto(c, IF stop THEN "gone" ELSE "none")
  /\ UNCHANGED <<quotaVars, tries, held, sent, claimDay, cached, stop, stops, history>>

\* BRPOP times out: the loop reads the stop event and asks again.
LoopIdle(c) ==
  /\ ~stop /\ proc = "up"
  /\ stage[c] = "none" /\ at[c] = "idle" /\ queue = <<>>
  /\ UNCHANGED workerVars

\* The blocked read times out (or raises) under a set stop event.
LoopEnds(c) ==
  /\ stop /\ stage[c] = "none" /\ at[c] = "idle"
  /\ Goto(c, "gone")
  /\ UNCHANGED <<queueVars, quotaVars, tries, held, sent, claimDay, cached, stop,
                 stops, history>>

\* The job is over for this consumer: read the stop event, or pop the next.
JobOver(c) == /\ Goto(c, IF stop THEN "gone" ELSE "none")
              /\ tries' = [tries EXCEPT ![c] = 0]
              /\ sent' = [sent EXCEPT ![c] = 0]

-----------------------------------------------------------------------------
(* _refund_quota: the flag goes first, the statement may be lost.          *)

\* Mutant: the flag survives its refund.
RefundKeepsFlag(c) ==
  /\ IF held[c] THEN RefundSlot(UserOf(c)) ELSE UNCHANGED row
  /\ UNCHANGED <<today, held, claimDay>>

Refund(c) ==
  /\ held' = [held EXCEPT ![c] = FALSE]
  /\ claimDay' = [claimDay EXCEPT ![c] = 0]
  /\ IF held[c]
     THEN RefundSlot(UserOf(c)) \/ ("db" \in Faults /\ UNCHANGED row)
     ELSE UNCHANGED row
  /\ UNCHANGED today

\* Mutant: a retryable failure keeps its slot.
AttemptFailsUnrefunded(c, permanent) ==
  /\ IF permanent THEN Refund(c)
     ELSE held' = [held EXCEPT ![c] = FALSE] /\ UNCHANGED <<row, today, claimDay>>
  /\ Goto(c, IF permanent THEN "failed" ELSE "retrying")
  /\ sent' = [sent EXCEPT ![c] = 0]
  /\ UNCHANGED <<queueVars, tries, cached, stop, stops>>

\* An attempt raised: its slot comes back. A permanent code (or a fallback
\* that was tried too) leaves the loop, anything else sleeps first.
AttemptFails(c, permanent) ==
  /\ Refund(c)
  /\ Goto(c, IF permanent THEN "failed" ELSE "retrying")
  /\ sent' = [sent EXCEPT ![c] = 0]
  /\ UNCHANGED <<queueVars, tries, cached, stop, stops>>

-----------------------------------------------------------------------------
(* _process_with_retry and process_download_task.                          *)

BeginAttempt(c) ==
  /\ stage[c] = "attempt"
  /\ Goto(c, IF stop THEN "handback" ELSE "lookup")
  /\ UNCHANGED <<queueVars, quotaVars, tries, held, sent, claimDay, cached, stop,
                 stops, history>>

\* The worker-side cache check answers the job: a replay is a delivery that
\* costs no slot.
Replay(c) ==
  /\ stage[c] = "lookup"
  /\ LinkAt(c) \in cached
  /\ Arrives(c) /\ Answer(c)
  /\ Goto(c, "sent")
  /\ UNCHANGED <<queueVars, quotaVars, tries, held, sent, claimDay, cached, stop,
                 stops, paid>>

\* No row, or a dead file_id: the row is forgotten and the work goes on.
CacheMiss(c) ==
  /\ stage[c] = "lookup"
  /\ cached' \in {cached, cached \ {LinkAt(c)}} /\ LinkAt(c) \notin cached'
  /\ Goto(c, "missed")
  /\ UNCHANGED <<queueVars, quotaVars, tries, held, sent, claimDay, stop, stops,
                 history>>

\* Live, too big by its metadata, no account or no slot left: the card says
\* so and the job settles with no delivery.
Refuse(c) ==
  /\ stage[c] = "missed"
  /\ Answer(c)
  /\ Goto(c, "settle")
  /\ UNCHANGED <<queueVars, quotaVars, tries, held, sent, claimDay, cached, stop,
                 stops, copies, paid>>

TakeSlot(c) ==
  /\ stage[c] = "missed"
  /\ ClaimSlot(UserOf(c)) /\ UNCHANGED today
  /\ held' = [held EXCEPT ![c] = TRUE]
  /\ claimDay' = [claimDay EXCEPT ![c] = today]
  /\ Goto(c, "granted")
  /\ UNCHANGED <<queueVars, tries, sent, cached, stop, stops, history>>

\* Mutant: a failing memorize fails the delivered attempt.
WorkFailsLate(c) ==
  /\ stage[c] \in {"lookup", "missed", "granted", "sent"}
  /\ \E permanent \in BOOLEAN : AttemptFails(c, permanent)
  /\ UNCHANGED history

\* Extraction, download, verification or the send itself raises.
WorkFails(c) ==
  /\ stage[c] \in {"lookup", "missed", "granted"}
  /\ \E permanent \in BOOLEAN : AttemptFails(c, permanent)
  /\ UNCHANGED history

\* The finished file is over the ceiling: refunded, told, settled.
FinalTooBig(c) ==
  /\ stage[c] = "granted" /\ sent[c] = 0
  /\ Refund(c)
  /\ Answer(c)
  /\ Goto(c, "settle")
  /\ UNCHANGED <<queueVars, tries, sent, cached, stop, stops, copies, paid>>

\* One message of the delivery lands. The last one spends the slot.
SendPart(c) ==
  /\ stage[c] = "granted"
  /\ sent' = [sent EXCEPT ![c] = @ + 1]
  /\ IF sent[c] = 0 THEN Arrives(c) ELSE UNCHANGED copies
  /\ IF sent[c] + 1 = Parts
     THEN /\ held' = [held EXCEPT ![c] = FALSE]
          /\ paid' = [paid EXCEPT ![UserOf(c)][claimDay[c]] = @ + 1]
          /\ claimDay' = [claimDay EXCEPT ![c] = 0]
          /\ Answer(c)
          /\ Goto(c, "sent")
     ELSE UNCHANGED <<held, paid, claimDay, answered, stage>>
  /\ UNCHANGED <<queueVars, quotaVars, tries, cached, stop, stops>>

\* memorize is best effort, and a delivery of several parts is not stored. A
\* replay (nothing sent by this attempt) has its row already.
Memorized(c) == IF sent[c] = 1 /\ Parts = 1 THEN {cached, cached \cup {LinkAt(c)}}
                                            ELSE {cached}

\* The row is stored, the card is taken down.
Finish(c) ==
  /\ stage[c] = "sent"
  /\ cached' \in Memorized(c)
  /\ Goto(c, "settle")
  /\ UNCHANGED <<queueVars, quotaVars, tries, held, sent, claimDay, stop, stops,
                 history>>

\* _retire_status lets every Telegram error but two through: the delivered
\* attempt counts as a failed one.
RetireFails(c) ==
  /\ "telegram" \in Faults
  /\ stage[c] = "sent"
  /\ cached' \in Memorized(c)
  /\ Goto(c, "retrying")
  /\ sent' = [sent EXCEPT ![c] = 0]
  /\ UNCHANGED <<queueVars, quotaVars, tries, held, claimDay, stop, stops, history>>

\* Mutant: the attempts are not counted.
RetryForever(c) ==
  /\ stage[c] = "retrying"
  /\ Goto(c, IF stop THEN "handback" ELSE "attempt")
  /\ UNCHANGED <<queueVars, quotaVars, tries, held, sent, claimDay, cached, stop,
                 stops, history>>

\* The backoff sleep is over, or was cut short by the stop event.
RetryOrGiveUp(c) ==
  /\ stage[c] = "retrying"
  /\ \/ stop /\ Goto(c, "handback") /\ UNCHANGED tries
     \/ /\ ~stop
        /\ IF tries[c] < MaxAttempts
           THEN Goto(c, "attempt") /\ tries' = [tries EXCEPT ![c] = @ + 1]
           ELSE Goto(c, "failed") /\ UNCHANGED tries
  /\ UNCHANGED <<queueVars, quotaVars, held, sent, claimDay, cached, stop, stops,
                 history>>

\* Mutant: the job settles with nobody told.
NotifyNobody(c) ==
  /\ stage[c] = "failed"
  /\ Goto(c, "settle")
  /\ UNCHANGED <<queueVars, quotaVars, tries, held, sent, claimDay, cached, stop,
                 stops, history>>

\* Every attempt failed: record, alert, tell the user. The card edit may raise
\* on its way to run_worker, which settles the job all the same.
NotifyFailure(c) ==
  /\ stage[c] = "failed"
  /\ Answer(c) \/ ("telegram" \in Faults /\ UNCHANGED answered)
  /\ Goto(c, "settle")
  /\ UNCHANGED <<queueVars, quotaVars, tries, held, sent, claimDay, cached, stop,
                 stops, copies, paid>>

-----------------------------------------------------------------------------
(* _settle and _requeue_for_shutdown.                                      *)

SettleStep(c) ==
  /\ stage[c] = "settle"
  /\ ReleaseLrem(c) \/ ReleaseDel(c)
  /\ UNCHANGED <<quotaVars, jobVars, cached, stop, stops, history>>

SettleDone(c) ==
  /\ stage[c] = "settle"
  /\ ReleaseReturn(c) \/ ReleaseFails(c)
  /\ JobOver(c)
  /\ UNCHANGED <<quotaVars, held, claimDay, cached, stop, stops, history>>

HandBackRefund(c) ==
  /\ stage[c] = "handback" /\ held[c]
  /\ Refund(c)
  /\ UNCHANGED <<queueVars, stage, tries, sent, cached, stop, stops, history>>

\* Mutant: the job is handed back with its slot.
HandBackTakeUnrefunded(c) ==
  /\ stage[c] = "handback"
  /\ RequeueLrem(c)
  /\ UNCHANGED <<quotaVars, jobVars, cached, stop, stops, history>>

HandBackTake(c) ==
  /\ stage[c] = "handback" /\ ~held[c]
  /\ RequeueLrem(c)
  /\ UNCHANGED <<quotaVars, jobVars, cached, stop, stops, history>>

HandBackDone(c) ==
  /\ stage[c] = "handback" /\ ~held[c]
  /\ RequeuePush(c) \/ RequeueFails(c)
  /\ JobOver(c)
  /\ UNCHANGED <<quotaVars, held, claimDay, cached, stop, stops, history>>

\* The shutdown's grace is over: task.cancel() on a consumer that still runs.
\* Inside the try the job is handed back; while it sleeps, notifies or pops,
\* the consumer just ends. A claim statement under way may be executed with
\* nobody left to see it.
Cancel(c) ==
  /\ "cancel" \in Faults /\ stop
  /\ \/ /\ stage[c] \in {"lookup", "missed", "granted", "sent", "settle"}
        /\ Goto(c, "handback")
        /\ \/ UNCHANGED row
           \/ stage[c] = "missed" /\ ClaimSlot(UserOf(c))
     \/ /\ stage[c] \in {"none", "retrying", "failed"}
        /\ Goto(c, "gone")
        /\ UNCHANGED row
  /\ UNCHANGED <<queueVars, today, tries, held, sent, claimDay, cached, stop, stops,
                 history>>

-----------------------------------------------------------------------------
(* The process and the rest of the world.                                  *)

StopRequested ==
  /\ proc = "up" /\ ~stop /\ stops < MaxStops
  /\ stop' = TRUE /\ stops' = stops + 1
  /\ UNCHANGED <<queueVars, quotaVars, jobVars, cached, history>>

ForgetJobs == /\ stage' = [c \in Consumer |-> "none"]
              /\ tries' = [c \in Consumer |-> 0]
              /\ held' = [c \in Consumer |-> FALSE]
              /\ sent' = [c \in Consumer |-> 0]
              /\ claimDay' = [c \in Consumer |-> 0]
              /\ stop' = FALSE

ProcessStops ==
  /\ stop /\ \A c \in Consumer : stage[c] = "gone"
  /\ Stop
  /\ ForgetJobs
  /\ UNCHANGED <<quotaVars, cached, stops, history>>

ProcessDies ==
  /\ Crash
  /\ ForgetJobs
  /\ UNCHANGED <<quotaVars, cached, stops, history>>

ProcessStarts ==
  /\ Boot \/ Orphans
  /\ UNCHANGED <<quotaVars, jobVars, cached, stop, stops, history>>

\* _submit reads the cache and the soft quota before the claim, so both
\* answers may be stale by then; polling has ended once stop is set.
Submit(k) ==
  /\ \/ EnqueueClaim(k) /\ ~stop
     \/ EnqueuePush(k) \/ EnqueuePushFails(k) \/ EnqueuePushUnheard(k)
     \/ \E t \in unheard : t.key = k /\ PushRaises(t)
  /\ UNCHANGED <<quotaVars, jobVars, cached, stop, stops, history>>

\* A gateway replay met a dead file_id: _submit forgets the row.
GatewayForgets(l) ==
  /\ l \in cached
  /\ cached' = cached \ {l}
  /\ UNCHANGED <<queueVars, quotaVars, jobVars, stop, stops, history>>

Expire(k) ==
  /\ ClaimExpires(k)
  /\ UNCHANGED <<quotaVars, jobVars, cached, stop, stops, history>>

DayPasses ==
  /\ Midnight
  /\ UNCHANGED <<queueVars, jobVars, cached, stop, stops, history>>

Loop(c)    == LoopPop(c) \/ LoopStart(c) \/ LoopPopFails(c) \/ LoopIdle(c) \/ LoopEnds(c)
Process(c) == BeginAttempt(c) \/ Replay(c) \/ CacheMiss(c) \/ Refuse(c) \/ TakeSlot(c)
                \/ WorkFails(c) \/ FinalTooBig(c) \/ SendPart(c) \/ Finish(c)
                \/ RetireFails(c) \/ RetryOrGiveUp(c) \/ NotifyFailure(c)
Close(c)   == SettleStep(c) \/ SettleDone(c) \/ HandBackRefund(c)
                \/ HandBackTake(c) \/ HandBackDone(c)

WorkerNext ==
  \/ \E c \in Consumer : Loop(c) \/ Process(c) \/ Close(c) \/ Cancel(c)
  \/ \E k \in Key : Submit(k) \/ Expire(k)
  \/ \E l \in Link : GatewayForgets(l)
  \/ StopRequested \/ ProcessStops \/ ProcessDies \/ ProcessStarts \/ DayPasses

WorkerSpec == WorkerInit /\ [][WorkerNext]_workerVars

\* The event loop runs every ready consumer, a started enqueue goes on, and
\* the container is restarted (compose: restart unless-stopped).
WorkerFairness ==
  /\ \A c \in Consumer : WF_workerVars(Loop(c) \/ Process(c) \/ Close(c))
  /\ \A k \in Key : WF_workerVars(EnqueuePush(k) /\ Submit(k))
  /\ WF_workerVars(ProcessStops \/ ProcessStarts)

LiveSpec == WorkerSpec /\ WorkerFairness

-----------------------------------------------------------------------------
(* What the worker must keep true.                                         *)

\* Concurrent workers cannot oversell a day: the counter of a row never
\* passes the limit (a limit of 0 lets the first claim through).
NeverOversold == \A u \in User : row[u].used <= Limit[u] \/ row[u].used = 1

\* The slots of day d that consumers of u hold.
HeldOn(u, d) ==
  Cardinality({c \in Consumer : held[c] /\ UserOf(c) = u /\ claimDay[c] = d})

\* A finished delivery stays paid: until a first midnight the row counts every
\* delivery that spent a slot and every slot in use, whatever fails
\* (_refund_quota).
SlotsCovered ==
  \A u \in User :
    today = 1 /\ row[u].date = 1 => row[u].used >= paid[u][1] + HeldOn(u, 1)

\* With nothing lost on the way, and until a first midnight, the row counts
\* exactly those: an attempt that delivered nothing costs nothing
\* (_refund_quota, _requeue_for_shutdown).
SlotsExact ==
  \A u \in User :
    today = 1 /\ row[u].date = 1 => row[u].used = paid[u][1] + HeldOn(u, 1)

\* A refund never crosses midnight: the consumer that gives its own slot back
\* lowers the counter of the day it claimed that slot on (refund_download_claim).
Refunds(c) == held[c] /\ ~held'[c] /\ row'[UserOf(c)].used < row[UserOf(c)].used

RefundStaysInItsDay ==
  [][\A c \in Consumer : Refunds(c) => claimDay[c] = row[UserOf(c)].date]_workerVars

\* One request, one file in the chat: no retry, hand-back or restart sends a
\* request's file a second time (_SentNoFileId, memorize, _retire_status).
OneDelivery == \A n \in 1..MaxStamp : copies[n] <= 1

\* A job never ends in silence: once settled, its user has the file, a
\* refusal or the failure (process_download_task, _notify_failure).
SettledAnswered ==
  \A n \in 1..stamp : (\E k \in Key : [key |-> k, stamp |-> n] \in open)
                        \/ (\E k \in Key : gate[k] = n)
                        \/ n \in answered

\* A slot is in use only by a consumer that is at work on a job.
SlotHasJob == \A c \in Consumer : held[c] => at[c] = "holding"

\* Every accepted job settles, through retries and graceful restarts.
EveryJobSettles ==
  \A k \in Key : \A n \in 1..MaxStamp :
    LET t == [key |-> k, stamp |-> n] IN t \in open ~> t \notin open

\* A claim does not outlive its job: the request may run again.
ClaimsComeBack == \A k \in Key : k \in claims ~> k \notin claims
=============================================================================
