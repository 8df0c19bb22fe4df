---------------------------- MODULE WorkerProofs ----------------------------
(***************************************************************************)
(* Proofs about Worker, for any users, links, job keys and consumers. The  *)
(* worker drives the queue only through the queue's own operations, so     *)
(* what is proved of the queue holds of the whole pipeline; the quota is   *)
(* proved under every fault.                                               *)
(***************************************************************************)
EXTENDS MCLive, RedisTaskQueueProofs

LEMMA LoopIsQueue ==
  ASSUME NEW c \in Consumer, Loop(c)
  PROVE  Take(c) \/ UNCHANGED queueVars
BY DEF Loop, LoopPop, LoopStart, LoopPopFails, LoopIdle, LoopEnds, Take, workerVars

LEMMA ProcessIsNotQueue ==
  ASSUME NEW c \in Consumer, Process(c)
  PROVE  UNCHANGED queueVars
BY DEF Process, BeginAttempt, Replay, CacheMiss, Refuse, TakeSlot, WorkFails,
       AttemptFails, FinalTooBig, SendPart, Finish, RetireFails, RetryOrGiveUp,
       NotifyFailure

LEMMA CloseIsQueue ==
  ASSUME NEW c \in Consumer, Close(c)
  PROVE  Settle(c) \/ GiveBack(c) \/ UNCHANGED queueVars
BY DEF Close, SettleStep, SettleDone, HandBackRefund, HandBackTake, HandBackDone,
       Settle, GiveBack

LEMMA WorkerStepIsQueue == [WorkerNext]_workerVars => [QueueNext]_queueVars
<1> SUFFICES ASSUME [WorkerNext]_workerVars PROVE [QueueNext]_queueVars
  OBVIOUS
<1>1. ASSUME NEW c \in Consumer, Loop(c) \/ Process(c) \/ Close(c)
      PROVE  [QueueNext]_queueVars
  BY <1>1, LoopIsQueue, ProcessIsNotQueue, CloseIsQueue DEF QueueNext
<1>2. ASSUME NEW c \in Consumer, Cancel(c) PROVE UNCHANGED queueVars
  BY <1>2 DEF Cancel
<1>3. ASSUME NEW k \in Key, Submit(k) \/ Expire(k) PROVE QueueNext
  BY <1>3 DEF Submit, Expire, QueueNext, Gateway
<1>4. ASSUME NEW l \in Link, GatewayForgets(l) PROVE UNCHANGED queueVars
  BY <1>4 DEF GatewayForgets
<1>5. ASSUME StopRequested \/ DayPasses PROVE UNCHANGED queueVars
  BY <1>5 DEF StopRequested, DayPasses
<1>6. ASSUME ProcessStops \/ ProcessDies \/ ProcessStarts PROVE QueueNext
  BY <1>6 DEF ProcessStops, ProcessDies, ProcessStarts, QueueNext
<1>7. CASE UNCHANGED workerVars
  BY <1>7 DEF workerVars
<1>8. QED BY <1>1, <1>2, <1>3, <1>4, <1>5, <1>6, <1>7 DEF WorkerNext

\* The pipeline implements the queue: the worker never touches its Redis keys
\* but through enqueue, dequeue, release and requeue.
THEOREM WorkerIsQueue == WorkerSpec => QueueSpec
<1>1. WorkerInit => QueueInit
  BY DEF WorkerInit
<1>2. QED BY <1>1, WorkerStepIsQueue, PTL DEF WorkerSpec, QueueSpec

\* One job in the air per key in the whole pipeline (enqueue, _settle,
\* _requeue_for_shutdown), and single flight as its contract, of every job
\* until a push of it lands and yet raises.
THEOREM WorkerSingleFlight ==
  ASSUME SteadyClaims PROVE WorkerSpec => []OneCopy /\ SingleFlightSpec
BY WorkerIsQueue, OneCopies, Refines, PTL

-----------------------------------------------------------------------------
(* The quota.                                                              *)

QuotaInv == /\ row \in [User -> [date : 0..MaxDay, used : Nat]]
            /\ today \in 1..MaxDay
            /\ NeverOversold

LEMMA ClaimKeeps ==
  ASSUME QuotaInv, NEW u, ClaimSlot(u), UNCHANGED today
  PROVE  QuotaInv'
<1> USE QuotaAssumption DEF QuotaInv, NeverOversold
<1> DEFINE new == [date |-> today, used |-> IF row[u].date # today THEN 1
                                            ELSE row[u].used + 1]
<1>1. row' = [row EXCEPT ![u] = new] /\ (row[u].date # today \/ row[u].used < Limit[u])
  BY DEF ClaimSlot, CanClaim
<1>2. new.date = today /\ new.used = IF row[u].date # today THEN 1 ELSE row[u].used + 1
  OBVIOUS
<1>3. ASSUME NEW v \in User
      PROVE  /\ row'[v] \in [date : 0..MaxDay, used : Nat]
             /\ row'[v].used <= Limit[v] \/ row'[v].used = 1
  <2>1. row[v] \in [date : 0..MaxDay, used : Nat] /\ Limit[v] \in Nat
    OBVIOUS
  <2>2. CASE v = u
    <3>1. row'[v] = new
      BY <1>1, <2>2
    <3>2. row[u].used \in Nat
      BY <2>1, <2>2
    <3>3. new \in [date : 0..MaxDay, used : Nat]
      BY <3>2
    <3>4. new.used <= Limit[v] \/ new.used = 1
      BY <1>1, <1>2, <2>1, <2>2, <3>2
    <3>5. QED BY <3>1, <3>3, <3>4
  <2>3. CASE v # u
    BY <1>1, <2>1, <2>3
  <2>4. QED BY <2>2, <2>3
<1> HIDE DEF new
<1>4. row' \in [User -> [date : 0..MaxDay, used : Nat]]
  BY <1>1, <1>3
<1>5. QED BY <1>3, <1>4

LEMMA RefundKeeps ==
  ASSUME QuotaInv, NEW u, RefundSlot(u) \/ UNCHANGED row, UNCHANGED today
  PROVE  QuotaInv'
<1> USE QuotaAssumption DEF QuotaInv, NeverOversold
<1>1. CASE UNCHANGED row
  BY <1>1
<1>2. CASE Refundable(u) /\ RefundSlot(u)
  <2>1. row' = [row EXCEPT ![u] = [row[u] EXCEPT !.used = @ - 1]] /\ row[u].used > 0
    BY <1>2 DEF RefundSlot, Refundable
  <2>2. ASSUME NEW v \in User
        PROVE  /\ row'[v] \in [date : 0..MaxDay, used : Nat]
               /\ row'[v].used <= Limit[v] \/ row'[v].used = 1
    <3>1. row[v] \in [date : 0..MaxDay, used : Nat] /\ Limit[v] \in Nat
      OBVIOUS
    <3>2. CASE v = u
      BY <2>1, <3>1, <3>2
    <3>3. CASE v # u
      BY <2>1, <3>1, <3>3
    <3>4. QED BY <3>2, <3>3
  <2>3. row' \in [User -> [date : 0..MaxDay, used : Nat]]
    BY <2>1, <2>2
  <2>4. QED BY <2>2, <2>3
<1>3. QED BY <1>1, <1>2 DEF RefundSlot

LEMMA QuotaStep == QuotaInv /\ [WorkerNext]_workerVars => QuotaInv'
<1> SUFFICES ASSUME QuotaInv, [WorkerNext]_workerVars PROVE QuotaInv'
  OBVIOUS
<1>0. ASSUME UNCHANGED quotaVars PROVE QuotaInv'
  BY <1>0 DEF QuotaInv, NeverOversold, quotaVars
<1>r. ASSUME NEW c, Refund(c) PROVE QuotaInv'
  BY <1>r, RefundKeeps DEF Refund
<1>1. ASSUME NEW c \in Consumer, Loop(c) PROVE QuotaInv'
  BY <1>0, <1>1 DEF Loop, LoopPop, LoopStart, LoopPopFails, LoopIdle, LoopEnds, workerVars
<1>2. ASSUME NEW c \in Consumer, Process(c) PROVE QuotaInv'
  <2>1. CASE TakeSlot(c)
    BY <2>1, ClaimKeeps DEF TakeSlot
  <2>2. CASE WorkFails(c) \/ FinalTooBig(c)
    BY <1>r, <2>2 DEF WorkFails, AttemptFails, FinalTooBig
  <2>3. CASE SendPart(c) \/ Replay(c) \/ Finish(c) \/ RetireFails(c)
    BY <1>0, <2>3 DEF SendPart, Replay, Finish, RetireFails
  <2>4. CASE BeginAttempt(c) \/ CacheMiss(c) \/ Refuse(c) \/ RetryOrGiveUp(c) \/ NotifyFailure(c)
    BY <1>0, <2>4 DEF BeginAttempt, CacheMiss, Refuse, RetryOrGiveUp, NotifyFailure
  <2>5. QED BY <1>2, <2>1, <2>2, <2>3, <2>4 DEF Process
<1>3. ASSUME NEW c \in Consumer, Close(c) PROVE QuotaInv'
  BY <1>0, <1>r, <1>3 DEF Close, SettleStep, SettleDone, HandBackRefund, HandBackTake,
                          HandBackDone
<1>4. ASSUME NEW c \in Consumer, Cancel(c) PROVE QuotaInv'
  BY <1>0, <1>4, ClaimKeeps DEF Cancel, quotaVars
<1>5. ASSUME NEW k \in Key, Submit(k) \/ Expire(k) PROVE QuotaInv'
  BY <1>0, <1>5 DEF Submit, Expire
<1>6. ASSUME NEW l \in Link, GatewayForgets(l) PROVE QuotaInv'
  BY <1>0, <1>6 DEF GatewayForgets
<1>7. ASSUME StopRequested \/ ProcessStops \/ ProcessDies \/ ProcessStarts PROVE QuotaInv'
  BY <1>0, <1>7 DEF StopRequested, ProcessStops, ProcessDies, ProcessStarts
<1>8. CASE DayPasses
  BY <1>8, QuotaAssumption DEF DayPasses, Midnight, QuotaInv, NeverOversold
<1>9. CASE UNCHANGED workerVars
  BY <1>0, <1>9 DEF workerVars
<1>10. QED BY <1>1, <1>2, <1>3, <1>4, <1>5, <1>6, <1>7, <1>8, <1>9 DEF WorkerNext

\* No number of concurrent workers, failures and restarts takes a user past
\* the day's limit (can_claim_download, refund_download_claim).
THEOREM NoOversell == WorkerSpec => []NeverOversold
<1>1. WorkerInit => QuotaInv
  BY QuotaAssumption DEF WorkerInit, QuotaInit, QuotaInv, NeverOversold
<1>2. QuotaInv => NeverOversold
  BY DEF QuotaInv
<1>3. QED BY <1>1, <1>2, QuotaStep, PTL DEF WorkerSpec

-----------------------------------------------------------------------------
(* A slot in use has a job. Every stage between the shelf and the release  *)
(* holds its payload, and only two of them can hold a slot.                *)

AtWork == {"attempt", "lookup", "missed", "granted", "sent", "retrying", "failed"}

JobInv == /\ at \in [Consumer -> Place]
          /\ stage \in [Consumer -> Stage]
          /\ held \in [Consumer -> BOOLEAN]
          /\ \A c \in Consumer :
               /\ stage[c] \in AtWork => at[c] = "holding"
               /\ held[c] => stage[c] \in {"granted", "handback"} /\ at[c] = "holding"

LEMMA JobStep == JobInv /\ [WorkerNext]_workerVars => JobInv'
<1> SUFFICES ASSUME JobInv, [WorkerNext]_workerVars PROVE JobInv'
  OBVIOUS
<1> USE DEF JobInv, AtWork, Place, Stage, Goto
<1>1. ASSUME NEW c \in Consumer, Loop(c) PROVE JobInv'
  BY <1>1 DEF Loop, LoopPop, LoopStart, LoopPopFails, LoopIdle, LoopEnds, DequeuePop,
              DequeueShelve, DequeueShelveFails, workerVars, queueVars, jobVars
<1>2. ASSUME NEW c \in Consumer, Process(c) PROVE JobInv'
  <2>1. CASE BeginAttempt(c) \/ Replay(c) \/ CacheMiss(c) \/ Refuse(c)
    BY <2>1 DEF BeginAttempt, Replay, CacheMiss, Refuse, queueVars
  <2>2. CASE TakeSlot(c) \/ SendPart(c)
    BY <2>2 DEF TakeSlot, SendPart, queueVars
  <2>3. CASE WorkFails(c) \/ FinalTooBig(c)
    <3>1. /\ UNCHANGED at /\ held' = [held EXCEPT ![c] = FALSE]
          /\ \E s \in {"retrying", "failed", "settle"} :
               /\ s \in {"retrying", "failed"} => at[c] = "holding"
               /\ stage' = [stage EXCEPT ![c] = s]
      BY <2>3 DEF WorkFails, AttemptFails, FinalTooBig, Refund, queueVars
    <3>2. QED BY <3>1
  <2>4. CASE Finish(c) \/ RetireFails(c) \/ RetryOrGiveUp(c) \/ NotifyFailure(c)
    BY <2>4 DEF Finish, RetireFails, RetryOrGiveUp, NotifyFailure, queueVars
  <2>5. QED BY <1>2, <2>1, <2>2, <2>3, <2>4 DEF Process
<1>3. ASSUME NEW c \in Consumer, Close(c) PROVE JobInv'
  <2>1. CASE SettleStep(c) \/ SettleDone(c)
    BY <2>1 DEF SettleStep, SettleDone, ReleaseLrem, ReleaseDel, ReleaseReturn,
                ReleaseFails, JobOver, jobVars
  <2>2. CASE HandBackRefund(c)
    BY <2>2 DEF HandBackRefund, Refund, queueVars
  <2>3. CASE HandBackTake(c) \/ HandBackDone(c)
    BY <2>3 DEF HandBackTake, HandBackDone, RequeueLrem, RequeuePush, RequeueFails,
                JobOver, jobVars
  <2>4. QED BY <1>3, <2>1, <2>2, <2>3 DEF Close
<1>4. ASSUME NEW c \in Consumer, Cancel(c) PROVE JobInv'
  BY <1>4 DEF Cancel, queueVars
<1>5. ASSUME NEW k \in Key, Submit(k) \/ Expire(k) PROVE JobInv'
  BY <1>5 DEF Submit, Expire, EnqueueClaim, EnqueuePush, Lands, EnqueuePushFails,
              EnqueuePushUnheard, PushRaises, ClaimExpires, jobVars
<1>6. ASSUME NEW l \in Link, GatewayForgets(l) PROVE JobInv'
  BY <1>6 DEF GatewayForgets, queueVars, jobVars
<1>7. CASE StopRequested \/ DayPasses
  BY <1>7 DEF StopRequested, DayPasses, queueVars, jobVars
<1>8. CASE ProcessStops \/ ProcessDies
  <2>1. /\ at' = [c \in Consumer |-> "idle"]
        /\ stage' = [c \in Consumer |-> "none"]
        /\ held' = [c \in Consumer |-> FALSE]
    BY <1>8 DEF ProcessStops, ProcessDies, Stop, Crash, ForgetMemory, ForgetJobs
  <2>2. /\ at' \in [Consumer -> Place] /\ stage' \in [Consumer -> Stage]
        /\ held' \in [Consumer -> BOOLEAN]
    BY <2>1
  <2>3. \A c \in Consumer : stage'[c] \notin AtWork /\ ~held'[c]
    BY <2>1
  <2>4. QED BY <2>2, <2>3
<1>9. CASE ProcessStarts
  <2>1. UNCHANGED at
    BY <1>9 DEF ProcessStarts, Boot, Orphans, OrphanPop, OrphanPush, BootDone
  <2>2. UNCHANGED <<stage, held>>
    BY <1>9 DEF ProcessStarts, jobVars
  <2>3. QED BY <2>1, <2>2
<1>10. CASE UNCHANGED workerVars
  BY <1>10 DEF workerVars, queueVars, jobVars
<1>11. QED BY <1>1, <1>2, <1>3, <1>4, <1>5, <1>6, <1>7, <1>8, <1>9, <1>10 DEF WorkerNext

\* No slot outlives the work it was claimed for, on any path out of an attempt
\* (_refund_quota in every handler, _requeue_for_shutdown).
THEOREM SlotsHaveJobs == WorkerSpec => []SlotHasJob
<1>1. WorkerInit => JobInv
  BY DEF WorkerInit, QueueInit, EmptyMemory, IdleJobs, JobInv, AtWork, Place, Stage
<1>2. JobInv => SlotHasJob
  BY DEF JobInv, SlotHasJob
<1>3. QED BY <1>1, <1>2, JobStep, PTL DEF WorkerSpec
-----------------------------------------------------------------------------
(* Nobody is left without an answer. A stage that ends a job is reached    *)
(* only past an answer; the release that follows closes the request.       *)

\* Neither a death, nor a push that raises, nor a failing message.
Heard == Faults \cap {"crash", "redis", "telegram"} = {}

AnswerInv ==
  /\ \A c \in Consumer : stage[c] \in {"sent", "settle"} => has[c].stamp \in answered
  /\ SettledAnswered

LEMMA AnswerGateway ==
  ASSUME Heard, TypeInv, AnswerInv, NEW k \in Key, Submit(k) \/ Expire(k)
  PROVE  AnswerInv'
<1> USE QueueAssumption DEF Heard, TypeInv, QueueTypeOK, AnswerInv, SettledAnswered
<1>1. UNCHANGED <<stage, has, answered>>
  BY DEF Submit, Expire, jobVars, history, EnqueueClaim, EnqueuePush, Lands, EnqueuePushFails,
         EnqueuePushUnheard, PushRaises, ClaimExpires
<1>2. CASE EnqueueClaim(k)
  <2>1. /\ gate[k] = 0 /\ stamp' = stamp + 1 /\ gate' = [gate EXCEPT ![k] = stamp + 1]
        /\ stamp \in Nat /\ open' = open
    BY <1>2 DEF EnqueueClaim
  <2>2. ASSUME NEW n \in 1..stamp'
        PROVE  \/ \E j \in Key : [key |-> j, stamp |-> n] \in open'
               \/ \E j \in Key : gate'[j] = n
               \/ n \in answered'
    <3>1. CASE n = stamp + 1
      BY <2>1, <3>1
    <3>2. CASE n \in 1..stamp
      <4>1. ASSUME NEW j \in Key, gate[j] = n PROVE gate'[j] = n
        BY <2>1, <3>2, <4>1
      <4>2. QED BY <1>1, <2>1, <3>2, <4>1
    <3>3. n = stamp + 1 \/ n \in 1..stamp
      BY <2>1
    <3>4. QED BY <3>1, <3>2, <3>3
  <2>3. QED BY <1>1, <2>2
<1>3. CASE EnqueuePush(k)
  <2> DEFINE t == [key |-> k, stamp |-> gate[k]]
  <2>1. /\ open' = open \cup {t} /\ gate' = [gate EXCEPT ![k] = 0] /\ stamp' = stamp
    BY <1>3 DEF EnqueuePush, Lands
  <2>2. QED BY <1>1, <2>1
<1>4. CASE ClaimExpires(k)
  BY <1>1, <1>4 DEF ClaimExpires
<1>5. QED BY <1>2, <1>3, <1>4 DEF Submit, Expire, EnqueuePushFails, EnqueuePushUnheard, PushRaises

LEMMA AnswerStep ==
  ASSUME Heard, TypeInv, JobInv, AnswerInv, [WorkerNext]_workerVars
  PROVE  AnswerInv'
<1> USE DEF Heard, TypeInv, QueueTypeOK, JobInv, AnswerInv, Stage, Goto
<1>s. ASSUME open' = open, gate' = gate, stamp' = stamp, answered \subseteq answered'
      PROVE  SettledAnswered'
  BY <1>s DEF SettledAnswered
<1>1. ASSUME NEW c \in Consumer, Loop(c) PROVE AnswerInv'
  <2>1. UNCHANGED <<open, gate, stamp, answered>>
    BY <1>1 DEF Loop, LoopPop, LoopStart, LoopPopFails, LoopIdle, LoopEnds, DequeuePop,
                DequeueShelve, DequeueShelveFails, workerVars, queueVars, history
  <2>2. /\ \A d \in Consumer \ {c} : stage'[d] = stage[d] /\ has'[d] = has[d]
        /\ stage'[c] \notin {"sent", "settle"}
    BY <1>1 DEF Loop, LoopPop, LoopStart, LoopPopFails, LoopIdle, LoopEnds, DequeuePop,
                DequeueShelve, DequeueShelveFails, workerVars, queueVars, jobVars
  <2>3. QED BY <1>s, <2>1, <2>2
<1>2. ASSUME NEW c \in Consumer, Process(c) PROVE AnswerInv'
  <2>1. UNCHANGED <<open, gate, stamp, has>>
    BY <1>2, ProcessIsNotQueue DEF queueVars
  <2>2. \/ UNCHANGED answered
        \/ answered' = answered \cup {has[c].stamp}
    BY <1>2 DEF Process, BeginAttempt, Replay, CacheMiss, Refuse, TakeSlot, WorkFails,
                AttemptFails, FinalTooBig, SendPart, Finish, RetireFails, RetryOrGiveUp,
                NotifyFailure, Answer, history
  <2>3. /\ \A d \in Consumer \ {c} : stage'[d] = stage[d]
        /\ stage'[c] \in {"sent", "settle"} => has[c].stamp \in answered'
    <3>1. CASE BeginAttempt(c) \/ CacheMiss(c) \/ TakeSlot(c) \/ WorkFails(c) \/ RetryOrGiveUp(c)
      BY <3>1 DEF BeginAttempt, CacheMiss, TakeSlot, WorkFails, AttemptFails, RetryOrGiveUp
    <3>2. CASE Replay(c) \/ Refuse(c) \/ FinalTooBig(c) \/ NotifyFailure(c)
      BY <3>2 DEF Replay, Refuse, FinalTooBig, NotifyFailure, Answer
    <3>3. CASE SendPart(c)
      BY <3>3 DEF SendPart, Answer
    <3>4. CASE Finish(c)
      BY <3>4 DEF Finish, history
    <3>5. QED BY <1>2, <3>1, <3>2, <3>3, <3>4 DEF Process, RetireFails
  <2>4. QED BY <1>s, <2>1, <2>2, <2>3
<1>3. ASSUME NEW c \in Consumer, Close(c) PROVE AnswerInv'
  <2>0. UNCHANGED <<gate, stamp, answered>>
    BY <1>3 DEF Close, SettleStep, SettleDone, HandBackRefund, HandBackTake, HandBackDone,
                ReleaseLrem, ReleaseDel, ReleaseReturn, ReleaseFails, RequeueLrem,
                RequeuePush, RequeueFails, queueVars, history
  <2>1. CASE SettleStep(c)
    <3>1. UNCHANGED <<stage, has>> /\ stage[c] = "settle" /\ open' \in {open, open \ {has[c]}}
      BY <2>1 DEF SettleStep, ReleaseLrem, ReleaseDel, jobVars
    <3>2. ASSUME NEW n \in 1..stamp, NEW k \in Key, [key |-> k, stamp |-> n] \in open,
                 [key |-> k, stamp |-> n] \notin open'
          PROVE  n \in answered
      <4>1. [key |-> k, stamp |-> n] = has[c]
        BY <3>1, <3>2
      <4>2. has[c].stamp = n
        BY <4>1
      <4>3. QED BY <3>1, <4>2
    <3>3. SettledAnswered'
      BY <2>0, <3>2 DEF SettledAnswered
    <3>4. QED BY <2>0, <3>1, <3>3
  <2>2. CASE ~SettleStep(c)
    <3>1. UNCHANGED open
      BY <1>3, <2>2 DEF Close, SettleDone, HandBackRefund, HandBackTake, HandBackDone,
                ReleaseReturn, ReleaseFails, RequeueLrem, RequeuePush, RequeueFails, queueVars
    <3>2. /\ \A d \in Consumer \ {c} : stage'[d] = stage[d] /\ has'[d] = has[d]
          /\ stage'[c] \notin {"sent", "settle"}
      BY <1>3, <2>2 DEF Close, SettleDone, HandBackRefund, HandBackTake, HandBackDone,
                JobOver, ReleaseReturn, ReleaseFails, RequeueLrem, RequeuePush, RequeueFails,
                queueVars, jobVars
    <3>3. QED BY <1>s, <2>0, <3>1, <3>2
  <2>3. QED BY <2>1, <2>2
<1>4. ASSUME NEW c \in Consumer, Cancel(c) PROVE AnswerInv'
  BY <1>s, <1>4 DEF Cancel, queueVars, history
<1>5. ASSUME NEW k \in Key, Submit(k) \/ Expire(k) PROVE AnswerInv'
  BY <1>5, AnswerGateway
<1>6. ASSUME NEW l \in Link, GatewayForgets(l) PROVE AnswerInv'
  BY <1>s, <1>6 DEF GatewayForgets, queueVars, jobVars, history
<1>7. CASE StopRequested \/ DayPasses
  BY <1>s, <1>7 DEF StopRequested, DayPasses, queueVars, jobVars, history
<1>8. CASE ProcessStops
  <2>1. /\ gate' = [k \in Key |-> 0] /\ \A k \in Key : gate[k] = 0
        /\ UNCHANGED <<open, stamp, answered>>
        /\ stage' = [c \in Consumer |-> "none"]
    BY <1>8 DEF ProcessStops, Stop, ForgetMemory, ForgetJobs, history
  <2>2. SettledAnswered'
    BY <2>1 DEF SettledAnswered
  <2>3. QED BY <2>1, <2>2
<1>9. CASE ProcessStarts
  BY <1>s, <1>9 DEF ProcessStarts, Boot, Orphans, OrphanPop, OrphanPush, BootDone, jobVars, history
<1>10. CASE UNCHANGED workerVars
  BY <1>s, <1>10 DEF workerVars, queueVars, jobVars, history
<1>11. QED BY <1>1, <1>2, <1>3, <1>4, <1>5, <1>6, <1>7, <1>8, <1>9, <1>10
           DEF WorkerNext, ProcessDies, Crash

\* What holds of the pipeline under every fault.
LEMMA AlwaysTyped == WorkerSpec => [](TypeInv /\ JobInv /\ QuotaInv)
<1>1. WorkerInit => TypeInv /\ JobInv /\ QuotaInv
  BY TypeInit, QuotaAssumption
     DEF WorkerInit, QueueInit, EmptyMemory, IdleJobs, JobInv, AtWork, Place, Stage,
         QuotaInit, QuotaInv, NeverOversold
<1>2. TypeInv /\ JobInv /\ QuotaInv /\ [WorkerNext]_workerVars => (TypeInv /\ JobInv /\ QuotaInv)'
  BY WorkerStepIsQueue, TypeStep, JobStep, QuotaStep
<1>3. QED BY <1>1, <1>2, PTL DEF WorkerSpec

\* A job never ends in silence, whether it is delivered, refused, given up or
\* handed back, and also when it is cancelled, its slot cannot be returned or
\* its claim runs out (process_download_task, _notify_failure).
THEOREM NobodyForgotten == ASSUME Heard PROVE WorkerSpec => []SettledAnswered
<1>1. WorkerInit => AnswerInv
  BY DEF WorkerInit, QueueInit, IdleJobs, AnswerInv, SettledAnswered
<1>2. TypeInv /\ JobInv /\ AnswerInv /\ [WorkerNext]_workerVars => AnswerInv'
  BY AnswerStep
<1>3. AnswerInv => SettledAnswered
  BY DEF AnswerInv
<1>4. QED BY <1>1, <1>2, <1>3, AlwaysTyped, PTL DEF WorkerSpec
-----------------------------------------------------------------------------
(* One file per request. That an attempt about to send has sent nothing    *)
(* before rests on the queue: the request is open, its payload is in one   *)
(* hand, and whoever delivered it is on the way to its release.            *)

\* No fault but a lost refund, and deliveries of one message.
Undisturbed == Faults \subseteq {"db"} /\ Parts = 1

\* A stamp names one request, from its claim on.
StampsApart ==
  /\ \A t \in open : t.stamp <= stamp /\ \A u \in open : u.stamp = t.stamp => u = t
  /\ \A k \in Key : gate[k] # 0 =>
       /\ gate[k] <= stamp
       /\ \A t \in open : t.stamp # gate[k]
       /\ \A j \in Key : gate[j] = gate[k] => j = k

LEMMA StampStep == TypeInv /\ StampsApart /\ [QueueNext]_queueVars => StampsApart'
<1> SUFFICES ASSUME TypeInv, StampsApart, [QueueNext]_queueVars PROVE StampsApart'
  OBVIOUS
<1> USE QueueAssumption DEF TypeInv, QueueTypeOK, StampsApart
<1>0. ASSUME UNCHANGED <<gate, stamp>>, open' \subseteq open PROVE StampsApart'
  BY <1>0
<1>1. ASSUME NEW k \in Key, EnqueueClaim(k) PROVE StampsApart'
  <2>1. /\ gate' = [gate EXCEPT ![k] = stamp + 1] /\ stamp' = stamp + 1 /\ open' = open
        /\ stamp \in Nat /\ \A j \in Key : gate[j] \in Nat
    BY <1>1 DEF EnqueueClaim
  <2>2. \A t \in open : t.stamp \in Nat /\ t.stamp <= stamp
    BY DEF Task
  <2>3. \A t \in open : t.stamp # stamp + 1 /\ t.stamp <= stamp + 1
    BY <2>1, <2>2
  <2>4. \A j \in Key : gate[j] # 0 => gate[j] # stamp + 1 /\ gate[j] <= stamp + 1
    BY <2>1
  <2>5. ASSUME NEW j \in Key, gate'[j] # 0
        PROVE  /\ gate'[j] <= stamp'
               /\ \A t \in open' : t.stamp # gate'[j]
               /\ \A i \in Key : gate'[i] = gate'[j] => i = j
    <3>1. CASE j = k
      <4>1. gate'[j] = stamp + 1
        BY <2>1, <3>1
      <4>2. \A i \in Key \ {k} : gate'[i] # stamp + 1
        BY <2>1, <2>4
      <4>3. QED BY <2>1, <2>3, <3>1, <4>1, <4>2
    <3>2. CASE j # k
      BY <2>1, <2>4, <2>5, <3>2
    <3>3. QED BY <3>1, <3>2
  <2>6. QED BY <2>1, <2>3, <2>5
<1>2. ASSUME NEW k \in Key, EnqueuePush(k) \/ EnqueuePushUnheard(k) PROVE StampsApart'
  <2> DEFINE t == [key |-> k, stamp |-> gate[k]]
  <2>1. /\ gate[k] # 0 /\ gate' = [gate EXCEPT ![k] = 0] /\ stamp' = stamp
        /\ open' = open \cup {t}
    BY <1>2 DEF EnqueuePush, EnqueuePushUnheard, Lands
  <2>2. t.stamp = gate[k]
    OBVIOUS
  <2> HIDE DEF t
  <2>3. QED BY <2>1, <2>2
<1>9. ASSUME NEW t \in unheard, PushRaises(t) PROVE StampsApart'
  BY <1>0, <1>9 DEF PushRaises
<1>3. ASSUME NEW k \in Key, EnqueuePushFails(k) \/ ClaimExpires(k) PROVE StampsApart'
  BY <1>3 DEF EnqueuePushFails, ClaimExpires
<1>4. ASSUME NEW c \in Consumer, Take(c) \/ Settle(c) \/ GiveBack(c) PROVE StampsApart'
  BY <1>0, <1>4 DEF Take, Settle, GiveBack, DequeuePop, DequeueShelve, DequeueShelveFails,
              ReleaseLrem, ReleaseDel, ReleaseReturn, ReleaseFails, RequeueLrem, RequeuePush,
              RequeueFails
<1>5. CASE Crash \/ Stop
  BY <1>5 DEF Crash, Stop, ForgetMemory
<1>6. CASE Boot \/ Orphans
  BY <1>0, <1>6 DEF Boot, Orphans, OrphanPop, OrphanPush, BootDone
<1>7. CASE UNCHANGED queueVars
  BY <1>0, <1>7 DEF queueVars
<1>8. QED BY <1>1, <1>2, <1>3, <1>4, <1>5, <1>6, <1>7, <1>9 DEF QueueNext, Gateway

\* The consumer that sent t's file and has not released it yet.
Delivered(c, t) == at[c] = "holding" /\ has[c] = t /\ stage[c] \in {"sent", "settle"}

DeliveryInv ==
  /\ doubted = {}
  /\ copies \in [1..MaxStamp -> 0..2]
  /\ OneDelivery
  /\ \A n \in 1..MaxStamp : n > stamp => copies[n] = 0
  /\ \A k \in Key : gate[k] # 0 => copies[gate[k]] = 0
  /\ \A t \in open : copies[t.stamp] = 0 \/ \E c \in Consumer : Delivered(c, t)

LEMMA DeliveryQuiet ==
  ASSUME TypeInv, DeliveryInv, UNCHANGED <<copies, gate, stamp, doubted>>, open' \subseteq open,
         \A c \in Consumer : \A t \in open' : Delivered(c, t) => Delivered(c, t)'
  PROVE  DeliveryInv'
BY DEF DeliveryInv, OneDelivery

\* The file of the consumer's request arrives for the first time.
LEMMA FirstArrival ==
  ASSUME TypeInv, IInv, JobInv, StampsApart, DeliveryInv, NEW c \in Consumer,
         stage[c] \in {"lookup", "granted"}, Arrives(c), stage' = [stage EXCEPT ![c] = "sent"],
         UNCHANGED queueVars
  PROVE  DeliveryInv'
<1> DEFINE own == has[c]
<1> USE DEF JobInv, AtWork, TypeInv, QueueTypeOK
<1>1. at[c] = "holding" /\ own \in open /\ own \in Task
  BY DEF IInv, InTheHand, Working, Doubted, DeliveryInv
<1>2. \A d \in Consumer : at[d] = "holding" /\ has[d] = own => d = c
  BY <1>1 DEF IInv, Apart, Working, Doubted, DeliveryInv
<1>3. copies[own.stamp] = 0
  BY <1>1, <1>2 DEF DeliveryInv, Delivered
<1>4. own.stamp \in 1..MaxStamp
  BY <1>1 DEF Task
<1>5. copies' = [copies EXCEPT ![own.stamp] = 1]
  BY <1>3, <1>4 DEF Arrives, DeliveryInv
<1>6. UNCHANGED <<gate, stamp, open, doubted, at, has>>
  BY DEF queueVars
<1>7. /\ copies' \in [1..MaxStamp -> 0..2] /\ OneDelivery'
      /\ \A n \in 1..MaxStamp : n # own.stamp => copies'[n] = copies[n]
  BY <1>4, <1>5 DEF DeliveryInv, OneDelivery
<1>8. own.stamp <= stamp /\ \A k \in Key : gate[k] # 0 => gate[k] # own.stamp
  BY <1>1 DEF StampsApart
<1>9. /\ \A n \in 1..MaxStamp : n > stamp => copies'[n] = 0
      /\ \A k \in Key : gate[k] # 0 => copies'[gate[k]] = 0
  <2>1. \A n \in 1..MaxStamp : n > stamp => n # own.stamp
    BY <1>4, <1>8
  <2>2. \A k \in Key : gate[k] # 0 => gate[k] \in 1..MaxStamp
    BY QueueAssumption
  <2>3. QED BY <1>7, <1>8, <2>1, <2>2 DEF DeliveryInv
<1>10. ASSUME NEW t \in open PROVE copies'[t.stamp] = 0 \/ \E d \in Consumer : Delivered(d, t)'
  <2>1. CASE t = own
    <3>1. Delivered(c, t)'
      BY <1>1, <1>6, <2>1 DEF Delivered
    <3>2. QED BY <3>1
  <2>2. CASE t # own
    <3>1. t.stamp # own.stamp /\ t.stamp \in 1..MaxStamp
      BY <1>1, <2>2 DEF StampsApart, Task
    <3>2. CASE copies[t.stamp] = 0
      BY <1>7, <3>1, <3>2
    <3>3. ASSUME NEW d \in Consumer, Delivered(d, t) PROVE Delivered(d, t)'
      BY <1>6, <3>3 DEF Delivered
    <3>4. QED BY <3>2, <3>3 DEF DeliveryInv
  <2>3. QED BY <2>1, <2>2
<1>11. QED BY <1>6, <1>7, <1>9, <1>10 DEF DeliveryInv

LEMMA DeliveryGateway ==
  ASSUME Undisturbed, TypeInv, DeliveryInv, StampsApart, NEW k \in Key, Submit(k) \/ Expire(k)
  PROVE  DeliveryInv'
<1> USE QueueAssumption DEF TypeInv, QueueTypeOK
<1>0. UNCHANGED <<copies, stage, at, has>>
  BY DEF Submit, Expire, jobVars, history, EnqueueClaim, EnqueuePush, Lands, EnqueuePushFails,
         EnqueuePushUnheard, PushRaises, ClaimExpires
<1>1. ASSUME NEW c \in Consumer, NEW t, Delivered(c, t) PROVE Delivered(c, t)'
  BY <1>0, <1>1 DEF Delivered
<1>2. CASE EnqueueClaim(k)
  <2>1. /\ gate' = [gate EXCEPT ![k] = stamp + 1] /\ stamp' = stamp + 1 /\ open' = open
        /\ doubted' = doubted /\ stamp + 1 \in 1..MaxStamp /\ stamp \in Nat
    BY <1>2 DEF EnqueueClaim
  <2>2. copies[stamp + 1] = 0
    BY <2>1 DEF DeliveryInv
  <2>3. \A j \in Key : gate'[j] # 0 => copies[gate'[j]] = 0
    BY <2>1, <2>2 DEF DeliveryInv
  <2>4. \A n \in 1..MaxStamp : n > stamp' => copies[n] = 0
    BY <2>1 DEF DeliveryInv
  <2>5. QED BY <1>0, <1>1, <2>1, <2>3, <2>4 DEF DeliveryInv, OneDelivery
<1>3. CASE EnqueuePush(k)
  <2> DEFINE t == [key |-> k, stamp |-> gate[k]]
  <2>1. /\ gate[k] # 0 /\ gate' = [gate EXCEPT ![k] = 0] /\ stamp' = stamp
        /\ open' = open \cup {t} /\ doubted' = doubted
    BY <1>3 DEF EnqueuePush, Lands
  <2>2. copies[t.stamp] = 0
    BY <2>1 DEF DeliveryInv
  <2> HIDE DEF t
  <2>3. QED BY <1>0, <1>1, <2>1, <2>2 DEF DeliveryInv, OneDelivery
<1>4. CASE ClaimExpires(k)
  BY <1>1, <1>4, DeliveryQuiet, <1>0 DEF ClaimExpires
<1>5. QED BY <1>2, <1>3, <1>4 DEF Submit, Expire, EnqueuePushFails, EnqueuePushUnheard,
             PushRaises, Undisturbed

LEMMA DeliveryStep ==
  ASSUME Undisturbed, IInv, JobInv, StampsApart, DeliveryInv, [WorkerNext]_workerVars
  PROVE  DeliveryInv'
<1>t. TypeInv
  BY DEF IInv
<1> USE DEF TypeInv, QueueTypeOK, JobInv, AtWork, Stage, Place, Goto, Undisturbed
<1>q. ASSUME NEW c \in Consumer, UNCHANGED <<copies, gate, stamp, doubted>>, open' \subseteq open,
             \A d \in Consumer \ {c} : at'[d] = at[d] /\ has'[d] = has[d] /\ stage'[d] = stage[d],
             \A t \in open' : Delivered(c, t) => Delivered(c, t)'
      PROVE  DeliveryInv'
  <2>1. ASSUME NEW d \in Consumer, NEW t \in open', Delivered(d, t) PROVE Delivered(d, t)'
    BY <1>q, <2>1 DEF Delivered
  <2>2. QED BY <1>t, <1>q, <2>1, DeliveryQuiet
<1>1. ASSUME NEW c \in Consumer, Loop(c) PROVE DeliveryInv'
  <2>1. /\ UNCHANGED <<copies, gate, stamp, open, doubted>> /\ stage[c] = "none"
        /\ \A d \in Consumer \ {c} : at'[d] = at[d] /\ has'[d] = has[d] /\ stage'[d] = stage[d]
    <3>1. CASE LoopPop(c)
      BY <3>1 DEF LoopPop, DequeuePop, history, jobVars
    <3>2. CASE LoopStart(c)
      BY <3>2 DEF LoopStart, DequeueShelve, history
    <3>3. CASE LoopPopFails(c)
      BY <3>3 DEF LoopPopFails, DequeueShelveFails, history
    <3>4. CASE LoopIdle(c)
      BY <3>4 DEF LoopIdle, workerVars, queueVars, history, jobVars
    <3>5. CASE LoopEnds(c)
      BY <3>5 DEF LoopEnds, queueVars, history
    <3>6. QED BY <1>1, <3>1, <3>2, <3>3, <3>4, <3>5 DEF Loop
  <2>2. QED BY <1>q, <2>1 DEF Delivered
<1>2. ASSUME NEW c \in Consumer, Process(c) PROVE DeliveryInv'
  <2>0. UNCHANGED queueVars
    BY <1>2, ProcessIsNotQueue
  <2>1. CASE Replay(c)
    BY <1>t, <2>0, <2>1, FirstArrival DEF Replay
  <2>2. CASE SendPart(c) /\ stage' # stage
    <3>1. stage[c] = "granted" /\ stage' = [stage EXCEPT ![c] = "sent"]
      BY <2>2 DEF SendPart
    <3>2. CASE sent[c] = 0
      BY <1>t, <2>0, <2>2, <3>1, <3>2, FirstArrival DEF SendPart
    <3>3. CASE sent[c] # 0
      <4>1. UNCHANGED copies
        BY <2>2, <3>3 DEF SendPart
      <4>2. QED BY <1>q, <2>0, <3>1, <4>1 DEF Delivered, queueVars
    <3>4. QED BY <3>2, <3>3
  <2>3. CASE SendPart(c) /\ stage' = stage
    <3>1. CASE sent[c] # 0
      BY <1>q, <2>0, <2>3, <3>1 DEF SendPart, Delivered, queueVars
    <3>2. CASE sent[c] = 0
      <4>1. sent[c] + 1 = Parts
        BY <3>2
      <4>2. stage' = [stage EXCEPT ![c] = "sent"] /\ stage[c] = "granted"
        BY <2>3, <4>1 DEF SendPart
      <4>3. QED BY <2>3, <4>2
    <3>3. QED BY <3>1, <3>2
  <2>4. CASE BeginAttempt(c) \/ CacheMiss(c) \/ Refuse(c) \/ TakeSlot(c) \/ WorkFails(c)
               \/ FinalTooBig(c) \/ RetryOrGiveUp(c) \/ NotifyFailure(c)
    <3>1. /\ UNCHANGED copies /\ stage[c] \notin {"sent", "settle"}
          /\ \A d \in Consumer \ {c} : stage'[d] = stage[d]
      BY <2>4 DEF BeginAttempt, CacheMiss, Refuse, TakeSlot, WorkFails, AttemptFails,
                  FinalTooBig, RetryOrGiveUp, NotifyFailure, history
    <3>2. QED BY <1>q, <2>0, <3>1 DEF Delivered, queueVars
  <2>5. CASE Finish(c)
    <3>1. UNCHANGED copies /\ stage' = [stage EXCEPT ![c] = "settle"]
      BY <2>5 DEF Finish, history
    <3>2. QED BY <1>q, <2>0, <3>1 DEF Delivered, queueVars
  <2>6. QED BY <1>2, <2>1, <2>2, <2>3, <2>4, <2>5 DEF Process, RetireFails
<1>3. ASSUME NEW c \in Consumer, Close(c) PROVE DeliveryInv'
  <2>0. UNCHANGED <<gate, stamp, copies, doubted>>
    BY <1>3 DEF Close, SettleStep, SettleDone, HandBackRefund, HandBackTake, HandBackDone,
                ReleaseLrem, ReleaseDel, ReleaseReturn, ReleaseFails, RequeueLrem,
                RequeuePush, RequeueFails, queueVars, history
  <2>1. CASE SettleStep(c)
    <3>1. /\ UNCHANGED stage /\ UNCHANGED has
          /\ \A d \in Consumer \ {c} : at'[d] = at[d]
          /\ \/ at[c] = "holding" /\ open' = open \ {has[c]}
             \/ at[c] = "lremmed" /\ open' = open
      BY <2>1 DEF SettleStep, ReleaseLrem, ReleaseDel, jobVars
    <3>2. \A t \in open' : ~Delivered(c, t)
      BY <3>1 DEF Delivered
    <3>3. QED BY <1>q, <2>0, <3>1, <3>2
  <2>2. CASE SettleDone(c) \/ HandBackRefund(c) \/ HandBackTake(c) \/ HandBackDone(c)
    <3>1. /\ UNCHANGED open
          /\ \A d \in Consumer \ {c} : at'[d] = at[d] /\ has'[d] = has[d] /\ stage'[d] = stage[d]
          /\ at[c] = "holding" => stage[c] = "handback"
      <4>1. CASE SettleDone(c)
        BY <1>t, <4>1 DEF SettleDone, JobOver, ReleaseReturn, ReleaseFails
      <4>2. CASE HandBackRefund(c)
        BY <4>2 DEF HandBackRefund, queueVars
      <4>3. CASE HandBackTake(c)
        BY <4>3 DEF HandBackTake, RequeueLrem, jobVars
      <4>4. CASE HandBackDone(c)
        BY <1>t, <4>4 DEF HandBackDone, JobOver, RequeuePush, RequeueFails
      <4>5. QED BY <2>2, <4>1, <4>2, <4>3, <4>4
    <3>2. QED BY <1>q, <2>0, <3>1 DEF Delivered
  <2>3. QED BY <1>3, <2>1, <2>2 DEF Close
<1>4. ASSUME NEW k \in Key, Submit(k) \/ Expire(k) PROVE DeliveryInv'
  BY <1>t, <1>4, DeliveryGateway
<1>5. ASSUME UNCHANGED <<copies, gate, stamp, open, doubted, at, has, stage>> PROVE DeliveryInv'
  BY <1>t, <1>5, DeliveryQuiet DEF Delivered
<1>6. ASSUME NEW l \in Link, GatewayForgets(l) PROVE DeliveryInv'
  BY <1>5, <1>6 DEF GatewayForgets, queueVars, jobVars, history
<1>7. CASE StopRequested \/ DayPasses \/ ProcessStarts
  BY <1>5, <1>7 DEF StopRequested, DayPasses, ProcessStarts, Boot, Orphans, OrphanPop,
                    OrphanPush, BootDone, queueVars, jobVars, history
<1>8. CASE ProcessStops
  <2>1. /\ \A c \in Consumer : stage[c] = "gone"
        /\ gate' = [k \in Key |-> 0] /\ UNCHANGED <<copies, stamp, open, doubted>>
    BY <1>8 DEF ProcessStops, Stop, ForgetMemory, history
  <2>2. \A t \in open : copies[t.stamp] = 0
    BY <2>1 DEF DeliveryInv, Delivered
  <2>3. QED BY <2>1, <2>2 DEF DeliveryInv, OneDelivery
<1>9. CASE UNCHANGED workerVars
  BY <1>5, <1>9 DEF workerVars, queueVars, jobVars, history
<1>10. QED BY <1>1, <1>2, <1>3, <1>4, <1>6, <1>7, <1>8, <1>9
           DEF WorkerNext, Cancel, ProcessDies, Crash

\* One request, one file: no retry, hand-back or graceful restart sends it a
\* second time (process_download_task, _settle, _requeue_for_shutdown). With an
\* album, a death or a failing card it does (MCRetire).
THEOREM DeliversOnce == ASSUME Undisturbed PROVE WorkerSpec => []OneDelivery
<1>1. WorkerInit => StampsApart /\ DeliveryInv
  BY QueueAssumption DEF WorkerInit, QueueInit, EmptyMemory, StampsApart, DeliveryInv, OneDelivery
<1>a. SteadyClaims
  BY DEF Undisturbed, SteadyClaims
<1>b. QueueSpec => []IInv
  BY <1>a, Invariant
<1>2. WorkerSpec => []IInv
  BY <1>b, WorkerIsQueue, PTL
<1>3. IInv /\ StampsApart /\ [WorkerNext]_workerVars => StampsApart'
  BY StampStep, WorkerStepIsQueue DEF IInv
<1>4. IInv /\ JobInv /\ StampsApart /\ DeliveryInv /\ [WorkerNext]_workerVars => DeliveryInv'
  BY DeliveryStep
<1>5. DeliveryInv => OneDelivery
  BY DEF DeliveryInv
<1>6. QED BY <1>1, <1>2, <1>3, <1>4, <1>5, AlwaysTyped, PTL DEF WorkerSpec
-----------------------------------------------------------------------------
(* The counter against what it counts. Until a first midnight a row owes   *)
(* one for every delivery it was spent on and one for every slot in use;   *)
(* only a lost refund, a death or a cut claim leaves it above that.        *)

Holders(u) == {c \in Consumer : held[c] /\ UserOf(c) = u /\ claimDay[c] = 1}

\* No refund is lost, nobody dies with a slot, no claim is cut short.
Kept == Faults \cap {"db", "crash", "cancel"} = {}

Balanced(u) ==
  /\ row[u].date \in {0, 1}
  /\ row[u].date = 0 => Holders(u) = {} /\ paid[u][1] = 0
  /\ row[u].date = 1 =>
       /\ row[u].used >= paid[u][1] + Cardinality(Holders(u))
       /\ Kept => row[u].used = paid[u][1] + Cardinality(Holders(u))

SlotInv ==
  /\ claimDay \in [Consumer -> 0..MaxDay]
  /\ paid \in [User -> [1..MaxDay -> Nat]]
  /\ \A c \in Consumer : /\ stage[c] = "granted" => held[c]
                         /\ held[c] => claimDay[c] \in 1..today
  /\ today = 1 => \A u \in User : Balanced(u)

LEMMA CountOne ==
  ASSUME IsFiniteSet(Consumer), NEW S \in SUBSET Consumer, NEW c \in Consumer
  PROVE  /\ Cardinality(S) \in Nat
         /\ Cardinality(S \cup {c}) = IF c \in S THEN Cardinality(S) ELSE Cardinality(S) + 1
         /\ Cardinality(S \ {c}) = IF c \in S THEN Cardinality(S) - 1 ELSE Cardinality(S)
<1>1. IsFiniteSet(S)
  BY FS_Subset
<1>2. QED BY <1>1, FS_CardinalityType, FS_AddElement, FS_RemoveElement

\* Who holds a slot changes by at most one consumer's flag.
LEMMA HoldersAdd ==
  ASSUME JobInv, SlotInv, NEW c \in Consumer, ~held[c], held' = [held EXCEPT ![c] = TRUE],
         claimDay' = [claimDay EXCEPT ![c] = 1], UNCHANGED has, NEW u
  PROVE  /\ c \notin Holders(u)
         /\ Holders(u)' = IF u = UserOf(c) THEN Holders(u) \cup {c} ELSE Holders(u)
BY DEF JobInv, SlotInv, Holders, UserOf

LEMMA HoldersRemove ==
  ASSUME JobInv, SlotInv, NEW c \in Consumer, held' = [held EXCEPT ![c] = FALSE],
         \A d \in Consumer \ {c} : claimDay'[d] = claimDay[d], UNCHANGED has, NEW u
  PROVE  Holders(u)' = Holders(u) \ {c}
BY DEF JobInv, SlotInv, Holders, UserOf

\* A step that moves no slot.
LEMMA SlotQuiet ==
  ASSUME SlotInv, UNCHANGED <<quotaVars, paid, claimDay>>,
         \A c \in Consumer : /\ held'[c] = held[c]
                             /\ held[c] => has'[c] = has[c]
                             /\ stage'[c] = "granted" => stage[c] = "granted"
  PROVE  SlotInv'
<1>1. \A u \in User : Holders(u)' = Holders(u)
  BY DEF Holders, UserOf
<1>2. \A u \in User : Balanced(u) => Balanced(u)'
  BY <1>1 DEF Balanced, quotaVars
<1>3. QED BY <1>2 DEF SlotInv, quotaVars

\* A claim puts one slot in the row and one in a consumer's hand.
LEMMA SlotClaimed ==
  ASSUME IsFiniteSet(Consumer), JobInv, QuotaInv, SlotInv, NEW c \in Consumer, TakeSlot(c)
  PROVE  SlotInv'
<1> USE QuotaAssumption
<1>1. /\ held' = [held EXCEPT ![c] = TRUE] /\ claimDay' = [claimDay EXCEPT ![c] = today]
      /\ stage' = [stage EXCEPT ![c] = "granted"] /\ UNCHANGED <<has, paid, today>>
      /\ ClaimSlot(UserOf(c)) /\ ~held[c]
  BY DEF TakeSlot, Goto, queueVars, history, JobInv
<1>2. /\ claimDay' \in [Consumer -> 0..MaxDay]
      /\ \A d \in Consumer : /\ stage'[d] = "granted" => held'[d]
                             /\ held'[d] => claimDay'[d] \in 1..today'
  BY <1>1 DEF SlotInv, JobInv, QuotaInv
<1>3. ASSUME today = 1, NEW u \in User, u # UserOf(c) PROVE Balanced(u)'
  <2>1. Holders(u)' = Holders(u)
    BY <1>1, <1>3, HoldersAdd
  <2>2. row'[u] = row[u]
    BY <1>1, <1>3 DEF ClaimSlot, QuotaInv
  <2>3. QED BY <1>1, <1>3, <2>1, <2>2 DEF Balanced, SlotInv
<1>4. ASSUME today = 1, NEW u \in User, u = UserOf(c) PROVE Balanced(u)'
  <2>1. c \notin Holders(u) /\ Holders(u)' = Holders(u) \cup {c}
    BY <1>1, <1>4, HoldersAdd
  <2>2. Cardinality(Holders(u)) \in Nat /\ Cardinality(Holders(u)') = Cardinality(Holders(u)) + 1
    <3>1. Holders(u) \in SUBSET Consumer
      BY DEF Holders
    <3>2. QED BY <2>1, <3>1, CountOne
  <2>3. Balanced(u) /\ paid[u][1] \in Nat /\ row[u].used \in Nat
    BY <1>4 DEF SlotInv, QuotaInv
  <2>4. row'[u] = [date |-> 1, used |-> IF row[u].date # 1 THEN 1 ELSE row[u].used + 1]
    BY <1>1, <1>4 DEF ClaimSlot, QuotaInv
  <2>5. row'[u].date = 1 /\ row'[u].used = IF row[u].date # 1 THEN 1 ELSE row[u].used + 1
    BY <2>4
  <2>6. CASE row[u].date = 0
    <3>1. Holders(u) = {} /\ paid[u][1] = 0
      BY <2>3, <2>6 DEF Balanced
    <3>2. Cardinality(Holders(u)) = 0
      BY <3>1, FS_EmptySet
    <3>3. QED BY <1>1, <2>2, <2>5, <2>6, <3>1, <3>2 DEF Balanced
  <2>7. CASE row[u].date = 1
    BY <1>1, <2>2, <2>3, <2>5, <2>7 DEF Balanced
  <2>8. QED BY <2>3, <2>6, <2>7 DEF Balanced
<1>5. QED BY <1>1, <1>2, <1>3, <1>4 DEF SlotInv
\* A slot leaves its consumer's hand: the refund of it is in the row, lost, or
\* turned into a delivery.
LEMMA SlotReturned ==
  ASSUME IsFiniteSet(Consumer), JobInv, QuotaInv, QuotaInv', SlotInv, NEW c \in Consumer,
         held[c], held' = [held EXCEPT ![c] = FALSE], claimDay' = [claimDay EXCEPT ![c] = 0],
         \A d \in Consumer : stage'[d] = "granted" => stage[d] = "granted" /\ d # c,
         UNCHANGED <<has, today>>,
         \/ UNCHANGED paid /\ (RefundSlot(UserOf(c)) \/ ("db" \in Faults /\ UNCHANGED row))
         \/ UNCHANGED row /\ paid' = [paid EXCEPT ![UserOf(c)][claimDay[c]] = @ + 1]
  PROVE  SlotInv'
<1> USE QuotaAssumption
<1>1. /\ claimDay' \in [Consumer -> 0..MaxDay]
      /\ \A d \in Consumer : /\ stage'[d] = "granted" => held'[d]
                             /\ held'[d] => claimDay'[d] \in 1..today'
  BY DEF SlotInv, JobInv
<1>2. claimDay[c] \in 1..MaxDay
  BY DEF SlotInv, QuotaInv
<1>3. paid' \in [User -> [1..MaxDay -> Nat]]
  <2>1. CASE UNCHANGED paid
    BY <2>1 DEF SlotInv
  <2>2. CASE paid' = [paid EXCEPT ![UserOf(c)][claimDay[c]] = @ + 1]
    <3>1. ASSUME NEW u \in User PROVE paid'[u] \in [1..MaxDay -> Nat]
      <4>1. paid[u] \in [1..MaxDay -> Nat]
        BY DEF SlotInv
      <4>2. CASE u = UserOf(c)
        <5>1. paid'[u] = [paid[u] EXCEPT ![claimDay[c]] = paid[u][claimDay[c]] + 1]
          BY <2>2, <4>2 DEF SlotInv
        <5>2. QED BY <1>2, <4>1, <5>1
      <4>3. CASE u # UserOf(c)
        BY <2>2, <4>1, <4>3 DEF SlotInv
      <4>4. QED BY <4>2, <4>3
    <3>2. DOMAIN paid' = User /\ paid' = [u \in User |-> paid'[u]]
      BY <2>2 DEF SlotInv
    <3>3. QED BY <3>1, <3>2
  <2>3. QED BY <2>1, <2>2
<1>4. ASSUME today = 1, NEW u \in User, u # UserOf(c) PROVE Balanced(u)'
  <2>1. c \notin Holders(u) /\ Holders(u)' = Holders(u)
    <3>1. c \notin Holders(u)
      BY <1>4 DEF Holders
    <3>2. Holders(u)' = Holders(u) \ {c}
      BY HoldersRemove DEF SlotInv
    <3>3. QED BY <3>1, <3>2
  <2>2. row'[u] = row[u]
    BY <1>4 DEF RefundSlot, QuotaInv
  <2>3. paid'[u] = paid[u]
    BY <1>4 DEF SlotInv
  <2>4. QED BY <1>4, <2>1, <2>2, <2>3 DEF Balanced, SlotInv
<1>5. ASSUME today = 1, NEW u \in User, u = UserOf(c) PROVE Balanced(u)'
  <2> DEFINE n == Cardinality(Holders(u))
  <2>1. claimDay[c] = 1 /\ c \in Holders(u)
    BY <1>5 DEF SlotInv, Holders
  <2>2. Holders(u)' = Holders(u) \ {c}
    BY HoldersRemove DEF SlotInv
  <2>3. n \in Nat /\ Cardinality(Holders(u)') = n - 1
    <3>1. Holders(u) \in SUBSET Consumer
      BY DEF Holders
    <3>2. QED BY <2>1, <2>2, <3>1, CountOne
  <2>4. /\ Balanced(u) /\ row[u].date = 1 /\ n >= 1
    <3>1. Balanced(u) /\ row[u].date = 1
      BY <1>5, <2>1 DEF SlotInv, Balanced
    <3>2. Cardinality(Holders(u)') \in Nat
      <4>1. Holders(u)' \in SUBSET Consumer
        BY <2>2 DEF Holders
      <4>2. QED BY <4>1, CountOne
    <3>3. QED BY <2>3, <3>1, <3>2
  <2> HIDE DEF n
  <2>5. /\ row[u].used \in Nat /\ paid[u][1] \in Nat /\ row[u].used >= paid[u][1] + n
        /\ Kept => row[u].used = paid[u][1] + n
    BY <2>4 DEF SlotInv, QuotaInv, Balanced, n
  <2>6. CASE UNCHANGED paid /\ RefundSlot(UserOf(c))
    <3>1. row'[u].date = 1 /\ row'[u].used = row[u].used - 1
      BY <1>5, <2>3, <2>4, <2>5, <2>6 DEF RefundSlot, Refundable, QuotaInv
    <3>2. QED BY <2>3, <2>5, <2>6, <3>1 DEF Balanced, n
  <2>7. CASE UNCHANGED paid /\ "db" \in Faults /\ UNCHANGED row
    BY <2>3, <2>4, <2>5, <2>7 DEF Balanced, Kept, n
  <2>8. CASE UNCHANGED row /\ paid' = [paid EXCEPT ![UserOf(c)][claimDay[c]] = @ + 1]
    <3>1. paid'[u][1] = paid[u][1] + 1
      BY <1>5, <2>1, <2>8 DEF SlotInv
    <3>2. QED BY <2>3, <2>4, <2>5, <2>8, <3>1 DEF Balanced, n
  <2>9. QED BY <2>6, <2>7, <2>8
<1>6. QED BY <1>1, <1>3, <1>4, <1>5 DEF SlotInv

LEMMA SlotRefund ==
  ASSUME IsFiniteSet(Consumer), JobInv, QuotaInv, QuotaInv', SlotInv, NEW c \in Consumer,
         Refund(c), UNCHANGED <<has, paid>>,
         \A d \in Consumer : stage'[d] = "granted" => stage[d] = "granted" /\ d # c
  PROVE  SlotInv'
<1>1. /\ held' = [held EXCEPT ![c] = FALSE] /\ claimDay' = [claimDay EXCEPT ![c] = 0]
      /\ UNCHANGED today
  BY DEF Refund
<1>2. CASE held[c]
  BY <1>1, <1>2, SlotReturned DEF Refund
<1>3. CASE ~held[c]
  <2>1. UNCHANGED row /\ \A d \in Consumer : held'[d] = held[d]
    <3>1. UNCHANGED row
      BY <1>3 DEF Refund
    <3>2. ASSUME NEW d \in Consumer PROVE held'[d] = held[d]
      <4>1. CASE d = c
        <5>1. held[c] = FALSE /\ held'[c] = FALSE
          BY <1>1, <1>3 DEF JobInv
        <5>2. QED BY <4>1, <5>1
      <4>2. CASE d # c
        BY <1>1, <4>2 DEF JobInv
      <4>3. QED BY <4>1, <4>2
    <3>3. QED BY <3>1, <3>2
  <2>2. \A d \in Consumer : held[d] => claimDay'[d] = claimDay[d]
    BY <1>1, <1>3 DEF SlotInv
  <2>3. \A u \in User : Holders(u)' = Holders(u)
    BY <2>1, <2>2 DEF Holders, UserOf
  <2>4. \A u \in User : Balanced(u) => Balanced(u)'
    BY <2>1, <2>3 DEF Balanced
  <2>5. claimDay' \in [Consumer -> 0..MaxDay]
    BY <1>1, QuotaAssumption DEF SlotInv
  <2>6. QED BY <1>1, <2>1, <2>2, <2>4, <2>5 DEF SlotInv
<1>4. QED BY <1>2, <1>3

\* Memory is gone, and with it every slot in use.
LEMMA SlotsForgotten ==
  ASSUME IsFiniteSet(Consumer), QuotaInv, SlotInv, ForgetJobs, UNCHANGED <<quotaVars, paid>>,
         Kept => \A c \in Consumer : ~held[c]
  PROVE  SlotInv'
<1>1. \A u \in User : Holders(u)' = {}
  BY DEF ForgetJobs, Holders
<1>2. Cardinality({}) = 0
  BY FS_EmptySet
<1>3. ASSUME today = 1, NEW u \in User PROVE Balanced(u)'
  <2>1. Cardinality(Holders(u)) \in Nat
    <3>1. Holders(u) \in SUBSET Consumer
      BY DEF Holders
    <3>2. QED BY <3>1, FS_Subset, FS_CardinalityType
  <2>2. Kept => Holders(u) = {}
    BY DEF Holders
  <2>3. Balanced(u) /\ row[u].used \in Nat /\ paid[u][1] \in Nat
    BY <1>3, QuotaAssumption DEF SlotInv, QuotaInv
  <2>4. Cardinality(Holders(u)') = 0 /\ Holders(u)' = {} /\ (Kept => Cardinality(Holders(u)) = 0)
    BY <1>1, <1>2, <2>2
  <2>5. QED BY <2>1, <2>3, <2>4 DEF Balanced, quotaVars
<1>4. QED BY <1>3, QuotaAssumption DEF SlotInv, ForgetJobs, quotaVars
\* A claim statement cut off by a cancel: the row counts it, nobody holds it.
LEMMA SlotCut ==
  ASSUME IsFiniteSet(Consumer), QuotaInv, SlotInv, NEW u, ClaimSlot(u), "cancel" \in Faults,
         UNCHANGED <<today, paid, held, has, claimDay>>,
         \A c \in Consumer : stage'[c] = "granted" => stage[c] = "granted"
  PROVE  SlotInv'
<1>1. \A v \in User : Holders(v)' = Holders(v)
  BY DEF Holders, UserOf
<1>2. ASSUME today = 1, NEW v \in User PROVE Balanced(v)'
  <2>1. Cardinality(Holders(v)) \in Nat
    <3>1. Holders(v) \in SUBSET Consumer
      BY DEF Holders
    <3>2. QED BY <3>1, FS_Subset, FS_CardinalityType
  <2>2. Balanced(v) /\ row[v].used \in Nat /\ paid[v][1] \in Nat /\ ~Kept
    BY <1>2, QuotaAssumption DEF SlotInv, QuotaInv, Kept
  <2>3. CASE v # u
    <3>1. row'[v] = row[v]
      BY <2>3 DEF ClaimSlot, QuotaInv
    <3>2. QED BY <1>1, <1>2, <2>2, <3>1 DEF Balanced
  <2>4. CASE v = u
    <3>1. row'[v] = [date |-> 1, used |-> IF row[v].date # 1 THEN 1 ELSE row[v].used + 1]
      BY <1>2, <2>4 DEF ClaimSlot, QuotaInv
    <3>2. row'[v].date = 1 /\ row'[v].used = IF row[v].date # 1 THEN 1 ELSE row[v].used + 1
      BY <3>1
    <3>3. CASE row[v].date = 0
      <4>1. Holders(v)' = {} /\ paid'[v][1] = 0
        BY <1>1, <2>2, <3>3 DEF Balanced
      <4>2. Cardinality(Holders(v)') = 0
        BY <4>1, FS_EmptySet
      <4>3. QED BY <2>2, <3>2, <3>3, <4>1, <4>2 DEF Balanced
    <3>4. CASE row[v].date = 1
      BY <1>1, <2>1, <2>2, <3>2, <3>4 DEF Balanced
    <3>5. QED BY <2>2, <3>3, <3>4 DEF Balanced
  <2>5. QED BY <2>3, <2>4
<1>3. QED BY <1>2 DEF SlotInv

LEMMA SlotStep ==
  ASSUME IsFiniteSet(Consumer), TypeInv, JobInv, QuotaInv, QuotaInv', SlotInv,
         [WorkerNext]_workerVars
  PROVE  SlotInv'
<1> USE DEF Goto, TypeInv, QueueTypeOK
<1>1. ASSUME NEW c \in Consumer, Loop(c) PROVE SlotInv'
  <2>1. UNCHANGED <<quotaVars, held, claimDay, paid>>
    BY <1>1 DEF Loop, LoopPop, LoopStart, LoopPopFails, LoopIdle, LoopEnds, workerVars,
                jobVars, history
  <2>2. ~held[c]
    BY <1>1 DEF JobInv, Loop, LoopPop, LoopStart, LoopPopFails, LoopIdle, LoopEnds
  <2>3. /\ \A d \in Consumer \ {c} : has'[d] = has[d]
        /\ \A d \in Consumer : stage'[d] = "granted" => stage[d] = "granted"
    BY <1>1 DEF JobInv, Stage, Loop, LoopPop, LoopStart, LoopPopFails, LoopIdle, LoopEnds,
                DequeuePop, DequeueShelve, DequeueShelveFails, workerVars, queueVars, jobVars
  <2>4. QED BY <2>1, <2>2, <2>3, SlotQuiet
<1>2. ASSUME NEW c \in Consumer, Process(c) PROVE SlotInv'
  <2>0. UNCHANGED has
    BY <1>2, ProcessIsNotQueue DEF queueVars
  <2>1. CASE TakeSlot(c)
    BY <2>1, SlotClaimed
  <2>2. CASE WorkFails(c) \/ FinalTooBig(c)
    <3>1. /\ Refund(c) /\ UNCHANGED paid
          /\ \A d \in Consumer : stage'[d] = "granted" => stage[d] = "granted" /\ d # c
      BY <2>2 DEF WorkFails, AttemptFails, FinalTooBig, history, JobInv
    <3>2. QED BY <2>0, <3>1, SlotRefund
  <2>3. CASE SendPart(c) /\ sent[c] + 1 = Parts
    <3>1. /\ held' = [held EXCEPT ![c] = FALSE] /\ claimDay' = [claimDay EXCEPT ![c] = 0]
          /\ paid' = [paid EXCEPT ![UserOf(c)][claimDay[c]] = @ + 1] /\ UNCHANGED quotaVars
          /\ stage[c] = "granted" /\ stage' = [stage EXCEPT ![c] = "sent"]
      BY <2>3 DEF SendPart
    <3>2. held[c] /\ \A d \in Consumer : stage'[d] = "granted" => stage[d] = "granted" /\ d # c
      BY <3>1 DEF SlotInv, JobInv
    <3>3. QED BY <2>0, <3>1, <3>2, SlotReturned DEF quotaVars
  <2>4. CASE SendPart(c) /\ sent[c] + 1 # Parts
    BY <2>0, <2>4, SlotQuiet DEF SendPart
  <2>5. CASE Replay(c) \/ CacheMiss(c) \/ Refuse(c) \/ Finish(c) \/ RetireFails(c)
              \/ NotifyFailure(c) \/ BeginAttempt(c) \/ RetryOrGiveUp(c)
    <3>1. /\ UNCHANGED <<quotaVars, held, claimDay, paid>>
          /\ \A d \in Consumer : stage'[d] = "granted" => stage[d] = "granted"
      BY <2>5 DEF Replay, CacheMiss, Refuse, Finish, RetireFails, NotifyFailure,
                  BeginAttempt, RetryOrGiveUp, history, JobInv
    <3>2. QED BY <2>0, <3>1, SlotQuiet
  <2>6. QED BY <1>2, <2>1, <2>2, <2>3, <2>4, <2>5 DEF Process
<1>3. ASSUME NEW c \in Consumer, Close(c) PROVE SlotInv'
  <2>1. CASE HandBackRefund(c)
    <3>1. /\ Refund(c) /\ UNCHANGED <<has, paid, stage>> /\ stage[c] = "handback"
      BY <2>1 DEF HandBackRefund, queueVars, history
    <3>2. QED BY <3>1, SlotRefund
  <2>2. CASE SettleStep(c) \/ SettleDone(c) \/ HandBackTake(c) \/ HandBackDone(c)
    <3>1. /\ UNCHANGED <<quotaVars, held, claimDay, paid>> /\ ~held[c]
          /\ \A d \in Consumer \ {c} : has'[d] = has[d]
          /\ \A d \in Consumer : stage'[d] = "granted" => stage[d] = "granted"
      <4>1. CASE SettleStep(c)
        BY <4>1 DEF SettleStep, ReleaseLrem, ReleaseDel, jobVars, history, JobInv
      <4>2. CASE SettleDone(c)
        BY <4>2 DEF SettleDone, ReleaseReturn, ReleaseFails, JobOver, history, JobInv
      <4>3. CASE HandBackTake(c)
        BY <4>3 DEF HandBackTake, RequeueLrem, jobVars, history
      <4>4. CASE HandBackDone(c)
        BY <4>4 DEF HandBackDone, RequeuePush, RequeueFails, JobOver, history, JobInv
      <4>5. QED BY <2>2, <4>1, <4>2, <4>3, <4>4
    <3>2. QED BY <3>1, SlotQuiet
  <2>3. QED BY <1>3, <2>1, <2>2 DEF Close
<1>4. ASSUME NEW c \in Consumer, Cancel(c) PROVE SlotInv'
  <2>1. /\ UNCHANGED <<today, held, claimDay, paid, has>> /\ "cancel" \in Faults
        /\ \A d \in Consumer : stage'[d] = "granted" => stage[d] = "granted"
        /\ UNCHANGED row \/ ClaimSlot(UserOf(c))
    BY <1>4 DEF Cancel, queueVars, history, JobInv
  <2>2. CASE UNCHANGED row
    BY <2>1, <2>2, SlotQuiet DEF quotaVars
  <2>3. CASE ClaimSlot(UserOf(c))
    BY <2>1, <2>3, SlotCut
  <2>4. QED BY <2>1, <2>2, <2>3
<1>5. ASSUME UNCHANGED <<quotaVars, held, claimDay, paid, has, stage>> PROVE SlotInv'
  BY <1>5, SlotQuiet
<1>6. ASSUME NEW k \in Key, Submit(k) \/ Expire(k) PROVE SlotInv'
  BY <1>5, <1>6 DEF Submit, Expire, EnqueueClaim, EnqueuePush, Lands, EnqueuePushFails,
                    EnqueuePushUnheard, PushRaises, ClaimExpires, jobVars, history
<1>7. ASSUME NEW l \in Link, GatewayForgets(l) PROVE SlotInv'
  BY <1>5, <1>7 DEF GatewayForgets, queueVars, jobVars, history
<1>8. CASE StopRequested
  BY <1>5, <1>8 DEF StopRequested, queueVars, jobVars, history
<1>9. CASE ProcessStops \/ ProcessDies
  <2>1. ForgetJobs /\ UNCHANGED <<quotaVars, paid>>
    BY <1>9 DEF ProcessStops, ProcessDies, history
  <2>2. Kept => \A c \in Consumer : ~held[c]
    BY <1>9 DEF ProcessStops, ProcessDies, Crash, Kept, JobInv
  <2>3. QED BY <2>1, <2>2, SlotsForgotten
<1>10. CASE ProcessStarts
  BY <1>5, <1>10 DEF ProcessStarts, Boot, Orphans, OrphanPop, OrphanPush, BootDone, jobVars, history
<1>11. CASE DayPasses
  <2>1. /\ today' = today + 1 /\ today \in 1..MaxDay /\ UNCHANGED <<stage, held, claimDay, paid>>
    BY <1>11 DEF DayPasses, Midnight, QuotaInv, jobVars, history
  <2>2. today' # 1 /\ \A n \in 1..today : n \in 1..today'
    BY <2>1, QuotaAssumption
  <2>3. QED BY <2>1, <2>2 DEF SlotInv
<1>12. CASE UNCHANGED workerVars
  BY <1>5, <1>12 DEF workerVars, queueVars, jobVars, history
<1>13. QED BY <1>1, <1>2, <1>3, <1>4, <1>6, <1>7, <1>8, <1>9, <1>10, <1>11, <1>12 DEF WorkerNext

LEMMA AlwaysBalanced == ASSUME IsFiniteSet(Consumer) PROVE WorkerSpec => []SlotInv
<1>1. WorkerInit => SlotInv
  <2> SUFFICES ASSUME WorkerInit PROVE SlotInv
    OBVIOUS
  <2>1. ASSUME NEW u \in User PROVE Balanced(u)
    BY QuotaAssumption DEF WorkerInit, QuotaInit, IdleJobs, Holders, Balanced
  <2>2. QED BY <2>1, QuotaAssumption DEF WorkerInit, QuotaInit, IdleJobs, SlotInv
<1>2. TypeInv /\ JobInv /\ QuotaInv /\ QuotaInv' /\ SlotInv /\ [WorkerNext]_workerVars => SlotInv'
  BY SlotStep
<1>3. QED BY <1>1, <1>2, AlwaysTyped, PTL DEF WorkerSpec

\* What the properties count is what Holders names.
LEMMA HeldIsHolders == ASSUME NEW u PROVE HeldOn(u, 1) = Cardinality(Holders(u))
BY DEF HeldOn, Holders

\* A finished delivery stays paid and a slot in use stays counted, whatever
\* fails and whoever is cancelled or dies (_refund_quota).
THEOREM CoveredSlots == ASSUME IsFiniteSet(Consumer) PROVE WorkerSpec => []SlotsCovered
<1>1. SlotInv => SlotsCovered
  BY HeldIsHolders DEF SlotInv, SlotsCovered, Balanced
<1>2. QED BY <1>1, AlwaysBalanced, PTL

\* With nothing lost on the way the counter is exact: no path out of an attempt
\* or into a restart keeps or returns one slot too many (_refund_quota,
\* _requeue_for_shutdown).
THEOREM ExactSlots == ASSUME IsFiniteSet(Consumer), Kept PROVE WorkerSpec => []SlotsExact
<1>1. SlotInv => SlotsExact
  BY HeldIsHolders DEF SlotInv, SlotsExact, Balanced
<1>2. QED BY <1>1, AlwaysBalanced, PTL
-----------------------------------------------------------------------------
(* Types. An attempt starts with nothing sent, and the parts it has sent   *)
(* are fewer than the delivery takes until the last one ends it.           *)

BookInv ==
  /\ tries \in [Consumer -> 0..MaxAttempts]
  /\ sent \in [Consumer -> 0..Parts]
  /\ \A c \in Consumer :
       /\ stage[c] \in {"none", "attempt", "lookup", "missed", "retrying"} => sent[c] = 0
       /\ stage[c] = "granted" => sent[c] < Parts
  /\ cached \subseteq Link
  /\ stop \in BOOLEAN
  /\ stops \in 0..MaxStops
  /\ copies \in [1..MaxStamp -> 0..2]
  /\ answered \subseteq 1..MaxStamp

LEMMA BookProcess ==
  ASSUME TypeInv, JobInv, BookInv, NEW c \in Consumer, Process(c)
  PROVE  BookInv'
<1> USE WorkerAssumption DEF BookInv, Goto
<1>1. ASSUME stage[c] \in AtWork
      PROVE  has[c] \in Task /\ has[c].stamp \in 1..MaxStamp /\ LinkAt(c) \in Link
  <2>1. has[c] \in Task
    BY <1>1 DEF JobInv, TypeInv
  <2>2. QED BY <2>1 DEF Task, LinkAt
<1>2. stage \in [Consumer -> Stage] /\ stage[c] \in AtWork
  BY DEF JobInv, AtWork, Process, BeginAttempt, Replay, CacheMiss, Refuse, TakeSlot, WorkFails,
         FinalTooBig, SendPart, Finish, RetireFails, RetryOrGiveUp, NotifyFailure
<1>3. answered' \subseteq 1..MaxStamp
  BY <1>1, <1>2 DEF Process, BeginAttempt, Replay, CacheMiss, Refuse, TakeSlot, WorkFails,
         AttemptFails, FinalTooBig, SendPart, Finish, RetireFails, RetryOrGiveUp,
         NotifyFailure, Answer, history
<1>4. copies' \in [1..MaxStamp -> 0..2]
  <2>1. UNCHANGED copies \/ Arrives(c)
    BY DEF Process, BeginAttempt, Replay, CacheMiss, Refuse, TakeSlot, WorkFails,
         AttemptFails, FinalTooBig, SendPart, Finish, RetireFails, RetryOrGiveUp,
         NotifyFailure, history
  <2>2. CASE Arrives(c)
    <3>1. copies' = [copies EXCEPT ![has[c].stamp] =
                       IF copies[has[c].stamp] = 2 THEN 2 ELSE copies[has[c].stamp] + 1]
      BY <2>2 DEF Arrives
    <3>2. copies[has[c].stamp] \in 0..2
      BY <1>1, <1>2
    <3>3. (IF copies[has[c].stamp] = 2 THEN 2 ELSE copies[has[c].stamp] + 1) \in 0..2
      BY <3>2
    <3>4. QED BY <3>1, <3>3
  <2>3. QED BY <2>1, <2>2
<1>5. cached' \subseteq Link
  BY <1>1, <1>2 DEF Process, BeginAttempt, Replay, CacheMiss, Refuse, TakeSlot, WorkFails,
         AttemptFails, FinalTooBig, SendPart, Finish, RetireFails, RetryOrGiveUp,
         NotifyFailure, Memorized
<1>6. UNCHANGED <<stop, stops>>
  BY DEF Process, BeginAttempt, Replay, CacheMiss, Refuse, TakeSlot, WorkFails,
         AttemptFails, FinalTooBig, SendPart, Finish, RetireFails, RetryOrGiveUp,
         NotifyFailure
<1>7. /\ tries' \in [Consumer -> 0..MaxAttempts]
      /\ sent' \in [Consumer -> 0..Parts]
      /\ \A d \in Consumer :
           /\ stage'[d] \in {"none", "attempt", "lookup", "missed", "retrying"} => sent'[d] = 0
           /\ stage'[d] = "granted" => sent'[d] < Parts
  <2>1. CASE BeginAttempt(c) \/ Replay(c) \/ CacheMiss(c) \/ Refuse(c) \/ TakeSlot(c)
               \/ Finish(c) \/ NotifyFailure(c)
    BY <1>2, <2>1 DEF BeginAttempt, Replay, CacheMiss, Refuse, TakeSlot, Finish, NotifyFailure
  <2>2. CASE WorkFails(c) \/ RetireFails(c) \/ FinalTooBig(c)
    BY <1>2, <2>2 DEF WorkFails, AttemptFails, RetireFails, FinalTooBig
  <2>3. CASE SendPart(c)
    BY <1>2, <2>3 DEF SendPart
  <2>4. CASE RetryOrGiveUp(c)
    BY <1>2, <2>4 DEF RetryOrGiveUp
  <2>5. QED BY <2>1, <2>2, <2>3, <2>4 DEF Process
<1>8. QED BY <1>3, <1>4, <1>5, <1>6, <1>7

LEMMA BookStep ==
  ASSUME TypeInv, JobInv, BookInv, [WorkerNext]_workerVars
  PROVE  BookInv'
<1> USE WorkerAssumption DEF BookInv, Goto
<1>0. stage \in [Consumer -> Stage]
  BY DEF JobInv
<1>1. ASSUME NEW c \in Consumer, Loop(c) PROVE BookInv'
  <2>1. UNCHANGED <<sent, cached, stop, stops, copies, answered>>
    BY <1>1 DEF Loop, LoopPop, LoopStart, LoopPopFails, LoopIdle, LoopEnds, workerVars,
                jobVars, history
  <2>2. /\ tries' \in [Consumer -> 0..MaxAttempts] /\ stage[c] = "none"
        /\ \A d \in Consumer \ {c} : stage'[d] = stage[d]
        /\ stage'[c] \in {"none", "attempt", "gone"}
    <3>1. CASE LoopStart(c)
      <4>1. 1 \in 0..MaxAttempts
        OBVIOUS
      <4>2. QED BY <1>0, <3>1, <4>1 DEF LoopStart
    <3>2. CASE LoopPop(c) \/ LoopPopFails(c) \/ LoopIdle(c) \/ LoopEnds(c)
      BY <1>0, <3>2 DEF LoopPop, LoopPopFails, LoopIdle, LoopEnds, workerVars, jobVars
    <3>3. QED BY <1>1, <3>1, <3>2 DEF Loop
  <2>3. QED BY <2>1, <2>2
<1>2. ASSUME NEW c \in Consumer, Process(c) PROVE BookInv'
  BY <1>2, BookProcess
<1>3. ASSUME NEW c \in Consumer, Close(c) PROVE BookInv'
  <2>1. UNCHANGED <<cached, stop, stops, copies, answered>>
    BY <1>3 DEF Close, SettleStep, SettleDone, HandBackRefund, HandBackTake, HandBackDone, history
  <2>2. CASE SettleStep(c) \/ HandBackRefund(c) \/ HandBackTake(c)
    BY <2>1, <2>2 DEF SettleStep, HandBackRefund, HandBackTake, jobVars
  <2>3. CASE SettleDone(c) \/ HandBackDone(c)
    <3>1. /\ tries' = [tries EXCEPT ![c] = 0] /\ sent' = [sent EXCEPT ![c] = 0]
          /\ \A d \in Consumer \ {c} : stage'[d] = stage[d]
          /\ stage'[c] \in {"gone", "none"}
      BY <1>0, <2>3 DEF SettleDone, HandBackDone, JobOver
    <3>2. 0 \in 0..MaxAttempts /\ 0 \in 0..Parts
      OBVIOUS
    <3>3. QED BY <2>1, <3>1, <3>2
  <2>4. QED BY <1>3, <2>2, <2>3 DEF Close
<1>4. ASSUME NEW c \in Consumer, Cancel(c) PROVE BookInv'
  BY <1>0, <1>4 DEF Cancel, history
<1>5. ASSUME NEW k \in Key, Submit(k) \/ Expire(k) PROVE BookInv'
  BY <1>5 DEF Submit, Expire, jobVars, history
<1>6. ASSUME NEW l \in Link, GatewayForgets(l) PROVE BookInv'
  BY <1>6 DEF GatewayForgets, jobVars, history
<1>7. CASE StopRequested \/ ProcessStarts \/ DayPasses
  <2>1. /\ UNCHANGED <<stage, tries, sent, cached, copies, answered>>
        /\ stop' \in BOOLEAN /\ stops' \in 0..MaxStops
    <3>1. CASE StopRequested
      <4>1. stops' = stops + 1 /\ stops < MaxStops /\ stops \in 0..MaxStops /\ stop' = TRUE
        BY <3>1 DEF StopRequested
      <4>2. stops' \in 0..MaxStops
        BY <4>1
      <4>3. QED BY <3>1, <4>1, <4>2 DEF StopRequested, jobVars, history
    <3>2. CASE ProcessStarts \/ DayPasses
      BY <3>2 DEF ProcessStarts, DayPasses, jobVars, history
    <3>3. QED BY <1>7, <3>1, <3>2
  <2>2. QED BY <2>1
<1>8. CASE ProcessStops \/ ProcessDies
  <2>1. /\ tries' = [c \in Consumer |-> 0] /\ sent' = [c \in Consumer |-> 0]
        /\ stage' = [c \in Consumer |-> "none"] /\ stop' = FALSE
        /\ UNCHANGED <<cached, stops, copies, answered>>
    BY <1>8 DEF ProcessStops, ProcessDies, ForgetJobs, history
  <2>2. 0 \in 0..MaxAttempts /\ 0 \in 0..Parts
    OBVIOUS
  <2>3. QED BY <2>1, <2>2
<1>9. CASE UNCHANGED workerVars
  BY <1>9 DEF workerVars, jobVars, history
<1>10. QED BY <1>1, <1>2, <1>3, <1>4, <1>5, <1>6, <1>7, <1>8, <1>9 DEF WorkerNext

\* The worker's bookkeeping stays in range under every fault: no attempt past
\* MAX_ATTEMPTS (_process_with_retry), no part past the last one.
THEOREM WorkerTypes == ASSUME IsFiniteSet(Consumer) PROVE WorkerSpec => []WorkerTypeOK
<1>1. WorkerInit => BookInv
  <2> SUFFICES ASSUME WorkerInit PROVE BookInv
    OBVIOUS
  <2>1. /\ tries = [c \in Consumer |-> 0] /\ sent = [c \in Consumer |-> 0]
        /\ stage = [c \in Consumer |-> "none"] /\ cached \in SUBSET Link /\ stop = FALSE
        /\ stops = 0 /\ copies = [n \in 1..MaxStamp |-> 0] /\ answered = {}
    BY DEF WorkerInit, IdleJobs
  <2>2. 0 \in 0..MaxAttempts /\ 0 \in 0..Parts /\ 0 \in 0..MaxStops /\ 0 \in 0..2
    BY WorkerAssumption
  <2>3. QED BY <2>1, <2>2 DEF BookInv
<1>2. TypeInv /\ JobInv /\ BookInv /\ [WorkerNext]_workerVars => BookInv'
  BY BookStep
<1>3. TypeInv /\ JobInv /\ QuotaInv /\ SlotInv /\ BookInv => WorkerTypeOK
  BY DEF TypeInv, JobInv, QuotaInv, SlotInv, BookInv, WorkerTypeOK, QuotaTypeOK
<1>4. QED BY <1>1, <1>2, <1>3, AlwaysTyped, AlwaysBalanced, PTL DEF WorkerSpec

-----------------------------------------------------------------------------
(* The pipeline beside the texts (MCLive).                                  *)

\* The run of the liveness properties is one of the pipeline and one of the
\* texts: what is proved of WorkerSpec and of TextSpec holds of it.
THEOREM LiveIsParts == BothSpec => WorkerSpec /\ TextSpec
<1>1. BothInit => WorkerInit /\ TextInit
  BY DEF BothInit
<1>2. [BothNext]_<<live, workerVars, textVars>> => [WorkerNext]_workerVars
  BY DEF BothNext, WorkersOnly, TextsOnly
<1>3. [BothNext]_<<live, workerVars, textVars>> => [TextNext]_textVars
  BY DEF BothNext, WorkersOnly, TextsOnly
<1>4. QED BY <1>1, <1>2, <1>3, PTL DEF BothSpec, WorkerSpec, TextSpec

-----------------------------------------------------------------------------
(* The texts (TextSync): the types, with the counter below the edits that   *)
(* are in the table.                                                        *)

\* TextTypeOK, with no bound on the counter.
TextTyped ==
  /\ table \in Texts
  /\ counter \in Nat
  /\ shown \in [Replica -> Texts]
  /\ version \in [Replica -> Versions]
  /\ aged \in [Replica -> BOOLEAN]
  /\ syncing \in [Replica -> SUBSET Syncs]
  /\ editing \in [EditId -> Edits]
  /\ edits \in 0..MaxEdits /\ loads \in 0..MaxLoads /\ lost \in BOOLEAN

\* Every INCR belongs to an edit of the table, which came first; the edits to
\* come have touched nothing.
CounterBehind ==
  /\ IsFiniteSet(Unpublished)
  /\ counter + Cardinality(Unpublished) <= edits
  /\ \A n \in EditId : n > edits => n \notin Unpublished

\* An edit or a restore begins in process p.
Begins(p) == RestoreTable(p) \/ \E k \in TextKey, v \in TextRows : EditTable(p, k, v)

\* A step of sync in process p.
Syncing(p) == SyncMoved(p) \/ SyncAged(p) \/ Fetch(p) \/ Reload(p) \/ Age(p)

LEMMA TextSteps ==
  ASSUME [TextNext]_textVars
  PROVE  \/ UNCHANGED textVars
         \/ \E p \in Replica : Syncing(p) \/ Begins(p)
         \/ \E n \in EditId : EditStep(n)
BY DEF TextNext, Syncing, Begins

LEMMA NoEditTyped == NoEdit \in Edits /\ Default \in Texts
<1>1. Default \in Texts
  BY DEF Default, Texts, TextRows
<1>2. (CHOOSE k \in TextKey : TRUE) \in TextKey /\ (CHOOSE p \in Replica : TRUE) \in Replica
  BY TextAssumption
<1>3. QED BY <1>1, <1>2 DEF NoEdit, Edits, Versions, TextRows

LEMMA TextTypedStart == TextInit => TextTyped /\ CounterBehind
<1> SUFFICES ASSUME TextInit PROVE TextTyped /\ CounterBehind
  OBVIOUS
<1>1. Unpublished = {}
  BY DEF TextInit, Unpublished, NoEdit
<1>2. CounterBehind
  BY <1>1, FS_EmptySet DEF CounterBehind, TextInit
<1>3. TextTyped
  <2>1. 0 \in 0..MaxEdits /\ 0 \in 0..MaxLoads
    BY TextAssumption
  <2>2. NoVersion \in Versions
    BY DEF Versions
  <2>3. shown \in [Replica -> Texts] /\ editing \in [EditId -> Edits]
    BY NoEditTyped DEF TextInit
  <2>4. QED BY NoEditTyped, <2>1, <2>2, <2>3 DEF TextTyped, TextInit
<1>4. QED BY <1>2, <1>3

\* A call of sync begins.
LEMMA StartTyped ==
  ASSUME TextTyped, NEW p \in Replica, NEW seen \in Versions, SyncStarts(p, seen)
  PROVE  TextTyped'
<1>1. [at |-> "load", seen |-> seen, rows |-> Default] \in Syncs
  BY NoEditTyped DEF Syncs
<1>2. syncing' \in [Replica -> SUBSET Syncs]
  BY <1>1 DEF SyncStarts, TextTyped
<1>3. QED BY <1>2 DEF SyncStarts, TextTyped

\* The steps of sync keep the types.
LEMMA SyncTyped == ASSUME TextTyped, NEW p \in Replica, Syncing(p) PROVE TextTyped'
<1> USE DEF TextTyped
<1>1. CASE SyncMoved(p) \/ SyncAged(p)
  <2>1. counter \in Versions /\ NoVersion \in Versions
    BY DEF Versions
  <2>2. QED BY <1>1, <2>1, StartTyped DEF SyncMoved, SyncAged
<1>2. ASSUME NEW s \in syncing[p], SyncLoad(p, s) PROVE TextTyped'
  <2>0. s \in Syncs
    OBVIOUS
  <2>1. [s EXCEPT !.at = "apply", !.rows = table] \in Syncs
    BY <2>0 DEF Syncs
  <2>2. syncing' \in [Replica -> SUBSET Syncs]
    BY <1>2, <2>1 DEF SyncLoad
  <2>3. QED BY <1>2, <2>2 DEF SyncLoad
<1>3. ASSUME NEW s \in syncing[p], SyncLoadFails(p, s) PROVE TextTyped'
  <2>1. loads + 1 \in 0..MaxLoads
    BY <1>3, TextAssumption DEF SyncLoadFails
  <2>2. QED BY <1>3, <2>1 DEF SyncLoadFails
<1>4. ASSUME NEW s \in syncing[p], SyncApply(p, s) PROVE TextTyped'
  <2>0. s \in Syncs
    OBVIOUS
  <2>1. s.rows \in Texts /\ s.seen \in Versions
    BY <2>0 DEF Syncs
  <2>2. QED BY <1>4, <2>1 DEF SyncApply
<1>5. CASE Age(p)
  BY <1>5 DEF Age
<1>6. QED BY <1>1, <1>2, <1>3, <1>4, <1>5 DEF Syncing, Fetch, Reload

\* What the n-th edit becomes: what is said of Unpublished needs no more.
LEMMA UnpublishedAfter ==
  ASSUME TextTyped, NEW n \in EditId, NEW e \in Edits, editing' = [editing EXCEPT ![n] = e]
  PROVE  /\ editing' \in [EditId -> Edits]
         /\ Unpublished' = IF e.at \in {"table", "restored", "publish"} THEN Unpublished \cup {n}
                                                                        ELSE Unpublished \ {n}
BY DEF TextTyped, Unpublished

\* A step of an edit through the lens of UnpublishedAfter.
LEMMA EditMoves ==
  ASSUME TextTyped, NEW n \in EditId
  PROVE  /\ Publish(n) \/ PublishFails(n) =>
              /\ editing' \in [EditId -> Edits]
              /\ n \in Unpublished /\ Unpublished' = Unpublished \ {n}
         /\ EditDone(n) \/ RestoreRows(n) =>
              editing' \in [EditId -> Edits] /\ Unpublished' = Unpublished
<1>1. editing[n] \in Edits
  BY DEF TextTyped
<1>2. ASSUME Publish(n) \/ PublishFails(n)
      PROVE  /\ editing' \in [EditId -> Edits]
             /\ n \in Unpublished /\ Unpublished' = Unpublished \ {n}
  <2>1. PICK g \in Versions : editing' = [editing EXCEPT ![n] = Bumped(n, g)]
    <3>1. counter + 1 \in Versions /\ NoVersion \in Versions
      BY DEF Versions, TextTyped
    <3>2. QED BY <1>2, <3>1 DEF Publish, PublishFails
  <2>2. Bumped(n, g) \in Edits /\ Bumped(n, g).at = "bumped"
    BY <1>1, NoEditTyped DEF Bumped, Edits
  <2>3. n \in Unpublished
    BY <1>2 DEF Publish, PublishFails, OwnSnapshot, Unpublished
  <2>4. QED BY <2>1, <2>2, <2>3, UnpublishedAfter
<1>3. ASSUME EditDone(n) PROVE editing' \in [EditId -> Edits] /\ Unpublished' = Unpublished
  <2>1. editing' = [editing EXCEPT ![n] = NoEdit] /\ n \notin Unpublished
    BY <1>3 DEF EditDone, Unpublished
  <2>2. NoEdit \in Edits /\ NoEdit.at = "idle"
    BY NoEditTyped DEF NoEdit
  <2>3. editing' \in [EditId -> Edits] /\ Unpublished' = Unpublished \ {n}
    BY <2>1, <2>2, UnpublishedAfter
  <2>4. QED BY <2>1, <2>3
<1>4. ASSUME RestoreRows(n) PROVE editing' \in [EditId -> Edits] /\ Unpublished' = Unpublished
  <2> DEFINE e == [editing[n] EXCEPT !.at = "publish", !.rows = table]
  <2>1. editing' = [editing EXCEPT ![n] = e] /\ n \in Unpublished
    BY <1>4 DEF RestoreRows, Unpublished
  <2>2. e \in Edits /\ e.at = "publish"
    BY <1>1 DEF Edits, TextTyped
  <2> HIDE DEF e
  <2>3. editing' \in [EditId -> Edits] /\ Unpublished' = Unpublished \cup {n}
    BY <2>1, <2>2, UnpublishedAfter
  <2>4. QED BY <2>1, <2>3
<1>5. QED BY <1>2, <1>3, <1>4

LEMMA BeginMoves ==
  ASSUME TextTyped, CounterBehind, NEW p \in Replica, Begins(p)
  PROVE  /\ p \in Editors /\ edits + 1 \in EditId
         /\ table' \in Texts /\ editing' \in [EditId -> Edits] /\ edits' = edits + 1
         /\ UNCHANGED <<counter, shown, version, aged, syncing, loads, lost>>
         /\ edits + 1 \notin Unpublished /\ Unpublished' = Unpublished \cup {edits + 1}
<1>1. \E e \in Edits : e.at \in {"table", "restored"} /\ EditStarts(e)
  <2>1. CASE RestoreTable(p)
    <3>1. [NoEdit EXCEPT !.at = "restored", !.by = p] \in Edits
      BY NoEditTyped DEF Edits
    <3>2. [NoEdit EXCEPT !.at = "restored", !.by = p].at = "restored"
      BY NoEditTyped DEF Edits
    <3>3. QED BY <2>1, <3>1, <3>2 DEF RestoreTable
  <2>2. ASSUME NEW k \in TextKey, NEW v \in TextRows, EditTable(p, k, v)
        PROVE  \E e \in Edits : e.at \in {"table", "restored"} /\ EditStarts(e)
    <3> DEFINE e == [NoEdit EXCEPT !.at = "table", !.by = p, !.key = k, !.value = v]
    <3>1. e \in Edits /\ e.at = "table"
      BY NoEditTyped DEF Edits
    <3>2. EditStarts(e)
      BY <2>2 DEF EditTable
    <3> HIDE DEF e
    <3>3. QED BY <3>1, <3>2
  <2>3. QED BY <2>1, <2>2 DEF Begins
<1>2. PICK e \in Edits : e.at \in {"table", "restored"} /\ EditStarts(e)
  BY <1>1
<1>3. edits \in Nat /\ edits < MaxEdits /\ MaxEdits \in Nat
  BY <1>2, TextAssumption DEF EditStarts, TextTyped
<1>4. edits + 1 \in EditId /\ edits + 1 \notin Unpublished
  BY <1>3 DEF EditId, CounterBehind
<1>5. editing' \in [EditId -> Edits] /\ Unpublished' = Unpublished \cup {edits + 1}
  <2>1. editing' = [editing EXCEPT ![edits + 1] = e]
    BY <1>2 DEF EditStarts
  <2>2. QED BY <1>2, <1>4, <2>1, UnpublishedAfter
<1>6. p \in Editors /\ table' \in Texts
  <2>1. CASE RestoreTable(p)
    BY <2>1 DEF RestoreTable
  <2>2. ASSUME NEW k \in TextKey, NEW v \in TextRows, EditTable(p, k, v)
        PROVE  p \in Editors /\ table' \in Texts
    BY <2>2 DEF EditTable, TextTyped, Texts
  <2>3. QED BY <2>1, <2>2 DEF Begins
<1>7. QED BY <1>2, <1>4, <1>5, <1>6 DEF EditStarts

LEMMA EditTyped == ASSUME TextTyped, NEW n \in EditId, EditStep(n) PROVE TextTyped'
<1> USE DEF TextTyped
<1>1. editing[n] \in Edits
  OBVIOUS
<1>2. ASSUME OwnSnapshot(n)
      PROVE  /\ shown' \in [Replica -> Texts] /\ aged' \in [Replica -> BOOLEAN]
             /\ UNCHANGED <<table, version, syncing, edits, loads>>
  <2>1. /\ editing[n].key \in TextKey /\ editing[n].value \in TextRows
        /\ editing[n].by \in Replica /\ editing[n].rows \in Texts
    BY <1>1 DEF Edits
  <2>2. [shown[editing[n].by] EXCEPT ![editing[n].key] = editing[n].value] \in Texts
    BY <2>1 DEF Texts
  <2>3. QED BY <1>2, <2>1, <2>2 DEF OwnSnapshot
<1>3. CASE Publish(n)
  <2>1. counter' = counter + 1 /\ counter + 1 \in Nat /\ lost' = FALSE
    BY <1>3 DEF Publish
  <2>2. editing' \in [EditId -> Edits]
    BY <1>3, EditMoves
  <2>3. OwnSnapshot(n)
    BY <1>3 DEF Publish
  <2>4. QED BY <1>2, <2>1, <2>2, <2>3
<1>4. CASE PublishFails(n)
  <2>1. counter' = counter /\ lost' = TRUE
    BY <1>4 DEF PublishFails
  <2>2. editing' \in [EditId -> Edits]
    BY <1>4, EditMoves
  <2>3. OwnSnapshot(n)
    BY <1>4 DEF PublishFails
  <2>4. QED BY <1>2, <2>1, <2>2, <2>3
<1>5. CASE EditDone(n)
  <2>1. editing[n].got \in Versions
    BY <1>1 DEF Edits
  <2>2. editing' \in [EditId -> Edits]
    BY <1>5, EditMoves
  <2>3. QED BY <1>5, <2>1, <2>2 DEF EditDone
<1>6. CASE RestoreRows(n)
  <2>1. editing' \in [EditId -> Edits]
    BY <1>6, EditMoves
  <2>2. QED BY <1>6, <2>1 DEF RestoreRows
<1>7. QED BY <1>3, <1>4, <1>5, <1>6 DEF EditStep

LEMMA CounterStep ==
  ASSUME TextTyped, CounterBehind, [TextNext]_textVars
  PROVE  TextTyped' /\ CounterBehind'
<1>0. counter \in Nat /\ edits \in Nat /\ IsFiniteSet(Unpublished)
      /\ Cardinality(Unpublished) \in Nat /\ counter + Cardinality(Unpublished) <= edits
  BY FS_CardinalityType DEF TextTyped, CounterBehind
<1>1. CASE UNCHANGED textVars
  BY <1>1 DEF textVars, TextTyped, CounterBehind, Unpublished
<1>2. ASSUME NEW p \in Replica, Syncing(p) PROVE TextTyped' /\ CounterBehind'
  <2>1. UNCHANGED <<editing, counter, edits>>
    BY <1>2 DEF Syncing, SyncMoved, SyncAged, SyncStarts, Fetch, Reload, SyncLoad, SyncLoadFails,
                SyncApply, Age
  <2>2. QED BY <1>2, <2>1, SyncTyped DEF CounterBehind, Unpublished
<1>3. ASSUME NEW n \in EditId, Publish(n) \/ PublishFails(n) PROVE CounterBehind'
  <2>1. counter' \in {counter, counter + 1} /\ edits' = edits
    BY <1>3 DEF Publish, PublishFails, OwnSnapshot
  <2>2. n \in Unpublished /\ Unpublished' = Unpublished \ {n}
    BY <1>3, EditMoves
  <2>3. IsFiniteSet(Unpublished') /\ Cardinality(Unpublished') = Cardinality(Unpublished) - 1
    BY <1>0, <2>2, FS_RemoveElement
  <2>4. QED BY <1>0, <2>1, <2>2, <2>3 DEF CounterBehind
<1>4. ASSUME NEW n \in EditId, EditDone(n) \/ RestoreRows(n) PROVE CounterBehind'
  <2>1. UNCHANGED <<counter, edits>>
    BY <1>4 DEF EditDone, RestoreRows
  <2>2. QED BY <1>4, <2>1, EditMoves DEF CounterBehind
<1>5. ASSUME NEW p \in Replica, Begins(p) PROVE TextTyped' /\ CounterBehind'
  <2>1. /\ table' \in Texts /\ editing' \in [EditId -> Edits] /\ edits' = edits + 1
        /\ edits + 1 \in EditId /\ UNCHANGED <<counter, shown, version, aged, syncing, loads, lost>>
        /\ edits + 1 \notin Unpublished /\ Unpublished' = Unpublished \cup {edits + 1}
    BY <1>5, BeginMoves
  <2>2. IsFiniteSet(Unpublished') /\ Cardinality(Unpublished') = Cardinality(Unpublished) + 1
    BY <1>0, <2>1, FS_AddElement
  <2>3. \A n \in EditId : n > edits' => n \notin Unpublished'
    BY <1>0, <2>1 DEF CounterBehind, EditId
  <2>4. counter' + Cardinality(Unpublished') <= edits'
    BY <1>0, <2>1, <2>2
  <2>5. edits' \in 0..MaxEdits
    BY <1>0, <2>1, TextAssumption DEF EditId
  <2>6. QED BY <2>1, <2>2, <2>3, <2>4, <2>5 DEF TextTyped, CounterBehind
<1>6. QED BY <1>1, <1>2, <1>3, <1>4, <1>5, TextSteps, EditTyped DEF EditStep

\* The texts keep their types: no version is ever ahead of the edits of the
\* table, whoever edits and whatever fails (OverrideStore).
THEOREM TextTypes == TextSpec => []TextTypeOK
<1>1. TextTyped /\ CounterBehind => TextTypeOK
  <2> SUFFICES ASSUME TextTyped, CounterBehind PROVE TextTypeOK
    OBVIOUS
  <2>1. counter \in 0..MaxEdits
    BY FS_CardinalityType, TextAssumption DEF TextTyped, CounterBehind
  <2>2. QED BY <2>1 DEF TextTyped, TextTypeOK
<1>2. TextTyped /\ CounterBehind /\ [TextNext]_textVars => (TextTyped /\ CounterBehind)'
  BY CounterStep
<1>3. QED BY <1>1, <1>2, TextTypedStart, PTL DEF TextSpec

-----------------------------------------------------------------------------
(* The texts agree: what a peer shows while its version is the counter's,   *)
(* whoever edits and however reloads and edits overlap.                     *)

\* What a process or a reload has read of the counter is in the past.
Behind ==
  \A p \in Readers :
    /\ version[p] # NoVersion => version[p] <= counter
    /\ \A s \in syncing[p] : s.seen # NoVersion => s.seen <= counter

\* An edit of another process may be missing from what a peer shows.
Excused == Unpublished # {} \/ lost

\* The rows of a reload are the table's, or the counter has moved since.
ReloadsFresh ==
  \A p \in Readers : \A s \in syncing[p] :
    s.at = "apply" /\ s.seen = counter => s.rows = table \/ Excused

\* Only editors edit.
EditorsEdit == \A n \in Unpublished : editing[n].by \in Editors
BumpsEdit   == \A n \in EditId : editing[n].at = "bumped" => editing[n].by \in Editors

AgreeInv == Behind /\ EditorsEdit /\ BumpsEdit /\ ReloadsFresh /\ TextsAgree

LEMMA AgreeStart == TextInit => AgreeInv
<1> SUFFICES ASSUME TextInit PROVE AgreeInv
  OBVIOUS
<1>1. \A p \in Readers : version[p] = NoVersion /\ shown[p] = table /\ syncing[p] = {}
  BY DEF TextInit, Readers
<1>2. \A n \in EditId : editing[n].at = "idle"
  BY DEF TextInit, NoEdit
<1>3. QED BY <1>1, <1>2 DEF AgreeInv, Behind, EditorsEdit, BumpsEdit, ReloadsFresh, TextsAgree,
                            Unpublished

\* A reload reads the counter, then the table, and takes over both.
LEMMA SyncAgrees ==
  ASSUME TextTyped, AgreeInv, NEW p \in Replica, Syncing(p)
  PROVE  AgreeInv'
<1>1. /\ UNCHANGED <<table, counter, editing, lost>> /\ Unpublished' = Unpublished
      /\ Excused' = Excused
  <2>1. UNCHANGED <<table, counter, editing, lost>>
    BY DEF Syncing, SyncMoved, SyncAged, SyncStarts, Fetch, Reload, SyncLoad, SyncLoadFails,
           SyncApply, Age
  <2>2. QED BY <2>1 DEF Unpublished, Excused
<1>2. EditorsEdit' /\ BumpsEdit'
  BY <1>1 DEF AgreeInv, EditorsEdit, BumpsEdit
<1>3. \A q \in Replica : syncing[q] \subseteq Syncs
  BY DEF TextTyped
\* What is left to show: nothing of another process moved, and of this one
\* only calls that keep Behind and ReloadsFresh were added.
<1>q. ASSUME \A q \in Replica \ {p} : UNCHANGED <<shown[q], version[q], syncing[q]>>,
             \A s \in syncing'[p] \ syncing[p] :
                /\ s.seen # NoVersion => s.seen <= counter
                /\ s.at = "apply" => s.rows = table,
             \/ shown'[p] = shown[p] /\ version'[p] = version[p]
             \/ \E s \in syncing[p] : /\ s.at = "apply"
                                      /\ shown'[p] = s.rows /\ version'[p] = s.seen
      PROVE  AgreeInv'
  <2>1. Behind'
    BY <1>1, <1>q DEF AgreeInv, Behind, Readers
  <2>2. ReloadsFresh'
    BY <1>1, <1>q DEF AgreeInv, ReloadsFresh, Readers
  <2>3. TextsAgree'
    BY <1>1, <1>q DEF AgreeInv, ReloadsFresh, TextsAgree, Readers, Excused
  <2>4. QED BY <1>2, <2>1, <2>2, <2>3 DEF AgreeInv
<1>4. CASE SyncMoved(p) \/ SyncAged(p)
  <2>1. PICK seen \in {counter, NoVersion} : SyncStarts(p, seen)
    BY <1>4 DEF SyncMoved, SyncAged
  <2>2. /\ UNCHANGED <<shown, version>> /\ \A q \in Replica \ {p} : syncing'[q] = syncing[q]
        /\ syncing'[p] = syncing[p] \cup {[at |-> "load", seen |-> seen, rows |-> Default]}
    BY <2>1 DEF SyncStarts, TextTyped
  <2>3. QED BY <1>q, <2>2 DEF TextTyped
<1>5. ASSUME NEW s \in syncing[p], SyncLoad(p, s) PROVE AgreeInv'
  <2> DEFINE r == [s EXCEPT !.at = "apply", !.rows = table]
  <2>1. r.rows = table /\ r.seen = s.seen
    BY <1>3 DEF Syncs
  <2>2. /\ UNCHANGED <<shown, version>> /\ \A q \in Replica \ {p} : syncing'[q] = syncing[q]
        /\ syncing'[p] = (syncing[p] \ {s}) \cup {r}
    BY <1>5 DEF SyncLoad, TextTyped
  <2>3. p \in Readers => (s.seen # NoVersion => s.seen <= counter)
    BY DEF AgreeInv, Behind
  <2> HIDE DEF r
  <2>4. CASE p \in Readers
    BY <1>q, <2>1, <2>2, <2>3, <2>4
  <2>5. CASE p \notin Readers
    BY <1>1, <1>2, <2>2, <2>5 DEF AgreeInv, Behind, ReloadsFresh, TextsAgree, Readers, Excused
  <2>6. QED BY <2>4, <2>5
<1>6. ASSUME NEW s \in syncing[p], SyncLoadFails(p, s) PROVE AgreeInv'
  <2>1. /\ UNCHANGED <<shown, version>> /\ \A q \in Replica \ {p} : syncing'[q] = syncing[q]
        /\ syncing'[p] = syncing[p] \ {s}
    BY <1>6 DEF SyncLoadFails, TextTyped
  <2>2. QED BY <1>q, <2>1
<1>7. ASSUME NEW s \in syncing[p], SyncApply(p, s) PROVE AgreeInv'
  <2>1. /\ \A q \in Replica \ {p} : UNCHANGED <<shown[q], version[q], syncing[q]>>
        /\ syncing'[p] = syncing[p] \ {s} /\ s.at = "apply"
        /\ shown'[p] = s.rows /\ version'[p] = s.seen
    BY <1>7 DEF SyncApply, TextTyped
  <2>2. QED BY <1>q, <2>1
<1>8. CASE Age(p)
  BY <1>q, <1>8 DEF Age
<1>9. QED BY <1>4, <1>5, <1>6, <1>7, <1>8 DEF Syncing, Fetch, Reload

\* The table changes: nobody is held to it until the edit is published.
LEMMA BeginAgrees ==
  ASSUME TextTyped, CounterBehind, AgreeInv, NEW p \in Replica, Begins(p)
  PROVE  AgreeInv'
<1>1. /\ p \in Editors /\ edits + 1 \in EditId
      /\ UNCHANGED <<counter, shown, version, syncing, lost>>
      /\ Unpublished' = Unpublished \cup {edits + 1}
  BY BeginMoves
<1>2. /\ \A n \in EditId \ {edits + 1} : editing'[n] = editing[n]
      /\ editing'[edits + 1].by = p /\ editing'[edits + 1].at # "bumped"
  <2>1. CASE RestoreTable(p)
    BY <1>1, <2>1, NoEditTyped DEF RestoreTable, EditStarts, TextTyped, Edits
  <2>2. ASSUME NEW k \in TextKey, NEW v \in TextRows, EditTable(p, k, v)
        PROVE  /\ \A n \in EditId \ {edits + 1} : editing'[n] = editing[n]
               /\ editing'[edits + 1].by = p /\ editing'[edits + 1].at # "bumped"
    BY <1>1, <2>2, NoEditTyped DEF EditTable, EditStarts, TextTyped, Edits
  <2>3. QED BY <2>1, <2>2 DEF Begins
<1>3. Behind' /\ ReloadsFresh' /\ TextsAgree'
  BY <1>1 DEF AgreeInv, Behind, ReloadsFresh, TextsAgree, Excused
<1>4. EditorsEdit' /\ BumpsEdit'
  BY <1>1, <1>2 DEF AgreeInv, EditorsEdit, BumpsEdit, Unpublished
<1>5. QED BY <1>3, <1>4 DEF AgreeInv

\* The edit reaches the counter, or is lost: the peers reload, or are excused.
LEMMA PublishAgrees ==
  ASSUME TextTyped, AgreeInv, NEW n \in EditId, Publish(n) \/ PublishFails(n)
  PROVE  AgreeInv'
<1>0. counter \in Nat /\ counter + 1 # counter /\ NoVersion \notin Nat
  BY TextAssumption DEF TextTyped
<1>1. n \in Unpublished /\ Unpublished' = Unpublished \ {n} /\ editing[n].by \in Editors
  BY EditMoves DEF AgreeInv, EditorsEdit
<1>2. /\ UNCHANGED <<table, version, syncing>>
      /\ \A p \in Readers : shown'[p] = shown[p]
  BY <1>1 DEF Publish, PublishFails, OwnSnapshot, TextTyped, Readers
<1>3. /\ \A m \in EditId \ {n} : editing'[m] = editing[m]
      /\ editing'[n].by = editing[n].by
  <2>1. PICK g : editing' = [editing EXCEPT ![n] = Bumped(n, g)]
    BY DEF Publish, PublishFails
  <2>2. Bumped(n, g).by = editing[n].by
    BY NoEditTyped DEF Bumped, Edits
  <2>3. QED BY <2>1, <2>2 DEF TextTyped
<1>4. EditorsEdit' /\ BumpsEdit'
  BY <1>1, <1>3 DEF AgreeInv, EditorsEdit, BumpsEdit, Unpublished
<1>5. \/ counter' = counter + 1
      \/ counter' = counter /\ lost' = TRUE
  BY DEF Publish, PublishFails
<1>6. \A p \in Readers : /\ version[p] \in Versions
                         /\ \A s \in syncing[p] : s.seen \in Versions
  BY DEF TextTyped, Syncs, Readers
<1>7. CASE counter' = counter + 1
  <2>1. \A v \in Versions : v # NoVersion /\ v <= counter => v # counter' /\ v <= counter'
    BY <1>0, <1>7 DEF Versions
  <2>2. NoVersion # counter'
    BY <1>0, <1>7
  <2>3. \A p \in Readers : /\ version[p] # counter'
                           /\ version[p] # NoVersion => version[p] <= counter'
    BY <1>6, <2>1, <2>2 DEF AgreeInv, Behind
  <2>4. \A p \in Readers : \A s \in syncing[p] : /\ s.seen # counter'
                                                 /\ s.seen # NoVersion => s.seen <= counter'
    BY <1>6, <2>1, <2>2 DEF AgreeInv, Behind
  <2>5. Behind' /\ ReloadsFresh' /\ TextsAgree'
    BY <1>2, <2>3, <2>4 DEF Behind, ReloadsFresh, TextsAgree
  <2>6. QED BY <1>4, <2>5 DEF AgreeInv
<1>8. CASE counter' = counter /\ lost' = TRUE
  <2>1. Behind' /\ ReloadsFresh' /\ TextsAgree'
    BY <1>2, <1>8 DEF AgreeInv, Behind, ReloadsFresh, TextsAgree, Excused
  <2>2. QED BY <1>4, <2>1 DEF AgreeInv
<1>9. QED BY <1>5, <1>7, <1>8

\* The answer of the INCR is the version of the process that sent it; a restore
\* reads its rows back. Neither reaches a peer.
LEMMA QuietAgrees ==
  ASSUME TextTyped, AgreeInv, NEW n \in EditId, EditDone(n) \/ RestoreRows(n)
  PROVE  AgreeInv'
<1>1. Unpublished' = Unpublished
  BY EditMoves
<1>2. /\ UNCHANGED <<table, counter, shown, syncing, lost>>
      /\ \A p \in Readers : version'[p] = version[p]
  BY DEF EditDone, RestoreRows, AgreeInv, BumpsEdit, TextTyped, Readers
<1>3. /\ \A m \in EditId \ {n} : editing'[m] = editing[m]
      /\ editing'[n].at # "bumped"
      /\ n \in Unpublished => editing'[n].by = editing[n].by
  <2>1. CASE EditDone(n)
    BY <2>1 DEF EditDone, TextTyped, NoEdit, Unpublished
  <2>2. CASE RestoreRows(n)
    BY <2>2 DEF RestoreRows, TextTyped, Edits
  <2>3. QED BY <2>1, <2>2
<1>4. EditorsEdit' /\ BumpsEdit'
  BY <1>1, <1>3 DEF AgreeInv, EditorsEdit, BumpsEdit, Unpublished
<1>5. Behind' /\ ReloadsFresh' /\ TextsAgree'
  BY <1>1, <1>2 DEF AgreeInv, Behind, ReloadsFresh, TextsAgree, Excused
<1>6. QED BY <1>4, <1>5 DEF AgreeInv

LEMMA AgreeStep ==
  ASSUME TextTyped, CounterBehind, AgreeInv, [TextNext]_textVars
  PROVE  AgreeInv'
<1>1. CASE UNCHANGED textVars
  BY <1>1 DEF textVars, AgreeInv, Behind, EditorsEdit, BumpsEdit, ReloadsFresh, TextsAgree,
              Excused, Unpublished
<1>2. QED BY <1>1, TextSteps, SyncAgrees, BeginAgrees, PublishAgrees, QuietAgrees DEF EditStep

\* A peer that has nothing to reload shows the table, for any number of
\* processes and edits, overlapping as they like, and whatever fails, but for an
\* INCR that did not arrive (OverrideStore.sync, _publish).
THEOREM TextsAgreed == TextSpec => []TextsAgree
<1>1. TextTyped /\ CounterBehind /\ AgreeInv /\ [TextNext]_textVars
        => (TextTyped /\ CounterBehind /\ AgreeInv)'
  BY AgreeStep, CounterStep
<1>2. AgreeInv => TextsAgree
  BY DEF AgreeInv
<1>3. QED BY <1>1, <1>2, TextTypedStart, AgreeStart, PTL DEF TextSpec
=============================================================================
