------------------------------ MODULE Engines ------------------------------
(***************************************************************************)
(* The two engines behind one job: process_download_task and the retry     *)
(* wrapper of services/worker.py, services/fallback.py, and the pool of    *)
(* Cobalt instances of services/cobalt.py, whose memory (quarantine,       *)
(* dialect, the node that answered last) all workers share. A job is one   *)
(* thread; every HTTP request is a step.                                   *)
(***************************************************************************)
EXTENDS Naturals, Sequences, Functions, FiniteSets

CONSTANTS Crew,        \* workers
          Pool,        \* configured instances in order, a sequence
          Speaks,      \* which of the two request shapes a node speaks, 0: neither
          NoNode,      \* _active_url is empty
          Tries,       \* MAX_ATTEMPTS
          Quarantine,  \* QUARANTINE_S in ticks
          EngineJobs   \* bound: jobs started

Node == Range(Pool)

ASSUME EnginesAssumption ==
  /\ Speaks \in [Node -> 0..2]
  /\ NoNode \notin Node
  /\ Pool \in Seq(Node) /\ IsInjective(Pool)
  /\ {Tries, Quarantine} \subseteq Nat \ {0}
  /\ EngineJobs \in Nat

\* What the primary engine answers: a block (EXTRACTOR_BLOCKED, SESSION_STALE),
\* a DRM policy, a shape it does not serve (no video, unsupported link), a
\* permanent error nobody can help, a passing one.
Refusal == {"block", "policy", "shape", "permanent", "passing"}

\* How a job ends: with a file, with the primary's error, as YOUTUBE_BLOCKED.
Verdict == {"none", "served", "refused", "fleet"}

VARIABLES node,     \* per node: [dialect, rest] - 0 for none
          activeNode,   \* _active_url
          job,      \* per worker: the job under way
          asked,    \* history, per worker: <<node, shape>> asked for this job
          twice,    \* history: a pair was asked twice for one job
          begun

engineVars == <<node, activeNode, job, asked, twice, begun>>

NoJob == [at |-> "idle", youtube |-> FALSE, flac |-> FALSE, try |-> 0, why |-> "passing",
          on |-> NoNode, left |-> {}, shapes |-> <<>>, fresh |-> {}, end |-> "none"]

EnginesTypeOK ==
  /\ node \in [Node -> [dialect : 0..2, rest : 0..Quarantine]]
  /\ activeNode \in Node \cup {NoNode}
  /\ job \in [Crew -> [at : {"idle", "primary", "handed", "pool", "fetch"},
                       youtube : BOOLEAN, flac : BOOLEAN, try : 0..Tries,
                       why : Refusal, on : Node \cup {NoNode}, left : SUBSET Node,
                       shapes : Seq({1, 2}), fresh : SUBSET Node, end : Verdict]]
  /\ asked \in [Crew -> SUBSET (Node \X {1, 2})]
  /\ twice \in BOOLEAN
  /\ begun \in 0..EngineJobs

EnginesInit ==
  /\ node = [n \in Node |-> [dialect |-> 0, rest |-> 0]]
  /\ activeNode = NoNode
  /\ job = [w \in Crew |-> NoJob]
  /\ asked = [w \in Crew |-> {}]
  /\ twice = FALSE /\ begun = 0

-----------------------------------------------------------------------------
(* The pool's memory.                                                      *)

Quarantined(n) == node[n].rest > 0

\* Whom nobody told to leave alone.
Fresh == {n \in Node : ~Quarantined(n)}

\* CobaltService.available
Available == Fresh # {}

\* _attempt_order, node by node: whom of those left, the others as they were
\* configured after the one that answered last.
PoolPlace(n) == CHOOSE i \in DOMAIN Pool : Pool[i] = n
AttemptOrder(left, active) ==
  IF active \in left THEN active
  ELSE CHOOSE n \in left : \A m \in left : PoolPlace(n) <= PoolPlace(m)

\* _endpoint_order: the shape that worked last, then the other one.
EndpointOrder(n) == IF node[n].dialect = 2 THEN <<2, 1>> ELSE <<1, 2>>

-----------------------------------------------------------------------------
(* One attempt of a job.                                                   *)

StartJob(w) ==
  /\ job[w].at = "idle"
  /\ begun < EngineJobs
  /\ \E youtube, flac \in BOOLEAN :
       job' = [job EXCEPT ![w] = [NoJob EXCEPT !.at = "primary", !.youtube = youtube,
                                               !.flac = flac, !.try = 1]]
  /\ asked' = [asked EXCEPT ![w] = {}]
  /\ begun' = begun + 1
  /\ UNCHANGED <<node, activeNode, twice>>

JobEnds(w, verdict) == job' = [job EXCEPT ![w] = [NoJob EXCEPT !.end = verdict]]

PrimaryServes(w) ==
  /\ job[w].at = "primary"
  /\ JobEnds(w, "served")
  /\ UNCHANGED <<node, activeNode, asked, twice, begun>>

\* should_use_fallback
Eligible(why) == why \in {"block", "policy", "shape"}

\* _fleet_block_error: a YouTube block while the whole pool is being left alone.
FleetBlock(w, why) == why = "block" /\ job[w].youtube /\ ~Available

\* _PERMANENT_ERROR_CODES: retrying is no use; a DRM policy is not listed there.
Permanent == {"shape", "permanent"}

\* The link goes to the pool, or the job ends, or the attempt is repeated. A
\* FLAC request has no counterpart in the pool and keeps the primary's error.
PrimaryRefuses(w) ==
  /\ job[w].at = "primary"
  /\ \E why \in Refusal :
       \/ /\ Eligible(why) /\ Available /\ ~job[w].flac
          /\ job' = [job EXCEPT ![w].at = "handed", ![w].why = why]
       \/ /\ ~(Eligible(why) /\ Available /\ ~job[w].flac)
          /\ IF FleetBlock(w, why) THEN JobEnds(w, "fleet")
             ELSE IF why \in Permanent \/ job[w].try = Tries
             THEN JobEnds(w, "refused")
             ELSE job' = [job EXCEPT ![w].try = @ + 1]
  /\ UNCHANGED <<node, activeNode, asked, twice, begun>>

\* _deliver_via_fallback claims the slot and edits the card before it resolves:
\* the order is read only then, and may have become empty. Without a slot the
\* user has been told and the job is over.
Resolve(w) ==
  /\ job[w].at = "handed"
  /\ \/ JobEnds(w, "none")
     \/ ~Available /\ JobEnds(w, "refused")
     \/ /\ Available
        /\ LET n == AttemptOrder(Fresh, activeNode) IN
             job' = [job EXCEPT ![w].at = "pool", ![w].on = n, ![w].left = Fresh \ {n},
                                ![w].shapes = EndpointOrder(n), ![w].fresh = Fresh]
  /\ UNCHANGED <<node, activeNode, asked, twice, begun>>

-----------------------------------------------------------------------------
(* _resolve_on: one POST per step.                                         *)

\* Mutant: a job both engines refused is tried again like any other.
GiveUpRetries(w, gap) ==
  IF job[w].try = Tries THEN JobEnds(w, "refused")
  ELSE job' = [job EXCEPT ![w].at = "primary", ![w].try = @ + 1]

\* Both engines have had this link: the primary's error is final, as
\* YOUTUBE_BLOCKED when the instance lacked a session for a YouTube block.
GiveUp(w, gap) ==
  JobEnds(w, IF gap /\ job[w].why = "block" /\ job[w].youtube THEN "fleet" ELSE "refused")

\* The next node of the order, or the end of it.
NextNode(w) ==
  IF job[w].left = {} THEN GiveUp(w, FALSE)
  ELSE LET n == AttemptOrder(job[w].left, NoNode) IN
         job' = [job EXCEPT ![w].on = n, ![w].left = @ \ {n}, ![w].shapes = EndpointOrder(n)]

Post(w, n, shape) ==
  /\ job[w].at = "pool"
  /\ n = job[w].on /\ shape = Head(job[w].shapes)
  /\ twice' = (twice \/ <<n, shape>> \in asked[w])
  /\ asked' = [asked EXCEPT ![w] = @ \cup {<<n, shape>>}]
  /\ UNCHANGED begun

\* No answer in time, no connection: the instance is left alone.
PostFails(w) ==
  \E n \in Node, shape \in {1, 2} :
    /\ Post(w, n, shape)
    /\ node' = [node EXCEPT ![n].rest = Quarantine]
    /\ NextNode(w)
    /\ UNCHANGED activeNode

\* _is_wrong_shape (404, 405, or a 400 that hints at it), which a proxy before
\* the instance may answer as well: the other shape is next; with neither the
\* instance is out.
WrongShape(w) ==
  \E n \in Node, shape \in {1, 2} :
    /\ Post(w, n, shape)
    /\ IF Len(job[w].shapes) > 1
         THEN /\ job' = [job EXCEPT ![w].shapes = Tail(@)]
              /\ UNCHANGED node
         ELSE /\ node' = [node EXCEPT ![n].rest = Quarantine]
              /\ NextNode(w)
    /\ UNCHANGED activeNode

\* Every other answer counts as one to the shape, which is remembered with the
\* node whatever was said: 401, 403, 429 and 5xx are faults of the instance, a
\* page that is no JSON one of the link, also when the shape is not the node's
\* own. Media, or a code that names a missing session, come of the node's own.
Answered(w) ==
  \E n \in Node, shape \in {1, 2}, says \in {"media", "instance", "link", "gap"} :
    /\ Post(w, n, shape)
    /\ says \in {"media", "gap"} => shape = Speaks[n]
    /\ says = "gap" => job[w].youtube
    /\ activeNode' = n
    /\ node' = [node EXCEPT ![n] = [dialect |-> shape,
                                    rest |-> IF says = "instance" THEN Quarantine ELSE @.rest]]
    /\ CASE says = "media"    -> job' = [job EXCEPT ![w].at = "fetch"]
         [] says = "instance" -> NextNode(w)
         [] says = "link"     -> GiveUp(w, FALSE)
         [] says = "gap"      -> GiveUp(w, TRUE)

\* download_all: every item or none of them.
Fetched(w) ==
  /\ job[w].at = "fetch"
  /\ JobEnds(w, "served") \/ GiveUp(w, FALSE)
  /\ UNCHANGED <<node, activeNode, asked, twice, begun>>

\* QUARANTINE_S runs out.
EngineTick ==
  /\ \E n \in Node : Quarantined(n)
  /\ node' = [n \in Node |-> [node[n] EXCEPT !.rest = IF @ = 0 THEN 0 ELSE @ - 1]]
  /\ UNCHANGED <<activeNode, job, asked, twice, begun>>

EnginesNext ==
  \/ EngineTick
  \/ \E w \in Crew : \/ StartJob(w) \/ PrimaryServes(w) \/ PrimaryRefuses(w) \/ Resolve(w)
                     \/ PostFails(w) \/ WrongShape(w) \/ Answered(w) \/ Fetched(w)

EnginesSpec == EnginesInit /\ [][EnginesNext]_engineVars

-----------------------------------------------------------------------------
\* One job asks one instance one thing at most once, retries included: once
\* both engines have had a link it is never run again. And no node that was fresh
\* when the walk began is passed over, whatever other jobs do meanwhile to the
\* memory they share: quarantine, the remembered shape (right or wrong), the node
\* that answered last (CobaltService.resolve, _process_with_retry,
\* mark_fallback_attempted).
EnginesOnce ==
  /\ ~twice
  /\ \A w \in Crew : job[w].at = "pool" =>
       job[w].fresh = {p[1] : p \in asked[w]} \cup {job[w].on} \cup job[w].left
=============================================================================
