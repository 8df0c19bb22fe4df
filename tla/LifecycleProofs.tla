--------------------------- MODULE LifecycleProofs ---------------------------
(***************************************************************************)
(* Proofs about the process and the watch it keeps: the order of its boot  *)
(* and shutdown, and the pages about the helpers and the notices; and that *)
(* the run of the services is one of each of them.                         *)
(***************************************************************************)
EXTENDS MCServices, AdminProofs, UsersProofs, FilesProofs

-----------------------------------------------------------------------------
(***************************************************************************)
(* The services beside one another (MCServices). They share no state, and  *)
(* a step is one of one of them.                                           *)
(***************************************************************************)

serviceVars == <<service, engineVars, probeVars, deliveryVars, restoreVars, cookieVars,
                 membershipVars, helperVars, menuVars, lifecycleVars, doctorVars, songVars,
                 filesVars>>

LEMMA ServicesBegin ==
  Init => /\ EnginesInit
          /\ ProbeInit
          /\ DeliveryInit
          /\ RestoreInit
          /\ CookiesInit
          /\ MembershipInit
          /\ HelperWatchInit
          /\ MenuInit
          /\ LifecycleInit
          /\ DoctorInit
          /\ SongsInit
          /\ FilesInit
BY DEF Init

LEMMA ServicesMove ==
  ASSUME [Next]_serviceVars
  PROVE  /\ [EnginesNext]_engineVars
         /\ [ProbeNext]_probeVars
         /\ [DeliveryNext]_deliveryVars
         /\ [RestoreNext]_restoreVars
         /\ [CookiesNext]_cookieVars
         /\ [MembershipNext]_membershipVars
         /\ [HelperWatchNext]_helperVars
         /\ [MenuNext]_menuVars
         /\ [LifecycleNext]_lifecycleVars
         /\ [DoctorNext]_doctorVars
         /\ [SongsNext]_songVars
         /\ [FilesNext]_filesVars
<1>1. CASE UNCHANGED serviceVars
  BY <1>1 DEF serviceVars
<1>2. CASE Others("engines") /\ EnginesNext
  BY <1>2 DEF Others
<1>3. CASE Others("probe") /\ ProbeNext
  BY <1>3 DEF Others
<1>4. CASE Others("delivery") /\ DeliveryNext
  BY <1>4 DEF Others
<1>5. CASE Others("restore") /\ RestoreNext
  BY <1>5 DEF Others
<1>6. CASE \/ Others("imports") /\ ImportNext
           \/ Others("copies") /\ CopyNext
  BY <1>6 DEF Others, CookiesNext
<1>7. CASE Others("joins") /\ MembershipNext
  BY <1>7 DEF Others
<1>8. CASE \/ Others("helpers") /\ (SweepNext \/ WatchTick)
           \/ Others("notices") /\ (NoticeNext \/ WatchTick)
  BY <1>8 DEF Others, HelperWatchNext
<1>9. CASE Others("menu") /\ MenuNext
  BY <1>9 DEF Others
<1>10. CASE Others("life") /\ LifecycleNext
  BY <1>10 DEF Others
<1>11. CASE Others("doctor") /\ DoctorNext
  BY <1>11 DEF Others
<1>12. CASE Others("songs") /\ SongsNext
  BY <1>12 DEF Others
<1>13. CASE Others("files") /\ FilesNext
  BY <1>13 DEF Others
<1>14. QED
  BY <1>1, <1>2, <1>3, <1>4, <1>5, <1>6, <1>7,
     <1>8, <1>9, <1>10, <1>11, <1>12, <1>13 DEF Next

\* The run of the services is one of each of them: what is proved of a
\* component holds of it in that run.
THEOREM ServicesAreParts ==
  Spec => /\ EnginesSpec
          /\ ProbeSpec
          /\ DeliverySpec
          /\ RestoreSpec
          /\ CookiesSpec
          /\ MembershipSpec
          /\ HelperWatchSpec
          /\ MenuSpec
          /\ LifecycleSpec
          /\ DoctorSpec
          /\ SongsSpec
          /\ FilesSpec
<1>1. QED
  BY ServicesBegin, ServicesMove, PTL
     DEF Spec, serviceVars, EnginesSpec, ProbeSpec, DeliverySpec, RestoreSpec,
         CookiesSpec, MembershipSpec, HelperWatchSpec, MenuSpec,
         LifecycleSpec, DoctorSpec, SongsSpec, FilesSpec

-----------------------------------------------------------------------------
(***************************************************************************)
(* OrderlyExit for any number of tasks and deletions. Before the spawn     *)
(* there is no task and after the gather none is left; in between nothing  *)
(* they use is closed.                                                     *)
(***************************************************************************)

Unspawned == {"connect", "database", "redis", "guard", "orphans", "spawn"}
Manned    == {"prelude", "serve", "deletes", "draining", "tasks", "gather"}
Unmanned  == {"release", "closePool", "closeRedis", "closeSession"}

\* Which tasks there are; "over" is reached from both ends.
TasksByPhase ==
  /\ phase \in Unspawned => \A t \in Loop : task[t] = "none"
  /\ phase \in Unmanned \cup {"killed"} => \A t \in Loop : task[t] = "done"
  /\ phase = "over" => \/ \A t \in Loop : task[t] = "none"
                       \/ \A t \in Loop : task[t] = "done"

\* Where the pool is open.
OpenByPhase == phase \in {"redis", "guard", "orphans", "spawn"} \cup Manned => "pool" \in open

\* The deletions waited for were in flight once; when the wait is over none is.
DeletesByPhase ==
  /\ \A d \in early : deletion[d] # "none"
  /\ phase \notin Teardown \cup {"over"} => early = {}
  /\ phase \in Unmanned \cup {"tasks", "gather", "over"} => \A d \in early : deletion[d] # "flying"

LifecycleInv ==
  LifecycleTypeOK /\ TasksByPhase /\ OpenByPhase /\ DeletesByPhase /\ LeaseIsGone

USE DEF LifecycleTypeOK, LifecycleInv, Boot, Serving, Teardown, Unspawned, Manned, Unmanned,
        clientVars, From

LEMMA InitLifecycle == LifecycleInit => LifecycleInv
BY DEF LifecycleInit, TasksByPhase, OpenByPhase, DeletesByPhase, LeaseIsGone, Handle

\* Neither a task nor the lease moves while the process boots, or closes its clients.
LEMMA PhaseStep ==
  ASSUME LifecycleInv,
         \/ Connect \/ OpenPool \/ DialRedis \/ StartGuard \/ RequeueOrphans \/ SpawnTasks
         \/ StartServing \/ Terminate \/ ServingEnds \/ DrainLooks
         \/ ClosePool \/ CloseRedis \/ CloseSession
  PROVE  LifecycleInv'
<1> USE DEF TasksByPhase, OpenByPhase, DeletesByPhase, LeaseIsGone, Handle
<1>1. CASE Connect        BY <1>1 DEF Connect
<1>2. CASE OpenPool       BY <1>2 DEF OpenPool
<1>3. CASE DialRedis      BY <1>3 DEF DialRedis
<1>4. CASE StartGuard
  <2>1. lease' \in BOOLEAN
    <3>1. lease' = FALSE \/ lease' = ("redis" \in open)
      BY <1>4, Zenon DEF StartGuard
    <3>2. ("redis" \in open) \in BOOLEAN
      OBVIOUS
    <3>3. QED BY <3>1, <3>2, Zenon
  <2>2. phase = "guard" /\ phase' = "orphans" /\ UNCHANGED <<mode, open, kept, task, stopEvent, signal, deletion, early>>
    BY <1>4 DEF StartGuard
  <2>3. QED BY <2>1, <2>2
<1>5. CASE RequeueOrphans BY <1>5 DEF RequeueOrphans
<1>6. CASE SpawnTasks     BY <1>6 DEF SpawnTasks
<1>7. CASE StartServing   BY <1>7 DEF StartServing
<1>8. CASE Terminate
  <2>1. CASE mode = "polling" /\ phase \in Serving
    <3>1. UNCHANGED <<phase, task, mode, clientVars, deletion, early>>
      BY <1>8, <2>1 DEF Terminate
    <3>2. stopEvent' \in BOOLEAN /\ signal' \in {"no", "heard", "lost"}
      BY <1>8, <2>1 DEF Terminate
    <3>3. QED BY <3>1, <3>2
  <2>2. CASE ~(mode = "polling" /\ phase \in Serving)
    BY <1>8, <2>2 DEF Terminate
  <2>3. QED BY <2>1, <2>2
<1>9. CASE ServingEnds    BY <1>9 DEF ServingEnds, Drops, Calls
<1>10. CASE DrainLooks    BY <1>10 DEF DrainLooks
<1>11. CASE ClosePool     BY <1>11 DEF ClosePool, CloseClient
<1>12. CASE CloseRedis    BY <1>12 DEF CloseRedis, CloseClient
<1>13. CASE CloseSession  BY <1>13 DEF CloseSession, CloseClient
<1>14. QED BY <1>1, <1>2, <1>3, <1>4, <1>5, <1>6, <1>7, <1>8, <1>9, <1>10, <1>11, <1>12, <1>13

\* A task works only while the process is manned; the guard may take the lease there.
LEMMA TaskStep ==
  ASSUME LifecycleInv, NEW t \in Loop, TaskBegins(t) \/ TaskCalls(t) \/ TaskRests(t) \/ TaskEnds(t)
  PROVE  LifecycleInv'
<1> USE DEF OpenByPhase, DeletesByPhase, LeaseIsGone, Handle
<1>1. CASE TaskBegins(t) BY <1>1 DEF TaskBegins, TasksByPhase
<1>2. CASE TaskRests(t)
  <2>1. lease' \in BOOLEAN
    <3>1. lease' = lease \/ lease' = ("redis" \in open) \/ lease' = FALSE
      BY <1>2, Zenon DEF TaskRests
    <3>2. ("redis" \in open) \in BOOLEAN
      OBVIOUS
    <3>3. QED BY <3>1, <3>2, Zenon
  <2>2. /\ task[t] = "busy" /\ task' = [task EXCEPT ![t] = "idle"]
        /\ UNCHANGED <<phase, mode, open, kept, stopEvent, signal, deletion, early>>
    BY <1>2 DEF TaskRests
  <2>3. QED BY <2>1, <2>2 DEF TasksByPhase
<1>3. CASE TaskEnds(t)   BY <1>3 DEF TaskEnds, TasksByPhase
<1>4. CASE TaskCalls(t)  BY <1>4 DEF TaskCalls, Calls, TasksByPhase
<1>5. QED BY <1>1, <1>2, <1>3, <1>4

\* The waits of shutdown.
LEMMA WaitStep ==
  ASSUME LifecycleInv, DrainEnds \/ WaitTasks \/ Gather \/ ReleaseLease
  PROVE  LifecycleInv'
<1> USE DEF TasksByPhase, OpenByPhase, DeletesByPhase, LeaseIsGone, Handle
<1>1. CASE DrainEnds    BY <1>1 DEF DrainEnds, Drops
<1>2. CASE WaitTasks    BY <1>2 DEF WaitTasks
<1>3. CASE Gather       BY <1>3 DEF Gather, Settled
<1>4. CASE ReleaseLease BY <1>4 DEF ReleaseLease
<1>5. QED BY <1>1, <1>2, <1>3, <1>4

\* A deletion that begins is none of those waited for.
LEMMA DeleteStep ==
  ASSUME LifecycleInv, NEW d \in Deletion, DeleteBegins(d) \/ DeleteEnds(d)
  PROVE  LifecycleInv'
<1> USE DEF TasksByPhase, OpenByPhase, DeletesByPhase, LeaseIsGone, Handle
<1>1. CASE DeleteBegins(d) BY <1>1 DEF DeleteBegins
<1>2. CASE DeleteEnds(d)
  <2>1. /\ deletion[d] = "flying"
        /\ deletion' \in {[deletion EXCEPT ![d] = "dropped"], [deletion EXCEPT ![d] = "landed"]}
        /\ open' \in {open, open \cup {"session"}}
        /\ UNCHANGED <<phase, mode, lease, kept, task, stopEvent, signal, early>>
    BY <1>2 DEF DeleteEnds, Calls
  <2>2. /\ deletion' \in [Deletion -> {"none", "flying", "landed", "dropped"}]
        /\ \A e \in Deletion : deletion'[e] # deletion[e] => deletion[e] = "flying" /\ deletion'[e] \in {"dropped", "landed"}
    BY <2>1
  <2>3. QED BY <2>1, <2>2
<1>3. QED BY <1>1, <1>2

LEMMA NextLifecycle == LifecycleInv /\ [LifecycleNext]_lifecycleVars => LifecycleInv'
<1> SUFFICES ASSUME LifecycleInv, [LifecycleNext]_lifecycleVars PROVE LifecycleInv'
  OBVIOUS
<1>1. CASE UNCHANGED lifecycleVars
  BY <1>1 DEF lifecycleVars, TasksByPhase, OpenByPhase, DeletesByPhase, LeaseIsGone
<1>2. CASE LifecycleNext
  BY <1>2, PhaseStep, TaskStep, WaitStep, DeleteStep DEF LifecycleNext
<1>3. QED BY <1>1, <1>2

LEMMA InvExits == LifecycleInv => OrderlyExit
<1> SUFFICES ASSUME LifecycleInv PROVE OrderlyExit
  OBVIOUS
<1>1. NoneWorksOnClosed
  BY DEF TasksByPhase, OpenByPhase, NoneWorksOnClosed
<1>2. DeletesWaitedFor
  BY DEF DeletesByPhase, DeletesWaitedFor
<1>3. QED BY <1>1, <1>2 DEF OrderlyExit

\* Whatever the tasks, the deletions and the signals do, shutdown closes
\* nothing under a task, gives the lease back for good unless the delete
\* failed, and waits for the deletions it found (main.py shutdown). The close
\* of the bot's session by start_polling is not shutdown's, and comes before.
THEOREM ExitIsOrderly == LifecycleSpec => []OrderlyExit
<1>1. LifecycleSpec => []LifecycleInv
  BY InitLifecycle, NextLifecycle, PTL DEF LifecycleSpec
<1>2. QED BY <1>1, InvExits, PTL

LEMMA LifecycleTyped == LifecycleSpec => []LifecycleTypeOK
<1>1. LifecycleInv => LifecycleTypeOK
  OBVIOUS
<1>2. QED BY <1>1, InitLifecycle, NextLifecycle, PTL DEF LifecycleSpec

-----------------------------------------------------------------------------
(***************************************************************************)
(* PagesHonest for any helpers, failing statements and spans of time. The  *)
(* invariant ties what a step decides from to the rows: an outage's clock  *)
(* is no younger than the row that ended the last good time, a stamp no    *)
(* older than its page, and a row that says down covers only down ticks.   *)
(***************************************************************************)

\* A helper has one row of a moment, and none of this one until it was looked at.
Dated ==
  /\ \A r \in rows : r.at <= time
  /\ \A r, q \in rows : r.helper = q.helper /\ r.at = q.at => r = q
  /\ sweep.at # 0 => swept
  /\ \A r \in rows : r.at = time =>
       swept /\ \A i \in DOMAIN Watched : Watched[i] = r.helper => i < sweep.at \/ sweep.at = 0

\* Whatever row called a helper fine was followed by another when the clock of
\* its outage was set, or its look never got to that clock.
Clocked ==
  \A h \in Helpers : downSince[h] # NoStamp =>
    /\ downSince[h] <= time
    /\ \A r \in RowsOf(h) : \/ r.state \in failing \/ <<h, r.at>> \in torn
                           \/ \E q \in Later(r) : q.at <= downSince[h]

\* A page that is owed is due, and stamped; its helper was looked at.
Alerted ==
  \A h \in sweep.alerted :
    /\ \E i \in DOMAIN Watched : Watched[i] = h /\ i < sweep.at
    /\ downSince[h] # NoStamp /\ time - downSince[h] >= AlertAfter
    /\ alertedAt[h] = time /\ Passed(lastPage[h], AlertCooldown)

Stamped ==
  \A h \in Helpers : lastPage[h] # NoStamp =>
    alertedAt[h] # NoStamp /\ lastPage[h] <= alertedAt[h] /\ alertedAt[h] <= time

\* Who sent a notice is on the way to its stamp, or wrote it in the window in
\* force; and some sender wrote it, of a notice that is stamped for arrivals.
Windowed ==
  \A n \in Notice :
    /\ \A k \in Sender : page[n][k] = "sent" => k \in reached[n]
    /\ \A k \in reached[n] : page[n][k] = "sent" \/ (page[n][k] = "idle" /\ InForce(n))
    /\ n \notin {"redis", "storage"} /\ InForce(n) => \E k \in reached[n] : page[n][k] = "idle"

\* From a row that says down to the next that does not, every tick was down.
Recorded ==
  \A r \in rows, t \in Moment :
    /\ r.state = "down" /\ r.at <= t /\ t < time
    /\ \A q \in Later(r) : q.at <= t => q.state = "down"
    => <<r.helper, t>> \in downTicks

WatchInv ==
  HelperWatchTypeOK /\ Dated /\ Clocked /\ Alerted /\ Stamped /\ Windowed /\ Recorded /\ breaches = {}

LEMMA OlderIsEarlier == \A m, a, b \in Nat : ~(m - a < m - b) => a <= b
OBVIOUS

USE HelperWatchAssumption DEF Helpers, Moment

LEMMA NoStampIsNoMoment == NoStamp \notin Moment /\ Moment \subseteq Nat
OBVIOUS

LEMMA KnownHelpers == Helpers \subseteq {"pot", "session", "tunnel"}
OBVIOUS

LEMMA InitWatch == HelperWatchInit => WatchInv
<1> SUFFICES ASSUME HelperWatchInit PROVE WatchInv
  OBVIOUS
<1>1. HelperWatchTypeOK
  <2>1. 0 \in Moment /\ Len(Watched) \in Nat /\ NoSweep \in [at : 0..Len(Watched) + 1, alerted : SUBSET Helpers]
    BY DEF NoSweep
  <2>2. QED BY <2>1 DEF HelperWatchInit, HelperWatchTypeOK
<1>2. Dated /\ Recorded
  BY DEF HelperWatchInit, Dated, Recorded, NoSweep
<1>3. Clocked /\ Alerted /\ Stamped /\ Windowed /\ breaches = {}
  BY DEF HelperWatchInit, Clocked, Alerted, Stamped, Windowed, InForce, NoSweep
<1>4. QED BY <1>1, <1>2, <1>3 DEF WatchInv

\* The last row of a helper.
LEMMA LastRow ==
  ASSUME HelperWatchTypeOK, Dated, NEW h \in Helpers, RowsOf(h) # {}
  PROVE  \E r \in RowsOf(h) : /\ LastState(h) = r.state
                              /\ \A q \in RowsOf(h) : q # r => r \in Later(q)
<1> DEFINE Age(r) == MaxTime - r.at
           Ages == {Age(r) : r \in RowsOf(h)}
<1>1. \A r \in RowsOf(h) : r \in rows /\ r.helper = h /\ r.at \in 0..MaxTime
  BY DEF HelperWatchTypeOK, RowsOf
<1>2. Ages \in SUBSET Nat /\ Ages # {}
  BY <1>1
<1>3. PICK x \in Ages : \A y \in Ages : ~(<<y, x>> \in OpToRel(<, Nat))
  <2> HIDE DEF Ages
  <2>1. QED BY <1>2, WFMin, NatLessThanWellFounded
<1>4. PICK r \in RowsOf(h) : x = Age(r)
  OBVIOUS
<1>5. \A q \in RowsOf(h) : q.at <= r.at
  <2> SUFFICES ASSUME NEW q \in RowsOf(h) PROVE q.at <= r.at
    OBVIOUS
  <2>1. Age(q) \in Ages /\ Age(q) \in Nat /\ x \in Nat
    BY <1>1, <1>2
  <2>2. ~(Age(q) < x)
    <3> HIDE DEF Ages, Age
    <3>1. QED BY <1>3, <2>1 DEF OpToRel
  <2>3. ~(MaxTime - q.at < MaxTime - r.at)
    BY <1>4, <2>2
  <2>4. q.at \in Nat /\ r.at \in Nat /\ MaxTime \in Nat
    BY <1>1
  <2>5. QED BY <2>3, <2>4, OlderIsEarlier
<1>6. \A q \in RowsOf(h) : q # r => r \in Later(q)
  <2> SUFFICES ASSUME NEW q \in RowsOf(h), q # r PROVE r \in Later(q)
    OBVIOUS
  <2>1. q.at # r.at
    BY <1>1 DEF Dated
  <2>2. QED BY <1>1, <1>5, <2>1 DEF Later, RowsOf
<1>7. \A q \in RowsOf(h) : Later(q) = {} <=> q = r
  <2>1. Later(r) = {}
    <3>1. \A q \in RowsOf(h) : ~(r.at < q.at)
      BY <1>1, <1>5
    <3>2. QED BY <1>1, <3>1 DEF Later
  <2>2. QED BY <1>6, <2>1
<1>8. LastState(h) = r.state
  BY <1>7 DEF LastState
<1>9. QED BY <1>6, <1>8

-----------------------------------------------------------------------------
\* What a step does to the sweep and the clocks when no row is written.
LEMMA SameRows ==
  ASSUME UNCHANGED <<time, rows, downSince, torn, downTicks>>
  PROVE  (Clocked => Clocked') /\ (Recorded => Recorded')
BY DEF Clocked, Recorded, RowsOf, Later

LEMMA BeginsStep == ASSUME WatchInv, WatchBegins PROVE WatchInv'
<1> USE DEF WatchInv
<1>1. /\ sweep.at = 0 /\ ~swept /\ swept' = TRUE /\ sweep' = [at |-> 1, alerted |-> {}]
      /\ UNCHANGED <<time, rows, downSince, alertedAt, stamp, page, lastPage, torn, reached, downTicks, breaches>>
  BY DEF WatchBegins
<1>2. HelperWatchTypeOK'
  <2>1. sweep' \in [at : 0..Len(Watched) + 1, alerted : SUBSET Helpers]
    BY <1>1
  <2>2. QED BY <1>1, <2>1 DEF HelperWatchTypeOK
<1>3. Dated'
  BY <1>1 DEF Dated
<1>4. Clocked' /\ Recorded'
  BY <1>1, SameRows
<1>5. Alerted' /\ Stamped' /\ Windowed' /\ breaches' = {}
  BY <1>1 DEF Alerted, Stamped, Windowed, InForce, Passed
<1>6. QED BY <1>2, <1>3, <1>4, <1>5

LEMMA CrashStep == ASSUME WatchInv, WatchCrash PROVE WatchInv'
<1> USE DEF WatchInv
<1>1. /\ sweep' = [at |-> 0, alerted |-> {}]
      /\ UNCHANGED <<time, swept, rows, downSince, alertedAt, stamp, page, lastPage, torn, reached, downTicks, breaches>>
  BY DEF WatchCrash, NoSweep
<1>2. HelperWatchTypeOK'
  <2>1. sweep' \in [at : 0..Len(Watched) + 1, alerted : SUBSET Helpers]
    BY <1>1
  <2>2. QED BY <1>1, <2>1 DEF HelperWatchTypeOK
<1>3. Dated'
  BY <1>1 DEF Dated
<1>4. Clocked' /\ Recorded'
  BY <1>1, SameRows
<1>5. Alerted' /\ Stamped' /\ Windowed' /\ breaches' = {}
  BY <1>1 DEF Alerted, Stamped, Windowed, InForce, Passed
<1>6. QED BY <1>2, <1>3, <1>4, <1>5

LEMMA SendsStep == ASSUME WatchInv, WatchSends PROVE WatchInv'
<1> USE DEF WatchInv
<1>1. /\ sweep' = [at |-> 0, alerted |-> {}]
      /\ lastPage' = [k \in DOMAIN lastPage |-> IF k \in sweep.alerted THEN time ELSE lastPage[k]]
      /\ UNCHANGED <<time, swept, rows, downSince, alertedAt, stamp, page, torn, reached, downTicks>>
  BY DEF WatchSends, NoSweep
<1>2. /\ time \in Nat /\ sweep.alerted \subseteq Helpers
      /\ \A h \in Helpers : downSince[h] \in Moment \cup {NoStamp}
      /\ DOMAIN lastPage = Helpers
      /\ \A r \in rows : r.at \in Nat /\ r.helper \in Helpers
  BY DEF HelperWatchTypeOK
<1>3. \A k \in Helpers : lastPage'[k] = IF k \in sweep.alerted THEN time ELSE lastPage[k]
  BY <1>1, <1>2
<1>4. HelperWatchTypeOK'
  <2>1. sweep' \in [at : 0..Len(Watched) + 1, alerted : SUBSET Helpers]
    BY <1>1
  <2>2. lastPage' \in [Helpers -> Moment \cup {NoStamp}]
    BY <1>1 DEF HelperWatchTypeOK
  <2>3. breaches' \subseteq {"crowded", "unfounded"}
    BY DEF WatchSends, HelperWatchTypeOK
  <2>4. QED BY <1>1, <2>1, <2>2, <2>3 DEF HelperWatchTypeOK
<1>5. Dated'
  BY <1>1 DEF Dated
<1>6. Clocked' /\ Recorded'
  BY <1>1, SameRows
<1>7. Alerted' /\ Stamped'
  <2>1. Alerted'
    BY <1>1 DEF Alerted
  <2>2. ASSUME NEW h \in Helpers, lastPage'[h] # NoStamp
        PROVE  alertedAt[h] # NoStamp /\ lastPage'[h] <= alertedAt[h] /\ alertedAt[h] <= time
    <3>1. CASE h \in sweep.alerted
      BY <1>2, <1>3, <3>1 DEF Alerted
    <3>2. CASE h \notin sweep.alerted
      BY <1>3, <2>2, <3>2 DEF Stamped
    <3>3. QED BY <3>1, <3>2
  <2>3. QED BY <1>1, <2>1, <2>2 DEF Stamped
<1>8. Windowed'
  BY <1>1 DEF Windowed, InForce
<1>9. \A h \in sweep.alerted : Passed(lastPage[h], AlertCooldown) /\ DeadSince(h)
  <2> SUFFICES ASSUME NEW h \in sweep.alerted PROVE Passed(lastPage[h], AlertCooldown) /\ DeadSince(h)
    OBVIOUS
  <2>1. h \in Helpers /\ downSince[h] \in Nat /\ downSince[h] # NoStamp /\ time - downSince[h] >= AlertAfter
    BY <1>2 DEF Alerted
  <2>2. \A r \in RowsOf(h) : \/ r.state \in failing \/ <<h, r.at>> \in torn
                            \/ \E q \in Later(r) : q.at <= downSince[h]
    BY <2>1 DEF Clocked
  <2>3. \A r \in RowsOf(h) : \A q \in Later(r) : q.at \in Nat
    BY <1>2 DEF Later, RowsOf
  <2>4. \A r \in RowsOf(h) : \A q \in Later(r) : q.at <= downSince[h] => q.at + AlertAfter <= time
    <3> SUFFICES ASSUME NEW r \in RowsOf(h), NEW q \in Later(r), q.at <= downSince[h]
                 PROVE  q.at + AlertAfter <= time
      OBVIOUS
    <3>1. q.at \in Nat /\ time \in Nat /\ AlertAfter \in Nat
      BY <1>2, <2>3
    <3>2. QED BY <2>1, <3>1
  <2>5. DeadSince(h)
    BY <2>2, <2>4 DEF DeadSince
  <2>6. QED BY <2>5 DEF Alerted
<1>10. breaches' = {}
  BY <1>9 DEF WatchSends
<1>11. QED BY <1>4, <1>5, <1>6, <1>7, <1>8, <1>10

LEMMA PruneStep == ASSUME WatchInv, Prune PROVE WatchInv'
<1> USE DEF WatchInv
<1>1. /\ rows' = {r \in rows : r.at + KeepDays >= time}
      /\ UNCHANGED <<time, swept, downSince, alertedAt, sweep, stamp, page, lastPage, torn, reached, downTicks, breaches>>
  BY DEF Prune
<1>2. time \in Nat /\ KeepDays \in Nat /\ \A r \in rows : r.at \in Nat
  BY DEF HelperWatchTypeOK
<1>3. HelperWatchTypeOK'
  <2>1. rows' \subseteq [helper : Helpers, state : States, at : Moment]
    BY <1>1 DEF HelperWatchTypeOK
  <2>2. QED BY <1>1, <2>1 DEF HelperWatchTypeOK
<1>4. Dated'
  BY <1>1 DEF Dated
<1>5. \A r \in rows' : r \in rows /\ Later(r)' = Later(r)
  <2> SUFFICES ASSUME NEW r \in rows' PROVE r \in rows /\ Later(r)' = Later(r)
    OBVIOUS
  <2>1. r \in rows /\ r.at + KeepDays >= time
    BY <1>1
  <2>2. \A q \in Later(r) : q \in rows'
    BY <1>1, <1>2, <2>1 DEF Later, RowsOf
  <2>3. QED BY <1>1, <2>1, <2>2 DEF Later, RowsOf
<1>6. Clocked'
  BY <1>1, <1>5 DEF Clocked, RowsOf
<1>7. Recorded'
  BY <1>1, <1>5 DEF Recorded
<1>8. Alerted' /\ Stamped' /\ Windowed' /\ breaches' = {}
  BY <1>1 DEF Alerted, Stamped, Windowed, InForce, Passed
<1>9. QED BY <1>3, <1>4, <1>6, <1>7, <1>8

LEMMA TickStep == ASSUME WatchInv, WatchTick PROVE WatchInv'
<1> USE DEF WatchInv
<1>1. /\ time < MaxTime /\ time' = time + 1 /\ swept' = FALSE
      /\ sweep = [at |-> 0, alerted |-> {}]
      /\ reached' = [n \in Notice |-> IF InForce(n)' THEN reached[n] ELSE {}]
      /\ downTicks' = downTicks \cup {<<h, time>> : h \in {h \in Helpers : LastState(h) = "down"}}
      /\ UNCHANGED <<rows, downSince, alertedAt, sweep, stamp, page, lastPage, torn, breaches>>
  BY DEF WatchTick, NoSweep
<1>2. /\ time \in Nat /\ time' \in Moment
      /\ \A r \in rows : r.at \in Nat /\ r.helper \in Helpers
      /\ \A h \in Helpers : {downSince[h], alertedAt[h], lastPage[h]} \subseteq Moment \cup {NoStamp}
      /\ \A n \in Notice : stamp[n] \in Moment \cup {NoStamp} /\ reached[n] \subseteq Sender
  BY <1>1 DEF HelperWatchTypeOK
<1>3. HelperWatchTypeOK'
  <2>1. downTicks' \subseteq Helpers \X Moment
    BY <1>1, <1>2 DEF HelperWatchTypeOK
  <2>2. reached' \in [Notice -> SUBSET Sender]
    BY <1>1, <1>2
  <2>3. QED BY <1>1, <1>2, <2>1, <2>2 DEF HelperWatchTypeOK
<1>4. Dated'
  BY <1>1, <1>2 DEF Dated
<1>5. Clocked'
  <2>1. \A h : RowsOf(h)' = RowsOf(h)
    BY <1>1 DEF RowsOf
  <2>2. \A r : Later(r)' = Later(r)
    BY <1>1, <2>1 DEF Later
  <2>3. QED BY <1>1, <1>2, <2>1, <2>2 DEF Clocked
<1>6. Alerted' /\ Stamped' /\ Windowed' /\ breaches' = {}
  <2>1. Alerted' /\ breaches' = {}
    BY <1>1 DEF Alerted
  <2>2. Stamped'
    BY <1>1, <1>2 DEF Stamped
  <2>3. Windowed'
    <3>1. \A n \in Notice : InForce(n)' => InForce(n)
      BY <1>1, <1>2 DEF InForce
    <3>2. \A n \in Notice : reached'[n] = IF InForce(n)' THEN reached[n] ELSE {}
      BY <1>1
    <3>3. ASSUME NEW n \in Notice
          PROVE  /\ \A k \in Sender : page'[n][k] = "sent" => k \in reached'[n]
                 /\ \A k \in reached'[n] : page'[n][k] = "sent" \/ (page'[n][k] = "idle" /\ InForce(n)')
                 /\ n \notin {"redis", "storage"} /\ InForce(n)' => \E k \in reached'[n] : page'[n][k] = "idle"
      <4>1. page' = page /\ \A k \in Sender : page[n][k] = "idle"
        BY <1>1 DEF WatchTick
      <4>2. CASE InForce(n)'
        <5>1. InForce(n) /\ reached'[n] = reached[n] /\ reached[n] \subseteq Sender
          BY <1>2, <3>1, <3>2, <4>2
        <5>2. QED BY <4>1, <4>2, <5>1 DEF Windowed
      <4>3. CASE ~InForce(n)'
        BY <3>2, <4>1, <4>3
      <4>4. QED BY <4>2, <4>3
    <3>4. QED BY <3>3 DEF Windowed
  <2>4. QED BY <2>1, <2>2, <2>3
<1>7. Recorded'
  <2> SUFFICES ASSUME NEW r \in rows, NEW t \in Moment, r.state = "down", r.at <= t, t < time + 1,
                      \A q \in Later(r) : q.at <= t => q.state = "down"
               PROVE  <<r.helper, t>> \in downTicks'
    BY <1>1 DEF Recorded, Later, RowsOf
  <2>1. CASE t < time
    BY <1>1, <2>1 DEF Recorded
  <2>2. CASE t = time
    <3>1. r.helper \in Helpers /\ r \in RowsOf(r.helper)
      BY <1>2 DEF RowsOf
    <3>2. PICK l \in RowsOf(r.helper) :
            LastState(r.helper) = l.state /\ \A q \in RowsOf(r.helper) : q # l => l \in Later(q)
      BY <3>1, LastRow
    <3>3. l.at <= time
      BY <3>2 DEF RowsOf, Dated
    <3>4. l.state = "down"
      BY <2>2, <3>1, <3>2, <3>3
    <3>5. QED BY <1>1, <2>2, <3>1, <3>2, <3>4
  <2>3. QED BY <1>2, <2>1, <2>2
<1>8. QED BY <1>3, <1>4, <1>5, <1>6, <1>7

-----------------------------------------------------------------------------
\* The notices are about their own stamps only.
LEMMA NoticeStep ==
  ASSUME WatchInv, NEW n \in Notice, NEW k \in Sender,
         NoticeDue(n, k) \/ NoticeSent(n, k) \/ NoticeStamps(n, k)
  PROVE  WatchInv'
<1> USE DEF WatchInv
<1>1. UNCHANGED <<time, swept, rows, downSince, alertedAt, sweep, lastPage, torn, downTicks>>
  BY DEF NoticeDue, NoticeSent, NoticeStamps
<1>2. /\ time \in Moment /\ time \in Nat /\ NoStamp \notin Nat /\ NoticeWindow \in Nat \ {0}
      /\ page \in [Notice -> [Sender -> {"idle", "due", "sent", "unsent"}]]
      /\ stamp \in [Notice -> Moment \cup {NoStamp}]
      /\ reached \in [Notice -> SUBSET Sender]
  BY DEF HelperWatchTypeOK
<1>3. Dated' /\ Clocked' /\ Recorded' /\ Alerted' /\ Stamped'
  BY <1>1, SameRows DEF Dated, Alerted, Stamped, Passed
<1>4. CASE NoticeDue(n, k)
  <2>1. /\ page[n][k] = "idle" /\ ~InForce(n) /\ page' = [page EXCEPT ![n][k] = "due"]
        /\ UNCHANGED <<stamp, reached, breaches>>
    BY <1>4 DEF NoticeDue
  <2>2. page' \in [Notice -> [Sender -> {"idle", "due", "sent", "unsent"}]]
    BY <1>2, <2>1
  <2>3. HelperWatchTypeOK'
    BY <1>1, <2>1, <2>2 DEF HelperWatchTypeOK
  <2>4. k \notin reached[n]
    BY <2>1 DEF Windowed
  <2>5. \A m \in Notice : InForce(m)' = InForce(m)
    BY <1>1, <2>1 DEF InForce
  <2>6. \A m \in Notice, j \in Sender : m # n \/ j # k => page'[m][j] = page[m][j]
    BY <1>2, <2>1
  <2>7. Windowed'
    BY <1>2, <2>1, <2>4, <2>5, <2>6 DEF Windowed
  <2>8. QED BY <1>3, <2>1, <2>3, <2>7
<1>5. CASE NoticeSent(n, k)
  <2>1. page[n][k] = "due" /\ UNCHANGED stamp
    BY <1>5 DEF NoticeSent
  <2>2. k \notin reached[n]
    BY <2>1 DEF Windowed
  <2>3. /\ breaches' = breaches
        /\ \/ page' = [page EXCEPT ![n][k] = "sent"] /\ reached' = [reached EXCEPT ![n] = @ \cup {k}]
           \/ page' = [page EXCEPT ![n][k] = "unsent"] /\ reached' = reached
    BY <1>5, <2>2 DEF NoticeSent
  <2>4. HelperWatchTypeOK'
    <3>1. page' \in [Notice -> [Sender -> {"idle", "due", "sent", "unsent"}]]
      BY <1>2, <2>3
    <3>2. reached' \in [Notice -> SUBSET Sender]
      BY <1>2, <2>3
    <3>3. QED BY <1>1, <2>1, <2>3, <3>1, <3>2 DEF HelperWatchTypeOK
  <2>5. \A m \in Notice : InForce(m)' = InForce(m)
    BY <1>1, <2>1 DEF InForce
  <2>6. \A m \in Notice, j \in Sender : m # n \/ j # k => page'[m][j] = page[m][j]
    BY <1>2, <2>3
  <2>7. \A m \in Notice : reached[m] \subseteq reached'[m] /\ \A j \in reached'[m] : j \in reached[m] \/ (m = n /\ j = k /\ page'[n][k] = "sent")
    BY <1>2, <2>3
  <2>8. Windowed'
    <3> SUFFICES ASSUME NEW m \in Notice
                 PROVE  /\ \A j \in Sender : page'[m][j] = "sent" => j \in reached'[m]
                        /\ \A j \in reached'[m] : page'[m][j] = "sent" \/ (page'[m][j] = "idle" /\ InForce(m)')
                        /\ m \notin {"redis", "storage"} /\ InForce(m)' => \E j \in reached'[m] : page'[m][j] = "idle"
      BY DEF Windowed
    <3>1. reached[m] \subseteq reached'[m] /\ reached[m] \subseteq Sender /\ InForce(m)' = InForce(m)
      BY <1>2, <2>5, <2>7
    <3>2. ASSUME NEW j \in Sender, page'[m][j] = "sent" PROVE j \in reached'[m]
      <4>1. CASE m = n /\ j = k
        <5>1. page'[n][k] = "sent" => reached' = [reached EXCEPT ![n] = @ \cup {k}]
          BY <1>2, <2>3
        <5>2. QED BY <1>2, <3>2, <4>1, <5>1
      <4>2. CASE m # n \/ j # k
        BY <2>6, <3>1, <3>2, <4>2 DEF Windowed
      <4>3. QED BY <4>1, <4>2
    <3>3. ASSUME NEW j \in reached'[m]
          PROVE  page'[m][j] = "sent" \/ (page'[m][j] = "idle" /\ InForce(m)')
      <4>1. CASE j \in reached[m]
        <5>1. m # n \/ j # k
          BY <2>2, <4>1
        <5>2. page[m][j] = "sent" \/ (page[m][j] = "idle" /\ InForce(m))
          BY <4>1 DEF Windowed
        <5>3. page'[m][j] = page[m][j]
          BY <2>6, <3>1, <4>1, <5>1
        <5>4. QED BY <3>1, <5>2, <5>3
      <4>2. CASE j \notin reached[m]
        BY <2>7, <4>2
      <4>3. QED BY <4>1, <4>2
    <3>4. ASSUME m \notin {"redis", "storage"}, InForce(m)' PROVE \E j \in reached'[m] : page'[m][j] = "idle"
      <4>1. PICK j \in reached[m] : page[m][j] = "idle"
        BY <3>1, <3>4 DEF Windowed
      <4>2. m # n \/ j # k
        BY <2>2, <4>1
      <4>3. QED BY <2>6, <3>1, <4>1, <4>2
    <3>5. QED BY <3>2, <3>3, <3>4
  <2>9. QED BY <1>3, <2>3, <2>4, <2>8
<1>6. CASE NoticeStamps(n, k)
  <2>1. PICK failed \in BOOLEAN :
          /\ stamp' = IF ~failed /\ (page[n][k] = "sent" \/ n \in {"redis", "storage"})
                      THEN [stamp EXCEPT ![n] = time] ELSE stamp
          /\ reached' = IF failed THEN [reached EXCEPT ![n] = @ \ {k}] ELSE reached
    BY <1>6 DEF NoticeStamps
  <2>2. /\ page[n][k] \in {"sent", "unsent"} /\ page' = [page EXCEPT ![n][k] = "idle"]
        /\ breaches' = breaches
    BY <1>6 DEF NoticeStamps
  <2>3. HelperWatchTypeOK'
    <3>1. page' \in [Notice -> [Sender -> {"idle", "due", "sent", "unsent"}]]
      BY <1>2, <2>2
    <3>2. reached' \in [Notice -> SUBSET Sender] /\ stamp' \in [Notice -> Moment \cup {NoStamp}]
      BY <1>2, <2>1
    <3>3. QED BY <1>1, <2>2, <3>1, <3>2 DEF HelperWatchTypeOK
  <2>4. \A m \in Notice, j \in Sender : m # n \/ j # k => page'[m][j] = page[m][j]
    BY <1>2, <2>2
  <2>5. \A m \in Notice : m # n => InForce(m)' = InForce(m) /\ reached'[m] = reached[m]
    BY <1>1, <1>2, <2>1 DEF InForce
  <2>6. InForce(n) => InForce(n)'
    BY <1>1, <1>2, <2>1 DEF InForce
  <2>7. page[n][k] = "unsent" => k \notin reached[n]
    BY DEF Windowed
  <2>8. \A j \in reached'[n] : page'[n][j] = "sent" \/ (page'[n][j] = "idle" /\ InForce(n)')
    <3> SUFFICES ASSUME NEW j \in reached'[n]
                 PROVE  page'[n][j] = "sent" \/ (page'[n][j] = "idle" /\ InForce(n)')
      OBVIOUS
    <3>1. j \in reached[n] /\ j \in Sender
      BY <1>2, <2>1
    <3>2. CASE j # k
      BY <2>4, <2>6, <3>1, <3>2 DEF Windowed
    <3>3. CASE j = k
      <4>1. ~failed /\ page[n][k] = "sent"
        BY <1>2, <2>1, <2>2, <2>7, <3>1, <3>3
      <4>2. stamp'[n] = time
        BY <1>2, <2>1, <4>1
      <4>3. InForce(n)'
        BY <1>1, <1>2, <4>2 DEF InForce
      <4>4. page'[n][k] = "idle"
        BY <1>2, <2>2
      <4>5. QED BY <3>3, <4>3, <4>4
    <3>4. QED BY <3>2, <3>3
  <2>9. n \notin {"redis", "storage"} /\ InForce(n)' => \E j \in reached'[n] : page'[n][j] = "idle"
    <3> SUFFICES ASSUME n \notin {"redis", "storage"}, InForce(n)'
                 PROVE  \E j \in reached'[n] : page'[n][j] = "idle"
      OBVIOUS
    <3>1. page'[n][k] = "idle"
      BY <1>2, <2>2
    <3>2. CASE ~failed /\ page[n][k] = "sent"
      <4>1. k \in reached'[n]
        BY <2>1, <3>2 DEF Windowed
      <4>2. QED BY <3>1, <4>1
    <3>3. CASE failed \/ page[n][k] # "sent"
      <4>1. stamp' = stamp
        BY <2>1, <3>3
      <4>2. InForce(n)
        BY <1>1, <4>1 DEF InForce
      <4>3. PICK j \in reached[n] : page[n][j] = "idle"
        BY <4>2 DEF Windowed
      <4>4. j # k /\ j \in Sender
        BY <1>2, <2>2, <4>3
      <4>5. j \in reached'[n]
        BY <1>2, <2>1, <4>4
      <4>6. QED BY <2>4, <4>3, <4>4, <4>5
    <3>4. QED BY <3>2, <3>3
  <2>10. Windowed'
    <3>1. \A m \in Notice : m # n => \A j \in Sender : page'[m][j] = page[m][j]
      BY <1>2, <2>4
    <3>2. \A j \in Sender : page'[n][j] = "sent" => j \in reached'[n]
      BY <1>2, <2>1, <2>2, <2>4 DEF Windowed
    <3>3. ASSUME NEW m \in Notice, m # n
          PROVE  /\ \A j \in Sender : page'[m][j] = "sent" => j \in reached'[m]
                 /\ \A j \in reached'[m] : page'[m][j] = "sent" \/ (page'[m][j] = "idle" /\ InForce(m)')
                 /\ m \notin {"redis", "storage"} /\ InForce(m)' => \E j \in reached'[m] : page'[m][j] = "idle"
      <4>1. reached'[m] \subseteq Sender /\ reached'[m] = reached[m] /\ InForce(m)' = InForce(m)
        BY <1>2, <2>5, <3>3
      <4>2. QED BY <3>1, <3>3, <4>1 DEF Windowed
    <3>4. QED BY <2>8, <2>9, <3>2, <3>3 DEF Windowed
  <2>11. QED BY <1>3, <2>2, <2>3, <2>10
<1>7. QED BY <1>4, <1>5, <1>6

-----------------------------------------------------------------------------
\* One helper: the row it adds is the last of its history, and of this moment.
LEMMA OneStep ==
  ASSUME WatchInv, NEW h \in Helpers, WatchOne(h)
  PROVE  WatchInv'
<1> USE DEF WatchInv
<1>1. PICK answer \in DOMAIN Seen[h], cut \in CutAt \cup {"none"} :
        LET state == Seen[h][answer]
            due   == cut = "none" /\ PageDue(h, state) IN
          /\ rows' = IF cut # "read" /\ LastState(h) # state
                     THEN rows \cup {[helper |-> h, state |-> state, at |-> time]} ELSE rows
          /\ downSince' = IF cut \in {"read", "row"} THEN downSince
                          ELSE [downSince EXCEPT ![h] = Since(h, state)]
          /\ alertedAt' = IF due THEN [alertedAt EXCEPT ![h] = time] ELSE alertedAt
          /\ torn' = IF cut = "row" THEN torn \cup {<<h, time>>} ELSE torn
          /\ sweep' = IF cut # "none" THEN NoSweep
                      ELSE [at |-> sweep.at + 1, alerted |-> IF due THEN sweep.alerted \cup {h} ELSE sweep.alerted]
  BY DEF WatchOne
<1> DEFINE state == Seen[h][answer]
           due   == cut = "none" /\ PageDue(h, state)
           new   == [helper |-> h, state |-> state, at |-> time]
           k     == sweep.at
<1>2. /\ k \in DOMAIN Watched /\ Watched[k] = h
      /\ UNCHANGED <<time, swept, stamp, page, lastPage, reached, downTicks, breaches>>
  BY DEF WatchOne
<1>3. state \in States
  BY KnownHelpers DEF Seen, PotSeen, SessionSeen, TunnelSeen, States
<1>4. /\ rows' \in {rows, rows \cup {new}}
      /\ cut # "read" /\ LastState(h) # state => rows' = rows \cup {new}
      /\ cut \in {"read", "row", "since", "none"}
      /\ downSince' = IF cut \in {"read", "row"} THEN downSince ELSE [downSince EXCEPT ![h] = Since(h, state)]
      /\ torn' = IF cut = "row" THEN torn \cup {<<h, time>>} ELSE torn
      /\ alertedAt' = IF due THEN [alertedAt EXCEPT ![h] = time] ELSE alertedAt
      /\ sweep' \in {NoSweep, [at |-> k + 1, alerted |-> IF due THEN sweep.alerted \cup {h} ELSE sweep.alerted]}
      /\ cut = "none" \/ sweep' = NoSweep
  BY <1>1
<1> HIDE DEF state
<1>5. /\ time \in Moment /\ time \in Nat /\ NoStamp \notin Nat /\ AlertAfter \in Nat /\ AlertCooldown \in Nat
      /\ k \in 1..Len(Watched) /\ Len(Watched) \in Nat /\ sweep.alerted \subseteq Helpers
      /\ downSince \in [Helpers -> Moment \cup {NoStamp}]
      /\ alertedAt \in [Helpers -> Moment \cup {NoStamp}]
      /\ \A g \in Helpers : lastPage[g] # NoStamp => lastPage[g] \in Nat
      /\ \A r \in rows : r.at \in Nat /\ r.helper \in Helpers
  <2>1. /\ time \in Moment /\ sweep.alerted \subseteq Helpers
        /\ downSince \in [Helpers -> Moment \cup {NoStamp}]
        /\ alertedAt \in [Helpers -> Moment \cup {NoStamp}]
        /\ \A g \in Helpers : lastPage[g] \in Moment \cup {NoStamp}
        /\ \A r \in rows : r.at \in Moment /\ r.helper \in Helpers
    BY DEF HelperWatchTypeOK
  <2>2. /\ NoStamp \notin Nat /\ AlertAfter \in Nat /\ AlertCooldown \in Nat /\ Moment \subseteq Nat
        /\ k \in 1..Len(Watched) /\ Len(Watched) \in Nat
    BY <1>2
  <2>3. QED BY <2>1, <2>2
<1>6. \A i \in DOMAIN Watched : Watched[i] = h => i = k
  BY <1>2 DEF IsInjective
<1>7. /\ swept /\ h \notin sweep.alerted
      /\ \A r \in RowsOf(h) : r.at < time
  <2>1. swept /\ h \notin sweep.alerted
    BY <1>2, <1>5, <1>6 DEF Dated, Alerted
  <2>2. ASSUME NEW r \in RowsOf(h) PROVE r.at < time
    <3>1. r \in rows /\ r.helper = h
      BY DEF RowsOf
    <3>2. r.at <= time /\ r.at # time
      BY <1>2, <1>5, <3>1 DEF Dated
    <3>3. QED BY <1>5, <3>1, <3>2
  <2>3. QED BY <2>1, <2>2
<1>8. /\ Since(h, state) \in Moment \cup {NoStamp}
      /\ state \in failing => Since(h, state) # NoStamp
      /\ Since(h, state) # NoStamp => state \in failing /\ (Since(h, state) = downSince[h] \/ Since(h, state) = time)
      /\ Since(h, state) # NoStamp /\ downSince[h] # NoStamp => Since(h, state) = downSince[h]
      /\ Since(h, state) # NoStamp /\ downSince[h] = NoStamp => Since(h, state) = time
  BY <1>5 DEF Since
<1>9. HelperWatchTypeOK'
  <2>1. new \in [helper : Helpers, state : States, at : Moment]
    BY <1>3, <1>5
  <2>2. rows' \subseteq [helper : Helpers, state : States, at : Moment]
    BY <1>4, <2>1 DEF HelperWatchTypeOK
  <2>3. sweep' \in [at : 0..Len(Watched) + 1, alerted : SUBSET Helpers]
    BY <1>4, <1>5 DEF NoSweep
  <2>4. downSince' \in [Helpers -> Moment \cup {NoStamp}] /\ alertedAt' \in [Helpers -> Moment \cup {NoStamp}]
    BY <1>4, <1>5, <1>8
  <2>5. torn' \subseteq Helpers \X Moment
    BY <1>4, <1>5 DEF HelperWatchTypeOK
  <2>6. QED BY <1>2, <2>2, <2>3, <2>4, <2>5 DEF HelperWatchTypeOK
<1>10. \A r \in rows : \/ Later(r)' = Later(r)
                       \/ r.helper = h /\ Later(r)' = Later(r) \cup {new} /\ new \in rows'
  <2>1. new.helper = h /\ new.at = time
    OBVIOUS
  <2>2. CASE rows' = rows
    BY <2>2 DEF Later, RowsOf
  <2>3. CASE rows' = rows \cup {new}
    <3> SUFFICES ASSUME NEW r \in rows
                 PROVE  IF r.helper = h THEN Later(r)' = Later(r) \cup {new} ELSE Later(r)' = Later(r)
      BY <2>3
    <3>1. CASE r.helper = h
      <4>1. r.at < time
        BY <1>7, <3>1 DEF RowsOf
      <4>2. QED BY <2>1, <2>3, <3>1, <4>1 DEF Later, RowsOf
    <3>2. CASE r.helper # h
      BY <2>1, <2>3, <3>2 DEF Later, RowsOf
    <3>3. QED BY <3>1, <3>2
  <2>4. QED BY <1>4, <2>2, <2>3
<1>11. Dated'
  <2>1. \A r \in rows' : r \in rows \/ r = new
    BY <1>4
  <2>2. \A r \in rows' : r.at <= time
    BY <1>5, <2>1 DEF Dated
  <2>3. \A r \in rows : r.helper = h => r.at # time
    BY <1>5, <1>7 DEF RowsOf
  <2>4. \A r, q \in rows' : r.helper = q.helper /\ r.at = q.at => r = q
    BY <2>1, <2>3 DEF Dated
  <2>5. ASSUME NEW r \in rows', r.at = time, NEW i \in DOMAIN Watched, Watched[i] = r.helper
        PROVE  i < sweep'.at \/ sweep'.at = 0
    <3>1. i \in Nat /\ i <= k
      <4>1. CASE r \in rows
        BY <1>5, <2>5, <4>1 DEF Dated
      <4>2. CASE r = new
        BY <1>5, <1>6, <2>5, <4>2
      <4>3. QED BY <2>1, <4>1, <4>2
    <3>2. QED BY <1>4, <1>5, <3>1 DEF NoSweep
  <2>6. QED BY <1>2, <1>7, <2>2, <2>4, <2>5 DEF Dated
<1>12. Recorded'
  <2> SUFFICES ASSUME NEW r \in rows', NEW t \in Moment, r.state = "down", r.at <= t, t < time,
                      \A q \in Later(r)' : q.at <= t => q.state = "down"
               PROVE  <<r.helper, t>> \in downTicks
    BY <1>2 DEF Recorded
  <2>1. r # new
    BY <1>5
  <2>2. r \in rows /\ Later(r) \subseteq Later(r)'
    BY <1>4, <1>10, <2>1
  <2>3. QED BY <2>2 DEF Recorded
<1>13. Clocked'
  <2> SUFFICES ASSUME NEW g \in Helpers, downSince'[g] # NoStamp
               PROVE  /\ downSince'[g] <= time
                      /\ \A r \in RowsOf(g)' : \/ r.state \in failing \/ <<g, r.at>> \in torn'
                                               \/ \E q \in Later(r)' : q.at <= downSince'[g]
    BY <1>2 DEF Clocked
  <2>7. torn \subseteq torn'
    BY <1>4
  <2>1. CASE downSince'[g] = downSince[g] /\ RowsOf(g)' = RowsOf(g)
    <3>1. \A r \in RowsOf(g) : Later(r) \subseteq Later(r)'
      BY <1>10 DEF RowsOf
    <3>2. QED BY <2>1, <2>7, <3>1 DEF Clocked
  <2>2. CASE g # h
    <3>1. downSince'[g] = downSince[g] /\ RowsOf(g)' = RowsOf(g)
      BY <1>4, <1>5, <2>2 DEF RowsOf
    <3>2. QED BY <2>1, <3>1
  <2>3. CASE g = h /\ cut = "read"
    <3>1. rows' = rows
      BY <1>1, <2>3
    <3>2. QED BY <1>4, <2>1, <2>3, <3>1 DEF RowsOf
  <2>6. CASE g = h /\ cut = "row"
    <3>1. downSince'[h] = downSince[h] /\ <<h, time>> \in torn'
      BY <1>4, <2>6
    <3>2. \A r \in RowsOf(h)' : r \in RowsOf(h) \/ r = new
      BY <1>4 DEF RowsOf
    <3>3. \A r \in RowsOf(h) : Later(r) \subseteq Later(r)'
      BY <1>10 DEF RowsOf
    <3>4. new.at = time
      OBVIOUS
    <3>5. QED BY <2>6, <2>7, <3>1, <3>2, <3>3, <3>4 DEF Clocked
  <2>4. CASE g = h /\ cut \notin {"read", "row"}
    <3>1. downSince'[h] = Since(h, state) /\ Since(h, state) # NoStamp /\ state \in failing
      BY <1>4, <1>5, <1>8, <2>4
    <3>2. \A r \in RowsOf(h)' : r \in RowsOf(h) \/ r = new
      BY <1>4 DEF RowsOf
    <3>3. new.state \in failing
      BY <3>1
    <3>4. CASE downSince[h] # NoStamp
      <4>1. downSince'[h] = downSince[h]
        BY <1>8, <3>1, <3>4
      <4>2. \A r \in RowsOf(h) : Later(r) \subseteq Later(r)'
        BY <1>10 DEF RowsOf
      <4>3. QED BY <2>4, <2>7, <3>2, <3>3, <3>4, <4>1, <4>2 DEF Clocked
    <3>5. CASE downSince[h] = NoStamp
      <4>1. downSince'[h] = time
        BY <1>8, <3>1, <3>5
      <4>2. ASSUME NEW r \in RowsOf(h), r.state \notin failing
            PROVE  \E q \in Later(r)' : q.at <= time
        <5>1. CASE LastState(h) = state
          <6>1. PICK l \in RowsOf(h) : LastState(h) = l.state /\ \A q \in RowsOf(h) : q # l => l \in Later(q)
            BY LastRow
          <6>2. l \in Later(r)
            BY <3>1, <4>2, <5>1, <6>1
          <6>3. l \in Later(r)' /\ l.at <= time
            BY <1>10, <6>2 DEF RowsOf, Dated
          <6>4. QED BY <6>3
        <5>2. CASE LastState(h) # state
          <6>1. rows' = rows \cup {new}
            BY <1>4, <2>4, <5>2
          <6>2. new \in Later(r)'
            BY <1>7, <6>1 DEF Later, RowsOf
          <6>3. QED BY <1>5, <6>2
        <5>3. QED BY <5>1, <5>2
      <4>3. QED BY <1>5, <2>4, <3>2, <3>3, <4>1, <4>2
    <3>6. QED BY <3>4, <3>5
  <2>5. QED BY <2>2, <2>3, <2>4, <2>6
<1>14. Alerted'
  <2>1. due => /\ downSince'[h] # NoStamp /\ time - downSince'[h] >= AlertAfter
               /\ alertedAt'[h] = time /\ Passed(lastPage[h], AlertCooldown)
    <3> SUFFICES ASSUME due PROVE /\ downSince'[h] # NoStamp /\ time - downSince'[h] >= AlertAfter
                                  /\ alertedAt'[h] = time /\ Passed(lastPage[h], AlertCooldown)
      OBVIOUS
    <3>1. /\ cut = "none" /\ state \in failing
          /\ Passed(Since(h, state), AlertAfter) /\ Passed(alertedAt[h], AlertCooldown)
      BY DEF PageDue
    <3>2. downSince'[h] = Since(h, state) /\ alertedAt'[h] = time
      BY <1>4, <1>5, <3>1
    <3>3. downSince'[h] # NoStamp /\ time - downSince'[h] >= AlertAfter
      BY <1>8, <3>1, <3>2 DEF Passed
    <3>4. lastPage[h] # NoStamp => alertedAt[h] # NoStamp /\ lastPage[h] <= alertedAt[h] /\ alertedAt[h] <= time
      BY DEF Stamped
    <3>5. (alertedAt[h] # NoStamp => alertedAt[h] \in Nat) /\ (lastPage[h] # NoStamp => lastPage[h] \in Nat)
      BY <1>5
    <3>6. Passed(lastPage[h], AlertCooldown)
      BY <1>5, <3>1, <3>4, <3>5 DEF Passed
    <3>7. QED BY <3>2, <3>3, <3>6
  <2>2. ASSUME NEW g \in sweep'.alerted
        PROVE  /\ \E i \in DOMAIN Watched : Watched[i] = g /\ i < sweep'.at
               /\ downSince'[g] # NoStamp /\ time - downSince'[g] >= AlertAfter
               /\ alertedAt'[g] = time /\ Passed(lastPage[g], AlertCooldown)
    <3>1. sweep'.at = k + 1 /\ (g \in sweep.alerted \/ (due /\ g = h))
      BY <1>4, <2>2 DEF NoSweep
    <3>2. CASE g \in sweep.alerted
      <4>1. g # h /\ g \in Helpers
        BY <1>5, <1>7, <3>2
      <4>2. downSince'[g] = downSince[g] /\ alertedAt'[g] = alertedAt[g]
        BY <1>4, <1>5, <4>1
      <4>3. \E i \in DOMAIN Watched : Watched[i] = g /\ i < k
        BY <3>2 DEF Alerted
      <4>4. \E i \in DOMAIN Watched : Watched[i] = g /\ i < sweep'.at
        BY <1>5, <3>1, <4>3
      <4>5. QED BY <3>2, <4>2, <4>4 DEF Alerted
    <3>3. CASE due /\ g = h
      BY <1>2, <1>5, <2>1, <3>1, <3>3
    <3>4. QED BY <3>1, <3>2, <3>3
  <2>3. QED BY <1>2, <2>2 DEF Alerted, Passed
<1>15. Stamped' /\ Windowed' /\ breaches' = {}
  <2>1. Stamped'
    <3> SUFFICES ASSUME NEW g \in Helpers, lastPage[g] # NoStamp
                 PROVE  alertedAt'[g] # NoStamp /\ lastPage[g] <= alertedAt'[g] /\ alertedAt'[g] <= time
      BY <1>2 DEF Stamped
    <3>1. alertedAt[g] # NoStamp /\ lastPage[g] <= alertedAt[g] /\ alertedAt[g] <= time /\ lastPage[g] \in Nat
      BY <1>5 DEF Stamped
    <3>2. alertedAt[g] \in Nat /\ alertedAt'[g] \in {alertedAt[g], time}
      BY <1>4, <1>5, <3>1
    <3>3. QED BY <1>5, <3>1, <3>2
  <2>2. Windowed' /\ breaches' = {}
    BY <1>2 DEF Windowed, InForce
  <2>3. QED BY <2>1, <2>2
<1>16. QED BY <1>9, <1>11, <1>12, <1>13, <1>14, <1>15

\* The digest counts only ticks the history holds.
LEMMA SummaryHolds ==
  ASSUME WatchInv, NEW h \in Helpers
  PROVE  Summary(h) <= Cardinality({t \in Moment : <<h, t>> \in downTicks /\ t + DigestDays >= time})
<1> DEFINE Held == {t \in Moment : <<h, t>> \in downTicks /\ t + DigestDays >= time}
<1>1. Down(h) \subseteq Held
  <2> SUFFICES ASSUME NEW t \in Down(h) PROVE t \in Held
    OBVIOUS
  <2>1. /\ t \in Moment /\ t < time
        /\ \E r \in RowsOf(h) : /\ InWindow(r) /\ r.state = "down" /\ r.at <= t
                                /\ \A q \in Later(r) : q.at <= t => q.state = "down"
    BY DEF Down
  <2>2. PICK r \in RowsOf(h) : /\ InWindow(r) /\ r.state = "down" /\ r.at <= t
                               /\ \A q \in Later(r) : q.at <= t => q.state = "down"
    BY <2>1
  <2>3. r \in rows /\ r.helper = h /\ r.at \in Nat /\ time \in Nat /\ r.at + DigestDays >= time
    BY <2>2 DEF RowsOf, InWindow, WatchInv, HelperWatchTypeOK
  <2>4. <<h, t>> \in downTicks
    BY <2>1, <2>2, <2>3 DEF WatchInv, Recorded
  <2>5. t + DigestDays >= time
    BY <2>1, <2>2, <2>3
  <2>6. QED BY <2>1, <2>4, <2>5
<1>2. IsFiniteSet(Held)
  <2>1. 0 \in Int /\ MaxTime \in Int
    OBVIOUS
  <2>2. IsFiniteSet(Moment)
    BY <2>1, FS_Interval
  <2>3. Held \subseteq Moment
    OBVIOUS
  <2>4. QED BY <2>2, <2>3, FS_Subset
<1> HIDE DEF Held
<1>3. Cardinality(Down(h)) <= Cardinality(Held)
  BY <1>1, <1>2, FS_Subset
<1>4. QED BY <1>3 DEF Summary, Held

\* The promises of the pages hold wherever a statement of a sweep fails, of any
\* number of senders, whichever stamps are lost and whatever is pruned (watch,
\* maybe_send_digest, maybe_send_early_alert, summary).
THEOREM PagesAreHonest == HelperWatchSpec => []PagesHonest
<1>1. HelperWatchInit => WatchInv
  BY InitWatch
<1>2. WatchInv /\ [HelperWatchNext]_helperVars => WatchInv'
  <2> SUFFICES ASSUME WatchInv, [HelperWatchNext]_helperVars PROVE WatchInv'
    OBVIOUS
  <2>1. CASE SweepNext
    BY <2>1, BeginsStep, SendsStep, PruneStep, CrashStep, OneStep DEF SweepNext
  <2>2. CASE NoticeNext
    BY <2>2, NoticeStep DEF NoticeNext
  <2>3. CASE WatchTick
    BY <2>3, TickStep
  <2>4. CASE UNCHANGED helperVars
    <3>1. Clocked' /\ Recorded'
      BY <2>4, SameRows DEF helperVars, WatchInv
    <3>2. HelperWatchTypeOK' /\ Dated' /\ breaches' = {}
      BY <2>4 DEF helperVars, WatchInv, HelperWatchTypeOK, Dated
    <3>3. Alerted' /\ Stamped'
      BY <2>4 DEF helperVars, WatchInv, Alerted, Stamped, Passed
    <3>4. Windowed'
      BY <2>4 DEF helperVars, WatchInv, Windowed, InForce
    <3>5. QED BY <3>1, <3>2, <3>3, <3>4 DEF WatchInv
  <2>5. QED BY <2>1, <2>2, <2>3, <2>4 DEF HelperWatchNext
<1>3. WatchInv => PagesHonest
  <2>1. WatchInv => \A n \in Notice \ {"redis", "storage"} : InForce(n) => reached[n] # {}
    BY DEF WatchInv, Windowed
  <2>2. QED BY <2>1, SummaryHolds DEF PagesHonest, WatchInv
<1>4. QED BY <1>1, <1>2, <1>3, PTL DEF HelperWatchSpec

-----------------------------------------------------------------------------
(* The types, wherever a statement fails.                                  *)

LEMMA WatchTypeStep ==
  HelperWatchTypeOK /\ [HelperWatchNext]_helperVars => HelperWatchTypeOK'
<1> SUFFICES ASSUME HelperWatchTypeOK, [HelperWatchNext]_helperVars PROVE HelperWatchTypeOK'
  OBVIOUS
<1>1. CASE UNCHANGED helperVars
  BY <1>1 DEF helperVars, HelperWatchTypeOK
<1>2. CASE WatchBegins \/ WatchCrash
  <2>1. sweep' \in [at : 0..Len(Watched) + 1, alerted : SUBSET Helpers]
    BY <1>2 DEF WatchBegins, WatchCrash, NoSweep
  <2>2. QED BY <1>2, <2>1 DEF WatchBegins, WatchCrash, HelperWatchTypeOK
<1>3. CASE WatchSends
  <2>1. sweep' \in [at : 0..Len(Watched) + 1, alerted : SUBSET Helpers]
    BY <1>3 DEF WatchSends, NoSweep
  <2>2. lastPage' \in [Helpers -> Moment \cup {NoStamp}]
    BY <1>3 DEF WatchSends, HelperWatchTypeOK
  <2>3. breaches' \subseteq {"crowded", "unfounded"}
    BY <1>3 DEF WatchSends, HelperWatchTypeOK
  <2>4. QED BY <1>3, <2>1, <2>2, <2>3 DEF WatchSends, HelperWatchTypeOK
<1>4. CASE Prune
  BY <1>4 DEF Prune, HelperWatchTypeOK
<1>5. CASE WatchTick
  <2>1. time' \in Moment
    BY <1>5 DEF WatchTick, HelperWatchTypeOK
  <2>2. downTicks' \subseteq Helpers \X Moment
    BY <1>5 DEF WatchTick, HelperWatchTypeOK
  <2>3. reached' \in [Notice -> SUBSET Sender]
    BY <1>5 DEF WatchTick, HelperWatchTypeOK
  <2>4. QED BY <1>5, <2>1, <2>2, <2>3 DEF WatchTick, HelperWatchTypeOK
<1>6. ASSUME NEW h \in Helpers, WatchOne(h) PROVE HelperWatchTypeOK'
  <2>1. PICK answer \in DOMAIN Seen[h], cut \in CutAt \cup {"none"} :
          LET state == Seen[h][answer]
              due   == cut = "none" /\ PageDue(h, state) IN
            /\ rows' = IF cut # "read" /\ LastState(h) # state
                       THEN rows \cup {[helper |-> h, state |-> state, at |-> time]} ELSE rows
            /\ downSince' = IF cut \in {"read", "row"} THEN downSince
                            ELSE [downSince EXCEPT ![h] = Since(h, state)]
            /\ alertedAt' = IF due THEN [alertedAt EXCEPT ![h] = time] ELSE alertedAt
            /\ torn' = IF cut = "row" THEN torn \cup {<<h, time>>} ELSE torn
            /\ sweep' = IF cut # "none" THEN NoSweep
                        ELSE [at |-> sweep.at + 1, alerted |-> IF due THEN sweep.alerted \cup {h} ELSE sweep.alerted]
    BY <1>6 DEF WatchOne
  <2> DEFINE state == Seen[h][answer]
  <2>2. state \in States
    BY KnownHelpers DEF Seen, PotSeen, SessionSeen, TunnelSeen, States
  <2>3. /\ rows' \in {rows, rows \cup {[helper |-> h, state |-> state, at |-> time]}}
        /\ downSince' \in {downSince, [downSince EXCEPT ![h] = Since(h, state)]}
        /\ alertedAt' \in {alertedAt, [alertedAt EXCEPT ![h] = time]}
        /\ torn' \in {torn, torn \cup {<<h, time>>}}
        /\ sweep' \in {NoSweep, [at |-> sweep.at + 1, alerted |-> sweep.alerted],
                       [at |-> sweep.at + 1, alerted |-> sweep.alerted \cup {h}]}
    BY <2>1
  <2> HIDE DEF state
  <2>4. /\ time \in Moment /\ sweep.alerted \subseteq Helpers
        /\ downSince \in [Helpers -> Moment \cup {NoStamp}]
        /\ alertedAt \in [Helpers -> Moment \cup {NoStamp}]
    BY DEF HelperWatchTypeOK
  <2>5. Len(Watched) \in Nat /\ sweep.at \in 1..Len(Watched)
    BY <1>6 DEF WatchOne
  <2>6. sweep.at + 1 \in 0..Len(Watched) + 1 /\ 0 \in 0..Len(Watched) + 1
    BY <2>5
  <2>7. sweep' \in [at : 0..Len(Watched) + 1, alerted : SUBSET Helpers]
    <3>1. NoSweep \in [at : 0..Len(Watched) + 1, alerted : SUBSET Helpers]
      BY <2>6 DEF NoSweep
    <3>2. \A a \in SUBSET Helpers :
            [at |-> sweep.at + 1, alerted |-> a] \in [at : 0..Len(Watched) + 1, alerted : SUBSET Helpers]
      BY <2>6
    <3>3. sweep.alerted \in SUBSET Helpers /\ sweep.alerted \cup {h} \in SUBSET Helpers
      BY <2>4
    <3>4. QED BY <2>3, <3>1, <3>2, <3>3
  <2>8. rows' \subseteq [helper : Helpers, state : States, at : Moment]
    BY <2>2, <2>3, <2>4 DEF HelperWatchTypeOK
  <2>9. Since(h, state) \in Moment \cup {NoStamp}
    BY <2>4 DEF Since
  <2>10. downSince' \in [Helpers -> Moment \cup {NoStamp}] /\ alertedAt' \in [Helpers -> Moment \cup {NoStamp}]
    <3>1. downSince' \in [Helpers -> Moment \cup {NoStamp}]
      BY <2>3, <2>4, <2>9
    <3>2. alertedAt' \in [Helpers -> Moment \cup {NoStamp}]
      BY <2>3, <2>4
    <3>3. QED BY <3>1, <3>2
  <2>11. UNCHANGED <<time, swept, stamp, page, lastPage, reached, downTicks, breaches>>
    BY <1>6 DEF WatchOne
  <2>12. torn' \subseteq Helpers \X Moment
    BY <2>3, <2>4 DEF HelperWatchTypeOK
  <2>13. QED BY <2>7, <2>8, <2>10, <2>11, <2>12 DEF HelperWatchTypeOK
<1>7. ASSUME NEW n \in Notice, NEW k \in Sender,
             NoticeDue(n, k) \/ NoticeSent(n, k) \/ NoticeStamps(n, k)
      PROVE  HelperWatchTypeOK'
  <2>1. UNCHANGED <<time, swept, rows, downSince, alertedAt, sweep, lastPage, torn, downTicks>>
    BY <1>7 DEF NoticeDue, NoticeSent, NoticeStamps
  <2>2. /\ time \in Moment /\ page \in [Notice -> [Sender -> {"idle", "due", "sent", "unsent"}]]
        /\ stamp \in [Notice -> Moment \cup {NoStamp}]
        /\ reached \in [Notice -> SUBSET Sender]
    BY DEF HelperWatchTypeOK
  <2>3. page' \in [Notice -> [Sender -> {"idle", "due", "sent", "unsent"}]]
    BY <1>7, <2>2 DEF NoticeDue, NoticeSent, NoticeStamps
  <2>4. stamp' \in {stamp, [stamp EXCEPT ![n] = time]}
        /\ reached' \in {reached, [reached EXCEPT ![n] = @ \cup {k}], [reached EXCEPT ![n] = @ \ {k}]}
    BY <1>7 DEF NoticeDue, NoticeSent, NoticeStamps
  <2>5. stamp' \in [Notice -> Moment \cup {NoStamp}] /\ reached' \in [Notice -> SUBSET Sender]
    BY <2>2, <2>4
  <2>6. breaches' \subseteq breaches \cup {"crowded"}
    BY <1>7 DEF NoticeDue, NoticeSent, NoticeStamps
  <2>7. QED BY <2>1, <2>3, <2>5, <2>6 DEF HelperWatchTypeOK
<1>8. QED
  BY <1>1, <1>2, <1>3, <1>4, <1>5, <1>6, <1>7 DEF HelperWatchNext, SweepNext, NoticeNext

LEMMA HelperWatchTyped == HelperWatchSpec => []HelperWatchTypeOK
<1>1. HelperWatchInit => HelperWatchTypeOK
  BY InitWatch DEF WatchInv
<1>2. QED BY <1>1, WatchTypeStep, PTL DEF HelperWatchSpec

\* The types of the services, each with the bounds the code keeps: what waits
\* for a restore is within its cap, the copies of an item are at most two, one
\* attempt of a job is waited for (MCServices).
THEOREM ServicesTypes == Spec => []ServicesTypeOK
<1>1. QED
  BY ServicesAreParts, EnginesTyped, ProbeTyped, DeliveryTyped, RestoreTyped, CookiesTyped,
     MembershipTyped, HelperWatchTyped, MenuTyped, LifecycleTyped, DoctorTyped, SongsTyped,
     FilesTyped, PTL DEF ServicesTypeOK
=============================================================================
