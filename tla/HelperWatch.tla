---------------------------- MODULE HelperWatch ----------------------------
(***************************************************************************)
(* The watch over the helper servers (services/helper_watch.py, with       *)
(* proxy_health.py and the probes of doctor.py) and the messages to the    *)
(* admins that are held back for a while: the weekly digest and the early  *)
(* alert (services/telemetry.py), the Redis and storage notices (main.py). *)
(* Rows and stamps are in Postgres and survive the process. A tick is long *)
(* against a sweep; any statement may fail and any message may be lost.    *)
(***************************************************************************)
EXTENDS Naturals, Sequences, FiniteSets, Functions

CONSTANTS Watched,     \* configured helpers, in the order of a sweep
          Notice,      \* messages of telemetry.py and main.py that may go out
          Sender,      \* workers and loops that may send one, of any process
          AlertAfter, AlertCooldown, NoticeWindow, DigestDays, KeepDays,  \* in ticks
          CutAt,       \* where a failing statement may end the look at one helper
          NoStamp,     \* the key is absent or empty
          MaxTime      \* bound: ticks

ASSUME HelperWatchAssumption ==
  /\ {AlertAfter, AlertCooldown, DigestDays, KeepDays, MaxTime} \subseteq Nat
  /\ NoticeWindow \in Nat \ {0}
  /\ Notice \subseteq {"digest", "early", "redis", "storage"}
  /\ Watched \in Seq({"pot", "session", "tunnel"}) /\ IsInjective(Watched)
  /\ NoStamp \notin Nat
  /\ CutAt \subseteq {"read", "row", "since"}
  /\ DigestDays <= KeepDays

\* What the probes of doctor.py and proxy_health.py make of an answer. A server
\* whose major version the plugin refuses, or a tunnel that leaves by the host's
\* own address, answers every question and is of no use.
PotSeen     == [silent |-> "down", error |-> "down", other_major |-> "drift", fits |-> "ok"]
SessionSeen == [silent |-> "down", no_token |-> "warming", token |-> "ok"]
TunnelSeen  == [silent |-> "down", untraced |-> "ok", on_warp |-> "ok", off_warp |-> "drift"]

\* observe
Seen == [pot |-> PotSeen, session |-> SessionSeen, tunnel |-> TunnelSeen]

States  == {"ok", "warming", "drift", "down"}
failing == {"down", "drift"}
Helpers == {Watched[i] : i \in DOMAIN Watched}
Moment  == 0..MaxTime
NoSweep == [at |-> 0, alerted |-> {}]

VARIABLES time, swept,  \* the time; whether this tick's sweep began
          rows,          \* helper_events; a helper has one row of a moment at most
          downSince, alertedAt,  \* bot_state, per helper
          sweep,         \* [at, alerted]: the helper the sweep is at
          stamp,         \* bot_state, per notice
          page,          \* per notice and sender: how far it is
          lastPage,      \* history: when each helper was last paged
          torn,          \* history: <<h, t>>: the look at h failed after the row
          reached,       \* history, per notice: who sent it in the window in
                         \* force, the stamp not being lost
          downTicks,     \* history: <<h, t>>: at t the last row of h said down
          breaches       \* history: which promises were broken

helperVars == <<time, swept, rows, downSince, alertedAt, sweep, stamp, page, lastPage,
                torn, reached, downTicks, breaches>>

HelperWatchTypeOK ==
  /\ time \in Moment /\ swept \in BOOLEAN
  /\ rows \subseteq [helper : Helpers, state : States, at : Moment]
  /\ downSince \in [Helpers -> Moment \cup {NoStamp}]
  /\ alertedAt \in [Helpers -> Moment \cup {NoStamp}]
  /\ sweep \in [at : 0..Len(Watched) + 1, alerted : SUBSET Helpers]
  /\ stamp \in [Notice -> Moment \cup {NoStamp}]
  /\ page \in [Notice -> [Sender -> {"idle", "due", "sent", "unsent"}]]
  /\ lastPage \in [Helpers -> Moment \cup {NoStamp}]
  /\ torn \subseteq Helpers \X Moment /\ downTicks \subseteq Helpers \X Moment
  /\ reached \in [Notice -> SUBSET Sender]
  /\ breaches \subseteq {"crowded", "unfounded"}

HelperWatchInit ==
  /\ time = 0 /\ swept = FALSE /\ rows = {}
  /\ downSince = [h \in Helpers |-> NoStamp] /\ alertedAt = [h \in Helpers |-> NoStamp]
  /\ sweep = NoSweep
  /\ stamp = [n \in Notice |-> NoStamp]
  /\ page = [n \in Notice |-> [k \in Sender |-> "idle"]]
  /\ lastPage = [h \in Helpers |-> NoStamp]
  /\ torn = {} /\ reached = [n \in Notice |-> {}]
  /\ downTicks = {} /\ breaches = {}

Passed(since, span) == since # NoStamp => time - since >= span

RowsOf(h) == {r \in rows : r.helper = h}
Later(r)  == {q \in RowsOf(r.helper) : r.at < q.at}
LastState(h) ==
  IF RowsOf(h) = {} THEN "none" ELSE (CHOOSE r \in RowsOf(h) : Later(r) = {}).state

-----------------------------------------------------------------------------
(* A sweep: watch of helper_watch.py.                                      *)

WatchBegins ==
  /\ sweep.at = 0 /\ ~swept
  /\ swept' = TRUE
  /\ sweep' = [at |-> 1, alerted |-> {}]
  /\ UNCHANGED <<time, rows, downSince, alertedAt, stamp, page, lastPage, torn, reached, downTicks, breaches>>

\* Mutant: the clock of an outage goes on after the helper came back.
SinceKept(h, state) == IF state \in failing /\ downSince[h] = NoStamp THEN time ELSE downSince[h]

\* The clock of an outage: set at its first sighting, cleared when it is over.
Since(h, state) ==
  IF state \notin failing THEN NoStamp
  ELSE IF downSince[h] = NoStamp THEN time ELSE downSince[h]

PageDue(h, state) == /\ state \in failing
                     /\ Passed(Since(h, state), AlertAfter) /\ Passed(alertedAt[h], AlertCooldown)

\* One helper: the row, the clock of the outage, the stamp of the page. A
\* statement that fails ends the sweep, with the pages it still owed.
WatchOne(h) ==
  /\ sweep.at \in DOMAIN Watched /\ Watched[sweep.at] = h
  /\ \E answer \in DOMAIN Seen[h], cut \in CutAt \cup {"none"} :
       LET state == Seen[h][answer]
           due   == cut = "none" /\ PageDue(h, state) IN
       /\ rows' = IF cut # "read" /\ LastState(h) # state
                  THEN rows \cup {[helper |-> h, state |-> state, at |-> time]} ELSE rows
       /\ downSince' = IF cut \in {"read", "row"} THEN downSince
                       ELSE [downSince EXCEPT ![h] = Since(h, state)]
       /\ alertedAt' = IF due THEN [alertedAt EXCEPT ![h] = time] ELSE alertedAt
       /\ torn' = IF cut = "row" THEN torn \cup {<<h, time>>} ELSE torn
       /\ sweep' = IF cut # "none" THEN NoSweep
                   ELSE [at |-> sweep.at + 1, alerted |-> IF due THEN sweep.alerted \cup {h} ELSE sweep.alerted]
  /\ UNCHANGED <<time, swept, stamp, page, lastPage, reached, downTicks, breaches>>

\* The history called the helper dead for all of the last AlertAfter ticks, but
\* for rows whose look never got to the clock.
DeadSince(h) ==
  \A r \in RowsOf(h) : r.state \in failing \/ <<h, r.at>> \in torn
                        \/ \E q \in Later(r) : q.at + AlertAfter <= time

\* The messages: one about what broke, one about what came back.
WatchSends ==
  /\ sweep.at = Len(Watched) + 1
  /\ lastPage' = [k \in DOMAIN lastPage |-> IF k \in sweep.alerted THEN time ELSE lastPage[k]]
  /\ breaches' = breaches \cup (IF \E h \in sweep.alerted : ~Passed(lastPage[h], AlertCooldown) THEN {"crowded"} ELSE {})
                    \cup (IF \E h \in sweep.alerted : ~DeadSince(h) THEN {"unfounded"} ELSE {})
  /\ sweep' = NoSweep
  /\ UNCHANGED <<time, swept, rows, downSince, alertedAt, stamp, page, torn, reached, downTicks>>

-----------------------------------------------------------------------------
(* The messages with a window: maybe_send_digest, maybe_send_early_alert,  *)
(* maybe_notify_redis_outage, maybe_notify_storage_degraded.               *)

InWindow(r) == r.at + DigestDays >= time

\* summary: the hours a helper was down in the window, each outage from the row
\* that says so to the next that does not, or to now.
Down(h) ==
  {t \in Moment : t < time /\ \E r \in RowsOf(h) :
     /\ InWindow(r) /\ r.state = "down" /\ r.at <= t
     /\ \A q \in Later(r) : q.at <= t => q.state = "down"}
Summary(h) == Cardinality(Down(h))

\* The window of the last stamp is not over.
InForce(n) == stamp[n] # NoStamp /\ time - stamp[n] < NoticeWindow

\* Whether there is something to say: failures that are counted elsewhere, or,
\* for the digest, an outage. The window is read from the stamp, by anybody who
\* may send: two workers may find the early alert due at once.
NoticeDue(n, k) ==
  /\ page[n][k] = "idle"
  /\ ~InForce(n)
  /\ page' = [page EXCEPT ![n][k] = "due"]
  /\ UNCHANGED <<time, swept, rows, downSince, alertedAt, sweep, stamp, lastPage, torn, reached, downTicks, breaches>>

NoticeSent(n, k) ==
  /\ page[n][k] = "due"
  /\ \/ /\ page' = [page EXCEPT ![n][k] = "sent"]
        /\ reached' = [reached EXCEPT ![n] = @ \cup {k}]
        /\ breaches' = IF k \in reached[n] THEN breaches \cup {"crowded"} ELSE breaches
     \/ page' = [page EXCEPT ![n][k] = "unsent"] /\ UNCHANGED <<reached, breaches>>
  /\ UNCHANGED <<time, swept, rows, downSince, alertedAt, sweep, stamp, lastPage, torn, downTicks>>

\* The digest and the early alert are stamped only when an admin was reached;
\* the notices of main.py whether or not. A stamp that fails is logged and lost,
\* like that of a process that dies before it.
NoticeStamps(n, k) ==
  /\ page[n][k] \in {"sent", "unsent"}
  /\ \E lost \in BOOLEAN :
       /\ stamp' = IF ~lost /\ (page[n][k] = "sent" \/ n \in {"redis", "storage"})
                   THEN [stamp EXCEPT ![n] = time] ELSE stamp
       /\ reached' = IF lost THEN [reached EXCEPT ![n] = @ \ {k}] ELSE reached
  /\ page' = [page EXCEPT ![n][k] = "idle"]
  /\ UNCHANGED <<time, swept, rows, downSince, alertedAt, sweep, lastPage, torn, downTicks, breaches>>

-----------------------------------------------------------------------------
\* prune_helper_events of the hourly sweep.
Prune ==
  /\ \E r \in rows : r.at + KeepDays < time
  /\ rows' = {r \in rows : r.at + KeepDays >= time}
  /\ UNCHANGED <<time, swept, downSince, alertedAt, sweep, stamp, page, lastPage, torn, reached, downTicks, breaches>>

\* The process dies and is started again: it keeps nothing.
WatchCrash ==
  /\ sweep # NoSweep
  /\ sweep' = NoSweep
  /\ UNCHANGED <<time, swept, rows, downSince, alertedAt, stamp, page, lastPage, torn, reached, downTicks, breaches>>

WatchTick ==
  /\ time < MaxTime /\ sweep = NoSweep /\ \A n \in Notice, k \in Sender : page[n][k] = "idle"
  /\ UNCHANGED <<rows, downSince, alertedAt, sweep, stamp, page, lastPage, torn, breaches>>
  /\ time' = time + 1 /\ swept' = FALSE
  /\ reached' = [n \in Notice |-> IF InForce(n)' THEN reached[n] ELSE {}]
  /\ downTicks' = downTicks \cup {<<h, time>> : h \in {h \in Helpers : LastState(h) = "down"}}

\* The sweeps and the notices share the clock only.
SweepNext  == WatchBegins \/ WatchSends \/ Prune \/ WatchCrash \/ \E h \in Helpers : WatchOne(h)
NoticeNext == \E n \in Notice, k \in Sender : NoticeDue(n, k) \/ NoticeSent(n, k) \/ NoticeStamps(n, k)

HelperWatchNext == SweepNext \/ NoticeNext \/ WatchTick

HelperWatchSpec == HelperWatchInit /\ [][HelperWatchNext]_helperVars

-----------------------------------------------------------------------------
\* A page is never sent within the cooldown of the last one, nor about a helper
\* the history calls fine within AlertAfter, unless the look that found it so
\* failed between the row and the clock. Nobody says a notice twice in a window,
\* unless the stamp of the first was lost: a window holds no more of them than
\* senders and lost stamps. The digest and the early alert spend a window only on
\* a message that arrived; and the digest counts no downtime the history does not
\* hold, however the sweeps were cut short and whatever was pruned (watch,
\* maybe_send_early_alert, maybe_send_digest, maybe_notify_redis_outage, summary).
PagesHonest ==
  /\ breaches = {}
  /\ \A n \in Notice \ {"redis", "storage"} : InForce(n) => reached[n] # {}
  /\ \A h \in Helpers :
       Summary(h) <= Cardinality({t \in Moment : <<h, t>> \in downTicks /\ t + DigestDays >= time})
=============================================================================
