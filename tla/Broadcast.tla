----------------------------- MODULE Broadcast -----------------------------
(***************************************************************************)
(* services/broadcast.py and the announcement flow of handlers/admin.py:   *)
(* a draft in the admin's FSM record, a confirmation, and one walk over    *)
(* the users in pages keyed past the last id. Accounts are their telegram  *)
(* ids, in order; new ones sign up while a walk runs. A handler of the     *)
(* Send button is a thread of its own: aiogram handles updates             *)
(* concurrently, so one admin may have two in the air.                     *)
(***************************************************************************)
EXTENDS Naturals, FiniteSets

CONSTANTS Account,    \* possible telegram ids, a set of positive numbers
          Admin,      \* admins, each with an FSM record
          SendTap,        \* handlers of the Send button that may overlap
          NoAdmin,    \* the handler is idle
          Signed,     \* the accounts there at the beginning
          PageSize,   \* BROADCAST_PAGE_SIZE
          MaxRuns     \* bound: broadcasts started in one behaviour

ASSUME BroadcastAssumption ==
  /\ Account \subseteq Nat \ {0}
  /\ IsFiniteSet(Account)
  /\ Signed \subseteq Account
  /\ PageSize \in Nat \ {0}
  /\ MaxRuns \in Nat
  /\ NoAdmin \notin Admin \cup SendTap

VARIABLES members,   \* the ids in users
          asking,    \* admins whose FSM state is AdminStates.broadcast
          drafted,   \* admins with an announcement in their FSM data
          tap,       \* per handler: whose tap it serves, where it stands
          lock,      \* _send_lock: the handler that holds it, or NoAdmin
          walk,      \* the locals of deliver
          got,       \* history: per account, messages of this run received
          audience,  \* history: the accounts there when the run started
          runs       \* broadcasts started so far

broadcastVars == <<members, asking, drafted, tap, lock, walk, got, audience, runs>>

Idle == [who |-> NoAdmin, at |-> "idle", text |-> FALSE]

EmptyWalk == [after |-> 0, page |-> {}, total |-> 0, sent |-> 0, blocked |-> 0,
              failed |-> 0, end |-> "running"]

Tally == 0..Cardinality(Account)

BroadcastTypeOK ==
  /\ members \subseteq Account
  /\ asking \subseteq Admin
  /\ drafted \subseteq Admin
  /\ tap \in [SendTap -> [who : Admin \cup {NoAdmin}, text : BOOLEAN,
                      at : {"idle", "read", "deliver", "walk"}]]
  /\ lock \in SendTap \cup {NoAdmin}
  /\ walk \in [after : Account \cup {0}, page : SUBSET Account, total : Tally,
               sent : Tally, blocked : Tally, failed : Tally,
               end : {"running", "finished", "aborted"}]
  /\ got \in [Account -> 0..2]
  /\ audience \subseteq Account
  /\ runs \in 0..MaxRuns

BroadcastInit ==
  /\ members = Signed
  /\ asking = {} /\ drafted = {}
  /\ tap = [h \in SendTap |-> Idle]
  /\ lock = NoAdmin
  /\ walk = [EmptyWalk EXCEPT !.end = "finished"]
  /\ got = [u \in Account |-> 0]
  /\ audience = {} /\ runs = 0

-----------------------------------------------------------------------------
(* The draft.                                                              *)

\* on_broadcast_start: the next message of this admin is the announcement.
AskText(a) ==
  /\ asking' = asking \cup {a}
  /\ UNCHANGED <<members, drafted, tap, lock, walk, got, audience, runs>>

\* on_broadcast_draft: kept in the FSM data and shown back with its buttons;
\* with nobody to reach the flow ends instead.
Draft(a) ==
  /\ a \in asking
  /\ IF members = {}
       THEN asking' = asking \ {a} /\ drafted' = drafted \ {a}
       ELSE drafted' = drafted \cup {a} /\ UNCHANGED asking
  /\ UNCHANGED <<members, tap, lock, walk, got, audience, runs>>

\* on_broadcast_cancel: the record is cleared.
CancelDraft(a) ==
  /\ a \in asking \cup drafted
  /\ asking' = asking \ {a}
  /\ drafted' = drafted \ {a}
  /\ UNCHANGED <<members, tap, lock, walk, got, audience, runs>>

-----------------------------------------------------------------------------
(* on_broadcast_send up to deliver.                                        *)

\* The announcement is read out of the FSM data.
SendRead(h, a) ==
  /\ tap[h].at = "idle"
  /\ tap' = [tap EXCEPT ![h] = [who |-> a, at |-> "read", text |-> a \in drafted]]
  /\ UNCHANGED <<members, asking, drafted, lock, walk, got, audience, runs>>

\* The record is cleared; a tap that found no draft ends here.
SendClear(h) ==
  /\ tap[h].at = "read"
  /\ asking' = asking \ {tap[h].who}
  /\ drafted' = drafted \ {tap[h].who}
  /\ tap' = [tap EXCEPT ![h] = IF @.text THEN [@ EXCEPT !.at = "deliver"] ELSE Idle]
  /\ UNCHANGED <<members, lock, walk, got, audience, runs>>

\* Another run is in flight: the draft goes back into the record.
SendBusy(h) ==
  /\ tap[h].at = "deliver"
  /\ lock # NoAdmin
  /\ asking' = asking \cup {tap[h].who}
  /\ drafted' = drafted \cup {tap[h].who}
  /\ tap' = [tap EXCEPT ![h] = Idle]
  /\ UNCHANGED <<members, lock, walk, got, audience, runs>>

\* The lock is free and taken in the same breath: the walk begins.
SendStart(h) ==
  /\ tap[h].at = "deliver"
  /\ lock = NoAdmin
  /\ runs < MaxRuns
  /\ lock' = h
  /\ walk' = EmptyWalk
  /\ audience' = members
  /\ got' = [u \in Account |-> 0]
  /\ runs' = runs + 1
  /\ tap' = [tap EXCEPT ![h].at = "walk"]
  /\ UNCHANGED <<members, asking, drafted>>

-----------------------------------------------------------------------------
(* deliver: pages keyed past the last id, one send per id.                 *)

\* Mutant: an OFFSET walk skips as many rows as were already handled.
PageAfterOffset(id) ==
  {u \in members :
     Cardinality({v \in members : v < u}) \in walk.total .. walk.total + PageSize - 1}

\* SELECT ... WHERE telegram_id > after ORDER BY telegram_id LIMIT page_size
PageAfter(id) ==
  {u \in members : u > id /\ Cardinality({v \in members : id < v /\ v < u}) < PageSize}

Walking(h) == tap[h].at = "walk" /\ walk.end = "running"

\* One page; after = page[-1] once it has been worked through. An empty page
\* ends the walk.
PageRead(h) ==
  /\ Walking(h)
  /\ walk.page = {}
  /\ LET page == PageAfter(walk.after) IN
       walk' = IF page = {} THEN [walk EXCEPT !.end = "finished"]
               ELSE [walk EXCEPT !.page = page,
                                 !.after = CHOOSE u \in page : \A v \in page : v <= u]
  /\ UNCHANGED <<members, asking, drafted, tap, lock, got, audience, runs>>

\* The database leaves mid-walk: the run stops where it stood.
PageFails(h) ==
  /\ Walking(h)
  /\ walk.page = {}
  /\ walk' = [walk EXCEPT !.end = "aborted"]
  /\ UNCHANGED <<members, asking, drafted, tap, lock, got, audience, runs>>

\* _send_one for the lowest id of the page: delivered (at once or after the
\* one wait Telegram asked for), refused for good, or failed; a send that
\* failed on its way back may have arrived all the same.
SendOne(h) ==
  /\ Walking(h)
  /\ \E u \in walk.page, outcome \in {"sent", "blocked", "failed"}, arrived \in BOOLEAN :
       /\ \A v \in walk.page : u <= v
       /\ outcome = "sent" => arrived
       /\ outcome = "blocked" => ~arrived
       /\ walk' = [walk EXCEPT !.page = @ \ {u}, !.total = @ + 1, ![outcome] = @ + 1]
       /\ got' = IF arrived THEN [got EXCEPT ![u] = @ + 1] ELSE got
  /\ UNCHANGED <<members, asking, drafted, tap, lock, audience, runs>>

\* The report is shown and the lock released.
SendReport(h) ==
  /\ tap[h].at = "walk"
  /\ walk.end # "running"
  /\ lock' = NoAdmin
  /\ tap' = [tap EXCEPT ![h] = Idle]
  /\ UNCHANGED <<members, asking, drafted, walk, got, audience, runs>>

\* get_or_create_user: somebody speaks to the bot for the first time.
SignUp(u) ==
  /\ u \notin members
  /\ members' = members \cup {u}
  /\ UNCHANGED <<asking, drafted, tap, lock, walk, got, audience, runs>>

RunStep(h) ==
  SendClear(h) \/ SendBusy(h) \/ SendStart(h) \/ PageRead(h) \/ PageFails(h)
    \/ SendOne(h) \/ SendReport(h)

BroadcastNext ==
  \/ \E a \in Admin : AskText(a) \/ Draft(a) \/ CancelDraft(a)
  \/ \E h \in SendTap : RunStep(h) \/ \E a \in Admin : SendRead(h, a)
  \/ \E u \in Account : SignUp(u)

BroadcastSpec ==
  /\ BroadcastInit /\ [][BroadcastNext]_broadcastVars
  /\ \A h \in SendTap : WF_broadcastVars(RunStep(h))

-----------------------------------------------------------------------------
\* A mass send cannot be taken back: in one run nobody gets the message twice,
\* whoever signs up meanwhile and however often Send is tapped; one run is
\* under way at a time; one that says it finished tried everybody who was there
\* when it started; and its report adds up (deliver, user_id_page, _send_lock).
BroadcastExact ==
  /\ \A g, h \in SendTap : tap[g].at = "walk" /\ tap[h].at = "walk" => g = h
  /\ \A u \in Account : got[u] <= 1
  /\ walk.total = walk.sent + walk.blocked + walk.failed
  /\ (walk.end = "finished" /\ runs > 0) =>
        Cardinality(audience) <= walk.total /\ walk.total <= Cardinality(members)
  /\ (walk.end = "finished" /\ walk.failed = 0 /\ walk.blocked = 0) =>
        \A u \in audience : got[u] = 1
=============================================================================
