--------------------------- MODULE DownloadMode ---------------------------
(***************************************************************************)
(* services/download_mode.py and the handlers of handlers/user.py that use *)
(* it, for one user: the section the user is in, the registry of running   *)
(* jobs that guards it, and the updates of that user, which are handled    *)
(* concurrently and meet at every await. A link is the section it belongs  *)
(* to, and may resolve to a link of another.                               *)
(*                                                                         *)
(* mode, url and waiting are the user's FSM record in Redis and survive a  *)
(* restart; the registry (active, seen) and the handlers do not. One       *)
(* update_data or clear of the FSM is one step.                            *)
(***************************************************************************)
EXTENDS Naturals, FiniteSets

CONSTANTS Section,      \* spotify, youtube, generic
          Shares,       \* sections with share links, which yt-dlp does not claim
          Handler,      \* updates of the user handled at once
          None,         \* NONE: no section, or no link
          MaxJobs,      \* bound: jobs enqueued in one behaviour
          MaxRestarts,  \* bound: restarts in one behaviour
          DepthFails    \* whether LLEN may raise after the LPUSH

ASSUME ModeAssumption == /\ None \notin Section /\ Shares \subseteq Section
                         /\ IsFiniteSet(Handler)
                         /\ MaxJobs \in Nat /\ MaxRestarts \in Nat
                         /\ DepthFails \in BOOLEAN

VARIABLES mode,     \* FSM data: download_mode
          url,      \* FSM data: the link a format menu asks about
          waiting,  \* FSM state is waiting_format
          active,   \* _ACTIVE: running jobs per section
          seen,     \* _SEEN: sections used since the session began
          pc,       \* per handler: the await it stands at
          what,     \* per handler: "tap", "link", "choice", "direct", "cancel"
          on,       \* per handler: the section of its tap or link
          snap,     \* per handler: what it last read of the FSM data
          live,     \* jobs of a section that are queued or being worked on
          jobs, restarts,
          blind,    \* history: sections with a live job the registry was not told of
          hasty     \* history: sections with a job settled before it was counted

fsm      == <<mode, url, waiting>>
registry == <<active, seen>>
frames   == <<pc, what, on, snap>>
world    == <<live, jobs, restarts, blind, hasty>>
vars     == <<fsm, registry, frames, world>>

Maybe == Section \cup {None}

Await == {"idle", "read", "judge", "unlock", "decide", "leaveStep", "setMode", "begin",
          "answer", "ask", "askLink", "clearRead", "clear", "restore", "submit",
          "pushed", "cancelClear", "cancelKeep"}

ModeTypeOK ==
  /\ mode \in Maybe /\ url \in Maybe /\ waiting \in BOOLEAN
  /\ active \in [Section -> 0..MaxJobs] /\ seen \subseteq Section
  /\ pc \in [Handler -> Await]
  /\ what \in [Handler -> {"none", "tap", "link", "choice", "stale", "direct", "cancel"}]
  /\ on \in [Handler -> Maybe]
  /\ snap \in [Handler -> [mode : Maybe, url : Maybe]]
  /\ live \in [Section -> 0..MaxJobs]
  /\ jobs \in 0..MaxJobs /\ restarts \in 0..MaxRestarts
  /\ blind \subseteq Section /\ hasty \subseteq Section

Forget == /\ active = [s \in Section |-> 0] /\ seen = {}
          /\ pc = [h \in Handler |-> "idle"]
          /\ what = [h \in Handler |-> "none"]
          /\ on = [h \in Handler |-> None]
          /\ snap = [h \in Handler |-> [mode |-> None, url |-> None]]

Init == /\ mode = None /\ url = None /\ waiting = FALSE
        /\ Forget
        /\ live = [s \in Section |-> 0] /\ jobs = 0 /\ restarts = 0
        /\ blind = {} /\ hasty = {}

has_active(s) == active[s] > 0
Compatible(m, s) == m = None \/ m = s

Goto(h, p) == pc' = [pc EXCEPT ![h] = p]
Begin(h, w, s, p) == /\ pc[h] = "idle"
                     /\ Goto(h, p)
                     /\ what' = [what EXCEPT ![h] = w]
                     /\ on' = [on EXCEPT ![h] = s]
Return(h) == /\ Goto(h, "idle")
             /\ what' = [what EXCEPT ![h] = "none"]
             /\ on' = [on EXCEPT ![h] = None]
             /\ snap' = [snap EXCEPT ![h] = [mode |-> None, url |-> None]]
ReadData(h) == snap' = [snap EXCEPT ![h] = [mode |-> mode, url |-> url]]
Remember(h, m) == snap' = [snap EXCEPT ![h].mode = m]

-----------------------------------------------------------------------------
(* The updates a user sends.                                               *)

\* A section button, a link, a retry or song button (no section check).
Tap(h, s)    == Begin(h, "tap", s, "read") /\ UNCHANGED <<fsm, registry, snap, world>>
Link(h, s)   == Begin(h, "link", s, "read") /\ UNCHANGED <<fsm, registry, snap, world>>
Direct(h, s) == Begin(h, "direct", s, "submit") /\ UNCHANGED <<fsm, registry, snap, world>>
Cancel(h)    == /\ Begin(h, "cancel", None, "cancelClear")
                /\ ReadData(h)
                /\ UNCHANGED <<fsm, registry, world>>

\* A tap on the live format menu: its link is read first.
Choose(h) == /\ waiting /\ url # None
             /\ Begin(h, "choice", url, "read")
             /\ UNCHANGED <<fsm, registry, snap, world>>

\* Home, the picker: whatever step was pending ends, the data stays.
Home(h) == /\ pc[h] = "idle" /\ waiting
           /\ waiting' = FALSE
           /\ UNCHANGED <<mode, url, registry, frames, world>>

-----------------------------------------------------------------------------
(* _maybe_auto_unlock: get_data, the registry, get_state, update_data.     *)

ReadMode(h) == /\ pc[h] = "read"
               /\ ReadData(h)
               /\ Goto(h, "judge")
               /\ UNCHANGED <<fsm, registry, what, on, world>>

\* Mutant: a used section unlocks whatever still runs.
StaysUntilUsed(m) == m = None \/ m \notin seen

\* The session stays: none is open, its jobs run, or it was never used.
Stays(m) == m = None \/ has_active(m) \/ m \notin seen

Judge(h) == /\ pc[h] = "judge"
            /\ Goto(h, IF Stays(snap[h].mode) THEN "decide" ELSE "unlock")
            /\ UNCHANGED <<fsm, registry, what, on, snap, world>>

\* A format menu that is still up keeps its section.
Unlock(h) == /\ pc[h] = "unlock"
             /\ IF waiting /\ snap[h].url # None
                THEN UNCHANGED <<mode, snap>>
                ELSE mode' = None /\ Remember(h, None)
             /\ Goto(h, "decide")
             /\ UNCHANGED <<url, waiting, registry, what, on, world>>

-----------------------------------------------------------------------------
(* on_menu_platform.                                                       *)

Busy(h) == LET m == snap[h].mode IN m \notin {None, on[h]} /\ has_active(m)

TapRefused(h) == /\ pc[h] = "decide" /\ what[h] = "tap" /\ Busy(h)
                 /\ Return(h)
                 /\ UNCHANGED <<fsm, registry, world>>

TapAllowed(h) == /\ pc[h] = "decide" /\ what[h] = "tap" /\ ~Busy(h)
                 /\ Goto(h, "leaveStep")
                 /\ UNCHANGED <<fsm, registry, what, on, snap, world>>

LeaveStep(h) == /\ pc[h] = "leaveStep"
                /\ waiting' = FALSE
                /\ Goto(h, "setMode")
                /\ UNCHANGED <<mode, url, registry, what, on, snap, world>>

SetMode(h) == /\ pc[h] = "setMode"
              /\ mode' = on[h]
              /\ Goto(h, "begin")
              /\ UNCHANGED <<url, waiting, registry, what, on, snap, world>>

BeginSession(h) == /\ pc[h] = "begin"
                   /\ seen' = {}
                   /\ Return(h)
                   /\ UNCHANGED <<fsm, active, world>>

-----------------------------------------------------------------------------
(* _intake_flow and on_format_chosen.                                      *)

LinkRefused(h) == /\ pc[h] = "decide" /\ what[h] = "link"
                  /\ ~Compatible(snap[h].mode, on[h])
                  /\ Return(h)
                  /\ UNCHANGED <<fsm, registry, world>>

\* Mutant: the section is not compared.
LinkAcceptedAnyway(h) == /\ pc[h] = "decide" /\ what[h] = "link"
                         /\ Goto(h, "answer")
                         /\ UNCHANGED <<fsm, registry, what, on, snap, world>>

\* Then resolving, the switches, the cache and the probe: the link is turned
\* away, asked about, or (one possible answer) submitted straight away.
LinkAccepted(h) == /\ pc[h] = "decide" /\ what[h] = "link"
                   /\ Compatible(snap[h].mode, on[h])
                   /\ Goto(h, "answer")
                   /\ UNCHANGED <<fsm, registry, what, on, snap, world>>

LinkTurnedAway(h) == /\ pc[h] = "answer"
                     /\ Return(h)
                     /\ UNCHANGED <<fsm, registry, world>>

\* A share or viewer link names its content somewhere else (_canonical_url),
\* and from here on the link is that one; nobody asks for its section again.
LinkAnswered(h) == /\ pc[h] = "answer"
                   /\ \E s \in Section : /\ s = on[h] \/ on[h] \in Shares
                                        /\ on' = [on EXCEPT ![h] = s]
                   /\ Goto(h, "ask") \/ Goto(h, "clearRead")
                   /\ UNCHANGED <<fsm, registry, what, snap, world>>

Ask(h) == /\ pc[h] = "ask"
          /\ waiting' = TRUE
          /\ Goto(h, "askLink")
          /\ UNCHANGED <<mode, url, registry, what, on, snap, world>>

AskLink(h) == /\ pc[h] = "askLink"
              /\ url' = on[h]
              /\ Return(h)
              /\ UNCHANGED <<mode, waiting, registry, world>>

\* A stale tap drops the menu and ends; a good one drops it and submits. A tap
\* that was never offered just ends.
Chosen(h) == /\ pc[h] = "decide" /\ what[h] = "choice"
             /\ Goto(h, "clearRead")
             /\ what' = [what EXCEPT ![h] =
                  IF Compatible(snap[h].mode, on[h]) THEN "choice" ELSE "stale"]
             /\ UNCHANGED <<fsm, registry, on, snap, world>>

NeverOffered(h) == /\ pc[h] = "decide" /\ what[h] = "choice"
                   /\ Compatible(snap[h].mode, on[h])
                   /\ Return(h)
                   /\ UNCHANGED <<fsm, registry, world>>

-----------------------------------------------------------------------------
(* _clear_format_state: read the mode, clear everything, put the mode back.*)

ClearRead(h) == /\ pc[h] = "clearRead"
                /\ ReadData(h)
                /\ Goto(h, "clear")
                /\ UNCHANGED <<fsm, registry, what, on, world>>

ClearFsm == mode' = None /\ url' = None /\ waiting' = FALSE

\* What follows the cleared menu.
AfterClear(h) == IF what[h] = "stale" THEN Return(h)
                                      ELSE Goto(h, "submit") /\ UNCHANGED <<what, on, snap>>

ClearFormat(h) == /\ pc[h] = "clear"
                  /\ ClearFsm
                  /\ IF snap[h].mode # None THEN Goto(h, "restore") /\ UNCHANGED <<what, on, snap>>
                                            ELSE AfterClear(h)
                  /\ UNCHANGED <<registry, world>>

RestoreMode(h) == /\ pc[h] = "restore"
                  /\ mode' = snap[h].mode
                  /\ AfterClear(h)
                  /\ UNCHANGED <<url, waiting, registry, world>>

-----------------------------------------------------------------------------
(* _submit: an earlier answer, or enqueue and then job_started.            *)

\* A double tap, a replay, no quota, a refusing preflight, a held claim.
NotQueued(h) == /\ pc[h] = "submit"
                /\ Return(h)
                /\ UNCHANGED <<fsm, registry, world>>

Enqueue(h) == /\ pc[h] = "submit" /\ jobs < MaxJobs
              /\ live' = [live EXCEPT ![on[h]] = @ + 1]
              /\ jobs' = jobs + 1
              /\ Goto(h, "pushed")
              /\ UNCHANGED <<fsm, registry, what, on, snap, restarts, blind, hasty>>

job_started(h) == /\ pc[h] = "pushed"
                  /\ active' = [active EXCEPT ![on[h]] = @ + 1]
                  /\ seen' = seen \cup {on[h]}
                  /\ Return(h)
                  /\ UNCHANGED <<fsm, world>>

\* The queue depth raises after the push: the handler ends with its error.
EnqueueRaises(h) == /\ DepthFails /\ pc[h] = "pushed"
                    /\ blind' = IF live[on[h]] > 0 THEN blind \cup {on[h]} ELSE blind
                    /\ Return(h)
                    /\ UNCHANGED <<fsm, registry, live, jobs, restarts, hasty>>

-----------------------------------------------------------------------------
(* /cancel.                                                                *)

CancelClear(h) == /\ pc[h] = "cancelClear"
                  /\ ClearFsm
                  /\ Goto(h, "cancelKeep")
                  /\ UNCHANGED <<registry, what, on, snap, world>>

CancelKeep(h) == /\ pc[h] = "cancelKeep"
                 /\ LET m == snap[h].mode IN
                      IF m # None /\ has_active(m) THEN mode' = m ELSE UNCHANGED mode
                 /\ Return(h)
                 /\ UNCHANGED <<url, waiting, registry, world>>

-----------------------------------------------------------------------------
(* The other side of the registry: the workers, and a restart.             *)

\* Handlers whose job is in the queue and not yet in the registry.
Uncounted(s) == Cardinality({h \in Handler : pc[h] = "pushed" /\ on[h] = s})

\* Mutants: the count is popped with its first job; a settled job stays counted.
job_settledAll(s) == /\ live[s] > 0
                     /\ live' = [live EXCEPT ![s] = @ - 1]
                     /\ active' = [active EXCEPT ![s] = 0]
                     /\ blind' = IF live[s] = 1 THEN blind \ {s} ELSE blind
                     /\ UNCHANGED <<fsm, seen, frames, jobs, restarts, hasty>>
job_settledKept(s) == /\ live[s] > 0
                      /\ live' = [live EXCEPT ![s] = @ - 1]
                      /\ blind' = IF live[s] = 1 THEN blind \ {s} ELSE blind
                      /\ UNCHANGED <<fsm, registry, frames, jobs, restarts, hasty>>

\* _settle of a worker: one job fewer, never below zero. A job may settle while
\* its handler still waits for the queue depth, and then it is counted later.
job_settled(s) == /\ live[s] > 0
                  /\ live' = [live EXCEPT ![s] = @ - 1]
                  /\ active' = [active EXCEPT ![s] = IF @ = 0 THEN 0 ELSE @ - 1]
                  /\ blind' = IF live[s] = 1 THEN blind \ {s} ELSE blind
                  /\ hasty' = IF active[s] = 0 /\ Uncounted(s) > 0 THEN hasty \cup {s} ELSE hasty
                  /\ UNCHANGED <<fsm, seen, frames, jobs, restarts>>

\* The process starts anew: jobs are requeued, the registry is empty.
Restart == /\ restarts < MaxRestarts
           /\ restarts' = restarts + 1
           /\ active' = [s \in Section |-> 0] /\ seen' = {}
           /\ pc' = [h \in Handler |-> "idle"]
           /\ what' = [h \in Handler |-> "none"]
           /\ on' = [h \in Handler |-> None]
           /\ snap' = [h \in Handler |-> [mode |-> None, url |-> None]]
           /\ blind' = {s \in Section : live[s] > 0}
           /\ hasty' = {}
           /\ UNCHANGED <<fsm, live, jobs>>

Arrive(h) == (\E s \in Section : Tap(h, s) \/ Link(h, s) \/ Direct(h, s))
               \/ Choose(h) \/ Cancel(h) \/ Home(h)
AutoUnlock(h) == ReadMode(h) \/ Judge(h) \/ Unlock(h)
Platform(h) == TapRefused(h) \/ TapAllowed(h) \/ LeaveStep(h) \/ SetMode(h)
                 \/ BeginSession(h)
Intake(h) == LinkRefused(h) \/ LinkAccepted(h) \/ LinkTurnedAway(h) \/ LinkAnswered(h)
               \/ Ask(h) \/ AskLink(h) \/ Chosen(h) \/ NeverOffered(h)
ClearStep(h) == ClearRead(h) \/ ClearFormat(h) \/ RestoreMode(h)
Submit(h) == NotQueued(h) \/ Enqueue(h) \/ job_started(h) \/ EnqueueRaises(h)
CancelStep(h) == CancelClear(h) \/ CancelKeep(h)

Next == \/ \E h \in Handler : Arrive(h) \/ AutoUnlock(h) \/ Platform(h) \/ Intake(h)
                                \/ ClearStep(h) \/ Submit(h) \/ CancelStep(h)
        \/ \E s \in Section : job_settled(s)
        \/ Restart

Spec == Init /\ [][Next]_vars

-----------------------------------------------------------------------------
(* What the sections must keep true.                                       *)

\* The registry never forgets a job it was told of: every live job of a section
\* is counted, but for the pushes whose handler has not come back from the
\* queue; and after a restart it is right again once the old jobs are gone
\* (job_started after enqueue, job_settled clamped at zero).
CountCovers == \A s \in Section \ blind : active[s] + Uncounted(s) >= live[s]

\* Nor does it keep a job that is gone, which would lock the user out of the
\* other sections until a restart: what it counts, and will count when a handler
\* comes back from the queue, is live. One job settled before it was counted is
\* where the code breaks this (job_settled clamped at zero, then job_started).
NoPhantom == \A s \in Section \ hasty : active[s] + Uncounted(s) <= live[s]

\* No link slips into another section's session: a job that came from a link or
\* a menu is queued only under its own section, or under none (what the docstring
\* of download_mode.py says; the section is asked of the link as it was sent, and
\* the job is of the link it resolves to).
QueuedUnderItsSection ==
  \A h \in Handler :
       (what[h] \in {"link", "choice"} /\ pc[h] = "submit" /\ pc'[h] = "pushed")
          => mode \in {None, on[h]}
=============================================================================
