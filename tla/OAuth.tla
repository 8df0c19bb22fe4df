------------------------------- MODULE OAuth -------------------------------
(***************************************************************************)
(* The device login of services/oauth.py as /oauth (handlers/admin.py)     *)
(* drives it: the service registers one flow at a time, a flow owns one    *)
(* child process, the child prints the code and waits until it is entered. *)
(* Every handler makes at most one flow, which bears its name.             *)
(***************************************************************************)
CONSTANTS Login,     \* handlers of /oauth that may overlap
          NoFlow     \* OAuthService._flow is None

VARIABLES flow,      \* OAuthService._flow
          child,     \* per flow: its process
          printed,   \* per flow: a code is in its sink
          step       \* per handler: where it stands

oauthVars == <<flow, child, printed, step>>

OAuthTypeOK ==
  /\ flow \in Login \cup {NoFlow}
  /\ child \in [Login -> {"none", "running", "exited"}]
  /\ printed \in [Login -> BOOLEAN]
  /\ step \in [Login -> {"idle", "opened", "waiting", "told", "running", "over"}]

OAuthInit ==
  /\ flow = NoFlow
  /\ child = [h \in Login |-> "none"]
  /\ printed = [h \in Login |-> FALSE]
  /\ step = [h \in Login |-> "idle"]

\* start: the flow is registered under the lock; a second one is refused.
StartFlow(h) ==
  /\ step[h] = "idle"
  /\ IF flow = NoFlow THEN flow' = h /\ step' = [step EXCEPT ![h] = "opened"]
                      ELSE flow' = flow /\ step' = [step EXCEPT ![h] = "over"]
  /\ UNCHANGED <<child, printed>>

\* The status message; when it cannot be sent the handler ends, and nothing
\* takes the flow out of the service again.
ShowStatus(h) ==
  /\ step[h] = "opened"
  /\ \E next \in {"waiting", "over"} : step' = [step EXCEPT ![h] = next]
  /\ UNCHANGED <<flow, child, printed>>

\* OAuthFlow.cancel, of a child that may not exist.
Cancelled(h) == child' = [child EXCEPT ![h] = IF @ = "running" THEN "exited" ELSE @]
Finished(h)  == flow' = IF flow = h THEN NoFlow ELSE flow

\* wait_for_code: a code, or thirty seconds without one.
CodeRead(h) ==
  /\ step[h] = "waiting" /\ printed[h]
  /\ step' = [step EXCEPT ![h] = "told"]
  /\ UNCHANGED <<flow, child, printed>>

NoCode(h) ==
  /\ step[h] = "waiting" /\ ~printed[h]
  /\ Cancelled(h) /\ Finished(h)
  /\ step' = [step EXCEPT ![h] = "over"]
  /\ UNCHANGED printed

\* OAuthFlow.run: only here the child is started.
RunFlow(h) ==
  /\ step[h] = "told"
  /\ child' = [child EXCEPT ![h] = "running"]
  /\ step' = [step EXCEPT ![h] = "running"]
  /\ UNCHANGED <<flow, printed>>

\* _read_stderr
ChildPrints(h) ==
  /\ child[h] = "running"
  /\ printed' = [printed EXCEPT ![h] = TRUE]
  /\ UNCHANGED <<flow, child, step>>

ChildEnds(h) ==
  /\ step[h] = "running"
  /\ child[h] = "running"
  /\ child' = [child EXCEPT ![h] = "exited"]
  /\ Finished(h)
  /\ step' = [step EXCEPT ![h] = "over"]
  /\ UNCHANGED printed

\* OAuthService.cancel, at shutdown.
ServiceCancels ==
  /\ flow # NoFlow
  /\ Cancelled(flow)
  /\ flow' = NoFlow
  /\ UNCHANGED <<printed, step>>

OAuthNext ==
  \/ \E h \in Login : \/ StartFlow(h) \/ ShowStatus(h) \/ CodeRead(h) \/ NoCode(h)
                      \/ RunFlow(h) \/ ChildPrints(h) \/ ChildEnds(h)
  \/ ServiceCancels

OAuthSpec == OAuthInit /\ [][OAuthNext]_oauthVars

-----------------------------------------------------------------------------
\* A handler waits for the code while the child that prints it is running:
\* the code reaches the chat the moment it is printed, and the flow is still
\* under way when the admin enters it (cmd_oauth, OAuthFlow.run).
CodeCanArrive ==
  \A h \in Login : step[h] = "waiting" /\ flow = h => child[h] = "running" \/ printed[h]
=============================================================================
