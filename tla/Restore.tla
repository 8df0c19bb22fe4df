------------------------------ MODULE Restore ------------------------------
(***************************************************************************)
(* services/backup.py and the backup and restore handlers of               *)
(* handlers/admin.py: an uploaded file waits behind a nonce, one tap of    *)
(* the owner consumes it, the emergency backup is built and sent, and one  *)
(* transaction replaces the configuration. Other updates edit the          *)
(* configuration and the generated rows in between.                        *)
(***************************************************************************)
EXTENDS Naturals, FiniteSets

CONSTANTS Setting,      \* bot_state keys that is_backup_key lets through
          Generated,    \* bot_state keys it refuses: health stamps, secrets
          Version,      \* contents: of a row, and of bot_texts as a whole
          Missing,      \* no such row
          Uploads,      \* files the owner may send
          RestoreTap,   \* handlers of the confirmation that may overlap
          PendingTTL,   \* PENDING_TTL_S in ticks
          PendingCap,   \* _PENDING_CAP
          MaxNonce,     \* bound: files accepted in one behaviour
          MaxTick       \* bound: the clock

ASSUME RestoreAssumption ==
  /\ Setting \cap Generated = {}
  /\ Missing \notin Version /\ Version # {}
  /\ {PendingTTL, PendingCap, MaxNonce, MaxTick} \subseteq Nat \ {0}

Row  == Setting \cup Generated
Rows == [Row -> Version \cup {Missing}]

\* A backup file: the texts and the settings rows; what it does not name is Missing.
File == [texts : Version, state : Rows]

ASSUME UploadsAssumption == Uploads \subseteq File

VARIABLES config,       \* the tables: [texts, state]
          uploading,  \* the owner's FSM state is AdminStates.restore
          pending,    \* _pending: set of [nonce, expires, file]
          nonces,     \* nonces handed out so far
          clock,
          go,         \* per handler: place, nonce, the file to apply, the emergency file
          touched,    \* history: handlers whose emergency file is out of date
          uses,       \* history: per nonce, commits
          void,       \* history: nonces cancelled, or expired when tapped
          undoable    \* history: every commit so far could be undone

restoreVars == <<config, uploading, pending, nonces, clock, go, touched, uses, void, undoable>>

Blank == [texts |-> CHOOSE v \in Version : TRUE, state |-> [r \in Row |-> Missing]]
Unstarted  == [at |-> "idle", nonce |-> 0, file |-> Blank, safe |-> Blank]

RestoreTypeOK ==
  /\ config \in File
  /\ uploading \in BOOLEAN
  /\ pending \subseteq [nonce : 1..MaxNonce, expires : Nat, file : File]
  /\ Cardinality(pending) <= PendingCap
  /\ nonces \in 0..MaxNonce
  /\ clock \in 0..MaxTick
  /\ go \in [RestoreTap -> [at : {"idle", "texts", "state", "send", "apply", "sync"},
                            nonce : 0..MaxNonce, file : File, safe : File]]
  /\ touched \subseteq RestoreTap
  /\ uses \in [1..MaxNonce -> 0..2]
  /\ void \subseteq 1..MaxNonce
  /\ undoable \in BOOLEAN

RestoreInit ==
  /\ config = Blank
  /\ uploading = FALSE
  /\ pending = {} /\ nonces = 0 /\ clock = 0
  /\ go = [h \in RestoreTap |-> Unstarted]
  /\ touched = {} /\ uses = [n \in 1..MaxNonce |-> 0] /\ void = {}
  /\ undoable = TRUE

-----------------------------------------------------------------------------
(* What a file holds, and what applying one does.                          *)

\* build_backup: only the rows is_backup_key lets through.
Exported(rows) == [r \in Row |-> IF r \in Setting THEN rows[r] ELSE Missing]

\* validate_backup: a file that names a generated row is refused.
Acceptable(f) == \A r \in Generated : f.state[r] = Missing

\* Mutant: the whole table is replaced by the file's.
AppliedWhole(f, c) == f

\* apply_backup, replace_text_overrides, replace_state_rows: settings go back
\* to the file, the ones it does not name are dropped, the rest stays.
Applied(f, c) == [texts |-> f.texts,
                  state |-> [r \in Row |-> IF r \in Setting THEN f.state[r] ELSE c.state[r]]]

-----------------------------------------------------------------------------
(* The upload and its nonce.                                               *)

AskFile ==
  /\ uploading' = TRUE
  /\ UNCHANGED <<config, pending, nonces, clock, go, touched, uses, void, undoable>>

\* remember_pending: expired entries go, then the oldest beyond the cap.
Kept == {p \in pending : p.expires > clock}
Oldest(n, ps) == {p \in ps : Cardinality({q \in ps : q.nonce < p.nonce}) < n}

\* on_restore_upload: only a file that passes validation gets a nonce.
UploadFile(f) ==
  /\ uploading
  /\ nonces < MaxNonce
  /\ Acceptable(f)
  /\ LET crowd == Cardinality(Kept)
         drop  == IF crowd >= PendingCap THEN crowd - PendingCap + 1 ELSE 0
     IN pending' = (Kept \ Oldest(drop, Kept))
                     \cup {[nonce |-> nonces + 1, expires |-> clock + PendingTTL, file |-> f]}
  /\ nonces' = nonces + 1
  /\ UNCHANGED <<config, uploading, clock, go, touched, uses, void, undoable>>

\* on_restore_cancel: a preview's button names its nonce, the prompt's does not.
CancelRestore(n) ==
  /\ n \in 0..nonces
  /\ pending' = {p \in pending : p.nonce # n}
  /\ void' = IF n # 0 /\ uses[n] = 0 /\ \A h \in RestoreTap : go[h].nonce # n
              THEN void \cup {n} ELSE void
  /\ uploading' = FALSE
  /\ UNCHANGED <<config, nonces, clock, go, touched, uses, undoable>>

-----------------------------------------------------------------------------
(* on_restore_go.                                                          *)

\* take_pending: the pop decides which tap wins; an expired entry goes too.
TakePending(h, n) ==
  /\ go[h].at = "idle"
  /\ n \in 1..nonces
  /\ \E p \in pending :
       /\ p.nonce = n
       /\ pending' = pending \ {p}
       /\ IF p.expires > clock
            THEN /\ go' = [go EXCEPT ![h] = [Unstarted EXCEPT !.at = "texts", !.nonce = n,
                                                         !.file = p.file]]
                 /\ uploading' = FALSE
                 /\ UNCHANGED void
            ELSE void' = void \cup {n} /\ UNCHANGED <<go, uploading>>
  /\ touched' = touched \ {h}
  /\ UNCHANGED <<config, nonces, clock, uses, undoable>>

\* build_backup reads the texts, then the state rows.
ReadTexts(h) ==
  /\ go[h].at = "texts"
  /\ go' = [go EXCEPT ![h].at = "state", ![h].safe.texts = config.texts]
  /\ UNCHANGED <<config, uploading, pending, nonces, clock, touched, uses, void, undoable>>

ReadState(h) ==
  /\ go[h].at = "state"
  /\ go' = [go EXCEPT ![h].at = "send", ![h].safe.state = Exported(config.state)]
  /\ UNCHANGED <<config, uploading, pending, nonces, clock, touched, uses, void, undoable>>

\* The emergency file reaches the owner, or the restore is abandoned.
SendFile(h) ==
  /\ go[h].at = "send"
  /\ \/ go' = [go EXCEPT ![h].at = "apply"]
     \/ go' = [go EXCEPT ![h] = Unstarted]
  /\ UNCHANGED <<config, uploading, pending, nonces, clock, touched, uses, void, undoable>>

\* The transaction commits. Another handler's emergency file is stale now.
ApplyCommit(h) ==
  /\ go[h].at = "apply"
  /\ LET new == Applied(go[h].file, config) IN
       /\ config' = new
       /\ undoable' = (undoable /\ (h \in touched \/ Applied(go[h].safe, new) = config))
  /\ uses' = [uses EXCEPT ![go[h].nonce] = @ + 1]
  /\ touched' = touched \cup {g \in RestoreTap \ {h} : go[g].at # "idle"}
  /\ go' = [go EXCEPT ![h].at = "sync"]
  /\ UNCHANGED <<uploading, pending, nonces, clock, void>>

\* It fails and rolls back whole.
ApplyRollback(h) ==
  /\ go[h].at = "apply"
  /\ go' = [go EXCEPT ![h] = Unstarted]
  /\ UNCHANGED <<config, uploading, pending, nonces, clock, touched, uses, void, undoable>>

\* texts.restored and the closing words, whichever they are.
RestoreReport(h) ==
  /\ go[h].at = "sync"
  /\ go' = [go EXCEPT ![h] = Unstarted]
  /\ UNCHANGED <<config, uploading, pending, nonces, clock, touched, uses, void, undoable>>

-----------------------------------------------------------------------------
(* Everybody else.                                                         *)

\* Another update saves a text or a setting (set_text_override, set_state).
EditConf ==
  /\ \/ \E v \in Version : v # config.texts /\ config' = [config EXCEPT !.texts = v]
     \/ \E r \in Setting, v \in Version :
          v # config.state[r] /\ config' = [config EXCEPT !.state[r] = v]
  /\ touched' = touched \cup {h \in RestoreTap : go[h].at # "idle"}
  /\ UNCHANGED <<uploading, pending, nonces, clock, go, uses, void, undoable>>

\* The running bot stamps a generated row.
Stamp ==
  /\ \E r \in Generated, v \in Version :
       v # config.state[r] /\ config' = [config EXCEPT !.state[r] = v]
  /\ UNCHANGED <<uploading, pending, nonces, clock, go, touched, uses, void, undoable>>

RestoreTick ==
  /\ clock < MaxTick
  /\ clock' = clock + 1
  /\ UNCHANGED <<config, uploading, pending, nonces, go, touched, uses, void, undoable>>

RestoreNext ==
  \/ AskFile \/ RestoreTick \/ EditConf \/ Stamp
  \/ \E f \in Uploads : UploadFile(f)
  \/ \E n \in 0..MaxNonce : CancelRestore(n)
  \/ \E h \in RestoreTap :
       \/ \E n \in 1..MaxNonce : TakePending(h, n)
       \/ ReadTexts(h) \/ ReadState(h) \/ SendFile(h)
       \/ ApplyCommit(h) \/ ApplyRollback(h) \/ RestoreReport(h)

RestoreSpec == RestoreInit /\ [][RestoreNext]_restoreVars

-----------------------------------------------------------------------------
\* A confirmed file is applied at most once however many taps race for it and
\* never after it was cancelled or found expired; and unless somebody edited
\* the configuration meanwhile, the emergency file sent before each commit
\* brings back exactly what the commit replaced, generated rows included
\* (take_pending, build_backup, apply_backup, on_restore_go).
RestoreSafe ==
  /\ \A n \in 1..MaxNonce : uses[n] <= 1
  /\ \A n \in void : uses[n] = 0
  /\ undoable
=============================================================================
