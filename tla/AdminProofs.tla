---------------------------- MODULE AdminProofs ----------------------------
(***************************************************************************)
(* Proofs about what the admins are offered: the restore of a backup, the  *)
(* jar of cookies and its imports, and the report of the doctor.           *)
(***************************************************************************)
EXTENDS Restore, Cookies, Doctor, TLAPS, FiniteSetTheorems

-----------------------------------------------------------------------------
(***************************************************************************)
(* RestoreSafe for any files, rows, racing confirmations and edits. A      *)
(* nonce is in one place: waiting, in the hand of one confirmation, used   *)
(* or void; and what an emergency file holds is what the tables hold until *)
(* somebody edits them.                                                    *)
(***************************************************************************)

Points  == {"idle", "texts", "state", "send", "apply", "sync"}
Going   == [at : Points, nonce : Nat, file : File, safe : File]
Waiting == [nonce : Nat, expires : Nat, file : File]

\* Types, but for the sizes of what is kept.
RestoreTypes ==
  /\ config \in File /\ pending \subseteq Waiting
  /\ nonces \in Nat /\ clock \in Nat
  /\ go \in [RestoreTap -> Going]
  /\ uses \in [1..MaxNonce -> 0..1]
  /\ void \subseteq Nat /\ touched \subseteq RestoreTap

\* A nonce that waits was given out, is used by nobody, and waits once.
WaitsOnce ==
  \A p \in pending :
    /\ p.nonce \in 1..nonces /\ uses[p.nonce] = 0 /\ p.nonce \notin void
    /\ \A q \in pending : q.nonce = p.nonce => q = p
    /\ \A h \in RestoreTap : go[h].nonce # p.nonce

\* One that was taken is in one hand, and unused until its commit.
HeldOnce ==
  \A h \in RestoreTap : go[h].at # "idle" =>
    /\ go[h].nonce \in 1..nonces /\ go[h].nonce \notin void
    /\ go[h].at # "sync" => uses[go[h].nonce] = 0
    /\ \A g \in RestoreTap \ {h} : go[g].nonce # go[h].nonce

IdleEmpty == \A h \in RestoreTap : go[h].at = "idle" => go[h].nonce = 0

\* The next nonce is new; a void one is never used.
Unspent ==
  /\ nonces <= MaxNonce
  /\ \A n \in 1..MaxNonce : n > nonces => uses[n] = 0
  /\ \A n \in void : n \in 1..nonces /\ uses[n] = 0

\* An emergency file nobody outdated is the tables' present configuration.
SafeFile ==
  \A h \in RestoreTap : h \notin touched =>
    /\ go[h].at \in {"state", "send", "apply"} => go[h].safe.texts = config.texts
    /\ go[h].at \in {"send", "apply"} =>
         \A r \in Setting : go[h].safe.state[r] = config.state[r]

RestoreInv ==
  RestoreTypes /\ WaitsOnce /\ HeldOnce /\ IdleEmpty /\ Unspent /\ SafeFile /\ undoable = TRUE

USE RestoreAssumption, UploadsAssumption

LEMMA BlankIsFile == Blank \in File
BY DEF Blank, File, Rows, Row

LEMMA UnstartedIsGoing == Unstarted \in Going /\ Unstarted.at = "idle" /\ Unstarted.nonce = 0
BY BlankIsFile DEF Unstarted, Going, Points

\* The other settings and the generated rows stay, the rest becomes the file's.
LEMMA AppliedIsFile ==
  ASSUME NEW f \in File, NEW c \in File
  PROVE  Applied(f, c) \in File
BY DEF Applied, File, Rows, Row

\* Applying what was exported undoes any file.
LEMMA AppliedBack ==
  ASSUME NEW f \in File, NEW c \in File, NEW s \in File, s.texts = c.texts,
         \A r \in Setting : s.state[r] = c.state[r]
  PROVE  Applied(s, Applied(f, c)) = c
BY DEF Applied, File, Rows, Row

LEMMA InitRestore == RestoreInit => RestoreInv
<1> SUFFICES ASSUME RestoreInit PROVE RestoreInv
  OBVIOUS
<1>1. RestoreTypes
  BY BlankIsFile, UnstartedIsGoing DEF RestoreInit, RestoreTypes
<1>2. \A h \in RestoreTap : go[h] = Unstarted
  BY DEF RestoreInit
<1>3. QED BY <1>1, <1>2, UnstartedIsGoing
          DEF RestoreInit, RestoreInv, WaitsOnce, HeldOnce, IdleEmpty, Unspent, SafeFile

-----------------------------------------------------------------------------
LEMMA UploadStep ==
  ASSUME RestoreInv, NEW f \in Uploads, UploadFile(f)
  PROVE  RestoreInv'
<1> DEFINE p0 == [nonce |-> nonces + 1, expires |-> clock + PendingTTL, file |-> f]
<1> USE DEF RestoreInv, RestoreTypes
<1>1. /\ pending' \subseteq pending \cup {p0} /\ nonces' = nonces + 1 /\ nonces < MaxNonce
      /\ UNCHANGED <<config, clock, go, touched, uses, void, undoable>>
  BY DEF UploadFile, Kept
<1>2. p0 \in Waiting /\ p0.nonce = nonces + 1
  BY DEF Waiting
<1>3. \A p \in pending : p.nonce \in Nat /\ p.nonce # p0.nonce
  BY <1>2 DEF WaitsOnce, Waiting
<1>4. uses[p0.nonce] = 0 /\ p0.nonce \notin void /\ \A h \in RestoreTap : go[h].nonce # p0.nonce
  <2>1. ASSUME NEW h \in RestoreTap PROVE go[h].nonce # p0.nonce
    BY <1>2 DEF HeldOnce, IdleEmpty, Going
  <2>2. QED BY <1>1, <1>2, <2>1 DEF Unspent
<1>5. RestoreTypes'
  BY <1>1, <1>2
<1>6. WaitsOnce'
  BY <1>1, <1>2, <1>3, <1>4 DEF WaitsOnce
<1>7. (HeldOnce /\ IdleEmpty /\ Unspent /\ SafeFile)'
  BY <1>1 DEF HeldOnce, IdleEmpty, Unspent, SafeFile
<1>8. QED BY <1>1, <1>5, <1>6, <1>7

LEMMA CancelStep ==
  ASSUME RestoreInv, NEW n \in 0..MaxNonce, CancelRestore(n)
  PROVE  RestoreInv'
<1> USE DEF RestoreInv, RestoreTypes
<1>1. /\ pending' = {p \in pending : p.nonce # n} /\ n \in 0..nonces
      /\ UNCHANGED <<config, nonces, clock, go, touched, uses, undoable>>
  BY DEF CancelRestore
<1>2. \/ void' = void
      \/ /\ void' = void \cup {n} /\ n # 0 /\ uses[n] = 0
         /\ \A h \in RestoreTap : go[h].nonce # n
  BY DEF CancelRestore
<1>3. pending' \subseteq pending /\ \A p \in pending' : p.nonce # n
  BY <1>1
<1>4. void' \subseteq Nat
  <2>1. n \in Nat
    BY <1>1
  <2>2. QED BY <1>2, <2>1
<1>5. RestoreTypes'
  BY <1>1, <1>3, <1>4
<1>6. IdleEmpty' /\ SafeFile' /\ undoable' = TRUE
  BY <1>1 DEF IdleEmpty, SafeFile
<1>7. WaitsOnce'
  BY <1>1, <1>2, <1>3 DEF WaitsOnce
<1>8. HeldOnce'
  BY <1>1, <1>2 DEF HeldOnce
<1>9. Unspent'
  <2>1. ASSUME NEW m \in void' PROVE m \in 1..nonces /\ uses[m] = 0
    <3>1. CASE m \in void
      BY <1>1, <3>1 DEF Unspent
    <3>2. CASE m \notin void
      <4>1. m = n /\ n # 0 /\ uses[n] = 0
        BY <1>2, <3>2
      <4>2. QED BY <1>1, <4>1
    <3>3. QED BY <3>1, <3>2
  <2>2. QED BY <1>1, <2>1 DEF Unspent
<1>10. QED BY <1>5, <1>6, <1>7, <1>8, <1>9

\* The tap that takes a nonce is the only one to have it.
LEMMA TakeStep ==
  ASSUME RestoreInv, NEW h \in RestoreTap, NEW n \in 1..MaxNonce, TakePending(h, n)
  PROVE  RestoreInv'
<1> USE DEF RestoreInv, RestoreTypes
<1>1. PICK p \in pending :
        /\ p.nonce = n /\ pending' = pending \ {p}
        /\ IF p.expires > clock
             THEN /\ go' = [go EXCEPT ![h] = [Unstarted EXCEPT !.at = "texts", !.nonce = n, !.file = p.file]]
                  /\ uploading' = FALSE
                  /\ UNCHANGED void
             ELSE void' = void \cup {n} /\ UNCHANGED <<go, uploading>>
  BY DEF TakePending
<1>2. /\ go[h].at = "idle" /\ touched' = touched \ {h}
      /\ UNCHANGED <<config, nonces, clock, uses, undoable>>
  BY DEF TakePending
<1>3. /\ n \in 1..nonces /\ uses[n] = 0 /\ n \notin void
      /\ \A g \in RestoreTap : go[g].nonce # n
      /\ \A q \in pending' : q.nonce # n
  BY <1>1 DEF WaitsOnce
<1>5. CASE p.expires > clock
  <2>0. /\ go' = [go EXCEPT ![h] = [at |-> "texts", nonce |-> n, file |-> p.file, safe |-> Blank]]
        /\ void' = void
    BY <1>1, <1>5 DEF Unstarted
  <2>1. /\ go' = [go EXCEPT ![h] = go'[h]] /\ void' = void
        /\ go'[h].at = "texts" /\ go'[h].nonce = n /\ go'[h] \in Going
    BY <2>0, BlankIsFile DEF Going, Points, Waiting
  <2>2. RestoreTypes'
    BY <1>1, <1>2, <2>1
  <2>3. WaitsOnce' /\ Unspent'
    BY <1>1, <1>2, <1>3, <2>1 DEF WaitsOnce, Unspent
  <2>4. HeldOnce' /\ IdleEmpty'
    BY <1>2, <1>3, <2>1 DEF HeldOnce, IdleEmpty
  <2>5. SafeFile'
    BY <1>2, <2>1 DEF SafeFile
  <2>6. QED BY <1>2, <2>2, <2>3, <2>4, <2>5
<1>6. CASE ~(p.expires > clock)
  <2>1. void' = void \cup {n} /\ go' = go
    BY <1>1, <1>6
  <2>2. RestoreTypes' /\ IdleEmpty'
    BY <1>1, <1>2, <2>1 DEF IdleEmpty
  <2>3. WaitsOnce' /\ HeldOnce' /\ Unspent'
    BY <1>1, <1>2, <1>3, <2>1 DEF WaitsOnce, HeldOnce, Unspent
  <2>4. SafeFile'
    BY <1>2, <2>1 DEF SafeFile
  <2>5. QED BY <1>2, <2>2, <2>3, <2>4
<1>7. QED BY <1>5, <1>6

\* A confirmation that moves on with its nonce, or lets go of it.
LEMMA GoStep ==
  ASSUME RestoreInv, NEW h \in RestoreTap, go' = [go EXCEPT ![h] = go'[h]], go'[h] \in Going,
         \/ go'[h] = Unstarted
         \/ /\ go[h].at # "idle" /\ go'[h].at # "idle" /\ go'[h].nonce = go[h].nonce
            /\ go[h].at = "sync" => go'[h].at = "sync"
            /\ h \notin touched => /\ go'[h].at \in {"state", "send", "apply"} => go'[h].safe.texts = config.texts
                                   /\ go'[h].at \in {"send", "apply"} =>
                                        \A r \in Setting : go'[h].safe.state[r] = config.state[r],
         UNCHANGED <<config, pending, nonces, clock, touched, uses, void, undoable>>
  PROVE  RestoreInv'
<1> USE DEF RestoreInv, RestoreTypes
<1>1. go'[h].nonce \in {0, go[h].nonce} /\ (go'[h].at = "idle" => go'[h].nonce = 0)
  BY UnstartedIsGoing
<1>2. RestoreTypes' /\ WaitsOnce' /\ Unspent'
  BY <1>1 DEF WaitsOnce, Unspent
<1>3. HeldOnce' /\ IdleEmpty'
  <2>1. go'[h].at # "idle" => go[h].at # "idle" /\ go'[h].nonce = go[h].nonce
    BY UnstartedIsGoing
  <2>2. ASSUME NEW g \in RestoreTap, go'[g].at # "idle"
        PROVE  /\ go[g].at # "idle" /\ go'[g].nonce = go[g].nonce
               /\ go'[g].at # "sync" => go[g].at # "sync"
    <3>1. CASE g = h
      BY <2>1, <2>2, <3>1, UnstartedIsGoing
    <3>2. CASE g # h
      BY <2>2, <3>2
    <3>3. QED BY <3>1, <3>2
  <2>5. \A g \in RestoreTap : go'[g].nonce \in {0, go[g].nonce}
    BY <1>1
  <2>6. ASSUME NEW g \in RestoreTap, go'[g].at # "idle"
        PROVE  /\ go'[g].nonce \in 1..nonces' /\ go'[g].nonce \notin void'
               /\ go'[g].at # "sync" => uses'[go'[g].nonce] = 0
               /\ \A f \in RestoreTap \ {g} : go'[f].nonce # go'[g].nonce
    <3>1. go[g].at # "idle" /\ go'[g].nonce = go[g].nonce /\ (go'[g].at # "sync" => go[g].at # "sync")
      BY <2>2, <2>6
    <3>2. /\ go[g].nonce \in 1..nonces /\ go[g].nonce \notin void
          /\ go[g].at # "sync" => uses[go[g].nonce] = 0
          /\ \A f \in RestoreTap \ {g} : go[f].nonce # go[g].nonce
      BY <3>1 DEF HeldOnce
    <3>3. go[g].nonce # 0
      BY <3>2
    <3>4. \A f \in RestoreTap \ {g} : go'[f].nonce # go'[g].nonce
      BY <2>5, <3>1, <3>2, <3>3
    <3>5. QED BY <3>1, <3>2, <3>4
  <2>7. HeldOnce'
    BY <2>6 DEF HeldOnce
  <2>3. IdleEmpty'
    BY <1>1 DEF IdleEmpty
  <2>4. QED BY <2>7, <2>3
<1>4. SafeFile'
  BY UnstartedIsGoing DEF SafeFile
<1>5. QED BY <1>2, <1>3, <1>4

LEMMA ReadStep ==
  ASSUME RestoreInv, NEW h \in RestoreTap,
         ReadTexts(h) \/ ReadState(h) \/ SendFile(h) \/ ApplyRollback(h) \/ RestoreReport(h)
  PROVE  RestoreInv'
<1> USE DEF RestoreInv, RestoreTypes
<1>1. go[h] \in Going /\ config \in File
  OBVIOUS
<1>2. CASE ReadTexts(h)
  <2>1. /\ go'[h] = [go[h] EXCEPT !.at = "state", !.safe = [@ EXCEPT !.texts = config.texts]]
        /\ go[h].at = "texts" /\ go' = [go EXCEPT ![h] = go'[h]]
    BY <1>2 DEF ReadTexts
  <2>2. /\ go'[h] \in Going /\ go'[h].at = "state" /\ go'[h].nonce = go[h].nonce
        /\ go'[h].safe.texts = config.texts
    <3>1. go[h].safe \in File /\ config.texts \in Version
      BY <1>1 DEF Going, File
    <3>2. [go[h].safe EXCEPT !.texts = config.texts] \in File
      BY <3>1 DEF File
    <3>3. [go[h].safe EXCEPT !.texts = config.texts].texts = config.texts
      BY <3>1 DEF File
    <3>4. QED BY <1>1, <2>1, <3>2, <3>3 DEF Going, Points
  <2>3. UNCHANGED <<config, pending, nonces, clock, touched, uses, void, undoable>>
    BY <1>2 DEF ReadTexts
  <2>4. QED BY <2>1, <2>2, <2>3, GoStep
<1>3. CASE ReadState(h)
  <2>1. Exported(config.state) \in Rows /\ \A r \in Setting : Exported(config.state)[r] = config.state[r]
    BY <1>1 DEF Exported, File, Rows, Row
  <2>2. /\ go'[h] = [go[h] EXCEPT !.at = "send", !.safe = [@ EXCEPT !.state = Exported(config.state)]]
        /\ go[h].at = "state" /\ go' = [go EXCEPT ![h] = go'[h]]
    BY <1>3 DEF ReadState
  <2>3. /\ go'[h] \in Going /\ go'[h].at = "send" /\ go'[h].nonce = go[h].nonce
        /\ go'[h].safe.texts = go[h].safe.texts /\ go'[h].safe.state = Exported(config.state)
    <3> DEFINE new == [go[h].safe EXCEPT !.state = Exported(config.state)]
    <3>1. go[h].safe \in File
      BY <1>1 DEF Going
    <3>2. new \in File /\ new.texts = go[h].safe.texts /\ new.state = Exported(config.state)
      BY <2>1, <3>1 DEF File
    <3>3. QED BY <1>1, <2>2, <3>2 DEF Going, Points
  <2>4. UNCHANGED <<config, pending, nonces, clock, touched, uses, void, undoable>>
    BY <1>3 DEF ReadState
  <2>5. h \notin touched => go[h].safe.texts = config.texts
    BY <2>2 DEF SafeFile
  <2>6. QED BY <2>1, <2>2, <2>3, <2>4, <2>5, GoStep
<1>4. CASE SendFile(h)
  <2>1. CASE go' = [go EXCEPT ![h] = Unstarted]
    BY <1>4, <2>1, GoStep, UnstartedIsGoing DEF SendFile
  <2>2. CASE go' = [go EXCEPT ![h].at = "apply"]
    <3>1. go'[h] = [go[h] EXCEPT !.at = "apply"] /\ go[h].at = "send"
      BY <1>4, <2>2 DEF SendFile
    <3>2. /\ go' = [go EXCEPT ![h] = go'[h]]
          /\ go'[h] \in Going /\ go'[h].at = "apply" /\ go'[h].nonce = go[h].nonce /\ go'[h].safe = go[h].safe
      BY <1>1, <2>2, <3>1 DEF Going, Points
    <3>3. UNCHANGED <<config, pending, nonces, clock, touched, uses, void, undoable>>
      BY <1>4 DEF SendFile
    <3>4. h \notin touched => /\ go[h].safe.texts = config.texts
                              /\ \A r \in Setting : go[h].safe.state[r] = config.state[r]
      BY <3>1 DEF SafeFile
    <3>5. QED BY <3>1, <3>2, <3>3, <3>4, GoStep
  <2>3. QED BY <1>4, <2>1, <2>2 DEF SendFile
<1>5. CASE ApplyRollback(h)
  BY <1>5, GoStep, UnstartedIsGoing DEF ApplyRollback
<1>6. CASE RestoreReport(h)
  BY <1>6, GoStep, UnstartedIsGoing DEF RestoreReport
<1>7. QED BY <1>2, <1>3, <1>4, <1>5, <1>6

\* The commit uses its nonce, and outdates everybody else's emergency file.
LEMMA CommitStep ==
  ASSUME RestoreInv, NEW h \in RestoreTap, ApplyCommit(h)
  PROVE  RestoreInv'
<1> DEFINE n == go[h].nonce
<1> USE DEF RestoreInv, RestoreTypes
<1>1. /\ go[h].at = "apply" /\ config' = Applied(go[h].file, config)
      /\ undoable' = (undoable /\ (h \in touched \/ Applied(go[h].safe, config') = config))
      /\ uses' = [uses EXCEPT ![n] = @ + 1]
      /\ touched' = touched \cup {g \in RestoreTap \ {h} : go[g].at # "idle"}
      /\ go' = [go EXCEPT ![h].at = "sync"]
      /\ UNCHANGED <<pending, nonces, clock, void>>
  BY DEF ApplyCommit
<1>2. go[h] \in Going /\ go[h].file \in File /\ go[h].safe \in File /\ config \in File
  BY DEF Going
<1>3. config' \in File
  BY <1>1, <1>2, AppliedIsFile
<1>4. undoable' = TRUE
  <2>1. h \notin touched => Applied(go[h].safe, config') = config
    BY <1>1, <1>2, AppliedBack DEF SafeFile
  <2>2. QED BY <1>1, <2>1
<1>5. go'[h] \in Going /\ go'[h].at = "sync" /\ go'[h].nonce = n
  BY <1>1, <1>2 DEF Going, Points
<1>6. \A g \in RestoreTap \ {h} : go'[g] = go[g]
  BY <1>1
<1>7. n \in 1..nonces /\ n \in 1..MaxNonce /\ uses[n] = 0 /\ n \notin void
  BY <1>1 DEF HeldOnce, Unspent
<1>8. RestoreTypes'
  BY <1>1, <1>3, <1>5, <1>7
<1>9. \A m \in 1..MaxNonce : m # n => uses'[m] = uses[m]
  BY <1>1
<1>10. WaitsOnce' /\ Unspent'
  <2>1. \A p \in pending : p.nonce \in 1..MaxNonce /\ p.nonce # n
    BY DEF WaitsOnce, Unspent
  <2>2. WaitsOnce'
    BY <1>1, <1>5, <1>6, <1>9, <2>1 DEF WaitsOnce
  <2>3. QED BY <1>1, <1>7, <1>9, <2>2 DEF Unspent
<1>11. HeldOnce' /\ IdleEmpty'
  <2>1. \A g \in RestoreTap \ {h} : go[g].at # "idle" => go[g].nonce \in 1..MaxNonce /\ go[g].nonce # n
    BY <1>1 DEF HeldOnce, Unspent
  <2>2. QED BY <1>1, <1>5, <1>6, <1>7, <1>9, <2>1 DEF HeldOnce, IdleEmpty
<1>12. SafeFile'
  BY <1>1, <1>5, <1>6 DEF SafeFile
<1>13. QED BY <1>4, <1>8, <1>10, <1>11, <1>12

\* An edit outdates every emergency file under way; a stamp touches no setting.
LEMMA EditStep ==
  ASSUME RestoreInv, EditConf \/ Stamp \/ AskFile \/ RestoreTick
  PROVE  RestoreInv'
<1> USE DEF RestoreInv, RestoreTypes
<1>1. config' \in File /\ touched' \subseteq RestoreTap
  <2>1. ASSUME NEW r \in Row, NEW v \in Version PROVE [config EXCEPT !.state[r] = v] \in File
    BY DEF File, Rows
  <2>2. ASSUME NEW v \in Version PROVE [config EXCEPT !.texts = v] \in File
    BY DEF File
  <2>3. CASE EditConf
    BY <2>1, <2>2, <2>3 DEF EditConf, Row
  <2>4. CASE Stamp
    BY <2>1, <2>4 DEF Stamp, Row
  <2>5. CASE AskFile \/ RestoreTick
    BY <2>5 DEF AskFile, RestoreTick
  <2>6. QED BY <2>3, <2>4, <2>5
<1>2. UNCHANGED <<pending, nonces, go, uses, void, undoable>> /\ clock' \in Nat
  <2>1. CASE EditConf    BY <2>1 DEF EditConf
  <2>2. CASE Stamp       BY <2>2 DEF Stamp
  <2>3. CASE AskFile     BY <2>3 DEF AskFile
  <2>4. CASE RestoreTick BY <2>4 DEF RestoreTick
  <2>5. QED BY <2>1, <2>2, <2>3, <2>4
<1>3. SafeFile'
  <2>1. CASE EditConf
    BY <2>1, <1>2 DEF EditConf, SafeFile
  <2>2. CASE Stamp
    <3>1. touched' = touched /\ config'.texts = config.texts
          /\ \A r \in Setting : config'.state[r] = config.state[r]
      BY <2>2 DEF Stamp, File, Rows, Row
    <3>2. QED BY <1>2, <3>1 DEF SafeFile
  <2>3. CASE AskFile \/ RestoreTick
    BY <2>3 DEF AskFile, RestoreTick, SafeFile
  <2>4. QED BY <2>1, <2>2, <2>3
<1>4. (WaitsOnce /\ HeldOnce /\ IdleEmpty /\ Unspent)'
  BY <1>2 DEF WaitsOnce, HeldOnce, IdleEmpty, Unspent
<1>5. QED BY <1>1, <1>2, <1>3, <1>4

LEMMA NextRestore == RestoreInv /\ [RestoreNext]_restoreVars => RestoreInv'
<1> SUFFICES ASSUME RestoreInv, [RestoreNext]_restoreVars PROVE RestoreInv'
  OBVIOUS
<1>1. CASE UNCHANGED restoreVars
  BY <1>1 DEF restoreVars, RestoreInv, RestoreTypes, WaitsOnce, HeldOnce, IdleEmpty, Unspent, SafeFile
<1>2. CASE RestoreNext
  BY <1>2, UploadStep, CancelStep, TakeStep, ReadStep, CommitStep, EditStep DEF RestoreNext
<1>3. QED BY <1>1, <1>2

\* However many confirmations, cancels and expiries race for a nonce, its file
\* is applied once at most, and what the commit replaced can be brought back
\* unless somebody edited it meanwhile (services/backup.py, on_restore_go).
THEOREM RestoresSafely == RestoreSpec => []RestoreSafe
<1>1. RestoreSpec => []RestoreInv
  BY InitRestore, NextRestore, PTL DEF RestoreSpec
<1>2. RestoreInv => RestoreSafe
  BY DEF RestoreInv, RestoreTypes, Unspent, RestoreSafe
<1>3. QED BY <1>1, <1>2, PTL

-----------------------------------------------------------------------------
(***************************************************************************)
(* JarKept for any number of importers, runs and writes. Stamps only grow, *)
(* so a jar that still has the stamp an import judged its candidate by is  *)
(* the jar it judged; and the bot has one import under way, so nobody      *)
(* changes that candidate meanwhile. A run takes its stamps one after the  *)
(* other, each before its bytes.                                           *)
(***************************************************************************)

CookieTypes ==
  /\ jar \in [kind : Jar, stamp : Nat]
  /\ candidate \in [Wizard \cup {"bot"} -> Jar \cup {NoFile}]
  /\ import \in [Importer -> [at : {"idle", "export", "judge", "place"}, saw : Nat]]
  /\ inFlight \in BOOLEAN
  /\ copied \in [stamp : Nat, has : Nat, noted : SUBSET YtRun, moved : SUBSET YtRun]
  /\ run \in [YtRun -> [at : {"idle", "copy", "move", "note"}, stamp : Nat, has : Nat]]
  /\ watch \in [primed : BOOLEAN, announced : Nat]
  /\ told \subseteq Nat

\* The importers of one process take turns.
OneImport ==
  \A i \in Asker : import[i].at # "idle" =>
    inFlight /\ \A j \in Asker \ {i} : import[j].at = "idle"

\* A candidate about to be placed was judged, by the present jar if that has
\* the stamp it was judged by.
Judged ==
  \A i \in Importer : import[i].at = "place" =>
    /\ import[i].saw <= jar.stamp
    /\ import[i].saw = jar.stamp => candidate[Beside(i)] = NoFile \/ ~Rejected(candidate[Beside(i)])

\* What was announced is not announced again: it is what the watcher saw last.
Announced ==
  /\ \A s \in told : s <= jar.stamp
  /\ Usable(jar.kind) /\ jar.stamp \in told => watch.announced = jar.stamp

\* A run copies bytes at least as new as the stamp it took, which is no older
\* than the one it noted last; what one run moved and noted fits together.
Copies ==
  /\ copied.stamp <= jar.stamp
  /\ \A r \in YtRun :
       /\ run[r].at # "idle" => run[r].stamp <= jar.stamp
       /\ run[r].at # "idle" /\ copied.noted = {r} => copied.stamp <= run[r].stamp
       /\ run[r].at \in {"move", "note"} => run[r].stamp <= run[r].has
       /\ run[r].at = "note" /\ copied.moved = {r} => copied.has = run[r].has
  /\ copied.moved = copied.noted => copied.has >= copied.stamp

CookiesInv == CookieTypes /\ OneImport /\ Judged /\ Announced /\ Copies /\ wrong = {}

USE CookiesAssumption DEF Importer, Jar, Usable, Rejected, Beside

LEMMA InitCookies == CookiesInit => CookiesInv
<1> SUFFICES ASSUME CookiesInit PROVE CookiesInv
  OBVIOUS
<1>1. jar \in [kind : Jar, stamp : Nat]
  BY DEF CookiesInit
<1>2. copied \in [stamp : Nat, has : Nat, noted : SUBSET YtRun, moved : SUBSET YtRun]
  BY <1>1 DEF CookiesInit
<1>3. CookieTypes
  BY <1>1, <1>2 DEF CookiesInit, CookieTypes, Resting, NoCopying
<1>4. copied.stamp = 0
  BY DEF CookiesInit
<1>5. QED BY <1>3, <1>4 DEF CookiesInit, CookiesInv, OneImport, Judged, Announced, Copies, Resting, NoCopying

\* The jar moves on: its stamp is new to everybody.
LEMMA NewJar ==
  ASSUME CookiesInv, NEW kind \in Jar, JarBecomes(kind)
  PROVE  /\ jar' \in [kind : Jar, stamp : Nat] /\ jar'.stamp = jar.stamp + 1
         /\ \A i \in Importer : import[i].at = "place" => import[i].saw < jar'.stamp
         /\ \A s \in told : s < jar'.stamp
         /\ \A r \in YtRun : run[r].at # "idle" => run[r].stamp < jar'.stamp
<1>1. jar.stamp \in Nat
  BY DEF CookiesInv, CookieTypes
<1>2. jar' = [kind |-> kind, stamp |-> jar.stamp + 1]
  BY DEF JarBecomes
<1>3. \A i \in Importer : import[i].saw \in Nat
  BY DEF CookiesInv, CookieTypes
<1>4. \A r \in YtRun : run[r].stamp \in Nat
  BY DEF CookiesInv, CookieTypes
<1>5. QED BY <1>1, <1>2, <1>3, <1>4 DEF CookiesInv, CookieTypes, Judged, Announced, Copies

LEMMA HandStep ==
  ASSUME CookiesInv, WrittenByHand
  PROVE  CookiesInv'
<1>1. PICK kind \in Jar : JarBecomes(kind)
  BY DEF WrittenByHand
<1>2. UNCHANGED <<candidate, import, inFlight, copied, run, watch, told, wrong>>
  BY DEF WrittenByHand
<1>8. /\ jar' \in [kind : Jar, stamp : Nat] /\ jar'.stamp = jar.stamp + 1
      /\ \A i \in Importer : import[i].at = "place" => import[i].saw < jar'.stamp
      /\ \A s \in told : s < jar'.stamp
      /\ \A r \in YtRun : run[r].at # "idle" => run[r].stamp < jar'.stamp
  BY <1>1, NewJar
<1>3. CookieTypes' /\ OneImport'
  <2>1. CookieTypes'
    BY <1>2, <1>8 DEF CookiesInv, CookieTypes
  <2>2. QED BY <1>2, <2>1 DEF CookiesInv, OneImport
<1>4. Judged'
  BY <1>2, <1>8 DEF CookiesInv, CookieTypes, Judged
<1>5. Announced'
  <2>1. \A s \in told' : s < jar'.stamp /\ s \in Nat
    BY <1>2, <1>8 DEF CookiesInv, CookieTypes
  <2>2. jar'.stamp \in Nat
    BY <1>8
  <2>3. QED BY <2>1, <2>2 DEF Announced
<1>6. Copies'
  BY <1>2, <1>8 DEF CookiesInv, CookieTypes, Copies
<1>7. QED BY <1>2, <1>3, <1>4, <1>5, <1>6 DEF CookiesInv

-----------------------------------------------------------------------------
(* Imports.                                                                *)

LEMMA StartStep ==
  ASSUME CookiesInv, NEW i \in Importer, AskRefresh(i) \/ StartWizard(i)
  PROVE  CookiesInv'
<1>1. /\ import[i].at = "idle" /\ import' = [import EXCEPT ![i].at = "export"]
      /\ UNCHANGED <<jar, candidate, copied, run, watch, told, wrong>>
  BY DEF AskRefresh, StartWizard
<1>2. \/ i \in Asker /\ ~inFlight /\ inFlight' = TRUE
      \/ i \notin Asker /\ inFlight' = inFlight
  BY DEF AskRefresh, StartWizard
<1>3. CookieTypes'
  <2>1. import' \in [Importer -> [at : {"idle", "export", "judge", "place"}, saw : Nat]]
    BY <1>1 DEF CookiesInv, CookieTypes
  <2>2. inFlight' \in BOOLEAN
    BY <1>2 DEF CookiesInv, CookieTypes
  <2>3. QED BY <1>1, <2>1, <2>2 DEF CookiesInv, CookieTypes
<1>4. OneImport'
  BY <1>1, <1>2 DEF CookiesInv, CookieTypes, OneImport
<1>5. Judged'
  BY <1>1 DEF CookiesInv, CookieTypes, Judged
<1>6. Announced' /\ Copies'
  BY <1>1 DEF CookiesInv, Announced, Copies
<1>7. QED BY <1>1, <1>3, <1>4, <1>5, <1>6 DEF CookiesInv

\* Whoever has the same candidate as a working importer is at rest.
LEMMA OwnCandidate ==
  ASSUME CookiesInv, NEW i \in Importer, import[i].at # "idle",
         NEW j \in Importer \ {i}, import[j].at # "idle"
  PROVE  Beside(j) # Beside(i)
BY DEF CookiesInv, OneImport

\* The end of an import leaves the others alone.
LEMMA EndsStep ==
  ASSUME CookiesInv, NEW i \in Importer, import[i].at # "idle", ImportEnds(i),
         CookieTypes', \A j \in Importer : import[j].at = "place" => import[j].saw <= jar'.stamp,
         jar' = jar \/ (\A j \in Importer : import[j].at = "place" => import[j].saw # jar'.stamp)
  PROVE  OneImport' /\ Judged'
<1>1. /\ import'[i] = Resting /\ \A j \in Importer \ {i} : import'[j] = import[j]
      /\ inFlight' = IF i \in Asker THEN FALSE ELSE inFlight
      /\ \A j \in Importer \ {i} : import[j].at # "idle" => candidate'[Beside(j)] = candidate[Beside(j)]
  BY OwnCandidate DEF ImportEnds, CookiesInv, CookieTypes
<1>2. OneImport'
  BY <1>1 DEF CookiesInv, OneImport, Resting
<1>3. Judged'
  BY <1>1 DEF CookiesInv, Judged, Resting
<1>4. QED BY <1>2, <1>3

LEMMA ImportStep ==
  ASSUME CookiesInv, NEW i \in Importer, Export(i) \/ Judge(i)
  PROVE  CookiesInv'
<1>1. import[i].at \in {"export", "judge"} /\ UNCHANGED <<jar, copied, run, watch, told, wrong>>
  BY DEF Export, Judge
<1>2. Announced' /\ Copies'
  BY <1>1 DEF CookiesInv, Announced, Copies
<1>3. CASE ImportEnds(i)
  <2>1. CookieTypes'
    BY <1>1, <1>3 DEF ImportEnds, CookiesInv, CookieTypes, Resting
  <2>2. QED BY <1>1, <1>2, <1>3, <2>1, EndsStep DEF CookiesInv, Judged
<1>4. CASE Export(i) /\ ~ImportEnds(i)
  <2>1. /\ import' = [import EXCEPT ![i].at = "judge"] /\ UNCHANGED inFlight
        /\ \E kind \in Jar \ {"missing"} : candidate' = [candidate EXCEPT ![Beside(i)] = kind]
    BY <1>4 DEF Export
  <2>2. CookieTypes'
    BY <1>1, <2>1 DEF CookiesInv, CookieTypes
  <2>3. \A j \in Importer \ {i} :
          /\ import'[j] = import[j]
          /\ import[j].at # "idle" => candidate'[Beside(j)] = candidate[Beside(j)]
    BY <1>1, <2>1, OwnCandidate DEF CookiesInv, CookieTypes
  <2>4. import'[i].at = "judge"
    BY <2>1 DEF CookiesInv, CookieTypes
  <2>5. OneImport'
    BY <1>1, <2>1, <2>3, <2>4 DEF CookiesInv, OneImport
  <2>6. Judged'
    BY <1>1, <2>3, <2>4 DEF CookiesInv, Judged
  <2>7. QED BY <1>1, <1>2, <2>2, <2>5, <2>6 DEF CookiesInv
<1>5. CASE Judge(i) /\ ~ImportEnds(i)
  <2>1. /\ import' = [import EXCEPT ![i].at = "place", ![i].saw = jar.stamp]
        /\ ~Rejected(candidate[Beside(i)]) /\ UNCHANGED <<candidate, inFlight>>
    BY <1>5 DEF Judge
  <2>2. CookieTypes'
    BY <1>1, <2>1 DEF CookiesInv, CookieTypes
  <2>3. /\ import'[i].at = "place" /\ import'[i].saw = jar.stamp
        /\ \A j \in Importer \ {i} : import'[j] = import[j]
    BY <2>1 DEF CookiesInv, CookieTypes
  <2>4. OneImport'
    <3>1. \A j \in Importer : import'[j].at = "idle" <=> import[j].at = "idle"
      BY <1>1, <2>3
    <3>2. QED BY <2>1, <3>1 DEF CookiesInv, OneImport
  <2>5. Judged'
    BY <1>1, <2>1, <2>3 DEF CookiesInv, CookieTypes, Judged
  <2>6. QED BY <1>1, <1>2, <2>2, <2>4, <2>5 DEF CookiesInv
<1>6. QED BY <1>3, <1>4, <1>5

LEMMA PlaceStep ==
  ASSUME CookiesInv, NEW i \in Importer, Place(i)
  PROVE  CookiesInv'
<1> DEFINE own == candidate[Beside(i)]
<1>1. /\ import[i].at = "place" /\ ImportEnds(i) /\ UNCHANGED <<copied, run, watch, told>>
  BY DEF Place
<1>2. own \in Jar \cup {NoFile}
  BY DEF CookiesInv, CookieTypes
<1>3. CASE own = NoFile
  <2>1. UNCHANGED <<jar, wrong>>
    BY <1>3 DEF Place
  <2>2. CookieTypes'
    BY <1>1, <2>1 DEF ImportEnds, CookiesInv, CookieTypes, Resting
  <2>3. OneImport' /\ Judged'
    BY <1>1, <2>1, <2>2, EndsStep DEF CookiesInv, Judged
  <2>4. QED BY <1>1, <2>1, <2>2, <2>3 DEF CookiesInv, Announced, Copies
<1>4. CASE own # NoFile
  <2>1. JarBecomes(own) /\ own \in Jar
    BY <1>2, <1>4 DEF Place
  <2>2. wrong' = {}
    <3>1. jar.kind = "login" /\ import[i].saw = jar.stamp => own = "login"
      BY <1>1, <1>4 DEF CookiesInv, Judged
    <3>2. QED BY <1>4, <3>1 DEF Place, CookiesInv
  <2>3. /\ jar' \in [kind : Jar, stamp : Nat] /\ jar'.stamp = jar.stamp + 1
        /\ \A j \in Importer : import[j].at = "place" => import[j].saw < jar'.stamp
        /\ \A s \in told : s < jar'.stamp
        /\ \A r \in YtRun : run[r].at # "idle" => run[r].stamp < jar'.stamp
    BY <2>1, NewJar
  <2>4. CookieTypes'
    BY <1>1, <2>3 DEF ImportEnds, CookiesInv, CookieTypes, Resting
  <2>5. \A j \in Importer : import[j].at = "place" => import[j].saw <= jar'.stamp /\ import[j].saw # jar'.stamp
    BY <2>3 DEF CookiesInv, CookieTypes
  <2>6. OneImport' /\ Judged'
    BY <1>1, <2>4, <2>5, EndsStep
  <2>7. Announced'
    BY <1>1, <2>3 DEF CookiesInv, CookieTypes, Announced
  <2>8. Copies'
    BY <1>1, <2>3 DEF CookiesInv, CookieTypes, Copies
  <2>9. QED BY <2>2, <2>4, <2>6, <2>7, <2>8 DEF CookiesInv
<1>5. QED BY <1>3, <1>4

-----------------------------------------------------------------------------
(* The copies and the watcher.                                             *)

LEMMA CopyStep ==
  ASSUME CookiesInv, NEW r \in YtRun,
         StatJar(r) \/ ReadJar(r) \/ MoveCopy(r) \/ NoteStamp(r)
  PROVE  CookiesInv'
<1>1. UNCHANGED <<jar, candidate, import, inFlight, watch, told, wrong>>
  BY DEF StatJar, ReadJar, MoveCopy, NoteStamp
<1>2. OneImport' /\ Judged' /\ Announced'
  BY <1>1 DEF CookiesInv, OneImport, Judged, Announced
<1>3. jar.stamp \in Nat /\ run[r] \in [at : {"idle", "copy", "move", "note"}, stamp : Nat, has : Nat]
  BY DEF CookiesInv, CookieTypes
<1>4. CookieTypes' /\ Copies'
  <2> USE DEF CookiesInv, CookieTypes, Copies
  <2>1. CASE StatJar(r)   BY <1>1, <1>3, <2>1 DEF StatJar
  <2>2. CASE ReadJar(r)
    <3>1. run[r].at = "copy" /\ UNCHANGED copied
      BY <2>2 DEF ReadJar
    <3>2. \/ run' = [run EXCEPT ![r] = NoCopying]
          \/ run' = [run EXCEPT ![r].at = "move", ![r].has = jar.stamp]
      BY <2>2 DEF ReadJar
    <3>3. CookieTypes'
      <4>1. run' \in [YtRun -> [at : {"idle", "copy", "move", "note"}, stamp : Nat, has : Nat]]
        BY <1>3, <3>2 DEF NoCopying
      <4>2. QED BY <1>1, <3>1, <4>1
    <3>4. Copies'
      BY <1>1, <1>3, <3>1, <3>2 DEF NoCopying
    <3>5. QED BY <3>3, <3>4
  <2>3. CASE MoveCopy(r)
    <3>1. /\ copied' = [copied EXCEPT !.has = run[r].has, !.moved = {r}]
          /\ run' = [run EXCEPT ![r].at = "note"] /\ run[r].at = "move"
      BY <2>3 DEF MoveCopy
    <3>2. /\ run' \in [YtRun -> [at : {"idle", "copy", "move", "note"}, stamp : Nat, has : Nat]]
          /\ run'[r] = [run[r] EXCEPT !.at = "note"] /\ \A t \in YtRun \ {r} : run'[t] = run[t]
      BY <1>3, <3>1
    <3>3. /\ copied' \in [stamp : Nat, has : Nat, noted : SUBSET YtRun, moved : SUBSET YtRun]
          /\ copied'.stamp = copied.stamp /\ copied'.noted = copied.noted
          /\ copied'.has = run[r].has /\ copied'.moved = {r}
      BY <1>3, <3>1
    <3>4. CookieTypes'
      BY <1>1, <3>2, <3>3
    <3>5. \A t \in YtRun \ {r} : copied'.moved # {t}
      BY <3>3
    <3>6. copied'.moved = copied'.noted => copied'.has >= copied'.stamp
      <4>1. run[r].stamp <= run[r].has /\ (copied.noted = {r} => copied.stamp <= run[r].stamp)
        BY <3>1
      <4>2. QED BY <1>3, <3>3, <4>1
    <3>7. Copies'
      BY <1>1, <1>3, <3>1, <3>2, <3>3, <3>5, <3>6
    <3>8. QED BY <3>4, <3>7
  <2>4. CASE NoteStamp(r)
    <3>1. /\ copied' = [copied EXCEPT !.stamp = run[r].stamp, !.noted = {r}]
          /\ run' = [run EXCEPT ![r] = NoCopying] /\ run[r].at = "note"
      BY <2>4 DEF NoteStamp
    <3>2. /\ run' \in [YtRun -> [at : {"idle", "copy", "move", "note"}, stamp : Nat, has : Nat]]
          /\ run'[r] = NoCopying /\ \A t \in YtRun \ {r} : run'[t] = run[t]
      BY <1>3, <3>1 DEF NoCopying
    <3>3. /\ copied' \in [stamp : Nat, has : Nat, noted : SUBSET YtRun, moved : SUBSET YtRun]
          /\ copied'.stamp = run[r].stamp /\ copied'.noted = {r}
          /\ copied'.has = copied.has /\ copied'.moved = copied.moved
      BY <1>3, <3>1
    <3>4. CookieTypes'
      BY <1>1, <3>2, <3>3
    <3>5. \A t \in YtRun \ {r} : copied'.noted # {t}
      BY <3>3
    <3>6. copied'.moved = copied'.noted => copied'.has >= copied'.stamp
      <4>1. run[r].stamp <= run[r].has /\ (copied.moved = {r} => copied.has = run[r].has)
        BY <3>1
      <4>2. QED BY <1>3, <3>3, <4>1
    <3>7. run'[r].at = "idle" /\ run[r].stamp <= jar.stamp
      BY <3>1, <3>2 DEF NoCopying
    <3>8. Copies'
      BY <1>1, <3>2, <3>3, <3>5, <3>6, <3>7
    <3>9. QED BY <3>4, <3>8
  <2>5. QED BY <2>1, <2>2, <2>3, <2>4
<1>5. QED BY <1>1, <1>2, <1>4 DEF CookiesInv

LEMMA WatchStep ==
  ASSUME CookiesInv, Watch
  PROVE  CookiesInv'
<1> DEFINE fresh == watch.primed /\ Usable(jar.kind) /\ ExportStamp # watch.announced /\ ~InSync
<1>1. /\ watch' = [primed |-> TRUE, announced |-> ExportStamp]
      /\ told' = (IF fresh THEN told \cup {ExportStamp} ELSE told)
      /\ wrong' = (IF fresh /\ ExportStamp \in told THEN wrong \cup {"told twice"} ELSE wrong)
      /\ UNCHANGED <<jar, candidate, import, inFlight, copied, run>>
  BY DEF Watch
<1>2. jar.stamp \in Nat /\ ExportStamp \in Nat /\ (Usable(jar.kind) => ExportStamp = jar.stamp)
  BY DEF CookiesInv, CookieTypes, ExportStamp
<1>3. ~(fresh /\ ExportStamp \in told)
  BY <1>2 DEF CookiesInv, Announced
<1>4. CookieTypes'
  BY <1>1, <1>2 DEF CookiesInv, CookieTypes
<1>5. Announced'
  <2>1. Usable(jar.kind) /\ jar.stamp \in told' => watch'.announced = jar.stamp
    BY <1>1, <1>2
  <2>2. \A s \in told' : s <= jar.stamp
    <3>1. fresh => ExportStamp = jar.stamp
      BY <1>2
    <3>2. told' \subseteq told \cup {jar.stamp}
      BY <1>1, <3>1
    <3>3. \A s \in told : s <= jar.stamp
      BY DEF CookiesInv, Announced
    <3>4. QED BY <1>2, <3>2, <3>3
  <2>3. QED BY <1>1, <2>1, <2>2 DEF Announced
<1>6. OneImport' /\ Judged' /\ Copies' /\ wrong' = {}
  BY <1>1, <1>3 DEF CookiesInv, OneImport, Judged, Copies
<1>7. QED BY <1>4, <1>5, <1>6 DEF CookiesInv

LEMMA NextCookies == CookiesInv /\ [CookiesNext]_cookieVars => CookiesInv'
<1> SUFFICES ASSUME CookiesInv, [CookiesNext]_cookieVars PROVE CookiesInv'
  OBVIOUS
<1>1. CASE UNCHANGED cookieVars
  BY <1>1 DEF cookieVars, CookiesInv, CookieTypes, OneImport, Judged, Announced, Copies
<1>2. CASE CookiesNext
  BY <1>2, HandStep, StartStep, ImportStep, PlaceStep, CopyStep, WatchStep DEF CookiesNext, ImportNext, CopyNext
<1>3. QED BY <1>1, <1>2

\* Whatever writes and whoever copies meanwhile: no import replaces the login it
\* looked at by less, no export is announced twice, and a copy of which one run
\* moved the bytes and noted the stamp is no older than the jar it passes for
\* (services/cookie_refresh.py, services/cookie_watch.py, _writable_cookie_file).
THEOREM JarIsKept == CookiesSpec => []JarKept
<1>1. CookiesSpec => []CookiesInv
  BY InitCookies, NextCookies, PTL DEF CookiesSpec
<1>2. CookiesInv => JarKept
  BY DEF CookiesInv, CookieTypes, Copies, JarKept
<1>3. QED BY <1>1, <1>2, PTL

-----------------------------------------------------------------------------
(***************************************************************************)
(* DoctorHonest for any outside worlds, configurations and flaps of the    *)
(* helpers: a verdict is read off a report that is complete, and while     *)
(* nothing flaps what was seen and what was built at boot are what is out  *)
(* there.                                                                  *)
(***************************************************************************)

\* What the extractor was built with is what answered at boot, what the report
\* saw is what is out there, and the verdict is read off what it saw: as long
\* as no helper has changed. The answer written down without an address is "off".
AsBuilt ==
  /\ report # "boot" => built.provider = (conf.provider /\ world.provider \in {"up", "mismatch"})
  /\ report \notin {"boot", "booting"} => built.tunnel = (conf.tunnel /\ world.tunnel # "down")

AsSeen ==
  /\ seen.provider \in {"up", "mismatch"} => seen.provider = world.provider
  /\ seen.tunnel # "down" => seen.tunnel = world.tunnel

DoctorInv ==
  /\ DoctorTypeOK
  /\ flaps = 0 => AsBuilt /\ AsSeen
  /\ verdict # "none" => report = "idle" /\ verdict = Diagnosis
  /\ written.node = NoAddress => written.state \in {"unknown", "off"}
  /\ RecalledAbout

LEMMA InitDoctor == DoctorInit => DoctorInv
<1> SUFFICES ASSUME DoctorInit PROVE DoctorInv
  OBVIOUS
<1> USE DoctorAssumption
<1>0. 0 \in 0..(Patience - 1) /\ 0 \in 0..MaxFlaps /\ 0 \in 0..MaxReports
  OBVIOUS
<1>1. DoctorTypeOK
  BY <1>0 DEF DoctorInit, DoctorTypeOK, World, Unseen, Unknown, Answer, JarIs, ProviderIs, TunnelIs,
         Tests, Blamed
<1>2. QED
  BY <1>1 DEF DoctorInit, DoctorInv, AsBuilt, AsSeen, RecalledAbout, Unseen, Unknown

LEMMA DoctorTypeStep == DoctorTypeOK /\ [DoctorNext]_doctorVars => DoctorTypeOK'
<1> SUFFICES ASSUME DoctorTypeOK, [DoctorNext]_doctorVars PROVE DoctorTypeOK'
  OBVIOUS
<1> USE DoctorAssumption DEF World, Answer
<1>c. conf.node \in Address \cup {NoAddress} /\ conf.provider \in BOOLEAN /\ conf.tunnel \in BOOLEAN
  BY DEF DoctorTypeOK
<1>u. /\ Unseen \in [jar : JarIs, provider : ProviderIs, tunnel : TunnelIs, live : Tests]
      /\ Unknown \in Answer /\ "down" \in ProviderIs /\ "down" \in TunnelIs
  BY DEF Unseen, Unknown, JarIs, ProviderIs, TunnelIs, Tests
<1>1. CASE Flap
  <2>1. flaps' \in 0..MaxFlaps
    BY <1>1 DEF Flap, DoctorTypeOK
  <2>2. world' \in World
    BY <1>1 DEF Flap, DoctorTypeOK
  <2>3. QED BY <1>1, <2>1, <2>2 DEF Flap, DoctorTypeOK
<1>b. ASSUME NEW here, NEW helper \in {"provider", "tunnel"}, NEW wanted \in BOOLEAN, NEW answers,
             NEW next \in {"booting", "idle"}, answers \in BOOLEAN,
             BootStep(here, helper, wanted, answers, next)
      PROVE  DoctorTypeOK'
  <2>1. attempt' \in 0..(Patience - 1)
    BY <1>b DEF BootStep, DoctorTypeOK
  <2>2. built' \in [provider : BOOLEAN, tunnel : BOOLEAN]
    BY <1>b DEF BootStep, DoctorTypeOK
  <2>3. QED BY <1>b, <2>1, <2>2 DEF BootStep, DoctorTypeOK
<1>2. CASE resolve_pot_provider
  <2>1. (world.provider \in {"up", "mismatch"}) \in BOOLEAN
    OBVIOUS
  <2>2. BootStep("boot", "provider", conf.provider, world.provider \in {"up", "mismatch"}, "booting")
    BY <1>2 DEF resolve_pot_provider
  <2> DEFINE Answers == world.provider \in {"up", "mismatch"}
  <2> HIDE DEF Answers
  <2>3. BootStep("boot", "provider", conf.provider, Answers, "booting") /\ Answers \in BOOLEAN
    BY <2>1, <2>2 DEF Answers
  <2>4. QED BY <1>c, <1>b, <2>3
<1>3. CASE resolve_tunnel
  <2> DEFINE Answers == world.tunnel # "down"
  <2>1. Answers \in BOOLEAN
    OBVIOUS
  <2>2. BootStep("booting", "tunnel", conf.tunnel, Answers, "idle")
    BY <1>3 DEF resolve_tunnel
  <2> HIDE DEF Answers
  <2>3. QED BY <1>c, <1>b, <2>1, <2>2
<1>4. CASE Reboot
  <2>1. reports' \in 0..MaxReports
    BY <1>4 DEF Reboot, DoctorTypeOK
  <2>2. QED BY <1>4, <1>u, <2>1 DEF Reboot, DoctorTypeOK
<1>5. CASE AskProvider
  <2>1. reports' \in 0..MaxReports
    BY <1>5 DEF AskProvider, DoctorTypeOK
  <2>2. seen' \in [jar : JarIs, provider : ProviderIs, tunnel : TunnelIs, live : Tests]
    BY <1>5, <1>u, <1>c DEF AskProvider, Poll, DoctorTypeOK
  <2>3. QED BY <1>5, <1>u, <2>1, <2>2 DEF AskProvider, Poll, DoctorTypeOK
<1>6. CASE AskTunnel
  BY <1>6, <1>u, <1>c DEF AskTunnel, Poll, DoctorTypeOK
<1>7. CASE MakeRows
  BY <1>7, <1>u DEF MakeRows, Poll, DoctorTypeOK
<1>8. CASE TestLink
  BY <1>8, <1>u DEF TestLink, Poll, DoctorTypeOK
<1>9. CASE AskFallback
  BY <1>9, <1>u, <1>c DEF AskFallback, Poll, DoctorTypeOK
<1>10. CASE Decide
  <2>1. Diagnosis \in Blamed \cup {"healthy"}
    BY DEF Diagnosis, StaleVerdict, BlockedVerdict, Blamed
  <2>2. QED BY <1>10, <1>u, <2>1 DEF Decide, Poll, DoctorTypeOK
<1>11. CASE Recall
  BY <1>11, <1>u, <1>c DEF Recall, DoctorTypeOK
<1>12. CASE UNCHANGED doctorVars
  BY <1>12 DEF doctorVars, DoctorTypeOK
<1>13. QED
  BY <1>1, <1>2, <1>3, <1>4, <1>5, <1>6, <1>7, <1>8, <1>9, <1>10, <1>11, <1>12 DEF DoctorNext

\* A verdict is about the settings and the report it was read off.
LEMMA SameDiagnosis ==
  ASSUME UNCHANGED <<conf, seen>>
  PROVE  Diagnosis' = Diagnosis
BY DEF Diagnosis, StaleVerdict, BlockedVerdict, CookieRow, ProviderRow, TunnelRow

LEMMA DoctorStep == DoctorInv /\ [DoctorNext]_doctorVars => DoctorInv'
<1> SUFFICES ASSUME DoctorInv, [DoctorNext]_doctorVars PROVE DoctorInv'
  OBVIOUS
<1> USE DoctorAssumption
<1>t. DoctorTypeOK /\ DoctorTypeOK'
  BY DoctorTypeStep DEF DoctorInv
<1>c. flaps \in Nat /\ conf.provider \in BOOLEAN /\ conf.tunnel \in BOOLEAN
  BY <1>t DEF DoctorTypeOK
<1>1. CASE Flap
  <2>1. flaps' # 0 /\ UNCHANGED <<conf, seen, verdict, report, written, recalled>>
    BY <1>1, <1>c DEF Flap
  <2>2. QED BY <1>t, <2>1, SameDiagnosis DEF DoctorInv, RecalledAbout
<1>2. CASE resolve_pot_provider
  <2>1. verdict = "none"
    BY <1>2 DEF resolve_pot_provider, BootStep, DoctorInv
  <2>2. (flaps = 0 => AsBuilt /\ AsSeen)'
    BY <1>2, <1>t, <1>c DEF resolve_pot_provider, BootStep, DoctorInv, AsBuilt, AsSeen, DoctorTypeOK
  <2>3. QED BY <1>2, <1>t, <2>1, <2>2 DEF resolve_pot_provider, BootStep, DoctorInv, RecalledAbout
<1>3. CASE resolve_tunnel
  <2>1. verdict = "none"
    BY <1>3 DEF resolve_tunnel, BootStep, DoctorInv
  <2>2. (flaps = 0 => AsBuilt /\ AsSeen)'
    BY <1>3, <1>t, <1>c DEF resolve_tunnel, BootStep, DoctorInv, AsBuilt, AsSeen, DoctorTypeOK
  <2>3. QED BY <1>3, <1>t, <2>1, <2>2 DEF resolve_tunnel, BootStep, DoctorInv, RecalledAbout
<1>4. CASE Reboot
  BY <1>4, <1>t DEF Reboot, DoctorInv, AsBuilt, AsSeen, RecalledAbout, Unseen, Unknown
<1>5. ASSUME NEW here \in {"idle", "tunnel", "rows", "live", "fallback", "judge"},
             NEW next \in {"idle", "tunnel", "rows", "live", "fallback"} \cup {"judge"}, NEW found,
             Poll(here, next, found),
             flaps = 0 => AsSeen'
      PROVE  (flaps = 0 => AsBuilt /\ AsSeen)' /\ RecalledAbout'
  BY <1>5 DEF Poll, DoctorInv, AsBuilt, RecalledAbout, Unknown
<1>6. CASE AskProvider
  <2>1. flaps = 0 => AsSeen'
    BY <1>6 DEF AskProvider, Poll, AsSeen, Unseen
  <2>2. (flaps = 0 => AsBuilt /\ AsSeen)' /\ RecalledAbout'
    BY <1>5, <1>6, <2>1 DEF AskProvider
  <2>3. QED BY <1>6, <1>t, <2>2 DEF AskProvider, DoctorInv
<1>7. CASE AskTunnel
  <2>1. flaps = 0 => AsSeen'
    BY <1>7, <1>t DEF AskTunnel, Poll, AsSeen, DoctorInv, DoctorTypeOK
  <2>2. (flaps = 0 => AsBuilt /\ AsSeen)' /\ RecalledAbout'
    BY <1>5, <1>7, <2>1 DEF AskTunnel
  <2>3. QED BY <1>7, <1>t, <2>2 DEF AskTunnel, Poll, DoctorInv
<1>8. CASE MakeRows
  <2>1. flaps = 0 => AsSeen'
    BY <1>8, <1>t DEF MakeRows, Poll, AsSeen, DoctorInv, DoctorTypeOK
  <2>2. (flaps = 0 => AsBuilt /\ AsSeen)' /\ RecalledAbout'
    BY <1>5, <1>8, <2>1 DEF MakeRows
  <2>3. QED BY <1>8, <1>t, <2>2 DEF MakeRows, Poll, DoctorInv
<1>9. CASE TestLink
  <2>1. flaps = 0 => AsSeen'
    BY <1>9, <1>t DEF TestLink, Poll, AsSeen, DoctorInv, DoctorTypeOK
  <2>2. (flaps = 0 => AsBuilt /\ AsSeen)' /\ RecalledAbout'
    BY <1>5, <1>9, <2>1 DEF TestLink
  <2>3. QED BY <1>9, <1>t, <2>2 DEF TestLink, Poll, DoctorInv
<1>10. CASE AskFallback
  <2>1. flaps = 0 => AsSeen'
    BY <1>10 DEF AskFallback, Poll, AsSeen, DoctorInv
  <2>2. (flaps = 0 => AsBuilt /\ AsSeen)' /\ RecalledAbout'
    BY <1>5, <1>10, <2>1 DEF AskFallback
  <2>3. QED BY <1>10, <1>t, <2>2 DEF AskFallback, Poll, DoctorInv
<1>11. CASE Decide
  <2>1. flaps = 0 => AsSeen'
    BY <1>11 DEF Decide, Poll, AsSeen, DoctorInv
  <2>2. (flaps = 0 => AsBuilt /\ AsSeen)' /\ RecalledAbout'
    BY <1>5, <1>11, <2>1 DEF Decide
  <2>3. report' = "idle" /\ verdict' \in {Diagnosis', "none"}
    BY <1>11, SameDiagnosis DEF Decide, Poll
  <2>4. QED BY <1>11, <1>t, <2>2, <2>3 DEF Decide, DoctorInv
<1>12. CASE Recall
  <2>1. RecalledAbout'
    BY <1>12 DEF Recall, RecalledAbout, DoctorInv, About, Unknown
  <2>2. UNCHANGED <<conf, seen, verdict, report, written, flaps, world, built>>
    BY <1>12 DEF Recall
  <2>3. QED BY <1>t, <2>1, <2>2, SameDiagnosis DEF DoctorInv, AsBuilt, AsSeen
<1>13. CASE UNCHANGED doctorVars
  <2>1. UNCHANGED <<conf, seen, verdict, report, written, recalled, flaps, world, built>>
    BY <1>13 DEF doctorVars
  <2>2. QED BY <1>t, <2>1, SameDiagnosis DEF DoctorInv, AsBuilt, AsSeen, RecalledAbout
<1>14. QED
  BY <1>1, <1>2, <1>3, <1>4, <1>6, <1>7, <1>8, <1>9, <1>10, <1>11, <1>12, <1>13 DEF DoctorNext

\* A verdict that clears the login, the provider or the tunnel saw them in order.
LEMMA FairVerdict == DoctorInv => BlameFair
<1> SUFFICES ASSUME DoctorInv PROVE BlameFair
  OBVIOUS
<1>t. DoctorTypeOK /\ conf.provider \in BOOLEAN /\ conf.tunnel \in BOOLEAN
  BY DoctorAssumption DEF DoctorInv, DoctorTypeOK
<1> DEFINE Outward == verdict \in {"exit", "address", "youtube"}
<1>1. Outward => CookieRow = "ok" /\ conf.provider /\ ProviderRow # "fail"
  BY DEF DoctorInv, Diagnosis, StaleVerdict, BlockedVerdict
<1>2. StaleVerdict \notin {"exit", "address"}
  BY DEF StaleVerdict
<1>b. verdict \in {"exit", "address"} => verdict = BlockedVerdict
  BY <1>2 DEF DoctorInv, Diagnosis
<1>2a. BlockedVerdict = "exit" => conf.tunnel /\ TunnelRow = "ok"
  BY <1>t DEF BlockedVerdict
<1>3. BlockedVerdict = "address" => ~conf.tunnel
  BY <1>t DEF BlockedVerdict
<1>4. verdict = "jar" => CookieRow # "ok"
  BY DEF DoctorInv, Diagnosis, StaleVerdict, BlockedVerdict
<1>5. CookieRow = "ok" <=> seen.jar = "login"
  BY DEF CookieRow
<1>6. conf.provider /\ ProviderRow # "fail" => seen.provider \in {"up", "mismatch"}
  BY <1>t DEF ProviderRow, DoctorTypeOK, ProviderIs
<1>7. conf.tunnel /\ TunnelRow = "ok" => seen.tunnel # "down"
  BY <1>t DEF TunnelRow
<1>8. verdict # "none" => report = "idle"
  BY DEF DoctorInv
<1>9. flaps = 0 => AsBuilt /\ AsSeen
  BY DEF DoctorInv
<1>10. Outward /\ flaps = 0 => built.provider
  BY <1>1, <1>6, <1>8, <1>9 DEF AsBuilt, AsSeen
<1>11. verdict \in {"exit", "address"} /\ flaps = 0 => built.tunnel = conf.tunnel
  BY <1>t, <1>b, <1>2a, <1>3, <1>7, <1>8, <1>9 DEF AsBuilt, AsSeen
<1>12. QED BY <1>1, <1>4, <1>5, <1>10, <1>11 DEF BlameFair

\* The doctor sends nobody after a cause it has not looked at, and a remembered
\* answer is about the machine configured now (run_youtube_doctor, /blocks).
THEOREM DoctorIsHonest == DoctorSpec => []DoctorHonest
<1>1. DoctorInv => DoctorHonest
  BY FairVerdict DEF DoctorInv, DoctorHonest
<1>2. QED BY <1>1, InitDoctor, DoctorStep, PTL DEF DoctorSpec

-----------------------------------------------------------------------------
(***************************************************************************)
(* The types of a restore and of the jar, with their bounds. What is kept  *)
(* waiting stays within its cap because an upload drops as many of the     *)
(* oldest as are too many, and no two have one nonce.                      *)
(***************************************************************************)

Earlier(ps, p) == {q \in ps : q.nonce < p.nonce}

\* Dropping the n oldest of a set leaves n fewer (remember_pending).
LEMMA OldestGo ==
  ASSUME NEW ps, IsFiniteSet(ps), ps \subseteq Waiting, NEW n \in Nat, n <= Cardinality(ps),
         \A p, q \in ps : p.nonce = q.nonce => p = q
  PROVE  /\ IsFiniteSet(ps \ Oldest(n, ps))
         /\ Cardinality(ps \ Oldest(n, ps)) <= Cardinality(ps) - n
<1> DEFINE R == ps \ Oldest(n, ps)
           c == Cardinality(ps)
           rank == [p \in R |-> Cardinality(Earlier(ps, p))]
<1>1. IsFiniteSet(R) /\ c \in Nat
  BY FS_Subset, FS_CardinalityType
<1>2. ASSUME NEW p \in ps
      PROVE  /\ IsFiniteSet(Earlier(ps, p)) /\ Cardinality(Earlier(ps, p)) \in Nat
             /\ p.nonce \in Nat /\ Earlier(ps, p) \subseteq ps \ {p}
  <2>1. p.nonce \in Nat
    BY DEF Waiting
  <2>2. Earlier(ps, p) \subseteq ps \ {p}
    BY <2>1 DEF Earlier
  <2>3. IsFiniteSet(Earlier(ps, p))
    BY <2>2, FS_Subset
  <2>4. QED BY <2>1, <2>2, <2>3, FS_CardinalityType
<1>3. ASSUME NEW p \in R PROVE Cardinality(Earlier(ps, p)) \in n..(c - 1)
  <2>1. Cardinality(Earlier(ps, p)) >= n
    <3>1. p \in ps /\ p \notin Oldest(n, ps)
      OBVIOUS
    <3>2. ~(Cardinality(Earlier(ps, p)) < n)
      BY <3>1 DEF Oldest, Earlier
    <3>3. Cardinality(Earlier(ps, p)) \in Nat
      BY <1>2
    <3>4. QED BY <3>2, <3>3
  <2>2. IsFiniteSet(ps \ {p}) /\ Cardinality(ps \ {p}) = c - 1
    BY FS_RemoveElement
  <2>3. Cardinality(Earlier(ps, p)) <= c - 1
    BY <1>2, <2>2, FS_Subset
  <2>4. QED BY <1>1, <1>2, <2>1, <2>3
<1>4. ASSUME NEW p \in R, NEW q \in R, p.nonce < q.nonce
      PROVE  Cardinality(Earlier(ps, p)) < Cardinality(Earlier(ps, q))
  <2>1. p \notin Earlier(ps, p) /\ Earlier(ps, p) \cup {p} \subseteq Earlier(ps, q)
    <3>1. p \in ps /\ q \in ps /\ p.nonce \in Nat /\ q.nonce \in Nat
      BY <1>2
    <3>2. \A x \in Earlier(ps, p) : x \in ps /\ x.nonce < p.nonce /\ x.nonce \in Nat
      BY <1>2 DEF Earlier
    <3>3. \A x \in Earlier(ps, p) : x.nonce < q.nonce
      BY <1>4, <3>1, <3>2
    <3>4. p \notin Earlier(ps, p)
      BY <3>1 DEF Earlier
    <3>5. QED BY <1>4, <3>1, <3>2, <3>3, <3>4 DEF Earlier
  <2>2. IsFiniteSet(Earlier(ps, p) \cup {p})
        /\ Cardinality(Earlier(ps, p) \cup {p}) = Cardinality(Earlier(ps, p)) + 1
    BY <1>2, <2>1, FS_AddElement
  <2>3. Cardinality(Earlier(ps, p) \cup {p}) <= Cardinality(Earlier(ps, q))
    BY <1>2, <2>1, FS_Subset
  <2>4. QED BY <1>2, <2>2, <2>3
<1>5. IsFiniteSet(n..(c - 1)) /\ Cardinality(n..(c - 1)) = c - n
  <2> HIDE DEF c, R, rank
  <2>1. n \in Int /\ c - 1 \in Int /\ n <= c
    BY <1>1 DEF c
  <2>2. IsFiniteSet(n..(c - 1))
        /\ Cardinality(n..(c - 1)) = IF n > c - 1 THEN 0 ELSE (c - 1) - n + 1
    BY <2>1, FS_Interval
  <2>3. QED BY <1>1, <2>1, <2>2
<1>6. Cardinality(R) <= c - n
  <2> SUFFICES ASSUME ~(Cardinality(R) <= c - n) PROVE FALSE
    OBVIOUS
  <2>1. Cardinality(n..(c - 1)) < Cardinality(R)
    BY <1>1, <1>5, FS_CardinalityType
  <2>2. rank \in [R -> n..(c - 1)]
    BY <1>3
  <2> HIDE DEF rank, R
  <2>3. PICK p \in R, q \in R : p # q /\ rank[p] = rank[q]
    BY <1>1, <1>5, <2>1, <2>2, FS_PigeonHole
  <2>4. Cardinality(Earlier(ps, p)) = Cardinality(Earlier(ps, q))
    BY <2>3 DEF rank
  <2>5. p.nonce # q.nonce /\ p.nonce \in Nat /\ q.nonce \in Nat
    BY <1>2, <2>3 DEF R
  <2>6. p.nonce < q.nonce \/ q.nonce < p.nonce
    BY <2>5
  <2>7. Cardinality(Earlier(ps, p)) \in Nat /\ Cardinality(Earlier(ps, q)) \in Nat
    BY <1>2 DEF R
  <2>8. QED BY <1>4, <2>4, <2>6, <2>7
<1>7. QED BY <1>1, <1>6

\* The bounds RestoreTypes leaves out.
RestoreSizes ==
  /\ uploading \in BOOLEAN /\ clock \in 0..MaxTick
  /\ IsFiniteSet(pending) /\ Cardinality(pending) <= PendingCap

\* remember_pending never keeps more than its cap.
LEMMA UploadSizes ==
  ASSUME RestoreInv, RestoreSizes, NEW f \in Uploads, UploadFile(f)
  PROVE  IsFiniteSet(pending') /\ Cardinality(pending') <= PendingCap
<1> DEFINE crowd == Cardinality(Kept)
           drop == IF crowd >= PendingCap THEN crowd - PendingCap + 1 ELSE 0
           new == [nonce |-> nonces + 1, expires |-> clock + PendingTTL, file |-> f]
           left == Kept \ Oldest(drop, Kept)
<1>1. pending' = left \cup {new}
  BY DEF UploadFile
<1>2. Kept \subseteq pending /\ IsFiniteSet(Kept) /\ crowd \in Nat
  <2>1. Kept \subseteq pending
    BY DEF Kept
  <2>2. QED BY <2>1, FS_Subset, FS_CardinalityType DEF RestoreSizes
<1>3. /\ Kept \subseteq Waiting
      /\ \A p, q \in Kept : p.nonce = q.nonce => p = q
  BY <1>2 DEF RestoreInv, RestoreTypes, WaitsOnce
<1>4. drop \in Nat /\ drop <= crowd /\ crowd - drop <= PendingCap - 1
  BY <1>2
<1> HIDE DEF drop, crowd
<1>5. IsFiniteSet(left) /\ Cardinality(left) <= crowd - drop
  BY <1>2, <1>3, <1>4, OldestGo DEF crowd
<1> HIDE DEF left, new
<1>6. /\ IsFiniteSet(left \cup {new}) /\ Cardinality(left) \in Nat
      /\ Cardinality(left \cup {new}) <= Cardinality(left) + 1
  <2>1. IsFiniteSet(left) /\ Cardinality(left) \in Nat
    BY <1>5, FS_CardinalityType
  <2>2. /\ IsFiniteSet(left \cup {new})
        /\ Cardinality(left \cup {new}) = IF new \in left THEN Cardinality(left) ELSE Cardinality(left) + 1
    BY <2>1, FS_AddElement
  <2>3. QED BY <2>1, <2>2
<1>7. Cardinality(left \cup {new}) \in Nat /\ crowd \in Nat
  BY <1>2, <1>6, FS_CardinalityType DEF crowd
<1>8. QED BY <1>1, <1>4, <1>5, <1>6, <1>7

LEMMA RestoreSizesStep == RestoreInv /\ RestoreSizes /\ [RestoreNext]_restoreVars => RestoreSizes'
<1> SUFFICES ASSUME RestoreInv, RestoreSizes, [RestoreNext]_restoreVars PROVE RestoreSizes'
  OBVIOUS
<1>1. ASSUME pending' \subseteq pending
      PROVE  IsFiniteSet(pending') /\ Cardinality(pending') <= PendingCap
  <2>1. IsFiniteSet(pending') /\ Cardinality(pending') <= Cardinality(pending)
    BY <1>1, FS_Subset DEF RestoreSizes
  <2>2. Cardinality(pending') \in Nat /\ Cardinality(pending) \in Nat
    BY <2>1, FS_CardinalityType DEF RestoreSizes
  <2>3. QED BY <2>1, <2>2 DEF RestoreSizes
<1>2. CASE AskFile \/ EditConf \/ Stamp \/ UNCHANGED restoreVars
  <2>1. pending' = pending /\ clock' = clock /\ uploading' \in BOOLEAN
    BY <1>2 DEF AskFile, EditConf, Stamp, restoreVars, RestoreSizes
  <2>2. QED BY <2>1 DEF RestoreSizes
<1>3. CASE RestoreTick
  BY <1>3 DEF RestoreTick, RestoreSizes
<1>4. ASSUME NEW f \in Uploads, UploadFile(f) PROVE RestoreSizes'
  <2>1. clock' = clock /\ uploading' = uploading
    BY <1>4 DEF UploadFile
  <2>2. QED BY <1>4, <2>1, UploadSizes DEF RestoreSizes
<1>5. ASSUME NEW n \in 0..MaxNonce, CancelRestore(n) PROVE RestoreSizes'
  <2>1. clock' = clock /\ uploading' = FALSE /\ pending' \subseteq pending
    BY <1>5 DEF CancelRestore
  <2>2. QED BY <1>1, <2>1 DEF RestoreSizes
<1>6. ASSUME NEW h \in RestoreTap, NEW n \in 1..MaxNonce, TakePending(h, n) PROVE RestoreSizes'
  <2>1. clock' = clock /\ uploading' \in BOOLEAN /\ pending' \subseteq pending
    BY <1>6 DEF TakePending, RestoreSizes
  <2>2. QED BY <1>1, <2>1 DEF RestoreSizes
<1>7. ASSUME NEW h \in RestoreTap,
             \/ ReadTexts(h) \/ ReadState(h) \/ SendFile(h)
             \/ ApplyCommit(h) \/ ApplyRollback(h) \/ RestoreReport(h)
      PROVE  RestoreSizes'
  <2>1. UNCHANGED <<pending, clock, uploading>>
    BY <1>7 DEF ReadTexts, ReadState, SendFile, ApplyCommit, ApplyRollback, RestoreReport
  <2>2. QED BY <2>1 DEF RestoreSizes
<1>8. QED BY <1>2, <1>3, <1>4, <1>5, <1>6, <1>7 DEF RestoreNext

LEMMA RestoreTyped == RestoreSpec => []RestoreTypeOK
<1>1. RestoreInit => RestoreSizes
  <2>1. 0 <= PendingCap /\ 0 \in 0..MaxTick
    OBVIOUS
  <2>2. QED BY <2>1, FS_EmptySet DEF RestoreInit, RestoreSizes
<1>2. RestoreInv /\ RestoreSizes => RestoreTypeOK
  <2> SUFFICES ASSUME RestoreInv, RestoreSizes PROVE RestoreTypeOK
    OBVIOUS
  <2>1. \A p \in pending : p \in [nonce : 1..MaxNonce, expires : Nat, file : File]
    BY DEF RestoreInv, RestoreTypes, WaitsOnce, Unspent, Waiting
  <2>2. \A h \in RestoreTap : go[h].nonce \in 0..MaxNonce
    BY DEF RestoreInv, RestoreTypes, HeldOnce, IdleEmpty, Unspent, Going
  <2>3. \A h \in RestoreTap : go[h] \in [at : Points, nonce : 0..MaxNonce, file : File, safe : File]
    BY <2>2 DEF RestoreInv, RestoreTypes, Going
  <2>4. go \in [RestoreTap -> [at : Points, nonce : 0..MaxNonce, file : File, safe : File]]
    BY <2>3 DEF RestoreInv, RestoreTypes
  <2>5. uses \in [1..MaxNonce -> 0..2]
    BY DEF RestoreInv, RestoreTypes
  <2>6. nonces \in 0..MaxNonce /\ void \subseteq 1..MaxNonce
    BY DEF RestoreInv, RestoreTypes, Unspent
  <2>7. QED BY <2>1, <2>4, <2>5, <2>6 DEF RestoreInv, RestoreTypes, RestoreSizes, RestoreTypeOK, Points
<1>3. QED BY <1>1, <1>2, InitRestore, NextRestore, RestoreSizesStep, PTL DEF RestoreSpec

-----------------------------------------------------------------------------
\* An export that is there has a stamp: it was written.
Written == jar.kind # "missing" => jar.stamp # 0

LEMMA CookiesTypeInit == CookiesInit => CookiesTypeOK /\ Written
<1> SUFFICES ASSUME CookiesInit PROVE CookiesTypeOK /\ Written
  OBVIOUS
<1>1. 0 \in 0..MaxWrites /\ 1 \in 0..MaxWrites
  OBVIOUS
<1>2. jar \in [kind : Jar, stamp : 0..MaxWrites] /\ Written
  BY <1>1 DEF CookiesInit, Written
<1>3. copied \in Copy
  BY <1>1, <1>2 DEF CookiesInit, Copy
<1>4. Resting \in [at : {"idle", "export", "judge", "place"}, saw : 0..MaxWrites]
      /\ NoCopying \in Copying
      /\ [primed |-> FALSE, announced |-> 0] \in [primed : BOOLEAN, announced : 0..MaxWrites]
  BY <1>1 DEF Resting, NoCopying, Copying
<1>5. QED BY <1>2, <1>3, <1>4 DEF CookiesInit, CookiesTypeOK

LEMMA JarTyped ==
  ASSUME CookiesTypeOK, NEW kind \in Jar, JarBecomes(kind)
  PROVE  jar' \in [kind : Jar, stamp : 0..MaxWrites] /\ jar'.stamp # 0
<1>1. jar.stamp \in 0..MaxWrites
  BY DEF CookiesTypeOK
<1>2. jar.stamp + 1 \in 0..MaxWrites /\ jar.stamp + 1 # 0
  BY <1>1 DEF JarBecomes
<1>3. QED BY <1>2 DEF JarBecomes

LEMMA EndsTyped ==
  ASSUME CookiesTypeOK, NEW i \in Importer, ImportEnds(i)
  PROVE  /\ candidate' \in [Wizard \cup {"bot"} -> Jar \cup {NoFile}]
         /\ import' \in [Importer -> [at : {"idle", "export", "judge", "place"}, saw : 0..MaxWrites]]
         /\ inFlight' \in BOOLEAN
<1>1. Resting \in [at : {"idle", "export", "judge", "place"}, saw : 0..MaxWrites]
  BY DEF Resting
<1>2. QED BY <1>1 DEF ImportEnds, CookiesTypeOK

\* The writers of the jar.
LEMMA ImportTyped ==
  ASSUME CookiesTypeOK, Written, NEW i \in Importer,
         AskRefresh(i) \/ StartWizard(i) \/ Export(i) \/ Judge(i) \/ Place(i)
  PROVE  CookiesTypeOK' /\ Written'
<1> DEFINE Importing == [at : {"idle", "export", "judge", "place"}, saw : 0..MaxWrites]
<1>1. import[i] \in Importing /\ jar.stamp \in 0..MaxWrites /\ jar.kind \in Jar
  BY DEF CookiesTypeOK
<1>2. CASE AskRefresh(i) \/ StartWizard(i)
  <2>1. [import[i] EXCEPT !.at = "export"] \in Importing
    BY <1>1
  <2>2. import' = [import EXCEPT ![i].at = "export"] /\ inFlight' \in BOOLEAN
    BY <1>2 DEF AskRefresh, StartWizard, CookiesTypeOK
  <2>5. import' \in [Importer -> Importing]
    BY <2>1, <2>2 DEF CookiesTypeOK
  <2>3. UNCHANGED <<jar, candidate, copied, run, watch, told, wrong>>
    BY <1>2 DEF AskRefresh, StartWizard
  <2>4. QED BY <2>2, <2>3, <2>5 DEF CookiesTypeOK, Written
<1>3. CASE Export(i)
  <2>1. UNCHANGED <<jar, copied, run, watch, told, wrong>>
    BY <1>3 DEF Export
  <2>2. CASE ImportEnds(i)
    BY <2>1, <2>2, EndsTyped DEF CookiesTypeOK, Written
  <2>3. CASE /\ \E kind \in Jar \ {"missing"} : candidate' = [candidate EXCEPT ![Beside(i)] = kind]
             /\ import' = [import EXCEPT ![i].at = "judge"]
             /\ UNCHANGED inFlight
    <3>1. [import[i] EXCEPT !.at = "judge"] \in Importing
      BY <1>1
    <3>2. import' \in [Importer -> Importing]
      BY <2>3, <3>1 DEF CookiesTypeOK
    <3>3. candidate' \in [Wizard \cup {"bot"} -> Jar \cup {NoFile}]
      BY <2>3 DEF CookiesTypeOK
    <3>4. QED BY <2>1, <2>3, <3>2, <3>3 DEF CookiesTypeOK, Written
  <2>4. QED BY <1>3, <2>2, <2>3 DEF Export
<1>4. CASE Judge(i)
  <2>1. UNCHANGED <<jar, copied, run, watch, told, wrong>>
    BY <1>4 DEF Judge
  <2>2. CASE ImportEnds(i)
    BY <2>1, <2>2, EndsTyped DEF CookiesTypeOK, Written
  <2>3. CASE /\ import' = [import EXCEPT ![i].at = "place", ![i].saw = jar.stamp]
             /\ UNCHANGED <<candidate, inFlight>>
    <3>1. [import[i] EXCEPT !.at = "place", !.saw = jar.stamp] \in Importing
      BY <1>1
    <3>2. import' \in [Importer -> Importing]
      BY <2>3, <3>1 DEF CookiesTypeOK
    <3>3. QED BY <2>1, <2>3, <3>2 DEF CookiesTypeOK, Written
  <2>4. QED BY <1>4, <2>2, <2>3 DEF Judge
<1>5. CASE Place(i)
  <2>1. ImportEnds(i) /\ UNCHANGED <<copied, run, watch, told>>
    BY <1>5 DEF Place
  <2>2. /\ jar' \in [kind : Jar, stamp : 0..MaxWrites] /\ Written'
        /\ wrong' \subseteq {"login lost", "told twice"}
    <3>1. CASE candidate[Beside(i)] = NoFile
      BY <1>5, <3>1 DEF Place, CookiesTypeOK, Written
    <3>2. CASE candidate[Beside(i)] # NoFile
      <4>1. candidate[Beside(i)] \in Jar
        BY <3>2 DEF CookiesTypeOK
      <4>2. JarBecomes(candidate[Beside(i)]) /\ wrong' \subseteq wrong \cup {"login lost"}
        BY <1>5, <3>2 DEF Place
      <4>3. jar' \in [kind : Jar, stamp : 0..MaxWrites] /\ jar'.stamp # 0
        BY <4>1, <4>2, JarTyped
      <4>4. QED BY <4>2, <4>3 DEF CookiesTypeOK, Written
    <3>3. QED BY <3>1, <3>2
  <2>3. QED BY <2>1, <2>2, EndsTyped DEF CookiesTypeOK
<1>6. QED BY <1>2, <1>3, <1>4, <1>5

\* The runs and the watcher read it.
LEMMA ReaderTyped ==
  ASSUME CookiesTypeOK, Written,
         Watch \/ \E r \in YtRun : StatJar(r) \/ ReadJar(r) \/ MoveCopy(r) \/ NoteStamp(r)
  PROVE  CookiesTypeOK' /\ Written'
<1>1. jar.stamp \in 0..MaxWrites
  BY DEF CookiesTypeOK
<1>2. CASE Watch
  <2>1. ExportStamp \in 0..MaxWrites /\ (Usable(jar.kind) => ExportStamp \in 1..MaxWrites)
    BY <1>1 DEF ExportStamp, Written
  <2>2. [primed |-> TRUE, announced |-> ExportStamp] \in [primed : BOOLEAN, announced : 0..MaxWrites]
    BY <2>1
  <2>3. told' \subseteq 1..MaxWrites /\ wrong' \subseteq {"login lost", "told twice"}
    BY <1>2, <2>1 DEF Watch, CookiesTypeOK
  <2>4. QED BY <1>2, <2>2, <2>3 DEF Watch, CookiesTypeOK, Written
<1>3. ASSUME NEW r \in YtRun, StatJar(r) \/ ReadJar(r) \/ MoveCopy(r) \/ NoteStamp(r)
      PROVE  CookiesTypeOK' /\ Written'
  <2>7. NoCopying \in Copying
    BY DEF NoCopying, Copying
  <2>1. run[r] \in Copying /\ NoCopying \in Copying
    BY <2>7 DEF CookiesTypeOK
  <2>6. UNCHANGED <<jar, candidate, import, inFlight, watch, told, wrong>>
    BY <1>3 DEF StatJar, ReadJar, MoveCopy, NoteStamp
  <2>2. run[r].stamp \in 0..MaxWrites /\ run[r].has \in 0..MaxWrites
    BY <2>1 DEF Copying
  <2>3. run' \in [YtRun -> Copying]
    <3>1. [at |-> "copy", stamp |-> jar.stamp, has |-> 0] \in Copying
      BY <1>1 DEF Copying
    <3>2. [run[r] EXCEPT !.at = "move", !.has = jar.stamp] \in Copying
      BY <1>1, <2>1 DEF Copying
    <3>3. [run[r] EXCEPT !.at = "note"] \in Copying
      BY <2>1 DEF Copying
    <3>4. CASE StatJar(r)
      BY <3>1, <3>4 DEF StatJar, CookiesTypeOK
    <3>5. CASE ReadJar(r)
      BY <2>1, <3>2, <3>5 DEF ReadJar, CookiesTypeOK
    <3>6. CASE MoveCopy(r)
      BY <3>3, <3>6 DEF MoveCopy, CookiesTypeOK
    <3>7. CASE NoteStamp(r)
      BY <2>1, <3>7 DEF NoteStamp, CookiesTypeOK
    <3>8. QED BY <1>3, <3>4, <3>5, <3>6, <3>7
  <2>4. copied' \in Copy
    <3>1. copied \in Copy /\ {r} \in SUBSET YtRun
      BY DEF CookiesTypeOK
    <3>2. /\ [copied EXCEPT !.has = run[r].has, !.moved = {r}] \in Copy
          /\ [copied EXCEPT !.stamp = run[r].stamp, !.noted = {r}] \in Copy
      BY <2>2, <3>1 DEF Copy
    <3>3. copied' \in {copied, [copied EXCEPT !.has = run[r].has, !.moved = {r}],
                       [copied EXCEPT !.stamp = run[r].stamp, !.noted = {r}]}
      BY <1>3 DEF StatJar, ReadJar, MoveCopy, NoteStamp
    <3>4. QED BY <3>1, <3>2, <3>3
  <2>5. QED BY <2>3, <2>4, <2>6 DEF CookiesTypeOK, Written
<1>4. QED BY <1>2, <1>3

LEMMA CookiesTyped == CookiesSpec => []CookiesTypeOK
<1>1. CookiesTypeOK /\ Written /\ [CookiesNext]_cookieVars => CookiesTypeOK' /\ Written'
  <2> SUFFICES ASSUME CookiesTypeOK, Written, [CookiesNext]_cookieVars PROVE CookiesTypeOK' /\ Written'
    OBVIOUS
  <2>1. CASE UNCHANGED cookieVars
    BY <2>1 DEF cookieVars, CookiesTypeOK, Written
  <2>2. CASE WrittenByHand
    <3>1. jar' \in [kind : Jar, stamp : 0..MaxWrites] /\ jar'.stamp # 0
      BY <2>2, JarTyped DEF WrittenByHand
    <3>2. QED BY <2>2, <3>1 DEF WrittenByHand, CookiesTypeOK, Written
  <2>3. QED BY <2>1, <2>2, ImportTyped, ReaderTyped DEF CookiesNext, ImportNext, CopyNext
<1>2. QED BY <1>1, CookiesTypeInit, PTL DEF CookiesSpec

LEMMA DoctorTyped == DoctorSpec => []DoctorTypeOK
<1>1. DoctorInv => DoctorTypeOK
  BY DEF DoctorInv
<1>2. QED BY <1>1, InitDoctor, DoctorStep, PTL DEF DoctorSpec
====
