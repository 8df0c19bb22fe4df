------------------------------ MODULE TextSync ------------------------------
(***************************************************************************)
(* core/texts.py: every process answers texts from its own snapshot of     *)
(* bot_texts; a counter in Redis says when to reload it, and a TTL stands  *)
(* in for the counter while Redis does not answer. The editor and the      *)
(* restore (handlers/admin.py) write the table, then their own snapshot,   *)
(* then the counter. Reloads and edits of one process overlap as they like.*)
(***************************************************************************)
EXTENDS Naturals, FiniteSets

CONSTANTS Replica,    \* processes sharing the table and the counter
          Editors,    \* the replicas whose admins edit
          TextKey,    \* (key, language) pairs
          Wording,    \* replacements
          Catalogue,  \* the default: no row
          NoVersion,  \* _version = None: never loaded, or the channel failed
          Broken,     \* what may fail: "get", "bump", "load"
          MaxEdits,   \* bound: edits
          MaxLoads,   \* bound: failing reloads
          MaxSyncs    \* bound: reloads of one process at a time

ASSUME TextAssumption ==
  /\ Editors \subseteq Replica
  /\ Replica # {}
  /\ Catalogue \notin Wording
  /\ NoVersion \notin Nat
  /\ Broken \subseteq {"get", "bump", "load"}
  /\ TextKey # {}
  /\ {MaxEdits, MaxLoads} \subseteq Nat
  /\ MaxSyncs \in [Replica -> Nat]

TextRows == Wording \cup {Catalogue}
Texts    == [TextKey -> TextRows]
Versions == Nat \cup {NoVersion}
EditId   == 1..MaxEdits

VARIABLES table,     \* bot_texts
          counter,   \* bot:texts:version
          shown,     \* per replica: _overrides, what t() answers
          version,   \* per replica: _version
          aged,      \* per replica: the TTL since _loaded_at has passed
          syncing,   \* per replica: its calls of sync() between two awaits
          editing,   \* per edit: where the handler of it stands
          edits, loads,
          lost       \* history: the last INCR failed

textVars == <<table, counter, shown, version, aged, syncing, editing, edits, loads, lost>>

Default == [k \in TextKey |-> Catalogue]
NoEdit  == [at |-> "idle", by |-> CHOOSE p \in Replica : TRUE,
            key |-> CHOOSE k \in TextKey : TRUE, value |-> Catalogue,
            rows |-> Default, got |-> NoVersion]

Syncs == [at : {"load", "apply"}, seen : Versions, rows : Texts]
Edits == [at : {"idle", "table", "restored", "publish", "bumped"}, by : Replica,
          key : TextKey, value : TextRows, rows : Texts, got : Versions]

TextTypeOK ==
  /\ table \in Texts
  /\ counter \in 0..MaxEdits
  /\ shown \in [Replica -> Texts]
  /\ version \in [Replica -> Versions]
  /\ aged \in [Replica -> BOOLEAN]
  /\ syncing \in [Replica -> SUBSET Syncs]
  /\ editing \in [EditId -> Edits]
  /\ edits \in 0..MaxEdits /\ loads \in 0..MaxLoads /\ lost \in BOOLEAN

\* build_app loads the table before the store is bound to the channel.
TextInit ==
  /\ table = Default /\ counter = 0
  /\ shown = [p \in Replica |-> Default]
  /\ version = [p \in Replica |-> NoVersion]
  /\ aged = [p \in Replica |-> FALSE]
  /\ syncing = [p \in Replica |-> {}]
  /\ editing = [n \in EditId |-> NoEdit]
  /\ edits = 0 /\ loads = 0 /\ lost = FALSE

-----------------------------------------------------------------------------
(* sync: called before every update and every job; the rate limit only     *)
(* drops calls, and a call that waits longer than it is met by the next.   *)

SyncStarts(p, seen) ==
  /\ Cardinality(syncing[p]) < MaxSyncs[p]
  /\ syncing' = [syncing EXCEPT ![p] = @ \cup {[at |-> "load", seen |-> seen, rows |-> Default]}]
  /\ UNCHANGED <<table, counter, shown, version, aged, editing, edits, loads, lost>>

\* The counter is read: unmoved, nothing to do; moved, the table is read.
SyncMoved(p) == counter # version[p] /\ SyncStarts(p, counter)

\* No counter: the table is read once the TTL has passed.
SyncAged(p) == "get" \in Broken /\ aged[p] /\ SyncStarts(p, NoVersion)

SyncLoad(p, s) ==
  /\ s \in syncing[p] /\ s.at = "load"
  /\ syncing' = [syncing EXCEPT ![p] = (@ \ {s}) \cup {[s EXCEPT !.at = "apply", !.rows = table]}]
  /\ UNCHANGED <<table, counter, shown, version, aged, editing, edits, loads, lost>>

\* Mutant: the version is taken over although the reload failed.
SyncLoadFailsSeen(p, s) ==
  /\ "load" \in Broken /\ loads < MaxLoads
  /\ s \in syncing[p] /\ s.at = "load"
  /\ version' = [version EXCEPT ![p] = s.seen]
  /\ syncing' = [syncing EXCEPT ![p] = @ \ {s}]
  /\ loads' = loads + 1
  /\ UNCHANGED <<table, counter, shown, aged, editing, edits, lost>>

\* The reload fails: the last known snapshot stays, and so does _version.
SyncLoadFails(p, s) ==
  /\ "load" \in Broken /\ loads < MaxLoads
  /\ s \in syncing[p] /\ s.at = "load"
  /\ syncing' = [syncing EXCEPT ![p] = @ \ {s}]
  /\ loads' = loads + 1
  /\ UNCHANGED <<table, counter, shown, version, aged, editing, edits, lost>>

\* Mutant: the version taken over is read after the table, not before.
SyncApplyNewest(p, s) ==
  /\ s \in syncing[p] /\ s.at = "apply"
  /\ shown' = [shown EXCEPT ![p] = s.rows]
  /\ version' = [version EXCEPT ![p] = counter]
  /\ aged' = [aged EXCEPT ![p] = FALSE]
  /\ syncing' = [syncing EXCEPT ![p] = @ \ {s}]
  /\ UNCHANGED <<table, counter, editing, edits, loads, lost>>

\* apply_overrides: the snapshot is replaced whole.
SyncApply(p, s) ==
  /\ s \in syncing[p] /\ s.at = "apply"
  /\ shown' = [shown EXCEPT ![p] = s.rows]
  /\ version' = [version EXCEPT ![p] = s.seen]
  /\ aged' = [aged EXCEPT ![p] = FALSE]
  /\ syncing' = [syncing EXCEPT ![p] = @ \ {s}]
  /\ UNCHANGED <<table, counter, editing, edits, loads, lost>>

\* FALLBACK_TTL_S passes since the last load or publication.
Age(p) ==
  /\ "get" \in Broken
  /\ ~aged[p]
  /\ aged' = [aged EXCEPT ![p] = TRUE]
  /\ UNCHANGED <<table, counter, shown, version, syncing, editing, edits, loads, lost>>

-----------------------------------------------------------------------------
(* An edit: on_text_edit_value and the reset of on_texts_button. The n-th  *)
(* edit runs in process editing[n].by, beside whatever else runs there.    *)

EditStarts(e) ==
  /\ edits < MaxEdits
  /\ editing' = [editing EXCEPT ![edits + 1] = e]
  /\ edits' = edits + 1
  /\ UNCHANGED <<counter, shown, version, aged, syncing, loads, lost>>

EditTable(p, k, v) ==
  /\ p \in Editors
  /\ table' = [table EXCEPT ![k] = v]
  /\ EditStarts([NoEdit EXCEPT !.at = "table", !.by = p, !.key = k, !.value = v])

\* A restore has committed another table (on_restore_go),
RestoreTable(p) ==
  /\ p \in Editors
  /\ table' \in Texts
  /\ EditStarts([NoEdit EXCEPT !.at = "restored", !.by = p])

\* and reads its rows back.
RestoreRows(n) ==
  /\ editing[n].at = "restored"
  /\ editing' = [editing EXCEPT ![n].at = "publish", ![n].rows = table]
  /\ UNCHANGED <<table, counter, shown, version, aged, syncing, edits, loads, lost>>

\* The own snapshot first: saved and cleared change one entry, restored
\* replaces them all.
OwnSnapshot(n) ==
  LET e == editing[n]
  IN /\ e.at \in {"table", "publish"}
     /\ shown' = [shown EXCEPT ![e.by] = IF e.at = "table" THEN [@ EXCEPT ![e.key] = e.value]
                                                           ELSE e.rows]
     /\ aged' = [aged EXCEPT ![e.by] = FALSE]
     /\ UNCHANGED <<table, version, syncing, edits, loads>>

Bumped(n, got) == [NoEdit EXCEPT !.at = "bumped", !.by = editing[n].by, !.got = got]

\* Then _publish: the INCR is sent.
Publish(n) ==
  /\ OwnSnapshot(n)
  /\ counter' = counter + 1
  /\ lost' = FALSE
  /\ editing' = [editing EXCEPT ![n] = Bumped(n, counter + 1)]

\* The INCR fails: logged, and _version forgotten.
PublishFails(n) ==
  /\ "bump" \in Broken
  /\ OwnSnapshot(n)
  /\ lost' = TRUE
  /\ editing' = [editing EXCEPT ![n] = Bumped(n, NoVersion)]
  /\ UNCHANGED counter

\* The answer of the INCR becomes this process's _version.
EditDone(n) ==
  /\ editing[n].at = "bumped"
  /\ version' = [version EXCEPT ![editing[n].by] = editing[n].got]
  /\ editing' = [editing EXCEPT ![n] = NoEdit]
  /\ UNCHANGED <<table, counter, shown, aged, syncing, edits, loads, lost>>

-----------------------------------------------------------------------------
Fetch(p)    == \E s \in syncing[p] : SyncLoad(p, s) \/ SyncLoadFails(p, s)
Reload(p)   == \E s \in syncing[p] : SyncApply(p, s)
EditStep(n) == RestoreRows(n) \/ Publish(n) \/ PublishFails(n) \/ EditDone(n)

TextNext ==
  \/ \E p \in Replica :
       \/ SyncMoved(p) \/ SyncAged(p) \/ Fetch(p) \/ Reload(p) \/ Age(p) \/ RestoreTable(p)
       \/ \E k \in TextKey, v \in TextRows : EditTable(p, k, v)
  \/ \E n \in EditId : EditStep(n)

\* Updates and jobs keep arriving, so sync keeps being called, and a counter
\* that does not answer now and then answers again; a call once begun reads the
\* table and takes the rows over. That time passes is not needed.
TextFairness ==
  /\ \A p \in Replica : /\ WF_textVars(SyncMoved(p))
                     /\ WF_textVars(Fetch(p)) /\ WF_textVars(Reload(p))
  /\ \A n \in EditId : WF_textVars(EditStep(n))

TextSpec == TextInit /\ [][TextNext]_textVars

\* Without fairness a process need never look at the counter again.
TextLiveSpec == TextSpec /\ TextFairness

-----------------------------------------------------------------------------
\* The edits that are in the table and not yet in the counter.
Unpublished == {n \in EditId : editing[n].at \in {"table", "restored", "publish"}}

\* The processes that only show the texts: the peers of whoever edits.
Readers == Replica \ Editors

\* Staleness is always noticed: a peer whose version is the counter's, for
\* which sync reads nothing, shows the table, whoever else edits meanwhile and
\* however its reloads overlap. The two exceptions are an edit whose INCR is
\* still to come, and one whose INCR failed (OverrideStore.sync, _publish).
TextsAgree ==
  \A p \in Readers :
    version[p] = counter => shown[p] = table \/ Unpublished # {} \/ lost

\* Once the editing stops, every peer ends up showing exactly the table, with
\* no restart: an edit, a reset or a restore goes live there. Only an INCR that
\* failed leaves it behind (OverrideStore.sync, saved, cleared, restored).
TextsConverge == \A p \in Readers : <>[](shown[p] = table \/ lost)
=============================================================================
