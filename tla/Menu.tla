------------------------------- MODULE Menu -------------------------------
(***************************************************************************)
(* The question of handlers/user.py, for one user: a link is looked up and *)
(* probed, a menu is drawn, a button is tapped, a job is queued. A button  *)
(* carries a tier and no link; the link, and everything the tap is judged  *)
(* by, is the user's FSM record, which the next question overwrites key by *)
(* key. The updates of the user are handled concurrently and meet at every *)
(* await. The sections that guard the same record are in DownloadMode.     *)
(***************************************************************************)
EXTENDS Naturals, Sequences, Functions

CONSTANTS Link,         \* links the user sends
          LadderOf,        \* per link: the resolutions its probe finds, best first
          Sound,        \* tracks: looked up by name, audio only
          Solo,         \* links answered without a question
          Tapper,       \* updates of the user handled at once
          NoLink,       \* no link, or nobody's verdict
          MaxUpdates,   \* bound: updates in one behaviour
          MaxKeys       \* bound: retry buttons in one behaviour

ASSUME MenuAssumption == /\ NoLink \notin Link /\ Sound \subseteq Link /\ Solo \subseteq Link
                         /\ \A u \in Link : LadderOf[u] \in Seq(Range(LadderOf[u]))
                         /\ MaxUpdates \in Nat /\ MaxKeys \in Nat

VARIABLES waiting,   \* FSM state: waiting_format
          data,      \* FSM data: url, offered, audio_offered, options, live
          probing,   \* _probes_running: links whose retry is looking them up
          recent,    \* _recent_requests: the spellings last accepted
          keys,      \* _retries: the live retry buttons and their tasks
          filed,      \* the file cache: requests that can be replayed
          air,       \* jobs queued or running
          frames,    \* per update: where its handler stands
          drawn,     \* history: buttons drawn or requests made, with their link
          pressed,   \* history: how often a retry button was accepted
          updates, issued

menuVars == <<waiting, data, probing, recent, keys, filed, air, frames, drawn, pressed,
              updates, issued>>

Rung == UNION {Range(LadderOf[u]) : u \in Link}
Tier == Rung \cup {"best", "sound"}
Maybe == Link \cup {NoLink}
Request == Link \X Tier
Job == [url : Link, tier : Tier, verdict : Maybe]

NoQuestion == [url |-> NoLink, offered |-> {}, sound |-> "unknown", ladder |-> FALSE, verdict |-> NoLink]
Rest  == [at |-> "idle", url |-> NoLink, tier |-> "best", verdict |-> NoLink, ask |-> "none",
          kind |-> "none"]
Nothing == <<NoLink, "none">>

Await == {"idle", "look", "probe", "state", "data", "read", "clear", "submit", "cache",
          "quota", "queue", "reread", "ack", "forget"}

MenuTypeOK ==
  /\ waiting \in BOOLEAN
  /\ data \in [url : Maybe, offered : SUBSET Tier, sound : {"unknown", "no", "yes"}, ladder : BOOLEAN,
               verdict : Maybe]
  /\ probing \subseteq Link
  /\ recent \in (Maybe \X Tier) \cup {Nothing}
  /\ DOMAIN keys \subseteq 1..MaxKeys /\ \A k \in DOMAIN keys : keys[k] \in Job
  /\ filed \subseteq Request /\ air \subseteq Job /\ drawn \subseteq Request
  /\ frames \in [Tapper -> [at : Await, url : Maybe, tier : Tier, verdict : Maybe,
                            ask : {"none", "cached", "ladder", "again", "auto", "full"},
                            kind : {"none", "tap", "link", "solo", "probe", "retry"}]]
  /\ pressed \in [1..MaxKeys -> Nat]
  /\ updates \in 0..MaxUpdates /\ issued \in 0..MaxKeys

MenuInit == /\ waiting = FALSE /\ data = NoQuestion
            /\ probing = {} /\ recent = Nothing /\ keys = <<>>
            /\ filed \in SUBSET {<<u, "best">> : u \in Link \ Sound}
            /\ air = {} /\ drawn = {}
            /\ frames = [h \in Tapper |-> Rest]
            /\ pressed = [k \in 1..MaxKeys |-> 0]
            /\ updates = 0 /\ issued = 0

fsm   == <<waiting, data>>
store == <<recent, keys, filed, air, pressed, issued>>

Moves(h, at)  == frames' = [frames EXCEPT ![h].at = at]
Done(h)      == frames' = [frames EXCEPT ![h] = Rest]
Arrives(h, frame) == /\ frames[h].at = "idle" /\ updates < MaxUpdates
                     /\ updates' = updates + 1
                     /\ frames' = [frames EXCEPT ![h] = frame]

-----------------------------------------------------------------------------
(* A link: the cache, then the probe, then the question.                   *)

LinkArrives(h, u) == /\ Arrives(h, [Rest EXCEPT !.at = "look", !.url = u, !.kind = "link"])
                     /\ UNCHANGED <<fsm, probing, store, drawn>>

\* A closed section, an unsupported site: answered, nothing is kept.
TurnedAway(h) == /\ frames[h].at = "look"
                 /\ Done(h)
                 /\ UNCHANGED <<fsm, probing, store, drawn, updates>>

\* One file, no ladder: the old question is dropped and the best is requested.
AutoSend(h) == /\ frames[h].at = "look" /\ frames[h].url \in Solo
               /\ frames' = [frames EXCEPT ![h].at = "clear", ![h].kind = "solo"]
               /\ drawn' = drawn \cup {<<frames[h].url, "best">>}
               /\ UNCHANGED <<fsm, probing, store, updates>>

\* The rows a menu can be made of: under a track only audio ones.
MenuRows(u) == {r \in filed : r[1] = u /\ (u \in Sound => r[2] = "sound")}

\* The rows are a menu of their own, or one of them carries the whole ladder.
AskCached(h) == LET u == frames[h].url IN
                /\ frames[h].at = "look" /\ u \notin Solo /\ MenuRows(u) # {}
                /\ \E ask \in {"cached"} \cup IF LadderOf[u] = <<>> THEN {} ELSE {"ladder"} :
                     frames' = [frames EXCEPT ![h].at = "state", ![h].ask = ask]
                /\ UNCHANGED <<fsm, probing, store, drawn, updates>>

ProbeBegins(h) == /\ frames[h].at = "look" /\ frames[h].url \notin Solo
                  /\ MenuRows(frames[h].url) = {}
                  /\ Moves(h, "probe")
                  /\ UNCHANGED <<fsm, probing, store, drawn, updates>>

\* Without qualities, or for a track nobody resolved, the screen offers a retry;
\* for a picture it may have the automatic row.
ProbeAnswers(h) == /\ frames[h].at = "probe"
                   /\ \E ask \in {"full", "again"} \cup IF frames[h].url \in Sound THEN {} ELSE {"auto"} :
                        frames' = [frames EXCEPT ![h].at = "state", ![h].ask = ask]
                   /\ UNCHANGED <<fsm, probing, store, drawn, updates>>

-----------------------------------------------------------------------------
(* Drawing the question: set_state, then update_data.                      *)

\* Mutant: the link is stored as soon as the state is, ahead of its menu.
AskLinkFirst(h) == /\ frames[h].at = "state"
                   /\ waiting' = TRUE
                   /\ data' = [data EXCEPT !.url = frames[h].url]
                   /\ Moves(h, "data")
                   /\ UNCHANGED <<probing, store, drawn, updates>>

Ask(h) == /\ frames[h].at = "state"
          /\ waiting' = TRUE
          /\ Moves(h, "data")
          /\ UNCHANGED <<data, probing, store, drawn, updates>>

\* The ladder with its stored files: the best that was stored is the top rung.
Ladder(u) == Range(Tail(LadderOf[u]))
               \cup {IF <<u, "best">> \in filed THEN "best" ELSE Head(LadderOf[u])}
Stored(u) == IF <<u, "sound">> \in filed THEN "yes" ELSE "no"

Probed(u) == [url |-> u, offered |-> Range(LadderOf[u]), ladder |-> LadderOf[u] # <<>>,
              verdict |-> IF u \in Sound THEN NoLink ELSE u,
              sound |-> IF u \in Sound THEN "yes" ELSE "unknown"]

\* What each question writes into the record: what it does not name survives.
\* Only a probed question knows whether the link is live, and how large it is.
Question(u, ask) ==
  CASE ask = "full"   -> Probed(u)
    [] ask = "ladder" -> [data EXCEPT !.url = u, !.offered = Ladder(u), !.ladder = TRUE,
                                      !.sound = Stored(u)]
    [] ask = "cached" -> [data EXCEPT !.url = u, !.offered = {r[2] : r \in MenuRows(u)} \ {"sound"},
                                      !.ladder = FALSE, !.sound = Stored(u)]
    [] ask = "again"  -> [data EXCEPT !.url = u, !.offered = {}, !.ladder = FALSE]
    [] ask = "auto"   -> [data EXCEPT !.url = u, !.offered = {"best"}, !.ladder = FALSE]

\* _tap_was_offered: the offered list; for audio a track, the audio list, or the
\* row under a ladder.
Offered(q, t) == IF t # "sound" THEN t \in q.offered
                 ELSE \/ q.url \in Sound \/ q.sound = "yes"
                      \/ q.sound = "unknown" /\ q.ladder

\* The buttons on the screen: the failed lookup's has at most the automatic row.
Buttons(q, ask) == IF ask \in {"again", "auto"} THEN q.offered
                                                ELSE {t \in Tier : Offered(q, t)}

AskLink(h) == /\ frames[h].at = "data"
              /\ LET u == frames[h].url
                     q == Question(u, frames[h].ask)
                 IN  /\ data' = q
                     /\ drawn' = drawn \cup ({u} \X Buttons(q, frames[h].ask))
                     /\ probing' = IF frames[h].kind = "probe" THEN probing \ {u} ELSE probing
              /\ Done(h)
              /\ UNCHANGED <<waiting, store, updates>>

-----------------------------------------------------------------------------
(* The retry of a lookup that failed.                                      *)

ProbeTapped(h) == /\ waiting
                  /\ Arrives(h, [Rest EXCEPT !.at = "reread", !.kind = "probe"])
                  /\ UNCHANGED <<fsm, probing, store, drawn>>

ProbeRead(h) == /\ frames[h].at = "reread"
                /\ frames' = [frames EXCEPT ![h].url = data.url,
                                ![h].at = IF data.url = NoLink THEN "clear" ELSE "ack"]
                /\ UNCHANGED <<fsm, probing, store, drawn, updates>>

ProbeDropped(h) == /\ frames[h].at = "ack" /\ frames[h].url \in probing
                   /\ Done(h)
                   /\ UNCHANGED <<fsm, probing, store, drawn, updates>>

\* Mutant: the running lookups are consulted before the tap is answered.
ProbeAgainLate(h) == /\ frames[h].at = "ack"
                     /\ probing' = probing \cup {frames[h].url}
                     /\ Moves(h, "probe")
                     /\ UNCHANGED <<fsm, store, drawn, updates>>

ProbeAgain(h) == /\ frames[h].at = "ack" /\ frames[h].url \notin probing
                 /\ probing' = probing \cup {frames[h].url}
                 /\ Moves(h, "probe")
                 /\ UNCHANGED <<fsm, store, drawn, updates>>

-----------------------------------------------------------------------------
(* A tap on a menu, the one that is up or an older one.                    *)

Tapped(h, t) == /\ waiting /\ \E u \in Link : <<u, t>> \in drawn
                /\ Arrives(h, [Rest EXCEPT !.at = "read", !.tier = t, !.kind = "tap"])
                /\ UNCHANGED <<fsm, probing, store, drawn>>

\* on_format_chosen reads the record once: a tap without a link drops the menu,
\* one that was not offered changes nothing.
TapRead(h) == /\ frames[h].at = "read"
              /\ IF data.url = NoLink \/ Offered(data, frames[h].tier)
                 THEN frames' = [frames EXCEPT ![h].at = "clear", ![h].url = data.url,
                                               ![h].verdict = data.verdict]
                 ELSE Done(h)
              /\ UNCHANGED <<fsm, probing, store, drawn, updates>>

\* _clear_format_state, and state.clear of a question that lost its link.
ClearQuestion(h) == /\ frames[h].at = "clear"
                    /\ waiting' = FALSE /\ data' = NoQuestion
                    /\ IF frames[h].url = NoLink THEN Done(h) ELSE Moves(h, "submit")
                    /\ UNCHANGED <<probing, store, drawn, updates>>

\* Home and the picker: the step ends, the record stays.
LeaveQuestion == /\ waiting /\ updates < MaxUpdates
                 /\ waiting' = FALSE /\ updates' = updates + 1
                 /\ UNCHANGED <<data, probing, store, frames, drawn>>

\* _double_tap: the request, or its bare spelling, was just accepted.
Repeats(request) == recent # Nothing /\ recent[2] = request[2]
                      /\ request[1] \in {recent[1], NoLink}

\* on_stale_media_tap: a menu that is gone; the guard remembers the tap.
StaleTap(t) == /\ ~waiting /\ updates < MaxUpdates
               /\ \E u \in Link : <<u, t>> \in drawn
               /\ updates' = updates + 1
               /\ recent' = IF Repeats(<<data.url, t>>) THEN recent ELSE <<data.url, t>>
               /\ UNCHANGED <<fsm, probing, keys, filed, air, frames, drawn, pressed, issued>>

\* The window of the guard is over.
WindowCloses == /\ recent # Nothing
                /\ recent' = Nothing
                /\ UNCHANGED <<fsm, probing, keys, filed, air, frames, drawn, pressed, updates, issued>>

-----------------------------------------------------------------------------
(* _submit: the guard, the cache, the quota and preflight, the queue.      *)

Wanted(h) == <<frames[h].url, frames[h].tier>>

TapDropped(h) == /\ frames[h].at = "submit" /\ Repeats(Wanted(h))
                 /\ Done(h)
                 /\ UNCHANGED <<fsm, probing, store, drawn, updates>>

TapAccepted(h) == /\ frames[h].at = "submit" /\ ~Repeats(Wanted(h))
                  /\ recent' = Wanted(h)
                  /\ Moves(h, "cache")
                  /\ UNCHANGED <<fsm, probing, keys, filed, air, pressed, issued, drawn, updates>>

\* The request's own row; for a link without a question, any picture of it.
Replays(h) == {r \in filed : \/ r = Wanted(h)
                              \/ /\ frames[h].kind = "solo" /\ r[2] # "sound"
                                 /\ r[1] = frames[h].url}

Replayed(h) == /\ frames[h].at = "cache" /\ Replays(h) # {}
               /\ Done(h)
               /\ UNCHANGED <<fsm, probing, store, drawn, updates>>

\* A file Telegram no longer knows: the row goes, the next one is tried.
RowDead(h) == /\ frames[h].at = "cache"
              /\ \E r \in Replays(h) : filed' = filed \ {r}
              /\ UNCHANGED <<fsm, probing, recent, keys, air, pressed, issued, frames, drawn, updates>>

NotCached(h) == /\ frames[h].at = "cache" /\ Replays(h) = {}
                /\ Moves(h, "quota")
                /\ UNCHANGED <<fsm, probing, store, drawn, updates>>

QuotaSpent(h) == /\ frames[h].at = "quota"
                 /\ Done(h)
                 /\ UNCHANGED <<fsm, probing, store, drawn, updates>>

Task(h) == [url |-> frames[h].url, tier |-> frames[h].tier, verdict |-> frames[h].verdict]

\* remember_retry: the task behind a fresh key.
RememberRetry(task) == /\ issued < MaxKeys
                  /\ issued' = issued + 1
                  /\ keys' = [k \in DOMAIN keys \cup {issued + 1} |->
                                IF k \in DOMAIN keys THEN keys[k] ELSE task]

PreflightRefuses(h) == /\ frames[h].at = "quota"
                       /\ RememberRetry(Task(h))
                       /\ Done(h)
                       /\ UNCHANGED <<fsm, probing, recent, filed, air, pressed, drawn, updates>>

PreflightPasses(h) == /\ frames[h].at = "quota"
                      /\ Moves(h, "queue")
                      /\ UNCHANGED <<fsm, probing, store, drawn, updates>>

Enqueue(h) == /\ frames[h].at = "queue"
              /\ air' = IF \E j \in air : <<j.url, j.tier>> = Wanted(h) THEN air
                                                                       ELSE air \cup {Task(h)}
              /\ Done(h)
              /\ UNCHANGED <<fsm, probing, recent, keys, filed, pressed, issued, drawn, updates>>

\* The worker delivers and stores the file, or answers without one.
JobSettles(j) == /\ j \in air
              /\ air' = air \ {j}
              /\ filed' \in {filed, filed \cup {<<j.url, j.tier>>}}
              /\ UNCHANGED <<fsm, probing, recent, keys, pressed, issued, frames, drawn, updates>>

JobFails(j) == /\ j \in air
               /\ air' = air \ {j}
               /\ RememberRetry(j)
               /\ UNCHANGED <<fsm, probing, recent, filed, pressed, frames, drawn, updates>>

-----------------------------------------------------------------------------
(* on_retry: the key is taken at once, the failed run's row goes first.    *)

RetryTapped(h, k) ==
  /\ k \in DOMAIN keys
  /\ Arrives(h, [Rest EXCEPT !.at = "forget", !.kind = "retry", !.url = keys[k].url,
                             !.tier = keys[k].tier, !.verdict = keys[k].verdict])
  /\ keys' = [x \in DOMAIN keys \ {k} |-> keys[x]]
  /\ pressed' = [pressed EXCEPT ![k] = @ + 1]
  /\ UNCHANGED <<fsm, probing, recent, filed, air, issued, drawn>>

ForgetRow(h) == /\ frames[h].at = "forget"
                /\ filed' = filed \ {Wanted(h)}
                /\ Moves(h, "submit")
                /\ UNCHANGED <<fsm, probing, recent, keys, air, pressed, issued, drawn, updates>>

Intake(h) == TurnedAway(h) \/ AutoSend(h) \/ AskCached(h) \/ ProbeBegins(h) \/ ProbeAnswers(h)
               \/ Ask(h) \/ AskLink(h)
Reprobe(h) == ProbeRead(h) \/ ProbeDropped(h) \/ ProbeAgain(h)
Submit(h) == TapDropped(h) \/ TapAccepted(h) \/ Replayed(h) \/ RowDead(h) \/ NotCached(h)
               \/ QuotaSpent(h) \/ PreflightRefuses(h) \/ PreflightPasses(h) \/ Enqueue(h)

MenuNext == \/ \E h \in Tapper : \/ \E u \in Link : LinkArrives(h, u)
                                 \/ \E t \in Tier : Tapped(h, t)
                                 \/ \E k \in DOMAIN keys : RetryTapped(h, k)
                                 \/ ProbeTapped(h) \/ Intake(h) \/ Reprobe(h) \/ TapRead(h)
                                 \/ ClearQuestion(h) \/ Submit(h) \/ ForgetRow(h)
            \/ \E t \in Tier : StaleTap(t)
            \/ \E j \in air : JobSettles(j) \/ JobFails(j)
            \/ LeaveQuestion \/ WindowCloses

MenuSpec == MenuInit /\ [][MenuNext]_menuVars

-----------------------------------------------------------------------------
(* What a tap may start.                                                   *)

\* A resolution is downloaded only for a link some question drew it for, or the
\* user sent as a link that needs none, whatever older menus are tapped and
\* however the questions and the taps overlap (on_format_chosen).
RungDrawn == \A j \in air : j.tier = "sound" \/ <<j.url, j.tier>> \in drawn

\* A retry button starts at most one run, and one link is never looked up by two
\* of them at once (take_retry, _probes_running).
PressedOnce ==
  /\ \A k \in 1..MaxKeys : pressed[k] <= 1
  /\ \A g, h \in Tapper : g # h =>
       ~ /\ {frames[g].kind, frames[h].kind} = {"probe"}
         /\ {frames[g].at, frames[h].at} = {"probe"} /\ frames[g].url = frames[h].url

\* What a press in the question session may start (handlers/user.py).
MenuHonest == RungDrawn /\ PressedOnce

\* What a job carries of a probe, whether the link is live and how large it is,
\* comes from a probe of its own link (the comment of DownloadTask.is_live). It
\* does not hold: a question without a probe leaves an earlier link's verdict.
VerdictsOwn == \A j \in air : j.verdict \in {j.url, NoLink}
=============================================================================
