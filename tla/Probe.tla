------------------------------- MODULE Probe -------------------------------
(***************************************************************************)
(* The metadata probe of services/extractor.py: two clients race, each leg *)
(* in a thread of its own that fails over sideways while the session is    *)
(* stale, and the menu is drawn from what they saw. What yt-dlp is asked   *)
(* for is a request: the clients it names and whether cookies go along.    *)
(***************************************************************************)
EXTENDS Naturals, Sequences, Functions, FiniteSets, FiniteSetsExt

CONSTANTS Configured,   \* the lists YTDLP_YOUTUBE_CLIENTS may hold
          Views,        \* what one answer may list: sets of streams
          RetryBudget   \* retry_attempts

\* Base client names; a variant is judged by its base.
Blind        == {"visionos", "android", "ios"}
Incompatible == {"tv", "tv_downgraded"}
Compatible   == {"mweb", "web_embedded", "web"}
Priority     == <<"mweb", "tv", "web_embedded", "web">>
Client       == Blind \cup Incompatible \cup Compatible

\* The jar: none, one that signs nobody in, a login.
Jars == {"none", "anonymous", "signed"}

Codec  == {"hevc", "avc", "other"}
Stream == [w : Nat, h : Nat, codec : Codec]

ASSUME ProbeAssumption ==
  /\ Configured \subseteq Seq(Client) /\ Configured # {}
  /\ Views \subseteq SUBSET Stream
  /\ \A F \in Views : F # {} /\ IsFiniteSet(F)
  /\ RetryBudget \in Nat

-----------------------------------------------------------------------------
(* The menu of one answer.                                                 *)

Rungs == <<2160, 1440, 1080, 720, 480, 360, 240, 144>>
Apart(a, b) == IF a > b THEN a - b ELSE b - a

ShortEdge(s) == IF s.w # 0 /\ s.w < s.h THEN s.w ELSE s.h

\* quality_label_p: the short edge, named by the rung it is within 16 lines of.
Label(s) ==
  LET near == {r \in Range(Rungs) : Apart(ShortEdge(s), r) <= 16}
  IN IF near = {} THEN ShortEdge(s) ELSE Max(near)

\* FORMAT_SORT: resolution (the short edge) first, HEVC on ties.
Rank(s) == 2 * ShortEdge(s) + (IF s.codec = "hevc" THEN 1 ELSE 0)
Best(S) == CHOOSE s \in S : \A o \in S : Rank(o) <= Rank(s)

\* _video_selector: HEVC below the ceiling, then AVC, then anything below it,
\* then anything at all.
Chain(F, ceiling) ==
  LET low == {s \in F : s.h <= ceiling}
  IN <<{s \in low : s.codec = "hevc"}, {s \in low : s.codec = "avc"}, low, F>>
Picked(F, ceiling) ==
  LET chain == Chain(F, ceiling) IN Best(chain[Min({i \in 1..4 : chain[i] # {}})])

\* The row of a label asks for the height of its tallest stream.
RowHeight(F, label) == Max({s.h : s \in {o \in F : Label(o) = label}})

\* Mutant: every rung some stream stands for is offered.
MenuUnproven(F) == {RowHeight(F, r) : r \in {Label(s) : s \in F}}

\* video_options: a rung is offered only when asking for it delivers it.
Menu(F) == {RowHeight(F, r) : r \in {q \in {Label(s) : s \in F} :
                                       Label(Picked(F, RowHeight(F, q))) = q}}

-----------------------------------------------------------------------------
(* The requests of one fetch. Which clients one names matters, not in what *)
(* order; a walk is the numbers of the requests it has still to make.      *)

\* effective_youtube_clients
Effective(names, active) == IF active THEN names \ (Blind \cup Incompatible) ELSE names

\* Whom yt-dlp asks when no client is named: its own choice.
DefaultClients(jar) == IF jar = "signed" THEN {"web_embedded", "tv_downgraded", "web"}
                                         ELSE {"visionos", "web"}

\* _base_opts: who is really asked, and the jar that goes along.
Sent(names, jar) ==
  LET eff == Effective(names, jar = "signed")
  IN [clients |-> IF names = {} THEN DefaultClients(jar)
                  ELSE IF eff = {} THEN Compatible ELSE eff,
      jar |-> jar]

\* _failover_steps: the request, the same without the jar, then each metadata
\* client it did not name; the retry budget caps the walk.
Ways == 1..(Len(Priority) + 2)
FailoverSteps(names, jar) ==
  LET ways == {i \in Ways : /\ i = 2 => jar # "none"
                            /\ i > 2 => Priority[i - 2] \notin names}
  IN {i \in ways : Cardinality({j \in ways : j < i}) <= RetryBudget}

RequestOf(names, jar, i) ==
  IF i > 2 THEN Sent({Priority[i - 2]}, "none") ELSE Sent(names, IF i = 1 THEN jar ELSE "none")

\* _probe: the first two metadata clients the request may use.
Raced(list, jar) ==
  LET fast == {i \in DOMAIN Priority : Priority[i] \in Effective(Range(list), jar = "signed")}
  IN {i \in fast : Cardinality({j \in fast : j < i}) < 2}

-----------------------------------------------------------------------------
VARIABLES deployed,    \* the deployment: client list and jar
          stage,   \* "idle", "race", "full", "solo", "done"
          leg,     \* legs 1 and 2 race; leg 3 is the walk under way after them
          solo,    \* places of configured clients not yet asked on their own
          menu,    \* the winner's view so far; {} while nobody won
          outcome, \* "none", "menu", "full" (the full list's error), "timeout"
          views     \* history: the views answered by a leg of this probe

probeVars == <<deployed, stage, leg, solo, menu, outcome, views>>

Unused == [names |-> {}, ways |-> {}, at |-> "gone"]
Walks(names, jar) == [names |-> names, ways |-> FailoverSteps(names, jar), at |-> "run"]

ProbeTypeOK ==
  /\ deployed \in [list : Configured, jar : Jars]
  /\ stage \in {"idle", "race", "full", "solo", "done"}
  /\ leg \in [1..3 -> [names : SUBSET Client, ways : SUBSET Ways,
                       at : {"gone", "run", "info", "error"}]]
  /\ solo \subseteq DOMAIN deployed.list
  /\ menu \in SUBSET Nat
  /\ outcome \in {"none", "menu", "full", "timeout"}
  /\ views \subseteq Views

ProbeInit ==
  /\ deployed = [list |-> CHOOSE l \in Configured : TRUE, jar |-> "none"]
  /\ stage = "idle" /\ leg = [l \in 1..3 |-> Unused] /\ solo = {}
  /\ menu = {} /\ outcome = "none" /\ views = {}

\* extract: the race, or the plain walk when fewer than two may race.
ProbeCall ==
  /\ stage = "idle"
  /\ \E list \in Configured, jar \in Jars :
       /\ deployed' = [list |-> list, jar |-> jar]
       /\ \/ /\ Cardinality(Raced(list, jar)) < 2
             /\ stage' = "full" /\ leg' = [leg EXCEPT ![3] = Walks(Range(list), jar)]
          \/ \E i, j \in Raced(list, jar) :
               /\ i < j
               /\ stage' = "race" /\ leg' = [leg EXCEPT ![1] = Walks({Priority[i]}, jar),
                                                        ![2] = Walks({Priority[j]}, jar)]
  /\ UNCHANGED <<solo, menu, outcome, views>>

\* _extract_attempt inside _extract_sync: an answer ends the leg; a stale
\* session moves to the next step at once; any other failure, or the last, is
\* the leg's error. The view waits in views until the race takes it.
Attempt(l) ==
  /\ leg[l].at = "run"
  /\ \/ leg' = [leg EXCEPT ![l].at = "info"]
     \/ leg[l].ways # {Min(leg[l].ways)} /\ leg' = [leg EXCEPT ![l].ways = @ \ {Min(@)}]
     \/ leg' = [leg EXCEPT ![l].at = "error"]
  /\ UNCHANGED <<deployed, stage, solo, menu, outcome, views>>

\* asyncio.wait hands over a finished leg: the first answer is the menu, a
\* later one only adds rungs by height (merge_format_infos).
Taken(l) ==
  /\ stage = "race" /\ l \in {1, 2}
  /\ leg[l].at = "info"
  /\ \E view \in Views :
       /\ views' = views \cup {view}
       /\ menu' = menu \cup Menu(view)
  /\ leg' = [leg EXCEPT ![l] = Unused]
  /\ UNCHANGED <<deployed, stage, solo, outcome>>

Failed(l) ==
  /\ stage = "race" /\ l \in {1, 2}
  /\ leg[l].at = "error"
  /\ leg' = [leg EXCEPT ![l] = Unused]
  /\ UNCHANGED <<deployed, stage, solo, menu, outcome, views>>

\* The winner waits _PROBE_MERGE_GRACE_S for the other leg, then goes alone;
\* the abandoned thread runs on and is not heard.
Won ==
  /\ stage = "race" /\ views # {}
  /\ \A l \in {1, 2} : leg[l].at \in {"gone", "run"}
  /\ leg' = [l \in 1..3 |-> Unused]
  /\ stage' = "done" /\ outcome' = "menu"
  /\ UNCHANGED <<deployed, solo, menu, views>>

\* Both legs failed: the whole list, as without a race.
RaceLost ==
  /\ stage = "race" /\ views = {}
  /\ \A l \in {1, 2} : leg[l].at = "gone"
  /\ leg' = [leg EXCEPT ![3] = Walks(Range(deployed.list), deployed.jar)]
  /\ stage' = "full"
  /\ UNCHANGED <<deployed, solo, menu, outcome, views>>

\* A walk alone answers: that is the menu.
WalkAnswers ==
  /\ stage \in {"full", "solo"}
  /\ leg[3].at = "info"
  /\ \E view \in Views : views' = views \cup {view} /\ menu' = Menu(view)
  /\ leg' = [leg EXCEPT ![3] = Unused]
  /\ stage' = "done" /\ outcome' = "menu"
  /\ UNCHANGED <<deployed, solo>>

\* Every configured client the race has not tried, on its own.
SoloList ==
  LET raced == Raced(deployed.list, deployed.jar)
      tried == {Priority[i] : i \in raced}
  IN IF Cardinality(raced) < 2 THEN {}
     ELSE {i \in DOMAIN deployed.list : deployed.list[i] \notin tried}

\* After a race the full list's error waits while the solo walks go on, in the
\* order of the list; when there was no race it is the answer.
NextSolo(rest) ==
  IF rest = {}
    THEN stage' = "done" /\ outcome' = "full" /\ leg' = [leg EXCEPT ![3] = Unused] /\ solo' = {}
    ELSE /\ stage' = "solo" /\ solo' = rest \ {Min(rest)}
         /\ leg' = [leg EXCEPT ![3] = Walks({deployed.list[Min(rest)]}, deployed.jar)]
         /\ UNCHANGED outcome

FullFails ==
  /\ stage = "full" /\ leg[3].at = "error"
  /\ NextSolo(SoloList)
  /\ UNCHANGED <<deployed, menu, views>>

SoloFails ==
  /\ stage = "solo" /\ leg[3].at = "error"
  /\ NextSolo(solo)
  /\ UNCHANGED <<deployed, menu, views>>

\* extract gives up after timeout_s, wherever the walks stand.
ProbeTimeout ==
  /\ stage \in {"race", "full", "solo"}
  /\ leg' = [l \in 1..3 |-> Unused]
  /\ stage' = "done" /\ outcome' = "timeout"
  /\ UNCHANGED <<deployed, solo, menu, views>>

ProbeNext ==
  \/ ProbeCall \/ Won \/ RaceLost \/ WalkAnswers \/ FullFails \/ SoloFails \/ ProbeTimeout
  \/ \E l \in 1..3 : Attempt(l) \/ Taken(l) \/ Failed(l)

ProbeSpec == ProbeInit /\ [][ProbeNext]_probeVars

-----------------------------------------------------------------------------
\* No request that names clients pairs a login with one it poisons, whatever list
\* is configured and whichever walk sends it (a blank list, "let yt-dlp decide",
\* does pair them); no walk sends one request twice; and the menu offers at least
\* one rung, each of which some answer's own format chain delivers when tapped
\* (effective_youtube_clients, _failover_steps, video_options,
\* merge_format_infos).
ProbeSound ==
  /\ \A l \in 1..3 : \A i \in leg[l].ways :
       LET r == RequestOf(leg[l].names, deployed.jar, i)
       IN /\ r.jar = "signed" /\ leg[l].names # {} =>
                r.clients \cap (Blind \cup Incompatible) = {}
          /\ \A j \in leg[l].ways \ {i} : r # RequestOf(leg[l].names, deployed.jar, j)
  /\ outcome = "menu" =>
       /\ menu # {}
       /\ \A h \in menu : \E F \in views : \E s \in F :
            s.h = h /\ Label(Picked(F, h)) = Label(s)
=============================================================================
