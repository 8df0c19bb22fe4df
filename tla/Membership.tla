----------------------------- MODULE Membership -----------------------------
(***************************************************************************)
(* The join wall: ForceJoinService (services/subscription.py) behind the   *)
(* link intake and the verify button (handlers/user.py) and the inline     *)
(* answers (handlers/inline.py). The updates of one user overlap, and he   *)
(* joins and leaves while they run. Every target is asked on its own.      *)
(***************************************************************************)
EXTENDS Naturals, FiniteSets

CONSTANTS Target,      \* FORCE_JOIN_TARGETS
          Visit,       \* updates of the user that may overlap
          PassTTL,     \* force_join_cache_ttl_s in ticks
          MaxMoves,    \* bound: joins and leaves
          MaxVisits    \* bound: updates begun

ASSUME MembershipAssumption == PassTTL \in Nat \ {0} /\ {MaxMoves, MaxVisits} \subseteq Nat

VARIABLES joined,    \* targets the user is in
          pass,      \* Redis: ticks left of each remembered pass
          visit,     \* per update: [kind, at, late], at: per target, late: a tick old
          moves, visits,
          gone,      \* history: ticks since the user was in the target, capped
          excused,   \* history, per update: targets whose check failed
          absent     \* history, per update: targets he was not in at some time of it

membershipVars == <<joined, pass, visit, moves, visits, gone, excused, absent>>

\* Longer ago than any pass may count: its time, and the update that stores
\* or reads it may each be a tick old.
Horizon == PassTTL + 2

Checked == {"todo", "asked", "in", "store", "missing"}

MembershipTypeOK ==
  /\ joined \subseteq Target
  /\ pass \in [Target -> 0..PassTTL]
  /\ visit \in [Visit -> [kind : {"none", "link", "verify", "inline"},
                          at : [Target -> Checked], late : BOOLEAN]]
  /\ moves \in 0..MaxMoves /\ visits \in 0..MaxVisits
  /\ gone \in [Target -> 0..Horizon]
  /\ excused \in [Visit -> SUBSET Target] /\ absent \in [Visit -> SUBSET Target]

NoVisit == [kind |-> "none", at |-> [t \in Target |-> "todo"], late |-> FALSE]

MembershipInit ==
  /\ joined = {} /\ pass = [t \in Target |-> 0]
  /\ visit = [v \in Visit |-> NoVisit]
  /\ moves = 0 /\ visits = 0
  /\ gone = [t \in Target |-> Horizon]
  /\ excused = [v \in Visit |-> {}] /\ absent = [v \in Visit |-> {}]

Open(v) == visit[v].kind # "none"
Goes(v, t, place) == visit' = [visit EXCEPT ![v].at[t] = place]

-----------------------------------------------------------------------------
\* missing, recheck, cached_pass: the gate of a link, the button, the inline answer.
VisitBegins(v) ==
  /\ ~Open(v) /\ visits < MaxVisits
  /\ visits' = visits + 1
  /\ \E kind \in {"link", "verify", "inline"} : visit' = [visit EXCEPT ![v] = [NoVisit EXCEPT !.kind = kind]]
  /\ excused' = [excused EXCEPT ![v] = {}]
  /\ absent' = [absent EXCEPT ![v] = Target \ joined]
  /\ UNCHANGED <<joined, pass, moves, gone>>

\* _cached_pass: the verify button does not look at it.
CachedPass(v, t) ==
  /\ Open(v) /\ visit[v].at[t] = "todo"
  /\ visit[v].kind # "verify" /\ pass[t] > 0
  /\ Goes(v, t, "in")
  /\ UNCHANGED <<joined, pass, moves, visits, gone, excused, absent>>

\* No pass, or a Redis that does not answer. The inline answer asks nobody.
NoPass(v, t) ==
  /\ Open(v) /\ visit[v].at[t] = "todo"
  /\ Goes(v, t, IF visit[v].kind = "inline" THEN "missing" ELSE "asked")
  /\ UNCHANGED <<joined, pass, moves, visits, gone, excused, absent>>

\* get_chat_member answers for this moment; what arrives is stored later.
Asked(v, t) ==
  /\ Open(v) /\ visit[v].at[t] = "asked"
  /\ Goes(v, t, IF t \in joined THEN "store" ELSE "missing")
  /\ UNCHANGED <<joined, pass, moves, visits, gone, excused, absent>>

\* Mutant: a check that failed is remembered as a pass.
AskFailsRemembers(v, t) ==
  /\ Open(v) /\ visit[v].at[t] = "asked"
  /\ Goes(v, t, "in")
  /\ pass' = [pass EXCEPT ![t] = PassTTL]
  /\ excused' = [excused EXCEPT ![v] = @ \cup {t}]
  /\ UNCHANGED <<joined, moves, visits, gone, absent>>

\* A flood, an error or five seconds without an answer: the gate stays open.
AskFails(v, t) ==
  /\ Open(v) /\ visit[v].at[t] = "asked"
  /\ Goes(v, t, "in")
  /\ excused' = [excused EXCEPT ![v] = @ \cup {t}]
  /\ UNCHANGED <<joined, pass, moves, visits, gone, absent>>

\* _remember_pass, best effort; only a pass is ever remembered.
Remember(v, t) ==
  /\ Open(v) /\ visit[v].at[t] = "store"
  /\ pass' \in {pass, [pass EXCEPT ![t] = PassTTL]}
  /\ Goes(v, t, "in")
  /\ UNCHANGED <<joined, moves, visits, gone, excused, absent>>

\* The whole check took too long.
Stalled(v) ==
  /\ Open(v) /\ visit[v].kind # "inline"
  /\ \E t \in Target : visit[v].at[t] \in {"todo", "asked", "store"}
  /\ visit' = [visit EXCEPT ![v].at = [t \in Target |-> "in"]]
  /\ excused' = [excused EXCEPT ![v] = Target]
  /\ UNCHANGED <<joined, pass, moves, visits, gone, absent>>

Decided(v) == Open(v) /\ \A t \in Target : visit[v].at[t] \in {"in", "missing"}

\* The link goes on, or the wall goes up; the next update may begin.
VisitEnds(v) ==
  /\ Decided(v)
  /\ visit' = [visit EXCEPT ![v] = NoVisit]
  /\ UNCHANGED <<joined, pass, moves, visits, gone, excused, absent>>

-----------------------------------------------------------------------------
Joins(t) ==
  /\ t \notin joined /\ moves < MaxMoves /\ moves' = moves + 1
  /\ joined' = joined \cup {t}
  /\ gone' = [gone EXCEPT ![t] = 0]
  /\ UNCHANGED <<pass, visit, visits, excused, absent>>

LeavesChat(t) ==
  /\ t \in joined /\ moves < MaxMoves /\ moves' = moves + 1
  /\ joined' = joined \ {t}
  /\ absent' = [v \in Visit |-> IF Open(v) THEN absent[v] \cup {t} ELSE absent[v]]
  /\ UNCHANGED <<pass, visit, visits, gone, excused>>

\* Time passes. FORCE_JOIN_TOTAL_TIMEOUT_S ends an update within a tick.
PassAges ==
  /\ \A v \in Visit : ~visit[v].late
  /\ \E t \in Target : pass[t] > 0
  /\ pass' = [t \in Target |-> IF pass[t] = 0 THEN 0 ELSE pass[t] - 1]
  /\ visit' = [v \in Visit |-> [visit[v] EXCEPT !.late = Open(v)]]
  /\ gone' = [t \in Target |-> IF t \in joined THEN 0
                               ELSE IF gone[t] = Horizon THEN Horizon ELSE gone[t] + 1]
  /\ UNCHANGED <<joined, moves, visits, excused, absent>>

MembershipNext ==
  \/ PassAges
  \/ \E t \in Target : Joins(t) \/ LeavesChat(t)
  \/ \E v \in Visit : VisitBegins(v) \/ Stalled(v) \/ VisitEnds(v)
  \/ \E v \in Visit, t \in Target : \/ CachedPass(v, t) \/ NoPass(v, t) \/ Asked(v, t)
                                    \/ AskFails(v, t) \/ Remember(v, t)

MembershipSpec == MembershipInit /\ [][MembershipNext]_membershipVars

-----------------------------------------------------------------------------
\* Whoever is let through was in every target within the time of one pass, or
\* its check failed, whatever other updates remembered meanwhile; and the wall
\* names to a link or a verify tap only targets he was not in while it was
\* checked (ForceJoinService._check_one, _unjoined, recheck, cached_pass).
GateHolds ==
  \A v \in Visit : Decided(v) =>
    /\ (\A t \in Target : visit[v].at[t] = "in") =>
         \A t \in Target : gone[t] < Horizon \/ t \in excused[v]
    /\ visit[v].kind # "inline" =>
         {t \in Target : visit[v].at[t] = "missing"} \subseteq absent[v]
=============================================================================
