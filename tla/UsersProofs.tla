---------------------------- MODULE UsersProofs ----------------------------
(***************************************************************************)
(* Proofs about what a user meets before a job is queued: the wall of      *)
(* required joins, the lookup of songs, and the menu of resolutions.       *)
(***************************************************************************)
EXTENDS Membership, Songs, Menu, SequenceTheorems, TLAPS

-----------------------------------------------------------------------------
(***************************************************************************)
(* GateHolds for any targets, any number of overlapping updates and any    *)
(* time of a pass. The invariant is an account of ages: a remembered pass, *)
(* an answer on its way to be stored, and a target that was ticked off     *)
(* each bound how long the user has been out of it.                        *)
(***************************************************************************)

VisitRec == [kind : {"none", "link", "verify", "inline"},
             at : [Target -> Checked], late : BOOLEAN]

\* gone counts from the last moment the user was in.
Present == \A t \in joined : gone[t] = 0

\* A pass: what is left of it and the age it was stored with.
PassAge == \A t \in Target : pass[t] > 0 => gone[t] + pass[t] <= PassTTL + 1

Late(v) == IF visit[v].late THEN 1 ELSE 0

\* What an update holds about a target is as old as the update, or as the pass.
VisitAge(v) ==
  \A t \in Target :
    /\ visit[v].at[t] = "store" => gone[t] <= Late(v)
    /\ visit[v].at[t] = "in" /\ t \notin excused[v] => gone[t] <= PassTTL + Late(v)

\* Whoever is missing was absent, and absences are noted from the beginning.
Absent(v) ==
  /\ Open(v) => Target \ joined \subseteq absent[v]
  /\ visit[v].kind # "inline" => \A t \in Target : visit[v].at[t] = "missing" => t \in absent[v]

VisitOK(v) == (~Open(v) => visit[v] = NoVisit) /\ VisitAge(v) /\ Absent(v)

MembershipInv == MembershipTypeOK /\ Present /\ PassAge /\ \A v \in Visit : VisitOK(v)

USE MembershipAssumption DEF Checked, Horizon, VisitRec

LEMMA InitMembership == MembershipInit => MembershipInv
BY DEF MembershipInit, MembershipInv, MembershipTypeOK, Present, PassAge, VisitOK, VisitAge, Absent, Open,
       NoVisit, Late

-----------------------------------------------------------------------------
\* A step of one update about one target, that forgets nothing and lets no time pass.
LEMMA OneVisit ==
  ASSUME MembershipInv, NEW w \in Visit, visit' = [visit EXCEPT ![w] = visit'[w]],
         visit'[w] \in VisitRec,
         excused' \in [Visit -> SUBSET Target], \A v \in Visit \ {w} : excused'[v] = excused[v],
         absent' \in [Visit -> SUBSET Target], \A v \in Visit \ {w} : absent'[v] = absent[v],
         pass' \in [Target -> 0..PassTTL], PassAge', visits' \in 0..MaxVisits, VisitOK(w)',
         UNCHANGED <<joined, gone, moves>>
  PROVE  MembershipInv'
<1>1. MembershipTypeOK' /\ Present'
  BY DEF MembershipInv, MembershipTypeOK, Present
<1>2. ASSUME NEW v \in Visit \ {w} PROVE VisitOK(v)'
  BY DEF MembershipInv, MembershipTypeOK, VisitOK, VisitAge, Absent, Open, Late
<1>3. QED BY <1>1, <1>2 DEF MembershipInv

\* An update that moves on about one target, its record otherwise as it was.
LEMMA VisitMoves ==
  ASSUME MembershipInv, NEW v \in Visit, NEW t \in Target, NEW place \in Checked, Open(v),
         Goes(v, t, place), UNCHANGED <<joined, moves, visits, gone, absent>>,
         pass' \in [Target -> 0..PassTTL], PassAge',
         excused' \in [Visit -> SUBSET Target], \A w \in Visit \ {v} : excused'[w] = excused[w],
         excused[v] \subseteq excused'[v],
         place = "store" => gone[t] <= Late(v),
         place = "in" /\ t \notin excused'[v] => gone[t] <= PassTTL + Late(v),
         place = "missing" /\ visit[v].kind # "inline" => t \in absent[v]
  PROVE  MembershipInv'
<1>1. /\ visit' = [visit EXCEPT ![v] = [visit[v] EXCEPT !.at[t] = place]]
      /\ visit[v] \in VisitRec
  BY DEF Goes, MembershipInv, MembershipTypeOK
<1>2. /\ visit'[v].kind = visit[v].kind /\ visit'[v].late = visit[v].late
      /\ visit'[v].at = [visit[v].at EXCEPT ![t] = place]
      /\ visit'[v] \in VisitRec
      /\ visit' = [visit EXCEPT ![v] = visit'[v]]
  BY <1>1 DEF MembershipInv, MembershipTypeOK
<1>3. VisitOK(v)
  BY DEF MembershipInv
<1>4. VisitOK(v)'
  <2>1. Open(v)'
    BY <1>2 DEF Open
  <2>2. VisitAge(v)'
    BY <1>2, <1>3 DEF VisitOK, VisitAge, Late, MembershipInv, MembershipTypeOK
  <2>3. Absent(v)'
    BY <1>2, <1>3 DEF VisitOK, Absent, Open, MembershipInv, MembershipTypeOK
  <2>4. QED BY <2>1, <2>2, <2>3 DEF VisitOK
<1>5. absent' \in [Visit -> SUBSET Target] /\ visits' \in 0..MaxVisits
  BY DEF MembershipInv, MembershipTypeOK
<1>6. QED BY <1>2, <1>4, <1>5, OneVisit

LEMMA CheckStep ==
  ASSUME MembershipInv, NEW v \in Visit, NEW t \in Target,
         CachedPass(v, t) \/ NoPass(v, t) \/ Asked(v, t) \/ AskFails(v, t) \/ Remember(v, t)
  PROVE  MembershipInv'
<1> USE DEF MembershipInv, MembershipTypeOK
<1>1. VisitOK(v)
  OBVIOUS
<1>2. CASE CachedPass(v, t)
  <2>1. gone[t] <= PassTTL + Late(v)
    BY <1>2 DEF CachedPass, PassAge, Late
  <2>2. PassAge'
    BY <1>2 DEF CachedPass, PassAge
  <2>3. QED BY <1>2, <2>1, <2>2, VisitMoves DEF CachedPass
<1>3. CASE NoPass(v, t)
  <2>1. PassAge'
    BY <1>3 DEF NoPass, PassAge
  <2>2. CASE visit[v].kind = "inline"
    BY <1>3, <2>1, <2>2, VisitMoves DEF NoPass
  <2>3. CASE visit[v].kind # "inline"
    BY <1>3, <2>1, <2>3, VisitMoves DEF NoPass
  <2>4. QED BY <2>2, <2>3
<1>4. CASE Asked(v, t)
  <2>1. PassAge'
    BY <1>4 DEF Asked, PassAge
  <2>2. CASE t \in joined
    <3>1. gone[t] = 0
      BY <2>2 DEF Present
    <3>2. gone[t] <= Late(v)
      BY <3>1 DEF Late
    <3>3. QED BY <1>4, <2>1, <2>2, <3>1, <3>2, VisitMoves DEF Asked
  <2>3. CASE t \notin joined
    BY <1>1, <1>4, <2>1, <2>3, VisitMoves DEF Asked, VisitOK, Absent
  <2>4. QED BY <2>2, <2>3
<1>5. CASE AskFails(v, t)
  <2>1. PassAge'
    BY <1>5 DEF AskFails, PassAge
  <2>2. QED BY <1>5, <2>1, VisitMoves DEF AskFails
<1>6. CASE Remember(v, t)
  <2>1. gone[t] <= Late(v) /\ Late(v) \in {0, 1}
    BY <1>1, <1>6 DEF Remember, VisitOK, VisitAge, Late
  <2>2. pass' \in [Target -> 0..PassTTL] /\ PassAge'
    BY <1>6, <2>1 DEF Remember, PassAge
  <2>3. gone[t] <= PassTTL + Late(v)
    BY <2>1
  <2>4. QED BY <1>6, <2>2, <2>3, VisitMoves DEF Remember
<1>7. QED BY <1>2, <1>3, <1>4, <1>5, <1>6

LEMMA BeginStep ==
  ASSUME MembershipInv, NEW v \in Visit, VisitBegins(v)
  PROVE  MembershipInv'
<1> USE DEF MembershipInv, MembershipTypeOK
<1>1. PICK kind \in {"link", "verify", "inline"} : visit' = [visit EXCEPT ![v] = [NoVisit EXCEPT !.kind = kind]]
  BY DEF VisitBegins
<1>2. /\ visit'[v] = [kind |-> kind, at |-> [t \in Target |-> "todo"], late |-> FALSE]
      /\ visit' = [visit EXCEPT ![v] = visit'[v]]
  BY <1>1 DEF NoVisit
<1>3. VisitOK(v)'
  BY <1>2 DEF VisitBegins, VisitOK, VisitAge, Absent, Open
<1>4. PassAge'
  BY DEF VisitBegins, PassAge
<1>5. visits' \in 0..MaxVisits
  BY DEF VisitBegins
<1>6. visit'[v] \in VisitRec
  BY <1>2
<1>7. /\ excused' \in [Visit -> SUBSET Target] /\ \A w \in Visit \ {v} : excused'[w] = excused[w]
      /\ absent' \in [Visit -> SUBSET Target] /\ \A w \in Visit \ {v} : absent'[w] = absent[w]
      /\ pass' \in [Target -> 0..PassTTL] /\ UNCHANGED <<joined, gone, moves>>
  BY DEF VisitBegins
<1>8. QED BY <1>2, <1>3, <1>4, <1>5, <1>6, <1>7, OneVisit

LEMMA EndStep ==
  ASSUME MembershipInv, NEW v \in Visit, Stalled(v) \/ VisitEnds(v)
  PROVE  MembershipInv'
<1> USE DEF MembershipInv, MembershipTypeOK
<1>1. PassAge'
  BY DEF Stalled, VisitEnds, PassAge
<1>2. CASE Stalled(v)
  <2>1. /\ visit'[v] = [visit[v] EXCEPT !.at = [t \in Target |-> "in"]]
        /\ visit' = [visit EXCEPT ![v] = visit'[v]]
    BY <1>2 DEF Stalled
  <2>2. VisitOK(v)'
    BY <1>2, <2>1 DEF Stalled, VisitOK, VisitAge, Absent, Open
  <2>3. visit'[v] \in VisitRec
    <3>1. visit[v] \in VisitRec
      OBVIOUS
    <3>2. visit'[v].at = [t \in Target |-> "in"] /\ visit'[v] = [visit[v] EXCEPT !.at = visit'[v].at]
      BY <2>1, <3>1
    <3>3. visit'[v].at \in [Target -> Checked]
      BY <3>2
    <3>4. QED BY <3>1, <3>2, <3>3
  <2>4. /\ excused' \in [Visit -> SUBSET Target] /\ \A w \in Visit \ {v} : excused'[w] = excused[w]
        /\ UNCHANGED <<joined, gone, moves, visits, pass, absent>>
    BY <1>2 DEF Stalled
  <2>5. QED BY <1>1, <2>1, <2>2, <2>3, <2>4, OneVisit
<1>3. CASE VisitEnds(v)
  <2>1. /\ visit'[v] = [kind |-> "none", at |-> [t \in Target |-> "todo"], late |-> FALSE]
        /\ visit' = [visit EXCEPT ![v] = visit'[v]]
    BY <1>3 DEF VisitEnds, NoVisit
  <2>2. VisitOK(v)'
    BY <2>1 DEF VisitOK, VisitAge, Absent, Open, NoVisit
  <2>3. visit'[v] \in VisitRec
    BY <2>1
  <2>4. UNCHANGED <<joined, gone, moves, visits, pass, absent, excused>>
    BY <1>3 DEF VisitEnds
  <2>5. QED BY <1>1, <2>1, <2>2, <2>3, <2>4, OneVisit
<1>4. QED BY <1>2, <1>3

LEMMA MoveStep ==
  ASSUME MembershipInv, NEW t \in Target, Joins(t) \/ LeavesChat(t)
  PROVE  MembershipInv'
<1> USE DEF MembershipInv
<1> USE DEF MembershipTypeOK
<1>1. CASE Joins(t)
  <2>1. MembershipTypeOK' /\ Present' /\ PassAge'
    BY <1>1 DEF Joins, Present, PassAge
  <2>2. ASSUME NEW v \in Visit PROVE VisitOK(v)'
    <3>1. VisitOK(v) /\ Late(v) \in Nat
      BY DEF Late
    <3>2. \A u \in Target : gone'[u] \in {0, gone[u]}
      BY <1>1 DEF Joins
    <3>3. VisitAge(v)'
      BY <1>1, <3>1, <3>2 DEF Joins, VisitOK, VisitAge, Late
    <3>4. QED BY <1>1, <3>1, <3>3 DEF Joins, VisitOK, Absent, Open
  <2>3. QED BY <2>1, <2>2
<1>2. CASE LeavesChat(t)
  <2>1. absent' = [v \in Visit |-> IF Open(v) THEN absent[v] \cup {t} ELSE absent[v]]
    BY <1>2 DEF LeavesChat
  <2>2. absent' \in [Visit -> SUBSET Target]
    BY <2>1
  <2>3. MembershipTypeOK' /\ Present' /\ PassAge'
    BY <1>2, <2>2 DEF LeavesChat, Present, PassAge
  <2>4. ASSUME NEW v \in Visit PROVE VisitOK(v)'
    BY <1>2, <2>1 DEF LeavesChat, VisitOK, VisitAge, Absent, Open, Late
  <2>5. QED BY <2>3, <2>4
<1>3. QED BY <1>1, <1>2

\* Everything gets a tick older, and every open update is late from then on.
LEMMA AgeStep ==
  ASSUME MembershipInv, PassAges
  PROVE  MembershipInv'
<1> USE DEF MembershipInv, PassAges
<1>1. MembershipTypeOK'
  <2>1. visit' \in [Visit -> VisitRec]
    <3>1. ASSUME NEW v \in Visit PROVE [visit[v] EXCEPT !.late = Open(v)] \in VisitRec
      <4>1. visit[v] \in VisitRec /\ Open(v) \in BOOLEAN
        BY DEF MembershipTypeOK, Open
      <4>2. QED BY <4>1
    <3>2. visit' = [v \in Visit |-> [visit[v] EXCEPT !.late = Open(v)]]
      OBVIOUS
    <3>3. QED BY <3>1, <3>2
  <2>2. pass' \in [Target -> 0..PassTTL]
    <3>1. ASSUME NEW t \in Target PROVE (IF pass[t] = 0 THEN 0 ELSE pass[t] - 1) \in 0..PassTTL
      <4>1. pass[t] \in 0..PassTTL
        BY DEF MembershipTypeOK
      <4>2. QED BY <4>1
    <3>2. pass' = [t \in Target |-> IF pass[t] = 0 THEN 0 ELSE pass[t] - 1]
      OBVIOUS
    <3>3. QED BY <3>1, <3>2
  <2>4. gone' \in [Target -> 0..PassTTL + 2]
    <3>1. ASSUME NEW t \in Target
          PROVE (IF t \in joined THEN 0 ELSE IF gone[t] = Horizon THEN Horizon ELSE gone[t] + 1)
                   \in 0..PassTTL + 2
      <4>1. gone[t] \in 0..PassTTL + 2
        BY DEF MembershipTypeOK
      <4>2. gone[t] # Horizon => gone[t] + 1 \in 0..PassTTL + 2
        BY <4>1
      <4>3. Horizon \in 0..PassTTL + 2 /\ 0 \in 0..PassTTL + 2
        OBVIOUS
      <4>4. QED BY <4>2, <4>3
    <3>2. gone' = [t \in Target |-> IF t \in joined THEN 0
                                    ELSE IF gone[t] = Horizon THEN Horizon ELSE gone[t] + 1]
      OBVIOUS
    <3>3. QED BY <3>1, <3>2
  <2>5. QED BY <2>1, <2>2, <2>4 DEF MembershipTypeOK
<1>2. Present' /\ PassAge'
  BY DEF MembershipTypeOK, Present, PassAge
<1>3. ASSUME NEW v \in Visit PROVE VisitOK(v)'
  <2>1. VisitOK(v) /\ ~visit[v].late
    OBVIOUS
  <2>2. /\ visit'[v] = [visit[v] EXCEPT !.late = Open(v)]
        /\ visit[v] \in VisitRec
    BY DEF MembershipTypeOK
  <2>3. visit'[v].kind = visit[v].kind /\ visit'[v].at = visit[v].at /\ visit'[v].late = Open(v)
    BY <2>2
  <2>4. CASE Open(v)
    <3>1. VisitAge(v)'
      BY <2>1, <2>3, <2>4 DEF VisitOK, VisitAge, Late, MembershipTypeOK
    <3>2. QED BY <2>1, <2>3, <2>4, <3>1 DEF VisitOK, Absent, Open
  <2>5. CASE ~Open(v)
    <3>1. visit[v] = NoVisit /\ visit'[v] = NoVisit
      BY <2>1, <2>2, <2>5 DEF VisitOK, NoVisit, Open
    <3>2. QED BY <3>1 DEF VisitOK, VisitAge, Absent, Open, NoVisit
  <2>6. QED BY <2>4, <2>5
<1>4. QED BY <1>1, <1>2, <1>3

LEMMA NextMembership == MembershipInv /\ [MembershipNext]_membershipVars => MembershipInv'
<1> SUFFICES ASSUME MembershipInv, [MembershipNext]_membershipVars PROVE MembershipInv'
  OBVIOUS
<1>1. CASE UNCHANGED membershipVars
  BY <1>1 DEF membershipVars, MembershipInv, MembershipTypeOK, Present, PassAge, VisitOK, VisitAge, Absent,
              Open, Late
<1>2. CASE MembershipNext
  BY <1>2, CheckStep, BeginStep, EndStep, MoveStep, AgeStep DEF MembershipNext
<1>3. QED BY <1>1, <1>2

LEMMA InvHolds == MembershipInv => GateHolds
BY DEF MembershipInv, MembershipTypeOK, VisitOK, VisitAge, Absent, GateHolds, Decided, Late

\* Whoever passes the join wall was in every target within the time of one
\* pass, or its check failed; and no member is turned away for a target he was
\* in all along (services/subscription.py ForceJoinService).
THEOREM WallHolds == MembershipSpec => []GateHolds
<1>1. MembershipSpec => []MembershipInv
  BY InitMembership, NextMembership, PTL DEF MembershipSpec
<1>2. QED BY <1>1, InvHolds, PTL

LEMMA MembershipTyped == MembershipSpec => []MembershipTypeOK
<1>1. MembershipInv => MembershipTypeOK
  BY DEF MembershipInv
<1>2. QED BY <1>1, InitMembership, NextMembership, PTL DEF MembershipSpec

-----------------------------------------------------------------------------
(***************************************************************************)
(* SongsKept for any clips, updates and life times of what Redis keeps.    *)
(* Each of its promises is kept by one row (Promises, Windows, Markers) or *)
(* by an update that is on its way to it; a page that is sent is stamped   *)
(* by the one that sent it.                                                *)
(***************************************************************************)

\* Which update stands where, and what it is about.
StepShape ==
  \A o \in Update :
    /\ step[o].at # "idle" => step[o].job # "none"
    /\ step[o].at \in {"negative", "read", "forgo", "wait", "search"} => step[o].job = "find"
    /\ step[o].at \in {"count", "window"} => step[o].job # "deliver"
    /\ step[o].job \in {"deliver", "find"} => step[o].on \in Clip
    /\ step[o].job = "inline" => step[o].on \in Page
    /\ step[o].job \in {"find", "inline"} => step[o].fan \in Fan

\* What a button promises was written, and is only written over by a later one.
Promises ==
  /\ \A k \in SongKey : promised[k] <= expires[k]
  /\ \A k \in SongKey : k[1] # "negative" => expires[k] <= hour + MappingTTL
  /\ \A k \in SongKey : k[1] = "negative" => promised[k] = 0
  /\ \A o \in Update : At(o, "show") => step[o].until <= expires[KeyOf(o)]

\* A counter that counts something runs out, or its window is lost or to come.
Windows ==
  \A c \in Counter :
    \/ counter[c].n = 0 \/ counter[c].expires # 0 \/ c \in lost
    \/ \E o \in Update : At(o, "window") /\ CounterOf(o) = c

Markers == \A v \in Clip : expires[<<"negative", v>>] # 0 => v \in barren

\* A page that is not stamped yet is on its way to it; one that nobody was
\* blind to is alone.
Pages ==
  /\ ~hasty
  /\ pagedAt <= hour /\ stamped <= hour
  /\ pagedAt <= stamped \/ \E o \in Update : At(o, "stamp")
  /\ \A o \in Update : At(o, "page") /\ ~step[o].blind =>
       /\ ~Recent(stamped)
       /\ \A p \in Update \ {o} : ~At(p, "page") /\ ~At(p, "stamp")

SongsInv ==
  SongsTypeOK /\ StepShape /\ Promises /\ Windows /\ Markers /\ Pages

SongSteps == [at : {"idle", "count", "window", "negative", "read", "forgo", "wait", "search",
                    "store", "show", "due", "page", "stamp"},
              job : {"none", "deliver", "find", "inline"},
              fan : Fan \cup {NoUpdate}, on : Clip \cup Page \cup {NoUpdate},
              blind : BOOLEAN, until : 0..(MaxHours + MappingTTL)]

LEMMA InitSongs == SongsInit => SongsInv
<1> SUFFICES ASSUME SongsInit PROVE SongsInv
  OBVIOUS
<1> USE SongsAssumption
<1>1. /\ 0 \in 0..(MaxHours + MappingTTL + NegativeTTL) /\ 0 \in 0..(MaxHours + MappingTTL)
      /\ 0 \in 0..(MaxHours + Window) /\ 0 \in 0..MaxHours /\ 1 \in 1..MaxHours
      /\ 0 \in 0..MaxOps /\ 0 \in 0..MaxFailures
  OBVIOUS
<1>2. Asleep \in SongSteps
  BY <1>1 DEF Asleep, SongSteps
<1>c. [n |-> 0, expires |-> 0] \in [n : Nat, expires : 0..(MaxHours + Window)]
  BY <1>1
<1>d. counter \in [Counter -> [n : Nat, expires : 0..(MaxHours + Window)]]
  BY <1>c DEF SongsInit
<1>e. step \in [Update -> SongSteps]
  BY <1>2 DEF SongsInit
<1>3. SongsTypeOK
  BY <1>1, <1>d, <1>e DEF SongsInit, SongsTypeOK, SongSteps
<1>4. \A o \in Update : step[o].at = "idle" /\ step[o].job = "none"
  BY DEF SongsInit, Asleep
<1>5. StepShape
  BY <1>4 DEF StepShape
<1>6. Promises
  BY <1>4 DEF SongsInit, Promises, At
<1>7. Windows /\ Markers
  BY DEF SongsInit, Windows, Markers, SongKey
<1>8. Pages
  BY <1>4 DEF SongsInit, Pages, At
<1>9. QED BY <1>3, <1>5, <1>6, <1>7, <1>8 DEF SongsInv

\* What an update is about has a key and a counter of its own.
LEMMA OwnKeys ==
  ASSUME SongsTypeOK, StepShape, NEW o \in Update, step[o].at # "idle"
  PROVE  /\ KeyOf(o) \in SongKey /\ KeyOf(o)[1] \in {"find", "hit", "link"}
         /\ step[o].job = "find" => <<"negative", step[o].on>> \in SongKey /\ step[o].on \in Clip
         /\ step[o].at \in {"count", "window"} => CounterOf(o) \in Counter
<1>1. step[o] \in SongSteps
  BY DEF SongsTypeOK, SongSteps
<1>2. CASE step[o].job = "deliver"
  BY <1>2 DEF StepShape, KeyOf, SongKey
<1>3. CASE step[o].job = "find"
  BY <1>3 DEF StepShape, KeyOf, SongKey, CounterOf, Counter
<1>4. CASE step[o].job = "inline"
  BY <1>4 DEF StepShape, KeyOf, SongKey, CounterOf, Counter
<1>5. QED BY <1>1, <1>2, <1>3, <1>4 DEF StepShape, SongSteps

\* One update moves, and keeps what it is about, or ends.
SongMoves(o, places) ==
  Ends(o) \/ \E place \in places : Turns(o, place)

LEMMA StepTypes ==
  ASSUME SongsTypeOK, StepShape, NEW o \in Update, step[o].at # "idle",
         NEW places \in SUBSET {"window", "negative", "read", "forgo", "wait", "search", "store",
                                "due", "page", "stamp"},
         SongMoves(o, places),
         "window" \in places => step[o].job # "deliver",
         (places \cap {"negative", "read", "forgo", "wait", "search"} # {}) => step[o].job = "find"
  PROVE  step' \in [Update -> SongSteps] /\ StepShape'
<1> USE SongsAssumption
<1>1. step \in [Update -> SongSteps] /\ Asleep \in SongSteps
  <2>1. 0 \in 0..(MaxHours + MappingTTL)
    OBVIOUS
  <2>2. QED BY <2>1 DEF SongsTypeOK, SongSteps, Asleep
<1>2. CASE Ends(o)
  BY <1>1, <1>2 DEF Ends, StepShape, Asleep
<1>3. ASSUME NEW place \in places, Turns(o, place) PROVE step' \in [Update -> SongSteps] /\ StepShape'
  <2>1. step'[o] = [step[o] EXCEPT !.at = place] /\ \A p \in Update \ {o} : step'[p] = step[p]
    BY <1>1, <1>3 DEF Turns
  <2>2. step' \in [Update -> SongSteps]
    BY <1>1, <1>3 DEF Turns, SongSteps
  <2>3. step[o] \in SongSteps /\ step'[o].at = place /\ step'[o].job = step[o].job /\ step'[o].on = step[o].on
        /\ step'[o].fan = step[o].fan
    BY <1>1, <2>1 DEF SongSteps
  <2>4. \A p \in Update \ {o} : step'[p] = step[p]
    BY <2>1
  <2>5. /\ place # "idle" => step[o].job # "none"
        /\ place \in {"negative", "read", "forgo", "wait", "search"} => step[o].job = "find"
        /\ place \in {"count", "window"} => step[o].job # "deliver"
    BY DEF StepShape
  <2>6. StepShape'
    BY <2>3, <2>4, <2>5 DEF StepShape
  <2>7. QED BY <2>2, <2>6
<1>4. QED BY <1>2, <1>3 DEF SongMoves
LEMMA SongsTypeStep ==
  SongsTypeOK /\ StepShape /\ [SongsNext]_songVars => SongsTypeOK' /\ StepShape'
<1> SUFFICES ASSUME SongsTypeOK, StepShape, [SongsNext]_songVars PROVE SongsTypeOK' /\ StepShape'
  OBVIOUS
<1> USE SongsAssumption
<1> DEFINE Typed == step' \in [Update -> SongSteps] /\ StepShape'
<1>n. /\ 0 \in 0..(MaxHours + MappingTTL) /\ hour + MappingTTL \in 0..(MaxHours + MappingTTL)
      /\ hour + MappingTTL \in 0..(MaxHours + MappingTTL + NegativeTTL)
      /\ hour + NegativeTTL \in 0..(MaxHours + MappingTTL + NegativeTTL)
      /\ 0 \in 0..(MaxHours + Window) /\ hour + Window \in 0..(MaxHours + Window)
      /\ hour \in 0..MaxHours
  BY DEF SongsTypeOK
<1>f. failures < MaxFailures => failures + 1 \in 0..MaxFailures
  BY DEF SongsTypeOK
<1>s. step \in [Update -> SongSteps]
  BY DEF SongsTypeOK, SongSteps
<1>b. ASSUME NEW o \in Update, NEW job \in {"deliver", "find", "inline"}, NEW fan \in Fan \cup {NoUpdate},
             NEW on \in Clip \cup Page, NEW place \in {"store", "count"}, Begins(o, job, fan, on, place),
             job \in {"deliver", "find"} => on \in Clip, job = "inline" => on \in Page,
             job # "deliver" => fan \in Fan, place = "count" => job # "deliver"
      PROVE  SongsTypeOK' /\ StepShape'
  <2>1. [at |-> place, job |-> job, fan |-> fan, on |-> on, blind |-> FALSE, until |-> 0] \in SongSteps
    BY <1>b, <1>n DEF SongSteps
  <2>2. Typed
    BY <1>b, <1>s, <2>1 DEF Begins, StepShape
  <2>3. ops' \in 0..MaxOps
    BY <1>b DEF Begins, SongsTypeOK
  <2>4. QED BY <1>b, <2>2, <2>3 DEF Begins, SongsTypeOK, SongSteps, redisVars, noticeVars
<1>1. ASSUME NEW o \in Update, NEW c \in Clip, DeliverBegins(o, c) PROVE SongsTypeOK' /\ StepShape'
  BY <1>1, <1>b DEF DeliverBegins
<1>2. ASSUME NEW o \in Update, NEW c \in Clip, NEW f \in Fan, FindBegins(o, f, c)
      PROVE  SongsTypeOK' /\ StepShape'
  BY <1>2, <1>b DEF FindBegins
<1>3. ASSUME NEW o \in Update, NEW l \in Page, NEW f \in Fan, InlineBegins(o, f, l)
      PROVE  SongsTypeOK' /\ StepShape'
  BY <1>3, <1>b DEF InlineBegins
<1>4. ASSUME NEW o \in Update, CountFails(o) PROVE SongsTypeOK' /\ StepShape'
  <2>1. SongMoves(o, IF step[o].job = "find" THEN {"negative"} ELSE {})
    BY <1>4 DEF CountFails, SongMoves
  <2>2. Typed
    BY <1>4, <2>1, StepTypes DEF CountFails, At
  <2>3. QED BY <1>4, <1>f, <2>2 DEF CountFails, NoRedis, Fails, SongsTypeOK, SongSteps, redisVars, noticeVars
<1>5. ASSUME NEW o \in Update, Count(o) PROVE SongsTypeOK' /\ StepShape'
  <2>1. SongMoves(o, IF step[o].job = "find" THEN {"window", "negative"} ELSE {"window", "store"})
    BY <1>5 DEF Count, SongMoves, Beyond
  <2>2. Typed
    BY <1>5, <2>1, StepTypes DEF Count, At, StepShape
  <2>3. counter' \in [Counter -> [n : Nat, expires : 0..(MaxHours + Window)]]
    <3>1. CounterOf(o) \in Counter
      BY <1>5, OwnKeys DEF Count, At
    <3>2. Reading(CounterOf(o)) + 1 \in Nat
      BY <3>1 DEF Reading, SongsTypeOK
    <3>3. QED BY <1>5, <1>n, <3>1, <3>2 DEF Count, SongsTypeOK
  <2>4. QED BY <1>5, <2>2, <2>3 DEF Count, Works, SongsTypeOK, SongSteps, redisVars, noticeVars
<1>6. ASSUME NEW o \in Update, SetWindow(o) PROVE SongsTypeOK' /\ StepShape'
  <2>1. SongMoves(o, IF step[o].job = "find" THEN {"negative"} ELSE {"store"})
    BY <1>6 DEF SetWindow, SongMoves, Beyond
  <2>2. Typed
    BY <1>6, <2>1, StepTypes DEF SetWindow, At, StepShape
  <2>3. CounterOf(o) \in Counter
    BY <1>6, OwnKeys DEF SetWindow, At
  <2>4. counter' \in [Counter -> [n : Nat, expires : 0..(MaxHours + Window)]] /\ lost' \subseteq Counter
        /\ failures' \in 0..MaxFailures
    BY <1>6, <1>n, <1>f, <2>3 DEF SetWindow, Works, Fails, SongsTypeOK
  <2>5. QED BY <1>6, <2>2, <2>4 DEF SetWindow, SongsTypeOK, SongSteps, redisVars, noticeVars
<1>7. ASSUME NEW o \in Update, AskNegative(o) PROVE SongsTypeOK' /\ StepShape'
  <2>1. SongMoves(o, {"read"})
    BY <1>7 DEF AskNegative, SongMoves
  <2>2. Typed
    BY <1>7, <2>1, StepTypes DEF AskNegative, At, StepShape
  <2>3. QED BY <1>7, <1>f, <2>2 DEF AskNegative, NoRedis, Works, Fails, SongsTypeOK, SongSteps, redisVars, noticeVars
<1>8. ASSUME NEW o \in Update, ReadMapping(o) PROVE SongsTypeOK' /\ StepShape'
  <2>1. SongMoves(o, {"wait", "forgo"})
    BY <1>8 DEF ReadMapping, SongMoves
  <2>2. Typed
    BY <1>8, <2>1, StepTypes DEF ReadMapping, At, StepShape
  <2>3. QED BY <1>8, <1>f, <2>2 DEF ReadMapping, NoRedis, Works, Fails, SongsTypeOK, SongSteps, redisVars, noticeVars
<1>9. ASSUME NEW o \in Update, Forgo(o) PROVE SongsTypeOK' /\ StepShape'
  <2>1. SongMoves(o, {"read"})
    BY <1>9 DEF Forgo, SongMoves
  <2>2. Typed
    BY <1>9, <2>1, StepTypes DEF Forgo, At, StepShape
  <2>3. step[o].job = "find"
    BY <1>9 DEF Forgo, At, StepShape
  <2>4. step[o].on \in Clip /\ <<"negative", step[o].on>> \in SongKey
    BY <1>9, <2>3, OwnKeys DEF Forgo, At
  <2>5. expires' \in [SongKey -> 0..(MaxHours + MappingTTL + NegativeTTL)] /\ barren' \subseteq Clip
        /\ failures' \in 0..MaxFailures
    <3>1. failures' \in 0..MaxFailures
      BY <1>9, <1>f DEF Forgo, Works, Fails, SongsTypeOK
    <3>2. barren' \subseteq Clip
      BY <1>9, <2>4 DEF Forgo, SongsTypeOK
    <3>3. expires' \in [SongKey -> 0..(MaxHours + MappingTTL + NegativeTTL)]
      BY <1>9, <1>n, <2>4 DEF Forgo, SongsTypeOK
    <3>4. QED BY <3>1, <3>2, <3>3
  <2>6. QED BY <1>9, <2>2, <2>5 DEF Forgo, SongsTypeOK, SongSteps, redisVars, noticeVars
<1>10. ASSUME NEW o \in Update, TakeSlot(o) PROVE SongsTypeOK' /\ StepShape'
  <2>1. SongMoves(o, {"search"})
    BY <1>10 DEF TakeSlot, SongMoves
  <2>2. Typed
    BY <1>10, <2>1, StepTypes DEF TakeSlot, At, StepShape
  <2>3. QED BY <1>10, <2>2 DEF TakeSlot, SongsTypeOK, SongSteps, redisVars, noticeVars
<1>11. ASSUME NEW o \in Update, Search(o) PROVE SongsTypeOK' /\ StepShape'
  <2>1. SongMoves(o, {"forgo", "store"})
    BY <1>11 DEF Search, SongMoves
  <2>2. Typed
    BY <1>11, <2>1, StepTypes DEF Search, At, StepShape
  <2>3. QED BY <1>11, <2>2 DEF Search, SongsTypeOK, SongSteps, redisVars, noticeVars
<1>12. ASSUME NEW o \in Update, Store(o) PROVE SongsTypeOK' /\ StepShape'
  <2>1. /\ step[o] \in SongSteps
        /\ step'[o] = [step[o] EXCEPT !.at = "show", !.until = hour + MappingTTL]
        /\ \A p \in Update \ {o} : step'[p] = step[p]
    BY <1>12, <1>s DEF Store
  <2>2. step' \in [Update -> SongSteps]
    <3>1. hour + MappingTTL \in 0..(MaxHours + MappingTTL)
      BY <1>n, SongsAssumption DEF SongsTypeOK
    <3>2. [step[o] EXCEPT !.at = "show", !.until = hour + MappingTTL] \in SongSteps
      BY <2>1, <3>1 DEF SongSteps
    <3>3. step' = [step EXCEPT ![o] = step'[o]]
      BY <1>12, <1>s, <2>1 DEF Store
    <3>4. QED BY <1>s, <2>1, <3>2, <3>3
  <2>3. StepShape'
    BY <1>12, <1>s, <2>1 DEF Store, At, StepShape, SongSteps
  <2>4. KeyOf(o) \in SongKey
    BY <1>12, OwnKeys DEF Store, At
  <2>5. expires' \in [SongKey -> 0..(MaxHours + MappingTTL + NegativeTTL)] /\ announced' \in BOOLEAN
    BY <1>12, <1>n, <2>4 DEF Store, SongsTypeOK
  <2>6. QED BY <1>12, <2>2, <2>3, <2>5 DEF Store, Works, SongsTypeOK, SongSteps, redisVars
<1>13. ASSUME NEW o \in Update, StoreFails(o) PROVE SongsTypeOK' /\ StepShape'
  <2>1. SongMoves(o, {"due"})
    BY <1>13 DEF StoreFails, SongMoves
  <2>2. Typed
    BY <1>13, <2>1, StepTypes DEF StoreFails, At, StepShape
  <2>3. announced' \in BOOLEAN
    BY <1>13 DEF StoreFails, SongsTypeOK
  <2>4. QED BY <1>13, <1>f, <2>2, <2>3 DEF StoreFails, NoRedis, Fails, SongsTypeOK, SongSteps, redisVars
<1>14. ASSUME NEW o \in Update, Show(o) PROVE SongsTypeOK' /\ StepShape'
  <2>1. SongMoves(o, {})
    BY <1>14 DEF Show, SongMoves
  <2>2. Typed
    BY <1>14, <2>1, StepTypes DEF Show, At
  <2>3. KeyOf(o) \in SongKey
    BY <1>14, OwnKeys DEF Show, At
  <2>4. promised' \in [SongKey -> 0..(MaxHours + MappingTTL)]
    BY <1>14, <1>s, <2>3 DEF Show, SongsTypeOK, SongSteps
  <2>5. QED BY <1>14, <2>2, <2>4 DEF Show, SongsTypeOK, SongSteps, redisVars, noticeVars
<1>15. ASSUME NEW o \in Update, Due(o) PROVE SongsTypeOK' /\ StepShape'
  <2>1. CASE Recent(stamped)
    <3>1. SongMoves(o, {"due"})
      BY <1>15, <2>1 DEF Due, SongMoves
    <3>2. Typed
      BY <1>15, <3>1, StepTypes DEF Due, At, StepShape
    <3>3. QED BY <1>15, <3>2 DEF Due, SongsTypeOK, SongSteps, redisVars, noticeVars
  <2>2. CASE ~Recent(stamped)
    <3> DEFINE paging == {p \in Update : At(p, "page") \/ At(p, "stamp")}
    <3>1. \A p \in Update :
             step'[p] = [step[p] EXCEPT !.at = IF p = o THEN "page" ELSE @,
                                        !.blind = @ \/ (paging # {} /\ p \in paging \cup {o})]
      BY <1>15, <2>2 DEF Due
    <3> HIDE DEF paging
    <3>2. ASSUME NEW p \in Update
          PROVE  /\ step[p] \in SongSteps /\ step'[p] \in SongSteps
                 /\ step'[p].job = step[p].job /\ step'[p].on = step[p].on /\ step'[p].fan = step[p].fan
                 /\ step'[p].until = step[p].until
                 /\ step'[p].at = IF p = o THEN "page" ELSE step[p].at
      <4> DEFINE joins == paging # {} /\ p \in paging \cup {o}
                 at    == IF p = o THEN "page" ELSE step[p].at
      <4>1. step[p] \in SongSteps /\ step'[p] = [step[p] EXCEPT !.at = at, !.blind = @ \/ joins]
        BY <1>s, <3>1
      <4>2. at \in {"idle", "count", "window", "negative", "read", "forgo", "wait", "search", "store",
                    "show", "due", "page", "stamp"}
        BY <4>1 DEF SongSteps
      <4>3. (step[p].blind \/ joins) \in BOOLEAN
        OBVIOUS
      <4> HIDE DEF joins
      <4>6. at = IF p = o THEN "page" ELSE step[p].at
        OBVIOUS
      <4> HIDE DEF at
      <4>4. \A b \in BOOLEAN : [step[p] EXCEPT !.at = at, !.blind = b] \in SongSteps
        BY <4>1, <4>2 DEF SongSteps
      <4>5. \A b : LET new == [step[p] EXCEPT !.at = at, !.blind = b]
                   IN new.job = step[p].job /\ new.on = step[p].on /\ new.fan = step[p].fan
                      /\ new.until = step[p].until /\ new.at = at
        BY <4>1 DEF SongSteps
      <4>7. QED BY <4>1, <4>3, <4>4, <4>5, <4>6
    <3>3. step' \in [Update -> SongSteps]
      BY <1>15, <2>2, <3>2 DEF Due
    <3>5. StepShape'
      BY <1>15, <3>2 DEF StepShape, Due, At
    <3>6. QED BY <1>15, <3>3, <3>5 DEF Due, SongsTypeOK, SongSteps, redisVars, noticeVars
  <2>3. QED BY <2>1, <2>2
<1>16. ASSUME NEW o \in Update, PageAdmins(o) PROVE SongsTypeOK' /\ StepShape'
  <2>1. SongMoves(o, {"stamp"})
    BY <1>16 DEF PageAdmins, SongMoves
  <2>2. Typed
    BY <1>16, <2>1, StepTypes DEF PageAdmins, At, StepShape
  <2>3. hasty' \in BOOLEAN
    BY <1>16 DEF PageAdmins, SongsTypeOK
  <2>4. QED BY <1>16, <1>n, <2>2, <2>3 DEF PageAdmins, SongsTypeOK, SongSteps, redisVars
<1>17. ASSUME NEW o \in Update, StampNotice(o) PROVE SongsTypeOK' /\ StepShape'
  <2>1. SongMoves(o, {"stamp"})
    BY <1>17 DEF StampNotice, SongMoves
  <2>2. Typed
    BY <1>17, <2>1, StepTypes DEF StampNotice, At, StepShape
  <2>4. QED BY <1>17, <1>n, <2>2 DEF StampNotice, SongsTypeOK, SongSteps, redisVars
<1>18. ASSUME NEW key \in {"hit", "link"} \X (Clip \cup Page), Follow(key) PROVE SongsTypeOK' /\ StepShape'
  BY <1>18 DEF Follow, SongsTypeOK, StepShape, redisVars, noticeVars
<1>19. ASSUME NEW c \in Clip, SongConfirm(c) PROVE SongsTypeOK' /\ StepShape'
  BY <1>18, <1>19 DEF SongConfirm
<1>20. ASSUME NEW l \in Page, StartWithToken(l) PROVE SongsTypeOK' /\ StepShape'
  BY <1>18, <1>20 DEF StartWithToken
<1>21. CASE HourPasses
  <2>1. hour' \in 1..MaxHours
    BY <1>21 DEF HourPasses, SongsTypeOK
  <2>2. QED BY <1>21, <2>1 DEF HourPasses, SongsTypeOK, StepShape, redisVars, noticeVars
<1>22. CASE UNCHANGED songVars
  BY <1>22 DEF songVars, SongsTypeOK, StepShape, redisVars, noticeVars
<1>23. QED
  BY <1>1, <1>2, <1>3, <1>4, <1>5, <1>6, <1>7, <1>8, <1>9, <1>10, <1>11, <1>12, <1>13, <1>14, <1>15,
     <1>16, <1>17, <1>19, <1>20, <1>21, <1>22 DEF SongsNext
-----------------------------------------------------------------------------
\* The steps that no promise, window, marker or page depends on.
Aside == {"show", "window", "page", "stamp"}
Minor ==
  /\ UNCHANGED <<hour, expires, promised, counter, lost, barren, stamped, pagedAt, hasty>>
  /\ \A p \in Update : step'[p] = step[p] \/ {step[p].at, step'[p].at} \cap Aside = {}

LEMMA AloneMoves ==
  ASSUME SongsTypeOK, NEW o \in Update, NEW places, SongMoves(o, places)
  PROVE  /\ \A p \in Update \ {o} : step'[p] = step[p]
         /\ step'[o].at \in places \cup {"idle"}
         /\ step'[o].at # "idle" => step'[o] = [step[o] EXCEPT !.at = step'[o].at]
<1>1. step \in [Update -> SongSteps]
  BY DEF SongsTypeOK, SongSteps
<1>2. CASE Ends(o)
  BY <1>1, <1>2 DEF Ends, Asleep
<1>3. ASSUME NEW place \in places, Turns(o, place)
      PROVE  /\ \A p \in Update \ {o} : step'[p] = step[p]
             /\ step'[o].at \in places /\ step'[o] = [step[o] EXCEPT !.at = step'[o].at]
  BY <1>1, <1>3 DEF Turns, SongSteps
<1>4. QED BY <1>2, <1>3 DEF SongMoves

LEMMA MinorSteps ==
  ASSUME SongsTypeOK, StepShape, [SongsNext]_songVars
  PROVE  \/ \E o \in Update : \/ Count(o) \/ SetWindow(o) \/ Forgo(o) \/ Store(o) \/ Show(o)
                              \/ Due(o) /\ ~Recent(stamped)
                              \/ PageAdmins(o) \/ StampNotice(o)
         \/ HourPasses
         \/ Minor
<1>0. step \in [Update -> SongSteps]
  BY DEF SongsTypeOK, SongSteps
<1>m. ASSUME NEW o \in Update, NEW places \in SUBSET {"negative", "read", "wait", "forgo", "search",
                                                    "store", "due"},
             SongMoves(o, places), step[o].at \notin Aside,
             UNCHANGED <<hour, expires, promised, counter, lost, barren, stamped, pagedAt, hasty>>
      PROVE  Minor
  BY <1>m, AloneMoves DEF Minor, Aside
<1>b. ASSUME NEW o \in Update, NEW job, NEW fan, NEW on, NEW place \in {"store", "count"},
             Begins(o, job, fan, on, place)
      PROVE  Minor
  BY <1>0, <1>b DEF Begins, At, Minor, Aside, redisVars, noticeVars
<1>1. ASSUME NEW o \in Update, NEW c \in Clip, DeliverBegins(o, c) PROVE Minor
  BY <1>1, <1>b DEF DeliverBegins
<1>2. ASSUME NEW o \in Update, NEW c \in Clip, NEW f \in Fan, FindBegins(o, f, c) PROVE Minor
  BY <1>2, <1>b DEF FindBegins
<1>3. ASSUME NEW o \in Update, NEW l \in Page, NEW f \in Fan, InlineBegins(o, f, l) PROVE Minor
  BY <1>3, <1>b DEF InlineBegins
<1>4. ASSUME NEW o \in Update, CountFails(o) PROVE Minor
  <2>1. SongMoves(o, {"negative"}) /\ step[o].at \notin Aside
    BY <1>4 DEF CountFails, SongMoves, At, Aside
  <2>2. QED BY <1>4, <1>m, <2>1 DEF CountFails, redisVars, noticeVars
<1>5. ASSUME NEW o \in Update, AskNegative(o) PROVE Minor
  <2>1. SongMoves(o, {"read"}) /\ step[o].at \notin Aside
    BY <1>5 DEF AskNegative, SongMoves, At, Aside
  <2>2. QED BY <1>5, <1>m, <2>1 DEF AskNegative, redisVars, noticeVars
<1>6. ASSUME NEW o \in Update, ReadMapping(o) PROVE Minor
  <2>1. SongMoves(o, {"wait", "forgo"}) /\ step[o].at \notin Aside
    BY <1>6 DEF ReadMapping, SongMoves, At, Aside
  <2>2. QED BY <1>6, <1>m, <2>1 DEF ReadMapping, redisVars, noticeVars
<1>7. ASSUME NEW o \in Update, TakeSlot(o) PROVE Minor
  <2>1. SongMoves(o, {"search"}) /\ step[o].at \notin Aside
    BY <1>7 DEF TakeSlot, SongMoves, At, Aside
  <2>2. QED BY <1>7, <1>m, <2>1 DEF TakeSlot, redisVars, noticeVars
<1>8. ASSUME NEW o \in Update, Search(o) PROVE Minor
  <2>1. SongMoves(o, {"forgo", "store"}) /\ step[o].at \notin Aside
    BY <1>8 DEF Search, SongMoves, At, Aside
  <2>2. QED BY <1>8, <1>m, <2>1 DEF Search, redisVars, noticeVars
<1>9. ASSUME NEW o \in Update, StoreFails(o) PROVE Minor
  <2>1. SongMoves(o, {"due"}) /\ step[o].at \notin Aside
    BY <1>9 DEF StoreFails, SongMoves, At, Aside
  <2>2. QED BY <1>9, <1>m, <2>1 DEF StoreFails, redisVars, noticeVars
<1>10. ASSUME NEW o \in Update, Due(o), Recent(stamped) PROVE Minor
  <2>1. SongMoves(o, {}) /\ step[o].at \notin Aside
    BY <1>10 DEF Due, SongMoves, At, Aside
  <2>2. QED BY <1>10, <1>m, <2>1 DEF Due, redisVars, noticeVars
<1>11. ASSUME NEW key, Follow(key) PROVE Minor
  BY <1>11 DEF Follow, Minor, redisVars, noticeVars
<1>12. CASE UNCHANGED songVars
  BY <1>12 DEF songVars, Minor, redisVars, noticeVars
<1>13. QED
  BY <1>1, <1>2, <1>3, <1>4, <1>5, <1>6, <1>7, <1>8, <1>9, <1>10, <1>11, <1>12
  DEF SongsNext, SongConfirm, StartWithToken

\* A page that becomes due is seen by the others under way, and sees them.
LEMMA DueStep ==
  ASSUME SongsTypeOK, NEW o \in Update, Due(o), ~Recent(stamped)
  PROVE  /\ step[o].at = "due"
         /\ \A p \in Update : /\ step'[p].job = step[p].job /\ step'[p].on = step[p].on
                              /\ step'[p].fan = step[p].fan /\ step'[p].until = step[p].until
                              /\ step'[p].at = IF p = o THEN "page" ELSE step[p].at
         /\ \A p \in Update : ~step'[p].blind =>
              /\ ~step[p].blind
              /\ p = o => \A q \in Update : step[q].at \notin {"page", "stamp"}
              /\ p # o => step[p].at \notin {"page", "stamp"}
<1> DEFINE paging == {p \in Update : At(p, "page") \/ At(p, "stamp")}
<1>1. \A p \in Update :
         step'[p] = [step[p] EXCEPT !.at = IF p = o THEN "page" ELSE @,
                                    !.blind = @ \/ (paging # {} /\ p \in paging \cup {o})]
  BY DEF Due
<1>2. step[o].at = "due"
  BY DEF Due, At
<1>3. ASSUME NEW p \in Update
      PROVE  /\ step'[p].job = step[p].job /\ step'[p].on = step[p].on
             /\ step'[p].fan = step[p].fan /\ step'[p].until = step[p].until
             /\ step'[p].at = IF p = o THEN "page" ELSE step[p].at
             /\ step'[p].blind = (step[p].blind \/ (paging # {} /\ p \in paging \cup {o}))
  <2> DEFINE joins == paging # {} /\ p \in paging \cup {o}
             at    == IF p = o THEN "page" ELSE step[p].at
  <2>1. step[p] \in SongSteps /\ step'[p] = [step[p] EXCEPT !.at = at, !.blind = @ \/ joins]
    BY <1>1 DEF SongsTypeOK, SongSteps
  <2>2. at = IF p = o THEN "page" ELSE step[p].at
    OBVIOUS
  <2>3. joins = (paging # {} /\ p \in paging \cup {o})
    OBVIOUS
  <2> HIDE DEF joins, at
  <2>4. \A b : LET new == [step[p] EXCEPT !.at = at, !.blind = b]
               IN new.job = step[p].job /\ new.on = step[p].on /\ new.fan = step[p].fan
                  /\ new.until = step[p].until /\ new.at = at /\ new.blind = b
    BY <2>1 DEF SongSteps
  <2> DEFINE now == step[p].blind \/ joins
  <2>5. step'[p] = [step[p] EXCEPT !.at = at, !.blind = now]
    BY <2>1
  <2>6. now = (step[p].blind \/ joins)
    OBVIOUS
  <2> HIDE DEF now
  <2>7. /\ step'[p].job = step[p].job /\ step'[p].on = step[p].on
        /\ step'[p].fan = step[p].fan /\ step'[p].until = step[p].until
        /\ step'[p].at = at /\ step'[p].blind = now
    BY <2>4, <2>5
  <2>8. QED BY <2>2, <2>3, <2>6, <2>7
<1>4. ASSUME NEW p \in Update, ~step'[p].blind
      PROVE  /\ ~step[p].blind
             /\ p = o => \A q \in Update : step[q].at \notin {"page", "stamp"}
             /\ p # o => step[p].at \notin {"page", "stamp"}
  <2>1. ~step[p].blind /\ ~(paging # {} /\ p \in paging \cup {o})
    BY <1>3, <1>4
  <2>2. \A q \in Update : q \in paging <=> step[q].at \in {"page", "stamp"}
    BY DEF At
  <2> HIDE DEF paging
  <2>3. QED BY <2>1, <2>2
<1>5. QED BY <1>2, <1>3, <1>4
LEMMA PromisesStep ==
  SongsTypeOK /\ StepShape /\ Promises /\ [SongsNext]_songVars => Promises'
<1> SUFFICES ASSUME SongsTypeOK, StepShape, Promises, [SongsNext]_songVars PROVE Promises'
  OBVIOUS
<1> USE SongsAssumption
<1>t. /\ expires \in [SongKey -> Nat] /\ promised \in [SongKey -> Nat] /\ hour \in Nat
      /\ step \in [Update -> SongSteps] /\ \A o \in Update : step[o].until \in Nat
  BY DEF SongsTypeOK, SongSteps
<1>s. SongsTypeOK' /\ StepShape'
  BY SongsTypeStep
<1>k. \A p \in Update : UNCHANGED <<step[p].job, step[p].on>> => UNCHANGED KeyOf(p)
  BY DEF KeyOf
<1>0. ASSUME UNCHANGED <<expires, promised, hour>>,
             \A p \in Update : step'[p].at = "show" =>
               step[p].at = "show" /\ UNCHANGED <<step[p].job, step[p].on, step[p].until>>
      PROVE  Promises'
  BY <1>0, <1>k DEF Promises, At
<1>m. ASSUME NEW o \in Update, NEW places, "show" \notin places, SongMoves(o, places)
      PROVE  \A p \in Update : step'[p].at = "show" =>
               step[p].at = "show" /\ UNCHANGED <<step[p].job, step[p].on, step[p].until>>
  <2>1. step'[o].at # "show" /\ \A p \in Update \ {o} : step'[p] = step[p]
    BY <1>m, AloneMoves
  <2>2. QED BY <2>1
<1>1. ASSUME NEW o \in Update, Count(o) PROVE Promises'
  <2>1. SongMoves(o, {"window", Beyond(o)}) /\ Beyond(o) # "show"
    BY <1>1 DEF Count, SongMoves, Beyond
  <2>2. QED BY <1>0, <1>1, <1>m, <2>1 DEF Count
<1>2. ASSUME NEW o \in Update, SetWindow(o) PROVE Promises'
  <2>1. SongMoves(o, {Beyond(o)}) /\ Beyond(o) # "show"
    BY <1>2 DEF SetWindow, SongMoves, Beyond
  <2>2. QED BY <1>0, <1>2, <1>m, <2>1 DEF SetWindow
<1>3. ASSUME NEW o \in Update, Forgo(o) PROVE Promises'
  <2>1. SongMoves(o, {})
    BY <1>3 DEF Forgo, SongMoves
  <2>2. \A p \in Update : step'[p].at = "show" =>
           step[p].at = "show" /\ UNCHANGED <<KeyOf(p), step[p].until>>
    BY <1>k, <1>m, <2>1
  <2>3. \A k \in SongKey : k[1] # "negative" => UNCHANGED expires[k]
    BY <1>3, <1>t DEF Forgo
  <2>4. \A k \in SongKey : expires'[k] >= 0 /\ expires'[k] \in Nat
    BY <1>s DEF SongsTypeOK
  <2>5. \A p \in Update : step[p].at = "show" => KeyOf(p) \in SongKey /\ KeyOf(p)[1] # "negative"
    BY OwnKeys
  <2>6. UNCHANGED <<hour, promised>>
    BY <1>3 DEF Forgo
  <2>7. \A k \in SongKey : promised[k] <= expires'[k]
    BY <1>t, <2>3, <2>4 DEF Promises
  <2>8. \A o1 \in Update : At(o1, "show")' => step'[o1].until <= expires'[KeyOf(o1)']
    BY <2>2, <2>3, <2>5 DEF Promises, At
  <2>9. QED BY <2>3, <2>6, <2>7, <2>8 DEF Promises
<1>4. ASSUME NEW o \in Update, Store(o) PROVE Promises'
  <2> DEFINE k0 == KeyOf(o)
  <2>1. k0 \in SongKey /\ k0[1] # "negative"
    BY <1>4, OwnKeys DEF Store, At
  <2>2. expires'[k0] = hour + MappingTTL /\ \A k \in SongKey \ {k0} : expires'[k] = expires[k]
    BY <1>4, <1>t, <2>1 DEF Store
  <2>3. \A k \in SongKey : expires[k] <= expires'[k]
    BY <1>t, <2>1, <2>2 DEF Promises
  <2>4. /\ step'[o].until = hour + MappingTTL /\ UNCHANGED <<step[o].job, step[o].on>>
        /\ \A p \in Update \ {o} : step'[p] = step[p]
    BY <1>4, <1>t DEF Store, SongSteps
  <2>5. \A p \in Update : UNCHANGED KeyOf(p)
    BY <1>k, <2>4
  <2>6. step'[o].until <= expires'[k0]
    BY <1>t, <2>2, <2>4
  <2>7. \A p \in Update \ {o} : step[p].at = "show" => KeyOf(p) \in SongKey
    BY OwnKeys
  <2>8. ASSUME NEW p \in Update, step'[p].at = "show" PROVE step'[p].until <= expires'[KeyOf(p)]
    <3>1. CASE p = o
      BY <2>6, <3>1
    <3>2. CASE p # o
      <4>1. step[p].at = "show" /\ step'[p] = step[p] /\ KeyOf(p) \in SongKey
        BY <2>4, <2>7, <2>8, <3>2
      <4>2. step[p].until <= expires[KeyOf(p)] /\ expires[KeyOf(p)] <= expires'[KeyOf(p)]
        BY <2>3, <4>1 DEF Promises, At
      <4>3. step[p].until \in Nat /\ expires[KeyOf(p)] \in Nat /\ expires'[KeyOf(p)] \in Nat
        BY <1>t, <1>s, <4>1 DEF SongsTypeOK
      <4>4. QED BY <4>1, <4>2, <4>3
    <3>3. QED BY <3>1, <3>2
  <2>9. UNCHANGED <<hour, promised>>
    BY <1>4 DEF Store
  <2>10. \A k \in SongKey : promised[k] <= expires'[k]
    <3>1. \A k \in SongKey : promised[k] \in Nat /\ expires[k] \in Nat /\ expires'[k] \in Nat
      BY <1>t, <1>s DEF SongsTypeOK
    <3>2. QED BY <2>3, <3>1 DEF Promises
  <2>11. \A k \in SongKey : k[1] # "negative" => expires'[k] <= hour + MappingTTL
    BY <1>t, <2>2 DEF Promises
  <2> HIDE DEF k0
  <2>12. QED BY <2>5, <2>8, <2>9, <2>10, <2>11 DEF Promises, At
<1>5. ASSUME NEW o \in Update, Show(o) PROVE Promises'
  <2>1. SongMoves(o, {})
    BY <1>5 DEF Show, SongMoves
  <2>2. KeyOf(o) \in SongKey /\ KeyOf(o)[1] # "negative" /\ step[o].until <= expires[KeyOf(o)]
    BY <1>5, OwnKeys DEF Show, At, Promises
  <2>3. /\ \A k \in SongKey : promised'[k] <= expires[k]
        /\ \A k \in SongKey : k[1] = "negative" => promised'[k] = 0
    BY <1>5, <1>t, <2>2 DEF Show, Promises
  <2>4. UNCHANGED <<hour, expires>>
    BY <1>5 DEF Show, redisVars
  <2>5. \A p \in Update : step'[p].at = "show" =>
           step[p].at = "show" /\ UNCHANGED <<KeyOf(p), step[p].until>>
    BY <1>k, <1>m, <2>1
  <2>6. QED BY <2>3, <2>4, <2>5 DEF Promises, At
<1>6. ASSUME NEW o \in Update, Due(o), ~Recent(stamped) PROVE Promises'
  <2>1. \A p \in Update : step'[p].at = "show" =>
           step[p].at = "show" /\ UNCHANGED <<step[p].job, step[p].on, step[p].until>>
    BY <1>6, DueStep
  <2>2. QED BY <1>0, <1>6, <2>1 DEF Due, redisVars
<1>7. ASSUME NEW o \in Update, PageAdmins(o) \/ StampNotice(o) PROVE Promises'
  <2>1. SongMoves(o, {"stamp"})
    BY <1>7 DEF PageAdmins, StampNotice, SongMoves
  <2>2. QED BY <1>0, <1>7, <1>m, <2>1 DEF PageAdmins, StampNotice, redisVars
<1>8. CASE HourPasses
  <2>1. hour' = hour + 1 /\ UNCHANGED <<expires, promised, step>>
    BY <1>8 DEF HourPasses, redisVars
  <2>2. \A p \in Update : UNCHANGED <<KeyOf(p), step[p].until, step[p].at>>
    BY <1>k, <2>1
  <2>3. QED BY <1>t, <2>1, <2>2 DEF Promises, At
<1>9. CASE Minor
  BY <1>0, <1>9 DEF Minor, Aside
<1>10. QED BY <1>1, <1>2, <1>3, <1>4, <1>5, <1>6, <1>7, <1>8, <1>9, MinorSteps
LEMMA WindowsStep ==
  SongsTypeOK /\ StepShape /\ Windows /\ [SongsNext]_songVars => Windows'
<1> SUFFICES ASSUME SongsTypeOK, StepShape, Windows, [SongsNext]_songVars PROVE Windows'
  OBVIOUS
<1> USE SongsAssumption
<1>t. /\ counter \in [Counter -> [n : Nat, expires : Nat]] /\ hour \in Nat
      /\ step \in [Update -> SongSteps]
  BY DEF SongsTypeOK, SongSteps
<1>k. \A p \in Update : UNCHANGED <<step[p].job, step[p].fan>> => UNCHANGED CounterOf(p)
  BY DEF CounterOf
\* Those who are about to set a window stay, and the counters with them.
<1>0. ASSUME UNCHANGED <<counter, lost>>,
             \A p \in Update : step[p].at = "window" =>
               step'[p].at = "window" /\ UNCHANGED <<step[p].job, step[p].fan>>
      PROVE  Windows'
  BY <1>0, <1>k DEF Windows, At
<1>m. ASSUME NEW o \in Update, NEW places, SongMoves(o, places)
      PROVE  \A p \in Update \ {o} : step'[p] = step[p] /\ UNCHANGED CounterOf(p)
  BY <1>k, <1>m, AloneMoves
<1>1. ASSUME NEW o \in Update, Count(o) PROVE Windows'
  <2> DEFINE c0 == CounterOf(o)
             n0 == Reading(c0) + 1
  <2>1. SongMoves(o, {"window", Beyond(o)}) /\ c0 \in Counter
    BY <1>1, OwnKeys DEF Count, SongMoves, At, Beyond
  <2>2. /\ counter' = [counter EXCEPT ![c0] = [n |-> n0, expires |-> IF n0 = 1 THEN 0 ELSE @.expires]]
        /\ n0 = 1 => Turns(o, "window")
        /\ UNCHANGED lost
    BY <1>1 DEF Count
  <2>3. /\ Reading(c0) \in Nat
        /\ Reading(c0) # 0 => Reading(c0) = counter[c0].n
    BY <1>t, <2>1 DEF Reading
  <2> HIDE DEF c0, n0
  <2>4. \A c \in Counter \ {c0} : counter'[c] = counter[c]
    BY <1>t, <2>1, <2>2
  <2>5. counter'[c0].expires = IF n0 = 1 THEN 0 ELSE counter[c0].expires
    BY <1>t, <2>1, <2>2
  <2>6. \A p \in Update : p # o => step'[p] = step[p] /\ UNCHANGED CounterOf(p)
    BY <1>m, <2>1
  <2>7. step[o].at # "window"
    BY <1>1 DEF Count, At
  <2>8. ASSUME NEW c \in Counter, NEW p \in Update, At(p, "window"), CounterOf(p) = c
        PROVE  \E q \in Update : At(q, "window")' /\ CounterOf(q)' = c
    BY <2>6, <2>7, <2>8 DEF At
  <2>9. ASSUME NEW c \in Counter
        PROVE  \/ counter'[c].n = 0 \/ counter'[c].expires # 0 \/ c \in lost'
               \/ \E q \in Update : At(q, "window")' /\ CounterOf(q)' = c
    <3>1. CASE c # c0
      BY <2>2, <2>4, <2>8, <3>1 DEF Windows
    <3>2. CASE c = c0 /\ n0 = 1
      <4>1. step'[o] = [step[o] EXCEPT !.at = "window"]
        BY <1>t, <2>2, <3>2 DEF Turns
      <4>2. step'[o].at = "window" /\ UNCHANGED <<step[o].job, step[o].fan>>
        BY <1>t, <4>1 DEF SongSteps
      <4>3. CounterOf(o)' = c
        BY <1>k, <3>2, <4>2 DEF c0
      <4>4. QED BY <4>2, <4>3 DEF At
    <3>3. CASE c = c0 /\ n0 # 1
      <4>1. counter[c].n # 0
        BY <2>3, <3>3 DEF n0
      <4>2. counter'[c].expires = counter[c].expires
        BY <2>5, <3>3
      <4>3. QED BY <2>2, <2>8, <4>1, <4>2 DEF Windows
    <3>4. QED BY <3>1, <3>2, <3>3
  <2>10. QED BY <2>9 DEF Windows
<1>2. ASSUME NEW o \in Update, SetWindow(o) PROVE Windows'
  <2> DEFINE c0 == CounterOf(o)
  <2>1. SongMoves(o, {Beyond(o)}) /\ c0 \in Counter
    BY <1>2, OwnKeys DEF SetWindow, SongMoves, At
  <2>2. \A p \in Update : p # o => step'[p] = step[p] /\ UNCHANGED CounterOf(p)
    BY <1>m, <2>1
  <2>3. \/ UNCHANGED lost /\ counter' = [counter EXCEPT ![c0].expires = hour + Window]
        \/ UNCHANGED counter /\ lost' = lost \cup {c0}
    BY <1>2 DEF SetWindow
  <2>6. c0 = CounterOf(o)
    OBVIOUS
  <2> HIDE DEF c0
  <2>4. \A c \in Counter \ {c0} : UNCHANGED <<counter[c], (c \in lost)>>
    BY <1>t, <2>1, <2>3
  <2>5. counter'[c0].expires # 0 \/ c0 \in lost'
    BY <1>t, <2>1, <2>3
  <2>7. ASSUME NEW c \in Counter \ {c0}
        PROVE  \/ counter'[c].n = 0 \/ counter'[c].expires # 0 \/ c \in lost'
               \/ \E q \in Update : At(q, "window")' /\ CounterOf(q)' = c
    BY <2>2, <2>4, <2>6, <2>7 DEF Windows, At
  <2>8. QED BY <2>5, <2>7 DEF Windows
<1>3. ASSUME NEW o \in Update, Forgo(o) \/ Show(o) PROVE Windows'
  <2>1. SongMoves(o, {}) /\ step[o].at # "window" /\ UNCHANGED <<counter, lost>>
    BY <1>3 DEF Forgo, Show, SongMoves, At, redisVars
  <2>2. QED BY <1>0, <1>m, <2>1
<1>4. ASSUME NEW o \in Update, Store(o) PROVE Windows'
  BY <1>t, <1>0, <1>4 DEF Store, At
<1>6. ASSUME NEW o \in Update, Due(o), ~Recent(stamped) PROVE Windows'
  <2>1. \A p \in Update : step[p].at = "window" =>
           step'[p].at = "window" /\ UNCHANGED <<step[p].job, step[p].fan>>
    BY <1>6, DueStep
  <2>2. QED BY <1>0, <1>6, <2>1 DEF Due, redisVars
<1>7. ASSUME NEW o \in Update, PageAdmins(o) \/ StampNotice(o) PROVE Windows'
  <2>1. SongMoves(o, {"stamp"}) /\ step[o].at # "window" /\ UNCHANGED <<counter, lost>>
    BY <1>7 DEF PageAdmins, StampNotice, SongMoves, At, redisVars
  <2>2. QED BY <1>0, <1>m, <2>1
<1>8. CASE HourPasses
  BY <1>0, <1>8 DEF HourPasses, redisVars
<1>9. CASE Minor
  BY <1>0, <1>9 DEF Minor, Aside
<1>10. QED BY <1>1, <1>2, <1>3, <1>4, <1>6, <1>7, <1>8, <1>9, MinorSteps

LEMMA MarkersStep ==
  SongsTypeOK /\ StepShape /\ Markers /\ [SongsNext]_songVars => Markers'
<1> SUFFICES ASSUME SongsTypeOK, StepShape, Markers, [SongsNext]_songVars PROVE Markers'
  OBVIOUS
<1>t. expires \in [SongKey -> Nat]
  BY SongsAssumption DEF SongsTypeOK
<1>v. \A v \in Clip : <<"negative", v>> \in SongKey
  BY DEF SongKey
<1>0. ASSUME UNCHANGED <<expires, barren>> PROVE Markers'
  BY <1>0 DEF Markers
<1>1. ASSUME NEW o \in Update, Forgo(o) PROVE Markers'
  <2>1. step[o].on \in Clip /\ barren' = barren \cup {step[o].on}
    BY <1>1 DEF Forgo, At, StepShape
  <2>2. \A k \in SongKey : k # <<"negative", step[o].on>> => UNCHANGED expires[k]
    BY <1>1, <1>t DEF Forgo
  <2>3. ASSUME NEW v \in Clip, v # step[o].on PROVE UNCHANGED expires[<<"negative", v>>]
    BY <1>v, <2>2, <2>3
  <2>4. QED BY <2>1, <2>3 DEF Markers
<1>2. ASSUME NEW o \in Update, Store(o) PROVE Markers'
  <2>1. KeyOf(o) \in SongKey /\ KeyOf(o)[1] # "negative"
    BY <1>2, OwnKeys DEF Store, At
  <2>2. \A k \in SongKey : k # KeyOf(o) => UNCHANGED expires[k]
    BY <1>2, <1>t, <2>1 DEF Store
  <2>6. \A v : <<"negative", v>>[1] = "negative"
    OBVIOUS
  <2>7. \A v : <<"negative", v>> # KeyOf(o)
    BY <2>1, <2>6
  <2>3. \A v \in Clip : UNCHANGED expires[<<"negative", v>>]
    BY <1>v, <2>2, <2>7
  <2>4. UNCHANGED barren
    BY <1>2 DEF Store
  <2>5. QED BY <2>3, <2>4 DEF Markers
<1>3. QED BY <1>0, <1>1, <1>2, MinorSteps
          DEF Count, SetWindow, Show, Due, PageAdmins, StampNotice, HourPasses, Minor, redisVars

LEMMA PagesStep ==
  SongsTypeOK /\ StepShape /\ Pages /\ [SongsNext]_songVars => Pages'
<1> SUFFICES ASSUME SongsTypeOK, StepShape, Pages, [SongsNext]_songVars PROVE Pages'
  OBVIOUS
<1> USE SongsAssumption
<1>t. /\ hour \in Nat /\ stamped \in Nat /\ pagedAt \in Nat
      /\ step \in [Update -> SongSteps]
  BY DEF SongsTypeOK, SongSteps
<1>0. ASSUME UNCHANGED <<hasty, hour, stamped, pagedAt>>,
             \A p \in Update : \/ step'[p] = step[p]
                               \/ {step[p].at, step'[p].at} \cap {"page", "stamp"} = {}
      PROVE  Pages'
  <2>1. \A p \in Update : /\ At(p, "page")' <=> At(p, "page")
                          /\ At(p, "stamp")' <=> At(p, "stamp")
                          /\ At(p, "page") => step'[p] = step[p]
    BY <1>0 DEF At
  <2>2. Recent(stamped)' <=> Recent(stamped)
    BY <1>0 DEF Recent
  <2>3. QED BY <1>0, <2>1, <2>2 DEF Pages
<1>m. ASSUME NEW o \in Update, NEW places, places \cap {"page", "stamp"} = {}, SongMoves(o, places),
             step[o].at \notin {"page", "stamp"}
      PROVE  \A p \in Update : \/ step'[p] = step[p]
                               \/ {step[p].at, step'[p].at} \cap {"page", "stamp"} = {}
  BY <1>m, AloneMoves
<1>1. ASSUME NEW o \in Update, Count(o) \/ SetWindow(o) \/ Forgo(o) \/ Show(o) PROVE Pages'
  <2>1. SongMoves(o, {"window", Beyond(o)}) /\ Beyond(o) \in {"negative", "store"}
        /\ step[o].at \notin {"page", "stamp"}
    BY <1>1 DEF Count, SetWindow, Forgo, Show, SongMoves, Beyond, At
  <2>2. QED BY <1>0, <1>1, <1>m, <2>1 DEF Count, SetWindow, Forgo, Show, noticeVars
<1>2. ASSUME NEW o \in Update, Store(o) PROVE Pages'
  <2>1. \A p \in Update : p # o => step'[p] = step[p]
    BY <1>t, <1>2 DEF Store
  <2>2. step[o].at = "store" /\ step'[o].at = "show"
    BY <1>t, <1>2 DEF Store, At, SongSteps
  <2>3. QED BY <1>0, <1>2, <2>1, <2>2 DEF Store
<1>3. ASSUME NEW o \in Update, Due(o), ~Recent(stamped) PROVE Pages'
  <2>1. UNCHANGED <<hasty, hour, stamped, pagedAt>>
    BY <1>3 DEF Due, noticeVars
  <2>2. \A p \in Update : At(p, "stamp")' <=> At(p, "stamp")
    BY <1>3, DueStep DEF At
  <2>3. ASSUME NEW p \in Update, At(p, "page")', ~step'[p].blind
        PROVE  \A q \in Update \ {p} : ~At(q, "page")' /\ ~At(q, "stamp")'
    <3>1. CASE p = o
      <4>1. \A q \in Update : step[q].at \notin {"page", "stamp"}
        BY <1>3, <2>3, <3>1, DueStep
      <4>2. QED BY <1>3, <3>1, <4>1, DueStep DEF At
    <3>2. CASE p # o
      BY <1>3, <2>3, <3>2, DueStep DEF At
    <3>3. QED BY <3>1, <3>2
  <2>4. ~Recent(stamped)'
    BY <1>3, <2>1 DEF Recent
  <2>5. QED BY <2>1, <2>2, <2>3, <2>4 DEF Pages
<1>4. ASSUME NEW o \in Update, PageAdmins(o) PROVE Pages'
  <2>1. SongMoves(o, {"stamp"}) /\ At(o, "page") /\ ~At(o, "stamp")
    BY <1>4 DEF PageAdmins, SongMoves, At
  <2>2. /\ step'[o].at = "stamp" /\ \A p \in Update \ {o} : step'[p] = step[p]
    BY <1>4, <1>t DEF PageAdmins, Turns, SongSteps
  <2>3. UNCHANGED <<hour, stamped>> /\ pagedAt' = hour
        /\ hasty' = (hasty \/ (Recent(pagedAt) /\ ~step[o].blind))
    BY <1>4 DEF PageAdmins
  <2>4. ~step[o].blind => ~Recent(pagedAt)
    <3>1. ASSUME ~step[o].blind PROVE ~Recent(pagedAt)
      <4>1. ~Recent(stamped) /\ \A p \in Update : ~At(p, "stamp")
        BY <2>1, <3>1 DEF Pages
      <4>2. pagedAt <= stamped
        BY <4>1 DEF Pages
      <4>3. QED BY <1>t, <4>1, <4>2 DEF Recent
    <3>2. QED BY <3>1
  <2>5. ~hasty'
    BY <2>3, <2>4 DEF Pages
  <2>6. At(o, "stamp")'
    BY <2>2 DEF At
  <2>7. ASSUME NEW p \in Update, At(p, "page")', ~step'[p].blind PROVE FALSE
    <3>1. p # o /\ At(p, "page") /\ ~step[p].blind
      BY <2>2, <2>7 DEF At
    <3>2. QED BY <2>1, <3>1 DEF Pages
  <2>8. pagedAt' <= hour' /\ stamped' <= hour'
    BY <1>t, <2>3 DEF Pages
  <2>9. QED BY <2>5, <2>6, <2>7, <2>8 DEF Pages
<1>5. ASSUME NEW o \in Update, StampNotice(o) PROVE Pages'
  <2>1. At(o, "stamp") /\ ~At(o, "page")
    BY <1>5 DEF StampNotice, At
  <2>2. /\ step'[o].at = "idle" /\ \A p \in Update \ {o} : step'[p] = step[p]
    BY <1>5, <1>t DEF StampNotice, Ends, Asleep
  <2>3. UNCHANGED <<hour, hasty, pagedAt>> /\ stamped' = hour
    BY <1>5 DEF StampNotice
  <2>4. ASSUME NEW p \in Update, At(p, "page")', ~step'[p].blind PROVE FALSE
    <3>1. p # o /\ At(p, "page") /\ ~step[p].blind
      BY <2>2, <2>4 DEF At
    <3>2. QED BY <2>1, <3>1 DEF Pages
  <2>5. pagedAt' <= stamped' /\ pagedAt' <= hour' /\ stamped' <= hour' /\ ~hasty'
    BY <1>t, <2>3 DEF Pages
  <2>6. QED BY <2>4, <2>5 DEF Pages
<1>6. CASE HourPasses
  <2>1. hour' = hour + 1 /\ UNCHANGED <<step, hasty, stamped, pagedAt>>
    BY <1>6 DEF HourPasses, noticeVars
  <2>2. ~Recent(stamped) => ~Recent(stamped)'
    BY <1>t, <2>1 DEF Recent
  <2>3. \A p \in Update : UNCHANGED <<At(p, "page"), At(p, "stamp")>>
    BY <2>1 DEF At
  <2>4. pagedAt' <= hour' /\ stamped' <= hour'
    BY <1>t, <2>1 DEF Pages
  <2>5. QED BY <2>1, <2>2, <2>3, <2>4 DEF Pages
<1>7. CASE Minor
  BY <1>0, <1>7 DEF Minor, Aside
<1>8. QED BY <1>1, <1>2, <1>3, <1>4, <1>5, <1>6, <1>7, MinorSteps

\* A shown button leads somewhere, a refusal ends by itself, a song is only
\* muted for a reason, and a spell pages once (services/song_id.py, inline.py).
THEOREM SongsAreKept == SongsSpec => []SongsKept
<1>1. SongsInv /\ [SongsNext]_songVars => SongsInv'
  BY SongsTypeStep, PromisesStep, WindowsStep, MarkersStep, PagesStep DEF SongsInv
<1>2. SongsInv => SongsKept
  <2> SUFFICES ASSUME SongsInv PROVE SongsKept
    OBVIOUS
  <2> USE SongsAssumption
  <2>t. /\ hour \in Nat /\ hour > 0 /\ expires \in [SongKey -> Nat] /\ promised \in [SongKey -> Nat]
        /\ counter \in [Counter -> [n : Nat, expires : Nat]]
    BY DEF SongsInv, SongsTypeOK
  <2>1. ButtonsLead
    BY DEF SongsInv, Promises, ButtonsLead
  <2>2. ASSUME NEW c \in Counter, Reading(c) > Ration
        PROVE  \/ counter[c].expires > hour \/ c \in lost
               \/ \E o \in Update : At(o, "window") /\ CounterOf(o) = c
    <3>1. counter[c].n # 0 /\ (counter[c].expires > hour \/ counter[c].expires = 0)
      BY <2>t, <2>2 DEF Reading
    <3>2. QED BY <3>1 DEF SongsInv, Windows
  <2>3. RefusedForAWhile
    BY <2>2 DEF RefusedForAWhile
  <2>4. \A v \in Clip : <<"negative", v>> \in SongKey
    BY DEF SongKey
  <2>5. MutedForReason
    BY <2>t, <2>4 DEF SongsInv, Markers, MutedForReason, Live
  <2>6. QED BY <2>1, <2>3, <2>5 DEF SongsInv, Pages, PagedOnce, SongsKept
<1>3. QED BY <1>1, <1>2, InitSongs, PTL DEF SongsSpec

LEMMA SongsTyped == SongsSpec => []SongsTypeOK
<1>1. SongsInv => SongsTypeOK
  BY DEF SongsInv
<1>2. SongsInv /\ [SongsNext]_songVars => SongsInv'
  BY SongsTypeStep, PromisesStep, WindowsStep, MarkersStep, PagesStep DEF SongsInv
<1>3. QED BY <1>1, <1>2, InitSongs, PTL DEF SongsSpec

-----------------------------------------------------------------------------
(***************************************************************************)
(* MenuHonest for any links, ladders and overlapping updates. What is      *)
(* drawn is never forgotten, so whatever a handler carries, a record       *)
(* offers or a button remembers stays something the user was shown for     *)
(* that link.                                                              *)
(***************************************************************************)

USE MenuAssumption

Frame == [at : Await, url : Maybe, tier : Tier, verdict : Maybe,
          ask : {"none", "cached", "ladder", "again", "auto", "full"},
          kind : {"none", "tap", "link", "solo", "probe", "retry"}]

\* A request that some question drew, or that is for the sound alone.
QuestionAsked(u, t, d) == u \in Link /\ (t = "sound" \/ <<u, t>> \in d)

\* What a handler knows at each of its awaits.
Knows(f, d) ==
  /\ f.at \in {"look", "probe", "state", "data", "ack"} => f.url \in Link
  /\ f.at = "look" => f.kind = "link" /\ f.tier = "best"
  /\ f.at \in {"state", "data"} => /\ f.ask # "none"
                                   /\ f.ask = "ladder" => LadderOf[f.url] # <<>>
  /\ f.at = "clear" => f.url = NoLink \/ QuestionAsked(f.url, f.tier, d)
  /\ f.at \in {"submit", "cache", "quota", "queue", "forget"} => QuestionAsked(f.url, f.tier, d)

Frames == \A h \in Tapper : Knows(frames[h], drawn)

\* The record offers what was drawn for its link.
Record == data.url # NoLink => \A t \in data.offered : QuestionAsked(data.url, t, drawn)

\* A live button was never pressed, and its task was asked for.
Buttoned == /\ DOMAIN keys \subseteq 1..issued
            /\ \A k \in DOMAIN keys : QuestionAsked(keys[k].url, keys[k].tier, drawn) /\ pressed[k] = 0
            /\ \A k \in 1..MaxKeys : pressed[k] <= 1 /\ (k > issued => pressed[k] = 0)

Looking(f) == f.kind = "probe" /\ f.at \in {"probe", "state", "data"}

\* A link a retry looks up is marked, by that retry alone.
Lookups == \A h \in Tapper : Looking(frames[h]) =>
             /\ frames[h].url \in probing
             /\ \A g \in Tapper \ {h} : Looking(frames[g]) => frames[g].url # frames[h].url

MenuInv == MenuTypeOK /\ Frames /\ Record /\ Buttoned /\ RungDrawn /\ Lookups

LEMMA RungOfLink ==
  ASSUME NEW u \in Link
  PROVE  /\ Range(LadderOf[u]) \subseteq Rung /\ Rung \subseteq Tier
         /\ LadderOf[u] # <<>> => /\ Head(LadderOf[u]) \in Range(LadderOf[u])
                                  /\ Range(Tail(LadderOf[u])) \subseteq Range(LadderOf[u])
<1>1. Range(LadderOf[u]) \subseteq Rung /\ Rung \subseteq Tier
  BY DEF Rung, Tier
<1>2. PICK S : LadderOf[u] \in Seq(S)
  OBVIOUS
<1>3. ASSUME LadderOf[u] # <<>>
      PROVE  /\ Head(LadderOf[u]) \in Range(LadderOf[u])
             /\ Range(Tail(LadderOf[u])) \subseteq Range(LadderOf[u])
  <2>1. Len(LadderOf[u]) \in Nat \ {0} /\ DOMAIN LadderOf[u] = 1..Len(LadderOf[u])
    BY <1>2, <1>3
  <2>2. Head(LadderOf[u]) = LadderOf[u][1] /\ 1 \in DOMAIN LadderOf[u]
    BY <1>2, <1>3, <2>1
  <2>3. /\ DOMAIN Tail(LadderOf[u]) = 1..(Len(LadderOf[u]) - 1)
        /\ \A i \in 1..(Len(LadderOf[u]) - 1) : Tail(LadderOf[u])[i] = LadderOf[u][i + 1]
    BY <1>2, <1>3, <2>1
  <2>4. \A i \in 1..(Len(LadderOf[u]) - 1) : i + 1 \in DOMAIN LadderOf[u]
    BY <2>1
  <2>5. QED BY <2>2, <2>3, <2>4 DEF Range
<1>4. QED BY <1>1, <1>3

\* The frame of one handler changes: what is left to show.
LEMMA FrameStep ==
  ASSUME MenuInv, NEW h \in Tapper, NEW f \in Frame, frames' = [frames EXCEPT ![h] = f],
         drawn \subseteq drawn', Knows(f, drawn'),
         \A g \in Tapper \ {h} : Looking(frames[g]) => frames[g].url \in probing',
         Looking(f) => /\ f.url \in probing'
                       /\ f.url \notin probing \/ (Looking(frames[h]) /\ f.url = frames[h].url)
  PROVE  frames' \in [Tapper -> Frame] /\ Frames' /\ Lookups'
<1>1. frames \in [Tapper -> Frame]
  BY DEF MenuInv, MenuTypeOK, Frame
<1>2. frames' \in [Tapper -> Frame] /\ frames'[h] = f /\ \A g \in Tapper \ {h} : frames'[g] = frames[g]
  BY <1>1
<1>3. Frames'
  BY <1>2 DEF MenuInv, Frames, Knows, QuestionAsked
<1>4. \A g \in Tapper \ {h} : Looking(frames[g]) => frames[g].url \in probing
  BY DEF MenuInv, Lookups
<1>5. Looking(f) => \A g \in Tapper \ {h} : Looking(frames[g]) => frames[g].url # f.url
  BY <1>4 DEF MenuInv, Lookups
<1>6. Lookups'
  <2> SUFFICES ASSUME NEW k \in Tapper, Looking(frames'[k])
               PROVE  /\ frames'[k].url \in probing'
                      /\ \A g \in Tapper \ {k} : Looking(frames'[g]) => frames'[g].url # frames'[k].url
    BY DEF Lookups, Looking
  <2>1. CASE k = h
    BY <1>2, <1>5, <2>1
  <2>2. CASE k # h
    BY <1>2, <1>5, <2>2 DEF MenuInv, Lookups
  <2>3. QED BY <2>1, <2>2
<1>7. QED BY <1>2, <1>3, <1>6
\* Nothing but the frames moves.
LEMMA FrameOnly ==
  ASSUME MenuInv, NEW h \in Tapper, NEW f \in Frame, frames' = [frames EXCEPT ![h] = f],
         UNCHANGED <<waiting, data, probing, recent, keys, filed, air, drawn, pressed, issued>>,
         updates' \in 0..MaxUpdates, Knows(f, drawn), Looking(f) => Looking(frames[h]) /\ f.url = frames[h].url
  PROVE  MenuInv'
<1>1. \A g \in Tapper : Looking(frames[g]) => frames[g].url \in probing
  BY DEF MenuInv, Lookups
<1>2. frames' \in [Tapper -> Frame] /\ Frames' /\ Lookups'
  BY <1>1, FrameStep
<1>3. MenuTypeOK'
  BY <1>2 DEF MenuInv, MenuTypeOK, Frame, Job
<1>4. QED BY <1>2, <1>3 DEF MenuInv, Record, Buttoned, RungDrawn

LEMMA InitMenu == MenuInit => MenuInv
<1> SUFFICES ASSUME MenuInit PROVE MenuInv
  OBVIOUS
<1>1. "best" \in Tier /\ NoQuestion \in [url : Maybe, offered : SUBSET Tier, sound : {"unknown", "no", "yes"},
                                         ladder : BOOLEAN, verdict : Maybe] /\ Rest \in Frame
  BY DEF Tier, NoQuestion, Maybe, Rest, Frame, Await
<1>2. filed \subseteq Request
  BY <1>1 DEF MenuInit, Request
<1>3. DOMAIN keys = {} /\ issued = 0 /\ pressed = [k \in 1..MaxKeys |-> 0]
  BY DEF MenuInit
<1>n. 0 \in 0..MaxUpdates /\ 0 \in 0..MaxKeys
  OBVIOUS
<1>f. frames \in [Tapper -> Frame]
  BY <1>1 DEF MenuInit
<1>o. waiting \in BOOLEAN /\ recent = Nothing /\ pressed \in [1..MaxKeys -> Nat]
  BY DEF MenuInit
<1>4. MenuTypeOK
  BY <1>1, <1>2, <1>3, <1>n, <1>f, <1>o DEF MenuInit, MenuTypeOK, Frame
<1>5. \A h \in Tapper : frames[h].at = "idle"
  BY DEF MenuInit, Rest
<1>6. Frames /\ Lookups
  BY <1>5 DEF Frames, Knows, Lookups, Looking
<1>7. Record /\ RungDrawn
  BY DEF MenuInit, Record, RungDrawn, NoQuestion
<1>8. Buttoned
  BY <1>3 DEF Buttoned
<1>9. QED BY <1>4, <1>6, <1>7, <1>8 DEF MenuInv

LEMMA Framed == ASSUME MenuInv, NEW h \in Tapper
  PROVE /\ frames[h] \in Frame /\ Knows(frames[h], drawn)
        /\ \A at \in Await : /\ [frames[h] EXCEPT !.at = at] \in Frame
                             /\ [frames EXCEPT ![h].at = at] = [frames EXCEPT ![h] = [frames[h] EXCEPT !.at = at]]
        /\ Rest \in Frame /\ Knows(Rest, drawn) /\ ~Looking(Rest)
<1>1. frames[h] \in Frame /\ Knows(frames[h], drawn) /\ frames \in [Tapper -> Frame]
  BY DEF MenuInv, MenuTypeOK, Frame, Frames
<1>2. Rest \in Frame /\ Knows(Rest, drawn) /\ ~Looking(Rest)
  BY DEF Rest, Frame, Await, Tier, Maybe, Knows, Looking
<1>3. ASSUME NEW at \in Await PROVE [frames[h] EXCEPT !.at = at] \in Frame
  BY <1>1 DEF Frame
<1>4. ASSUME NEW at \in Await
      PROVE  [frames EXCEPT ![h].at = at] = [frames EXCEPT ![h] = [frames[h] EXCEPT !.at = at]]
  BY <1>1
<1>5. QED BY <1>1, <1>2, <1>3, <1>4

\* The handlers that only look, are turned away, or arrive.
LEMMA QuietMoves ==
  ASSUME MenuInv, NEW h \in Tapper,
         \/ TurnedAway(h) \/ ProbeBegins(h) \/ ProbeDropped(h) \/ TapDropped(h) \/ Replayed(h)
         \/ NotCached(h) \/ QuotaSpent(h) \/ PreflightPasses(h) \/ AskCached(h) \/ ProbeAnswers(h)
         \/ ProbeRead(h) \/ TapRead(h) \/ ProbeTapped(h)
         \/ (\E u \in Link : LinkArrives(h, u)) \/ (\E t \in Tier : Tapped(h, t))
  PROVE  MenuInv'
<1>1. frames[h] \in Frame /\ Knows(frames[h], drawn) /\ Rest \in Frame /\ Knows(Rest, drawn) /\ ~Looking(Rest)
  BY Framed
<1>2. updates \in 0..MaxUpdates /\ (updates < MaxUpdates => updates + 1 \in 0..MaxUpdates)
      /\ data.url \in Maybe /\ data.verdict \in Maybe
  BY DEF MenuInv, MenuTypeOK
<1>d. CASE Done(h) /\ UNCHANGED <<fsm, probing, store, drawn, updates>>
  BY <1>1, <1>2, <1>d, FrameOnly DEF Done, fsm, store
<1>m. ASSUME NEW at \in Await, Moves(h, at), UNCHANGED <<fsm, probing, store, drawn, updates>>,
             Knows([frames[h] EXCEPT !.at = at], drawn), ~Looking([frames[h] EXCEPT !.at = at])
      PROVE  MenuInv'
  BY <1>1, <1>2, <1>m, Framed, FrameOnly DEF Moves, fsm, store
<1>f. ASSUME NEW f \in Frame, frames' = [frames EXCEPT ![h] = f], UNCHANGED <<fsm, probing, store, drawn, updates>>,
             Knows(f, drawn), Looking(f) => Looking(frames[h]) /\ f.url = frames[h].url
      PROVE  MenuInv'
  BY <1>2, <1>f, FrameOnly DEF fsm, store
<1>a. ASSUME NEW f \in Frame, Arrives(h, f), UNCHANGED <<fsm, probing, store, drawn>>, Knows(f, drawn), ~Looking(f)
      PROVE  MenuInv'
  BY <1>2, <1>a, FrameOnly DEF Arrives, fsm, store
<1>1a. CASE TurnedAway(h) \/ ProbeDropped(h) \/ TapDropped(h) \/ Replayed(h) \/ QuotaSpent(h)
  BY <1>1a, <1>d DEF TurnedAway, ProbeDropped, TapDropped, Replayed, QuotaSpent
<1>10. CASE NotCached(h)
  <2>1. "quota" \in Await /\ Knows([frames[h] EXCEPT !.at = "quota"], drawn) /\ ~Looking([frames[h] EXCEPT !.at = "quota"])
    BY <1>1, <1>10 DEF NotCached, Knows, Looking, Await, Frame
  <2>2. QED BY <1>m, <1>10, <2>1 DEF NotCached
<1>11. CASE PreflightPasses(h)
  <2>1. "queue" \in Await /\ Knows([frames[h] EXCEPT !.at = "queue"], drawn) /\ ~Looking([frames[h] EXCEPT !.at = "queue"])
    BY <1>1, <1>11 DEF PreflightPasses, Knows, Looking, Await, Frame
  <2>2. QED BY <1>m, <1>11, <2>1 DEF PreflightPasses
<1>12. CASE ProbeBegins(h)
  <2>1. "probe" \in Await /\ Knows([frames[h] EXCEPT !.at = "probe"], drawn) /\ ~Looking([frames[h] EXCEPT !.at = "probe"])
    BY <1>1, <1>12 DEF ProbeBegins, Knows, Looking, Await, Frame
  <2>2. QED BY <1>m, <1>12, <2>1 DEF ProbeBegins
<1>13. CASE AskCached(h)
  <2>1. PICK ask \in {"cached", "ladder"} :
          /\ ask = "ladder" => LadderOf[frames[h].url] # <<>>
          /\ frames' = [frames EXCEPT ![h].at = "state", ![h].ask = ask]
    BY <1>13 DEF AskCached
  <2> DEFINE f == [frames[h] EXCEPT !.at = "state", !.ask = ask]
  <2>2. f \in Frame /\ Knows(f, drawn) /\ ~Looking(f)
    BY <1>1, <1>13, <2>1 DEF AskCached, Knows, Looking, Await, Frame
  <2>3. frames' = [frames EXCEPT ![h] = f]
    BY <2>1 DEF MenuInv, MenuTypeOK
  <2>4. QED BY <1>f, <1>13, <2>2, <2>3 DEF AskCached
<1>14. CASE ProbeAnswers(h)
  <2>1. PICK ask \in {"full", "again", "auto"} :
          frames' = [frames EXCEPT ![h].at = "state", ![h].ask = ask]
    BY <1>14 DEF ProbeAnswers
  <2> DEFINE f == [frames[h] EXCEPT !.at = "state", !.ask = ask]
  <2>2. f \in Frame /\ Knows(f, drawn) /\ (Looking(f) => Looking(frames[h]) /\ f.url = frames[h].url)
    BY <1>1, <1>14, <2>1 DEF ProbeAnswers, Knows, Looking, Await, Frame
  <2>3. frames' = [frames EXCEPT ![h] = f]
    BY <2>1 DEF MenuInv, MenuTypeOK
  <2>4. QED BY <1>f, <1>14, <2>2, <2>3 DEF ProbeAnswers
<1>15. CASE ProbeRead(h)
  <2> DEFINE at == IF data.url = NoLink THEN "clear" ELSE "ack"
             f == [frames[h] EXCEPT !.url = data.url, !.at = at]
  <2>1. at \in Await /\ (at = "ack" => data.url \in Link)
    BY <1>2 DEF Await, Maybe
  <2>2. f \in Frame /\ f.url = data.url /\ f.at = at /\ f.tier = frames[h].tier
    BY <1>1, <1>2, <2>1 DEF Frame
  <2>3. frames' = [frames EXCEPT ![h] = f]
    BY <1>15 DEF ProbeRead, MenuInv, MenuTypeOK
  <2> HIDE DEF f
  <2>4. Knows(f, drawn) /\ ~Looking(f)
    BY <2>1, <2>2 DEF Knows, Looking
  <2>5. QED BY <1>f, <1>15, <2>2, <2>3, <2>4 DEF ProbeRead
<1>16. CASE TapRead(h)
  <2>1. CASE data.url = NoLink \/ Offered(data, frames[h].tier)
    <3> DEFINE f == [frames[h] EXCEPT !.at = "clear", !.url = data.url, !.verdict = data.verdict]
    <3>1. data.url # NoLink => QuestionAsked(data.url, frames[h].tier, drawn)
      BY <1>2, <2>1 DEF MenuInv, Record, Offered, QuestionAsked, Maybe
    <3>2. f \in Frame /\ Knows(f, drawn) /\ ~Looking(f)
      BY <1>1, <1>2, <3>1 DEF Knows, Looking, Frame, Await
    <3>3. frames' = [frames EXCEPT ![h] = f]
      BY <1>16, <2>1 DEF TapRead, MenuInv, MenuTypeOK
    <3>4. QED BY <1>f, <1>16, <3>2, <3>3 DEF TapRead
  <2>2. CASE ~(data.url = NoLink \/ Offered(data, frames[h].tier))
    BY <1>d, <1>16, <2>2 DEF TapRead
  <2>3. QED BY <2>1, <2>2
<1>17. CASE ProbeTapped(h)
  <2>1. [Rest EXCEPT !.at = "reread", !.kind = "probe"] \in Frame
        /\ Knows([Rest EXCEPT !.at = "reread", !.kind = "probe"], drawn)
        /\ ~Looking([Rest EXCEPT !.at = "reread", !.kind = "probe"])
    BY DEF Rest, Frame, Await, Tier, Maybe, Knows, Looking
  <2>2. QED BY <1>a, <1>17, <2>1 DEF ProbeTapped
<1>18. ASSUME NEW u \in Link, LinkArrives(h, u) PROVE MenuInv'
  <2>1. [Rest EXCEPT !.at = "look", !.url = u, !.kind = "link"] \in Frame
        /\ Knows([Rest EXCEPT !.at = "look", !.url = u, !.kind = "link"], drawn)
        /\ ~Looking([Rest EXCEPT !.at = "look", !.url = u, !.kind = "link"])
    BY DEF Rest, Frame, Await, Tier, Maybe, Knows, Looking
  <2>2. QED BY <1>a, <1>18, <2>1 DEF LinkArrives
<1>19. ASSUME NEW t \in Tier, Tapped(h, t) PROVE MenuInv'
  <2>1. [Rest EXCEPT !.at = "read", !.tier = t, !.kind = "tap"] \in Frame
        /\ Knows([Rest EXCEPT !.at = "read", !.tier = t, !.kind = "tap"], drawn)
        /\ ~Looking([Rest EXCEPT !.at = "read", !.tier = t, !.kind = "tap"])
    BY DEF Rest, Frame, Await, Tier, Maybe, Knows, Looking
  <2>2. QED BY <1>a, <1>19, <2>1 DEF Tapped
<1>20. QED BY <1>1a, <1>10, <1>11, <1>12, <1>13, <1>14, <1>15, <1>16, <1>17, <1>18, <1>19

\* A question that is drawn records what it draws.
LEMMA QuestionDrawn ==
  ASSUME MenuInv, NEW u \in Link, NEW ask \in {"cached", "ladder", "again", "auto", "full"},
         ask = "ladder" => LadderOf[u] # <<>>
  PROVE  LET q == Question(u, ask) IN
         /\ q \in [url : Maybe, offered : SUBSET Tier, sound : {"unknown", "no", "yes"},
                   ladder : BOOLEAN, verdict : Maybe]
         /\ q.url = u
         /\ \A t \in q.offered : t # "sound" => t \in Buttons(q, ask)
         /\ Buttons(q, ask) \subseteq Tier
<1>1. data \in [url : Maybe, offered : SUBSET Tier, sound : {"unknown", "no", "yes"},
                ladder : BOOLEAN, verdict : Maybe]
      /\ filed \subseteq Request
  BY DEF MenuInv, MenuTypeOK
<1>2. /\ Range(LadderOf[u]) \subseteq Tier
      /\ ask = "ladder" => Ladder(u) \subseteq Tier
      /\ {r[2] : r \in MenuRows(u)} \ {"sound"} \subseteq Tier /\ "best" \in Tier
      /\ Stored(u) \in {"unknown", "no", "yes"} /\ u \in Maybe
  <2>1. Range(LadderOf[u]) \subseteq Tier /\ "best" \in Tier /\ u \in Maybe
    BY RungOfLink DEF Tier, Maybe
  <2>2. ask = "ladder" => Ladder(u) \subseteq Tier
    BY <2>1, RungOfLink DEF Ladder
  <2>3. \A r \in MenuRows(u) : r[2] \in Tier
    BY <1>1 DEF MenuRows, Request
  <2>4. QED BY <2>1, <2>2, <2>3 DEF Stored
<1>p. /\ Probed(u).url = u /\ Probed(u).offered = Range(LadderOf[u])
      /\ Probed(u) \in [url : Maybe, offered : SUBSET Tier, sound : {"unknown", "no", "yes"},
                        ladder : BOOLEAN, verdict : Maybe]
  BY <1>2 DEF Probed, Maybe
<1>3. Question(u, ask) \in [url : Maybe, offered : SUBSET Tier, sound : {"unknown", "no", "yes"},
                            ladder : BOOLEAN, verdict : Maybe] /\ Question(u, ask).url = u
  <2>1. CASE ask = "full"
    BY <1>p, <2>1 DEF Question
  <2>2. CASE ask = "ladder"
    BY <1>1, <1>2, <2>2 DEF Question
  <2>3. CASE ask = "cached"
    BY <1>1, <1>2, <2>3 DEF Question
  <2>4. CASE ask \in {"again", "auto"}
    BY <1>1, <1>2, <2>4 DEF Question
  <2>5. QED BY <2>1, <2>2, <2>3, <2>4
<1>4. \A t \in Question(u, ask).offered : t # "sound" => t \in Buttons(Question(u, ask), ask)
  BY <1>3 DEF Buttons, Offered
<1>5. Buttons(Question(u, ask), ask) \subseteq Tier
  BY <1>3 DEF Buttons
<1>6. QED BY <1>3, <1>4, <1>5
LEMMA MenuStep == MenuInv /\ [MenuNext]_menuVars => MenuInv'
<1> SUFFICES ASSUME MenuInv, [MenuNext]_menuVars PROVE MenuInv'
  OBVIOUS
<1>t. /\ frames \in [Tapper -> Frame] /\ data.url \in Maybe
      /\ updates \in 0..MaxUpdates /\ (updates < MaxUpdates => updates + 1 \in 0..MaxUpdates)
      /\ issued \in 0..MaxKeys /\ pressed \in [1..MaxKeys -> Nat] /\ air \subseteq Job /\ filed \subseteq Request
      /\ drawn \subseteq Request /\ recent \in (Maybe \X Tier) \cup {Nothing}
      /\ \A k \in DOMAIN keys : keys[k] \in Job /\ k \in 1..MaxKeys
  BY DEF MenuInv, MenuTypeOK, Frame
<1>f. \A h \in Tapper : /\ frames[h] \in Frame /\ Knows(frames[h], drawn)
                        /\ Looking(frames[h]) => frames[h].url \in probing
  BY DEF MenuInv, MenuTypeOK, Frame, Frames, Lookups
<1>r. Rest \in Frame /\ ~Looking(Rest) /\ \A d : Knows(Rest, d)
  BY DEF Rest, Frame, Await, Tier, Maybe, Knows, Looking
\* The steps that change something beside the frame.
<1>1. ASSUME NEW h \in Tapper, AutoSend(h) PROVE MenuInv'
  <2> DEFINE f == [frames[h] EXCEPT !.at = "clear", !.kind = "solo"]
  <2>0. frames[h] \in Frame /\ frames[h].at = "look" /\ frames[h].url \in Link
    BY <1>1, <1>f DEF AutoSend, Knows
  <2>1. f \in Frame /\ frames' = [frames EXCEPT ![h] = f] /\ ~Looking(f) /\ f.at = "clear" /\ f.url = frames[h].url
        /\ f.tier = frames[h].tier
    BY <1>1, <1>t, <2>0 DEF AutoSend, Frame, Await, Looking
  <2>2. drawn' = drawn \cup {<<f.url, "best">>} /\ drawn' \subseteq Request /\ f.tier = "best"
    BY <1>1, <1>t, <1>f, <2>0, <2>1 DEF AutoSend, Knows, Request, Tier
  <2>3. Knows(f, drawn') /\ probing' = probing
    BY <1>1, <2>0, <2>1, <2>2 DEF AutoSend, Knows, QuestionAsked
  <2>4. frames' \in [Tapper -> Frame] /\ Frames' /\ Lookups'
    BY <1>f, <2>1, <2>2, <2>3, FrameStep
  <2>5. MenuTypeOK'
    BY <1>1, <2>2, <2>4 DEF AutoSend, fsm, store, MenuInv, MenuTypeOK, Frame, Job
  <2>6. Record' /\ Buttoned' /\ RungDrawn'
    BY <1>1, <2>2 DEF AutoSend, fsm, store, MenuInv, Record, Buttoned, RungDrawn, QuestionAsked
  <2>7. QED BY <2>4, <2>5, <2>6 DEF MenuInv
<1>2. ASSUME NEW h \in Tapper, Ask(h) PROVE MenuInv'
  <2> DEFINE f == [frames[h] EXCEPT !.at = "data"]
  <2>0. frames[h] \in Frame /\ frames[h].at = "state" /\ Knows(frames[h], drawn)
    BY <1>2, <1>f DEF Ask
  <2>1. f \in Frame /\ frames' = [frames EXCEPT ![h] = f] /\ Knows(f, drawn)
        /\ (Looking(f) => Looking(frames[h]) /\ f.url = frames[h].url)
    BY <1>2, <1>t, <2>0 DEF Ask, Moves, Frame, Await, Knows, Looking
  <2> HIDE DEF f
  <2>2. UNCHANGED <<data, probing, recent, keys, filed, air, drawn, pressed, updates, issued>> /\ waiting' = TRUE
    BY <1>2 DEF Ask, store
  <2>3. frames' \in [Tapper -> Frame] /\ Frames' /\ Lookups'
    BY <1>f, <2>1, <2>2, FrameStep
  <2>4. MenuTypeOK'
    BY <2>2, <2>3 DEF MenuInv, MenuTypeOK, Frame, Job
  <2>5. QED BY <2>2, <2>3, <2>4 DEF MenuInv, Record, Buttoned, RungDrawn
<1>3. ASSUME NEW h \in Tapper, AskLink(h) PROVE MenuInv'
  <2> DEFINE u == frames[h].url
             ask == frames[h].ask
             q == Question(u, ask)
  <2>0. frames[h].at = "data" /\ u \in Link /\ ask \in {"cached", "ladder", "again", "auto", "full"}
        /\ (ask = "ladder" => LadderOf[u] # <<>>)
    BY <1>3, <1>f DEF AskLink, Knows, Frame
  <2>1. /\ q \in [url : Maybe, offered : SUBSET Tier, sound : {"unknown", "no", "yes"},
                  ladder : BOOLEAN, verdict : Maybe]
        /\ q.url = u /\ Buttons(q, ask) \subseteq Tier
        /\ \A t \in q.offered : t # "sound" => t \in Buttons(q, ask)
    BY <2>0, QuestionDrawn
  <2>2. /\ data' = q /\ drawn' = drawn \cup ({u} \X Buttons(q, ask))
        /\ probing' = (IF frames[h].kind = "probe" THEN probing \ {u} ELSE probing)
        /\ frames' = [frames EXCEPT ![h] = Rest]
        /\ UNCHANGED <<waiting, recent, keys, filed, air, pressed, updates, issued>>
    BY <1>3 DEF AskLink, Done, store
  <2> HIDE DEF q
  <2>3. drawn' \subseteq Request /\ drawn \subseteq drawn'
    BY <1>t, <2>0, <2>1, <2>2 DEF Request
  <2>4. \A g \in Tapper \ {h} : Looking(frames[g]) => frames[g].url \in probing'
    <3> SUFFICES ASSUME NEW g \in Tapper \ {h}, Looking(frames[g]) PROVE frames[g].url \in probing'
      OBVIOUS
    <3>1. frames[g].url \in probing
      BY <1>f
    <3>2. frames[h].kind = "probe" => frames[g].url # u
      BY <2>0 DEF MenuInv, Lookups, Looking
    <3>3. QED BY <2>2, <3>1, <3>2
  <2>5. frames' \in [Tapper -> Frame] /\ Frames' /\ Lookups'
    BY <1>r, <2>2, <2>3, <2>4, FrameStep
  <2>6. probing' \subseteq Link
    BY <2>2 DEF MenuInv, MenuTypeOK
  <2>7. MenuTypeOK'
    BY <2>1, <2>2, <2>3, <2>5, <2>6 DEF MenuInv, MenuTypeOK, Frame, Job
  <2>8. Record'
    BY <2>0, <2>1, <2>2 DEF Record, QuestionAsked
  <2>9. Buttoned' /\ RungDrawn'
    BY <2>2, <2>3 DEF MenuInv, Buttoned, RungDrawn, QuestionAsked
  <2>10. QED BY <2>5, <2>7, <2>8, <2>9 DEF MenuInv
<1>4. ASSUME NEW h \in Tapper, ProbeAgain(h) PROVE MenuInv'
  <2> DEFINE f == [frames[h] EXCEPT !.at = "probe"]
  <2>0. frames[h] \in Frame /\ frames[h].at = "ack" /\ Knows(frames[h], drawn) /\ frames[h].url \in Link
        /\ frames[h].url \notin probing
    BY <1>4, <1>f DEF ProbeAgain, Knows
  <2>1. f \in Frame /\ frames' = [frames EXCEPT ![h] = f] /\ Knows(f, drawn) /\ f.url = frames[h].url
    BY <1>4, <1>t, <2>0 DEF ProbeAgain, Moves, Frame, Await, Knows
  <2> HIDE DEF f
  <2>2. UNCHANGED <<waiting, data, recent, keys, filed, air, drawn, pressed, updates, issued>>
        /\ probing' = probing \cup {frames[h].url}
    BY <1>4 DEF ProbeAgain, fsm, store
  <2>3. frames' \in [Tapper -> Frame] /\ Frames' /\ Lookups'
    BY <1>f, <2>0, <2>1, <2>2, FrameStep
  <2>4. MenuTypeOK'
    BY <2>0, <2>2, <2>3 DEF MenuInv, MenuTypeOK, Frame, Job
  <2>5. QED BY <2>2, <2>3, <2>4 DEF MenuInv, Record, Buttoned, RungDrawn
<1>5. ASSUME NEW h \in Tapper, ClearQuestion(h) PROVE MenuInv'
  <2> DEFINE f == IF frames[h].url = NoLink THEN Rest ELSE [frames[h] EXCEPT !.at = "submit"]
  <2>0. frames[h] \in Frame /\ frames[h].at = "clear" /\ Knows(frames[h], drawn)
    BY <1>5, <1>f DEF ClearQuestion
  <2>1. f \in Frame /\ frames' = [frames EXCEPT ![h] = f] /\ Knows(f, drawn) /\ ~Looking(f)
    <3>1. CASE frames[h].url = NoLink
      BY <1>5, <1>r, <3>1 DEF ClearQuestion, Done
    <3>2. CASE frames[h].url # NoLink
      BY <1>5, <1>t, <2>0, <3>2 DEF ClearQuestion, Moves, Frame, Await, Knows, Looking
    <3>3. QED BY <3>1, <3>2
  <2>2. UNCHANGED <<probing, recent, keys, filed, air, drawn, pressed, updates, issued>>
        /\ waiting' = FALSE /\ data' = NoQuestion
    BY <1>5 DEF ClearQuestion, store
  <2>3. frames' \in [Tapper -> Frame] /\ Frames' /\ Lookups'
    BY <1>f, <2>1, <2>2, FrameStep
  <2>4. NoQuestion \in [url : Maybe, offered : SUBSET Tier, sound : {"unknown", "no", "yes"},
                        ladder : BOOLEAN, verdict : Maybe] /\ NoQuestion.url = NoLink
    BY DEF NoQuestion, Maybe
  <2>5. MenuTypeOK'
    BY <2>2, <2>3, <2>4 DEF MenuInv, MenuTypeOK, Frame, Job
  <2>6. QED BY <2>2, <2>3, <2>4, <2>5 DEF MenuInv, Record, Buttoned, RungDrawn
<1>6. ASSUME NEW h \in Tapper, TapAccepted(h) PROVE MenuInv'
  <2> DEFINE f == [frames[h] EXCEPT !.at = "cache"]
  <2>0. frames[h] \in Frame /\ frames[h].at = "submit" /\ Knows(frames[h], drawn)
    BY <1>6, <1>f DEF TapAccepted
  <2>1. f \in Frame /\ frames' = [frames EXCEPT ![h] = f] /\ Knows(f, drawn) /\ ~Looking(f)
    BY <1>6, <1>t, <2>0 DEF TapAccepted, Moves, Frame, Await, Knows, Looking
  <2>2. UNCHANGED <<waiting, data, probing, keys, filed, air, drawn, pressed, updates, issued>>
        /\ recent' \in (Maybe \X Tier) \cup {Nothing}
    BY <1>6, <2>0 DEF TapAccepted, fsm, Wanted, Frame
  <2>3. frames' \in [Tapper -> Frame] /\ Frames' /\ Lookups'
    BY <1>f, <2>1, <2>2, FrameStep
  <2>4. MenuTypeOK'
    BY <2>2, <2>3 DEF MenuInv, MenuTypeOK, Frame, Job
  <2>5. QED BY <2>2, <2>3, <2>4 DEF MenuInv, Record, Buttoned, RungDrawn
<1>7. ASSUME NEW h \in Tapper, RowDead(h) PROVE MenuInv'
  <2>1. UNCHANGED <<waiting, data, probing, recent, keys, air, frames, drawn, pressed, updates, issued>>
        /\ filed' \subseteq filed
    BY <1>7 DEF RowDead, fsm
  <2>2. QED BY <2>1 DEF MenuInv, MenuTypeOK, Frames, Record, Buttoned, RungDrawn, Lookups
\* A fresh button stands for a task that was asked for.
<1>k. ASSUME NEW task \in Job, QuestionAsked(task.url, task.tier, drawn), RememberRetry(task), UNCHANGED <<pressed, drawn>>
      PROVE  /\ issued' \in 0..MaxKeys /\ DOMAIN keys' \subseteq 1..MaxKeys
             /\ \A k \in DOMAIN keys' : keys'[k] \in Job
             /\ Buttoned'
  <2>1. issued' = issued + 1 /\ issued' \in 0..MaxKeys /\ issued + 1 \in 1..MaxKeys
    BY <1>k, <1>t DEF RememberRetry
  <2>2. /\ DOMAIN keys' = DOMAIN keys \cup {issued + 1}
        /\ \A k \in DOMAIN keys' : keys'[k] = IF k \in DOMAIN keys THEN keys[k] ELSE task
    BY <1>k DEF RememberRetry
  <2>3. /\ DOMAIN keys \subseteq 1..issued
        /\ \A k \in DOMAIN keys : QuestionAsked(keys[k].url, keys[k].tier, drawn) /\ pressed[k] = 0
        /\ \A k \in 1..MaxKeys : pressed[k] <= 1 /\ (k > issued => pressed[k] = 0)
    BY DEF MenuInv, Buttoned
  <2>4. issued \in Nat /\ DOMAIN keys' \subseteq 1..(issued + 1) /\ issued + 1 > issued
    BY <1>t, <2>2, <2>3
  <2>5. \A k \in DOMAIN keys' : QuestionAsked(keys'[k].url, keys'[k].tier, drawn) /\ pressed[k] = 0
    BY <1>k, <2>1, <2>2, <2>3, <2>4
  <2>6. \A k \in 1..MaxKeys : pressed[k] <= 1 /\ (k > issued + 1 => pressed[k] = 0)
    BY <2>3, <2>4
  <2>7. Buttoned'
    BY <1>k, <2>1, <2>4, <2>5, <2>6 DEF Buttoned
  <2>8. QED BY <1>t, <1>k, <2>1, <2>2, <2>7
<1>8. ASSUME NEW h \in Tapper, PreflightRefuses(h) PROVE MenuInv'
  <2>0. frames[h] \in Frame /\ frames[h].at = "quota" /\ Knows(frames[h], drawn)
    BY <1>8, <1>f DEF PreflightRefuses
  <2>1. Task(h) \in Job /\ QuestionAsked(Task(h).url, Task(h).tier, drawn)
    BY <2>0 DEF Knows, Task, Job, Frame, QuestionAsked
  <2>2. UNCHANGED <<waiting, data, probing, recent, filed, air, drawn, pressed, updates>>
        /\ frames' = [frames EXCEPT ![h] = Rest] /\ RememberRetry(Task(h))
    BY <1>8 DEF PreflightRefuses, fsm, Done
  <2>3. frames' \in [Tapper -> Frame] /\ Frames' /\ Lookups'
    BY <1>f, <1>r, <2>2, FrameStep
  <2>4. /\ issued' \in 0..MaxKeys /\ DOMAIN keys' \subseteq 1..MaxKeys
        /\ (\A k \in DOMAIN keys' : keys'[k] \in Job) /\ Buttoned'
    BY <1>k, <2>1, <2>2
  <2>5. MenuTypeOK'
    BY <2>2, <2>3, <2>4 DEF MenuInv, MenuTypeOK, Frame, Job
  <2>6. QED BY <2>2, <2>3, <2>4, <2>5 DEF MenuInv, Record, RungDrawn
<1>9. ASSUME NEW h \in Tapper, Enqueue(h) PROVE MenuInv'
  <2>0. frames[h] \in Frame /\ frames[h].at = "queue" /\ Knows(frames[h], drawn)
    BY <1>9, <1>f DEF Enqueue
  <2>1. Task(h) \in Job /\ QuestionAsked(Task(h).url, Task(h).tier, drawn)
    BY <2>0 DEF Knows, Task, Job, Frame, QuestionAsked
  <2>2. UNCHANGED <<waiting, data, probing, recent, keys, filed, drawn, pressed, updates, issued>>
        /\ frames' = [frames EXCEPT ![h] = Rest] /\ air' \subseteq air \cup {Task(h)}
    BY <1>9 DEF Enqueue, fsm, Done
  <2>3. frames' \in [Tapper -> Frame] /\ Frames' /\ Lookups'
    BY <1>f, <1>r, <2>2, FrameStep
  <2>4. MenuTypeOK'
    BY <1>t, <2>1, <2>2, <2>3 DEF MenuInv, MenuTypeOK, Frame, Job
  <2>5. RungDrawn'
    BY <2>1, <2>2 DEF MenuInv, RungDrawn, QuestionAsked
  <2>6. QED BY <2>2, <2>3, <2>4, <2>5 DEF MenuInv, Record, Buttoned
<1>10. ASSUME NEW h \in Tapper, NEW k \in DOMAIN keys, RetryTapped(h, k) PROVE MenuInv'
  <2> DEFINE f == [Rest EXCEPT !.at = "forget", !.kind = "retry", !.url = keys[k].url,
                               !.tier = keys[k].tier, !.verdict = keys[k].verdict]
  <2>0. keys[k] \in Job /\ QuestionAsked(keys[k].url, keys[k].tier, drawn) /\ k \in 1..MaxKeys /\ pressed[k] = 0
    BY <1>t DEF MenuInv, Buttoned
  <2>1. f \in Frame /\ Knows(f, drawn) /\ ~Looking(f)
    BY <1>r, <2>0 DEF Frame, Job, Await, Maybe, Knows, Looking, Rest
  <2> HIDE DEF f
  <2>2. UNCHANGED <<waiting, data, probing, recent, filed, air, drawn, issued>> /\ updates' \in 0..MaxUpdates
        /\ frames' = [frames EXCEPT ![h] = f] /\ keys' = [x \in DOMAIN keys \ {k} |-> keys[x]]
        /\ pressed' = [pressed EXCEPT ![k] = 1]
    BY <1>10, <1>t, <2>0 DEF RetryTapped, Arrives, fsm, f
  <2>3. frames' \in [Tapper -> Frame] /\ Frames' /\ Lookups'
    BY <1>f, <2>1, <2>2, FrameStep
  <2>4. pressed' \in [1..MaxKeys -> Nat] /\ DOMAIN keys' \subseteq DOMAIN keys
        /\ \A x \in DOMAIN keys' : keys'[x] = keys[x] /\ pressed'[x] = pressed[x]
    BY <1>t, <2>0, <2>2
  <2>5. MenuTypeOK'
    BY <1>t, <2>2, <2>3, <2>4 DEF MenuInv, MenuTypeOK, Frame, Job
  <2>6. k <= issued
    BY <1>t DEF MenuInv, Buttoned
  <2>7. Buttoned'
    BY <1>t, <2>0, <2>2, <2>4, <2>6 DEF MenuInv, Buttoned
  <2>8. QED BY <2>2, <2>3, <2>5, <2>7 DEF MenuInv, Record, RungDrawn
<1>11. ASSUME NEW h \in Tapper, ForgetRow(h) PROVE MenuInv'
  <2> DEFINE f == [frames[h] EXCEPT !.at = "submit"]
  <2>0. frames[h] \in Frame /\ frames[h].at = "forget" /\ Knows(frames[h], drawn)
    BY <1>11, <1>f DEF ForgetRow
  <2>1. f \in Frame /\ frames' = [frames EXCEPT ![h] = f] /\ Knows(f, drawn) /\ ~Looking(f)
    BY <1>11, <1>t, <2>0 DEF ForgetRow, Moves, Frame, Await, Knows, Looking
  <2> HIDE DEF f
  <2>2. UNCHANGED <<waiting, data, probing, recent, keys, air, drawn, pressed, updates, issued>>
        /\ filed' \subseteq filed
    BY <1>11 DEF ForgetRow, fsm
  <2>3. frames' \in [Tapper -> Frame] /\ Frames' /\ Lookups'
    BY <1>f, <2>1, <2>2, FrameStep
  <2>4. MenuTypeOK'
    BY <2>2, <2>3 DEF MenuInv, MenuTypeOK, Frame, Job
  <2>5. QED BY <2>2, <2>3, <2>4 DEF MenuInv, Record, Buttoned, RungDrawn
<1>12. ASSUME NEW j \in air, JobSettles(j) PROVE MenuInv'
  <2>1. UNCHANGED <<waiting, data, probing, recent, keys, pressed, issued, frames, drawn, updates>>
        /\ air' \subseteq air /\ filed' \subseteq filed \cup {<<j.url, j.tier>>}
    BY <1>12 DEF JobSettles, fsm
  <2>2. <<j.url, j.tier>> \in Request
    BY <1>t DEF Job, Request
  <2>3. QED BY <2>1, <2>2 DEF MenuInv, MenuTypeOK, Frames, Record, Buttoned, RungDrawn, Lookups
<1>13. ASSUME NEW j \in air, JobFails(j) PROVE MenuInv'
  <2>1. UNCHANGED <<waiting, data, probing, recent, filed, pressed, frames, drawn, updates>>
        /\ air' \subseteq air /\ RememberRetry(j)
    BY <1>13 DEF JobFails, fsm
  <2>2. j \in Job /\ QuestionAsked(j.url, j.tier, drawn)
    BY <1>t DEF MenuInv, RungDrawn, QuestionAsked, Job
  <2>3. /\ issued' \in 0..MaxKeys /\ DOMAIN keys' \subseteq 1..MaxKeys
        /\ (\A k \in DOMAIN keys' : keys'[k] \in Job) /\ Buttoned'
    BY <1>k, <2>1, <2>2
  <2>4. MenuTypeOK'
    BY <2>1, <2>3 DEF MenuInv, MenuTypeOK
  <2>5. QED BY <2>1, <2>3, <2>4 DEF MenuInv, Frames, Record, RungDrawn, Lookups
<1>14. ASSUME NEW t \in Tier, StaleTap(t) PROVE MenuInv'
  <2>1. UNCHANGED <<waiting, data, probing, keys, filed, air, frames, drawn, pressed, issued>>
        /\ updates' \in 0..MaxUpdates /\ recent' \in (Maybe \X Tier) \cup {Nothing}
    BY <1>14, <1>t DEF StaleTap, fsm
  <2>2. QED BY <2>1 DEF MenuInv, MenuTypeOK, Frames, Record, Buttoned, RungDrawn, Lookups
<1>15. CASE LeaveQuestion \/ WindowCloses
  <2>1. UNCHANGED <<data, probing, keys, filed, air, frames, drawn, pressed, issued>> /\ waiting' \in BOOLEAN
        /\ updates' \in 0..MaxUpdates /\ recent' \in (Maybe \X Tier) \cup {Nothing}
    BY <1>15, <1>t DEF LeaveQuestion, WindowCloses, fsm, store, MenuInv, MenuTypeOK
  <2>2. QED BY <2>1 DEF MenuInv, MenuTypeOK, Frames, Record, Buttoned, RungDrawn, Lookups
<1>16. CASE UNCHANGED menuVars
  BY <1>16 DEF menuVars, MenuInv, MenuTypeOK, Frames, Record, Buttoned, RungDrawn, Lookups
<1>17. ASSUME NEW h \in Tapper, ProbeTapped(h) \/ Intake(h) \/ Reprobe(h) \/ TapRead(h) \/ ClearQuestion(h)
                                \/ Submit(h) \/ ForgetRow(h)
       PROVE  MenuInv'
  BY <1>17, <1>1, <1>2, <1>3, <1>4, <1>5, <1>6, <1>7, <1>8, <1>9, <1>11, QuietMoves DEF Intake, Reprobe, Submit
<1>18. ASSUME NEW h \in Tapper, (\E u \in Link : LinkArrives(h, u)) \/ (\E t \in Tier : Tapped(h, t))
       PROVE  MenuInv'
  BY <1>18, QuietMoves
<1>19. QED BY <1>10, <1>12, <1>13, <1>14, <1>15, <1>16, <1>17, <1>18 DEF MenuNext

-----------------------------------------------------------------------------
\* A resolution is downloaded only for a link it was drawn for, a retry button
\* starts one run and a link one lookup of a retry, for any number of updates of
\* the user handled at once (on_format_chosen, take_retry, _probes_running).
THEOREM MenuIsHonest == MenuSpec => []MenuHonest
<1>1. MenuInv => MenuHonest
  <2> SUFFICES ASSUME MenuInv PROVE PressedOnce
    BY DEF MenuHonest, MenuInv
  <2>1. \A k \in 1..MaxKeys : pressed[k] <= 1
    BY DEF MenuInv, Buttoned
  <2>2. ASSUME NEW g \in Tapper, NEW h \in Tapper, g # h,
               {frames[g].kind, frames[h].kind} = {"probe"},
               {frames[g].at, frames[h].at} = {"probe"}, frames[g].url = frames[h].url
        PROVE  FALSE
    <3>1. Looking(frames[g]) /\ Looking(frames[h])
      BY <2>2 DEF Looking
    <3>2. QED BY <2>2, <3>1 DEF MenuInv, Lookups
  <2>3. QED BY <2>1, <2>2 DEF PressedOnce
<1>2. MenuSpec => []MenuInv
  BY InitMenu, MenuStep, PTL DEF MenuSpec
<1>3. QED BY <1>1, <1>2, PTL

LEMMA MenuTyped == MenuSpec => []MenuTypeOK
<1>1. MenuInv => MenuTypeOK
  BY DEF MenuInv
<1>2. QED BY <1>1, InitMenu, MenuStep, PTL DEF MenuSpec
=============================================================================
