----------------------------- MODULE DeskProofs -----------------------------
(***************************************************************************)
(* Proofs about what MCDesk puts beside the queue: the announcements, the  *)
(* sections of a user and the guard of the instance, and that the parts    *)
(* keep their types whichever of them runs.                                *)
(***************************************************************************)
EXTENDS RedisTaskQueueProofs, MCDesk, FiniteSetTheorems, WellFoundedInduction, TLAPS

-----------------------------------------------------------------------------
(***************************************************************************)
(* BroadcastExact for any accounts, admins, page size and overlapping      *)
(* taps. The walk has no memory of whom it handled; the invariant supplies *)
(* the set. A page is what comes next after the last one, with no gap: the *)
(* accounts before one of its members have a smaller rank.                 *)
(***************************************************************************)

Taps == [who : Admin \cup {NoAdmin}, text : BOOLEAN, at : {"idle", "read", "deliver", "walk"}]
Ends == {"running", "finished", "aborted"}
Walk == [after : Nat, page : SUBSET Account, total : Nat, sent : Nat, blocked : Nat,
         failed : Nat, end : Ends]

WalkTypes ==
  /\ members \subseteq Account /\ audience \subseteq members
  /\ tap \in [SendTap -> Taps] /\ walk \in Walk
  /\ got \in [Account -> Nat] /\ runs \in Nat

\* Who walks has the lock.
OneWalk == \A h \in SendTap : tap[h].at = "walk" => lock = h

\* done is whom the run has handled: everybody there at the start up to the
\* last id, but for those of the page still to come.
Handled(done) ==
  /\ done \subseteq members /\ walk.page \subseteq members /\ done \cap walk.page = {}
  /\ \A u \in done \cup walk.page : u <= walk.after
  /\ \A u \in audience : u <= walk.after => u \in done \cup walk.page
  /\ Cardinality(done) = walk.total
  /\ \A u \in Account : got[u] <= 1 /\ (got[u] # 0 => u \in done)
  /\ walk.failed = 0 /\ walk.blocked = 0 => \A u \in done : got[u] = 1
  /\ walk.end = "finished" => audience \subseteq done

BroadcastInv ==
  /\ WalkTypes /\ OneWalk
  /\ walk.total = walk.sent + walk.blocked + walk.failed
  /\ \E done \in SUBSET Account : Handled(done)

USE BroadcastAssumption

-----------------------------------------------------------------------------
(* Sets of numbers.                                                        *)

LEMMA LeastOf ==
  ASSUME NEW S \in SUBSET Nat, S # {}
  PROVE  \E x \in S : \A y \in S : x <= y
<1>1. PICK x \in S : \A y \in S : ~(<<y, x>> \in OpToRel(<, Nat))
  BY WFMin, NatLessThanWellFounded
<1>2. \A y \in S : ~(y < x)
  BY <1>1 DEF OpToRel
<1>3. QED BY <1>2

LEMMA GreatestOf ==
  ASSUME NEW S \in SUBSET Nat, S # {}, IsFiniteSet(S)
  PROVE  \E x \in S : \A y \in S : y <= x
<1> DEFINE Above(u) == {v \in S : v > u}
           Ranks == {Cardinality(Above(u)) : u \in S}
<1>1. \A u \in S : IsFiniteSet(Above(u)) /\ Cardinality(Above(u)) \in Nat
  BY FS_Subset, FS_CardinalityType
<1>2. Ranks \subseteq Nat /\ Ranks # {}
  BY <1>1
<1>3. PICK n \in Ranks : \A m \in Ranks : n <= m
  BY <1>2, LeastOf
<1>4. PICK x \in S : n = Cardinality(Above(x))
  OBVIOUS
<1>5. ASSUME NEW y \in S, NEW z \in S, y > z
      PROVE  Above(y) \subseteq Above(z) /\ y \in Above(z) /\ y \notin Above(y)
  <2>1. y \in Nat /\ z \in Nat
    OBVIOUS
  <2>2. ASSUME NEW v \in Above(y) PROVE v \in Above(z)
    <3>1. v \in S /\ v \in Nat /\ v > y
      OBVIOUS
    <3>2. QED BY <1>5, <2>1, <3>1
  <2>3. y \in Above(z) /\ y \notin Above(y)
    BY <1>5, <2>1
  <2> HIDE DEF Above
  <2>4. QED BY <2>2, <2>3
<1>6. \A y \in S : Cardinality(Above(x)) <= Cardinality(Above(y))
  BY <1>3, <1>4
<1> HIDE DEF Above
<1>7. ASSUME NEW y \in S, y > x PROVE FALSE
  <2>1. Above(y) \in SUBSET Above(x) /\ Above(y) # Above(x)
    BY <1>5, <1>7
  <2>2. Cardinality(Above(y)) <= Cardinality(Above(x)) /\ Cardinality(Above(y)) # Cardinality(Above(x))
    BY <1>1, <2>1, FS_Subset
  <2>3. QED BY <1>1, <1>6, <2>2
<1>8. QED BY <1>7

\* A page is everybody from the last id to its own last one, and it is empty
\* only if nobody is left.
LEMMA NextPage ==
  ASSUME members \subseteq Account, NEW id \in Nat
  PROVE  /\ PageAfter(id) \subseteq members /\ \A u \in PageAfter(id) : u > id
         /\ \A u \in PageAfter(id), v \in members : id < v /\ v <= u => v \in PageAfter(id)
         /\ PageAfter(id) = {} => \A v \in members : v <= id
<1> DEFINE Before(u) == {v \in members : id < v /\ v < u}
<1>1. members \subseteq Nat /\ IsFiniteSet(members)
  BY FS_Subset
<1>2. \A u : IsFiniteSet(Before(u)) /\ Cardinality(Before(u)) \in Nat
  BY <1>1, FS_Subset, FS_CardinalityType
<1>3. PageAfter(id) = {u \in members : u > id /\ Cardinality(Before(u)) < PageSize}
  BY DEF PageAfter
<1>4. ASSUME NEW u \in members, NEW v \in members, id < v, v <= u
      PROVE  Before(v) \subseteq Before(u)
  <2>1. u \in Nat /\ v \in Nat
    BY <1>1
  <2>2. ASSUME NEW w \in Before(v) PROVE w \in Before(u)
    <3>1. w \in members /\ w \in Nat /\ id < w /\ w < v
      BY <1>1
    <3>2. QED BY <1>4, <2>1, <3>1
  <2>3. QED BY <2>2
<1>5. ASSUME NEW x \in members, \A y \in members : y > id => x <= y
      PROVE  Before(x) = {}
  <2>1. ASSUME NEW w \in Before(x) PROVE FALSE
    <3>1. w \in members /\ w \in Nat /\ x \in Nat /\ w > id /\ w < x
      BY <1>1
    <3>2. QED BY <1>5, <3>1
  <2>2. QED BY <2>1
<1> HIDE DEF Before
<1>6. ASSUME NEW u \in PageAfter(id), NEW v \in members, id < v, v <= u
      PROVE  v \in PageAfter(id)
  <2>1. Cardinality(Before(v)) <= Cardinality(Before(u))
    BY <1>2, <1>3, <1>4, <1>6, FS_Subset
  <2>2. Cardinality(Before(u)) < PageSize /\ u \in Nat /\ v \in Nat
    BY <1>1, <1>3, <1>6
  <2>3. Cardinality(Before(v)) < PageSize
    BY <1>2, <2>1, <2>2
  <2>4. QED BY <1>3, <1>6, <2>2, <2>3
<1>7. ASSUME PageAfter(id) = {}, NEW w \in members, ~(w <= id) PROVE FALSE
  <2> DEFINE Later == {v \in members : v > id}
  <2>1. Later \in SUBSET Nat /\ w \in Later
    <3>1. w \in Nat /\ w > id
      BY <1>1, <1>7
    <3>2. QED BY <1>1, <3>1
  <2>2. PICK x \in Later : \A y \in Later : x <= y
    BY <2>1, LeastOf
  <2>3. Cardinality(Before(x)) = 0
    BY <1>5, <2>2, FS_EmptySet
  <2>4. x \in PageAfter(id)
    BY <1>3, <2>2, <2>3
  <2>5. QED BY <1>7, <2>4
<1>8. PageAfter(id) \subseteq members /\ \A u \in PageAfter(id) : u > id
  BY <1>3
<1>9. QED BY <1>6, <1>7, <1>8

-----------------------------------------------------------------------------
LEMMA InitBroadcast == BroadcastInit => BroadcastInv
<1> SUFFICES ASSUME BroadcastInit PROVE BroadcastInv
  OBVIOUS
<1>1. WalkTypes /\ OneWalk
  BY DEF BroadcastInit, WalkTypes, OneWalk, Taps, Idle, Walk, Ends, EmptyWalk
<1>2. Handled({})
  BY FS_EmptySet DEF BroadcastInit, Handled, EmptyWalk
<1>3. QED BY <1>1, <1>2 DEF BroadcastInit, BroadcastInv, EmptyWalk

\* What the walk handled stays handled while it stands still and people sign up.
LEMMA StandsStill ==
  ASSUME BroadcastInv, WalkTypes', OneWalk', members \subseteq members', UNCHANGED <<walk, got, audience>>
  PROVE  BroadcastInv'
BY DEF BroadcastInv, Handled

LEMMA DraftStep ==
  ASSUME BroadcastInv,
         \/ \E a \in Admin : AskText(a) \/ Draft(a) \/ CancelDraft(a)
         \/ \E u \in Account : SignUp(u)
  PROVE  BroadcastInv'
<1>1. UNCHANGED <<tap, lock, walk, got, audience, runs>> /\ members \subseteq members' /\ members' \subseteq Account
  BY DEF AskText, Draft, CancelDraft, SignUp, BroadcastInv, WalkTypes
<1>2. WalkTypes' /\ OneWalk'
  BY <1>1 DEF BroadcastInv, WalkTypes, OneWalk
<1>3. QED BY <1>1, <1>2, StandsStill

LEMMA TapStep ==
  ASSUME BroadcastInv, NEW h \in SendTap,
         SendClear(h) \/ SendBusy(h) \/ SendReport(h) \/ \E a \in Admin : SendRead(h, a)
  PROVE  BroadcastInv'
<1>1. UNCHANGED <<members, walk, got, audience, runs>>
  BY DEF SendClear, SendBusy, SendReport, SendRead
<1>2. tap' = [tap EXCEPT ![h] = tap'[h]] /\ tap'[h] \in Taps /\ tap'[h].at # "walk"
  <2>1. tap[h] \in Taps
    BY DEF BroadcastInv, WalkTypes
  <2>2. CASE SendClear(h)
    BY <2>1, <2>2 DEF SendClear, Taps, Idle, BroadcastInv, WalkTypes
  <2>3. CASE SendBusy(h) \/ SendReport(h)
    <3>1. tap' = [tap EXCEPT ![h] = Idle]
      BY <2>3 DEF SendBusy, SendReport
    <3>2. Idle \in Taps /\ Idle.at # "walk"
      BY DEF Idle, Taps
    <3>3. QED BY <3>1, <3>2 DEF BroadcastInv, WalkTypes
  <2>4. CASE \E a \in Admin : SendRead(h, a)
    BY <2>4 DEF SendRead, Taps, BroadcastInv, WalkTypes
  <2>5. QED BY <2>2, <2>3, <2>4
<1>3. lock' = lock \/ (lock' = NoAdmin /\ tap[h].at = "walk")
  BY DEF SendClear, SendBusy, SendReport, SendRead
<1>4. WalkTypes'
  BY <1>1, <1>2 DEF BroadcastInv, WalkTypes
<1>5. OneWalk'
  BY <1>2, <1>3 DEF BroadcastInv, WalkTypes, OneWalk
<1>6. QED BY <1>1, <1>4, <1>5, StandsStill

LEMMA StartStep ==
  ASSUME BroadcastInv, NEW h \in SendTap, SendStart(h)
  PROVE  BroadcastInv'
<1>1. /\ lock = NoAdmin /\ lock' = h /\ walk' = EmptyWalk /\ audience' = members
      /\ got' = [u \in Account |-> 0] /\ runs' = runs + 1
      /\ tap' = [tap EXCEPT ![h].at = "walk"] /\ members' = members
  BY DEF SendStart
<1>2. WalkTypes'
  BY <1>1 DEF BroadcastInv, WalkTypes, Taps, Walk, Ends, EmptyWalk
<1>3. OneWalk'
  BY <1>1 DEF BroadcastInv, WalkTypes, OneWalk
<1>4. Handled({})'
  <2>1. \A u \in members : ~(u <= 0)
    BY DEF BroadcastInv, WalkTypes
  <2>2. QED BY <1>1, <2>1, FS_EmptySet DEF Handled, EmptyWalk
<1>5. walk'.total = walk'.sent + walk'.blocked + walk'.failed
  BY <1>1 DEF EmptyWalk
<1>6. QED BY <1>2, <1>3, <1>4, <1>5 DEF BroadcastInv

LEMMA PageStep ==
  ASSUME BroadcastInv, NEW h \in SendTap, PageRead(h) \/ PageFails(h)
  PROVE  BroadcastInv'
<1> DEFINE next == PageAfter(walk.after)
           last == CHOOSE u \in next : \A v \in next : v <= u
<1>1. UNCHANGED <<members, tap, lock, got, audience, runs>> /\ walk.page = {} /\ walk \in Walk
  BY DEF PageRead, PageFails, BroadcastInv, WalkTypes
<1>2. OneWalk' /\ members \subseteq Account /\ members \subseteq Nat /\ audience \subseteq members
  BY <1>1 DEF BroadcastInv, WalkTypes, OneWalk
<1>3. PICK done \in SUBSET Account : Handled(done)
  BY DEF BroadcastInv
<1>4. /\ next \subseteq members /\ \A u \in next : u > walk.after
      /\ \A u \in next, v \in members : walk.after < v /\ v <= u => v \in next
      /\ next = {} => \A v \in members : v <= walk.after
  BY <1>1, <1>2, NextPage DEF Walk
<1>5. CASE PageFails(h)
  <2>1. walk' = [walk EXCEPT !.end = "aborted"]
    BY <1>5 DEF PageFails
  <2>2. WalkTypes' /\ walk'.total = walk'.sent + walk'.blocked + walk'.failed
    BY <1>1, <2>1 DEF BroadcastInv, WalkTypes, Walk, Ends
  <2>3. Handled(done)'
    BY <1>1, <1>3, <2>1 DEF Handled, Walk
  <2>4. QED BY <1>2, <2>2, <2>3 DEF BroadcastInv
<1>6. CASE PageRead(h) /\ next = {}
  <2>1. walk' = [walk EXCEPT !.end = "finished"]
    BY <1>6 DEF PageRead
  <2>2. WalkTypes' /\ walk'.total = walk'.sent + walk'.blocked + walk'.failed
    BY <1>1, <2>1 DEF BroadcastInv, WalkTypes, Walk, Ends
  <2>3. audience \subseteq done
    BY <1>1, <1>2, <1>3, <1>4, <1>6 DEF Handled
  <2>4. Handled(done)'
    BY <1>1, <1>3, <2>1, <2>3 DEF Handled, Walk
  <2>5. QED BY <1>2, <2>2, <2>4 DEF BroadcastInv
<1>7. CASE PageRead(h) /\ next # {}
  <2>1. walk' = [walk EXCEPT !.page = next, !.after = last]
    BY <1>7 DEF PageRead
  <2>2. last \in next /\ \A v \in next : v <= last
    <3>1. IsFiniteSet(next) /\ next \subseteq Nat
      BY <1>2, <1>4, FS_Subset
    <3>2. \E x \in next : \A y \in next : y <= x
      BY <1>7, <3>1, GreatestOf
    <3>3. QED BY <3>2
  <2>3. last \in Nat /\ last > walk.after /\ walk.after \in Nat
    BY <1>1, <1>2, <1>4, <2>2 DEF Walk
  <2>4. WalkTypes' /\ walk'.total = walk'.sent + walk'.blocked + walk'.failed
    BY <1>1, <1>2, <1>4, <2>1, <2>3 DEF BroadcastInv, WalkTypes, Walk, Ends
  <2>5. walk'.page = next /\ walk'.after = last /\ walk'.total = walk.total /\ walk'.end = walk.end
        /\ walk'.failed = walk.failed /\ walk'.blocked = walk.blocked
    BY <1>1, <2>1 DEF Walk
  <2>6. \A u \in done : u \in Nat /\ u <= walk.after
    BY <1>2, <1>3 DEF Handled
  <2> HIDE DEF next, last
  <2>7. done \cap next = {} /\ \A u \in done \cup next : u <= last
    BY <1>2, <1>4, <2>2, <2>3, <2>6
  <2>8. \A u \in audience : u <= last => u \in done \cup next
    <3>1. \A u \in audience : u <= walk.after => u \in done
      BY <1>1, <1>3 DEF Handled
    <3>2. QED BY <1>2, <1>4, <2>2, <2>3, <3>1
  <2>9. Handled(done)'
    BY <1>1, <1>3, <1>4, <2>5, <2>7, <2>8 DEF Handled
  <2>10. QED BY <1>2, <2>4, <2>9 DEF BroadcastInv
<1>8. QED BY <1>5, <1>6, <1>7

\* One more is handled; whoever was not yet has not got it.
LEMMA SendStep ==
  ASSUME BroadcastInv, NEW h \in SendTap, SendOne(h)
  PROVE  BroadcastInv'
<1>1. UNCHANGED <<members, tap, lock, audience, runs>> /\ walk \in Walk /\ walk.end = "running"
  BY DEF SendOne, Walking, BroadcastInv, WalkTypes
<1>2. PICK u \in walk.page, outcome \in {"sent", "blocked", "failed"}, arrived \in BOOLEAN :
        /\ outcome = "sent" => arrived
        /\ walk' = [walk EXCEPT !.page = @ \ {u}, !.total = @ + 1, ![outcome] = @ + 1]
        /\ got' = IF arrived THEN [got EXCEPT ![u] = @ + 1] ELSE got
  BY DEF SendOne
<1>3. PICK done \in SUBSET Account : Handled(done)
  BY DEF BroadcastInv
<1>4. /\ walk' \in Walk /\ walk'.page = walk.page \ {u} /\ walk'.total = walk.total + 1
      /\ walk'.after = walk.after /\ walk'.end = "running"
      /\ walk'.total = walk'.sent + walk'.blocked + walk'.failed
      /\ walk'.failed = 0 /\ walk'.blocked = 0 => walk.failed = 0 /\ walk.blocked = 0 /\ outcome = "sent"
  <2>1. CASE outcome = "sent"
    <3>1. walk' = [walk EXCEPT !.page = @ \ {u}, !.total = @ + 1, !.sent = @ + 1]
      BY <1>2, <2>1
    <3>2. walk' = [after |-> walk.after, page |-> walk.page \ {u}, total |-> walk.total + 1,
                   sent |-> walk.sent + 1, blocked |-> walk.blocked, failed |-> walk.failed, end |-> walk.end]
      BY <1>1, <3>1 DEF Walk
    <3>3. /\ walk.total + 1 \in Nat /\ walk.sent + 1 \in Nat /\ walk.page \ {u} \in SUBSET Account
          /\ {walk.after, walk.blocked, walk.failed} \subseteq Nat /\ walk.end \in Ends
      BY <1>1 DEF Walk
    <3>4. /\ walk.total = walk.sent + walk.blocked + walk.failed
          /\ {walk.total, walk.sent, walk.blocked, walk.failed} \subseteq Nat
      BY <1>1 DEF BroadcastInv, Walk
    <3>5. walk' \in Walk
      BY <3>2, <3>3 DEF Walk
    <3>6. QED BY <1>1, <2>1, <3>2, <3>4, <3>5
  <2>2. CASE outcome = "blocked"
    <3>1. walk' = [walk EXCEPT !.page = @ \ {u}, !.total = @ + 1, !.blocked = @ + 1]
      BY <1>2, <2>2
    <3>2. walk' = [after |-> walk.after, page |-> walk.page \ {u}, total |-> walk.total + 1,
                   sent |-> walk.sent, blocked |-> walk.blocked + 1, failed |-> walk.failed, end |-> walk.end]
      BY <1>1, <3>1 DEF Walk
    <3>3. /\ walk.total + 1 \in Nat /\ walk.blocked + 1 \in Nat /\ walk.page \ {u} \in SUBSET Account
          /\ {walk.after, walk.sent, walk.failed} \subseteq Nat /\ walk.end \in Ends
      BY <1>1 DEF Walk
    <3>4. /\ walk.total = walk.sent + walk.blocked + walk.failed
          /\ {walk.total, walk.sent, walk.blocked, walk.failed} \subseteq Nat
      BY <1>1 DEF BroadcastInv, Walk
    <3>5. walk' \in Walk
      BY <3>2, <3>3 DEF Walk
    <3>6. QED BY <1>1, <2>2, <3>2, <3>4, <3>5
  <2>3. CASE outcome = "failed"
    <3>1. walk' = [walk EXCEPT !.page = @ \ {u}, !.total = @ + 1, !.failed = @ + 1]
      BY <1>2, <2>3
    <3>2. walk' = [after |-> walk.after, page |-> walk.page \ {u}, total |-> walk.total + 1,
                   sent |-> walk.sent, blocked |-> walk.blocked, failed |-> walk.failed + 1, end |-> walk.end]
      BY <1>1, <3>1 DEF Walk
    <3>3. /\ walk.total + 1 \in Nat /\ walk.failed + 1 \in Nat /\ walk.page \ {u} \in SUBSET Account
          /\ {walk.after, walk.sent, walk.blocked} \subseteq Nat /\ walk.end \in Ends
      BY <1>1 DEF Walk
    <3>4. /\ walk.total = walk.sent + walk.blocked + walk.failed
          /\ {walk.total, walk.sent, walk.blocked, walk.failed} \subseteq Nat
      BY <1>1 DEF BroadcastInv, Walk
    <3>5. walk' \in Walk
      BY <3>2, <3>3 DEF Walk
    <3>6. QED BY <1>1, <2>3, <3>2, <3>4, <3>5
  <2>4. QED BY <1>2, <2>1, <2>2, <2>3
<1>5. u \in members /\ u \in Account /\ u \notin done /\ got[u] = 0 /\ members \subseteq Account
  BY <1>2, <1>3 DEF Handled, BroadcastInv, WalkTypes
<1>6. got' \in [Account -> Nat] /\ got'[u] \in {0, 1} /\ \A v \in Account \ {u} : got'[v] = got[v]
  BY <1>2, <1>5 DEF BroadcastInv, WalkTypes
<1>7. outcome = "sent" => got'[u] = 1
  BY <1>2, <1>5 DEF BroadcastInv, WalkTypes
<1>8. IsFiniteSet(done) /\ Cardinality(done \cup {u}) = Cardinality(done) + 1
  BY <1>5, FS_Subset, FS_AddElement
<1>9. Handled(done \cup {u})'
  <2>1. (done \cup {u}) \cup walk'.page = done \cup walk.page
    BY <1>2, <1>4
  <2>2. /\ done \cup {u} \subseteq members /\ walk'.page \subseteq members
        /\ (done \cup {u}) \cap walk'.page = {}
    BY <1>3, <1>4, <1>5 DEF Handled
  <2>3. /\ \A v \in (done \cup {u}) \cup walk'.page : v <= walk'.after
        /\ \A v \in audience : v <= walk'.after => v \in (done \cup {u}) \cup walk'.page
    BY <1>3, <1>4, <2>1 DEF Handled
  <2>4. Cardinality(done \cup {u}) = walk'.total
    BY <1>3, <1>4, <1>8 DEF Handled
  <2>5. \A v \in Account : got'[v] <= 1 /\ (got'[v] # 0 => v \in done \cup {u})
    <3>1. \A v \in Account : got[v] <= 1 /\ (got[v] # 0 => v \in done)
      BY <1>3 DEF Handled
    <3>2. QED BY <1>6, <3>1
  <2>6. walk'.failed = 0 /\ walk'.blocked = 0 => \A v \in done \cup {u} : got'[v] = 1
    BY <1>3, <1>4, <1>6, <1>7 DEF Handled
  <2>7. QED BY <1>1, <1>4, <2>2, <2>3, <2>4, <2>5, <2>6 DEF Handled
<1>10. WalkTypes' /\ OneWalk'
  BY <1>1, <1>4, <1>6 DEF BroadcastInv, WalkTypes, OneWalk
<1>11. done \cup {u} \in SUBSET Account
  BY <1>5
<1>12. QED BY <1>4, <1>9, <1>10, <1>11 DEF BroadcastInv

LEMMA NextBroadcast == BroadcastInv /\ [BroadcastNext]_broadcastVars => BroadcastInv'
<1> SUFFICES ASSUME BroadcastInv, [BroadcastNext]_broadcastVars PROVE BroadcastInv'
  OBVIOUS
<1>1. CASE UNCHANGED broadcastVars
  BY <1>1, StandsStill DEF broadcastVars, BroadcastInv, WalkTypes, OneWalk
<1>2. CASE BroadcastNext
  BY <1>2, DraftStep, TapStep, StartStep, PageStep, SendStep DEF BroadcastNext, RunStep
<1>3. QED BY <1>1, <1>2

LEMMA InvExact == BroadcastInv => BroadcastExact
<1> SUFFICES ASSUME BroadcastInv PROVE BroadcastExact
  OBVIOUS
<1>1. PICK done \in SUBSET Account : Handled(done)
  BY DEF BroadcastInv
<1>2. IsFiniteSet(members) /\ IsFiniteSet(done)
  BY FS_Subset DEF BroadcastInv, WalkTypes
<1>3. Cardinality(done) <= Cardinality(members)
  BY <1>1, <1>2, FS_Subset DEF Handled
<1>4. audience \subseteq done => Cardinality(audience) <= Cardinality(done)
  BY <1>2, FS_Subset
<1>5. QED BY <1>1, <1>3, <1>4 DEF BroadcastInv, OneWalk, Handled, BroadcastExact

\* For any number of accounts, admins and overlapping taps, whoever signs up
\* and whatever fails: one run at a time, nobody gets its message twice, and a
\* run that finished tried everybody who was there (services/broadcast.py).
THEOREM BroadcastsExactly == BroadcastSpec => []BroadcastExact
<1>1. BroadcastSpec => []BroadcastInv
  BY InitBroadcast, NextBroadcast, PTL DEF BroadcastSpec
<1>2. QED BY <1>1, InvExact, PTL

-----------------------------------------------------------------------------
(***************************************************************************)
(* The registry, for any number of updates at once: what it counts and     *)
(* what is pushed and not yet counted is at least what is live, and no     *)
(* more unless a job settled before it was counted.                        *)
(***************************************************************************)

Kinds == {"none", "tap", "link", "choice", "stale", "direct", "cancel"}
Reads == [mode : Maybe, url : Maybe]

\* Whoever is past its first read knows the section it is about.
Placed == \A h \in Handler : pc[h] \notin {"idle", "cancelClear", "cancelKeep"} => on[h] \in Section

PushedOf(s) == {h \in Handler : pc[h] = "pushed" /\ on[h] = s}

\* No section is counted more often than jobs were queued.
Bounded == \A s \in Section : active[s] + Uncounted(s) <= jobs /\ live[s] <= jobs

CountInv == ModeTypeOK /\ Placed /\ Bounded /\ CountCovers /\ NoPhantom

LEMMA UncountedType ==
  \A s : IsFiniteSet(PushedOf(s)) /\ Uncounted(s) = Cardinality(PushedOf(s)) /\ Uncounted(s) \in Nat
<1>1. \A s : PushedOf(s) \subseteq Handler /\ IsFiniteSet(Handler)
  BY ModeAssumption DEF PushedOf
<1>2. \A s : IsFiniteSet(PushedOf(s)) /\ Cardinality(PushedOf(s)) \in Nat
  BY <1>1, FS_Subset, FS_CardinalityType
<1>3. QED BY <1>2 DEF PushedOf, Uncounted

LEMMA InitMode == Init => CountInv
<1> SUFFICES ASSUME Init PROVE CountInv
  OBVIOUS
<1> USE ModeAssumption
<1>0. 0 \in 0..MaxJobs /\ 0 \in 0..MaxRestarts
  OBVIOUS
<1>1. ModeTypeOK
  BY <1>0 DEF Init, Forget, ModeTypeOK, Maybe, Await
<1>2. \A s : PushedOf(s) = {}
  BY DEF Init, Forget, PushedOf
<1>3. \A s : Uncounted(s) = 0
  BY <1>2, UncountedType, FS_EmptySet
<1>4. Placed
  BY DEF Init, Forget, Placed
<1>5. QED BY <1>1, <1>3, <1>4 DEF Init, Forget, Bounded, CountCovers, NoPhantom, CountInv

-----------------------------------------------------------------------------
(* How a handler moves.                                                    *)

\* One handler goes elsewhere; what it carries is of its type.
Moves(h, p) ==
  /\ pc' = [pc EXCEPT ![h] = p]
  /\ what' = [what EXCEPT ![h] = what'[h]] /\ what'[h] \in Kinds
  /\ on' = [on EXCEPT ![h] = on'[h]] /\ on'[h] \in Maybe
  /\ snap' = [snap EXCEPT ![h] = snap'[h]] /\ snap'[h] \in Reads

LEMMA Moved ==
  ASSUME ModeTypeOK, NEW h \in Handler, NEW p
  PROVE  /\ Goto(h, p) /\ UNCHANGED <<what, on, snap>> => Moves(h, p)
         /\ Return(h) => Moves(h, "idle") /\ on'[h] = None
         /\ \A w \in Kinds, s \in Maybe :
              Begin(h, w, s, p) /\ UNCHANGED snap
                => Moves(h, p) /\ on'[h] = s /\ what'[h] = w /\ pc[h] = "idle"
         /\ Goto(h, p) /\ ReadData(h) /\ UNCHANGED <<what, on>> => Moves(h, p) /\ on'[h] = on[h]
<1>t. /\ pc \in [Handler -> Await] /\ what \in [Handler -> Kinds] /\ on \in [Handler -> Maybe]
      /\ snap \in [Handler -> Reads] /\ mode \in Maybe /\ url \in Maybe /\ None \in Maybe
  BY DEF ModeTypeOK, Kinds, Reads, Maybe
<1>1. Goto(h, p) /\ UNCHANGED <<what, on, snap>> => Moves(h, p)
  BY <1>t DEF Goto, Moves
<1>2. Return(h) => Moves(h, "idle") /\ on'[h] = None
  BY <1>t DEF Return, Goto, Moves, Kinds, Reads
<1>3. ASSUME NEW w \in Kinds, NEW s \in Maybe, Begin(h, w, s, p), UNCHANGED snap
      PROVE  Moves(h, p) /\ on'[h] = s /\ what'[h] = w /\ pc[h] = "idle"
  BY <1>3, <1>t DEF Begin, Goto, Moves
<1>4. Goto(h, p) /\ ReadData(h) /\ UNCHANGED <<what, on>> => Moves(h, p) /\ on'[h] = on[h]
  BY <1>t DEF Goto, ReadData, Moves, Reads
<1>5. QED BY <1>1, <1>2, <1>3, <1>4

LEMMA MovedTypes ==
  ASSUME ModeTypeOK, Placed, NEW h \in Handler, NEW p \in Await, Moves(h, p),
         p \notin {"idle", "cancelClear", "cancelKeep"} => on'[h] \in Section
  PROVE  /\ pc' \in [Handler -> Await] /\ what' \in [Handler -> Kinds] /\ on' \in [Handler -> Maybe]
         /\ snap' \in [Handler -> Reads] /\ Placed'
         /\ pc'[h] = p /\ \A g \in Handler \ {h} : UNCHANGED <<pc[g], what[g], on[g], snap[g]>>
<1>1. /\ pc \in [Handler -> Await] /\ what \in [Handler -> Kinds] /\ on \in [Handler -> Maybe]
      /\ snap \in [Handler -> Reads]
  BY DEF ModeTypeOK, Kinds, Reads
<1>2. /\ pc' \in [Handler -> Await] /\ what' \in [Handler -> Kinds] /\ on' \in [Handler -> Maybe]
      /\ snap' \in [Handler -> Reads]
      /\ pc'[h] = p /\ \A g \in Handler \ {h} : UNCHANGED <<pc[g], what[g], on[g], snap[g]>>
  BY <1>1 DEF Moves
<1>3. Placed'
  BY <1>2 DEF Placed
<1>4. QED BY <1>2, <1>3
\* A handler that does not come near the queue leaves every count alone.
LEMMA QuietStep ==
  ASSUME CountInv, NEW h \in Handler, NEW p \in Await \ {"pushed"}, Moves(h, p), pc[h] # "pushed",
         p \notin {"idle", "cancelClear", "cancelKeep"} => on'[h] \in Section,
         mode' \in Maybe, url' \in Maybe, waiting' \in BOOLEAN, seen' \subseteq Section,
         UNCHANGED <<active, live, jobs, restarts, blind, hasty>>
  PROVE  CountInv'
<1>t. ModeTypeOK /\ Placed
  BY DEF CountInv
<1>1. /\ pc' \in [Handler -> Await] /\ what' \in [Handler -> Kinds] /\ on' \in [Handler -> Maybe]
      /\ snap' \in [Handler -> Reads] /\ Placed'
      /\ pc'[h] = p /\ \A g \in Handler \ {h} : UNCHANGED <<pc[g], what[g], on[g], snap[g]>>
  BY <1>t, MovedTypes
<1>2. ModeTypeOK'
  BY <1>t, <1>1 DEF ModeTypeOK, Kinds, Reads
<1>3. \A s : UNCHANGED PushedOf(s)
  <2>1. \A s : \A g \in Handler : (pc'[g] = "pushed" /\ on'[g] = s) <=> (pc[g] = "pushed" /\ on[g] = s)
    BY <1>1
  <2>2. QED BY <2>1 DEF PushedOf
<1>4. \A s : UNCHANGED Uncounted(s)
  BY <1>3 DEF Uncounted, PushedOf
<1>5. QED BY <1>1, <1>2, <1>4 DEF CountInv, Bounded, CountCovers, NoPhantom

\* Everything a handler does short of the queue.
Quiet(h) ==
  Arrive(h) \/ AutoUnlock(h) \/ Platform(h) \/ Intake(h) \/ ClearStep(h) \/ NotQueued(h) \/ CancelStep(h)

LEMMA QuietSteps == ASSUME CountInv, NEW h \in Handler, Quiet(h) PROVE CountInv'
<1> USE ModeAssumption
<1>t. ModeTypeOK /\ Placed
  BY DEF CountInv
<1>v. /\ mode \in Maybe /\ url \in Maybe /\ waiting \in BOOLEAN /\ seen \subseteq Section
      /\ on[h] \in Maybe /\ snap[h] \in Reads /\ snap[h].mode \in Maybe /\ None \in Maybe
      /\ Section \subseteq Maybe
  BY <1>t DEF ModeTypeOK, Reads, Maybe
<1>a. Await = {"idle", "read", "judge", "unlock", "decide", "leaveStep", "setMode", "begin",
               "answer", "ask", "askLink", "clearRead", "clear", "restore", "submit",
               "pushed", "cancelClear", "cancelKeep"}
  BY DEF Await
<1>p. pc[h] \notin {"idle", "cancelClear", "cancelKeep"} => on[h] \in Section
  BY <1>t DEF Placed
\* It goes on to p, or ends.
<1>1. ASSUME NEW p \in Await \ {"pushed"}, pc[h] \notin {"pushed", "idle", "cancelClear", "cancelKeep"},
             Goto(h, p), UNCHANGED <<what, on, snap>>,
             mode' \in Maybe, url' \in Maybe, waiting' \in BOOLEAN, UNCHANGED <<seen, active, world>>
      PROVE  CountInv'
  BY <1>t, <1>v, <1>p, <1>1, Moved, QuietStep DEF world
<1>2. ASSUME pc[h] # "pushed", Return(h),
             mode' \in Maybe, url' \in Maybe, waiting' \in BOOLEAN, seen' \subseteq Section,
             UNCHANGED <<active, world>>
      PROVE  CountInv'
  BY <1>t, <1>a, <1>2, Moved, QuietStep DEF world
<1>3. ASSUME NEW w \in Kinds, NEW s \in Maybe, NEW p \in {"read", "submit"}, Begin(h, w, s, p), s \in Section,
             UNCHANGED <<fsm, registry, snap, world>>
      PROVE  CountInv'
  BY <1>t, <1>v, <1>a, <1>3, Moved, QuietStep DEF world, fsm, registry
<1>4. ASSUME NEW p \in {"judge", "clear"}, pc[h] \notin {"pushed", "idle", "cancelClear", "cancelKeep"},
             Goto(h, p), ReadData(h), UNCHANGED <<fsm, registry, what, on, world>>
      PROVE  CountInv'
  BY <1>t, <1>v, <1>a, <1>p, <1>4, Moved, QuietStep DEF world, fsm, registry
<1>5. ASSUME Arrive(h) PROVE CountInv'
  <2>1. ASSUME NEW s \in Section, Tap(h, s) \/ Link(h, s) \/ Direct(h, s) PROVE CountInv'
    BY <1>v, <1>3, <2>1 DEF Tap, Link, Direct, Kinds
  <2>2. CASE Choose(h)
    BY <1>v, <1>3, <2>2 DEF Choose, Kinds, Maybe
  <2>3. CASE Cancel(h)
    <3>1. Moves(h, "cancelClear") /\ pc[h] = "idle"
      BY <1>t, <1>v, <2>3 DEF Cancel, Begin, Goto, ReadData, Moves, ModeTypeOK, Kinds, Reads
    <3>2. QED BY <1>v, <1>a, <2>3, <3>1, QuietStep DEF Cancel, world, fsm, registry
  <2>4. CASE Home(h)
    <3>1. Moves(h, "idle")
      BY <1>t, <2>4 DEF Home, frames, Moves, ModeTypeOK, Kinds, Reads
    <3>2. QED BY <1>v, <1>a, <2>4, <3>1, QuietStep DEF Home, world, registry
  <2>5. QED BY <1>5, <2>1, <2>2, <2>3, <2>4 DEF Arrive
<1>6. ASSUME AutoUnlock(h) PROVE CountInv'
  <2>1. CASE ReadMode(h)
    BY <1>4, <2>1 DEF ReadMode
  <2>2. CASE Judge(h)
    BY <1>1, <1>v, <1>a, <2>2 DEF Judge, fsm, registry
  <2>3. CASE Unlock(h)
    <3>1. Moves(h, "decide") /\ on'[h] = on[h]
      BY <1>t, <1>v, <2>3 DEF Unlock, Goto, Remember, Moves, ModeTypeOK, Kinds, Reads
    <3>2. mode' \in Maybe /\ UNCHANGED <<url, waiting, seen, active, world>>
      BY <1>v, <2>3 DEF Unlock, registry
    <3>3. pc[h] = "unlock"
      BY <2>3 DEF Unlock
    <3>4. QED BY <1>v, <1>a, <1>p, <3>1, <3>2, <3>3, QuietStep DEF world
  <2>4. QED BY <1>6, <2>1, <2>2, <2>3 DEF AutoUnlock
<1>7. ASSUME Platform(h) PROVE CountInv'
  <2>1. CASE TapRefused(h)
    BY <1>2, <1>v, <2>1 DEF TapRefused, fsm, registry
  <2>2. CASE TapAllowed(h) \/ LeaveStep(h) \/ SetMode(h)
    BY <1>1, <1>v, <1>a, <2>2 DEF TapAllowed, LeaveStep, SetMode, fsm, registry
  <2>3. CASE BeginSession(h)
    BY <1>2, <1>v, <2>3 DEF BeginSession, fsm
  <2>4. QED BY <1>7, <2>1, <2>2, <2>3 DEF Platform
<1>8. ASSUME Intake(h) PROVE CountInv'
  <2>1. CASE LinkRefused(h) \/ LinkTurnedAway(h) \/ AskLink(h) \/ NeverOffered(h)
    BY <1>2, <1>v, <2>1 DEF LinkRefused, LinkTurnedAway, AskLink, NeverOffered, fsm, registry
  <2>2. CASE LinkAccepted(h) \/ Ask(h)
    BY <1>1, <1>v, <1>a, <2>2 DEF LinkAccepted, Ask, fsm, registry
  <2>5. CASE LinkAnswered(h)
    <3>1. PICK s \in Section, p \in {"ask", "clearRead"} : on' = [on EXCEPT ![h] = s] /\ Goto(h, p)
      BY <2>5 DEF LinkAnswered
    <3>2. pc[h] = "answer" /\ UNCHANGED <<fsm, registry, what, snap, world>>
      BY <2>5 DEF LinkAnswered
    <3>3. Moves(h, p) /\ on'[h] \in Section
      BY <1>t, <1>v, <3>1, <3>2 DEF Goto, Moves, ModeTypeOK, Kinds, Reads
    <3>4. QED BY <1>v, <1>a, <3>2, <3>3, QuietStep DEF world, fsm, registry
  <2>3. CASE Chosen(h)
    <3>1. Moves(h, "clearRead") /\ on'[h] = on[h]
      BY <1>t, <1>v, <2>3 DEF Chosen, Goto, Moves, ModeTypeOK, Kinds, Reads
    <3>2. QED BY <1>v, <1>a, <1>p, <2>3, <3>1, QuietStep DEF Chosen, world, fsm, registry
  <2>4. QED BY <1>8, <2>1, <2>2, <2>3, <2>5 DEF Intake
<1>9. ASSUME ClearStep(h) PROVE CountInv'
  <2>1. CASE ClearRead(h)
    BY <1>4, <2>1 DEF ClearRead
  <2>2. CASE ClearFormat(h)
    <3>1. /\ mode' \in Maybe /\ url' \in Maybe /\ waiting' \in BOOLEAN /\ UNCHANGED <<seen, active, world>>
          /\ pc[h] = "clear"
      BY <1>v, <2>2 DEF ClearFormat, ClearFsm, registry
    <3>2. \/ Return(h)
          \/ \E p \in {"restore", "submit"} : Goto(h, p) /\ UNCHANGED <<what, on, snap>>
      BY <2>2 DEF ClearFormat, AfterClear
    <3>3. QED BY <1>1, <1>2, <1>v, <1>a, <3>1, <3>2
  <2>3. CASE RestoreMode(h)
    <3>1. /\ mode' \in Maybe /\ url' \in Maybe /\ waiting' \in BOOLEAN /\ UNCHANGED <<seen, active, world>>
          /\ pc[h] = "restore"
      BY <1>v, <2>3 DEF RestoreMode, registry
    <3>2. Return(h) \/ (Goto(h, "submit") /\ UNCHANGED <<what, on, snap>>)
      BY <2>3 DEF RestoreMode, AfterClear
    <3>3. QED BY <1>1, <1>2, <1>v, <1>a, <3>1, <3>2
  <2>4. QED BY <1>9, <2>1, <2>2, <2>3 DEF ClearStep
<1>10. CASE NotQueued(h)
  BY <1>2, <1>v, <1>10 DEF NotQueued, fsm, registry
<1>11. ASSUME CancelStep(h) PROVE CountInv'
  <2>1. CASE CancelClear(h)
    <3>1. Moves(h, "cancelKeep") /\ pc[h] # "pushed"
      BY <1>t, <2>1, Moved DEF CancelClear
    <3>2. QED BY <1>v, <1>a, <2>1, <3>1, QuietStep DEF CancelClear, ClearFsm, world, registry
  <2>2. CASE CancelKeep(h)
    BY <1>2, <1>v, <2>2 DEF CancelKeep, registry
  <2>3. QED BY <1>11, <2>1, <2>2 DEF CancelStep
<1>12. QED BY <1>5, <1>6, <1>7, <1>8, <1>9, <1>10, <1>11 DEF Quiet
LEMMA PushedGrows ==
  ASSUME ModeTypeOK, Placed, NEW h \in Handler, pc[h] # "pushed", Moves(h, "pushed"), on'[h] = on[h],
         on[h] \in Section
  PROVE  \A s \in Section : Uncounted(s)' = Uncounted(s) + (IF s = on[h] THEN 1 ELSE 0)
<1>1. /\ pc'[h] = "pushed" /\ \A g \in Handler \ {h} : UNCHANGED <<pc[g], on[g]>>
  BY MovedTypes DEF Await
<1>2. ASSUME NEW s \in Section
      PROVE  PushedOf(s)' = IF s = on[h] THEN PushedOf(s) \cup {h} ELSE PushedOf(s)
  <2>1. \A g \in Handler : g \in PushedOf(s)' <=> (g \in PushedOf(s) \/ (g = h /\ s = on[h]))
    BY <1>1 DEF PushedOf
  <2>2. PushedOf(s) \subseteq Handler /\ PushedOf(s)' \subseteq Handler
    BY DEF PushedOf
  <2>3. QED BY <2>1, <2>2
<1>3. \A s : h \notin PushedOf(s)
  BY DEF PushedOf
<1>4. \A s \in Section : Cardinality(PushedOf(s)') = Cardinality(PushedOf(s)) + (IF s = on[h] THEN 1 ELSE 0)
  BY <1>2, <1>3, UncountedType, FS_AddElement
<1>5. \A s : Cardinality(PushedOf(s)') = Uncounted(s)' /\ Cardinality(PushedOf(s)) = Uncounted(s)
  BY DEF PushedOf, Uncounted
<1>6. QED BY <1>4, <1>5

LEMMA PushedShrinks ==
  ASSUME ModeTypeOK, Placed, NEW h \in Handler, pc[h] = "pushed", Moves(h, "idle")
  PROVE  \A s \in Section : /\ Uncounted(s)' = Uncounted(s) - (IF s = on[h] THEN 1 ELSE 0)
                             /\ Uncounted(s)' \in Nat
<1>1. /\ pc'[h] = "idle" /\ \A g \in Handler \ {h} : UNCHANGED <<pc[g], on[g]>>
  BY MovedTypes DEF Await
<1>2. ASSUME NEW s \in Section
      PROVE  PushedOf(s)' = IF s = on[h] THEN PushedOf(s) \ {h} ELSE PushedOf(s)
  <2>1. \A g \in Handler : g \in PushedOf(s)' <=> (g \in PushedOf(s) /\ g # h)
    BY <1>1 DEF PushedOf
  <2>2. PushedOf(s) \subseteq Handler /\ PushedOf(s)' \subseteq Handler
    BY DEF PushedOf
  <2>3. h \in PushedOf(s) <=> s = on[h]
    BY DEF PushedOf
  <2>4. QED BY <2>1, <2>2, <2>3
<1>3. h \in PushedOf(on[h])
  BY DEF PushedOf
<1>4. \A s \in Section : Cardinality(PushedOf(s)') = Cardinality(PushedOf(s)) - (IF s = on[h] THEN 1 ELSE 0)
  <2> SUFFICES ASSUME NEW s \in Section
               PROVE  Cardinality(PushedOf(s)') = Cardinality(PushedOf(s)) - (IF s = on[h] THEN 1 ELSE 0)
    OBVIOUS
  <2>1. IsFiniteSet(PushedOf(s)) /\ Cardinality(PushedOf(s)) \in Nat
    BY UncountedType
  <2>2. CASE s = on[h]
    <3>1. h \in PushedOf(s) /\ PushedOf(s)' = PushedOf(s) \ {h}
      BY <1>2, <1>3, <2>2
    <3>2. Cardinality(PushedOf(s) \ {h}) = Cardinality(PushedOf(s)) - 1
      BY <2>1, <3>1, FS_RemoveElement
    <3>3. QED BY <2>2, <3>1, <3>2
  <2>3. CASE s # on[h]
    <3>1. PushedOf(s)' = PushedOf(s)
      BY <1>2, <2>3
    <3>2. QED BY <2>1, <2>3, <3>1
  <2>4. QED BY <2>2, <2>3
<1>7. \A s \in Section : Cardinality(PushedOf(s)') \in Nat
  BY <1>2, UncountedType, FS_RemoveElement, FS_CardinalityType
<1>5. \A s : Cardinality(PushedOf(s)') = Uncounted(s)' /\ Cardinality(PushedOf(s)) = Uncounted(s)
  BY DEF PushedOf, Uncounted
<1>6. QED BY <1>4, <1>5, <1>7

LEMMA CountStep == CountInv /\ [Next]_vars => CountInv'
<1> SUFFICES ASSUME CountInv, [Next]_vars PROVE CountInv'
  OBVIOUS
<1> USE ModeAssumption
<1>t. /\ ModeTypeOK /\ Placed /\ active \in [Section -> Nat] /\ live \in [Section -> Nat] /\ jobs \in Nat
      /\ \A s \in Section : Uncounted(s) \in Nat
  BY UncountedType DEF CountInv, ModeTypeOK
<1>p. \A h \in Handler : pc[h] \in {"submit", "pushed"} => on[h] \in Section
  BY <1>t DEF Placed
<1>1. ASSUME NEW h \in Handler, Enqueue(h) PROVE CountInv'
  <2>1. Moves(h, "pushed") /\ on'[h] = on[h] /\ on[h] \in Section /\ pc[h] = "submit"
    BY <1>t, <1>p, <1>1, Moved DEF Enqueue
  <2>2. \A s \in Section : Uncounted(s)' = Uncounted(s) + (IF s = on[h] THEN 1 ELSE 0)
    BY <1>t, <2>1, PushedGrows
  <2>3. /\ \A s \in Section : live'[s] = live[s] + (IF s = on[h] THEN 1 ELSE 0)
        /\ jobs' = jobs + 1 /\ jobs < MaxJobs
        /\ UNCHANGED <<mode, url, waiting, active, seen, restarts, blind, hasty>>
    BY <1>t, <1>1 DEF Enqueue, fsm, registry
  <2>4. \A s \in Section : live'[s] <= jobs' /\ live'[s] \in 0..MaxJobs
    <3>1. \A s \in Section : live[s] <= jobs /\ live[s] \in Nat
      BY <1>t DEF CountInv, Bounded
    <3>2. QED BY <1>t, <2>3, <3>1
  <2>5. live' \in [Section -> 0..MaxJobs]
    BY <1>1, <1>t, <2>4 DEF Enqueue
  <2>6. jobs' \in 0..MaxJobs
    BY <1>t, <2>3
  <2>7. Placed' /\ ModeTypeOK'
    BY <1>t, <2>1, <2>3, <2>5, <2>6, MovedTypes DEF ModeTypeOK, Kinds, Reads, Await
  <2>8. Bounded'
    BY <1>t, <2>2, <2>3, <2>4 DEF CountInv, Bounded
  <2>9. CountCovers' /\ NoPhantom'
    BY <1>t, <2>2, <2>3 DEF CountInv, CountCovers, NoPhantom
  <2>10. QED BY <2>7, <2>8, <2>9 DEF CountInv
<1>2. ASSUME NEW h \in Handler, job_started(h) PROVE CountInv'
  <2>1. Moves(h, "idle") /\ on[h] \in Section /\ pc[h] = "pushed"
    BY <1>t, <1>p, <1>2, Moved DEF job_started
  <2>2. \A s \in Section : /\ Uncounted(s)' = Uncounted(s) - (IF s = on[h] THEN 1 ELSE 0)
                           /\ Uncounted(s)' \in Nat
    BY <1>t, <2>1, PushedShrinks
  <2>3. /\ \A s \in Section : active'[s] = active[s] + (IF s = on[h] THEN 1 ELSE 0)
        /\ active' \in [Section -> Nat] /\ seen' = seen \cup {on[h]}
        /\ UNCHANGED <<mode, url, waiting, live, jobs, restarts, blind, hasty>>
    BY <1>t, <1>2, <2>1 DEF job_started, fsm, world
  <2>4. Bounded'
    BY <1>t, <2>2, <2>3 DEF CountInv, Bounded
  <2>5. active' \in [Section -> 0..MaxJobs]
    <3>1. \A s \in Section : active'[s] <= jobs /\ active'[s] \in Nat
      BY <1>t, <2>2, <2>3, <2>4 DEF Bounded
    <3>2. jobs \in 0..MaxJobs
      BY <1>t DEF ModeTypeOK
    <3>3. QED BY <2>3, <3>1, <3>2
  <2>6. Placed' /\ ModeTypeOK'
    BY <1>t, <2>1, <2>3, <2>5, MovedTypes DEF ModeTypeOK, Kinds, Reads, Await
  <2>7. CountCovers' /\ NoPhantom'
    BY <1>t, <2>2, <2>3 DEF CountInv, CountCovers, NoPhantom
  <2>8. QED BY <2>4, <2>6, <2>7 DEF CountInv
<1>3. ASSUME NEW h \in Handler, EnqueueRaises(h) PROVE CountInv'
  <2>1. Moves(h, "idle") /\ on[h] \in Section /\ pc[h] = "pushed"
    BY <1>t, <1>p, <1>3, Moved DEF EnqueueRaises
  <2>2. \A s \in Section : /\ Uncounted(s)' = Uncounted(s) - (IF s = on[h] THEN 1 ELSE 0)
                           /\ Uncounted(s)' \in Nat
    BY <1>t, <2>1, PushedShrinks
  <2>3. /\ blind' = IF live[on[h]] > 0 THEN blind \cup {on[h]} ELSE blind
        /\ UNCHANGED <<mode, url, waiting, active, seen, live, jobs, restarts, hasty>>
    BY <1>3 DEF EnqueueRaises, fsm, registry
  <2>4. Placed' /\ ModeTypeOK'
    BY <1>t, <2>1, <2>3, MovedTypes DEF ModeTypeOK, Kinds, Reads, Await
  <2>5. Bounded'
    BY <1>t, <2>2, <2>3 DEF CountInv, Bounded
  <2>6. CountCovers' /\ NoPhantom'
    BY <1>t, <2>1, <2>2, <2>3 DEF CountInv, CountCovers, NoPhantom
  <2>7. QED BY <2>4, <2>5, <2>6 DEF CountInv
<1>4. ASSUME NEW s \in Section, job_settled(s) PROVE CountInv'
  <2>1. UNCHANGED <<pc, what, on, snap, mode, url, waiting, seen, jobs, restarts>>
    BY <1>4 DEF job_settled, fsm, frames
  <2>2. \A r \in Section : Uncounted(r)' = Uncounted(r)
    BY <2>1 DEF Uncounted
  <2>3. live[s] > 0 /\ live'[s] = live[s] - 1 /\ active'[s] = IF active[s] = 0 THEN 0 ELSE active[s] - 1
    BY <1>4, <1>t DEF job_settled
  <2>4. \A r \in Section \ {s} : UNCHANGED <<live[r], active[r]>>
    BY <1>4, <1>t DEF job_settled
  <2>5. /\ blind' = IF live[s] = 1 THEN blind \ {s} ELSE blind
        /\ hasty' = IF active[s] = 0 /\ Uncounted(s) > 0 THEN hasty \cup {s} ELSE hasty
    BY <1>4 DEF job_settled
  <2>6. \A r \in Section : live'[r] \in 0..MaxJobs /\ active'[r] \in 0..MaxJobs
                           /\ live'[r] <= live[r] /\ active'[r] <= active[r]
    BY <1>t, <2>3, <2>4 DEF ModeTypeOK
  <2>7. ModeTypeOK'
    BY <1>4, <1>t, <2>1, <2>5, <2>6 DEF ModeTypeOK, job_settled
  <2>8. Placed'
    BY <1>t, <2>1 DEF Placed
  <2>9. Bounded'
    BY <1>t, <2>1, <2>2, <2>6 DEF CountInv, Bounded
  <2>10. CountCovers'
    BY <1>t, <2>2, <2>3, <2>4, <2>5 DEF CountInv, CountCovers
  <2>11. NoPhantom'
    BY <1>t, <2>2, <2>3, <2>4, <2>5 DEF CountInv, NoPhantom
  <2>12. QED BY <2>7, <2>8, <2>9, <2>10, <2>11 DEF CountInv
<1>5. CASE Restart
  <2>1. /\ \A r \in Section : active'[r] = 0
        /\ blind' = {r \in Section : live[r] > 0} /\ hasty' = {}
        /\ UNCHANGED <<mode, url, waiting, live, jobs>>
    BY <1>5 DEF Restart, fsm
  <2>2. \A r : PushedOf(r)' = {}
    BY <1>5 DEF Restart, PushedOf
  <2>3. \A r : Uncounted(r)' = 0
    BY <2>2, FS_EmptySet DEF Uncounted, PushedOf
  <2>4. restarts' \in 0..MaxRestarts /\ 0 \in 0..MaxJobs
    BY <1>5, <1>t DEF Restart, ModeTypeOK
  <2>5. ModeTypeOK'
    BY <1>5, <1>t, <2>4 DEF Restart, ModeTypeOK, fsm, Maybe, Await
  <2>6. Placed'
    BY <1>5 DEF Restart, Placed
  <2>7. Bounded' /\ CountCovers' /\ NoPhantom'
    BY <1>t, <2>1, <2>3 DEF CountInv, Bounded, CountCovers, NoPhantom
  <2>8. QED BY <2>5, <2>6, <2>7 DEF CountInv
<1>6. CASE UNCHANGED vars
  <2>1. UNCHANGED <<mode, url, waiting, active, seen, pc, what, on, snap, live, jobs, restarts, blind, hasty>>
    BY <1>6 DEF vars, fsm, registry, frames, world
  <2>2. \A r : UNCHANGED Uncounted(r)
    BY <2>1 DEF Uncounted
  <2>3. QED BY <2>1, <2>2 DEF CountInv, ModeTypeOK, Placed, Bounded, CountCovers, NoPhantom
<1>7. QED
  BY <1>1, <1>2, <1>3, <1>4, <1>5, <1>6, QuietSteps DEF Next, Submit, Quiet

\* The registry never forgets a job it was told of, however many updates of the
\* user are under way (job_started, job_settled, _ACTIVE).
THEOREM RegistryCovers == Spec => []CountCovers
<1>1. CountInv => CountCovers
  BY DEF CountInv
<1>2. QED BY <1>1, InitMode, CountStep, PTL DEF Spec

\* Nor does it keep a job that is gone, but for one that settled before it was
\* counted (job_settled before job_started).
THEOREM RegistryNoPhantoms == Spec => []NoPhantom
<1>1. CountInv => NoPhantom
  BY DEF CountInv
<1>2. QED BY <1>1, InitMode, CountStep, PTL DEF Spec

-----------------------------------------------------------------------------
(***************************************************************************)
(* The lease, for any number of processes. A holder that met no failure is *)
(* at most one interval from its last write (HeldLease), and whoever       *)
(* writes over another's lease decided so in the tick in which that one    *)
(* was written (Overtaken).                                                *)
(***************************************************************************)

Phases == {"new", "off"} \cup Asleep \cup AtRedis

\* A process that never ran wrote nothing.
Unwritten == \A p \in Process : phase[p] = "new" => holder # p

\* What a holder is doing that has met no failure: it sleeps between two
\* renewals or is about to renew, with no more than one interval off its lease.
Renewing(p) ==
  /\ state[p] = "single"
  /\ \/ phase[p] = "wait" /\ due[p] <= Refresh /\ ttl + Refresh >= TTL + due[p]
     \/ phase[p] \in {"get", "ttl", "set"} /\ why[p] = "renew" /\ ttl + Refresh >= TTL
  /\ phase[p] = "ttl" => saw[p] = p

HeldLease == blips = 0 => \A p \in Up : holder = p => Renewing(p)

\* Whoever is about to write over another's lease decided so before it was
\* written: no time has passed since.
Overtaken ==
  blips = 0 =>
    \A q \in Process : (phase[q] = "set" \/ (phase[q] = "ttl" /\ saw[q] = q)) =>
      (holder \in Up \ {q} => ttl = TTL)

\* Only reads and the DEL are made for a release.
Errand == \A p \in Process : why[p] = "release" => phase[p] \in {"get", "ttl", "del"}

LeaseInv == GuardTypeOK /\ Unwritten /\ Errand /\ HeldLease /\ Overtaken

USE GuardAssumption

LEMMA GuardTypeInit == GuardInit => GuardTypeOK
<1>1. 0 \in 0..TTL /\ 0 \in 0..(Refresh + Grace + Drain) /\ 0 \in 0..MaxBlips /\ 0 \in 0..Calm
  OBVIOUS
<1>2. QED BY <1>1 DEF GuardInit, GuardTypeOK

LEMMA GuardTypeStep == GuardTypeOK /\ [GuardNext]_guardVars => GuardTypeOK'
<1> SUFFICES ASSUME GuardTypeOK, [GuardNext]_guardVars PROVE GuardTypeOK'
  OBVIOUS
<1> USE DEF GuardTypeOK, leaseVars, watchVars, MoveTo, For, Enter, Sleep
<1>n. /\ 0 \in 0..TTL /\ 0 \in 0..(Refresh + Grace + Drain) /\ 0 \in 0..Calm /\ TTL \in 0..TTL /\ TTL # 0
      /\ Refresh \in 0..(Refresh + Grace + Drain) /\ Grace \in 0..(Refresh + Grace + Drain)
      /\ 0..Drain \subseteq 0..(Refresh + Grace + Drain)
  OBVIOUS
<1>a. Asleep = {"wait", "grace", "drain"} /\ AtRedis = {"get", "ttl", "claim", "set", "del"}
  BY DEF Asleep, AtRedis
<1>b. blips < MaxBlips => blips + 1 \in 0..MaxBlips
  OBVIOUS
<1>j. ASSUME NEW p \in Process, NEW s \in {"single", "duplicate"}, Judged(p, s) PROVE GuardTypeOK'
  BY <1>j, <1>n, <1>a DEF Judged
<1>w. ASSUME NEW p \in Process, Write(p) PROVE GuardTypeOK'
  BY <1>w, <1>n, <1>a DEF Write
<1>l. ASSUME NEW p \in Process, Leaves(p), holder' \in Process \cup {NoHolder}, ttl' \in 0..TTL,
             (holder' = NoHolder) <=> (ttl' = 0), blips' \in 0..MaxBlips
      PROVE  GuardTypeOK'
  BY <1>l, <1>n, <1>a DEF Leaves
<1>1. ASSUME NEW p \in Process, Life(p) PROVE GuardTypeOK'
  <2>1. CASE Start(p)
    BY <2>1, <1>n, <1>a DEF Start
  <2>2. CASE GraceOver(p)
    BY <2>2, <1>n, <1>a DEF GraceOver
  <2>3. CASE refresh_once(p)
    BY <2>3, <1>n, <1>a DEF refresh_once
  <2>4. CASE StopRequested(p)
    BY <2>4, <1>n, <1>a DEF StopRequested
  <2>5. CASE GuardStop(p)
    BY <2>5, <1>n, <1>a DEF GuardStop
  <2>6. CASE GuardCrash(p)
    BY <2>6, <1>l DEF GuardCrash
  <2>7. QED BY <1>1, <2>1, <2>2, <2>3, <2>4, <2>5, <2>6 DEF Life
<1>2. ASSUME NEW p \in Process, Read(p) PROVE GuardTypeOK'
  <2>1. CASE GetFound(p)
    BY <2>1, <1>n, <1>a DEF GetFound
  <2>2. CASE GetAbsent(p)
    BY <2>2, <1>n, <1>a DEF GetAbsent
  <2>3. CASE RereadAbsent(p)
    BY <2>3, <1>j DEF RereadAbsent
  <2>4. CASE TtlBoot(p)
    BY <2>4, <1>n, <1>a DEF TtlBoot
  <2>5. CASE TtlOwn(p)
    BY <2>5, <1>n, <1>a, <1>j DEF TtlOwn
  <2>6. CASE TtlNotMine(p)
    BY <2>6, <1>n, <1>a DEF TtlNotMine
  <2>7. CASE TtlStale(p)
    BY <2>7, <1>n, <1>a DEF TtlStale
  <2>8. CASE TtlLive(p)
    BY <2>8, <1>j DEF TtlLive
  <2>9. QED BY <1>2, <2>1, <2>2, <2>3, <2>4, <2>5, <2>6, <2>7, <2>8 DEF Read
<1>3. ASSUME NEW p \in Process, Command(p) PROVE GuardTypeOK'
  <2>1. CASE ClaimWon(p) \/ SetLease(p)
    BY <2>1, <1>w DEF ClaimWon, SetLease
  <2>2. CASE ClaimLost(p)
    BY <2>2, <1>n, <1>a DEF ClaimLost
  <2>3. CASE NotOurs(p)
    BY <2>3, <1>l DEF NotOurs
  <2>4. CASE ReleaseOurs(p)
    BY <2>4, <1>n, <1>a DEF ReleaseOurs
  <2>5. CASE DelLease(p)
    BY <2>5, <1>l, <1>n DEF DelLease
  <2>6. QED BY <1>3, <2>1, <2>2, <2>3, <2>4, <2>5 DEF Command
<1>4. ASSUME NEW p \in Process, Blip(p) PROVE GuardTypeOK'
  <2>1. CASE why[p] = "release"
    BY <1>4, <2>1, <1>b, <1>l DEF Blip
  <2>2. CASE why[p] # "release"
    BY <1>4, <2>2, <1>b, <1>n, <1>a DEF Blip
  <2>3. QED BY <2>1, <2>2
<1>5. ASSUME NEW p \in Process, TtlRaises(p) PROVE GuardTypeOK'
  BY <1>5, <1>b, <1>n, <1>a DEF TtlRaises
<1>6. CASE Tick
  <2>1. due' \in [Process -> 0..(Refresh + Grace + Drain)]
    BY <1>6, <1>a DEF Tick
  <2>2. ttl' \in 0..TTL /\ calm' \in 0..Calm
    BY <1>6 DEF Tick
  <2>3. holder' \in Process \cup {NoHolder} /\ ((holder' = NoHolder) <=> (ttl' = 0))
    BY <1>6 DEF Tick
  <2>4. QED BY <1>6, <2>1, <2>2, <2>3 DEF Tick
<1>7. CASE UNCHANGED guardVars
  BY <1>7 DEF guardVars
<1>8. QED BY <1>1, <1>2, <1>3, <1>4, <1>5, <1>6, <1>7 DEF GuardNext
-----------------------------------------------------------------------------
\* A process moves and leaves the lease and the others alone.
Steps(p) ==
  /\ UNCHANGED leaseVars
  /\ \A q \in Process \ {p} : UNCHANGED <<state[q], phase[q], why[q], saw[q], due[q]>>

LEMMA InitLease == GuardInit => LeaseInv
<1> SUFFICES ASSUME GuardInit PROVE LeaseInv
  OBVIOUS
<1>1. GuardTypeOK
  BY GuardTypeInit
<1>2. QED BY <1>1 DEF GuardInit, LeaseInv, Unwritten, Errand, HeldLease, Overtaken, Up

\* What a step of one process that leaves the lease alone has to show: it stays
\* a renewing holder if it was one, and does not come to write with a claim that
\* is no longer right.
LEMMA Aside ==
  ASSUME LeaseInv, GuardTypeOK', NEW p \in Process, Steps(p), phase'[p] # "new",
         why'[p] = "release" => phase'[p] \in {"get", "ttl", "del"},
         blips' = 0 => blips = 0,
         p \in Up' => p \in Up \/ phase[p] = "new",
         blips' = 0 /\ p \in Up' /\ p \in Up /\ holder = p => Renewing(p)',
         phase'[p] = "set" \/ (phase'[p] = "ttl" /\ saw'[p] = p) =>
           \/ phase[p] = "set" \/ (phase[p] = "ttl" /\ saw[p] = p)
           \/ holder = p \/ (blips' = 0 => ttl <= Stale)
  PROVE  LeaseInv'
<1>0. /\ holder \in Process \cup {NoHolder} /\ ttl \in Nat /\ ttl' = ttl /\ holder' = holder
  BY DEF LeaseInv, GuardTypeOK, Steps, leaseVars
<1>1. \A q \in Process \ {p} : UNCHANGED <<state[q], phase[q], why[q], saw[q], due[q]>>
  BY DEF Steps
<1>2. \A q \in Process \ {p} : q \in Up' <=> q \in Up
  BY <1>1 DEF Up
<1>3. Unwritten'
  BY <1>0, <1>1 DEF LeaseInv, Unwritten
<1>4. p \in Up' /\ holder = p => p \in Up
  BY DEF LeaseInv, Unwritten
<1>5. Up' \subseteq Process
  BY DEF Up
<1>6. HeldLease'
  <2> SUFFICES ASSUME blips' = 0, NEW q \in Up', holder = q PROVE Renewing(q)'
    BY <1>0 DEF HeldLease
  <2>1. CASE q = p
    BY <1>4, <2>1
  <2>2. CASE q # p
    <3>1. q \in Process \ {p} /\ q \in Up
      BY <1>2, <1>5, <2>2
    <3>2. Renewing(q)
      BY <3>1 DEF LeaseInv, HeldLease
    <3>3. QED BY <1>0, <1>1, <3>1, <3>2 DEF Renewing
  <2>3. QED BY <2>1, <2>2
<1>7. blips = 0 /\ holder \in Up => ttl > Stale
  BY <1>0 DEF LeaseInv, HeldLease, Renewing, GuardTypeOK, Up
<1>8. Overtaken'
  <2> SUFFICES ASSUME blips' = 0, NEW q \in Process, holder \in Up' \ {q},
                      phase'[q] = "set" \/ (phase'[q] = "ttl" /\ saw'[q] = q)
               PROVE  ttl = TTL
    BY <1>0 DEF Overtaken
  <2>1. holder \in Up
    BY <1>2, <1>4, <1>5
  <2>2. CASE q = p
    <3>1. phase[p] = "set" \/ (phase[p] = "ttl" /\ saw[p] = p)
      BY <1>0, <1>7, <2>1, <2>2
    <3>2. QED BY <2>1, <2>2, <3>1 DEF LeaseInv, Overtaken
  <2>3. CASE q # p
    BY <1>1, <2>1, <2>3 DEF LeaseInv, Overtaken
  <2>4. QED BY <2>2, <2>3
<1>9. Errand'
  BY <1>1 DEF LeaseInv, Errand
<1>10. QED BY <1>3, <1>6, <1>8, <1>9 DEF LeaseInv

\* A write makes its process a holder that has just renewed.
LEMMA Written ==
  ASSUME LeaseInv, GuardTypeOK', NEW p \in Process, Write(p), why[p] # "release"
  PROVE  LeaseInv'
<1>1. /\ holder' = p /\ ttl' = TTL /\ blips' = blips
      /\ \A q \in Process \ {p} : UNCHANGED <<state[q], phase[q], why[q], saw[q], due[q]>>
      /\ phase'[p] = "wait" /\ due'[p] = Refresh /\ state'[p] = "single" /\ why' = why
  BY DEF Write, Enter, Sleep, MoveTo, LeaseInv, GuardTypeOK
<1>2. Unwritten'
  BY <1>1 DEF Unwritten
<1>3. Renewing(p)'
  BY <1>1 DEF Renewing
<1>4. Errand'
  BY <1>1 DEF LeaseInv, Errand
<1>5. QED BY <1>1, <1>2, <1>3, <1>4 DEF LeaseInv, HeldLease, Overtaken

LEMMA LeaseStep == LeaseInv /\ [GuardNext]_guardVars => LeaseInv'
<1> SUFFICES ASSUME LeaseInv, [GuardNext]_guardVars PROVE LeaseInv'
  OBVIOUS
<1>t. GuardTypeOK /\ GuardTypeOK'
  BY GuardTypeStep DEF LeaseInv
<1>f. /\ state \in [Process -> {"unknown", "single", "duplicate"}]
      /\ phase \in [Process -> {"new", "off"} \cup Asleep \cup AtRedis]
      /\ why \in [Process -> {"boot", "renew", "observe", "reread", "release"}]
      /\ saw \in [Process -> Process \cup {NoHolder}]
      /\ due \in [Process -> 0..(Refresh + Grace + Drain)]
      /\ blips \in Nat /\ blips' \in Nat /\ ttl \in Nat /\ holder \in Process \cup {NoHolder}
  BY <1>t DEF GuardTypeOK
<1> USE DEF MoveTo, For, Enter, Sleep
<1>e. \A p \in Process : why[p] = "release" => phase[p] \in {"get", "ttl", "del"}
  BY DEF LeaseInv, Errand
<1>h. \A p \in Up : blips = 0 /\ holder = p => Renewing(p)
  BY DEF LeaseInv, HeldLease
<1>j. ASSUME NEW p \in Process, NEW s \in {"single", "duplicate"}, Judged(p, s),
             p \in Up => ~(blips = 0 /\ holder = p), phase[p] \notin {"new", "off", "drain"},
             why[p] # "release"
      PROVE  LeaseInv'
  <2>1. Steps(p) /\ phase'[p] = "wait" /\ blips' = blips /\ why'[p] = why[p]
    BY <1>f, <1>j DEF Judged, Steps
  <2>2. p \in Up
    BY <1>j DEF Up
  <2>3. QED BY <1>t, <1>j, <2>1, <2>2, Aside
<1>l. ASSUME NEW p \in Process, Leaves(p), UNCHANGED leaseVars, blips' = 0 => blips = 0 PROVE LeaseInv'
  <2>1. Steps(p) /\ phase'[p] = "off" /\ p \notin Up' /\ why'[p] = "boot"
    BY <1>f, <1>l DEF Leaves, Steps, Up
  <2>2. QED BY <1>t, <1>l, <2>1, Aside
<1>1. ASSUME NEW p \in Process, Life(p) PROVE LeaseInv'
  <2>1. CASE Start(p)
    <3>1. Steps(p) /\ phase'[p] = "get" /\ phase[p] = "new" /\ blips' = blips /\ p \notin Up
      BY <1>f, <2>1 DEF Start, Steps, Up
    <3>2. QED BY <1>t, <3>1, Aside
  <2>2. CASE GraceOver(p)
    <3>1. Steps(p) /\ phase'[p] = "get" /\ phase[p] = "grace" /\ blips' = blips
      BY <1>f, <2>2 DEF GraceOver, Steps
    <3>2. p \in Up' => p \in Up /\ ~Renewing(p)
      BY <1>f, <1>e, <2>2, <3>1 DEF GraceOver, Up, Renewing
    <3>x. QED BY <1>t, <1>h, <3>1, <3>2, Aside
  <2>3. CASE refresh_once(p)
    <3>1. Steps(p) /\ phase'[p] = "get" /\ phase[p] = "wait" /\ due[p] = 0 /\ blips' = blips
      BY <1>f, <2>3 DEF refresh_once, Steps
    <3>2. p \in Up' => p \in Up
      BY <1>f, <1>e, <2>3, <3>1 DEF Up
    <3>3. Renewing(p) => Renewing(p)'
      BY <1>f, <2>3, <3>1 DEF refresh_once, Renewing, Steps, leaseVars
    <3>x. QED BY <1>t, <1>h, <3>1, <3>2, <3>3, Aside
  <2>4. CASE StopRequested(p)
    <3>1. Steps(p) /\ phase'[p] = "drain" /\ phase[p] = "wait" /\ blips' = blips /\ why'[p] # "release"
      BY <1>f, <1>e, <2>4 DEF StopRequested, Steps
    <3>2. p \notin Up'
      BY <3>1 DEF Up
    <3>x. QED BY <1>t, <3>1, <3>2, Aside
  <2>5. CASE GuardStop(p)
    <3>1. Steps(p) /\ phase'[p] = "get" /\ why'[p] = "release" /\ blips' = blips
      BY <1>f, <2>5 DEF GuardStop, Steps
    <3>2. p \notin Up'
      BY <3>1 DEF Up
    <3>x. QED BY <1>t, <3>1, <3>2, Aside
  <2>6. CASE GuardCrash(p)
    BY <1>l, <2>6 DEF GuardCrash
  <2>7. QED BY <1>1, <2>1, <2>2, <2>3, <2>4, <2>5, <2>6 DEF Life
<1>2. ASSUME NEW p \in Process, Read(p) PROVE LeaseInv'
  <2>1. CASE GetFound(p)
    <3>1. Steps(p) /\ phase'[p] = "ttl" /\ saw'[p] = holder /\ phase[p] = "get" /\ blips' = blips
      BY <1>f, <2>1 DEF GetFound, Steps
    <3>2. p \in Up' => p \in Up
      BY <1>f, <2>1, <3>1 DEF GetFound, Up
    <3>3. Renewing(p) /\ holder = p => Renewing(p)'
      BY <1>f, <2>1, <3>1 DEF GetFound, Renewing, Steps, leaseVars
    <3>x. QED BY <1>t, <1>h, <3>1, <3>2, <3>3, Aside
  <2>2. CASE GetAbsent(p)
    <3>1. Steps(p) /\ phase'[p] \in {"get", "claim"} /\ phase[p] = "get" /\ blips' = blips /\ holder = NoHolder
          /\ why'[p] # "release"
      BY <1>f, <2>2 DEF GetAbsent, Steps
    <3>2. p \in Up' => p \in Up
      BY <1>f, <2>2, <3>1 DEF GetAbsent, Up
    <3>x. QED BY <1>t, <3>1, <3>2, Aside
  <2>3. CASE RereadAbsent(p)
    BY <1>j, <2>3 DEF RereadAbsent
  <2>4. CASE TtlBoot(p)
    <3>1. Steps(p) /\ phase'[p] = "grace" /\ phase[p] = "ttl" /\ blips' = blips /\ why[p] = "boot" /\ why'[p] = "boot"
      BY <1>f, <2>4 DEF TtlBoot, Steps
    <3>2. p \in Up' => p \in Up /\ ~Renewing(p)
      BY <1>f, <2>4, <3>1 DEF TtlBoot, Up, Renewing
    <3>x. QED BY <1>t, <1>h, <3>1, <3>2, Aside
  <2>5. CASE TtlOwn(p) /\ why[p] = "renew"
    <3>1. Steps(p) /\ phase'[p] = "set" /\ phase[p] = "ttl" /\ saw[p] = p /\ blips' = blips /\ why'[p] = "renew"
      BY <1>f, <2>5 DEF TtlOwn, Steps
    <3>2. p \in Up' => p \in Up
      BY <1>f, <2>5, <3>1 DEF TtlOwn, Up
    <3>3. Renewing(p) => Renewing(p)'
      BY <1>f, <2>5, <3>1 DEF TtlOwn, Renewing, Steps, leaseVars
    <3>x. QED BY <1>t, <1>h, <3>1, <3>2, <3>3, Aside
  <2>6. CASE TtlOwn(p) /\ why[p] # "renew"
    <3>1. Judged(p, "single") /\ phase[p] = "ttl" /\ why[p] \in {"observe", "reread"}
      BY <2>6 DEF TtlOwn
    <3>2. ~Renewing(p)
      BY <3>1 DEF Renewing
    <3>x. QED BY <1>h, <1>j, <3>1, <3>2
  <2>7. CASE TtlNotMine(p)
    <3>1. Steps(p) /\ phase'[p] = "get" /\ phase[p] = "ttl" /\ saw[p] # p /\ blips' = blips
      BY <1>f, <2>7 DEF TtlNotMine, Steps
    <3>2. p \in Up' => p \in Up /\ ~Renewing(p)
      BY <1>f, <2>7, <3>1 DEF TtlNotMine, Up, Renewing
    <3>x. QED BY <1>t, <1>h, <3>1, <3>2, Aside
  <2>8. CASE TtlStale(p)
    <3>1. Steps(p) /\ phase'[p] = "set" /\ phase[p] = "ttl" /\ saw[p] # p /\ blips' = blips /\ ttl <= Stale
          /\ why'[p] = "observe"
      BY <1>f, <2>8 DEF TtlStale, IsStale, Steps
    <3>2. p \in Up' => p \in Up /\ ~Renewing(p)
      BY <1>f, <2>8, <3>1 DEF TtlStale, Up, Renewing
    <3>x. QED BY <1>t, <1>h, <3>1, <3>2, Aside
  <2>9. CASE TtlLive(p)
    <3>1. Judged(p, "duplicate") /\ phase[p] = "ttl" /\ why[p] \in {"observe", "reread"}
      BY <2>9 DEF TtlLive
    <3>2. ~Renewing(p)
      BY <3>1 DEF Renewing
    <3>x. QED BY <1>h, <1>j, <3>1, <3>2
  <2>10. QED BY <1>2, <2>1, <2>2, <2>3, <2>4, <2>5, <2>6, <2>7, <2>8, <2>9 DEF Read
<1>3. ASSUME NEW p \in Process, Command(p) PROVE LeaseInv'
  <2>1. CASE ClaimWon(p) \/ SetLease(p)
    BY <1>t, <1>e, <2>1, Written DEF ClaimWon, SetLease
  <2>2. CASE ClaimLost(p)
    <3>4. why[p] # "release" /\ phase[p] = "claim"
      BY <1>e, <2>2 DEF ClaimLost
    <3>1. Steps(p) /\ phase'[p] \in {"grace", "get"} /\ why'[p] # "release" /\ blips' = blips
      BY <1>f, <2>2, <3>4 DEF ClaimLost, Steps
    <3>2. p \in Up' => p \in Up
      BY <1>f, <2>2, <3>4 DEF ClaimLost, Up
    <3>3. ~Renewing(p)
      BY <3>4 DEF Renewing
    <3>x. QED BY <1>t, <1>h, <3>1, <3>2, <3>3, <3>4, Aside
  <2>3. CASE NotOurs(p)
    BY <1>l, <2>3 DEF NotOurs
  <2>4. CASE ReleaseOurs(p)
    <3>1. Steps(p) /\ phase'[p] = "del" /\ blips' = blips /\ p \notin Up'
      BY <1>f, <2>4 DEF ReleaseOurs, Steps, Up
    <3>x. QED BY <1>t, <3>1, Aside
  <2>5. CASE DelLease(p)
    <3>1. holder' = NoHolder
      BY <2>5 DEF DelLease
    <3>2. \A q \in Process : holder' # q
      BY <3>1
    <3>3. Up' \subseteq Process
      BY DEF Up
    <3>4. Errand'
      BY <1>f, <1>e, <2>5 DEF DelLease, Leaves, Errand
    <3>5. QED BY <1>t, <3>2, <3>3, <3>4 DEF LeaseInv, Unwritten, HeldLease, Overtaken
  <2>6. QED BY <1>3, <2>1, <2>2, <2>3, <2>4, <2>5 DEF Command
<1>4. ASSUME NEW p \in Process, Blip(p) PROVE LeaseInv'
  <2>0. blips' # 0 /\ UNCHANGED leaseVars
    BY <1>f, <1>4 DEF Blip
  <2>1. Unwritten'
    BY <1>f, <1>4, <2>0 DEF Blip, Leaves, LeaseInv, Unwritten, leaseVars
  <2>2. Errand'
    BY <1>f, <1>e, <1>4 DEF Blip, Leaves, Errand
  <2>3. QED BY <1>t, <2>0, <2>1, <2>2 DEF LeaseInv, HeldLease, Overtaken
<1>5. ASSUME NEW p \in Process, TtlRaises(p) PROVE LeaseInv'
  <2>0. blips' # 0 /\ UNCHANGED leaseVars
    BY <1>f, <1>5 DEF TtlRaises
  <2>1. Unwritten'
    BY <1>f, <1>5, <2>0 DEF TtlRaises, LeaseInv, Unwritten, leaseVars
  <2>2. Errand'
    BY <1>f, <1>e, <1>5 DEF TtlRaises, Errand
  <2>3. QED BY <1>t, <2>0, <2>1, <2>2 DEF LeaseInv, HeldLease, Overtaken
<1>6. CASE Tick
  <2>1. /\ \A q \in Process : phase[q] \notin AtRedis /\ phase'[q] = phase[q]
        /\ UNCHANGED <<state, why, saw, blips>> /\ Up' = Up
    BY <1>6 DEF Tick, Up
  <2>2. holder' \in {holder, NoHolder}
    BY <1>6 DEF Tick
  <2>3. Unwritten'
    BY <2>1, <2>2 DEF LeaseInv, Unwritten
  <2>4. Overtaken'
    BY <2>1 DEF Overtaken, AtRedis
  <2>5. ASSUME blips = 0, NEW p \in Up, holder' = p PROVE Renewing(p)'
    <3>1. p \in Process /\ holder = p /\ Renewing(p)
      BY <1>h, <2>2, <2>5 DEF Up
    <3>2. phase[p] = "wait" /\ state[p] = "single" /\ due[p] <= Refresh /\ ttl + Refresh >= TTL + due[p]
      BY <2>1, <3>1 DEF Renewing, AtRedis
    <3>3. due[p] \in Nat /\ due[p] > 0 /\ due'[p] = due[p] - 1
      BY <1>6, <1>f, <3>1, <3>2 DEF Tick, Asleep
    <3>4. ttl > 0 /\ ttl' = ttl - 1
      BY <1>6, <1>f, <3>2, <3>3 DEF Tick
    <3>5. QED BY <1>f, <2>1, <3>1, <3>2, <3>3, <3>4 DEF Renewing
  <2>6. Errand'
    BY <1>e, <2>1 DEF Errand
  <2>7. QED BY <1>t, <2>1, <2>3, <2>4, <2>5, <2>6 DEF LeaseInv, HeldLease
<1>7. CASE UNCHANGED guardVars
  <2>1. UNCHANGED <<holder, ttl, state, phase, why, saw, due, blips>> /\ Up' = Up
    BY <1>7 DEF guardVars, leaseVars, watchVars, Up
  <2>2. QED BY <1>t, <2>1 DEF LeaseInv, Unwritten, Errand, HeldLease, Overtaken, Renewing
<1>8. QED BY <1>1, <1>2, <1>3, <1>4, <1>5, <1>6, <1>7 DEF GuardNext
-----------------------------------------------------------------------------
\* The lease of a process that renews on time goes only by its own end, by a DEL,
\* or in the tick in which it was written, whoever else reads, claims and takes
\* over (_observe, _takeover, refresh_once): for any number of processes and every
\* timing in which a lease that misses no refresh stays fresher than STALE_TTL_S.
THEOREM LeaseNotStolen == GuardSpec => NeverStolen
<1> DEFINE Excused == \A p \in Up : (blips' = 0 /\ holder = p /\ holder' # p)
                        => \/ p \notin Up' \/ ttl = TTL
                           \/ \E q \in Process : phase[q] = "del" /\ phase'[q] = "off"
<1>1. LeaseInv /\ [GuardNext]_guardVars => Excused
  <2> SUFFICES ASSUME LeaseInv, [GuardNext]_guardVars, NEW p \in Up,
                      blips' = 0, holder = p, holder' # p
               PROVE  \/ ttl = TTL
                      \/ \E q \in Process : phase[q] = "del" /\ phase'[q] = "off"
    OBVIOUS
  <2>1. p \in Process /\ p # NoHolder
    BY DEF Up
  <2>2. /\ blips \in Nat /\ ttl \in Nat /\ phase \in [Process -> {"new", "off"} \cup Asleep \cup AtRedis]
        /\ due \in [Process -> Nat]
    BY DEF LeaseInv, GuardTypeOK
  <2>3. ASSUME NEW q \in Process, Life(q) PROVE FALSE
    BY <2>3 DEF Life, Start, GraceOver, refresh_once, StopRequested, GuardStop, GuardCrash, leaseVars
  <2>4. ASSUME NEW q \in Process, Read(q) PROVE FALSE
    BY <2>4 DEF Read, GetFound, GetAbsent, RereadAbsent, TtlBoot, TtlOwn, TtlNotMine, TtlStale,
                TtlLive, Judged, leaseVars
  <2>5. ASSUME NEW q \in Process, Command(q)
        PROVE  ttl = TTL \/ \E r \in Process : phase[r] = "del" /\ phase'[r] = "off"
    <3>1. CASE SetLease(q)
      <4>1. holder' = q /\ phase[q] = "set" /\ blips = 0
        BY <3>1 DEF SetLease, Write
      <4>2. QED BY <4>1 DEF LeaseInv, Overtaken
    <3>2. CASE DelLease(q)
      BY <3>2, <2>2 DEF DelLease, Leaves, Sleep, MoveTo
    <3>3. QED BY <2>1, <2>5, <3>1, <3>2 DEF Command, ClaimWon, ClaimLost, NotOurs, ReleaseOurs, leaseVars
  <2>6. ASSUME NEW q \in Process, Blip(q) \/ TtlRaises(q) PROVE FALSE
    BY <2>6, <2>2 DEF Blip, TtlRaises, leaseVars
  <2>7. CASE Tick
    <3>1. blips = 0 /\ Renewing(p) /\ phase[p] \notin AtRedis
      BY <2>7, <2>1 DEF Tick, LeaseInv, HeldLease
    <3>2. phase[p] = "wait" /\ ttl + Refresh >= TTL + due[p]
      BY <3>1 DEF Renewing, AtRedis
    <3>3. due[p] > 0
      BY <2>7, <2>1, <3>2 DEF Tick, Asleep
    <3>4. ttl > 1
      BY <2>1, <2>2, <3>2, <3>3
    <3>5. QED BY <2>7, <2>2, <3>4 DEF Tick
  <2>8. QED BY <2>3, <2>4, <2>5, <2>6, <2>7 DEF GuardNext, guardVars, leaseVars
<1>2. GuardSpec => []LeaseInv
  BY InitLease, LeaseStep, PTL DEF GuardSpec
<1>3. QED BY <1>1, <1>2, PTL DEF GuardSpec, NeverStolen
-----------------------------------------------------------------------------
(***************************************************************************)
(* That the lease settles is an account of the calm: the ticks since       *)
(* anybody started, ended or failed bound the age of a dead lease, and     *)
(* each process's next look.                                               *)
(***************************************************************************)

\* The lease is being renewed by a process that is up.
Fresh == holder \in Up /\ Renewing(holder)

\* Once no more than n ticks are calm, p looks at the lease.
LooksBy(p, n) == /\ phase[p] = "wait" => calm + due[p] <= n
                 /\ phase[p] \in AtRedis => calm <= n

\* What a process that holds the lease may be doing.
Holding(p) ==
  \/ phase[p] = "wait" /\ state[p] \in {"single", "unknown"}
  \/ phase[p] \in {"get", "ttl"} /\ why[p] = "observe" /\ state[p] = "unknown"
  \/ phase[p] \in {"get", "ttl", "set"} /\ why[p] = "renew" /\ state[p] = "single"

\* What a process remembers of its own lease is what it has.
SeesOwn(p) ==
  phase[p] = "ttl" => /\ holder = p => saw[p] = p
                      /\ saw[p] = p => \/ why[p] = "release"
                                       \/ why[p] = "renew" /\ state[p] = "single"
                                       \/ why[p] = "observe" /\ state[p] = "unknown"

\* How long a process sleeps; its start is over before time passes.
SleepsShort(p) == /\ phase[p] = "wait" => due[p] <= Refresh
                  /\ phase[p] = "grace" => calm + due[p] <= Grace
                  /\ phase[p] \in AtRedis /\ why[p] = "boot" => calm = 0

\* Whoever lost a claim lost it to a lease of this tick.
LostToNew(p) ==
  /\ phase[p] = "claim" => holder = NoHolder \/ ttl = TTL \/ calm = 0
  /\ phase[p] \in AtRedis /\ why[p] = "reread" => ttl = TTL \/ calm = 0

Local(p) == /\ p \in Up /\ holder = p => Holding(p)
            /\ SeesOwn(p) /\ SleepsShort(p) /\ LostToNew(p)

\* The bounds: a process that failed looks again within one interval, a lease
\* nobody renews is as old as the calm, so it goes stale and is seen to be, nobody
\* overwrites after that, and whoever was overwritten sees it in one more interval.
Seeing == TTL - Stale + Refresh

Recovers == \A p \in Up : state[p] = "unknown" => LooksBy(p, Refresh)
Ages     == ~Fresh /\ holder # NoHolder => ttl + calm <= TTL
Notices  == ~Fresh => \A p \in Up : LooksBy(p, Seeing)
LastSet  == \A p \in Process :
  (phase[p] = "set" \/ (phase[p] = "ttl" /\ saw[p] = p)) /\ holder # p => calm <= Seeing
Settles  == \A p \in Up : holder # p /\ state[p] # "duplicate" => LooksBy(p, Settled)

Calming == Recovers /\ Ages /\ Notices /\ LastSet /\ Settles

CalmInv == LeaseInv /\ (\A p \in Process : Local(p)) /\ Calming

LEMMA Bounds == /\ Seeing \in Nat /\ Settled \in Nat /\ Settled = Seeing + Refresh
                /\ 2 * Refresh < Seeing /\ Grace <= Refresh /\ Seeing = TTL - Stale + Refresh
BY DEF Seeing, Settled

\* Right after a start, an end or a failure no bound is near.
LEMMA Unrest ==
  ASSUME LeaseInv', \A p \in Process : Local(p)', calm' = 0
  PROVE  Calming'
<1>1. \A p \in Process : phase'[p] = "wait" => due'[p] <= Refresh
  BY DEF Local, SleepsShort
<1>2. ttl' \in 0..TTL /\ due' \in [Process -> Nat]
  BY DEF LeaseInv, GuardTypeOK
<1>3. Up' \subseteq Process
  BY DEF Up
<1>4. \A p \in Process : LooksBy(p, Refresh)' /\ LooksBy(p, Seeing)' /\ LooksBy(p, Settled)'
  BY <1>1, <1>2, Bounds DEF LooksBy, Seeing, Settled
<1>5. Recovers' /\ Notices' /\ Settles'
  BY <1>3, <1>4 DEF Recovers, Notices, Settles, Seeing, Settled
<1>6. Ages' /\ LastSet'
  BY <1>2, Bounds DEF Ages, LastSet, Seeing
<1>7. QED BY <1>5, <1>6 DEF Calming

\* A step of one process that leaves the lease alone says nothing new of the others.
LEMMA OthersLocal ==
  ASSUME CalmInv, NEW p \in Process, Steps(p), calm' \in {0, calm}, Local(p)'
  PROVE  \A q \in Process : Local(q)'
<1> SUFFICES ASSUME NEW q \in Process \ {p} PROVE Local(q)'
  OBVIOUS
<1>1. /\ UNCHANGED <<state[q], phase[q], why[q], saw[q], due[q], holder, ttl>>
      /\ q \in Up' <=> q \in Up
  BY DEF Steps, Up, leaseVars
<1>2. Local(q)
  BY DEF CalmInv
<1>3. due[q] \in Nat /\ calm \in Nat
  BY DEF CalmInv, LeaseInv, GuardTypeOK
<1>4. (q \in Up /\ holder = q => Holding(q))'
  BY <1>1, <1>2 DEF Local, Holding
<1>5. SeesOwn(q)' /\ LostToNew(q)'
  BY <1>1, <1>2 DEF Local, SeesOwn, LostToNew
<1>6. SleepsShort(q)'
  BY <1>1, <1>2, <1>3 DEF Local, SleepsShort
<1>7. QED BY <1>4, <1>5, <1>6 DEF Local

\* A process between two looks moves on: what bounds it and the others still does.
LEMMA MovesOn ==
  ASSUME CalmInv, NEW p \in Process, Steps(p), state' = state, calm' = calm,
         p \in Up' <=> p \in Up,
         p \in Up /\ holder = p /\ Renewing(p) => Renewing(p)',
         \A n \in {Refresh, Seeing, Settled} : p \in Up /\ LooksBy(p, n) => LooksBy(p, n)',
         phase'[p] = "set" \/ (phase'[p] = "ttl" /\ saw'[p] = p) =>
           phase[p] = "set" \/ (phase[p] = "ttl" /\ saw[p] = p) \/ holder = p \/ calm <= Seeing
  PROVE  Calming'
<1>1. /\ \A q \in Process \ {p} : UNCHANGED <<state[q], phase[q], why[q], saw[q], due[q]>>
      /\ UNCHANGED <<holder, ttl>> /\ Up' = Up /\ Up \subseteq Process
  BY DEF Steps, Up, leaseVars
<1>2. Fresh => Fresh'
  BY <1>1 DEF Fresh, Renewing
<1>3. \A q \in Up, n \in {Refresh, Seeing, Settled} : LooksBy(q, n) => LooksBy(q, n)'
  BY <1>1 DEF LooksBy
<1>4. Recovers' /\ Notices' /\ Settles'
  BY <1>1, <1>2, <1>3 DEF CalmInv, Calming, Recovers, Notices, Settles, Seeing, Settled
<1>5. Ages'
  BY <1>1, <1>2 DEF CalmInv, Calming, Ages
<1>6. LastSet'
  BY <1>1 DEF CalmInv, Calming, LastSet, Seeing
<1>7. QED BY <1>4, <1>5, <1>6 DEF Calming

\* A judgement puts the next look one interval off, so it must come in time.
LEMMA JudgedInTime ==
  ASSUME CalmInv, NEW p \in Process, NEW s \in {"single", "duplicate"}, Judged(p, s),
         p \in Up, ~Renewing(p),
         ~Fresh \/ s = "single" => calm + Refresh <= Seeing
  PROVE  Calming'
<1>1. /\ \A q \in Process \ {p} : UNCHANGED <<state[q], phase[q], why[q], saw[q], due[q]>>
      /\ UNCHANGED <<holder, ttl, calm>> /\ Up \subseteq Process /\ why' = why
      /\ phase'[p] = "wait" /\ due'[p] = Refresh /\ state'[p] = s
  BY DEF Judged, Enter, Sleep, MoveTo, Up, leaseVars, CalmInv, LeaseInv, GuardTypeOK
<1>2. Up' = Up
  BY <1>1 DEF Up
<1>3. Fresh => Fresh'
  BY <1>1, <1>2 DEF Fresh, Renewing
<1>4. calm \in Nat
  BY DEF CalmInv, LeaseInv, GuardTypeOK
<1>5. /\ \A q \in Up \ {p}, n \in {Refresh, Seeing, Settled} : LooksBy(q, n) => LooksBy(q, n)'
      /\ calm + Refresh <= Seeing => LooksBy(p, Seeing)' /\ LooksBy(p, Settled)'
  BY <1>1, <1>4, Bounds DEF LooksBy, AtRedis, Seeing, Settled
<1>6. Recovers' /\ Notices' /\ Settles'
  BY <1>1, <1>2, <1>3, <1>5 DEF CalmInv, Calming, Recovers, Notices, Settles, Seeing, Settled
<1>7. Ages'
  BY <1>1, <1>3 DEF CalmInv, Calming, Ages
<1>8. LastSet'
  BY <1>1 DEF CalmInv, Calming, LastSet, Seeing
<1>9. QED BY <1>6, <1>7, <1>8 DEF Calming
\* A write ends the age of the lease; whoever it overwrites was bounded.
LEMMA WriteCalms ==
  ASSUME CalmInv, LeaseInv', NEW p \in Process, Write(p), why[p] # "release",
         holder # NoHolder => phase[p] = "set"
  PROVE  (\A q \in Process : Local(q)') /\ Calming'
<1>1. /\ \A q \in Process \ {p} : UNCHANGED <<state[q], phase[q], why[q], saw[q], due[q]>>
      /\ holder' = p /\ ttl' = TTL /\ calm' = calm /\ why' = why
      /\ phase'[p] = "wait" /\ due'[p] = Refresh /\ state'[p] = "single"
  BY DEF Write, Enter, Sleep, MoveTo, CalmInv, LeaseInv, GuardTypeOK
<1>2. calm \in Nat /\ due \in [Process -> Nat] /\ p # NoHolder
  BY DEF CalmInv, LeaseInv, GuardTypeOK
<1>3. Up' \subseteq Up \cup {p} /\ p \in Up' /\ Up' \subseteq Process
  BY <1>1 DEF Up
<1>4. Local(p)'
  BY <1>1 DEF Local, Holding, SeesOwn, SleepsShort, LostToNew, AtRedis
<1>5. ASSUME NEW q \in Process \ {p} PROVE Local(q)'
  <2>1. Local(q)
    BY DEF CalmInv
  <2>2. holder' # q /\ ttl' = TTL
    BY <1>1
  <2>3. SeesOwn(q)'
    BY <1>1, <2>1 DEF Local, SeesOwn
  <2>4. SleepsShort(q)'
    BY <1>1, <2>1 DEF Local, SleepsShort
  <2>5. QED BY <2>2, <2>3, <2>4 DEF Local, LostToNew
<1>6. Fresh'
  BY <1>1, <1>3, <1>2 DEF Fresh, Renewing
<1>7. holder # p /\ holder # NoHolder => calm <= Seeing
  BY DEF CalmInv, Calming, LastSet
<1>9. LastSet'
  BY <1>1, <1>2, <1>7 DEF LastSet, CalmInv, Calming, Seeing
<1>10. Recovers'
  BY <1>1, <1>3 DEF Recovers, CalmInv, Calming, LooksBy
<1>11. ASSUME NEW q \in Up', q # p, state'[q] # "duplicate" PROVE LooksBy(q, Settled)'
  <2>1. q \in Up /\ q \in Process /\ state[q] # "duplicate"
    BY <1>1, <1>3, <1>11
  <2>2. CASE holder # q
    <3>1. LooksBy(q, Settled)
      BY <2>1, <2>2 DEF CalmInv, Calming, Settles
    <3>2. QED BY <1>1, <1>11, <2>1, <3>1 DEF LooksBy, Settled
  <2>3. CASE holder = q
    <3>1. calm <= Seeing
      BY <1>7, <1>11, <2>1, <2>3 DEF CalmInv, LeaseInv, GuardTypeOK
    <3>2. phase[q] = "wait" => due[q] <= Refresh
      BY <2>1 DEF CalmInv, Local, SleepsShort
    <3>3. LooksBy(q, Settled)
      BY <1>2, <2>1, <3>1, <3>2, Bounds DEF LooksBy
    <3>4. QED BY <1>1, <1>11, <2>1, <3>3 DEF LooksBy, Settled
  <2>4. QED BY <2>2, <2>3
<1>12. Settles'
  BY <1>1, <1>11 DEF Settles, Settled
<1>13. QED BY <1>4, <1>5, <1>6, <1>9, <1>10, <1>12 DEF Calming, Ages, Notices

\* Time passes while nobody is at Redis: every bound moves with it.
LEMMA TickCalms ==
  ASSUME CalmInv, LeaseInv', Tick
  PROVE  (\A q \in Process : Local(q)') /\ Calming'
<1>0. /\ calm \in 0..Calm /\ ttl \in 0..TTL /\ due \in [Process -> Nat] /\ Calm \in Nat
      /\ holder = NoHolder <=> ttl = 0
  BY DEF CalmInv, LeaseInv, GuardTypeOK
<1>1. /\ \A q \in Process : phase[q] \notin AtRedis
      /\ UNCHANGED <<state, phase, why, saw, blips>> /\ Up' = Up /\ Up \subseteq Process
  BY DEF Tick, Up
<1>2. \A q \in Process : phase[q] \in {"wait", "grace"} => due[q] > 0 /\ due'[q] = due[q] - 1
  BY DEF Tick, Asleep
<1>3. /\ calm' <= calm + 1 /\ calm' \in Nat
      /\ ttl' \in Nat /\ ttl' <= ttl /\ (ttl > 0 => ttl' = ttl - 1)
      /\ holder' \in {holder, NoHolder} /\ (ttl > 1 => holder' = holder)
  BY <1>0 DEF Tick
<1>4. ASSUME NEW q \in Process PROVE Local(q)'
  <2>1. Local(q)
    BY DEF CalmInv
  <2>2. (q \in Up /\ holder = q => Holding(q))'
    BY <1>1, <1>3, <2>1 DEF Local, Holding
  <2>3. SleepsShort(q)'
    BY <1>0, <1>1, <1>2, <1>3, <2>1 DEF Local, SleepsShort
  <2>4. SeesOwn(q)' /\ LostToNew(q)'
    BY <1>1 DEF SeesOwn, LostToNew, AtRedis
  <2>5. QED BY <2>2, <2>3, <2>4 DEF Local
<1>5. \A q \in Up, n \in {Refresh, Seeing, Settled} : LooksBy(q, n) => LooksBy(q, n)'
  BY <1>0, <1>1, <1>2, <1>3, Bounds DEF LooksBy, Seeing, Settled
<1>6. ASSUME Fresh PROVE Fresh'
  <2>1. holder \in Process /\ Renewing(holder) /\ phase[holder] = "wait" /\ state[holder] = "single"
    BY <1>1, <1>6 DEF Fresh, Renewing, AtRedis
  <2>2. due[holder] \in Nat /\ due[holder] > 0 /\ due'[holder] = due[holder] - 1
    BY <1>0, <1>2, <2>1
  <2>3. due[holder] <= Refresh /\ ttl + Refresh >= TTL + due[holder]
    BY <2>1 DEF Renewing
  <2>4. ttl > 1 /\ holder' = holder /\ ttl' = ttl - 1
    BY <1>0, <1>3, <2>2, <2>3
  <2>5. Renewing(holder)'
    BY <1>0, <1>1, <2>1, <2>2, <2>3, <2>4 DEF Renewing
  <2>6. QED BY <1>1, <1>6, <2>4, <2>5 DEF Fresh
<1>7. Recovers' /\ Notices'
  BY <1>1, <1>5, <1>6 DEF CalmInv, Calming, Recovers, Notices, Seeing, Settled
<1>8. Ages'
  BY <1>0, <1>3, <1>6 DEF CalmInv, Calming, Ages
<1>9. LastSet'
  BY <1>1 DEF LastSet, AtRedis
<1>10. ASSUME NEW q \in Up, holder' # q, state[q] # "duplicate" PROVE LooksBy(q, Settled)'
  <2>1. CASE holder # q
    BY <1>5, <1>10, <2>1 DEF CalmInv, Calming, Settles
  <2>2. CASE holder = q
    <3>1. ~Fresh
      BY <1>1, <1>3, <1>6, <1>10, <2>2 DEF Fresh, Up
    <3>2. LooksBy(q, Seeing)
      BY <1>10, <3>1 DEF CalmInv, Calming, Notices
    <3>3. LooksBy(q, Settled)
      BY <1>0, <1>1, <3>2, Bounds DEF LooksBy, Up
    <3>4. QED BY <1>5, <1>10, <3>3
  <2>3. QED BY <2>1, <2>2
<1>11. Settles'
  BY <1>1, <1>10 DEF Settles, Settled
<1>12. QED BY <1>4, <1>7, <1>8, <1>9, <1>11 DEF Calming
LEMMA CalmInit == GuardInit => CalmInv
<1> SUFFICES ASSUME GuardInit PROVE CalmInv
  OBVIOUS
<1>1. LeaseInv
  BY InitLease
<1>2. /\ \A p \in Process : phase[p] = "new"
      /\ holder = NoHolder
  BY DEF GuardInit
<1>3. \A p \in Process : Local(p)
  BY <1>2 DEF Local, SeesOwn, SleepsShort, LostToNew, AtRedis, Up
<1>4. Calming
  BY <1>2 DEF Calming, Recovers, Ages, Notices, LastSet, Settles, LooksBy, AtRedis, Up
<1>5. QED BY <1>1, <1>3, <1>4 DEF CalmInv

LEMMA CalmStep == CalmInv /\ [GuardNext]_guardVars => CalmInv'
<1> SUFFICES ASSUME CalmInv, [GuardNext]_guardVars PROVE CalmInv'
  OBVIOUS
<1>l. LeaseInv'
  BY LeaseStep DEF CalmInv
<1>t. /\ state \in [Process -> {"unknown", "single", "duplicate"}]
      /\ phase \in [Process -> {"new", "off"} \cup Asleep \cup AtRedis]
      /\ why \in [Process -> {"boot", "renew", "observe", "reread", "release"}]
      /\ saw \in [Process -> Process \cup {NoHolder}] /\ due \in [Process -> Nat]
      /\ calm \in Nat /\ ttl \in 0..TTL /\ (holder = NoHolder <=> ttl = 0)
  BY DEF CalmInv, LeaseInv, GuardTypeOK
<1>i. /\ \A q \in Process : Local(q)
      /\ Unwritten /\ Errand
  BY <1>t DEF CalmInv, LeaseInv
<1>a. \A n \in {Refresh, Seeing, Settled} : n \in Nat /\ Refresh <= n
  BY Bounds
<1> USE DEF MoveTo, For, Enter, Sleep
\* A step of one process: what is left to show of it.
<1>r. ASSUME NEW p \in Process, Steps(p), Local(p)', calm' = 0
      PROVE  (\A q \in Process : Local(q)') /\ Calming'
  BY <1>r, <1>l, OthersLocal, Unrest
<1>m. ASSUME NEW p \in Process, Steps(p), Local(p)', state' = state, calm' = calm,
             p \in Up' <=> p \in Up,
             p \in Up /\ holder = p /\ Renewing(p) => Renewing(p)',
             \A n \in {Refresh, Seeing, Settled} : p \in Up /\ LooksBy(p, n) => LooksBy(p, n)',
             phase'[p] = "set" \/ (phase'[p] = "ttl" /\ saw'[p] = p) =>
           phase[p] = "set" \/ (phase[p] = "ttl" /\ saw[p] = p) \/ holder = p \/ calm <= Seeing
      PROVE  (\A q \in Process : Local(q)') /\ Calming'
  BY <1>m, OthersLocal, MovesOn
<1>j. ASSUME NEW p \in Process, NEW s \in {"single", "duplicate"}, Judged(p, s), p \in Up,
             ~Renewing(p), holder = p => s = "single",
             ~Fresh \/ s = "single" => calm + Refresh <= Seeing
      PROVE  (\A q \in Process : Local(q)') /\ Calming'
  <2>1. Steps(p) /\ calm' = calm
    BY <1>j, <1>t DEF Judged, Steps
  <2>2. Local(p)'
    BY <1>j, <1>t DEF Judged, Local, Holding, SeesOwn, SleepsShort, LostToNew, AtRedis, leaseVars
  <2>3. QED BY <1>j, <2>1, <2>2, OthersLocal, JudgedInTime
<1>1. ASSUME NEW p \in Process, Life(p) PROVE (\A q \in Process : Local(q)') /\ Calming'
  <2>1. CASE Start(p)
    <3>1. Steps(p) /\ calm' = 0
      BY <1>t, <2>1 DEF Start, Steps
    <3>2. Local(p)'
      BY <1>t, <1>i, <2>1 DEF Start, Local, SeesOwn, SleepsShort, LostToNew, AtRedis, Unwritten, leaseVars
    <3>3. QED BY <1>r, <3>1, <3>2
  <2>2. CASE GraceOver(p)
    <3>1. Steps(p) /\ calm' = calm /\ state' = state /\ phase'[p] = "get" /\ why'[p] = "observe"
      BY <1>t, <2>2 DEF GraceOver, Steps
    <3>2. holder # p \/ p \notin Up
      BY <1>i, <2>2 DEF GraceOver, Local, Holding
    <3>6. holder' = holder /\ (p \in Up' <=> p \in Up)
      BY <1>t, <1>i, <2>2, <3>1 DEF GraceOver, Up, Errand, leaseVars
    <3>3. Local(p)'
      BY <3>1, <3>2, <3>6 DEF Local, SeesOwn, SleepsShort, LostToNew, AtRedis
    <3>4. calm <= Refresh
      BY <1>t, <1>i, <2>2, Bounds DEF GraceOver, Local, SleepsShort
    <3>5. \A n \in {Refresh, Seeing, Settled} : LooksBy(p, n)'
      BY <1>a, <1>t, <3>1, <3>4 DEF LooksBy, AtRedis, Seeing, Settled
    <3>7. QED BY <1>m, <3>1, <3>2, <3>3, <3>5, <3>6
  <2>3. CASE refresh_once(p)
    <3>1. Steps(p) /\ calm' = calm /\ state' = state /\ phase[p] = "wait" /\ phase'[p] = "get" /\ due[p] = 0
          /\ why'[p] = (IF state[p] = "single" THEN "renew" ELSE "observe")
      BY <1>t, <2>3 DEF refresh_once, Steps
    <3>2. why[p] # "release" /\ p \in Up /\ p \in Up'
      BY <1>i, <3>1 DEF Errand, Up
    <3>3. Local(p)'
      BY <1>t, <1>i, <2>3, <3>1, <3>2 DEF refresh_once, Local, Holding, SeesOwn, SleepsShort, LostToNew, AtRedis, leaseVars
    <3>4. \A n \in {Refresh, Seeing, Settled} : LooksBy(p, n) => LooksBy(p, n)'
      BY <1>a, <1>t, <3>1 DEF LooksBy, AtRedis, Seeing, Settled
    <3>5. Renewing(p) => Renewing(p)'
      BY <1>t, <2>3, <3>1 DEF refresh_once, Renewing, leaseVars
    <3>6. QED BY <1>m, <3>1, <3>2, <3>3, <3>4, <3>5
  <2>4. CASE StopRequested(p)
    <3>1. Steps(p) /\ calm' = 0 /\ phase'[p] = "drain"
      BY <1>t, <2>4 DEF StopRequested, Steps
    <3>2. Local(p)'
      BY <3>1 DEF Local, SeesOwn, SleepsShort, LostToNew, AtRedis, Up
    <3>3. QED BY <1>r, <3>1, <3>2
  <2>5. CASE GuardStop(p)
    <3>1. Steps(p) /\ calm' = calm /\ state' = state /\ phase'[p] = "get" /\ why'[p] = "release"
          /\ p \notin Up /\ p \notin Up'
      BY <1>t, <2>5 DEF GuardStop, Steps, Up
    <3>2. Local(p)'
      BY <1>t, <1>i, <2>5, <3>1 DEF GuardStop, Local, SeesOwn, SleepsShort, LostToNew, AtRedis, leaseVars
    <3>3. QED BY <1>m, <3>1, <3>2
  <2>6. CASE GuardCrash(p)
    <3>1. Steps(p) /\ calm' = 0 /\ phase'[p] = "off"
      BY <1>t, <2>6 DEF GuardCrash, Leaves, Steps
    <3>2. Local(p)'
      BY <3>1 DEF Local, SeesOwn, SleepsShort, LostToNew, AtRedis, Up
    <3>3. QED BY <1>r, <3>1, <3>2
  <2>7. QED BY <1>1, <2>1, <2>2, <2>3, <2>4, <2>5, <2>6 DEF Life
<1>2. ASSUME NEW p \in Process, Read(p) PROVE (\A q \in Process : Local(q)') /\ Calming'
  <2>a. ASSUME phase[p] \in AtRedis, phase'[p] \in AtRedis, Steps(p), calm' = calm
        PROVE  \A n \in {Refresh, Seeing, Settled} : LooksBy(p, n) => LooksBy(p, n)'
    BY <1>t, <2>a DEF LooksBy, AtRedis, Seeing, Settled
  <2>u. phase[p] \in {"get", "ttl"} /\ why[p] # "release" => p \in Up
    BY DEF Up
  <2>1. CASE GetFound(p)
    <3>1. Steps(p) /\ calm' = calm /\ state' = state /\ why' = why /\ phase[p] = "get" /\ phase'[p] = "ttl"
          /\ saw'[p] = holder /\ holder' = holder /\ ttl' = ttl
      BY <1>t, <2>1 DEF GetFound, Steps, leaseVars
    <3>2. p \in Up' <=> p \in Up
      BY <3>1 DEF Up
    <3>3. holder = p /\ p \in Up => Holding(p)
      BY <1>i DEF Local
    <3>4. Local(p)'
      BY <1>t, <1>i, <3>1, <3>2, <3>3 DEF Local, Holding, SeesOwn, SleepsShort, LostToNew, AtRedis, Up
    <3>5. holder = p /\ Renewing(p) => Renewing(p)'
      BY <3>1 DEF Renewing
    <3>6. \A n \in {Refresh, Seeing, Settled} : LooksBy(p, n) => LooksBy(p, n)'
      BY <2>a, <3>1 DEF AtRedis
    <3>7. QED BY <1>m, <3>1, <3>2, <3>4, <3>5, <3>6
  <2>2. CASE GetAbsent(p)
    <3>1. Steps(p) /\ calm' = calm /\ state' = state /\ phase[p] = "get" /\ phase'[p] \in {"get", "claim"}
          /\ holder = NoHolder /\ holder' = holder /\ ttl' = ttl /\ p \in Up /\ why'[p] \notin {"release", "reread"}
          /\ (why'[p] = "boot" => why[p] = "boot")
      BY <1>t, <2>2, <2>u DEF GetAbsent, Steps, leaseVars
    <3>2. p \in Up' /\ p # NoHolder
      BY <3>1 DEF Up
    <3>4. Local(p)'
      BY <1>t, <1>i, <3>1, <3>2 DEF Local, SeesOwn, SleepsShort, LostToNew, AtRedis
    <3>6. \A n \in {Refresh, Seeing, Settled} : LooksBy(p, n) => LooksBy(p, n)'
      BY <2>a, <3>1 DEF AtRedis
    <3>7. QED BY <1>m, <3>1, <3>2, <3>4, <3>6
  <2>3. CASE RereadAbsent(p)
    <3>1. Judged(p, "single") /\ phase[p] = "get" /\ why[p] = "reread" /\ holder = NoHolder
      BY <2>3 DEF RereadAbsent
    <3>2. calm = 0
      BY <1>t, <1>i, <3>1 DEF Local, LostToNew, AtRedis
    <3>3. ~Renewing(p) /\ p \in Up /\ holder # p
      BY <2>u, <3>1 DEF Renewing
    <3>4. QED BY <1>j, <3>1, <3>2, <3>3, Bounds
  <2>4. CASE TtlBoot(p)
    <3>1. Steps(p) /\ calm' = calm /\ phase'[p] = "grace" /\ due'[p] = Grace /\ holder' = holder
          /\ phase[p] = "ttl" /\ why[p] = "boot" /\ p \in Up
      BY <1>t, <2>4, <2>u DEF TtlBoot, Steps, leaseVars
    <3>2. holder # p
      BY <1>i, <3>1 DEF Local, Holding
    <3>3. calm = 0
      BY <1>i, <3>1 DEF Local, SleepsShort, AtRedis
    <3>4. Local(p)'
      BY <3>1, <3>2, <3>3 DEF Local, SeesOwn, SleepsShort, LostToNew, AtRedis
    <3>5. QED BY <1>r, <3>1, <3>3, <3>4
  <2>5. CASE TtlOwn(p) /\ why[p] = "renew"
    <3>1. Steps(p) /\ calm' = calm /\ state' = state /\ why' = why /\ phase[p] = "ttl" /\ phase'[p] = "set"
          /\ saw[p] = p /\ holder' = holder /\ ttl' = ttl /\ why[p] = "renew" /\ p \in Up
      BY <1>t, <2>5, <2>u DEF TtlOwn, Steps, leaseVars
    <3>2. p \in Up'
      BY <3>1 DEF Up
    <3>3. Local(p)'
      BY <1>t, <1>i, <3>1 DEF Local, Holding, SeesOwn, SleepsShort, LostToNew, AtRedis
    <3>4. Renewing(p) => Renewing(p)'
      BY <3>1 DEF Renewing
    <3>5. \A n \in {Refresh, Seeing, Settled} : LooksBy(p, n) => LooksBy(p, n)'
      BY <2>a, <3>1 DEF AtRedis
    <3>6. QED BY <1>m, <3>1, <3>2, <3>3, <3>4, <3>5
  <2>6. CASE TtlOwn(p) /\ why[p] # "renew"
    <3>1. Judged(p, "single") /\ phase[p] = "ttl" /\ saw[p] = p /\ why[p] \in {"observe", "reread"} /\ p \in Up
      BY <2>6, <2>u DEF TtlOwn
    <3>2. why[p] = "observe" /\ state[p] = "unknown"
      BY <1>i, <3>1 DEF Local, SeesOwn
    <3>3. calm <= Refresh
      BY <3>1, <3>2 DEF CalmInv, Calming, Recovers, LooksBy, AtRedis
    <3>4. ~Renewing(p)
      BY <3>1 DEF Renewing
    <3>5. calm + Refresh <= Seeing
      BY <1>t, <3>3, Bounds
    <3>6. QED BY <1>j, <3>1, <3>4, <3>5
  <2>7. CASE TtlNotMine(p)
    <3>1. Steps(p) /\ calm' = calm /\ state' = state /\ phase[p] = "ttl" /\ phase'[p] = "get"
          /\ saw[p] # p /\ holder' = holder /\ ttl' = ttl /\ why'[p] = "observe" /\ p \in Up
      BY <1>t, <2>7, <2>u DEF TtlNotMine, Steps, leaseVars
    <3>2. p \in Up'
      BY <3>1 DEF Up
    <3>3. holder # p
      BY <1>i, <3>1 DEF Local, SeesOwn
    <3>4. Local(p)'
      BY <3>1, <3>3 DEF Local, SeesOwn, SleepsShort, LostToNew, AtRedis
    <3>5. \A n \in {Refresh, Seeing, Settled} : LooksBy(p, n) => LooksBy(p, n)'
      BY <2>a, <3>1 DEF AtRedis
    <3>6. QED BY <1>m, <3>1, <3>2, <3>3, <3>4, <3>5
  <2>8. CASE TtlStale(p)
    <3>1. Steps(p) /\ calm' = calm /\ state' = state /\ phase[p] = "ttl" /\ phase'[p] = "set" /\ ttl <= Stale
          /\ saw[p] # p /\ holder' = holder /\ ttl' = ttl /\ why'[p] = "observe" /\ p \in Up
      BY <1>t, <2>8, <2>u DEF TtlStale, IsStale, Steps, leaseVars
    <3>2. p \in Up'
      BY <3>1 DEF Up
    <3>3. holder # p
      BY <1>i, <3>1 DEF Local, SeesOwn
    <3>4. Local(p)'
      BY <3>1, <3>3 DEF Local, SeesOwn, SleepsShort, LostToNew, AtRedis
    <3>5. \A n \in {Refresh, Seeing, Settled} : LooksBy(p, n) => LooksBy(p, n)'
      BY <2>a, <3>1 DEF AtRedis
    <3>6. ~Fresh
      BY <1>t, <1>i, <3>1 DEF Fresh, Renewing, Up, CalmInv, Local, SleepsShort
    <3>7. calm <= Seeing
      BY <3>1, <3>6 DEF CalmInv, Calming, Notices, LooksBy, AtRedis
    <3>8. QED BY <1>m, <3>1, <3>2, <3>3, <3>4, <3>5, <3>7
  <2>9. CASE TtlLive(p)
    <3>1. Judged(p, "duplicate") /\ phase[p] = "ttl" /\ saw[p] # p /\ why[p] \in {"observe", "reread"} /\ p \in Up
          /\ (why[p] = "observe" => ttl > Stale)
      BY <1>t, <2>9, <2>u DEF TtlLive, IsStale
    <3>2. holder # p
      BY <1>i, <3>1 DEF Local, SeesOwn
    <3>3. ~Renewing(p)
      BY <3>1 DEF Renewing
    <3>4. ASSUME ~Fresh PROVE calm + Refresh <= Seeing
      <4>1. CASE why[p] = "observe"
        <5>1. ttl > Stale /\ holder # NoHolder
          BY <1>t, <3>1, <4>1
        <5>2. ttl + calm <= TTL
          BY <3>4, <5>1 DEF CalmInv, Calming, Ages
        <5>3. QED BY <1>t, <5>1, <5>2, Bounds
      <4>2. CASE why[p] = "reread"
        <5>1. ttl = TTL \/ calm = 0
          BY <1>i, <3>1, <4>2 DEF Local, LostToNew, AtRedis
        <5>2. ttl = TTL => ttl + calm <= TTL
          BY <1>t, <3>4 DEF CalmInv, Calming, Ages
        <5>3. QED BY <1>t, <5>1, <5>2, Bounds
      <4>3. QED BY <3>1, <4>1, <4>2
    <3>5. QED BY <1>j, <3>1, <3>2, <3>3, <3>4
  <2>10. QED BY <1>2, <2>1, <2>2, <2>3, <2>4, <2>5, <2>6, <2>7, <2>8, <2>9 DEF Read
<1>3. ASSUME NEW p \in Process, Command(p) PROVE (\A q \in Process : Local(q)') /\ Calming'
  <2>1. CASE ClaimWon(p) \/ SetLease(p)
    <3>1. Write(p) /\ phase[p] \in {"claim", "set"} /\ (holder # NoHolder => phase[p] = "set")
      BY <2>1 DEF ClaimWon, SetLease
    <3>2. why[p] # "release"
      BY <1>i, <3>1 DEF Errand
    <3>3. QED BY <1>l, <3>1, <3>2, WriteCalms
  <2>2. CASE ClaimLost(p) /\ why[p] = "boot"
    <3>1. Steps(p) /\ calm' = calm /\ phase'[p] = "grace" /\ due'[p] = Grace /\ holder' = holder
          /\ phase[p] = "claim" /\ why[p] = "boot" /\ p \in Up
      BY <1>t, <2>2 DEF ClaimLost, Steps, leaseVars, Up
    <3>2. holder # p
      BY <1>i, <3>1 DEF Local, Holding
    <3>3. calm = 0
      BY <1>i, <3>1 DEF Local, SleepsShort, AtRedis
    <3>4. Local(p)'
      BY <3>1, <3>2, <3>3 DEF Local, SeesOwn, SleepsShort, LostToNew, AtRedis
    <3>5. QED BY <1>r, <3>1, <3>3, <3>4
  <2>3. CASE ClaimLost(p) /\ why[p] # "boot"
    <3>1. Steps(p) /\ calm' = calm /\ state' = state /\ phase[p] = "claim" /\ phase'[p] = "get"
          /\ why'[p] = "reread" /\ holder # NoHolder /\ holder' = holder /\ ttl' = ttl
      BY <1>t, <2>3 DEF ClaimLost, Steps, leaseVars
    <3>2. p \in Up /\ p \in Up'
      BY <1>i, <3>1 DEF Errand, Up
    <3>3. holder # p
      BY <1>i, <3>1, <3>2 DEF Local, Holding
    <3>4. Local(p)'
      BY <1>i, <3>1, <3>3 DEF Local, SeesOwn, SleepsShort, LostToNew, AtRedis
    <3>5. \A n \in {Refresh, Seeing, Settled} : LooksBy(p, n) => LooksBy(p, n)'
      BY <1>t, <3>1 DEF LooksBy, AtRedis, Seeing, Settled
    <3>6. QED BY <1>m, <3>1, <3>2, <3>3, <3>4, <3>5
  <2>4. CASE NotOurs(p)
    <3>1. Steps(p) /\ calm' = 0 /\ phase'[p] = "off"
      BY <1>t, <2>4 DEF NotOurs, Leaves, Steps
    <3>2. Local(p)'
      BY <3>1 DEF Local, SeesOwn, SleepsShort, LostToNew, AtRedis, Up
    <3>3. QED BY <1>r, <3>1, <3>2
  <2>5. CASE ReleaseOurs(p)
    <3>1. Steps(p) /\ calm' = calm /\ state' = state /\ phase'[p] = "del" /\ why[p] = "release" /\ why'[p] = "release"
          /\ p \notin Up /\ p \notin Up'
      BY <1>t, <2>5 DEF ReleaseOurs, Steps, Up
    <3>2. Local(p)'
      BY <3>1 DEF Local, SeesOwn, SleepsShort, LostToNew, AtRedis
    <3>3. QED BY <1>m, <3>1, <3>2
  <2>6. CASE DelLease(p)
    <3>1. /\ \A q \in Process \ {p} : UNCHANGED <<state[q], phase[q], why[q], saw[q], due[q]>>
          /\ calm' = 0 /\ phase'[p] = "off" /\ holder' = NoHolder /\ p # NoHolder
      BY <1>t, <2>6 DEF DelLease, Leaves
    <3>2. ASSUME NEW q \in Process PROVE Local(q)'
      <4>1. holder' # q
        BY <3>1
      <4>2. CASE q = p
        BY <3>1, <4>1, <4>2 DEF Local, SeesOwn, SleepsShort, LostToNew, AtRedis
      <4>3. CASE q # p
        <5>1. Local(q)
          BY <1>i
        <5>2. SeesOwn(q)'
          BY <3>1, <4>1, <4>3, <5>1 DEF Local, SeesOwn
        <5>3. SleepsShort(q)'
          BY <1>t, <3>1, <4>3, <5>1 DEF Local, SleepsShort
        <5>4. QED BY <3>1, <4>1, <5>2, <5>3 DEF Local, LostToNew
      <4>4. QED BY <4>2, <4>3
    <3>3. QED BY <1>l, <3>1, <3>2, Unrest
  <2>7. QED BY <1>3, <2>1, <2>2, <2>3, <2>4, <2>5, <2>6 DEF Command
<1>4. ASSUME NEW p \in Process, Blip(p) PROVE (\A q \in Process : Local(q)') /\ Calming'
  <2>1. Steps(p) /\ calm' = 0 /\ holder' = holder
    BY <1>t, <1>4 DEF Blip, Leaves, Steps, leaseVars
  <2>2. phase'[p] = "off" \/ (phase'[p] = "wait" /\ due'[p] = Refresh /\ state'[p] = "unknown")
    BY <1>t, <1>4 DEF Blip, Leaves
  <2>3. Local(p)'
    BY <2>1, <2>2 DEF Local, Holding, SeesOwn, SleepsShort, LostToNew, AtRedis, Up
  <2>4. QED BY <1>r, <2>1, <2>3
<1>5. ASSUME NEW p \in Process, TtlRaises(p) PROVE (\A q \in Process : Local(q)') /\ Calming'
  <2>1. Steps(p) /\ calm' = 0 /\ holder' = holder /\ phase[p] = "ttl" /\ saw[p] # p /\ phase'[p] = "set"
    BY <1>t, <1>5 DEF TtlRaises, Steps, leaseVars
  <2>2. holder # p
    BY <1>i, <2>1 DEF Local, SeesOwn
  <2>3. Local(p)'
    BY <2>1, <2>2 DEF Local, SeesOwn, SleepsShort, LostToNew, AtRedis
  <2>4. QED BY <1>r, <2>1, <2>3
<1>6. CASE Tick
  BY <1>6, <1>l, TickCalms DEF CalmInv
<1>7. CASE UNCHANGED guardVars
  <2>1. UNCHANGED <<holder, ttl, state, phase, why, saw, due, blips, calm>> /\ Up' = Up
    BY <1>7 DEF guardVars, leaseVars, watchVars, Up
  <2>2. \A q \in Process : Local(q)'
    BY <1>i, <2>1 DEF Local, Holding, SeesOwn, SleepsShort, LostToNew
  <2>3. Fresh' = Fresh
    BY <2>1 DEF Fresh, Renewing
  <2>4. \A q \in Process, n \in {Refresh, Seeing, Settled} : LooksBy(q, n) => LooksBy(q, n)'
    BY <2>1 DEF LooksBy, Seeing, Settled
  <2>5. Up \subseteq Process
    BY DEF Up
  <2>6. Recovers' /\ Notices' /\ Settles'
    BY <2>1, <2>3, <2>4, <2>5 DEF CalmInv, Calming, Recovers, Notices, Settles, Seeing, Settled
  <2>7. Ages' /\ LastSet'
    BY <2>1, <2>3 DEF CalmInv, Calming, Ages, LastSet, Seeing
  <2>8. QED BY <1>l, <2>2, <2>6, <2>7 DEF Calming, CalmInv
<1>8. ASSUME NEW p \in Process, Life(p) \/ Read(p) \/ Command(p) \/ Blip(p) \/ TtlRaises(p) PROVE CalmInv'
  BY <1>l, <1>1, <1>2, <1>3, <1>4, <1>5, <1>8 DEF CalmInv
<1>9. QED BY <1>6, <1>7, <1>8 DEF GuardNext

-----------------------------------------------------------------------------
\* The lease settles (_observe, _takeover, refresh_once): once nobody started,
\* ended or failed for as long as a dead lease takes to go stale and everybody to
\* look twice, exactly one of any number of processes holds it and says so, and
\* every other one warns.
THEOREM OneProcessHolds == GuardSpec => []OneHolder
<1>1. CalmInv => OneHolder
  <2> SUFFICES ASSUME CalmInv, calm > Settled, Up # {}, \A p \in Process : phase[p] \notin AtRedis
               PROVE  \E p \in Up : /\ holder = p /\ state[p] = "single"
                                    /\ \A q \in Up \ {p} : state[q] = "duplicate"
    BY DEF OneHolder
  <2>1. calm \in Nat /\ due \in [Process -> Nat] /\ Up \subseteq Process
        /\ phase \in [Process -> {"new", "off"} \cup Asleep \cup AtRedis]
    BY DEF CalmInv, LeaseInv, GuardTypeOK, Up
  <2>2. \A p \in Process : SleepsShort(p)
    BY DEF CalmInv, Local
  <2>3. ASSUME NEW p \in Up PROVE phase[p] = "wait" /\ ~LooksBy(p, Seeing) /\ ~LooksBy(p, Settled)
    <3>1. phase[p] \in {"wait", "grace"}
      BY <2>1, <2>3 DEF Up, Asleep
    <3>2. phase[p] # "grace"
      BY <2>1, <2>2, <2>3, Bounds DEF SleepsShort
    <3>3. QED BY <2>1, <2>3, <3>1, <3>2, Bounds DEF LooksBy
  <2>4. Fresh
    BY <2>3 DEF CalmInv, Calming, Notices
  <2>5. holder \in Up /\ state[holder] = "single"
    BY <2>4 DEF Fresh, Renewing
  <2>6. \A q \in Up \ {holder} : state[q] = "duplicate"
    BY <2>3 DEF CalmInv, Calming, Settles
  <2>7. QED BY <2>5, <2>6
<1>2. GuardSpec => []CalmInv
  BY CalmInit, CalmStep, PTL DEF GuardSpec
<1>3. QED BY <1>1, <1>2, PTL
-----------------------------------------------------------------------------
(* What the walk does not need: whose draft it is, and the bounds.         *)

DraftInv ==
  /\ asking \subseteq Admin /\ drafted \subseteq Admin
  /\ lock \in SendTap \cup {NoAdmin}
  /\ runs \in 0..MaxRuns
  /\ walk.after \in Account \cup {0}
  /\ \A h \in SendTap : tap[h].at # "idle" => tap[h].who \in Admin

LEMMA DraftInvStep == BroadcastInv /\ DraftInv /\ [BroadcastNext]_broadcastVars => DraftInv'
<1> SUFFICES ASSUME BroadcastInv, DraftInv, [BroadcastNext]_broadcastVars PROVE DraftInv'
  OBVIOUS
<1>1. members \subseteq Account /\ tap \in [SendTap -> Taps] /\ walk \in Walk
  BY DEF BroadcastInv, WalkTypes
<1>2. CASE UNCHANGED broadcastVars
  BY <1>2 DEF broadcastVars, DraftInv
<1>3. CASE \E a \in Admin : AskText(a) \/ Draft(a) \/ CancelDraft(a)
  BY <1>3 DEF AskText, Draft, CancelDraft, DraftInv
<1>4. CASE \E u \in Account : SignUp(u)
  BY <1>4 DEF SignUp, DraftInv
<1>5. ASSUME NEW h \in SendTap, RunStep(h) \/ \E a \in Admin : SendRead(h, a)
      PROVE  DraftInv'
  <2>1. CASE \E a \in Admin : SendRead(h, a)
    BY <1>1, <2>1 DEF SendRead, DraftInv, Taps
  <2>2. CASE SendClear(h)
    <3>1. tap[h].who \in Admin
      BY <2>2 DEF SendClear, DraftInv
    <3>2. \A g \in SendTap : tap'[g].at # "idle" => tap[g].at # "idle" /\ tap'[g].who = tap[g].who
      BY <1>1, <2>2 DEF SendClear, Taps, Idle
    <3>3. QED BY <2>2, <3>1, <3>2 DEF SendClear, DraftInv
  <2>3. CASE SendBusy(h) \/ SendReport(h)
    <3>1. \A g \in SendTap : tap'[g].at # "idle" => tap[g].at # "idle" /\ tap'[g].who = tap[g].who
      BY <1>1, <2>3 DEF SendBusy, SendReport, Taps, Idle
    <3>2. QED BY <2>3, <3>1 DEF SendBusy, SendReport, DraftInv
  <2>4. CASE SendStart(h)
    <3>1. \A g \in SendTap : tap'[g].at # "idle" => tap[g].at # "idle" /\ tap'[g].who = tap[g].who
      BY <1>1, <2>4 DEF SendStart, Taps
    <3>2. walk'.after = 0 /\ runs' = runs + 1 /\ runs < MaxRuns /\ runs' \in 0..MaxRuns
      BY <2>4 DEF SendStart, EmptyWalk, DraftInv
    <3>3. QED BY <2>4, <3>1, <3>2 DEF SendStart, DraftInv
  <2>5. CASE PageRead(h) \/ PageFails(h)
    <3> DEFINE next == PageAfter(walk.after)
               last == CHOOSE u \in next : \A v \in next : v <= u
    <3>1. next # {} => last \in Account
      <4>1. IsFiniteSet(next) /\ next \subseteq Nat /\ next \subseteq Account
        BY <1>1, FS_Subset DEF PageAfter
      <4>2. next # {} => \E x \in next : \A y \in next : y <= x
        BY <4>1, GreatestOf
      <4>3. QED BY <4>1, <4>2
    <3>2. walk'.after \in Account \cup {0}
      BY <1>1, <2>5, <3>1 DEF PageRead, PageFails, DraftInv, Walk
    <3>3. QED BY <2>5, <3>2 DEF PageRead, PageFails, DraftInv
  <2>6. CASE SendOne(h)
    <3>1. walk'.after = walk.after
      BY <1>1, <2>6 DEF SendOne, Walk
    <3>2. QED BY <2>6, <3>1 DEF SendOne, DraftInv
  <2>7. QED BY <1>5, <2>1, <2>2, <2>3, <2>4, <2>5, <2>6 DEF RunStep
<1>6. QED BY <1>2, <1>3, <1>4, <1>5 DEF BroadcastNext

LEMMA BroadcastTypes == BroadcastInv /\ DraftInv => BroadcastTypeOK
<1> SUFFICES ASSUME BroadcastInv, DraftInv PROVE BroadcastTypeOK
  OBVIOUS
<1>1. PICK done \in SUBSET Account : Handled(done)
  BY DEF BroadcastInv
<1>2. IsFiniteSet(done) /\ Cardinality(done) <= Cardinality(Account) /\ Cardinality(Account) \in Nat
  BY FS_Subset, FS_CardinalityType
<1>3. walk \in Walk /\ walk.total <= Cardinality(Account)
      /\ walk.total = walk.sent + walk.blocked + walk.failed
  BY <1>1, <1>2 DEF BroadcastInv, WalkTypes, Handled
<1>4. walk \in [after : Account \cup {0}, page : SUBSET Account, total : Tally,
                sent : Tally, blocked : Tally, failed : Tally, end : Ends]
  BY <1>2, <1>3 DEF DraftInv, Walk, Tally
<1>5. got \in [Account -> 0..2]
  BY <1>1 DEF BroadcastInv, WalkTypes, Handled
<1>6. QED BY <1>4, <1>5 DEF DraftInv, BroadcastInv, WalkTypes, BroadcastTypeOK, Taps, Ends
-----------------------------------------------------------------------------
(***************************************************************************)
(* The parts put beside each other: a step of one leaves the others alone. *)
(***************************************************************************)
DeskInv == TypeInv /\ CountInv /\ GuardTypeOK /\ BroadcastInv /\ DraftInv

LEMMA DeskStep ==
  DeskInv /\ [DeskNext]_<<part, queueVars, vars, guardVars, broadcastVars>> => DeskInv'
<1> SUFFICES ASSUME DeskInv, [DeskNext]_<<part, queueVars, vars, guardVars, broadcastVars>>
             PROVE DeskInv'
  OBVIOUS
<1>1. [QueueNext]_queueVars
  BY DEF DeskNext, Others
<1>2. [Next]_vars
  BY DEF DeskNext, Others
<1>3. [GuardNext]_guardVars
  BY DEF DeskNext, Others
<1>4. [BroadcastNext]_broadcastVars
  BY DEF DeskNext, Others
<1>5. QED
  BY <1>1, <1>2, <1>3, <1>4, TypeStep, CountStep, GuardTypeStep, NextBroadcast, DraftInvStep DEF DeskInv

\* Whichever part runs, the queue, the sections, the lease and the announcement
\* keep their types: an announcement reports no more than there are accounts,
\* and nobody gets it three times (queue.py, download_mode.py,
\* instance_guard.py, broadcast.py).
THEOREM DeskTyped == DeskSpec => []DeskTypeOK
<1>1. DeskInit => DeskInv
  <2>1. BroadcastInit => DraftInv
    BY DEF BroadcastInit, DraftInv, Idle, EmptyWalk
  <2>2. QED BY <2>1, TypeInit, InitMode, GuardTypeInit, InitBroadcast DEF DeskInit, DeskInv
<1>2. DeskInv => DeskTypeOK
  BY BroadcastTypes DEF DeskInv, DeskTypeOK, TypeInv, CountInv
<1>3. QED
  BY <1>1, <1>2, DeskStep, PTL DEF DeskSpec
=============================================================================
