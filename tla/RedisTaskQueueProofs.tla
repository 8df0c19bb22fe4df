------------------------ MODULE RedisTaskQueueProofs ------------------------
(***************************************************************************)
(* Proofs about RedisTaskQueue, for any set of keys and of consumers. The  *)
(* type invariant holds whatever fails; the rest is proved while no claim  *)
(* expires under its job and no cancellation cuts into a release, that is  *)
(* for crashes and for every Redis command that raises, landed or not.     *)
(***************************************************************************)
EXTENDS RedisTaskQueue, FiniteSetTheorems, TLAPS

\* The faults that take a claim away from a job in the air do not happen.
SteadyClaims == "expiry" \notin Faults /\ "cancel" \notin Faults

-----------------------------------------------------------------------------
(* A list that holds nothing twice, but for elements of D, under the       *)
(* commands that change it.                                                *)

Elems(q) == {q[i] : i \in DOMAIN q}
NoDup(q, D) == \A i, j \in DOMAIN q : q[i] = q[j] /\ q[i] \notin D => i = j

\* LPUSH adds one element at the far end (enqueue).
LEMMA AppendElems ==
  ASSUME NEW S, NEW q \in Seq(S), NEW x \in S, NEW D
  PROVE  /\ Append(q, x) \in Seq(S)
         /\ Elems(Append(q, x)) = Elems(q) \cup {x}
         /\ NoDup(q, D) /\ (x \in D \/ x \notin Elems(q)) => NoDup(Append(q, x), D)
<1>1. /\ Append(q, x) \in Seq(S)
      /\ DOMAIN q = 1..Len(q) /\ Len(q) \in Nat
      /\ DOMAIN Append(q, x) = 1..(Len(q) + 1)
      /\ Append(q, x)[Len(q) + 1] = x
      /\ \A i \in 1..Len(q) : Append(q, x)[i] = q[i]
  OBVIOUS
<1>2. 1..(Len(q) + 1) = (1..Len(q)) \cup {Len(q) + 1}
  BY <1>1
<1>3. Elems(Append(q, x)) = Elems(q) \cup {x}
  BY <1>1, <1>2 DEF Elems
<1>4. ASSUME NoDup(q, D), x \in D \/ x \notin Elems(q) PROVE NoDup(Append(q, x), D)
  BY <1>1, <1>2, <1>4 DEF Elems, NoDup
<1>5. QED BY <1>1, <1>3, <1>4

\* RPUSH adds one element at the end the workers pop (requeue, orphans).
LEMMA PushElems ==
  ASSUME NEW S, NEW q \in Seq(S), NEW x \in S, NEW D
  PROVE  /\ <<x>> \o q \in Seq(S)
         /\ Elems(<<x>> \o q) = Elems(q) \cup {x}
         /\ NoDup(q, D) /\ (x \in D \/ x \notin Elems(q)) => NoDup(<<x>> \o q, D)
<1> DEFINE p == <<x>> \o q
<1>1. /\ p \in Seq(S)
      /\ DOMAIN q = 1..Len(q) /\ Len(q) \in Nat
      /\ DOMAIN p = 1..(Len(q) + 1)
      /\ p[1] = x
      /\ \A i \in 2..(Len(q) + 1) : p[i] = q[i - 1]
  OBVIOUS
<1>2. \A i \in 1..Len(q) : i + 1 \in 2..(Len(q) + 1) /\ p[i + 1] = q[i]
  BY <1>1
<1>3. 1..(Len(q) + 1) = {1} \cup (2..(Len(q) + 1))
  BY <1>1
<1>4. \A i \in 2..(Len(q) + 1) : i - 1 \in 1..Len(q)
  BY <1>1
<1> HIDE DEF p
<1>5. Elems(p) = Elems(q) \cup {x}
  <2>1. Elems(p) \subseteq Elems(q) \cup {x}
    BY <1>1, <1>3, <1>4 DEF Elems
  <2>2. Elems(q) \subseteq Elems(p)
    BY <1>1, <1>2, <1>3 DEF Elems
  <2>3. x \in Elems(p)
    BY <1>1, <1>3 DEF Elems
  <2>4. QED BY <2>1, <2>2, <2>3
<1>6. ASSUME NoDup(q, D), x \in D \/ x \notin Elems(q) PROVE NoDup(p, D)
  <2>1. SUFFICES ASSUME NEW i \in 1..(Len(q) + 1), NEW j \in 1..(Len(q) + 1), p[i] = p[j],
                        p[i] \notin D
                 PROVE  i = j
    BY <1>1 DEF NoDup
  <2>2. \A k \in 2..(Len(q) + 1) : p[k] \in Elems(q)
    BY <1>1, <1>4 DEF Elems
  <2>3. CASE i = 1 \/ j = 1
    BY <1>1, <1>3, <1>6, <2>1, <2>2, <2>3
  <2>4. CASE i \in 2..(Len(q) + 1) /\ j \in 2..(Len(q) + 1)
    <3>1. /\ i - 1 \in 1..Len(q) /\ j - 1 \in 1..Len(q)
          /\ q[i - 1] = q[j - 1] /\ q[i - 1] \notin D
      BY <1>1, <1>4, <2>1, <2>4
    <3>2. i - 1 = j - 1
      BY <1>1, <1>6, <3>1 DEF NoDup
    <3>3. QED BY <3>2, <2>4
  <2>5. QED BY <1>3, <2>3, <2>4
<1>7. QED BY <1>1, <1>5, <1>6 DEF p

\* BRPOP takes the element at the head, and only that one (dequeue).
LEMMA TailElems ==
  ASSUME NEW S, NEW q \in Seq(S), q # <<>>, NEW D
  PROVE  /\ Tail(q) \in Seq(S)
         /\ Head(q) \in S /\ Head(q) \in Elems(q)
         /\ Elems(q) = Elems(Tail(q)) \cup {Head(q)}
         /\ NoDup(q, D) => /\ NoDup(Tail(q), D)
                           /\ Head(q) \in D \/ Head(q) \notin Elems(Tail(q))
<1> DEFINE r == Tail(q)
<1>1. /\ r \in Seq(S)
      /\ Len(q) \in Nat /\ Len(q) # 0
      /\ DOMAIN q = 1..Len(q) /\ DOMAIN r = 1..(Len(q) - 1)
      /\ Head(q) = q[1] /\ q[1] \in S
      /\ \A i \in 1..(Len(q) - 1) : r[i] = q[i + 1]
  OBVIOUS
<1>2. 1 \in 1..Len(q) /\ \A i \in 1..(Len(q) - 1) : i + 1 \in 1..Len(q) /\ i + 1 # 1
  BY <1>1
<1>3. \A i \in 1..Len(q) : i = 1 \/ (i - 1 \in 1..(Len(q) - 1) /\ r[i - 1] = q[i])
  BY <1>1
<1> HIDE DEF r
<1>4. Elems(q) = Elems(r) \cup {q[1]}
  <2>1. ASSUME NEW i \in 1..Len(q) PROVE q[i] \in Elems(r) \cup {q[1]}
    <3>1. CASE i = 1
      BY <3>1
    <3>2. CASE i - 1 \in 1..(Len(q) - 1) /\ r[i - 1] = q[i]
      BY <1>1, <3>2 DEF Elems
    <3>3. QED BY <1>3, <3>1, <3>2
  <2>2. Elems(r) \subseteq Elems(q)
    BY <1>1, <1>2 DEF Elems
  <2>3. q[1] \in Elems(q)
    BY <1>1, <1>2 DEF Elems
  <2>4. QED BY <1>1, <2>1, <2>2, <2>3 DEF Elems
<1>5. ASSUME NoDup(q, D) PROVE NoDup(r, D) /\ (q[1] \in D \/ q[1] \notin Elems(r))
  <2>1. q[1] \in D \/ q[1] \notin Elems(r)
    BY <1>1, <1>2, <1>5 DEF NoDup, Elems
  <2>2. ASSUME NEW i \in 1..(Len(q) - 1), NEW j \in 1..(Len(q) - 1), r[i] = r[j],
               r[i] \notin D
        PROVE  i = j
    <3>1. q[i + 1] = q[j + 1] /\ q[i + 1] \notin D
      BY <1>1, <2>2
    <3>2. i + 1 = j + 1
      BY <1>1, <1>2, <1>5, <3>1 DEF NoDup
    <3>3. QED BY <1>1, <3>2
  <2>3. NoDup(r, D)
    BY <1>1, <2>2 DEF NoDup
  <2>4. QED BY <2>1, <2>3
<1>6. QED BY <1>1, <1>4, <1>5 DEF r
-----------------------------------------------------------------------------
(* The type invariant. A consumer past its BRPOP holds a payload; without  *)
(* that, what it puts on the shelf would be untyped.                       *)

TypeInv ==
  /\ QueueTypeOK
  /\ \A c \in Consumer : at[c] # "idle" => has[c] \in Task

LEMMA TypeInit == QueueInit => TypeInv
BY QueueAssumption DEF QueueInit, EmptyMemory, TypeInv, QueueTypeOK, Place

LEMMA TypeGateway ==
  ASSUME TypeInv, NEW k \in Key, Gateway(k) \/ ClaimExpires(k)
  PROVE  TypeInv'
<1> USE QueueAssumption DEF TypeInv, QueueTypeOK
<1>1. CASE EnqueueClaim(k)
  BY <1>1 DEF EnqueueClaim
<1>2. CASE EnqueuePush(k) \/ EnqueuePushUnheard(k)
  <2> DEFINE t == [key |-> k, stamp |-> gate[k]]
  <2>1. t \in Task
    BY <1>2 DEF EnqueuePush, EnqueuePushUnheard, Lands, Task
  <2> HIDE DEF t
  <2>2. Append(queue, t) \in Seq(Task)
    BY <2>1, AppendElems
  <2>3. /\ queue' = Append(queue, t) /\ open' = open \cup {t}
        /\ gate' = [gate EXCEPT ![k] = 0]
        /\ unheard' = unheard \/ unheard' = unheard \cup {t}
        /\ UNCHANGED <<claims, shelf, inflight, at, has, moving, proc, stamp, doubted>>
    BY <1>2 DEF EnqueuePush, EnqueuePushUnheard, Lands, t
  <2>4. QED BY <2>1, <2>2, <2>3
<1>3. CASE EnqueuePushFails(k)
  BY <1>3 DEF EnqueuePushFails, ReleaseRefused
<1>4. CASE ClaimExpires(k)
  BY <1>4 DEF ClaimExpires
<1>5. QED BY <1>1, <1>2, <1>3, <1>4 DEF Gateway

LEMMA TypeRaises ==
  ASSUME TypeInv, NEW t \in unheard, PushRaises(t)
  PROVE  TypeInv'
<1>1. t.key \in Key
  BY DEF TypeInv, QueueTypeOK, Task
<1>2. QED BY <1>1, QueueAssumption DEF TypeInv, QueueTypeOK, PushRaises, ReleaseRefused

LEMMA TypeConsumer ==
  ASSUME TypeInv, NEW c \in Consumer, Take(c) \/ Settle(c) \/ GiveBack(c)
  PROVE  TypeInv'
<1> USE QueueAssumption DEF TypeInv, QueueTypeOK, Place
<1>t. \A t \in Task : t.key \in Key
  BY DEF Task
<1>1. CASE DequeuePop(c)
  <2>1. Tail(queue) \in Seq(Task) /\ Head(queue) \in Task
    BY <1>1, TailElems DEF DequeuePop
  <2>2. QED BY <1>1, <2>1 DEF DequeuePop
<1>2. CASE DequeueShelve(c)
  BY <1>2, <1>t DEF DequeueShelve
<1>3. CASE DequeueShelveFails(c)
  BY <1>3 DEF DequeueShelveFails
<1>4. CASE ReleaseLrem(c)
  BY <1>4, <1>t DEF ReleaseLrem
<1>5. CASE ReleaseDel(c)
  BY <1>5 DEF ReleaseDel
<1>6. CASE ReleaseReturn(c)
  BY <1>6 DEF ReleaseReturn
<1>7. CASE ReleaseFails(c)
  BY <1>7, <1>t DEF ReleaseFails
<1>8. CASE RequeueLrem(c)
  BY <1>8, <1>t DEF RequeueLrem, Raw
<1>9. CASE RequeuePush(c)
  <2>1. has[c] \in Task
    BY <1>9 DEF RequeuePush
  <2>2. <<has[c]>> \o queue \in Seq(Task)
    BY <2>1, PushElems
  <2>3. QED BY <1>9, <2>2 DEF RequeuePush
<1>10. CASE RequeueFails(c)
  BY <1>10, <1>t DEF RequeueFails
<1>11. QED BY <1>1, <1>2, <1>3, <1>4, <1>5, <1>6, <1>7, <1>8, <1>9, <1>10
           DEF Take, Settle, GiveBack

LEMMA TypeProcess ==
  ASSUME TypeInv, Crash \/ Stop \/ Boot \/ Orphans
  PROVE  TypeInv'
<1> USE QueueAssumption DEF TypeInv, QueueTypeOK, Place
<1>1. CASE Crash \/ Stop
  BY <1>1 DEF Crash, Stop, ForgetMemory
<1>2. CASE Boot
  BY <1>2 DEF Boot
<1>3. ASSUME NEW t \in shelf, OrphanPop(t) PROVE TypeInv'
  BY <1>3 DEF OrphanPop
<1>4. CASE OrphanPush
  <2>1. moving \in Task
    BY <1>4 DEF OrphanPush
  <2>2. <<moving>> \o queue \in Seq(Task)
    BY <2>1, PushElems
  <2>3. QED BY <1>4, <2>2 DEF OrphanPush
<1>5. CASE BootDone
  BY <1>5 DEF BootDone
<1>6. QED BY <1>1, <1>2, <1>3, <1>4, <1>5 DEF Orphans

LEMMA TypeStep == TypeInv /\ [QueueNext]_queueVars => TypeInv'
<1>1. ASSUME TypeInv, UNCHANGED queueVars PROVE TypeInv'
  BY <1>1 DEF TypeInv, QueueTypeOK, queueVars
<1>2. QED BY <1>1, TypeGateway, TypeRaises, TypeConsumer, TypeProcess DEF QueueNext

\* Every field keeps its type, whatever fails or dies (queue.py as a whole).
THEOREM TypeCorrect == QueueSpec => []QueueTypeOK
<1>1. TypeInv => QueueTypeOK
  BY DEF TypeInv
<1>2. QED BY <1>1, TypeInit, TypeStep, PTL DEF QueueSpec
-----------------------------------------------------------------------------
(* The inductive invariant. ClaimCovers is not inductive: that a release   *)
(* may delete a claim rests on nothing else of its key being open, and     *)
(* that rests on where each payload is and on no two actors sharing one.   *)

\* The payloads of the jobs nothing is said of.
Doubted == {t \in Task : t.key \in doubted}

\* An open request holds its claim, and it is the only one of its key.
OneOpen ==
  \A t \in open \ Doubted : /\ t.key \in claims
                            /\ gate[t.key] = 0
                            /\ \A u \in open : u.key = t.key => u = t

\* What Redis stores is open, and stored once.
StoredOnce ==
  /\ NoDup(queue, Doubted)
  /\ Elems(queue) \ Doubted \subseteq open
  /\ shelf \ Doubted \subseteq open
  /\ Elems(queue) \cap shelf \subseteq Doubted

\* What a consumer works on is open and in no list; while it is held it is on
\* the shelf, and release will find its bytes.
InTheHand ==
  \A c \in Working : has[c] \notin Doubted =>
    /\ has[c] \in open \ Elems(queue)
    /\ IF at[c] = "holding" THEN has[c] \in shelf /\ inflight[has[c].key] = has[c]
                            ELSE has[c] \notin shelf

\* A release that took its payload off the shelf still owns the claim.
Releasing ==
  \A c \in Consumer : at[c] = "lremmed" /\ has[c] \notin Doubted =>
    /\ has[c].key \in claims
    /\ gate[has[c].key] = 0
    /\ \A t \in open : t.key # has[c].key

\* No two consumers share a payload, no two releases a key.
Apart ==
  \A c, d \in Consumer : c # d /\ has[c] \notin Doubted =>
    /\ c \in Working /\ d \in Working => has[c] # has[d]
    /\ at[c] = "lremmed" /\ at[d] = "lremmed" => has[c].key # has[d].key

\* Between SET and LPUSH the claim is held, and _inflight files each payload
\* under its own key.
Keyed ==
  \A k \in Key : /\ gate[k] # 0 /\ k \notin doubted => k \in claims
                 /\ inflight[k] # NoTask => inflight[k].key = k

\* Nobody works before the orphans are back, and the one on its way is in no
\* list.
Booting ==
  /\ proc # "up" => \A c \in Consumer : at[c] = "idle"
  /\ moving # NoTask => proc = "booting"
  /\ moving # NoTask /\ moving \notin Doubted => moving \in (open \ Elems(queue)) \ shelf

IInv == /\ TypeInv
        /\ OneOpen
        /\ StoredOnce
        /\ InTheHand
        /\ Releasing
        /\ Apart
        /\ Keyed
        /\ Booting

LEMMA InvInit == QueueInit => IInv
<1> SUFFICES ASSUME QueueInit PROVE IInv
  OBVIOUS
<1>1. TypeInv
  BY TypeInit
<1>2. Elems(queue) = {} /\ NoDup(queue, Doubted)
  BY DEF QueueInit, Elems, NoDup
<1>3. QED
  BY <1>1, <1>2 DEF QueueInit, EmptyMemory, IInv, OneOpen, StoredOnce, InTheHand,
                    Releasing, Apart, Keyed, Booting, Working

LEMMA InvGateway ==
  ASSUME IInv, SteadyClaims, NEW k \in Key, Gateway(k) \/ ClaimExpires(k)
  PROVE  IInv'
<1>t. TypeInv'
  BY TypeGateway DEF IInv
<1> USE QueueAssumption DEF IInv, TypeInv, QueueTypeOK
<1>1. CASE EnqueueClaim(k)
  BY <1>1, <1>t DEF EnqueueClaim, Doubted, Task, OneOpen, StoredOnce, InTheHand, Releasing, Apart,
                    Keyed, Booting, Working
<1>2. CASE EnqueuePush(k) \/ EnqueuePushUnheard(k)
  <2> DEFINE t == [key |-> k, stamp |-> gate[k]]
  <2>1. t \in Task /\ t.key = k
    BY <1>2 DEF EnqueuePush, EnqueuePushUnheard, Lands, Task
  <2>2. /\ queue' = Append(queue, t)
        /\ open' = open \cup {t}
        /\ gate[k] # 0 /\ gate' = [gate EXCEPT ![k] = 0]
        /\ UNCHANGED <<claims, shelf, inflight, at, has, moving, proc, stamp, doubted>>
    BY <1>2 DEF EnqueuePush, EnqueuePushUnheard, Lands
  <2> HIDE DEF t
  <2>d. UNCHANGED Doubted /\ (t \in Doubted <=> k \in doubted)
    BY <2>1, <2>2 DEF Doubted
  <2>3. t \notin Doubted => k \in claims /\ \A u \in open : u.key # k
    <3>1. \A u \in open : u.key = k => u \in open \ Doubted \/ k \in doubted
      BY DEF Doubted
    <3>2. QED BY <2>2, <2>d, <3>1 DEF OneOpen, Keyed
  <2>4. t \notin Doubted => t \notin open /\ t \notin Elems(queue) /\ t \notin shelf
    BY <2>1, <2>3 DEF StoredOnce
  <2>5. Elems(queue') = Elems(queue) \cup {t} /\ NoDup(queue', Doubted)
    BY <2>1, <2>2, <2>4, AppendElems DEF StoredOnce
  <2>6. OneOpen'
    BY <2>1, <2>2, <2>3, <2>d DEF OneOpen
  <2>7. StoredOnce'
    BY <2>2, <2>4, <2>5, <2>d DEF StoredOnce
  <2>8. InTheHand'
    BY <2>2, <2>4, <2>5, <2>d DEF InTheHand, Working
  <2>9. Releasing' /\ Apart'
    <3>1. \A c \in Consumer : at[c] = "lremmed" /\ has[c] \notin Doubted => has[c].key # k
      BY <2>2 DEF Releasing
    <3>2. QED BY <2>1, <2>2, <2>d, <3>1 DEF Releasing, Apart, Working
  <2>10. Keyed' /\ Booting'
    BY <2>2, <2>4, <2>5, <2>d DEF Keyed, Booting
  <2>11. QED BY <1>t, <2>6, <2>7, <2>8, <2>9, <2>10
<1>3. CASE EnqueuePushFails(k)
  <2>1. /\ gate[k] # 0 /\ gate' = [gate EXCEPT ![k] = 0]
        /\ inflight' = [inflight EXCEPT ![k] = NoTask]
        /\ claims' = claims \/ claims' = claims \ {k}
        /\ UNCHANGED <<queue, at, has, moving, proc, stamp, open, doubted>>
    BY <1>3 DEF EnqueuePushFails, ReleaseRefused
  <2>d. UNCHANGED Doubted
    BY <2>1 DEF Doubted
  <2>2. k \in doubted \/ \A u \in open : u.key # k
    <3>1. \A u \in open : u.key = k => u \in open \ Doubted \/ k \in doubted
      BY DEF Doubted
    <3>2. QED BY <2>1, <3>1 DEF OneOpen
  <2>3. \A u \in shelf \ shelf' : u \in Doubted \/ u.key = k
    BY <1>3 DEF EnqueuePushFails, ReleaseRefused, Keyed
  <2>4. /\ shelf' \subseteq shelf
        /\ \A u \in open \ Doubted : u \in shelf => u \in shelf'
    <3>1. shelf' \subseteq shelf
      BY <1>3 DEF EnqueuePushFails, ReleaseRefused
    <3>2. \A u \in Task : u.key \in doubted <=> u \in Doubted
      BY DEF Doubted
    <3>3. QED BY <2>2, <2>3, <3>1, <3>2
  <2>5. OneOpen'
    BY <2>1, <2>2, <2>d DEF OneOpen, Doubted
  <2>6. StoredOnce'
    BY <2>1, <2>4, <2>d DEF StoredOnce
  <2>7. InTheHand'
    <3>1. \A c \in Working : has[c] \in Task
      BY DEF Working
    <3>2. \A c \in Working : has[c] \notin Doubted => has[c] \in open /\ has[c].key # k
      BY <2>2, <3>1 DEF InTheHand, Doubted
    <3>3. \A t \in Task : t.key \in Key
      BY DEF Task
    <3>4. QED BY <2>1, <2>4, <2>d, <3>1, <3>2, <3>3 DEF InTheHand, Working
  <2>8. Releasing' /\ Apart'
    BY <2>1, <2>d DEF Releasing, Apart, Working
  <2>9. Keyed' /\ Booting'
    BY <2>1, <2>4, <2>d DEF Keyed, Booting
  <2>10. QED BY <1>t, <2>5, <2>6, <2>7, <2>8, <2>9
<1>4. CASE ClaimExpires(k)
  BY <1>4, <1>t DEF ClaimExpires, Doubted, LeftBehind, SteadyClaims, OneOpen, StoredOnce, InTheHand, Releasing,
                    Apart, Keyed, Booting, Working
<1>5. QED BY <1>1, <1>2, <1>3, <1>4 DEF Gateway

\* A push that raises after it landed takes its key out of the invariant.
LEMMA InvRaises ==
  ASSUME IInv, NEW t \in unheard, PushRaises(t)
  PROVE  IInv'
<1>t. TypeInv'
  BY TypeRaises DEF IInv
<1> USE QueueAssumption DEF IInv, TypeInv, QueueTypeOK
<1>1. t \in Task /\ t.key \in Key
  BY DEF Task
<1>2. /\ doubted' = doubted \cup {t.key}
      /\ inflight' = [inflight EXCEPT ![t.key] = NoTask]
      /\ claims' = claims \/ claims' = claims \ {t.key}
      /\ UNCHANGED <<queue, gate, at, has, moving, proc, stamp, open>>
  BY DEF PushRaises, ReleaseRefused
<1>3. Doubted' = Doubted \cup {u \in Task : u.key = t.key}
  BY <1>2 DEF Doubted
<1>4. \A u \in Task : u \notin Doubted' => u \notin Doubted /\ u.key # t.key
  BY <1>3
<1>5. /\ shelf' \subseteq shelf
      /\ \A u \in Task : u \notin Doubted' /\ u \in shelf => u \in shelf'
  <2>1. shelf' \subseteq shelf /\ \A u \in shelf \ shelf' : u.key = t.key
    BY <1>1 DEF PushRaises, ReleaseRefused, Keyed
  <2>2. QED BY <2>1, <1>4
<1>6. OneOpen'
  BY <1>2, <1>4 DEF OneOpen
<1>7. StoredOnce'
  BY <1>2, <1>3, <1>5 DEF StoredOnce, NoDup
<1>8. InTheHand'
  <2>1. \A c \in Working : has[c] \in Task /\ has[c].key \in Key
    BY DEF Working, Task
  <2>2. QED BY <1>2, <1>4, <1>5, <2>1 DEF InTheHand, Working
<1>9. Releasing'
  <2>1. \A c \in Consumer : at[c] = "lremmed" => has[c] \in Task
    OBVIOUS
  <2>2. QED BY <1>2, <1>4, <2>1 DEF Releasing
<1>10. Apart'
  BY <1>2, <1>3 DEF Apart, Working
<1>11. Keyed' /\ Booting'
  BY <1>2, <1>3, <1>5 DEF Keyed, Booting
<1>12. QED BY <1>t, <1>6, <1>7, <1>8, <1>9, <1>10, <1>11

LEMMA InvConsumer ==
  ASSUME IInv, SteadyClaims, NEW c \in Consumer, Take(c) \/ Settle(c) \/ GiveBack(c)
  PROVE  IInv'
<1>t. TypeInv'
  BY TypeConsumer DEF IInv
<1> USE QueueAssumption DEF IInv, TypeInv, QueueTypeOK
<1>1. CASE DequeuePop(c)
  <2>2. /\ at' = [at EXCEPT ![c] = "popped"] /\ has' = [has EXCEPT ![c] = Head(queue)]
        /\ at[c] = "idle" /\ proc = "up"
        /\ queue # <<>> /\ queue' = Tail(queue)
        /\ UNCHANGED <<claims, shelf, inflight, gate, moving, proc, stamp, open, doubted>>
    BY <1>1 DEF DequeuePop
  <2>d. UNCHANGED Doubted
    BY <2>2 DEF Doubted
  <2>1. /\ Elems(queue) = Elems(queue') \cup {Head(queue)}
        /\ NoDup(queue', Doubted)
        /\ Head(queue) \in Doubted \/ Head(queue) \notin Elems(queue')
    BY <2>2, TailElems DEF StoredOnce
  <2>3. OneOpen' /\ Keyed'
    BY <2>2, <2>d DEF OneOpen, Keyed
  <2>4. StoredOnce'
    BY <2>1, <2>2, <2>d DEF StoredOnce
  <2>5. InTheHand'
    BY <2>1, <2>2 DEF Doubted, InTheHand, StoredOnce, Working
  <2>6. Apart'
    BY <2>1, <2>2 DEF Doubted, Apart, InTheHand, Working
  <2>7. Releasing' /\ Booting'
    BY <2>1, <2>2 DEF Doubted, Releasing, Booting
  <2>8. QED BY <1>t, <2>3, <2>4, <2>5, <2>6, <2>7
<1>2. CASE DequeueShelve(c)
  BY <1>2, <1>t DEF Doubted, DequeueShelve, OneOpen, StoredOnce, InTheHand, Releasing, Apart,
                    Keyed, Booting, Working
<1>3. CASE DequeueShelveFails(c)
  BY <1>3, <1>t DEF Doubted, DequeueShelveFails, OneOpen, StoredOnce, InTheHand, Releasing, Apart,
                    Keyed, Booting, Working
<1>4. CASE ReleaseLrem(c)
  BY <1>4, <1>t DEF Doubted, ReleaseLrem, Raw, OneOpen, StoredOnce, InTheHand, Releasing, Apart,
                    Keyed, Booting, Working
<1>5. CASE ReleaseDel(c)
  BY <1>5, <1>t DEF Doubted, ReleaseDel, OneOpen, StoredOnce, InTheHand, Releasing, Apart,
                    Keyed, Booting, Working
<1>6. CASE ReleaseReturn(c)
  BY <1>6, <1>t DEF Doubted, ReleaseReturn, OneOpen, StoredOnce, InTheHand, Releasing, Apart,
                    Keyed, Booting, Working
<1>7. CASE ReleaseFails(c)
  BY <1>7, <1>t DEF Doubted, ReleaseFails, OneOpen, StoredOnce, InTheHand, Releasing, Apart,
                    Keyed, Booting, Working
<1>8. CASE RequeueLrem(c)
  BY <1>8, <1>t DEF Doubted, RequeueLrem, SteadyClaims, Raw, OneOpen, StoredOnce, InTheHand, Releasing, Apart,
                    Keyed, Booting, Working
<1>9. CASE RequeuePush(c)
  <2>2. /\ queue' = <<has[c]>> \o queue
        /\ at' = [at EXCEPT ![c] = "idle"] /\ has' = [has EXCEPT ![c] = NoTask]
        /\ at[c] = "taken"
        /\ UNCHANGED <<claims, shelf, inflight, gate, moving, proc, stamp, open, doubted>>
    BY <1>9 DEF RequeuePush
  <2>d. UNCHANGED Doubted
    BY <2>2 DEF Doubted
  <2>1. /\ has[c] \in Task
        /\ has[c] \notin Doubted => /\ has[c] \in open
                                    /\ has[c] \notin Elems(queue) /\ has[c] \notin shelf
    BY <2>2 DEF InTheHand, Working
  <2>3. Elems(queue') = Elems(queue) \cup {has[c]} /\ NoDup(queue', Doubted)
    BY <2>1, <2>2, PushElems DEF StoredOnce
  <2>4. OneOpen' /\ Keyed'
    BY <2>2, <2>d DEF OneOpen, Keyed
  <2>5. StoredOnce'
    BY <2>1, <2>2, <2>3, <2>d DEF StoredOnce
  <2>6. InTheHand'
    BY <2>1, <2>2, <2>3 DEF Doubted, InTheHand, Apart, Working
  <2>7. Apart' /\ Releasing' /\ Booting'
    BY <2>1, <2>2, <2>3 DEF Doubted, Apart, Releasing, Booting, Working
  <2>8. QED BY <1>t, <2>4, <2>5, <2>6, <2>7
<1>10. CASE RequeueFails(c)
  BY <1>10, <1>t DEF Doubted, RequeueFails, OneOpen, StoredOnce, InTheHand, Releasing, Apart,
                    Keyed, Booting, Working
<1>11. QED BY <1>1, <1>2, <1>3, <1>4, <1>5, <1>6, <1>7, <1>8, <1>9, <1>10
           DEF Take, Settle, GiveBack

LEMMA InvProcess ==
  ASSUME IInv, Crash \/ Stop \/ Boot \/ Orphans
  PROVE  IInv'
<1>t. TypeInv'
  BY TypeProcess DEF IInv
<1> USE DEF IInv, TypeInv, QueueTypeOK
<1>1. CASE Crash \/ Stop
  <2>1. /\ UNCHANGED <<claims, queue, shelf, stamp, open, doubted>>
        /\ ForgetMemory
    BY <1>1 DEF Crash, Stop
  <2>2. OneOpen'
    BY <2>1, <1>t DEF Doubted, ForgetMemory, OneOpen, Task
  <2>3. StoredOnce'
    BY <2>1 DEF Doubted, StoredOnce
  <2>4. InTheHand' /\ Releasing' /\ Apart' /\ Keyed' /\ Booting'
    BY <2>1 DEF Doubted, ForgetMemory, InTheHand, Releasing, Apart, Keyed, Booting, Working
  <2>5. QED BY <1>t, <2>2, <2>3, <2>4
<1>2. CASE Boot \/ BootDone
  BY <1>2, <1>t DEF Doubted, Boot, BootDone, OneOpen, StoredOnce, InTheHand, Releasing, Apart,
                    Keyed, Booting, Working
<1>3. ASSUME NEW t \in shelf, OrphanPop(t) PROVE IInv'
  BY <1>3, <1>t DEF Doubted, OrphanPop, OneOpen, StoredOnce, InTheHand, Releasing, Apart,
                    Keyed, Booting, Working
<1>4. CASE OrphanPush
  <2>2. /\ queue' = <<moving>> \o queue /\ moving # NoTask /\ moving' = NoTask
        /\ UNCHANGED <<claims, shelf, inflight, gate, at, has, proc, stamp, open, doubted>>
        /\ proc = "booting"
    BY <1>4 DEF OrphanPush
  <2>d. UNCHANGED Doubted
    BY <2>2 DEF Doubted
  <2>1. /\ moving \in Task
        /\ moving \notin Doubted => /\ moving \in open
                                    /\ moving \notin Elems(queue) /\ moving \notin shelf
    BY <2>2 DEF Booting
  <2>3. Elems(queue') = Elems(queue) \cup {moving} /\ NoDup(queue', Doubted)
    BY <2>1, <2>2, PushElems DEF StoredOnce
  <2>4. OneOpen' /\ Keyed' /\ Releasing'
    BY <2>2, <2>d DEF OneOpen, Keyed, Releasing
  <2>5. StoredOnce'
    BY <2>1, <2>2, <2>3, <2>d DEF StoredOnce
  <2>6. InTheHand' /\ Apart' /\ Booting'
    BY <2>2 DEF Doubted, InTheHand, Apart, Booting, Working
  <2>7. QED BY <1>t, <2>4, <2>5, <2>6
<1>5. QED BY <1>1, <1>2, <1>3, <1>4 DEF Orphans

LEMMA InvStep == SteadyClaims /\ IInv /\ [QueueNext]_queueVars => IInv'
<1>1. ASSUME IInv, UNCHANGED queueVars PROVE IInv'
  BY <1>1 DEF IInv, TypeInv, QueueTypeOK, queueVars, Doubted, OneOpen, StoredOnce, InTheHand,
              Releasing, Apart, Keyed, Booting, Working
<1>2. QED BY <1>1, InvGateway, InvRaises, InvConsumer, InvProcess DEF QueueNext

\* The strengthening holds throughout (enqueue, dequeue, release, requeue,
\* requeue_orphans, whichever of them is cut short).
THEOREM Invariant == ASSUME SteadyClaims PROVE QueueSpec => []IInv
<1>1. IInv /\ [QueueNext]_queueVars => IInv'
  BY InvStep
<1>2. QED BY <1>1, InvInit, PTL DEF QueueSpec

\* Where a payload of an undoubted job can be, it is open.
LEMMA LocatedOpen ==
  ASSUME IInv
  PROVE  /\ Located \subseteq Task
         /\ Trusted(Located) \subseteq open \ Doubted
<1> USE QueueAssumption DEF IInv, TypeInv, QueueTypeOK
<1>1. Located \subseteq Task
  <2>1. Queued \subseteq Task
    BY DEF Queued
  <2>2. InHand \subseteq Task
    BY DEF InHand, Working
  <2>3. QED BY <2>1, <2>2 DEF Located
<1>2. ASSUME NEW t \in Located, t.key \notin doubted PROVE t \in open \ Doubted
  <2>1. t \notin Doubted
    BY <1>2 DEF Doubted
  <2>2. t \in Elems(queue) \/ t \in shelf \/ t \in InHand
    BY DEF Located, Queued, Elems
  <2>3. t \in InHand => t \in open
    BY <2>1 DEF InHand, InTheHand, Booting
  <2>4. QED BY <2>1, <2>2, <2>3 DEF StoredOnce
<1>3. QED BY <1>1, <1>2 DEF Trusted

\* Whatever is queued, shelved or worked on holds its claim (enqueue, release),
\* through every reply that is lost but that of a push of its own job.
THEOREM ClaimsCover == ASSUME SteadyClaims PROVE QueueSpec => []ClaimCovers
<1>1. IInv => ClaimCovers
  BY LocatedOpen DEF ClaimCovers, IInv, OneOpen
<1>2. QED BY <1>1, Invariant, PTL

\* Nothing that was released is still queued, shelved or in a hand (release,
\* requeue_orphans), with the same exception.
THEOREM NoZombies == ASSUME SteadyClaims PROVE QueueSpec => []NoZombie
<1>1. IInv => NoZombie
  BY LocatedOpen DEF NoZombie
<1>2. QED BY <1>1, Invariant, PTL

\* One request, one copy, and never two consumers on it (the two-step pop,
\* requeue, requeue_orphans), with the same exception.
THEOREM OneCopies == ASSUME SteadyClaims PROVE QueueSpec => []OneCopy
<1>1. ASSUME IInv PROVE OneCopy
  <2>1. Queued = Elems(queue) /\ \A i \in DOMAIN queue : queue[i] \in Queued
    BY DEF Queued, Elems
  <2>2. \A t \in Trusted(Located) : t \in open \ Doubted
    BY <1>1, LocatedOpen
  <2>3. \A t, u \in Trusted(Located) : t.key = u.key => t = u
    BY <1>1, <2>2 DEF IInv, OneOpen
  <2>4. Trusted(Queued) \subseteq Trusted(Located) /\ Trusted(InHand) \subseteq Trusted(Located)
    BY DEF Trusted, Located
  <2>5. ASSUME NEW i \in DOMAIN queue, NEW j \in DOMAIN queue, queue[i] = queue[j],
               queue[i] \in Trusted(Queued)
        PROVE  i = j
    BY <1>1, <2>2, <2>4, <2>5 DEF IInv, StoredOnce, NoDup
  <2>6. Trusted(Queued) \cap (shelf \cup InHand) = {}
    <3>1. SUFFICES ASSUME NEW t \in Trusted(Queued) PROVE t \notin shelf /\ t \notin InHand
      OBVIOUS
    <3>2. t \in Elems(queue) /\ t \notin Doubted
      BY <2>1, <2>2, <2>4 DEF Trusted
    <3>3. t \notin shelf
      BY <1>1, <3>2 DEF IInv, StoredOnce
    <3>4. t \notin InHand
      BY <1>1, <3>2 DEF IInv, InHand, InTheHand, Booting
    <3>5. QED BY <3>3, <3>4
  <2>7. ASSUME NEW c \in Working, NEW d \in Working, has[c] = has[d], has[c] \in Trusted(InHand)
        PROVE  c = d
    <3>1. has[c] \notin Doubted
      BY <2>2, <2>4, <2>7
    <3>2. QED BY <1>1, <2>7, <3>1 DEF IInv, Apart, Working
  <2>8. QED BY <2>3, <2>5, <2>6, <2>7 DEF OneCopy
<1>2. QED BY <1>1, Invariant, PTL

-----------------------------------------------------------------------------
(* The queue implements single flight.                                     *)

LEMMA StepRefines ==
  ASSUME SteadyClaims, IInv, [QueueNext]_queueVars
  PROVE  [SF!Next]_(Trusted(open))
<1> USE DEF IInv, TypeInv, QueueTypeOK
<1>o. \A t \in Trusted(open) : /\ t \in SF!Task /\ t \notin Doubted
                            /\ gate[t.key] = 0
                            /\ \A u \in open : u.key = t.key => u = t
  BY DEF Trusted, Doubted, Task, SF!Task, OneOpen
<1>1. ASSUME NEW k \in Key, EnqueuePush(k) \/ EnqueuePushUnheard(k)
      PROVE  [SF!Next]_(Trusted(open))
  <2> DEFINE t == [key |-> k, stamp |-> gate[k]]
  <2>1. t \in SF!Task /\ t.key = k /\ gate[k] # 0
    BY <1>1, QueueAssumption DEF EnqueuePush, EnqueuePushUnheard, Lands, SF!Task
  <2>2. open' = open \cup {t} /\ doubted' = doubted
    BY <1>1 DEF EnqueuePush, EnqueuePushUnheard, Lands
  <2> HIDE DEF t
  <2>3. CASE k \in doubted
    BY <2>1, <2>2, <2>3 DEF Trusted
  <2>4. CASE k \notin doubted
    <3>1. Trusted(open)' = Trusted(open) \cup {t}
      BY <2>1, <2>2, <2>4 DEF Trusted
    <3>2. \A u \in Trusted(open) : u.key # t.key
      BY <1>o, <2>1
    <3>3. SF!Accept(t)
      BY <3>1, <3>2 DEF SF!Accept
    <3>4. QED BY <2>1, <3>3 DEF SF!Next
  <2>5. QED BY <2>3, <2>4
<1>2. ASSUME NEW c \in Consumer, ReleaseLrem(c) PROVE [SF!Next]_(Trusted(open))
  <2>1. Trusted(open)' = Trusted(open) \ {has[c]}
    BY <1>2 DEF ReleaseLrem, Trusted
  <2>2. CASE has[c] \in Trusted(open)
    BY <1>o, <2>1, <2>2 DEF SF!Settle, SF!Next
  <2>3. QED BY <2>1, <2>2
<1>3. ASSUME NEW t \in unheard, PushRaises(t) PROVE [SF!Next]_(Trusted(open))
  <2>1. Trusted(open)' = {u \in Trusted(open) : u.key # t.key}
    BY <1>3 DEF PushRaises, Trusted
  <2>2. ASSUME NEW u \in Trusted(open), u.key = t.key PROVE SF!Next
    <3>1. Trusted(open)' = Trusted(open) \ {u}
      BY <1>o, <2>1, <2>2 DEF Trusted
    <3>2. QED BY <1>o, <3>1 DEF SF!Settle, SF!Next
  <2>3. CASE \A u \in Trusted(open) : u.key # t.key
    BY <2>1, <2>3
  <2>4. QED BY <2>2, <2>3
<1>4. ASSUME NEW k \in Key, EnqueueClaim(k) \/ EnqueuePushFails(k) \/ ClaimExpires(k)
      PROVE UNCHANGED <<open, doubted>>
  BY <1>4 DEF EnqueueClaim, EnqueuePushFails, ClaimExpires
<1>5. ASSUME NEW c \in Consumer, Take(c) \/ Settle(c) \/ GiveBack(c), ~ReleaseLrem(c)
      PROVE  UNCHANGED <<open, doubted>>
  BY <1>5 DEF Take, Settle, GiveBack, DequeuePop, DequeueShelve, DequeueShelveFails,
              ReleaseDel, ReleaseReturn, ReleaseFails, RequeueLrem, RequeuePush, RequeueFails
<1>6. ASSUME Crash \/ Stop \/ Boot \/ Orphans PROVE UNCHANGED <<open, doubted>>
  BY <1>6 DEF Crash, Stop, Boot, Orphans, OrphanPop, OrphanPush, BootDone
<1>7. CASE UNCHANGED queueVars
  BY <1>7 DEF queueVars, Trusted
<1>8. UNCHANGED <<open, doubted>> => UNCHANGED Trusted(open)
  BY DEF Trusted
<1>9. QED BY <1>1, <1>2, <1>3, <1>4, <1>5, <1>6, <1>7, <1>8 DEF QueueNext, Gateway

\* A request is accepted only while no request of its job is open, and stays
\* open until its release: the contract of TaskQueue, kept through crashes and
\* through Redis commands that raise, of every job until a push of it lands and
\* yet raises.
THEOREM Refines == ASSUME SteadyClaims PROVE QueueSpec => SingleFlightSpec
<1>1. QueueInit => SF!Init
  BY DEF QueueInit, SF!Init, Trusted
<1>2. IInv /\ [QueueNext]_queueVars => [SF!Next]_(Trusted(open))
  BY StepRefines
<1>3. QED BY <1>1, <1>2, Invariant, PTL DEF QueueSpec, SingleFlightSpec, SF!Spec

-----------------------------------------------------------------------------
(* Nothing Redis stores vanishes, whatever fails. LREM takes the bytes     *)
(* _inflight files under the key, which after an expired claim may be      *)
(* another copy's: some consumer still holds them.                         *)

HeldInflight ==
  \A k \in Key : inflight[k] # NoTask =>
    /\ inflight[k].key = k
    /\ \E c \in Consumer : at[c] = "holding" /\ has[c] = inflight[k]

KeepInv == TypeInv /\ HeldInflight

LEMMA KeepStep == KeepInv /\ [QueueNext]_queueVars => KeepInv'
<1> SUFFICES ASSUME KeepInv, [QueueNext]_queueVars PROVE KeepInv'
  OBVIOUS
<1>t. TypeInv'
  BY TypeStep DEF KeepInv
<1> USE QueueAssumption DEF KeepInv, TypeInv, QueueTypeOK, HeldInflight
<1>1. ASSUME NEW k \in Key, Gateway(k) \/ ClaimExpires(k) PROVE HeldInflight'
  BY <1>1 DEF Gateway, EnqueueClaim, EnqueuePush, EnqueuePushUnheard, Lands, EnqueuePushFails,
              ReleaseRefused, ClaimExpires
<1>0. ASSUME NEW t \in unheard, PushRaises(t) PROVE HeldInflight'
  BY <1>0 DEF PushRaises, ReleaseRefused
<1>2. ASSUME NEW c \in Consumer, Take(c) PROVE HeldInflight'
  <2>1. CASE DequeuePop(c) \/ DequeueShelveFails(c)
    BY <2>1 DEF DequeuePop, DequeueShelveFails
  <2>2. CASE DequeueShelve(c)
    BY <2>2, <1>t DEF DequeueShelve, Task
  <2>3. QED BY <1>2, <2>1, <2>2 DEF Take
<1>3. ASSUME NEW c \in Consumer, Settle(c) PROVE HeldInflight'
  BY <1>3 DEF Settle, ReleaseLrem, ReleaseDel, ReleaseReturn, ReleaseFails
<1>4. ASSUME NEW c \in Consumer, GiveBack(c) PROVE HeldInflight'
  <2>1. CASE RequeuePush(c)
    BY <2>1 DEF RequeuePush
  <2>2. CASE RequeueFails(c)
    BY <2>2 DEF RequeueFails
  <2>3. CASE RequeueLrem(c)
    <3>1. SUFFICES ASSUME NEW k \in Key, inflight'[k] # NoTask
                   PROVE  /\ inflight'[k].key = k
                          /\ \E d \in Consumer : at'[d] = "holding" /\ has'[d] = inflight'[k]
      OBVIOUS
    <3>2. inflight[k] = inflight'[k] /\ has[c].key # k
      BY <2>3, <3>1 DEF RequeueLrem, Task
    <3>3. PICK d \in Consumer : at[d] = "holding" /\ has[d] = inflight[k]
      BY <3>1, <3>2
    <3>4. d # c
      BY <3>1, <3>2, <3>3
    <3>5. QED BY <2>3, <3>1, <3>2, <3>3, <3>4 DEF RequeueLrem
  <2>4. QED BY <1>4, <2>1, <2>2, <2>3 DEF GiveBack
<1>5. ASSUME Crash \/ Stop \/ Boot \/ Orphans PROVE HeldInflight'
  BY <1>5 DEF Crash, Stop, ForgetMemory, Boot, Orphans, OrphanPop, OrphanPush, BootDone
<1>6. CASE UNCHANGED queueVars
  BY <1>6 DEF queueVars
<1>7. QED BY <1>t, <1>0, <1>1, <1>2, <1>3, <1>4, <1>5, <1>6 DEF QueueNext

LEMMA StepKeeps ==
  ASSUME KeepInv, QueueNext, NEW t \in Queued \cup shelf, t \notin unheard
  PROVE  t \in (Located \cup {has[c] : c \in Consumer})'
<1> DEFINE After == Elems(queue') \cup shelf' \cup {has'[c] : c \in Consumer}
                      \cup ({moving'} \ {NoTask})
<1> USE QueueAssumption DEF KeepInv, TypeInv, QueueTypeOK
<1>1. t \in Elems(queue) \/ t \in shelf
  BY DEF Queued, Elems
<1>2. t \in Task /\ t # NoTask
  <2>1. \A i \in DOMAIN queue : queue[i] \in Task
    OBVIOUS
  <2>2. QED BY <1>1, <2>1 DEF Elems
<1>3. SUFFICES t \in After
  BY DEF Located, Queued, InHand, Elems
<1>4. ASSUME NEW k \in Key, Gateway(k) \/ ClaimExpires(k) PROVE t \in After
  <2>1. CASE EnqueuePush(k) \/ EnqueuePushUnheard(k)
    <3>1. [key |-> k, stamp |-> gate[k]] \in Task
      BY <2>1 DEF EnqueuePush, EnqueuePushUnheard, Lands, Task
    <3>0. queue' = Append(queue, [key |-> k, stamp |-> gate[k]])
      BY <2>1 DEF EnqueuePush, EnqueuePushUnheard, Lands
    <3>2. Elems(queue) \subseteq Elems(queue')
      BY <3>0, <3>1, AppendElems
    <3>3. QED BY <1>1, <2>1, <3>2 DEF EnqueuePush, EnqueuePushUnheard, Lands
  <2>2. CASE EnqueuePushFails(k)
    <3>1. t \in Elems(queue') \/ t \in shelf' \/ t = inflight[k]
      BY <1>1, <2>2 DEF EnqueuePushFails, ReleaseRefused
    <3>2. t = inflight[k] => \E c \in Consumer : has'[c] = t
      BY <1>2, <2>2 DEF EnqueuePushFails, HeldInflight
    <3>3. QED BY <3>1, <3>2
  <2>3. CASE EnqueueClaim(k) \/ ClaimExpires(k)
    BY <1>1, <2>3 DEF EnqueueClaim, ClaimExpires
  <2>4. QED BY <1>4, <2>1, <2>2, <2>3 DEF Gateway
<1>0. ASSUME NEW u \in unheard, PushRaises(u) PROVE t \in After
  <2>1. t \in Elems(queue') \/ t \in shelf' \/ t = inflight[u.key]
    BY <1>1, <1>0 DEF PushRaises, ReleaseRefused
  <2>2. t = inflight[u.key] => \E c \in Consumer : has'[c] = t
    BY <1>0, <1>2 DEF PushRaises, HeldInflight, Task
  <2>3. QED BY <2>1, <2>2
<1>5. ASSUME NEW c \in Consumer, Take(c) PROVE t \in After
  <2>1. CASE DequeuePop(c)
    <3>1. Elems(queue) = Elems(queue') \cup {Head(queue)} /\ has'[c] = Head(queue)
      BY <2>1, TailElems DEF DequeuePop
    <3>2. QED BY <1>1, <2>1, <3>1 DEF DequeuePop
  <2>2. CASE DequeueShelve(c) \/ DequeueShelveFails(c)
    BY <1>1, <2>2 DEF DequeueShelve, DequeueShelveFails
  <2>3. QED BY <1>5, <2>1, <2>2 DEF Take
<1>6. ASSUME NEW c \in Consumer, Settle(c) PROVE t \in After
  <2>1. CASE ReleaseLrem(c)
    <3>1. t \in Elems(queue') \/ t \in shelf' \/ t = Raw(c)
      BY <1>1, <2>1 DEF ReleaseLrem
    <3>2. \E d \in Consumer : has[d] = Raw(c)
      BY <2>1 DEF ReleaseLrem, Raw, HeldInflight, Task
    <3>3. QED BY <2>1, <3>1, <3>2 DEF ReleaseLrem
  <2>2. CASE ReleaseDel(c) \/ ReleaseReturn(c) \/ ReleaseFails(c)
    BY <1>1, <2>2 DEF ReleaseDel, ReleaseReturn, ReleaseFails
  <2>3. QED BY <1>6, <2>1, <2>2 DEF Settle
<1>7. ASSUME NEW c \in Consumer, GiveBack(c) PROVE t \in After
  <2>1. CASE RequeueLrem(c)
    <3>1. has'[c] = Raw(c)
      BY <2>1 DEF RequeueLrem
    <3>2. QED BY <1>1, <2>1, <3>1 DEF RequeueLrem
  <2>2. CASE RequeuePush(c)
    <3>1. has[c] \in Task
      BY <2>2 DEF RequeuePush
    <3>2. Elems(queue) \subseteq Elems(queue')
      BY <2>2, <3>1, PushElems DEF RequeuePush
    <3>3. QED BY <1>1, <2>2, <3>2 DEF RequeuePush
  <2>3. CASE RequeueFails(c)
    BY <1>1, <2>3 DEF RequeueFails
  <2>4. QED BY <1>7, <2>1, <2>2, <2>3 DEF GiveBack
<1>8. ASSUME Crash \/ Stop \/ Boot \/ Orphans PROVE t \in After
  <2>1. CASE OrphanPush
    <3>1. moving \in Task
      BY <2>1 DEF OrphanPush
    <3>2. Elems(queue) \subseteq Elems(queue')
      BY <2>1, <3>1, PushElems DEF OrphanPush
    <3>3. QED BY <1>1, <2>1, <3>2 DEF OrphanPush
  <2>2. ASSUME NEW u \in shelf, OrphanPop(u) PROVE t \in After
    BY <1>1, <1>2, <2>2 DEF OrphanPop
  <2>3. CASE Crash \/ Stop \/ Boot \/ BootDone
    BY <1>1, <2>3 DEF Crash, Stop, Boot, BootDone
  <2>4. QED BY <1>8, <2>1, <2>2, <2>3 DEF Orphans
<1>9. QED BY <1>0, <1>4, <1>5, <1>6, <1>7, <1>8 DEF QueueNext

\* What is queued or shelved leaves Redis only into a hand, under every fault
\* (release, requeue, requeue_orphans and their failures).
THEOREM RedisKeeps == QueueSpec => RedisKeepsIt
<1>1. QueueInit => KeepInv
  BY TypeInit DEF QueueInit, EmptyMemory, KeepInv, HeldInflight
<1>2. KeepInv /\ [QueueNext]_queueVars =>
        [\A t \in Queued \cup shelf :
           t \in unheard \/ t \in (Located \cup {has[c] : c \in Consumer})']_queueVars
  BY StepKeeps
<1>3. QED BY <1>1, <1>2, KeepStep, PTL DEF QueueSpec, RedisKeepsIt
-----------------------------------------------------------------------------
(* While no process dies and no Redis command fails, a request that was    *)
(* accepted is always somewhere. A command of a crashed process is the one *)
(* thing that loses it (MCQueueLost).                                      *)

Reliable == SteadyClaims /\ Faults \cap {"crash", "redis"} = {}

Somewhere ==
  /\ doubted = {}
  /\ \A t \in open : \/ t \in Elems(queue) \cup shelf
                     \/ \E c \in Working : has[c] = t
                     \/ moving = t

LEMMA SomewhereStep ==
  ASSUME Reliable, IInv, Somewhere, [QueueNext]_queueVars
  PROVE  Somewhere'
<1> USE QueueAssumption DEF Reliable, IInv, TypeInv, QueueTypeOK, Working
<1>1. ASSUME NEW k \in Key, Gateway(k) \/ ClaimExpires(k) PROVE Somewhere'
  <2>1. CASE EnqueuePush(k)
    <3> DEFINE t == [key |-> k, stamp |-> gate[k]]
    <3>1. t \in Task /\ open' = open \cup {t} /\ UNCHANGED <<shelf, at, has, moving, doubted>>
      BY <2>1 DEF EnqueuePush, Lands, Task
    <3>2. Elems(queue') = Elems(queue) \cup {t}
      BY <2>1, <3>1, AppendElems DEF EnqueuePush, Lands
    <3>3. QED BY <3>1, <3>2 DEF Somewhere
  <2>2. CASE EnqueueClaim(k) \/ ClaimExpires(k)
    BY <2>2 DEF EnqueueClaim, ClaimExpires, Somewhere
  <2>3. QED BY <1>1, <2>1, <2>2 DEF Gateway, EnqueuePushFails, EnqueuePushUnheard
<1>2. ASSUME NEW c \in Consumer, Take(c) PROVE Somewhere'
  <2>1. CASE DequeuePop(c)
    <3>1. Elems(queue) = Elems(queue') \cup {Head(queue)}
      BY <2>1, TailElems DEF DequeuePop
    <3>2. QED BY <2>1, <3>1 DEF DequeuePop, Somewhere
  <2>2. CASE DequeueShelve(c)
    BY <2>2 DEF DequeueShelve, Somewhere
  <2>3. QED BY <1>2, <2>1, <2>2 DEF Take, DequeueShelveFails
<1>3. ASSUME NEW c \in Consumer, Settle(c) PROVE Somewhere'
  <2>1. CASE ReleaseLrem(c)
    <3>1. Raw(c) = has[c]
      BY <2>1 DEF ReleaseLrem, Raw, InTheHand, Doubted, Somewhere
    <3>2. QED BY <2>1, <3>1 DEF ReleaseLrem, Somewhere
  <2>2. CASE ReleaseDel(c) \/ ReleaseReturn(c)
    BY <2>2 DEF ReleaseDel, ReleaseReturn, Somewhere
  <2>3. QED BY <1>3, <2>1, <2>2 DEF Settle, ReleaseFails
<1>4. ASSUME NEW c \in Consumer, GiveBack(c) PROVE Somewhere'
  <2>1. CASE RequeueLrem(c)
    <3>1. Raw(c) = has[c] /\ at[c] = "holding"
      BY <2>1 DEF RequeueLrem, Raw, InTheHand, Doubted, Somewhere, SteadyClaims
    <3>2. QED BY <2>1, <3>1 DEF RequeueLrem, Somewhere
  <2>2. CASE RequeuePush(c)
    <3>1. has[c] \in Task
      BY <2>2 DEF RequeuePush, InTheHand
    <3>2. Elems(queue') = Elems(queue) \cup {has[c]}
      BY <2>2, <3>1, PushElems DEF RequeuePush
    <3>3. QED BY <2>2, <3>2 DEF RequeuePush, Somewhere
  <2>3. QED BY <1>4, <2>1, <2>2 DEF GiveBack, RequeueFails
<1>5. CASE Stop
  BY <1>5 DEF Stop, SteadyClaims, ForgetMemory, Booting, Somewhere
<1>6. CASE Boot
  BY <1>6 DEF Boot, Somewhere
<1>7. CASE Orphans
  <2>1. CASE OrphanPush
    <3>1. moving \in Task
      BY <2>1 DEF OrphanPush
    <3>2. Elems(queue') = Elems(queue) \cup {moving}
      BY <2>1, <3>1, PushElems DEF OrphanPush
    <3>3. QED BY <2>1, <3>2 DEF OrphanPush, Somewhere
  <2>2. ASSUME NEW u \in shelf, OrphanPop(u) PROVE Somewhere'
    BY <2>2 DEF OrphanPop, Somewhere
  <2>3. CASE BootDone
    BY <2>3 DEF BootDone, Somewhere
  <2>4. QED BY <1>7, <2>1, <2>2, <2>3 DEF Orphans
<1>8. CASE UNCHANGED queueVars
  BY <1>8 DEF queueVars, Somewhere
<1>9. QED BY <1>1, <1>2, <1>3, <1>4, <1>5, <1>6, <1>7, <1>8 DEF QueueNext, Crash, PushRaises

\* Nothing accepted is ever nowhere, through every graceful stop and every boot
\* that drains the shelf (dequeue, requeue, requeue_orphans).
THEOREM NothingIsLost == ASSUME Reliable PROVE QueueSpec => []NothingLost
<1>1. QueueInit => Somewhere
  BY DEF QueueInit, Somewhere
<1>2. ASSUME IInv, Somewhere PROVE NothingLost
  <2>1. \A t \in open : t # NoTask
    BY <1>2, QueueAssumption DEF IInv, TypeInv, QueueTypeOK
  <2>2. QED BY <1>2, <2>1 DEF Somewhere, NothingLost, Located, Queued, InHand, Elems
<1>3. QueueSpec => []IInv
  BY Invariant DEF Reliable
<1>4. IInv /\ Somewhere /\ [QueueNext]_queueVars => Somewhere'
  BY SomewhereStep
<1>5. QED BY <1>1, <1>2, <1>3, <1>4, PTL DEF QueueSpec
=============================================================================
