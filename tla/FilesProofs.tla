---------------------------- MODULE FilesProofs ----------------------------
(***************************************************************************)
(* Proofs about what becomes of one link: the probe of its formats, the    *)
(* walk over the instances of the fallback, the file and its row, and the  *)
(* messages of the delivery.                                               *)
(***************************************************************************)
EXTENDS Delivery, JobFiles, Engines, Probe, FiniteSetTheorems, WellFoundedInduction, TLAPS

-----------------------------------------------------------------------------
(***************************************************************************)
(* FilesHonest for any requests, files, budgets, deaths and age of the     *)
(* sweep. A directory is in one hand, and as old as what its owner has     *)
(* spent of its budget; what waits to be sent was checked for the request  *)
(* it was made for.                                                        *)
(***************************************************************************)

(* Directories: who has which, and how old they may be.                    *)

Awaited == {th \in threads : ~th.dropped}
Owned   == {th.dir : th \in Awaited} \cup ({mine} \ {0})
Loose   == (DOMAIN dirs \cup {th.dir : th \in threads}) \ Owned

\* A job waits for one thread, and only while it runs; no two threads share a
\* directory, nor a thread and the job.
OneHand ==
  /\ threads \subseteq [dir : 1..spent, left : 0..Retries, dropped : BOOLEAN]
  /\ Awaited # {} => at = "run"
  /\ \A s, t \in Awaited : s = t
  /\ \A s, t \in threads : s.dir = t.dir => s = t
  /\ \A th \in threads : th.dir # mine
  /\ mine # 0 <=> at \in {"pull", "check", "upload"}

\* A wait is within its budget, and its directory was written since it began.
InBudget ==
  /\ began <= now
  /\ at \in {"wait", "run"}     => now <= began + RunBudget
  /\ at = "pull"                => now <= began + PullBudget
  /\ at \in {"check", "upload"} => now <= began + SendBudget
  /\ \A d \in Owned : d \in DOMAIN dirs /\ dirs[d] >= began

Counts == ffmpeg \in BOOLEAN /\ now \in 0..MaxClock /\ began \in 0..MaxClock /\ spent \in 0..MaxDirs
          /\ mine \in 0..spent /\ DOMAIN dirs \subseteq 1..spent /\ spills \in Nat
          /\ \A d \in DOMAIN dirs : dirs[d] \in Nat

DirsInv == Counts /\ OneHand /\ InBudget /\ Cardinality(Loose) <= spills

-----------------------------------------------------------------------------
(* What is made of the file, and what is filed about it.                   *)

\* What waits to be sent was checked, for the request it was made for.
Fitting ==
  /\ at \in {"wait", "run", "fetch", "pull", "check", "upload"} => ~spotify_audio_plan(ask)
  /\ at \in {"check", "upload"} =>
       /\ made \in MediaFile
       /\ made.as = ask.format \/ (made.as = "photo" /\ ask.format = "video")
       /\ made.as = "photo" => ~made.empty
  /\ at = "upload" => ~made.over /\ (made.as = "photo" \/ ~verify_produced(made, ask))

Filed ==
  /\ at \in {"wait", "run", "fetch", "pull"} => filedAs = {}
  /\ at \in {"fetch", "pull"} => code \in FALLBACK_ERROR_CODES
  /\ at \in {"check", "upload"} /\ (made.as = "photo" \/ filedAs # {}) => use = "used"

DeedsInv == ask \in Order /\ Fitting /\ Filed /\ SentAsAsked /\ RowsHonest /\ NetNoted
-----------------------------------------------------------------------------
LEMMA Budgets ==
  /\ {Retries, RunBudget, PullBudget, SendBudget, Headroom, MaxClock, MaxDirs, MaxJobs} \subseteq Nat
  /\ {RunBudget, PullBudget, SendBudget} \subseteq 0..(RunBudget + Headroom)
BY JobFilesAssumption

LEMMA Relabelled ==
  ASSUME NEW D, NEW L, NEW r \in [dir : D, left : L, dropped : BOOLEAN], NEW b
  PROVE  [r EXCEPT !.dropped = b] = [dir |-> r.dir, left |-> r.left, dropped |-> b]
OBVIOUS

LEMMA Renewed ==
  ASSUME NEW D, NEW L, NEW B, NEW r \in [dir : D, left : L, dropped : B], NEW d, NEW l,
         NEW n, n = [r EXCEPT !.dir = d, !.left = l], NEW E, d \in E, l \in L, r.dir \in E
  PROVE  n \in [dir : E, left : L, dropped : B] /\ n.dir = d /\ n.dropped = r.dropped
OBVIOUS

LEMMA WithDir ==
  ASSUME NEW f, NEW d
  PROVE  /\ DOMAIN With(f, d) = DOMAIN f \cup {d}
         /\ With(f, d)[d] = now
         /\ \A e \in DOMAIN f \ {d} : With(f, d)[e] = f[e]
BY DEF With

LEMMA WithoutDir ==
  ASSUME NEW d
  PROVE  /\ DOMAIN Without(d) = DOMAIN dirs \ {d}
         /\ \A e \in DOMAIN dirs \ {d} : Without(d)[e] = dirs[e]
BY DEF Without

LEMMA LooseFinite ==
  Counts /\ OneHand => IsFiniteSet(Loose) /\ Cardinality(Loose) \in Nat
<1> SUFFICES ASSUME Counts, OneHand PROVE IsFiniteSet(Loose) /\ Cardinality(Loose) \in Nat
  OBVIOUS
<1>1. Loose \subseteq 1..spent
  BY DEF Counts, OneHand, Loose
<1>2. IsFiniteSet(1..spent)
  BY FS_Interval DEF Counts
<1>3. QED BY <1>1, <1>2, FS_Subset, FS_CardinalityType

\* The three ways the loose directories may change.
LEMMA NoMoreLoose ==
  ASSUME DirsInv, Loose' \subseteq Loose, spills' \in Nat, spills' >= spills
  PROVE  Cardinality(Loose') <= spills'
BY LooseFinite, FS_Subset, FS_CardinalityType DEF DirsInv, Counts

LEMMA OneMoreLoose ==
  ASSUME DirsInv, NEW x, Loose' \subseteq Loose \cup {x}, spills' = spills + 1
  PROVE  Cardinality(Loose') <= spills'
<1>1. IsFiniteSet(Loose) /\ Cardinality(Loose) \in Nat /\ Cardinality(Loose) <= spills /\ spills \in Nat
  BY LooseFinite DEF DirsInv, Counts
<1>2. IsFiniteSet(Loose \cup {x}) /\ Cardinality(Loose \cup {x}) <= spills + 1
      /\ Cardinality(Loose \cup {x}) \in Nat
  <2>1. IsFiniteSet(Loose \cup {x})
        /\ Cardinality(Loose \cup {x}) = IF x \in Loose THEN Cardinality(Loose) ELSE Cardinality(Loose) + 1
    BY <1>1, FS_AddElement
  <2>2. QED BY <1>1, <2>1
<1>3. QED BY <1>2, FS_Subset, FS_CardinalityType

LEMMA LooseMoves ==
  ASSUME DirsInv, NEW x \in Loose, NEW y, Loose' \subseteq (Loose \ {x}) \cup {y}, spills' = spills
  PROVE  Cardinality(Loose') <= spills'
<1>1. IsFiniteSet(Loose) /\ Cardinality(Loose) \in Nat /\ Cardinality(Loose) <= spills /\ spills \in Nat
  BY LooseFinite DEF DirsInv, Counts
<1>2. IsFiniteSet(Loose \ {x}) /\ Cardinality(Loose \ {x}) = Cardinality(Loose) - 1
  BY <1>1, FS_RemoveElement
<1>3. IsFiniteSet((Loose \ {x}) \cup {y}) /\ Cardinality((Loose \ {x}) \cup {y}) <= Cardinality(Loose)
      /\ Cardinality((Loose \ {x}) \cup {y}) \in Nat
  <2> DEFINE rest == Loose \ {x}
  <2>1. IsFiniteSet(rest \cup {y})
        /\ Cardinality(rest \cup {y}) = IF y \in rest THEN Cardinality(rest) ELSE Cardinality(rest) + 1
    BY <1>2, FS_AddElement
  <2>2. Cardinality(rest) \in Nat /\ Cardinality(rest) = Cardinality(Loose) - 1
    BY <1>2, FS_CardinalityType
  <2> HIDE DEF rest
  <2>3. Cardinality(rest \cup {y}) <= Cardinality(Loose) /\ Cardinality(rest \cup {y}) \in Nat
    BY <1>1, <2>1, <2>2
  <2>4. QED BY <2>1, <2>3 DEF rest
<1>4. QED BY <1>1, <1>3, FS_Subset, FS_CardinalityType

LEMMA InitDirs == FilesInit => DirsInv
<1> SUFFICES ASSUME FilesInit PROVE DirsInv
  OBVIOUS
<1>1. Awaited = {} /\ Owned = {} /\ Loose = {} /\ DOMAIN dirs = {}
  BY DEF FilesInit, Awaited, Owned, Loose
<1>2. 0 \in 0..MaxClock /\ 0 \in 0..MaxDirs
  BY Budgets
<1>3. Counts
  BY <1>1, <1>2 DEF FilesInit, Counts
<1>4. QED BY <1>1, <1>3, FS_EmptySet DEF FilesInit, DirsInv, OneHand, InBudget

\* Nothing is done to a directory.
LEMMA FilesStand ==
  ASSUME DirsInv, UNCHANGED <<ffmpeg, dirs, spent, threads, mine, spills>>,
         now' \in 0..MaxClock, now' >= now,
         \/ UNCHANGED began /\ began <= now'
         \/ began' = now /\ now' = now /\ Owned = {},
         \/ at' = at
         \/ at \in {"idle", "failed", "refused", "settled"} /\ at' \in {"failed", "wait"}
         \/ at = "check" /\ at' = "upload",
         at' \in {"wait", "run"}     => now' <= began' + RunBudget,
         at' = "pull"                => now' <= began' + PullBudget,
         at' \in {"check", "upload"} => now' <= began' + SendBudget
  PROVE  DirsInv'
<1>1. Awaited' = Awaited /\ Owned' = Owned /\ Loose' = Loose
  BY DEF Awaited, Owned, Loose
<1>2. Counts'
  BY DEF DirsInv, Counts
<1>3. OneHand'
  BY <1>1 DEF DirsInv, OneHand
<1>4. InBudget'
  BY <1>1, <1>2 DEF DirsInv, Counts, InBudget
<1>5. QED BY <1>1, <1>2, <1>3, <1>4 DEF DirsInv

\* _finish_upload and its like: the directory of what was to be sent goes.
LEMMA MineGoes ==
  ASSUME DirsInv, at \in {"fetch", "pull", "check", "upload"}, dirs' = Without(mine), mine' = 0,
         at' \in {"failed", "refused", "settled"},
         UNCHANGED <<ffmpeg, now, began, spent, threads, spills>>
  PROVE  DirsInv'
<1>1. Awaited = {} /\ Awaited' = {}
  BY DEF DirsInv, OneHand, Awaited
<1>2. Owned = {mine} \ {0} /\ Owned' = {}
  BY <1>1 DEF Owned
<1>3. DOMAIN dirs' = DOMAIN dirs \ {mine} /\ \A e \in DOMAIN dirs' : dirs'[e] = dirs[e]
  BY WithoutDir
<1>4. Loose' \subseteq Loose
  BY <1>2, <1>3 DEF DirsInv, OneHand, Loose, Counts
<1>5. Counts'
  BY <1>3 DEF DirsInv, Counts
<1>6. OneHand'
  BY <1>1, <1>5 DEF DirsInv, OneHand, Counts
<1>7. InBudget'
  BY <1>2 DEF DirsInv, InBudget
<1>8. Cardinality(Loose') <= spills'
  BY <1>4, <1>5, NoMoreLoose DEF Counts
<1>9. QED BY <1>5, <1>6, <1>7, <1>8 DEF DirsInv

LEMMA StartRunDirs == DirsInv /\ StartRun => DirsInv'
<1> SUFFICES ASSUME DirsInv, StartRun PROVE DirsInv'
  OBVIOUS
<1> DEFINE t == [dir |-> spent + 1, left |-> Retries, dropped |-> FALSE]
<1>1. /\ at = "wait" /\ spent < MaxDirs /\ at' = "run" /\ spent' = spent + 1
      /\ dirs' = With(dirs, spent + 1) /\ threads' = threads \cup {t}
      /\ UNCHANGED <<ffmpeg, now, began, mine, spills>>
  BY DEF StartRun
<1>2. Awaited = {} /\ mine = 0 /\ mine' = 0 /\ spent \in Nat /\ now \in Nat
  BY <1>1 DEF DirsInv, Counts, OneHand
<1>3. Awaited' = {t} /\ t.dir = spent + 1
  BY <1>1, <1>2 DEF Awaited
<1>4. Owned' = {spent + 1} /\ Owned = {}
  BY <1>2, <1>3 DEF Owned
<1>5. DOMAIN dirs' = DOMAIN dirs \cup {spent + 1} /\ dirs'[spent + 1] = now
      /\ \A e \in DOMAIN dirs : dirs'[e] = dirs[e]
  <2>1. spent + 1 \notin DOMAIN dirs
    BY <1>2 DEF DirsInv, Counts
  <2>2. DOMAIN dirs \ {spent + 1} = DOMAIN dirs
    BY <2>1
  <2>3. dirs' = With(dirs, spent + 1)
    BY <1>1
  <2>4. QED BY <2>2, <2>3, WithDir
<1>6. Counts'
  BY <1>1, <1>2, <1>5, Budgets DEF DirsInv, Counts
<1>7. \A s \in threads' : s = t \/ (s \in threads /\ s.dir \in 1..spent /\ s.dir # spent + 1)
  BY <1>1, <1>2 DEF DirsInv, OneHand
<1>8. OneHand'
  <2>1. t \in [dir : 1..(spent + 1), left : 0..Retries, dropped : BOOLEAN]
    BY <1>2, Budgets
  <2>2. threads' \subseteq [dir : 1..spent', left : 0..Retries, dropped : BOOLEAN]
    <3>1. ASSUME NEW s \in threads
          PROVE  s \in [dir : 1..(spent + 1), left : 0..Retries, dropped : BOOLEAN]
      <4>1. s \in [dir : 1..spent, left : 0..Retries, dropped : BOOLEAN]
        BY DEF DirsInv, OneHand
      <4>2. 1..spent \subseteq 1..(spent + 1)
        BY <1>2
      <4>3. QED BY <4>1, <4>2
    <3>2. QED BY <1>1, <2>1, <3>1
  <2>3. \A r, s \in threads' : r.dir = s.dir => r = s
    BY <1>3, <1>7 DEF DirsInv, OneHand
  <2>4. \A s \in threads' : s.dir # mine'
    BY <1>2, <1>3, <1>7
  <2>5. QED BY <1>1, <1>2, <1>3, <2>2, <2>3, <2>4 DEF OneHand
<1>9. InBudget'
  BY <1>1, <1>4, <1>5 DEF DirsInv, Counts, InBudget
<1>10. Loose' \subseteq Loose
  BY <1>1, <1>3, <1>4, <1>5 DEF Loose
<1>11. Cardinality(Loose') <= spills'
  BY <1>1, <1>6, <1>10, NoMoreLoose DEF Counts
<1>12. QED BY <1>6, <1>8, <1>9, <1>11 DEF DirsInv

\* The thread keeps its directory; whoever lets go counts it.
LEMMA LetGoDirs ==
  ASSUME DirsInv, NEW why, LetGo(why), at \in {"wait", "run"}
  PROVE  DirsInv'
<1>1. /\ threads' = {[th EXCEPT !.dropped = TRUE] : th \in threads}
      /\ spills' = spills + (IF Awaited # {} THEN 1 ELSE 0)
      /\ at' = "failed" /\ mine' = 0 /\ UNCHANGED <<ffmpeg, now, began, dirs, spent>>
  BY DEF LetGo, SettleAs, Awaited
<1>2. threads \subseteq [dir : 1..spent, left : 0..Retries, dropped : BOOLEAN] /\ mine = 0
  BY DEF DirsInv, OneHand
<1>3. \A s \in threads' : /\ s \in [dir : 1..spent, left : 0..Retries, dropped : BOOLEAN]
                          /\ s.dropped = TRUE
                          /\ \E r \in threads : s.dir = r.dir /\ s.left = r.left
                                                /\ s = [dir |-> r.dir, left |-> r.left, dropped |-> TRUE]
  <2>1. ASSUME NEW r \in threads
        PROVE  [r EXCEPT !.dropped = TRUE] = [dir |-> r.dir, left |-> r.left, dropped |-> TRUE]
               /\ r.dir \in 1..spent /\ r.left \in 0..Retries
    <3>1. r \in [dir : 1..spent, left : 0..Retries, dropped : BOOLEAN]
      BY <1>2
    <3>2. r.dir \in 1..spent /\ r.left \in 0..Retries
      BY <3>1
    <3>3. [r EXCEPT !.dropped = TRUE] = [dir |-> r.dir, left |-> r.left, dropped |-> TRUE]
      BY <3>1, Relabelled
    <3>4. QED BY <3>2, <3>3
  <2>2. ASSUME NEW s \in threads'
        PROVE  \E r \in threads : s = [dir |-> r.dir, left |-> r.left, dropped |-> TRUE]
                                 /\ r.dir \in 1..spent /\ r.left \in 0..Retries
    BY <1>1, <2>1
  <2>3. ASSUME NEW s \in threads'
        PROVE  /\ s \in [dir : 1..spent, left : 0..Retries, dropped : BOOLEAN]
               /\ s.dropped = TRUE
               /\ \E r \in threads : s.dir = r.dir /\ s.left = r.left
                                     /\ s = [dir |-> r.dir, left |-> r.left, dropped |-> TRUE]
    <3>1. PICK r \in threads : s = [dir |-> r.dir, left |-> r.left, dropped |-> TRUE]
                               /\ r.dir \in 1..spent /\ r.left \in 0..Retries
      BY <2>2
    <3>2. QED BY <3>1
  <2>4. QED BY <2>3
<1>4. Awaited' = {} /\ Owned' = {} /\ Owned = {th.dir : th \in Awaited}
  BY <1>1, <1>2, <1>3 DEF Awaited, Owned
<1>5. {th.dir : th \in threads'} \subseteq {th.dir : th \in threads}
  BY <1>3
<1>6. Counts'
  BY <1>1 DEF DirsInv, Counts
<1>7. OneHand'
  <2>1. \A r, s \in threads' : r.dir = s.dir => r = s
    BY <1>3 DEF DirsInv, OneHand
  <2>2. \A s \in threads' : s.dir # mine'
    BY <1>1, <1>2, <1>3
  <2>3. QED BY <1>1, <1>3, <1>4, <2>1, <2>2 DEF OneHand
<1>8. InBudget'
  BY <1>1, <1>4 DEF DirsInv, InBudget
<1>9. Cardinality(Loose') <= spills'
  <2>1. CASE Awaited = {}
    <3>1. Loose' \subseteq Loose
      BY <1>1, <1>4, <1>5, <2>1 DEF Loose
    <3>2. QED BY <1>1, <1>6, <2>1, <3>1, NoMoreLoose DEF DirsInv, Counts
  <2>2. CASE Awaited # {}
    <3>1. PICK th \in Awaited : TRUE
      BY <2>2
    <3>2. Owned = {th.dir}
      BY <1>4, <3>1 DEF DirsInv, OneHand
    <3>3. Loose' \subseteq Loose \cup {th.dir}
      BY <1>1, <1>4, <1>5, <3>2 DEF Loose
    <3>4. QED BY <1>1, <2>2, <3>3, OneMoreLoose
  <2>3. QED BY <2>1, <2>2
<1>10. QED BY <1>6, <1>7, <1>8, <1>9 DEF DirsInv

\* What a thread is, and is to the others.
LEMMA ThreadFacts ==
  ASSUME DirsInv, NEW th \in threads
  PROVE  /\ th.dir \in 1..spent /\ th.left \in 0..Retries /\ th.dropped \in BOOLEAN /\ th.dir # mine
         /\ \A s \in threads \ {th} : s.dir # th.dir
         /\ th.dropped => th.dir \notin Owned
         /\ ~th.dropped => /\ Awaited = {th} /\ Owned = {th.dir} /\ at = "run" /\ mine = 0
                           /\ th.dir \in DOMAIN dirs
         /\ \A s \in threads : s.dir \in 1..spent /\ s.dir # spent + 1
         /\ spent \in Nat /\ mine # spent + 1 /\ spent + 1 \notin DOMAIN dirs
<1>1. th \in [dir : 1..spent, left : 0..Retries, dropped : BOOLEAN] /\ spent \in Nat
  BY Budgets DEF DirsInv, OneHand, Counts
<1>2. \A s \in threads : s.dir \in 1..spent /\ s.dir # spent + 1
  BY <1>1 DEF DirsInv, OneHand
<1>3. \A s \in threads \ {th} : s.dir # th.dir
  BY DEF DirsInv, OneHand
<1>4. th.dropped => th.dir \notin Owned
  BY <1>1, <1>3 DEF DirsInv, OneHand, Owned, Awaited
<1>5. ASSUME ~th.dropped
      PROVE  Awaited = {th} /\ Owned = {th.dir} /\ at = "run" /\ mine = 0 /\ th.dir \in DOMAIN dirs
  <2>1. Awaited = {th} /\ at = "run" /\ mine = 0
    BY <1>5 DEF DirsInv, OneHand, Awaited
  <2>2. Owned = {th.dir}
    BY <2>1 DEF Owned
  <2>3. QED BY <2>1, <2>2 DEF DirsInv, InBudget
<1>6. spent + 1 \notin DOMAIN dirs /\ mine # spent + 1
  BY <1>1 DEF DirsInv, Counts
<1>7. QED BY <1>1, <1>2, <1>3, <1>4, <1>5, <1>6 DEF DirsInv, OneHand

\* An attempt that is over, with its directory or without it; another one may
\* follow in a new directory. What stays in the hands of the job is its own.
LEMMA AttemptOver ==
  ASSUME DirsInv, NEW th \in threads, threads' = threads \ {th},
         UNCHANGED <<ffmpeg, now, spent, spills>>,
         \/ th.dropped /\ dirs' \in {dirs, Without(th.dir)} /\ UNCHANGED <<at, began, mine>>
         \/ /\ ~th.dropped /\ dirs' = Without(th.dir)
            /\ at' \in {"fetch", "failed"} /\ began' = began /\ mine' = 0
  PROVE  DirsInv'
<1>0. /\ th.dir \in 1..spent /\ th.left \in 0..Retries /\ th.dir # mine
      /\ \A s \in threads \ {th} : s.dir # th.dir
      /\ th.dropped => th.dir \notin Owned
      /\ ~th.dropped => /\ Awaited = {th} /\ Owned = {th.dir} /\ at = "run" /\ mine = 0
                        /\ th.dir \in DOMAIN dirs
  BY ThreadFacts
<1>1. DOMAIN dirs' \subseteq DOMAIN dirs /\ (DOMAIN dirs \ {th.dir}) \subseteq DOMAIN dirs'
      /\ \A e \in DOMAIN dirs' : dirs'[e] = dirs[e]
  BY WithoutDir
<1>2. Awaited' = Awaited \ {th}
  BY DEF Awaited
<1>3. Owned' = Owned \ {th.dir}
  <2>1. CASE th.dropped
    <3>1. Awaited' = Awaited
      BY <1>2, <2>1 DEF Awaited
    <3>2. QED BY <1>0, <2>1, <3>1 DEF Owned
  <2>2. CASE ~th.dropped
    BY <1>0, <1>2, <2>2 DEF Owned
  <2>3. QED BY <2>1, <2>2
<1>4. Counts'
  BY <1>1 DEF DirsInv, Counts
<1>5. OneHand'
  <2>1. Awaited' # {} => at' = "run"
    BY <1>0, <1>2 DEF DirsInv, OneHand
  <2>2. mine' # 0 <=> at' \in {"pull", "check", "upload"}
    BY <1>0 DEF DirsInv, OneHand
  <2>3. \A s \in threads' : s.dir # mine'
    <3>1. CASE UNCHANGED mine
      BY <3>1 DEF DirsInv, OneHand
    <3>2. CASE mine' = 0
      BY <3>2, ThreadFacts
    <3>3. QED BY <3>1, <3>2
  <2>4. threads' \subseteq threads /\ Awaited' \subseteq Awaited
    BY <1>2
  <2>5. QED BY <2>1, <2>2, <2>3, <2>4 DEF DirsInv, OneHand
<1>6. InBudget'
  <2>1. \A d \in Owned' : d \in DOMAIN dirs' /\ dirs'[d] >= began'
    BY <1>1, <1>3 DEF DirsInv, InBudget
  <2>2. QED BY <1>0, <2>1 DEF DirsInv, InBudget
<1>7. Loose' \subseteq Loose
  <2>1. CASE th.dropped
    BY <1>0, <1>1, <1>3, <2>1 DEF Loose
  <2>2. CASE ~th.dropped
    <3>1. Owned' = Owned \ {th.dir} /\ DOMAIN dirs' \subseteq DOMAIN dirs \ {th.dir}
      BY <1>0, <1>3, <2>2, WithoutDir
    <3>2. QED BY <1>0, <1>3, <2>2, <3>1 DEF Loose
  <2>3. QED BY <2>1, <2>2
<1>8. Cardinality(Loose') <= spills'
  BY <1>4, <1>7, NoMoreLoose DEF Counts
<1>9. QED BY <1>4, <1>5, <1>6, <1>8 DEF DirsInv

\* Once more, in a directory of its own.
LEMMA AttemptAgain ==
  ASSUME DirsInv, NEW th \in threads, spent < MaxDirs, spent' = spent + 1,
         dirs' = With(Without(th.dir), spent + 1),
         NEW n \in [dir : 1..(spent + 1), left : 0..Retries, dropped : BOOLEAN],
         n.dir = spent + 1, n.dropped = th.dropped, threads' = (threads \ {th}) \cup {n},
         UNCHANGED <<ffmpeg, now, at, began, mine, spills>>
  PROVE  DirsInv'
<1>0. /\ th.dir \in 1..spent /\ th.left \in 0..Retries /\ th.dropped \in BOOLEAN /\ th.dir # mine
      /\ \A s \in threads \ {th} : s.dir # th.dir
      /\ th.dropped => th.dir \notin Owned
      /\ ~th.dropped => /\ Awaited = {th} /\ Owned = {th.dir} /\ at = "run" /\ mine = 0
                        /\ th.dir \in DOMAIN dirs
      /\ \A s \in threads : s.dir \in 1..spent /\ s.dir # spent + 1
      /\ spent \in Nat /\ mine # spent + 1 /\ spent + 1 \notin DOMAIN dirs
  BY ThreadFacts
<1>1. /\ DOMAIN dirs' = (DOMAIN dirs \ {th.dir}) \cup {spent + 1} /\ dirs'[spent + 1] = now
      /\ \A e \in DOMAIN dirs \ {th.dir} : dirs'[e] = dirs[e]
  <2> DEFINE g == Without(th.dir)
  <2>1. DOMAIN g = DOMAIN dirs \ {th.dir} /\ \A e \in DOMAIN g : g[e] = dirs[e]
    BY WithoutDir
  <2>2. dirs' = With(g, spent + 1)
    OBVIOUS
  <2> HIDE DEF g
  <2>3. /\ DOMAIN With(g, spent + 1) = DOMAIN g \cup {spent + 1}
        /\ With(g, spent + 1)[spent + 1] = now
        /\ \A e \in DOMAIN g \ {spent + 1} : With(g, spent + 1)[e] = g[e]
    BY WithDir
  <2>4. DOMAIN dirs' = DOMAIN g \cup {spent + 1} /\ dirs'[spent + 1] = now
        /\ \A e \in DOMAIN g : dirs'[e] = g[e]
    BY <1>0, <2>1, <2>2, <2>3
  <2>5. QED BY <2>1, <2>4
<1>5. Awaited' = IF th.dropped THEN Awaited ELSE {n}
  <2>1. CASE th.dropped
    BY <2>1 DEF Awaited
  <2>2. CASE ~th.dropped
    BY <1>0, <2>2 DEF Awaited
  <2>3. QED BY <2>1, <2>2
<1>6. Owned' = IF th.dropped THEN Owned ELSE {spent + 1}
  BY <1>0, <1>5 DEF Owned
<1>7. Counts'
  BY <1>0, <1>1, Budgets DEF DirsInv, Counts
<1>8. OneHand'
  <2>1. ASSUME NEW s \in threads
        PROVE  s \in [dir : 1..(spent + 1), left : 0..Retries, dropped : BOOLEAN]
    <3>1. s \in [dir : 1..spent, left : 0..Retries, dropped : BOOLEAN]
      BY DEF DirsInv, OneHand
    <3>2. 1..spent \subseteq 1..(spent + 1)
      BY <1>0
    <3>3. QED BY <3>1, <3>2
  <2>2. threads' \subseteq [dir : 1..spent', left : 0..Retries, dropped : BOOLEAN]
    BY <2>1
  <2>3. \A r, s \in threads' : r.dir = s.dir => r = s
    BY <1>0 DEF DirsInv, OneHand
  <2>4. \A s \in threads' : s.dir # mine'
    BY <1>0 DEF DirsInv, OneHand
  <2>5. (Awaited' # {} => at' = "run") /\ \A r, s \in Awaited' : r = s
    BY <1>0, <1>5 DEF DirsInv, OneHand
  <2>6. QED BY <2>2, <2>3, <2>4, <2>5 DEF DirsInv, OneHand
<1>9. InBudget'
  <2>1. \A d \in Owned' : d \in DOMAIN dirs' /\ dirs'[d] >= began'
    BY <1>0, <1>1, <1>6 DEF DirsInv, InBudget
  <2>2. QED BY <2>1 DEF DirsInv, InBudget
<1>10. Cardinality(Loose') <= spills'
  <2>1. CASE th.dropped
    <3>1. th.dir \in Loose
      BY <1>0, <2>1 DEF Loose
    <3>2. Loose' \subseteq (Loose \ {th.dir}) \cup {spent + 1}
      BY <1>0, <1>1, <1>6, <2>1 DEF Loose
    <3>3. QED BY <3>1, <3>2, LooseMoves
  <2>2. CASE ~th.dropped
    <3>1. Loose' \subseteq Loose
      BY <1>0, <1>1, <1>6, <2>2 DEF Loose
    <3>2. QED BY <1>7, <3>1, NoMoreLoose DEF Counts
  <2>3. QED BY <2>1, <2>2
<1>11. QED BY <1>7, <1>8, <1>9, <1>10 DEF DirsInv

\* A write into a directory that is in somebody's hands.
LEMMA Refreshed ==
  ASSUME DirsInv, NEW d \in Owned, dirs' = With(dirs, d)
  PROVE  /\ DOMAIN dirs' = DOMAIN dirs /\ dirs'[d] = now
         /\ \A e \in DOMAIN dirs \ {d} : dirs'[e] = dirs[e]
         /\ began <= now /\ {began, now} \subseteq Nat
         /\ \A e \in DOMAIN dirs : dirs'[e] \in Nat
         /\ \A e \in Owned : e \in DOMAIN dirs' /\ dirs'[e] >= began
<1>1. d \in DOMAIN dirs
  BY DEF DirsInv, InBudget
<1>2. DOMAIN dirs' = DOMAIN dirs /\ dirs'[d] = now /\ \A e \in DOMAIN dirs \ {d} : dirs'[e] = dirs[e]
  <2>1. /\ DOMAIN With(dirs, d) = DOMAIN dirs \cup {d} /\ With(dirs, d)[d] = now
        /\ \A e \in DOMAIN dirs \ {d} : With(dirs, d)[e] = dirs[e]
    BY WithDir
  <2>2. QED BY <1>1, <2>1
<1>3. {began, now} \subseteq Nat /\ \A e \in DOMAIN dirs : dirs[e] \in Nat
  BY Budgets DEF DirsInv, Counts
<1>4. \A e \in DOMAIN dirs : dirs'[e] \in Nat
  BY <1>2, <1>3
<1>5. began <= now /\ \A e \in Owned : e \in DOMAIN dirs' /\ dirs'[e] >= began
  BY <1>2 DEF DirsInv, InBudget
<1>6. QED BY <1>2, <1>3, <1>4, <1>5

LEMMA WriteDirs == ASSUME DirsInv, NEW th \in threads, Write(th) PROVE DirsInv'
<1>1. UNCHANGED <<ffmpeg, now, spent, at, began, mine, spills>>
  BY DEF Write
<1>2. CASE th.dropped
  <2>1. threads' = threads \ {th} /\ dirs' = Without(th.dir)
    BY <1>2 DEF Write
  <2>2. QED BY <1>1, <1>2, <2>1, AttemptOver
<1>3. CASE ~th.dropped
  <2>1. threads' = threads /\ dirs' = With(dirs, th.dir)
    BY <1>3 DEF Write
  <2>2. th.dir \in Owned
    BY <1>3, ThreadFacts
  <2>3. /\ DOMAIN dirs' = DOMAIN dirs
        /\ \A e \in DOMAIN dirs : dirs'[e] \in Nat
        /\ \A e \in Owned : e \in DOMAIN dirs' /\ dirs'[e] >= began
    BY <2>1, <2>2, Refreshed
  <2>4. Awaited' = Awaited /\ Owned' = Owned /\ Loose' = Loose
    BY <1>1, <2>1, <2>3 DEF Awaited, Owned, Loose
  <2>5. Counts'
    BY <1>1, <2>3 DEF DirsInv, Counts
  <2>6. OneHand'
    BY <1>1, <2>1, <2>4 DEF DirsInv, OneHand
  <2>7. InBudget'
    BY <1>1, <2>3, <2>4 DEF DirsInv, InBudget
  <2>8. QED BY <1>1, <2>4, <2>5, <2>6, <2>7 DEF DirsInv
<1>4. QED BY <1>2, <1>3

LEMMA EngineEnds ==
  ASSUME NEW why, EngineFails(why)
  PROVE  at' \in {"fetch", "failed"} /\ mine' = 0 /\ UNCHANGED <<ffmpeg, now, began>>
BY DEF EngineFails, SettleAs

LEMMA FailDirs ==
  ASSUME DirsInv, NEW th \in threads, NEW why \in Codes, AttemptFails(th, why)
  PROVE  DirsInv'
<1>1. CASE why \in RETRYABLE_EXTRACTION_CODES /\ th.left > 0
  <2> DEFINE n == [th EXCEPT !.dir = spent + 1, !.left = th.left - 1]
  <2>1. /\ spent < MaxDirs /\ spent' = spent + 1 /\ dirs' = With(Without(th.dir), spent + 1)
        /\ threads' = (threads \ {th}) \cup {n}
        /\ UNCHANGED <<ffmpeg, now, at, began, mine, spills>>
    BY <1>1 DEF AttemptFails
  <2>2. th \in [dir : 1..spent, left : 0..Retries, dropped : BOOLEAN]
    BY DEF DirsInv, OneHand
  <2>3. spent \in Nat /\ th.dir \in 1..spent /\ th.left \in 0..Retries
    BY ThreadFacts
  <2>4. spent + 1 \in 1..(spent + 1) /\ th.dir \in 1..(spent + 1) /\ th.left - 1 \in 0..Retries
    BY <1>1, <2>3, Budgets
  <2>5. n \in [dir : 1..(spent + 1), left : 0..Retries, dropped : BOOLEAN]
        /\ n.dir = spent + 1 /\ n.dropped = th.dropped
    BY <2>2, <2>4, Renewed
  <2> HIDE DEF n
  <2>6. QED BY <2>1, <2>5, AttemptAgain
<1>2. CASE ~(why \in RETRYABLE_EXTRACTION_CODES /\ th.left > 0)
  <2>1. threads' = threads \ {th} /\ dirs' = Without(th.dir) /\ UNCHANGED <<spent, spills>>
    BY <1>2 DEF AttemptFails
  <2>2. CASE th.dropped
    <3>1. UNCHANGED <<ffmpeg, now, at, began, mine>>
      BY <1>2, <2>2 DEF AttemptFails
    <3>2. QED BY <2>1, <2>2, <3>1, AttemptOver
  <2>3. CASE ~th.dropped
    <3>1. EngineFails(why)
      BY <1>2, <2>3 DEF AttemptFails
    <3>2. at' \in {"fetch", "failed"} /\ mine' = 0 /\ UNCHANGED <<ffmpeg, now, began>>
      BY <3>1, EngineEnds
    <3>3. QED BY <2>1, <2>3, <3>2, AttemptOver
  <2>4. QED BY <2>2, <2>3
<1>3. QED BY <1>1, <1>2

\* The directory passes from the thread to the job.
LEMMA ProduceDirs ==
  ASSUME DirsInv, NEW th \in threads, NEW p \in Product, Produced(th, p)
  PROVE  DirsInv'
<1>1. threads' = threads \ {th} /\ UNCHANGED <<ffmpeg, now, spent, spills>>
  BY DEF Produced, SettleAs
<1>2. CASE th.dropped
  <2>1. UNCHANGED <<dirs, at, began, mine>>
    BY <1>2 DEF Produced
  <2>2. QED BY <1>1, <1>2, <2>1, AttemptOver
<1>3. CASE ~th.dropped /\ ~Converted(p, ask)
  <2>1. dirs' = Without(th.dir) /\ at' = "failed" /\ began' = began /\ mine' = 0
    BY <1>3 DEF Produced, SettleAs
  <2>2. QED BY <1>1, <1>3, <2>1, AttemptOver
<1>4. CASE ~th.dropped /\ Converted(p, ask)
  <2>1. dirs' = With(dirs, th.dir) /\ at' = "check" /\ mine' = th.dir /\ began' = now
    BY <1>4 DEF Produced
  <2>2. /\ th.dir \in 1..spent /\ Awaited = {th} /\ Owned = {th.dir} /\ at = "run" /\ mine = 0
        /\ \A s \in threads \ {th} : s.dir # th.dir
        /\ \A s \in threads : s.dir \in 1..spent
    BY <1>4, ThreadFacts
  <2>3. /\ DOMAIN dirs' = DOMAIN dirs /\ dirs'[th.dir] = now
        /\ {began, now} \subseteq Nat
        /\ \A e \in DOMAIN dirs : dirs'[e] \in Nat
        /\ th.dir \in DOMAIN dirs'
    BY <2>1, <2>2, Refreshed
  <2>4. Awaited' = {}
    BY <1>1, <2>2 DEF Awaited
  <2>5. Owned' = {th.dir}
    BY <2>1, <2>2, <2>4 DEF Owned
  <2>6. Counts'
    BY <1>1, <2>1, <2>2, <2>3 DEF DirsInv, Counts
  <2>7. OneHand'
    BY <1>1, <2>1, <2>2, <2>4 DEF DirsInv, OneHand
  <2>8. InBudget'
    BY <1>1, <2>1, <2>3, <2>5, Budgets DEF InBudget
  <2>9. Loose' \subseteq Loose
    BY <1>1, <2>2, <2>3, <2>5 DEF Loose
  <2>10. Cardinality(Loose') <= spills'
    BY <1>1, <2>6, <2>9, NoMoreLoose DEF Counts
  <2>11. QED BY <2>6, <2>7, <2>8, <2>10 DEF DirsInv
<1>5. QED BY <1>2, <1>3, <1>4

LEMMA PullDirs == DirsInv /\ StartPull => DirsInv'
<1> SUFFICES ASSUME DirsInv, StartPull PROVE DirsInv'
  OBVIOUS
<1>1. /\ at = "fetch" /\ spent < MaxDirs /\ at' = "pull" /\ spent' = spent + 1 /\ mine' = spent + 1
      /\ dirs' = With(dirs, spent + 1) /\ began' = now
      /\ UNCHANGED <<ffmpeg, now, threads, spills>>
  BY DEF StartPull
<1>2. Awaited = {} /\ Awaited' = {} /\ spent \in Nat /\ {now, began} \subseteq Nat /\ mine = 0
  BY <1>1, Budgets DEF DirsInv, Counts, OneHand, Awaited
<1>3. Owned = {} /\ Owned' = {spent + 1}
  BY <1>1, <1>2 DEF Owned
<1>4. /\ DOMAIN dirs' = DOMAIN dirs \cup {spent + 1} /\ dirs'[spent + 1] = now
      /\ \A e \in DOMAIN dirs : dirs'[e] = dirs[e]
  <2>1. spent + 1 \notin DOMAIN dirs
    BY <1>2 DEF DirsInv, Counts
  <2>2. /\ DOMAIN With(dirs, spent + 1) = DOMAIN dirs \cup {spent + 1}
        /\ With(dirs, spent + 1)[spent + 1] = now
        /\ \A e \in DOMAIN dirs \ {spent + 1} : With(dirs, spent + 1)[e] = dirs[e]
    BY WithDir
  <2>3. QED BY <1>1, <2>1, <2>2
<1>5. Counts'
  BY <1>1, <1>2, <1>4, Budgets DEF DirsInv, Counts
<1>6. \A s \in threads : s \in [dir : 1..(spent + 1), left : 0..Retries, dropped : BOOLEAN]
                         /\ s.dir # spent + 1
  <2>1. ASSUME NEW s \in threads
        PROVE  s \in [dir : 1..(spent + 1), left : 0..Retries, dropped : BOOLEAN]
               /\ s.dir # spent + 1
    <3>1. s \in [dir : 1..spent, left : 0..Retries, dropped : BOOLEAN]
      BY DEF DirsInv, OneHand
    <3>2. 1..spent \subseteq 1..(spent + 1) /\ spent + 1 \notin 1..spent
      BY <1>2
    <3>3. QED BY <3>1, <3>2
  <2>2. QED BY <2>1
<1>7. OneHand'
  BY <1>1, <1>2, <1>6 DEF DirsInv, OneHand
<1>8. InBudget'
  BY <1>1, <1>2, <1>3, <1>4, Budgets DEF InBudget
<1>9. Loose' \subseteq Loose
  BY <1>1, <1>3, <1>4 DEF Loose
<1>10. Cardinality(Loose') <= spills'
  BY <1>1, <1>5, <1>9, NoMoreLoose DEF Counts
<1>11. QED BY <1>5, <1>7, <1>8, <1>10 DEF DirsInv

\* A part or the whole has arrived: the budget begins anew.
LEMMA ArriveDirs ==
  ASSUME DirsInv, at = "pull", dirs' = With(dirs, mine), began' = now, at' \in {"pull", "check"},
         UNCHANGED <<ffmpeg, now, spent, threads, mine, spills>>
  PROVE  DirsInv'
<1>1. Awaited = {} /\ Awaited' = {} /\ mine # 0
  BY DEF DirsInv, OneHand, Awaited
<1>2. Owned = {mine} /\ Owned' = {mine}
  BY <1>1 DEF Owned
<1>3. /\ DOMAIN dirs' = DOMAIN dirs /\ dirs'[mine] = now
      /\ {began, now} \subseteq Nat
      /\ \A e \in DOMAIN dirs : dirs'[e] \in Nat
      /\ mine \in DOMAIN dirs'
  BY <1>2, Refreshed
<1>4. Counts'
  BY <1>3 DEF DirsInv, Counts
<1>5. OneHand'
  BY <1>1 DEF DirsInv, OneHand
<1>6. InBudget'
  BY <1>2, <1>3, Budgets DEF InBudget
<1>7. Loose' = Loose
  BY <1>2, <1>3 DEF Loose
<1>8. QED BY <1>4, <1>5, <1>6, <1>7 DEF DirsInv

\* What the process had in its hands is left behind.
LEMMA DieDirs == DirsInv /\ Die => DirsInv'
<1> SUFFICES ASSUME DirsInv, Die PROVE DirsInv'
  OBVIOUS
<1>1. /\ threads' = {} /\ at' = "idle" /\ mine' = 0
      /\ spills' = spills + (IF mine # 0 \/ Awaited # {} THEN 1 ELSE 0)
      /\ UNCHANGED <<ffmpeg, now, began, dirs, spent>>
  BY DEF Die, SettleAs, Awaited
<1>2. Awaited' = {} /\ Owned' = {}
  BY <1>1 DEF Awaited, Owned
<1>3. Counts' /\ OneHand' /\ InBudget'
  BY <1>1, <1>2 DEF DirsInv, Counts, OneHand, InBudget
<1>4. Cardinality(Loose') <= spills'
  <2>1. CASE mine = 0 /\ Awaited = {}
    <3>1. Owned = {} /\ Loose' \subseteq Loose
      BY <1>1, <1>2, <2>1 DEF Loose, Owned
    <3>2. QED BY <1>1, <1>3, <2>1, <3>1, NoMoreLoose DEF DirsInv, Counts
  <2>2. CASE mine # 0 \/ Awaited # {}
    <3>1. \E x : Owned \subseteq {x}
      <4>1. CASE Awaited = {}
        BY <4>1 DEF Owned
      <4>2. CASE Awaited # {}
        <5>1. PICK th \in Awaited : TRUE
          BY <4>2
        <5>2. th \in threads /\ ~th.dropped
          BY <5>1 DEF Awaited
        <5>3. Owned = {th.dir}
          BY <5>2, ThreadFacts
        <5>4. QED BY <5>3
      <4>3. QED BY <4>1, <4>2
    <3>2. PICK x : Owned \subseteq {x}
      BY <3>1
    <3>3. Loose' \subseteq Loose \cup {x}
      BY <1>1, <1>2, <3>2 DEF Loose
    <3>4. QED BY <1>1, <2>2, <3>3, OneMoreLoose
  <2>3. QED BY <2>1, <2>2
<1>5. QED BY <1>3, <1>4 DEF DirsInv

\* What is swept is in nobody's hands: its newest mtime is older than any
\* wait may last.
LEMMA SweepDirs == ASSUME DirsInv, NEW d \in DOMAIN dirs, Sweep(d) PROVE DirsInv'
<1>1. /\ Stale(d) /\ dirs' = Without(d)
      /\ UNCHANGED <<ffmpeg, now, spent, threads, at, began, mine, spills>>
  BY DEF Sweep
<1>2. /\ {began, now, dirs[d]} \subseteq Nat
      /\ at \in {"wait", "run", "pull", "check", "upload"} => now <= began + (RunBudget + Headroom)
  BY Budgets DEF DirsInv, Counts, InBudget
<1>3. RunBudget + Headroom <= job_cleanup_max_age /\ job_cleanup_max_age \in Nat
  BY JobFilesAssumption DEF job_cleanup_max_age, job_cleanup_floor, Larger
<1>4. d \notin Owned
  <2>1. SUFFICES ASSUME d \in Owned PROVE FALSE
    OBVIOUS
  <2>2. dirs[d] >= began
    BY <2>1 DEF DirsInv, InBudget
  <2>3. at \in {"wait", "run", "pull", "check", "upload"}
    BY <2>1 DEF DirsInv, OneHand, Owned
  <2>4. dirs[d] < now - job_cleanup_max_age
    BY <1>1 DEF Stale
  <2>5. QED BY <1>2, <1>3, <2>2, <2>3, <2>4, Budgets
<1>5. DOMAIN dirs' = DOMAIN dirs \ {d} /\ \A e \in DOMAIN dirs' : dirs'[e] = dirs[e]
  BY <1>1, WithoutDir
<1>6. Awaited' = Awaited /\ Owned' = Owned
  BY <1>1 DEF Awaited, Owned
<1>7. Counts'
  BY <1>1, <1>5 DEF DirsInv, Counts
<1>8. OneHand'
  BY <1>1, <1>6 DEF DirsInv, OneHand
<1>9. InBudget'
  BY <1>1, <1>4, <1>5, <1>6 DEF DirsInv, InBudget
<1>10. Loose' \subseteq Loose
  BY <1>1, <1>5, <1>6 DEF Loose
<1>11. Cardinality(Loose') <= spills'
  BY <1>1, <1>7, <1>10, NoMoreLoose DEF Counts
<1>12. QED BY <1>7, <1>8, <1>9, <1>11 DEF DirsInv

LEMMA DirsStep == DirsInv /\ [FilesNext]_filesVars => DirsInv'
<1> SUFFICES ASSUME DirsInv, [FilesNext]_filesVars PROVE DirsInv'
  OBVIOUS
<1>0. now \in 0..MaxClock /\ {now, began} \subseteq Nat /\ began <= now
  BY Budgets DEF DirsInv, Counts, InBudget
<1>1. CASE UNCHANGED filesVars
  BY <1>0, <1>1, FilesStand DEF filesVars, DirsInv, InBudget
<1>2. ASSUME NEW a \in Order, Begin(a) PROVE DirsInv'
  <2>1. /\ UNCHANGED <<ffmpeg, dirs, spent, threads, spills, now>>
        /\ began' = now /\ mine' = 0 /\ at' \in {"failed", "wait"}
        /\ at \in {"idle", "failed", "refused", "settled"}
    BY <1>2 DEF Begin
  <2>2. mine = 0 /\ Owned = {}
    BY <2>1 DEF DirsInv, OneHand, Owned
  <2>3. QED BY <1>0, <2>1, <2>2, Budgets, FilesStand
<1>3. CASE StartRun
  BY <1>3, StartRunDirs
<1>4. CASE TimeOut \/ CancelRun
  BY <1>4, LetGoDirs DEF TimeOut, CancelRun
<1>5. ASSUME NEW th \in threads, Write(th) PROVE DirsInv'
  BY <1>5, WriteDirs
<1>6. ASSUME NEW th \in threads, NEW why \in Codes, AttemptFails(th, why) PROVE DirsInv'
  BY <1>6, FailDirs
<1>7. ASSUME NEW th \in threads, NEW p \in Product, Produced(th, p) PROVE DirsInv'
  BY <1>7, ProduceDirs
<1>8. CASE StartPull
  BY <1>8, PullDirs
<1>9. CASE NextPart
  BY <1>9, ArriveDirs DEF NextPart
<1>10. ASSUME NEW p \in Product, Pulled(p) PROVE DirsInv'
  BY <1>10, ArriveDirs DEF Pulled
<1>11. CASE FetchFails \/ UploadRefused \/ CancelInLoop
  BY <1>11, MineGoes DEF FetchFails, UploadRefused, CancelInLoop, Dropping, SettleAs
<1>12. CASE Check
  <2>1. CASE at' = "upload"
    <3>1. UNCHANGED <<ffmpeg, now, dirs, spent, threads, began, mine, spills>> /\ at = "check"
      BY <1>12, <2>1 DEF Check, Dropping, SettleAs
    <3>2. now <= began + SendBudget
      BY <3>1 DEF DirsInv, InBudget
    <3>3. QED BY <1>0, <2>1, <3>1, <3>2, FilesStand
  <2>2. CASE at' # "upload"
    <3>1. \E state \in {"refused", "failed"}, why \in {"none", "CONVERSION_MISMATCH"} : Dropping(state, why)
      BY <1>12, <2>2 DEF Check
    <3>2. QED BY <1>12, <3>1, MineGoes DEF Check, Dropping, SettleAs
  <2>3. QED BY <2>1, <2>2
<1>13. ASSUME NEW cacheable \in BOOLEAN, Uploaded(cacheable) PROVE DirsInv'
  BY <1>13, MineGoes DEF Uploaded
<1>14. CASE Die
  BY <1>14, DieDirs
<1>15. CASE Tick
  <2>1. /\ now < MaxClock /\ now' = now + 1
        /\ UNCHANGED <<ffmpeg, dirs, spent, threads, at, began, mine, spills>>
        /\ at \in {"wait", "run"}     => now - began < RunBudget
        /\ at = "pull"                => now - began < PullBudget
        /\ at \in {"check", "upload"} => now - began < SendBudget
    BY <1>15 DEF Tick
  <2>2. /\ now' \in 0..MaxClock /\ now' >= now /\ began <= now'
        /\ at' \in {"wait", "run"}     => now' <= began' + RunBudget
        /\ at' = "pull"                => now' <= began' + PullBudget
        /\ at' \in {"check", "upload"} => now' <= began' + SendBudget
    BY <1>0, <2>1, Budgets
  <2>3. QED BY <2>1, <2>2, FilesStand
<1>16. ASSUME NEW d \in DOMAIN dirs, Sweep(d) PROVE DirsInv'
  BY <1>16, SweepDirs
<1>17. QED
  BY <1>1, <1>2, <1>3, <1>4, <1>5, <1>6, <1>7, <1>8, <1>9, <1>10, <1>11, <1>12, <1>13, <1>14,
     <1>15, <1>16 DEF FilesNext

-----------------------------------------------------------------------------
(* What the chat, the cache and the panel are told.                        *)

LEMMA ProductFacts ==
  ASSUME NEW p \in Product
  PROVE  p \in MediaFile /\ [p EXCEPT !.said = 0, !.source = 0] \in MediaFile
         /\ [p EXCEPT !.said = 0, !.source = 0].as = p.as
         /\ [p EXCEPT !.said = 0, !.source = 0].empty = p.empty
<1>1. p \in MediaFile
  BY JobFilesAssumption
<1>2. QED BY <1>1 DEF MediaFile

LEMMA OrderFacts ==
  ASSUME NEW a \in Order
  PROVE  a.format \in {"video", "audio"} /\ a.tap \in Nat
BY JobFilesAssumption

\* The name of a frame is a number of lines.
LEMMA LabelPositive ==
  ASSUME NEW w \in Nat, NEW h \in Nat, h > 0
  PROVE  quality_label_p(w, h) > 0 /\ quality_label_p(w, h) \in Nat
<1> DEFINE short == IF w > 0 /\ w < h THEN w ELSE h
           near  == {r \in Steps : Distance(short, r) <= 16}
<1>1. quality_label_p(w, h) = IF near # {} THEN CHOOSE r \in near : TRUE ELSE short
  BY DEF quality_label_p
<1>2. short > 0 /\ short \in Nat
  OBVIOUS
<1>3. \A r \in near : r \in Nat /\ r > 0
  BY DEF Steps
<1> HIDE DEF near, short
<1>4. near # {} => (CHOOSE r \in near : TRUE) \in near
  OBVIOUS
<1>5. QED BY <1>1, <1>2, <1>3, <1>4

\* What passed the check is truly captioned.
LEMMA CaptionTrue ==
  ASSUME NEW a \in Order, NEW p \in MediaFile, p.as = a.format, ~verify_produced(p, a), Measured(p)
  PROVE  LET label == produced_quality_label(p, a) IN
         IF a.format = "audio"
           THEN /\ p.codec = "" \/ p.codec \in container_claims(label[1])
                /\ p.kbps > 0 /\ label[2] > 0 => bitrate_in_window(p.kbps, label[2])
           ELSE /\ a.tap > 0 /\ p.h > 0 => ~height_mismatch(a.tap, p.h)
                /\ p.h > 0 => label[2] = quality_label_p(p.w, p.h)
<1> DEFINE label == produced_quality_label(p, a)
<1>0. ~check_produced(p, a)
  BY DEF verify_produced
<1>1. CASE a.format = "audio"
  <2>1. ~check_audio(p, a.tier)
    BY <1>0, <1>1 DEF check_produced
  <2>2. label[1] = p.suffix /\ label[2] = RateNamed(a.tier, p.suffix)
    BY <1>1 DEF produced_quality_label
  <2>3. QED BY <1>1, <2>1, <2>2 DEF check_audio
<1>2. CASE a.format = "video"
  <2>1. ~check_video(p, a)
    BY <1>0, <1>2 DEF check_produced
  <2>2. p.h > 0 => label[2] = quality_label_p(p.w, p.h)
    <3>1. p.w \in Nat /\ p.h \in Nat
      BY DEF MediaFile
    <3>2. p.h > 0 => quality_label_p(p.w, p.h) > 0
      BY <3>1, LabelPositive
    <3>3. QED BY <1>2, <3>2 DEF produced_quality_label
  <2>3. QED BY <1>2, <2>1, <2>2 DEF check_video
<1>3. QED BY <1>1, <1>2, OrderFacts

LEMMA NotLossless ==
  ASSUME NEW a \in Order, ~spotify_audio_plan(a), a.track, a.format = "audio"
  PROVE  a.tier[1] \notin {"flac", "wav"}
<1> SUFFICES ASSUME a.tier[1] \in {"flac", "wav"} PROVE FALSE
  OBVIOUS
<1>1. a.tier # Original
  BY DEF Original
<1>2. plan_for_tier(a) = "refused"
  BY <1>1 DEF plan_for_tier
<1>3. QED BY <1>2 DEF spotify_audio_plan

LEMMA InitDeeds == FilesInit => DeedsInv
BY DEF FilesInit, DeedsInv, Fitting, Filed, SentAsAsked, RowsHonest, NetNoted

\* What was sent and kept stays, for the same request.
DeedsKept == UNCHANGED <<ffmpeg, ask, sent, cacheRows>>

LEMMA StillTrue == DeedsInv /\ DeedsKept => ask' \in Order /\ SentAsAsked' /\ RowsHonest'
<1> SUFFICES ASSUME DeedsInv, DeedsKept PROVE ask' \in Order /\ SentAsAsked' /\ RowsHonest'
  OBVIOUS
<1>1. ask' = ask /\ sent' = sent /\ ffmpeg' = ffmpeg /\ cacheRows' = cacheRows
  BY DEF DeedsKept
<1>2. Measured(sent.file)' <=> Measured(sent.file)
  BY <1>1 DEF Measured
<1>3. SentAsAsked'
  BY <1>1, <1>2 DEF DeedsInv, SentAsAsked
<1>4. RowsHonest'
  BY <1>1 DEF DeedsInv, RowsHonest
<1>5. QED BY <1>1, <1>3, <1>4 DEF DeedsInv

LEMMA UnchangedDeeds ==
  ASSUME DeedsInv, DeedsKept, UNCHANGED <<at, made, code, use, filedAs>>
  PROVE  DeedsInv'
<1>1. ask' \in Order /\ SentAsAsked' /\ RowsHonest' /\ ask' = ask
  BY StillTrue DEF DeedsKept
<1>2. Fitting'
  BY <1>1 DEF DeedsInv, Fitting, DeedsKept, spotify_audio_plan, plan_for_tier, verify_produced, Measured,
              check_produced, check_audio, check_video, RateNamed
<1>3. Filed'
  BY DEF DeedsInv, Filed
<1>4. NetNoted'
  BY <1>1, StillTrue DEF DeedsInv, NetNoted, DeedsKept, Servable
<1>5. QED BY <1>1, <1>2, <1>3, <1>4 DEF DeedsInv

\* The job is over, or the process is.
LEMMA OverDeeds ==
  ASSUME DeedsInv, NEW state \in {"failed", "refused", "idle"}, NEW why, SettleAs(state, why),
         state = "failed" /\ why \in FALLBACK_ERROR_CODES /\ Servable(ask) => use' \in {"failed", "skipped"}
  PROVE  DeedsInv'
<1>1. /\ at' = state /\ code' = why /\ made' = Unmade /\ filedAs' = filedAs /\ DeedsKept
  BY DEF SettleAs, DeedsKept
<1>2. ask' \in Order /\ SentAsAsked' /\ RowsHonest' /\ ask' = ask
  BY <1>1, StillTrue DEF DeedsKept
<1>3. Fitting' /\ Filed'
  BY <1>1 DEF Fitting, Filed
<1>4. NetNoted'
  BY <1>1, <1>2 DEF DeedsInv, NetNoted, Servable
<1>5. QED BY <1>1, <1>2, <1>3, <1>4 DEF DeedsInv

LEMMA EngineDeeds ==
  ASSUME DeedsInv, at = "run", NEW why \in Codes, EngineFails(why)
  PROVE  DeedsInv'
<1>1. CASE why \in FALLBACK_ERROR_CODES /\ at' = "fetch" /\ code' = why /\ made' = Unmade
           /\ UNCHANGED filedAs /\ DeedsKept
  <2>1. ask' \in Order /\ SentAsAsked' /\ RowsHonest' /\ ask' = ask
    BY <1>1, StillTrue DEF DeedsKept
  <2>2. Fitting'
    BY <1>1, <2>1 DEF DeedsInv, Fitting, spotify_audio_plan, plan_for_tier
  <2>3. Filed' /\ NetNoted'
    BY <1>1 DEF DeedsInv, Filed, NetNoted
  <2>4. QED BY <1>1, <2>1, <2>2, <2>3 DEF DeedsInv
<1>2. CASE \E available \in BOOLEAN :
             /\ ~(why \in FALLBACK_ERROR_CODES /\ available /\ Servable(ask))
             /\ note_fallback_skip(why, available) /\ SettleAs("failed", why)
  <2>1. SettleAs("failed", why)
    BY <1>2
  <2>2. why \in FALLBACK_ERROR_CODES /\ Servable(ask) => use' \in {"failed", "skipped"}
    BY <1>2 DEF note_fallback_skip, skip_reason, remember_use
  <2>3. QED BY <2>1, <2>2, OverDeeds
<1>3. QED BY <1>1, <1>2 DEF EngineFails, DeedsKept

LEMMA ProduceDeeds ==
  ASSUME DeedsInv, DirsInv, NEW th \in threads, NEW p \in Product, Produced(th, p)
  PROVE  DeedsInv'
<1>0. p.as = ask.format /\ p \in MediaFile
  BY ProductFacts DEF Produced
<1>1. CASE th.dropped
  <2>1. UNCHANGED <<at, made, code, use, filedAs>> /\ DeedsKept
    BY <1>1 DEF Produced, DeedsKept
  <2>2. QED BY <2>1, UnchangedDeeds
<1>2. CASE ~th.dropped /\ ~Converted(p, ask)
  <2>1. SettleAs("failed", "CONVERSION_MISMATCH")
    BY <1>2 DEF Produced
  <2>2. "CONVERSION_MISMATCH" \notin FALLBACK_ERROR_CODES
    BY DEF FALLBACK_ERROR_CODES
  <2>3. QED BY <2>1, <2>2, OverDeeds
<1>3. CASE ~th.dropped /\ Converted(p, ask)
  <2>1. /\ at' = "check" /\ made' = p /\ UNCHANGED filedAs /\ DeedsKept
    BY <1>3 DEF Produced, DeedsKept
  <2>2. at = "run"
    BY <1>3, ThreadFacts
  <2>3. ask' \in Order /\ SentAsAsked' /\ RowsHonest' /\ ask' = ask
    BY <2>1, StillTrue DEF DeedsKept
  <2>4. p.as # "photo" /\ filedAs = {}
    BY <1>0, <2>2, <2>3, OrderFacts DEF DeedsInv, Filed
  <2>5. Fitting'
    BY <1>0, <2>1, <2>2, <2>3, <2>4 DEF DeedsInv, Fitting, spotify_audio_plan, plan_for_tier
  <2>6. Filed' /\ NetNoted'
    BY <2>1, <2>4 DEF DeedsInv, Filed, NetNoted
  <2>7. QED BY <2>3, <2>5, <2>6 DEF DeedsInv
<1>4. QED BY <1>1, <1>2, <1>3

LEMMA PullDeeds == ASSUME DeedsInv, NEW p \in Product, Pulled(p) PROVE DeedsInv'
<1> DEFINE q == [p EXCEPT !.said = 0, !.source = 0]
<1>1. /\ at = "pull" /\ at' = "check" /\ made' = q /\ use' = "used" /\ code' = "none" /\ DeedsKept
      /\ record_block /\ ~p.empty
      /\ p.as = ask.format \/ (p.as = "photo" /\ ask.format = "video")
  BY DEF Pulled, DeedsKept, remember_use
<1>2. q \in MediaFile /\ q.as = p.as /\ q.empty = p.empty
  BY ProductFacts
<1> HIDE DEF q
<1>3. ask' \in Order /\ SentAsAsked' /\ RowsHonest' /\ ask' = ask
  BY <1>1, StillTrue DEF DeedsKept
<1>4. Fitting'
  BY <1>1, <1>2, <1>3 DEF DeedsInv, Fitting, spotify_audio_plan, plan_for_tier
<1>5. \A e \in filedAs' : e.cause = "site" => e.code = "IMAGE_ONLY"
  <2>1. code \in {"SESSION_STALE", "EXTRACTOR_BLOCKED", "IMAGE_ONLY"}
    BY <1>1 DEF DeedsInv, Filed, FALLBACK_ERROR_CODES
  <2>2. PICK jar \in JarKinds : filedAs' = {[code |-> code, cause |-> classify_block(code, jar)]}
    BY <1>1 DEF record_block
  <2>3. classify_block(code, jar) = "site" => code = "IMAGE_ONLY"
    BY <2>1 DEF classify_block
  <2>4. QED BY <2>2, <2>3
<1>6. Filed' /\ NetNoted'
  BY <1>1, <1>5 DEF Filed, NetNoted
<1>7. QED BY <1>3, <1>4, <1>6 DEF DeedsInv

\* Delivered: the caption is true of a checked file, and the row repeats it.
LEMMA UploadDeeds == ASSUME DeedsInv, NEW cacheable \in BOOLEAN, Uploaded(cacheable) PROVE DeedsInv'
<1>1. /\ at = "upload" /\ at' = "settled" /\ sent' = upload_caption(made, ask) /\ made' = Unmade
      /\ cacheRows' = IF cacheable THEN memorize(made, ask) ELSE cacheRows
      /\ UNCHANGED <<ffmpeg, ask, code, use, filedAs>>
  BY DEF Uploaded
<1>2. /\ made \in MediaFile /\ ~made.over /\ (made.as = "photo" \/ ~verify_produced(made, ask))
      /\ made.as = ask.format \/ (made.as = "photo" /\ ask.format = "video")
      /\ made.as = "photo" => ~made.empty
      /\ ~spotify_audio_plan(ask) /\ ask \in Order
  BY <1>1 DEF DeedsInv, Fitting
<1>3. sent'.file = made /\ sent'.label = produced_quality_label(made, ask)
  BY <1>1 DEF upload_caption
<1>4. made.as = "photo" <=> made.as # ask.format
  BY <1>2, OrderFacts
<1>5. ~made.empty
  BY <1>2 DEF verify_produced
<1>6. SentAsAsked'
  <2>1. ask.track /\ ask.format = "audio" => ask.tier[1] \notin {"flac", "wav"}
    BY <1>2, NotLossless
  <2> DEFINE label == produced_quality_label(made, ask)
  <2>2. ASSUME Measured(made), made.as # "photo"
        PROVE  IF ask.format = "audio"
                 THEN /\ made.codec = "" \/ made.codec \in container_claims(label[1])
                      /\ made.kbps > 0 /\ label[2] > 0 => bitrate_in_window(made.kbps, label[2])
                 ELSE /\ ask.tap > 0 /\ made.h > 0 => ~height_mismatch(ask.tap, made.h)
                      /\ made.h > 0 => label[2] = quality_label_p(made.w, made.h)
    BY <1>2, <1>4, <2>2, CaptionTrue
  <2>3. sent'.label = label /\ ask' = ask /\ ffmpeg' = ffmpeg
    BY <1>1, <1>3
  <2> HIDE DEF label
  <2>4. Measured(sent.file)' <=> Measured(made)
    BY <1>1, <1>3 DEF Measured
  <2>5. QED BY <1>2, <1>3, <1>5, <2>1, <2>2, <2>3, <2>4 DEF SentAsAsked
<1>7. RowsHonest'
  <2> DEFINE row == [ask |-> ask, label |-> produced_quality_label(made, ask),
                     rungs |-> upload_ladder(made, ask)]
  <2>1. cacheRows' = cacheRows
        \/ (cacheRows' = cacheRows \cup {row} /\ ~\E s \in cacheRows : s.ask = row.ask)
    BY <1>1 DEF memorize, store_cached_file
  <2>2. row.ask.format = "audio" => ~row.rungs /\ row.label[1] # "video"
    BY <1>2 DEF upload_ladder, produced_quality_label, MediaFile
  <2> HIDE DEF row
  <2>3. QED BY <2>1, <2>2 DEF DeedsInv, RowsHonest
<1>8. Fitting' /\ Filed'
  BY <1>1 DEF Fitting, Filed
<1>9. NetNoted'
  BY <1>1, <1>3 DEF DeedsInv, Filed, NetNoted
<1>10. QED BY <1>1, <1>2, <1>6, <1>7, <1>8, <1>9 DEF DeedsInv

FilesInv == DirsInv /\ DeedsInv

LEMMA DeedsStep == FilesInv /\ [FilesNext]_filesVars => DeedsInv'
<1> SUFFICES ASSUME FilesInv, [FilesNext]_filesVars PROVE DeedsInv'
  OBVIOUS
<1>0. DirsInv /\ DeedsInv
  BY DEF FilesInv
<1>1. CASE UNCHANGED filesVars
  BY <1>0, <1>1, UnchangedDeeds DEF filesVars, DeedsKept
<1>2. ASSUME NEW a \in Order, Begin(a) PROVE DeedsInv'
  <2>1. /\ ask' = a /\ sent' = NotSent /\ filedAs' = {} /\ made' = Unmade
        /\ UNCHANGED <<ffmpeg, use, cacheRows>>
        /\ \/ at' = "wait" /\ ~spotify_audio_plan(a)
           \/ at' = "failed" /\ code' \in {"LOSSLESS_UNAVAILABLE", "FFMPEG_REQUIRED"}
    BY <1>2 DEF Begin
  <2>2. SentAsAsked' /\ RowsHonest'
    BY <1>0, <2>1 DEF DeedsInv, SentAsAsked, RowsHonest
  <2>3. Fitting'
    BY <2>1 DEF Fitting, spotify_audio_plan, plan_for_tier
  <2>4. Filed' /\ NetNoted'
    BY <2>1 DEF Filed, NetNoted, FALLBACK_ERROR_CODES
  <2>5. QED BY <2>1, <2>2, <2>3, <2>4 DEF DeedsInv
<1>3. CASE StartRun
  <2>1. /\ at = "wait" /\ at' = "run" /\ DeedsKept /\ UNCHANGED <<made, code, use, filedAs>>
    BY <1>3 DEF StartRun, DeedsKept
  <2>2. ask' \in Order /\ SentAsAsked' /\ RowsHonest' /\ ask' = ask
    BY <1>0, <2>1, StillTrue DEF DeedsKept
  <2>3. Fitting' /\ Filed' /\ NetNoted'
    BY <1>0, <2>1, <2>2 DEF DeedsInv, Fitting, Filed, NetNoted, spotify_audio_plan, plan_for_tier
  <2>4. QED BY <2>2, <2>3 DEF DeedsInv
<1>4. CASE TimeOut \/ CancelRun
  <2>1. \E why \in {"TIMEOUT", "CANCELLED"} : SettleAs("failed", why) /\ why \notin FALLBACK_ERROR_CODES
    BY <1>4 DEF TimeOut, CancelRun, LetGo, FALLBACK_ERROR_CODES
  <2>2. QED BY <1>0, <2>1, OverDeeds
<1>5. ASSUME NEW th \in threads, Write(th) PROVE DeedsInv'
  BY <1>0, <1>5, UnchangedDeeds DEF Write, DeedsKept
<1>6. ASSUME NEW th \in threads, NEW why \in Codes, AttemptFails(th, why) PROVE DeedsInv'
  <2>1. CASE EngineFails(why) /\ ~th.dropped
    <3>1. at = "run"
      BY <1>0, <2>1, ThreadFacts
    <3>2. QED BY <1>0, <2>1, <3>1, EngineDeeds
  <2>2. CASE UNCHANGED <<ffmpeg, ask, sent, cacheRows, at, made, code, use, filedAs>>
    BY <1>0, <2>2, UnchangedDeeds DEF DeedsKept
  <2>3. QED BY <1>6, <2>1, <2>2 DEF AttemptFails
<1>7. ASSUME NEW th \in threads, NEW p \in Product, Produced(th, p) PROVE DeedsInv'
  BY <1>0, <1>7, ProduceDeeds
<1>8. CASE StartPull \/ NextPart
  <2>1. /\ at \in {"fetch", "pull"} /\ at' = "pull" /\ DeedsKept /\ UNCHANGED <<made, code, use, filedAs>>
    BY <1>8 DEF StartPull, NextPart, DeedsKept
  <2>2. ask' \in Order /\ SentAsAsked' /\ RowsHonest' /\ ask' = ask
    BY <1>0, <2>1, StillTrue DEF DeedsKept
  <2>3. Fitting' /\ Filed' /\ NetNoted'
    BY <1>0, <2>1, <2>2 DEF DeedsInv, Fitting, Filed, NetNoted, spotify_audio_plan, plan_for_tier
  <2>4. QED BY <2>2, <2>3 DEF DeedsInv
<1>9. CASE FetchFails
  BY <1>0, <1>9, OverDeeds DEF FetchFails, remember_use
<1>10. ASSUME NEW p \in Product, Pulled(p) PROVE DeedsInv'
  BY <1>0, <1>10, PullDeeds
<1>11. CASE UploadRefused \/ CancelInLoop
  <2>1. \E why \in {"DELIVERY_FAILED", "CANCELLED"} : SettleAs("failed", why) /\ why \notin FALLBACK_ERROR_CODES
    BY <1>11 DEF UploadRefused, CancelInLoop, Dropping, FALLBACK_ERROR_CODES
  <2>2. QED BY <1>0, <2>1, OverDeeds
<1>12. CASE Check
  <2>1. CASE made.over
    <3>1. SettleAs("refused", "none")
      BY <1>12, <2>1 DEF Check, Dropping
    <3>2. QED BY <1>0, <3>1, OverDeeds
  <2>2. CASE ~made.over /\ made.as # "photo" /\ verify_produced(made, ask)
    <3>1. SettleAs("failed", "CONVERSION_MISMATCH")
      BY <1>12, <2>2 DEF Check, Dropping
    <3>2. "CONVERSION_MISMATCH" \notin FALLBACK_ERROR_CODES
      BY DEF FALLBACK_ERROR_CODES
    <3>3. QED BY <1>0, <3>1, <3>2, OverDeeds
  <2>3. CASE ~made.over /\ (made.as = "photo" \/ ~verify_produced(made, ask))
    <3>1. at = "check" /\ at' = "upload" /\ DeedsKept /\ UNCHANGED <<made, code, use, filedAs>>
      BY <1>12, <2>3 DEF Check, DeedsKept
    <3>2. ask' \in Order /\ SentAsAsked' /\ RowsHonest' /\ ask' = ask /\ ffmpeg' = ffmpeg
      BY <1>0, <3>1, StillTrue DEF DeedsKept
    <3>3. Fitting'
      BY <1>0, <2>3, <3>1, <3>2 DEF DeedsInv, Fitting, spotify_audio_plan, plan_for_tier,
         verify_produced, Measured, check_produced, check_audio, check_video, RateNamed
    <3>4. Filed' /\ NetNoted'
      BY <1>0, <3>1 DEF DeedsInv, Filed, NetNoted
    <3>5. QED BY <3>2, <3>3, <3>4 DEF DeedsInv
  <2>4. QED BY <2>1, <2>2, <2>3
<1>13. ASSUME NEW cacheable \in BOOLEAN, Uploaded(cacheable) PROVE DeedsInv'
  BY <1>0, <1>13, UploadDeeds
<1>14. CASE Die
  BY <1>0, <1>14, OverDeeds DEF Die
<1>15. CASE Tick
  BY <1>0, <1>15, UnchangedDeeds DEF Tick, DeedsKept
<1>16. ASSUME NEW d \in DOMAIN dirs, Sweep(d) PROVE DeedsInv'
  BY <1>0, <1>16, UnchangedDeeds DEF Sweep, DeedsKept
<1>17. QED
  BY <1>1, <1>2, <1>3, <1>4, <1>5, <1>6, <1>7, <1>8, <1>9, <1>10, <1>11, <1>12, <1>13, <1>14,
     <1>15, <1>16 DEF FilesNext

\* What belongs to nobody at all is among the loose.
LEMMA FilesPromise == FilesInv => FilesHonest
<1> SUFFICES ASSUME FilesInv PROVE FilesHonest
  OBVIOUS
<1>1. LiveDirKept
  BY DEF FilesInv, DirsInv, InBudget, Owned, Awaited, LiveDirKept
<1>2. NothingForgotten
  <2>1. DOMAIN dirs \ Working \subseteq Loose
    BY DEF Working, Loose, Owned, Awaited
  <2>2. IsFiniteSet(Loose) /\ Cardinality(Loose) \in Nat /\ Cardinality(Loose) <= spills /\ spills \in Nat
    BY LooseFinite DEF FilesInv, DirsInv, Counts
  <2>3. Cardinality(DOMAIN dirs \ Working) <= Cardinality(Loose)
        /\ Cardinality(DOMAIN dirs \ Working) \in Nat
    BY <2>1, <2>2, FS_Subset, FS_CardinalityType
  <2>4. QED BY <2>2, <2>3 DEF NothingForgotten
<1>3. QED BY <1>1, <1>2 DEF FilesInv, DeedsInv, FilesHonest

\* For any requests, files, budgets and age of the sweep, and any deaths and
\* threads nobody waits for: the sweep takes nothing from under a job, what is
\* left behind is counted, what is sent is what was asked and what its caption
\* says, its row repeats that, and the panel knows what became of the net
\* (extractor.py, fallback.py, verify.py and _finish_upload of worker.py).
THEOREM FilesAreHonest == FilesSpec => []FilesHonest
<1>1. FilesInit => FilesInv
  BY InitDirs, InitDeeds DEF FilesInv
<1>2. FilesInv /\ [FilesNext]_filesVars => FilesInv'
  BY DirsStep, DeedsStep DEF FilesInv
<1>3. QED
  BY <1>1, <1>2, FilesPromise, PTL DEF FilesSpec

\* The types FilesInv leaves out: the stamps of the directories and the words a
\* job says of itself.
DirsDated == \A d \in DOMAIN dirs : dirs[d] <= now

JobAt    == {"idle", "wait", "run", "fetch", "pull", "check", "upload", "failed", "refused", "settled"}
JobCodes == Codes \cup FileEnds \cup {"none"}
Uses     == {"none", "used", "failed", "skipped"}

Labels ==
  /\ jobs \in 0..MaxJobs /\ at \in JobAt /\ code \in JobCodes /\ use \in Uses
  /\ filedAs \subseteq [code : Codes, cause : {"session", "login", "ip", "site"}]
  /\ made \in MediaFile \cup {Unmade}

LEMMA DirsDatedStep == DirsInv /\ DirsDated /\ [FilesNext]_filesVars => DirsDated'
<1> SUFFICES ASSUME DirsInv, DirsDated, [FilesNext]_filesVars PROVE DirsDated'
  OBVIOUS
<1>1. /\ now \in Nat
      /\ \A d \in DOMAIN dirs : dirs[d] \in Nat /\ dirs[d] <= now
  BY Budgets DEF DirsInv, Counts, DirsDated
<1>2. ASSUME dirs' = dirs, now' \in {now, now + 1} PROVE DirsDated'
  BY <1>1, <1>2 DEF DirsDated
<1>3. ASSUME NEW d, dirs' = Without(d), now' = now PROVE DirsDated'
  BY <1>1, <1>3, WithoutDir DEF DirsDated
<1>4. ASSUME NEW d, dirs' = With(dirs, d), now' = now PROVE DirsDated'
  <2>1. /\ DOMAIN dirs' = DOMAIN dirs \cup {d} /\ dirs'[d] = now
        /\ \A x \in DOMAIN dirs \ {d} : dirs'[x] = dirs[x]
    BY <1>4, WithDir
  <2>2. QED BY <1>1, <1>4, <2>1 DEF DirsDated
<1>5. ASSUME NEW d, NEW e, dirs' = With(Without(d), e), now' = now PROVE DirsDated'
  <2>1. DOMAIN Without(d) = DOMAIN dirs \ {d} /\ \A x \in DOMAIN dirs \ {d} : Without(d)[x] = dirs[x]
    BY WithoutDir
  <2>2. /\ DOMAIN dirs' = DOMAIN Without(d) \cup {e} /\ dirs'[e] = now
        /\ \A x \in DOMAIN Without(d) \ {e} : dirs'[x] = Without(d)[x]
    BY <1>5, WithDir
  <2>3. QED BY <1>1, <1>5, <2>1, <2>2 DEF DirsDated
<1>6. CASE \/ UNCHANGED filesVars \/ \E a \in Order : Begin(a)
           \/ TimeOut \/ CancelRun \/ Die
  BY <1>2, <1>6 DEF filesVars, Begin, TimeOut, CancelRun, LetGo, Die, SettleAs
<1>7. CASE Tick
  BY <1>2, <1>7 DEF Tick
<1>8. CASE StartRun \/ StartPull
  BY <1>4, <1>8 DEF StartRun, StartPull
<1>9. ASSUME NEW th \in threads, Write(th) PROVE DirsDated'
  BY <1>3, <1>4, <1>9 DEF Write
<1>10. ASSUME NEW th \in threads, NEW why \in Codes, AttemptFails(th, why) PROVE DirsDated'
  <2>1. CASE why \in RETRYABLE_EXTRACTION_CODES /\ th.left > 0
    BY <1>5, <1>10, <2>1 DEF AttemptFails
  <2>2. CASE ~(why \in RETRYABLE_EXTRACTION_CODES /\ th.left > 0)
    <3>1. dirs' = Without(th.dir) /\ now' = now
      BY <1>10, <2>2 DEF AttemptFails, EngineFails, SettleAs
    <3>2. QED BY <1>3, <3>1
  <2>3. QED BY <2>1, <2>2
<1>11. ASSUME NEW th \in threads, NEW p \in Product, Produced(th, p) PROVE DirsDated'
  <2>1. now' = now /\ \/ dirs' = dirs \/ dirs' = Without(th.dir) \/ dirs' = With(dirs, th.dir)
    BY <1>11 DEF Produced, SettleAs
  <2>2. QED BY <1>2, <1>3, <1>4, <2>1
<1>12. CASE NextPart \/ \E p \in Product : Pulled(p)
  BY <1>4, <1>12 DEF NextPart, Pulled
<1>13. CASE FetchFails \/ UploadRefused \/ CancelInLoop
  BY <1>3, <1>13 DEF FetchFails, UploadRefused, CancelInLoop, Dropping, SettleAs
<1>14. CASE Check
  <2>1. now' = now /\ (dirs' = dirs \/ dirs' = Without(mine))
    BY <1>14 DEF Check, Dropping, SettleAs
  <2>2. QED BY <1>2, <1>3, <2>1
<1>15. ASSUME NEW cacheable \in BOOLEAN, Uploaded(cacheable) PROVE DirsDated'
  BY <1>3, <1>15 DEF Uploaded
<1>16. ASSUME NEW d \in DOMAIN dirs, Sweep(d) PROVE DirsDated'
  BY <1>3, <1>16 DEF Sweep
<1>17. QED
  BY <1>6, <1>7, <1>8, <1>9, <1>10, <1>11, <1>12, <1>13, <1>14, <1>15, <1>16 DEF FilesNext

LEMMA CodesAre ==
  /\ FALLBACK_ERROR_CODES \subseteq Codes /\ Codes \subseteq JobCodes /\ "none" \in JobCodes
  /\ {"TIMEOUT", "CONVERSION_MISMATCH", "FFMPEG_REQUIRED", "LOSSLESS_UNAVAILABLE",
      "DELIVERY_FAILED", "CANCELLED"} \subseteq JobCodes
BY DEF JobCodes, FALLBACK_ERROR_CODES, Codes, FileEnds

LEMMA SettledLabels ==
  ASSUME Labels, NEW state \in JobAt, NEW why \in JobCodes, SettleAs(state, why), use' \in Uses
  PROVE  Labels'
BY DEF SettleAs, Labels

\* An extraction error, whoever takes it from there.
LEMMA EngineLabels == ASSUME Labels, NEW why \in Codes, EngineFails(why) PROVE Labels'
<1>1. why \in JobCodes
  BY CodesAre
<1>2. CASE /\ at' = "fetch" /\ code' = why /\ made' = Unmade
           /\ UNCHANGED <<jobs, use, filedAs>>
  BY <1>1, <1>2 DEF Labels, JobAt
<1>3. CASE \E available \in BOOLEAN : note_fallback_skip(why, available) /\ SettleAs("failed", why)
  <2>1. use' \in Uses
    BY <1>3 DEF note_fallback_skip, remember_use, Labels, Uses
  <2>2. "failed" \in JobAt /\ SettleAs("failed", why)
    BY <1>3 DEF JobAt
  <2>3. QED BY <1>1, <2>1, <2>2, SettledLabels
<1>4. QED BY <1>2, <1>3 DEF EngineFails

LEMMA LabelsStep == FilesInv /\ Labels /\ [FilesNext]_filesVars => Labels'
<1> SUFFICES ASSUME FilesInv, Labels, [FilesNext]_filesVars PROVE Labels'
  OBVIOUS
<1>1. ASSUME UNCHANGED <<jobs, code, use, filedAs, made>>, at' \in JobAt PROVE Labels'
  BY <1>1 DEF Labels
<1>2. at \in JobAt /\ use \in Uses /\ code \in JobCodes
  BY DEF Labels
<1>3. CASE UNCHANGED filesVars
  BY <1>1, <1>2, <1>3 DEF filesVars
<1>4. ASSUME NEW a \in Order, Begin(a) PROVE Labels'
  <2>1. jobs + 1 \in 0..MaxJobs
    BY <1>4, Budgets DEF Begin, Labels
  <2>2. at' \in JobAt /\ code' \in JobCodes
    BY <1>4, CodesAre DEF Begin, JobAt
  <2>3. jobs' = jobs + 1 /\ filedAs' = {} /\ made' = Unmade /\ use' = use
    BY <1>4 DEF Begin
  <2>4. QED BY <2>1, <2>2, <2>3 DEF Labels
<1>5. CASE StartRun \/ StartPull \/ NextPart \/ Tick
  <2>1. UNCHANGED <<jobs, code, use, filedAs, made>> /\ at' \in {at, "run", "pull"}
    BY <1>5 DEF StartRun, StartPull, NextPart, Tick
  <2>2. QED BY <1>1, <1>2, <2>1 DEF JobAt
<1>6. CASE TimeOut \/ CancelRun \/ Die \/ FetchFails \/ UploadRefused \/ CancelInLoop
  <2>1. use' \in {use, "failed"}
        /\ \E state \in {"idle", "failed"}, why \in {"TIMEOUT", "CANCELLED", "none", "DELIVERY_FAILED", code} :
             SettleAs(state, why)
    BY <1>6 DEF TimeOut, CancelRun, LetGo, Die, FetchFails, remember_use, UploadRefused, CancelInLoop, Dropping
  <2>2. use' \in Uses /\ {"idle", "failed"} \subseteq JobAt
    BY <1>2, <2>1 DEF Uses, JobAt
  <2>3. {"TIMEOUT", "CANCELLED", "none", "DELIVERY_FAILED", code} \subseteq JobCodes
    BY <1>2, CodesAre
  <2>4. QED BY <2>1, <2>2, <2>3, SettledLabels
<1>7. ASSUME NEW th \in threads, Write(th) PROVE Labels'
  BY <1>1, <1>2, <1>7 DEF Write
<1>8. ASSUME NEW th \in threads, NEW why \in Codes, AttemptFails(th, why) PROVE Labels'
  <2>1. EngineFails(why) \/ UNCHANGED <<jobs, at, code, use, filedAs, made>>
    BY <1>8 DEF AttemptFails
  <2>2. QED BY <1>1, <1>2, <2>1, EngineLabels
<1>9. ASSUME NEW th \in threads, NEW p \in Product, Produced(th, p) PROVE Labels'
  <2>1. CASE UNCHANGED <<jobs, at, code, use, filedAs, made>>
    BY <1>1, <1>2, <2>1
  <2>2. CASE UNCHANGED use /\ SettleAs("failed", "CONVERSION_MISMATCH")
    <3>1. "failed" \in JobAt /\ "CONVERSION_MISMATCH" \in JobCodes /\ use' \in Uses
      BY <1>2, <2>2, CodesAre DEF JobAt
    <3>2. QED BY <2>2, <3>1, SettledLabels
  <2>3. CASE at' = "check" /\ made' = p /\ UNCHANGED <<jobs, code, use, filedAs>>
    BY <2>3, ProductFacts DEF Labels, JobAt
  <2>4. QED BY <1>9, <2>1, <2>2, <2>3 DEF Produced
<1>10. ASSUME NEW p \in Product, Pulled(p) PROVE Labels'
  <2>1. /\ at' = "check" /\ made' = [p EXCEPT !.said = 0, !.source = 0] /\ use' = "used" /\ code' = "none"
        /\ jobs' = jobs /\ record_block
    BY <1>10 DEF Pulled, remember_use
  <2>2. code \in Codes
    BY <1>10, CodesAre DEF Pulled, FilesInv, DeedsInv, Filed
  <2>3. filedAs' \subseteq [code : Codes, cause : {"session", "login", "ip", "site"}]
    BY <2>1, <2>2 DEF record_block, classify_block
  <2>4. made' \in MediaFile
    BY <2>1, ProductFacts
  <2>5. QED BY <2>1, <2>3, <2>4, CodesAre DEF Labels, JobAt, Uses
<1>11. CASE Check
  <2>1. CASE at' = "upload" /\ UNCHANGED <<jobs, code, use, filedAs, made>>
    BY <1>1, <2>1 DEF JobAt
  <2>2. CASE use' = use /\ \/ SettleAs("refused", "none")
                           \/ SettleAs("failed", "CONVERSION_MISMATCH")
    <3>1. {"refused", "failed"} \subseteq JobAt /\ {"none", "CONVERSION_MISMATCH"} \subseteq JobCodes
          /\ use' \in Uses
      BY <1>2, <2>2, CodesAre DEF JobAt
    <3>2. QED BY <2>2, <3>1, SettledLabels
  <2>3. QED BY <1>11, <2>1, <2>2 DEF Check, Dropping
<1>12. ASSUME NEW cacheable \in BOOLEAN, Uploaded(cacheable) PROVE Labels'
  BY <1>12 DEF Uploaded, Labels, JobAt
<1>13. ASSUME NEW d \in DOMAIN dirs, Sweep(d) PROVE Labels'
  BY <1>1, <1>2, <1>13 DEF Sweep
<1>14. QED
  BY <1>3, <1>4, <1>5, <1>6, <1>7, <1>8, <1>9, <1>10, <1>11, <1>12, <1>13 DEF FilesNext

LEMMA FilesTyped == FilesSpec => []FilesTypeOK
<1>1. FilesInit => FilesInv /\ DirsDated /\ Labels
  <2> SUFFICES ASSUME FilesInit PROVE FilesInv /\ DirsDated /\ Labels
    OBVIOUS
  <2>1. FilesInv /\ DirsDated
    BY InitDirs, InitDeeds DEF FilesInv, FilesInit, DirsDated
  <2>2. 0 \in 0..MaxJobs
    BY Budgets
  <2>3. Labels
    BY <2>2, CodesAre DEF FilesInit, Labels, JobAt, Uses
  <2>4. QED BY <2>1, <2>3
<1>2. FilesInv /\ DirsDated /\ Labels /\ [FilesNext]_filesVars => FilesInv' /\ DirsDated' /\ Labels'
  BY DirsStep, DeedsStep, DirsDatedStep, LabelsStep DEF FilesInv
<1>3. FilesInv /\ DirsDated /\ Labels => FilesTypeOK
  <2> SUFFICES ASSUME FilesInv, DirsDated, Labels PROVE FilesTypeOK
    OBVIOUS
  <2>1. Cardinality({th \in threads : ~th.dropped}) <= 1
    <3>1. \A s, t \in Awaited : s = t
      BY DEF FilesInv, DirsInv, OneHand
    <3>2. CASE Awaited = {}
      BY <3>2, FS_EmptySet DEF Awaited
    <3>3. CASE Awaited # {}
      <4>1. PICK th \in Awaited : TRUE
        BY <3>3
      <4>2. Awaited = {th}
        BY <3>1
      <4>3. Cardinality(Awaited) = 1
        BY <4>2, FS_Singleton
      <4>4. QED BY <4>3 DEF Awaited
    <3>4. QED BY <3>2, <3>3
  <2>2. \A d \in DOMAIN dirs : dirs[d] \in 0..now
    BY Budgets DEF FilesInv, DirsInv, Counts, DirsDated
  <2>3. /\ ffmpeg \in BOOLEAN /\ now \in 0..MaxClock /\ began \in 0..MaxClock /\ spills \in Nat
        /\ DOMAIN dirs \subseteq 1..spent /\ spent \in 0..MaxDirs /\ mine \in 0..spent
        /\ threads \subseteq [dir : 1..spent, left : 0..Retries, dropped : BOOLEAN]
        /\ ask \in Order
    BY DEF FilesInv, DirsInv, Counts, OneHand, DeedsInv
  <2>4. QED BY <2>1, <2>2, <2>3 DEF Labels, JobAt, JobCodes, Uses, FilesTypeOK
<1>4. QED BY <1>1, <1>2, <1>3, PTL DEF FilesSpec

-----------------------------------------------------------------------------
(***************************************************************************)
(* EnginesOnce for any pool, dialects and workers that share its memory. A *)
(* job asks whom it has not asked: none of the instances left, and at the  *)
(* one it is at none of the shapes to come.                                *)
(***************************************************************************)

Shapes == {<<1, 2>>, <<2, 1>>, <<1>>, <<2>>}
ShapesOf(s) == {s[i] : i \in 1..Len(s)}

JobRec == [at : {"idle", "primary", "handed", "pool", "fetch"}, youtube : BOOLEAN, flac : BOOLEAN,
           try : 0..Tries, why : Refusal, on : Node \cup {NoNode}, left : SUBSET Node,
           shapes : Shapes \cup {<<>>}, fresh : SUBSET Node, end : Verdict]

\* Whom a job has asked, and what: nobody until the walk begins; on the walk
\* none of those left, and of the one it is at not the shapes to come.
Walk(j, pairs) ==
  /\ j.at \in {"primary", "handed"} => pairs = {}
  /\ j.at = "pool" =>
       /\ j.on \in Node /\ j.on \notin j.left /\ j.shapes \in Shapes
       /\ \A n \in j.left, s \in {1, 2} : <<n, s>> \notin pairs
       /\ \A s \in ShapesOf(j.shapes) : <<j.on, s>> \notin pairs
       /\ j.fresh = {p[1] : p \in pairs} \cup {j.on} \cup j.left

PoolTypes ==
  /\ node \in [Node -> [dialect : 0..2, rest : 0..Quarantine]]
  /\ activeNode \in Node \cup {NoNode}
  /\ job \in [Crew -> JobRec]
  /\ asked \in [Crew -> SUBSET (Node \X {1, 2})]
  /\ begun \in 0..EngineJobs

EnginesInv == PoolTypes /\ twice = FALSE /\ \A w \in Crew : Walk(job[w], asked[w])

LEMMA ShapeFacts ==
  \A s \in Shapes : /\ Head(s) \in ShapesOf(s) /\ ShapesOf(s) \subseteq {1, 2}
                    /\ Len(s) > 1 => Tail(s) \in Shapes /\ ShapesOf(Tail(s)) = ShapesOf(s) \ {Head(s)}
<1>1. ShapesOf(<<1, 2>>) = {1, 2} /\ ShapesOf(<<2, 1>>) = {1, 2}
      /\ ShapesOf(<<1>>) = {1} /\ ShapesOf(<<2>>) = {2}
  BY DEF ShapesOf
<1>2. /\ Head(<<1, 2>>) = 1 /\ Head(<<2, 1>>) = 2 /\ Head(<<1>>) = 1 /\ Head(<<2>>) = 2
      /\ Len(<<1>>) = 1 /\ Len(<<2>>) = 1
  OBVIOUS
<1>3. Tail(<<1, 2>>) = <<2>> /\ Tail(<<2, 1>>) = <<1>>
  OBVIOUS
<1>4. ASSUME NEW s \in Shapes
      PROVE  /\ Head(s) \in ShapesOf(s) /\ ShapesOf(s) \subseteq {1, 2}
             /\ Len(s) > 1 => Tail(s) \in Shapes /\ ShapesOf(Tail(s)) = ShapesOf(s) \ {Head(s)}
  <2>1. CASE s = <<1, 2>>
    <3>1. {2} = {1, 2} \ {1} /\ <<2>> \in Shapes
      BY DEF Shapes
    <3>2. QED BY <1>1, <1>2, <1>3, <2>1, <3>1
  <2>2. CASE s = <<2, 1>>
    <3>1. {1} = {1, 2} \ {2} /\ <<1>> \in Shapes
      BY DEF Shapes
    <3>2. QED BY <1>1, <1>2, <1>3, <2>2, <3>1
  <2>3. CASE s = <<1>>
    BY <1>1, <1>2, <2>3
  <2>4. CASE s = <<2>>
    BY <1>1, <1>2, <2>4
  <2>5. QED BY <2>1, <2>2, <2>3, <2>4 DEF Shapes
<1>5. QED BY <1>4

LEMMA NoJobFacts ==
  \A v \in Verdict : /\ [NoJob EXCEPT !.end = v] \in JobRec
                     /\ [NoJob EXCEPT !.end = v].at = "idle"
<1>1. NoJob \in JobRec /\ NoJob.at = "idle"
  BY EnginesAssumption DEF NoJob, JobRec, Verdict, Refusal
<1>2. QED BY <1>1 DEF JobRec

\* Pool names a first node among any that are left.
LEMMA OrderPicks ==
  ASSUME NEW left \in SUBSET Node, left # {}, NEW active
  PROVE  AttemptOrder(left, active) \in left
<1>1. \A n \in left : PoolPlace(n) \in Nat
  <2>1. ASSUME NEW n \in left PROVE PoolPlace(n) \in Nat
    <3>1. \E i \in DOMAIN Pool : Pool[i] = n
      BY DEF Node, Range
    <3>2. PoolPlace(n) \in DOMAIN Pool
      BY <3>1 DEF PoolPlace
    <3>3. DOMAIN Pool \subseteq Nat
      BY EnginesAssumption
    <3>4. QED BY <3>2, <3>3
  <2>2. QED BY <2>1
<1>2. \E n \in left : \A m \in left : PoolPlace(n) <= PoolPlace(m)
  <2> DEFINE ranks == {PoolPlace(n) : n \in left}
  <2>1. ranks \in SUBSET Nat /\ ranks # {}
    BY <1>1
  <2>2. PICK x \in ranks : \A y \in ranks : ~(<<y, x>> \in OpToRel(<, Nat))
    BY <2>1, WFMin, NatLessThanWellFounded
  <2>3. \A y \in ranks : ~(y < x)
    BY <2>1, <2>2 DEF OpToRel
  <2>4. PICK n \in left : PoolPlace(n) = x
    BY <2>2
  <2>5. \A m \in left : PoolPlace(n) <= PoolPlace(m)
    BY <1>1, <2>3, <2>4
  <2>6. QED BY <2>5
<1>3. QED BY <1>2 DEF AttemptOrder

LEMMA InitEngines == EnginesInit => EnginesInv
<1> SUFFICES ASSUME EnginesInit PROVE EnginesInv
  OBVIOUS
<1>1. NoJob \in JobRec /\ NoJob.at = "idle"
  BY EnginesAssumption DEF NoJob, JobRec, Verdict, Refusal
<1>2. 0 \in 0..2 /\ 0 \in 0..Quarantine /\ 0 \in 0..EngineJobs
  BY EnginesAssumption
<1>3. PoolTypes
  BY <1>1, <1>2 DEF EnginesInit, PoolTypes
<1>4. \A w \in Crew : Walk(job[w], asked[w])
  BY <1>1 DEF EnginesInit, Walk
<1>5. QED BY <1>3, <1>4 DEF EnginesInit, EnginesInv

\* One worker moves on with the pool as it is, or as it leaves it.
LEMMA CrewMoves ==
  ASSUME EnginesInv, NEW w \in Crew, NEW j \in JobRec, NEW pairs \in SUBSET (Node \X {1, 2}),
         job' = [job EXCEPT ![w] = j], asked' = [asked EXCEPT ![w] = pairs], Walk(j, pairs),
         node' \in [Node -> [dialect : 0..2, rest : 0..Quarantine]],
         activeNode' \in Node \cup {NoNode}, begun' \in 0..EngineJobs, twice' = FALSE
  PROVE  EnginesInv'
<1>1. PoolTypes'
  BY DEF EnginesInv, PoolTypes
<1>2. job'[w] = j /\ asked'[w] = pairs
      /\ \A v \in Crew \ {w} : job'[v] = job[v] /\ asked'[v] = asked[v]
  BY DEF EnginesInv, PoolTypes
<1>3. \A v \in Crew : Walk(job'[v], asked'[v])
  <2>1. ASSUME NEW v \in Crew PROVE Walk(job'[v], asked'[v])
    <3>1. CASE v = w
      BY <1>2, <3>1
    <3>2. CASE v # w
      <4>1. Walk(job[v], asked[v])
        BY DEF EnginesInv
      <4>2. QED BY <1>2, <3>2, <4>1
    <3>3. QED BY <3>1, <3>2
  <2>2. QED BY <2>1
<1>4. QED BY <1>1, <1>3 DEF EnginesInv

\* The job is over, one way or another.
LEMMA EndsWell ==
  ASSUME EnginesInv, NEW w \in Crew, NEW verdict \in Verdict, JobEnds(w, verdict),
         NEW pairs \in SUBSET (Node \X {1, 2}), asked' = [asked EXCEPT ![w] = pairs],
         node' \in [Node -> [dialect : 0..2, rest : 0..Quarantine]],
         activeNode' \in Node \cup {NoNode}, begun' = begun, twice' = FALSE
  PROVE  EnginesInv'
<1> DEFINE j == [NoJob EXCEPT !.end = verdict]
<1>1. job' = [job EXCEPT ![w] = j]
  BY DEF JobEnds
<1>2. j \in JobRec /\ j.at = "idle"
  BY NoJobFacts
<1> HIDE DEF j
<1>3. Walk(j, pairs)
  BY <1>2 DEF Walk
<1>4. begun' \in 0..EngineJobs
  BY DEF EnginesInv, PoolTypes
<1>5. QED BY <1>1, <1>2, <1>3, <1>4, CrewMoves

\* The job in its attempts at the primary engine: nobody in the pool was asked.
LEMMA PrimaryStep ==
  ASSUME EnginesInv, NEW w \in Crew, StartJob(w) \/ PrimaryServes(w) \/ PrimaryRefuses(w)
  PROVE  EnginesInv'
<1>0. /\ job[w] \in JobRec /\ asked[w] \in SUBSET (Node \X {1, 2}) /\ Walk(job[w], asked[w])
      /\ asked' = [asked EXCEPT ![w] = asked'[w]]
      /\ Tries \in Nat \ {0} /\ begun \in 0..EngineJobs /\ EngineJobs \in Nat
  BY EnginesAssumption DEF EnginesInv, PoolTypes, StartJob, PrimaryServes, PrimaryRefuses
<1>1. /\ node' = node /\ activeNode' = activeNode /\ twice' = FALSE
      /\ node' \in [Node -> [dialect : 0..2, rest : 0..Quarantine]]
      /\ activeNode' \in Node \cup {NoNode}
  BY DEF EnginesInv, PoolTypes, StartJob, PrimaryServes, PrimaryRefuses
<1>2. CASE StartJob(w)
  <2>1. PICK youtube \in BOOLEAN, flac \in BOOLEAN :
          job' = [job EXCEPT ![w] = [NoJob EXCEPT !.at = "primary", !.youtube = youtube,
                                                  !.flac = flac, !.try = 1]]
    BY <1>2 DEF StartJob
  <2> DEFINE j == [NoJob EXCEPT !.at = "primary", !.youtube = youtube, !.flac = flac, !.try = 1]
  <2>2. NoJob \in JobRec
    BY EnginesAssumption DEF NoJob, JobRec, Verdict, Refusal
  <2>3. 1 \in 0..Tries
    BY <1>0
  <2>4. j \in JobRec /\ j.at = "primary"
    BY <2>2, <2>3 DEF JobRec
  <2>5. job' = [job EXCEPT ![w] = j]
    BY <2>1
  <2> HIDE DEF j
  <2>6. Walk(j, {})
    BY <2>4 DEF Walk
  <2>7. asked' = [asked EXCEPT ![w] = {}] /\ begun' \in 0..EngineJobs
    <3>1. asked' = [asked EXCEPT ![w] = {}]
      BY <1>2 DEF StartJob
    <3>2. begun' = begun + 1 /\ begun < EngineJobs
      BY <1>2 DEF StartJob
    <3>3. QED BY <1>0, <3>1, <3>2
  <2>8. QED BY <1>1, <2>4, <2>5, <2>6, <2>7, CrewMoves
<1>3. CASE \E verdict \in Verdict : JobEnds(w, verdict) /\ UNCHANGED <<asked, begun>>
  BY <1>0, <1>1, <1>3, EndsWell
<1>4. ASSUME NEW why \in Refusal, job[w].at = "primary", UNCHANGED <<asked, begun>>,
             \/ job' = [job EXCEPT ![w].at = "handed", ![w].why = why]
             \/ job[w].try # Tries /\ job' = [job EXCEPT ![w].try = @ + 1]
      PROVE  EnginesInv'
  <2>1. asked[w] = {} /\ asked' = [asked EXCEPT ![w] = {}]
    BY <1>0, <1>4 DEF Walk
  <2>2. ASSUME NEW j \in JobRec, j.at \in {"handed", "primary"}, job' = [job EXCEPT ![w] = j]
        PROVE  EnginesInv'
    <3>1. Walk(j, {})
      BY <2>2 DEF Walk
    <3>2. QED BY <1>0, <1>1, <1>4, <2>1, <2>2, <3>1, CrewMoves
  <2>3. CASE job' = [job EXCEPT ![w].at = "handed", ![w].why = why]
    <3> DEFINE j == [job[w] EXCEPT !.at = "handed", !.why = why]
    <3>1. job' = [job EXCEPT ![w] = j]
      BY <2>3
    <3>2. j \in JobRec /\ j.at = "handed"
      BY <1>0 DEF JobRec
    <3> HIDE DEF j
    <3>3. QED BY <2>2, <3>1, <3>2
  <2>4. CASE job[w].try # Tries /\ job' = [job EXCEPT ![w].try = @ + 1]
    <3> DEFINE try == job[w].try + 1
               j == [job[w] EXCEPT !.try = try]
    <3>1. job' = [job EXCEPT ![w] = j]
      BY <2>4
    <3>2. try \in 0..Tries
      BY <1>0, <2>4 DEF JobRec
    <3> HIDE DEF try
    <3>3. j \in JobRec /\ j.at = "primary"
      BY <1>0, <1>4, <3>2 DEF JobRec
    <3> HIDE DEF j
    <3>4. QED BY <2>2, <3>1, <3>3
  <2>5. QED BY <1>4, <2>3, <2>4
<1>5. CASE PrimaryServes(w)
  BY <1>3, <1>5 DEF PrimaryServes, Verdict
<1>6. CASE PrimaryRefuses(w)
  <2>1. UNCHANGED <<asked, begun>> /\ job[w].at = "primary"
    BY <1>6 DEF PrimaryRefuses
  <2>2. PICK why \in Refusal :
          \/ job' = [job EXCEPT ![w].at = "handed", ![w].why = why]
          \/ JobEnds(w, "fleet") \/ JobEnds(w, "refused")
          \/ job[w].try # Tries /\ job' = [job EXCEPT ![w].try = @ + 1]
    BY <1>6 DEF PrimaryRefuses
  <2>3. QED BY <1>3, <1>4, <2>1, <2>2 DEF Verdict
<1>7. QED BY <1>2, <1>5, <1>6

\* The walk begins with everybody whom nobody told to leave alone.
LEMMA ResolveStep == ASSUME EnginesInv, NEW w \in Crew, Resolve(w) PROVE EnginesInv'
<1>0. /\ job[w] \in JobRec /\ Walk(job[w], asked[w]) /\ job[w].at = "handed"
      /\ asked[w] = {} /\ asked' = [asked EXCEPT ![w] = {}]
      /\ begun' = begun /\ begun \in 0..EngineJobs
  BY DEF EnginesInv, PoolTypes, Resolve, Walk
<1>1. /\ node' = node /\ activeNode' = activeNode /\ twice' = FALSE
      /\ node' \in [Node -> [dialect : 0..2, rest : 0..Quarantine]]
      /\ activeNode' \in Node \cup {NoNode}
  BY DEF EnginesInv, PoolTypes, Resolve
<1>2. CASE \E verdict \in Verdict : JobEnds(w, verdict)
  BY <1>0, <1>1, <1>2, EndsWell
<1>3. CASE Available /\ ~\E verdict \in Verdict : JobEnds(w, verdict)
  <2> DEFINE n == AttemptOrder(Fresh, activeNode)
             shapes == EndpointOrder(n)
             j == [job[w] EXCEPT !.at = "pool", !.on = n, !.left = Fresh \ {n},
                                 !.shapes = shapes, !.fresh = Fresh]
  <2>1. job' = [job EXCEPT ![w] = j]
    BY <1>3 DEF Resolve, Verdict
  <2>2. n \in Fresh /\ Fresh \in SUBSET Node
    BY <1>3, OrderPicks DEF Available, Fresh
  <2>3. shapes \in Shapes
    BY DEF EndpointOrder, Shapes
  <2> HIDE DEF n, shapes
  <2>4. /\ j \in JobRec /\ j.at = "pool" /\ j.on = n /\ j.left = Fresh \ {n} /\ j.shapes = shapes
        /\ j.fresh = Fresh
    BY <1>0, <2>2, <2>3 DEF JobRec
  <2> HIDE DEF j
  <2>5. Walk(j, {})
    BY <2>2, <2>3, <2>4 DEF Walk
  <2>6. QED BY <1>0, <1>1, <2>1, <2>4, <2>5, CrewMoves
<1>4. QED BY <1>2, <1>3 DEF Resolve, Verdict

-----------------------------------------------------------------------------
(* One request to one instance.                                            *)

\* What a request finds, and what it leaves.
Posted(w, n, shape) ==
  /\ job[w] \in JobRec /\ job[w].at = "pool" /\ n = job[w].on /\ shape = Head(job[w].shapes)
  /\ asked' = [asked EXCEPT ![w] = asked[w] \cup {<<n, shape>>}]
  /\ asked[w] \cup {<<n, shape>>} \in SUBSET (Node \X {1, 2})
  /\ begun' = begun /\ begun \in 0..EngineJobs /\ twice' = FALSE
  /\ job[w].shapes \in Shapes /\ n \notin job[w].left /\ job[w].left \subseteq Node
  /\ \A m \in job[w].left, s \in {1, 2} : <<m, s>> \notin asked[w]
  /\ \A s \in ShapesOf(job[w].shapes) : <<n, s>> \notin asked[w]
  /\ job[w].fresh = {p[1] : p \in asked[w]} \cup {n} \cup job[w].left

LEMMA PostFacts ==
  ASSUME EnginesInv, NEW w \in Crew, NEW n \in Node, NEW shape \in {1, 2}, Post(w, n, shape)
  PROVE  Posted(w, n, shape)
<1>1. job[w] \in JobRec /\ Walk(job[w], asked[w]) /\ begun \in 0..EngineJobs /\ twice = FALSE
      /\ asked[w] \in SUBSET (Node \X {1, 2})
  BY DEF EnginesInv, PoolTypes
<1>2. job[w].at = "pool" /\ n = job[w].on /\ shape = Head(job[w].shapes)
      /\ twice' = (twice \/ <<n, shape>> \in asked[w])
      /\ asked' = [asked EXCEPT ![w] = asked[w] \cup {<<n, shape>>}] /\ begun' = begun
  BY DEF Post
<1>3. /\ job[w].shapes \in Shapes /\ n \notin job[w].left /\ job[w].left \subseteq Node
      /\ \A m \in job[w].left, s \in {1, 2} : <<m, s>> \notin asked[w]
      /\ \A s \in ShapesOf(job[w].shapes) : <<n, s>> \notin asked[w]
      /\ job[w].fresh = {p[1] : p \in asked[w]} \cup {n} \cup job[w].left
  BY <1>1, <1>2 DEF Walk, JobRec
<1>4. <<n, shape>> \notin asked[w]
  BY <1>2, <1>3, ShapeFacts
<1>5. twice' = FALSE
  BY <1>1, <1>2, <1>4
<1>6. asked[w] \cup {<<n, shape>>} \in SUBSET (Node \X {1, 2})
  BY <1>1
<1>7. QED BY <1>1, <1>2, <1>3, <1>5, <1>6 DEF Posted

\* What became of the pool is in order.
PoolOK == /\ node' \in [Node -> [dialect : 0..2, rest : 0..Quarantine]]
          /\ activeNode' \in Node \cup {NoNode}

LEMMA Silenced ==
  ASSUME EnginesInv, NEW n \in Node, node' = [node EXCEPT ![n].rest = Quarantine], activeNode' = activeNode
  PROVE  PoolOK
<1>1. node \in [Node -> [dialect : 0..2, rest : 0..Quarantine]] /\ Quarantine \in 0..Quarantine
  BY EnginesAssumption DEF EnginesInv, PoolTypes
<1>2. node' \in [Node -> [dialect : 0..2, rest : 0..Quarantine]]
      /\ \A m \in Node : node'[m].dialect = node[m].dialect
  BY <1>1
<1>3. QED BY <1>2 DEF PoolOK, EnginesInv, PoolTypes

\* On to the next node: what is asked of the old one stays asked.
LEMMA NextStep ==
  ASSUME EnginesInv, NEW w \in Crew, NEW n \in Node, NEW shape \in {1, 2}, Post(w, n, shape),
         PoolOK, NextNode(w)
  PROVE  EnginesInv'
<1>0. Posted(w, n, shape)
  BY PostFacts
<1> DEFINE pairs == asked[w] \cup {<<n, shape>>}
<1>1. /\ job[w] \in JobRec /\ job[w].at = "pool"
      /\ asked' = [asked EXCEPT ![w] = pairs] /\ pairs \in SUBSET (Node \X {1, 2})
      /\ begun' = begun /\ begun \in 0..EngineJobs /\ twice' = FALSE
      /\ n \notin job[w].left /\ job[w].left \subseteq Node
      /\ \A m \in job[w].left, s \in {1, 2} : <<m, s>> \notin asked[w]
      /\ job[w].fresh = {p[1] : p \in asked[w]} \cup {n} \cup job[w].left
  BY <1>0 DEF Posted
<1>2. CASE job[w].left = {}
  <2>1. \E verdict \in Verdict : JobEnds(w, verdict)
    BY <1>2 DEF NextNode, GiveUp, Verdict
  <2> HIDE DEF pairs
  <2>2. QED BY <1>1, <2>1, EndsWell DEF PoolOK
<1>3. CASE job[w].left # {}
  <2> DEFINE m == AttemptOrder(job[w].left, NoNode)
             shapes == EndpointOrder(m)
             rest == job[w].left \ {m}
             j == [job[w] EXCEPT !.on = m, !.left = rest, !.shapes = shapes]
  <2>1. job' = [job EXCEPT ![w] = j]
    BY <1>3 DEF NextNode
  <2>2. m \in job[w].left
    BY <1>1, <1>3, OrderPicks
  <2>3. shapes \in Shapes
    BY DEF EndpointOrder, Shapes
  <2> HIDE DEF m, shapes
  <2>4. rest \in SUBSET Node /\ m \notin rest /\ m \in Node
    BY <1>1, <2>2
  <2>5. job[w].left = rest \cup {m}
    BY <2>2
  <2> HIDE DEF rest
  <2>6. j \in JobRec /\ j.at = "pool" /\ j.on = m /\ j.left = rest /\ j.shapes = shapes
        /\ j.fresh = job[w].fresh
    BY <1>1, <2>3, <2>4 DEF JobRec
  <2> HIDE DEF j
  <2>7. \A k \in job[w].left, s \in {1, 2} : <<k, s>> \notin pairs
    BY <1>1
  <2>8. {p[1] : p \in pairs} = {p[1] : p \in asked[w]} \cup {n}
    <3>1. <<n, shape>>[1] = n
      OBVIOUS
    <3>2. QED BY <3>1
  <2>9. Walk(j, pairs)
    <3>1. ShapesOf(shapes) \subseteq {1, 2}
      BY <2>3, ShapeFacts
    <3>2. j.fresh = {p[1] : p \in pairs} \cup {j.on} \cup j.left
      BY <1>1, <2>5, <2>6, <2>8
    <3> HIDE DEF pairs
    <3>3. QED BY <2>2, <2>3, <2>4, <2>5, <2>6, <2>7, <3>1, <3>2 DEF Walk
  <2> HIDE DEF pairs
  <2>10. QED BY <1>1, <2>1, <2>6, <2>9, CrewMoves DEF PoolOK
<1>4. QED BY <1>2, <1>3

LEMMA FailsStep == ASSUME EnginesInv, NEW w \in Crew, PostFails(w) PROVE EnginesInv'
<1>1. PICK n \in Node, shape \in {1, 2} :
        /\ Post(w, n, shape) /\ node' = [node EXCEPT ![n].rest = Quarantine]
        /\ NextNode(w) /\ activeNode' = activeNode
  BY DEF PostFails
<1>2. PoolOK
  BY <1>1, Silenced
<1>3. QED BY <1>1, <1>2, NextStep

LEMMA WrongStep == ASSUME EnginesInv, NEW w \in Crew, WrongShape(w) PROVE EnginesInv'
<1>1. PICK n \in Node, shape \in {1, 2} :
        /\ Post(w, n, shape) /\ activeNode' = activeNode
        /\ IF Len(job[w].shapes) > 1
             THEN job' = [job EXCEPT ![w].shapes = Tail(@)] /\ node' = node
             ELSE node' = [node EXCEPT ![n].rest = Quarantine] /\ NextNode(w)
  BY DEF WrongShape
<1>2. CASE ~(Len(job[w].shapes) > 1)
  BY <1>1, <1>2, Silenced, NextStep
<1>3. CASE Len(job[w].shapes) > 1
  <2>0. Posted(w, n, shape)
    BY <1>1, PostFacts
  <2> DEFINE pairs == asked[w] \cup {<<n, shape>>}
             rest == Tail(job[w].shapes)
             j == [job[w] EXCEPT !.shapes = rest]
  <2>1. /\ job[w] \in JobRec /\ job[w].at = "pool" /\ n = job[w].on /\ shape = Head(job[w].shapes)
        /\ asked' = [asked EXCEPT ![w] = pairs] /\ pairs \in SUBSET (Node \X {1, 2})
        /\ begun' = begun /\ begun \in 0..EngineJobs /\ twice' = FALSE
        /\ job[w].shapes \in Shapes /\ n \notin job[w].left /\ job[w].left \subseteq Node
        /\ \A m \in job[w].left, s \in {1, 2} : <<m, s>> \notin asked[w]
        /\ \A s \in ShapesOf(job[w].shapes) : <<n, s>> \notin asked[w]
        /\ job[w].fresh = {p[1] : p \in asked[w]} \cup {n} \cup job[w].left
    BY <2>0 DEF Posted
  <2>2. rest \in Shapes /\ ShapesOf(rest) = ShapesOf(job[w].shapes) \ {shape}
    BY <1>3, <2>1, ShapeFacts
  <2>3. job' = [job EXCEPT ![w] = j]
    BY <1>1, <1>3
  <2> HIDE DEF rest
  <2>4. j \in JobRec /\ j.at = "pool" /\ j.on = n /\ j.left = job[w].left /\ j.shapes = rest
        /\ j.fresh = job[w].fresh
    BY <2>1, <2>2 DEF JobRec
  <2> HIDE DEF j
  <2>5. {p[1] : p \in pairs} = {p[1] : p \in asked[w]} \cup {n}
    <3>1. <<n, shape>>[1] = n
      OBVIOUS
    <3>2. QED BY <3>1
  <2>6. \A m \in job[w].left, s \in {1, 2} : <<m, s>> \notin pairs
    BY <2>1
  <2>7. \A s \in ShapesOf(rest) : <<n, s>> \notin pairs
    BY <2>1, <2>2
  <2>8. j.fresh = {p[1] : p \in pairs} \cup {j.on} \cup j.left
    BY <2>1, <2>4, <2>5
  <2> HIDE DEF pairs
  <2>9. Walk(j, pairs)
    BY <2>1, <2>2, <2>4, <2>6, <2>7, <2>8 DEF Walk
  <2>10. PoolOK
    BY <1>1, <1>3 DEF PoolOK, EnginesInv, PoolTypes
  <2>11. QED BY <2>1, <2>3, <2>4, <2>9, <2>10, CrewMoves DEF PoolOK
<1>4. QED BY <1>2, <1>3

LEMMA AnswerStep == ASSUME EnginesInv, NEW w \in Crew, Answered(w) PROVE EnginesInv'
<1>1. PICK n \in Node, shape \in {1, 2}, says \in {"media", "instance", "link", "gap"} :
        /\ Post(w, n, shape) /\ activeNode' = n
        /\ node' = [node EXCEPT ![n] = [dialect |-> shape,
                                        rest |-> IF says = "instance" THEN Quarantine ELSE @.rest]]
        /\ says = "media" => job' = [job EXCEPT ![w].at = "fetch"]
        /\ says = "instance" => NextNode(w)
        /\ says \in {"link", "gap"} => \E verdict \in Verdict : JobEnds(w, verdict)
  <2>1. \A gap : GiveUp(w, gap) => \E verdict \in Verdict : JobEnds(w, verdict)
    BY DEF GiveUp, Verdict
  <2>2. QED BY <2>1 DEF Answered
<1>2. PoolOK
  <2> DEFINE rest == IF says = "instance" THEN Quarantine ELSE node[n].rest
  <2>1. node \in [Node -> [dialect : 0..2, rest : 0..Quarantine]]
    BY DEF EnginesInv, PoolTypes
  <2>2. rest \in 0..Quarantine
    BY <2>1, EnginesAssumption
  <2>3. node' = [node EXCEPT ![n] = [dialect |-> shape, rest |-> rest]]
    BY <1>1
  <2> HIDE DEF rest
  <2>4. node' \in [Node -> [dialect : 0..2, rest : 0..Quarantine]]
    BY <1>1, <2>1, <2>2, <2>3
  <2>5. QED BY <1>1, <2>4 DEF PoolOK, EnginesInv
<1>0. Posted(w, n, shape)
  BY <1>1, PostFacts
<1>3. /\ job[w] \in JobRec /\ asked[w] \cup {<<n, shape>>} \in SUBSET (Node \X {1, 2})
      /\ asked' = [asked EXCEPT ![w] = asked[w] \cup {<<n, shape>>}]
      /\ begun' = begun /\ begun \in 0..EngineJobs /\ twice' = FALSE
  BY <1>0 DEF Posted
<1>4. CASE says = "media"
  <2> DEFINE j == [job[w] EXCEPT !.at = "fetch"]
  <2>1. job' = [job EXCEPT ![w] = j]
    BY <1>1, <1>4
  <2>2. j \in JobRec /\ j.at = "fetch"
    BY <1>3 DEF JobRec
  <2> HIDE DEF j
  <2>3. Walk(j, asked[w] \cup {<<n, shape>>})
    BY <2>2 DEF Walk
  <2>4. QED BY <1>2, <1>3, <2>1, <2>2, <2>3, CrewMoves DEF PoolOK
<1>5. CASE says = "instance"
  BY <1>1, <1>2, <1>5, NextStep
<1>6. CASE says \in {"link", "gap"}
  BY <1>1, <1>2, <1>3, <1>6, EndsWell DEF PoolOK
<1>7. QED BY <1>4, <1>5, <1>6

LEMMA EnginesStep == EnginesInv /\ [EnginesNext]_engineVars => EnginesInv'
<1> SUFFICES ASSUME EnginesInv, [EnginesNext]_engineVars PROVE EnginesInv'
  OBVIOUS
<1>1. CASE UNCHANGED engineVars
  BY <1>1 DEF engineVars, EnginesInv, PoolTypes
<1>2. CASE EngineTick
  <2>1. /\ node' = [n \in Node |-> [node[n] EXCEPT !.rest = IF @ = 0 THEN 0 ELSE @ - 1]]
        /\ UNCHANGED <<activeNode, job, asked, twice, begun>>
    BY <1>2 DEF EngineTick
  <2>2. ASSUME NEW n \in Node
        PROVE  node'[n] \in [dialect : 0..2, rest : 0..Quarantine] /\ node'[n].dialect = node[n].dialect
    <3> DEFINE rest == IF node[n].rest = 0 THEN 0 ELSE node[n].rest - 1
    <3>1. node[n] \in [dialect : 0..2, rest : 0..Quarantine]
      BY DEF EnginesInv, PoolTypes
    <3>2. rest \in 0..Quarantine
      BY <3>1, EnginesAssumption
    <3>3. node'[n] = [node[n] EXCEPT !.rest = rest]
      BY <2>1
    <3> HIDE DEF rest
    <3>4. QED BY <3>1, <3>2, <3>3
  <2>3. node' \in [Node -> [dialect : 0..2, rest : 0..Quarantine]]
    BY <2>1, <2>2
  <2>4. QED BY <2>1, <2>2, <2>3 DEF EnginesInv, PoolTypes
<1>3. ASSUME NEW w \in Crew, Fetched(w) PROVE EnginesInv'
  <2>1. /\ UNCHANGED <<node, activeNode, asked, twice, begun>>
        /\ \E verdict \in Verdict : JobEnds(w, verdict)
    BY <1>3 DEF Fetched, GiveUp, Verdict
  <2>2. asked' = [asked EXCEPT ![w] = asked[w]] /\ asked[w] \in SUBSET (Node \X {1, 2}) /\ twice' = FALSE
    BY <2>1 DEF EnginesInv, PoolTypes
  <2>3. PoolOK
    BY <2>1 DEF PoolOK, EnginesInv, PoolTypes
  <2>4. QED BY <2>1, <2>2, <2>3, EndsWell DEF PoolOK
<1>4. QED
  BY <1>1, <1>2, <1>3, PrimaryStep, ResolveStep, FailsStep, WrongStep, AnswerStep DEF EnginesNext

\* For any pool, dialects, quarantine and number of workers that share its
\* memory: a job asks an instance one thing at most once, and no instance that
\* was free when the walk began is passed over (cobalt.py, _process_with_retry).
THEOREM EnginesAskOnce == EnginesSpec => []EnginesOnce
<1>1. EnginesInv => EnginesOnce
  BY DEF EnginesInv, Walk, EnginesOnce
<1>2. QED
  BY <1>1, InitEngines, EnginesStep, PTL DEF EnginesSpec

LEMMA EnginesTyped == EnginesSpec => []EnginesTypeOK
<1>1. EnginesInv => EnginesTypeOK
  <2> SUFFICES ASSUME EnginesInv PROVE EnginesTypeOK
    OBVIOUS
  <2>1. Shapes \cup {<<>>} \subseteq Seq({1, 2})
    BY DEF Shapes
  <2>2. \A w \in Crew : job[w] \in JobRec
    BY DEF EnginesInv, PoolTypes
  <2>3. \A w \in Crew :
          job[w] \in [at : {"idle", "primary", "handed", "pool", "fetch"}, youtube : BOOLEAN,
                     flac : BOOLEAN, try : 0..Tries, why : Refusal, on : Node \cup {NoNode},
                     left : SUBSET Node, shapes : Seq({1, 2}), fresh : SUBSET Node, end : Verdict]
    BY <2>1, <2>2 DEF JobRec
  <2>4. job = [w \in Crew |-> job[w]]
    BY DEF EnginesInv, PoolTypes
  <2>5. QED BY <2>3, <2>4 DEF EnginesInv, PoolTypes, EnginesTypeOK
<1>2. QED
  BY <1>1, InitEngines, EnginesStep, PTL DEF EnginesSpec

-----------------------------------------------------------------------------
(***************************************************************************)
(* ProbeSound for any configured clients, jars and answers. A leg has      *)
(* requests of its own walk left, whichever walk it is; and the best       *)
(* stream below the tallest is still the best below its own row, so its    *)
(* rung is offered.                                                        *)
(***************************************************************************)

\* What is left of a walk belongs to it, what the menu offers some answer
\* offers, and whoever won was answered.
ProbeInv ==
  /\ ProbeTypeOK
  /\ \A l \in 1..3 : leg[l].ways \subseteq FailoverSteps(leg[l].names, deployed.jar)
  /\ stage = "idle" => leg = [l \in 1..3 |-> Unused] /\ solo = {}
  /\ \A h \in menu : \E F \in views : h \in Menu(F)
  /\ views # {} => menu # {}
  /\ outcome = "menu" => views # {}

LEMMA LeastNumber ==
  ASSUME NEW S \in SUBSET Nat, S # {}
  PROVE  Min(S) \in S /\ \A y \in S : Min(S) <= y
<1>1. PICK x \in S : \A y \in S : ~(<<y, x>> \in OpToRel(<, Nat))
  BY WFMin, NatLessThanWellFounded
<1>2. \A y \in S : ~(y < x)
  BY <1>1 DEF OpToRel
<1>3. \A y \in S : x <= y
  BY <1>2
<1>4. QED BY <1>3 DEF Min

\* What a function makes of finitely many arguments is finitely many values.
LEMMA FiniteImage ==
  ASSUME NEW S, IsFiniteSet(S), NEW T, NEW f \in [S -> T], \A y \in T : \E x \in S : f[x] = y
  PROVE  IsFiniteSet(T)
<1>1. f \in Surjection(S, T)
  BY DEF Surjection
<1>2. QED BY <1>1, FS_Surjection

LEMMA GreatestNumber ==
  ASSUME NEW S \in SUBSET Nat, S # {}, IsFiniteSet(S)
  PROVE  Max(S) \in S /\ \A y \in S : y <= Max(S)
<1> DEFINE Above(u) == {v \in S : v > u}
           Sizes == {Cardinality(Above(u)) : u \in S}
<1>1. \A u \in S : IsFiniteSet(Above(u)) /\ Cardinality(Above(u)) \in Nat
  BY FS_Subset, FS_CardinalityType
<1>2. Sizes \subseteq Nat /\ Sizes # {}
  BY <1>1
<1>3. PICK n \in Sizes : \A m \in Sizes : n <= m
  <2> HIDE DEF Sizes
  <2>1. QED BY <1>2, LeastNumber
<1>4. PICK x \in S : n = Cardinality(Above(x))
  OBVIOUS
<1>5. ASSUME NEW y \in S, y > x PROVE FALSE
  <2>1. y \in Nat /\ x \in Nat
    OBVIOUS
  <2>2. Above(y) \subseteq Above(x) \ {y} /\ y \in Above(x)
    <3>1. ASSUME NEW v \in Above(y) PROVE v \in Above(x) \ {y}
      <4>1. v \in S /\ v \in Nat /\ v > y
        OBVIOUS
      <4>2. QED BY <1>5, <2>1, <4>1
    <3>2. QED BY <1>5, <3>1
  <2>3. Cardinality(Above(x) \ {y}) = Cardinality(Above(x)) - 1 /\ IsFiniteSet(Above(x) \ {y})
    BY <1>1, <2>2, FS_RemoveElement
  <2>4. Cardinality(Above(y)) <= Cardinality(Above(x) \ {y})
    <3> HIDE DEF Above
    <3>1. QED BY <2>2, <2>3, FS_Subset
  <2>5. n <= Cardinality(Above(y))
    BY <1>3
  <2>6. Cardinality(Above(x)) \in Nat /\ Cardinality(Above(y)) \in Nat
    BY <1>1
  <2>7. QED BY <1>4, <2>3, <2>4, <2>5, <2>6
<1>6. \A y \in S : y <= x
  BY <1>5
<1>7. QED BY <1>6 DEF Max

-----------------------------------------------------------------------------
(* The menu of one answer.                                                 *)

LEMMA RankFacts ==
  /\ \A s \in Stream : ShortEdge(s) \in Nat /\ Rank(s) \in Nat
  /\ \A s, o \in Stream : Rank(s) = Rank(o) => Label(s) = Label(o)
<1>1. ASSUME NEW s \in Stream PROVE ShortEdge(s) \in Nat /\ Rank(s) \in {2 * ShortEdge(s), 2 * ShortEdge(s) + 1}
  BY DEF Stream, ShortEdge, Rank
<1>2. ASSUME NEW s \in Stream, NEW o \in Stream, Rank(s) = Rank(o) PROVE Label(s) = Label(o)
  <2>1. ShortEdge(s) = ShortEdge(o)
    BY <1>1, <1>2
  <2>2. QED BY <2>1 DEF Label
<1>3. ASSUME NEW s \in Stream PROVE Rank(s) \in Nat
  BY <1>1
<1>4. QED BY <1>1, <1>2, <1>3

LEMMA BestOf ==
  ASSUME NEW S \in SUBSET Stream, S # {}, IsFiniteSet(S)
  PROVE  Best(S) \in S /\ \A o \in S : Rank(o) <= Rank(Best(S))
<1> DEFINE Ranks == {Rank(s) : s \in S}
<1>1. Ranks \in SUBSET Nat /\ Ranks # {}
  BY RankFacts
<1>2. IsFiniteSet(Ranks)
  <2> DEFINE f == [s \in S |-> Rank(s)]
  <2>1. f \in [S -> Ranks] /\ \A y \in Ranks : \E s \in S : f[s] = y
    OBVIOUS
  <2> HIDE DEF f, Ranks
  <2>2. QED BY <2>1, FiniteImage
<1> HIDE DEF Ranks
<1>3. Max(Ranks) \in Ranks /\ \A y \in Ranks : y <= Max(Ranks)
  BY <1>1, <1>2, GreatestNumber
<1> USE DEF Ranks
<1>4. PICK s \in S : Rank(s) = Max(Ranks)
  BY <1>3
<1>5. \A o \in S : Rank(o) <= Rank(s)
  BY <1>3, <1>4
<1>6. QED BY <1>5 DEF Best

\* What is picked is the best of the first part of the chain that holds any.
LEMMA PickedFacts ==
  ASSUME NEW F \in SUBSET Stream, F # {}, IsFiniteSet(F), NEW ceiling
  PROVE  \E k \in 1..4 : /\ Picked(F, ceiling) = Best(Chain(F, ceiling)[k])
                         /\ Picked(F, ceiling) \in Chain(F, ceiling)[k]
                         /\ Chain(F, ceiling)[k] \in SUBSET F /\ Chain(F, ceiling)[k] # {}
                         /\ IsFiniteSet(Chain(F, ceiling)[k])
                         /\ \A i \in 1..4 : i < k => Chain(F, ceiling)[i] = {}
<1> DEFINE chain == Chain(F, ceiling)
           I == {i \in 1..4 : chain[i] # {}}
           k == Min(I)
<1>1. chain[4] = F /\ \A i \in 1..4 : chain[i] \in SUBSET F
  BY DEF Chain
<1> HIDE DEF chain
<1>2. I \in SUBSET Nat /\ I # {}
  BY <1>1
<1>3. k \in I /\ \A i \in I : k <= i
  <2> HIDE DEF I
  <2>1. QED BY <1>2, LeastNumber
<1>4. Picked(F, ceiling) = Best(chain[k])
  BY DEF Picked, chain
<1> HIDE DEF k
<1>5. k \in 1..4 /\ chain[k] # {} /\ chain[k] \in SUBSET F /\ chain[k] \in SUBSET Stream
  BY <1>1, <1>3
<1>6. \A i \in 1..4 : i < k => chain[i] = {}
  BY <1>3, <1>5
<1>7. IsFiniteSet(chain[k])
  BY <1>5, FS_Subset
<1>8. Best(chain[k]) \in chain[k]
  BY <1>5, <1>7, BestOf
<1>9. QED BY <1>4, <1>5, <1>6, <1>7, <1>8 DEF chain

LEMMA Heights == \A S : IsFiniteSet(S) => IsFiniteSet({s.h : s \in S})
<1>1. ASSUME NEW S, IsFiniteSet(S) PROVE IsFiniteSet({s.h : s \in S})
  <2> DEFINE H == {s.h : s \in S}
             f == [s \in S |-> s.h]
  <2>1. f \in [S -> H] /\ \A y \in H : \E s \in S : f[s] = y
    OBVIOUS
  <2> HIDE DEF f, H
  <2>2. IsFiniteSet(H)
    BY <1>1, <2>1, FiniteImage
  <2>3. QED BY <2>2 DEF H
<1>2. QED BY <1>1

LEMMA RowFacts ==
  ASSUME NEW F \in SUBSET Stream, IsFiniteSet(F), NEW o \in F
  PROVE  /\ \E s \in F : s.h = RowHeight(F, Label(o)) /\ Label(s) = Label(o)
         /\ RowHeight(F, Label(o)) \in Nat /\ o.h <= RowHeight(F, Label(o))
<1> DEFINE S == {s \in F : Label(s) = Label(o)}
           H == {s.h : s \in S}
<1>1. IsFiniteSet(H)
  <2>1. IsFiniteSet(S)
    BY FS_Subset
  <2>2. QED BY <2>1, Heights
<1>2. H \in SUBSET Nat /\ o.h \in H
  BY DEF Stream
<1>3. RowHeight(F, Label(o)) = Max(H)
  BY DEF RowHeight
<1>4. Max(H) \in H /\ o.h <= Max(H)
  <2> HIDE DEF H
  <2>1. QED BY <1>1, <1>2, GreatestNumber
<1>5. QED BY <1>2, <1>3, <1>4

\* Whatever an answer lists: its menu offers a rung, and asking it for one that
\* it offers delivers that rung.
LEMMA MenuDelivers ==
  ASSUME NEW F \in SUBSET Stream, F # {}, IsFiniteSet(F)
  PROVE  /\ Menu(F) # {}
         /\ \A h \in Menu(F) : \E s \in F : s.h = h /\ Label(Picked(F, h)) = Label(s)
<1>1. ASSUME NEW h \in Menu(F) PROVE \E s \in F : s.h = h /\ Label(Picked(F, h)) = Label(s)
  <2>1. PICK o \in F : h = RowHeight(F, Label(o)) /\ Label(Picked(F, h)) = Label(o)
    BY DEF Menu
  <2>2. QED BY <2>1, RowFacts
<1>2. Menu(F) # {}
  <2> DEFINE H == {s.h : s \in F}
             top == Max(H)
             p == Picked(F, top)
             h == RowHeight(F, Label(p))
             q == Picked(F, h)
  <2>1. top \in Nat /\ \A s \in F : s.h <= top
    <3>1. H \in SUBSET Nat /\ H # {} /\ IsFiniteSet(H)
      BY Heights DEF Stream
    <3> HIDE DEF H
    <3>2. top \in H /\ \A y \in H : y <= top
      BY <3>1, GreatestNumber
    <3>3. QED BY <3>1, <3>2 DEF H
  <2> HIDE DEF top
  <2>2. PICK k \in 1..4 : /\ p = Best(Chain(F, top)[k]) /\ p \in Chain(F, top)[k]
                          /\ Chain(F, top)[k] \in SUBSET F /\ Chain(F, top)[k] # {}
                          /\ IsFiniteSet(Chain(F, top)[k])
                          /\ \A i \in 1..4 : i < k => Chain(F, top)[i] = {}
    BY PickedFacts
  <2> HIDE DEF p
  <2>3. p \in F
    BY <2>2
  <2>4. h \in Nat /\ p.h <= h
    BY <2>3, RowFacts
  <2> HIDE DEF h
  <2>5. PICK n \in 1..4 : /\ q = Best(Chain(F, h)[n]) /\ q \in Chain(F, h)[n]
                          /\ Chain(F, h)[n] \in SUBSET F /\ Chain(F, h)[n] # {}
                          /\ IsFiniteSet(Chain(F, h)[n])
                          /\ \A i \in 1..4 : i < n => Chain(F, h)[i] = {}
    BY PickedFacts
  <2> HIDE DEF q
  <2>6. \A i \in 1..4 : Chain(F, h)[i] \subseteq Chain(F, top)[i]
    BY <2>1 DEF Chain
  <2>7. k # 4
    <3>1. Chain(F, top)[3] = F
      BY <2>1 DEF Chain
    <3>2. QED BY <2>2, <3>1
  <2>8. p \in Chain(F, h)[k]
    <3>1. k \in {1, 2, 3}
      BY <2>7
    <3>2. QED BY <2>2, <2>3, <2>4, <3>1 DEF Chain
  <2>9. n = k
    <3>1. ~(k < n)
      BY <2>5, <2>8
    <3>2. ~(n < k)
      BY <2>2, <2>5, <2>6
    <3>3. QED BY <3>1, <3>2
  <2>10. Rank(q) <= Rank(p)
    <3>1. q \in Chain(F, top)[k]
      BY <2>5, <2>6, <2>9
    <3>2. QED BY <2>2, <3>1, BestOf
  <2>11. Rank(p) <= Rank(q)
    BY <2>5, <2>8, <2>9, BestOf
  <2>12. Label(q) = Label(p)
    <3>1. q \in Stream /\ p \in Stream
      BY <2>2, <2>5
    <3>2. Rank(q) \in Nat /\ Rank(p) \in Nat
      BY <3>1, RankFacts
    <3>3. Rank(q) = Rank(p)
      BY <2>10, <2>11, <3>2
    <3>4. QED BY <3>1, <3>3, RankFacts
  <2>13. h \in Menu(F)
    BY <2>3, <2>12 DEF Menu, h, q
  <2>14. QED BY <2>13
<1>3. QED BY <1>1, <1>2

-----------------------------------------------------------------------------
(* The requests of one fetch.                                              *)

LEMMA SentFacts ==
  ASSUME NEW names \in SUBSET Client, NEW jar \in Jars
  PROVE  /\ Sent(names, jar).jar = jar
         /\ jar = "signed" /\ names # {} => Sent(names, jar).clients \cap (Blind \cup Incompatible) = {}
         /\ jar # "signed" /\ names # {} => Sent(names, jar).clients = names
         /\ names = {} => \A c : Sent(names, jar).clients # {c}
<1>1. Compatible \cap (Blind \cup Incompatible) = {}
  BY DEF Compatible, Blind, Incompatible
<1>2. CASE names = {}
  <2>1. Sent(names, jar) = [clients |-> DefaultClients(jar), jar |-> jar]
    BY <1>2 DEF Sent
  <2>2. \A c : DefaultClients(jar) # {c}
    <3>1. "web" \in DefaultClients(jar) /\ \E d \in DefaultClients(jar) : d # "web"
      BY DEF DefaultClients
    <3>2. QED BY <3>1
  <2>3. QED BY <1>2, <2>1, <2>2
<1>3. CASE names # {} /\ jar = "signed"
  <2>1. Effective(names, jar = "signed") \cap (Blind \cup Incompatible) = {}
    BY <1>3 DEF Effective
  <2>2. QED BY <1>1, <1>3, <2>1 DEF Sent
<1>4. CASE names # {} /\ jar # "signed"
  <2>1. Effective(names, jar = "signed") = names
    BY <1>4 DEF Effective
  <2>2. QED BY <1>4, <2>1 DEF Sent
<1>5. QED BY <1>2, <1>3, <1>4

\* A walk never names a client beside a login it poisons, nor says a thing twice.
LEMMA WalkFacts ==
  ASSUME NEW names \in SUBSET Client, NEW jar \in Jars, NEW i \in FailoverSteps(names, jar)
  PROVE  /\ RequestOf(names, jar, i).jar = "signed" /\ names # {} =>
              RequestOf(names, jar, i).clients \cap (Blind \cup Incompatible) = {}
         /\ \A j \in FailoverSteps(names, jar) \ {i} : RequestOf(names, jar, i) # RequestOf(names, jar, j)
<1>0. \A k \in {3, 4, 5, 6} : Priority[k - 2] \in Client
  BY DEF Priority, Client, Compatible, Blind, Incompatible
<1>1. \A k \in FailoverSteps(names, jar) :
        /\ k \in 1..6 /\ (k = 2 => jar # "none") /\ (k > 2 => Priority[k - 2] \notin names)
        /\ k > 2 => k \in {3, 4, 5, 6}
  BY DEF FailoverSteps, Ways, Priority
<1>2. /\ Sent(names, jar).jar = jar
      /\ jar = "signed" /\ names # {} => Sent(names, jar).clients \cap (Blind \cup Incompatible) = {}
      /\ jar # "signed" /\ names # {} => Sent(names, jar).clients = names
      /\ Sent(names, "none").jar = "none" /\ (names # {} => Sent(names, "none").clients = names)
      /\ names = {} => \A c : Sent(names, jar).clients # {c} /\ Sent(names, "none").clients # {c}
  <2>1. "none" \in Jars /\ "none" # "signed"
    BY DEF Jars
  <2>2. /\ Sent(names, "none").jar = "none" /\ (names # {} => Sent(names, "none").clients = names)
        /\ names = {} => \A c : Sent(names, "none").clients # {c}
    BY <2>1, SentFacts
  <2>3. QED BY <2>2, SentFacts
<1>3. /\ RequestOf(names, jar, 1) = Sent(names, jar)
      /\ RequestOf(names, jar, 2) = Sent(names, "none")
  BY DEF RequestOf
<1>4. \A k \in {3, 4, 5, 6} : RequestOf(names, jar, k).jar = "none" /\ RequestOf(names, jar, k).clients = {Priority[k - 2]}
  <2>1. ASSUME NEW k \in {3, 4, 5, 6}
        PROVE  RequestOf(names, jar, k).jar = "none" /\ RequestOf(names, jar, k).clients = {Priority[k - 2]}
    <3>1. RequestOf(names, jar, k) = Sent({Priority[k - 2]}, "none")
      BY DEF RequestOf
    <3>2. {Priority[k - 2]} \in SUBSET Client
      BY <1>0
    <3>3. /\ Sent({Priority[k - 2]}, "none").jar = "none"
          /\ Sent({Priority[k - 2]}, "none").clients = {Priority[k - 2]}
      BY <3>2, SentFacts DEF Jars
    <3>4. QED BY <3>1, <3>3
  <2>2. QED BY <2>1
<1>5. \A k \in FailoverSteps(names, jar) :
        /\ k = 1 => /\ RequestOf(names, jar, k).jar = jar
                    /\ jar # "signed" /\ names # {} => RequestOf(names, jar, k).clients = names
        /\ k = 2 => /\ RequestOf(names, jar, k).jar = "none"
                    /\ names # {} => RequestOf(names, jar, k).clients = names
        /\ k \in {1, 2} /\ names = {} => \A c : RequestOf(names, jar, k).clients # {c}
        /\ k > 2 => RequestOf(names, jar, k).jar = "none" /\ RequestOf(names, jar, k).clients = {Priority[k - 2]}
  BY <1>1, <1>2, <1>3, <1>4
<1>6. RequestOf(names, jar, i).jar = "signed" /\ names # {} =>
        RequestOf(names, jar, i).clients \cap (Blind \cup Incompatible) = {}
  BY <1>1, <1>2, <1>3, <1>5
<1>7. \A k, m \in {3, 4, 5, 6} : k # m => Priority[k - 2] # Priority[m - 2]
  BY DEF Priority
<1>8. ASSUME NEW j \in FailoverSteps(names, jar), i # j,
             RequestOf(names, jar, i) = RequestOf(names, jar, j)
      PROVE  FALSE
  <2>1. /\ RequestOf(names, jar, i).jar = RequestOf(names, jar, j).jar
        /\ RequestOf(names, jar, i).clients = RequestOf(names, jar, j).clients
    BY <1>8
  <2>2. i > 2 \/ j > 2
    BY <1>1, <1>5, <1>8, <2>1
  <2>3. ~(i > 2 /\ j > 2)
    BY <1>1, <1>5, <1>7, <1>8, <2>1
  <2>4. ASSUME NEW k \in FailoverSteps(names, jar), NEW m \in FailoverSteps(names, jar), k <= 2, m > 2,
               RequestOf(names, jar, k).jar = RequestOf(names, jar, m).jar,
               RequestOf(names, jar, k).clients = RequestOf(names, jar, m).clients
        PROVE  FALSE
    <3>1. RequestOf(names, jar, k).jar = "none" /\ RequestOf(names, jar, k).clients = {Priority[m - 2]}
          /\ Priority[m - 2] \notin names
      BY <1>1, <1>5, <2>4
    <3>2. names # {} => RequestOf(names, jar, k).clients = names
      BY <1>1, <1>5, <2>4, <3>1
    <3>3. k \in {1, 2}
      BY <1>1, <2>4
    <3>4. names = {} => RequestOf(names, jar, k).clients # {Priority[m - 2]}
      BY <1>5, <3>3
    <3>5. QED BY <3>1, <3>2, <3>4
  <2>5. QED BY <1>1, <1>8, <2>1, <2>2, <2>3, <2>4
<1>9. QED BY <1>6, <1>8

-----------------------------------------------------------------------------
LEMMA ProbeStart == ProbeInit => ProbeInv
<1> SUFFICES ASSUME ProbeInit PROVE ProbeInv
  OBVIOUS
<1>1. ProbeTypeOK
  <2>1. Unused \in [names : SUBSET Client, ways : SUBSET Ways, at : {"gone", "run", "info", "error"}]
    BY DEF Unused
  <2>2. deployed \in [list : Configured, jar : Jars]
    BY ProbeAssumption DEF ProbeInit, Jars
  <2>3. QED BY <2>1, <2>2 DEF ProbeInit, ProbeTypeOK
<1>2. \A l \in 1..3 : leg[l].ways = {}
  BY DEF ProbeInit, Unused
<1>3. QED BY <1>1, <1>2 DEF ProbeInit, ProbeInv
LegRec == [names : SUBSET Client, ways : SUBSET Ways, at : {"gone", "run", "info", "error"}]

LEMMA LegFacts ==
  /\ Unused \in LegRec /\ Unused.ways = {}
  /\ \A names \in SUBSET Client : \A jar :
       Walks(names, jar) \in LegRec /\ Walks(names, jar).names = names
       /\ Walks(names, jar).ways = FailoverSteps(names, jar)
BY DEF Unused, LegRec, Walks, FailoverSteps

\* The legs change: each is at work on its own requests.
LegsOK(legs, jar) ==
  /\ legs \in [1..3 -> LegRec]
  /\ \A l \in 1..3 : legs[l].ways \subseteq FailoverSteps(legs[l].names, jar)

LEMMA OneLeg ==
  ASSUME NEW legs, NEW jar, LegsOK(legs, jar), NEW l \in 1..3, NEW r \in LegRec,
         r.ways \subseteq FailoverSteps(r.names, jar)
  PROVE  LegsOK([legs EXCEPT ![l] = r], jar)
BY DEF LegsOK

LEMMA WalkLeg ==
  ASSUME NEW legs, NEW jar, LegsOK(legs, jar), NEW names \in SUBSET Client
  PROVE  \A l \in 1..3 : LegsOK([legs EXCEPT ![l] = Walks(names, jar)], jar)
BY LegFacts, OneLeg

LEMMA GoneLeg ==
  ASSUME NEW legs, NEW jar, LegsOK(legs, jar)
  PROVE  \A l \in 1..3 : LegsOK([legs EXCEPT ![l] = Unused], jar)
BY LegFacts, OneLeg

LEMMA NoLegs == \A jar : LegsOK([l \in 1..3 |-> Unused], jar)
BY LegFacts DEF LegsOK

LEMMA CallStep == ASSUME ProbeInv, ProbeCall PROVE ProbeInv'
<1>1. PICK list \in Configured, jar \in Jars :
       /\ deployed' = [list |-> list, jar |-> jar]
       /\ \/ /\ Cardinality(Raced(list, jar)) < 2
             /\ stage' = "full" /\ leg' = [leg EXCEPT ![3] = Walks(Range(list), jar)]
          \/ \E i, j \in Raced(list, jar) :
               /\ i < j
               /\ stage' = "race" /\ leg' = [leg EXCEPT ![1] = Walks({Priority[i]}, jar),
                                                        ![2] = Walks({Priority[j]}, jar)]
  BY DEF ProbeCall
<1>2. stage = "idle" /\ UNCHANGED <<solo, menu, outcome, views>> /\ solo = {}
  BY DEF ProbeCall, ProbeInv
<1>3. LegsOK(leg, jar)
  BY <1>2, NoLegs DEF ProbeInv, ProbeCall
<1>4. Range(list) \in SUBSET Client
  BY ProbeAssumption DEF Range
<1>5. \A i \in Raced(list, jar) : {Priority[i]} \in SUBSET Client
  BY DEF Raced, Priority, Client, Compatible, Incompatible, Blind
<1>6. LegsOK(leg', jar) /\ stage' \in {"full", "race"}
  <2>1. CASE stage' = "full" /\ leg' = [leg EXCEPT ![3] = Walks(Range(list), jar)]
    BY <1>3, <1>4, <2>1, 3 \in 1..3, WalkLeg
  <2>2. ASSUME NEW i \in Raced(list, jar), NEW j \in Raced(list, jar),
               stage' = "race", leg' = [leg EXCEPT ![1] = Walks({Priority[i]}, jar),
                                                   ![2] = Walks({Priority[j]}, jar)]
        PROVE  LegsOK(leg', jar) /\ stage' \in {"full", "race"}
    <3> DEFINE legs == [leg EXCEPT ![1] = Walks({Priority[i]}, jar)]
    <3>1. LegsOK(legs, jar)
      BY <1>3, <1>5, 1 \in 1..3, WalkLeg
    <3>2. leg' = [legs EXCEPT ![2] = Walks({Priority[j]}, jar)]
      BY <2>2
    <3> HIDE DEF legs
    <3>5. LegsOK(leg', jar)
      BY <1>5, <3>1, <3>2, 2 \in 1..3, WalkLeg
    <3>6. QED BY <2>2, <3>5
  <2>3. QED BY <1>1, <2>1, <2>2
<1>7. ProbeTypeOK'
  BY <1>1, <1>2, <1>6 DEF ProbeInv, ProbeTypeOK, LegsOK, LegRec
<1>8. QED BY <1>1, <1>2, <1>6, <1>7 DEF ProbeInv, LegsOK

\* Nothing was answered, nobody won: only the legs and the stage move.
LEMMA WalkOn ==
  ASSUME ProbeInv, UNCHANGED <<deployed, menu, views>>, LegsOK(leg', deployed.jar),
         stage' \in {"race", "full", "solo", "done"}, solo' \subseteq DOMAIN deployed.list,
         outcome' \in {outcome, "full", "timeout"} \/ (outcome' = "menu" /\ views # {})
  PROVE  ProbeInv'
<1>1. ProbeTypeOK'
  BY DEF ProbeInv, ProbeTypeOK, LegsOK, LegRec
<1>2. QED BY <1>1 DEF ProbeInv, LegsOK

LEMMA ProbeStep == ProbeInv /\ [ProbeNext]_probeVars => ProbeInv'
<1> SUFFICES ASSUME ProbeInv, [ProbeNext]_probeVars PROVE ProbeInv'
  OBVIOUS
<1>0. /\ LegsOK(leg, deployed.jar) /\ solo \subseteq DOMAIN deployed.list
      /\ deployed \in [list : Configured, jar : Jars] /\ Range(deployed.list) \in SUBSET Client
  BY ProbeAssumption DEF ProbeInv, ProbeTypeOK, LegsOK, LegRec, Range
<1>1. CASE UNCHANGED probeVars
  BY <1>1 DEF probeVars, ProbeInv, ProbeTypeOK
<1>2. CASE ProbeCall
  BY <1>2, CallStep
<1>3. ASSUME NEW l \in 1..3, Attempt(l) PROVE ProbeInv'
  <2>1. UNCHANGED <<deployed, stage, solo, menu, outcome, views>> /\ leg[l].at = "run" /\ leg[l] \in LegRec
    BY <1>0, <1>3 DEF Attempt, LegsOK
  <2>2. PICK r : /\ leg' = [leg EXCEPT ![l] = r] /\ r \in LegRec
                 /\ r.names = leg[l].names /\ r.ways \subseteq leg[l].ways
    <3>1. ASSUME NEW end \in {"info", "error"}, leg' = [leg EXCEPT ![l].at = end]
          PROVE  \E r : /\ leg' = [leg EXCEPT ![l] = r] /\ r \in LegRec
                        /\ r.names = leg[l].names /\ r.ways \subseteq leg[l].ways
      <4> DEFINE r == [leg[l] EXCEPT !.at = end]
      <4>1. leg' = [leg EXCEPT ![l] = r]
        BY <3>1
      <4>2. r \in LegRec /\ r.names = leg[l].names /\ r.ways = leg[l].ways
        BY <2>1 DEF LegRec
      <4> HIDE DEF r
      <4>3. QED BY <4>1, <4>2
    <3>2. ASSUME leg' = [leg EXCEPT ![l].ways = @ \ {Min(@)}]
          PROVE  \E r : /\ leg' = [leg EXCEPT ![l] = r] /\ r \in LegRec
                        /\ r.names = leg[l].names /\ r.ways \subseteq leg[l].ways
      <4> DEFINE ways == leg[l].ways \ {Min(leg[l].ways)}
                 r == [leg[l] EXCEPT !.ways = ways]
      <4>1. leg' = [leg EXCEPT ![l] = r]
        BY <3>2
      <4>2. ways \in SUBSET Ways /\ ways \subseteq leg[l].ways
        BY <2>1 DEF LegRec
      <4> HIDE DEF ways
      <4>3. r \in LegRec /\ r.names = leg[l].names /\ r.ways = ways
        BY <2>1, <4>2 DEF LegRec
      <4> HIDE DEF r
      <4>4. QED BY <4>1, <4>2, <4>3
    <3>3. QED BY <1>3, <3>1, <3>2 DEF Attempt
  <2>3. LegsOK(leg', deployed.jar)
    <3>1. r.ways \subseteq FailoverSteps(r.names, deployed.jar)
      BY <1>0, <2>2 DEF LegsOK
    <3>2. QED BY <1>0, <2>2, <3>1, OneLeg
  <2>4. stage # "idle"
    <3>1. leg[l].at = "run" /\ stage = "idle" => leg[l] = Unused
      BY DEF ProbeInv
    <3>2. QED BY <2>1, <3>1 DEF Unused
  <2>5. QED BY <1>0, <2>1, <2>3, <2>4, WalkOn DEF ProbeInv, ProbeTypeOK
<1>4. ASSUME NEW l \in 1..3, Taken(l) PROVE ProbeInv'
  <2>1. PICK view \in Views : views' = views \cup {view} /\ menu' = menu \cup Menu(view)
    BY <1>4 DEF Taken
  <2>2. stage = "race" /\ leg' = [leg EXCEPT ![l] = Unused] /\ UNCHANGED <<deployed, stage, solo, outcome>>
    BY <1>4 DEF Taken
  <2>3. LegsOK(leg', deployed.jar)
    BY <1>0, <2>2, 3 \in 1..3, GoneLeg
  <2>4. view \in SUBSET Stream /\ view # {} /\ IsFiniteSet(view)
    BY ProbeAssumption
  <2>5. Menu(view) # {} /\ Menu(view) \subseteq Nat
    BY <2>4, MenuDelivers, RowFacts DEF Menu
  <2>6. ProbeTypeOK'
    BY <2>1, <2>2, <2>3, <2>5 DEF ProbeInv, ProbeTypeOK, LegsOK, LegRec
  <2>7. QED BY <2>1, <2>2, <2>3, <2>5, <2>6 DEF ProbeInv, LegsOK
<1>5. ASSUME NEW l \in 1..3, Failed(l) PROVE ProbeInv'
  <2>1. stage = "race" /\ leg' = [leg EXCEPT ![l] = Unused] /\ UNCHANGED <<deployed, stage, solo, menu, outcome, views>>
    BY <1>5 DEF Failed
  <2>2. LegsOK(leg', deployed.jar)
    BY <1>0, <2>1, GoneLeg
  <2>3. QED BY <1>0, <2>1, <2>2, WalkOn
<1>6. CASE Won \/ ProbeTimeout
  <2>1. /\ leg' = [l \in 1..3 |-> Unused] /\ stage' = "done" /\ UNCHANGED <<deployed, solo, menu, views>>
        /\ outcome' = "timeout" \/ (outcome' = "menu" /\ views # {})
    BY <1>6 DEF Won, ProbeTimeout
  <2>2. QED BY <1>0, <2>1, NoLegs, WalkOn
<1>7. CASE RaceLost
  <2>1. /\ leg' = [leg EXCEPT ![3] = Walks(Range(deployed.list), deployed.jar)]
        /\ stage' = "full" /\ UNCHANGED <<deployed, solo, menu, outcome, views>>
    BY <1>7 DEF RaceLost
  <2>2. LegsOK(leg', deployed.jar)
    BY <1>0, <2>1, 3 \in 1..3, WalkLeg
  <2>3. QED BY <1>0, <2>1, <2>2, WalkOn
<1>8. CASE WalkAnswers
  <2>1. PICK view \in Views : views' = views \cup {view} /\ menu' = Menu(view)
    BY <1>8 DEF WalkAnswers
  <2>2. leg' = [leg EXCEPT ![3] = Unused] /\ stage' = "done" /\ outcome' = "menu" /\ UNCHANGED <<deployed, solo>>
    BY <1>8 DEF WalkAnswers
  <2>3. LegsOK(leg', deployed.jar)
    BY <1>0, <2>2, 3 \in 1..3, GoneLeg
  <2>4. view \in SUBSET Stream /\ view # {} /\ IsFiniteSet(view)
    BY ProbeAssumption
  <2>5. Menu(view) # {} /\ Menu(view) \subseteq Nat
    BY <2>4, MenuDelivers, RowFacts DEF Menu
  <2>6. ProbeTypeOK'
    BY <2>1, <2>2, <2>3, <2>5 DEF ProbeInv, ProbeTypeOK, LegsOK, LegRec
  <2>7. QED BY <2>1, <2>2, <2>3, <2>5, <2>6 DEF ProbeInv, LegsOK
<1>9. ASSUME NEW rest \in SUBSET DOMAIN deployed.list, NextSolo(rest), UNCHANGED <<deployed, menu, views>>
      PROVE  ProbeInv'
  <2>1. CASE rest = {}
    <3>1. stage' = "done" /\ outcome' = "full" /\ leg' = [leg EXCEPT ![3] = Unused] /\ solo' = {}
      BY <1>9, <2>1 DEF NextSolo
    <3>2. LegsOK(leg', deployed.jar)
      BY <1>0, <3>1, 3 \in 1..3, GoneLeg
    <3>3. QED BY <1>9, <3>1, <3>2, WalkOn
  <2>2. CASE rest # {}
    <3> DEFINE names == {deployed.list[Min(rest)]}
    <3>1. stage' = "solo" /\ solo' \subseteq rest /\ outcome' = outcome
          /\ leg' = [leg EXCEPT ![3] = Walks(names, deployed.jar)]
      BY <1>9, <2>2 DEF NextSolo
    <3>2. names \in SUBSET Client
      <4>1. deployed.list \in Seq(Client)
        BY <1>0, ProbeAssumption
      <4>2. rest \in SUBSET Nat /\ rest \subseteq DOMAIN deployed.list
        BY <4>1
      <4>3. Min(rest) \in DOMAIN deployed.list
        BY <2>2, <4>2, LeastNumber
      <4>4. QED BY <4>1, <4>3
    <3> HIDE DEF names
    <3>3. LegsOK(leg', deployed.jar)
      BY <1>0, <3>1, <3>2, 3 \in 1..3, WalkLeg
    <3>4. QED BY <1>9, <3>1, <3>3, WalkOn
  <2>3. QED BY <2>1, <2>2
<1>10. CASE FullFails
  <2>1. SoloList \in SUBSET DOMAIN deployed.list
    BY DEF SoloList
  <2>2. QED BY <1>9, <1>10, <2>1 DEF FullFails
<1>11. CASE SoloFails
  BY <1>0, <1>9, <1>11 DEF SoloFails
<1>12. QED
  BY <1>1, <1>2, <1>3, <1>4, <1>5, <1>6, <1>7, <1>8, <1>10, <1>11 DEF ProbeNext

\* However the clients are configured and whatever the answers list, in any
\* race, walk and solo attempt: no request names a client beside a login it
\* poisons, no walk sends one request twice, and the menu offers something and
\* only what a tap delivers (effective_youtube_clients, _failover_steps,
\* video_options, merge_format_infos).
THEOREM ProbeIsSound == ProbeSpec => []ProbeSound
<1>1. ProbeInv => ProbeSound
  <2> SUFFICES ASSUME ProbeInv PROVE ProbeSound
    OBVIOUS
  <2>1. ASSUME NEW l \in 1..3, NEW i \in leg[l].ways
        PROVE  /\ RequestOf(leg[l].names, deployed.jar, i).jar = "signed" /\ leg[l].names # {} =>
                    RequestOf(leg[l].names, deployed.jar, i).clients \cap (Blind \cup Incompatible) = {}
               /\ \A j \in leg[l].ways \ {i} :
                    RequestOf(leg[l].names, deployed.jar, i) # RequestOf(leg[l].names, deployed.jar, j)
    <3>1. leg[l].names \in SUBSET Client /\ deployed.jar \in Jars
          /\ leg[l].ways \subseteq FailoverSteps(leg[l].names, deployed.jar)
      BY DEF ProbeInv, ProbeTypeOK
    <3>2. QED BY <2>1, <3>1, WalkFacts
  <2>2. ASSUME outcome = "menu"
        PROVE  /\ menu # {}
               /\ \A h \in menu : \E F \in views : \E s \in F :
                    s.h = h /\ Label(Picked(F, h)) = Label(s)
    <3>1. menu # {}
      BY <2>2 DEF ProbeInv
    <3>2. ASSUME NEW h \in menu
          PROVE  \E F \in views : \E s \in F : s.h = h /\ Label(Picked(F, h)) = Label(s)
      <4>1. PICK F \in views : h \in Menu(F)
        BY <3>2 DEF ProbeInv
      <4>2. F \in SUBSET Stream /\ F # {} /\ IsFiniteSet(F)
        BY ProbeAssumption DEF ProbeInv, ProbeTypeOK
      <4>3. QED BY <4>1, <4>2, MenuDelivers
    <3>3. QED BY <3>1, <3>2
  <2>3. QED BY <2>1, <2>2 DEF ProbeSound
<1>2. QED
  BY <1>1, ProbeStart, ProbeStep, PTL DEF ProbeSpec

LEMMA ProbeTyped == ProbeSpec => []ProbeTypeOK
<1>1. ProbeInv => ProbeTypeOK
  BY DEF ProbeInv
<1>2. QED BY <1>1, ProbeStart, ProbeStep, PTL DEF ProbeSpec

-----------------------------------------------------------------------------
(***************************************************************************)
(* DeliveredWhole for any uploads, posts, group sizes and flood budgets.   *)
(* An upload stands at an item: those before it are in the chat and,       *)
(* unless the post is more than one group, those from it on are not.       *)
(***************************************************************************)

\* One wait more stays within what a call may spend.
LEMMA OneWaitMore ==
  ASSUME NEW retries \in Nat, NEW total \in Nat, NEW most \in Nat, NEW wait \in Nat, NEW jitter \in 0..most,
         NEW tries \in 0..retries, NEW used \in 0..(total + most), tries < retries, used + wait <= total
  PROVE  tries + 1 \in 0..retries /\ used + wait + jitter \in 0..(total + most)
OBVIOUS

USE DeliveryAssumption

UploadRec == [post : AnyPost, at : {"idle", "aim", "probe", "send"},
              as : {"group", "native", "document"},
              leg : {"ref", "uri", "stream"}, mayUri : BOOLEAN,
              next : Items, tries : 0..MaxRetries, spent : 0..(Total + Jitter),
              outerTries : 0..MaxRetries, outerSpent : 0..(Total + Jitter), named : BOOLEAN,
              end : {"none", "delivered", "tooBig", "failed", "ceiling"}]

\* What an upload has put into the chat: the items before the one it stands at;
\* one that is over, everything if it was delivered with every id.
SentSoFar(f, c) ==
  /\ f.post.photos <= GroupMax => \A i \in Items : c[i] <= 1
  /\ f.end = "delivered" => f.at = "idle" /\ (f.named => \A i \in ItemsOf(f.post) : c[i] >= 1)
  /\ f.at # "idle" =>
       /\ f.next \in ItemsOf(f.post)
       /\ f.as = "group" => f.next <= f.post.photos
       /\ \A i \in Items : i < f.next => c[i] >= 1
       /\ f.post.photos <= GroupMax => /\ \A i \in Items : i >= f.next => c[i] = 0
                                       /\ f.as = "group" => f.next = 1

Counted == [Items -> 0..2]

DeliveryInv == DeliveryTypeOK /\ \A u \in Upload : SentSoFar(up[u], copies[u])

LEMMA PostItems ==
  /\ \A p \in AnyPost : /\ p \in Shape /\ 1 \in ItemsOf(p) /\ ItemsOf(p) \subseteq Items
                        /\ ItemsOf(p) \subseteq Nat \ {0}
                        /\ ItemsOf(p) = {i \in Nat \ {0} : i <= p.photos \/ (i = p.photos + 1 /\ p.other # "none")}
  /\ Items \subseteq Nat \ {0}
<1>1. ASSUME NEW p \in AnyPost
      PROVE  /\ p \in Shape /\ 1 \in ItemsOf(p) /\ ItemsOf(p) \subseteq Nat \ {0}
             /\ ItemsOf(p) = {i \in Nat \ {0} : i <= p.photos \/ (i = p.photos + 1 /\ p.other # "none")}
  <2>1. p \in Shape /\ (p.photos > 0 \/ p.other # "none")
    BY DEF AnyPost
  <2>2. p.photos \in Nat
    BY <2>1 DEF Shape
  <2>3. CASE p.other = "none"
    <3>1. ItemsOf(p) = 1..p.photos
      BY <2>2, <2>3 DEF ItemsOf
    <3>2. QED BY <2>1, <2>2, <2>3, <3>1
  <2>4. CASE p.other # "none"
    <3>1. ItemsOf(p) = 1..(p.photos + 1)
      BY <2>2, <2>4 DEF ItemsOf
    <3>2. QED BY <2>1, <2>2, <2>4, <3>1
  <2>5. QED BY <2>3, <2>4
<1>2. \A p \in AnyPost : ItemsOf(p) \subseteq Items
  BY DEF Items
<1>3. Items \subseteq Nat \ {0}
  BY <1>1 DEF Items
<1>4. QED BY <1>1, <1>2, <1>3

LEMMA SomePost ==
  ASSUME NEW u \in Upload
  PROVE  /\ Posts[u] \subseteq AnyPost /\ AnyPost # {}
         /\ Unsent \in UploadRec /\ Unsent.at = "idle" /\ Unsent.end = "none" /\ Unsent.next = 1
<1>1. Posts[u] \subseteq AnyPost /\ Posts[u] # {}
  BY DEF AnyPost
<1>2. PICK p \in AnyPost : TRUE
  BY <1>1
<1>3. (CHOOSE q \in AnyPost : TRUE) \in AnyPost
  BY <1>2
<1>4. 1 \in Items
  BY <1>2, PostItems
<1>5. 0 \in 0..MaxRetries /\ 0 \in 0..(Total + Jitter)
  OBVIOUS
<1>6. QED BY <1>1, <1>2, <1>3, <1>4, <1>5 DEF Unsent, UploadRec

\* One upload moves.
LEMMA SendStep ==
  ASSUME DeliveryInv, NEW u \in Upload, NEW f \in UploadRec, NEW c \in Counted, SentSoFar(f, c),
         up' = [up EXCEPT ![u] = f], copies' = [copies EXCEPT ![u] = c],
         {latched', driven', localUp', probed'} \subseteq BOOLEAN, flips' = flips
  PROVE  DeliveryInv'
<1>1. up \in [Upload -> UploadRec] /\ copies \in [Upload -> Counted] /\ flips \in 0..MaxFlips
  BY DEF DeliveryInv, DeliveryTypeOK, UploadRec, Counted
<1>2. /\ up' \in [Upload -> UploadRec] /\ copies' \in [Upload -> Counted]
      /\ up'[u] = f /\ copies'[u] = c
      /\ \A v \in Upload \ {u} : up'[v] = up[v] /\ copies'[v] = copies[v]
  BY <1>1
<1>3. \A v \in Upload : SentSoFar(up'[v], copies'[v])
  BY <1>2 DEF DeliveryInv
<1>4. DeliveryTypeOK'
  BY <1>1, <1>2 DEF DeliveryTypeOK, UploadRec, Counted
<1>5. QED BY <1>3, <1>4 DEF DeliveryInv

\* What a call carries: one item, or the pictures from the next one on.
LEMMA SendingIs ==
  ASSUME NEW f \in UploadRec, f.next \in ItemsOf(f.post), f.as = "group" => f.next <= f.post.photos
  PROVE  LET last == CHOOSE i \in Sending(f) : \A j \in Sending(f) : j <= i IN
         /\ last \in Nat /\ last >= f.next /\ Sending(f) = f.next..last /\ Sending(f) \subseteq ItemsOf(f.post)
         /\ f.as # "group" => last = f.next
         /\ f.as = "group" => last <= f.post.photos
         /\ f.as = "group" /\ f.next = 1 /\ f.post.photos <= GroupMax => last = f.post.photos
<1>1. f.post \in AnyPost /\ f.post.photos \in Nat /\ f.next \in Nat \ {0}
  BY PostItems DEF UploadRec, Shape
<1>2. CASE f.as # "group"
  <2>1. Sending(f) = {f.next}
    BY <1>2 DEF Sending
  <2>2. (CHOOSE i \in {f.next} : \A j \in {f.next} : j <= i) = f.next
    BY <1>1
  <2>3. QED BY <1>1, <1>2, <2>1, <2>2
<1>3. CASE f.as = "group"
  <2> DEFINE m == IF f.next + GroupMax <= f.post.photos THEN f.next + GroupMax - 1 ELSE f.post.photos
  <2>1. m \in Nat /\ m >= f.next /\ m <= f.post.photos /\ (f.next = 1 /\ f.post.photos <= GroupMax => m = f.post.photos)
    BY <1>1, <1>3
  <2>2. Sending(f) = f.next..m
    BY <1>1, <1>3, <2>1 DEF Sending
  <2>3. (CHOOSE i \in f.next..m : \A j \in f.next..m : j <= i) = m
    <3>1. m \in f.next..m /\ \A j \in f.next..m : j <= m
      BY <1>1, <2>1
    <3> DEFINE k == CHOOSE i \in f.next..m : \A j \in f.next..m : j <= i
    <3>2. k \in f.next..m /\ \A j \in f.next..m : j <= k
      BY <3>1
    <3>3. QED BY <1>1, <2>1, <3>1, <3>2
  <2>4. f.next..m \subseteq ItemsOf(f.post)
    BY <1>1, <2>1, PostItems
  <2>5. (CHOOSE i \in Sending(f) : \A j \in Sending(f) : j <= i) = m
    BY <2>2, <2>3
  <2> HIDE DEF m
  <2>6. QED BY <1>3, <2>1, <2>2, <2>4, <2>5
<1>4. QED BY <1>2, <1>3

LEMMA InitDelivery == DeliveryInit => DeliveryInv
<1> SUFFICES ASSUME DeliveryInit PROVE DeliveryInv
  OBVIOUS
<1>1. \A u \in Upload : Unsent \in UploadRec /\ Unsent.at = "idle" /\ Unsent.end = "none"
  BY SomePost
<1>2. up = [u \in Upload |-> Unsent] /\ copies = [u \in Upload |-> [i \in Items |-> 0]] /\ flips = 0
  BY DEF DeliveryInit
<1>3. up \in [Upload -> UploadRec] /\ copies \in [Upload -> Counted] /\ flips \in 0..MaxFlips
  BY <1>1, <1>2 DEF Counted
<1>4. DeliveryTypeOK
  BY <1>3 DEF DeliveryInit, DeliveryTypeOK, UploadRec, Counted
<1>5. ASSUME NEW u \in Upload PROVE SentSoFar(up[u], copies[u])
  <2>1. up[u] = Unsent /\ copies[u] = [i \in Items |-> 0]
    BY <1>2
  <2>2. \A i \in Items : copies[u][i] = 0
    BY <2>1
  <2>3. QED BY <1>1, <2>1, <2>2 DEF SentSoFar
<1>6. QED BY <1>4, <1>5 DEF DeliveryInv

LEMMA Landed ==
  ASSUME DeliveryInv, NEW u \in Upload, NEW S, S \subseteq Items, Lands(u, S)
  PROVE  \E c \in Counted : /\ copies' = [copies EXCEPT ![u] = c]
                            /\ \A i \in Items \ S : c[i] = copies[u][i]
                            /\ \A i \in S : c[i] >= 1 /\ (copies[u][i] = 0 => c[i] = 1)
<1>1. copies \in [Upload -> Counted]
  BY DEF DeliveryInv, DeliveryTypeOK, Counted
<1> DEFINE c == [i \in Items |-> IF i \in S /\ copies[u][i] < 2 THEN copies[u][i] + 1 ELSE copies[u][i]]
<1>2. copies[u] \in [Items -> 0..2]
  BY <1>1 DEF Counted
<1>3. c \in Counted
  BY <1>2 DEF Counted
<1>4. copies' = [copies EXCEPT ![u] = c]
  BY <1>1 DEF Lands
<1>5. \A i \in Items \ S : c[i] = copies[u][i]
  OBVIOUS
<1>6. \A i \in S : c[i] >= 1 /\ (copies[u][i] = 0 => c[i] = 1)
  BY <1>2
<1>7. QED BY <1>3, <1>4, <1>5, <1>6

\* What comes after a call that was answered.
LEMMA AfterOk ==
  ASSUME NEW f \in UploadRec, NEW c \in Counted, NEW d \in Counted, f.at = "send", SentSoFar(f, c),
         \A i \in Items \ Sending(f) : d[i] = c[i],
         \A i \in Sending(f) : d[i] >= 1 /\ (c[i] = 0 => d[i] = 1)
  PROVE  After(f) \in UploadRec /\ SentSoFar(After(f), d)
<1> DEFINE last == CHOOSE i \in Sending(f) : \A j \in Sending(f) : j <= i
<1>1. /\ last \in Nat /\ last >= f.next /\ Sending(f) = f.next..last /\ Sending(f) \subseteq ItemsOf(f.post)
      /\ f.as # "group" => last = f.next
      /\ f.as = "group" => last <= f.post.photos
      /\ f.as = "group" /\ f.next = 1 /\ f.post.photos <= GroupMax => last = f.post.photos
  BY SendingIs DEF SentSoFar
<1> HIDE DEF last
<1>2. /\ f.post \in AnyPost /\ f.post.photos \in Nat /\ f.next \in Items /\ f.next \in Nat \ {0}
      /\ Items \subseteq Nat \ {0} /\ ItemsOf(f.post) \subseteq Items
      /\ ItemsOf(f.post) = {i \in Nat \ {0} : i <= f.post.photos \/ (i = f.post.photos + 1 /\ f.post.other # "none")}
  BY PostItems DEF UploadRec, Shape
<1>3. \A i \in Items : c[i] \in 0..2 /\ d[i] \in 0..2
  BY DEF Counted
<1>s. \A i \in Items : i \in Nat /\ (i \in Sending(f) <=> f.next <= i /\ i <= last)
  BY <1>1, <1>2
<1>4. \A i \in Items : i <= last => d[i] >= 1
  <2>1. \A i \in Items : i < f.next => c[i] >= 1
    BY DEF SentSoFar
  <2>2. \A i \in Items : i < f.next \/ i \in Sending(f) \/ i > last
    BY <1>1, <1>2, <1>s
  <2>3. \A i \in Items : i > last => ~(i <= last)
    BY <1>1, <1>s
  <2>4. \A i \in Items : i \notin Sending(f) => d[i] = c[i]
    OBVIOUS
  <2>5. QED BY <2>1, <2>2, <2>3, <2>4
<1>5. f.post.photos <= GroupMax => \A i \in Items : d[i] <= 1 /\ (i > last => d[i] = 0)
  <2> SUFFICES ASSUME f.post.photos <= GroupMax, NEW i \in Items PROVE d[i] <= 1 /\ (i > last => d[i] = 0)
    OBVIOUS
  <2>1. c[i] <= 1 /\ (i >= f.next => c[i] = 0)
    BY DEF SentSoFar
  <2>2. CASE i \in Sending(f)
    BY <1>1, <1>2, <1>s, <2>1, <2>2
  <2>3. CASE i \notin Sending(f)
    BY <1>1, <1>2, <1>s, <2>1, <2>3
  <2>4. QED BY <2>2, <2>3
<1>6. f.end # "delivered"
  BY DEF SentSoFar
<1>7. 0 \in 0..MaxRetries /\ 0 \in 0..(Total + Jitter)
  OBVIOUS
\* The next item, and whatever else the frame takes along.
<1>n. ASSUME NEW g \in UploadRec, g.post = f.post, g.next = last + 1, g.end = f.end,
             last + 1 \in ItemsOf(f.post),
             g.as = "group" => last < f.post.photos /\ f.as = "group"
      PROVE  SentSoFar(g, d)
  <2>1. last + 1 \in Items
    BY <1>2, <1>n
  <2>2. \A i \in Items : (i < last + 1 => i <= last) /\ (i >= last + 1 => i > last)
    BY <1>1, <1>s
  <2>3. g.as = "group" => g.next <= g.post.photos
    BY <1>1, <1>2, <1>n
  <2>4. ~(g.as = "group" /\ f.post.photos <= GroupMax)
    <3>1. f.as = "group" /\ f.post.photos <= GroupMax => f.next = 1
      BY DEF SentSoFar
    <3>2. g.as = "group" => f.as = "group" /\ last # f.post.photos
      BY <1>1, <1>2, <1>n
    <3>3. QED BY <1>1, <3>1, <3>2
  <2>5. QED BY <1>n, <1>4, <1>5, <1>6, <2>2, <2>3, <2>4 DEF SentSoFar
<1>8. CASE f.as = "group" /\ last < f.post.photos
  <2> DEFINE g == FreshCall([f EXCEPT !.next = last + 1])
  <2>1. After(f) = g
    BY <1>8 DEF After, LastSent, last
  <2>2. last + 1 \in ItemsOf(f.post)
    BY <1>1, <1>2, <1>8
  <2>3. g \in UploadRec /\ g.post = f.post /\ g.next = last + 1 /\ g.end = f.end /\ g.as = "group"
    BY <1>2, <1>7, <1>8, <2>2 DEF UploadRec, FreshCall
  <2> HIDE DEF g
  <2>4. QED BY <1>n, <1>8, <2>1, <2>2, <2>3
<1>9. CASE f.named /\ f.as # "group" /\ last < f.post.photos
  <2> DEFINE g == [f EXCEPT !.next = last + 1, !.at = "aim"]
  <2>1. After(f) = g
    BY <1>9 DEF After, LastSent, last
  <2>2. last + 1 \in ItemsOf(f.post)
    BY <1>1, <1>2, <1>9
  <2>3. g \in UploadRec /\ g.post = f.post /\ g.next = last + 1 /\ g.end = f.end /\ g.as # "group"
    BY <1>2, <1>9, <2>2 DEF UploadRec
  <2> HIDE DEF g
  <2>4. QED BY <1>n, <2>1, <2>2, <2>3
<1>10. CASE f.named /\ ~(last < f.post.photos) /\ last = f.post.photos /\ f.post.other # "none"
  <2> DEFINE g == [f EXCEPT !.next = last + 1, !.at = "aim", !.as = "native"]
  <2>1. After(f) = g
    BY <1>10 DEF After, LastSent, last
  <2>2. last + 1 \in ItemsOf(f.post)
    BY <1>1, <1>2, <1>10
  <2>3. g \in UploadRec /\ g.post = f.post /\ g.next = last + 1 /\ g.end = f.end /\ g.as # "group"
    BY <1>2, <2>2 DEF UploadRec
  <2> HIDE DEF g
  <2>4. QED BY <1>n, <2>1, <2>2, <2>3
\* It is over: everything is sent, or an id was missing.
<1>11. CASE \/ f.named /\ ~(last < f.post.photos) /\ ~(last = f.post.photos /\ f.post.other # "none")
            \/ ~f.named /\ ~(f.as = "group" /\ last < f.post.photos)
  <2> DEFINE g == Over(f, "delivered")
  <2>1. After(f) = g
    BY <1>11 DEF After, LastSent, last
  <2>2. f.named => \A i \in ItemsOf(f.post) : i <= last
    BY <1>1, <1>2, <1>11
  <2>3. g \in UploadRec /\ g.post = f.post /\ g.at = "idle" /\ g.named = f.named
    <3>1. PICK u \in Upload : f.post \in Posts[u]
      BY <1>2 DEF AnyPost
    <3>2. Unsent \in UploadRec /\ Unsent.at = "idle"
      BY <3>1, SomePost
    <3>3. f.named \in BOOLEAN
      BY DEF UploadRec
    <3>4. QED BY <1>2, <3>2, <3>3 DEF Over, UploadRec
  <2> HIDE DEF g
  <2>4. SentSoFar(g, d)
    BY <1>2, <1>4, <1>5, <2>2, <2>3 DEF SentSoFar
  <2>5. QED BY <2>1, <2>3, <2>4
<1>12. QED BY <1>1, <1>2, <1>8, <1>9, <1>10, <1>11
LEMMA DeliveryStep == DeliveryInv /\ [DeliveryNext]_deliveryVars => DeliveryInv'
<1> SUFFICES ASSUME DeliveryInv, [DeliveryNext]_deliveryVars PROVE DeliveryInv'
  OBVIOUS
<1>t. /\ up \in [Upload -> UploadRec] /\ copies \in [Upload -> Counted] /\ flips \in 0..MaxFlips
      /\ {latched, driven, localUp, probed} \subseteq BOOLEAN
  BY DEF DeliveryInv, DeliveryTypeOK, UploadRec, Counted
<1>u. \A u \in Upload : /\ up[u] \in UploadRec /\ copies[u] \in Counted /\ SentSoFar(up[u], copies[u])
                        /\ up[u].post \in AnyPost /\ up[u].post.photos \in Nat
                        /\ 1 \in ItemsOf(up[u].post) /\ 1 \in Items
  <2>1. \A u \in Upload : up[u] \in UploadRec /\ copies[u] \in Counted /\ SentSoFar(up[u], copies[u])
    BY <1>t DEF DeliveryInv
  <2>2. QED BY <2>1, PostItems DEF UploadRec, Shape
<1>0. 0 \in 0..MaxRetries /\ 0 \in 0..(Total + Jitter)
  OBVIOUS
\* An upload moves, and no message is sent.
<1>m. ASSUME NEW u \in Upload, NEW f \in UploadRec, Becomes(u, f), copies' = copies, SentSoFar(f, copies[u]),
             {latched', driven', localUp', probed'} \subseteq BOOLEAN, flips' = flips
      PROVE  DeliveryInv'
  <2>1. copies' = [copies EXCEPT ![u] = copies[u]]
    BY <1>m, <1>t
  <2>2. QED BY <1>m, <1>u, <2>1, SendStep DEF Becomes
\* The frame is aimed, patient or changed, at the same item.
<1>k. ASSUME NEW u \in Upload, NEW f \in UploadRec, up[u].at # "idle", f.at # "idle",
             f.post = up[u].post, f.next = up[u].next, f.as = up[u].as, f.end = up[u].end
      PROVE  SentSoFar(f, copies[u])
  BY <1>k, <1>u DEF SentSoFar
\* The upload is over, undelivered.
<1>o. ASSUME NEW u \in Upload, NEW c \in Counted, NEW end \in {"tooBig", "failed", "ceiling"},
             up[u].post.photos <= GroupMax => \A i \in Items : c[i] <= 1
      PROVE  Over(up[u], end) \in UploadRec /\ SentSoFar(Over(up[u], end), c)
  <2>1. /\ Over(up[u], end) \in UploadRec /\ Over(up[u], end).at = "idle" /\ Over(up[u], end).end = end
        /\ Over(up[u], end).post = up[u].post
    BY <1>u, SomePost DEF Over, UploadRec
  <2>2. QED BY <1>o, <2>1 DEF SentSoFar
\* Nothing of the album arrived yet, or it is too long for one group: it starts anew.
<1>s. ASSUME NEW u \in Upload, NEW f \in UploadRec, up[u].at # "idle", up[u].as = "group", f.at # "idle",
             f.post = up[u].post, f.next = 1, f.end = up[u].end, f.as \in {"group", "document"}
      PROVE  SentSoFar(f, copies[u])
  <2>0. up[u].next \in Items /\ Items \subseteq Nat \ {0}
    BY <1>u, PostItems DEF UploadRec
  <2>i. \A i \in Items : i \in Nat /\ i >= 1
    BY <2>0
  <2>1. SentSoFar(up[u], copies[u]) /\ up[u].next \in Nat /\ up[u].next >= 1 /\ up[u].post.photos \in Nat
    BY <1>u, <2>0, <2>i
  <2>2. up[u].next <= up[u].post.photos /\ (up[u].post.photos <= GroupMax => up[u].next = 1)
    BY <1>s, <2>1 DEF SentSoFar
  <2>3. QED BY <1>s, <1>u, <2>1, <2>2, <2>i DEF SentSoFar
<1>a. ASSUME NEW u \in Upload, NEW b \in BOOLEAN, up[u].at # "idle"
      PROVE  /\ Aimed(up[u], b) \in UploadRec /\ SentSoFar(Aimed(up[u], b), copies[u])
  <2> DEFINE may == Ref(b) = "uri"
             how == IF up[u].as = "group" THEN "ref" ELSE Ref(b)
             g == [up[u] EXCEPT !.at = "send", !.mayUri = may, !.leg = how]
  <2>0. may \in BOOLEAN /\ how \in {"ref", "uri", "stream"} /\ Aimed(up[u], b) = FreshCall(g)
    BY DEF Aimed, Ref
  <2> HIDE DEF may, how
  <2>4. up[u] \in UploadRec
    BY <1>u
  <2>5. g \in UploadRec
    BY <2>0, <2>4 DEF UploadRec
  <2>3. g \in UploadRec /\ g.at = "send" /\ g.post = up[u].post /\ g.next = up[u].next /\ g.as = up[u].as
        /\ g.end = up[u].end
    BY <2>4, <2>5 DEF UploadRec
  <2> HIDE DEF g
  <2>1. /\ Aimed(up[u], b) \in UploadRec /\ Aimed(up[u], b).at = "send" /\ Aimed(up[u], b).post = up[u].post
        /\ Aimed(up[u], b).next = up[u].next /\ Aimed(up[u], b).as = up[u].as
        /\ Aimed(up[u], b).end = up[u].end
    BY <1>0, <2>0, <2>3 DEF FreshCall, UploadRec
  <2>2. QED BY <1>a, <1>k, <2>1
\* The album of a frame from its first picture on.
<1>n. ASSUME NEW u \in Upload, NEW g \in UploadRec
      PROVE  /\ AlbumAnew(g) \in UploadRec /\ AlbumAnew(g).at = g.at /\ AlbumAnew(g).post = g.post
             /\ AlbumAnew(g).next = 1 /\ AlbumAnew(g).as = g.as /\ AlbumAnew(g).end = g.end
  <2> DEFINE h == [g EXCEPT !.next = 1, !.named = TRUE]
  <2>1. /\ h \in UploadRec /\ h.at = g.at /\ h.post = g.post /\ h.next = 1 /\ h.as = g.as /\ h.end = g.end
    BY <1>u DEF UploadRec
  <2>2. AlbumAnew(g) = FreshCall(h)
    BY DEF AlbumAnew
  <2> HIDE DEF h
  <2>3. QED BY <1>0, <2>1, <2>2 DEF UploadRec, FreshCall
<1>1. ASSUME NEW u \in Upload, StartUpload(u) PROVE DeliveryInv'
  <2>1. PICK p \in Posts[u] :
          Becomes(u, IF TooBig(p) THEN [Unsent EXCEPT !.post = p, !.end = "tooBig"]
                     ELSE [Unsent EXCEPT !.post = p, !.at = "aim",
                                         !.as = IF p.photos > 1 THEN "group" ELSE "native"])
    BY <1>1 DEF StartUpload
  <2> DEFINE f == IF TooBig(p) THEN [Unsent EXCEPT !.post = p, !.end = "tooBig"]
                  ELSE [Unsent EXCEPT !.post = p, !.at = "aim",
                                      !.as = IF p.photos > 1 THEN "group" ELSE "native"]
             c == [i \in Items |-> 0]
  <2>2. p \in AnyPost /\ 1 \in ItemsOf(p) /\ Items \subseteq Nat \ {0} /\ p.photos \in Nat
    BY SomePost, PostItems DEF Shape
  <2>3. f \in UploadRec /\ f.post = p /\ f.next = 1 /\ f.at \in {"idle", "aim"} /\ f.end \in {"none", "tooBig"}
        /\ (f.at = "aim" /\ f.as = "group" => p.photos > 1)
    BY <2>2, SomePost DEF UploadRec
  <2>4. c \in Counted /\ \A i \in Items : c[i] = 0 /\ ~(i < 1)
    BY <2>2 DEF Counted
  <2>5. copies' = [copies EXCEPT ![u] = c] /\ up' = [up EXCEPT ![u] = f] /\ flips' = flips
        /\ UNCHANGED <<latched, driven, localUp, probed>>
    BY <1>1, <2>1 DEF StartUpload, Becomes
  <2> HIDE DEF f, c
  <2>6. SentSoFar(f, c)
    BY <2>2, <2>3, <2>4 DEF SentSoFar
  <2>7. QED BY <1>t, <2>3, <2>4, <2>5, <2>6, SendStep
<1>2. ASSUME NEW u \in Upload, Aim(u) PROVE DeliveryInv'
  <2>1. UNCHANGED <<latched, driven, localUp, copies, flips>> /\ probed' \in BOOLEAN /\ up[u].at = "aim"
    BY <1>2, <1>t DEF Aim
  <2>2. CASE Becomes(u, [up[u] EXCEPT !.at = "probe"])
    <3> DEFINE f == [up[u] EXCEPT !.at = "probe"]
    <3>1. f \in UploadRec /\ f.at = "probe" /\ f.post = up[u].post /\ f.next = up[u].next /\ f.as = up[u].as
          /\ f.end = up[u].end
      BY <1>u DEF UploadRec
    <3>2. Becomes(u, f)
      BY <2>2
    <3> HIDE DEF f
    <3>3. QED BY <1>t, <1>m, <1>k, <2>1, <3>1, <3>2
  <2>3. CASE Becomes(u, Aimed(up[u], latched))
    BY <1>t, <1>m, <1>a, <2>1, <2>3
  <2>4. QED BY <1>2, <2>2, <2>3 DEF Aim
<1>3. ASSUME NEW u \in Upload, ProbeServer(u) PROVE DeliveryInv'
  <2>1. UNCHANGED <<driven, localUp, probed, copies, flips>> /\ latched' \in BOOLEAN /\ up[u].at = "probe"
        /\ Becomes(u, Aimed(up[u], latched'))
    BY <1>3, <1>t DEF ProbeServer
  <2>2. PICK b \in BOOLEAN : b = latched'
    BY <2>1
  <2>3. Becomes(u, Aimed(up[u], b)) /\ Aimed(up[u], b) \in UploadRec /\ SentSoFar(Aimed(up[u], b), copies[u])
    BY <1>a, <2>1, <2>2
  <2>4. QED BY <1>t, <1>m, <2>1, <2>3
<1>4. ASSUME NEW u \in Upload, SendOk(u) \/ SendError(u) PROVE DeliveryInv'
  <2>1. /\ up[u].at = "send" /\ up[u].end # "delivered" /\ SentSoFar(up[u], copies[u])
        /\ UNCHANGED <<latched, driven, localUp, probed, flips>>
    BY <1>4, <1>u DEF SendOk, SendError, Sends, SentSoFar
  <2>2. Sending(up[u]) \subseteq Items
    BY <1>u, <2>1, SendingIs, PostItems DEF SentSoFar
  <2>6. {latched', driven', localUp', probed'} \subseteq BOOLEAN /\ flips' = flips
    BY <1>t, <2>1
  <2>3. ASSUME SendOk(u) PROVE DeliveryInv'
    <3> PICK named \in BOOLEAN : Becomes(u, After([up[u] EXCEPT !.named = @ /\ named]))
      BY <2>3 DEF SendOk
    <3> DEFINE f == [up[u] EXCEPT !.named = @ /\ named]
    <3>f. /\ f \in UploadRec /\ f.at = "send" /\ f.post = up[u].post /\ f.next = up[u].next
          /\ f.as = up[u].as /\ f.end = up[u].end
      BY <1>u, <2>1 DEF UploadRec
    <3>b. up' = [up EXCEPT ![u] = After(f)]
      BY DEF Becomes
    <3> HIDE DEF f
    <3>s. Sending(f) = Sending(up[u]) /\ SentSoFar(f, copies[u])
      BY <2>1, <3>f DEF Sending, SentSoFar
    <3>1. PICK c \in Counted : /\ copies' = [copies EXCEPT ![u] = c]
                               /\ \A i \in Items \ Sending(up[u]) : c[i] = copies[u][i]
                               /\ \A i \in Sending(up[u]) : c[i] >= 1 /\ (copies[u][i] = 0 => c[i] = 1)
      BY <2>2, <2>3, Landed DEF SendOk
    <3>2. After(f) \in UploadRec /\ SentSoFar(After(f), c)
      BY <1>u, <3>f, <3>s, <3>1, AfterOk
    <3>3. QED BY <2>6, <3>1, <3>2, <3>b, SendStep
  <2>4. ASSUME SendError(u) PROVE DeliveryInv'
    <3>1. PICK S \in {Sending(up[u]), {}} : Lands(u, S)
      BY <2>4 DEF SendError
    <3>2. PICK c \in Counted : /\ copies' = [copies EXCEPT ![u] = c]
                               /\ \A i \in Items \ S : c[i] = copies[u][i]
                               /\ \A i \in S : c[i] >= 1 /\ (copies[u][i] = 0 => c[i] = 1)
      BY <2>2, <3>1, Landed
    <3>3. \A i \in Sending(up[u]) : i >= up[u].next /\ i \in Items
      <4>1. /\ up[u] \in UploadRec /\ up[u].next \in ItemsOf(up[u].post)
            /\ up[u].as = "group" => up[u].next <= up[u].post.photos
        BY <1>u, <2>1 DEF SentSoFar
      <4>2. up[u].next \in Nat
        BY <4>1, PostItems DEF UploadRec
      <4>3. QED BY <2>2, <4>1, <4>2, SendingIs
    <3>4. up[u].post.photos <= GroupMax => \A i \in Items : c[i] <= 1
      BY <2>1, <3>1, <3>2, <3>3 DEF SentSoFar
    <3>5. Over(up[u], "failed") \in UploadRec /\ SentSoFar(Over(up[u], "failed"), c)
      BY <1>o, <3>4
    <3>6. up' = [up EXCEPT ![u] = Over(up[u], "failed")]
      BY <2>4 DEF SendError, Becomes
    <3>7. QED BY <2>6, <3>2, <3>5, <3>6, SendStep
  <2>5. QED BY <1>4, <2>3, <2>4
<1>5. ASSUME NEW u \in Upload, SendFlood(u) PROVE DeliveryInv'
  <2>1. up[u].at = "send" /\ UNCHANGED <<latched, driven, localUp, probed, copies, flips>>
    BY <1>5 DEF SendFlood, Sends
  <2>2. PICK wait \in Asks, jitter \in 0..Jitter :
          LET f == up[u] IN
          Becomes(u,
            IF Patient(f.tries, f.spent, wait)
              THEN [f EXCEPT !.tries = @ + 1, !.spent = @ + wait + jitter]
            ELSE IF f.as = "group" /\ Patient(f.outerTries, f.outerSpent, wait)
              THEN AlbumAnew([f EXCEPT !.outerTries = @ + 1,
                                       !.outerSpent = @ + wait + jitter])
            ELSE Over(f, "failed"))
    BY <1>5 DEF SendFlood
  <2>3. \A tries \in 0..MaxRetries, used \in 0..(Total + Jitter) : Patient(tries, used, wait) =>
          tries + 1 \in 0..MaxRetries /\ used + wait + jitter \in 0..(Total + Jitter)
    <3> SUFFICES ASSUME NEW tries \in 0..MaxRetries, NEW used \in 0..(Total + Jitter), Patient(tries, used, wait)
                 PROVE  tries + 1 \in 0..MaxRetries /\ used + wait + jitter \in 0..(Total + Jitter)
      OBVIOUS
    <3>1. tries < MaxRetries /\ used + wait <= Total
      BY DEF Patient
    <3>2. {MaxRetries, Total, Jitter, wait} \subseteq Nat
      OBVIOUS
    <3>3. QED BY <3>1, <3>2, OneWaitMore
  <2>4. CASE Patient(up[u].tries, up[u].spent, wait)
    <3> DEFINE f == [up[u] EXCEPT !.tries = @ + 1, !.spent = @ + wait + jitter]
    <3>1. f \in UploadRec /\ f.at = "send" /\ f.post = up[u].post /\ f.next = up[u].next /\ f.as = up[u].as
          /\ f.end = up[u].end
      BY <1>u, <2>1, <2>3, <2>4 DEF UploadRec
    <3>2. Becomes(u, f)
      BY <2>2, <2>4
    <3> HIDE DEF f
    <3>3. QED BY <1>t, <1>m, <1>k, <2>1, <3>1, <3>2
  <2>5. CASE ~Patient(up[u].tries, up[u].spent, wait) /\ up[u].as = "group" /\ Patient(up[u].outerTries, up[u].outerSpent, wait)
    <3> DEFINE f == AlbumAnew([up[u] EXCEPT !.outerTries = @ + 1, !.outerSpent = @ + wait + jitter])
    <3>1. f \in UploadRec /\ f.at = "send" /\ f.post = up[u].post /\ f.next = 1 /\ f.as = up[u].as
          /\ f.end = up[u].end
      <4> DEFINE g == [up[u] EXCEPT !.outerTries = @ + 1, !.outerSpent = @ + wait + jitter]
      <4>1. up[u].outerTries + 1 \in 0..MaxRetries /\ up[u].outerSpent + wait + jitter \in 0..(Total + Jitter)
        BY <1>u, <2>3, <2>5 DEF UploadRec
      <4>2. g \in UploadRec /\ g.at = "send" /\ g.post = up[u].post /\ g.as = up[u].as /\ g.end = up[u].end
        BY <1>u, <2>1, <4>1 DEF UploadRec
      <4>3. f = AlbumAnew(g)
        OBVIOUS
      <4> HIDE DEF f, g
      <4>4. QED BY <1>n, <4>2, <4>3
    <3>2. Becomes(u, f)
      BY <2>2, <2>5
    <3> HIDE DEF f
    <3>3. QED BY <1>t, <1>m, <1>s, <2>1, <2>5, <3>1, <3>2
  <2>6. CASE ~Patient(up[u].tries, up[u].spent, wait) /\ ~(up[u].as = "group" /\ Patient(up[u].outerTries, up[u].outerSpent, wait))
    <3>1. Becomes(u, Over(up[u], "failed"))
      BY <2>2, <2>6
    <3>2. Over(up[u], "failed") \in UploadRec /\ SentSoFar(Over(up[u], "failed"), copies[u])
      BY <1>u, <1>o DEF SentSoFar
    <3>3. QED BY <1>t, <1>m, <2>1, <3>1, <3>2
  <2>7. QED BY <2>4, <2>5, <2>6
<1>6. ASSUME NEW u \in Upload, SendRefused(u) PROVE DeliveryInv'
  <2>1. up[u].at = "send" /\ UNCHANGED <<latched, driven, localUp, probed, copies, flips>>
        /\ Becomes(u, Instead(up[u]))
    BY <1>6 DEF SendRefused, Sends
  <2>2. CASE Instead(up[u]) = Over(up[u], "failed")
    <3>1. Over(up[u], "failed") \in UploadRec /\ SentSoFar(Over(up[u], "failed"), copies[u])
      BY <1>u, <1>o DEF SentSoFar
    <3>2. QED BY <1>t, <1>m, <2>1, <2>2, <3>1
  <2>3. CASE up[u].as = "group"
    <3> DEFINE f == Instead(up[u])
    <3>1. f \in UploadRec /\ f.at # "idle" /\ f.post = up[u].post /\ f.next = 1 /\ f.end = up[u].end
          /\ f.as \in {"group", "document"}
      <4>1. CASE up[u].leg = "ref" /\ up[u].mayUri
        <5> DEFINE g == [up[u] EXCEPT !.leg = "stream", !.outerTries = 0, !.outerSpent = 0]
        <5>1. f = AlbumAnew(g)
          BY <2>3, <4>1 DEF Instead
        <5>2. /\ g \in UploadRec /\ g.at = "send" /\ g.post = up[u].post /\ g.as = "group"
              /\ g.end = up[u].end
          BY <1>u, <1>0, <2>1, <2>3 DEF UploadRec
        <5> HIDE DEF f, g
        <5>3. QED BY <1>n, <5>1, <5>2
      <4>2. CASE ~(up[u].leg = "ref" /\ up[u].mayUri)
        <5>1. f = [up[u] EXCEPT !.as = "document", !.next = 1, !.named = TRUE, !.at = "aim"]
          BY <2>3, <4>2 DEF Instead
        <5>2. QED BY <1>u, <2>1, <5>1 DEF UploadRec
      <4>3. QED BY <4>1, <4>2
    <3> HIDE DEF f
    <3>2. Becomes(u, f)
      BY <2>1 DEF f
    <3>3. QED BY <1>t, <1>m, <1>s, <2>1, <2>3, <3>1, <3>2
  <2>4. CASE up[u].as # "group" /\ up[u].leg = "uri"
    <3> DEFINE f == FreshCall([up[u] EXCEPT !.leg = "stream"])
    <3>1. f \in UploadRec /\ f.at = "send" /\ f.post = up[u].post /\ f.next = up[u].next /\ f.as = up[u].as
          /\ f.end = up[u].end
      BY <1>u, <1>0, <2>1 DEF FreshCall, UploadRec
    <3>2. Becomes(u, f)
      BY <2>1, <2>4 DEF Instead
    <3> HIDE DEF f
    <3>3. QED BY <1>t, <1>m, <1>k, <2>1, <3>1, <3>2
  <2>5. CASE up[u].as # "group" /\ Instead(up[u]) = [up[u] EXCEPT !.as = "document", !.at = "aim"]
    <3> DEFINE f == [up[u] EXCEPT !.as = "document", !.at = "aim"]
    <3>1. f \in UploadRec /\ f.at = "aim" /\ f.post = up[u].post /\ f.next = up[u].next /\ f.as = "document"
          /\ f.end = up[u].end
      BY <1>u DEF UploadRec
    <3>2. Becomes(u, f)
      BY <2>1, <2>5
    <3> HIDE DEF f
    <3>3. SentSoFar(f, copies[u])
      BY <1>u, <2>1, <2>5, <3>1 DEF SentSoFar
    <3>4. QED BY <1>t, <1>m, <2>1, <3>1, <3>2, <3>3
  <2>6. QED BY <2>2, <2>3, <2>4, <2>5 DEF Instead
<1>7. ASSUME NEW u \in Upload, SendCeiling(u) PROVE DeliveryInv'
  <2>1. Over(up[u], "ceiling") \in UploadRec /\ SentSoFar(Over(up[u], "ceiling"), copies[u])
    BY <1>u, <1>o DEF SentSoFar
  <2>2. QED BY <1>7, <1>t, <1>m, <2>1 DEF SendCeiling
<1>8. CASE ServerFlips \/ ProbeAges
  <2>0. localUp' \in BOOLEAN /\ probed' \in BOOLEAN /\ latched' = latched /\ driven' = driven
    BY <1>8, <1>t DEF ServerFlips, ProbeAges
  <2>1. up' = up /\ copies' = copies /\ flips' \in 0..MaxFlips /\ {latched', driven', localUp', probed'} \subseteq BOOLEAN
    BY <1>8, <1>t, <2>0 DEF ServerFlips, ProbeAges
  <2>2. QED BY <2>1 DEF DeliveryInv, DeliveryTypeOK
<1>9. CASE UNCHANGED deliveryVars
  BY <1>9 DEF deliveryVars, DeliveryInv, DeliveryTypeOK
<1>10. QED BY <1>1, <1>2, <1>3, <1>4, <1>5, <1>6, <1>7, <1>8, <1>9 DEF DeliveryNext

-----------------------------------------------------------------------------
\* No message of an attempt is sent twice, and what counts as delivered is in the
\* chat whole unless Telegram kept back an id, for any number of uploads, posts,
\* group sizes and flood budgets (_deliver_ref, flood_aware_call, _send_photos,
\* _upload).
THEOREM DeliveriesWhole == DeliverySpec => []DeliveredWhole
<1>1. DeliveryInv => DeliveredWhole
  BY DEF DeliveryInv, DeliveredWhole, SentSoFar
<1>2. DeliverySpec => []DeliveryInv
  BY InitDelivery, DeliveryStep, PTL DEF DeliverySpec
<1>3. QED BY <1>1, <1>2, PTL

LEMMA DeliveryTyped == DeliverySpec => []DeliveryTypeOK
<1>1. DeliveryInv => DeliveryTypeOK
  BY DEF DeliveryInv
<1>2. QED BY <1>1, InitDelivery, DeliveryStep, PTL DEF DeliverySpec
=============================================================================
