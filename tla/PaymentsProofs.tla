--------------------------- MODULE PaymentsProofs ---------------------------
(***************************************************************************)
(* Theorems about Payments, for any number of updates, admins, rows and    *)
(* photos and under every fault. The invariant adds one thing to the types *)
(* and to GrantsMatch: whoever stands inside decide_transaction holds the  *)
(* row alone, and nobody else can change its status meanwhile.             *)
(***************************************************************************)
EXTENDS Payments, FiniteSetTheorems, TLAPS

\* FOR UPDATE: the row of an open decision is pending and held by one admin.
LockHolds == \A a \in Admin : apc[a] = "commit" =>
               /\ tap[a].card.id \in Txn
               /\ status[tap[a].card.id] = "pending"
               /\ \A b \in Admin : apc[b] = "commit" /\ tap[b].card.id = tap[a].card.id
                                     => a = b

PayInv == PayTypeOK /\ GrantsMatch /\ LockHolds

USE DEF Move, Return, AGoto, Rest, NoTap, Fresh, rows, fsm, frames, desk, ledger, records,
        Card, Frame, ClearFsm, PayInv, PayTypeOK

LEMMA InitInv == Init => PayInv
  BY DEF Init, RowsOK, FsmOK, FramesOK, Await, Knows, DeskOK, HistoryOK, GrantsMatch,
         LockHolds

-----------------------------------------------------------------------------
(* The buyer. A handler moves on to an await that its locals fit, and      *)
(* leaves the verdicts and the admins' desks alone.                        *)

LEMMA FrameStep ==
  ASSUME FramesOK, NEW h \in Handler, NEW p \in Await, NEW m \in Frame, Knows(p, m),
         pc' = [pc EXCEPT ![h] = p], my' = [my EXCEPT ![h] = m]
  PROVE  FramesOK'
<1>1. pc' \in [Handler -> Await] /\ my' \in [Handler -> Frame]
  BY DEF FramesOK
<1>2. ASSUME NEW g \in Handler PROVE Knows(pc'[g], my'[g])
  <2>1. CASE g = h BY <2>1 DEF FramesOK
  <2>2. CASE g # h BY <2>2 DEF FramesOK
  <2>3. QED BY <2>1, <2>2
<1>3. QED BY <1>1, <1>2 DEF FramesOK

\* The locals may stay as they are.
LEMMA PcStep ==
  ASSUME FramesOK, NEW h \in Handler, NEW p \in Await, Knows(p, my[h]),
         pc' = [pc EXCEPT ![h] = p], UNCHANGED my
  PROVE  FramesOK'
<1>1. my' = [my EXCEPT ![h] = my[h]] /\ my[h] \in Frame
  BY DEF FramesOK
<1>2. QED BY <1>1, FrameStep

LEMMA ReturnStep ==
  ASSUME FramesOK, NEW h \in Handler, Return(h)
  PROVE  FramesOK'
<1>1. Fresh \in Frame /\ Knows("idle", Fresh) /\ "idle" \in Await
  BY DEF Knows, Await
<1>2. QED BY <1>1, FrameStep

LEMMA BuyerStep ==
  ASSUME PayInv, RowsOK', FsmOK', FramesOK', HistoryOK', cards' \subseteq Card,
         UNCHANGED <<status, granted, desk>>
  PROVE  PayInv'
BY DEF DeskOK, GrantsMatch, LockHolds

LEMMA FrameOnly ==
  ASSUME PayInv, FramesOK', UNCHANGED <<rows, fsm, minted, cards, desk, ledger, records>>
  PROVE  PayInv'
BY BuyerStep DEF RowsOK, FsmOK, HistoryOK, DeskOK

LEMMA PlanTapKeeps ==
  ASSUME PayInv, NEW h \in Handler, PlanTap(h)
  PROVE  PayInv'
<1> DEFINE m == [my[h] EXCEPT !.txn = txnOf]
               p == IF txnOf = None THEN "insert" ELSE "planCheck"
<1>1. m \in Frame /\ Knows(p, m) /\ p \in Await
  BY DEF PlanTap, FramesOK, FsmOK, Knows, Await
<1>2. my' = [my EXCEPT ![h] = m] /\ pc' = [pc EXCEPT ![h] = p]
  BY DEF PlanTap, FramesOK
<1>3. FramesOK'
  BY <1>1, <1>2, FrameStep
<1>4. QED BY <1>3, FrameOnly DEF PlanTap

LEMMA PlanCheckKeeps ==
  ASSUME PayInv, NEW h \in Handler, PlanCheck(h)
  PROVE  PayInv'
<1>1. Knows("insert", my[h]) /\ "insert" \in Await
  BY DEF PlanCheck, FramesOK, Knows, Await
<1>2. FramesOK'
  BY <1>1, PcStep, ReturnStep DEF PlanCheck
<1>3. QED BY <1>2, FrameOnly DEF PlanCheck

LEMMA InsertKeeps ==
  ASSUME PayInv, NEW h \in Handler, Insert(h)
  PROVE  PayInv'
<1>1. PICK t \in Txn : /\ status[t] = "none"
                       /\ status' = [status EXCEPT ![t] = "pending"]
                       /\ my' = [my EXCEPT ![h].txn = t]
  BY DEF Insert
<1> DEFINE m == [my[h] EXCEPT !.txn = t]
<1>2. m \in Frame /\ Knows("planState", m) /\ "planState" \in Await
  BY PaymentsAssumption DEF Insert, FramesOK, Knows, Await
<1>3. my' = [my EXCEPT ![h] = m] /\ pc' = [pc EXCEPT ![h] = "planState"]
  BY <1>1 DEF Insert, FramesOK
<1>4. FramesOK'
  BY <1>2, <1>3, FrameStep
<1>5. RowsOK' /\ DeskOK' /\ FsmOK' /\ HistoryOK'
  BY <1>1 DEF Insert, RowsOK, DeskOK, FsmOK, HistoryOK
<1>6. GrantsMatch' /\ LockHolds'
  BY <1>1 DEF Insert, GrantsMatch, LockHolds, RowsOK
<1>7. QED BY <1>4, <1>5, <1>6

LEMMA NoRowLeftKeeps ==
  ASSUME PayInv, NEW h \in Handler, NoRowLeft(h)
  PROVE  PayInv'
BY ReturnStep, FrameOnly DEF NoRowLeft

LEMMA PlanStateKeeps ==
  ASSUME PayInv, NEW h \in Handler, PlanState(h)
  PROVE  PayInv'
<1>1. Knows("planData", my[h]) /\ "planData" \in Await
  BY DEF PlanState, FramesOK, Knows, Await
<1>2. FramesOK'
  BY <1>1, PcStep DEF PlanState
<1>3. QED BY <1>2, BuyerStep DEF PlanState, RowsOK, FsmOK, HistoryOK, DeskOK

LEMMA PlanDataKeeps ==
  ASSUME PayInv, NEW h \in Handler, PlanData(h)
  PROVE  PayInv'
<1>1. FramesOK'
  BY ReturnStep DEF PlanData
<1>2. FsmOK'
  BY DEF PlanData, FsmOK, FramesOK, Knows
<1>3. QED BY <1>1, <1>2, BuyerStep DEF PlanData, RowsOK, HistoryOK, DeskOK

LEMMA DebitKeeps ==
  ASSUME PayInv, NEW h \in Handler, Debit(h)
  PROVE  PayInv'
<1>1. Knows("grant", my[h]) /\ "grant" \in Await
  BY DEF Debit, FramesOK, Knows, Await
<1>2. FramesOK'
  BY <1>1, PcStep DEF Debit
<1>3. RowsOK' /\ HistoryOK'
  BY PaymentsAssumption DEF Debit, RowsOK, HistoryOK
<1>4. QED BY <1>2, <1>3, BuyerStep DEF Debit, FsmOK, DeskOK

LEMMA GrantKeeps ==
  ASSUME PayInv, NEW h \in Handler, Grant(h)
  PROVE  PayInv'
<1>1. FramesOK'
  BY ReturnStep DEF Grant
<1>2. HistoryOK'
  BY DEF Grant, HistoryOK
<1>3. QED BY <1>1, <1>2, BuyerStep DEF Grant, RowsOK, FsmOK, DeskOK

LEMMA TopupTapKeeps ==
  ASSUME PayInv, NEW h \in Handler, TopupTap(h)
  PROVE  PayInv'
<1>1. PICK r \in Ref \ minted : /\ minted' = minted \cup {r}
                              /\ my' = [my EXCEPT ![h].ref = r]
  BY DEF TopupTap
<1> DEFINE m == [my[h] EXCEPT !.ref = r]
<1>2. m \in Frame /\ Knows("topData", m) /\ "topData" \in Await
  BY PaymentsAssumption DEF TopupTap, FramesOK, Knows, Await
<1>3. my' = [my EXCEPT ![h] = m] /\ pc' = [pc EXCEPT ![h] = "topData"]
  BY <1>1 DEF TopupTap, FramesOK
<1>4. FramesOK'
  BY <1>2, <1>3, FrameStep
<1>5. FsmOK'
  BY <1>1 DEF TopupTap, FsmOK
<1>6. QED BY <1>4, <1>5, BuyerStep DEF TopupTap, RowsOK, HistoryOK, DeskOK

LEMMA AskAmountKeeps ==
  ASSUME PayInv, NEW h \in Handler, AskAmount(h)
  PROVE  PayInv'
BY BuyerStep DEF AskAmount, RowsOK, FsmOK, FramesOK, HistoryOK, DeskOK

LEMMA TopDataKeeps ==
  ASSUME PayInv, NEW h \in Handler, TopData(h)
  PROVE  PayInv'
<1>1. FramesOK'
  BY ReturnStep DEF TopData
<1>2. FsmOK'
  BY DEF TopData, FsmOK, FramesOK, Knows
<1>3. QED BY <1>1, <1>2, BuyerStep DEF TopData, RowsOK, HistoryOK, DeskOK

LEMMA LeaveKeeps ==
  ASSUME PayInv, NEW h \in Handler, Leave(h)
  PROVE  PayInv'
BY BuyerStep DEF Leave, RowsOK, FsmOK, FramesOK, HistoryOK, DeskOK

LEMMA SendPhotoKeeps ==
  ASSUME PayInv, NEW h \in Handler, SendPhoto(h)
  PROVE  PayInv'
<1>1. PICK f \in Photo : my' = [my EXCEPT ![h].photo = f]
  BY DEF SendPhoto
<1> DEFINE m == [my[h] EXCEPT !.photo = f]
           p == IF wait = "plan" THEN "photoRead" ELSE "topRead"
<1>2. m \in Frame /\ Knows(p, m) /\ p \in Await
  BY PaymentsAssumption DEF SendPhoto, FramesOK, Knows, Await
<1>3. my' = [my EXCEPT ![h] = m] /\ pc' = [pc EXCEPT ![h] = p]
  BY <1>1 DEF SendPhoto, FramesOK
<1>4. FramesOK'
  BY <1>2, <1>3, FrameStep
<1>5. QED BY <1>4, FrameOnly DEF SendPhoto

LEMMA PhotoReadKeeps ==
  ASSUME PayInv, NEW h \in Handler, PhotoRead(h)
  PROVE  PayInv'
<1>1. CASE txnOf = None
  BY <1>1, ReturnStep, FrameOnly DEF PhotoRead
<1>2. CASE txnOf # None
  <2> DEFINE m == [my[h] EXCEPT !.txn = txnOf]
  <2>1. m \in Frame /\ Knows("attach", m) /\ "attach" \in Await
    BY <1>2 DEF PhotoRead, FramesOK, FsmOK, Knows, Await
  <2>2. my' = [my EXCEPT ![h] = m] /\ pc' = [pc EXCEPT ![h] = "attach"]
    BY <1>2 DEF PhotoRead, FramesOK
  <2>3. FramesOK'
    BY <2>1, <2>2, FrameStep
  <2>4. QED BY <2>3, FrameOnly DEF PhotoRead
<1>3. QED BY <1>1, <1>2

LEMMA AttachKeeps ==
  ASSUME PayInv, NEW h \in Handler, Attach(h)
  PROVE  PayInv'
<1>1. CASE Attachable(h)
  <2>1. Knows("photoClear", my[h]) /\ "photoClear" \in Await
    BY DEF Attach, FramesOK, Knows, Await
  <2>2. FramesOK'
    BY <1>1, <2>1, PcStep DEF Attach
  <2>3. RowsOK'
    BY <1>1 DEF Attach, RowsOK, FramesOK
  <2>4. QED BY <2>2, <2>3, BuyerStep DEF Attach, FsmOK, HistoryOK, DeskOK
<1>2. CASE ~Attachable(h)
  BY <1>2, ReturnStep, FrameOnly DEF Attach
<1>3. QED BY <1>1, <1>2

LEMMA PhotoClearKeeps ==
  ASSUME PayInv, NEW h \in Handler, PhotoClear(h)
  PROVE  PayInv'
<1> DEFINE m == [my[h] EXCEPT !.left = Admin]
<1>1. m \in Frame /\ Knows("send", m) /\ "send" \in Await
  BY DEF PhotoClear, FramesOK, FsmOK, Knows, Await
<1>2. my' = [my EXCEPT ![h] = m] /\ pc' = [pc EXCEPT ![h] = "send"]
  BY DEF PhotoClear, FramesOK
<1>3. FramesOK'
  BY <1>1, <1>2, FrameStep
<1>4. FsmOK'
  BY DEF PhotoClear, FsmOK
<1>5. QED BY <1>3, <1>4, BuyerStep DEF PhotoClear, RowsOK, HistoryOK, DeskOK

LEMMA TopClearKeeps ==
  ASSUME PayInv, NEW h \in Handler, TopClear(h)
  PROVE  PayInv'
<1> DEFINE m == [my[h] EXCEPT !.left = Admin]
<1>1. m \in Frame /\ Knows("send", m) /\ "send" \in Await
  BY DEF TopClear, FramesOK, FsmOK, Knows, Await
<1>2. my' = [my EXCEPT ![h] = m] /\ pc' = [pc EXCEPT ![h] = "send"]
  BY DEF TopClear, FramesOK
<1>3. FramesOK'
  BY <1>1, <1>2, FrameStep
<1>4. FsmOK'
  BY DEF TopClear, FsmOK
<1>5. QED BY <1>3, <1>4, BuyerStep DEF TopClear, RowsOK, HistoryOK, DeskOK

LEMMA TopReadKeeps ==
  ASSUME PayInv, NEW h \in Handler, TopRead(h)
  PROVE  PayInv'
<1>1. CASE refOf = None
  BY <1>1, ReturnStep, FrameOnly DEF TopRead
<1>2. CASE refOf # None
  <2> DEFINE m == [my[h] EXCEPT !.ref = refOf]
  <2>1. m \in Frame /\ Knows("topClear", m) /\ "topClear" \in Await
    BY <1>2 DEF TopRead, FramesOK, FsmOK, Knows, Await
  <2>2. my' = [my EXCEPT ![h] = m] /\ pc' = [pc EXCEPT ![h] = "topClear"]
    BY <1>2 DEF TopRead, FramesOK
  <2>3. FramesOK'
    BY <2>1, <2>2, FrameStep
  <2>4. QED BY <2>3, FrameOnly DEF TopRead
<1>3. QED BY <1>1, <1>2

LEMMA ForwardKeeps ==
  ASSUME PayInv, NEW h \in Handler, NEW a \in Admin, Forward(h, a)
  PROVE  PayInv'
<1> DEFINE m == [my[h] EXCEPT !.left = @ \ {a}, !.told = my'[h].told]
<1>1. my' = [my EXCEPT ![h] = m] /\ m.told \in BOOLEAN
  <2>1. my \in [Handler -> Frame] /\ my[h] \in Frame
    BY DEF FramesOK
  <2>2. \/ my' = [my EXCEPT ![h].left = @ \ {a}, ![h].told = TRUE]
        \/ my' = [my EXCEPT ![h].left = @ \ {a}]
    BY DEF Forward
  <2>3. CASE my' = [my EXCEPT ![h].left = @ \ {a}, ![h].told = TRUE]
    BY <2>1, <2>3
  <2>4. CASE my' = [my EXCEPT ![h].left = @ \ {a}]
    BY <2>1, <2>4
  <2>5. QED BY <2>2, <2>3, <2>4
<1>2. m \in Frame /\ Knows("send", m) /\ "send" \in Await
  <2>1. my[h] \in Frame /\ Knows("send", my[h])
    BY DEF Forward, FramesOK
  <2>2. m = [my[h] EXCEPT !.left = my[h].left \ {a}, !.told = my'[h].told]
    OBVIOUS
  <2>3. m \in Frame
    BY <1>1, <2>1, <2>2
  <2>4. QED BY <2>1, <2>2, <2>3 DEF Knows, Await
<1>3. my' = [my EXCEPT ![h] = m] /\ pc' = [pc EXCEPT ![h] = "send"]
  BY <1>1 DEF Forward, FramesOK
<1>4. FramesOK'
  BY <1>2, <1>3, FrameStep
<1>5. my[h].photo \in Photo /\ Subject(h) \in Txn \cup Ref
  BY DEF Forward, Subject, FramesOK, Knows
<1>6. cards' \subseteq Card /\ HistoryOK'
  BY <1>5 DEF Forward, DeskOK, HistoryOK
<1>7. QED BY <1>4, <1>6, BuyerStep DEF Forward, RowsOK, FsmOK

LEMMA ThankKeeps ==
  ASSUME PayInv, NEW h \in Handler, Thank(h)
  PROVE  PayInv'
<1>1. FramesOK'
  BY ReturnStep DEF Thank
<1>2. HistoryOK'
  BY DEF Thank, HistoryOK, FramesOK
<1>3. QED BY <1>1, <1>2, BuyerStep DEF Thank, RowsOK, FsmOK, DeskOK

LEMMA RaisesKeeps ==
  ASSUME PayInv, NEW h \in Handler, Raises(h)
  PROVE  PayInv'
BY ReturnStep, FrameOnly DEF Raises

LEMMA BuyerKeeps ==
  ASSUME PayInv, NEW h \in Handler, Buy(h) \/ TopUp(h) \/ Prove(h) \/ Raises(h)
  PROVE  PayInv'
<1>1. CASE Buy(h)
  BY <1>1, PlanTapKeeps, PlanCheckKeeps, InsertKeeps, NoRowLeftKeeps, PlanStateKeeps,
     PlanDataKeeps, DebitKeeps, GrantKeeps DEF Buy
<1>2. CASE TopUp(h)
  BY <1>2, TopupTapKeeps, AskAmountKeeps, TopDataKeeps, LeaveKeeps DEF TopUp
<1>3. CASE Prove(h)
  BY <1>3, SendPhotoKeeps, PhotoReadKeeps, AttachKeeps, PhotoClearKeeps, TopReadKeeps,
     TopClearKeeps, ForwardKeeps, ThankKeeps DEF Prove
<1>4. QED BY <1>1, <1>2, <1>3, RaisesKeeps

-----------------------------------------------------------------------------
(* The admins.                                                             *)

LEMMA LockRowKeeps ==
  ASSUME PayInv, NEW a \in Admin, NEW c \in cards, LockRow(a, c)
  PROVE  PayInv'
<1>1. PICK yes \in BOOLEAN : tap' = [tap EXCEPT ![a] = [card |-> c, yes |-> yes]]
  BY DEF LockRow, Press
<1>2. apc' = [apc EXCEPT ![a] = "commit"] /\ c \in Card
  BY DEF LockRow, DeskOK
<1>3. UNCHANGED <<rows, fsm, minted, cards, frames, ledger, records>>
  BY DEF LockRow, Press
<1>4. DeskOK'
  <2>1. tap' \in [Admin -> [card : Card, yes : BOOLEAN] \cup {NoTap}]
    BY <1>1, <1>2 DEF DeskOK
  <2>2. apc' \in [Admin -> {"idle", "commit", "edit", "credit"}]
    BY <1>2 DEF DeskOK
  <2>3. QED BY <1>1, <1>2, <1>3, <2>1, <2>2 DEF DeskOK
<1>5. LockHolds'
  BY <1>1, <1>2, <1>3 DEF LockRow, Locked, LockHolds, DeskOK
<1>6. QED BY <1>3, <1>4, <1>5 DEF RowsOK, FsmOK, FramesOK, HistoryOK, GrantsMatch

\* The verdict falls on a row nobody else holds, so it is the only one.
LEMMA CommitKeeps ==
  ASSUME PayInv, NEW a \in Admin, Commit(a)
  PROVE  PayInv'
<1> DEFINE t == tap[a].card.id
           verdict == IF tap[a].yes THEN "approved" ELSE "rejected"
<1>1. t \in Txn /\ status[t] = "pending" /\ granted[t] = 0
  BY DEF Commit, LockHolds, GrantsMatch
<1>2. /\ status' = [status EXCEPT ![t] = verdict]
      /\ granted' = [granted EXCEPT ![t] = IF tap[a].yes THEN 1 ELSE 0]
  <2>1. CASE tap[a].yes
    BY <1>1, <2>1 DEF Commit, HistoryOK
  <2>2. CASE ~tap[a].yes
    BY <1>1, <2>2 DEF Commit, HistoryOK
  <2>3. QED BY <2>1, <2>2
<1>3. apc' = [apc EXCEPT ![a] = "edit"]
      /\ UNCHANGED <<receipt, wallet, fsm, minted, cards, frames, tap, bought, credits,
      records>>
  BY DEF Commit
<1>4. RowsOK' /\ HistoryOK'
  BY <1>1, <1>2, <1>3 DEF RowsOK, HistoryOK
<1>5. GrantsMatch'
  BY <1>1, <1>2 DEF GrantsMatch, RowsOK, HistoryOK
<1>6. DeskOK'
  BY <1>3 DEF Commit, DeskOK
<1>7. LockHolds'
  BY <1>1, <1>2, <1>3 DEF Commit, LockHolds, DeskOK, RowsOK
<1>8. QED BY <1>3, <1>4, <1>5, <1>6, <1>7 DEF FsmOK, FramesOK

\* Everything else on a desk leaves the verdicts alone and locks no row.
LEMMA DeskStep ==
  ASSUME PayInv, DeskOK', wallet' \in Int, credits' \in Nat,
         \A a \in Admin : apc'[a] = "commit" => apc[a] = "commit" /\ tap'[a] = tap[a],
         UNCHANGED <<status, receipt, fsm, minted, frames, granted, bought, records>>
  PROVE  PayInv'
BY DEF RowsOK, FsmOK, FramesOK, HistoryOK, GrantsMatch, LockHolds

LEMMA DeskKeeps ==
  ASSUME PayInv, NEW a \in Admin,
         \/ \E c \in cards : ApproveTopup(a, c) \/ RejectTopup(a, c)
         \/ Rollback(a) \/ Edit(a) \/ Credit(a)
  PROVE  PayInv'
<1>1. ASSUME NEW c \in cards, ApproveTopup(a, c) PROVE PayInv'
  <2>1. DeskOK'
    BY <1>1, PaymentsAssumption DEF ApproveTopup, DeskOK
  <2>2. QED BY <1>1, <2>1, DeskStep DEF ApproveTopup, DeskOK, RowsOK, HistoryOK
<1>2. ASSUME NEW c \in cards, RejectTopup(a, c) PROVE PayInv'
  BY <1>2, DeskStep DEF RejectTopup, DeskOK, RowsOK, HistoryOK
<1>3. CASE Rollback(a) \/ Edit(a)
  <2>1. DeskOK'
    BY <1>3 DEF Rollback, Edit, DeskOK
  <2>2. QED BY <1>3, <2>1, DeskStep DEF Rollback, Edit, DeskOK, RowsOK, HistoryOK
<1>4. CASE Credit(a)
  <2>1. DeskOK'
    BY <1>4 DEF Credit, DeskOK
  <2>2. wallet' \in Int /\ credits' \in Nat
    BY <1>4, PaymentsAssumption DEF Credit, RowsOK, HistoryOK
  <2>3. QED BY <1>4, <2>1, <2>2, DeskStep DEF Credit, DeskOK
<1>5. QED BY <1>1, <1>2, <1>3, <1>4

LEMMA CrashKeeps == PayInv /\ Death => PayInv'
<1> SUFFICES ASSUME PayInv, Death PROVE PayInv'
  OBVIOUS
<1>1. FramesOK' /\ DeskOK'
  BY DEF Death, FramesOK, Await, Knows, DeskOK
<1>2. LockHolds'
  BY DEF Death, LockHolds
<1>3. QED BY <1>1, <1>2 DEF Death, RowsOK, FsmOK, HistoryOK, GrantsMatch

LEMMA StepInv == PayInv /\ [Next]_vars => PayInv'
<1> SUFFICES ASSUME PayInv, [Next]_vars PROVE PayInv'
  OBVIOUS
<1>1. ASSUME NEW a \in Admin, Decide(a) PROVE PayInv'
  BY <1>1, LockRowKeeps, CommitKeeps, DeskKeeps DEF Decide
<1>2. CASE UNCHANGED vars
  BY <1>2 DEF vars, RowsOK, FsmOK, FramesOK, DeskOK, HistoryOK, GrantsMatch, LockHolds
<1>3. QED BY <1>1, <1>2, BuyerKeeps, CrashKeeps DEF Next

-----------------------------------------------------------------------------

\* Every reachable state is well typed (the rows, the FSM record, the handlers).
THEOREM PayTypes == Spec => []PayTypeOK
<1>1. PayInv => PayTypeOK
  OBVIOUS
<1>2. QED BY <1>1, InitInv, StepInv, PTL DEF Spec

\* Premium is granted once for each approved transaction and for no other, for any
\* number of admins, taps and failures (decide_transaction).
THEOREM GrantedOnce == Spec => []GrantsMatch
<1>1. PayInv => GrantsMatch
  OBVIOUS
<1>2. QED BY <1>1, InitInv, StepInv, PTL DEF Spec

\* Who holds the row decides alone (SELECT ... FOR UPDATE).
THEOREM RowHeldAlone == Spec => []LockHolds
<1>1. PayInv => LockHolds
  OBVIOUS
<1>2. QED BY <1>1, InitInv, StepInv, PTL DEF Spec

-----------------------------------------------------------------------------
(* A verdict stays, and so does its receipt.                               *)

Final == \A t \in Txn : status[t] \in Decided
           => status'[t] = status[t] /\ receipt'[t] = receipt[t]

LEMMA BuyerFinal ==
  ASSUME PayInv, NEW h \in Handler, Buy(h) \/ TopUp(h) \/ Prove(h) \/ Raises(h)
  PROVE  Final
<1>1. CASE Insert(h)
  BY <1>1 DEF Insert, Final, Decided, RowsOK
<1>2. CASE Attach(h)
  BY <1>2 DEF Attach, Attachable, Final, Decided, RowsOK
<1>3. CASE ~Insert(h) /\ ~Attach(h)
  BY <1>3 DEF Buy, TopUp, Prove, PlanTap, PlanCheck, NoRowLeft, PlanState, PlanData, Debit,
     Grant, TopupTap, AskAmount, TopData, Leave, SendPhoto, PhotoRead, PhotoClear,
     TopRead, TopClear,
     Forward, Thank, Raises, Final
<1>4. QED BY <1>1, <1>2, <1>3

LEMMA AdminFinal ==
  ASSUME PayInv, NEW a \in Admin, Decide(a)
  PROVE  Final
<1>1. CASE Commit(a)
  BY <1>1 DEF Commit, LockHolds, Final, Decided, RowsOK
<1>2. CASE ~Commit(a)
  BY <1>2 DEF Decide, LockRow, Press, ApproveTopup, RejectTopup, Rollback, Edit, Credit,
     Final
<1>3. QED BY <1>1, <1>2

\* A verdict is final, and so is the receipt it was given on (attach_receipt,
\* decide_transaction).
THEOREM Finality == Spec => DecidedIsFinal
<1>1. PayInv /\ [Next]_vars => [Final]_vars
  BY BuyerFinal, AdminFinal DEF Next, Death, Final
<1>2. QED BY <1>1, InitInv, StepInv, PTL DEF Spec, DecidedIsFinal, Final

-----------------------------------------------------------------------------
(* The wallet's account: what was credited and not debited is there, and   *)
(* every plan granted, or about to be, was debited.                        *)

Paying == {h \in Handler : pc[h] = "grant"}

Account == /\ wallet >= 0
           /\ wallet = credits * Amount - bought.debits * Price
           /\ bought.grants + Cardinality(Paying) <= bought.debits

LEMMA PayingFinite == IsFiniteSet(Paying) /\ Cardinality(Paying) \in Nat
<1>1. IsFiniteSet(Paying)
  BY PaymentsAssumption, FS_Subset DEF Paying
<1>2. QED BY <1>1, FS_CardinalityType

\* Nobody else enters or leaves the stretch between the debit and the grant.
LEMMA BuyerPaying ==
  ASSUME PayInv, NEW h \in Handler, Buy(h) \/ TopUp(h) \/ Prove(h) \/ Raises(h),
         ~Debit(h), ~Grant(h)
  PROVE  Paying' = Paying /\ UNCHANGED <<wallet, bought, credits>>
<1>1. UNCHANGED <<wallet, bought, credits>>
  BY DEF Buy, TopUp, Prove, PlanTap, PlanCheck, Insert, NoRowLeft, PlanState, PlanData,
     TopupTap, AskAmount, TopData, Leave, SendPhoto, PhotoRead, Attach, PhotoClear,
     TopRead, TopClear,
     Forward, Thank, Raises
<1>2. CASE Buy(h)
  BY <1>2 DEF Buy, PlanTap, PlanCheck, Insert, NoRowLeft, PlanState, PlanData, FramesOK,
     Paying
<1>3. CASE TopUp(h)
  BY <1>3 DEF TopUp, TopupTap, AskAmount, TopData, Leave, FramesOK, Paying
<1>4. CASE Prove(h)
  BY <1>4 DEF Prove, SendPhoto, PhotoRead, Attach, PhotoClear, TopRead, TopClear, Forward,
     Thank, FramesOK, Paying
<1>5. CASE Raises(h)
  BY <1>5 DEF Raises, FramesOK, Paying
<1>6. QED BY <1>1, <1>2, <1>3, <1>4, <1>5

LEMMA DebitAccount ==
  ASSUME PayInv, Account, NEW h \in Handler, Debit(h)
  PROVE  Account'
<1>1. Paying' = Paying \cup {h} /\ h \notin Paying
  BY DEF Debit, Paying, FramesOK
<1>2. Cardinality(Paying') = Cardinality(Paying) + 1
  BY <1>1, PayingFinite, FS_AddElement
<1>3. bought'.debits = bought.debits + 1 /\ bought'.grants = bought.grants
  BY DEF Debit, HistoryOK
<1>4. bought'.debits * Price = bought.debits * Price + Price
  BY <1>3, PaymentsAssumption DEF HistoryOK
<1>5. bought.debits * Price \in Int /\ credits * Amount \in Int
  BY PaymentsAssumption DEF HistoryOK
<1>6. wallet' = wallet - Price /\ wallet' >= 0 /\ credits' = credits
  BY PaymentsAssumption DEF Debit, Affords, RowsOK
<1>7. QED BY <1>2, <1>3, <1>4, <1>5, <1>6, PayingFinite, PaymentsAssumption
          DEF Account, RowsOK, HistoryOK

LEMMA GrantAccount ==
  ASSUME PayInv, Account, NEW h \in Handler, Grant(h)
  PROVE  Account'
<1>1. Paying' = Paying \ {h} /\ h \in Paying
  BY DEF Grant, Paying, FramesOK
<1>2. Cardinality(Paying') = Cardinality(Paying) - 1
  BY <1>1, PayingFinite, FS_RemoveElement
<1>3. bought'.debits = bought.debits /\ bought'.grants \in bought.grants .. bought.grants + 1
  BY DEF Grant, HistoryOK
<1>4. UNCHANGED <<wallet, credits>>
  BY DEF Grant
<1>5. QED BY <1>2, <1>3, <1>4, PayingFinite DEF Account, HistoryOK

LEMMA CreditAccount ==
  ASSUME PayInv, Account, NEW a \in Admin, Credit(a)
  PROVE  Account'
<1>1. UNCHANGED <<pc, bought>>
  BY DEF Credit
<1>2. CASE UNCHANGED <<wallet, credits>>
  BY <1>1, <1>2 DEF Account, Paying
<1>3. CASE wallet' = wallet + Amount /\ credits' = credits + 1
  <2>1. credits' * Amount = credits * Amount + Amount
    BY <1>3, PaymentsAssumption DEF HistoryOK
  <2>2. bought.debits * Price \in Int /\ credits * Amount \in Int
    BY PaymentsAssumption DEF HistoryOK
  <2>3. QED BY <1>1, <1>3, <2>1, <2>2, PaymentsAssumption DEF Account, Paying, RowsOK
<1>4. QED BY <1>2, <1>3 DEF Credit

LEMMA CrashAccount ==
  ASSUME PayInv, Account, Death
  PROVE  Account'
<1>1. Paying' = {} /\ UNCHANGED <<wallet, credits, bought>>
  BY DEF Death, Paying
<1>2. QED BY <1>1, FS_EmptySet, PayingFinite DEF Account, HistoryOK

LEMMA StepAccount == PayInv /\ Account /\ [Next]_vars => Account'
<1> SUFFICES ASSUME PayInv, Account, [Next]_vars PROVE Account'
  OBVIOUS
<1>1. ASSUME NEW h \in Handler, Buy(h) \/ TopUp(h) \/ Prove(h) \/ Raises(h)
      PROVE  Account'
  <2>1. CASE ~Debit(h) /\ ~Grant(h)
    BY <1>1, <2>1, BuyerPaying DEF Account
  <2>2. QED BY <2>1, DebitAccount, GrantAccount
<1>2. ASSUME NEW a \in Admin, Decide(a) PROVE Account'
  <2>1. CASE ~Credit(a)
    <3>1. UNCHANGED <<wallet, credits, bought, pc>>
      BY <1>2, <2>1 DEF Decide, LockRow, Press, ApproveTopup, RejectTopup, Commit,
         Rollback, Edit
    <3>2. QED BY <3>1 DEF Account, Paying
  <2>2. QED BY <2>1, CreditAccount
<1>3. CASE UNCHANGED vars
  BY <1>3 DEF vars, Account, Paying
<1>4. QED BY <1>1, <1>2, <1>3, CrashAccount DEF Next

LEMMA InitAccount == Init => Account
<1> SUFFICES ASSUME Init PROVE Account
  OBVIOUS
<1>1. Paying = {}
  BY DEF Init, Paying
<1>2. QED BY <1>1, FS_EmptySet, PaymentsAssumption DEF Init, Account

\* More plans cost more.
LEMMA PriceTimes ==
  ASSUME NEW m \in Nat, NEW n \in Nat, m <= n
  PROVE  m * Price <= n * Price
BY PaymentsAssumption

\* The wallet is never overdrawn, and no more plans are granted from it than its
\* credits pay for (debit_wallet, grant_premium).
THEOREM WalletHolds == Spec => []WalletPays
<1>1. PayInv /\ Account => WalletPays
  <2> SUFFICES ASSUME PayInv, Account PROVE WalletPays
    OBVIOUS
  <2>1. bought.grants * Price <= bought.debits * Price
    BY PriceTimes, PayingFinite DEF Account, HistoryOK
  <2>2. /\ bought.grants * Price \in Int /\ bought.debits * Price \in Int
        /\ credits * Amount \in Int
    BY PaymentsAssumption DEF HistoryOK
  <2>3. QED BY <2>1, <2>2 DEF Account, WalletPays, RowsOK
<1>2. QED BY <1>1, InitInv, StepInv, InitAccount, StepAccount, PTL DEF Spec

-----------------------------------------------------------------------------
(* Thanks. What a handler has told an admin, and what an admin closes, has *)
(* been decided or can be.                                                 *)

HasTold(h, t) == my[h].told /\ my[h].txn = t

Told == /\ \A t \in thanked : Decidable(t)
        /\ \A h \in Handler : \A t \in Txn : HasTold(h, t) => Decidable(t)
        /\ \A a \in Admin : apc[a] = "edit" =>
             tap[a].card.id \in Txn /\ status[tap[a].card.id] \in Decided

\* A transaction stays decidable while only cards of decided ones are taken down.
LEMMA StaysDecidable ==
  ASSUME Final, NEW t \in Txn, Decidable(t),
         \A c \in cards \ cards' : c.id = t => status[t] \in Decided
  PROVE  Decidable(t)'
BY DEF Final, Decidable, Decided

\* A handler says no more than it did, and thanks for what was decidable.
LEMMA BuyerSaysNoMore ==
  ASSUME PayInv, Told, NEW h \in Handler, Buy(h) \/ TopUp(h) \/ Prove(h) \/ Raises(h),
         \A a \in Admin : ~Forward(h, a)
  PROVE  /\ \A g \in Handler : \A t \in Txn : HasTold(g, t)' => HasTold(g, t)
         /\ \A t \in thanked' : Decidable(t)
<1>1. CASE Thank(h)
  BY <1>1 DEF Thank, Told, HasTold, FramesOK
<1>2. CASE ~Thank(h)
  <2>1. thanked' = thanked
    BY <1>2 DEF Buy, TopUp, Prove, PlanTap, PlanCheck, Insert, NoRowLeft, PlanState,
       PlanData, Debit, Grant, TopupTap, AskAmount, TopData, Leave, SendPhoto, PhotoRead,
       Attach,
       PhotoClear, TopRead, TopClear, Raises
  <2>2. CASE Buy(h)
    BY <2>1, <2>2 DEF Buy, PlanTap, PlanCheck, Insert, NoRowLeft, PlanState, PlanData,
       Debit, Grant, FramesOK, Knows, Told, HasTold
  <2>3. CASE TopUp(h)
    BY <2>1, <2>3 DEF TopUp, TopupTap, AskAmount, TopData, Leave, FramesOK, Knows, Told,
       HasTold
  <2>4. CASE Prove(h)
    BY <1>2, <2>1, <2>4 DEF Prove, SendPhoto, PhotoRead, Attach, PhotoClear, TopRead,
       TopClear, FramesOK, Knows, Told, HasTold
  <2>5. CASE Raises(h)
    BY <2>1, <2>5 DEF Raises, FramesOK, Told, HasTold
  <2>6. QED BY <2>2, <2>3, <2>4, <2>5
<1>3. QED BY <1>1, <1>2

LEMMA BuyerTold ==
  ASSUME PayInv, Told, NEW h \in Handler, Buy(h) \/ TopUp(h) \/ Prove(h) \/ Raises(h)
  PROVE  Told'
<1>1. cards \subseteq cards' /\ UNCHANGED desk
  BY DEF Buy, TopUp, Prove, PlanTap, PlanCheck, Insert, NoRowLeft, PlanState, PlanData,
     Debit, Grant, TopupTap, AskAmount, TopData, Leave, SendPhoto, PhotoRead, Attach,
     PhotoClear,
     TopRead, TopClear, Forward, Thank, Raises
<1>2. \A t \in Txn : Decidable(t) => Decidable(t)'
  BY <1>1, BuyerFinal, StaysDecidable
<1>3. \A a \in Admin : apc'[a] = "edit" =>
        tap'[a].card.id \in Txn /\ status'[tap'[a].card.id] \in Decided
  BY <1>1, BuyerFinal DEF Told, Final
<1>4. ASSUME NEW a \in Admin, Forward(h, a) PROVE Told'
  <2>1. thanked' = thanked /\ \A t \in thanked' : Decidable(t)'
    BY <1>2, <1>4 DEF Forward, Told, HistoryOK
  <2>2. ASSUME NEW g \in Handler, NEW t \in Txn, HasTold(g, t)' PROVE Decidable(t)'
    <3>1. CASE HasTold(g, t)
      BY <3>1, <1>2 DEF Told
    <3>2. CASE ~HasTold(g, t)
      <4>1. g = h /\ my[h].txn = t
        BY <1>4, <2>2, <3>2 DEF Forward, HasTold, FramesOK
      <4>2. [admin |-> a, id |-> t, photo |-> my[h].photo] \in cards'
        BY <1>4, <2>2, <3>2, <4>1, PaymentsAssumption
           DEF Forward, HasTold, Subject, FramesOK
      <4>3. QED BY <4>2 DEF Decidable
    <3>3. QED BY <3>1, <3>2
  <2>3. QED BY <1>3, <2>1, <2>2 DEF Told
<1>5. CASE \A a \in Admin : ~Forward(h, a)
  <2>1. thanked' \subseteq Txn
    BY BuyerKeeps DEF HistoryOK
  <2>2. \A t \in thanked' : Decidable(t)'
    BY <1>2, <1>5, <2>1, BuyerSaysNoMore
  <2>3. \A g \in Handler : \A t \in Txn : HasTold(g, t)' => Decidable(t)'
    BY <1>2, <1>5, BuyerSaysNoMore DEF Told
  <2>4. QED BY <1>3, <2>2, <2>3 DEF Told
<1>6. QED BY <1>4, <1>5

LEMMA AdminTold ==
  ASSUME PayInv, Told, NEW a \in Admin, Decide(a)
  PROVE  Told'
<1>1. \A c \in cards \ cards' : c.id \in Txn => status[c.id] \in Decided
  BY PaymentsAssumption DEF Decide, LockRow, Press, ApproveTopup, RejectTopup, Commit,
     Rollback, Edit, Credit, Told
<1>2. UNCHANGED <<thanked, my>>
  BY DEF Decide, LockRow, Press, ApproveTopup, RejectTopup, Commit, Rollback, Edit, Credit
<1>3. \A t \in Txn : Decidable(t) => Decidable(t)'
  BY <1>1, AdminFinal, StaysDecidable
<1>4. ASSUME NEW b \in Admin, apc'[b] = "edit"
      PROVE  tap'[b].card.id \in Txn /\ status'[tap'[b].card.id] \in Decided
  <2>1. CASE Commit(a) /\ b = a
    BY <2>1 DEF Commit, LockHolds, RowsOK, Decided
  <2>2. CASE ~Commit(a) \/ b # a
    <3>1. apc[b] = "edit" /\ tap'[b] = tap[b]
      BY <2>2, <1>4 DEF Decide, LockRow, Press, ApproveTopup, RejectTopup, Commit, Rollback,
         Edit, Credit, DeskOK
    <3>2. QED BY <3>1, AdminFinal DEF Told, Final
  <2>3. QED BY <2>1, <2>2
<1>5. QED BY <1>2, <1>3, <1>4 DEF Told, HasTold, HistoryOK

LEMMA StepTold == PayInv /\ Told /\ [Next]_vars => Told'
<1> SUFFICES ASSUME PayInv, Told, [Next]_vars PROVE Told'
  OBVIOUS
<1>1. CASE Death
  BY <1>1 DEF Death, Told, HasTold, Decidable
<1>2. CASE UNCHANGED vars
  BY <1>2 DEF vars, Told, HasTold, Decidable
<1>3. QED BY <1>1, <1>2, BuyerTold, AdminTold DEF Next

\* A buyer who was thanked has a payment some admin decided or still can, also when
\* forwards fail (on_receipt_photo).
THEOREM ThanksHold == Spec => []ThankedIsDecidable
<1>1. Init => Told
  BY DEF Init, Told, HasTold
<1>2. Told => ThankedIsDecidable
  BY DEF Told, ThankedIsDecidable
<1>3. QED BY <1>1, <1>2, InitInv, StepInv, StepTold, PTL DEF Spec
=============================================================================
