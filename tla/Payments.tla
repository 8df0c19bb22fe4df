------------------------------ MODULE Payments ------------------------------
(***************************************************************************)
(* handlers/payment.py over core/database.py, for one buyer: purchases by  *)
(* receipt, wallet top-ups, purchases from the wallet, and the admins who  *)
(* decide. The buyer's updates are handled concurrently and meet at every  *)
(* await, and so do the taps of the admins.                                *)
(*                                                                         *)
(* status, receipt and wallet are Postgres rows: one UPDATE is one step,   *)
(* and decide_transaction is a transaction that locks its row. wait, txnOf *)
(* and refOf are the buyer's FSM record, cards the messages with buttons   *)
(* in the admins' chats. All of these survive a restart.                   *)
(***************************************************************************)
EXTENDS Integers, FiniteSets

CONSTANTS Handler,     \* updates of the buyer handled at once
          Admin,
          Txn,         \* transactions that may be opened
          Ref,         \* top-up references that may be minted
          Photo,       \* receipt photos the buyer may send
          None,
          Price,       \* of the plan
          Amount,      \* of a top-up
          MaxCredits,  \* bound: top-up credits in one behaviour
          Mishap       \* which of "crash", "db", "telegram" may happen

ASSUME PaymentsAssumption == /\ IsFiniteSet(Handler)
                             /\ None \notin Txn \cup Ref \cup Photo
                             /\ Txn \cap Ref = {}
                             /\ {Price, Amount} \subseteq Nat \ {0}
                             /\ MaxCredits \in Nat
                             /\ Mishap \subseteq {"crash", "db", "telegram"}

VARIABLES status,   \* transactions.status; "none": not inserted
          receipt,  \* transactions.receipt_photo_id
          wallet,   \* users.wallet_balance
          wait,     \* FSM state: the receipt that is awaited, or "none"
          txnOf,    \* FSM data: txn_id
          refOf,    \* FSM data: wallet_ref (and wallet_amount)
          minted,   \* references minted so far
          cards,    \* receipts with live buttons: admin, what they decide, photo
          pc,       \* per handler: the await it stands at
          my,       \* per handler: its locals
          apc,      \* per admin: the await the decision stands at
          tap,      \* per admin: the card and the button
          granted,  \* history: premium grants of a transaction
          bought,   \* history: wallet debits and the grants that followed
          credits,  \* history: top-ups credited
          thanked,  \* history: transactions whose buyer was told "received"
          shown     \* history: the photos that were put before an admin, and for what

rows    == <<status, receipt, wallet>>
fsm     == <<wait, txnOf, refOf>>
frames  == <<pc, my>>
desk    == <<apc, tap>>
ledger  == <<granted, bought, credits>>
records == <<thanked, shown>>
vars == <<rows, fsm, minted, cards, frames, desk, ledger, records>>

Card == [admin : Admin, id : Txn \cup Ref, photo : Photo]
NoTap == [card |-> None, yes |-> FALSE]
Fresh == [txn |-> None, ref |-> None, photo |-> None, left |-> {}, told |-> FALSE]

RowsOK == /\ status \in [Txn -> {"none", "pending", "approved", "rejected"}]
          /\ receipt \in [Txn -> Photo \cup {None}]
          /\ wallet \in Int

FsmOK == /\ wait \in {"none", "plan", "topup"}
         /\ txnOf \in Txn \cup {None} /\ refOf \in Ref \cup {None}
         /\ minted \subseteq Ref

Await == {"idle", "planCheck", "insert", "planState", "planData", "topData", "photoRead",
          "attach", "photoClear", "topRead", "topClear", "send", "grant"}
Frame == [txn : Txn \cup {None}, ref : Ref \cup {None}, photo : Photo \cup {None},
          left : SUBSET Admin, told : BOOLEAN]

\* What a handler knows at each await: the photo, and what it pays for.
Knows(p, m) ==
  /\ p \in {"planCheck", "planState", "planData", "attach", "photoClear"}
       => m.txn # None
  /\ p \in {"topData", "topClear"} => m.ref # None
  /\ p = "send" => m.txn # None \/ m.ref # None
  /\ p \in {"photoRead", "attach", "photoClear", "topRead", "topClear", "send"}
       => m.photo # None
  /\ p # "send" => ~m.told

FramesOK == /\ pc \in [Handler -> Await] /\ my \in [Handler -> Frame]
            /\ \A h \in Handler : Knows(pc[h], my[h])

DeskOK == /\ cards \subseteq Card
          /\ apc \in [Admin -> {"idle", "commit", "edit", "credit"}]
          /\ tap \in [Admin -> [card : Card, yes : BOOLEAN] \cup {NoTap}]

HistoryOK == /\ granted \in [Txn -> Nat] /\ credits \in Nat
             /\ bought \in [debits : Nat, grants : Nat]
             /\ thanked \subseteq Txn /\ shown \subseteq Photo \X (Txn \cup Ref)

\* Rows, FSM record, handlers and desks hold what the code puts there.
PayTypeOK == RowsOK /\ FsmOK /\ FramesOK /\ DeskOK /\ HistoryOK

Init ==
  /\ status = [t \in Txn |-> "none"] /\ receipt = [t \in Txn |-> None] /\ wallet = 0
  /\ wait = "none" /\ txnOf = None /\ refOf = None
  /\ minted = {} /\ cards = {}
  /\ pc = [h \in Handler |-> "idle"] /\ my = [h \in Handler |-> Fresh]
  /\ apc = [a \in Admin |-> "idle"] /\ tap = [a \in Admin |-> NoTap]
  /\ granted = [t \in Txn |-> 0]
  /\ bought = [debits |-> 0, grants |-> 0] /\ credits = 0
  /\ thanked = {} /\ shown = {}

Move(h, p) == pc' = [pc EXCEPT ![h] = p]
Return(h)  == Move(h, "idle") /\ my' = [my EXCEPT ![h] = Fresh]
AGoto(a, p) == apc' = [apc EXCEPT ![a] = p]
Rest(a)    == AGoto(a, "idle") /\ tap' = [tap EXCEPT ![a] = NoTap]
Locked(t)  == \E a \in Admin : apc[a] = "commit" /\ tap[a].card.id = t

-----------------------------------------------------------------------------
(* on_plan_selected.                                                       *)

\* The tap reads the FSM data.
PlanTap(h) == /\ pc[h] = "idle"
              /\ my' = [my EXCEPT ![h].txn = txnOf]
              /\ Move(h, IF txnOf = None THEN "insert" ELSE "planCheck")
              /\ UNCHANGED <<rows, fsm, minted, cards, desk, ledger, records>>

\* The purchase that is still open gets its card again, any other a new row.
PlanCheck(h) == /\ pc[h] = "planCheck"
                /\ IF status[my[h].txn] = "pending" THEN Return(h)
                                                    ELSE Move(h, "insert") /\ UNCHANGED my
                /\ UNCHANGED <<rows, fsm, minted, cards, desk, ledger, records>>

Insert(h) == /\ pc[h] = "insert"
             /\ \E t \in Txn : /\ status[t] = "none"
                               /\ status' = [status EXCEPT ![t] = "pending"]
                               /\ my' = [my EXCEPT ![h].txn = t]
             /\ Move(h, "planState")
             /\ UNCHANGED <<receipt, wallet, fsm, minted, cards, desk, ledger, records>>

\* Bound: a behaviour has no more rows than Txn.
NoRowLeft(h) == /\ pc[h] = "insert" /\ \A t \in Txn : status[t] # "none"
                /\ Return(h)
                /\ UNCHANGED <<rows, fsm, minted, cards, desk, ledger, records>>

PlanState(h) == /\ pc[h] = "planState" /\ wait' = "plan" /\ Move(h, "planData")
                /\ UNCHANGED <<rows, txnOf, refOf, minted, cards, my, desk, ledger, records>>

PlanData(h) == /\ pc[h] = "planData" /\ txnOf' = my[h].txn /\ Return(h)
               /\ UNCHANGED <<rows, wait, refOf, minted, cards, desk, ledger, records>>

-----------------------------------------------------------------------------
(* _send_topup_card, and whatever ends a pending step (/cancel, a link).   *)

TopupTap(h) == /\ pc[h] = "idle" /\ wait' = "topup"
               /\ \E r \in Ref \ minted : /\ minted' = minted \cup {r}
                                          /\ my' = [my EXCEPT ![h].ref = r]
               /\ Move(h, "topData")
               /\ UNCHANGED <<rows, txnOf, refOf, cards, desk, ledger, records>>

\* The amount will be typed, no photo is awaited; the data of an older step stays.
AskAmount(h) == /\ pc[h] = "idle" /\ wait' = "none"
                /\ UNCHANGED <<rows, txnOf, refOf, minted, cards, frames, desk, ledger,
                               records>>

TopData(h) == /\ pc[h] = "topData" /\ refOf' = my[h].ref /\ Return(h)
              /\ UNCHANGED <<rows, wait, txnOf, minted, cards, desk, ledger, records>>

ClearFsm == wait' = "none" /\ txnOf' = None /\ refOf' = None

Leave(h) == /\ pc[h] = "idle" /\ ClearFsm
            /\ UNCHANGED <<rows, minted, cards, frames, desk, ledger, records>>

-----------------------------------------------------------------------------
(* on_receipt_photo and on_wallet_receipt. The state filter chooses the    *)
(* handler, which then reads the data.                                     *)

SendPhoto(h) == /\ pc[h] = "idle" /\ wait # "none"
                /\ \E p \in Photo : my' = [my EXCEPT ![h].photo = p]
                /\ Move(h, IF wait = "plan" THEN "photoRead" ELSE "topRead")
                /\ UNCHANGED <<rows, fsm, minted, cards, desk, ledger, records>>

PhotoRead(h) == /\ pc[h] = "photoRead"
                /\ IF txnOf = None THEN Return(h)
                   ELSE Move(h, "attach") /\ my' = [my EXCEPT ![h].txn = txnOf]
                /\ UNCHANGED <<rows, fsm, minted, cards, desk, ledger, records>>

Taken(h) == \E t \in Txn \ {my[h].txn} : receipt[t] = my[h].photo

\* Mutant: the status is not part of the WHERE.
AttachableAnyway(h) == ~Taken(h)

\* The WHERE of attach_receipt, with the unique index behind it.
Attachable(h) == status[my[h].txn] = "pending" /\ ~Taken(h)

\* attach_receipt waits for a decision that holds the row.
Attach(h) ==
  /\ pc[h] = "attach" /\ ~Locked(my[h].txn)
  /\ IF Attachable(h)
     THEN /\ receipt' = [receipt EXCEPT ![my[h].txn] = my[h].photo]
          /\ Move(h, "photoClear") /\ UNCHANGED my
     ELSE Return(h) /\ UNCHANGED receipt
  /\ UNCHANGED <<status, wallet, fsm, minted, cards, desk, ledger, records>>

PhotoClear(h) == /\ pc[h] = "photoClear" /\ ClearFsm
                 /\ Move(h, "send") /\ my' = [my EXCEPT ![h].left = Admin]
                 /\ UNCHANGED <<rows, minted, cards, desk, ledger, records>>

\* Mutant: the reference is not looked at.
TopReadUnchecked(h) == /\ pc[h] = "topRead"
                       /\ Move(h, "topClear") /\ my' = [my EXCEPT ![h].ref = refOf]
                       /\ UNCHANGED <<rows, fsm, minted, cards, desk, ledger, records>>

TopRead(h) == /\ pc[h] = "topRead"
              /\ IF refOf = None THEN Return(h)
                 ELSE Move(h, "topClear") /\ my' = [my EXCEPT ![h].ref = refOf]
              /\ UNCHANGED <<rows, fsm, minted, cards, desk, ledger, records>>

TopClear(h) == /\ pc[h] = "topClear" /\ ClearFsm
               /\ Move(h, "send") /\ my' = [my EXCEPT ![h].left = Admin]
               /\ UNCHANGED <<rows, minted, cards, desk, ledger, records>>

\* What the receipt is for.
Subject(h) == IF my[h].txn # None THEN my[h].txn ELSE my[h].ref

\* One admin after the other gets the photo with its two buttons.
Forward(h, a) ==
  /\ pc[h] = "send" /\ a \in my[h].left
  /\ \/ /\ cards' = cards \cup {[admin |-> a, id |-> Subject(h), photo |-> my[h].photo]}
        /\ shown' = shown \cup {<<my[h].photo, Subject(h)>>}
        /\ my' = [my EXCEPT ![h].left = @ \ {a}, ![h].told = TRUE]
     \/ /\ "telegram" \in Mishap
        /\ my' = [my EXCEPT ![h].left = @ \ {a}]
        /\ UNCHANGED <<cards, shown>>
  /\ UNCHANGED <<rows, fsm, minted, pc, desk, ledger, thanked>>

\* Mutant: the buyer is thanked although no admin was reached.
ThankAlways(h) == /\ pc[h] = "send" /\ my[h].left = {}
                  /\ thanked' = thanked \cup ({my[h].txn} \ {None})
                  /\ Return(h)
                  /\ UNCHANGED <<rows, fsm, minted, cards, desk, ledger, shown>>

Thank(h) == /\ pc[h] = "send" /\ my[h].left = {}
            /\ thanked' = IF my[h].told THEN thanked \cup ({my[h].txn} \ {None})
                                        ELSE thanked
            /\ Return(h)
            /\ UNCHANGED <<rows, fsm, minted, cards, desk, ledger, shown>>

-----------------------------------------------------------------------------
(* on_pay_with_wallet: one guarded debit, then the grant.                  *)

\* Mutant: the balance was compared on the card, not in the statement.
AffordsAnyway == TRUE

\* The WHERE of debit_wallet.
Affords == wallet >= Price

\* A short wallet is answered with a refusal.
Debit(h) == /\ pc[h] = "idle" /\ Affords
            /\ wallet' = wallet - Price
            /\ bought' = [bought EXCEPT !.debits = @ + 1]
            /\ Move(h, "grant")
            /\ UNCHANGED <<status, receipt, fsm, minted, cards, my, desk, granted, credits,
                           records>>

\* The statement may fail: the money is gone, the plan is not granted.
Grant(h) == /\ pc[h] = "grant"
            /\ \/ bought' = [bought EXCEPT !.grants = @ + 1]
               \/ "db" \in Mishap /\ UNCHANGED bought
            /\ Return(h)
            /\ UNCHANGED <<rows, fsm, minted, cards, desk, granted, credits, records>>

-----------------------------------------------------------------------------
(* The admins: _admin_decide and _wallet_decide.                           *)

Press(a, c) == /\ apc[a] = "idle" /\ c.admin = a
               /\ \E yes \in BOOLEAN : tap' = [tap EXCEPT ![a] = [card |-> c, yes |-> yes]]
               /\ UNCHANGED <<rows, fsm, minted, cards, frames, ledger, records>>

\* Mutant: the row is read without FOR UPDATE.
ReadUnlocked(a, c) == /\ c.id \in Txn /\ status[c.id] = "pending"
                      /\ Press(a, c) /\ AGoto(a, "commit")

\* decide_transaction: SELECT FOR UPDATE waits for the row, and a verdict that
\* is there already is left alone.
LockRow(a, c) == /\ c.id \in Txn /\ ~Locked(c.id) /\ status[c.id] = "pending"
                 /\ Press(a, c) /\ AGoto(a, "commit")

\* The verdict and the premium become visible together.
Commit(a) ==
  /\ apc[a] = "commit"
  /\ LET t == tap[a].card.id IN
       /\ status' = [status EXCEPT ![t] = IF tap[a].yes THEN "approved" ELSE "rejected"]
       /\ granted' = IF tap[a].yes THEN [granted EXCEPT ![t] = @ + 1] ELSE granted
  /\ AGoto(a, "edit")
  /\ UNCHANGED <<receipt, wallet, fsm, minted, cards, frames, tap, bought, credits, records>>

\* A failed statement rolls the verdict back; the buttons stay.
Rollback(a) == /\ "db" \in Mishap /\ apc[a] = "commit"
               /\ Rest(a)
               /\ UNCHANGED <<rows, fsm, minted, cards, frames, ledger, records>>

\* The caption says who decided, the buttons go; a failed edit leaves them.
Edit(a) == /\ apc[a] = "edit"
           /\ cards' = cards \ {tap[a].card} \/ ("telegram" \in Mishap /\ UNCHANGED cards)
           /\ Rest(a)
           /\ UNCHANGED <<rows, fsm, minted, frames, ledger, records>>

\* Credits under way; with those done they stay below the bound MaxCredits.
Crediting == Cardinality({a \in Admin : apc[a] = "credit"})

\* _wallet_decide edits the caption first. A rejection ends there.
ApproveTopup(a, c) ==
  /\ apc[a] = "idle" /\ c.admin = a /\ c.id \in Ref
  /\ credits + Crediting < MaxCredits
  /\ cards' = cards \ {c} \/ ("telegram" \in Mishap /\ UNCHANGED cards)
  /\ AGoto(a, "credit")
  /\ UNCHANGED <<rows, fsm, minted, frames, tap, ledger, records>>

RejectTopup(a, c) == /\ apc[a] = "idle" /\ c.admin = a /\ c.id \in Ref
                     /\ cards' = cards \ {c}
                     /\ UNCHANGED <<rows, fsm, minted, frames, desk, ledger, records>>

\* add_wallet_credit; an error is logged and absorbed.
Credit(a) == /\ apc[a] = "credit"
             /\ \/ wallet' = wallet + Amount /\ credits' = credits + 1
                \/ "db" \in Mishap /\ UNCHANGED <<wallet, credits>>
             /\ Rest(a)
             /\ UNCHANGED <<status, receipt, fsm, minted, cards, frames, granted, bought,
                            records>>

-----------------------------------------------------------------------------
\* A statement raises, and the handler ends with what it did so far: the look at
\* the open purchase, the insert, the attach, or the reads before the first forward.
Raises(h) == /\ "db" \in Mishap
             /\ \/ pc[h] \in {"planCheck", "insert", "attach"}
                \/ pc[h] = "send" /\ my[h].left = Admin
             /\ Return(h)
             /\ UNCHANGED <<rows, fsm, minted, cards, desk, ledger, records>>

\* The process ends anywhere: open database transactions roll back.
Death == /\ "crash" \in Mishap
         /\ pc' = [h \in Handler |-> "idle"] /\ my' = [h \in Handler |-> Fresh]
         /\ apc' = [a \in Admin |-> "idle"] /\ tap' = [a \in Admin |-> NoTap]
         /\ UNCHANGED <<rows, fsm, minted, cards, ledger, records>>

Buy(h)    == PlanTap(h) \/ PlanCheck(h) \/ Insert(h) \/ NoRowLeft(h) \/ PlanState(h)
               \/ PlanData(h) \/ Debit(h) \/ Grant(h)
TopUp(h)  == TopupTap(h) \/ AskAmount(h) \/ TopData(h) \/ Leave(h)
Prove(h)  == SendPhoto(h) \/ PhotoRead(h) \/ Attach(h) \/ PhotoClear(h) \/ TopRead(h)
               \/ TopClear(h) \/ (\E a \in Admin : Forward(h, a)) \/ Thank(h)
Decide(a) == (\E c \in cards : LockRow(a, c) \/ ApproveTopup(a, c) \/ RejectTopup(a, c))
               \/ Commit(a) \/ Rollback(a) \/ Edit(a) \/ Credit(a)

Next == \/ \E h \in Handler : Buy(h) \/ TopUp(h) \/ Prove(h) \/ Raises(h)
        \/ \E a \in Admin : Decide(a)
        \/ Death

Spec == Init /\ [][Next]_vars

-----------------------------------------------------------------------------
(* What the payments must keep true.                                       *)

Decided == {"approved", "rejected"}

\* Premium is granted exactly once for an approved transaction and never for
\* another, however many admins press however many buttons (decide_transaction).
GrantsMatch == \A t \in Txn : granted[t] = IF status[t] = "approved" THEN 1 ELSE 0

\* A verdict is final, and so is the receipt it was given on (attach_receipt,
\* decide_transaction).
DecidedIsFinal ==
  [][\A t \in Txn : status[t] \in Decided
        => status'[t] = status[t] /\ receipt'[t] = receipt[t]]_vars

Decidable(t) == status[t] \in Decided \/ \E c \in cards : c.id = t

\* A buyer who was thanked has a payment some admin decided or still can
\* (on_receipt_photo: no thanks for a receipt nobody will ever decide).
ThankedIsDecidable ==
  \A t \in thanked : Decidable(t)

\* The wallet is never overdrawn, and no more plans are granted from it than its
\* credits pay for, however the buyer's taps meet (debit_wallet, grant_premium).
WalletPays == wallet >= 0 /\ bought.grants * Price <= credits * Amount

\* One photo is one decision: no photo is ever put before the admins as the
\* proof of two transactions (attach_receipt, ix_transactions_receipt).
PhotoOneDecision ==
  \A p \in Photo : \A t, u \in Txn : {<<p, t>>, <<p, u>>} \subseteq shown => t = u
=============================================================================
