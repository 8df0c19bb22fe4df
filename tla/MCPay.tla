------------------------------- MODULE MCPay -------------------------------
(* One buyer with two updates at once, and two admins.                      *)
EXTENDS Payments, TLC

CONSTANTS h1, h2, a1, a2, t1, t2, r1, f1, f2

MCHandler == {h1, h2}
MCAdmin == {a1, a2}
OneAdmin == {a1}
MCTxn == {t1, t2}
OneTxn == {t1}
MCRef == {r1}
MCPhoto == {f1, f2}
OnePhoto == {f1}
Mishaps == {"crash", "db", "telegram"}
NoMishap == {}

\* No property of the passing run speaks of the photos that were shown.
PayView == <<rows, fsm, minted, cards, frames, desk, ledger, thanked>>

PaySymmetry == Permutations(Handler) \cup Permutations(Admin) \cup Permutations(Txn)
                 \cup Permutations(Photo)
=============================================================================
