------------------------------- MODULE Quota -------------------------------
(***************************************************************************)
(* core/database.py: the daily counter of a user, one row and two guarded  *)
(* UPDATE statements. A statement is atomic; "today" is the local date the *)
(* statement is given, so a claim and its refund may see different days.   *)
(***************************************************************************)
EXTENDS Naturals

CONSTANTS User,
          Limit,      \* effective_daily_limit of each user
          MaxDay      \* bound: the last day of a behaviour

ASSUME QuotaAssumption == /\ MaxDay \in Nat \ {0}
                          /\ Limit \in [User -> Nat]

VARIABLES row,        \* users: [date, used] = last_download_date, daily_downloads
          today       \* today_local()

quotaVars == <<row, today>>

QuotaTypeOK == /\ row \in [User -> [date : 0..MaxDay, used : Nat]]
               /\ today \in 1..MaxDay

\* A user who never downloaded: last_download_date is NULL.
QuotaInit == /\ row = [u \in User |-> [date |-> 0, used |-> 0]]
             /\ today = 1

\* Mutant: <= for < in the WHERE.
CanClaimOneMore(u) == row[u].date # today \/ row[u].used <= Limit[u]

\* The WHERE of can_claim_download.
CanClaim(u) == row[u].date # today \/ row[u].used < Limit[u]

\* can_claim_download: the first claim of a day starts the counter again. A
\* limit of 0 does not refuse that first claim: the date alone lets it pass.
ClaimSlot(u) ==
  /\ CanClaim(u)
  /\ row' = [row EXCEPT ![u] =
       [date |-> today, used |-> IF @.date # today THEN 1 ELSE @.used + 1]]

\* The WHERE of refund_download_claim.
Refundable(u) == row[u].date = today /\ row[u].used > 0

\* refund_download_claim: it names the user and the day, not the claim.
RefundSlot(u) ==
  row' = IF Refundable(u) THEN [row EXCEPT ![u].used = @ - 1] ELSE row

Midnight == today < MaxDay /\ today' = today + 1 /\ UNCHANGED row
=============================================================================
