--------------------------- MODULE VideoJobsClaims ---------------------------
(***************************************************************************)
(* What docstrings and comments of the repository say about jobs and       *)
(* credits, as properties of VideoJobs, and the specification in which     *)
(* sessions never overlap.  The claims that are about interleavings hold   *)
(* under SerialSpec and fail under Spec, where BalanceWithinLedger is what *)
(* remains of the first of them.                                           *)
(***************************************************************************)
EXTENDS VideoJobsInv, Functions

OpenReq(r) == req[r].pc # "idle"
OpenRun(j) == run[j].pc # "idle"

\* From the first row it reads to its commit or rollback, a handler or a
\* delivery runs alone.
OneSession ==
  /\ \A r, s \in Requests : OpenReq(r) /\ OpenReq(s) => r = s
  /\ \A i, j \in Jobs : OpenRun(i) /\ OpenRun(j) => i = j
  /\ \A r \in Requests, j \in Jobs : ~(OpenReq(r) /\ OpenRun(j))

SerialNext == Next /\ OneSession'

SerialSpec == Init /\ [][SerialNext]_vars

-----------------------------------------------------------------------------

\* What the rows about one job did to the balance of one user: a refund row gives
\* the hold back to the owner (worker) or to the user who cancelled (handler), a
\* hold row takes it from the owner.
GivenBack(j, u) ==
  ledger[j].hold * ledger[j].cancel[u] +
  (IF job[j].owner = u THEN ledger[j].hold * ledger[j].refund ELSE 0)
TakenFrom(j, u) == IF job[j].owner = u THEN ledger[j].hold ELSE 0
Booked(j, u) == GivenBack(j, u) - TakenFrom(j, u)

\* core/billing/service.py: "every credit change is recorded in the ledger".
\* A balance is what was granted at registration, less the holds, plus the
\* refunds that the ledger has.  Holds while sessions do not overlap and no
\* admin adjusts; two overlapping sessions of one user lose an update.
BalanceMatchesLedger ==
  \A u \in Users :
    credits[u] = InitialCredits + SumFunctionOnSet([j \in Jobs |-> Booked(j, u)], Jobs)

\* The balances that the ledger can explain, if a race may lose any of its rows'
\* effects: all refunds counted and no hold, or all holds and no refund.
Most(u) == InitialCredits + SumFunctionOnSet([j \in Jobs |-> GivenBack(j, u)], Jobs)
Least(u) == InitialCredits - SumFunctionOnSet([j \in Jobs |-> TakenFrom(j, u)], Jobs)
WithinLedger(u, bal) == Least(u) <= bal /\ bal <= Most(u)

\* What is left of that claim when sessions do overlap: a lost update drops what
\* some rows of the ledger say, and does no more.  However many stale balances
\* are written over one another, nobody gets credits that no refund row gave him,
\* and nobody loses credits that no hold row took from him.
BalanceWithinLedger == \A u \in Users : WithinLedger(u, credits[u])

CancelRows(j) == SumFunctionOnSet(ledger[j].cancel, Users)

\* _finalize_credits: success charges, failure or cancellation refunds.  A hold
\* is charged or refunded once, whichever of worker and handlers does it.
SettledOnce ==
  \A j \in Jobs : ledger[j].charge + ledger[j].refund + CancelRows(j) <= 1

-----------------------------------------------------------------------------
(* Why they hold when sessions do not overlap: what the open session has   *)
(* read is what the rows say until it writes.                              *)

ReqCurrent(r) ==
  /\ OpenReq(r) /\ req[r].user # None => req[r].bal = credits[req[r].user]
  /\ req[r].pc = "cancel" =>
       /\ job[req[r].job].status \in Cancellable
       /\ req[r].amount \in {0, job[req[r].job].held}

RunCurrent(j) ==
  /\ run[j].pc \in InHand => run[j].held = job[j].held
  /\ run[j].pc \in {"refund_cancel", "refund_fail"} =>
       run[j].bal = credits[job[j].owner]

\* No row of the ledger is about a job that is not stored.
NothingBooked(j) == ~Exists(j) => job[j].owner = None /\ ledger[j] = NoRows

SerialInv ==
  /\ OneSession
  /\ \A r \in Requests : ReqCurrent(r)
  /\ \A j \in Jobs : RunCurrent(j) /\ NothingBooked(j)

-----------------------------------------------------------------------------
(* Why a race stays within the ledger: so does the balance of every open   *)
(* session, as rows are only added; and what a session will add to it is   *)
(* what the hold row says.  Nobody adjusts, which would write no row.      *)

ReqWithin(r) ==
  /\ req[r].user # None => WithinLedger(req[r].user, req[r].bal)
  /\ req[r].pc = "cancel" => req[r].amount \in {0, ledger[req[r].job].hold}
  /\ req[r].pc # "adjust"

RunWithin(j) ==
  run[j].pc \in {"refund_cancel", "refund_fail"} => WithinLedger(job[j].owner, run[j].bal)

WithinInv ==
  /\ BalanceWithinLedger
  /\ \A r \in Requests : ReqWithin(r)
  /\ \A j \in Jobs : RunWithin(j) /\ NothingBooked(j)
=============================================================================
