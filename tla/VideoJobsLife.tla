---------------------------- MODULE VideoJobsLife ----------------------------
(***************************************************************************)
(* VideoJobs as an implementation of JobLife: a job's status is its row's, *)
(* its hold is read off credits_held and the hold row of the ledger.       *)
(***************************************************************************)
EXTENDS VideoJobsInv

HoldOf(j) == IF job[j].held > 0 THEN "held"
             ELSE IF ledger[j].hold > 0 THEN "settled" ELSE "none"

LifeOf(j) == [status |-> job[j].status, hold |-> HoldOf(j)]

Life == INSTANCE JobLife WITH life <- [j \in Jobs |-> LifeOf(j)]

\* What the API shows of jobs, through races, retries, crashes and timeouts,
\* is the life of a job: its hold is given up once, charged or refunded, and
\* never taken again, it completes only from `processing` or over a cancellation
\* and without a hold, and it never vanishes or goes back to the queue's statuses.
\* A job may complete that a cancellation has refunded meanwhile.
ImplementsLife == Life!LifeSpec

\* Where the worker is and what the row can say meanwhile: only a cancellation
\* may have been committed over the worker's own last status.
RowFits(j) ==
  LET row == job[j].status
      pc == run[j].pc IN
  /\ pc = "fetched" /\ run[j].status = "processing" => row \in {"processing", "cancelled"}
  /\ pc \in {"started", "loading"} => run[j].status \in {"processing", "loading_model"}
  /\ pc \in {"started", "loading", "checked"} => row \in {run[j].status, "cancelled"}
  /\ pc = "checked" => run[j].status \in {"processing", "loading_model"}
  /\ pc = "generating" => row \in {"processing", "cancelled"}
  /\ pc = "refund_fail" => row \in {"loading_model", "processing", "cancelled"}
  /\ pc = "refund_cancel" => row = "cancelled"

LifeInv == \A j \in Jobs : RowFits(j)
=============================================================================
