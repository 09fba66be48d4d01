------------------------------ MODULE JobLife ------------------------------
(***************************************************************************)
(* What a stored job promises to whoever reads it through the API: which   *)
(* statuses may follow which, and that the credits it holds are given up   *)
(* once and never held again.  The interleavings of handlers, worker and   *)
(* arq are hidden; VideoJobs is shown to implement this (VideoJobsLife),   *)
(* and the pages of the web front end run against it.                      *)
(*                                                                         *)
(* The order of statuses is looser than a reader of the code expects: a    *)
(* cancellation may be committed over any status, a failed attempt is      *)
(* followed by another, and a delivery repeated after a crash starts even  *)
(* a completed job again.                                                  *)
(***************************************************************************)
CONSTANT Jobs
VARIABLE life  \* of each job: its status, and what became of its credits

Waiting == {"pending", "queued"}
AtWork == {"loading_model", "processing"}
Ended == {"completed", "failed", "cancelled"}
JobStatuses == {"absent"} \cup Waiting \cup AtWork \cup Ended

\* none: the job never held credits (an admin's job, or no job at all).
Holds == {"none", "held", "settled"}

Unborn == [status |-> "absent", hold |-> "none"]

LifeInit == life = [j \in Jobs |-> Unborn]

Is(j, statuses) == life[j].status \in statuses

Becomes(j, status, hold) == life' = [life EXCEPT ![j] = [status |-> status, hold |-> hold]]

\* A hold may be charged or refunded; without one there is nothing to settle.
Settling(hold) == IF hold = "held" THEN "settled" ELSE hold

Submit(j) ==
  /\ Is(j, {"absent"})
  /\ \E status \in Waiting, hold \in {"none", "held"} : Becomes(j, status, hold)

\* A delivery starts, loads the model or generates.
Work(j) ==
  /\ ~Is(j, {"absent"})
  /\ \E status \in AtWork : Becomes(j, status, life[j].hold)

CompleteUnpaid(j) ==  \* mutant
  /\ Is(j, {"processing", "cancelled"})
  /\ Becomes(j, "completed", life[j].hold)

Complete(j) ==
  /\ Is(j, {"processing", "cancelled"})
  /\ Becomes(j, "completed", Settling(life[j].hold))

\* An attempt fails; only the last one refunds.
Fail(j) ==
  /\ Is(j, AtWork \cup {"cancelled"})
  /\ \E hold \in {life[j].hold, Settling(life[j].hold)} : Becomes(j, "failed", hold)

\* A handler cancels, with the refund or (jobs.cancel_job) without it.
Cancel(j) ==
  /\ ~Is(j, {"absent"})
  /\ \E hold \in {life[j].hold, Settling(life[j].hold)} : Becomes(j, "cancelled", hold)

\* The worker refunds a job that was cancelled while it worked on it.
Refund(j) ==
  /\ Is(j, {"cancelled"})
  /\ Becomes(j, "cancelled", Settling(life[j].hold))

LifeStep(j) == \/ Submit(j) \/ Work(j) \/ Complete(j) \/ Fail(j) \/ Cancel(j) \/ Refund(j)

LifeNext == \E j \in Jobs : LifeStep(j)

LifeSpec == LifeInit /\ [][LifeNext]_life

-----------------------------------------------------------------------------

LifeTypeOK == life \in [Jobs -> [status : JobStatuses, hold : Holds]]

\* A completed job holds nothing.
CompletedSettled == \A j \in Jobs : Is(j, {"completed"}) => life[j].hold # "held"

=============================================================================
