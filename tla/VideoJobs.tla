------------------------------ MODULE VideoJobs ------------------------------
(***************************************************************************)
(* The life of a video generation job and of the credits that pay for it:  *)
(* the API handlers that create, duplicate, cancel and re-price (routers   *)
(* generations, outputs, jobs, admin/users), the arq queue between the API *)
(* and the worker, and process_video_job in apps/worker.                   *)
(*                                                                         *)
(* All of them are concurrent SQLAlchemy sessions over one database.  The  *)
(* variables credits, job and ledger are the COMMITTED rows of users, jobs *)
(* and credit_transactions; req and run hold what one open session has     *)
(* read (its identity map) and has not written yet.  A session writes the  *)
(* absolute value it computed from what it read: `user.credits -= cost`    *)
(* becomes UPDATE users SET credits = <old read> - cost.  A row that has   *)
(* been flushed is locked until its session commits.                       *)
(***************************************************************************)
EXTENDS Integers, FiniteSets

CONSTANTS
  Users,           \* rows of users
  Admins,          \* users whose role is ADMIN or SUPER_ADMIN
  Jobs,            \* ULIDs the handlers mint, one per job
  Requests,        \* API requests that may be open at the same time
  Keys,            \* idempotency keys clients send
  Costs,           \* prices of a generation
  InitialCredits,  \* balance of a registered user
  Adjustments,     \* amounts an admin adds or removes
  MaxCredits,      \* bound: an admin grants no more than up to this balance
  MaxRetries,      \* Job.max_retries
  MaxTries,        \* WorkerSettings.max_tries
  WorkerSlots,     \* WorkerSettings.max_jobs
  RaiseOutcomes,   \* what arq does with an exception: subset of {"retry", "drop"}
  Endpoints,       \* the API handlers clients call
  Faults,          \* the failures that may happen
  None             \* the null of the database

AllEndpoints ==
  {"create", "duplicate", "cancel", "admin_create", "admin_cancel", "adjust"}

AllFaults == {"redis_down", "rollback", "error", "db_error", "timeout", "crash"}

ASSUME UsersAssumption ==
  /\ Admins \subseteq Users
  /\ None \notin Users /\ None \notin Keys /\ None \notin Jobs
ASSUME RowsAssumption == IsFiniteSet(Users) /\ IsFiniteSet(Jobs)
ASSUME CostsAssumption == Costs \subseteq Nat \ {0}
ASSUME BalanceAssumption ==
  /\ InitialCredits \in Nat /\ MaxCredits \in Nat
  /\ Adjustments \subseteq Int \ {0}
ASSUME RetryAssumption ==
  /\ MaxRetries \in Nat \ {0} /\ MaxTries \in Nat /\ WorkerSlots \in Nat
  /\ RaiseOutcomes \subseteq {"retry", "drop"} /\ RaiseOutcomes # {}
ASSUME EnvironmentAssumption ==
  Endpoints \subseteq AllEndpoints /\ Faults \subseteq AllFaults

VARIABLES
  credits,  \* users.credits
  job,      \* the row of each job; status "absent" when there is none
  ledger,   \* credit_transactions about each job
  req,      \* the session of each API request
  queue,    \* where arq has the delivery of each job
  tries,    \* how often arq has started it
  run       \* the worker's session for each job

vars == <<credits, job, ledger, req, queue, tries, run>>

-----------------------------------------------------------------------------

Statuses == {"absent", "pending", "queued", "loading_model", "processing",
             "completed", "failed", "cancelled"}
Cancellable == {"pending", "queued"}
Terminal == {"completed", "failed", "cancelled"}

NoJob == [status |-> "absent", owner |-> None, held |-> 0, charged |-> 0,
          retries |-> 0, key |-> None]

\* hold: amount of the hold row; charge, refund: rows _finalize_credits wrote;
\* cancel: refund rows cancel_generation wrote, by the user they credit.
NoRows == [hold |-> 0, charge |-> 0, refund |-> 0,
           cancel |-> [u \in Users |-> 0]]

IdleReq == [pc |-> "idle", user |-> None, bal |-> 0, job |-> None,
            amount |-> 0, status |-> "absent", key |-> None]
IdleRun == [pc |-> "idle", status |-> "absent", held |-> 0, retries |-> 0,
            bal |-> 0]

Exists(j) == job[j].status # "absent"
Owned(j) == Exists(j) /\ job[j].owner # None

(* What the writers make of a row and a balance.  The definitions marked   *)
(* "mutant" are plausible bugs; nothing uses them but the mutation runs.   *)

\* user.credits += amount of a refund, on the balance the session has.
NotCredited(bal, amount) == bal  \* mutant
Credited(bal, amount) == bal + amount

\* cancel_generation; jobs.cancel_job and a session that saw no hold: amount 0.
CancelledDropsHold(row, amount) ==  \* mutant
  [row EXCEPT !.status = "cancelled", !.held = 0]
CancelledKeepsHold(row, amount) ==  \* mutant
  [row EXCEPT !.status = "cancelled"]
Cancelled(row, amount) ==
  [row EXCEPT !.status = "cancelled", !.held = IF amount > 0 THEN 0 ELSE @]

\* _finalize_credits(success=True) in the commit that stores `completed`.
ChargedKeepsHold(row, held) ==  \* mutant
  [row EXCEPT !.status = "completed", !.charged = held]
Charged(row, held) ==
  [row EXCEPT !.status = "completed", !.charged = held, !.held = 0]

\* _finalize_credits(success=False).
RefundedKeepsHold(row) == row  \* mutant
Refunded(row) == [row EXCEPT !.held = 0]

Failed(row, attempts) == [row EXCEPT !.status = "failed", !.retries = attempts]

\* create_credit_transaction, on the rows about one job.
ChargeRow(rows) == [rows EXCEPT !.charge = @ + 1]
RefundRow(rows) == [rows EXCEPT !.refund = @ + 1]
CancelRowForgotten(rows, user) == rows  \* mutant
CancelRow(rows, user) == [rows EXCEPT !.cancel[user] = @ + 1]

\* A handler between flush and commit holds the lock on its user's row.
Locked(u) == \E r \in Requests : req[r].pc = "flushed" /\ req[r].user = u

\* A fresh ULID: never stored, never sent to the queue, in no open session.
Fresh(j) == /\ ~Exists(j)
            /\ queue[j] = "none"
            /\ \A r \in Requests : req[r].job # j

Init ==
  /\ credits = [u \in Users |-> InitialCredits]
  /\ job = [j \in Jobs |-> NoJob]
  /\ ledger = [j \in Jobs |-> NoRows]
  /\ req = [r \in Requests |-> IdleReq]
  /\ queue = [j \in Jobs |-> "none"]
  /\ tries = [j \in Jobs |-> 0]
  /\ run = [j \in Jobs |-> IdleRun]

-----------------------------------------------------------------------------
(* API handlers                                                            *)

\* get_current_user: the handler's session loads the caller's row, balance
\* included; every later use of user.credits in the handler is this value.
Authenticate(r, u) ==
  /\ req[r].pc = "idle"
  /\ req' = [req EXCEPT ![r] = [IdleReq EXCEPT !.pc = "auth", !.user = u,
                                               !.bal = credits[u]]]
  /\ UNCHANGED <<credits, job, ledger, queue, tries, run>>

\* The session ends without a commit: a handler that only read or returned
\* early (403, 404, 409, an existing job for the idempotency key), or one
\* that raised or lost its connection (get_db rolls back).
Abandon(r) ==
  /\ req[r].pc # "idle"
  /\ req[r].pc = "auth" \/ "rollback" \in Faults
  /\ req' = [req EXCEPT ![r] = IdleReq]
  /\ UNCHANGED <<credits, job, ledger, queue, tries, run>>

CanAfford(r, cost) == req[r].bal >= cost

KeyTaken(u, k) == k # None /\ \E j \in Jobs : Owned(j) /\ job[j].owner = u
                                                       /\ job[j].key = k

\* create_generation up to its first flush; j is the ULID it mints.
CreateRead(r, j, k, cost) ==
  /\ "create" \in Endpoints
  /\ req[r].pc = "auth"
  /\ ~KeyTaken(req[r].user, k)
  /\ CanAfford(r, cost)
  /\ Fresh(j)
  /\ req' = [req EXCEPT ![r] = [@ EXCEPT !.pc = "create", !.job = j,
                                         !.amount = cost, !.key = k]]
  /\ UNCHANGED <<credits, job, ledger, queue, tries, run>>

\* duplicate_generation and generate_variation up to their first flush.
DuplicateRead(r, src, j, cost) ==
  /\ "duplicate" \in Endpoints
  /\ req[r].pc = "auth"
  /\ Exists(src)
  /\ job[src].owner = req[r].user \/ req[r].user \in Admins
  /\ CanAfford(r, cost)
  /\ Fresh(j)
  /\ req' = [req EXCEPT ![r] = [@ EXCEPT !.pc = "create", !.job = j,
                                         !.amount = cost]]
  /\ UNCHANGED <<credits, job, ledger, queue, tries, run>>

\* What enqueue_job does: the item is placed or not, and the call reports
\* success or not.  It reports a failure without a pool and on any exception,
\* the loss of an answer from Redis included.
EnqueueOutcomes ==
  {[placed |-> TRUE, reported |-> TRUE]} \cup
  (IF "redis_down" \in Faults
   THEN {[placed |-> FALSE, reported |-> FALSE],
         [placed |-> TRUE, reported |-> FALSE]}
   ELSE {})

Enqueue(j, out) == queue' = IF out.placed THEN [queue EXCEPT ![j] = "queued"]
                                          ELSE queue

StatusAfter(out) == IF out.reported THEN "queued" ELSE "pending"

\* The unique index on (user_id, idempotency_key) against committed rows.
NoIndex(r) == FALSE  \* mutant
RejectedByIndex(r) == KeyTaken(req[r].user, req[r].key)

\* The flushes of a creation and the enqueue between them and the commit.
CreateFlush(r, out) ==
  /\ req[r].pc = "create"
  /\ ~Locked(req[r].user)
  /\ ~RejectedByIndex(r)
  /\ Enqueue(req[r].job, out)
  /\ req' = [req EXCEPT ![r] = [@ EXCEPT !.pc = "flushed",
                                         !.status = StatusAfter(out)]]
  /\ UNCHANGED <<credits, job, ledger, tries, run>>

\* The insert raises IntegrityError and get_db rolls back.
KeyConflict(r) ==
  /\ req[r].pc = "create"
  /\ ~Locked(req[r].user)
  /\ RejectedByIndex(r)
  /\ req' = [req EXCEPT ![r] = IdleReq]
  /\ UNCHANGED <<credits, job, ledger, queue, tries, run>>

\* jobs.create_job: an admin's job has no owner and holds no credits.
AdminCreate(r, j, out) ==
  /\ "admin_create" \in Endpoints
  /\ req[r].pc = "auth" /\ req[r].user \in Admins
  /\ Fresh(j)
  /\ Enqueue(j, out)
  /\ req' = [req EXCEPT ![r] =
       [pc |-> "flushed", user |-> None, bal |-> 0, job |-> j, amount |-> 0,
        status |-> StatusAfter(out), key |-> None]]
  /\ UNCHANGED <<credits, job, ledger, tries, run>>

\* get_db commits after the handler returned.
CreateCommit(r) ==
  LET q == req[r] IN
  /\ q.pc = "flushed"
  /\ job' = [job EXCEPT ![q.job] =
               [NoJob EXCEPT !.status = q.status, !.owner = q.user,
                             !.held = q.amount, !.key = q.key]]
  /\ ledger' = [ledger EXCEPT ![q.job] = [@ EXCEPT !.hold = q.amount]]
  /\ credits' = IF q.user = None
                THEN credits
                ELSE [credits EXCEPT ![q.user] = q.bal - q.amount]
  /\ req' = [req EXCEPT ![r] = IdleReq]
  /\ UNCHANGED <<queue, tries, run>>

\* cancel_generation: ownership, status and credits_held as the session sees
\* them.
CancelRead(r, j) ==
  /\ "cancel" \in Endpoints
  /\ req[r].pc = "auth"
  /\ job[j].owner = req[r].user \/ req[r].user \in Admins
  /\ job[j].status \in Cancellable
  /\ req' = [req EXCEPT ![r] = [@ EXCEPT !.pc = "cancel", !.job = j,
                                         !.amount = job[j].held]]
  /\ UNCHANGED <<credits, job, ledger, queue, tries, run>>

\* jobs.cancel_job refunds nothing: it goes on as a cancellation of amount 0.
AdminCancelRead(r, j) ==
  /\ "admin_cancel" \in Endpoints
  /\ req[r].pc = "auth" /\ req[r].user \in Admins
  /\ job[j].status \in Cancellable
  /\ req' = [req EXCEPT ![r] = [@ EXCEPT !.job = j, !.pc = "cancel"]]
  /\ UNCHANGED <<credits, job, ledger, queue, tries, run>>

\* Writes status = cancelled whatever the row holds by now, and with credits
\* held the caller's balance, the refund row and credits_held = 0.
CancelCommit(r) ==
  LET q == req[r] IN
  /\ q.pc = "cancel"
  /\ job' = [job EXCEPT ![q.job] = Cancelled(@, q.amount)]
  /\ \/ q.amount = 0 /\ UNCHANGED <<credits, ledger>>
     \/ /\ q.amount > 0
        /\ ~Locked(q.user)
        /\ credits' = [credits EXCEPT ![q.user] = Credited(q.bal, q.amount)]
        /\ ledger' = [ledger EXCEPT ![q.job] = CancelRow(@, q.user)]
  /\ req' = [req EXCEPT ![r] = IdleReq]
  /\ UNCHANGED <<queue, tries, run>>

\* admin adjust_credits: the target's row is read now, unless the target is
\* the admin, whose row the session has loaded already.
AdjustRead(r, u, amount) ==
  LET bal == IF u = req[r].user THEN req[r].bal ELSE credits[u] IN
  /\ "adjust" \in Endpoints
  /\ req[r].pc = "auth" /\ req[r].user \in Admins
  /\ bal + amount <= MaxCredits
  /\ req' = [req EXCEPT ![r] = [IdleReq EXCEPT !.pc = "adjust", !.user = u,
                                               !.bal = bal, !.amount = amount]]
  /\ UNCHANGED <<credits, job, ledger, queue, tries, run>>

AdjustedBelowZero(bal, amount) == bal + amount  \* mutant
Adjusted(bal, amount) == IF bal + amount < 0 THEN 0 ELSE bal + amount

\* No credit_transactions row; no UPDATE when the value is the one read.
AdjustCommit(r) ==
  LET q == req[r]
      new == Adjusted(q.bal, q.amount) IN
  /\ q.pc = "adjust"
  /\ \/ new = q.bal /\ UNCHANGED credits
     \/ /\ new # q.bal
        /\ ~Locked(q.user)
        /\ credits' = [credits EXCEPT ![q.user] = new]
  /\ req' = [req EXCEPT ![r] = IdleReq]
  /\ UNCHANGED <<job, ledger, queue, tries, run>>

-----------------------------------------------------------------------------
(* arq (external): starts, retries and gives up deliveries                 *)

Running == {j \in Jobs : queue[j] = "running"}

PickUp(j) ==
  /\ queue[j] = "queued"
  /\ tries[j] < MaxTries
  /\ Cardinality(Running) < WorkerSlots
  /\ queue' = [queue EXCEPT ![j] = "running"]
  /\ tries' = [tries EXCEPT ![j] = @ + 1]
  /\ run' = [run EXCEPT ![j] = [IdleRun EXCEPT !.pc = "picked"]]
  /\ UNCHANGED <<credits, job, ledger, req>>

GiveUpLate(j) ==  \* mutant
  /\ queue[j] = "queued"
  /\ tries[j] > MaxTries
  /\ queue' = [queue EXCEPT ![j] = "done"]
  /\ UNCHANGED <<credits, job, ledger, req, tries, run>>

GiveUp(j) ==
  /\ queue[j] = "queued"
  /\ tries[j] >= MaxTries
  /\ queue' = [queue EXCEPT ![j] = "done"]
  /\ UNCHANGED <<credits, job, ledger, req, tries, run>>

\* The delivery ends, or goes back to the queue, and its session is gone.  The arq
\* that pyproject.toml pins (0.26.1) runs a task again that raised Retry or RetryJob or
\* was cancelled: process_video_job re-raises what it caught, which ends the delivery
\* ("drop").  Its comments count on another attempt ("retry").
EndDelivery(j, where) ==
  /\ queue' = [queue EXCEPT ![j] = where]
  /\ run' = [run EXCEPT ![j] = IdleRun]
  /\ UNCHANGED <<credits, job, ledger, req, tries>>

Return(j) == run[j].pc = "returned" /\ EndDelivery(j, "done")

Raise(j) ==
  /\ run[j].pc = "raised"
  /\ \/ "retry" \in RaiseOutcomes /\ EndDelivery(j, "queued")
     \/ "drop" \in RaiseOutcomes /\ EndDelivery(j, "done")

\* The worker process is shut down, which cancels its tasks, or dies: arq delivers the
\* job again.
Crash(j) ==
  /\ "crash" \in Faults
  /\ run[j].pc # "idle"
  /\ EndDelivery(j, "queued")

InSession == {"picked", "fetched", "started", "loading", "checked",
              "generating", "refund_cancel", "refund_fail"}

\* job_timeout: arq cancels the task, in a database call, an inference or, with
\* the row already committed, the publication of its progress.  CancelledError
\* is not an Exception, so no handler of process_video_job runs, and a timed out
\* job is not retried.
Timeout(j) ==
  /\ "timeout" \in Faults
  /\ run[j].pc # "idle"
  /\ EndDelivery(j, "done")

-----------------------------------------------------------------------------
(* process_video_job                                                       *)

\* The session's copy of the row stays as it was fetched (expire_on_commit is
\* False) except for what the worker itself assigns.
Fetch(j) ==
  /\ run[j].pc = "picked"
  /\ run' = [run EXCEPT ![j] =
       IF job[j].status \in {"absent", "cancelled"}
       THEN [IdleRun EXCEPT !.pc = "returned"]
       ELSE [IdleRun EXCEPT !.pc = "fetched", !.status = job[j].status,
                            !.held = job[j].held, !.retries = job[j].retries]]
  /\ UNCHANGED <<credits, job, ledger, req, queue, tries>>

\* Assign job.status and commit: the column is written when it differs from
\* the value the session has for it, whatever the row holds by now.
CommitStatus(j, status, pc) ==
  /\ job' = [job EXCEPT ![j] = IF run[j].status = status
                               THEN @ ELSE [@ EXCEPT !.status = status]]
  /\ run' = [run EXCEPT ![j] = [@ EXCEPT !.status = status, !.pc = pc]]
  /\ UNCHANGED <<credits, ledger, req, queue, tries>>

Start(j) == run[j].pc = "fetched" /\ CommitStatus(j, "processing", "started")

\* Only when the adapter is not loaded: both branches are possible.
LoadModel(j) ==
  run[j].pc = "started" /\ CommitStatus(j, "loading_model", "loading")

\* _finalize_credits has credits to settle, as far as this session knows.
HasHold(j) == job[j].owner # None /\ run[j].held > 0

\* _check_cancelled refreshes the status alone.
CheckCancelled(j) ==
  /\ run[j].pc \in {"started", "loading"}
  /\ \/ /\ job[j].status # "cancelled"
        /\ run' = [run EXCEPT ![j] = [@ EXCEPT !.pc = "checked",
                                               !.status = job[j].status]]
     \/ /\ job[j].status = "cancelled" /\ HasHold(j)
        /\ run' = [run EXCEPT ![j] = [@ EXCEPT !.pc = "refund_cancel",
                                               !.status = "cancelled",
                                               !.bal = credits[job[j].owner]]]
     \/ /\ job[j].status = "cancelled" /\ ~HasHold(j)
        /\ run' = [run EXCEPT ![j] = [IdleRun EXCEPT !.pc = "returned"]]
  /\ UNCHANGED <<credits, job, ledger, req, queue, tries>>

GenerateUnmarked(j) ==  \* mutant
  /\ run[j].pc = "checked"
  /\ run' = [run EXCEPT ![j] = [@ EXCEPT !.pc = "generating"]]
  /\ UNCHANGED <<credits, job, ledger, req, queue, tries>>

Generate(j) ==
  run[j].pc = "checked" /\ CommitStatus(j, "processing", "generating")

\* Inference succeeded: completed, and held -> charged in the same commit.
Complete(j) ==
  /\ run[j].pc = "generating"
  /\ \/ /\ HasHold(j)
        /\ job' = [job EXCEPT ![j] = Charged(@, run[j].held)]
        /\ ledger' = [ledger EXCEPT ![j] = ChargeRow(@)]
     \/ /\ ~HasHold(j)
        /\ job' = [job EXCEPT ![j] = [@ EXCEPT !.status = "completed"]]
        /\ UNCHANGED ledger
  /\ run' = [run EXCEPT ![j] = [IdleRun EXCEPT !.pc = "returned"]]
  /\ UNCHANGED <<credits, req, queue, tries>>

ExhaustedLate(attempts) == attempts > MaxRetries  \* mutant
Exhausted(attempts) == attempts >= MaxRetries

\* The except clause: the last failure goes on to the refund, an earlier one
\* commits `failed` and raises, "so arq can retry".
Fail(j) ==
  LET attempts == run[j].retries + 1 IN
  /\ "error" \in Faults
  /\ run[j].pc \in {"started", "loading", "generating"}
  /\ \/ /\ Exhausted(attempts) /\ HasHold(j)
        /\ run' = [run EXCEPT ![j] = [@ EXCEPT !.pc = "refund_fail",
                                               !.bal = credits[job[j].owner]]]
        /\ UNCHANGED job
     \/ /\ ~(Exhausted(attempts) /\ HasHold(j))
        /\ job' = [job EXCEPT ![j] = Failed(@, attempts)]
        /\ run' = [run EXCEPT ![j] =
             [IdleRun EXCEPT !.pc = IF attempts < MaxRetries THEN "raised"
                                                             ELSE "returned"]]
  /\ UNCHANGED <<credits, ledger, req, queue, tries>>

\* _finalize_credits(success=False) and the commit after it.
RefundCommit(j) ==
  LET owner == job[j].owner IN
  /\ run[j].pc \in {"refund_cancel", "refund_fail"}
  /\ ~Locked(owner)
  /\ credits' = [credits EXCEPT ![owner] = Credited(run[j].bal, run[j].held)]
  /\ ledger' = [ledger EXCEPT ![j] = RefundRow(@)]
  /\ job' = [job EXCEPT ![j] =
               IF run[j].pc = "refund_cancel"
               THEN Refunded(@)
               ELSE Failed(Refunded(@), run[j].retries + 1)]
  /\ run' = [run EXCEPT ![j] = [IdleRun EXCEPT !.pc = "returned"]]
  /\ UNCHANGED <<req, queue, tries>>

\* A database call of the worker fails: the session is unusable, the except
\* clause's own commit fails too and the exception reaches arq.
DbError(j) ==
  /\ "db_error" \in Faults
  /\ run[j].pc \in InSession
  /\ run' = [run EXCEPT ![j] = [IdleRun EXCEPT !.pc = "raised"]]
  /\ UNCHANGED <<credits, job, ledger, req, queue, tries>>

-----------------------------------------------------------------------------

RequestProgress(r) ==
  \/ \E out \in EnqueueOutcomes : CreateFlush(r, out)
  \/ KeyConflict(r)
  \/ CreateCommit(r)
  \/ CancelCommit(r)
  \/ AdjustCommit(r)

RequestStep(r) ==
  \/ \E u \in Users : Authenticate(r, u)
  \/ Abandon(r)
  \/ \E j \in Jobs, k \in Keys \cup {None}, cost \in Costs : CreateRead(r, j, k, cost)
  \/ \E src, j \in Jobs, cost \in Costs : DuplicateRead(r, src, j, cost)
  \/ \E j \in Jobs, out \in EnqueueOutcomes : AdminCreate(r, j, out)
  \/ \E j \in Jobs : CancelRead(r, j) \/ AdminCancelRead(r, j)
  \/ \E u \in Users, amount \in Adjustments : AdjustRead(r, u, amount)
  \/ RequestProgress(r)

WorkerProgress(j) ==
  \/ PickUp(j) \/ GiveUp(j) \/ Return(j) \/ Raise(j)
  \/ Fetch(j) \/ Start(j) \/ CheckCancelled(j) \/ Generate(j)
  \/ Complete(j) \/ RefundCommit(j)

WorkerStep(j) ==
  \/ WorkerProgress(j)
  \/ LoadModel(j) \/ Fail(j)
  \/ Crash(j) \/ Timeout(j) \/ DbError(j)

Next == \/ \E r \in Requests : RequestStep(r)
        \/ \E j \in Jobs : WorkerStep(j)

Spec == Init /\ [][Next]_vars

\* An open handler or worker session goes on, and arq delivers what it has:
\* nothing in the code waits for another request to arrive.  The database hands
\* a row lock to those who wait for it in turn, so a refund that is blocked again
\* and again by new handlers of the same user gets its turn (strong fairness).
Fairness == /\ \A r \in Requests : WF_vars(RequestProgress(r))
            /\ \A j \in Jobs : WF_vars(WorkerProgress(j)) /\ SF_vars(RefundCommit(j))

FairSpec == Spec /\ Fairness

-----------------------------------------------------------------------------
(* Properties                                                              *)

JobRows == [status : Statuses, owner : Users \cup {None}, held : Nat,
            charged : Nat, retries : Nat, key : Keys \cup {None}]

LedgerRows == [hold : Nat, charge : Nat, refund : Nat, cancel : [Users -> Nat]]

\* What a handler's session can hold depends on how far the handler is.
ReqIdle == {IdleReq}
ReqAuth == [pc : {"auth"}, user : Users, bal : Int, job : {None}, amount : {0},
            status : {"absent"}, key : {None}]
ReqCreate == [pc : {"create"}, user : Users, bal : Int, job : Jobs,
              amount : Nat \ {0}, status : {"absent"}, key : Keys \cup {None}]
ReqFlushed == [pc : {"flushed"}, user : Users \cup {None}, bal : Int, job : Jobs,
               amount : Nat, status : Cancellable, key : Keys \cup {None}]
ReqCancel == [pc : {"cancel"}, user : Users, bal : Int, job : Jobs, amount : Nat,
              status : {"absent"}, key : {None}]
ReqAdjust == [pc : {"adjust"}, user : Users, bal : Int, job : {None},
              amount : Int, status : {"absent"}, key : {None}]
ReqSessions == ReqIdle \cup ReqAuth \cup ReqCreate \cup ReqFlushed
                 \cup ReqCancel \cup ReqAdjust

RunSessions == [pc : InSession \cup {"idle", "returned", "raised"},
                status : Statuses, held : Nat, retries : Nat, bal : Int]

\* Every variable has its type; a request that has minted no job id names no
\* job, and one that is about to write a balance names a user.
TypeOK ==
  /\ credits \in [Users -> Int]
  /\ job \in [Jobs -> JobRows]
  /\ ledger \in [Jobs -> LedgerRows]
  /\ req \in [Requests -> ReqSessions]
  /\ queue \in [Jobs -> {"none", "queued", "running", "done"}]
  /\ tries \in [Jobs -> Nat]
  /\ run \in [Jobs -> RunSessions]

\* No interleaving of creations, cancellations, adjustments and refunds, each
\* of which overwrites the balance with a value computed from an old read,
\* makes a balance negative.
BalanceNeverNegative == \A u \in Users : credits[u] >= 0

\* The worker settles a job at most once over all its deliveries, retries,
\* crashes and failed commits: one charge row or one refund row, not both.
WorkerSettlesOnce == \A j \in Jobs : ledger[j].charge + ledger[j].refund <= 1

CancelRefunded(j) == \E u \in Users : ledger[j].cancel[u] > 0
Settled(j) == ledger[j].charge > 0 \/ ledger[j].refund > 0 \/ CancelRefunded(j)

\* credits_held and the ledger agree: a stored job holds credits exactly as
\* long as no charge and no refund has been recorded for it, so no path loses
\* a hold without a row and none leaves a hold behind that was settled.
HeldIsUnsettled == \A j \in Jobs : Owned(j) => (job[j].held > 0 <=> ~Settled(j))

\* A video is delivered only with its credits settled: whatever races with the
\* last commit, a completed job of a user holds nothing any more.
CompletedIsPaid ==
  \A j \in Jobs : Owned(j) /\ job[j].status = "completed" => job[j].held = 0

\* When the worker's own retries are used up, the hold is gone with the same
\* commit that stores the last failure.
ExhaustedIsRefunded ==
  \A j \in Jobs :
    job[j].status = "failed" /\ job[j].retries >= MaxRetries => job[j].held = 0

\* Two requests with one idempotency key never store two jobs.
OneJobPerKey ==
  \A i, j \in Jobs :
    /\ Owned(i) /\ Owned(j) /\ job[i].owner = job[j].owner
    /\ job[i].key = job[j].key /\ job[i].key # None
    => i = j

\* What a step does to the hold and the charge of one job.
Recorded(j) ==
  /\ job'[j].held < job[j].held =>
       /\ job'[j].held = 0
       /\ job[j].held = ledger[j].hold
       /\ ledger'[j] # ledger[j]
  /\ job'[j].charged # job[j].charged => job'[j].charged = ledger[j].hold

\* Credits leave a job only together with the one ledger row that says where
\* they went, and what is charged or refunded is what was held.
SettlementIsRecorded == [][\A j \in Jobs : Recorded(j)]_vars

\* Every delivery ends, however often the worker dies.
DeliveriesEnd == \A j \in Jobs : queue[j] = "queued" ~> queue[j] = "done"

\* No delivery will come to a job that looks as if one would: the last one died without
\* an end (its tries, a timeout, a failing database), or failed with retries left.
Stranded(j) ==
  /\ queue[j] = "done"
  /\ \/ job[j].status \in {"loading_model", "processing"}
     \/ job[j].status = "failed" /\ job[j].retries < MaxRetries


=============================================================================
