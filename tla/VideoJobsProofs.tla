--------------------------- MODULE VideoJobsProofs ---------------------------
(***************************************************************************)
(* Theorems about VideoJobs for every number of users, jobs, requests,     *)
(* prices, retries and tries.                                              *)
(***************************************************************************)
EXTENDS VideoJobsClaims, FiniteSetTheorems, TLAPS

-----------------------------------------------------------------------------
(* Type correctness                                                        *)

LEMMA InitTypeOK == Init => TypeOK
  BY BalanceAssumption DEF Init, TypeOK, JobRows, LedgerRows, ReqSessions,
     ReqIdle, RunSessions, InSession, NoJob, NoRows, IdleReq, IdleRun, Statuses

\* What the writers make of a row is a row.
LEMMA CancelledType ==
  ASSUME NEW row \in JobRows, NEW amount
  PROVE  Cancelled(row, amount) \in JobRows
<1>1. (IF amount > 0 THEN 0 ELSE row.held) \in Nat BY DEF JobRows
<1>2. Cancelled(row, amount) =
        [row EXCEPT !.status = "cancelled",
                    !.held = IF amount > 0 THEN 0 ELSE row.held]
  BY DEF Cancelled, JobRows
<1> HIDE <1>2
<1> DEFINE h == IF amount > 0 THEN 0 ELSE row.held
<1>3. h \in Nat BY <1>1
<1> HIDE DEF h
<1>4. [row EXCEPT !.status = "cancelled", !.held = h] \in JobRows
  BY <1>3 DEF JobRows, Statuses
<1> QED BY <1>2, <1>4 DEF h

LEMMA FailedType ==
  ASSUME NEW row \in JobRows, NEW attempts \in Nat
  PROVE  Failed(row, attempts) \in JobRows
  BY DEF Failed, JobRows, Statuses

LEMMA CancelRowType ==
  ASSUME NEW rows \in LedgerRows, NEW u \in Users
  PROVE  CancelRow(rows, u) \in LedgerRows
<1> QED BY DEF CancelRow, LedgerRows

\* A step of a request keeps the types: the new session record is of the kind
\* its pc says, and the rows it writes are rows.
LEMMA RequestTypeOK ==
  ASSUME TypeOK, NEW r \in Requests, RequestStep(r)
  PROVE  TypeOK'
<1> DEFINE q == req[r]
<1> USE UsersAssumption, CostsAssumption, BalanceAssumption
<1>0. /\ q \in ReqSessions
      /\ q.pc = "idle" => q \in ReqIdle
      /\ q.pc = "auth" => q \in ReqAuth
      /\ q.pc = "create" => q \in ReqCreate
      /\ q.pc = "flushed" => q \in ReqFlushed
      /\ q.pc = "cancel" => q \in ReqCancel
      /\ q.pc = "adjust" => q \in ReqAdjust
  BY DEF TypeOK, ReqSessions, ReqIdle, IdleReq, ReqAuth, ReqCreate, ReqFlushed,
         ReqCancel, ReqAdjust
<1>1. ASSUME NEW u \in Users, Authenticate(r, u) PROVE TypeOK'
  <2>1. [IdleReq EXCEPT !.pc = "auth", !.user = u, !.bal = credits[u]] \in ReqAuth
    BY DEF IdleReq, ReqAuth, TypeOK
  <2> QED BY <1>1, <2>1 DEF Authenticate, TypeOK, ReqSessions
<1>2. CASE Abandon(r)
  BY <1>2 DEF Abandon, TypeOK, ReqSessions, ReqIdle
<1>3. ASSUME NEW j \in Jobs, NEW k \in Keys \cup {None}, NEW cost \in Costs,
             CreateRead(r, j, k, cost)
      PROVE  TypeOK'
  <2>1. [q EXCEPT !.pc = "create", !.job = j, !.amount = cost, !.key = k]
          \in ReqCreate
    BY <1>0, <1>3 DEF CreateRead, ReqAuth, ReqCreate
  <2> QED BY <1>3, <2>1 DEF CreateRead, TypeOK, ReqSessions
<1>4. ASSUME NEW src \in Jobs, NEW j \in Jobs, NEW cost \in Costs,
             DuplicateRead(r, src, j, cost)
      PROVE  TypeOK'
  <2>1. [q EXCEPT !.pc = "create", !.job = j, !.amount = cost] \in ReqCreate
    BY <1>0, <1>4 DEF DuplicateRead, ReqAuth, ReqCreate
  <2> QED BY <1>4, <2>1 DEF DuplicateRead, TypeOK, ReqSessions
<1>5. ASSUME NEW j \in Jobs, NEW out \in EnqueueOutcomes, AdminCreate(r, j, out)
      PROVE  TypeOK'
  <2>1. [pc |-> "flushed", user |-> None, bal |-> 0, job |-> j, amount |-> 0,
         status |-> StatusAfter(out), key |-> None] \in ReqFlushed
    <3>1. StatusAfter(out) \in Cancellable BY DEF StatusAfter, Cancellable
    <3> QED BY <3>1 DEF ReqFlushed
  <2> QED BY <1>5, <2>1 DEF AdminCreate, Enqueue, TypeOK, ReqSessions
<1>6. ASSUME NEW j \in Jobs, CancelRead(r, j) PROVE TypeOK'
  <2>1. [q EXCEPT !.pc = "cancel", !.job = j, !.amount = job[j].held] \in ReqCancel
    BY <1>0, <1>6 DEF CancelRead, ReqAuth, ReqCancel, TypeOK, JobRows
  <2> QED BY <1>6, <2>1 DEF CancelRead, TypeOK, ReqSessions
<1>7. ASSUME NEW j \in Jobs, AdminCancelRead(r, j) PROVE TypeOK'
  <2>1. [q EXCEPT !.job = j, !.pc = "cancel"] \in ReqCancel
    <3>1. q \in ReqAuth BY <1>0, <1>7 DEF AdminCancelRead
    <3> DEFINE named == [q EXCEPT !.job = j]
    <3>2. named \in [pc : {"auth"}, user : Users, bal : Int, job : Jobs,
                     amount : Nat, status : {"absent"}, key : {None}]
      BY <3>1 DEF ReqAuth
    <3> HIDE DEF named
    <3>3. [named EXCEPT !.pc = "cancel"] \in ReqCancel
      BY <3>2 DEF ReqCancel
    <3> QED BY <3>3 DEF named
  <2> QED BY <1>7, <2>1 DEF AdminCancelRead, TypeOK, ReqSessions
<1>8. ASSUME NEW u \in Users, NEW amount \in Adjustments, AdjustRead(r, u, amount)
      PROVE  TypeOK'
  <2> DEFINE bal == IF u = q.user THEN q.bal ELSE credits[u]
  <2>1. [IdleReq EXCEPT !.pc = "adjust", !.user = u, !.bal = bal, !.amount = amount]
          \in ReqAdjust
    BY <1>0, <1>8 DEF AdjustRead, IdleReq, ReqAuth, ReqAdjust, TypeOK
  <2> QED BY <1>8, <2>1 DEF AdjustRead, TypeOK, ReqSessions
<1>9. ASSUME NEW out \in EnqueueOutcomes, CreateFlush(r, out) PROVE TypeOK'
  <2>1. [q EXCEPT !.pc = "flushed", !.status = StatusAfter(out)] \in ReqFlushed
    BY <1>0, <1>9 DEF CreateFlush, ReqCreate, ReqFlushed, StatusAfter, Cancellable
  <2> QED BY <1>9, <2>1 DEF CreateFlush, Enqueue, TypeOK, ReqSessions
<1>10. CASE KeyConflict(r)
  BY <1>10 DEF KeyConflict, TypeOK, ReqSessions, ReqIdle
<1>11. CASE CreateCommit(r)
  <2>1. q \in ReqFlushed BY <1>0, <1>11 DEF CreateCommit
  <2>2. [NoJob EXCEPT !.status = q.status, !.owner = q.user, !.held = q.amount,
                      !.key = q.key] \in JobRows
    BY <2>1 DEF NoJob, ReqFlushed, JobRows, Statuses, Cancellable
  <2>3. [ledger[q.job] EXCEPT !.hold = q.amount] \in LedgerRows
    BY <2>1 DEF ReqFlushed, TypeOK, LedgerRows
  <2>4. credits' \in [Users -> Int]
    BY <1>11, <2>1 DEF CreateCommit, ReqFlushed, TypeOK
  <2> QED BY <1>11, <2>2, <2>3, <2>4 DEF CreateCommit, TypeOK, ReqSessions, ReqIdle
<1>12. CASE CancelCommit(r)
  <2>1. q \in ReqCancel BY <1>0, <1>12 DEF CancelCommit
  <2>2. Cancelled(job[q.job], q.amount) \in JobRows
    BY <2>1, CancelledType DEF ReqCancel, TypeOK
  <2>3. CancelRow(ledger[q.job], q.user) \in LedgerRows
    BY <2>1, CancelRowType DEF ReqCancel, TypeOK
  <2>4. credits' \in [Users -> Int]
    BY <1>12, <2>1 DEF CancelCommit, Credited, ReqCancel, TypeOK
  <2>5. job' \in [Jobs -> JobRows]
    BY <1>12, <2>2 DEF CancelCommit, TypeOK
  <2>6. ledger' \in [Jobs -> LedgerRows]
    BY <1>12, <2>3 DEF CancelCommit, TypeOK
  <2> QED BY <1>12, <2>4, <2>5, <2>6 DEF CancelCommit, TypeOK, ReqSessions, ReqIdle
<1>13. CASE AdjustCommit(r)
  <2>1. q \in ReqAdjust BY <1>0, <1>13 DEF AdjustCommit
  <2>2. credits' \in [Users -> Int]
    BY <1>13, <2>1 DEF AdjustCommit, Adjusted, ReqAdjust, TypeOK
  <2> QED BY <1>13, <2>2 DEF AdjustCommit, TypeOK, ReqSessions, ReqIdle
<1> QED
  BY <1>1, <1>2, <1>3, <1>4, <1>5, <1>6, <1>7, <1>8, <1>9, <1>10, <1>11, <1>12,
     <1>13 DEF RequestStep, RequestProgress

\* A step of the worker or of arq keeps the types.
LEMMA WorkerTypeOK ==
  ASSUME TypeOK, NEW j \in Jobs, WorkerStep(j)
  PROVE  TypeOK'
<1> USE UsersAssumption
<1>0. /\ run[j] \in RunSessions /\ job[j] \in JobRows
      /\ ledger[j] \in LedgerRows /\ tries[j] \in Nat
      /\ IdleRun \in RunSessions
      /\ [IdleRun EXCEPT !.pc = "picked"] \in RunSessions
      /\ [IdleRun EXCEPT !.pc = "returned"] \in RunSessions
      /\ [IdleRun EXCEPT !.pc = "raised"] \in RunSessions
  BY DEF TypeOK, RunSessions, IdleRun, InSession, Statuses
<1>1. ASSUME NEW where \in {"queued", "done"}, EndDelivery(j, where) PROVE TypeOK'
  BY <1>0, <1>1 DEF EndDelivery, TypeOK
<1>2. ASSUME NEW status \in Statuses, NEW pc \in InSession,
             CommitStatus(j, status, pc)
      PROVE  TypeOK'
  <2>1. [run[j] EXCEPT !.status = status, !.pc = pc] \in RunSessions
    BY <1>0 DEF RunSessions
  <2>2. (IF run[j].status = status THEN job[j]
         ELSE [job[j] EXCEPT !.status = status]) \in JobRows
    BY <1>0 DEF JobRows
  <2> QED BY <1>2, <2>1, <2>2 DEF CommitStatus, TypeOK
<1>3. CASE PickUp(j)
  BY <1>0, <1>3 DEF PickUp, TypeOK
<1>4. CASE GiveUp(j)
  BY <1>4 DEF GiveUp, TypeOK
<1>5. CASE Return(j) \/ Raise(j) \/ Crash(j) \/ Timeout(j)
  BY <1>1, <1>5 DEF Return, Raise, Crash, Timeout
<1>6. CASE Fetch(j)
  <2>1. [IdleRun EXCEPT !.pc = "fetched", !.status = job[j].status,
                        !.held = job[j].held, !.retries = job[j].retries]
          \in RunSessions
    BY <1>0 DEF RunSessions, IdleRun, InSession, JobRows
  <2> QED BY <1>0, <1>6, <2>1 DEF Fetch, TypeOK
<1>7. CASE Start(j) \/ LoadModel(j) \/ Generate(j)
  BY <1>2, <1>7 DEF Start, LoadModel, Generate, Statuses, InSession
<1>8. CASE CheckCancelled(j)
  <2>1. [run[j] EXCEPT !.pc = "checked", !.status = job[j].status] \in RunSessions
    BY <1>0 DEF RunSessions, InSession, JobRows
  <2>2. HasHold(j) => [run[j] EXCEPT !.pc = "refund_cancel", !.status = "cancelled",
                                     !.bal = credits[job[j].owner]] \in RunSessions
    BY <1>0 DEF HasHold, RunSessions, InSession, JobRows, Statuses, TypeOK
  <2> QED BY <1>0, <1>8, <2>1, <2>2 DEF CheckCancelled, TypeOK
<1>9. CASE Complete(j)
  <2>1. Charged(job[j], run[j].held) \in JobRows
    BY <1>0 DEF Charged, JobRows, RunSessions, Statuses
  <2>2. [job[j] EXCEPT !.status = "completed"] \in JobRows
    BY <1>0 DEF JobRows, Statuses
  <2>3. ChargeRow(ledger[j]) \in LedgerRows
    BY <1>0 DEF ChargeRow, LedgerRows
  <2> QED BY <1>0, <1>9, <2>1, <2>2, <2>3 DEF Complete, TypeOK
<1>10. CASE Fail(j)
  <2>1. HasHold(j) => [run[j] EXCEPT !.pc = "refund_fail",
                                     !.bal = credits[job[j].owner]] \in RunSessions
    BY <1>0 DEF HasHold, RunSessions, InSession, JobRows, TypeOK
  <2>2. Failed(job[j], run[j].retries + 1) \in JobRows
    <3>1. run[j].retries + 1 \in Nat BY <1>0 DEF RunSessions
    <3> QED BY <1>0, <3>1, FailedType
  <2>3. [IdleRun EXCEPT !.pc = IF run[j].retries + 1 < MaxRetries
                               THEN "raised" ELSE "returned"] \in RunSessions
    BY <1>0
  <2> QED BY <1>10, <2>1, <2>2, <2>3 DEF Fail, TypeOK
<1>11. CASE RefundCommit(j)
  <2>1. Refunded(job[j]) \in JobRows
    BY <1>0 DEF Refunded, JobRows
  <2>2. Failed(Refunded(job[j]), run[j].retries + 1) \in JobRows
    <3>1. run[j].retries + 1 \in Nat BY <1>0 DEF RunSessions
    <3> QED BY <2>1, <3>1, FailedType
  <2>3. RefundRow(ledger[j]) \in LedgerRows
    BY <1>0 DEF RefundRow, LedgerRows
  <2>4. credits' \in [Users -> Int]
    <3>1. run[j].bal + run[j].held \in Int BY <1>0 DEF RunSessions
    <3> QED BY <1>11, <3>1 DEF RefundCommit, Credited, TypeOK
  <2> QED BY <1>0, <1>11, <2>1, <2>2, <2>3, <2>4 DEF RefundCommit, TypeOK
<1>12. CASE DbError(j)
  BY <1>0, <1>12 DEF DbError, TypeOK
<1> QED
  BY <1>3, <1>4, <1>5, <1>6, <1>7, <1>8, <1>9, <1>10, <1>11, <1>12
  DEF WorkerStep, WorkerProgress

\* Every variable always has its type, for every value of the constants.
THEOREM TypeCorrect == Spec => []TypeOK
<1>1. TypeOK /\ [Next]_vars => TypeOK'
  <2> SUFFICES ASSUME TypeOK, [Next]_vars PROVE TypeOK'
    OBVIOUS
  <2>1. CASE UNCHANGED vars
    BY <2>1 DEF vars, TypeOK
  <2> QED BY <2>1, RequestTypeOK, WorkerTypeOK DEF Next
<1> QED BY InitTypeOK, <1>1, PTL DEF Spec

-----------------------------------------------------------------------------
(* Balances                                                                *)

LEMMA InitBalanceInv == Init => BalanceInv
  BY BalanceAssumption DEF Init, BalanceInv, BalanceNeverNegative, ReqFunded,
     IdleReq, IdleRun

\* A handler keeps the balances non-negative: it writes a balance it has read,
\* less a price it has compared with that balance, plus a refund, or clamped.
LEMMA RequestBalanceInv ==
  ASSUME TypeOK, BalanceInv, NEW r \in Requests, RequestStep(r)
  PROVE  BalanceInv'
<1> DEFINE q == req[r]
<1>0. /\ q \in ReqSessions /\ req \in [Requests -> ReqSessions]
      /\ credits \in [Users -> Int]
      /\ q.bal \in Int /\ q.amount \in Int /\ q.bal >= 0
      /\ q.pc \in {"create", "flushed", "cancel"} => q.amount \in Nat
      /\ q.pc \in {"create", "flushed"} => q.amount <= q.bal
  BY DEF TypeOK, BalanceInv, ReqFunded, ReqSessions, ReqIdle, IdleReq, ReqAuth,
         ReqCreate, ReqFlushed, ReqCancel, ReqAdjust
<1>1. SUFFICES /\ \A u \in Users : credits'[u] >= 0
               /\ ReqFunded(r)'
               /\ \A s \in Requests \ {r} : req'[s] = req[s]
               /\ run' = run
  BY DEF BalanceInv, BalanceNeverNegative, ReqFunded
<1>2. run' = run /\ \A s \in Requests \ {r} : req'[s] = req[s]
  BY <1>0 DEF RequestStep, RequestProgress, Authenticate, Abandon, CreateRead,
     DuplicateRead, AdminCreate, CancelRead, AdminCancelRead, AdjustRead,
     CreateFlush, KeyConflict, CreateCommit, CancelCommit, AdjustCommit
<1>3. ASSUME NEW u \in Users, Authenticate(r, u)
      PROVE  credits' = credits /\ ReqFunded(r)'
  BY <1>0, <1>3 DEF Authenticate, IdleReq, ReqFunded, BalanceInv, BalanceNeverNegative
<1>4. CASE Abandon(r) \/ KeyConflict(r)
  <2>1. credits' = credits /\ req'[r] = IdleReq
    BY <1>0, <1>4 DEF Abandon, KeyConflict
  <2> QED BY <1>2, <2>1, <1>1 DEF ReqFunded, IdleReq, BalanceInv, BalanceNeverNegative
<1>5. ASSUME NEW j \in Jobs, NEW k \in Keys \cup {None}, NEW cost \in Costs,
             CreateRead(r, j, k, cost)
      PROVE  credits' = credits /\ ReqFunded(r)'
  BY <1>0, <1>5, CostsAssumption DEF CreateRead, CanAfford, ReqFunded
<1>6. ASSUME NEW src \in Jobs, NEW j \in Jobs, NEW cost \in Costs,
             DuplicateRead(r, src, j, cost)
      PROVE  credits' = credits /\ ReqFunded(r)'
  BY <1>0, <1>6, CostsAssumption DEF DuplicateRead, CanAfford, ReqFunded
<1>7. ASSUME NEW j \in Jobs, NEW out \in EnqueueOutcomes, AdminCreate(r, j, out)
      PROVE  credits' = credits /\ ReqFunded(r)'
  BY <1>0, <1>7 DEF AdminCreate, ReqFunded
<1>8. ASSUME NEW j \in Jobs, CancelRead(r, j) \/ AdminCancelRead(r, j)
      PROVE  credits' = credits /\ ReqFunded(r)'
  <2>1. req'[r].pc = "cancel" /\ req'[r].bal = q.bal
    <3>1. CASE CancelRead(r, j)
      <4>1. req'[r] = [q EXCEPT !.pc = "cancel", !.job = j, !.amount = job[j].held]
        BY <1>0, <3>1 DEF CancelRead
      <4> QED BY <1>0, <4>1
              DEF ReqSessions, ReqIdle, IdleReq, ReqAuth, ReqCreate, ReqFlushed,
                  ReqCancel, ReqAdjust
    <3>2. CASE AdminCancelRead(r, j)
      <4>1. req'[r] = [q EXCEPT !.job = j, !.pc = "cancel"]
        BY <1>0, <3>2 DEF AdminCancelRead
      <4> QED BY <1>0, <4>1
              DEF ReqSessions, ReqIdle, IdleReq, ReqAuth, ReqCreate, ReqFlushed,
                  ReqCancel, ReqAdjust
    <3> QED BY <1>8, <3>1, <3>2
  <2> QED BY <1>0, <1>8, <2>1 DEF CancelRead, AdminCancelRead, ReqFunded
<1>9. ASSUME NEW u \in Users, NEW amount \in Adjustments, AdjustRead(r, u, amount)
      PROVE  credits' = credits /\ ReqFunded(r)'
  <2> DEFINE bal == IF u = q.user THEN q.bal ELSE credits[u]
  <2>1. bal >= 0 BY <1>0 DEF BalanceInv, BalanceNeverNegative
  <2>2. /\ credits' = credits
        /\ req'[r] = [IdleReq EXCEPT !.pc = "adjust", !.user = u, !.bal = bal,
                                     !.amount = amount]
    BY <1>0, <1>9 DEF AdjustRead
  <2> HIDE DEF bal
  <2>3. req'[r].pc = "adjust" /\ req'[r].bal = bal BY <2>2 DEF IdleReq
  <2> QED BY <2>1, <2>2, <2>3 DEF ReqFunded
<1>10. ASSUME NEW out \in EnqueueOutcomes, CreateFlush(r, out)
       PROVE  credits' = credits /\ ReqFunded(r)'
  BY <1>0, <1>10 DEF CreateFlush, ReqFunded
<1>11. ASSUME CreateCommit(r) \/ CancelCommit(r) \/ AdjustCommit(r)
       PROVE  ReqFunded(r)' /\ \A u \in Users : credits'[u] >= 0
  <2>1. req'[r] = IdleReq
    BY <1>0, <1>11 DEF CreateCommit, CancelCommit, AdjustCommit
  <2>2. ASSUME CreateCommit(r) PROVE \A u \in Users : credits'[u] >= 0
    <3>1. q.bal - q.amount \in Int /\ q.bal - q.amount >= 0
      BY <1>0, <2>2 DEF CreateCommit
    <3>2. \A u \in Users : credits'[u] = credits[u] \/ credits'[u] = q.bal - q.amount
      BY <1>0, <2>2 DEF CreateCommit
    <3> QED BY <3>1, <3>2 DEF BalanceInv, BalanceNeverNegative
  <2>3. ASSUME CancelCommit(r) PROVE \A u \in Users : credits'[u] >= 0
    <3>1. q.bal + q.amount \in Int /\ q.bal + q.amount >= 0
      BY <1>0, <2>3 DEF CancelCommit
    <3>2. \A u \in Users : credits'[u] = credits[u] \/ credits'[u] = q.bal + q.amount
      BY <1>0, <2>3 DEF CancelCommit, Credited
    <3> QED BY <3>1, <3>2 DEF BalanceInv, BalanceNeverNegative
  <2>4. ASSUME AdjustCommit(r) PROVE \A u \in Users : credits'[u] >= 0
    <3>1. Adjusted(q.bal, q.amount) \in Int /\ Adjusted(q.bal, q.amount) >= 0
      BY <1>0 DEF Adjusted
    <3>2. \A u \in Users : credits'[u] = credits[u] \/ credits'[u] = Adjusted(q.bal, q.amount)
      BY <1>0, <2>4 DEF AdjustCommit
    <3> QED BY <3>1, <3>2 DEF BalanceInv, BalanceNeverNegative
  <2> QED BY <1>11, <2>1, <2>2, <2>3, <2>4 DEF ReqFunded, IdleReq
<1> QED
  BY <1>1, <1>2, <1>3, <1>4, <1>5, <1>6, <1>7, <1>8, <1>9, <1>10, <1>11
  DEF RequestStep, RequestProgress, BalanceInv, BalanceNeverNegative

\* The worker writes a balance it has read plus the credits it has seen held.
LEMMA WorkerBalanceInv ==
  ASSUME TypeOK, BalanceInv, NEW j \in Jobs, WorkerStep(j)
  PROVE  BalanceInv'
<1>0. /\ run[j] \in RunSessions /\ run \in [Jobs -> RunSessions]
      /\ run[j].bal \in Int /\ run[j].bal >= 0 /\ run[j].held \in Nat
      /\ job[j] \in JobRows /\ credits \in [Users -> Int]
  BY DEF TypeOK, BalanceInv, RunSessions
<1>1. req' = req
  BY DEF WorkerStep, WorkerProgress, PickUp, GiveUp, Return, Raise, Fetch, Start,
     CheckCancelled, Generate, Complete, RefundCommit, LoadModel, Fail, Crash,
     Timeout, DbError, EndDelivery, CommitStatus
<1>2. \A i \in Jobs \ {j} : run'[i] = run[i]
  BY <1>0 DEF WorkerStep, WorkerProgress, PickUp, GiveUp, Return, Raise, Fetch,
     Start, CheckCancelled, Generate, Complete, RefundCommit, LoadModel, Fail,
     Crash, Timeout, DbError, EndDelivery, CommitStatus
<1>3. HasHold(j) => job[j].owner \in Users /\ credits[job[j].owner] >= 0
  BY <1>0 DEF HasHold, JobRows, BalanceInv, BalanceNeverNegative
<1>4. run'[j].bal >= 0
  <2>1. CASE PickUp(j) \/ Return(j) \/ Raise(j) \/ Complete(j) \/ RefundCommit(j)
               \/ Crash(j) \/ Timeout(j) \/ DbError(j)
    <3>1. \/ run'[j] = IdleRun
          \/ run'[j] = [IdleRun EXCEPT !.pc = "picked"]
          \/ run'[j] = [IdleRun EXCEPT !.pc = "raised"]
          \/ run'[j] = [IdleRun EXCEPT !.pc = "returned"]
      BY <1>0, <2>1 DEF PickUp, Return, Raise, Complete, RefundCommit, Crash,
         Timeout, DbError, EndDelivery
    <3> QED BY <3>1 DEF IdleRun
  <2>2. CASE GiveUp(j)
    BY <1>0, <2>2 DEF GiveUp
  <2>5. CASE Fetch(j)
    <3>1. \/ run'[j] = [IdleRun EXCEPT !.pc = "returned"]
          \/ run'[j] = [IdleRun EXCEPT !.pc = "fetched", !.status = job[j].status,
                           !.held = job[j].held, !.retries = job[j].retries]
      BY <1>0, <2>5 DEF Fetch
    <3>2. [IdleRun EXCEPT !.pc = "returned"].bal = 0 BY DEF IdleRun
    <3>3. [IdleRun EXCEPT !.pc = "fetched", !.status = job[j].status,
                          !.held = job[j].held, !.retries = job[j].retries].bal = 0
      BY DEF IdleRun
    <3>4. run'[j].bal = 0 BY <3>1, <3>2, <3>3, Zenon
    <3> QED BY <3>4
  <2>6. CASE Start(j) \/ LoadModel(j) \/ Generate(j)
    <3>1. ASSUME NEW status, NEW pc, CommitStatus(j, status, pc)
          PROVE  run'[j].bal = run[j].bal
      <4>1. run'[j] = [run[j] EXCEPT !.status = status, !.pc = pc]
        BY <1>0, <3>1 DEF CommitStatus
      <4> QED BY <1>0, <4>1 DEF RunSessions
    <3>2. run'[j].bal = run[j].bal
      BY <2>6, <3>1 DEF Start, LoadModel, Generate
    <3> QED BY <1>0, <3>2
  <2>3. CASE CheckCancelled(j)
    <3>1. CASE job[j].status # "cancelled"
      <4>1. run'[j] = [run[j] EXCEPT !.pc = "checked", !.status = job[j].status]
        BY <1>0, <2>3, <3>1 DEF CheckCancelled
      <4> QED BY <1>0, <4>1 DEF RunSessions
    <3>2. CASE job[j].status = "cancelled" /\ HasHold(j)
      <4>1. run'[j] = [run[j] EXCEPT !.pc = "refund_cancel", !.status = "cancelled",
                                     !.bal = credits[job[j].owner]]
        BY <1>0, <2>3, <3>2 DEF CheckCancelled
      <4>2. run'[j].bal = credits[job[j].owner] BY <1>0, <4>1 DEF RunSessions
      <4> QED BY <1>3, <3>2, <4>2
    <3>3. CASE job[j].status = "cancelled" /\ ~HasHold(j)
      <4>1. run'[j] = [IdleRun EXCEPT !.pc = "returned"]
        BY <1>0, <2>3, <3>3 DEF CheckCancelled
      <4> QED BY <4>1 DEF IdleRun
    <3> QED BY <3>1, <3>2, <3>3
  <2>4. CASE Fail(j)
    <3>1. CASE Exhausted(run[j].retries + 1) /\ HasHold(j)
      <4>1. run'[j] = [run[j] EXCEPT !.pc = "refund_fail",
                                     !.bal = credits[job[j].owner]]
        BY <1>0, <2>4, <3>1 DEF Fail
      <4>2. run'[j].bal = credits[job[j].owner] BY <1>0, <4>1 DEF RunSessions
      <4> QED BY <1>3, <3>1, <4>2
    <3>2. CASE ~(Exhausted(run[j].retries + 1) /\ HasHold(j))
      <4>1. \/ run'[j] = [IdleRun EXCEPT !.pc = "raised"]
            \/ run'[j] = [IdleRun EXCEPT !.pc = "returned"]
        BY <1>0, <2>4, <3>2 DEF Fail
      <4> QED BY <4>1 DEF IdleRun
    <3> QED BY <3>1, <3>2
  <2> QED BY <2>1, <2>2, <2>3, <2>4, <2>5, <2>6 DEF WorkerStep, WorkerProgress
<1>5. \A u \in Users : credits'[u] >= 0
  <2>1. CASE RefundCommit(j)
    <3>1. run[j].bal + run[j].held \in Int /\ run[j].bal + run[j].held >= 0
      BY <1>0
    <3>2. \A u \in Users : \/ credits'[u] = credits[u]
                            \/ credits'[u] = run[j].bal + run[j].held
      BY <1>0, <2>1 DEF RefundCommit, Credited
    <3> QED BY <3>1, <3>2 DEF BalanceInv, BalanceNeverNegative
  <2>2. CASE ~RefundCommit(j)
    <3>1. credits' = credits
      BY <2>2 DEF WorkerStep, WorkerProgress, PickUp, GiveUp, Return, Raise, Fetch,
         Start, CheckCancelled, Generate, Complete, LoadModel, Fail, Crash,
         Timeout, DbError, EndDelivery, CommitStatus
    <3> QED BY <3>1 DEF BalanceInv, BalanceNeverNegative
  <2> QED BY <2>1, <2>2
<1> QED BY <1>1, <1>2, <1>4, <1>5 DEF BalanceInv, BalanceNeverNegative, ReqFunded

LEMMA BalanceInvariant == Spec => []BalanceInv
<1>1. TypeOK /\ BalanceInv /\ [Next]_vars => BalanceInv'
  <2> SUFFICES ASSUME TypeOK, BalanceInv, [Next]_vars PROVE BalanceInv'
    OBVIOUS
  <2>1. CASE UNCHANGED vars
    BY <2>1 DEF vars, BalanceInv, BalanceNeverNegative, ReqFunded
  <2> QED BY <2>1, RequestBalanceInv, WorkerBalanceInv DEF Next
<1> QED BY InitBalanceInv, <1>1, TypeCorrect, PTL DEF Spec

\* No interleaving of the handlers and the worker makes a balance negative.
THEOREM BalanceSafe == Spec => []BalanceNeverNegative
<1>1. BalanceInv => BalanceNeverNegative BY DEF BalanceInv
<1> QED BY <1>1, BalanceInvariant, PTL

-----------------------------------------------------------------------------
(* Settlement                                                              *)

\* The fields of a row after each of the worker's writes.
LEMMA ChargedFields ==
  ASSUME NEW row \in JobRows, NEW held
  PROVE  /\ Charged(row, held).status = "completed"
         /\ Charged(row, held).held = 0
         /\ Charged(row, held).owner = row.owner
         /\ Charged(row, held).charged = held
  BY DEF Charged, JobRows

LEMMA CancelledFields ==
  ASSUME NEW row \in JobRows, NEW amount \in Nat
  PROVE  /\ Cancelled(row, amount).status = "cancelled"
         /\ Cancelled(row, amount).owner = row.owner
         /\ Cancelled(row, amount).held = IF amount > 0 THEN 0 ELSE row.held
         /\ Cancelled(row, amount).charged = row.charged
<1> DEFINE h == IF amount > 0 THEN 0 ELSE row.held
<1>1. Cancelled(row, amount) = [row EXCEPT !.status = "cancelled", !.held = h]
  BY DEF Cancelled, JobRows
<1> HIDE DEF h
<1>2. /\ [row EXCEPT !.status = "cancelled", !.held = h].status = "cancelled"
      /\ [row EXCEPT !.status = "cancelled", !.held = h].owner = row.owner
      /\ [row EXCEPT !.status = "cancelled", !.held = h].held = h
      /\ [row EXCEPT !.status = "cancelled", !.held = h].charged = row.charged
  BY DEF JobRows
<1> QED BY <1>1, <1>2 DEF h

LEMMA CancelRowFields ==
  ASSUME NEW rows \in LedgerRows, NEW u \in Users
  PROVE  /\ CancelRow(rows, u).hold = rows.hold
         /\ CancelRow(rows, u).charge = rows.charge
         /\ CancelRow(rows, u).refund = rows.refund
         /\ CancelRow(rows, u).cancel[u] = rows.cancel[u] + 1
  BY DEF CancelRow, LedgerRows

LEMMA RefundedFields ==
  ASSUME NEW row \in JobRows
  PROVE  /\ Refunded(row) \in JobRows
         /\ Refunded(row).status = row.status
         /\ Refunded(row).held = 0
         /\ Refunded(row).owner = row.owner
         /\ Refunded(row).charged = row.charged
         /\ Refunded(row).retries = row.retries
  BY DEF Refunded, JobRows

LEMMA FailedFields ==
  ASSUME NEW row \in JobRows, NEW attempts
  PROVE  /\ Failed(row, attempts).status = "failed"
         /\ Failed(row, attempts).held = row.held
         /\ Failed(row, attempts).owner = row.owner
         /\ Failed(row, attempts).charged = row.charged
         /\ Failed(row, attempts).retries = attempts
  BY DEF Failed, JobRows

LEMMA RowFields ==
  ASSUME NEW rows \in LedgerRows
  PROVE  /\ ChargeRow(rows).charge = rows.charge + 1
         /\ ChargeRow(rows).refund = rows.refund
         /\ ChargeRow(rows).cancel = rows.cancel
         /\ ChargeRow(rows).hold = rows.hold
         /\ RefundRow(rows).charge = rows.charge
         /\ RefundRow(rows).refund = rows.refund + 1
         /\ RefundRow(rows).cancel = rows.cancel
         /\ RefundRow(rows).hold = rows.hold
  BY DEF ChargeRow, RefundRow, LedgerRows

\* A delivery that ends, or has not read the row yet, leaves the job as it is.
LEMMA NotInHand ==
  ASSUME TypeOK, NEW j \in Jobs, JobInv(j),
         job'[j] = job[j], ledger'[j] = ledger[j],
         run'[j].pc \notin InHand, run'[j].held = 0
  PROVE  JobInv(j)'
  BY DEF JobInv, Exists, Owned, HasHold, Unsettled, InHand, InSession

\* A step of the worker keeps its job's invariant and neither stores a new job
\* nor removes one nor changes the owner.
LEMMA WorkerJobInv ==
  ASSUME TypeOK, NEW j \in Jobs, JobInv(j), WorkerStep(j)
  PROVE  /\ JobInv(j)'
         /\ Exists(j)' <=> Exists(j)
         /\ job'[j].owner = job[j].owner
<1> DEFINE Kept == (Exists(j)' <=> Exists(j)) /\ job'[j].owner = job[j].owner
<1>0. /\ job[j] \in JobRows /\ job \in [Jobs -> JobRows]
      /\ ledger[j] \in LedgerRows /\ ledger \in [Jobs -> LedgerRows]
      /\ run[j] \in RunSessions /\ run \in [Jobs -> RunSessions]
  BY DEF TypeOK
<1>1. /\ job[j].held \in Nat /\ job[j].retries \in Nat
      /\ run[j].held \in Nat /\ run[j].retries \in Nat
      /\ ledger[j].charge \in Nat /\ ledger[j].refund \in Nat
      /\ ledger[j].cancel \in [Users -> Nat]
  BY <1>0 DEF JobRows, RunSessions, LedgerRows
<1>2. CASE PickUp(j) \/ Return(j) \/ Raise(j) \/ Crash(j) \/ Timeout(j) \/ DbError(j)
  <2>1. /\ job' = job /\ ledger' = ledger
        /\ \/ run'[j] = IdleRun
           \/ run'[j] = [IdleRun EXCEPT !.pc = "picked"]
           \/ run'[j] = [IdleRun EXCEPT !.pc = "raised"]
    BY <1>0, <1>2 DEF PickUp, Return, Raise, Crash, Timeout, DbError, EndDelivery
  <2>2. run'[j].pc \notin InHand /\ run'[j].held = 0
    BY <2>1 DEF IdleRun, InHand, InSession
  <2> QED BY <2>1, <2>2, NotInHand DEF Exists
<1>3. CASE GiveUp(j)
  BY <1>3 DEF GiveUp, JobInv, Exists, Owned, HasHold, Unsettled
<1>4. CASE Fetch(j)
  <2>1. job' = job /\ ledger' = ledger BY <1>4 DEF Fetch
  <2>2. CASE job[j].status \in {"absent", "cancelled"}
    <3>1. run'[j] = [IdleRun EXCEPT !.pc = "returned"]
      BY <1>0, <1>4, <2>2 DEF Fetch
    <3>2. run'[j].pc \notin InHand /\ run'[j].held = 0
      BY <3>1 DEF IdleRun, InHand, InSession
    <3> QED BY <2>1, <3>2, NotInHand DEF Exists
  <2>3. CASE job[j].status \notin {"absent", "cancelled"}
    <3>1. run'[j] = [IdleRun EXCEPT !.pc = "fetched", !.status = job[j].status,
                                    !.held = job[j].held, !.retries = job[j].retries]
      BY <1>0, <1>4, <2>3 DEF Fetch
    <3>2. run'[j].pc = "fetched" /\ run'[j].held = job[j].held
      BY <3>1 DEF IdleRun
    <3> QED BY <1>1, <2>1, <2>3, <3>2
            DEF JobInv, Exists, Owned, HasHold, Unsettled, InHand, InSession
  <2> QED BY <2>2, <2>3
<1>5. CASE Start(j) \/ LoadModel(j) \/ Generate(j)
  <2>1. ASSUME NEW status \in {"processing", "loading_model"},
               NEW pc \in {"started", "loading", "generating"},
               run[j].pc \in {"fetched", "started", "checked"},
               CommitStatus(j, status, pc)
        PROVE  JobInv(j)' /\ Kept
    <3>1. /\ ledger' = ledger
          /\ run'[j] = [run[j] EXCEPT !.status = status, !.pc = pc]
          /\ job'[j] = job[j] \/ job'[j] = [job[j] EXCEPT !.status = status]
      BY <1>0, <2>1 DEF CommitStatus
    <3>2. run'[j].pc = pc /\ run'[j].held = run[j].held
      BY <1>0, <3>1 DEF RunSessions
    <3>3. /\ job'[j].status = job[j].status \/ job'[j].status = status
          /\ job'[j].held = job[j].held /\ job'[j].owner = job[j].owner
          /\ job'[j].retries = job[j].retries
      BY <1>0, <3>1 DEF JobRows
    <3> QED BY <1>1, <2>1, <3>1, <3>2, <3>3
            DEF JobInv, Exists, Owned, HasHold, Unsettled, InHand, InSession
  <2> QED BY <1>5, <2>1 DEF Start, LoadModel, Generate
<1>6. CASE CheckCancelled(j)
  <2>1. job' = job /\ ledger' = ledger /\ run[j].pc \in {"started", "loading"}
    BY <1>6 DEF CheckCancelled
  <2>2. CASE job[j].status # "cancelled"
    <3>1. run'[j] = [run[j] EXCEPT !.pc = "checked", !.status = job[j].status]
      BY <1>0, <1>6, <2>2 DEF CheckCancelled
    <3>2. run'[j].pc = "checked" /\ run'[j].held = run[j].held
      BY <1>0, <3>1 DEF RunSessions
    <3> QED BY <1>1, <2>1, <3>2
            DEF JobInv, Exists, Owned, HasHold, Unsettled, InHand, InSession
  <2>3. CASE job[j].status = "cancelled" /\ HasHold(j)
    <3>1. run'[j] = [run[j] EXCEPT !.pc = "refund_cancel", !.status = "cancelled",
                                   !.bal = credits[job[j].owner]]
      BY <1>0, <1>6, <2>3 DEF CheckCancelled
    <3>2. run'[j].pc = "refund_cancel" /\ run'[j].held = run[j].held
      BY <1>0, <3>1 DEF RunSessions
    <3> QED BY <1>1, <2>1, <2>3, <3>2
            DEF JobInv, Exists, Owned, HasHold, Unsettled, InHand, InSession
  <2>4. CASE job[j].status = "cancelled" /\ ~HasHold(j)
    <3>1. run'[j] = [IdleRun EXCEPT !.pc = "returned"]
      BY <1>0, <1>6, <2>4 DEF CheckCancelled
    <3>2. run'[j].pc \notin InHand /\ run'[j].held = 0
      BY <3>1 DEF IdleRun, InHand, InSession
    <3> QED BY <2>1, <3>2, NotInHand DEF Exists
  <2> QED BY <2>2, <2>3, <2>4
<1>7. CASE Complete(j)
  <2>1. run'[j] = [IdleRun EXCEPT !.pc = "returned"] /\ run[j].pc = "generating"
    BY <1>0, <1>7 DEF Complete
  <2>2. run'[j].pc = "returned" /\ run'[j].held = 0
    BY <2>1 DEF IdleRun
  <2>3. CASE HasHold(j)
    <3>1. job'[j] = Charged(job[j], run[j].held) /\ ledger'[j] = ChargeRow(ledger[j])
      BY <1>0, <1>7, <2>3 DEF Complete
    <3>2. /\ job'[j].status = "completed" /\ job'[j].held = 0
          /\ job'[j].owner = job[j].owner
      BY <1>0, <3>1, ChargedFields
    <3>3. /\ ledger'[j].charge = ledger[j].charge + 1
          /\ ledger'[j].refund = ledger[j].refund
          /\ ledger'[j].hold = ledger[j].hold
      BY <1>0, <3>1, RowFields
    <3> QED BY <1>1, <2>1, <2>2, <2>3, <3>2, <3>3
            DEF JobInv, Exists, Owned, HasHold, Unsettled, InHand, InSession
  <2>4. CASE ~HasHold(j)
    <3>1. /\ job'[j] = [job[j] EXCEPT !.status = "completed"]
          /\ ledger'[j] = ledger[j]
      BY <1>0, <1>7, <2>4 DEF Complete
    <3>2. /\ job'[j].status = "completed" /\ job'[j].held = job[j].held
          /\ job'[j].owner = job[j].owner
      BY <1>0, <3>1 DEF JobRows
    <3>3. job[j].held = 0
      BY <1>1, <2>1, <2>4 DEF JobInv, HasHold, InHand, InSession
    <3> QED BY <1>1, <2>1, <2>2, <3>1, <3>2, <3>3
            DEF JobInv, Exists, Owned, HasHold, Unsettled, InHand, InSession
  <2> QED BY <2>3, <2>4
<1>8. CASE Fail(j)
  <2> DEFINE attempts == run[j].retries + 1
  <2>1. ledger' = ledger /\ run[j].pc \in {"started", "loading", "generating"}
    BY <1>8 DEF Fail
  <2>2. CASE Exhausted(attempts) /\ HasHold(j)
    <3>1. /\ job' = job
          /\ run'[j] = [run[j] EXCEPT !.pc = "refund_fail",
                                      !.bal = credits[job[j].owner]]
      BY <1>0, <1>8, <2>2 DEF Fail
    <3>2. run'[j].pc = "refund_fail" /\ run'[j].held = run[j].held
      BY <1>0, <3>1 DEF RunSessions
    <3> QED BY <1>1, <2>1, <2>2, <3>1, <3>2
            DEF JobInv, Exists, Owned, HasHold, Unsettled, InHand, InSession
  <2>3. CASE ~(Exhausted(attempts) /\ HasHold(j))
    <3>1. /\ job'[j] = Failed(job[j], attempts)
          /\ \/ run'[j] = [IdleRun EXCEPT !.pc = "raised"]
             \/ run'[j] = [IdleRun EXCEPT !.pc = "returned"]
      BY <1>0, <1>8, <2>3 DEF Fail
    <3>2. run'[j].pc \notin InHand /\ run'[j].held = 0
      BY <3>1 DEF IdleRun, InHand, InSession
    <3>3. /\ job'[j].status = "failed" /\ job'[j].held = job[j].held
          /\ job'[j].owner = job[j].owner /\ job'[j].retries = attempts
      BY <1>0, <3>1, FailedFields
    <3>4. attempts >= MaxRetries => job[j].held = 0
      BY <1>1, <2>1, <2>3 DEF Exhausted, JobInv, HasHold, InHand, InSession
    <3> HIDE DEF attempts
    <3> QED BY <1>1, <2>1, <3>2, <3>3, <3>4
            DEF JobInv, Exists, Owned, HasHold, Unsettled, InHand, InSession
  <2> QED BY <2>2, <2>3
<1>9. CASE RefundCommit(j)
  <2>1. /\ run'[j] = [IdleRun EXCEPT !.pc = "returned"]
        /\ run[j].pc \in {"refund_cancel", "refund_fail"}
        /\ ledger'[j] = RefundRow(ledger[j])
        /\ \/ job'[j] = Refunded(job[j])
           \/ job'[j] = Failed(Refunded(job[j]), run[j].retries + 1)
    BY <1>0, <1>9 DEF RefundCommit
  <2>2. run'[j].pc = "returned" /\ run'[j].held = 0
    BY <2>1 DEF IdleRun
  <2>3. /\ job'[j].status = job[j].status \/ job'[j].status = "failed"
        /\ job'[j].held = 0 /\ job'[j].owner = job[j].owner
    BY <1>0, <2>1, RefundedFields, FailedFields
  <2>4. /\ ledger'[j].charge = ledger[j].charge
        /\ ledger'[j].refund = ledger[j].refund + 1
        /\ ledger'[j].hold = ledger[j].hold
    BY <1>0, <2>1, RowFields
  <2> QED BY <1>1, <2>1, <2>2, <2>3, <2>4
          DEF JobInv, Exists, Owned, HasHold, Unsettled, InHand, InSession
<1> QED
  BY <1>2, <1>3, <1>4, <1>5, <1>6, <1>7, <1>8, <1>9 DEF WorkerStep, WorkerProgress

\* A job whose row, ledger rows and worker session a step leaves alone.
LEMMA SameJob ==
  ASSUME NEW i \in Jobs, JobInv(i), job'[i] = job[i], ledger'[i] = ledger[i],
         run'[i] = run[i]
  PROVE  JobInv(i)'
  BY DEF JobInv, Exists, Owned, HasHold, Unsettled

LEMMA WorkerFrame ==
  ASSUME TypeOK, NEW j \in Jobs, WorkerStep(j), NEW i \in Jobs \ {j}
  PROVE  job'[i] = job[i] /\ ledger'[i] = ledger[i] /\ run'[i] = run[i]
  BY DEF TypeOK, WorkerStep, WorkerProgress, PickUp, GiveUp, Return, Raise, Fetch,
     Start, CheckCancelled, Generate, Complete, RefundCommit, LoadModel, Fail,
     Crash, Timeout, DbError, EndDelivery, CommitStatus

\* A request that is minting or cancelling names a job.
LEMMA NamedJob ==
  ASSUME TypeOK, NEW r \in Requests, req[r].pc \in {"create", "flushed", "cancel"}
  PROVE  req[r].job \in Jobs
  BY DEF TypeOK, ReqSessions, ReqIdle, IdleReq, ReqAuth, ReqCreate, ReqFlushed,
     ReqCancel, ReqAdjust

\* A step of the worker keeps what the handlers and the jobs rely on.
LEMMA WorkerSettlementInv ==
  ASSUME TypeOK, SettlementInv, NEW j \in Jobs, WorkerStep(j)
  PROVE  SettlementInv'
<1>1. \A i \in Jobs : JobInv(i)'
  BY WorkerJobInv, WorkerFrame, SameJob DEF SettlementInv
<1>2. \A i \in Jobs : (Exists(i)' <=> Exists(i)) /\ job'[i].owner = job[i].owner
  BY WorkerJobInv, WorkerFrame DEF SettlementInv, Exists
<1>3. req' = req
  BY DEF WorkerStep, WorkerProgress, PickUp, GiveUp, Return, Raise, Fetch, Start,
     CheckCancelled, Generate, Complete, RefundCommit, LoadModel, Fail, Crash,
     Timeout, DbError, EndDelivery, CommitStatus
<1>4. ASSUME NEW r \in Requests PROVE ReqInv(r)'
  <2>1. ReqInv(r) BY DEF SettlementInv
  <2> QED BY <1>2, <1>3, <2>1, NamedJob DEF ReqInv, Minting, Owned, Exists
<1> QED BY <1>1, <1>4 DEF SettlementInv

\* A step of a handler that writes nothing keeps the invariant when what its
\* session now has in hand fits the jobs and the other sessions.
LEMMA ReadingSettlementInv ==
  ASSUME TypeOK, SettlementInv, NEW r \in Requests, NEW q,
         req' = [req EXCEPT ![r] = q],
         job' = job, ledger' = ledger, run' = run,
         q.pc \in {"create", "flushed"} =>
           ~Exists(q.job) /\ \A s \in Requests \ {r} : req[s].job # q.job,
         q.pc = "flushed" => (q.user = None <=> q.amount = 0),
         q.pc = "cancel" => Exists(q.job) /\ (q.amount > 0 => Owned(q.job)),
         \A s \in Requests \ {r} : Minting(s) => req[s].job # q.job
  PROVE  SettlementInv'
<1>1. \A j \in Jobs : JobInv(j)' BY SameJob DEF SettlementInv
<1>2. req'[r] = q /\ \A s \in Requests \ {r} : req'[s] = req[s]
  BY DEF TypeOK
<1>3. ReqInv(r)'
  BY <1>2 DEF ReqInv, Minting, Exists, Owned
<1>4. ASSUME NEW s \in Requests \ {r} PROVE ReqInv(s)'
  <2>1. ReqInv(s) BY DEF SettlementInv
  <2> QED BY <1>2, <2>1 DEF ReqInv, Minting, Exists, Owned
<1> QED BY <1>1, <1>3, <1>4 DEF SettlementInv

\* The commit of a creation stores a row that holds what its session debited.
LEMMA CreateCommitSettlementInv ==
  ASSUME TypeOK, SettlementInv, NEW r \in Requests, CreateCommit(r)
  PROVE  SettlementInv'
<1> SUFFICES ASSUME NEW q \in ReqFlushed, q = req[r], NEW j \in Jobs, j = q.job
             PROVE  SettlementInv'
  <2>1. req[r] \in ReqFlushed /\ req[r].job \in Jobs
    BY DEF CreateCommit, TypeOK, ReqSessions, ReqIdle, IdleReq, ReqAuth, ReqCreate,
       ReqFlushed, ReqCancel, ReqAdjust
  <2> QED BY <2>1
<1>0. /\ req \in [Requests -> ReqSessions] /\ job \in [Jobs -> JobRows]
      /\ ledger \in [Jobs -> LedgerRows] /\ run[j] \in RunSessions
      /\ run' = run
  BY DEF CreateCommit, TypeOK
<1>1. /\ q.status \in Cancellable /\ q.amount \in Nat /\ q.user \in Users \cup {None}
      /\ q.pc = "flushed"
  BY <1>0 DEF ReqFlushed
<1>2. /\ ~Exists(j) /\ (q.user = None <=> q.amount = 0)
      /\ \A s \in Requests : req[s].job = j => s = r
  BY <1>1 DEF SettlementInv, ReqInv, Minting
<1>3. /\ req'[r] = IdleReq
      /\ job'[j] = [NoJob EXCEPT !.status = q.status, !.owner = q.user,
                                 !.held = q.amount, !.key = q.key]
      /\ ledger'[j] = [ledger[j] EXCEPT !.hold = q.amount]
      /\ \A i \in Jobs \ {j} : job'[i] = job[i] /\ ledger'[i] = ledger[i]
      /\ \A s \in Requests \ {r} : req'[s] = req[s]
  BY <1>0 DEF CreateCommit
<1>4. /\ job'[j].status = q.status /\ job'[j].owner = q.user
      /\ job'[j].held = q.amount
  BY <1>3 DEF NoJob
<1>5. /\ ledger'[j].hold = q.amount /\ ledger'[j].charge = ledger[j].charge
      /\ ledger'[j].refund = ledger[j].refund /\ ledger'[j].cancel = ledger[j].cancel
  BY <1>0, <1>3 DEF LedgerRows
<1>6. JobInv(j)'
  <2>1. Unsettled(ledger[j]) /\ run[j].pc \notin InHand /\ run[j].held = 0
    BY <1>0, <1>2 DEF SettlementInv, JobInv
  <2>2. Unsettled(ledger[j])' BY <1>5, <2>1 DEF Unsettled
  <2>3. (ledger[j].charge = 0 /\ ledger[j].refund = 0)' BY <2>2 DEF Unsettled
  <2>4. (run[j].pc \notin InHand /\ run[j].held = 0)' BY <1>0, <2>1
  <2>5. (Exists(j))' BY <1>1, <1>4 DEF Exists, Cancellable
  <2>6. (job[j].status \notin {"completed", "failed"})'
    BY <1>1, <1>4 DEF Cancellable
  <2> QED
    BY <1>1, <1>2, <1>4, <1>5, <2>2, <2>3, <2>4, <2>5, <2>6
    DEF JobInv, Owned, InHand, InSession
<1>7. ASSUME NEW s \in Requests PROVE ReqInv(s)'
  <2>1. CASE s = r BY <1>3, <2>1 DEF IdleReq, ReqInv, Minting
  <2>2. CASE s # r
    <3>1. ReqInv(s) /\ req'[s] = req[s] /\ req[s].job # j
      BY <1>2, <1>3, <2>2 DEF SettlementInv
    <3>2. Minting(s) \/ req[s].pc = "cancel" => req[s].job \in Jobs \ {j}
      BY <3>1, NamedJob DEF Minting
    <3>3. ASSUME NEW t \in Requests, Minting(s), req'[t].job = req[s].job
          PROVE  t = s
      <4>1. t # r BY <1>3, <3>2, <3>3, UsersAssumption DEF IdleReq
      <4> QED BY <1>3, <3>1, <3>3, <4>1 DEF ReqInv
    <3> QED BY <1>3, <3>1, <3>2, <3>3 DEF ReqInv, Minting, Exists, Owned
  <2> QED BY <2>1, <2>2
<1> QED BY <1>0, <1>3, <1>6, <1>7, SameJob DEF SettlementInv

\* The commit of a cancellation gives up the hold only with a refund row.
LEMMA CancelCommitSettlementInv ==
  ASSUME TypeOK, SettlementInv, NEW r \in Requests, CancelCommit(r)
  PROVE  SettlementInv'
<1> SUFFICES ASSUME NEW q \in ReqCancel, q = req[r], NEW j \in Jobs, j = q.job
             PROVE  SettlementInv'
  <2>1. req[r] \in ReqCancel /\ req[r].job \in Jobs
    BY DEF CancelCommit, TypeOK, ReqSessions, ReqIdle, IdleReq, ReqAuth, ReqCreate,
       ReqFlushed, ReqCancel, ReqAdjust
  <2> QED BY <2>1
<1>0. /\ req \in [Requests -> ReqSessions] /\ job \in [Jobs -> JobRows]
      /\ ledger \in [Jobs -> LedgerRows] /\ run[j] \in RunSessions
      /\ job[j] \in JobRows /\ ledger[j] \in LedgerRows /\ run' = run
  BY DEF CancelCommit, TypeOK
<1>1. /\ q.amount \in Nat /\ q.user \in Users /\ q.pc = "cancel"
  BY DEF ReqCancel
<1>2. Exists(j) /\ (q.amount > 0 => Owned(j)) /\ JobInv(j)
  BY <1>1 DEF SettlementInv, ReqInv
<1>3. /\ req'[r] = IdleReq
      /\ job'[j] = Cancelled(job[j], q.amount)
      /\ \A i \in Jobs \ {j} : job'[i] = job[i] /\ ledger'[i] = ledger[i]
      /\ \A s \in Requests \ {r} : req'[s] = req[s]
      /\ q.amount = 0 => ledger'[j] = ledger[j]
      /\ q.amount > 0 => ledger'[j] = CancelRow(ledger[j], q.user)
  BY <1>0, <1>1 DEF CancelCommit
<1>4. /\ job'[j].status = "cancelled" /\ job'[j].owner = job[j].owner
      /\ job'[j].held = IF q.amount > 0 THEN 0 ELSE job[j].held
  BY <1>0, <1>1, <1>3, CancelledFields
<1>5. (Exists(j)' <=> Exists(j)) /\ (Owned(j)' <=> Owned(j))
  BY <1>2, <1>4 DEF Exists, Owned
<1>6. JobInv(j)'
  <2>1. CASE q.amount = 0
    BY <1>0, <1>2, <1>3, <1>4, <1>5, <2>1
    DEF JobInv, HasHold, Unsettled, InHand, InSession
  <2>2. CASE q.amount > 0
    <3>1. /\ ledger'[j].hold = ledger[j].hold
          /\ ledger'[j].charge = ledger[j].charge
          /\ ledger'[j].refund = ledger[j].refund
          /\ ledger'[j].cancel[q.user] = ledger[j].cancel[q.user] + 1
          /\ ledger[j].cancel[q.user] \in Nat
      BY <1>0, <1>1, <1>3, <2>2, CancelRowFields DEF LedgerRows
    <3>2. job'[j].held = 0 BY <1>4, <2>2
    <3>3. ~Unsettled(ledger[j])' BY <1>1, <3>1 DEF Unsettled
    <3>4. run'[j] = run[j] BY <1>0
    <3> QED BY <1>2, <1>4, <1>5, <3>1, <3>2, <3>3, <3>4
            DEF JobInv, HasHold, InHand, InSession
  <2> QED BY <1>1, <2>1, <2>2
<1>7. ASSUME NEW s \in Requests PROVE ReqInv(s)'
  <2>1. CASE s = r BY <1>3, <2>1 DEF IdleReq, ReqInv, Minting
  <2>2. CASE s # r
    <3>1. ReqInv(s) /\ req'[s] = req[s]
      BY <1>3, <2>2 DEF SettlementInv
    <3>2. \A i \in Jobs : (Exists(i)' <=> Exists(i)) /\ (Owned(i)' <=> Owned(i))
      BY <1>3, <1>5 DEF Exists, Owned
    <3>3. Minting(s) \/ req[s].pc = "cancel" => req[s].job \in Jobs
      BY NamedJob DEF Minting
    <3>4. ASSUME NEW t \in Requests, Minting(s), req'[t].job = req[s].job
          PROVE  t = s
      <4>1. t # r BY <1>3, <3>3, <3>4, UsersAssumption DEF IdleReq
      <4> QED BY <1>3, <3>1, <3>4, <4>1 DEF ReqInv
    <3> QED BY <3>1, <3>2, <3>3, <3>4 DEF ReqInv, Minting
  <2> QED BY <2>1, <2>2
<1> QED BY <1>0, <1>3, <1>6, <1>7, SameJob DEF SettlementInv

\* A handler's step keeps the invariant: it mints an id nobody knows, goes on
\* with what it has, or commits.
LEMMA RequestSettlementInv ==
  ASSUME TypeOK, SettlementInv, NEW r \in Requests, RequestStep(r)
  PROVE  SettlementInv'
<1> DEFINE q == req[r]
<1> USE UsersAssumption
<1>0. /\ q \in ReqSessions
      /\ q.pc = "auth" => q \in ReqAuth
      /\ q.pc = "create" => q \in ReqCreate
      /\ \A s \in Requests : Minting(s) => req[s].job \in Jobs /\ ~Exists(req[s].job)
      /\ \A s, t \in Requests : Minting(s) /\ req[t].job = req[s].job => t = s
      /\ \A j \in Jobs : job[j].held > 0 => job[j].owner # None
  BY NamedJob DEF TypeOK, ReqSessions, ReqIdle, IdleReq, ReqAuth, ReqCreate,
     ReqFlushed, ReqCancel, ReqAdjust, SettlementInv, ReqInv, Minting, JobInv, JobRows
<1>1. ASSUME NEW u \in Users, Authenticate(r, u) PROVE SettlementInv'
  <2> DEFINE new == [IdleReq EXCEPT !.pc = "auth", !.user = u, !.bal = credits[u]]
  <2>1. new.pc = "auth" /\ new.job = None BY DEF IdleReq
  <2>2. /\ req' = [req EXCEPT ![r] = new]
        /\ job' = job /\ ledger' = ledger /\ run' = run
    BY <1>1 DEF Authenticate
  <2> HIDE DEF new
  <2> QED BY <1>0, <2>1, <2>2, ReadingSettlementInv
<1>2. CASE Abandon(r) \/ KeyConflict(r)
  <2>1. IdleReq.pc = "idle" /\ IdleReq.job = None BY DEF IdleReq
  <2>2. /\ req' = [req EXCEPT ![r] = IdleReq]
        /\ job' = job /\ ledger' = ledger /\ run' = run
    BY <1>2 DEF Abandon, KeyConflict
  <2> QED BY <1>0, <2>1, <2>2, ReadingSettlementInv
<1>3. ASSUME NEW j \in Jobs, NEW k \in Keys \cup {None}, NEW cost \in Costs,
             CreateRead(r, j, k, cost)
      PROVE  SettlementInv'
  <2> DEFINE new == [q EXCEPT !.pc = "create", !.job = j, !.amount = cost, !.key = k]
  <2>1. q \in ReqAuth BY <1>0, <1>3 DEF CreateRead
  <2>2. new.pc = "create" /\ new.job = j BY <2>1 DEF ReqAuth
  <2>3. /\ req' = [req EXCEPT ![r] = new] /\ Fresh(j)
        /\ job' = job /\ ledger' = ledger /\ run' = run
    BY <1>3 DEF CreateRead
  <2> HIDE DEF new
  <2> QED BY <1>0, <2>2, <2>3, ReadingSettlementInv DEF Fresh
<1>4. ASSUME NEW src \in Jobs, NEW j \in Jobs, NEW cost \in Costs,
             DuplicateRead(r, src, j, cost)
      PROVE  SettlementInv'
  <2> DEFINE new == [q EXCEPT !.pc = "create", !.job = j, !.amount = cost]
  <2>1. q \in ReqAuth BY <1>0, <1>4 DEF DuplicateRead
  <2>2. new.pc = "create" /\ new.job = j BY <2>1 DEF ReqAuth
  <2>3. /\ req' = [req EXCEPT ![r] = new] /\ Fresh(j)
        /\ job' = job /\ ledger' = ledger /\ run' = run
    BY <1>4 DEF DuplicateRead
  <2> HIDE DEF new
  <2> QED BY <1>0, <2>2, <2>3, ReadingSettlementInv DEF Fresh
<1>5. ASSUME NEW j \in Jobs, NEW out \in EnqueueOutcomes, AdminCreate(r, j, out)
      PROVE  SettlementInv'
  <2> DEFINE new == [pc |-> "flushed", user |-> None, bal |-> 0, job |-> j,
                     amount |-> 0, status |-> StatusAfter(out), key |-> None]
  <2>1. new.pc = "flushed" /\ new.job = j /\ new.user = None /\ new.amount = 0
    OBVIOUS
  <2>2. /\ req' = [req EXCEPT ![r] = new] /\ Fresh(j)
        /\ job' = job /\ ledger' = ledger /\ run' = run
    BY <1>5 DEF AdminCreate
  <2> HIDE DEF new
  <2> QED BY <1>0, <2>1, <2>2, ReadingSettlementInv DEF Fresh
<1>6. ASSUME NEW j \in Jobs, CancelRead(r, j) PROVE SettlementInv'
  <2> DEFINE new == [q EXCEPT !.pc = "cancel", !.job = j, !.amount = job[j].held]
  <2>1. q \in ReqAuth /\ Exists(j)
    BY <1>0, <1>6 DEF CancelRead, Exists, Cancellable
  <2>2. new.pc = "cancel" /\ new.job = j /\ new.amount = job[j].held
    BY <2>1 DEF ReqAuth
  <2>3. /\ req' = [req EXCEPT ![r] = new]
        /\ job' = job /\ ledger' = ledger /\ run' = run
    BY <1>6 DEF CancelRead
  <2> HIDE DEF new
  <2>4. new.amount > 0 => Owned(new.job) BY <1>0, <2>1, <2>2 DEF Owned
  <2>5. \A s \in Requests : Minting(s) => req[s].job # new.job BY <1>0, <2>1, <2>2
  <2> QED BY <2>1, <2>2, <2>3, <2>4, <2>5, ReadingSettlementInv
<1>7. ASSUME NEW j \in Jobs, AdminCancelRead(r, j) PROVE SettlementInv'
  <2> DEFINE new == [q EXCEPT !.job = j, !.pc = "cancel"]
  <2>1. q \in ReqAuth /\ Exists(j)
    BY <1>0, <1>7 DEF AdminCancelRead, Exists, Cancellable
  <2>2. new.pc = "cancel" /\ new.job = j /\ new.amount = 0
    BY <2>1 DEF ReqAuth
  <2>3. /\ req' = [req EXCEPT ![r] = new]
        /\ job' = job /\ ledger' = ledger /\ run' = run
    BY <1>7 DEF AdminCancelRead
  <2> HIDE DEF new
  <2>4. new.amount > 0 => Owned(new.job) BY <2>2
  <2>5. \A s \in Requests : Minting(s) => req[s].job # new.job BY <1>0, <2>1, <2>2
  <2> QED BY <2>1, <2>2, <2>3, <2>4, <2>5, ReadingSettlementInv
<1>8. ASSUME NEW u \in Users, NEW amount \in Adjustments, AdjustRead(r, u, amount)
      PROVE  SettlementInv'
  <2> DEFINE bal == IF u = q.user THEN q.bal ELSE credits[u]
             new == [IdleReq EXCEPT !.pc = "adjust", !.user = u, !.bal = bal,
                                    !.amount = amount]
  <2>1. new.pc = "adjust" /\ new.job = None BY DEF IdleReq
  <2>2. /\ req' = [req EXCEPT ![r] = new]
        /\ job' = job /\ ledger' = ledger /\ run' = run
    BY <1>8 DEF AdjustRead
  <2> HIDE DEF new
  <2> QED BY <1>0, <2>1, <2>2, ReadingSettlementInv
<1>9. ASSUME NEW out \in EnqueueOutcomes, CreateFlush(r, out) PROVE SettlementInv'
  <2> DEFINE new == [q EXCEPT !.pc = "flushed", !.status = StatusAfter(out)]
  <2>1. q \in ReqCreate /\ Minting(r) BY <1>0, <1>9 DEF CreateFlush, Minting
  <2>2. /\ new.pc = "flushed" /\ new.job = q.job
        /\ new.user \in Users /\ new.amount \in Nat \ {0}
    BY <2>1 DEF ReqCreate
  <2>3. /\ req' = [req EXCEPT ![r] = new]
        /\ job' = job /\ ledger' = ledger /\ run' = run
    BY <1>9 DEF CreateFlush
  <2> HIDE DEF new
  <2>4. new.user # None /\ new.amount # 0 BY <2>2
  <2>5. ~Exists(new.job) /\ \A s \in Requests \ {r} : req[s].job # new.job
    BY <1>0, <2>1, <2>2
  <2> QED BY <2>2, <2>3, <2>4, <2>5, ReadingSettlementInv
<1>10. CASE AdjustCommit(r)
  <2>1. IdleReq.pc = "idle" /\ IdleReq.job = None BY DEF IdleReq
  <2>2. /\ req' = [req EXCEPT ![r] = IdleReq]
        /\ job' = job /\ ledger' = ledger /\ run' = run
    BY <1>10 DEF AdjustCommit
  <2> QED BY <1>0, <2>1, <2>2, ReadingSettlementInv
<1> QED
  BY <1>1, <1>2, <1>3, <1>4, <1>5, <1>6, <1>7, <1>8, <1>9, <1>10,
     CreateCommitSettlementInv, CancelCommitSettlementInv
  DEF RequestStep, RequestProgress

LEMMA InitSettlementInv == Init => SettlementInv
  BY UsersAssumption DEF Init, SettlementInv, ReqInv, JobInv, Minting, Exists, Owned,
     HasHold, Unsettled, InHand, InSession, NoJob, NoRows, IdleReq, IdleRun

LEMMA SettlementInvariant == Spec => []SettlementInv
<1>1. TypeOK /\ SettlementInv /\ [Next]_vars => SettlementInv'
  <2> SUFFICES ASSUME TypeOK, SettlementInv, [Next]_vars PROVE SettlementInv'
    OBVIOUS
  <2>1. CASE UNCHANGED vars
    BY <2>1 DEF vars, SettlementInv, ReqInv, JobInv, Minting, Exists, Owned, HasHold,
       Unsettled
  <2> QED BY <2>1, RequestSettlementInv, WorkerSettlementInv DEF Next
<1> QED BY InitSettlementInv, <1>1, TypeCorrect, PTL DEF Spec

\* However often a job is delivered, crashed, retried or half committed, the
\* worker charges or refunds it at most once.
THEOREM WorkerSettlesAtMostOnce == Spec => []WorkerSettlesOnce
<1>1. SettlementInv => WorkerSettlesOnce
  BY DEF SettlementInv, JobInv, WorkerSettlesOnce
<1> QED BY <1>1, SettlementInvariant, PTL

\* credits_held is positive exactly as long as the ledger has no charge and no
\* refund for the job, whatever the handlers and the worker interleave.
THEOREM HoldMatchesLedger == Spec => []HeldIsUnsettled
<1>1. TypeOK /\ SettlementInv => HeldIsUnsettled
  <2> SUFFICES ASSUME TypeOK, SettlementInv, NEW j \in Jobs, Owned(j)
               PROVE  job[j].held > 0 <=> ~Settled(j)
    BY DEF HeldIsUnsettled
  <2>1. job[j].held \in Nat /\ ledger[j] \in LedgerRows
    BY DEF TypeOK, JobRows
  <2>2. ~Settled(j) <=> Unsettled(ledger[j])
    BY <2>1 DEF Settled, CancelRefunded, Unsettled, LedgerRows
  <2>3. job[j].held = 0 <=> ~Unsettled(ledger[j])
    BY DEF SettlementInv, JobInv
  <2> QED BY <2>1, <2>2, <2>3
<1> QED BY <1>1, TypeCorrect, SettlementInvariant, PTL

\* No completed job keeps a hold.
THEOREM CompletedJobsArePaid == Spec => []CompletedIsPaid
<1>1. SettlementInv => CompletedIsPaid
  BY DEF SettlementInv, JobInv, CompletedIsPaid
<1> QED BY <1>1, SettlementInvariant, PTL

\* A job whose worker retries are used up keeps no hold.
THEOREM ExhaustedJobsAreRefunded == Spec => []ExhaustedIsRefunded
<1>1. SettlementInv => ExhaustedIsRefunded
  BY DEF SettlementInv, JobInv, ExhaustedIsRefunded
<1> QED BY <1>1, SettlementInvariant, PTL

\* The handlers' writes: a new row, and a cancellation with its refund row.
LEMMA RequestRecorded ==
  ASSUME TypeOK, SettlementInv, NEW r \in Requests, RequestStep(r), NEW j \in Jobs
  PROVE  Recorded(j)
<1> DEFINE q == req[r]
<1>0. /\ job \in [Jobs -> JobRows] /\ job[j] \in JobRows
      /\ ledger \in [Jobs -> LedgerRows] /\ ledger[j] \in LedgerRows /\ JobInv(j)
      /\ job[j].held \in Nat /\ job[j].held \in {0, ledger[j].hold}
  BY DEF TypeOK, SettlementInv, JobInv, JobRows
<1>1. CASE job'[j] = job[j]
  BY <1>0, <1>1 DEF Recorded
<1>2. CASE CreateCommit(r) /\ job'[j] # job[j]
  <2>1. q \in ReqFlushed /\ q.job = j
    BY <1>0, <1>2
    DEF CreateCommit, TypeOK, ReqSessions, ReqIdle, IdleReq, ReqAuth, ReqCreate,
        ReqFlushed, ReqCancel, ReqAdjust
  <2>2. job'[j] = [NoJob EXCEPT !.status = q.status, !.owner = q.user,
                                !.held = q.amount, !.key = q.key]
    BY <1>0, <1>2, <2>1 DEF CreateCommit
  <2>3. job'[j].held = q.amount /\ job'[j].charged = 0
    BY <2>2 DEF NoJob
  <2>4. q.amount \in Nat /\ q.pc = "flushed" BY <2>1 DEF ReqFlushed
  <2>5. ~Exists(j) BY <2>1, <2>4 DEF SettlementInv, ReqInv, Minting
  <2>6. job[j].held = 0 /\ job[j].charged = 0 BY <1>0, <2>5 DEF JobInv
  <2> QED BY <2>3, <2>4, <2>6 DEF Recorded
<1>3. CASE CancelCommit(r) /\ job'[j] # job[j]
  <2>1. q \in ReqCancel /\ q.job = j
    BY <1>0, <1>3
    DEF CancelCommit, TypeOK, ReqSessions, ReqIdle, IdleReq, ReqAuth, ReqCreate,
        ReqFlushed, ReqCancel, ReqAdjust
  <2>2. q.amount \in Nat /\ q.user \in Users BY <2>1 DEF ReqCancel
  <2>3. job'[j] = Cancelled(job[j], q.amount)
    BY <1>0, <1>3, <2>1 DEF CancelCommit
  <2>4. /\ job'[j].held = IF q.amount > 0 THEN 0 ELSE job[j].held
        /\ job'[j].charged = job[j].charged
    BY <1>0, <2>2, <2>3, CancelledFields
  <2>5. q.amount > 0 => ledger'[j] # ledger[j]
    <3>1. SUFFICES ASSUME q.amount > 0 PROVE ledger'[j] # ledger[j]
      OBVIOUS
    <3>2. ledger'[j] = CancelRow(ledger[j], q.user)
      BY <1>0, <1>3, <2>1, <3>1 DEF CancelCommit
    <3>3. ledger'[j].cancel[q.user] = ledger[j].cancel[q.user] + 1
      BY <1>0, <2>2, <3>2, CancelRowFields
    <3>4. ledger[j].cancel[q.user] \in Nat BY <1>0, <2>2 DEF LedgerRows
    <3> HIDE DEF q
    <3> QED BY <3>3, <3>4
  <2> QED BY <1>0, <2>2, <2>4, <2>5 DEF Recorded
<1>4. CASE ~CreateCommit(r) /\ ~CancelCommit(r)
  <2>1. job' = job
    BY <1>4 DEF RequestStep, RequestProgress, Authenticate, Abandon, CreateRead,
     DuplicateRead, AdminCreate, CancelRead, AdminCancelRead, AdjustRead,
     CreateFlush, KeyConflict, AdjustCommit
  <2> QED BY <1>1, <2>1
<1> QED BY <1>1, <1>2, <1>3, <1>4

\* The worker's writes: a status alone, a charge of what it fetched as held, a
\* refund.
LEMMA WorkerRecorded ==
  ASSUME TypeOK, SettlementInv, NEW i \in Jobs, WorkerStep(i), NEW j \in Jobs
  PROVE  Recorded(j)
<1>0. /\ job \in [Jobs -> JobRows] /\ job[j] \in JobRows
      /\ ledger \in [Jobs -> LedgerRows] /\ ledger[j] \in LedgerRows /\ JobInv(j)
      /\ run[j] \in RunSessions
  BY DEF TypeOK, SettlementInv
<1>1. /\ job[j].held \in Nat /\ job[j].held \in {0, ledger[j].hold}
      /\ run[j].held \in Nat /\ run[j].held \in {0, ledger[j].hold}
      /\ ledger[j].charge \in Nat /\ ledger[j].refund \in Nat
  BY <1>0 DEF JobInv, JobRows, RunSessions, LedgerRows
<1>2. CASE /\ job'[j].held = job[j].held
           /\ job'[j].charged = job[j].charged
  BY <1>1, <1>2 DEF Recorded
<1>3. CASE i # j
  BY <1>2, <1>3, WorkerFrame
<1>4. CASE i = j /\ Complete(j) /\ HasHold(j)
  <2>1. job'[j] = Charged(job[j], run[j].held) /\ ledger'[j] = ChargeRow(ledger[j])
    BY <1>0, <1>4 DEF Complete
  <2>2. job'[j].held = 0 /\ job'[j].charged = run[j].held
    BY <1>0, <2>1, ChargedFields
  <2>3. ledger'[j].charge = ledger[j].charge + 1
    BY <1>0, <2>1, RowFields
  <2>4. ledger'[j] # ledger[j] BY <1>1, <2>3
  <2>5. run[j].held = ledger[j].hold BY <1>1, <1>4 DEF HasHold
  <2> QED BY <1>1, <2>2, <2>4, <2>5 DEF Recorded
<1>5. CASE i = j /\ RefundCommit(j)
  <2>1. /\ ledger'[j] = RefundRow(ledger[j])
        /\ \/ job'[j] = Refunded(job[j])
           \/ job'[j] = Failed(Refunded(job[j]), run[j].retries + 1)
    BY <1>0, <1>5 DEF RefundCommit
  <2>2. job'[j].held = 0 /\ job'[j].charged = job[j].charged
    BY <1>0, <2>1, RefundedFields, FailedFields
  <2>3. ledger'[j].refund = ledger[j].refund + 1
    BY <1>0, <2>1, RowFields
  <2>4. ledger'[j] # ledger[j] BY <1>1, <2>3
  <2> QED BY <1>1, <2>2, <2>4 DEF Recorded
<1>6. CASE i = j /\ ~(Complete(j) /\ HasHold(j)) /\ ~RefundCommit(j)
  <2>1. \/ job'[j] = job[j]
        \/ \E status : job'[j] = [job[j] EXCEPT !.status = status]
        \/ \E attempts : job'[j] = Failed(job[j], attempts)
    BY <1>0, <1>6
    DEF WorkerStep, WorkerProgress, PickUp, GiveUp, Return, Raise, Fetch, Start,
        CheckCancelled, Generate, Complete, LoadModel, Fail, Crash, Timeout,
        DbError, EndDelivery, CommitStatus
  <2>2. job'[j].held = job[j].held /\ job'[j].charged = job[j].charged
    <3>1. ASSUME NEW status, job'[j] = [job[j] EXCEPT !.status = status]
          PROVE  job'[j].held = job[j].held /\ job'[j].charged = job[j].charged
      BY <1>0, <3>1 DEF JobRows
    <3>2. ASSUME NEW attempts, job'[j] = Failed(job[j], attempts)
          PROVE  job'[j].held = job[j].held /\ job'[j].charged = job[j].charged
      BY <1>0, <3>2, FailedFields
    <3> QED BY <2>1, <3>1, <3>2
  <2> QED BY <1>2, <2>2
<1> QED BY <1>3, <1>4, <1>5, <1>6

\* Credits leave a job only in one piece and only together with a new ledger
\* row, and the charged amount is the amount of the hold row.
THEOREM SettlementsAreRecorded == Spec => SettlementIsRecorded
<1>1. TypeOK /\ SettlementInv /\ [Next]_vars =>
        [\A j \in Jobs : Recorded(j)]_vars
  BY RequestRecorded, WorkerRecorded DEF Next
<1> QED BY <1>1, TypeCorrect, SettlementInvariant, PTL DEF Spec, SettlementIsRecorded
-----------------------------------------------------------------------------
(* The rows a handler's commits leave behind                                *)

\* A step of a request leaves the other requests alone, and only a flush leads to
\* a flushed session and only the read of an adjustment to an adjusting one.
LEMMA RequestFrame ==
  ASSUME TypeOK, NEW r \in Requests, RequestStep(r), NEW s \in Requests \ {r}
  PROVE  req'[s] = req[s]
  BY DEF TypeOK, RequestStep, RequestProgress, Authenticate, Abandon, CreateRead,
     DuplicateRead, AdminCreate, CancelRead, AdminCancelRead, AdjustRead,
     CreateFlush, KeyConflict, CreateCommit, CancelCommit, AdjustCommit

LEMMA RequestArrives ==
  ASSUME TypeOK, NEW r \in Requests, RequestStep(r)
  PROVE  /\ req'[r].pc = "flushed" =>
              \/ \E out \in EnqueueOutcomes : CreateFlush(r, out)
              \/ \E j \in Jobs, out \in EnqueueOutcomes : AdminCreate(r, j, out)
         /\ req'[r].pc = "adjust" => "adjust" \in Endpoints
<1>0. /\ req[r].pc = "auth" => req[r] \in ReqAuth
      /\ req[r].pc = "create" => req[r] \in ReqCreate
      /\ req \in [Requests -> ReqSessions]
  BY DEF TypeOK, ReqSessions, ReqIdle, IdleReq, ReqAuth, ReqCreate, ReqFlushed,
     ReqCancel, ReqAdjust
<1>1. ASSUME NEW u \in Users, Authenticate(r, u) PROVE req'[r].pc = "auth"
  BY <1>0, <1>1 DEF Authenticate, IdleReq
<1>2. CASE Abandon(r) \/ KeyConflict(r) \/ CreateCommit(r) \/ CancelCommit(r)
           \/ AdjustCommit(r)
  <2>1. req'[r] = IdleReq
    BY <1>0, <1>2 DEF Abandon, KeyConflict, CreateCommit, CancelCommit, AdjustCommit
  <2> QED BY <2>1 DEF IdleReq
<1>3. ASSUME NEW j \in Jobs, NEW k, NEW cost, CreateRead(r, j, k, cost)
      PROVE  req'[r].pc = "create"
  BY <1>0, <1>3 DEF CreateRead, ReqAuth
<1>4. ASSUME NEW src \in Jobs, NEW j \in Jobs, NEW cost, DuplicateRead(r, src, j, cost)
      PROVE  req'[r].pc = "create"
  BY <1>0, <1>4 DEF DuplicateRead, ReqAuth
<1>5. ASSUME NEW j \in Jobs, CancelRead(r, j) \/ AdminCancelRead(r, j)
      PROVE  req'[r].pc = "cancel"
  BY <1>0, <1>5 DEF CancelRead, AdminCancelRead, ReqAuth
<1>6. ASSUME NEW u \in Users, NEW amount, AdjustRead(r, u, amount)
      PROVE  req'[r].pc = "adjust" /\ "adjust" \in Endpoints
  BY <1>0, <1>6 DEF AdjustRead, IdleReq
<1>7. ASSUME NEW out \in EnqueueOutcomes, CreateFlush(r, out)
      PROVE  req'[r].pc = "flushed"
  BY <1>0, <1>7 DEF CreateFlush, ReqCreate
<1>8. ASSUME NEW j \in Jobs, NEW out, AdminCreate(r, j, out)
      PROVE  req'[r].pc = "flushed"
  BY <1>0, <1>8 DEF AdminCreate
<1> QED
  BY <1>1, <1>2, <1>3, <1>4, <1>5, <1>6, <1>7, <1>8 DEF RequestStep, RequestProgress

\* What a handler's commits do to the rows: a creation stores one that is not in
\* the worker's hands, a cancellation writes `cancelled`, all else writes none.
LEMMA RequestRows ==
  ASSUME TypeOK, SettlementInv, NEW r \in Requests, RequestStep(r)
  PROVE  /\ run' = run
         /\ \/ job' = job /\ ledger' = ledger
            \/ CreateCommit(r) /\ req[r].job \in Jobs
            \/ CancelCommit(r) /\ req[r].job \in Jobs
<1>1. CASE CreateCommit(r)
  BY <1>1, NamedJob DEF CreateCommit
<1>2. CASE CancelCommit(r)
  BY <1>2, NamedJob DEF CancelCommit
<1>3. CASE ~CreateCommit(r) /\ ~CancelCommit(r)
  BY <1>3 DEF RequestStep, RequestProgress, Authenticate, Abandon, CreateRead,
     DuplicateRead, AdminCreate, CancelRead, AdminCancelRead, AdjustRead, CreateFlush,
     KeyConflict, AdjustCommit
<1> QED BY <1>1, <1>2, <1>3

\* The rows a commit of a handler leaves behind.
LEMMA CreatedRow ==
  ASSUME TypeOK, SettlementInv, NEW r \in Requests, CreateCommit(r),
         NEW j \in Jobs, j = req[r].job
  PROVE  /\ job[j].status = "absent" /\ run[j].pc \notin InHand
         /\ job'[j].status \in Cancellable
         /\ job'[j].held \in Nat /\ ledger'[j].hold = job'[j].held
         /\ \A i \in Jobs \ {j} : job'[i] = job[i] /\ ledger'[i] = ledger[i]
<1> DEFINE q == req[r]
<1>1. q \in ReqFlushed /\ job[j].status = "absent"
  BY DEF CreateCommit, TypeOK, ReqSessions, ReqIdle, IdleReq, ReqAuth, ReqCreate,
     ReqFlushed, ReqCancel, ReqAdjust, SettlementInv, ReqInv, Minting, Exists
<1>2. /\ job'[j] = [NoJob EXCEPT !.status = q.status, !.owner = q.user,
                                 !.held = q.amount, !.key = q.key]
      /\ ledger'[j] = [ledger[j] EXCEPT !.hold = q.amount]
      /\ \A i \in Jobs \ {j} : job'[i] = job[i] /\ ledger'[i] = ledger[i]
  BY DEF CreateCommit, TypeOK
<1>3. job'[j].status = q.status /\ job'[j].held = q.amount
  BY <1>2 DEF NoJob
<1>4. ledger'[j].hold = q.amount BY <1>2 DEF TypeOK, LedgerRows
<1>5. run[j].pc \notin InHand BY <1>1 DEF SettlementInv, JobInv, Exists
<1> QED BY <1>1, <1>2, <1>3, <1>4, <1>5 DEF ReqFlushed

LEMMA CancelledRow ==
  ASSUME TypeOK, SettlementInv, NEW r \in Requests, CancelCommit(r),
         NEW j \in Jobs, j = req[r].job
  PROVE  /\ job[j].status # "absent" /\ job'[j].status = "cancelled"
         /\ job'[j].held \in {0, job[j].held}
         /\ ledger'[j].hold = ledger[j].hold
         /\ \A i \in Jobs \ {j} : job'[i] = job[i] /\ ledger'[i] = ledger[i]
<1> DEFINE q == req[r]
<1>1. q \in ReqCancel /\ Exists(j)
  BY DEF CancelCommit, TypeOK, ReqSessions, ReqIdle, IdleReq, ReqAuth, ReqCreate,
     ReqFlushed, ReqCancel, ReqAdjust, SettlementInv, ReqInv
<1>2. job[j] \in JobRows /\ ledger[j] \in LedgerRows /\ q.amount \in Nat /\ q.user \in Users
  BY <1>1 DEF TypeOK, ReqCancel
<1>3. /\ job'[j] = Cancelled(job[j], q.amount)
      /\ \/ ledger'[j] = ledger[j]
         \/ ledger'[j] = CancelRow(ledger[j], q.user)
      /\ \A i \in Jobs \ {j} : job'[i] = job[i] /\ ledger'[i] = ledger[i]
  BY DEF CancelCommit, TypeOK
<1>4. job'[j].status = "cancelled" /\ job'[j].held \in {0, job[j].held}
  BY <1>2, <1>3, CancelledFields
<1>5. ledger'[j].hold = ledger[j].hold BY <1>2, <1>3, CancelRowFields
<1> QED BY <1>1, <1>3, <1>4, <1>5 DEF Exists

-----------------------------------------------------------------------------
(* One job per idempotency key                                             *)

\* A row's key is written once, by the creation.
LEMMA WriterKeys ==
  ASSUME NEW row \in JobRows, NEW amount \in Nat, NEW attempts \in Nat, NEW status
  PROVE  /\ Cancelled(row, amount).key = row.key
         /\ Charged(row, amount).key = row.key
         /\ Refunded(row).key = row.key
         /\ Failed(row, attempts).key = row.key
         /\ [row EXCEPT !.status = status].key = row.key
<1> DEFINE h == IF amount > 0 THEN 0 ELSE row.held
<1>1. Cancelled(row, amount) = [row EXCEPT !.status = "cancelled", !.held = h]
  BY DEF Cancelled, JobRows
<1> HIDE DEF h
<1>2. [row EXCEPT !.status = "cancelled", !.held = h].key = row.key
  BY DEF JobRows
<1> QED BY <1>1, <1>2 DEF Charged, Refunded, Failed, JobRows

\* The worker changes neither key nor owner and stores no job.
LEMMA WorkerKeepsKeys ==
  ASSUME TypeOK, SettlementInv, NEW i \in Jobs, WorkerStep(i), NEW j \in Jobs
  PROVE  /\ Exists(j)' <=> Exists(j)
         /\ job'[j].owner = job[j].owner /\ job'[j].key = job[j].key
<1>0. /\ job \in [Jobs -> JobRows] /\ job[i] \in JobRows
      /\ run[i] \in RunSessions /\ JobInv(i)
  BY DEF TypeOK, SettlementInv
<1>1. CASE i # j BY <1>1, WorkerFrame DEF Exists
<1>2. CASE i = j
  <2>1. (Exists(i)' <=> Exists(i)) /\ job'[i].owner = job[i].owner
    BY <1>0, WorkerJobInv DEF Exists
  <2>2. /\ run[i].held \in Nat /\ run[i].retries + 1 \in Nat
        /\ Refunded(job[i]) \in JobRows
    BY <1>0, RefundedFields DEF RunSessions
  <2>3. \/ job'[i] = job[i]
        \/ \E status : job'[i] = [job[i] EXCEPT !.status = status]
        \/ job'[i] = Failed(job[i], run[i].retries + 1)
        \/ job'[i] = Charged(job[i], run[i].held)
        \/ job'[i] = Refunded(job[i])
        \/ job'[i] = Failed(Refunded(job[i]), run[i].retries + 1)
    BY <1>0
    DEF WorkerStep, WorkerProgress, PickUp, GiveUp, Return, Raise, Fetch, Start,
        CheckCancelled, Generate, Complete, RefundCommit, LoadModel, Fail, Crash,
        Timeout, DbError, EndDelivery, CommitStatus
  <2>4. job'[i].key = job[i].key
    <3>1. \A status : [job[i] EXCEPT !.status = status].key = job[i].key
      BY <1>0 DEF JobRows
    <3>2. /\ Charged(job[i], run[i].held).key = job[i].key
          /\ Refunded(job[i]).key = job[i].key
          /\ Failed(job[i], run[i].retries + 1).key = job[i].key
      BY <1>0, <2>2, WriterKeys
    <3>3. Failed(Refunded(job[i]), run[i].retries + 1).key = Refunded(job[i]).key
      BY <2>2, WriterKeys
    <3> QED BY <2>3, <3>1, <3>2, <3>3
  <2> QED BY <1>2, <2>1, <2>4
<1> QED BY <1>1, <1>2

\* Of the handlers only the commit of a creation stores a key.
LEMMA RequestKeepsKeys ==
  ASSUME TypeOK, SettlementInv, NEW r \in Requests, RequestStep(r),
         ~CreateCommit(r), NEW j \in Jobs
  PROVE  /\ Exists(j)' <=> Exists(j)
         /\ job'[j].owner = job[j].owner /\ job'[j].key = job[j].key
<1>0. job \in [Jobs -> JobRows] /\ job[j] \in JobRows BY DEF TypeOK
<1>1. CASE job'[j] = job[j] BY <1>1 DEF Exists
<1>2. CASE CancelCommit(r) /\ job'[j] # job[j]
  <2>1. req[r] \in ReqCancel /\ req[r].job = j
    BY <1>0, <1>2
    DEF CancelCommit, TypeOK, ReqSessions, ReqIdle, IdleReq, ReqAuth, ReqCreate,
        ReqFlushed, ReqCancel, ReqAdjust
  <2>2. req[r].amount \in Nat /\ req[r].pc = "cancel" BY <2>1 DEF ReqCancel
  <2>3. Exists(j) BY <2>1, <2>2 DEF SettlementInv, ReqInv
  <2>4. job'[j] = Cancelled(job[j], req[r].amount)
    BY <1>0, <1>2, <2>1 DEF CancelCommit
  <2> QED BY <1>0, <2>2, <2>3, <2>4, CancelledFields, WriterKeys DEF Exists
<1>3. CASE ~CancelCommit(r)
  <2>1. job' = job
    BY <1>3 DEF RequestStep, RequestProgress, Authenticate, Abandon, CreateRead,
       DuplicateRead, AdminCreate, CancelRead, AdminCancelRead, AdjustRead,
       CreateFlush, KeyConflict, AdjustCommit
  <2> QED BY <1>1, <2>1
<1> QED BY <1>1, <1>2, <1>3

\* A step that stores no job, with the one request whose session it changes:
\* what that request has flushed now must have passed the index and the lock.
LEMMA SameKeysInv ==
  ASSUME TypeOK, KeysInv, NEW r \in Requests,
         \A j \in Jobs : /\ Exists(j)' <=> Exists(j)
                         /\ job'[j].owner = job[j].owner /\ job'[j].key = job[j].key,
         \A s \in Requests \ {r} : req'[s] = req[s],
         \/ req'[r].pc # "flushed"
         \/ req'[r].user = None
         \/ req'[r] = req[r]
         \/ /\ ~KeyTaken(req'[r].user, req'[r].key) /\ ~Locked(req'[r].user)
  PROVE  KeysInv'
<1>1. \A j \in Jobs : Owned(j)' <=> Owned(j) BY DEF Owned
<1>2. ASSUME NEW u, NEW k PROVE KeyTaken(u, k)' <=> KeyTaken(u, k)
  BY <1>1 DEF KeyTaken
<1>3. OneJobPerKey' BY <1>1 DEF KeysInv, OneJobPerKey
<1>4. ASSUME NEW s \in Requests, req'[s].pc = "flushed", req'[s].user # None
      PROVE  ~RejectedByIndex(s)'
  <2>1. ~KeyTaken(req'[s].user, req'[s].key)
    BY <1>4 DEF KeysInv, RejectedByIndex
  <2>2. PICK u, k : u = req'[s].user /\ k = req'[s].key OBVIOUS
  <2>3. ~KeyTaken(u, k)' BY <1>2, <2>1, <2>2
  <2> QED BY <2>2, <2>3 DEF RejectedByIndex, KeyTaken
<1>5. ASSUME NEW s \in Requests, NEW t \in Requests,
             req'[s].pc = "flushed", req'[t].pc = "flushed",
             req'[s].user = req'[t].user, req'[s].user # None
      PROVE  s = t
  BY <1>5 DEF KeysInv, Locked
<1> QED BY <1>3, <1>4, <1>5 DEF KeysInv

\* The commit of a creation: the key was not taken when the row was flushed, and
\* the lock on the user's row kept every other creation of that user out since.
LEMMA CreateCommitKeysInv ==
  ASSUME TypeOK, SettlementInv, KeysInv, NEW r \in Requests, CreateCommit(r)
  PROVE  KeysInv'
<1> DEFINE q == req[r]
<1>0. q \in ReqFlushed /\ q.pc = "flushed" /\ q.job \in Jobs /\ q.status # "absent"
  BY DEF CreateCommit, TypeOK, ReqSessions, ReqIdle, IdleReq, ReqAuth, ReqCreate,
     ReqFlushed, ReqCancel, ReqAdjust, Cancellable
<1>1. PICK j \in Jobs : j = q.job BY <1>0
<1>2. ~Exists(j) BY <1>0, <1>1 DEF SettlementInv, ReqInv, Minting
<1>3. job'[j] = [NoJob EXCEPT !.status = q.status, !.owner = q.user,
                              !.held = q.amount, !.key = q.key]
  BY <1>1 DEF CreateCommit, TypeOK
<1>4. /\ job'[j].status = q.status /\ job'[j].owner = q.user /\ job'[j].key = q.key
      /\ \A i \in Jobs \ {j} : job'[i] = job[i]
  BY <1>1, <1>3 DEF NoJob, CreateCommit, TypeOK
<1>5. /\ req'[r] = IdleReq /\ \A s \in Requests \ {r} : req'[s] = req[s]
  BY DEF CreateCommit, TypeOK
<1> HIDE DEF q
<1>6. \A i \in Jobs \ {j} : Owned(i)' <=> Owned(i)
  BY <1>4 DEF Owned, Exists
<1>7. Owned(j)' <=> q.user # None
  BY <1>0, <1>4 DEF Owned, Exists
<1>8. ASSUME NEW i \in Jobs \ {j}, Owned(i), Owned(j)', job'[i].owner = job'[j].owner,
             job'[i].key = job'[j].key, job'[i].key # None
      PROVE  FALSE
  <2>1. KeyTaken(q.user, q.key) BY <1>4, <1>8 DEF KeyTaken
  <2> QED BY <1>0, <1>7, <1>8, <2>1 DEF KeysInv, RejectedByIndex, q
<1>9. OneJobPerKey'
  BY <1>4, <1>6, <1>8 DEF OneJobPerKey, KeysInv
<1>10. ASSUME NEW s \in Requests, req'[s].pc = "flushed", req'[s].user # None
       PROVE  ~RejectedByIndex(s)'
  <2>1. s # r /\ req'[s] = req[s] BY <1>5, <1>10 DEF IdleReq
  <2>2. req[s].user # q.user BY <1>0, <1>10, <2>1 DEF KeysInv, q
  <2>3. ~KeyTaken(req[s].user, req[s].key)
    BY <1>10, <2>1 DEF KeysInv, RejectedByIndex
  <2> QED BY <1>4, <1>6, <2>1, <2>2, <2>3 DEF RejectedByIndex, KeyTaken
<1>11. ASSUME NEW s \in Requests, NEW t \in Requests,
              req'[s].pc = "flushed", req'[t].pc = "flushed",
              req'[s].user = req'[t].user, req'[s].user # None
       PROVE  s = t
  BY <1>5, <1>11 DEF KeysInv, IdleReq
<1> QED BY <1>9, <1>10, <1>11 DEF KeysInv

LEMMA RequestKeysInv ==
  ASSUME TypeOK, SettlementInv, KeysInv, NEW r \in Requests, RequestStep(r)
  PROVE  KeysInv'
<1>1. CASE CreateCommit(r) BY <1>1, CreateCommitKeysInv
<1>2. CASE ~CreateCommit(r)
  <2>1. \A s \in Requests \ {r} : req'[s] = req[s] BY RequestFrame
  <2>2. CASE \E out \in EnqueueOutcomes : CreateFlush(r, out)
    <3>1. PICK out \in EnqueueOutcomes : CreateFlush(r, out) BY <2>2
    <3>2. req'[r] = [req[r] EXCEPT !.pc = "flushed", !.status = StatusAfter(out)]
      BY <3>1 DEF CreateFlush, TypeOK
    <3>3. req[r] \in ReqCreate
      BY <3>1 DEF CreateFlush, TypeOK, ReqSessions, ReqIdle, IdleReq, ReqAuth,
         ReqCreate, ReqFlushed, ReqCancel, ReqAdjust
    <3>4. req'[r].user = req[r].user /\ req'[r].key = req[r].key
      BY <3>2, <3>3 DEF ReqCreate
    <3> QED
      BY <1>2, <2>1, <3>1, <3>4, RequestKeepsKeys, SameKeysInv
      DEF CreateFlush, RejectedByIndex
  <2>3. CASE \E j \in Jobs, out \in EnqueueOutcomes : AdminCreate(r, j, out)
    <3>1. req'[r].user = None BY <2>3 DEF AdminCreate, TypeOK
    <3> QED BY <1>2, <2>1, <3>1, RequestKeepsKeys, SameKeysInv
  <2>4. CASE /\ ~\E out \in EnqueueOutcomes : CreateFlush(r, out)
             /\ ~\E j \in Jobs, out \in EnqueueOutcomes : AdminCreate(r, j, out)
    <3>1. req'[r].pc # "flushed" BY <2>4, RequestArrives
    <3> QED BY <1>2, <2>1, <3>1, RequestKeepsKeys, SameKeysInv
  <2> QED BY <2>2, <2>3, <2>4
<1> QED BY <1>1, <1>2

LEMMA KeysInvariant == Spec => []KeysInv
<1>1. Init => KeysInv
  BY DEF Init, KeysInv, OneJobPerKey, Owned, Exists, NoJob, IdleReq
<1>2. TypeOK /\ SettlementInv /\ KeysInv /\ [Next]_vars => KeysInv'
  <2> SUFFICES ASSUME TypeOK, SettlementInv, KeysInv, [Next]_vars PROVE KeysInv'
    OBVIOUS
  <2>1. CASE UNCHANGED vars
    BY <2>1 DEF vars, KeysInv, OneJobPerKey, Owned, Exists, RejectedByIndex, KeyTaken
  <2>2. ASSUME NEW j \in Jobs, WorkerStep(j) PROVE KeysInv'
    <3>1. req' = req
      BY <2>2 DEF WorkerStep, WorkerProgress, PickUp, GiveUp, Return, Raise, Fetch,
         Start, CheckCancelled, Generate, Complete, RefundCommit, LoadModel, Fail,
         Crash, Timeout, DbError, EndDelivery, CommitStatus
    <3>2. CASE Requests = {}
      <4>1. OneJobPerKey'
        BY <2>2, WorkerKeepsKeys DEF KeysInv, OneJobPerKey, Owned
      <4> QED BY <3>2, <4>1 DEF KeysInv
    <3>3. ASSUME NEW r \in Requests PROVE KeysInv'
      BY <2>2, <3>1, WorkerKeepsKeys, SameKeysInv
    <3> QED BY <3>2, <3>3
  <2> QED BY <2>1, <2>2, RequestKeysInv DEF Next
<1> QED BY <1>1, <1>2, TypeCorrect, SettlementInvariant, PTL DEF Spec

\* Creations with one idempotency key, however they overlap, fail and repeat,
\* store one job: the early look-up may miss a row that is not committed yet,
\* the unique index and the lock on the user's row do not.
THEOREM KeyStoresOneJob == Spec => []OneJobPerKey
<1>1. KeysInv => OneJobPerKey BY DEF KeysInv
<1> QED BY <1>1, KeysInvariant, PTL
-----------------------------------------------------------------------------
(* Sessions that do not overlap                                            *)

\* What holds of VideoJobs holds when its sessions do not overlap.
LEMMA SerialImplementsJobs == SerialSpec => Spec
<1>1. [SerialNext]_vars => [Next]_vars BY DEF SerialNext
<1> QED BY <1>1, PTL DEF SerialSpec, Spec

\* The session that takes a step is open before or after it, so no other is.
LEMMA RequestAlone ==
  ASSUME TypeOK, OneSession, OneSession', NEW r \in Requests, RequestStep(r)
  PROVE  /\ \A s \in Requests \ {r} : ~OpenReq(s) /\ req'[s] = req[s]
         /\ \A j \in Jobs : ~OpenRun(j)
         /\ run' = run
<1>1. /\ \A s \in Requests \ {r} : req'[s] = req[s]
      /\ run' = run
  BY RequestFrame
  DEF RequestStep, RequestProgress, Authenticate, Abandon, CreateRead, DuplicateRead,
     AdminCreate, CancelRead, AdminCancelRead, AdjustRead, CreateFlush, KeyConflict,
     CreateCommit, CancelCommit, AdjustCommit
<1>2. CASE OpenReq(r) BY <1>1, <1>2 DEF OneSession
<1>3. CASE OpenReq(r)' BY <1>1, <1>3 DEF OneSession, OpenReq, OpenRun
<1>4. OpenReq(r) \/ OpenReq(r)'
  <2>1. CASE \E u \in Users : Authenticate(r, u)
    BY <2>1 DEF Authenticate, TypeOK, OpenReq, IdleReq
  <2>2. CASE ~\E u \in Users : Authenticate(r, u)
    BY <2>2 DEF OpenReq, RequestStep, RequestProgress, Abandon, CreateRead,
       DuplicateRead, AdminCreate, CancelRead, AdminCancelRead, AdjustRead,
       CreateFlush, KeyConflict, CreateCommit, CancelCommit, AdjustCommit
  <2> QED BY <2>1, <2>2
<1> QED BY <1>2, <1>3, <1>4

LEMMA WorkerAlone ==
  ASSUME TypeOK, OneSession, OneSession', NEW j \in Jobs, WorkerStep(j), ~GiveUp(j)
  PROVE  /\ \A i \in Jobs \ {j} : ~OpenRun(i) /\ run'[i] = run[i]
         /\ \A r \in Requests : ~OpenReq(r)
         /\ req' = req
<1>1. \A i \in Jobs \ {j} : run'[i] = run[i] BY WorkerFrame
<1>2. req' = req
  BY DEF WorkerStep, WorkerProgress, PickUp, GiveUp, Return, Raise, Fetch, Start,
     CheckCancelled, Generate, Complete, RefundCommit, LoadModel, Fail, Crash,
     Timeout, DbError, EndDelivery, CommitStatus
<1>3. CASE OpenRun(j) BY <1>1, <1>2, <1>3 DEF OneSession
<1>4. CASE OpenRun(j)' BY <1>1, <1>2, <1>4 DEF OneSession, OpenReq, OpenRun
<1>5. OpenRun(j) \/ OpenRun(j)'
  <2>1. CASE PickUp(j) BY <2>1 DEF PickUp, TypeOK, OpenRun, IdleRun
  <2>2. CASE ~PickUp(j)
    BY <2>2 DEF OpenRun, WorkerStep, WorkerProgress, Return, Raise, Fetch, Start,
       CheckCancelled, Generate, Complete, RefundCommit, LoadModel, Fail, Crash,
       Timeout, DbError, InSession
  <2> QED BY <2>1, <2>2
<1> QED BY <1>3, <1>4, <1>5

\* A request that the step leaves closed says nothing of the rows.
LEMMA ClosedIsCurrent ==
  /\ \A r \in Requests : ~OpenReq(r) => ReqCurrent(r)
  /\ \A j \in Jobs : ~OpenRun(j) => RunCurrent(j)
  BY DEF OpenReq, OpenRun, ReqCurrent, RunCurrent, InHand, InSession

\* A handler's session stays current: it reads rows, or it writes them and ends.
LEMMA RequestStaysCurrent ==
  ASSUME TypeOK, SerialInv, NEW r \in Requests, RequestStep(r)
  PROVE  ReqCurrent(r)'
<1> DEFINE q == req[r]
<1>0. /\ q.pc = "auth" => q \in ReqAuth
      /\ q.pc = "create" => q \in ReqCreate
      /\ ReqCurrent(r) /\ req \in [Requests -> ReqSessions]
  BY DEF SerialInv, TypeOK, ReqSessions, ReqIdle, IdleReq, ReqAuth, ReqCreate,
     ReqFlushed, ReqCancel, ReqAdjust
<1>1. CASE req'[r] = IdleReq
  BY <1>1 DEF ReqCurrent, OpenReq, IdleReq
<1>2. ASSUME NEW u \in Users, Authenticate(r, u) PROVE ReqCurrent(r)'
  <2>1. req'[r] = [IdleReq EXCEPT !.pc = "auth", !.user = u, !.bal = credits[u]]
    BY <1>0, <1>2 DEF Authenticate
  <2>2. req'[r].pc = "auth" /\ req'[r].user = u /\ req'[r].bal = credits[u]
    BY <2>1 DEF IdleReq
  <2> QED BY <1>2, <2>2 DEF ReqCurrent, Authenticate
<1>3. ASSUME req'[r].pc \in {"create", "flushed"}, req'[r].user = q.user,
             req'[r].bal = q.bal, credits' = credits, OpenReq(r)
      PROVE  ReqCurrent(r)'
  BY <1>0, <1>3 DEF ReqCurrent
<1>4. ASSUME NEW j \in Jobs, NEW k, NEW cost, CreateRead(r, j, k, cost)
      PROVE  ReqCurrent(r)'
  <2>1. req'[r] = [q EXCEPT !.pc = "create", !.job = j, !.amount = cost, !.key = k]
    BY <1>0, <1>4 DEF CreateRead
  <2>2. req'[r].pc = "create" /\ req'[r].user = q.user /\ req'[r].bal = q.bal
    BY <1>0, <1>4, <2>1 DEF CreateRead, ReqAuth
  <2> QED BY <1>3, <1>4, <2>2 DEF CreateRead, OpenReq
<1>5. ASSUME NEW src \in Jobs, NEW j \in Jobs, NEW cost, DuplicateRead(r, src, j, cost)
      PROVE  ReqCurrent(r)'
  <2>1. req'[r] = [q EXCEPT !.pc = "create", !.job = j, !.amount = cost]
    BY <1>0, <1>5 DEF DuplicateRead
  <2>2. req'[r].pc = "create" /\ req'[r].user = q.user /\ req'[r].bal = q.bal
    BY <1>0, <1>5, <2>1 DEF DuplicateRead, ReqAuth
  <2> QED BY <1>3, <1>5, <2>2 DEF DuplicateRead, OpenReq
<1>6. ASSUME NEW out \in EnqueueOutcomes, CreateFlush(r, out) PROVE ReqCurrent(r)'
  <2>1. req'[r] = [q EXCEPT !.pc = "flushed", !.status = StatusAfter(out)]
    BY <1>0, <1>6 DEF CreateFlush
  <2>2. req'[r].pc = "flushed" /\ req'[r].user = q.user /\ req'[r].bal = q.bal
    BY <1>0, <1>6, <2>1 DEF CreateFlush, ReqCreate
  <2> QED BY <1>3, <1>6, <2>2 DEF CreateFlush, OpenReq
<1>7. ASSUME NEW j \in Jobs, NEW out, AdminCreate(r, j, out) PROVE ReqCurrent(r)'
  <2>1. req'[r].pc = "flushed" /\ req'[r].user = None
    BY <1>0, <1>7 DEF AdminCreate
  <2> QED BY <2>1 DEF ReqCurrent
<1>8. ASSUME NEW j \in Jobs, CancelRead(r, j) PROVE ReqCurrent(r)'
  <2>1. req'[r] = [q EXCEPT !.pc = "cancel", !.job = j, !.amount = job[j].held]
    BY <1>0, <1>8 DEF CancelRead
  <2>2. /\ req'[r].job = j /\ req'[r].amount = job[j].held
        /\ req'[r].user = q.user /\ req'[r].bal = q.bal
    BY <1>0, <1>8, <2>1 DEF CancelRead, ReqAuth
  <2> QED BY <1>0, <1>8, <2>2 DEF CancelRead, ReqCurrent, OpenReq
<1>9. ASSUME NEW j \in Jobs, AdminCancelRead(r, j) PROVE ReqCurrent(r)'
  <2>1. req'[r] = [q EXCEPT !.job = j, !.pc = "cancel"]
    BY <1>0, <1>9 DEF AdminCancelRead
  <2>2. q \in ReqAuth BY <1>0, <1>9 DEF AdminCancelRead
  <2>3. /\ req'[r].job = j /\ req'[r].amount = 0
        /\ req'[r].user = q.user /\ req'[r].bal = q.bal
    BY <2>1, <2>2 DEF ReqAuth
  <2> QED BY <1>0, <1>9, <2>3 DEF AdminCancelRead, ReqCurrent, OpenReq
<1>10. ASSUME NEW u \in Users, NEW amount, AdjustRead(r, u, amount)
       PROVE  ReqCurrent(r)'
  <2> DEFINE bal == IF u = q.user THEN q.bal ELSE credits[u]
  <2>1. req'[r] = [IdleReq EXCEPT !.pc = "adjust", !.user = u, !.bal = bal,
                                  !.amount = amount]
    BY <1>0, <1>10 DEF AdjustRead
  <2>2. bal = credits[u]
    BY <1>0, <1>10, UsersAssumption DEF AdjustRead, ReqCurrent, OpenReq
  <2> HIDE DEF bal
  <2>3. req'[r].pc = "adjust" /\ req'[r].user = u /\ req'[r].bal = bal
    BY <2>1 DEF IdleReq
  <2> QED BY <1>10, <2>2, <2>3 DEF AdjustRead, ReqCurrent
<1>11. CASE Abandon(r) \/ KeyConflict(r) \/ CreateCommit(r) \/ CancelCommit(r)
            \/ AdjustCommit(r)
  BY <1>0, <1>1, <1>11
  DEF Abandon, KeyConflict, CreateCommit, CancelCommit, AdjustCommit
<1> QED
  BY <1>2, <1>4, <1>5, <1>6, <1>7, <1>8, <1>9, <1>10, <1>11
  DEF RequestStep, RequestProgress

\* So does the worker's.
LEMMA WorkerStaysCurrent ==
  ASSUME TypeOK, SerialInv, NEW j \in Jobs, WorkerStep(j)
  PROVE  RunCurrent(j)'
<1>0. /\ run \in [Jobs -> RunSessions] /\ run[j] \in RunSessions
      /\ job \in [Jobs -> JobRows] /\ job[j] \in JobRows /\ RunCurrent(j)
  BY DEF TypeOK, SerialInv
<1>1. ASSUME run'[j].pc \in {"idle", "picked", "returned", "raised"}
      PROVE  RunCurrent(j)'
  BY <1>1 DEF RunCurrent, InHand, InSession
<1>2. CASE PickUp(j) \/ Return(j) \/ Raise(j) \/ Crash(j) \/ Timeout(j) \/ DbError(j)
           \/ RefundCommit(j) \/ Complete(j)
  <2>1. \/ run'[j] = IdleRun
        \/ run'[j] = [IdleRun EXCEPT !.pc = "picked"]
        \/ run'[j] = [IdleRun EXCEPT !.pc = "raised"]
        \/ run'[j] = [IdleRun EXCEPT !.pc = "returned"]
    BY <1>0, <1>2 DEF PickUp, Return, Raise, Crash, Timeout, DbError, EndDelivery,
       RefundCommit, Complete
  <2> QED BY <1>1, <2>1 DEF IdleRun
<1>3. CASE GiveUp(j)
  BY <1>0, <1>3 DEF GiveUp, RunCurrent
<1>4. CASE Fetch(j)
  <2>1. \/ run'[j] = [IdleRun EXCEPT !.pc = "returned"]
        \/ run'[j] = [IdleRun EXCEPT !.pc = "fetched", !.status = job[j].status,
                                     !.held = job[j].held, !.retries = job[j].retries]
    BY <1>0, <1>4 DEF Fetch
  <2>2. \/ run'[j].pc = "returned"
        \/ run'[j].pc = "fetched" /\ run'[j].held = job[j].held
    BY <2>1 DEF IdleRun
  <2> QED BY <1>1, <1>4, <2>2 DEF Fetch, RunCurrent
<1>5. ASSUME NEW status, NEW pc \in {"started", "loading", "generating"},
             CommitStatus(j, status, pc), run[j].pc \in InHand
      PROVE  RunCurrent(j)'
  <2>1. /\ run'[j] = [run[j] EXCEPT !.status = status, !.pc = pc]
        /\ \/ job'[j] = job[j]
           \/ job'[j] = [job[j] EXCEPT !.status = status]
    BY <1>0, <1>5 DEF CommitStatus
  <2>2. run'[j].held = run[j].held /\ run'[j].pc = pc BY <1>0, <2>1 DEF RunSessions
  <2>3. job'[j].held = job[j].held BY <1>0, <2>1 DEF JobRows
  <2> QED BY <1>0, <1>5, <2>2, <2>3 DEF RunCurrent
<1>6. CASE Start(j) \/ LoadModel(j) \/ Generate(j)
  BY <1>5, <1>6 DEF Start, LoadModel, Generate, InHand, InSession
<1>7. CASE CheckCancelled(j)
  <2>1. \/ run'[j] = [run[j] EXCEPT !.pc = "checked", !.status = job[j].status]
        \/ run'[j] = [run[j] EXCEPT !.pc = "refund_cancel", !.status = "cancelled",
                                    !.bal = credits[job[j].owner]]
        \/ run'[j] = [IdleRun EXCEPT !.pc = "returned"]
    BY <1>0, <1>7 DEF CheckCancelled
  <2>2. \/ run'[j].pc = "returned"
        \/ run'[j].pc = "checked" /\ run'[j].held = run[j].held
        \/ /\ run'[j].held = run[j].held /\ run'[j].bal = credits[job[j].owner]
    BY <1>0, <2>1 DEF RunSessions, IdleRun
  <2>3. run'[j].pc \in {"returned", "checked", "refund_cancel"}
    BY <1>0, <2>1 DEF RunSessions, IdleRun
  <2> QED
    BY <1>0, <1>1, <1>7, <2>2, <2>3 DEF CheckCancelled, RunCurrent, InHand, InSession
<1>8. CASE Fail(j)
  <2>1. \/ run'[j] = [IdleRun EXCEPT !.pc = "raised"]
        \/ run'[j] = [IdleRun EXCEPT !.pc = "returned"]
        \/ /\ run'[j] = [run[j] EXCEPT !.pc = "refund_fail",
                                       !.bal = credits[job[j].owner]]
           /\ job' = job
    BY <1>0, <1>8 DEF Fail
  <2>2. \/ run'[j].pc \in {"raised", "returned"}
        \/ /\ run'[j].held = run[j].held /\ run'[j].bal = credits[job[j].owner]
           /\ run'[j].pc = "refund_fail" /\ job' = job
    BY <1>0, <2>1 DEF RunSessions, IdleRun
  <2> QED BY <1>0, <1>1, <1>8, <2>2 DEF Fail, RunCurrent, InHand, InSession
<1> QED
  BY <1>2, <1>3, <1>4, <1>6, <1>7, <1>8 DEF WorkerStep, WorkerProgress

\* A row of the ledger is about a stored job.
LEMMA NothingBookedStep ==
  ASSUME TypeOK, SettlementInv, Next, NEW j \in Jobs, NothingBooked(j)
  PROVE  NothingBooked(j)'
<1>0. NothingBooked(j) /\ JobInv(j) BY DEF SettlementInv
<1>1. ASSUME NEW r \in Requests, RequestStep(r) PROVE NothingBooked(j)'
  <2>1. CASE job' = job /\ ledger' = ledger
    BY <1>0, <2>1 DEF NothingBooked, Exists
  <2>2. CASE CreateCommit(r) /\ req[r].job \in Jobs
    <3>1. CASE j = req[r].job
      BY <2>2, <3>1, CreatedRow DEF NothingBooked, Exists, Cancellable
    <3>2. CASE j # req[r].job
      BY <1>0, <2>2, <3>2, CreatedRow DEF NothingBooked, Exists
    <3> QED BY <3>1, <3>2
  <2>3. CASE CancelCommit(r) /\ req[r].job \in Jobs
    <3>1. CASE j = req[r].job
      BY <2>3, <3>1, CancelledRow DEF NothingBooked, Exists
    <3>2. CASE j # req[r].job
      BY <1>0, <2>3, <3>2, CancelledRow DEF NothingBooked, Exists
    <3> QED BY <3>1, <3>2
  <2> QED BY <1>1, <2>1, <2>2, <2>3, RequestRows
<1>2. ASSUME NEW i \in Jobs, WorkerStep(i) PROVE NothingBooked(j)'
  <2>1. CASE i # j BY <1>0, <1>2, <2>1, WorkerFrame DEF NothingBooked, Exists
  <2>2. CASE i = j /\ ~Exists(j)
    <3>1. run[j].pc \notin InHand BY <1>0, <2>2 DEF JobInv
    <3>2. ledger' = ledger
      BY <1>2, <2>2, <3>1
      DEF WorkerStep, WorkerProgress, PickUp, GiveUp, Return, Raise, Fetch, Start,
          CheckCancelled, Generate, Complete, RefundCommit, LoadModel, Fail, Crash,
          Timeout, DbError, EndDelivery, CommitStatus, InHand, InSession
    <3> QED BY <1>0, <1>2, <2>2, <3>2, WorkerKeepsKeys DEF NothingBooked
  <2>3. CASE i = j /\ Exists(j)
    BY <1>2, <2>3, WorkerKeepsKeys DEF NothingBooked
  <2> QED BY <2>1, <2>2, <2>3
<1> QED BY <1>1, <1>2 DEF Next

LEMMA SerialInvariant == SerialSpec => []SerialInv
<1>1. Init => SerialInv
  BY DEF Init, SerialInv, OneSession, OpenReq, OpenRun, ReqCurrent, RunCurrent,
     NothingBooked, Exists, InHand, InSession, IdleReq, IdleRun, NoJob
<1>2. TypeOK /\ SettlementInv /\ SerialInv /\ [SerialNext]_vars => SerialInv'
  <2> SUFFICES ASSUME TypeOK, SettlementInv, SerialInv, [SerialNext]_vars
               PROVE  SerialInv'
    OBVIOUS
  <2>1. CASE UNCHANGED vars
    BY <2>1 DEF vars, SerialInv, OneSession, OpenReq, OpenRun, ReqCurrent, RunCurrent,
       NothingBooked, Exists
  <2>2. CASE SerialNext
    <3>1. OneSession /\ OneSession' /\ Next BY <2>2 DEF SerialInv, SerialNext
    <3>2. ASSUME NEW r \in Requests, RequestStep(r)
          PROVE  /\ \A s \in Requests : ReqCurrent(s)'
                 /\ \A j \in Jobs : RunCurrent(j)'
      <4>1. /\ \A s \in Requests \ {r} : ~OpenReq(s)'
            /\ \A j \in Jobs : ~OpenRun(j)'
        BY <3>1, <3>2, RequestAlone DEF OpenReq, OpenRun
      <4>2. /\ \A s \in Requests \ {r} : ReqCurrent(s)'
            /\ \A j \in Jobs : RunCurrent(j)'
        BY <4>1, ClosedIsCurrent DEF OpenReq, OpenRun, ReqCurrent, RunCurrent, InHand,
           InSession
      <4> QED BY <3>2, <4>2, RequestStaysCurrent
    <3>3. ASSUME NEW j \in Jobs, WorkerStep(j)
          PROVE  /\ \A r \in Requests : ReqCurrent(r)'
                 /\ \A i \in Jobs : RunCurrent(i)'
      <4>1. CASE GiveUp(j)
        BY <4>1 DEF GiveUp, SerialInv, ReqCurrent, RunCurrent, OpenReq
      <4>2. CASE ~GiveUp(j)
        <5>1. /\ \A r \in Requests : ~OpenReq(r)'
              /\ \A i \in Jobs \ {j} : ~OpenRun(i)'
          BY <3>1, <3>3, <4>2, WorkerAlone DEF OpenReq, OpenRun
        <5>2. /\ \A r \in Requests : ReqCurrent(r)'
              /\ \A i \in Jobs \ {j} : RunCurrent(i)'
          BY <5>1 DEF OpenReq, OpenRun, ReqCurrent, RunCurrent, InHand, InSession
        <5> QED BY <3>3, <5>2, WorkerStaysCurrent
      <4> QED BY <4>1, <4>2
    <3> QED BY <3>1, <3>2, <3>3, NothingBookedStep DEF SerialInv, Next
  <2> QED BY <2>1, <2>2
<1> QED
  BY <1>1, <1>2, SerialImplementsJobs, TypeCorrect, SettlementInvariant, PTL
  DEF SerialSpec
-----------------------------------------------------------------------------
(* Sums over a finite set                                                  *)

\* Induction without an operator as a parameter: over a set of numbers, as a set
\* of numbers has a least one, and over the subsets of a finite set.
LEMMA NatBySteps ==
  ASSUME NEW A, 0 \in A, \A n \in Nat : n \in A => n + 1 \in A
  PROVE  Nat \subseteq A
<1> DEFINE Bad == Nat \ A
<1>1. IsWellFoundedOn(OpToRel(<, Nat), Nat)
  BY NatLessThanWellFounded
<1> DEFINE R == OpToRel(<, Nat)
<1>2. \A m, n \in Nat : m < n => <<m, n>> \in R
  BY DEF OpToRel
<1> HIDE DEF R
<1>3. IsWellFoundedOn(R, Nat)
  BY <1>1 DEF R
<1>4. SUFFICES ASSUME Bad # {} PROVE FALSE
  OBVIOUS
<1>5. Bad \subseteq Nat
  OBVIOUS
<1> HIDE DEF Bad
<1>6. PICK n \in Bad : \A m \in Bad : <<m, n>> \notin R
  BY <1>3, <1>4, <1>5, WFMin
<1>7. n \in Nat /\ n # 0
  BY <1>5, <1>6 DEF Bad
<1>8. n - 1 \in Nat /\ n - 1 < n /\ n - 1 + 1 = n
  BY <1>7
<1>9. n - 1 \notin Bad
  BY <1>2, <1>6, <1>7, <1>8
<1>10. n - 1 \in A
  BY <1>8, <1>9 DEF Bad
<1> QED BY <1>6, <1>8, <1>10 DEF Bad

LEMMA SubsetInduction ==
  ASSUME NEW S, IsFiniteSet(S), NEW A,
         \A T \in SUBSET S : (\A U \in SUBSET T : U # T => U \in A) => T \in A
  PROVE  SUBSET S \subseteq A
<1> DEFINE Bad == (SUBSET S) \ A
<1>1. IsWellFoundedOn(StrictSubsetOrdering(S), SUBSET S)
  BY FS_StrictSubsetOrderingWellFounded, FS_FiniteSubsetsOfFinite
<1>2. SUFFICES ASSUME Bad # {} PROVE FALSE
  OBVIOUS
<1>4. Bad \subseteq SUBSET S
  OBVIOUS
<1> HIDE DEF Bad
<1>3. PICK T \in Bad : \A U \in Bad : <<U, T>> \notin StrictSubsetOrdering(S)
  BY <1>1, <1>2, <1>4, WFMin
<1>5. T \in SUBSET S /\ T \notin A
  BY <1>3 DEF Bad
<1>7. \A U \in SUBSET T : U # T => U \notin Bad
  BY <1>3, <1>4, <1>5 DEF StrictSubsetOrdering
<1> QED BY <1>5, <1>7 DEF Bad
\* How a sum is computed: from the sum of all elements but the one picked.
Pick(T) == CHOOSE x \in T : TRUE
Rest(T) == T \ {Pick(T)}
Added(f, sum, T) == IF T = {} THEN 0 ELSE f[Pick(T)] + sum[Rest(T)]
SumsOf(f, S) == CHOOSE sum : sum = [T \in SUBSET S |-> Added(f, sum, T)]

LEMMA SumIsFold ==
  ASSUME NEW f, NEW S  PROVE SumFunctionOnSet(f, S) = SumsOf(f, S)[S]
BY DEF SumFunctionOnSet, FoldFunctionOnSet, MapThenFoldSet, Added, Pick, Rest, SumsOf

LEMMA PickIsSmaller ==
  ASSUME NEW T, IsFiniteSet(T), T # {}
  PROVE  /\ Pick(T) \in T /\ Rest(T) \subseteq T /\ Rest(T) # T
         /\ Cardinality(Rest(T)) = Cardinality(T) - 1 /\ Cardinality(T) \in Nat
<1>1. Pick(T) \in T
  BY DEF Pick
<1> QED BY <1>1, FS_RemoveElement, FS_CardinalityType DEF Rest

\* There is a function that satisfies the recursion, for the subsets of any size.
LEMMA SumsExist ==
  ASSUME NEW f, NEW S, IsFiniteSet(S)
  PROVE  SumsOf(f, S) = [T \in SUBSET S |-> Added(f, SumsOf(f, S), T)]
<1> DEFINE Upto(n, g) == \A T \in SUBSET S : Cardinality(T) <= n => g[T] = Added(f, g, T)
           A == {n \in Nat : \E g : Upto(n, g)}
<1>1. \A T \in SUBSET S : IsFiniteSet(T) /\ Cardinality(T) \in Nat
      /\ Cardinality(T) <= Cardinality(S)
  BY FS_Subset, FS_CardinalityType
<1>2. 0 \in A
  <2> DEFINE g == [T \in SUBSET S |-> 0]
  <2>1. \A T \in SUBSET S : Cardinality(T) <= 0 => T = {}
    BY <1>1, FS_EmptySet
  <2>2. Upto(0, g)
    BY <2>1 DEF Added
  <2> QED BY <2>2
<1>3. ASSUME NEW n \in Nat, n \in A  PROVE n + 1 \in A
  <2>1. PICK g : Upto(n, g)
    BY <1>3
  <2> DEFINE h == [T \in SUBSET S |-> IF Cardinality(T) <= n THEN g[T] ELSE Added(f, g, T)]
  <2>2. ASSUME NEW T \in SUBSET S, Cardinality(T) <= n + 1  PROVE Added(f, h, T) = Added(f, g, T)
    <3>1. CASE T = {} BY <3>1 DEF Added
    <3>2. CASE T # {}
      <4>1. Rest(T) \in SUBSET S /\ Cardinality(Rest(T)) <= n
        BY <1>1, <2>2, <3>2, PickIsSmaller
      <4>2. h[Rest(T)] = g[Rest(T)]
        BY <4>1
      <4> QED BY <3>2, <4>2 DEF Added
    <3> QED BY <3>1, <3>2
  <2>3. ASSUME NEW T \in SUBSET S, Cardinality(T) <= n + 1  PROVE h[T] = Added(f, g, T)
    <3>1. CASE Cardinality(T) <= n BY <2>1, <3>1
    <3>2. CASE ~(Cardinality(T) <= n) BY <3>2
    <3> QED BY <3>1, <3>2
  <2>4. Upto(n + 1, h)
    <3> HIDE DEF h
    <3> QED BY <2>2, <2>3
  <2>5. \E k : Upto(n + 1, k)
    BY <2>4
  <2> HIDE DEF Upto
  <2> QED BY <2>5
<1>4. Nat \subseteq A
  <2> HIDE DEF A
  <2> QED BY <1>2, <1>3, NatBySteps
<1>5. PICK g : Upto(Cardinality(S), g)
  <2>1. Cardinality(S) \in Nat
    BY FS_CardinalityType
  <2> QED BY <1>4, <2>1
<1>6. \A T \in SUBSET S : g[T] = Added(f, g, T)
  BY <1>1, <1>5
<1> DEFINE h == [T \in SUBSET S |-> g[T]]
<1>7. ASSUME NEW T \in SUBSET S  PROVE Added(f, h, T) = Added(f, g, T)
  <2>1. CASE T = {} BY <2>1 DEF Added
  <2>2. CASE T # {}
    <3>1. Rest(T) \in SUBSET S
      BY DEF Rest
    <3> QED BY <2>2, <3>1 DEF Added
  <2> QED BY <2>1, <2>2
<1>8. h = [T \in SUBSET S |-> Added(f, h, T)]
  BY <1>6, <1>7
<1> HIDE DEF h
<1> QED BY <1>8 DEF SumsOf

\* The sums over the subsets do not depend on the set they are subsets of.
LEMMA SumsAgree ==
  ASSUME NEW f, NEW S, IsFiniteSet(S), NEW D \in SUBSET S
  PROVE  SumsOf(f, S)[D] = SumFunctionOnSet(f, D)
<1> DEFINE A == {T \in SUBSET D : SumsOf(f, S)[T] = SumsOf(f, D)[T]}
<1>1. IsFiniteSet(D)
  BY FS_Subset
<1>2. ASSUME NEW T \in SUBSET D, \A U \in SUBSET T : U # T => U \in A  PROVE T \in A
  <2>1. SumsOf(f, S)[T] = Added(f, SumsOf(f, S), T) /\ SumsOf(f, D)[T] = Added(f, SumsOf(f, D), T)
    <3>1. T \in SUBSET S
      OBVIOUS
    <3>2. \A R : R = [V \in SUBSET S |-> Added(f, SumsOf(f, S), V)] => R[T] = Added(f, SumsOf(f, S), T)
      BY <3>1
    <3>3. \A R : R = [V \in SUBSET D |-> Added(f, SumsOf(f, D), V)] => R[T] = Added(f, SumsOf(f, D), T)
      OBVIOUS
    <3> QED BY <1>1, <3>2, <3>3, SumsExist
  <2>2. CASE T = {} BY <2>1, <2>2 DEF Added
  <2>3. CASE T # {}
    <3>1. IsFiniteSet(T)
      BY <1>1, FS_Subset
    <3>2. Rest(T) \in A
      BY <1>2, <2>3, <3>1, PickIsSmaller
    <3> QED BY <2>1, <2>3, <3>2 DEF Added
  <2> QED BY <2>2, <2>3
<1>3. SUBSET D \subseteq A
  <2> HIDE DEF A
  <2> QED BY <1>1, <1>2, SubsetInduction
<1> QED BY <1>3, SumIsFold

LEMMA SumEmpty == ASSUME NEW f PROVE SumFunctionOnSet(f, {}) = 0
<1>1. SumsOf(f, {})= [T \in SUBSET {} |-> Added(f, SumsOf(f, {}), T)]
  BY SumsExist, FS_EmptySet
<1>2. \A R : R = [T \in SUBSET {} |-> Added(f, SumsOf(f, {}), T)] => R[{}] = Added(f, SumsOf(f, {}), {})
  OBVIOUS
<1> QED BY <1>1, <1>2, SumIsFold DEF Added

LEMMA SumPicks ==
  ASSUME NEW f, NEW S, IsFiniteSet(S), S # {}
  PROVE  SumFunctionOnSet(f, S) = f[Pick(S)] + SumFunctionOnSet(f, Rest(S))
<1>2. \A R : R = [T \in SUBSET S |-> Added(f, SumsOf(f, S), T)] => R[S] = Added(f, SumsOf(f, S), S)
  OBVIOUS
<1>3. SumsOf(f, S)[Rest(S)] = SumFunctionOnSet(f, Rest(S))
  BY SumsAgree DEF Rest
<1>4. SumsOf(f, S)[S] = Added(f, SumsOf(f, S), S)
  BY <1>2, SumsExist
<1>5. Added(f, SumsOf(f, S), S) = f[Pick(S)] + SumsOf(f, S)[Rest(S)]
  BY DEF Added
<1> QED BY <1>3, <1>4, <1>5, SumIsFold

LEMMA SumType ==
  ASSUME NEW f, NEW S, IsFiniteSet(S), \A x \in S : f[x] \in Int
  PROVE  SumFunctionOnSet(f, S) \in Int
<1> DEFINE A == {T \in SUBSET S : SumFunctionOnSet(f, T) \in Int}
<1>1. ASSUME NEW T \in SUBSET S, \A U \in SUBSET T : U # T => U \in A  PROVE T \in A
  <2>1. CASE T = {} BY <2>1, SumEmpty
  <2>2. CASE T # {}
    <3>1. IsFiniteSet(T)
      BY FS_Subset
    <3>2. Rest(T) \in A /\ Pick(T) \in S
      BY <1>1, <2>2, <3>1, PickIsSmaller
    <3>3. SumFunctionOnSet(f, T) = f[Pick(T)] + SumFunctionOnSet(f, Rest(T))
      BY <2>2, <3>1, SumPicks
    <3> QED BY <3>2, <3>3
  <2> QED BY <2>1, <2>2
<1>2. SUBSET S \subseteq A
  <2> HIDE DEF A
  <2> QED BY <1>1, SubsetInduction
<1> QED BY <1>2

\* Which element is picked makes no difference.
LEMMA SumRemoves ==
  ASSUME NEW f, NEW S, IsFiniteSet(S), \A x \in S : f[x] \in Int, NEW e \in S
  PROVE  SumFunctionOnSet(f, S) = f[e] + SumFunctionOnSet(f, S \ {e})
<1> DEFINE A == {T \in SUBSET S : \A x \in T :
                   SumFunctionOnSet(f, T) = f[x] + SumFunctionOnSet(f, T \ {x})}
<1>1. ASSUME NEW T \in SUBSET S, \A U \in SUBSET T : U # T => U \in A  PROVE T \in A
  <2> SUFFICES ASSUME NEW x \in T
               PROVE  SumFunctionOnSet(f, T) = f[x] + SumFunctionOnSet(f, T \ {x})
    OBVIOUS
  <2>1. IsFiniteSet(T) /\ T # {}
    BY FS_Subset
  <2> DEFINE y == Pick(T)
  <2>2. y \in T /\ SumFunctionOnSet(f, T) = f[y] + SumFunctionOnSet(f, T \ {y})
    BY <2>1, SumPicks, PickIsSmaller DEF Rest
  <2> HIDE DEF y
  <2>3. CASE x = y BY <2>2, <2>3
  <2>4. CASE x # y
    <3>1. T \ {x} \in A /\ T \ {y} \in A
      BY <1>1, <2>2
    <3>2. SumFunctionOnSet(f, T \ {y}) = f[x] + SumFunctionOnSet(f, (T \ {y}) \ {x})
      BY <2>4, <3>1
    <3>3. SumFunctionOnSet(f, T \ {x}) = f[y] + SumFunctionOnSet(f, (T \ {x}) \ {y})
      BY <2>2, <2>4, <3>1
    <3>4. (T \ {x}) \ {y} = (T \ {y}) \ {x}
      OBVIOUS
    <3>5. SumFunctionOnSet(f, (T \ {y}) \ {x}) \in Int
      <4>1. (T \ {y}) \ {x} \in SUBSET S
        OBVIOUS
      <4>2. IsFiniteSet((T \ {y}) \ {x})
        BY <4>1, FS_Subset
      <4> QED BY <4>1, <4>2, SumType
    <3>6. f[x] \in Int /\ f[y] \in Int
      BY <2>2
    <3>7. SumFunctionOnSet(f, T \ {x}) = f[y] + SumFunctionOnSet(f, (T \ {y}) \ {x})
      BY <3>3, <3>4
    <3>8. ASSUME NEW a \in Int, NEW b \in Int, NEW c \in Int, NEW sx, NEW sy, NEW s,
                 s = b + sy, sy = a + c, sx = b + c
          PROVE  s = a + sx
      BY <3>8
    <3> QED BY <2>2, <3>2, <3>5, <3>6, <3>7, <3>8
  <2> QED BY <2>3, <2>4
<1>2. SUBSET S \subseteq A
  <2> HIDE DEF A
  <2> QED BY <1>1, SubsetInduction
<1> QED BY <1>2

\* The sum depends on the values over the set alone.
LEMMA SumSame ==
  ASSUME NEW f, NEW g, NEW S, IsFiniteSet(S), \A x \in S : f[x] = g[x]
  PROVE  SumFunctionOnSet(f, S) = SumFunctionOnSet(g, S)
<1> DEFINE A == {T \in SUBSET S : SumFunctionOnSet(f, T) = SumFunctionOnSet(g, T)}
<1>1. ASSUME NEW T \in SUBSET S, \A U \in SUBSET T : U # T => U \in A  PROVE T \in A
  <2>1. CASE T = {} BY <2>1, SumEmpty
  <2>2. CASE T # {}
    <3>1. IsFiniteSet(T)
      BY FS_Subset
    <3>2. Rest(T) \in A /\ Pick(T) \in S
      BY <1>1, <2>2, <3>1, PickIsSmaller
    <3>3. /\ SumFunctionOnSet(f, T) = f[Pick(T)] + SumFunctionOnSet(f, Rest(T))
          /\ SumFunctionOnSet(g, T) = g[Pick(T)] + SumFunctionOnSet(g, Rest(T))
      BY <2>2, <3>1, SumPicks
    <3> QED BY <3>2, <3>3
  <2> QED BY <2>1, <2>2
<1>2. SUBSET S \subseteq A
  <2> HIDE DEF A
  <2> QED BY <1>1, SubsetInduction
<1> QED BY <1>2

\* A step that changes one entry changes the sum by as much.
LEMMA SumChanges ==
  ASSUME NEW f, NEW g, NEW S, IsFiniteSet(S), NEW e \in S,
         \A x \in S : f[x] \in Int /\ g[x] \in Int, \A x \in S \ {e} : f[x] = g[x]
  PROVE  SumFunctionOnSet(g, S) = SumFunctionOnSet(f, S) + g[e] - f[e]
<1>1. IsFiniteSet(S \ {e})
  BY FS_RemoveElement
<1>2. SumFunctionOnSet(f, S \ {e}) = SumFunctionOnSet(g, S \ {e})
  BY <1>1, SumSame
<1>3. SumFunctionOnSet(f, S \ {e}) \in Int
  BY <1>1, SumType
<1>4. SumFunctionOnSet(f, S) = f[e] + SumFunctionOnSet(f, S \ {e})
  BY SumRemoves
<1>5. SumFunctionOnSet(g, S) = g[e] + SumFunctionOnSet(g, S \ {e})
  BY SumRemoves
<1> QED BY <1>2, <1>3, <1>4, <1>5

LEMMA SumZero ==
  ASSUME NEW f, NEW S, IsFiniteSet(S), \A x \in S : f[x] = 0
  PROVE  SumFunctionOnSet(f, S) = 0
<1> DEFINE A == {T \in SUBSET S : SumFunctionOnSet(f, T) = 0}
<1>1. ASSUME NEW T \in SUBSET S, \A U \in SUBSET T : U # T => U \in A  PROVE T \in A
  <2>1. CASE T = {} BY <2>1, SumEmpty
  <2>2. CASE T # {}
    <3>1. IsFiniteSet(T)
      BY FS_Subset
    <3>2. Rest(T) \in A /\ Pick(T) \in S
      BY <1>1, <2>2, <3>1, PickIsSmaller
    <3> QED BY <2>2, <3>1, <3>2, SumPicks
  <2> QED BY <2>1, <2>2
<1>2. SUBSET S \subseteq A
  <2> HIDE DEF A
  <2> QED BY <1>1, SubsetInduction
<1> QED BY <1>2

-----------------------------------------------------------------------------
(* The rows of the ledger                                                  *)

\* Who may hold what when a commit of a handler writes.
LEMMA CommitTypes ==
  ASSUME TypeOK, NEW r \in Requests
  PROVE  /\ CreateCommit(r) =>
              req[r] \in ReqFlushed /\ req[r].user \in Users \cup {None}
                /\ req[r].bal \in Int /\ req[r].job \in Jobs /\ req[r].amount \in Nat
         /\ CancelCommit(r) =>
              req[r] \in ReqCancel /\ req[r].user \in Users
                /\ req[r].bal \in Int /\ req[r].job \in Jobs /\ req[r].amount \in Nat
<1>1. req[r] \in ReqSessions BY DEF TypeOK
<1>2. CreateCommit(r) => req[r] \in ReqFlushed
  BY <1>1 DEF CreateCommit, ReqSessions, ReqIdle, IdleReq, ReqAuth, ReqCreate,
     ReqFlushed, ReqCancel, ReqAdjust
<1>3. CancelCommit(r) => req[r] \in ReqCancel
  BY <1>1 DEF CancelCommit, ReqSessions, ReqIdle, IdleReq, ReqAuth, ReqCreate,
     ReqFlushed, ReqCancel, ReqAdjust
<1> QED BY <1>2, <1>3 DEF ReqFlushed, ReqCancel

\* A creation takes its price from its user.
LEMMA CreateBooks ==
  ASSUME TypeOK, NEW r \in Requests, CreateCommit(r),
         NEW j \in Jobs, j = req[r].job, ~Exists(j), NothingBooked(j), NEW u \in Users
  PROVE  /\ GivenBack(j, u) = 0 /\ GivenBack(j, u)' = 0 /\ TakenFrom(j, u) = 0
         /\ TakenFrom(j, u)' = IF req[r].user = u THEN req[r].amount ELSE 0
<1> DEFINE q == req[r]
<1>1. q.amount \in Nat BY CommitTypes
<1>2. job[j].owner = None /\ ledger[j] = NoRows BY DEF NothingBooked
<1>3. /\ job'[j] = [NoJob EXCEPT !.status = q.status, !.owner = q.user,
                                 !.held = q.amount, !.key = q.key]
      /\ ledger'[j] = [NoRows EXCEPT !.hold = q.amount]
  BY <1>2 DEF CreateCommit, TypeOK
<1>4. /\ job'[j].owner = q.user /\ ledger'[j].hold = q.amount
      /\ ledger'[j].refund = 0 /\ ledger'[j].cancel[u] = 0
  BY <1>3 DEF NoJob, NoRows
<1>5. ledger[j].hold = 0 /\ ledger[j].refund = 0 /\ ledger[j].cancel[u] = 0
  BY <1>2 DEF NoRows
<1> HIDE DEF q
<1>6. GivenBack(j, u) = 0 /\ TakenFrom(j, u) = 0
  BY <1>2, <1>5, UsersAssumption DEF GivenBack, TakenFrom
<1>7. GivenBack(j, u)' = 0 BY <1>1, <1>4 DEF GivenBack
<1> QED BY <1>4, <1>6, <1>7 DEF TakenFrom, q

\* A cancellation that refunds gives the hold to its caller.
LEMMA CancelBooks ==
  ASSUME TypeOK, NEW r \in Requests, CancelCommit(r),
         NEW j \in Jobs, j = req[r].job, NEW u \in Users
  PROVE  /\ GivenBack(j, u) \in Int /\ ledger[j].hold \in Nat
         /\ TakenFrom(j, u)' = TakenFrom(j, u)
         /\ GivenBack(j, u)' = GivenBack(j, u)
              + IF req[r].user = u /\ req[r].amount > 0 THEN ledger[j].hold ELSE 0
<1> DEFINE q == req[r]
<1>1. q.user \in Users /\ q.amount \in Nat BY CommitTypes
<1>2. job[j] \in JobRows /\ ledger[j] \in LedgerRows BY DEF TypeOK
<1>3. job'[j] = Cancelled(job[j], q.amount) BY DEF CancelCommit, TypeOK
<1> HIDE DEF q
<1>4. job'[j].owner = job[j].owner BY <1>1, <1>2, <1>3, CancelledFields
<1>5. /\ ledger[j].hold \in Nat /\ ledger[j].refund \in Nat /\ ledger[j].cancel[u] \in Nat
  BY <1>2 DEF LedgerRows
<1>6. GivenBack(j, u) \in Int BY <1>5 DEF GivenBack
<1>7. CASE q.amount = 0
  <2>1. ledger' = ledger BY <1>7 DEF CancelCommit, q
  <2> QED BY <1>4, <1>5, <1>6, <1>7, <2>1 DEF GivenBack, TakenFrom, q
<1>8. CASE q.amount > 0
  <2>1. ledger'[j] = CancelRow(ledger[j], q.user)
    BY <1>8 DEF CancelCommit, TypeOK, q
  <2>2. /\ ledger'[j].hold = ledger[j].hold /\ ledger'[j].refund = ledger[j].refund
        /\ ledger'[j].cancel[q.user] = ledger[j].cancel[q.user] + 1
        /\ \A v \in Users \ {q.user} : ledger'[j].cancel[v] = ledger[j].cancel[v]
    BY <1>1, <1>2, <2>1, CancelRowFields DEF CancelRow, LedgerRows
  <2>3. CASE q.user = u
    <3>1. ledger'[j].hold * ledger'[j].cancel[u]
            = ledger[j].hold * ledger[j].cancel[u] + ledger[j].hold
      BY <1>5, <2>2, <2>3
    <3>2. GivenBack(j, u)' = GivenBack(j, u) + ledger[j].hold
      BY <1>4, <1>5, <2>2, <3>1 DEF GivenBack
    <3> QED BY <1>4, <1>5, <1>6, <1>8, <2>2, <2>3, <3>2 DEF TakenFrom, q
  <2>4. CASE q.user # u
    <3>1. ledger'[j].cancel[u] = ledger[j].cancel[u] BY <2>2, <2>4
    <3>2. GivenBack(j, u)' = GivenBack(j, u) BY <1>4, <2>2, <3>1 DEF GivenBack
    <3> QED BY <1>4, <1>5, <1>6, <2>2, <2>4, <3>2 DEF TakenFrom, q
  <2> QED BY <2>3, <2>4
<1> QED BY <1>1, <1>7, <1>8

\* A refund of the worker gives the hold to the owner, what else it does nothing.
LEMMA WorkerBooks ==
  ASSUME TypeOK, SettlementInv, NEW j \in Jobs, WorkerStep(j), NEW u \in Users
  PROVE  /\ GivenBack(j, u) \in Int /\ ledger[j].hold \in Nat
         /\ TakenFrom(j, u)' = TakenFrom(j, u)
         /\ GivenBack(j, u)' = GivenBack(j, u)
              + IF job[j].owner = u /\ RefundCommit(j) THEN ledger[j].hold ELSE 0
<1>1. ledger[j] \in LedgerRows /\ ledger \in [Jobs -> LedgerRows] BY DEF TypeOK
<1>2. /\ ledger[j].hold \in Nat /\ ledger[j].refund \in Nat /\ ledger[j].cancel[u] \in Nat
  BY <1>1 DEF LedgerRows
<1>3. GivenBack(j, u) \in Int BY <1>2 DEF GivenBack
<1>4. job'[j].owner = job[j].owner BY WorkerKeepsKeys
<1>5. CASE RefundCommit(j)
  <2>1. ledger'[j] = RefundRow(ledger[j]) BY <1>1, <1>5 DEF RefundCommit
  <2>2. /\ ledger'[j].hold = ledger[j].hold /\ ledger'[j].cancel = ledger[j].cancel
        /\ ledger'[j].refund = ledger[j].refund + 1
    BY <1>1, <2>1, RowFields
  <2>3. ledger'[j].hold * ledger'[j].refund
          = ledger[j].hold * ledger[j].refund + ledger[j].hold
    BY <1>2, <2>2
  <2>4. TakenFrom(j, u)' = TakenFrom(j, u) BY <1>4, <2>2 DEF TakenFrom
  <2>5. CASE job[j].owner = u
    <3>1. GivenBack(j, u)' = GivenBack(j, u) + ledger[j].hold
      <4>0. /\ ledger[j].hold * ledger[j].cancel[u] \in Nat
            /\ ledger[j].hold * ledger[j].refund \in Nat
        BY <1>2
      <4>1. PICK a, b, c \in Nat :
              /\ a = ledger[j].hold * ledger[j].cancel[u]
              /\ b = ledger[j].hold * ledger[j].refund /\ c = ledger[j].hold
        BY <1>2, <4>0, Zenon
      <4>2. GivenBack(j, u) = a + b BY <2>5, <4>1 DEF GivenBack
      <4>3. GivenBack(j, u)' = a + (b + c) BY <1>4, <2>2, <2>3, <2>5, <4>1 DEF GivenBack
      <4> QED BY <4>1, <4>2, <4>3
    <3> QED BY <1>2, <1>3, <1>5, <2>4, <2>5, <3>1
  <2>6. CASE job[j].owner # u
    <3>1. GivenBack(j, u)' = GivenBack(j, u) BY <1>4, <2>2, <2>6 DEF GivenBack
    <3> QED BY <1>2, <1>3, <2>4, <2>6, <3>1
  <2> QED BY <2>5, <2>6
<1>6. CASE ~RefundCommit(j)
  <2>1. ledger'[j] = ledger[j] \/ ledger'[j] = ChargeRow(ledger[j])
    BY <1>1, <1>6
    DEF WorkerStep, WorkerProgress, PickUp, GiveUp, Return, Raise, Fetch, Start,
       CheckCancelled, Generate, Complete, LoadModel, Fail, Crash, Timeout, DbError,
       EndDelivery, CommitStatus
  <2>2. /\ ledger'[j].hold = ledger[j].hold /\ ledger'[j].cancel = ledger[j].cancel
        /\ ledger'[j].refund = ledger[j].refund
    BY <1>1, <2>1, RowFields
  <2>3. GivenBack(j, u)' = GivenBack(j, u) /\ TakenFrom(j, u)' = TakenFrom(j, u)
    BY <1>4, <2>2 DEF GivenBack, TakenFrom
  <2> QED BY <1>2, <1>3, <1>6, <2>3
<1> QED BY <1>5, <1>6

\* Balances are written by the commits of creations, of cancellations that refund
\* and of the worker's refunds, and by adjustments.
LEMMA HandlerWrites ==
  ASSUME NEW r \in Requests, RequestStep(r), ~CreateCommit(r), ~CancelCommit(r),
         req[r].pc # "adjust"
  PROVE  job' = job /\ ledger' = ledger /\ credits' = credits
BY DEF RequestStep, RequestProgress, Authenticate, Abandon, CreateRead, DuplicateRead,
   AdminCreate, CancelRead, AdminCancelRead, AdjustRead, CreateFlush, KeyConflict,
   AdjustCommit

LEMMA WorkerWrites ==
  ASSUME NEW j \in Jobs, WorkerStep(j), ~RefundCommit(j)
  PROVE  credits' = credits
BY DEF WorkerStep, WorkerProgress, PickUp, GiveUp, Return, Raise, Fetch, Start,
   CheckCancelled, Generate, Complete, LoadModel, Fail, Crash, Timeout, DbError,
   EndDelivery, CommitStatus

-----------------------------------------------------------------------------
(* The ledger explains the balances                                        *)

\* A step that changes the rows about one job, and balances by as much.
LEMMA BookedMoves ==
  ASSUME TypeOK, TypeOK', BalanceMatchesLedger, NEW j \in Jobs,
         \A i \in Jobs \ {j} : job'[i].owner = job[i].owner /\ ledger'[i] = ledger[i],
         \A u \in Users : credits'[u] = credits[u] + Booked(j, u)' - Booked(j, u)
  PROVE  BalanceMatchesLedger'
<1> SUFFICES ASSUME NEW u \in Users
             PROVE  credits'[u] = InitialCredits
                      + SumFunctionOnSet([i \in Jobs |-> Booked(i, u)'], Jobs)
  BY DEF BalanceMatchesLedger
<1>1. PICK f, g : /\ f = [i \in Jobs |-> Booked(i, u)]
                  /\ g = [i \in Jobs |-> Booked(i, u)']
  OBVIOUS
<1>2. \A i \in Jobs : f[i] = Booked(i, u) /\ g[i] = Booked(i, u)'
  BY <1>1
<1>3. \A i \in Jobs : Booked(i, u) \in Int /\ Booked(i, u)' \in Int
  BY DEF TypeOK, LedgerRows, Booked, GivenBack, TakenFrom
<1>4. \A i \in Jobs \ {j} : f[i] = g[i]
  BY <1>2 DEF Booked, GivenBack, TakenFrom
<1>5. credits[u] = InitialCredits + SumFunctionOnSet(f, Jobs)
  BY <1>1 DEF BalanceMatchesLedger
<1>6. \A i \in Jobs : f[i] \in Int /\ g[i] \in Int
  BY <1>2, <1>3
<1>7. SumFunctionOnSet(g, Jobs) = SumFunctionOnSet(f, Jobs) + g[j] - f[j]
  BY <1>4, <1>6, RowsAssumption, SumChanges
<1>8. SumFunctionOnSet(f, Jobs) \in Int
  BY <1>6, RowsAssumption, SumType
<1>9. credits'[u] = credits[u] + g[j] - f[j]
  BY <1>2
<1>10. credits'[u] = InitialCredits + SumFunctionOnSet(g, Jobs)
  <2>1. f[j] \in Int /\ g[j] \in Int /\ InitialCredits \in Int
    BY <1>6, BalanceAssumption
  <2>2. \A a, b, c, s, t : a \in Int /\ b \in Int /\ c \in Int /\ s \in Int
          /\ t = s + a - b => (c + s) + a - b = c + t
    OBVIOUS
  <2> QED BY <1>5, <1>7, <1>8, <1>9, <2>1, <2>2
<1> QED BY <1>1, <1>10

LEMMA BookedStays ==
  ASSUME BalanceMatchesLedger, credits' = credits,
         \A j \in Jobs, u \in Users : Booked(j, u)' = Booked(j, u)
  PROVE  BalanceMatchesLedger'
<1>1. \A u \in Users : [j \in Jobs |-> Booked(j, u)'] = [j \in Jobs |-> Booked(j, u)]
  OBVIOUS
<1> QED BY <1>1 DEF BalanceMatchesLedger

\* A hold is taken from the balance the creation has just read.
LEMMA CreateBalance ==
  ASSUME TypeOK, TypeOK', SettlementInv, SerialInv, BalanceMatchesLedger,
         NEW r \in Requests, CreateCommit(r)
  PROVE  BalanceMatchesLedger'
<1> DEFINE q == req[r]
<1>0. /\ q.user \in Users \cup {None} /\ q.amount \in Nat /\ q.job \in Jobs
      /\ q.user = None <=> q.amount = 0
      /\ q.user # None => q.bal = credits[q.user]
  BY CommitTypes DEF CreateCommit, SettlementInv, ReqInv, SerialInv, ReqCurrent, OpenReq
<1>1. PICK j \in Jobs : j = q.job BY <1>0
<1>2. ~Exists(j) /\ NothingBooked(j)
  BY <1>1 DEF CreateCommit, SettlementInv, ReqInv, Minting, SerialInv
<1>3. \A i \in Jobs \ {j} : job'[i] = job[i] /\ ledger'[i] = ledger[i]
  BY <1>1 DEF CreateCommit, TypeOK
<1>4. ASSUME NEW u \in Users
      PROVE  credits'[u] = credits[u] + Booked(j, u)' - Booked(j, u)
  <2>1. /\ GivenBack(j, u) = 0 /\ GivenBack(j, u)' = 0 /\ TakenFrom(j, u) = 0
        /\ TakenFrom(j, u)' = IF q.user = u THEN q.amount ELSE 0
    BY <1>1, <1>2, CreateBooks
  <2>2. credits[u] \in Int BY DEF TypeOK
  <2>3. credits'[u] = IF q.user = u THEN credits[u] - q.amount ELSE credits[u]
    BY <1>0, UsersAssumption DEF CreateCommit, TypeOK
  <2> HIDE DEF q
  <2> QED BY <1>0, <2>1, <2>2, <2>3 DEF Booked
<1> QED BY <1>3, <1>4, BookedMoves

\* What a cancellation adds to the caller's balance is the hold.
LEMMA CancelBalance ==
  ASSUME TypeOK, TypeOK', SettlementInv, SerialInv, BalanceMatchesLedger,
         NEW r \in Requests, CancelCommit(r)
  PROVE  BalanceMatchesLedger'
<1> DEFINE q == req[r]
<1>0. /\ q.user \in Users /\ q.amount \in Nat /\ q.job \in Jobs
      /\ q.bal = credits[q.user] /\ q.amount \in {0, job[q.job].held}
  BY CommitTypes, UsersAssumption DEF CancelCommit, SerialInv, ReqCurrent, OpenReq
<1>1. PICK j \in Jobs : j = q.job BY <1>0
<1>2. q.amount \in {0, ledger[j].hold} BY <1>0, <1>1 DEF SettlementInv, JobInv
<1>3. \A i \in Jobs \ {j} : job'[i] = job[i] /\ ledger'[i] = ledger[i]
  BY <1>1 DEF CancelCommit, TypeOK
<1>4. ASSUME NEW u \in Users
      PROVE  credits'[u] = credits[u] + Booked(j, u)' - Booked(j, u)
  <2>1. /\ GivenBack(j, u) \in Int /\ ledger[j].hold \in Nat
        /\ TakenFrom(j, u)' = TakenFrom(j, u)
        /\ GivenBack(j, u)' = GivenBack(j, u)
             + IF q.user = u /\ q.amount > 0 THEN ledger[j].hold ELSE 0
    BY <1>1, CancelBooks
  <2>2. credits[u] \in Int BY DEF TypeOK
  <2>3. credits'[u] = IF q.user = u THEN credits[u] + q.amount ELSE credits[u]
    BY <1>0, <2>2 DEF CancelCommit, Credited, TypeOK
  <2>4. TakenFrom(j, u) \in Int BY <2>1 DEF TakenFrom
  <2> HIDE DEF q
  <2> QED BY <1>0, <1>2, <2>1, <2>2, <2>3, <2>4 DEF Booked
<1> QED BY <1>3, <1>4, BookedMoves

\* What the worker refunds to the owner is the hold.
LEMMA WorkerBalance ==
  ASSUME TypeOK, TypeOK', SettlementInv, SerialInv, BalanceMatchesLedger,
         NEW j \in Jobs, WorkerStep(j)
  PROVE  BalanceMatchesLedger'
<1>1. \A i \in Jobs \ {j} : job'[i] = job[i] /\ ledger'[i] = ledger[i]
  BY WorkerFrame
<1>2. ASSUME NEW u \in Users
      PROVE  credits'[u] = credits[u] + Booked(j, u)' - Booked(j, u)
  <2>1. /\ GivenBack(j, u) \in Int /\ ledger[j].hold \in Nat
        /\ TakenFrom(j, u)' = TakenFrom(j, u)
        /\ GivenBack(j, u)' = GivenBack(j, u)
             + IF job[j].owner = u /\ RefundCommit(j) THEN ledger[j].hold ELSE 0
    BY WorkerBooks
  <2>2. credits[u] \in Int BY DEF TypeOK
  <2>3. credits'[u] = IF job[j].owner = u /\ RefundCommit(j)
                      THEN credits[u] + ledger[j].hold ELSE credits[u]
    <3>1. CASE RefundCommit(j)
      <4>1. PICK owner : owner = job[j].owner OBVIOUS
      <4>2. /\ owner \in Users /\ run[j].held = ledger[j].hold
            /\ run[j].bal = credits[owner]
        BY <3>1, <4>1 DEF RefundCommit, SettlementInv, JobInv, HasHold, SerialInv,
           RunCurrent, TypeOK, JobRows
      <4>3. credits' = [credits EXCEPT ![owner] = Credited(run[j].bal, run[j].held)]
        BY <3>1, <4>1 DEF RefundCommit
      <4> QED BY <3>1, <4>1, <4>2, <4>3 DEF Credited, TypeOK
    <3>2. CASE ~RefundCommit(j) BY <3>2, WorkerWrites
    <3> QED BY <3>1, <3>2
  <2>4. TakenFrom(j, u) \in Int BY <2>1 DEF TakenFrom
  <2> QED BY <2>1, <2>2, <2>3, <2>4 DEF Booked
<1> QED BY <1>1, <1>2, BookedMoves

\* Without the admin's adjustments, which are not recorded, a balance is what the
\* grant and the ledger make of it.
THEOREM LedgerExplainsBalances ==
  ASSUME "adjust" \notin Endpoints
  PROVE  SerialSpec => []BalanceMatchesLedger
<1> DEFINE NobodyAdjusts == \A r \in Requests : req[r].pc # "adjust"
<1>1. Spec => []NobodyAdjusts
  <2>1. Init => NobodyAdjusts BY DEF Init, IdleReq
  <2>2. TypeOK /\ NobodyAdjusts /\ [Next]_vars => NobodyAdjusts'
    <3> SUFFICES ASSUME TypeOK, NobodyAdjusts, [Next]_vars PROVE NobodyAdjusts'
      OBVIOUS
    <3>1. CASE req' = req BY <3>1
    <3>2. ASSUME NEW r \in Requests, RequestStep(r) PROVE NobodyAdjusts'
      BY <3>2, RequestFrame, RequestArrives
    <3>3. ASSUME NEW j \in Jobs, WorkerStep(j) PROVE req' = req
      BY <3>3 DEF WorkerStep, WorkerProgress, PickUp, GiveUp, Return, Raise, Fetch,
         Start, CheckCancelled, Generate, Complete, RefundCommit, LoadModel, Fail,
         Crash, Timeout, DbError, EndDelivery, CommitStatus
    <3> QED BY <3>1, <3>2, <3>3 DEF Next, vars
  <2> QED BY <2>1, <2>2, TypeCorrect, PTL DEF Spec
<1>2. Init => BalanceMatchesLedger
  <2> SUFFICES ASSUME Init, NEW u \in Users
               PROVE  credits[u] = InitialCredits
                        + SumFunctionOnSet([j \in Jobs |-> Booked(j, u)], Jobs)
    BY DEF BalanceMatchesLedger
  <2>1. PICK f : f = [j \in Jobs |-> Booked(j, u)] OBVIOUS
  <2>2. \A j \in Jobs : Booked(j, u) = 0
    BY UsersAssumption DEF Init, NoRows, NoJob, Booked, GivenBack, TakenFrom
  <2>3. SumFunctionOnSet(f, Jobs) = 0
    BY <2>1, <2>2, RowsAssumption, SumZero
  <2> QED BY <2>1, <2>3, BalanceAssumption DEF Init
<1>3. /\ TypeOK /\ TypeOK' /\ SettlementInv /\ SerialInv /\ NobodyAdjusts
      /\ BalanceMatchesLedger /\ [Next]_vars
      => BalanceMatchesLedger'
  <2> SUFFICES ASSUME TypeOK, TypeOK', SettlementInv, SerialInv, NobodyAdjusts,
                      BalanceMatchesLedger, [Next]_vars
               PROVE  BalanceMatchesLedger'
    OBVIOUS
  <2>1. ASSUME job' = job, ledger' = ledger, credits' = credits
        PROVE  BalanceMatchesLedger'
    BY <2>1, BookedStays DEF Booked, GivenBack, TakenFrom
  <2>2. CASE UNCHANGED vars BY <2>1, <2>2 DEF vars
  <2>3. ASSUME NEW r \in Requests, RequestStep(r) PROVE BalanceMatchesLedger'
    <3>1. CASE CreateCommit(r) BY <3>1, CreateBalance
    <3>2. CASE CancelCommit(r) BY <3>2, CancelBalance
    <3>3. CASE ~CreateCommit(r) /\ ~CancelCommit(r)
      <4>1. job' = job /\ ledger' = ledger /\ credits' = credits
        BY <2>3, <3>3, HandlerWrites
      <4> QED BY <2>1, <4>1
    <3> QED BY <3>1, <3>2, <3>3
  <2> QED BY <2>2, <2>3, WorkerBalance DEF Next
<1> QED
  BY <1>1, <1>2, <1>3, SerialImplementsJobs, TypeCorrect, SettlementInvariant,
     SerialInvariant, PTL
  DEF SerialSpec, Spec
-----------------------------------------------------------------------------
(* Races stay within the ledger                                            *)

\* A step moves the bounds by what the rows about its one job change.
LEMMA BoundsMove ==
  ASSUME TypeOK, TypeOK', NEW j \in Jobs, NEW u \in Users,
         \A i \in Jobs \ {j} : job'[i].owner = job[i].owner /\ ledger'[i] = ledger[i]
  PROVE  /\ Most(u) \in Int /\ Least(u) \in Int
         /\ Most(u)' = Most(u) + (GivenBack(j, u)' - GivenBack(j, u))
         /\ Least(u)' = Least(u) - (TakenFrom(j, u)' - TakenFrom(j, u))
<1>1. PICK f, g : /\ f = [i \in Jobs |-> GivenBack(i, u)]
                  /\ g = [i \in Jobs |-> GivenBack(i, u)']
  OBVIOUS
<1>2. PICK h, k : /\ h = [i \in Jobs |-> TakenFrom(i, u)]
                  /\ k = [i \in Jobs |-> TakenFrom(i, u)']
  OBVIOUS
<1>3. \A i \in Jobs : f[i] \in Int /\ g[i] \in Int
  <2>1. \A i \in Jobs : GivenBack(i, u) \in Int /\ GivenBack(i, u)' \in Int
    BY DEF TypeOK, LedgerRows, GivenBack
  <2> QED BY <1>1, <2>1
<1>4. \A i \in Jobs : h[i] \in Int /\ k[i] \in Int
  <2>1. \A i \in Jobs : TakenFrom(i, u) \in Int /\ TakenFrom(i, u)' \in Int
    BY DEF TypeOK, LedgerRows, TakenFrom
  <2> QED BY <1>2, <2>1
<1>5. \A i \in Jobs \ {j} : f[i] = g[i] /\ h[i] = k[i]
  BY <1>1, <1>2 DEF GivenBack, TakenFrom
<1>6. /\ SumFunctionOnSet(g, Jobs) = SumFunctionOnSet(f, Jobs) + g[j] - f[j]
      /\ SumFunctionOnSet(k, Jobs) = SumFunctionOnSet(h, Jobs) + k[j] - h[j]
  BY <1>3, <1>4, <1>5, RowsAssumption, SumChanges
<1>7. SumFunctionOnSet(f, Jobs) \in Int /\ SumFunctionOnSet(h, Jobs) \in Int
  BY <1>3, <1>4, RowsAssumption, SumType
<1>8. /\ Most(u) = InitialCredits + SumFunctionOnSet(f, Jobs)
      /\ Most(u)' = InitialCredits + SumFunctionOnSet(g, Jobs)
      /\ Least(u) = InitialCredits - SumFunctionOnSet(h, Jobs)
      /\ Least(u)' = InitialCredits - SumFunctionOnSet(k, Jobs)
  BY <1>1, <1>2 DEF Most, Least
<1>9. /\ f[j] = GivenBack(j, u) /\ g[j] = GivenBack(j, u)'
      /\ h[j] = TakenFrom(j, u) /\ k[j] = TakenFrom(j, u)'
  BY <1>1, <1>2
<1> QED
  BY <1>3, <1>4, <1>6, <1>7, <1>8, <1>9, BalanceAssumption

LEMMA BoundsStay ==
  ASSUME job' = job, ledger' = ledger, NEW u \in Users
  PROVE  Most(u)' = Most(u) /\ Least(u)' = Least(u)
<1>1. \A j \in Jobs : GivenBack(j, u)' = GivenBack(j, u) /\ TakenFrom(j, u)' = TakenFrom(j, u)
  BY DEF GivenBack, TakenFrom
<1>2. /\ [j \in Jobs |-> GivenBack(j, u)'] = [j \in Jobs |-> GivenBack(j, u)]
      /\ [j \in Jobs |-> TakenFrom(j, u)'] = [j \in Jobs |-> TakenFrom(j, u)]
  BY <1>1
<1> QED BY <1>2 DEF Most, Least

\* What a creation, a cancellation and a worker do to the bounds of a user.
LEMMA CreateBounds ==
  ASSUME TypeOK, TypeOK', SettlementInv, WithinInv, NEW r \in Requests, CreateCommit(r),
         NEW u \in Users
  PROVE  /\ Most(u) \in Int /\ Least(u) \in Int
         /\ Most(u)' = Most(u)
         /\ Least(u)' = Least(u) - IF req[r].user = u THEN req[r].amount ELSE 0
<1>1. req[r].job \in Jobs /\ req[r].amount \in Nat BY CommitTypes
<1>2. PICK j \in Jobs : j = req[r].job BY <1>1
<1>3. ~Exists(j) /\ NothingBooked(j)
  BY <1>2 DEF CreateCommit, SettlementInv, ReqInv, Minting, WithinInv
<1>4. \A i \in Jobs \ {j} : job'[i] = job[i] /\ ledger'[i] = ledger[i]
  BY <1>2 DEF CreateCommit, TypeOK
<1>5. /\ GivenBack(j, u) = 0 /\ GivenBack(j, u)' = 0 /\ TakenFrom(j, u) = 0
      /\ TakenFrom(j, u)' = IF req[r].user = u THEN req[r].amount ELSE 0
  BY <1>2, <1>3, CreateBooks
<1>6. /\ Most(u) \in Int /\ Least(u) \in Int
      /\ Most(u)' = Most(u) + (GivenBack(j, u)' - GivenBack(j, u))
      /\ Least(u)' = Least(u) - (TakenFrom(j, u)' - TakenFrom(j, u))
  BY <1>4, BoundsMove
<1> QED BY <1>1, <1>5, <1>6

LEMMA CancelBounds ==
  ASSUME TypeOK, TypeOK', NEW r \in Requests, CancelCommit(r), NEW u \in Users
  PROVE  /\ Most(u) \in Int /\ Least(u) \in Int /\ ledger[req[r].job].hold \in Nat
         /\ Least(u)' = Least(u)
         /\ Most(u)' = Most(u) + IF req[r].user = u /\ req[r].amount > 0
                                 THEN ledger[req[r].job].hold ELSE 0
<1>1. req[r].job \in Jobs BY CommitTypes
<1>2. PICK j \in Jobs : j = req[r].job BY <1>1
<1>3. \A i \in Jobs \ {j} : job'[i] = job[i] /\ ledger'[i] = ledger[i]
  BY <1>2 DEF CancelCommit, TypeOK
<1>4. /\ GivenBack(j, u) \in Int /\ ledger[j].hold \in Nat
      /\ TakenFrom(j, u)' = TakenFrom(j, u)
      /\ GivenBack(j, u)' = GivenBack(j, u)
           + IF req[r].user = u /\ req[r].amount > 0 THEN ledger[j].hold ELSE 0
  BY <1>2, CancelBooks
<1>5. /\ Most(u) \in Int /\ Least(u) \in Int
      /\ Most(u)' = Most(u) + (GivenBack(j, u)' - GivenBack(j, u))
      /\ Least(u)' = Least(u) - (TakenFrom(j, u)' - TakenFrom(j, u))
  BY <1>3, BoundsMove
<1>6. TakenFrom(j, u) \in Int BY <1>4 DEF TakenFrom
<1> QED BY <1>2, <1>4, <1>5, <1>6

LEMMA WorkerBounds ==
  ASSUME TypeOK, TypeOK', SettlementInv, NEW j \in Jobs, WorkerStep(j), NEW u \in Users
  PROVE  /\ Most(u) \in Int /\ Least(u) \in Int /\ ledger[j].hold \in Nat
         /\ Least(u)' = Least(u)
         /\ Most(u)' = Most(u) + IF job[j].owner = u /\ RefundCommit(j)
                                 THEN ledger[j].hold ELSE 0
<1>1. \A i \in Jobs \ {j} : job'[i] = job[i] /\ ledger'[i] = ledger[i]
  BY WorkerFrame
<1>2. /\ GivenBack(j, u) \in Int /\ ledger[j].hold \in Nat
      /\ TakenFrom(j, u)' = TakenFrom(j, u)
      /\ GivenBack(j, u)' = GivenBack(j, u)
           + IF job[j].owner = u /\ RefundCommit(j) THEN ledger[j].hold ELSE 0
  BY WorkerBooks
<1>3. /\ Most(u) \in Int /\ Least(u) \in Int
      /\ Most(u)' = Most(u) + (GivenBack(j, u)' - GivenBack(j, u))
      /\ Least(u)' = Least(u) - (TakenFrom(j, u)' - TakenFrom(j, u))
  BY <1>1, BoundsMove
<1>4. TakenFrom(j, u) \in Int BY <1>2 DEF TakenFrom
<1> QED BY <1>2, <1>3, <1>4

\* So the bounds only widen: what was within the ledger stays there.
LEMMA BoundsWiden ==
  ASSUME TypeOK, TypeOK', SettlementInv, WithinInv, Next, NEW u \in Users,
         NEW bal \in Int, WithinLedger(u, bal)
  PROVE  Least(u)' <= bal /\ bal <= Most(u)'
<1>1. ASSUME NEW r \in Requests, RequestStep(r)
      PROVE  Least(u)' <= bal /\ bal <= Most(u)'
  <2>1. CASE CreateCommit(r)
    <3>1. req[r].amount \in Nat BY <2>1, CommitTypes
    <3> QED BY <2>1, <3>1, CreateBounds DEF WithinLedger
  <2>2. CASE CancelCommit(r) BY <2>2, CancelBounds DEF WithinLedger
  <2>3. CASE ~CreateCommit(r) /\ ~CancelCommit(r)
    <3>1. job' = job /\ ledger' = ledger
      BY <1>1, <2>3, HandlerWrites DEF WithinInv, ReqWithin
    <3> QED BY <3>1, BoundsStay DEF WithinLedger
  <2> QED BY <2>1, <2>2, <2>3
<1>2. ASSUME NEW j \in Jobs, WorkerStep(j)
      PROVE  Least(u)' <= bal /\ bal <= Most(u)'
  BY <1>2, WorkerBounds DEF WithinLedger
<1> QED BY <1>1, <1>2 DEF Next

\* A stale balance less a price, or plus a hold, is within the ledger that has the
\* row of it.
LEMMA CommitsWithin ==
  ASSUME TypeOK, TypeOK', SettlementInv, WithinInv, Next, NEW u \in Users
  PROVE  WithinLedger(u, credits[u])'
<1>0. credits[u] \in Int /\ WithinLedger(u, credits[u])
  BY DEF TypeOK, WithinInv, BalanceWithinLedger
<1>1. ASSUME credits'[u] = credits[u] PROVE WithinLedger(u, credits[u])'
  BY <1>0, <1>1, BoundsWiden DEF WithinLedger
<1>2. ASSUME NEW r \in Requests, RequestStep(r) PROVE WithinLedger(u, credits[u])'
  <2> DEFINE q == req[r]
  <2>1. CASE CreateCommit(r) /\ q.user = u
    <3>1. q.amount \in Nat /\ q.bal \in Int BY <2>1, CommitTypes
    <3>2. WithinLedger(u, q.bal) BY <2>1, UsersAssumption DEF WithinInv, ReqWithin
    <3>3. credits'[u] = q.bal - q.amount
      BY <2>1, UsersAssumption DEF CreateCommit, TypeOK
    <3>4. /\ Most(u) \in Int /\ Least(u) \in Int
          /\ Most(u)' = Most(u) /\ Least(u)' = Least(u) - q.amount
      BY <2>1, CreateBounds
    <3> HIDE DEF q
    <3> QED BY <3>1, <3>2, <3>3, <3>4 DEF WithinLedger
  <2>2. CASE CancelCommit(r) /\ q.user = u /\ q.amount > 0
    <3>1. q.bal \in Int BY <2>2, CommitTypes
    <3>2. WithinLedger(u, q.bal) /\ q.amount = ledger[q.job].hold
      BY <2>2, UsersAssumption DEF WithinInv, ReqWithin, CancelCommit
    <3>3. credits'[u] = q.bal + q.amount
      BY <2>2 DEF CancelCommit, Credited, TypeOK
    <3>4. /\ Most(u) \in Int /\ Least(u) \in Int /\ ledger[q.job].hold \in Nat
          /\ Most(u)' = Most(u) + ledger[q.job].hold /\ Least(u)' = Least(u)
      BY <2>2, CancelBounds
    <3> HIDE DEF q
    <3> QED BY <3>1, <3>2, <3>3, <3>4 DEF WithinLedger
  <2>3. CASE CreateCommit(r) /\ q.user # u
    BY <1>1, <2>3 DEF CreateCommit, TypeOK
  <2>4. CASE CancelCommit(r) /\ ~(q.user = u /\ q.amount > 0)
    BY <1>1, <2>4 DEF CancelCommit, TypeOK
  <2>5. CASE ~CreateCommit(r) /\ ~CancelCommit(r)
    BY <1>1, <1>2, <2>5, HandlerWrites DEF WithinInv, ReqWithin
  <2> QED BY <2>1, <2>2, <2>3, <2>4, <2>5
<1>3. ASSUME NEW j \in Jobs, WorkerStep(j) PROVE WithinLedger(u, credits[u])'
  <2>1. CASE RefundCommit(j) /\ job[j].owner = u
    <3>1. run[j].held = ledger[j].hold
      BY <2>1 DEF RefundCommit, SettlementInv, JobInv, HasHold
    <3>2. WithinLedger(u, run[j].bal)
      BY <2>1 DEF WithinInv, RunWithin, RefundCommit
    <3>3. credits'[u] = run[j].bal + run[j].held
      BY <2>1 DEF RefundCommit, Credited, TypeOK
    <3>4. /\ Most(u) \in Int /\ Least(u) \in Int /\ ledger[j].hold \in Nat
          /\ Most(u)' = Most(u) + ledger[j].hold /\ Least(u)' = Least(u)
      BY <1>3, <2>1, WorkerBounds
    <3>5. run[j].bal \in Int BY DEF TypeOK, RunSessions
    <3> QED BY <3>1, <3>2, <3>3, <3>4, <3>5 DEF WithinLedger
  <2>2. CASE RefundCommit(j) /\ job[j].owner # u
    BY <1>1, <2>2 DEF RefundCommit, TypeOK
  <2>3. CASE ~RefundCommit(j) BY <1>1, <1>3, <2>3, WorkerWrites
  <2> QED BY <2>1, <2>2, <2>3
<1> QED BY <1>2, <1>3 DEF Next

\* A handler has the balance it read when it began, and goes on to cancel with the
\* hold of the row it read.
LEMMA HandlerReads ==
  ASSUME TypeOK, "adjust" \notin Endpoints, NEW r \in Requests, RequestStep(r)
  PROVE  /\ \/ req'[r].user = None
            \/ req'[r].user \in Users /\ req'[r].bal = credits[req'[r].user]
            \/ req'[r].user = req[r].user /\ req'[r].bal = req[r].bal
         /\ req'[r].pc = "cancel" =>
              /\ req'[r].job \in Jobs /\ job' = job /\ ledger' = ledger
              /\ req'[r].amount \in {0, job[req'[r].job].held}
         /\ req'[r].pc # "adjust"
<1>0. /\ req[r].pc = "auth" => req[r] \in ReqAuth
      /\ req[r].pc = "create" => req[r] \in ReqCreate
      /\ req \in [Requests -> ReqSessions]
  BY DEF TypeOK, ReqSessions, ReqIdle, IdleReq, ReqAuth, ReqCreate, ReqFlushed,
     ReqCancel, ReqAdjust
<1>1. ASSUME NEW u \in Users, Authenticate(r, u)
      PROVE  /\ req'[r].user = u /\ req'[r].bal = credits[u] /\ req'[r].pc = "auth"
  BY <1>0, <1>1 DEF Authenticate, IdleReq
<1>2. CASE Abandon(r) \/ KeyConflict(r) \/ CreateCommit(r) \/ CancelCommit(r)
           \/ AdjustCommit(r)
  <2>1. req'[r] = IdleReq
    BY <1>0, <1>2 DEF Abandon, KeyConflict, CreateCommit, CancelCommit, AdjustCommit
  <2> QED BY <2>1 DEF IdleReq
<1>3. ASSUME NEW j \in Jobs, NEW k, NEW cost, CreateRead(r, j, k, cost)
      PROVE  /\ req'[r].user = req[r].user /\ req'[r].bal = req[r].bal
             /\ req'[r].pc = "create"
  BY <1>0, <1>3 DEF CreateRead, ReqAuth
<1>4. ASSUME NEW src \in Jobs, NEW j \in Jobs, NEW cost, DuplicateRead(r, src, j, cost)
      PROVE  /\ req'[r].user = req[r].user /\ req'[r].bal = req[r].bal
             /\ req'[r].pc = "create"
  BY <1>0, <1>4 DEF DuplicateRead, ReqAuth
<1>5. ASSUME NEW j \in Jobs, CancelRead(r, j)
      PROVE  /\ req'[r].user = req[r].user /\ req'[r].bal = req[r].bal
             /\ req'[r].pc = "cancel" /\ req'[r].job = j /\ req'[r].amount = job[j].held
             /\ job' = job /\ ledger' = ledger
  BY <1>0, <1>5 DEF CancelRead, ReqAuth
<1>6. ASSUME NEW j \in Jobs, AdminCancelRead(r, j)
      PROVE  /\ req'[r].user = req[r].user /\ req'[r].bal = req[r].bal
             /\ req'[r].pc = "cancel" /\ req'[r].job = j /\ req'[r].amount = 0
             /\ job' = job /\ ledger' = ledger
  BY <1>0, <1>6 DEF AdminCancelRead, ReqAuth
<1>7. ASSUME NEW out \in EnqueueOutcomes, CreateFlush(r, out)
      PROVE  /\ req'[r].user = req[r].user /\ req'[r].bal = req[r].bal
             /\ req'[r].pc = "flushed"
  BY <1>0, <1>7 DEF CreateFlush, ReqCreate
<1>8. ASSUME NEW j \in Jobs, NEW out, AdminCreate(r, j, out)
      PROVE  req'[r].user = None /\ req'[r].pc = "flushed"
  BY <1>0, <1>8 DEF AdminCreate
<1>9. \A u \in Users, amount \in Adjustments : ~AdjustRead(r, u, amount)
  BY DEF AdjustRead
<1> QED
  BY <1>1, <1>2, <1>3, <1>4, <1>5, <1>6, <1>7, <1>8, <1>9
  DEF RequestStep, RequestProgress

\* A hold row says the same for ever.
LEMMA HoldRowStays ==
  ASSUME TypeOK, SettlementInv, WithinInv, Next, NEW j \in Jobs, Exists(j)
  PROVE  Exists(j)' /\ ledger'[j].hold = ledger[j].hold
<1>1. ASSUME NEW r \in Requests, RequestStep(r)
      PROVE  Exists(j)' /\ ledger'[j].hold = ledger[j].hold
  <2>1. CASE CreateCommit(r) /\ req[r].job \in Jobs
    <3>1. j # req[r].job
      BY <2>1 DEF CreateCommit, SettlementInv, ReqInv, Minting
    <3> QED BY <2>1, <3>1, CreatedRow DEF Exists
  <2>2. CASE CancelCommit(r) /\ req[r].job \in Jobs
    <3>1. CASE j = req[r].job BY <2>2, <3>1, CancelledRow DEF Exists
    <3>2. CASE j # req[r].job BY <2>2, <3>2, CancelledRow DEF Exists
    <3> QED BY <3>1, <3>2
  <2> QED BY <1>1, <2>1, <2>2, RequestRows DEF Exists
<1>2. ASSUME NEW i \in Jobs, WorkerStep(i)
      PROVE  Exists(j)' /\ ledger'[j].hold = ledger[j].hold
  <2>1. Exists(j)' BY <1>2, WorkerKeepsKeys
  <2>2. CASE i # j BY <1>2, <2>1, <2>2, WorkerFrame
  <2>3. CASE i = j
    <3>1. ledger[j] \in LedgerRows /\ ledger \in [Jobs -> LedgerRows] BY DEF TypeOK
    <3>2. \/ ledger'[j] = ledger[j] \/ ledger'[j] = ChargeRow(ledger[j])
          \/ ledger'[j] = RefundRow(ledger[j])
      BY <1>2, <2>3, <3>1
      DEF WorkerStep, WorkerProgress, PickUp, GiveUp, Return, Raise, Fetch, Start,
         CheckCancelled, Generate, Complete, RefundCommit, LoadModel, Fail, Crash,
         Timeout, DbError, EndDelivery, CommitStatus
    <3> QED BY <2>1, <3>1, <3>2, RowFields
  <2> QED BY <2>2, <2>3
<1> QED BY <1>1, <1>2 DEF Next

LEMMA HandlersWithin ==
  ASSUME TypeOK, TypeOK', SettlementInv, WithinInv, Next, "adjust" \notin Endpoints,
         NEW s \in Requests
  PROVE  ReqWithin(s)'
<1>0. ReqWithin(s) /\ req[s] \in ReqSessions BY DEF WithinInv, TypeOK
<1>1. ASSUME \/ req'[s].user = None
             \/ req'[s].user \in Users /\ req'[s].bal = credits[req'[s].user]
             \/ req'[s].user = req[s].user /\ req'[s].bal = req[s].bal
      PROVE  req'[s].user # None => WithinLedger(req[s].user, req[s].bal)'
  <2> SUFFICES ASSUME req'[s].user # None
               PROVE  WithinLedger(req[s].user, req[s].bal)'
    OBVIOUS
  <2>1. PICK u, bal : u = req'[s].user /\ bal = req'[s].bal OBVIOUS
  <2>2. u \in Users /\ bal \in Int
    <3>1. req'[s] \in ReqSessions BY DEF TypeOK
    <3> QED BY <2>1, <3>1 DEF ReqSessions, ReqIdle, IdleReq, ReqAuth, ReqCreate,
            ReqFlushed, ReqCancel, ReqAdjust
  <2>3. WithinLedger(u, bal)
    BY <1>0, <1>1, <2>1, <2>2 DEF ReqWithin, WithinInv, BalanceWithinLedger
  <2>4. Least(u)' <= bal /\ bal <= Most(u)' BY <2>2, <2>3, BoundsWiden
  <2> QED BY <2>1, <2>4 DEF WithinLedger
<1>2. ASSUME req'[s] = req[s] PROVE ReqWithin(s)'
  <2>1. req'[s].pc = "cancel" => req'[s].amount \in {0, ledger'[req'[s].job].hold}
    <3> SUFFICES ASSUME req[s].pc = "cancel"
                 PROVE  req[s].amount \in {0, ledger'[req[s].job].hold}
      BY <1>2
    <3>1. req[s].job \in Jobs BY NamedJob
    <3>2. Exists(req[s].job) BY DEF SettlementInv, ReqInv
    <3> QED BY <1>0, <3>1, <3>2, HoldRowStays DEF ReqWithin
  <2>2. req'[s].user # None => WithinLedger(req[s].user, req[s].bal)'
    BY <1>1, <1>2
  <2> QED BY <1>0, <1>2, <2>1, <2>2 DEF ReqWithin
<1>3. ASSUME RequestStep(s) PROVE ReqWithin(s)'
  <2>1. req'[s].pc = "cancel" => req'[s].amount \in {0, ledger'[req'[s].job].hold}
    BY <1>3, HandlerReads DEF SettlementInv, JobInv
  <2>2. req'[s].user # None => WithinLedger(req[s].user, req[s].bal)'
    BY <1>1, <1>3, HandlerReads
  <2>3. req'[s].pc # "adjust" BY <1>3, HandlerReads
  <2> QED BY <2>1, <2>2, <2>3 DEF ReqWithin
<1>4. ASSUME NEW r \in Requests, RequestStep(r) PROVE ReqWithin(s)'
  BY <1>2, <1>3, <1>4, RequestFrame
<1>5. ASSUME NEW j \in Jobs, WorkerStep(j) PROVE req' = req
  BY <1>5 DEF WorkerStep, WorkerProgress, PickUp, GiveUp, Return, Raise, Fetch,
     Start, CheckCancelled, Generate, Complete, RefundCommit, LoadModel, Fail,
     Crash, Timeout, DbError, EndDelivery, CommitStatus
<1> QED BY <1>2, <1>4, <1>5 DEF Next

\* The worker refunds on the balance that it read when it decided to.
LEMMA WorkersWithin ==
  ASSUME TypeOK, TypeOK', SettlementInv, WithinInv, Next, NEW i \in Jobs
  PROVE  RunWithin(i)'
<1> SUFFICES ASSUME run'[i].pc \in {"refund_cancel", "refund_fail"}
             PROVE  WithinLedger(job[i].owner, run[i].bal)'
  BY DEF RunWithin
<1>1. ASSUME NEW u \in Users, u = job'[i].owner, NEW bal \in Int, bal = run'[i].bal,
             WithinLedger(u, bal)
      PROVE  WithinLedger(job[i].owner, run[i].bal)'
  <2>1. Least(u)' <= bal /\ bal <= Most(u)' BY <1>1, BoundsWiden
  <2> QED BY <1>1, <2>1 DEF WithinLedger
<1>2. ASSUME run'[i] = run[i], job'[i].owner = job[i].owner
      PROVE  WithinLedger(job[i].owner, run[i].bal)'
  <2>1. job[i].owner \in Users
    BY <1>2 DEF SettlementInv, JobInv, HasHold, TypeOK, JobRows
  <2>2. WithinLedger(job[i].owner, run[i].bal) /\ run[i].bal \in Int
    BY <1>2 DEF WithinInv, RunWithin, TypeOK, RunSessions
  <2> QED BY <1>1, <1>2, <2>1, <2>2
<1>3. ASSUME NEW r \in Requests, RequestStep(r)
      PROVE  WithinLedger(job[i].owner, run[i].bal)'
  <2>1. run' = run BY <1>3, RequestRows
  <2>2. Exists(i) BY <2>1 DEF SettlementInv, JobInv, InHand, InSession
  <2>3. job'[i].owner = job[i].owner
    <3>1. CASE CreateCommit(r) /\ req[r].job \in Jobs
      <4>1. i # req[r].job
        BY <2>2, <3>1 DEF CreateCommit, SettlementInv, ReqInv, Minting
      <4> QED BY <3>1, <4>1, CreatedRow
    <3>2. CASE CancelCommit(r) /\ req[r].job \in Jobs
      <4>1. CASE i # req[r].job BY <3>2, <4>1, CancelledRow
      <4>2. CASE i = req[r].job
        <5>1. job[i] \in JobRows /\ req[r].amount \in Nat
          BY <3>2, CommitTypes DEF TypeOK
        <5>2. job'[i] = Cancelled(job[i], req[r].amount)
          BY <3>2, <4>2 DEF CancelCommit, TypeOK
        <5> QED BY <5>1, <5>2, CancelledFields
      <4> QED BY <4>1, <4>2
    <3> QED BY <1>3, <3>1, <3>2, RequestRows
  <2> QED BY <1>2, <2>1, <2>3
<1>4. ASSUME NEW j \in Jobs, WorkerStep(j)
      PROVE  WithinLedger(job[i].owner, run[i].bal)'
  <2>0. job'[i].owner = job[i].owner BY <1>4, WorkerKeepsKeys
  <2>1. CASE i # j BY <1>2, <1>4, <2>0, <2>1, WorkerFrame
  <2>2. CASE i = j
    <3>0. run \in [Jobs -> RunSessions] /\ run[i] \in RunSessions BY DEF TypeOK
    <3>1. run'[i] = run[i] \/ (HasHold(i) /\ run'[i].bal = credits[job[i].owner])
      <4>1. CASE CheckCancelled(i)
        BY <3>0, <4>1 DEF CheckCancelled, RunSessions, IdleRun
      <4>4. CASE Fail(i)
        <5>1. \A pc : [IdleRun EXCEPT !.pc = pc].pc = pc BY DEF IdleRun
        <5>2. \/ HasHold(i) /\ run'[i] = [run[i] EXCEPT !.pc = "refund_fail",
                                                    !.bal = credits[job[i].owner]]
              \/ \E pc \in {"raised", "returned"} : run'[i] = [IdleRun EXCEPT !.pc = pc]
          BY <3>0, <4>4 DEF Fail
        <5> QED BY <3>0, <5>1, <5>2 DEF RunSessions
      <4>2. CASE PickUp(i) \/ GiveUp(i) \/ Return(i) \/ Raise(i) \/ Fetch(i) \/ Complete(i)
                 \/ RefundCommit(i) \/ Crash(i) \/ Timeout(i) \/ DbError(i)
        <5>1. \A pc : [IdleRun EXCEPT !.pc = pc].pc = pc BY DEF IdleRun
        <5>2. IdleRun.pc = "idle" BY DEF IdleRun
        <5>3. CASE PickUp(i) \/ Complete(i) \/ RefundCommit(i) \/ DbError(i)
          BY <3>0, <5>1, <5>3 DEF PickUp, Complete, RefundCommit, DbError
        <5>5. CASE Fetch(i)
          BY <3>0, <5>5 DEF Fetch, IdleRun
        <5>4. CASE GiveUp(i) \/ Return(i) \/ Raise(i) \/ Crash(i) \/ Timeout(i)
          BY <3>0, <5>2, <5>4 DEF GiveUp, Return, Raise, Crash, Timeout, EndDelivery
        <5> QED BY <4>2, <5>3, <5>4, <5>5
      <4>3. CASE Start(i) \/ LoadModel(i) \/ Generate(i)
        BY <3>0, <4>3 DEF Start, LoadModel, Generate, CommitStatus, RunSessions
      <4> QED BY <1>4, <2>2, <4>1, <4>2, <4>3, <4>4 DEF WorkerStep, WorkerProgress
    <3>2. CASE HasHold(i) /\ run'[i].bal = credits[job[i].owner]
      <4>1. job[i].owner \in Users BY <3>2 DEF HasHold, TypeOK, JobRows
      <4>2. /\ WithinLedger(job[i].owner, credits[job[i].owner])
            /\ credits[job[i].owner] \in Int
        BY <4>1 DEF WithinInv, BalanceWithinLedger, TypeOK
      <4> QED BY <1>1, <2>0, <3>2, <4>1, <4>2
    <3> QED BY <1>2, <2>0, <3>1, <3>2
  <2> QED BY <2>1, <2>2
<1> QED BY <1>3, <1>4 DEF Next

\* Through all races, crashes, retries and rollbacks, with stale balances written
\* over one another: a balance is between what the hold rows leave of the grant and
\* what the refund rows add to it.  Without adjustments, which write no row.
THEOREM RacesStayWithinLedger ==
  ASSUME "adjust" \notin Endpoints
  PROVE  Spec => []BalanceWithinLedger
<1>1. Init => WithinInv
  <2> SUFFICES ASSUME Init PROVE WithinInv
    OBVIOUS
  <2>1. ASSUME NEW u \in Users PROVE WithinLedger(u, credits[u])
    <3>1. PICK f, h : /\ f = [j \in Jobs |-> GivenBack(j, u)]
                      /\ h = [j \in Jobs |-> TakenFrom(j, u)]
      OBVIOUS
    <3>2. \A j \in Jobs : f[j] = 0 /\ h[j] = 0
      BY <3>1, UsersAssumption DEF Init, NoRows, NoJob, GivenBack, TakenFrom
    <3>3. SumFunctionOnSet(f, Jobs) = 0 /\ SumFunctionOnSet(h, Jobs) = 0
      BY <3>2, RowsAssumption, SumZero
    <3>4. Most(u) = InitialCredits + 0 /\ Least(u) = InitialCredits - 0
      BY <3>1, <3>3 DEF Most, Least
    <3> QED BY <3>4, BalanceAssumption DEF Init, WithinLedger
  <2> QED
    BY <2>1 DEF Init, WithinInv, BalanceWithinLedger, ReqWithin, RunWithin, NothingBooked,
       Exists, IdleReq, IdleRun, NoJob
<1>2. TypeOK /\ TypeOK' /\ SettlementInv /\ WithinInv /\ [Next]_vars => WithinInv'
  <2> SUFFICES ASSUME TypeOK, TypeOK', SettlementInv, WithinInv, [Next]_vars
               PROVE  WithinInv'
    OBVIOUS
  <2>1. CASE UNCHANGED vars
    <3>1. \A u \in Users : Most(u)' = Most(u) /\ Least(u)' = Least(u)
      BY <2>1, BoundsStay DEF vars
    <3>2. \A r \in Requests : req[r].user # None => req[r].user \in Users
      BY DEF TypeOK, ReqSessions, ReqIdle, IdleReq, ReqAuth, ReqCreate, ReqFlushed,
         ReqCancel, ReqAdjust
    <3>3. \A j \in Jobs : run[j].pc \in {"refund_cancel", "refund_fail"}
                            => job[j].owner \in Users
      BY DEF SettlementInv, JobInv, HasHold, TypeOK, JobRows
    <3>4. BalanceWithinLedger'
      BY <2>1, <3>1 DEF vars, WithinInv, BalanceWithinLedger, WithinLedger
    <3>5. \A r \in Requests : ReqWithin(r)'
      BY <2>1, <3>1, <3>2 DEF vars, WithinInv, ReqWithin, WithinLedger
    <3>6. \A j \in Jobs : RunWithin(j)'
      BY <2>1, <3>1, <3>3 DEF vars, WithinInv, RunWithin, WithinLedger
    <3>7. \A j \in Jobs : NothingBooked(j)'
      BY <2>1 DEF vars, WithinInv, NothingBooked, Exists
    <3> QED BY <3>4, <3>5, <3>6, <3>7 DEF WithinInv
  <2>2. CASE Next
    <3>1. BalanceWithinLedger' BY <2>2, CommitsWithin DEF BalanceWithinLedger
    <3>2. \A j \in Jobs : NothingBooked(j)'
      BY <2>2, NothingBookedStep DEF WithinInv
    <3> QED BY <2>2, <3>1, <3>2, HandlersWithin, WorkersWithin DEF WithinInv
  <2> QED BY <2>1, <2>2
<1>3. WithinInv => BalanceWithinLedger BY DEF WithinInv
<1> QED BY <1>1, <1>2, <1>3, TypeCorrect, SettlementInvariant, PTL DEF Spec

-----------------------------------------------------------------------------
(* A hold is settled once, a started job is not cancelled                  *)

\* One more refund row of a cancellation where there was none of any kind.
LEMMA FirstCancelRow ==
  ASSUME NEW rows \in LedgerRows, Unsettled(rows), NEW u \in Users
  PROVE  SumFunctionOnSet(CancelRow(rows, u).cancel, Users) = 1
<1> DEFINE c == rows.cancel
           d == CancelRow(rows, u).cancel
<1>1. /\ \A v \in Users : c[v] = 0
      /\ d[u] = 1 /\ \A v \in Users \ {u} : d[v] = 0
  BY CancelRowFields DEF Unsettled, CancelRow, LedgerRows
<1> HIDE DEF c, d
<1>2. SumFunctionOnSet(c, Users) = 0 BY <1>1, RowsAssumption, SumZero
<1>3. SumFunctionOnSet(d, Users) = SumFunctionOnSet(c, Users) + d[u] - c[u]
  BY <1>1, RowsAssumption, SumChanges
<1>4. SumFunctionOnSet(d, Users) = 1 BY <1>1, <1>2, <1>3
<1> QED BY <1>4 DEF d

\* Who settles has read, alone, that the job still holds its credits.
LEMMA RequestSettlesOnce ==
  ASSUME TypeOK, SettlementInv, SerialInv, SettledOnce, NEW r \in Requests,
         RequestStep(r)
  PROVE  SettledOnce'
<1> SUFFICES ASSUME NEW j \in Jobs
             PROVE  ledger'[j].charge + ledger'[j].refund + CancelRows(j)' <= 1
  BY DEF SettledOnce
<1>0. /\ ledger[j] \in LedgerRows /\ ledger \in [Jobs -> LedgerRows]
      /\ job[j] \in JobRows /\ JobInv(j)
      /\ ledger[j].charge + ledger[j].refund + CancelRows(j) <= 1
  BY DEF TypeOK, SettlementInv, SettledOnce
<1>1. ASSUME ledger'[j].charge = ledger[j].charge, ledger'[j].refund = ledger[j].refund,
             ledger'[j].cancel = ledger[j].cancel
      PROVE  ledger'[j].charge + ledger'[j].refund + CancelRows(j)' <= 1
  BY <1>0, <1>1 DEF CancelRows
<1>2. CASE ledger'[j] = ledger[j] BY <1>1, <1>2
<1>3. CASE CreateCommit(r)
  <2>1. ledger'[j] = ledger[j] \/ ledger'[j] = [ledger[j] EXCEPT !.hold = req[r].amount]
    BY <1>0, <1>3 DEF CreateCommit
  <2>2. /\ ledger'[j].charge = ledger[j].charge /\ ledger'[j].refund = ledger[j].refund
        /\ ledger'[j].cancel = ledger[j].cancel
    BY <1>0, <2>1 DEF LedgerRows
  <2> QED BY <1>1, <2>2
<1>4. CASE CancelCommit(r) /\ ledger'[j] # ledger[j]
  <2> DEFINE q == req[r]
  <2>1. /\ q \in ReqCancel /\ q.pc = "cancel" /\ q.user \in Users /\ q.job = j
        /\ q.amount > 0 /\ q.amount \in {0, job[q.job].held}
        /\ ledger'[j] = CancelRow(ledger[j], q.user)
    BY <1>0, <1>4
    DEF CancelCommit, TypeOK, ReqSessions, ReqIdle, IdleReq, ReqAuth, ReqCreate,
       ReqFlushed, ReqCancel, ReqAdjust, SerialInv, ReqCurrent
  <2>2. job[j].held > 0 /\ Owned(j)
    BY <2>1 DEF SettlementInv, ReqInv
  <2>3. Unsettled(ledger[j])
    BY <1>0, <2>2 DEF JobInv
  <2>4. /\ ledger'[j].charge = 0 /\ ledger'[j].refund = 0
    BY <1>0, <2>1, <2>3, CancelRowFields DEF Unsettled
  <2>5. CancelRows(j)' = 1
    BY <1>0, <2>1, <2>3, FirstCancelRow DEF CancelRows
  <2> QED BY <2>4, <2>5
<1>5. CASE ~CreateCommit(r) /\ ~CancelCommit(r)
  <2>1. ledger' = ledger BY <1>5, RequestRows
  <2> QED BY <1>2, <2>1
<1> QED BY <1>2, <1>3, <1>4, <1>5

LEMMA WorkerSettlesOnceMore ==
  ASSUME TypeOK, SettlementInv, SerialInv, SettledOnce, NEW i \in Jobs, WorkerStep(i)
  PROVE  SettledOnce'
<1> SUFFICES ASSUME NEW j \in Jobs
             PROVE  ledger'[j].charge + ledger'[j].refund + CancelRows(j)' <= 1
  BY DEF SettledOnce
<1>0. /\ ledger[j] \in LedgerRows /\ ledger \in [Jobs -> LedgerRows]
      /\ job[j] \in JobRows /\ JobInv(j)
      /\ ledger[j].charge + ledger[j].refund + CancelRows(j) <= 1
  BY DEF TypeOK, SettlementInv, SettledOnce
<1>1. CASE ledger'[j] = ledger[j] BY <1>0, <1>1 DEF CancelRows
<1>2. CASE ledger'[j] # ledger[j]
  <2>1. i = j BY <1>2, WorkerFrame
  <2>2. /\ HasHold(j) /\ run[j].pc \in InHand
        /\ ledger'[j] = ChargeRow(ledger[j]) \/ ledger'[j] = RefundRow(ledger[j])
    BY <1>0, <1>2, <2>1
    DEF WorkerStep, WorkerProgress, PickUp, GiveUp, Return, Raise, Fetch, Start,
        CheckCancelled, Generate, Complete, RefundCommit, LoadModel, Fail, Crash,
        Timeout, DbError, EndDelivery, CommitStatus, JobInv, InHand, InSession
  <2>3. Owned(j) /\ job[j].held > 0
    BY <1>0, <2>2 DEF SerialInv, RunCurrent, JobInv, HasHold, Owned
  <2>4. Unsettled(ledger[j]) BY <1>0, <2>3 DEF JobInv
  <2>5. /\ ledger'[j].charge + ledger'[j].refund = 1
        /\ ledger'[j].cancel = ledger[j].cancel
    BY <1>0, <2>2, <2>4, RowFields DEF Unsettled
  <2>6. CancelRows(j)' = 0
    <3>1. SumFunctionOnSet(ledger[j].cancel, Users) = 0
      BY <2>4, RowsAssumption, SumZero DEF Unsettled
    <3> QED BY <2>5, <3>1 DEF CancelRows
  <2> QED BY <2>5, <2>6
<1> QED BY <1>1, <1>2

\* Charged or refunded, by the worker or by a handler: once.
THEOREM HoldsAreSettledOnce == SerialSpec => []SettledOnce
<1>1. Init => SettledOnce
  <2> SUFFICES ASSUME Init, NEW j \in Jobs
               PROVE  ledger[j].charge + ledger[j].refund + CancelRows(j) <= 1
    BY DEF SettledOnce
  <2>1. ledger[j].charge = 0 /\ ledger[j].refund = 0
        /\ \A u \in Users : ledger[j].cancel[u] = 0
    BY DEF Init, NoRows
  <2>2. CancelRows(j) = 0 BY <2>1, RowsAssumption, SumZero DEF CancelRows
  <2> QED BY <2>1, <2>2
<1>2. TypeOK /\ SettlementInv /\ SerialInv /\ SettledOnce /\ [Next]_vars
        => SettledOnce'
  <2> SUFFICES ASSUME TypeOK, SettlementInv, SerialInv, SettledOnce, [Next]_vars
               PROVE  SettledOnce'
    OBVIOUS
  <2>1. CASE UNCHANGED vars BY <2>1 DEF vars, SettledOnce, CancelRows
  <2> QED BY <2>1, RequestSettlesOnce, WorkerSettlesOnceMore DEF Next
<1> QED
  BY <1>1, <1>2, SerialImplementsJobs, TypeCorrect, SettlementInvariant,
     SerialInvariant, PTL
  DEF SerialSpec, Spec
=============================================================================
