-------------------------- MODULE JobReadersProofs --------------------------
(***************************************************************************)
(* Theorems about what those who look at jobs see: the statuses and holds  *)
(* that the API shows (VideoJobs implements JobLife), and what clients of  *)
(* the event stream are told (JobEvents), for any number of jobs and       *)
(* clients and for a Redis that fails at any moment.                       *)
(***************************************************************************)
EXTENDS JobEvents, VideoJobsLife, VideoJobsProofs

-----------------------------------------------------------------------------
(* What the row can say while the worker is at work                        *)

LEMMA InitLifeInv == Init => LifeInv
  BY DEF Init, LifeInv, RowFits, IdleRun, NoJob

\* A delivery that is not between its fetch and its last commit says nothing.
LEMMA AsideFits ==
  ASSUME NEW j \in Jobs, run'[j].pc \in {"idle", "picked", "returned", "raised"}
  PROVE  RowFits(j)'
  BY DEF RowFits

\* The worker's own steps: what it writes fits where it then is.
LEMMA WorkerRowFits ==
  ASSUME TypeOK, NEW j \in Jobs, RowFits(j), WorkerStep(j)
  PROVE  RowFits(j)'
<1>0. /\ run \in [Jobs -> RunSessions] /\ run[j] \in RunSessions
      /\ job \in [Jobs -> JobRows] /\ job[j] \in JobRows
  BY DEF TypeOK
<1>1. CASE PickUp(j) \/ Return(j) \/ Raise(j) \/ Crash(j) \/ Timeout(j) \/ DbError(j)
           \/ RefundCommit(j) \/ Complete(j)
  <2>1. \/ run'[j] = IdleRun
        \/ run'[j] = [IdleRun EXCEPT !.pc = "picked"]
        \/ run'[j] = [IdleRun EXCEPT !.pc = "raised"]
        \/ run'[j] = [IdleRun EXCEPT !.pc = "returned"]
    BY <1>0, <1>1 DEF PickUp, Return, Raise, Crash, Timeout, DbError, EndDelivery,
       RefundCommit, Complete
  <2> QED BY <2>1, AsideFits DEF IdleRun
<1>2. CASE GiveUp(j)
  BY <1>2 DEF GiveUp, RowFits
<1>3. CASE Fetch(j)
  <2>1. job' = job BY <1>3 DEF Fetch
  <2>2. CASE job[j].status \in {"absent", "cancelled"}
    <3>1. run'[j] = [IdleRun EXCEPT !.pc = "returned"]
      BY <1>0, <1>3, <2>2 DEF Fetch
    <3> QED BY <3>1, AsideFits DEF IdleRun
  <2>3. CASE job[j].status \notin {"absent", "cancelled"}
    <3>1. run'[j] = [IdleRun EXCEPT !.pc = "fetched", !.status = job[j].status,
                                    !.held = job[j].held, !.retries = job[j].retries]
      BY <1>0, <1>3, <2>3 DEF Fetch
    <3>2. run'[j].pc = "fetched" /\ run'[j].status = job[j].status
      BY <3>1 DEF IdleRun
    <3> QED BY <2>1, <3>2 DEF RowFits
  <2> QED BY <2>2, <2>3
<1>4. ASSUME NEW status, NEW pc, CommitStatus(j, status, pc)
      PROVE  /\ run'[j].status = status /\ run'[j].pc = pc
             /\ \/ run[j].status = status /\ job'[j].status = job[j].status
                \/ job'[j].status = status
  <2>1. /\ run'[j] = [run[j] EXCEPT !.status = status, !.pc = pc]
        /\ \/ run[j].status = status /\ job'[j] = job[j]
           \/ job'[j] = [job[j] EXCEPT !.status = status]
    BY <1>0, <1>4 DEF CommitStatus
  <2>2. run'[j].status = status /\ run'[j].pc = pc BY <1>0, <2>1 DEF RunSessions
  <2> QED BY <1>0, <2>1, <2>2 DEF JobRows
<1>5. CASE Start(j)
  BY <1>4, <1>5 DEF Start, RowFits
<1>6. CASE LoadModel(j)
  BY <1>4, <1>6 DEF LoadModel, RowFits
<1>7. CASE Generate(j)
  BY <1>4, <1>7 DEF Generate, RowFits
<1>8. CASE CheckCancelled(j)
  <2>1. job' = job /\ run[j].pc \in {"started", "loading"} BY <1>8 DEF CheckCancelled
  <2>2. CASE job[j].status # "cancelled"
    <3>1. run'[j] = [run[j] EXCEPT !.pc = "checked", !.status = job[j].status]
      BY <1>0, <1>8, <2>2 DEF CheckCancelled
    <3>2. run'[j].pc = "checked" /\ run'[j].status = job[j].status
      BY <1>0, <3>1 DEF RunSessions
    <3> QED BY <2>1, <2>2, <3>2 DEF RowFits
  <2>3. CASE job[j].status = "cancelled"
    <3>1. \/ run'[j] = [run[j] EXCEPT !.pc = "refund_cancel", !.status = "cancelled",
                                      !.bal = credits[job[j].owner]]
          \/ run'[j] = [IdleRun EXCEPT !.pc = "returned"]
      BY <1>0, <1>8, <2>3 DEF CheckCancelled
    <3>2. run'[j].pc \in {"refund_cancel", "returned"}
      BY <1>0, <3>1 DEF RunSessions, IdleRun
    <3> QED BY <2>1, <2>3, <3>2 DEF RowFits
  <2> QED BY <2>2, <2>3
<1>9. CASE Fail(j)
  <2>1. CASE Exhausted(run[j].retries + 1) /\ HasHold(j)
    <3>1. /\ job' = job /\ run[j].pc \in {"started", "loading", "generating"}
          /\ run'[j] = [run[j] EXCEPT !.pc = "refund_fail",
                                      !.bal = credits[job[j].owner]]
      BY <1>0, <1>9, <2>1 DEF Fail
    <3>2. run'[j].pc = "refund_fail" BY <1>0, <3>1 DEF RunSessions
    <3> QED BY <3>1, <3>2 DEF RowFits
  <2>2. CASE ~(Exhausted(run[j].retries + 1) /\ HasHold(j))
    <3>1. \/ run'[j] = [IdleRun EXCEPT !.pc = "raised"]
          \/ run'[j] = [IdleRun EXCEPT !.pc = "returned"]
      BY <1>0, <1>9, <2>2 DEF Fail
    <3> QED BY <3>1, AsideFits DEF IdleRun
  <2> QED BY <2>1, <2>2
<1> QED
  BY <1>1, <1>2, <1>3, <1>5, <1>6, <1>7, <1>8, <1>9 DEF WorkerStep, WorkerProgress

LEMMA RequestLifeInv ==
  ASSUME TypeOK, SettlementInv, LifeInv, NEW r \in Requests, RequestStep(r)
  PROVE  LifeInv'
<1> SUFFICES ASSUME NEW j \in Jobs PROVE RowFits(j)'
  BY DEF LifeInv
<1>1. RowFits(j) /\ run' = run BY RequestRows DEF LifeInv
<1>2. CASE job' = job BY <1>1, <1>2 DEF RowFits
<1>3. CASE CreateCommit(r) /\ req[r].job \in Jobs
  <2>1. \/ run[j].pc \notin InHand
        \/ job'[j] = job[j]
    BY <1>3, CreatedRow
  <2> QED BY <1>1, <2>1 DEF RowFits, InHand, InSession
<1>4. CASE CancelCommit(r) /\ req[r].job \in Jobs
  <2>1. job'[j].status = "cancelled" \/ job'[j] = job[j]
    BY <1>4, CancelledRow
  <2> QED BY <1>1, <2>1 DEF RowFits
<1> QED BY <1>2, <1>3, <1>4, RequestRows

LEMMA LifeInvariant == Spec => []LifeInv
<1>1. TypeOK /\ SettlementInv /\ LifeInv /\ [Next]_vars => LifeInv'
  <2> SUFFICES ASSUME TypeOK, SettlementInv, LifeInv, [Next]_vars PROVE LifeInv'
    OBVIOUS
  <2>1. CASE UNCHANGED vars BY <2>1 DEF vars, LifeInv, RowFits
  <2>2. ASSUME NEW j \in Jobs, WorkerStep(j) PROVE LifeInv'
    <3>1. RowFits(j)' BY <2>2, WorkerRowFits DEF LifeInv
    <3>2. ASSUME NEW i \in Jobs \ {j} PROVE RowFits(i)'
      <4>1. RowFits(i) /\ job'[i] = job[i] /\ run'[i] = run[i]
        BY <2>2, WorkerFrame DEF LifeInv
      <4> QED BY <4>1 DEF RowFits
    <3> QED BY <3>1, <3>2 DEF LifeInv
  <2> QED BY <2>1, <2>2, RequestLifeInv DEF Next
<1> QED BY InitLifeInv, <1>1, TypeCorrect, SettlementInvariant, PTL DEF Spec

-----------------------------------------------------------------------------
(* The refinement                                                          *)

\* A step that changes what is seen of one job only.
LEMMA SeenOf ==
  ASSUME NEW j \in Jobs, NEW s, NEW h,
         LifeOf(j)' = [status |-> s, hold |-> h],
         \A i \in Jobs \ {j} : LifeOf(i)' = LifeOf(i)
  PROVE  Life!Becomes(j, s, h)
  BY DEF Life!Becomes

LEMMA WorkerImplementsLife ==
  ASSUME TypeOK, NEW j \in Jobs, JobInv(j), RowFits(j), WorkerStep(j)
  PROVE  \/ \A i \in Jobs : LifeOf(i)' = LifeOf(i)
         \/ Life!LifeStep(j)
<1> DEFINE now == job[j].status
           hold == HoldOf(j)
<1>0. /\ job[j] \in JobRows /\ job \in [Jobs -> JobRows]
      /\ ledger[j] \in LedgerRows /\ ledger \in [Jobs -> LedgerRows]
      /\ job[j].held \in Nat /\ run[j].held \in Nat /\ ledger[j].hold \in Nat
      /\ run[j] \in RunSessions
  BY DEF TypeOK, JobRows, LedgerRows, RunSessions
<1>1. \A i \in Jobs \ {j} : LifeOf(i)' = LifeOf(i)
  BY WorkerFrame DEF LifeOf, HoldOf
<1>2. /\ LifeOf(j) = [status |-> now, hold |-> hold]
      /\ hold \in {"none", "held", "settled"}
      /\ hold = "held" <=> job[j].held > 0
      /\ hold = "settled" <=> job[j].held = 0 /\ ledger[j].hold > 0
  BY <1>0 DEF LifeOf, HoldOf
<1>3. /\ [i \in Jobs |-> LifeOf(i)][j].status = now
      /\ [i \in Jobs |-> LifeOf(i)][j].hold = hold
  BY <1>2
<1> HIDE DEF now, hold
<1>4. ASSUME job'[j] = job[j], ledger'[j] = ledger[j]
      PROVE  \A i \in Jobs : LifeOf(i)' = LifeOf(i)
  BY <1>1, <1>4 DEF LifeOf, HoldOf
<1>5. CASE PickUp(j) \/ GiveUp(j) \/ Return(j) \/ Raise(j) \/ Crash(j) \/ Timeout(j)
           \/ DbError(j) \/ Fetch(j) \/ CheckCancelled(j)
  BY <1>4, <1>5 DEF PickUp, GiveUp, Return, Raise, Crash, Timeout, DbError, EndDelivery,
     Fetch, CheckCancelled
<1>6. CASE Start(j) \/ LoadModel(j) \/ Generate(j)
  <2>1. PICK status \in {"processing", "loading_model"},
            pc \in {"started", "loading", "generating"} :
          CommitStatus(j, status, pc) /\ run[j].pc \in InHand
    BY <1>6 DEF Start, LoadModel, Generate, InHand, InSession
  <2>2. /\ ledger' = ledger
        /\ job'[j] = job[j] \/ job'[j] = [job[j] EXCEPT !.status = status]
    BY <1>0, <2>1 DEF CommitStatus
  <2>3. CASE job'[j] = job[j] BY <1>4, <2>2, <2>3
  <2>4. CASE job'[j] = [job[j] EXCEPT !.status = status]
    <3>1. job'[j].status = status /\ job'[j].held = job[j].held
      BY <1>0, <2>4 DEF JobRows
    <3>2. LifeOf(j)' = [status |-> status, hold |-> hold]
      BY <1>2, <2>2, <3>1 DEF LifeOf, HoldOf
    <3>3. now # "absent" BY <2>1 DEF JobInv, Exists, now
    <3>4. Life!Becomes(j, status, hold) BY <1>1, <3>2, SeenOf
    <3>5. Life!Work(j)
      BY <1>3, <2>1, <3>3, <3>4 DEF Life!Work, Life!Is, Life!AtWork
    <3> QED BY <3>5 DEF Life!LifeStep
  <2> QED BY <2>2, <2>3, <2>4
<1>7. CASE Complete(j)
  <2>1. now \in {"processing", "cancelled"} BY <1>7 DEF Complete, RowFits, now
  <2>2. LifeOf(j)' = [status |-> "completed", hold |-> Life!Settling(hold)]
    <3>1. CASE HasHold(j)
      <4>1. job'[j] = Charged(job[j], run[j].held) /\ ledger'[j] = ChargeRow(ledger[j])
        BY <1>0, <1>7, <3>1 DEF Complete
      <4>2. /\ job'[j].status = "completed" /\ job'[j].held = 0
            /\ ledger'[j].hold = ledger[j].hold
        BY <1>0, <4>1, ChargedFields, RowFields
      <4>3. ledger[j].hold > 0 BY <1>0, <3>1 DEF JobInv, HasHold
      <4>4. Life!Settling(hold) = "settled" BY <1>0, <1>2, <4>3 DEF Life!Settling
      <4> QED BY <4>2, <4>3, <4>4 DEF LifeOf, HoldOf
    <3>2. CASE ~HasHold(j)
      <4>1. ledger'[j] = ledger[j] /\ job'[j] = [job[j] EXCEPT !.status = "completed"]
        BY <1>0, <1>7, <3>2 DEF Complete
      <4>2. job'[j].status = "completed" /\ job'[j].held = job[j].held
        BY <1>0, <4>1 DEF JobRows
      <4>3. job[j].held = 0
        BY <1>0, <1>7, <3>2 DEF Complete, JobInv, HasHold, InHand, InSession
      <4>4. Life!Settling(hold) = hold BY <1>2, <4>3 DEF Life!Settling
      <4> QED BY <1>0, <1>2, <4>1, <4>2, <4>3, <4>4 DEF LifeOf, HoldOf
    <3> QED BY <3>1, <3>2
  <2>3. Life!Complete(j)
    BY <1>1, <1>3, <2>1, <2>2, SeenOf DEF Life!Complete, Life!Is
  <2> QED BY <2>3 DEF Life!LifeStep
<1>8. CASE Fail(j)
  <2>1. CASE job' = job BY <1>4, <1>8, <2>1 DEF Fail
  <2>2. CASE job' # job
    <3>1. /\ job'[j] = Failed(job[j], run[j].retries + 1) /\ ledger' = ledger
          /\ run[j].pc \in {"started", "loading", "generating"}
      BY <1>0, <1>8, <2>2 DEF Fail
    <3>2. job'[j].status = "failed" /\ job'[j].held = job[j].held
      BY <1>0, <3>1, FailedFields
    <3>3. LifeOf(j)' = [status |-> "failed", hold |-> hold]
      BY <1>2, <3>1, <3>2 DEF LifeOf, HoldOf
    <3>4. now \in {"loading_model", "processing", "cancelled"}
      BY <3>1 DEF RowFits, now
    <3>5. Life!Fail(j)
      BY <1>1, <1>3, <3>3, <3>4, SeenOf DEF Life!Fail, Life!Is, Life!AtWork
    <3> QED BY <3>5 DEF Life!LifeStep
  <2> QED BY <2>1, <2>2
<1>9. CASE RefundCommit(j)
  <2>1. /\ ledger'[j] = RefundRow(ledger[j])
        /\ \/ run[j].pc = "refund_cancel" /\ job'[j] = Refunded(job[j])
           \/ /\ run[j].pc = "refund_fail"
              /\ job'[j] = Failed(Refunded(job[j]), run[j].retries + 1)
    BY <1>0, <1>9 DEF RefundCommit
  <2>2. job'[j].held = 0 /\ ledger'[j].hold = ledger[j].hold
    BY <1>0, <2>1, RowFields, RefundedFields, FailedFields
  <2>3. ledger[j].hold > 0
    BY <1>0, <1>9 DEF RefundCommit, JobInv, HasHold
  <2>4. HoldOf(j)' = "settled" /\ Life!Settling(hold) = "settled"
    BY <1>0, <1>2, <2>2, <2>3 DEF HoldOf, Life!Settling
  <2>5. CASE run[j].pc = "refund_cancel"
    <3>1. now = "cancelled" /\ job'[j].status = "cancelled"
      BY <1>0, <2>1, <2>5, RefundedFields DEF RowFits, now
    <3>2. LifeOf(j)' = [status |-> "cancelled", hold |-> Life!Settling(hold)]
      BY <2>4, <3>1 DEF LifeOf
    <3>3. Life!Refund(j) BY <1>1, <1>3, <3>1, <3>2, SeenOf DEF Life!Refund, Life!Is
    <3> QED BY <3>3 DEF Life!LifeStep
  <2>6. CASE run[j].pc = "refund_fail"
    <3>1. /\ now \in {"loading_model", "processing", "cancelled"}
          /\ job'[j].status = "failed"
      BY <1>0, <2>1, <2>6, RefundedFields, FailedFields DEF RowFits, now
    <3>2. LifeOf(j)' = [status |-> "failed", hold |-> Life!Settling(hold)]
      BY <2>4, <3>1 DEF LifeOf
    <3>3. Life!Fail(j)
      BY <1>1, <1>3, <3>1, <3>2, SeenOf DEF Life!Fail, Life!Is, Life!AtWork
    <3> QED BY <3>3 DEF Life!LifeStep
  <2> QED BY <2>1, <2>5, <2>6
<1> QED
  BY <1>5, <1>6, <1>7, <1>8, <1>9 DEF WorkerStep, WorkerProgress

LEMMA RequestImplementsLife ==
  ASSUME TypeOK, SettlementInv, NEW r \in Requests, RequestStep(r)
  PROVE  \/ \A i \in Jobs : LifeOf(i)' = LifeOf(i)
         \/ \E j \in Jobs : Life!LifeStep(j)
<1>1. CASE job' = job /\ ledger' = ledger
  BY <1>1 DEF LifeOf, HoldOf
<1>2. CASE CreateCommit(r) /\ req[r].job \in Jobs
  <2>1. PICK j \in Jobs : j = req[r].job BY <1>2
  <2>2. /\ job[j].status = "absent" /\ job'[j].status \in Cancellable
        /\ job'[j].held \in Nat /\ ledger'[j].hold = job'[j].held
        /\ \A i \in Jobs \ {j} : job'[i] = job[i] /\ ledger'[i] = ledger[i]
    BY <1>2, <2>1, CreatedRow
  <2>3. \A i \in Jobs \ {j} : LifeOf(i)' = LifeOf(i)
    BY <2>2 DEF LifeOf, HoldOf
  <2>4. PICK s \in Cancellable, h \in {"none", "held"} :
          LifeOf(j)' = [status |-> s, hold |-> h]
    BY <2>2 DEF LifeOf, HoldOf
  <2>5. Life!Becomes(j, s, h) BY <2>3, <2>4, SeenOf
  <2>6. [i \in Jobs |-> LifeOf(i)][j].status = "absent" BY <2>2 DEF LifeOf
  <2>7. Life!Submit(j)
    BY <2>5, <2>6 DEF Life!Submit, Life!Is, Life!Waiting, Cancellable
  <2> QED BY <2>7 DEF Life!LifeStep
<1>3. CASE CancelCommit(r) /\ req[r].job \in Jobs
  <2>1. PICK j \in Jobs : j = req[r].job BY <1>3
  <2>2. /\ job[j].status # "absent" /\ job'[j].status = "cancelled"
        /\ job'[j].held \in {0, job[j].held}
        /\ ledger'[j].hold = ledger[j].hold
        /\ \A i \in Jobs \ {j} : job'[i] = job[i] /\ ledger'[i] = ledger[i]
    BY <1>3, <2>1, CancelledRow
  <2>3. \A i \in Jobs \ {j} : LifeOf(i)' = LifeOf(i)
    BY <2>2 DEF LifeOf, HoldOf
  <2>4. /\ job[j].held \in Nat /\ ledger[j].hold \in Nat
        /\ job[j].held \in {0, ledger[j].hold}
    BY DEF TypeOK, JobRows, LedgerRows, SettlementInv, JobInv
  <2>5. PICK h \in {HoldOf(j), Life!Settling(HoldOf(j))} :
          LifeOf(j)' = [status |-> "cancelled", hold |-> h]
    BY <2>2, <2>4 DEF LifeOf, HoldOf, Life!Settling
  <2>6. Life!Becomes(j, "cancelled", h) BY <2>3, <2>5, SeenOf
  <2>7. /\ [i \in Jobs |-> LifeOf(i)][j].status # "absent"
        /\ [i \in Jobs |-> LifeOf(i)][j].hold = HoldOf(j)
    BY <2>2 DEF LifeOf
  <2>8. Life!Cancel(j) BY <2>5, <2>6, <2>7 DEF Life!Cancel, Life!Is
  <2> QED BY <2>8 DEF Life!LifeStep
<1> QED BY <1>1, <1>2, <1>3, RequestRows

\* VideoJobs implements the life of a job, whatever the number of users, jobs,
\* requests and retries: everything proved from JobLife holds for the API.
THEOREM JobsImplementLife == Spec => ImplementsLife
<1>1. Init => Life!LifeInit
  BY DEF Init, Life!LifeInit, Life!Unborn, LifeOf, HoldOf, NoJob, NoRows
<1>2. TypeOK /\ SettlementInv /\ LifeInv /\ [Next]_vars
        => [Life!LifeNext]_([j \in Jobs |-> LifeOf(j)])
  <2> SUFFICES ASSUME TypeOK, SettlementInv, LifeInv, [Next]_vars
               PROVE  \/ Life!LifeNext
                      \/ \A i \in Jobs : LifeOf(i)' = LifeOf(i)
    OBVIOUS
  <2>1. CASE UNCHANGED vars BY <2>1 DEF vars, LifeOf, HoldOf
  <2>2. ASSUME NEW r \in Requests, RequestStep(r)
        PROVE  \/ Life!LifeNext
               \/ \A i \in Jobs : LifeOf(i)' = LifeOf(i)
    BY <2>2, RequestImplementsLife DEF Life!LifeNext
  <2>3. ASSUME NEW j \in Jobs, WorkerStep(j)
        PROVE  \/ Life!LifeNext
               \/ \A i \in Jobs : LifeOf(i)' = LifeOf(i)
    BY <2>3, WorkerImplementsLife DEF SettlementInv, LifeInv, Life!LifeNext
  <2> QED BY <2>1, <2>2, <2>3 DEF Next
<1> QED
  BY <1>1, <1>2, TypeCorrect, SettlementInvariant, LifeInvariant, PTL
  DEF Spec, ImplementsLife, Life!LifeSpec

-----------------------------------------------------------------------------
(* The composition adds nothing to what the jobs do                        *)

LEMMA EventsStep == [EventsNext]_allVars => [Next]_vars
<1> SUFFICES ASSUME [EventsNext]_allVars PROVE [Next]_vars
  OBVIOUS
<1>1. CASE UNCHANGED allVars
  BY <1>1 DEF allVars
<1>2. ASSUME NEW r \in Requests, RequestStep(r) PROVE Next
  BY <1>2 DEF Next
<1>3. ASSUME NEW j \in Jobs, WorkerGoesOn(j) \/ WorkerMayDo(j) \/ Interrupt(j)
      PROVE  Next
  <2>1. WorkerStep(j)
    BY <1>3 DEF WorkerGoesOn, WorkerMayDo, Interrupt, Silent, Finish, Refund,
       Stumble, WorkerStep, WorkerProgress
  <2> QED BY <2>1 DEF Next
<1>4. ASSUME NEW j \in Jobs, Publish(j) PROVE UNCHANGED vars
  BY <1>4 DEF Publish
<1>5. ASSUME NEW c \in Clients,
             \/ \E u \in Users, j \in Jobs : Connect(c, u, j)
             \/ StreamGoesOn(c) \/ StreamError(c) \/ Leave(c)
      PROVE  UNCHANGED vars
  BY <1>5 DEF Connect, StreamGoesOn, StreamError, Leave, GetClient, Ping,
     Subscribe, Receive, Poll
<1>6. CASE RedisFlips
  BY <1>6 DEF RedisFlips
<1> QED BY <1>1, <1>2, <1>3, <1>4, <1>5, <1>6 DEF EventsNext

\* With announcements and clients around them, the jobs do what VideoJobs says:
\* all its safety theorems hold for the composition.
THEOREM EventsImplementJobs == EventsSpec => Spec
<1>1. EventsInit => Init BY DEF EventsInit
<1> QED BY <1>1, EventsStep, PTL DEF EventsSpec, Spec

-----------------------------------------------------------------------------
(* Nobody is told of a video that is not paid for                          *)

\* No handler takes a hold on a job that has none, or removes a job.
LEMMA RequestKeepsPaid ==
  ASSUME TypeOK, SettlementInv, NEW r \in Requests, RequestStep(r),
         NEW j \in Jobs, HoldsNothing(j)
  PROVE  HoldsNothing(j)'
<1> DEFINE q == req[r]
<1>0. job \in [Jobs -> JobRows] /\ job[j] \in JobRows
  BY DEF TypeOK
<1>1. CASE job'[j] = job[j]
  BY <1>1 DEF HoldsNothing, Exists
<1>2. CASE CreateCommit(r) /\ job'[j] # job[j]
  <2>1. q.pc = "flushed" /\ q.job = j BY <1>0, <1>2 DEF CreateCommit
  <2>2. ~Exists(j) BY <2>1 DEF SettlementInv, ReqInv, Minting
  <2> QED BY <2>2 DEF HoldsNothing
<1>3. CASE CancelCommit(r) /\ job'[j] # job[j]
  <2>1. q \in ReqCancel /\ q.job = j
    BY <1>0, <1>3
    DEF CancelCommit, TypeOK, ReqSessions, ReqIdle, IdleReq, ReqAuth, ReqCreate,
        ReqFlushed, ReqCancel, ReqAdjust
  <2>2. job'[j] = Cancelled(job[j], q.amount)
    BY <1>0, <1>3, <2>1 DEF CancelCommit
  <2>3. q.amount \in Nat BY <2>1 DEF ReqCancel
  <2>4. job'[j].status = "cancelled" /\ job'[j].held = 0
    BY <1>0, <2>2, <2>3, CancelledFields DEF HoldsNothing
  <2> QED BY <2>4 DEF HoldsNothing, Exists
<1>4. CASE ~CreateCommit(r) /\ ~CancelCommit(r)
  <2>1. job' = job
    BY <1>4 DEF RequestStep, RequestProgress, Authenticate, Abandon, CreateRead,
     DuplicateRead, AdminCreate, CancelRead, AdminCancelRead, AdjustRead,
     CreateFlush, KeyConflict, AdjustCommit
  <2> QED BY <1>1, <2>1
<1> QED BY <1>1, <1>2, <1>3, <1>4

\* The worker lowers a hold to nothing or leaves it.
LEMMA WorkerKeepsPaid ==
  ASSUME TypeOK, SettlementInv, NEW i \in Jobs, WorkerStep(i),
         NEW j \in Jobs, HoldsNothing(j)
  PROVE  HoldsNothing(j)'
<1>0. /\ job \in [Jobs -> JobRows] /\ job[j] \in JobRows /\ JobInv(j)
      /\ run[j] \in RunSessions
  BY DEF TypeOK, SettlementInv
<1>1. CASE i # j
  BY <1>1, WorkerFrame DEF HoldsNothing, Exists
<1>2. CASE i = j
  <2>1. Exists(j)' BY <1>0, <1>2, WorkerJobInv DEF HoldsNothing
  <2>2. CASE Complete(j) /\ HasHold(j)
    <3>1. job'[j] = Charged(job[j], run[j].held) BY <1>0, <2>2 DEF Complete
    <3> QED BY <1>0, <2>1, <3>1, ChargedFields DEF HoldsNothing
  <2>3. CASE RefundCommit(j)
    <3>1. \/ job'[j] = Refunded(job[j])
          \/ job'[j] = Failed(Refunded(job[j]), run[j].retries + 1)
      BY <1>0, <2>3 DEF RefundCommit
    <3>2. job'[j].held = 0 BY <1>0, <3>1, RefundedFields, FailedFields
    <3> QED BY <2>1, <3>2 DEF HoldsNothing
  <2>4. CASE ~(Complete(j) /\ HasHold(j)) /\ ~RefundCommit(j)
    <3>1. \/ job'[j] = job[j]
          \/ \E status : job'[j] = [job[j] EXCEPT !.status = status]
          \/ \E attempts : job'[j] = Failed(job[j], attempts)
      BY <1>0, <1>2, <2>4
      DEF WorkerStep, WorkerProgress, PickUp, GiveUp, Return, Raise, Fetch, Start,
          CheckCancelled, Generate, Complete, LoadModel, Fail, Crash, Timeout,
          DbError, EndDelivery, CommitStatus
    <3>2. ASSUME NEW status, job'[j] = [job[j] EXCEPT !.status = status]
          PROVE  job'[j].held = job[j].held
      BY <1>0, <3>2 DEF JobRows
    <3>3. ASSUME NEW attempts, job'[j] = Failed(job[j], attempts)
          PROVE  job'[j].held = job[j].held
      BY <1>0, <3>3, FailedFields
    <3>4. job'[j].held = job[j].held BY <3>1, <3>2, <3>3
    <3> QED BY <2>1, <3>4 DEF HoldsNothing
  <2> QED BY <2>2, <2>3, <2>4
<1> QED BY <1>1, <1>2

\* A job that is paid stays paid.
LEMMA HoldsNothingForEver ==
  ASSUME TypeOK, SettlementInv, [Next]_vars, NEW j \in Jobs, HoldsNothing(j)
  PROVE  HoldsNothing(j)'
<1>1. CASE UNCHANGED vars
  BY <1>1 DEF vars, HoldsNothing, Exists
<1> QED BY <1>1, RequestKeepsPaid, WorkerKeepsPaid DEF Next

-----------------------------------------------------------------------------
(* Types of the events                                                     *)

LEMMA InitEventsTypeOK == EventsInit => EventsTypeOK
<1> SUFFICES ASSUME EventsInit PROVE EventsTypeOK
  OBVIOUS
<1>1. StreamOK(NoStream)
  BY ClientsAssumption DEF StreamOK, Streams, NoStream, StreamStates, Statuses
<1> QED BY <1>1, ClientsAssumption DEF EventsInit, EventsTypeOK, StreamOK, Announced

\* The steps of one client.
LEMMA StreamTypeOK ==
  ASSUME TypeOK, EventsTypeOK, NEW c \in Clients,
         \/ \E u \in Users, j \in Jobs : Connect(c, u, j)
         \/ StreamGoesOn(c) \/ StreamError(c) \/ Leave(c)
  PROVE  EventsTypeOK'
<1> DEFINE s == stream[c]
<1>0. /\ stream \in [Clients -> Streams] /\ s \in Streams /\ StreamOK(s)
      /\ pub' = pub /\ redisUp' = redisUp
  BY DEF EventsTypeOK, Connect, StreamGoesOn, StreamError, Leave, GetClient, Ping,
     Subscribe, Receive, Poll
<1>1. cached' \in BOOLEAN
  BY DEF EventsTypeOK, Connect, StreamGoesOn, StreamError, Leave, GetClient, Ping,
     Subscribe, Receive, Poll
<1>2a. <<>> \in Seq(Announced \ {"none"})
  OBVIOUS
<1>2. ASSUME NEW t, StreamOK(t), stream' = [stream EXCEPT ![c] = t]
      PROVE  EventsTypeOK'
  BY <1>0, <1>1, <1>2 DEF EventsTypeOK, StreamOK
<1>3. ASSUME NEW u \in Users, NEW j \in Jobs, Connect(c, u, j)
      PROVE  EventsTypeOK'
  <2>1. PICK pc \in {"ended", "opening"}, status \in Statuses :
          stream' = [stream EXCEPT ![c] = [pc |-> pc, job |-> j, last |-> status,
                                           inbox |-> <<>>, polls |-> 0]]
    BY <1>3 DEF Connect, TypeOK, JobRows
  <2>2. StreamOK([pc |-> pc, job |-> j, last |-> status, inbox |-> <<>>, polls |-> 0])
    BY <1>2a, ClientsAssumption DEF StreamOK, Streams, StreamStates
  <2> QED BY <1>2, <2>1, <2>2
<1>4. ASSUME NEW pc \in StreamStates \ {"away", "ended"}, Goes(c, pc),
             s.pc \notin {"away", "ended"}
      PROVE  EventsTypeOK'
  <2>1. stream' = [stream EXCEPT ![c] = [s EXCEPT !.pc = pc]] BY <1>4 DEF Goes
  <2>2. StreamOK([s EXCEPT !.pc = pc]) BY <1>0, <1>4 DEF StreamOK, Streams
  <2> QED BY <1>2, <2>1, <2>2
<1>5. CASE GetClient(c)
  BY <1>4, <1>5 DEF GetClient, StreamStates
<1>6. CASE Ping(c)
  BY <1>4, <1>6 DEF Ping, StreamStates
<1>7. CASE Subscribe(c)
  <2>1. CASE redisUp
    BY <1>4, <1>7, <2>1 DEF Subscribe, StreamStates
  <2>2. CASE ~redisUp
    <3>1. stream' = [stream EXCEPT ![c] = [s EXCEPT !.pc = "ended"]]
      BY <1>7, <2>2 DEF Subscribe, Goes
    <3>2. StreamOK([s EXCEPT !.pc = "ended"])
      BY <1>0, <1>7 DEF Subscribe, StreamOK, Streams, StreamStates
    <3> QED BY <1>2, <3>1, <3>2
  <2> QED BY <2>1, <2>2
<1>8. CASE Receive(c)
  <2> DEFINE h == Head(s.inbox)
             t1 == [s EXCEPT !.pc = "ended", !.last = h, !.inbox = <<>>]
             t2 == [s EXCEPT !.last = h, !.inbox = Tail(s.inbox)]
  <2>1. /\ s.pc = "subscribed" /\ s.inbox \in Seq(Announced \ {"none"})
        /\ s.inbox # <<>>
    BY <1>0, <1>8 DEF Receive, Streams
  <2>2. h \in Announced \ {"none"} /\ Tail(s.inbox) \in Seq(Announced \ {"none"})
    BY <2>1
  <2>3. h \in Statuses BY <2>2 DEF Announced, Statuses
  <2>4. stream' = [stream EXCEPT ![c] = t1] \/ stream' = [stream EXCEPT ![c] = t2]
    BY <1>8 DEF Receive
  <2>5. StreamOK(t1)
    BY <1>0, <1>2a, <2>1, <2>3 DEF StreamOK, Streams, StreamStates
  <2>6. StreamOK(t2)
    BY <1>0, <2>1, <2>2, <2>3 DEF StreamOK, Streams
  <2> HIDE DEF t1, t2
  <2> QED BY <1>2, <2>4, <2>5, <2>6
<1>9. CASE Poll(c)
  <2> DEFINE now == job[s.job].status
             pc == IF IsLast(now) \/ PollsUsedUp(s.polls + 1) THEN "ended" ELSE s.pc
             t == [s EXCEPT !.last = now, !.polls = s.polls + 1, !.pc = pc]
  <2>1. s.pc = "polling" /\ s.job \in Jobs /\ s.polls \in Nat /\ s.polls < MaxPolls
    BY <1>0, <1>9 DEF Poll, StreamOK, Streams
  <2>2. now \in Statuses BY <2>1 DEF TypeOK, JobRows
  <2>3. stream' = [stream EXCEPT ![c] = t] BY <1>9 DEF Poll
  <2>4. /\ pc \in {"ended", "polling"}
        /\ pc # "ended" => s.polls + 1 < MaxPolls
    BY <2>1, ClientsAssumption DEF PollsUsedUp
  <2>5. s.polls + 1 \in 0 .. MaxPolls BY <2>1, ClientsAssumption
  <2> HIDE DEF pc, now
  <2>6. /\ t.pc = pc /\ t.job = s.job /\ t.polls = s.polls + 1 /\ t \in Streams
    BY <1>0, <2>2, <2>4, <2>5 DEF Streams, StreamStates
  <2> HIDE DEF t
  <2>7. StreamOK(t) BY <2>1, <2>4, <2>6 DEF StreamOK
  <2> QED BY <1>2, <2>3, <2>7
<1>10. CASE StreamError(c)
  <2>1. StreamOK([s EXCEPT !.pc = "ended", !.inbox = <<>>])
    BY <1>0, <1>2a, <1>10 DEF StreamError, StreamOK, Streams, StreamStates
  <2> QED BY <1>2, <1>10, <2>1 DEF StreamError
<1>11. CASE Leave(c)
  <2>1. StreamOK(NoStream)
    BY ClientsAssumption DEF StreamOK, Streams, NoStream, StreamStates, Statuses
  <2> QED BY <1>2, <1>11, <2>1 DEF Leave
<1> QED BY <1>3, <1>5, <1>6, <1>7, <1>8, <1>9, <1>10, <1>11 DEF StreamGoesOn

\* The steps of handlers, worker, Redis and the announcements.
LEMMA OtherTypeOK ==
  ASSUME EventsTypeOK,
         \/ \E r \in Requests : RequestStep(r) /\ UNCHANGED eventVars
         \/ \E j \in Jobs : WorkerGoesOn(j) \/ WorkerMayDo(j) \/ Interrupt(j)
                              \/ Publish(j)
         \/ RedisFlips
  PROVE  EventsTypeOK'
<1>1. ASSUME NEW r \in Requests, RequestStep(r), UNCHANGED eventVars
      PROVE  EventsTypeOK'
  BY <1>1 DEF eventVars, EventsTypeOK, StreamOK
<1>2. ASSUME NEW j \in Jobs, WorkerGoesOn(j) \/ WorkerMayDo(j) \/ Interrupt(j)
      PROVE  EventsTypeOK'
  <2>1. /\ UNCHANGED <<redisUp, cached, stream>>
        /\ \/ UNCHANGED pub
           \/ \E status \in Announced : pub' = [pub EXCEPT ![j] = status]
    BY <1>2 DEF WorkerGoesOn, WorkerMayDo, Interrupt, Silent, Finish, Refund,
       Stumble, Announce, Announced
  <2> QED BY <2>1 DEF EventsTypeOK, StreamOK
<1>3. ASSUME NEW j \in Jobs, Publish(j) PROVE EventsTypeOK'
  <2>1. pub[j] \in Announced \ {"none"}
    BY <1>3 DEF Publish, EventsTypeOK
  <2>2. ASSUME NEW c \in Clients PROVE StreamOK(stream'[c])
    <3>1. StreamOK(stream[c]) /\ stream[c] \in Streams
      BY DEF EventsTypeOK
    <3>2. CASE ~(Listening(c, j) /\ redisUp)
      BY <1>3, <3>1, <3>2 DEF Publish
    <3>3. CASE Listening(c, j) /\ redisUp
      <4> DEFINE inbox == Append(stream[c].inbox, pub[j])
      <4>1. inbox \in Seq(Announced \ {"none"}) BY <2>1, <3>1 DEF Streams
      <4> HIDE DEF inbox
      <4>2. StreamOK([stream[c] EXCEPT !.inbox = inbox])
        BY <3>1, <3>3, <4>1 DEF StreamOK, Streams, Listening
      <4>3. stream'[c] = [stream[c] EXCEPT !.inbox = inbox]
        BY <1>3, <3>3 DEF Publish, inbox
      <4> QED BY <4>2, <4>3
    <3> QED BY <3>2, <3>3
  <2>3. \A c \in Clients : stream'[c] \in Streams BY <2>2 DEF StreamOK
  <2>4. stream' \in [Clients -> Streams] BY <1>3, <2>3 DEF Publish
  <2>5. pub' \in [Jobs -> Announced] /\ UNCHANGED <<redisUp, cached>>
    BY <1>3 DEF Publish, Announce, EventsTypeOK, Announced
  <2> QED BY <2>2, <2>4, <2>5 DEF EventsTypeOK, StreamOK
<1>4. CASE RedisFlips
  BY <1>4 DEF RedisFlips, EventsTypeOK, StreamOK
<1> QED BY <1>1, <1>2, <1>3, <1>4

\* What a stream and an announcement hold always has its type.
THEOREM EventsTypeCorrect == EventsSpec => []EventsTypeOK
<1>1. TypeOK /\ EventsTypeOK /\ [EventsNext]_allVars => EventsTypeOK'
  <2> SUFFICES ASSUME TypeOK, EventsTypeOK, [EventsNext]_allVars
               PROVE  EventsTypeOK'
    OBVIOUS
  <2>1. CASE UNCHANGED allVars
    BY <2>1 DEF allVars, eventVars, EventsTypeOK, StreamOK
  <2> QED BY <2>1, StreamTypeOK, OtherTypeOK DEF EventsNext
<1>2. EventsSpec => []TypeOK BY EventsImplementJobs, TypeCorrect, PTL
<1> QED BY InitEventsTypeOK, <1>1, <1>2, PTL DEF EventsSpec

-----------------------------------------------------------------------------

LEMMA InitSettledBeforeTold == EventsInit => SettledBeforeTold
  BY DEF EventsInit, SettledBeforeTold, ToldIsSettled, ToldCompleted, NoStream

\* Who has been told is watching a stored job.
LEMMA ToldJob ==
  ASSUME EventsTypeOK, NEW c \in Clients, ToldCompleted(stream[c])
  PROVE  stream[c].job \in Jobs
<1>1. StreamOK(stream[c]) BY DEF EventsTypeOK
<1>2. ~ToldCompleted(NoStream) BY DEF ToldCompleted, NoStream
<1> QED BY <1>1, <1>2 DEF StreamOK

\* A step that tells a client nothing new, whatever it does to the jobs.
LEMMA NothingNewTold ==
  ASSUME TypeOK, SettlementInv, EventsTypeOK, [Next]_vars,
         NEW c \in Clients, ToldIsSettled(c),
         ToldCompleted(stream'[c]) =>
           ToldCompleted(stream[c]) /\ stream'[c].job = stream[c].job
  PROVE  ToldIsSettled(c)'
<1> SUFFICES ASSUME ToldCompleted(stream'[c]) PROVE (HoldsNothing(stream[c].job))'
  BY DEF ToldIsSettled, ToldCompleted
<1> DEFINE j == stream[c].job
<1>1. j \in Jobs /\ HoldsNothing(j) BY ToldJob DEF ToldIsSettled
<1>2. stream'[c].job = j OBVIOUS
<1> SUFFICES ASSUME NEW i \in Jobs, HoldsNothing(i), stream'[c].job = i
             PROVE  (HoldsNothing(stream[c].job))'
  BY <1>1, <1>2
<1>3. HoldsNothing(i)' BY HoldsNothingForEver
<1> QED BY <1>3 DEF HoldsNothing, Exists

\* A step of a client tells `completed` only from its inbox or from the row.
LEMMA ClientToldIsSettled ==
  ASSUME TypeOK, SettlementInv, EventsTypeOK, NEW c \in Clients, ToldIsSettled(c),
         \/ \E u \in Users, j \in Jobs : Connect(c, u, j)
         \/ StreamGoesOn(c) \/ StreamError(c) \/ Leave(c)
  PROVE  ToldIsSettled(c)'
<1> DEFINE s == stream[c]
<1>0. /\ stream \in [Clients -> Streams] /\ StreamOK(s) /\ s \in Streams
      /\ UNCHANGED vars /\ job' = job
  BY DEF EventsTypeOK, Connect, StreamGoesOn, StreamError, Leave, GetClient, Ping,
     Subscribe, Receive, Poll, vars
<1>1. ASSUME NEW t, stream' = [stream EXCEPT ![c] = t],
             ToldCompleted(t) => ToldCompleted(s) /\ t.job = s.job
      PROVE  ToldIsSettled(c)'
  <2>1. stream'[c] = t BY <1>0, <1>1
  <2> QED BY <1>0, <1>1, <2>1, NothingNewTold
<1>2. ASSUME NEW t, stream' = [stream EXCEPT ![c] = t],
             ToldCompleted(t) => HoldsNothing(t.job)
      PROVE  ToldIsSettled(c)'
  <2>1. stream'[c] = t BY <1>0, <1>2
  <2> QED BY <1>0, <1>2, <2>1 DEF ToldIsSettled, ToldCompleted, HoldsNothing, Exists
<1>3. ASSUME NEW j \in Jobs, job[j].status = "completed" PROVE HoldsNothing(j)
  BY <1>3 DEF HoldsNothing, Exists, SettlementInv, JobInv
<1>4. ASSUME NEW u \in Users, NEW j \in Jobs, Connect(c, u, j)
      PROVE  ToldIsSettled(c)'
  <2>1. PICK pc \in {"ended", "opening"} :
          stream' = [stream EXCEPT ![c] =
            [pc |-> pc, job |-> j, last |-> job[j].status, inbox |-> <<>>, polls |-> 0]]
    BY <1>4 DEF Connect
  <2> DEFINE t == [pc |-> pc, job |-> j, last |-> job[j].status, inbox |-> <<>>,
                   polls |-> 0]
  <2>2. ToldCompleted(t) => HoldsNothing(t.job)
    BY <1>3 DEF ToldCompleted
  <2>3. stream' = [stream EXCEPT ![c] = t] BY <2>1
  <2> HIDE DEF t
  <2> QED BY <1>2, <2>2, <2>3
<1>5. CASE GetClient(c) \/ Ping(c) \/ Subscribe(c)
  <2>1. PICK pc : stream' = [stream EXCEPT ![c] = [s EXCEPT !.pc = pc]]
    BY <1>5 DEF GetClient, Ping, Subscribe, Goes
  <2> DEFINE t == [s EXCEPT !.pc = pc]
  <2>2. t.last = s.last /\ t.inbox = s.inbox /\ t.job = s.job
    BY <1>0 DEF Streams
  <2>3. stream' = [stream EXCEPT ![c] = t] BY <2>1
  <2> HIDE DEF t
  <2>4. ToldCompleted(t) => ToldCompleted(s) BY <2>2 DEF ToldCompleted
  <2> QED BY <1>1, <2>2, <2>3, <2>4
<1>6. CASE Receive(c)
  <2> DEFINE h == Head(s.inbox)
             t1 == [s EXCEPT !.pc = "ended", !.last = h, !.inbox = <<>>]
             t2 == [s EXCEPT !.last = h, !.inbox = Tail(s.inbox)]
  <2>1. s.inbox \in Seq(Announced \ {"none"}) /\ s.inbox # <<>>
    BY <1>0, <1>6 DEF Receive, Streams
  <2>2. /\ h = s.inbox[1] /\ 1 \in 1 .. Len(s.inbox)
        /\ \A i \in 1 .. Len(Tail(s.inbox)) :
             Tail(s.inbox)[i] = s.inbox[i + 1] /\ i + 1 \in 1 .. Len(s.inbox)
    BY <2>1
  <2>3. stream' = [stream EXCEPT ![c] = t1] \/ stream' = [stream EXCEPT ![c] = t2]
    BY <1>6 DEF Receive
  <2>4. /\ t1.last = h /\ t1.inbox = <<>> /\ t1.job = s.job
        /\ t2.last = h /\ t2.inbox = Tail(s.inbox) /\ t2.job = s.job
    BY <1>0 DEF Streams
  <2> HIDE DEF t1, t2, h
  <2>5. ToldCompleted(t1) => ToldCompleted(s) BY <2>2, <2>4 DEF ToldCompleted
  <2>6. ToldCompleted(t2) => ToldCompleted(s) BY <2>2, <2>4 DEF ToldCompleted
  <2> QED BY <1>1, <2>3, <2>4, <2>5, <2>6
<1>7. CASE Poll(c)
  <2> DEFINE now == job[s.job].status
  <2>1. s.job \in Jobs BY <1>0, <1>7 DEF Poll, StreamOK
  <2>2. PICK pc : stream' = [stream EXCEPT ![c] =
                    [s EXCEPT !.last = now, !.polls = s.polls + 1, !.pc = pc]]
    BY <1>7 DEF Poll
  <2> DEFINE t == [s EXCEPT !.last = now, !.polls = s.polls + 1, !.pc = pc]
  <2>3. t.last = now /\ t.inbox = s.inbox /\ t.job = s.job
    BY <1>0 DEF Streams
  <2>4. stream' = [stream EXCEPT ![c] = t] BY <2>2
  <2> HIDE DEF t
  <2>5. CASE now = "completed"
    <3>1. HoldsNothing(t.job) BY <1>3, <2>1, <2>3, <2>5
    <3> QED BY <1>2, <2>4, <3>1
  <2>6. CASE now # "completed"
    <3>1. ToldCompleted(t) => ToldCompleted(s) BY <2>3, <2>6 DEF ToldCompleted
    <3> QED BY <1>1, <2>3, <2>4, <3>1
  <2> QED BY <2>5, <2>6
<1>8. CASE StreamError(c)
  <2> DEFINE t == [s EXCEPT !.pc = "ended", !.inbox = <<>>]
  <2>1. t.last = s.last /\ t.inbox = <<>> /\ t.job = s.job
    BY <1>0 DEF Streams
  <2>2. stream' = [stream EXCEPT ![c] = t] BY <1>8 DEF StreamError
  <2> HIDE DEF t
  <2>3. ToldCompleted(t) => ToldCompleted(s) BY <2>1 DEF ToldCompleted
  <2> QED BY <1>1, <2>1, <2>2, <2>3
<1>9. CASE Leave(c)
  <2>1. ~ToldCompleted(NoStream) BY DEF ToldCompleted, NoStream
  <2>2. stream' = [stream EXCEPT ![c] = NoStream] BY <1>9 DEF Leave
  <2> QED BY <1>1, <2>1, <2>2
<1> QED BY <1>4, <1>5, <1>6, <1>7, <1>8, <1>9 DEF StreamGoesOn

\* The worker announces `completed` only in the commit that settles.
LEMMA AnnouncedIsPaid ==
  ASSUME TypeOK, SettlementInv, SettlementInv', EventsTypeOK, [EventsNext]_allVars,
         NEW j \in Jobs, pub[j] = "completed" => HoldsNothing(j), pub'[j] = "completed"
  PROVE  HoldsNothing(j)'
<1>0. pub \in [Jobs -> Announced] BY DEF EventsTypeOK
<1>1. CASE pub[j] = "completed"
  BY <1>1, EventsStep, HoldsNothingForEver
<1>2. CASE pub[j] # "completed"
  <2>1. PICK i \in Jobs : WorkerGoesOn(i) \/ WorkerMayDo(i) \/ Interrupt(i) \/ Publish(i)
    BY <1>2 DEF EventsNext, allVars, eventVars, Connect, StreamGoesOn, StreamError,
       Leave, GetClient, Ping, Subscribe, Receive, Poll, RedisFlips
  <2>2. Complete(j)
    BY <1>0, <1>2, <2>1 DEF WorkerGoesOn, WorkerMayDo, Interrupt, Publish, Silent,
       Finish, Refund, Stumble, Announce
  <2>3. job'[j].status = "completed"
    <3>1. job \in [Jobs -> JobRows] BY DEF TypeOK
    <3>2. CASE HasHold(j)
      <4>1. job'[j] = Charged(job[j], run[j].held)
        BY <2>2, <3>1, <3>2 DEF Complete
      <4> QED BY <3>1, <4>1, ChargedFields
    <3>3. CASE ~HasHold(j)
      BY <2>2, <3>1, <3>3 DEF Complete, JobRows
    <3> QED BY <3>2, <3>3
  <2>4. JobInv(j)' BY DEF SettlementInv
  <2> QED BY <2>3, <2>4 DEF HoldsNothing, Exists, JobInv
<1> QED BY <1>1, <1>2

\* An announcement on its way is paid, and stays so until it is read.
LEMMA StepToldIsSettled ==
  ASSUME TypeOK, SettlementInv, EventsTypeOK, SettledBeforeTold,
         [EventsNext]_allVars, NEW c \in Clients
  PROVE  ToldIsSettled(c)'
<1>0. ToldIsSettled(c) /\ stream \in [Clients -> Streams] /\ [Next]_vars
  BY EventsStep DEF SettledBeforeTold, EventsTypeOK
<1>1. CASE stream'[c] = stream[c]
  BY <1>0, <1>1, NothingNewTold
<1>2. ASSUME NEW j \in Jobs, Publish(j), Listening(c, j), redisUp
      PROVE  ToldIsSettled(c)'
  <2> DEFINE s == stream[c]
             t == [s EXCEPT !.inbox = Append(s.inbox, pub[j])]
  <2>1. stream'[c] = t BY <1>2 DEF Publish
  <2>2. /\ t.last = s.last /\ t.inbox = Append(s.inbox, pub[j]) /\ t.job = s.job
        /\ s.job = j /\ s.inbox \in Seq(Announced \ {"none"})
    BY <1>0, <1>2 DEF Streams, Listening
  <2>3. pub[j] = "completed" => HoldsNothing(j) BY DEF SettledBeforeTold
  <2> HIDE DEF t
  <2>4. CASE pub[j] = "completed"
    <3>1. job' = job BY <1>2 DEF Publish, vars
    <3> QED BY <2>1, <2>2, <2>3, <2>4, <3>1 DEF ToldIsSettled, HoldsNothing, Exists
  <2>5. CASE pub[j] # "completed"
    <3>1. ToldCompleted(t) => ToldCompleted(s)
      BY <2>2, <2>5 DEF ToldCompleted
    <3> QED BY <1>0, <2>1, <2>2, <3>1, NothingNewTold
  <2> QED BY <2>4, <2>5
<1>3. ASSUME NEW d \in Clients, d # c,
             \/ \E u \in Users, j \in Jobs : Connect(d, u, j)
             \/ StreamGoesOn(d) \/ StreamError(d) \/ Leave(d)
      PROVE  stream'[c] = stream[c]
  BY <1>0, <1>3 DEF Connect, StreamGoesOn, StreamError, Leave, GetClient, Ping,
     Subscribe, Receive, Poll, Goes
<1>4. ASSUME NEW j \in Jobs, Publish(j), ~(Listening(c, j) /\ redisUp)
      PROVE  stream'[c] = stream[c]
  BY <1>4 DEF Publish
<1>5. CASE \/ UNCHANGED allVars \/ RedisFlips
           \/ \E r \in Requests : RequestStep(r) /\ UNCHANGED eventVars
           \/ \E j \in Jobs : WorkerGoesOn(j) \/ WorkerMayDo(j) \/ Interrupt(j)
  BY <1>1, <1>5 DEF allVars, eventVars, RedisFlips, WorkerGoesOn, WorkerMayDo, Interrupt
<1> QED BY <1>0, <1>1, <1>2, <1>3, <1>4, <1>5, ClientToldIsSettled DEF EventsNext

\* No client is told, or about to be told, of a completed video whose credits
\* are not settled, for any number of clients, jobs, retries and crashes.
THEOREM SettledWhenTold == EventsSpec => []SettledBeforeTold
<1>1. /\ TypeOK /\ SettlementInv /\ SettlementInv' /\ EventsTypeOK
      /\ SettledBeforeTold /\ [EventsNext]_allVars
      => SettledBeforeTold'
  <2> SUFFICES ASSUME TypeOK, SettlementInv, SettlementInv', EventsTypeOK,
                      SettledBeforeTold, [EventsNext]_allVars
               PROVE  SettledBeforeTold'
    OBVIOUS
  <2>1. \A c \in Clients : ToldIsSettled(c)' BY StepToldIsSettled
  <2>2. \A j \in Jobs : pub[j] = "completed" => HoldsNothing(j)
    BY DEF SettledBeforeTold
  <2>3. ASSUME NEW j \in Jobs, pub'[j] = "completed" PROVE HoldsNothing(j)'
    BY <2>2, <2>3, AnnouncedIsPaid
  <2> QED BY <2>1, <2>3 DEF SettledBeforeTold
<1>2. EventsSpec => []TypeOK /\ []SettlementInv
  BY EventsImplementJobs, TypeCorrect, SettlementInvariant, PTL
<1> QED BY InitSettledBeforeTold, <1>1, <1>2, EventsTypeCorrect, PTL DEF EventsSpec
=============================================================================
