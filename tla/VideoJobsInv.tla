---------------------------- MODULE VideoJobsInv ----------------------------
(***************************************************************************)
(* The inductive invariant behind the safety properties of VideoJobs, in   *)
(* two independent parts.  Neither BalanceNeverNegative nor                *)
(* HeldIsUnsettled is inductive: a stale snapshot in an open session could *)
(* be written over a good row, so the invariants have to say what sessions *)
(* may hold.                                                               *)
(***************************************************************************)
EXTENDS VideoJobs

\* A handler's snapshot of a balance is a balance some commit stored, and a
\* creation that got past the credit check can pay from the snapshot it checked.
ReqFunded(r) ==
  /\ req[r].bal >= 0
  /\ req[r].pc \in {"create", "flushed"} => req[r].amount <= req[r].bal

\* No balance, and no balance a session is going to write, is negative.
BalanceInv ==
  /\ BalanceNeverNegative
  /\ \A r \in Requests : ReqFunded(r)
  /\ \A j \in Jobs : run[j].bal >= 0

-----------------------------------------------------------------------------

Minting(r) == req[r].pc \in {"create", "flushed"}

\* What the handlers have in hand: a minted id is in one session only and not
\* stored yet; ownerless jobs hold nothing; a cancellation that will refund
\* names a stored job of a user.
ReqInv(r) ==
  /\ Minting(r) =>
       /\ ~Exists(req[r].job)
       /\ \A s \in Requests : req[s].job = req[r].job => s = r
  /\ req[r].pc = "flushed" => (req[r].user = None <=> req[r].amount = 0)
  /\ req[r].pc = "cancel" =>
       /\ Exists(req[r].job)
       /\ req[r].amount > 0 => Owned(req[r].job)

\* The worker's session holds a copy of the row.
InHand == InSession \ {"picked"}

Unsettled(rows) ==
  rows.charge = 0 /\ rows.refund = 0 /\ \A u \in Users : rows.cancel[u] = 0

\* A job's committed row, its ledger rows and the worker's copy of it.  The
\* copy of credits_held may be stale in one way only: a cancellation has set
\* the row to 0 meanwhile.  While the copy is positive the worker itself has
\* not settled the job in any earlier delivery.
JobInv(j) ==
  /\ ~Exists(j) =>
       /\ Unsettled(ledger[j]) /\ run[j].pc \notin InHand
       /\ job[j].held = 0 /\ job[j].charged = 0
  /\ job[j].owner = None => job[j].held = 0
  /\ Owned(j) => (job[j].held = 0 <=> ~Unsettled(ledger[j]))
  /\ ledger[j].charge + ledger[j].refund <= 1
  /\ job[j].held \in {0, ledger[j].hold} /\ run[j].held \in {0, ledger[j].hold}
  /\ run[j].pc \in InHand => job[j].held \in {0, run[j].held}
  /\ run[j].pc \notin InHand => run[j].held = 0
  /\ run[j].held > 0 => ledger[j].charge = 0 /\ ledger[j].refund = 0
  /\ run[j].pc \in {"refund_cancel", "refund_fail"} => HasHold(j)
  /\ job[j].status = "completed" => job[j].held = 0
  /\ job[j].status = "failed" /\ job[j].retries >= MaxRetries => job[j].held = 0

SettlementInv ==
  /\ \A r \in Requests : ReqInv(r)
  /\ \A j \in Jobs : JobInv(j)

-----------------------------------------------------------------------------

\* What makes the index on (user_id, idempotency_key) work between the flush of
\* a creation, where it is checked, and the commit: nobody else can have flushed
\* a row of that user, whose row of users is locked, so no one stores the key.
KeysInv ==
  /\ OneJobPerKey
  /\ \A r \in Requests :
       req[r].pc = "flushed" /\ req[r].user # None => ~RejectedByIndex(r)
  /\ \A r, s \in Requests :
       /\ req[r].pc = "flushed" /\ req[s].pc = "flushed"
       /\ req[r].user = req[s].user /\ req[r].user # None
       => r = s
=============================================================================
