--------------------------- MODULE JobPagesProofs ---------------------------
(***************************************************************************)
(* For any numbers of jobs and of requests under way: the pages keep their *)
(* types, and a video is shown only when its credits are settled.          *)
(*                                                                         *)
(* The argument: credits that are no longer held are never held again, so  *)
(* what an answer told stays true while it travels (PaidStays); and an     *)
(* answer reaches a page only while that page still shows the job it asked *)
(* about (CallOK), since unmounting disowns the open requests.             *)
(***************************************************************************)
EXTENDS JobPages, TLAPS

CallOK(call) ==
  /\ call.kind # "none" => call.job \in Jobs
  /\ call.kind \in {"poll", "refetch"} => call.mine
  /\ call.mine => call.kind # "none" /\ call.job = tab.job /\ tab.page # "away"
  /\ call.seen = "completed" => call.job \in Jobs /\ Paid(call.job)

CallsInv == calls \in [Calls -> CallRecords] /\ \A c \in Calls : CallOK(calls[c])

ViewRecords == [data : Shown, ticking : BOOLEAN, loading : BOOLEAN,
                duplicating : BOOLEAN, variating : BOOLEAN]

TabInv ==
  /\ tab \in [page : Pages, job : Jobs \cup {None}]
  /\ tab.page # "away" => tab.job \in Jobs
  /\ view \in ViewRecords
  /\ view.data = "completed" => tab.job \in Jobs /\ Paid(tab.job)

TimersInv == timers \in [Jobs -> Nat] /\ \A j \in Jobs : timers[j] > 0 => Paid(j)

PagesInv ==
  /\ LifeTypeOK /\ CompletedSettled
  /\ world \in {"calm", "rough"}
  /\ TabInv /\ CallsInv /\ TimersInv

-----------------------------------------------------------------------------
(* The jobs                                                                *)

LEMMA StepOfLife ==
  ASSUME LifeTypeOK, CompletedSettled, NEW j \in Jobs, LifeStep(j)
  PROVE  LifeTypeOK' /\ CompletedSettled' /\ \A i \in Jobs : Paid(i) => Paid(i)'
<1>1. PICK status \in JobStatuses \ {"absent"}, hold \in Holds :
        /\ Becomes(j, status, hold)
        /\ status = "completed" => hold # "held"
        /\ hold = "held" => life[j].hold = "held" \/ Is(j, {"absent"})
  <2>1. life[j].hold \in Holds /\ life[j].status \in JobStatuses
    BY DEF LifeTypeOK
  <2>2. Settling(life[j].hold) \in Holds /\ Settling(life[j].hold) # "held"
    BY <2>1 DEF Settling, Holds
  <2>3. CASE Submit(j)
    BY <2>3 DEF Submit, Waiting, JobStatuses, Holds
  <2>4. CASE Work(j)
    BY <2>4, <2>1 DEF Work, AtWork, JobStatuses
  <2>5. CASE Complete(j)
    BY <2>5, <2>2 DEF Complete, Ended, JobStatuses
  <2>6. CASE Fail(j)
    BY <2>6, <2>1, <2>2 DEF Fail, Ended, JobStatuses
  <2>7. CASE Cancel(j)
    BY <2>7, <2>1, <2>2 DEF Cancel, Ended, JobStatuses
  <2>8. CASE Refund(j)
    BY <2>8, <2>2 DEF Refund, Ended, JobStatuses
  <2> QED
    BY <2>3, <2>4, <2>5, <2>6, <2>7, <2>8 DEF LifeStep
<1>2. life' = [life EXCEPT ![j] = [status |-> status, hold |-> hold]]
  BY <1>1 DEF Becomes
<1>3. LifeTypeOK'
  BY <1>2 DEF LifeTypeOK
<1>4. \A i \in Jobs : life'[i] = IF i = j THEN [status |-> status, hold |-> hold] ELSE life[i]
  BY <1>2 DEF LifeTypeOK
<1>5. CompletedSettled'
  BY <1>1, <1>4 DEF CompletedSettled, Is
<1>6. \A i \in Jobs : Paid(i) => Paid(i)'
  BY <1>1, <1>4 DEF Paid, Is
<1> QED
  BY <1>3, <1>5, <1>6

\* Nothing that the pages know of the payment of a job is ever lost.
LEMMA PaidStays ==
  ASSUME PagesInv, NEW j \in Jobs, LifeStep(j), UNCHANGED <<world, tab, view, timers>>,
         calls' \in [Calls -> CallRecords],
         \A c \in Calls : calls'[c].kind = calls[c].kind /\ calls'[c].job = calls[c].job
                          /\ calls'[c].mine = calls[c].mine /\ calls'[c].seen = calls[c].seen
  PROVE  PagesInv'
<1>1. LifeTypeOK' /\ CompletedSettled' /\ \A i \in Jobs : Paid(i) => Paid(i)'
  BY StepOfLife DEF PagesInv
<1>2. TabInv'
  BY <1>1 DEF PagesInv, TabInv
<1>3. TimersInv'
  BY <1>1 DEF PagesInv, TimersInv
<1>4. ASSUME NEW c \in Calls PROVE CallOK(calls[c])'
  <2>1. CallOK(calls[c])
    BY DEF PagesInv, CallsInv
  <2> QED
    BY <1>1, <2>1 DEF CallOK
<1> QED
  BY <1>1, <1>2, <1>3, <1>4 DEF PagesInv, CallsInv

-----------------------------------------------------------------------------
(* The tab                                                                 *)

LEMMA IdleOK == Idle \in CallRecords
BY DEF Idle, CallRecords, Shown

LEMMA RequestOK ==
  ASSUME NEW j \in Jobs,
         NEW kind \in {"poll", "refetch", "cancel", "result", "duplicate", "variation"}
  PROVE  Request(kind, j) \in CallRecords
BY DEF Request, Idle, CallRecords, Shown

\* A request leaves, or an answer is dealt with, and the tab shows what it showed.
LEMMA OneCall ==
  ASSUME PagesInv, NEW c \in Calls, NEW call \in CallRecords,
         calls' = [calls EXCEPT ![c] = call], CallOK(call),
         UNCHANGED <<life, tab>>
  PROVE  CallsInv'
<1>1. calls' \in [Calls -> CallRecords]
  BY DEF PagesInv, CallsInv
<1>2. ASSUME NEW d \in Calls PROVE CallOK(calls[d])'
  <2>1. calls'[d] = IF d = c THEN call ELSE calls[d]
    BY DEF PagesInv, CallsInv
  <2>2. CallOK(calls[d])
    BY DEF PagesInv, CallsInv
  <2> QED
    BY <2>1, <2>2 DEF CallOK, Paid, Is
<1> QED
  BY <1>1, <1>2 DEF CallsInv

LEMMA IdleCallOK == CallOK(Idle)
BY DEF CallOK, Idle

LEMMA ShowOK ==
  ASSUME PagesInv, NEW page \in Pages, NEW j \in Jobs \cup {None}, NEW c \in Calls,
         page # "away" => j \in Jobs, UNCHANGED <<life, world>>, Show(page, j, c)
  PROVE  TabInv' /\ CallsInv'
<1>1. CASE tab = [page |-> page, job |-> j]
  <2>1. calls' = [calls EXCEPT ![c] = Idle] /\ UNCHANGED <<tab, view>>
    BY <1>1 DEF Show
  <2>2. CallsInv'
    BY <2>1, OneCall, IdleOK, IdleCallOK
  <2> QED
    BY <2>1, <2>2 DEF PagesInv, TabInv, Paid, Is
<1>2. CASE tab # [page |-> page, job |-> j]
  <2>1. /\ tab' = [page |-> page, job |-> j]
        /\ view' = Mounted(page)
        /\ calls' = [d \in Calls |-> IF d = c THEN FirstCall(page, j) ELSE Orphan(calls[d])]
    BY <1>2 DEF Show
  <2>2. Mounted(page) \in ViewRecords /\ Mounted(page).data = "none"
    BY DEF Mounted, ViewRecords, Shown
  <2>3. TabInv'
    BY <2>1, <2>2 DEF TabInv
  <2>4. FirstCall(page, j) \in CallRecords
    BY IdleOK, RequestOK DEF FirstCall, Pages
  <2>5. ASSUME NEW d \in Calls PROVE Orphan(calls[d]) \in CallRecords
    BY IdleOK DEF Orphan, CallRecords, PagesInv, CallsInv
  <2>6. calls' \in [Calls -> CallRecords]
    BY <2>1, <2>4, <2>5
  <2>7. CallOK(calls[c])'
    BY <2>1 DEF CallOK, FirstCall, Pages, Request, Idle
  <2>8. ASSUME NEW d \in Calls, d # c PROVE CallOK(calls[d])'
    <3>1. CallOK(calls[d])
      BY DEF PagesInv, CallsInv
    <3>2. calls[d] \in CallRecords
      BY DEF PagesInv, CallsInv
    <3>3. calls'[d] = Orphan(calls[d])
      BY <2>1, <2>8
    <3>4. CASE calls[d].kind \in {"poll", "refetch"}
      BY <3>3, <3>4 DEF Orphan, Idle, CallOK
    <3>5. CASE calls[d].kind \notin {"poll", "refetch"}
      <4>1. calls'[d] = [calls[d] EXCEPT !.mine = FALSE]
        BY <3>3, <3>5 DEF Orphan
      <4>2. /\ calls'[d].kind = calls[d].kind /\ calls'[d].job = calls[d].job
            /\ calls'[d].seen = calls[d].seen /\ calls'[d].mine = FALSE
        BY <4>1, <3>2 DEF CallRecords
      <4> QED
        BY <4>2, <3>1, <3>5 DEF CallOK, Paid, Is
    <3> QED
      BY <3>4, <3>5
  <2> QED
    BY <2>3, <2>6, <2>7, <2>8 DEF CallsInv
<1> QED
  BY <1>1, <1>2

-----------------------------------------------------------------------------
(* The steps                                                               *)

\* What a step that leaves jobs and timers alone has to show.
LEMMA PagesOnly ==
  ASSUME PagesInv, UNCHANGED <<life, world, timers>>, TabInv', CallsInv'
  PROVE  PagesInv'
BY DEF PagesInv, LifeTypeOK, CompletedSettled, TimersInv, Paid, Is

LEMMA SameTab ==
  ASSUME PagesInv, UNCHANGED <<life, tab>>, view' \in ViewRecords,
         view'.data = view.data
  PROVE  TabInv'
BY DEF PagesInv, TabInv, Paid, Is

\* A click or a tick sends a request about the job on the page.
LEMMA Sending ==
  ASSUME PagesInv, NEW c \in Calls, tab.page # "away",
         NEW kind \in {"poll", "refetch", "cancel", "result", "duplicate", "variation"},
         calls' = [calls EXCEPT ![c] = Request(kind, tab.job)], UNCHANGED <<life, tab>>
  PROVE  CallsInv'
<1>1. tab.job \in Jobs
  BY DEF PagesInv, TabInv
<1>2. Request(kind, tab.job) \in CallRecords
  BY <1>1, RequestOK
<1>3. CallOK(Request(kind, tab.job))
  BY <1>1 DEF CallOK, Request, Idle
<1> QED
  BY <1>2, <1>3, OneCall

LEMMA UserStepOK ==
  ASSUME PagesInv, NEW c \in Calls, UserStep(c)
  PROVE  PagesInv'
<1>1. ASSUME NEW page \in {"processing", "result"}, NEW j \in Jobs, Open(page, j, c)
      PROVE  PagesInv'
  BY <1>1, ShowOK, PagesOnly DEF Open, Pages
<1>2. CASE Leave(c)
  BY <1>2, ShowOK, PagesOnly DEF Leave, Pages
<1>3. CASE ClickResult(c)
  <2>1. tab.job \in Jobs
    BY <1>3 DEF ClickResult, PagesInv, TabInv
  <2> QED
    BY <1>3, <2>1, ShowOK, PagesOnly DEF ClickResult, Pages
<1>4. CASE ClickCancel(c)
  BY <1>4, Sending, SameTab, PagesOnly DEF ClickCancel, PagesInv, TabInv
<1>5. CASE ClickDuplicate(c)
  <2>1. CallsInv'
    BY <1>5, Sending DEF ClickDuplicate
  <2>2. TabInv'
    BY <1>5, SameTab DEF ClickDuplicate, PagesInv, TabInv, ViewRecords
  <2> QED
    BY <1>5, <2>1, <2>2, PagesOnly DEF ClickDuplicate
<1>6. CASE ClickVariation(c)
  <2>1. CallsInv'
    BY <1>6, Sending DEF ClickVariation
  <2>2. TabInv'
    BY <1>6, SameTab DEF ClickVariation, PagesInv, TabInv, ViewRecords
  <2> QED
    BY <1>6, <2>1, <2>2, PagesOnly DEF ClickVariation
<1> QED
  BY <1>1, <1>2, <1>3, <1>4, <1>5, <1>6 DEF UserStep

LEMMA ServeReadOK ==
  ASSUME PagesInv, NEW c \in Calls, ServeRead(c)
  PROVE  PagesInv'
<1>1. PICK seen \in {"none", Telling(life[calls[c].job].status)} :
        calls' = [calls EXCEPT ![c].at = "answered", ![c].seen = seen]
  BY DEF ServeRead
<1>2. /\ calls[c] \in CallRecords /\ CallOK(calls[c])
      /\ calls[c].kind \in {"poll", "refetch", "result"}
  BY DEF PagesInv, CallsInv, ServeRead, Unserved
<1>3. calls[c].job \in Jobs
  BY <1>2 DEF CallOK
<1>4. seen \in Shown /\ (seen = "completed" => Is(calls[c].job, {"completed"}))
  BY <1>1 DEF Telling, Shown, Ended, Is
<1>5. seen = "completed" => Paid(calls[c].job)
  BY <1>3, <1>4 DEF PagesInv, CompletedSettled, Paid, Is
<1> DEFINE call == [calls[c] EXCEPT !.at = "answered", !.seen = seen]
<1>6. /\ call \in CallRecords /\ call.kind = calls[c].kind /\ call.job = calls[c].job
      /\ call.mine = calls[c].mine /\ call.seen = seen
  BY <1>2, <1>4 DEF CallRecords
<1>7. CallOK(call)
  BY <1>2, <1>3, <1>5, <1>6 DEF CallOK
<1>8. calls' = [calls EXCEPT ![c] = call]
  BY <1>1
<1>9. CallsInv'
  <2> HIDE DEF call
  <2> QED
    BY <1>6, <1>7, <1>8, OneCall DEF ServeRead
<1> QED
  BY <1>9, SameTab, PagesOnly DEF ServeRead, PagesInv, TabInv

\* The answer to a request that is not about the status tells nothing of it.
LEMMA Answering ==
  ASSUME PagesInv, NEW c \in Calls, NEW made \in Jobs \cup {None},
         \/ calls' = [calls EXCEPT ![c].at = "answered"]
         \/ calls' = [calls EXCEPT ![c].at = "answered", ![c].made = made]
  PROVE  /\ calls' \in [Calls -> CallRecords]
         /\ \A d \in Calls :
              calls'[d].kind = calls[d].kind /\ calls'[d].job = calls[d].job
              /\ calls'[d].mine = calls[d].mine /\ calls'[d].seen = calls[d].seen
<1>1. \A d \in Calls : calls[d] \in CallRecords
  BY DEF PagesInv, CallsInv
<1>2. calls' = [calls EXCEPT ![c] = calls'[c]]
  BY DEF PagesInv, CallsInv
<1>3. \/ calls'[c] = [calls[c] EXCEPT !.at = "answered"]
      \/ calls'[c] = [calls[c] EXCEPT !.at = "answered", !.made = made]
  BY DEF PagesInv, CallsInv
<1>4. /\ calls'[c] \in CallRecords
      /\ calls'[c].kind = calls[c].kind /\ calls'[c].job = calls[c].job
      /\ calls'[c].mine = calls[c].mine /\ calls'[c].seen = calls[c].seen
  BY <1>1, <1>3 DEF CallRecords
<1> QED
  BY <1>1, <1>2, <1>4 DEF PagesInv, CallsInv

LEMMA Refused ==
  ASSUME PagesInv, NEW c \in Calls, calls' = [calls EXCEPT ![c].at = "answered"],
         UNCHANGED <<life, world, tab, view, timers>>
  PROVE  PagesInv'
<1>1. PICK made \in Jobs \cup {None} : TRUE
  OBVIOUS
<1>2. /\ calls' \in [Calls -> CallRecords]
      /\ \A d \in Calls :
           calls'[d].kind = calls[d].kind /\ calls'[d].job = calls[d].job
           /\ calls'[d].mine = calls[d].mine /\ calls'[d].seen = calls[d].seen
  BY <1>1, Answering
<1>3. CallsInv'
  BY <1>2 DEF PagesInv, CallsInv, CallOK, Paid, Is
<1> QED
  BY <1>3, SameTab, PagesOnly DEF PagesInv, TabInv

LEMMA ServeOK ==
  ASSUME PagesInv, NEW c \in Calls, Serve(c)
  PROVE  PagesInv'
<1>1. CASE ServeRead(c)
  BY <1>1, ServeReadOK
<1>2. CASE ServeCancel(c)
  <2>1. calls[c].job \in Jobs
    BY <1>2 DEF ServeCancel, Unserved, PagesInv, CallsInv, CallOK
  <2>2. calls' = [calls EXCEPT ![c].at = "answered"]
    BY <1>2 DEF ServeCancel
  <2>3. CASE Cancel(calls[c].job)
    <3>1. PICK j \in Jobs : j = calls[c].job
      BY <2>1
    <3>2. LifeStep(j)
      BY <2>3, <3>1 DEF LifeStep
    <3>3. PICK made \in Jobs \cup {None} : TRUE
      OBVIOUS
    <3> QED
      BY <1>2, <2>2, <3>2, <3>3, Answering, PaidStays DEF ServeCancel
  <2>4. CASE UNCHANGED life
    BY <1>2, <2>2, <2>4, Refused DEF ServeCancel
  <2> QED
    BY <1>2, <2>3, <2>4 DEF ServeCancel
<1>3. CASE ServeCopy(c)
  <2>1. ASSUME NEW j \in Jobs, Submit(j),
               calls' = [calls EXCEPT ![c].at = "answered", ![c].made = j]
        PROVE  PagesInv'
    <3>1. LifeStep(j)
      BY <2>1 DEF LifeStep
    <3> QED
      BY <1>3, <2>1, <3>1, Answering, PaidStays DEF ServeCopy
  <2>2. CASE calls' = [calls EXCEPT ![c].at = "answered"] /\ UNCHANGED life
    BY <1>3, <2>2, Refused DEF ServeCopy
  <2> QED
    BY <1>3, <2>1, <2>2 DEF ServeCopy
<1> QED
  BY <1>1, <1>2, <1>3 DEF Serve

LEMMA Finished ==
  ASSUME PagesInv, NEW c \in Calls, Done(c), UNCHANGED <<life, tab>>
  PROVE  CallsInv'
BY OneCall, IdleOK, IdleCallOK DEF Done

\* What an answer tells is true of the job on the page that gets it.
LEMMA ToldOK ==
  ASSUME PagesInv, NEW c \in Calls, calls[c].mine
  PROVE  /\ Told(calls[c].seen) \in ViewRecords
         /\ Told(calls[c].seen).data = "completed" => tab.job \in Jobs /\ Paid(tab.job)
<1>1. /\ calls[c].seen \in Shown /\ calls[c].job = tab.job
      /\ calls[c].seen = "completed" => calls[c].job \in Jobs /\ Paid(calls[c].job)
  BY DEF PagesInv, CallsInv, CallOK, CallRecords
<1>2. view \in ViewRecords /\ (view.data = "completed" => tab.job \in Jobs /\ Paid(tab.job))
  BY DEF PagesInv, TabInv
<1>3. Told(calls[c].seen) \in ViewRecords /\ Told(calls[c].seen).data \in {view.data, calls[c].seen}
  BY <1>1, <1>2 DEF Told, ViewRecords
<1> QED
  BY <1>1, <1>2, <1>3

LEMMA NewView ==
  ASSUME PagesInv, UNCHANGED <<life, tab>>, view' \in ViewRecords,
         view'.data = "completed" => tab.job \in Jobs /\ Paid(tab.job)
  PROVE  TabInv'
BY DEF PagesInv, TabInv, Paid, Is

LEMMA PollAnsweredOK ==
  ASSUME PagesInv, NEW c \in Calls, PollAnswered(c)
  PROVE  PagesInv'
<1> DEFINE seen == calls[c].seen
           j == calls[c].job
           told == Told(seen)
<1>1. /\ calls[c].mine /\ j \in Jobs /\ (seen = "completed" => Paid(j))
      /\ UNCHANGED <<life, world, tab>> /\ Done(c)
      /\ view' = [told EXCEPT !.ticking = @ /\ ~StopsAt(seen)]
      /\ timers' = Redirected(j, seen)
  BY DEF PollAnswered, PagesInv, CallsInv, CallOK
<1>2. told \in ViewRecords /\ (told.data = "completed" => tab.job \in Jobs /\ Paid(tab.job))
  BY <1>1, ToldOK
<1>3. view' \in ViewRecords /\ view'.data = told.data
  <2> HIDE DEF told
  <2>1. (told.ticking /\ ~StopsAt(seen)) \in BOOLEAN
    OBVIOUS
  <2> QED
    BY <1>1, <1>2, <2>1 DEF ViewRecords
<1>4. TabInv'
  BY <1>1, <1>2, <1>3, NewView
<1>5. CallsInv'
  BY <1>1, Finished
<1>6. TimersInv'
  <2>1. TimersInv /\ MaxTimers \in Nat
    BY PagesAssumption DEF PagesInv
  <2>2. PICK i \in Jobs : i = j
    BY <1>1
  <2>3. timers' = timers \/ (seen = "completed" /\ timers' = [timers EXCEPT ![i] = timers[i] + 1])
    BY <1>1, <2>2 DEF Redirected
  <2>4. \A k \in Jobs : Paid(k)' <=> Paid(k)
    BY <1>1 DEF Paid, Is
  <2>5. timers' \in [Jobs -> Nat]
    <3>1. timers \in [Jobs -> Nat] /\ timers[i] + 1 \in Nat
      BY <2>1 DEF TimersInv
    <3> QED
      BY <2>3, <3>1
  <2>6. \A k \in Jobs : timers'[k] > 0 => timers[k] > 0 \/ (k = i /\ seen = "completed")
    BY <2>1, <2>3 DEF TimersInv
  <2>7. \A k \in Jobs : timers'[k] > 0 => Paid(k)
    BY <1>1, <2>1, <2>2, <2>6 DEF TimersInv
  <2> QED
    BY <2>4, <2>5, <2>7 DEF TimersInv
<1> QED
  BY <1>1, <1>4, <1>5, <1>6 DEF PagesInv, LifeTypeOK, CompletedSettled, Is

LEMMA ArriveOK ==
  ASSUME PagesInv, NEW c \in Calls, Arrive(c)
  PROVE  PagesInv'
<1>1. CASE PollAnswered(c)
  BY <1>1, PollAnsweredOK
<1>2. CASE RefetchAnswered(c)
  <2>1. calls[c].mine /\ Done(c) /\ view' = Told(calls[c].seen) /\ UNCHANGED <<life, world, tab, timers>>
    BY <1>2 DEF RefetchAnswered, PagesInv, CallsInv, CallOK
  <2> QED
    BY <2>1, ToldOK, NewView, Finished, PagesOnly
<1>3. CASE CancelAnswered(c)
  <2>1. CASE calls[c].mine
    <3>1. calls[c].job = tab.job /\ tab.page # "away"
      BY <2>1 DEF PagesInv, CallsInv, CallOK
    <3>2. CallsInv'
      BY <1>3, <2>1, <3>1, Sending DEF CancelAnswered
    <3> QED
      BY <1>3, <3>2, SameTab, PagesOnly DEF CancelAnswered, PagesInv, TabInv
  <2>2. CASE ~calls[c].mine
    BY <1>3, <2>2, Finished, SameTab, PagesOnly DEF CancelAnswered, PagesInv, TabInv
  <2> QED
    BY <2>1, <2>2
<1>4. CASE ResultAnswered(c)
  <2>1. CASE calls[c].seen \in Ended \cup {"none"}
    <3>1. /\ Done(c) /\ UNCHANGED <<life, world, tab, timers>>
          /\ view' = IF calls[c].mine THEN [Told(calls[c].seen) EXCEPT !.loading = FALSE]
                                      ELSE view
      BY <1>4, <2>1 DEF ResultAnswered
    <3>2. TabInv'
      <4>1. CASE calls[c].mine
        <5>1. /\ Told(calls[c].seen) \in ViewRecords
              /\ Told(calls[c].seen).data = "completed" => tab.job \in Jobs /\ Paid(tab.job)
          BY <4>1, ToldOK
        <5>2. view' \in ViewRecords /\ view'.data = Told(calls[c].seen).data
          BY <3>1, <4>1, <5>1 DEF ViewRecords
        <5> QED
          BY <3>1, <5>1, <5>2, NewView
      <4>2. CASE ~calls[c].mine
        BY <3>1, <4>2, SameTab DEF PagesInv, TabInv
      <4> QED
        BY <4>1, <4>2
    <3> QED
      BY <3>1, <3>2, Finished, PagesOnly
  <2>2. CASE calls[c].seen \notin Ended \cup {"none"}
    <3>1. calls[c].job \in Jobs
      BY <1>4 DEF ResultAnswered, PagesInv, CallsInv, CallOK
    <3> QED
      BY <1>4, <2>2, <3>1, ShowOK, PagesOnly DEF ResultAnswered, Pages
  <2> QED
    BY <2>1, <2>2
<1>5. CASE CopyAnswered(c)
  <2>1. CASE calls[c].made # None
    <3>1. calls[c].made \in Jobs
      BY <2>1 DEF PagesInv, CallsInv, CallRecords
    <3> QED
      BY <1>5, <2>1, <3>1, ShowOK, PagesOnly DEF CopyAnswered, Pages
  <2>2. CASE calls[c].made = None
    <3>1. Done(c) /\ UNCHANGED <<life, world, tab, timers>>
      BY <1>5, <2>2 DEF CopyAnswered
    <3>2. view' \in {view, [view EXCEPT !.duplicating = FALSE], [view EXCEPT !.variating = FALSE]}
      BY <1>5, <2>2 DEF CopyAnswered
    <3>3. view \in ViewRecords
      BY DEF PagesInv, TabInv
    <3>4. view' \in ViewRecords /\ view'.data = view.data
      BY <3>2, <3>3 DEF ViewRecords
    <3> QED
      BY <3>1, <3>4, SameTab, Finished, PagesOnly
  <2> QED
    BY <2>1, <2>2
<1> QED
  BY <1>1, <1>2, <1>3, <1>4, <1>5 DEF Arrive

LEMMA RedirectOK ==
  ASSUME PagesInv, NEW j \in Jobs, NEW c \in Calls, Redirect(j, c)
  PROVE  PagesInv'
<1>1. TabInv' /\ CallsInv'
  BY ShowOK DEF Redirect, Pages
<1>2. TimersInv'
  BY DEF Redirect, PagesInv, TimersInv, Paid, Is
<1> QED
  BY <1>1, <1>2 DEF Redirect, PagesInv, LifeTypeOK, CompletedSettled, Is

LEMMA WorldStepOK ==
  ASSUME PagesInv, WorldStep
  PROVE  PagesInv'
<1>1. PICK j \in Jobs : LifeStep(j)
  BY DEF WorldStep
<1> QED
  BY <1>1, PaidStays DEF WorldStep, PagesInv, CallsInv

LEMMA PagesInit_Inv == PagesInit => PagesInv
<1> SUFFICES ASSUME PagesInit PROVE PagesInv
  OBVIOUS
<1>1. LifeTypeOK /\ CompletedSettled
  BY DEF PagesInit, LifeInit, LifeTypeOK, CompletedSettled, Is, Unborn, JobStatuses, Holds
<1>2. TabInv
  BY DEF PagesInit, TabInv, Mounted, ViewRecords, Shown, Pages
<1>3. CallsInv
  BY IdleOK, IdleCallOK DEF PagesInit, CallsInv
<1>4. TimersInv
  BY DEF PagesInit, TimersInv
<1> QED
  BY <1>1, <1>2, <1>3, <1>4 DEF PagesInv, PagesInit

LEMMA PagesStep == PagesInv /\ [PagesNext]_vars => PagesInv'
<1> SUFFICES ASSUME PagesInv, [PagesNext]_vars PROVE PagesInv'
  OBVIOUS
<1>1. ASSUME NEW c \in Calls, UserStep(c) PROVE PagesInv'
  BY <1>1, UserStepOK
<1>2. ASSUME NEW c \in Calls, Serve(c) PROVE PagesInv'
  BY <1>2, ServeOK
<1>3. ASSUME NEW c \in Calls, Arrive(c) PROVE PagesInv'
  BY <1>3, ArriveOK
<1>4. ASSUME NEW c \in Calls, CallFailed(c) PROVE PagesInv'
  BY <1>4, Finished, SameTab, PagesOnly DEF CallFailed, PagesInv, TabInv
<1>5. ASSUME NEW c \in Calls, Tick(c) PROVE PagesInv'
  BY <1>5, Sending, SameTab, PagesOnly DEF Tick, PagesInv, TabInv
<1>6. ASSUME NEW c \in Calls, NEW j \in Jobs, Redirect(j, c) PROVE PagesInv'
  BY <1>6, RedirectOK
<1>7. CASE WorldStep
  BY <1>7, WorldStepOK
<1>8. CASE UNCHANGED vars
  BY <1>8 DEF vars, PagesInv, LifeTypeOK, CompletedSettled, TabInv, CallsInv, CallOK,
              TimersInv, Paid, Is
<1> QED
  BY <1>1, <1>2, <1>3, <1>4, <1>5, <1>6, <1>7, <1>8 DEF PagesNext

-----------------------------------------------------------------------------
(* One request at a time                                                   *)

\* In the calm world one request of the page asks for the status, and none once
\* the page has stopped polling, which it does when it shows an end.
CalmPage ==
  /\ \A c, d \in Calls : Mine(c, StatusKinds) /\ Mine(d, StatusKinds) => c = d
  /\ tab.page = "processing" /\ ~view.ticking =>
       view.data \in Ended /\ \A c \in Calls : ~Mine(c, StatusKinds)

OrderInv == OneCopyAtATime /\ (world = "calm" => CalmPage)

\* A page that is shown anew has one request, which copies nothing.
LEMMA ShowInOrder ==
  ASSUME PagesInv, OrderInv, NEW page \in Pages, NEW j, NEW c \in Calls, UNCHANGED world, Show(page, j, c)
  PROVE  OrderInv'
<1>1. CASE tab = [page |-> page, job |-> j]
  <2>1. \A d \in Calls : calls'[d] = IF d = c THEN Idle ELSE calls[d]
    BY <1>1 DEF Show, PagesInv, CallsInv
  <2>2. \A d \in Calls : \A kinds : Mine(d, kinds)' => d # c /\ Mine(d, kinds) /\ calls'[d].kind = calls[d].kind
    BY <2>1 DEF Mine, Idle
  <2>3. UNCHANGED <<tab, view>>
    BY <1>1 DEF Show
  <2> QED
    BY <2>2, <2>3 DEF OrderInv, OneCopyAtATime, CalmPage, Mine
<1>2. CASE tab # [page |-> page, job |-> j]
  <2>1. /\ view' = Mounted(page) /\ tab'.page = page
        /\ \A d \in Calls : calls'[d] = IF d = c THEN FirstCall(page, j) ELSE Orphan(calls[d])
    BY <1>2 DEF Show
  <2>2. ASSUME NEW d \in Calls, d # c  PROVE ~calls'[d].mine
    <3>1. calls[d] \in CallRecords
      BY DEF PagesInv, CallsInv
    <3>2. calls'[d] = Idle \/ calls'[d] = [calls[d] EXCEPT !.mine = FALSE]
      BY <2>1, <2>2 DEF Orphan
    <3> QED
      BY <3>1, <3>2 DEF Idle, CallRecords
  <2>3. calls'[c].kind \notin {"duplicate", "variation"}
    <3>1. Request("poll", j).kind = "poll" /\ Request("result", j).kind = "result"
      BY DEF Request, Idle
    <3>2. calls'[c] \in {Request("poll", j), Request("result", j), Idle}
      BY <2>1 DEF FirstCall, Pages
    <3>3. Idle.kind = "none"
      BY DEF Idle
    <3> QED
      BY <3>1, <3>2, <3>3
  <2>4. page = "processing" => view'.ticking
    BY <2>1 DEF Mounted
  <2> QED
    BY <2>1, <2>2, <2>3, <2>4 DEF OrderInv, OneCopyAtATime, CalmPage, Mine
<1> QED
  BY <1>1, <1>2

\* Requests that are served, or end, and what their page makes of it.
LEMMA EndInOrder ==
  ASSUME PagesInv, OrderInv, UNCHANGED <<world, tab>>,
         \A c \in Calls : calls'[c].mine => calls[c].mine /\ calls'[c].kind = calls[c].kind,
         view'.ticking = view.ticking, view'.data = view.data \/ view'.data \in Ended,
         \/ view'.duplicating = view.duplicating
         \/ \A c \in Calls : ~Mine(c, {"duplicate"})',
         \/ view'.variating = view.variating
         \/ \A c \in Calls : ~Mine(c, {"variation"})'
  PROVE  OrderInv'
<1>1. \A c \in Calls : \A kinds : Mine(c, kinds)' => Mine(c, kinds) /\ calls'[c].kind = calls[c].kind
  BY DEF Mine
<1>2. OneCopyAtATime'
  BY <1>1 DEF OrderInv, OneCopyAtATime, Mine
<1>3. world = "calm" => CalmPage'
  BY <1>1 DEF OrderInv, CalmPage
<1> QED
  BY <1>2, <1>3 DEF OrderInv

LEMMA ClicksInOrder ==
  ASSUME PagesInv, OrderInv, NEW c \in Calls, UserStep(c) \/ Tick(c)
  PROVE  OrderInv'
<1>1. ASSUME NEW page \in {"processing", "result"}, NEW j \in Jobs, Open(page, j, c)
      PROVE  OrderInv'
  BY <1>1, ShowInOrder DEF Open, Pages
<1>2. CASE Leave(c)
  BY <1>2, ShowInOrder DEF Leave, Pages
<1>3. CASE ClickResult(c)
  BY <1>3, ShowInOrder DEF ClickResult, Pages
<1>4. ASSUME NEW kind \in {"poll", "cancel", "duplicate", "variation"},
             calls' = [calls EXCEPT ![c] = Request(kind, tab.job)]
      PROVE  /\ calls'[c].kind = kind /\ calls'[c].mine
             /\ \A d \in Calls : d # c => calls'[d] = calls[d]
  BY <1>4 DEF PagesInv, CallsInv, Request, Idle
<1>5. ASSUME NEW kind \in {"poll", "cancel"}, calls' = [calls EXCEPT ![c] = Request(kind, tab.job)],
             UNCHANGED <<world, tab, view>>, MayAsk,
             tab.page = "processing" => view.ticking \/ view.data \notin Ended
      PROVE  OrderInv'
  <2>1. calls'[c].kind = kind /\ \A d \in Calls : d # c => calls'[d] = calls[d]
    BY <1>4, <1>5
  <2>2. OneCopyAtATime'
    BY <1>5, <2>1 DEF OrderInv, OneCopyAtATime, Mine
  <2>3. world = "calm" => CalmPage'
    BY <1>5, <2>1 DEF OrderInv, CalmPage, Mine, MayAsk
  <2> QED
    BY <1>5, <2>2, <2>3 DEF OrderInv
<1>6. CASE ClickCancel(c)
  <2>1. view.data \notin Ended
    BY <1>6 DEF ClickCancel, ProcessingControls, Ended
  <2> QED
    BY <1>5, <1>6, <2>1 DEF ClickCancel
<1>7. CASE Tick(c)
  BY <1>5, <1>7 DEF Tick
<1>8. ASSUME NEW kind \in {"duplicate", "variation"}, calls' = [calls EXCEPT ![c] = Request(kind, tab.job)],
             UNCHANGED <<world, tab>>, tab.page = "result",
             ~view.duplicating \/ kind # "duplicate", ~view.variating \/ kind # "variation",
             view'.duplicating = (view.duplicating \/ kind = "duplicate"),
             view'.variating = (view.variating \/ kind = "variation"),
             view'.ticking = view.ticking, view'.data = view.data
      PROVE  OrderInv'
  <2>1. calls'[c].kind = kind /\ \A d \in Calls : d # c => calls'[d] = calls[d]
    BY <1>4, <1>8
  <2>2. OneCopyAtATime'
    BY <1>8, <2>1 DEF OrderInv, OneCopyAtATime, Mine
  <2>3. world = "calm" => CalmPage'
    BY <1>8, <2>1 DEF OrderInv, CalmPage, Mine, StatusKinds
  <2> QED
    BY <1>8, <2>2, <2>3 DEF OrderInv
<1>9. view \in ViewRecords
  BY DEF PagesInv, TabInv
<1>10. CASE ClickDuplicate(c)
  <2>1. ~view.duplicating
    BY <1>10 DEF ClickDuplicate, ResultControls
  <2>2. view' = [view EXCEPT !.duplicating = TRUE]
    BY <1>10 DEF ClickDuplicate
  <2>3. view'.duplicating = TRUE /\ view'.variating = view.variating /\ view'.ticking = view.ticking
        /\ view'.data = view.data
    BY <1>9, <2>2 DEF ViewRecords
  <2>4. view'.duplicating = (view.duplicating \/ "duplicate" = "duplicate")
        /\ view'.variating = (view.variating \/ "duplicate" = "variation")
    BY <1>9, <2>3 DEF ViewRecords
  <2> QED
    BY <1>8, <1>10, <2>1, <2>3, <2>4 DEF ClickDuplicate
<1>11. CASE ClickVariation(c)
  <2>1. ~view.variating
    BY <1>11 DEF ClickVariation, ResultControls
  <2>2. view' = [view EXCEPT !.variating = TRUE]
    BY <1>11 DEF ClickVariation
  <2>3. view'.variating = TRUE /\ view'.duplicating = view.duplicating /\ view'.ticking = view.ticking
        /\ view'.data = view.data
    BY <1>9, <2>2 DEF ViewRecords
  <2>4. view'.duplicating = (view.duplicating \/ "variation" = "duplicate")
        /\ view'.variating = (view.variating \/ "variation" = "variation")
    BY <1>9, <2>3 DEF ViewRecords
  <2> QED
    BY <1>8, <1>11, <2>1, <2>3, <2>4 DEF ClickVariation
<1> QED
  BY <1>1, <1>2, <1>3, <1>6, <1>7, <1>10, <1>11 DEF UserStep

LEMMA DoneEnds ==
  ASSUME PagesInv, NEW c \in Calls, Done(c)
  PROVE  /\ ~calls'[c].mine /\ \A d \in Calls : d # c => calls'[d] = calls[d]
         /\ \A d \in Calls : calls'[d].mine => calls[d].mine /\ calls'[d].kind = calls[d].kind
  BY DEF Done, PagesInv, CallsInv, Idle

LEMMA AnswersInOrder ==
  ASSUME PagesInv, OrderInv, NEW c \in Calls, Arrive(c)
  PROVE  OrderInv'
<1> DEFINE seen == calls[c].seen
<1>1. view \in ViewRecords /\ calls[c] \in CallRecords /\ CallOK(calls[c])
  BY DEF PagesInv, TabInv, CallsInv
<1>2. /\ Told(seen) \in ViewRecords
      /\ Told(seen).ticking = view.ticking /\ Told(seen).duplicating = view.duplicating
      /\ Told(seen).variating = view.variating
      /\ Told(seen).data = IF seen = "none" THEN view.data ELSE seen
  BY <1>1 DEF Told, ViewRecords, CallRecords
\* The request that asks for the status is the only one: nothing asks any more.
<1>3. ASSUME calls[c].kind \in {"poll", "refetch"}, Done(c), UNCHANGED <<world, tab>>,
             view'.duplicating = view.duplicating, view'.variating = view.variating,
             \/ view'.ticking = view.ticking /\ (view.ticking \/ world # "calm" \/ tab.page # "processing")
             \/ view'.data \in Ended \/ view'.ticking
      PROVE  OrderInv'
  <2>1. calls[c].mine
    BY <1>1, <1>3 DEF CallOK
  <2>2. \A d \in Calls : \A kinds : Mine(d, kinds)' => d # c /\ Mine(d, kinds) /\ calls'[d].kind = calls[d].kind
    BY <1>3, DoneEnds DEF Mine
  <2>3. OneCopyAtATime'
    BY <1>3, <2>2 DEF OrderInv, OneCopyAtATime, Mine
  <2>4. ASSUME world = "calm"  PROVE CalmPage'
    <3>1. \A d \in Calls : ~Mine(d, StatusKinds)'
      BY <1>3, <2>1, <2>2, <2>4 DEF OrderInv, CalmPage, Mine, StatusKinds
    <3> QED
      BY <1>3, <2>4, <3>1 DEF CalmPage
  <2> QED
    BY <1>3, <2>3, <2>4 DEF OrderInv
<1>4. ASSUME calls[c].kind \in {"poll", "refetch"}, world = "calm", tab.page = "processing"
      PROVE  view.ticking
  BY <1>1, <1>4 DEF OrderInv, CalmPage, CallOK, Mine, StatusKinds
<1>5. CASE PollAnswered(c)
  <2> DEFINE told == Told(seen)
  <2>1. view' = [told EXCEPT !.ticking = @ /\ ~StopsAt(seen)]
    BY <1>5 DEF PollAnswered
  <2>2. view'.duplicating = view.duplicating /\ view'.variating = view.variating
        /\ view'.data = told.data /\ view'.ticking = (view.ticking /\ ~StopsAt(seen))
    <3>1. told \in ViewRecords /\ told.ticking = view.ticking /\ told.duplicating = view.duplicating
          /\ told.variating = view.variating
      BY <1>2
    <3> HIDE DEF told
    <3> QED
      BY <2>1, <3>1 DEF ViewRecords
  <2>3. CASE StopsAt(seen)
    <3>1. view'.data \in Ended
      BY <1>2, <2>2, <2>3 DEF StopsAt, Ended
    <3> QED
      BY <1>3, <1>5, <2>2, <3>1 DEF PollAnswered
  <2>4. CASE ~StopsAt(seen)
    <3>1. view'.ticking = view.ticking
      BY <1>1, <2>2, <2>4 DEF ViewRecords
    <3> QED
      BY <1>3, <1>4, <1>5, <2>2, <3>1 DEF PollAnswered
  <2> QED
    BY <2>3, <2>4
<1>6. CASE RefetchAnswered(c)
  <2>1. view' = Told(seen) /\ calls[c].kind = "refetch" /\ Done(c) /\ UNCHANGED <<world, tab>>
    BY <1>6 DEF RefetchAnswered
  <2> QED
    BY <1>2, <1>3, <1>4, <2>1
<1>7. CASE CancelAnswered(c)
  <2>1. calls[c].kind = "cancel" /\ UNCHANGED <<world, tab, view>>
    BY <1>7 DEF CancelAnswered
  <2>2. CASE ~calls[c].mine
    BY <1>7, <2>1, <2>2, DoneEnds, EndInOrder DEF CancelAnswered
  <2>3. CASE calls[c].mine
    <3>1. calls' = [calls EXCEPT ![c] = Request("refetch", calls[c].job)]
      BY <1>7, <2>3 DEF CancelAnswered
    <3>2. calls'[c].kind = "refetch" /\ \A d \in Calls : d # c => calls'[d] = calls[d]
      BY <3>1 DEF PagesInv, CallsInv, Request, Idle
    <3>3. Mine(c, StatusKinds)
      BY <2>1, <2>3 DEF Mine, StatusKinds
    <3>4. OneCopyAtATime'
      BY <2>1, <3>2 DEF OrderInv, OneCopyAtATime, Mine
    <3>5. world = "calm" => CalmPage'
      BY <2>1, <3>2, <3>3 DEF OrderInv, CalmPage, Mine
    <3> QED
      BY <2>1, <3>4, <3>5 DEF OrderInv
  <2> QED
    BY <2>2, <2>3
<1>8. CASE ResultAnswered(c)
  <2>1. CASE seen \in Ended \cup {"none"}
    <3>1. Done(c) /\ UNCHANGED <<world, tab>>
          /\ view' = IF calls[c].mine THEN [Told(seen) EXCEPT !.loading = FALSE] ELSE view
      BY <1>8, <2>1 DEF ResultAnswered
    <3> DEFINE told == Told(seen)
    <3>2. told \in ViewRecords /\ told.ticking = view.ticking /\ told.duplicating = view.duplicating
          /\ told.variating = view.variating /\ (told.data = view.data \/ told.data \in Ended)
      BY <1>2, <2>1
    <3>3. view' = [told EXCEPT !.loading = FALSE] \/ view' = view
      BY <3>1
    <3> HIDE DEF told
    <3>4. view'.ticking = view.ticking /\ view'.duplicating = view.duplicating
          /\ view'.variating = view.variating /\ (view'.data = view.data \/ view'.data \in Ended)
      BY <3>2, <3>3 DEF ViewRecords
    <3> QED
      BY <3>1, <3>4, DoneEnds, EndInOrder
  <2>2. CASE seen \notin Ended \cup {"none"}
    BY <1>8, <2>2, ShowInOrder DEF ResultAnswered, Pages
  <2> QED
    BY <2>1, <2>2
<1>9. CASE CopyAnswered(c)
  <2>1. CASE calls[c].made # None
    BY <1>9, <2>1, ShowInOrder DEF CopyAnswered, Pages
  <2>2. CASE calls[c].made = None
    <3>1. Done(c) /\ UNCHANGED <<world, tab>> /\ calls[c].kind \in {"duplicate", "variation"}
          /\ view' = IF ~calls[c].mine THEN view
                     ELSE IF calls[c].kind = "duplicate" THEN [view EXCEPT !.duplicating = FALSE]
                     ELSE [view EXCEPT !.variating = FALSE]
      BY <1>9, <2>2 DEF CopyAnswered
    <3>2. ASSUME NEW kind \in {"duplicate", "variation"}, calls[c].mine, calls[c].kind = kind
          PROVE  \A d \in Calls : ~Mine(d, {kind})'
      <4>1. ~calls'[c].mine /\ \A d \in Calls : d # c => calls'[d] = calls[d]
        BY <3>1, DoneEnds
      <4>2. \A d \in Calls : calls[d].mine /\ calls[d].kind = kind => c = d
        BY <3>2 DEF OrderInv, OneCopyAtATime, Mine
      <4> QED
        BY <4>1, <4>2 DEF Mine
    <3>3. /\ view'.ticking = view.ticking /\ view'.data = view.data
          /\ view'.duplicating = view.duplicating \/ (calls[c].mine /\ calls[c].kind = "duplicate")
          /\ view'.variating = view.variating \/ (calls[c].mine /\ calls[c].kind = "variation")
      BY <1>1, <3>1 DEF ViewRecords
    <3>4. \A d \in Calls : calls'[d].mine => calls[d].mine /\ calls'[d].kind = calls[d].kind
      BY <3>1, DoneEnds
    <3>5. view'.duplicating = view.duplicating \/ \A d \in Calls : ~Mine(d, {"duplicate"})'
      BY <3>2, <3>3
    <3>6. view'.variating = view.variating \/ \A d \in Calls : ~Mine(d, {"variation"})'
      BY <3>2, <3>3
    <3> QED
      BY <3>1, <3>3, <3>4, <3>5, <3>6, EndInOrder
  <2> QED
    BY <2>1, <2>2
<1> QED
  BY <1>5, <1>6, <1>7, <1>8, <1>9 DEF Arrive

LEMMA OrderStep == PagesInv /\ OrderInv /\ [PagesNext]_vars => OrderInv'
<1> SUFFICES ASSUME PagesInv, OrderInv, [PagesNext]_vars  PROVE OrderInv'
  OBVIOUS
<1>1. ASSUME NEW c \in Calls, Serve(c)  PROVE OrderInv'
  <2>1. UNCHANGED <<world, tab, view>>
    BY <1>1 DEF Serve, ServeRead, ServeCancel, ServeCopy
  <2>2. \A d \in Calls : calls'[d].mine = calls[d].mine /\ calls'[d].kind = calls[d].kind
    <3>1. \A d \in Calls : calls[d] \in CallRecords
      BY DEF PagesInv, CallsInv
    <3> QED
      BY <1>1, <3>1 DEF Serve, ServeRead, ServeCancel, ServeCopy, PagesInv, CallsInv, CallRecords
  <2> QED
    BY <2>1, <2>2, EndInOrder
<1>2. ASSUME NEW c \in Calls, CallFailed(c)  PROVE OrderInv'
  BY <1>2, DoneEnds, EndInOrder DEF CallFailed
<1>3. CASE WorldStep \/ UNCHANGED vars
  <2>1. UNCHANGED <<world, tab, view, calls>>
    BY <1>3 DEF WorldStep, vars
  <2> QED
    BY <2>1, EndInOrder
<1>4. ASSUME NEW c \in Calls, NEW j \in Jobs, Redirect(j, c)  PROVE OrderInv'
  BY <1>4, ShowInOrder DEF Redirect, Pages
<1> QED
  BY <1>1, <1>2, <1>3, <1>4, ClicksInOrder, AnswersInOrder DEF PagesNext

LEMMA PagesInvariant == PagesSpec => []PagesInv
BY PagesInit_Inv, PagesStep, PTL DEF PagesSpec

LEMMA OrderInvariant == PagesSpec => []OrderInv
<1>1. PagesInit => OrderInv
  BY DEF PagesInit, OrderInv, OneCopyAtATime, CalmPage, Mine, Idle
<1> QED
  BY <1>1, OrderStep, PagesInvariant, PTL DEF PagesSpec

\* The pages keep their types, and a page that is mounted is about a stored job.
THEOREM PagesTyped == PagesSpec => []PagesTypeOK
<1>1. PagesInv => PagesTypeOK
  BY DEF PagesInv, PagesTypeOK, TabInv, ViewRecords, CallsInv, CallOK, TimersInv
<1> QED
  BY <1>1, PagesInvariant, PTL

\* The processing and result pages show, announce and redirect to a video only
\* when the credits of its job are settled, for any number of requests under way.
THEOREM PagesPaidBeforeShown == PagesSpec => []PaidBeforeShown
<1>1. PagesInv => PaidBeforeShown
  BY DEF PagesInv, PaidBeforeShown, TabInv, CallsInv, CallOK, TimersInv
<1> QED
  BY <1>1, PagesInvariant, PTL

\* While a copy is made its button makes no other, for any number of requests, lost
\* answers and pages that are left and come back to.
THEOREM PagesOneCopy == PagesSpec => []OneCopyAtATime
<1>1. OrderInv => OneCopyAtATime
  BY DEF OrderInv
<1> QED
  BY <1>1, OrderInvariant, PTL

\* In the calm world a page does not stop polling before it shows an end.
THEOREM PagesStoppedShowEnd == PagesSpec => []StoppedShowsEnd
<1>1. OrderInv => StoppedShowsEnd
  BY DEF OrderInv, CalmPage, StoppedShowsEnd
<1> QED
  BY <1>1, OrderInvariant, PTL

-----------------------------------------------------------------------------
(* The pages and the jobs                                                  *)

\* Only the API changes a job for a page, by a cancellation of a job that waits
\* or by a copy; everything else a page does leaves the jobs alone.
LEMMA ServeIsLife ==
  ASSUME PagesInv, NEW c \in Calls, Serve(c)
  PROVE  LifeNext \/ UNCHANGED life
<1>1. CASE ServeRead(c)
  BY <1>1 DEF ServeRead
<1>2. CASE ServeCancel(c)
  <2>1. CallOK(calls[c]) /\ calls[c].kind = "cancel"
    BY <1>2 DEF PagesInv, CallsInv, ServeCancel, Unserved
  <2>2. calls[c].job \in Jobs
    BY <2>1 DEF CallOK
  <2> QED
    BY <1>2, <2>2 DEF ServeCancel, LifeNext, LifeStep
<1>3. CASE ServeCopy(c)
  BY <1>3 DEF ServeCopy, LifeNext, LifeStep
<1> QED
  BY <1>1, <1>2, <1>3 DEF Serve

LEMMA ArriveLeavesLife ==
  ASSUME NEW c \in Calls, Arrive(c)
  PROVE  UNCHANGED life
BY DEF Arrive, PollAnswered, RefetchAnswered, CancelAnswered, ResultAnswered, CopyAnswered

LEMMA UserLeavesLife ==
  ASSUME NEW c \in Calls, UserStep(c)
  PROVE  UNCHANGED life
BY DEF UserStep, Open, Leave, ClickResult, ClickCancel, ClickDuplicate, ClickVariation

\* What the pages do to a job through the API, with the clicks of a user that come
\* at any moment and requests that are served late or not at all, is no more than
\* the life of a job (cancel_generation, duplicate_generation, generate_variation):
\* so the behaviours the pages are checked against leave room for the pages.
THEOREM PagesImplementLife == PagesSpec => LifeSpec
<1>1. PagesInit => LifeInit
  BY DEF PagesInit
<1>2. PagesInv /\ [PagesNext]_vars => [LifeNext]_life
  <2> SUFFICES ASSUME PagesInv, [PagesNext]_vars
               PROVE  LifeNext \/ UNCHANGED life
    OBVIOUS
  <2>1. ASSUME NEW c \in Calls, UserStep(c) \/ Arrive(c) \/ CallFailed(c) \/ Tick(c)
        PROVE  UNCHANGED life
    BY <2>1, UserLeavesLife, ArriveLeavesLife DEF CallFailed, Tick
  <2>2. ASSUME NEW c \in Calls, NEW j \in Jobs, Redirect(j, c)
        PROVE  UNCHANGED life
    BY <2>2 DEF Redirect
  <2>3. CASE WorldStep
    BY <2>3 DEF WorldStep, LifeNext
  <2>4. CASE UNCHANGED vars
    BY <2>4 DEF vars
  <2> QED
    BY <2>1, <2>2, <2>3, <2>4, ServeIsLife DEF PagesNext
<1> QED
  BY <1>1, <1>2, PagesInvariant, PTL DEF PagesSpec, LifeSpec

=============================================================================
