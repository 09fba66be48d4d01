------------------------------ MODULE JobPages ------------------------------
(***************************************************************************)
(* The processing page and the result page of a generation in one browser  *)
(* tab of the web front end, over the jobs the API shows (JobLife).        *)
(*                                                                         *)
(* A page polls, cancels, copies and navigates with requests of its own:   *)
(* each is sent, handled by the API at some later moment, and answered or  *)
(* lost later still; answers come in any order.  A component that is left  *)
(* is unmounted: what its open requests still do to its own state is       *)
(* nothing, but router.push, router.replace and setTimeout work on.        *)
(***************************************************************************)
EXTENDS JobLife, Naturals

CONSTANTS
  Calls,      \* bound: requests of the tab that are under way at one time
  MaxTimers,  \* bound: redirects to one job that are pending at one time
  None

ASSUME PagesAssumption == None \notin Jobs /\ MaxTimers \in Nat

VARIABLES
  world,   \* calm: a request is answered before the page sends the next one
           \* about the status, and a job that has ended stays as it is
  tab,     \* which page is mounted, for which job
  view,    \* its component state
  calls,   \* the requests under way
  timers   \* of each job, pending setTimeout redirects to its result

vars == <<life, world, tab, view, calls, timers>>

-----------------------------------------------------------------------------

Pages == {"processing", "result", "away"}

\* What a page makes of a status: nothing depends on which one is unfinished.
Telling(status) == IF status \in Ended THEN status ELSE "unfinished"

Idle == [kind |-> "none", job |-> None, mine |-> FALSE, at |-> "sent",
         seen |-> "none", made |-> None]

\* A request: seen is the status an answer tells, "none" in an answer that is
\* not ok; made the id of the job a copy created.
Request(kind, j) == [Idle EXCEPT !.kind = kind, !.job = j, !.mine = TRUE]

\* useState of the two pages; ticking: the interval of the processing page.
Mounted(page) == [data |-> "none", ticking |-> page = "processing",
                  loading |-> page = "result", duplicating |-> FALSE,
                  variating |-> FALSE]

\* Both pages ask for the job as soon as they are mounted.
FirstCall(page, j) == CASE page = "processing" -> Request("poll", j)
                        [] page = "result"     -> Request("result", j)
                        [] page = "away"       -> Idle

StatusKinds == {"poll", "refetch", "cancel"}

\* Unmounting runs the cleanup of the polling effect: active = false and
\* clearInterval; it clears no timeout and aborts no request.  An answer about
\* the status then changes nothing; the others may still navigate.
Orphan(call) ==
  IF call.kind \in {"poll", "refetch"} THEN Idle ELSE [call EXCEPT !.mine = FALSE]

\* The router shows another page; c is the slot of its first request.  A page
\* that is shown already is not mounted again: the slot is free.
Show(page, j, c) ==
  IF tab = [page |-> page, job |-> j]
  THEN /\ calls' = [calls EXCEPT ![c] = Idle]
       /\ UNCHANGED <<tab, view>>
  ELSE /\ tab' = [page |-> page, job |-> j]
       /\ view' = Mounted(page)
       /\ calls' = [d \in Calls |-> IF d = c THEN FirstCall(page, j)
                                             ELSE Orphan(calls[d])]

PagesInit ==
  /\ LifeInit
  /\ world \in {"calm", "rough"}
  /\ tab = [page |-> "away", job |-> None]
  /\ view = Mounted("away")
  /\ calls = [c \in Calls |-> Idle]
  /\ timers = [j \in Jobs |-> 0]

-----------------------------------------------------------------------------
(* The user                                                                *)

Free(c) == calls[c].kind = "none"
Mine(c, kinds) == calls[c].mine /\ calls[c].kind \in kinds

\* What calm promises about the page's own requests for the status.
MayAsk == world = "calm" => ~\E c \in Calls : Mine(c, StatusKinds)

\* The processing page: Cancel unless it shows an end; the links of an end.
ProcessingControls ==
  IF view.data \in {"completed", "failed", "cancelled"}
  THEN {"leave"} \cup (IF view.data = "completed" THEN {"view result"} ELSE {})
  ELSE {"cancel"}

ResultControlsAlways ==  \* mutant
  IF view.loading \/ view.data = "none" THEN {"leave"}
  ELSE {"leave", "duplicate", "variation"}

\* The result page: nothing while it loads or found nothing; then two buttons
\* that copy the job, each disabled while its own copy is made.
ResultControls ==
  IF view.loading \/ view.data = "none" THEN {"leave"}
  ELSE {"leave"} \cup (IF view.data = "completed" THEN {"download"} ELSE {})
                 \cup (IF view.duplicating THEN {} ELSE {"duplicate"})
                 \cup (IF view.variating THEN {} ELSE {"variation"})

\* The user opens a page of a job, from a link, a form or the history.
Open(page, j, c) ==
  /\ Free(c) /\ tab # [page |-> page, job |-> j]
  /\ ~Is(j, {"absent"})
  /\ Show(page, j, c)
  /\ UNCHANGED <<life, world, timers>>

Leave(c) ==
  /\ Free(c) /\ tab.page # "away"
  /\ Show("away", None, c)
  /\ UNCHANGED <<life, world, timers>>

\* View Result.
ClickResult(c) ==
  /\ tab.page = "processing" /\ "view result" \in ProcessingControls
  /\ Free(c)
  /\ Show("result", tab.job, c)
  /\ UNCHANGED <<life, world, timers>>

ClickCancel(c) ==
  /\ tab.page = "processing" /\ "cancel" \in ProcessingControls
  /\ Free(c) /\ MayAsk
  /\ calls' = [calls EXCEPT ![c] = Request("cancel", tab.job)]
  /\ UNCHANGED <<life, world, tab, view, timers>>

ClickDuplicate(c) ==
  /\ tab.page = "result" /\ "duplicate" \in ResultControls
  /\ Free(c)
  /\ calls' = [calls EXCEPT ![c] = Request("duplicate", tab.job)]
  /\ view' = [view EXCEPT !.duplicating = TRUE]
  /\ UNCHANGED <<life, world, tab, timers>>

ClickVariation(c) ==
  /\ tab.page = "result" /\ "variation" \in ResultControls
  /\ Free(c)
  /\ calls' = [calls EXCEPT ![c] = Request("variation", tab.job)]
  /\ view' = [view EXCEPT !.variating = TRUE]
  /\ UNCHANGED <<life, world, tab, timers>>

-----------------------------------------------------------------------------
(* The API and the network                                                 *)

Unserved(c, kinds) == calls[c].kind \in kinds /\ calls[c].at = "sent"

\* GET /generations/{id}: the job, or an error (a token that has expired).
ServeRead(c) ==
  /\ Unserved(c, {"poll", "refetch", "result"})
  /\ \E seen \in {"none", Telling(life[calls[c].job].status)} :
       calls' = [calls EXCEPT ![c].at = "answered", ![c].seen = seen]
  /\ UNCHANGED <<life, world, tab, view, timers>>

\* POST /generations/{id}/cancel: 400 unless pending or queued.  The page does
\* not look at the answer.
ServeCancel(c) ==
  /\ Unserved(c, {"cancel"})
  /\ \/ Is(calls[c].job, Waiting) /\ Cancel(calls[c].job)
     \/ ~Is(calls[c].job, Waiting) /\ UNCHANGED life
  /\ calls' = [calls EXCEPT ![c].at = "answered"]
  /\ UNCHANGED <<world, tab, view, timers>>

\* POST /generations/{id}/duplicate and /variations: a new job, or a refusal.
ServeCopy(c) ==
  /\ Unserved(c, {"duplicate", "variation"})
  /\ \/ \E j \in Jobs :
          /\ Submit(j)
          /\ calls' = [calls EXCEPT ![c].at = "answered", ![c].made = j]
     \/ /\ calls' = [calls EXCEPT ![c].at = "answered"]
        /\ UNCHANGED life
  /\ UNCHANGED <<world, tab, view, timers>>

\* The worker, other tabs and admins.
WorldStep ==
  /\ \E j \in Jobs : LifeStep(j) /\ (world = "calm" => ~Is(j, Ended))
  /\ UNCHANGED <<world, tab, view, calls, timers>>

-----------------------------------------------------------------------------
(* Answers                                                                 *)

Done(c) == calls' = [calls EXCEPT ![c] = Idle]

StopsAtAnyAnswer(seen) == TRUE  \* mutant
StopsAtSuccess(seen) == seen = "completed"  \* mutant
StopsAt(seen) == seen \in {"completed", "failed", "cancelled"}

\* setData, unless the answer is an error.
Told(seen) == IF seen = "none" THEN view ELSE [view EXCEPT !.data = seen]

NotRedirected(j, seen) == timers  \* mutant

\* poll(): the first answer that tells an end clears the interval, a completed
\* one sets the timeout that will redirect.
Redirected(j, seen) ==
  IF seen = "completed" /\ timers[j] < MaxTimers
  THEN [timers EXCEPT ![j] = @ + 1] ELSE timers

PollAnswered(c) ==
  LET call == calls[c] IN
  /\ call.kind = "poll" /\ call.at = "answered"
  /\ Done(c)
  /\ view' = [Told(call.seen) EXCEPT !.ticking = @ /\ ~StopsAt(call.seen)]
  /\ timers' = Redirected(call.job, call.seen)
  /\ UNCHANGED <<life, world, tab>>

\* The fetchStatus of handleCancel: shown, but it stops no interval.
RefetchAnswered(c) ==
  /\ calls[c].kind = "refetch" /\ calls[c].at = "answered"
  /\ Done(c)
  /\ view' = Told(calls[c].seen)
  /\ UNCHANGED <<life, world, tab, timers>>

\* handleCancel goes on with fetchStatus whatever the answer is.
CancelAnswered(c) ==
  /\ calls[c].kind = "cancel" /\ calls[c].at = "answered"
  /\ IF calls[c].mine THEN calls' = [calls EXCEPT ![c] = Request("refetch", calls[c].job)]
                      ELSE Done(c)
  /\ UNCHANGED <<life, world, tab, view, timers>>

\* fetchResult: "Not found" after an error; a job that has not ended is sent back
\* to the processing page, mounted or not.
ResultAnswered(c) ==
  LET call == calls[c] IN
  /\ call.kind = "result" /\ call.at = "answered"
  /\ IF call.seen \in Ended \cup {"none"}
     THEN /\ Done(c)
          /\ view' = IF call.mine THEN [Told(call.seen) EXCEPT !.loading = FALSE]
                                  ELSE view
          /\ UNCHANGED tab
     ELSE Show("processing", call.job, c)
  /\ UNCHANGED <<life, world, timers>>

\* handleDuplicate and handleVariation: push to the new job, mounted or not; a
\* refusal enables the button again.
CopyAnswered(c) ==
  LET call == calls[c] IN
  /\ call.kind \in {"duplicate", "variation"} /\ call.at = "answered"
  /\ IF call.made # None
     THEN Show("processing", call.made, c)
     ELSE /\ Done(c)
          /\ view' = IF ~call.mine THEN view
                     ELSE IF call.kind = "duplicate"
                     THEN [view EXCEPT !.duplicating = FALSE]
                     ELSE [view EXCEPT !.variating = FALSE]
          /\ UNCHANGED tab
  /\ UNCHANGED <<life, world, timers>>

\* A request, or its answer, is lost.  fetchStatus catches that; the other
\* handlers do not, so loading, duplicating and variating stay as they are.
CallFailed(c) ==
  /\ ~Free(c)
  /\ Done(c)
  /\ UNCHANGED <<life, world, tab, view, timers>>

-----------------------------------------------------------------------------
(* Timers                                                                  *)

\* setInterval(poll, 2000), whether the last poll has been answered or not.
Tick(c) ==
  /\ tab.page = "processing" /\ view.ticking
  /\ Free(c) /\ MayAsk
  /\ calls' = [calls EXCEPT ![c] = Request("poll", tab.job)]
  /\ UNCHANGED <<life, world, tab, view, timers>>

\* setTimeout(..., 1500), whatever page the tab shows by now.
Redirect(j, c) ==
  /\ timers[j] > 0 /\ Free(c)
  /\ timers' = [timers EXCEPT ![j] = @ - 1]
  /\ Show("result", j, c)
  /\ UNCHANGED <<life, world>>

-----------------------------------------------------------------------------

UserStep(c) ==
  \/ \E page \in {"processing", "result"}, j \in Jobs : Open(page, j, c)
  \/ Leave(c) \/ ClickResult(c) \/ ClickCancel(c) \/ ClickDuplicate(c) \/ ClickVariation(c)

Serve(c) == ServeRead(c) \/ ServeCancel(c) \/ ServeCopy(c)

Arrive(c) == \/ PollAnswered(c) \/ RefetchAnswered(c) \/ CancelAnswered(c)
             \/ ResultAnswered(c) \/ CopyAnswered(c)

PagesNext ==
  \/ \E c \in Calls : UserStep(c) \/ Serve(c) \/ Arrive(c) \/ CallFailed(c) \/ Tick(c)
  \/ \E c \in Calls, j \in Jobs : Redirect(j, c)
  \/ WorldStep

PagesSpec == PagesInit /\ [][PagesNext]_vars

PollServedWell(c) ==
  calls[c].kind = "poll" /\ ServeRead(c) /\ calls'[c].seen # "none"

\* The browser runs its timers, the API answers, and answers get through again
\* and again.  Ticks and redirects need a free slot, which is a bound of the model
\* and not of a browser, hence strong fairness.
PagesFairness ==
  /\ \A c \in Calls : WF_vars(Serve(c)) /\ WF_vars(Arrive(c))
  /\ SF_vars(\E c \in Calls : PollServedWell(c))
  /\ SF_vars(\E c \in Calls : calls[c].seen # "none" /\ PollAnswered(c))
  /\ SF_vars(\E c \in Calls : Tick(c))
  /\ \A j \in Jobs : SF_vars(\E c \in Calls : Redirect(j, c))

PagesFairSpec == PagesSpec /\ PagesFairness

-----------------------------------------------------------------------------
(* Properties                                                              *)

Shown == Ended \cup {"unfinished", "none"}

CallRecords ==
  [kind : {"none", "poll", "refetch", "cancel", "result", "duplicate", "variation"},
   job : Jobs \cup {None}, mine : BOOLEAN, at : {"sent", "answered"},
   seen : Shown, made : Jobs \cup {None}]

\* Types; a mounted page and its open requests are about one stored job.
PagesTypeOK ==
  /\ LifeTypeOK
  /\ world \in {"calm", "rough"}
  /\ tab \in [page : Pages, job : Jobs \cup {None}]
  /\ tab.page # "away" => tab.job \in Jobs
  /\ view \in [data : Shown, ticking : BOOLEAN, loading : BOOLEAN,
               duplicating : BOOLEAN, variating : BOOLEAN]
  /\ calls \in [Calls -> CallRecords]
  /\ \A c \in Calls : calls[c].kind # "none" => calls[c].job \in Jobs
  /\ timers \in [Jobs -> Nat]

Paid(j) == ~Is(j, {"absent"}) /\ life[j].hold # "held"

\* From the worker's last commit to the pixels: a video that the tab shows, is
\* about to show or is being told of has its credits settled, however late the
\* answers are and whatever happened to the job since.
PaidBeforeShown ==
  /\ view.data = "completed" => Paid(tab.job)
  /\ \A c \in Calls : calls[c].seen = "completed" => Paid(calls[c].job)
  /\ \A j \in Jobs : timers[j] > 0 => Paid(j)

\* A page makes one copy at a time with each button: no second click pays for a
\* second duplicate while the first is under way.
OneCopyAtATime ==
  \A c, d \in Calls :
    /\ Mine(c, {"duplicate"}) => view.duplicating
    /\ Mine(c, {"variation"}) => view.variating
    /\ Mine(c, {"duplicate", "variation"}) /\ Mine(d, {calls[c].kind}) => c = d

\* As long as requests do not overlap and ends are final, a processing page that
\* has stopped polling shows an end: nobody waits in front of a frozen spinner.
StoppedShowsEnd ==
  world = "calm" /\ tab.page = "processing" /\ ~view.ticking => view.data \in Ended

On(page, j) == tab = [page |-> page, job |-> j]

\* A page that polls does not miss the end of its job, through lost answers
\* and late ones: it stops, is left, or the job goes on.
EndIsNoticed ==
  \A j \in Jobs : (On("processing", j) /\ view.ticking /\ Is(j, Ended))
                    ~> (~On("processing", j) \/ ~view.ticking \/ ~Is(j, Ended))

\* In a calm world nobody stays on the processing page of a completed job.
CalmCompletionRedirects ==
  world = "calm" =>
    \A j \in Jobs : []<>~(On("processing", j) /\ Is(j, {"completed"}))

=============================================================================
