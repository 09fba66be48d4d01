----------------------------- MODULE JobQueries -----------------------------
(***************************************************************************)
(* The admin console's view of jobs in one browser tab: the dashboard, the *)
(* job list and the page of a job read through one React Query cache,      *)
(* which outlives the pages; cancellations and creations invalidate it.    *)
(*                                                                         *)
(* What is taken from React Query (external): a key has one fetch under    *)
(* way at most; an answer is stored under its key whoever shows it by      *)
(* then; a page that starts to show a key fetches it unless its data is    *)
(* fresh; invalidation makes data stale and starts the fetches of shown    *)
(* keys anew.  A fetch stands for both of its attempts (retry: 1).         *)
(*                                                                         *)
(* Jobs are coarser than in JobLife: pending is like queued, loading_model *)
(* and post_processing are like processing, and an end is an end.          *)
(***************************************************************************)
EXTENDS FiniteSets

CONSTANTS
  Jobs,
  Tabs  \* tabs of the job list: "all" and statuses

Statuses == {"absent", "queued", "processing", "ended"}

ASSUME QueriesAssumption ==
  Jobs # {} /\ "all" \in Tabs /\ Tabs \subseteq {"all"} \cup Statuses

VARIABLES
  world,   \* calm: the user waits for answers, and every change is answered;
           \* rough: the user does not, answers are lost, ended jobs start again
  status,  \* of each job, in the database
  plan,    \* bound: the two pages between which the user goes
  view,    \* the page that is shown
  cache,   \* of each key: what is stored and under way
  change   \* bound: the one cancellation or creation that is under way

vars == <<world, status, plan, view, cache, change>>

\* queryKeys: the list's key has its filters.  All are below queryKeys.jobs.all.
ListKeyUnfiltered(t) == <<"list", "all">>  \* mutant
ListKey(t) == <<"list", t>>
DetailKey(j) == <<"detail", j>>
RecentKey == <<"recent">>

Keys == {<<"list", t>> : t \in Tabs} \cup {DetailKey(j) : j \in Jobs} \cup {RecentKey}

\* What a page shows of each job; a job that is absent from it is not shown.
Snapshots == [Jobs -> Statuses]
NoData == [j \in Jobs |-> "none"]

\* behind (history): fresh data that was read before the tab's last change.
NoFetch == [at |-> "none", data |-> NoData, behind |-> FALSE]
Sent == [NoFetch EXCEPT !.at = "sent"]
NoEntry == [data |-> NoData, mark |-> "stale", behind |-> FALSE, fetch |-> NoFetch]

\* The studio shows no key: it stands for the console's other pages, too.
Views == [page : {"dashboard", "studio"}, arg : {"none"}]
           \cup [page : {"jobs"}, arg : Tabs]
           \cup [page : {"job"}, arg : Jobs]

\* The key that a page shows.
KeysOf(v) == CASE v.page = "dashboard" -> {RecentKey}
               [] v.page = "jobs"      -> {ListKey(v.arg)}
               [] v.page = "job"       -> {DetailKey(v.arg)}
               [] OTHER                -> {}

NoChange == [op |-> "none", job |-> "none", at |-> "sent"]

QueriesInit ==
  /\ world \in {"calm", "rough"}
  /\ status \in [Jobs -> {"absent", "queued"}]
  /\ plan \in {p \in SUBSET Views : Cardinality(p) = 2}
  /\ view = [page |-> "studio", arg |-> "none"]
  /\ cache = [k \in Keys |-> NoEntry]
  /\ change = NoChange

HasData(k) == cache[k].data # NoData
Fetching(k) == cache[k].fetch.at # "none"
Quiet == change = NoChange /\ \A k \in Keys : ~Fetching(k)
Waits == world = "calm" => Quiet

-----------------------------------------------------------------------------
(* The cache                                                               *)

\* fetch, when none is under way.
Fetched(entry) == IF entry.fetch.at = "none" THEN [entry EXCEPT !.fetch = Sent] ELSE entry

\* A page is shown: it fetches what is missing, stale or in error.
Shown(k) == IF HasData(k) /\ cache[k].mark = "fresh" THEN cache[k] ELSE Fetched(cache[k])

\* invalidateQueries: cancelRefetch drops the fetch under way if there is data.
Invalidated(k) ==
  LET old == [cache[k] EXCEPT !.mark = IF @ = "fresh" THEN "stale" ELSE @, !.behind = FALSE] IN
  IF k \notin KeysOf(view) THEN old
  ELSE IF HasData(k) THEN [old EXCEPT !.fetch = Sent]
  ELSE Fetched(old)

Invalidate(keys) == cache' = [k \in Keys |-> IF k \in keys THEN Invalidated(k) ELSE cache[k]]

-----------------------------------------------------------------------------
(* The user                                                                *)

Visit(v) ==
  /\ v \in plan \ {view} /\ Waits
  /\ v.page = "job" => status[v.arg] # "absent"
  /\ view' = v
  /\ cache' = [k \in Keys |-> IF k \in KeysOf(v) \ KeysOf(view) THEN Shown(k) ELSE cache[k]]
  /\ UNCHANGED <<world, plan, status, change>>

\* The rows of the list, the job of the page: nothing next to an error.
RowsShown == {k \in KeysOf(view) : HasData(k) /\ cache[k].mark # "error"}

Shows(j, s) == \E k \in RowsShown : cache[k].data[j] = s

\* Cancel Job in the menu of a row, Cancel on the page of a job.
ClickCancel(j) ==
  /\ change = NoChange
  /\ view.page \in {"jobs", "job"} /\ Shows(j, "queued")
  /\ change' = [NoChange EXCEPT !.op = "cancel", !.job = j]
  /\ UNCHANGED <<world, plan, status, view, cache>>

\* The studio's form is modelled in GenerateForms.
Create ==
  /\ change = NoChange /\ view.page = "studio" /\ Waits
  /\ change' = [NoChange EXCEPT !.op = "create"]
  /\ UNCHANGED <<world, plan, status, view, cache>>

-----------------------------------------------------------------------------
(* The API, the worker and other users                                     *)

\* What is fresh in the cache, or answered, is behind once this tab has changed
\* a job.
Overtaken(entry) ==
  [entry EXCEPT !.behind = @ \/ entry.mark = "fresh",
                !.fetch.behind = @ \/ entry.fetch.at = "answered"]

\* A refusal is answered, too, but its answer changes nothing.
ServeCancel ==
  /\ change.op = "cancel" /\ change.at = "sent"
  /\ IF status[change.job] = "queued"
     THEN /\ status' = [status EXCEPT ![change.job] = "ended"]
          /\ change' = [change EXCEPT !.at = "answered"]
          /\ cache' = [k \in Keys |-> Overtaken(cache[k])]
     ELSE change' = NoChange /\ UNCHANGED <<status, cache>>
  /\ UNCHANGED <<world, plan, view>>

ServeCreate ==
  /\ change.op = "create" /\ change.at = "sent"
  /\ \/ \E j \in Jobs :
          /\ status[j] = "absent"
          /\ status' = [status EXCEPT ![j] = "queued"]
          /\ change' = [change EXCEPT !.at = "answered"]
          /\ cache' = [k \in Keys |-> Overtaken(cache[k])]
     \/ change' = NoChange /\ UNCHANGED <<status, cache>>
  /\ UNCHANGED <<world, plan, view>>

\* list_jobs filters by status, get_job takes one job, the dashboard the newest.
Answer(k) ==
  CASE k[1] = "list"   -> [j \in Jobs |-> IF k[2] \in {"all", status[j]} THEN status[j] ELSE "absent"]
    [] k[1] = "detail" -> [j \in Jobs |-> IF j = k[2] THEN status[j] ELSE "absent"]
    [] OTHER           -> status

ServeFetch(k) ==
  /\ cache[k].fetch.at = "sent"
  /\ cache' = [cache EXCEPT ![k].fetch.at = "answered", ![k].fetch.data = Answer(k)]
  /\ UNCHANGED <<world, plan, status, view, change>>

WorldStep ==
  /\ \E j \in Jobs, s \in Statuses \ {"absent"} :
       /\ <<status[j], s>> \in {<<"queued", "processing">>, <<"queued", "ended">>,
                               <<"processing", "ended">>, <<"absent", "queued">>}
                              \cup (IF world = "rough" THEN {<<"ended", "processing">>} ELSE {})
       /\ status' = [status EXCEPT ![j] = s]
  /\ UNCHANGED <<world, plan, view, cache, change>>

-----------------------------------------------------------------------------
(* Answers and timers                                                      *)

Stored(fetch) == [data |-> fetch.data, mark |-> "fresh", behind |-> fetch.behind, fetch |-> NoFetch]

FetchAnswered(k) ==
  /\ cache[k].fetch.at = "answered"
  /\ cache' = [cache EXCEPT ![k] = Stored(@.fetch)]
  /\ UNCHANGED <<world, plan, status, view, change>>

FailedFresh == "fresh"  \* mutant
Failed == "error"

\* Both attempts failed, on whichever way: the data, if any, stays.
FetchFailed(k) ==
  /\ cache[k].fetch.at = "answered"
  /\ cache' = [cache EXCEPT ![k].fetch = NoFetch, ![k].mark = Failed, ![k].behind = FALSE]
  /\ UNCHANGED <<world, plan, status, view, change>>

\* onSuccess runs whatever page is shown by now.
CancelInvalidatesDetail(j) == {DetailKey(j)}  \* mutant
CancelInvalidates(j) == {DetailKey(j)} \cup Keys

CancelAnswered ==
  /\ change.op = "cancel" /\ change.at = "answered"
  /\ change' = NoChange
  /\ Invalidate(CancelInvalidates(change.job))
  /\ UNCHANGED <<world, plan, status, view>>

\* The studio opens the page of the new job when the creation succeeds.
CreateAnswered ==
  /\ change.op = "create" /\ change.at = "answered"
  /\ change' = NoChange
  /\ Invalidate(Keys)
  /\ UNCHANGED <<world, plan, status, view>>

ChangeLost ==
  /\ world = "rough" /\ change # NoChange
  /\ change' = NoChange
  /\ UNCHANGED <<world, plan, status, view, cache>>

\* refetchInterval: the dashboard always, the page of a job while the data it
\* has tells of an active job.
ActiveUntilWork == {"queued"}  \* mutant
Active == {"queued", "processing"}

Polls(k) == \/ k = RecentKey
            \/ \E j \in Jobs : k = DetailKey(j) /\ cache[k].data[j] \in Active

Poll(k) ==
  /\ k \in KeysOf(view) /\ Polls(k) /\ ~Fetching(k)
  /\ cache' = [cache EXCEPT ![k] = Fetched(@)]
  /\ UNCHANGED <<world, plan, status, view, change>>

\* staleTime: 30 seconds have passed.
Age(k) ==
  /\ cache[k].mark = "fresh"
  /\ cache' = [cache EXCEPT ![k].mark = "stale", ![k].behind = FALSE]
  /\ UNCHANGED <<world, plan, status, view, change>>

-----------------------------------------------------------------------------

UserStep == \/ \E v \in Views : Visit(v)
            \/ \E j \in Jobs : ClickCancel(j)
            \/ Create

ServeChange == ServeCancel \/ ServeCreate
ChangeAnswered == CancelAnswered \/ CreateAnswered

QueriesNext ==
  \/ UserStep \/ ServeChange \/ ChangeAnswered \/ ChangeLost \/ WorldStep
  \/ \E k \in Keys : ServeFetch(k) \/ FetchAnswered(k) \/ FetchFailed(k) \/ Poll(k) \/ Age(k)

QueriesSpec == QueriesInit /\ [][QueriesNext]_vars

\* For the page that is shown: the API answers, timers go off, and answers get
\* through again and again.
QueriesFairness ==
  /\ WF_vars(\E k \in KeysOf(view) : ServeFetch(k) \/ Poll(k))
  /\ SF_vars(\E k \in KeysOf(view) : FetchAnswered(k))

QueriesFairSpec == QueriesSpec /\ QueriesFairness

-----------------------------------------------------------------------------
(* Properties                                                              *)

\* Types; a page of a job is the page of a job that exists, and fresh data is data.
QueriesTypeOK ==
  /\ world \in {"calm", "rough"}
  /\ status \in [Jobs -> Statuses]
  /\ view \in Views
  /\ view.page = "job" => status[view.arg] # "absent"
  /\ cache \in [Keys -> [data : Snapshots \cup {NoData}, mark : {"fresh", "stale", "error"},
                         behind : BOOLEAN,
                         fetch : [at : {"none", "sent", "answered"}, behind : BOOLEAN,
                                  data : Snapshots \cup {NoData}]]]
  /\ \A k \in Keys : cache[k].mark = "fresh" => HasData(k)
  /\ change \in [op : {"none", "cancel", "create"}, job : Jobs \cup {"none"},
                 at : {"sent", "answered"}]

\* The rows under a tab are rows of that tab, however late answers come and
\* however fast the user switches (the lists without a cache lose this).
RowsMatchTab ==
  view.page = "jobs" =>
    \A j \in Jobs : \A s \in Statuses \ {"absent"} : Shows(j, s) => view.arg \in {"all", s}

\* A cancellation or creation that this tab has been told of is on every page it
\* opens: what was read before is never taken for fresh, for a patient user.
OwnChangesShow ==
  world = "calm" /\ change = NoChange => \A k \in Keys : ~cache[k].behind

\* The pages that poll follow a job, through failures and late answers: the
\* dashboard always, the page of a job to its end once it knows an active job.
PolledPagesFollow ==
  \A j \in Jobs :
    /\ \A s \in Statuses :
         (view.page = "dashboard" /\ status[j] = s)
           ~> (view.page # "dashboard" \/ Shows(j, s) \/ status[j] # s)
    /\ (view = [page |-> "job", arg |-> j] /\ status[j] = "ended"
        /\ cache[DetailKey(j)].data[j] \in Active)
         ~> (view # [page |-> "job", arg |-> j] \/ Shows(j, "ended") \/ status[j] # "ended")

=============================================================================
