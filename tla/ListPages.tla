------------------------------ MODULE ListPages ------------------------------
(***************************************************************************)
(* The pages of the web front end that list stored rows: a user's jobs,    *)
(* assets, projects and usage, an admin's users and audit logs.            *)
(*                                                                         *)
(* They share a pattern.  A fetch carries the filter of the render that    *)
(* started it, and its answer replaces the rows whatever filter is shown   *)
(* by then: answers that overtake one another are not told apart.  A       *)
(* change of the stored rows is followed by a fetch of the same old        *)
(* render.  loading and busy are set before and reset after an await, with *)
(* no finally: an answer that never comes leaves them set.                 *)
(*                                                                         *)
(* The search text is one more thing that a fetch carries, and is left     *)
(* out; other users' changes are left out too.                             *)
(***************************************************************************)
EXTENDS Naturals

CONSTANTS
  LastFilter,  \* filters (tabs, types, page numbers) are 1 .. LastFilter
  Slots,       \* bound: requests of the page that are under way at one time
  MaxChanges   \* bound: changes of the stored rows

ASSUME ListsAssumption == LastFilter \in Nat \ {0} /\ MaxChanges \in Nat

VARIABLES
  world,  \* calm: everything is answered, well, before the user goes on, who
          \* searches from the first page; rough: answers overtake and refuse;
          \* lossy: and some never come
  list,   \* the page that is mounted and its state
  calls,  \* its requests
  data    \* version of the stored rows

vars == <<world, list, calls, data>>

Filters == 1 .. LastFilter

Kinds == {"jobs", "assets", "projects", "usage", "users", "logs"}

\* What a page offers: an effect fetches when the filter changes, a form searches,
\* a button on a row changes it, a form or file input adds a row.
Filtered == {"jobs", "assets", "logs"}
Searched == {"jobs", "users"}
RowsChange == {"assets", "users"}
RowsAdded == {"assets", "projects"}

\* Pages that show the spinner again for each fetch.
Reloading == {"jobs", "assets", "users", "logs"}

NoRows == [filter |-> 0, version |-> 0]
NoList == [kind |-> "none", filter |-> 1, rows |-> NoRows, loading |-> FALSE, busy |-> FALSE]
MountedAtZero(kind) == [NoList EXCEPT !.kind = kind, !.loading = TRUE, !.filter = 0]  \* mutant
Mounted(kind) == [NoList EXCEPT !.kind = kind, !.loading = TRUE]

\* keeps: the fetch or change for which the page is busy.
Idle == [op |-> "none", filter |-> 1, keeps |-> FALSE, at |-> "sent", ok |-> TRUE, version |-> 0]
Fetch(filter) == [Idle EXCEPT !.op = "fetch", !.filter = filter]
Change(filter) == [Fetch(filter) EXCEPT !.op = "change"]
Add(filter) == [Fetch(filter) EXCEPT !.op = "add", !.keeps = TRUE]

ListsInit ==
  /\ world \in {"calm", "rough", "lossy"}
  /\ list = NoList /\ calls = [c \in Slots |-> Idle] /\ data = 0

Free(c) == calls[c].op = "none"
Quiet == \A c \in Slots : Free(c)
Waits == world = "calm" => Quiet

-----------------------------------------------------------------------------
(* The user                                                                *)

\* Answers to a page that was left find no state to set.
Open(kind, c) ==
  /\ list.kind = "none"
  /\ list' = Mounted(kind)
  /\ calls' = [calls EXCEPT ![c] = Fetch(1)]
  /\ UNCHANGED <<world, data>>

Leave ==
  /\ list.kind # "none" /\ Waits
  /\ list' = NoList /\ calls' = [c \in Slots |-> Idle]
  /\ UNCHANGED <<world, data>>

\* Tabs and page buttons stay enabled while the list loads.
ChooseFilter(f, c) ==
  /\ list.kind \in Filtered /\ f # list.filter /\ Waits /\ Free(c)
  /\ list' = [list EXCEPT !.filter = f, !.loading = TRUE]
  /\ calls' = [calls EXCEPT ![c] = Fetch(f)]
  /\ UNCHANGED <<world, data>>

\* handleSearch of the jobs page goes to the first page and fetches by itself,
\* with the page number it was rendered with; the effect fetches the first page.
SearchJobs(c, d) ==
  /\ list.kind = "jobs" /\ Waits /\ Free(c)
  /\ IF list.filter = 1
     THEN calls' = [calls EXCEPT ![c] = Fetch(1)]
     ELSE /\ world # "calm" /\ Free(d) /\ c # d
          /\ calls' = [calls EXCEPT ![c] = Fetch(list.filter), ![d] = Fetch(1)]
  /\ list' = [list EXCEPT !.filter = 1, !.loading = TRUE]
  /\ UNCHANGED <<world, data>>

SearchUsers(c) ==
  /\ list.kind = "users" /\ Waits /\ Free(c)
  /\ calls' = [calls EXCEPT ![c] = Fetch(1)]
  /\ list' = [list EXCEPT !.loading = TRUE]
  /\ UNCHANGED <<world, data>>

\* The buttons of a row: Delete; Adjust credits and Suspend.
RowButtons == list.kind \in RowsChange /\ ~list.loading /\ list.rows # NoRows

ChangeRow(c) ==
  /\ RowButtons /\ Waits /\ Free(c)
  /\ calls' = [calls EXCEPT ![c] = Change(list.filter)]
  /\ UNCHANGED <<world, list, data>>

\* Upload and New Project, disabled while busy, but for the second file input of
\* the assets page, which is there as long as there are no rows.
AddButton ==
  CASE list.kind = "assets"   -> ~list.busy \/ (~list.loading /\ list.rows = NoRows)
    [] list.kind = "projects" -> ~list.busy /\ ~list.loading
    [] OTHER                  -> FALSE

AddRow(c) ==
  /\ AddButton /\ Waits /\ Free(c)
  /\ calls' = [calls EXCEPT ![c] = Add(list.filter)]
  /\ list' = [list EXCEPT !.busy = TRUE]
  /\ UNCHANGED <<world, data>>

-----------------------------------------------------------------------------
(* The API                                                                 *)

Unserved(c) == ~Free(c) /\ calls[c].at = "sent"

ServeFetch(c) ==
  /\ Unserved(c) /\ calls[c].op = "fetch"
  /\ calls' = [calls EXCEPT ![c].at = "answered", ![c].version = data]
  /\ UNCHANGED <<world, list, data>>

ServeChange(c) ==
  /\ Unserved(c) /\ calls[c].op # "fetch" /\ data < MaxChanges
  /\ data' = data + 1
  /\ calls' = [calls EXCEPT ![c].at = "answered"]
  /\ UNCHANGED <<world, list>>

Refuse(c) ==
  /\ Unserved(c) /\ (world # "calm" \/ calls[c].op # "fetch")
  /\ calls' = [calls EXCEPT ![c].at = "answered", ![c].ok = FALSE]
  /\ UNCHANGED <<world, list, data>>

\* The await throws: the rest of the handler does not run.
Lose(c) ==
  /\ world = "lossy" /\ ~Free(c)
  /\ calls' = [calls EXCEPT ![c] = Idle]
  /\ UNCHANGED <<world, list, data>>

-----------------------------------------------------------------------------
(* Answers                                                                 *)

Answered(c, ops) == calls[c].op \in ops /\ calls[c].at = "answered"

LoadingAfterOk(ok) == list.loading /\ ~ok  \* mutant
LoadingAfter(ok) == FALSE

\* if (res.ok) setRows; setLoading(false); the handler that awaits it ends.
FetchAnswered(c) ==
  /\ Answered(c, {"fetch"})
  /\ list' = [list EXCEPT
                !.rows = IF calls[c].ok
                         THEN [filter |-> calls[c].filter, version |-> calls[c].version] ELSE @,
                !.loading = LoadingAfter(calls[c].ok),
                !.busy = @ /\ ~calls[c].keeps]
  /\ calls' = [calls EXCEPT ![c] = Idle]
  /\ UNCHANGED <<world, data>>

\* The refetch of a handler, with the filter it was rendered with.
NoRefetch(c) == Idle  \* mutant
Refetch(c) == [Fetch(calls[c].filter) EXCEPT !.keeps = calls[c].keeps]

\* Delete, Adjust and Suspend do not look at the answer.
ChangeAnswered(c) ==
  /\ Answered(c, {"change"})
  /\ calls' = [calls EXCEPT ![c] = Refetch(c)]
  /\ list' = [list EXCEPT !.loading = TRUE]
  /\ UNCHANGED <<world, data>>

\* Upload and Create fetch only after a success.
AddAnswered(c) ==
  /\ Answered(c, {"add"})
  /\ IF calls[c].ok
     THEN /\ calls' = [calls EXCEPT ![c] = Refetch(c)]
          /\ list' = [list EXCEPT !.loading = @ \/ list.kind \in Reloading]
     ELSE /\ calls' = [calls EXCEPT ![c] = Idle]
          /\ list' = [list EXCEPT !.busy = FALSE]
  /\ UNCHANGED <<world, data>>

-----------------------------------------------------------------------------

UserStep(c) ==
  \/ \E kind \in Kinds : Open(kind, c)
  \/ \E f \in Filters : ChooseFilter(f, c)
  \/ \E d \in Slots : SearchJobs(c, d)
  \/ SearchUsers(c) \/ ChangeRow(c) \/ AddRow(c)

Serve(c) == ServeFetch(c) \/ ServeChange(c) \/ Refuse(c)
Arrive(c) == FetchAnswered(c) \/ ChangeAnswered(c) \/ AddAnswered(c)

ListsNext ==
  \/ \E c \in Slots : UserStep(c) \/ Serve(c) \/ Arrive(c) \/ Lose(c)
  \/ Leave

ListsSpec == ListsInit /\ [][ListsNext]_vars

\* What is sent is answered, and what is answered is dealt with.
ListsFairSpec == ListsSpec /\ \A c \in Slots : WF_vars(Serve(c)) /\ WF_vars(Arrive(c))

-----------------------------------------------------------------------------
(* Properties                                                              *)

\* Types; a page that is not there has no rows and no requests.
ListsTypeOK ==
  /\ world \in {"calm", "rough", "lossy"}
  /\ list \in [kind : Kinds \cup {"none"}, filter : Filters, loading : BOOLEAN, busy : BOOLEAN,
               rows : [filter : Filters \cup {0}, version : 0 .. MaxChanges]]
  /\ calls \in [Slots -> [op : {"none", "fetch", "change", "add"}, filter : Filters,
                          keeps : BOOLEAN, at : {"sent", "answered"}, ok : BOOLEAN,
                          version : 0 .. MaxChanges]]
  /\ data \in 0 .. MaxChanges
  /\ list.kind = "none" => list = NoList /\ Quiet

\* For a patient user with a good connection the rows are those of the tab or page
\* that is highlighted, with what was changed through the page, through filters,
\* searches and the refetches after changes, whatever was refused.
CalmRowsAreStored ==
  world = "calm" /\ Quiet /\ list.rows # NoRows =>
    list.rows = [filter |-> list.filter, version |-> data]

\* As long as answers come, in any order, with or without success, the spinner and
\* the busy button come to an end.
SpinnersEnd == world # "lossy" => []<>~list.loading /\ []<>~list.busy

=============================================================================
