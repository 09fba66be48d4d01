--------------------------- MODULE ListPagesProofs ---------------------------
(***************************************************************************)
(* For any filters, number of requests and changes: the pages keep their   *)
(* types, and a patient user with a good connection sees the stored rows.  *)
(*                                                                         *)
(* The argument: in the calm world one request is under way at most, and   *)
(* it carries the filter that is shown.  The rows may be old only while    *)
(* that request is a fetch, or a change that was made and whose refetch is *)
(* still to be sent (CalmInv).                                             *)
(***************************************************************************)
EXTENDS ListPages, TLAPS

Rows == [filter : Filters \cup {0}, version : 0 .. MaxChanges]

Lists == [kind : Kinds \cup {"none"}, filter : Filters, loading : BOOLEAN, busy : BOOLEAN,
          rows : Rows]

Calls == [op : {"none", "fetch", "change", "add"}, filter : Filters, keeps : BOOLEAN,
          at : {"sent", "answered"}, ok : BOOLEAN, version : 0 .. MaxChanges]

RowsCurrent == list.rows # NoRows => list.rows = [filter |-> list.filter, version |-> data]

\* What the only request brings, or has left undone.
CallFits(c) ==
  /\ calls[c].op # "none" => calls[c].filter = list.filter
  /\ (calls[c].op \in {"none", "fetch"} \/ calls[c].at = "sent") => calls[c].ok
  /\ calls[c].op = "fetch" /\ calls[c].at = "answered" => calls[c].version = data

\* Neither reading rows nor having changed them.
LeavesRows(c) == calls[c].op # "fetch" /\ (calls[c].at = "sent" \/ ~calls[c].ok)

CalmInv ==
  /\ \A c, d \in Slots : ~Free(c) /\ ~Free(d) => c = d
  /\ \A c \in Slots : CallFits(c)
  /\ (\A c \in Slots : ~Free(c) => LeavesRows(c)) => RowsCurrent
  /\ list.kind \notin Filtered => list.filter = 1

ListsInv == ListsTypeOK /\ (world = "calm" => CalmInv)
-----------------------------------------------------------------------------
(* Types                                                                   *)

LEMMA RequestsTyped ==
  ASSUME NEW f \in Filters
  PROVE  /\ Idle \in Calls /\ Fetch(f) \in Calls /\ Change(f) \in Calls /\ Add(f) \in Calls
         /\ Idle.op = "none" /\ Idle.ok
         /\ Fetch(f).op = "fetch" /\ Fetch(f).at = "sent" /\ Fetch(f).filter = f /\ Fetch(f).ok
         /\ Change(f).op = "change" /\ Change(f).at = "sent" /\ Change(f).filter = f /\ Change(f).ok
         /\ Add(f).op = "add" /\ Add(f).at = "sent" /\ Add(f).filter = f /\ Add(f).ok
<1>1. 1 \in Filters /\ 0 \in 0 .. MaxChanges BY ListsAssumption DEF Filters
<1>2. Idle \in Calls /\ Idle.op = "none" /\ Idle.at = "sent" /\ Idle.ok
  BY <1>1 DEF Idle, Calls
<1>3. /\ Fetch(f) \in Calls /\ Fetch(f).op = "fetch" /\ Fetch(f).at = "sent"
      /\ Fetch(f).filter = f /\ Fetch(f).ok
  BY <1>2 DEF Fetch, Calls
<1>4. /\ Change(f) \in Calls /\ Change(f).op = "change" /\ Change(f).at = "sent"
      /\ Change(f).filter = f /\ Change(f).ok
  BY <1>3 DEF Change, Calls
<1>5. /\ Add(f) \in Calls /\ Add(f).op = "add" /\ Add(f).at = "sent"
      /\ Add(f).filter = f /\ Add(f).ok
  BY <1>3 DEF Add, Calls
<1> QED BY <1>2, <1>3, <1>4, <1>5

LEMMA ListsTyped ==
  /\ NoList \in Lists /\ NoList.kind = "none" /\ NoList.rows = NoRows /\ NoList.filter = 1
  /\ \A kind \in Kinds : /\ Mounted(kind) \in Lists /\ Mounted(kind).kind = kind
                         /\ Mounted(kind).rows = NoRows /\ Mounted(kind).filter = 1
  /\ 1 \in Filters /\ "none" \notin Kinds
<1>1. 1 \in Filters /\ NoRows \in Rows BY ListsAssumption DEF Filters, NoRows, Rows
<1>2. /\ NoList \in Lists /\ NoList.kind = "none" /\ NoList.rows = NoRows
      /\ NoList.filter = 1
  BY <1>1 DEF NoList, Lists
<1>3. ASSUME NEW kind \in Kinds
      PROVE  /\ Mounted(kind) \in Lists /\ Mounted(kind).kind = kind
             /\ Mounted(kind).rows = NoRows /\ Mounted(kind).filter = 1
  BY <1>2 DEF Mounted, Lists
<1>4. "none" \notin Kinds BY DEF Kinds
<1> QED BY <1>1, <1>2, <1>3, <1>4

\* What is mounted is a list, what it sends is a request.
LEMMA UserTyped ==
  ASSUME ListsTypeOK, NEW c \in Slots, UserStep(c)
  PROVE  ListsTypeOK'
<1>0. /\ list \in Lists /\ list.filter \in Filters /\ 1 \in Filters
      /\ calls \in [Slots -> Calls]
  BY ListsTyped DEF ListsTypeOK, Lists, Rows, Calls
<1>1. ASSUME NEW kind \in Kinds, Open(kind, c) PROVE ListsTypeOK'
  <2>1. /\ list' \in Lists /\ list'.kind # "none"
        /\ calls' \in [Slots -> Calls]
    BY <1>0, <1>1, ListsTyped, RequestsTyped DEF Open
  <2> QED BY <1>1, <2>1 DEF Open, ListsTypeOK, Lists, Rows, Calls
<1>2. ASSUME list' \in Lists, list'.kind = list.kind, list.kind # "none",
             calls' \in [Slots -> Calls], world' = world, data' = data
      PROVE  ListsTypeOK'
  BY <1>2 DEF ListsTypeOK, Lists, Rows, Calls
<1>3. ASSUME NEW f \in Filters, ChooseFilter(f, c) PROVE ListsTypeOK'
  <2>1. list' \in Lists /\ list'.kind = list.kind
    BY <1>0, <1>3 DEF ChooseFilter, Lists
  <2>2. calls' \in [Slots -> Calls] BY <1>0, <1>3, RequestsTyped DEF ChooseFilter
  <2> QED BY <1>2, <1>3, <2>1, <2>2 DEF ChooseFilter, Filtered
<1>4. ASSUME NEW d \in Slots, SearchJobs(c, d) PROVE ListsTypeOK'
  <2>1. list' \in Lists /\ list'.kind = list.kind
    BY <1>0, <1>4 DEF SearchJobs, Lists
  <2>2. calls' \in [Slots -> Calls] BY <1>0, <1>4, RequestsTyped DEF SearchJobs
  <2> QED BY <1>2, <1>4, <2>1, <2>2 DEF SearchJobs
<1>5. CASE SearchUsers(c)
  <2>1. list' \in Lists /\ list'.kind = list.kind
    BY <1>0, <1>5 DEF SearchUsers, Lists
  <2>2. calls' \in [Slots -> Calls] BY <1>0, <1>5, RequestsTyped DEF SearchUsers
  <2> QED BY <1>2, <1>5, <2>1, <2>2 DEF SearchUsers
<1>6. CASE ChangeRow(c)
  <2>1. calls' \in [Slots -> Calls] BY <1>0, <1>6, RequestsTyped DEF ChangeRow
  <2> QED BY <1>0, <1>2, <1>6, <2>1 DEF ChangeRow, RowButtons, RowsChange
<1>7. CASE AddRow(c)
  <2>1. list' \in Lists /\ list'.kind = list.kind
    BY <1>0, <1>7 DEF AddRow, Lists
  <2>2. calls' \in [Slots -> Calls] BY <1>0, <1>7, RequestsTyped DEF AddRow
  <2>3. list.kind # "none" BY <1>7 DEF AddRow, AddButton
  <2> QED BY <1>2, <1>7, <2>1, <2>2, <2>3 DEF AddRow
<1> QED BY <1>1, <1>3, <1>4, <1>5, <1>6, <1>7 DEF UserStep

\* An answer is to a page that is there.
LEMMA AnswersTyped ==
  ASSUME ListsTypeOK, NEW c \in Slots, Serve(c) \/ Arrive(c) \/ Lose(c)
  PROVE  ListsTypeOK'
<1>0. /\ list \in Lists /\ list.kind # "none" /\ list.rows \in Rows
      /\ calls \in [Slots -> Calls] /\ calls[c] \in Calls /\ calls[c].filter \in Filters
      /\ calls[c].version \in 0 .. MaxChanges /\ data \in 0 .. MaxChanges
  BY DEF ListsTypeOK, Lists, Rows, Calls, Serve, Arrive, Lose, ServeFetch, ServeChange,
     Refuse, FetchAnswered, ChangeAnswered, AddAnswered, Answered, Unserved, Quiet, Free
<1>1. ASSUME list' \in Lists, list'.kind = list.kind, calls' \in [Slots -> Calls],
             world' = world, data' \in 0 .. MaxChanges
      PROVE  ListsTypeOK'
  BY <1>0, <1>1 DEF ListsTypeOK, Lists, Rows, Calls
<1>2. CASE ServeFetch(c)
  <2>1. [calls[c] EXCEPT !.at = "answered", !.version = data] \in Calls
    BY <1>0 DEF Calls
  <2>2. calls' = [calls EXCEPT ![c] = [calls[c] EXCEPT !.at = "answered", !.version = data]]
    BY <1>0, <1>2 DEF ServeFetch
  <2> QED BY <1>0, <1>1, <1>2, <2>1, <2>2 DEF ServeFetch
<1>3. CASE ServeChange(c)
  <2>1. [calls[c] EXCEPT !.at = "answered"] \in Calls BY <1>0 DEF Calls
  <2>2. calls' = [calls EXCEPT ![c] = [calls[c] EXCEPT !.at = "answered"]]
    BY <1>0, <1>3 DEF ServeChange
  <2>3. data' \in 0 .. MaxChanges BY <1>0, <1>3, ListsAssumption DEF ServeChange
  <2> QED BY <1>0, <1>1, <1>3, <2>1, <2>2, <2>3 DEF ServeChange
<1>4. CASE Refuse(c)
  <2>1. [calls[c] EXCEPT !.at = "answered", !.ok = FALSE] \in Calls BY <1>0 DEF Calls
  <2>2. calls' = [calls EXCEPT ![c] = [calls[c] EXCEPT !.at = "answered", !.ok = FALSE]]
    BY <1>0, <1>4 DEF Refuse
  <2> QED BY <1>0, <1>1, <1>4, <2>1, <2>2 DEF Refuse
<1>5. CASE Lose(c)
  <2>1. calls' \in [Slots -> Calls] BY <1>0, <1>5, RequestsTyped DEF Lose
  <2> QED BY <1>0, <1>1, <1>5, <2>1 DEF Lose
<1>6. Refetch(c) \in Calls
  <2>1. Fetch(calls[c].filter) \in Calls BY <1>0, RequestsTyped
  <2> HIDE DEF Fetch
  <2> QED BY <1>0, <2>1 DEF Refetch, Calls
<1>7. CASE FetchAnswered(c)
  <2> DEFINE rows == IF calls[c].ok
                     THEN [filter |-> calls[c].filter, version |-> calls[c].version]
                     ELSE list.rows
             loading == LoadingAfter(calls[c].ok)
             busy == list.busy /\ ~calls[c].keeps
  <2>1. list' = [list EXCEPT !.rows = rows, !.loading = loading, !.busy = busy]
    BY <1>7 DEF FetchAnswered
  <2>2. rows \in Rows /\ loading \in BOOLEAN /\ busy \in BOOLEAN
    BY <1>0 DEF Rows, LoadingAfter
  <2> HIDE DEF rows, loading, busy
  <2>3. list' \in Lists /\ list'.kind = list.kind BY <1>0, <2>1, <2>2 DEF Lists
  <2>4. calls' \in [Slots -> Calls] BY <1>0, <1>7, RequestsTyped DEF FetchAnswered
  <2> QED BY <1>0, <1>1, <1>7, <2>3, <2>4 DEF FetchAnswered
<1>8. CASE ChangeAnswered(c)
  <2>1. list' \in Lists /\ list'.kind = list.kind
    BY <1>0, <1>8 DEF ChangeAnswered, Lists
  <2>2. calls' \in [Slots -> Calls] BY <1>0, <1>6, <1>8 DEF ChangeAnswered
  <2> QED BY <1>0, <1>1, <1>8, <2>1, <2>2 DEF ChangeAnswered
<1>9. CASE AddAnswered(c)
  <2> DEFINE loading == list.loading \/ list.kind \in Reloading
  <2>1. \/ list' = [list EXCEPT !.loading = loading]
        \/ list' = [list EXCEPT !.busy = FALSE]
    BY <1>9 DEF AddAnswered
  <2>2. loading \in BOOLEAN OBVIOUS
  <2> HIDE DEF loading
  <2>3. list' \in Lists /\ list'.kind = list.kind BY <1>0, <2>1, <2>2 DEF Lists
  <2>4. calls' \in [Slots -> Calls] BY <1>0, <1>6, <1>9, RequestsTyped DEF AddAnswered
  <2> QED BY <1>0, <1>1, <1>9, <2>3, <2>4 DEF AddAnswered
<1> QED
  BY <1>2, <1>3, <1>4, <1>5, <1>7, <1>8, <1>9 DEF Serve, Arrive

LEMMA ListsTypeStep == ListsTypeOK /\ [ListsNext]_vars => ListsTypeOK'
<1> SUFFICES ASSUME ListsTypeOK, [ListsNext]_vars PROVE ListsTypeOK'
  OBVIOUS
<1>1. CASE UNCHANGED vars BY <1>1 DEF vars, ListsTypeOK, Quiet, Free
<1>2. CASE Leave
  <2>1. calls' = [c \in Slots |-> Idle] /\ list' = NoList BY <1>2 DEF Leave
  <2>2. list' \in Lists /\ calls' \in [Slots -> Calls] /\ \A c \in Slots : calls'[c].op = "none"
    BY <2>1, ListsTyped, RequestsTyped
  <2> QED BY <1>2, <2>1, <2>2 DEF Leave, ListsTypeOK, Lists, Rows, Calls, Quiet, Free
<1> QED BY <1>1, <1>2, UserTyped, AnswersTyped DEF ListsNext

\* Every page keeps its types, and a page that was left has no request under way
\* and no rows.
THEOREM ListsTypeCorrect == ListsSpec => []ListsTypeOK
<1>1. ListsInit => ListsTypeOK
  <2> SUFFICES ASSUME ListsInit PROVE ListsTypeOK
    OBVIOUS
  <2>1. calls = [c \in Slots |-> Idle] /\ list = NoList BY DEF ListsInit
  <2>2. list \in Lists /\ calls \in [Slots -> Calls] /\ \A c \in Slots : calls[c].op = "none"
    BY <2>1, ListsTyped, RequestsTyped
  <2> QED BY <2>1, <2>2, ListsAssumption DEF ListsInit, ListsTypeOK, Lists, Rows, Calls, Quiet, Free
<1> QED BY <1>1, ListsTypeStep, PTL DEF ListsSpec

-----------------------------------------------------------------------------
(* The patient user                                                        *)

\* One request alone is under way: what it carries decides about the rows.
LEMMA OnlyCall ==
  ASSUME NEW c \in Slots,
         \A d \in Slots \ {c} : calls'[d].op = "none" /\ calls'[d].ok,
         CallFits(c)', (~Free(c)' /\ ~LeavesRows(c)') \/ RowsCurrent',
         list'.kind \notin Filtered => list'.filter = 1
  PROVE  CalmInv'
<1>1. \A d \in Slots \ {c} : CallFits(d)' BY DEF CallFits
<1> QED BY <1>1 DEF CalmInv, Free

\* A user who waits starts one request, with the filter then shown.
LEMMA UserCalm ==
  ASSUME ListsInv, world = "calm", NEW c \in Slots, UserStep(c)
  PROVE  CalmInv'
<1>0. /\ list \in Lists /\ calls \in [Slots -> Calls] /\ CalmInv
      /\ list.filter \in Filters /\ 1 \in Filters
  BY ListsTyped DEF ListsInv, ListsTypeOK, Lists, Rows, Calls
<1>1. Quiet /\ RowsCurrent
  <2>1. Quiet
    BY DEF ListsInv, ListsTypeOK, UserStep, Open, ChooseFilter, SearchJobs, SearchUsers,
       ChangeRow, AddRow, Waits
  <2> QED BY <1>0, <2>1 DEF CalmInv, Quiet
<1>02. \A d \in Slots : calls[d].op = "none" /\ calls[d].ok
  BY <1>0, <1>1 DEF Quiet, Free, CalmInv, CallFits
<1>2. ASSUME NEW q, calls' = [calls EXCEPT ![c] = q]
      PROVE  calls'[c] = q /\ \A d \in Slots \ {c} : calls'[d].op = "none" /\ calls'[d].ok
  BY <1>0, <1>02, <1>2
<1>3. ASSUME NEW f \in Filters, calls' = [calls EXCEPT ![c] = Fetch(f)],
             list'.filter = f, list'.kind \notin Filtered => list'.filter = 1
      PROVE  CalmInv'
  <2>1. calls'[c] = Fetch(f) /\ \A d \in Slots \ {c} : calls'[d].op = "none" /\ calls'[d].ok
    BY <1>2, <1>3
  <2>2. CallFits(c)' /\ ~Free(c)' /\ ~LeavesRows(c)'
    BY <1>3, <2>1, RequestsTyped DEF CallFits, Free, LeavesRows
  <2> QED BY <1>3, <2>1, <2>2, OnlyCall
<1>4. ASSUME NEW q, q \in {Change(list.filter), Add(list.filter)},
             calls' = [calls EXCEPT ![c] = q], data' = data,
             list'.filter = list.filter, list'.kind = list.kind, list'.rows = list.rows
      PROVE  CalmInv'
  <2>1. calls'[c] = q /\ \A d \in Slots \ {c} : calls'[d].op = "none" /\ calls'[d].ok
    BY <1>2, <1>4
  <2>2. q.op # "fetch" /\ q.filter = list.filter /\ q.ok BY <1>0, <1>4, RequestsTyped
  <2>3. CallFits(c)' /\ RowsCurrent'
    BY <1>1, <1>4, <2>1, <2>2 DEF CallFits, RowsCurrent
  <2> QED BY <1>0, <1>4, <2>1, <2>3, OnlyCall DEF CalmInv
<1>5. ASSUME NEW kind \in Kinds, Open(kind, c) PROVE CalmInv'
  BY <1>0, <1>3, <1>5, ListsTyped DEF Open
<1>6. ASSUME NEW f \in Filters, ChooseFilter(f, c) PROVE CalmInv'
  <2>1. list'.filter = f /\ list'.kind = list.kind BY <1>0, <1>6 DEF ChooseFilter, Lists
  <2> QED BY <1>3, <1>6, <2>1 DEF ChooseFilter
<1>7. ASSUME NEW d \in Slots, SearchJobs(c, d) PROVE CalmInv'
  <2>1. list'.filter = 1 /\ list'.kind = list.kind BY <1>0, <1>7 DEF SearchJobs, Lists
  <2>2. calls' = [calls EXCEPT ![c] = Fetch(1)] BY <1>7 DEF SearchJobs
  <2> QED BY <1>0, <1>3, <2>1, <2>2
<1>8. CASE SearchUsers(c)
  <2>1. list'.filter = list.filter /\ list'.kind = list.kind BY <1>0, <1>8 DEF SearchUsers, Lists
  <2>2. list.filter = 1 BY <1>0, <1>8 DEF SearchUsers, CalmInv, Filtered
  <2> QED BY <1>0, <1>3, <1>8, <2>1, <2>2 DEF SearchUsers
<1>9. CASE ChangeRow(c)
  BY <1>4, <1>9 DEF ChangeRow
<1>10. CASE AddRow(c)
  <2>1. list'.filter = list.filter /\ list'.kind = list.kind /\ list'.rows = list.rows
    BY <1>0, <1>10 DEF AddRow, Lists
  <2> QED BY <1>4, <1>10, <2>1 DEF AddRow
<1> QED BY <1>5, <1>6, <1>7, <1>8, <1>9, <1>10 DEF UserStep

\* The answer to that request brings the rows, or leads to the fetch that does.
LEMMA AnswersCalm ==
  ASSUME ListsInv, world = "calm", NEW c \in Slots, Serve(c) \/ Arrive(c) \/ Lose(c)
  PROVE  CalmInv'
<1>0. /\ list \in Lists /\ calls \in [Slots -> Calls] /\ calls[c] \in Calls
      /\ calls[c].filter \in Filters /\ CallFits(c) /\ CalmInv
  BY DEF ListsInv, CalmInv, ListsTypeOK, Lists, Rows, Calls
<1>1. ~Free(c) /\ \A d \in Slots \ {c} : calls[d].op = "none" /\ calls[d].ok
  BY <1>0 DEF Serve, Arrive, Lose, ServeFetch, ServeChange, Refuse, FetchAnswered,
     ChangeAnswered, AddAnswered, Answered, Unserved, CalmInv, CallFits, Free
<1>2. LeavesRows(c) => RowsCurrent
  BY <1>0, <1>1 DEF CalmInv, Free
<1>3. ASSUME NEW q, calls' = [calls EXCEPT ![c] = q]
      PROVE  calls'[c] = q /\ \A d \in Slots \ {c} : calls'[d].op = "none" /\ calls'[d].ok
  BY <1>0, <1>1, <1>3
<1>4. CASE ServeFetch(c)
  <2> DEFINE q == [calls[c] EXCEPT !.at = "answered", !.version = data]
  <2>1. calls' = [calls EXCEPT ![c] = q] BY <1>0, <1>4 DEF ServeFetch
  <2>2. /\ q.op = "fetch" /\ q.filter = calls[c].filter /\ q.ok = calls[c].ok
        /\ q.version = data
    BY <1>0, <1>4 DEF ServeFetch, Calls
  <2> HIDE DEF q
  <2>3. calls'[c] = q /\ \A d \in Slots \ {c} : calls'[d].op = "none" /\ calls'[d].ok BY <1>3, <2>1
  <2>4. CallFits(c)' /\ ~Free(c)' /\ ~LeavesRows(c)'
    BY <1>0, <1>4, <2>2, <2>3 DEF ServeFetch, CallFits, Free, LeavesRows
  <2> QED BY <1>0, <1>4, <2>3, <2>4, OnlyCall DEF ServeFetch, CalmInv
<1>5. CASE ServeChange(c)
  <2> DEFINE q == [calls[c] EXCEPT !.at = "answered"]
  <2>1. calls' = [calls EXCEPT ![c] = q] BY <1>0, <1>5 DEF ServeChange
  <2>2. q.op = calls[c].op /\ q.filter = calls[c].filter /\ q.ok = calls[c].ok /\ q.at = "answered"
    BY <1>0 DEF Calls
  <2> HIDE DEF q
  <2>3. calls'[c] = q /\ \A d \in Slots \ {c} : calls'[d].op = "none" /\ calls'[d].ok BY <1>3, <2>1
  <2>4. CallFits(c)'
    BY <1>0, <1>5, <2>2, <2>3 DEF ServeChange, CallFits
  <2>5. ~Free(c)' /\ ~LeavesRows(c)'
    BY <1>0, <1>1, <1>5, <2>2, <2>3
    DEF ServeChange, Unserved, Free, LeavesRows, CallFits
  <2> QED BY <1>0, <1>5, <2>3, <2>4, <2>5, OnlyCall DEF ServeChange, CalmInv
<1>6. CASE Refuse(c)
  <2> DEFINE q == [calls[c] EXCEPT !.at = "answered", !.ok = FALSE]
  <2>1. calls' = [calls EXCEPT ![c] = q] /\ calls[c].op # "fetch" BY <1>0, <1>6 DEF Refuse
  <2>2. q.op = calls[c].op /\ q.filter = calls[c].filter
    BY <1>0 DEF Calls
  <2> HIDE DEF q
  <2>3. calls'[c] = q /\ \A d \in Slots \ {c} : calls'[d].op = "none" /\ calls'[d].ok BY <1>3, <2>1
  <2>4. CallFits(c)' /\ RowsCurrent'
    BY <1>0, <1>1, <1>2, <1>6, <2>1, <2>2, <2>3
    DEF Refuse, Unserved, Free, CallFits, RowsCurrent, LeavesRows
  <2> QED BY <1>0, <1>6, <2>3, <2>4, OnlyCall DEF Refuse, CalmInv
<1>7. Idle.op = "none" /\ Idle.ok BY DEF Idle
<1>8. Refetch(c).op = "fetch" /\ Refetch(c).filter = calls[c].filter
      /\ Refetch(c).ok /\ Refetch(c).at = "sent"
  <2>1. /\ Fetch(calls[c].filter) \in Calls /\ Fetch(calls[c].filter).op = "fetch"
        /\ Fetch(calls[c].filter).filter = calls[c].filter
        /\ Fetch(calls[c].filter).ok /\ Fetch(calls[c].filter).at = "sent"
    BY <1>0, RequestsTyped
  <2> QED BY <2>1 DEF Refetch, Calls
<1>9. ASSUME calls' = [calls EXCEPT ![c] = Refetch(c)],
             list'.filter = list.filter, list'.kind = list.kind
      PROVE  CalmInv'
  <2>1. calls'[c] = Refetch(c) /\ \A d \in Slots \ {c} : calls'[d].op = "none" /\ calls'[d].ok
    BY <1>3, <1>9
  <2>2. CallFits(c)' /\ ~Free(c)' /\ ~LeavesRows(c)'
    BY <1>0, <1>1, <1>8, <1>9, <2>1 DEF CallFits, Free, LeavesRows
  <2> QED BY <1>0, <1>9, <2>1, <2>2, OnlyCall DEF CalmInv
<1>10. ASSUME calls' = [calls EXCEPT ![c] = Idle], RowsCurrent',
              list'.filter = list.filter, list'.kind = list.kind
       PROVE  CalmInv'
  <2>1. calls'[c] = Idle /\ \A d \in Slots \ {c} : calls'[d].op = "none" /\ calls'[d].ok
    BY <1>3, <1>10
  <2>2. CallFits(c)' BY <1>7, <2>1 DEF CallFits
  <2> QED BY <1>0, <1>10, <2>1, <2>2, OnlyCall DEF CalmInv
<1>11. CASE FetchAnswered(c)
  <2> DEFINE rows == [filter |-> calls[c].filter, version |-> calls[c].version]
             loading == LoadingAfter(calls[c].ok)
             busy == list.busy /\ ~calls[c].keeps
  <2>1. calls[c].ok /\ calls[c].version = data /\ calls[c].filter = list.filter
    BY <1>0, <1>11 DEF FetchAnswered, Answered, CallFits
  <2>2. list' = [list EXCEPT !.rows = rows, !.loading = loading, !.busy = busy]
    BY <1>11, <2>1 DEF FetchAnswered
  <2> HIDE DEF rows, loading, busy
  <2>3. list'.rows = rows /\ list'.filter = list.filter /\ list'.kind = list.kind
    BY <1>0, <2>2 DEF Lists
  <2>4. RowsCurrent' BY <1>11, <2>1, <2>3 DEF RowsCurrent, FetchAnswered, rows
  <2> QED BY <1>10, <1>11, <2>3, <2>4 DEF FetchAnswered
<1>12. CASE ChangeAnswered(c)
  <2>1. list'.filter = list.filter /\ list'.kind = list.kind
    BY <1>0, <1>12 DEF ChangeAnswered, Lists
  <2> QED BY <1>9, <1>12, <2>1 DEF ChangeAnswered
<1>13. CASE AddAnswered(c)
  <2> DEFINE loading == list.loading \/ list.kind \in Reloading
  <2>1. CASE calls[c].ok
    <3>1. list' = [list EXCEPT !.loading = loading] /\ calls' = [calls EXCEPT ![c] = Refetch(c)]
      BY <1>13, <2>1 DEF AddAnswered
    <3> HIDE DEF loading
    <3>2. list'.filter = list.filter /\ list'.kind = list.kind BY <1>0, <3>1 DEF Lists
    <3> QED BY <1>9, <3>1, <3>2
  <2>2. CASE ~calls[c].ok
    <3>1. list' = [list EXCEPT !.busy = FALSE] /\ calls' = [calls EXCEPT ![c] = Idle]
      BY <1>13, <2>2 DEF AddAnswered
    <3>2. list'.filter = list.filter /\ list'.kind = list.kind /\ list'.rows = list.rows
      BY <1>0, <3>1 DEF Lists
    <3>3. RowsCurrent
      BY <1>2, <1>13, <2>2 DEF AddAnswered, Answered, LeavesRows
    <3>4. RowsCurrent' BY <1>13, <3>2, <3>3 DEF RowsCurrent, AddAnswered
    <3> QED BY <1>10, <3>1, <3>2, <3>4
  <2> QED BY <2>1, <2>2
<1> QED
  BY <1>4, <1>5, <1>6, <1>11, <1>12, <1>13 DEF Serve, Arrive, Lose

LEMMA ListsInvariant == ListsSpec => []ListsInv
<1>1. ListsInit => (world = "calm" => CalmInv)
  <2> SUFFICES ASSUME ListsInit PROVE CalmInv
    OBVIOUS
  <2>1. list = NoList /\ \A c \in Slots : calls[c].op = "none" /\ calls[c].ok
    BY DEF ListsInit, Idle
  <2> QED
    BY <2>1, ListsTyped DEF CalmInv, Free, CallFits, RowsCurrent
<1>2. ListsTypeOK /\ (world = "calm" => CalmInv) /\ [ListsNext]_vars
        => (world = "calm" => CalmInv)'
  <2> SUFFICES ASSUME ListsInv, [ListsNext]_vars, world' = "calm" PROVE CalmInv'
    BY DEF ListsInv
  <2>0. world = "calm"
    BY DEF vars, ListsNext, Leave, UserStep, Serve, Arrive, Lose, Open, ChooseFilter,
       SearchJobs, SearchUsers, ChangeRow, AddRow, ServeFetch, ServeChange, Refuse,
       FetchAnswered, ChangeAnswered, AddAnswered
  <2>1. CASE UNCHANGED vars
    <3>1. CalmInv BY <2>0 DEF ListsInv
    <3> QED BY <2>1, <3>1 DEF vars, CalmInv, Free, CallFits, LeavesRows, RowsCurrent
  <2>2. CASE Leave
    <3>1. list' = NoList /\ \A c \in Slots : calls'[c].op = "none" /\ calls'[c].ok
      BY <2>2 DEF Leave, Idle
    <3> QED BY <3>1, ListsTyped DEF CalmInv, Free, CallFits, RowsCurrent
  <2> QED BY <2>0, <2>1, <2>2, UserCalm, AnswersCalm DEF ListsNext
<1> QED BY <1>1, <1>2, ListsTypeCorrect, PTL DEF ListsSpec, ListsInv

\* A patient user with a good connection sees, whenever nothing is under way, the
\* stored rows of the filter that is highlighted.
THEOREM ListsCalmRows == ListsSpec => []CalmRowsAreStored
<1>1. ListsInv => CalmRowsAreStored
  <2> SUFFICES ASSUME ListsInv, world = "calm", Quiet PROVE RowsCurrent
    BY DEF CalmRowsAreStored, RowsCurrent
  <2> QED BY DEF ListsInv, CalmInv, Quiet
<1> QED BY <1>1, ListsInvariant, PTL
=============================================================================
