--------------------------- MODULE JobQueriesProofs ---------------------------
(***************************************************************************)
(* For any jobs and tabs: the console's cache keeps its types, the rows    *)
(* under a tab are rows of that tab, and a change that the tab was told of *)
(* is hidden by no fresh data of a patient user.                           *)
(*                                                                         *)
(* The argument: an answer is stored under the key it was asked for, so a  *)
(* key of the list only ever has rows of its tab (RowsInv).  A change      *)
(* invalidates every key, but a fetch without data is not started anew:    *)
(* in the calm world no such fetch is under way when a change ends         *)
(* (CalmInv).                                                              *)
(***************************************************************************)
EXTENDS JobQueries, TLAPS

Marks == {"fresh", "stale", "error"}

Fetches == [at : {"none", "sent", "answered"}, behind : BOOLEAN, data : Snapshots \cup {NoData}]

Entries == [data : Snapshots \cup {NoData}, mark : Marks, behind : BOOLEAN, fetch : Fetches]

\* What may be stored under a key: the list of a tab has rows of that tab.
Fits(k, data) ==
  /\ data \in Snapshots \cup {NoData}
  /\ k[1] = "list" => \A j \in Jobs : data[j] \in {"none", "absent"} \/ k[2] \in {"all", data[j]}

EntryOK(k, entry) ==
  /\ entry \in Entries
  /\ Fits(k, entry.data) /\ Fits(k, entry.fetch.data)
  /\ entry.mark = "fresh" => entry.data # NoData
  /\ entry.fetch.at = "answered" => entry.fetch.data # NoData
  /\ entry.fetch.behind => entry.fetch.at = "answered"
  /\ entry.behind => entry.mark = "fresh"

CacheInv == cache \in [Keys -> Entries] /\ \A k \in Keys : EntryOK(k, cache[k])

\* For a patient user: the shown page alone fetches, what is behind is behind
\* a change that has not come back, and a page with a cancellation under way has data.
CalmInv ==
  /\ \A k \in Keys : Fetching(k) => k \in KeysOf(view)
  /\ change.op = "create" => KeysOf(view) = {}
  /\ change.op = "cancel" => \A k \in KeysOf(view) : HasData(k)
  /\ change.at = "sent" => \A k \in Keys : ~cache[k].behind /\ ~cache[k].fetch.behind

Changes == [op : {"none", "cancel", "create"}, job : Jobs \cup {"none"}, at : {"sent", "answered"}]

RestInv ==
  /\ world \in {"calm", "rough"}
  /\ status \in [Jobs -> Statuses]
  /\ plan \subseteq Views /\ view \in Views
  /\ view.page = "job" => status[view.arg] # "absent"
  /\ change \in Changes
  /\ change.op = "none" => change = NoChange
  /\ change.op = "cancel" => change.job \in Jobs

QueriesInv == RestInv /\ CacheInv /\ (world = "calm" => CalmInv)

-----------------------------------------------------------------------------
(* What happens to one entry                                               *)

LEMMA NoFetchTyped ==
  ASSUME NEW k \in Keys
  PROVE  /\ NoFetch \in Fetches /\ Sent \in Fetches /\ EntryOK(k, NoEntry)
         /\ NoFetch.at = "none" /\ Sent.at = "sent" /\ ~NoFetch.behind /\ ~Sent.behind
         /\ NoFetch.data = NoData /\ Sent.data = NoData
<1>1. NoData \in [Jobs -> {"none"}]
  BY DEF NoData
<1>2. Fits(k, NoData)
  BY DEF Fits, NoData
<1>3. NoFetch \in Fetches /\ Sent \in Fetches
  BY DEF NoFetch, Sent, Fetches
<1>4. NoEntry \in Entries
  BY <1>3 DEF NoEntry, Entries, Marks
<1> HIDE DEF Keys
<1> QED
  BY <1>2, <1>3, <1>4 DEF EntryOK, NoEntry, NoFetch, Sent

LEMMA NewFetchOK ==
  ASSUME NEW k \in Keys, NEW entry, EntryOK(k, entry)
  PROVE  /\ EntryOK(k, [entry EXCEPT !.fetch = Sent])
         /\ EntryOK(k, Fetched(entry))
         /\ Fetched(entry).behind = entry.behind /\ Fetched(entry).data = entry.data
         /\ Fetched(entry).fetch.behind = entry.fetch.behind
         /\ Fetched(entry).fetch.at # "none"
<1> HIDE DEF Keys
<1>1. Fits(k, NoData) /\ Sent \in Fetches /\ Sent.at = "sent" /\ ~Sent.behind /\ Sent.data = NoData
  BY NoFetchTyped DEF EntryOK, NoEntry
<1>2. entry.fetch \in Fetches /\ entry \in Entries /\ (entry.fetch.at = "none" => entry.fetch.behind = FALSE)
  BY DEF EntryOK, Entries, Fetches
<1>3. Sent.behind = FALSE
  BY DEF Sent, NoFetch
<1> QED
  BY <1>1, <1>2, <1>3 DEF EntryOK, Entries, Fetched

LEMMA MarkedOK ==
  ASSUME NEW k \in Keys, NEW entry, EntryOK(k, entry), NEW mark \in {"stale", "error"}
  PROVE  /\ EntryOK(k, [entry EXCEPT !.mark = mark, !.behind = FALSE])
         /\ [entry EXCEPT !.mark = mark, !.behind = FALSE].behind = FALSE
  BY DEF EntryOK, Entries, Marks

LEMMA OvertakenOK ==
  ASSUME NEW k \in Keys, NEW entry, EntryOK(k, entry)
  PROVE  /\ EntryOK(k, Overtaken(entry))
         /\ Overtaken(entry).data = entry.data /\ Overtaken(entry).fetch.at = entry.fetch.at
<1> DEFINE f == [entry.fetch EXCEPT !.behind = @ \/ entry.fetch.at = "answered"]
<1>1. f \in Fetches /\ f.at = entry.fetch.at /\ f.data = entry.fetch.data
      /\ (f.behind => f.at = "answered")
  BY DEF EntryOK, Entries, Fetches
<1>2. Overtaken(entry) = [entry EXCEPT !.behind = @ \/ entry.mark = "fresh", !.fetch = f]
  BY DEF Overtaken, EntryOK, Entries, Fetches
<1> HIDE DEF f
<1> QED
  BY <1>1, <1>2 DEF EntryOK, Entries

LEMMA AnswerFits ==
  ASSUME NEW k \in Keys, status \in [Jobs -> Statuses]
  PROVE  Fits(k, Answer(k)) /\ Answer(k) # NoData
<1>1. Answer(k) \in Snapshots
  BY DEF Answer, Snapshots, Statuses
<1>2. Answer(k) # NoData
  BY <1>1, QueriesAssumption DEF Snapshots, Statuses, NoData
<1>3. k[1] = "list" => \A j \in Jobs : Answer(k)[j] = "absent" \/ k[2] \in {"all", Answer(k)[j]}
  BY DEF Answer
<1> QED
  BY <1>1, <1>2, <1>3 DEF Fits

LEMMA ServedOK ==
  ASSUME NEW k \in Keys, NEW entry, EntryOK(k, entry), NEW data, Fits(k, data), data # NoData,
         entry.fetch.at = "sent"
  PROVE  /\ EntryOK(k, [entry EXCEPT !.fetch.at = "answered", !.fetch.data = data])
         /\ [entry EXCEPT !.fetch.at = "answered", !.fetch.data = data].fetch.behind = entry.fetch.behind
<1> DEFINE f == [entry.fetch EXCEPT !.at = "answered", !.data = data]
<1>1. f \in Fetches /\ f.at = "answered" /\ f.data = data /\ f.behind = entry.fetch.behind
  BY DEF EntryOK, Entries, Fetches, Fits
<1>2. [entry EXCEPT !.fetch.at = "answered", !.fetch.data = data] = [entry EXCEPT !.fetch = f]
  BY DEF EntryOK, Entries, Fetches
<1> HIDE DEF f
<1> QED
  BY <1>1, <1>2 DEF EntryOK, Entries

LEMMA StoredOK ==
  ASSUME NEW k \in Keys, NEW entry, EntryOK(k, entry), entry.fetch.at = "answered"
  PROVE  /\ EntryOK(k, Stored(entry.fetch)) /\ Stored(entry.fetch).behind = entry.fetch.behind
         /\ Stored(entry.fetch).data # NoData /\ Stored(entry.fetch).fetch = NoFetch
<1> HIDE DEF Keys
<1>1. Fits(k, NoData) /\ NoFetch \in Fetches /\ NoFetch.at = "none" /\ ~NoFetch.behind
      /\ NoFetch.data = NoData
  BY NoFetchTyped DEF EntryOK, NoEntry
<1> QED
  BY <1>1 DEF EntryOK, Entries, Fetches, Stored, Marks

LEMMA FailedOK ==
  ASSUME NEW k \in Keys, NEW entry, EntryOK(k, entry)
  PROVE  EntryOK(k, [entry EXCEPT !.fetch = NoFetch, !.mark = Failed, !.behind = FALSE])
<1> HIDE DEF Keys
<1>1. Fits(k, NoData) /\ NoFetch \in Fetches /\ NoFetch.at = "none" /\ ~NoFetch.behind
      /\ NoFetch.data = NoData
  BY NoFetchTyped DEF EntryOK, NoEntry
<1> QED
  BY <1>1 DEF EntryOK, Entries, Failed, Marks

LEMMA CacheMade ==
  ASSUME cache' = [k \in Keys |-> cache'[k]], \A k \in Keys : EntryOK(k, cache'[k])
  PROVE  CacheInv'
  BY DEF CacheInv, EntryOK

LEMMA OneEntry ==
  ASSUME CacheInv, NEW k \in Keys, NEW e, EntryOK(k, e), cache' = [cache EXCEPT ![k] = e]
  PROVE  CacheInv' /\ cache'[k] = e /\ \A l \in Keys : l # k => cache'[l] = cache[l]
  BY DEF CacheInv, EntryOK

\* What the calm world asks of the other keys when one entry changes.
LEMMA OneCalmEntry ==
  ASSUME CacheInv, CalmInv, NEW k \in Keys, NEW e, EntryOK(k, e), cache' = [cache EXCEPT ![k] = e],
         UNCHANGED <<view, change>>, e.fetch.at # "none" => k \in KeysOf(view),
         cache[k].data # NoData => e.data # NoData,
         e.behind => cache[k].behind \/ cache[k].fetch.behind, e.fetch.behind => cache[k].fetch.behind
  PROVE  CalmInv'
<1>1. cache'[k] = e /\ \A l \in Keys : l # k => cache'[l] = cache[l]
  BY OneEntry
<1>2. KeysOf(view)' = KeysOf(view)
  BY DEF KeysOf, DetailKey, RecentKey, ListKey
<1> QED
  BY <1>1, <1>2 DEF CalmInv, Fetching, HasData

-----------------------------------------------------------------------------
(* The steps                                                               *)

LEMMA QueriesInvInit == QueriesInit => QueriesInv
<1> SUFFICES ASSUME QueriesInit  PROVE QueriesInv
  OBVIOUS
<1>1. RestInv
  BY DEF QueriesInit, RestInv, Views, Changes, NoChange, Statuses
<1>2. CacheInv
  BY NoFetchTyped DEF QueriesInit, CacheInv, EntryOK
<1>3. \A k \in Keys : cache[k] = NoEntry
  BY DEF QueriesInit
<1>4. CalmInv
  BY <1>3 DEF QueriesInit, CalmInv, NoEntry, NoFetch, Fetching, NoChange
<1> QED
  BY <1>1, <1>2, <1>4 DEF QueriesInv

\* Steps that change no entry.
LEMMA CacheKept ==
  ASSUME QueriesInv, UNCHANGED <<world, plan, view, cache>>, RestInv',
         \/ change' = change
         \/ change' = NoChange /\ (change.at = "sent" \/ world = "rough")
         \/ /\ change = NoChange /\ change'.at = "sent"
            /\ change'.op = "create" => KeysOf(view) = {}
            /\ change'.op = "cancel" => \A k \in KeysOf(view) : HasData(k)
  PROVE  QueriesInv'
<1>1. KeysOf(view)' = KeysOf(view)
  BY DEF KeysOf, DetailKey, RecentKey, ListKey
<1>2. CacheInv'
  BY DEF QueriesInv, CacheInv
<1>3. world = "calm" => CalmInv'
  BY <1>1 DEF QueriesInv, RestInv, CalmInv, Fetching, HasData, NoChange
<1> QED
  BY <1>2, <1>3 DEF QueriesInv

LEMMA UserStepInv == ASSUME QueriesInv, UserStep  PROVE QueriesInv'
<1>0. RestInv /\ CacheInv /\ \A k \in Keys : EntryOK(k, cache[k])
  BY DEF QueriesInv, CacheInv
<1>1. ASSUME NEW v \in Views, Visit(v)  PROVE QueriesInv'
  <2>1. UNCHANGED <<world, plan, status, change>> /\ view' = v
        /\ (v.page = "job" => status[v.arg] # "absent") /\ (world = "calm" => Quiet)
        /\ cache' = [k \in Keys |-> IF k \in KeysOf(v) \ KeysOf(view) THEN Shown(k) ELSE cache[k]]
    BY <1>1 DEF Visit, Waits
  <2>2. RestInv'
    BY <1>0, <2>1 DEF RestInv
  <2>3. ASSUME NEW k \in Keys
        PROVE  EntryOK(k, Shown(k)) /\ Shown(k).behind = cache[k].behind
               /\ Shown(k).fetch.behind = cache[k].fetch.behind
    BY <1>0, NewFetchOK DEF Shown
  <2>4. CacheInv'
    BY <1>0, <2>1, <2>3, CacheMade
  <2>5. ASSUME world = "calm"  PROVE CalmInv'
    <3>1. change = NoChange /\ \A k \in Keys : ~Fetching(k) /\ ~cache[k].behind /\ ~cache[k].fetch.behind
      BY <2>1, <2>5 DEF Quiet, QueriesInv, CalmInv, NoChange
    <3>2. KeysOf(view)' = KeysOf(v)
      BY <2>1 DEF KeysOf, DetailKey, RecentKey, ListKey
    <3>3. \A k \in Keys : Fetching(k)' => k \in KeysOf(v)
      BY <2>1, <3>1 DEF Fetching
    <3>4. \A k \in Keys : ~cache'[k].behind /\ ~cache'[k].fetch.behind
      BY <2>1, <2>3, <3>1
    <3> QED
      BY <2>1, <3>1, <3>2, <3>3, <3>4 DEF CalmInv, NoChange
  <2> QED
    BY <2>1, <2>2, <2>4, <2>5 DEF QueriesInv
<1>2. ASSUME NEW j \in Jobs, ClickCancel(j)  PROVE QueriesInv'
  <2>1. change = NoChange /\ change' = [NoChange EXCEPT !.op = "cancel", !.job = j]
        /\ UNCHANGED <<world, plan, status, view, cache>>
    BY <1>2 DEF ClickCancel
  <2>2. change' = [op |-> "cancel", job |-> j, at |-> "sent"]
    BY <2>1 DEF NoChange
  <2>3. \A k \in KeysOf(view) : HasData(k)
    BY <1>2 DEF ClickCancel, Shows, RowsShown, KeysOf
  <2>4. RestInv'
    BY <1>0, <2>1, <2>2 DEF RestInv, Changes
  <2>5. change'.at = "sent" /\ change'.op = "cancel"
    BY <2>2
  <2> QED
    BY <2>1, <2>3, <2>4, <2>5, CacheKept
<1>3. CASE Create
  <2>1. change' = [op |-> "create", job |-> "none", at |-> "sent"]
    BY <1>3 DEF Create, NoChange
  <2>2. RestInv'
    BY <1>0, <1>3, <2>1 DEF RestInv, Changes, Create
  <2>3. KeysOf(view) = {}
    BY <1>3 DEF Create, KeysOf
  <2> QED
    BY <1>3, <2>1, <2>2, <2>3, CacheKept DEF Create
<1> QED
  BY <1>1, <1>2, <1>3 DEF UserStep

LEMMA ServeChangeInv == ASSUME QueriesInv, ServeChange  PROVE QueriesInv'
<1>1. RestInv /\ CacheInv /\ \A k \in Keys : EntryOK(k, cache[k])
  BY DEF QueriesInv, CacheInv
<1>2. change.at = "sent" /\ change.op \in {"cancel", "create"} /\ UNCHANGED <<world, plan, view>>
  BY DEF ServeChange, ServeCancel, ServeCreate
<1>3. CASE change' = NoChange /\ UNCHANGED <<status, cache>>
  <2>1. RestInv'
    BY <1>1, <1>2, <1>3 DEF RestInv, NoChange, Changes
  <2> QED
    BY <1>2, <1>3, <2>1, CacheKept
<1>4. ASSUME NEW j \in Jobs, NEW s \in Statuses \ {"absent"}, status' = [status EXCEPT ![j] = s],
             change' = [change EXCEPT !.at = "answered"], cache' = [k \in Keys |-> Overtaken(cache[k])]
      PROVE  QueriesInv'
  <2>1. change' \in Changes /\ change'.op = change.op /\ change'.job = change.job
        /\ change'.at = "answered"
    BY <1>1, <1>4 DEF RestInv, Changes
  <2>2. RestInv'
    BY <1>1, <1>2, <1>4, <2>1 DEF RestInv
  <2>3. \A k \in Keys : EntryOK(k, cache'[k]) /\ cache'[k].data = cache[k].data
                       /\ cache'[k].fetch.at = cache[k].fetch.at
    BY <1>1, <1>4, OvertakenOK
  <2>4. CacheInv'
    BY <1>4, <2>3, CacheMade
  <2>5. KeysOf(view)' = KeysOf(view) /\ KeysOf(view) \subseteq Keys
    BY <1>1, <1>2 DEF KeysOf, DetailKey, RecentKey, ListKey, Keys, RestInv, Views
  <2>6. world = "calm" => CalmInv'
    BY <1>2, <2>1, <2>3, <2>5 DEF QueriesInv, CalmInv, Fetching, HasData
  <2> QED
    BY <1>2, <2>2, <2>4, <2>6 DEF QueriesInv
<1>5. CASE ServeCancel
  <2>1. change.job \in Jobs
    BY <1>1, <1>5 DEF RestInv, ServeCancel
  <2>2. "ended" \in Statuses \ {"absent"}
    BY DEF Statuses
  <2> QED
    BY <1>3, <1>4, <1>5, <2>1, <2>2 DEF ServeCancel
<1>6. CASE ServeCreate
  <2>1. "queued" \in Statuses \ {"absent"}
    BY DEF Statuses
  <2> QED
    BY <1>3, <1>4, <1>6, <2>1 DEF ServeCreate
<1> QED
  BY <1>5, <1>6 DEF ServeChange

LEMMA WorldStepInv == ASSUME QueriesInv, WorldStep  PROVE QueriesInv'
<1>1. PICK j \in Jobs, s \in Statuses \ {"absent"} : status' = [status EXCEPT ![j] = s]
  BY DEF WorldStep
<1>2. RestInv'
  BY <1>1 DEF WorldStep, QueriesInv, RestInv
<1> QED
  BY <1>2, CacheKept DEF WorldStep

\* The cancelled job's or the new job's answer: every key is invalidated.
LEMMA ChangeAnsweredInv == ASSUME QueriesInv, ChangeAnswered  PROVE QueriesInv'
<1>1. RestInv /\ CacheInv /\ \A k \in Keys : EntryOK(k, cache[k])
  BY DEF QueriesInv, CacheInv
<1>2. change.op \in {"cancel", "create"} /\ change' = NoChange /\ UNCHANGED <<world, plan, status, view>>
      /\ cache' = [k \in Keys |-> Invalidated(k)]
  BY DEF ChangeAnswered, CancelAnswered, CreateAnswered, Invalidate, CancelInvalidates
<1>3. RestInv'
  BY <1>1, <1>2 DEF RestInv, NoChange, Changes
<1>4. ASSUME NEW k \in Keys
      PROVE  /\ EntryOK(k, Invalidated(k)) /\ ~Invalidated(k).behind
             /\ k \notin KeysOf(view) => Invalidated(k).fetch = cache[k].fetch
             /\ k \in KeysOf(view) /\ HasData(k) => Invalidated(k).fetch = Sent
  <2> DEFINE old == [cache[k] EXCEPT !.mark = IF @ = "fresh" THEN "stale" ELSE @, !.behind = FALSE]
  <2>1. EntryOK(k, old) /\ ~old.behind /\ old.fetch = cache[k].fetch
    <3>1. EntryOK(k, cache[k])
      BY <1>1
    <3> HIDE DEF Keys
    <3> QED
      BY <3>1 DEF EntryOK, Entries, Marks
  <2>2. EntryOK(k, Fetched(old)) /\ ~Fetched(old).behind
    BY <2>1, NewFetchOK
  <2>3. EntryOK(k, [old EXCEPT !.fetch = Sent]) /\ ~[old EXCEPT !.fetch = Sent].behind
        /\ [old EXCEPT !.fetch = Sent].fetch = Sent
    BY <2>1, NewFetchOK DEF EntryOK, Entries
  <2>4. Invalidated(k) = IF k \notin KeysOf(view) THEN old
                         ELSE IF HasData(k) THEN [old EXCEPT !.fetch = Sent] ELSE Fetched(old)
    BY DEF Invalidated
  <2> HIDE DEF old
  <2> QED
    BY <2>1, <2>2, <2>3, <2>4
<1>5. CacheInv'
  BY <1>2, <1>4, CacheMade
<1>6. ASSUME world = "calm"  PROVE CalmInv'
  <2>1. CalmInv
    BY <1>6 DEF QueriesInv
  <2>2. KeysOf(view)' = KeysOf(view)
    BY <1>2 DEF KeysOf, DetailKey, RecentKey, ListKey
  <2>3. ASSUME NEW k \in Keys
        PROVE  (Fetching(k)' => k \in KeysOf(view)) /\ ~cache'[k].behind /\ ~cache'[k].fetch.behind
    <3>1. cache'[k] = Invalidated(k) /\ ~cache'[k].behind
      BY <1>2, <1>4
    <3>2. CASE k \notin KeysOf(view)
      <4>1. cache[k].fetch.at = "none" /\ cache'[k].fetch = cache[k].fetch
        BY <1>4, <2>1, <3>1, <3>2 DEF CalmInv, Fetching
      <4> QED
        BY <1>1, <3>1, <4>1 DEF EntryOK, Fetching
    <3>3. CASE k \in KeysOf(view)
      <4>1. HasData(k)
        BY <1>2, <2>1, <3>3 DEF CalmInv
      <4>2. cache'[k].fetch = Sent
        BY <1>4, <3>1, <3>3, <4>1
      <4> QED
        BY <3>1, <3>3, <4>2 DEF Sent, NoFetch
    <3> QED
      BY <3>2, <3>3
  <2> QED
    BY <1>2, <2>2, <2>3 DEF CalmInv, NoChange
<1> QED
  BY <1>2, <1>3, <1>5, <1>6 DEF QueriesInv

LEMMA EntryStepInv ==
  ASSUME QueriesInv, NEW k \in Keys,
         ServeFetch(k) \/ FetchAnswered(k) \/ FetchFailed(k) \/ Poll(k) \/ Age(k)
  PROVE  QueriesInv'
<1>1. RestInv /\ CacheInv /\ EntryOK(k, cache[k]) /\ cache[k].fetch \in Fetches
  BY DEF QueriesInv, CacheInv, EntryOK, Entries
<1>2. UNCHANGED <<world, plan, status, view, change>>
  BY DEF ServeFetch, FetchAnswered, FetchFailed, Poll, Age
<1>3. RestInv'
  BY <1>1, <1>2 DEF RestInv
<1>4. ASSUME NEW e, EntryOK(k, e), cache' = [cache EXCEPT ![k] = e],
             e.fetch.at # "none" => Fetching(k) \/ k \in KeysOf(view),
             cache[k].data # NoData => e.data # NoData,
             e.behind => cache[k].behind \/ cache[k].fetch.behind, e.fetch.behind => cache[k].fetch.behind
      PROVE  QueriesInv'
  <2>1. CacheInv'
    BY <1>1, <1>4, OneEntry
  <2>2. ASSUME world = "calm"  PROVE CalmInv'
    <3>1. CalmInv /\ (Fetching(k) => k \in KeysOf(view))
      BY <2>2 DEF QueriesInv, CalmInv
    <3> HIDE DEF Keys
    <3> QED
      BY <1>1, <1>2, <1>4, <3>1, OneCalmEntry
  <2> QED
    BY <1>2, <1>3, <2>1, <2>2 DEF QueriesInv
<1> DEFINE E == cache[k]
<1>5. CASE ServeFetch(k)
  <2> DEFINE e == [E EXCEPT !.fetch.at = "answered", !.fetch.data = Answer(k)]
  <2>1. Fits(k, Answer(k)) /\ Answer(k) # NoData
    BY <1>1, AnswerFits DEF RestInv
  <2>2. EntryOK(k, e) /\ e.fetch.behind = E.fetch.behind
    BY <1>1, <1>5, <2>1, ServedOK DEF ServeFetch
  <2>3. e.data = E.data /\ e.behind = E.behind /\ Fetching(k)
    BY <1>1, <1>5 DEF ServeFetch, Fetching, EntryOK, Entries
  <2>4. cache' = [cache EXCEPT ![k] = e]
    BY <1>5 DEF ServeFetch
  <2> HIDE DEF e
  <2> QED
    BY <1>4, <2>2, <2>3, <2>4
<1>6. CASE FetchAnswered(k)
  <2> DEFINE e == Stored(E.fetch)
  <2>1. EntryOK(k, e) /\ e.behind = E.fetch.behind /\ e.data # NoData /\ e.fetch = NoFetch
    BY <1>1, <1>6, StoredOK DEF FetchAnswered
  <2>3. NoFetch.at = "none" /\ NoFetch.behind = FALSE
    BY DEF NoFetch
  <2>2. cache' = [cache EXCEPT ![k] = e]
    BY <1>6 DEF FetchAnswered
  <2> HIDE DEF e
  <2> QED
    BY <1>4, <2>1, <2>2, <2>3
<1>7. CASE FetchFailed(k)
  <2> DEFINE e == [E EXCEPT !.fetch = NoFetch, !.mark = Failed, !.behind = FALSE]
  <2>1. EntryOK(k, e)
    BY <1>1, FailedOK
  <2>2. e.data = E.data /\ e.behind = FALSE /\ e.fetch = NoFetch
    BY <1>1 DEF EntryOK, Entries
  <2>4. NoFetch.at = "none" /\ NoFetch.behind = FALSE
    BY DEF NoFetch
  <2>3. cache' = [cache EXCEPT ![k] = e]
    BY <1>7 DEF FetchFailed
  <2> HIDE DEF e
  <2> QED
    BY <1>4, <2>1, <2>2, <2>3, <2>4
<1>8. CASE Poll(k)
  <2> DEFINE e == Fetched(E)
  <2>1. EntryOK(k, e) /\ e.behind = E.behind /\ e.data = E.data /\ e.fetch.behind = E.fetch.behind
    BY <1>1, NewFetchOK
  <2>2. cache' = [cache EXCEPT ![k] = e] /\ k \in KeysOf(view)
    BY <1>8 DEF Poll
  <2> HIDE DEF e
  <2> QED
    BY <1>4, <2>1, <2>2
<1>9. CASE Age(k)
  <2> DEFINE e == [E EXCEPT !.mark = "stale", !.behind = FALSE]
  <2>1. EntryOK(k, e) /\ e.behind = FALSE
    BY <1>1, MarkedOK
  <2>2. e.data = E.data /\ e.fetch = E.fetch
    BY <1>1 DEF EntryOK, Entries
  <2>3. cache' = [cache EXCEPT ![k] = e]
    BY <1>9 DEF Age
  <2> HIDE DEF e
  <2> QED
    BY <1>4, <2>1, <2>2, <2>3 DEF Fetching
<1> QED
  BY <1>5, <1>6, <1>7, <1>8, <1>9

LEMMA QueriesInvStep == QueriesInv /\ [QueriesNext]_vars => QueriesInv'
<1> SUFFICES ASSUME QueriesInv, [QueriesNext]_vars  PROVE QueriesInv'
  OBVIOUS
<1>1. CASE ChangeLost
  <2>1. RestInv'
    BY <1>1 DEF ChangeLost, QueriesInv, RestInv, NoChange, Changes
  <2> QED
    BY <1>1, <2>1, CacheKept DEF ChangeLost
<1>2. CASE UNCHANGED vars
  <2>1. RestInv'
    BY <1>2 DEF vars, QueriesInv, RestInv
  <2> QED
    BY <1>2, <2>1, CacheKept DEF vars
<1> QED
  BY <1>1, <1>2, UserStepInv, ServeChangeInv, ChangeAnsweredInv, WorldStepInv, EntryStepInv
     DEF QueriesNext

LEMMA QueriesInvariant == QueriesSpec => []QueriesInv
  BY QueriesInvInit, QueriesInvStep, PTL DEF QueriesSpec

-----------------------------------------------------------------------------
(* Theorems                                                                *)

\* Fresh data is data, and the page of a job is about a job that exists, whatever
\* fetches fail and whatever is invalidated.
THEOREM QueriesTyped == QueriesSpec => []QueriesTypeOK
<1>1. QueriesInv => QueriesTypeOK
  <2> SUFFICES ASSUME QueriesInv  PROVE QueriesTypeOK
    OBVIOUS
  <2>1. \A k \in Keys : cache[k].mark = "fresh" => HasData(k)
    BY DEF QueriesInv, CacheInv, EntryOK, HasData
  <2> QED
    BY <2>1 DEF QueriesInv, RestInv, CacheInv, Entries, Fetches, Marks, Changes, QueriesTypeOK
<1> QED
  BY <1>1, QueriesInvariant, PTL

\* The rows under a tab are rows of the tab: late answers are stored elsewhere.
THEOREM QueriesRowsMatch == QueriesSpec => []RowsMatchTab
<1>1. ASSUME QueriesInv  PROVE RowsMatchTab
  <2> SUFFICES ASSUME view.page = "jobs", NEW j \in Jobs, NEW s \in Statuses \ {"absent"}, Shows(j, s)
               PROVE  view.arg \in {"all", s}
    BY DEF RowsMatchTab
  <2>1. view.arg \in Tabs /\ KeysOf(view) = {<<"list", view.arg>>}
    BY <1>1 DEF QueriesInv, RestInv, Views, KeysOf, ListKey
  <2> DEFINE k == <<"list", view.arg>>
  <2>2. k \in Keys /\ cache[k].data[j] = s
    BY <2>1 DEF Keys, Shows, RowsShown
  <2>3. Fits(k, cache[k].data)
    BY <1>1, <2>2 DEF QueriesInv, CacheInv, EntryOK
  <2> QED
    BY <2>2, <2>3 DEF Fits, Statuses
<1> QED
  BY <1>1, QueriesInvariant, PTL

\* For a user who waits, no page takes data for fresh that was read before a
\* cancellation or creation of this tab.
THEOREM QueriesOwnChanges == QueriesSpec => []OwnChangesShow
<1>1. QueriesInv => OwnChangesShow
  BY DEF QueriesInv, CalmInv, OwnChangesShow, NoChange
<1> QED
  BY <1>1, QueriesInvariant, PTL

=============================================================================
