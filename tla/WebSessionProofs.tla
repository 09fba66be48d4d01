--------------------------- MODULE WebSessionProofs ---------------------------
(***************************************************************************)
(* For any tabs, accounts, requests under way and logins: the session      *)
(* keeps its types, localStorage is one session, in the calm world one     *)
(* that the API knows, and a sign-out ends in one way.                     *)
(*                                                                         *)
(* The argument: whatever is stored is stored whole (StoreIsOneSession is  *)
(* inductive by itself).  In the calm world requests come one at a time,   *)
(* so what a request was sent with is still stored when it is answered     *)
(* (CallTrue), and only the request under way can separate the store from  *)
(* the API (StoreTrue).                                                    *)
(***************************************************************************)
EXTENDS WebSession, TLAPS

TabsTyped ==
  /\ tabs \in [Tabs -> TabRecords(Len(logins))]
  /\ \A t \in Tabs : tabs[t].busy \subseteq Forms[tabs[t].place]

CallsTyped == calls \in [Calls -> CallRecords(Len(logins))]

WorldTyped ==
  /\ world \in {"calm", "rough"}
  /\ logins \in Seq(Accounts) /\ Len(logins) <= MaxLogins
  /\ live \subseteq 1 .. Len(logins)
  /\ names \in [Accounts -> StrippedNames]

StoreTyped == store \in Stores(Len(logins))

LEMMA TypesByPart == SessionTypeOK <=> WorldTyped /\ StoreTyped /\ TabsTyped /\ CallsTyped
  BY DEF SessionTypeOK, WorldTyped, StoreTyped, TabsTyped, CallsTyped

-----------------------------------------------------------------------------
(* Types                                                                   *)

LEMMA Values ==
  ASSUME NEW n \in Nat
  PROVE  /\ NoUser \in Users(n) /\ Nobody \in Stores(n) /\ Idle \in CallRecords(n)
         /\ \A place \in Public \cup Protected : Loaded(place) \in TabRecords(n)
         /\ \A m \in 0 .. n, name \in Names : Stored(m, name) \in Stores(n)
<1>1. Plain \in Names /\ 0 \in 0 .. n
  BY SessionAssumption DEF Names, Plain
<1> QED
  BY <1>1 DEF Users, Stores, CallRecords, TabRecords, NoUser, Nobody, Idle, Loaded, Stored, Public

LEMMA Stripped ==
  /\ \A name \in Names : Strip(name) \in StrippedNames
  /\ \A name \in StrippedNames : name \in Names /\ Strip(name) = name
  BY DEF Names, StrippedNames, Strip

LEMMA Lengths == WorldTyped => Len(logins) \in Nat
  BY DEF WorldTyped

IsSent(r, t, op, m) == r.op = op /\ r.tab = t /\ r.login = m /\ r.at = "sent" /\ r.ok = TRUE

LEMMA RequestTyped ==
  ASSUME NEW n \in Nat, NEW t \in Tabs, NEW m \in 0 .. n,
         NEW op \in Public \cup {"logout", "save", "password"}
  PROVE  Request(t, op, m) \in CallRecords(n) /\ IsSent(Request(t, op, m), t, op, m)
<1>1. Idle \in CallRecords(n)
  BY Values
<1>2. (op # "logout") \in BOOLEAN
  OBVIOUS
<1> QED
  BY <1>1, <1>2 DEF Request, CallRecords, Idle, IsSent

LEMMA OneTab ==
  ASSUME TabsTyped, NEW t \in Tabs, NEW r \in TabRecords(Len(logins)),
         r.busy \subseteq Forms[r.place], tabs' = [tabs EXCEPT ![t] = r], UNCHANGED logins
  PROVE  TabsTyped'
  BY DEF TabsTyped

LEMMA OneCall ==
  ASSUME CallsTyped, NEW c \in Calls, NEW r \in CallRecords(Len(logins)),
         calls' = [calls EXCEPT ![c] = r], UNCHANGED logins
  PROVE  CallsTyped'
  BY DEF CallsTyped

LEMMA ShownTyped ==
  ASSUME TabsTyped, NEW t \in Tabs, NEW place \in Public \cup Protected
  PROVE  /\ Shown(t, place) \in TabRecords(Len(logins))
         /\ Shown(t, place).busy = {} /\ Shown(t, place).place = place
         /\ Shown(t, place).user = tabs[t].user
  BY DEF TabsTyped, TabRecords, Shown

\* The requests of a tab that shows another page are the same but for here.
Same(a, b) ==
  a.op = b.op /\ a.tab = b.tab /\ a.at = b.at /\ a.ok = b.ok /\ a.login = b.login /\ a.name = b.name

LEMMA LeftTyped ==
  ASSUME CallsTyped, NEW t
  PROVE  /\ Left(t) \in [Calls -> CallRecords(Len(logins))]
         /\ \A c \in Calls : Same(Left(t)[c], calls[c])
  BY DEF CallsTyped, CallRecords, Left, Same

LEMMA UnloadedTyped ==
  ASSUME CallsTyped, WorldTyped, NEW t
  PROVE  Unloaded(t) \in [Calls -> CallRecords(Len(logins))]
<1>1. \A c \in Calls : [calls[c] EXCEPT !.tab = "none"] \in CallRecords(Len(logins))
  BY DEF CallsTyped, CallRecords
<1> QED
  BY <1>1, Values, Lengths DEF CallsTyped, Unloaded

\* What the user and the pages do.
LEMMA TabStepTyped ==
  ASSUME SessionTypeOK, NEW t \in Tabs, UserStep(t) \/ PageStep(t)
  PROVE  SessionTypeOK'
<1>1. WorldTyped /\ StoreTyped /\ TabsTyped /\ CallsTyped
  BY TypesByPart
<1> DEFINE n == Len(logins)
<1>2. n \in Nat
  BY <1>1, Lengths
<1> SUFFICES WorldTyped' /\ StoreTyped' /\ TabsTyped' /\ CallsTyped'
  BY DEF SessionTypeOK, WorldTyped, StoreTyped, TabsTyped, CallsTyped
<1>3. SUFFICES UNCHANGED <<world, logins, live, names>> /\ StoreTyped' /\ TabsTyped' /\ CallsTyped'
  BY <1>1 DEF WorldTyped
<1>4. /\ UNCHANGED <<logins, store>> => StoreTyped'
      /\ UNCHANGED <<logins, tabs>> => TabsTyped'
      /\ UNCHANGED <<logins, calls>> => CallsTyped'
  BY <1>1 DEF StoreTyped, TabsTyped, CallsTyped
<1>5. calls' = Left(t) /\ UNCHANGED logins => CallsTyped'
  BY <1>1, LeftTyped DEF CallsTyped
<1>6. Nobody \in Stores(n)
  BY <1>2, Values
<1>7. ASSUME SignedOut(t), UNCHANGED logins  PROVE StoreTyped' /\ TabsTyped'
  <2>1. StoreTyped'
    BY <1>6, <1>7 DEF SignedOut, ClearAuth, StoreTyped
  <2>2. [Shown(t, "login") EXCEPT !.user = NoUser] \in TabRecords(n)
        /\ [Shown(t, "login") EXCEPT !.user = NoUser].busy = {}
    BY <1>1, <1>2, ShownTyped, Values DEF TabRecords, Public
  <2> HIDE DEF n
  <2> DEFINE r == [Shown(t, "login") EXCEPT !.user = NoUser]
  <2>3. tabs' = [tabs EXCEPT ![t] = r]
    BY <1>7 DEF SignedOut
  <2> HIDE DEF r
  <2> QED
    BY <1>1, <1>7, <2>1, <2>2, <2>3, OneTab DEF n, r
<1>8. ASSUME NEW place, Load(t, place)  PROVE TabsTyped' /\ CallsTyped'
  <2>1. tabs[t].place \in Public \cup Protected
    BY <1>1 DEF TabsTyped, TabRecords
  <2>2. place \in Public \cup Protected
    BY <1>8, <2>1 DEF Load, Protected
  <2>3. Loaded(place) \in TabRecords(n) /\ Loaded(place).busy = {}
    BY <1>2, <2>2, Values DEF Loaded
  <2>4. TabsTyped'
    BY <1>1, <1>8, <2>3, OneTab DEF Load
  <2> QED
    BY <1>1, <1>8, <2>4, UnloadedTyped DEF Load, CallsTyped
<1>9. ASSUME NEW place \in Public \cup Protected, tabs' = [tabs EXCEPT ![t] = Shown(t, place)],
             UNCHANGED logins
      PROVE  TabsTyped'
  <2>1. Shown(t, place) \in TabRecords(n) /\ Shown(t, place).busy = {}
    BY <1>1, ShownTyped
  <2> QED
    BY <1>1, <1>9, <2>1, OneTab
<1>10. ASSUME NEW op \in {"login", "other", "save", "password"}, op \in Forms[tabs[t].place],
              tabs' = [tabs EXCEPT ![t].busy = @ \cup {op}], UNCHANGED logins
       PROVE  TabsTyped'
  <2> DEFINE r == [tabs[t] EXCEPT !.busy = @ \cup {op}]
  <2>1. r \in TabRecords(n) /\ r.busy \subseteq Forms[r.place]
    BY <1>1, <1>10 DEF TabsTyped, TabRecords, Public
  <2>2. tabs' = [tabs EXCEPT ![t] = r]
    BY <1>10
  <2> HIDE DEF r
  <2> QED
    BY <1>1, <1>10, <2>1, <2>2, OneTab
<1>11. ASSUME NEW form, NEW c \in Calls, Submit(t, form, c)  PROVE TabsTyped' /\ CallsTyped'
  <2>1. form \in {"login", "other", "password"} /\ form \in Forms[tabs[t].place]
    BY <1>11 DEF Submit, FormShown
  <2>2. Request(t, form, 0) \in CallRecords(n)
    <3>1. 0 \in 0 .. n /\ form \in Public \cup {"logout", "save", "password"}
      BY <1>2, <2>1 DEF Public
    <3> QED
      BY <1>2, <3>1, RequestTyped
  <2>3. CallsTyped'
    BY <1>1, <1>11, <2>2, OneCall DEF Submit
  <2>4. tabs' = [tabs EXCEPT ![t].busy = @ \cup {form}] /\ UNCHANGED logins
    BY <1>11 DEF Submit
  <2> QED
    BY <1>10, <2>1, <2>3, <2>4
<1>12. ASSUME NEW name \in Names, NEW c \in Calls, SaveProfile(t, name, c)  PROVE TabsTyped' /\ CallsTyped'
  <2>1. "save" \in Forms[tabs[t].place]
    BY <1>12 DEF SaveProfile, FormShown
  <2>2. store.access \in 0 .. n
    BY <1>1 DEF StoreTyped, Stores
  <2>3. Request(t, "save", store.access) \in CallRecords(n)
    BY <1>2, <2>2, RequestTyped
  <2> DEFINE r == [Request(t, "save", store.access) EXCEPT !.name = name]
  <2>4. r \in CallRecords(n)
    BY <2>3 DEF CallRecords
  <2>5. CallsTyped'
    BY <1>1, <1>12, <2>4, OneCall DEF SaveProfile
  <2>6. tabs' = [tabs EXCEPT ![t].busy = @ \cup {"save"}] /\ UNCHANGED logins
    BY <1>12 DEF SaveProfile
  <2> QED
    BY <1>10, <2>1, <2>5, <2>6
<1>13. ASSUME NEW c \in Calls, Logout(t, c)  PROVE StoreTyped' /\ TabsTyped' /\ CallsTyped'
  <2>1. store.refresh \in 0 .. n
    BY <1>1 DEF StoreTyped, Stores
  <2>2. Request(t, "logout", store.refresh) \in CallRecords(n)
    BY <1>2, <2>1, RequestTyped
  <2>3. CASE store.refresh # 0
    BY <1>1, <1>4, <1>13, <2>2, <2>3, OneCall DEF Logout
  <2>4. CASE store.refresh = 0
    BY <1>5, <1>7, <1>13, <2>4 DEF Logout
  <2> QED
    BY <2>3, <2>4
<1>14. ASSUME Mount(t)  PROVE TabsTyped'
  <2> DEFINE r == [tabs[t] EXCEPT !.loading = FALSE,
                     !.user = IF store.user # NoUser /\ store.access # 0 THEN store.user ELSE @]
  <2>1. r \in TabRecords(n) /\ r.busy \subseteq Forms[r.place]
    BY <1>1 DEF TabsTyped, TabRecords, StoreTyped, Stores
  <2>2. tabs' = [tabs EXCEPT ![t] = r]
    BY <1>14 DEF Mount
  <2> HIDE DEF r
  <2> QED
    BY <1>1, <1>14, <2>1, <2>2, OneTab DEF Mount
<1>15. CASE \E place \in Public \cup Protected : Load(t, place) \/ Go(t, place)
  BY <1>4, <1>5, <1>8, <1>9, <1>15 DEF Load, Go
<1>16. CASE SidebarLogout(t)
  BY <1>4, <1>5, <1>6, <1>9, <1>16 DEF SidebarLogout, SidebarCleared, StoreTyped, Public
<1>17. CASE \E c \in Calls : Logout(t, c)
  BY <1>4, <1>13, <1>17 DEF Logout
<1>18. CASE \E c \in Calls : \E form \in Public \cup {"password"} : Submit(t, form, c)
  BY <1>4, <1>11, <1>18 DEF Submit
<1>19. CASE \E c \in Calls : \E name \in Names : SaveProfile(t, name, c)
  BY <1>4, <1>12, <1>19 DEF SaveProfile
<1>20. CASE Mount(t)
  BY <1>4, <1>14, <1>20 DEF Mount
<1>21. CASE Guard(t)
  BY <1>4, <1>5, <1>9, <1>21 DEF Guard, Public, Protected
<1> QED
  BY <1>15, <1>16, <1>17, <1>18, <1>19, <1>20, <1>21 DEF UserStep, PageStep

LEMMA AnswerTyped ==
  ASSUME CallsTyped, WorldTyped, NEW c \in Calls, NEW call \in CallRecords(Len(logins)),
         Answer(c, call), UNCHANGED logins
  PROVE  CallsTyped'
<1> DEFINE r == IF call.tab = "none" THEN Idle ELSE [call EXCEPT !.at = "answered"]
<1>1. Idle \in CallRecords(Len(logins))
  BY Values, Lengths
<1>2. [call EXCEPT !.at = "answered"] \in CallRecords(Len(logins))
  BY DEF CallRecords
<1>3. r \in CallRecords(Len(logins)) /\ calls' = [calls EXCEPT ![c] = r]
  BY <1>1, <1>2 DEF Answer
<1> HIDE DEF r
<1> QED
  BY <1>3, OneCall

\* One more login: what was typed before is typed still.
LEMMA LoginTyped ==
  ASSUME SessionTypeOK, NEW c \in Calls, NEW a \in Accounts, ServeLogin(c, a)
  PROVE  SessionTypeOK'
<1> DEFINE n == Len(logins)
<1>1. n \in Nat /\ Len(logins') = n + 1 /\ logins' \in Seq(Accounts) /\ n < MaxLogins
  BY DEF SessionTypeOK, ServeLogin
<1>2. 0 .. n \subseteq 0 .. (n + 1) /\ 1 .. n \subseteq 1 .. (n + 1) /\ n + 1 \in 1 .. (n + 1)
      /\ n + 1 \in 0 .. (n + 1)
  BY <1>1
<1>3. Users(n) \subseteq Users(n + 1) /\ CallRecords(n) \subseteq CallRecords(n + 1)
  BY <1>2 DEF Users, CallRecords
<1>4. Stores(n) \subseteq Stores(n + 1) /\ TabRecords(n) \subseteq TabRecords(n + 1)
  BY <1>2, <1>3 DEF Stores, TabRecords
<1>5. UNCHANGED <<world, names, store, tabs>> /\ live' = live \cup {n + 1}
  BY DEF ServeLogin
<1>6. calls' \in [Calls -> CallRecords(n + 1)]
  <2> DEFINE call == [calls[c] EXCEPT !.login = n + 1, !.name = names[a]]
             r == IF call.tab = "none" THEN Idle ELSE [call EXCEPT !.at = "answered"]
  <2>1. calls \in [Calls -> CallRecords(n + 1)] /\ names[a] \in Names
    BY <1>3, Stripped DEF SessionTypeOK
  <2>2. call \in CallRecords(n + 1)
    BY <1>2, <2>1 DEF CallRecords
  <2>3. Idle \in CallRecords(n + 1)
    BY <1>1, Values
  <2>4. [call EXCEPT !.at = "answered"] \in CallRecords(n + 1)
    BY <2>2 DEF CallRecords
  <2>5. calls' = [calls EXCEPT ![c] = r]
    BY DEF ServeLogin, Answer
  <2> HIDE DEF call
  <2> QED
    BY <2>1, <2>3, <2>4, <2>5
<1> HIDE DEF n
<1>7. live' \subseteq 1 .. (n + 1) /\ Len(logins') <= MaxLogins
  <2>1. live \subseteq 1 .. n
    BY DEF SessionTypeOK, n
  <2> QED
    BY <1>1, <1>2, <1>5, <2>1, SessionAssumption
<1>8. store' \in Stores(n + 1) /\ tabs' \in [Tabs -> TabRecords(n + 1)]
  BY <1>4, <1>5 DEF SessionTypeOK, n
<1> QED
  BY <1>1, <1>5, <1>6, <1>7, <1>8 DEF SessionTypeOK

\* What the API does and what its answers do.
LEMMA RequestStepTyped ==
  ASSUME SessionTypeOK, NEW c \in Calls, Serve(c) \/ Arrive(c) \/ Lose(c)
  PROVE  SessionTypeOK'
<1>1. CASE \E a \in Accounts : ServeLogin(c, a)
  BY <1>1, LoginTyped
<1> SUFFICES ASSUME ~ \E a \in Accounts : ServeLogin(c, a)  PROVE SessionTypeOK'
  BY <1>1
<1>2. WorldTyped /\ StoreTyped /\ TabsTyped /\ CallsTyped
  BY TypesByPart
<1> DEFINE n == Len(logins)
           t == calls[c].tab
<1>3. n \in Nat /\ calls[c] \in CallRecords(n) /\ Idle \in CallRecords(n) /\ Nobody \in Stores(n)
  BY <1>2, Lengths, Values DEF CallsTyped
<1> SUFFICES WorldTyped' /\ StoreTyped' /\ TabsTyped' /\ CallsTyped'
  BY DEF SessionTypeOK, WorldTyped, StoreTyped, TabsTyped, CallsTyped
<1>4. /\ UNCHANGED <<world, logins, live, names>> => WorldTyped'
      /\ UNCHANGED <<logins, store>> => StoreTyped'
      /\ UNCHANGED <<logins, tabs>> => TabsTyped'
  BY <1>2 DEF WorldTyped, StoreTyped, TabsTyped
<1>5. calls' = [calls EXCEPT ![c] = Idle] /\ UNCHANGED logins => CallsTyped'
  BY <1>2, <1>3, OneCall
<1>6. calls' = Done(c) /\ UNCHANGED logins => CallsTyped'
  <2>1. Left(t) \in [Calls -> CallRecords(n)]
    BY <1>2, LeftTyped
  <2> QED
    BY <1>3, <2>1 DEF Done, CallsTyped
<1>7. ASSUME t \in Tabs, NEW place \in Public \cup Protected,
             tabs' = [tabs EXCEPT ![t] = Shown(t, place)], UNCHANGED logins
      PROVE  TabsTyped'
  <2>1. Shown(t, place) \in TabRecords(n) /\ Shown(t, place).busy = {}
    BY <1>2, <1>7, ShownTyped
  <2> QED
    BY <1>2, <1>7, <2>1, OneTab
<1>8. ASSUME t \in Tabs, FormDone(c), UNCHANGED logins  PROVE TabsTyped'
  <2> DEFINE r == [tabs[t] EXCEPT !.busy = IF calls[c].here THEN @ \ {calls[c].op} ELSE @]
  <2>1. r \in TabRecords(n) /\ r.busy \subseteq Forms[r.place]
    BY <1>2, <1>8 DEF TabsTyped, TabRecords
  <2>2. tabs' = [tabs EXCEPT ![t] = r]
    BY <1>8 DEF FormDone
  <2> HIDE DEF r
  <2> QED
    BY <1>2, <1>8, <2>1, <2>2, OneTab
\* A request of an unloaded document has no tab: nothing is shown.
<1>9. ASSUME t \notin Tabs, UNCHANGED logins
      PROVE  /\ FormDone(c) => TabsTyped'
             /\ \A r : tabs' = [tabs EXCEPT ![t] = r] => TabsTyped'
  <2>1. \A r : [tabs EXCEPT ![t] = r] = tabs
    BY <1>2, <1>9 DEF TabsTyped
  <2>2. [tabs EXCEPT ![t].busy = IF calls[c].here THEN @ \ {calls[c].op} ELSE @] = tabs
    BY <1>2, <1>9 DEF TabsTyped
  <2> QED
    BY <1>4, <1>9, <2>1, <2>2 DEF FormDone
<1>10. ASSUME LogoutEnds(c)  PROVE WorldTyped' /\ StoreTyped' /\ TabsTyped' /\ CallsTyped'
  <2>1. StoreTyped'
    BY <1>3, <1>10 DEF LogoutEnds, SignedOut, ClearAuth, StoreTyped
  <2> DEFINE r == [Shown(t, "login") EXCEPT !.user = NoUser]
  <2>2. ASSUME t \in Tabs  PROVE r \in TabRecords(n) /\ r.busy \subseteq Forms[r.place]
    BY <1>2, <1>3, <2>2, ShownTyped, Values DEF TabRecords, Public
  <2>3. tabs' = [tabs EXCEPT ![t] = r] /\ UNCHANGED logins
    BY <1>10 DEF LogoutEnds, SignedOut
  <2> HIDE DEF r
  <2>4. TabsTyped'
    BY <1>2, <1>9, <2>2, <2>3, OneTab
  <2> QED
    BY <1>4, <1>6, <1>10, <2>1, <2>4 DEF LogoutEnds
<1>11. ASSUME NEW call \in CallRecords(n), Answer(c, call), UNCHANGED logins  PROVE CallsTyped'
  BY <1>2, <1>11, AnswerTyped
<1>12. CASE ServeLogout(c)
  <2>1. WorldTyped'
    BY <1>2, <1>12 DEF ServeLogout, WorldTyped
  <2> QED
    BY <1>3, <1>4, <1>11, <1>12, <2>1 DEF ServeLogout
<1>13. CASE ServeSave(c)
  <2>1. Strip(calls[c].name) \in StrippedNames
    BY <1>3, Stripped DEF CallRecords
  <2>2. WorldTyped'
    BY <1>2, <1>13, <2>1 DEF ServeSave, WorldTyped
  <2> QED
    BY <1>3, <1>4, <1>11, <1>13, <2>2 DEF ServeSave
<1>14. CASE ServePublic(c)
  BY <1>3, <1>4, <1>11, <1>14 DEF ServePublic
<1>15. CASE Refuse(c)
  <2>1. [calls[c] EXCEPT !.ok = FALSE] \in CallRecords(n)
    BY <1>3 DEF CallRecords
  <2> QED
    BY <1>4, <1>11, <1>15, <2>1 DEF Refuse
<1>16. CASE LoginAnswered(c)
  <2>1. Stored(calls[c].login, calls[c].name) \in Stores(n)
    BY <1>3, Values DEF CallRecords
  <2>2. PICK place \in Public \cup Protected : tabs' = [tabs EXCEPT ![t] = Shown(t, place)]
    BY <1>16 DEF LoginAnswered, Protected
  <2>3. TabsTyped'
    BY <1>7, <1>9, <1>16, <2>2 DEF LoginAnswered
  <2> QED
    BY <1>4, <1>6, <1>16, <2>1, <2>3 DEF LoginAnswered, StoreTyped
<1>17. CASE OtherAnswered(c)
  BY <1>4, <1>5, <1>6, <1>7, <1>9, <1>17 DEF OtherAnswered, Public
<1>18. CASE RefusalAnswered(c)
  BY <1>4, <1>5, <1>8, <1>9, <1>18 DEF RefusalAnswered
<1>19. CASE LogoutAnswered(c)
  BY <1>10, <1>19 DEF LogoutAnswered
<1>20. CASE SaveAnswered(c)
  <2>1. [store EXCEPT !.user.name = calls[c].name] \in Stores(n)
    BY <1>2, <1>3 DEF StoreTyped, Stores, Users, CallRecords
  <2>2. StoreTyped'
    BY <1>2, <1>20, <2>1 DEF SaveAnswered, SavedUser, StoreTyped
  <2> QED
    BY <1>4, <1>5, <1>8, <1>9, <1>20, <2>2 DEF SaveAnswered
<1>21. CASE Lose(c)
  <2>1. CASE calls[c].op = "logout" /\ t # "none"
    BY <1>10, <1>21, <2>1 DEF Lose, LogoutFails
  <2>2. CASE ~(calls[c].op = "logout" /\ t # "none")
    BY <1>4, <1>5, <1>8, <1>9, <1>21, <2>2 DEF Lose
  <2> QED
    BY <2>1, <2>2
<1> QED
  BY <1>12, <1>13, <1>14, <1>15, <1>16, <1>17, <1>18, <1>19, <1>20, <1>21 DEF Serve, Arrive

-----------------------------------------------------------------------------
(* The calm world                                                          *)

\* One request at a time, from a tab that is there.
CalmCalls ==
  /\ \A c, d \in Calls : ~Free(c) /\ ~Free(d) => c = d
  /\ \A c \in Calls : ~Free(c) => calls[c].tab \in Tabs

\* What a request carries is true until it is answered.
CallTrue(c) ==
  /\ Answered(c, {"login"}) /\ calls[c].ok =>
       /\ calls[c].login \in live
       /\ Strip(calls[c].name) = names[logins[calls[c].login]]
  /\ calls[c].op = "save" => calls[c].login = store.access
  /\ calls[c].op = "save" /\ calls[c].at = "sent" => calls[c].ok
  /\ Answered(c, {"logout"}) => calls[c].login \notin live
  /\ Answered(c, {"save"}) /\ calls[c].ok =>
       /\ calls[c].login # 0
       /\ Strip(calls[c].name) = names[logins[calls[c].login]]

\* What is stored is true but for a change of the API that has not come back.
StoreTrue ==
  store.refresh # 0 =>
    /\ (\A c \in Calls : calls[c].op # "logout") => store.refresh \in live
    /\ (\A c \in Calls : ~(Answered(c, {"save"}) /\ calls[c].ok)) =>
         Strip(store.user.name) = names[logins[store.refresh]]

CalmInv == CalmCalls /\ (\A c \in Calls : CallTrue(c)) /\ StoreTrue

SessionInv == SessionTypeOK /\ StoreIsOneSession /\ (world = "calm" => CalmInv)

\* Requests that are neither sent nor answered, but only lose their page.
LEMMA CalmKept ==
  ASSUME SessionTypeOK, CalmInv, calls' \in [Calls -> CallRecords(Len(logins))],
         \A c \in Calls : Same(calls'[c], calls[c]), UNCHANGED <<logins, live, names, store>>
  PROVE  CalmInv'
  BY DEF CalmInv, CalmCalls, CallTrue, StoreTrue, Answered, Free, Same

\* Nothing is under way any more, and what is stored is true.
LEMMA CalmRest ==
  ASSUME \A c \in Calls : Free(c)',
         (store.refresh # 0 => /\ store.refresh \in live
                               /\ Strip(store.user.name) = names[logins[store.refresh]])'
  PROVE  CalmInv'
  BY DEF CalmInv, CalmCalls, CallTrue, StoreTrue, Answered, Free

LEMMA CalmSent ==
  ASSUME SessionTypeOK, CalmInv, Quiet, NEW c \in Calls, NEW r \in CallRecords(Len(logins)),
         calls' = [calls EXCEPT ![c] = r], r.tab \in Tabs, r.at = "sent", r.ok = TRUE,
         r.op = "save" => r.login = store.access, UNCHANGED <<logins, live, names, store>>
  PROVE  CalmInv'
<1>1. \A d \in Calls : d # c => Free(d) /\ Free(d)'
  BY DEF Quiet, Free, SessionTypeOK
<1>2. calls'[c] = r
  BY DEF SessionTypeOK
<1>3. CalmCalls'
  BY <1>1, <1>2 DEF CalmCalls
<1>4. StoreTrue'
  BY <1>1 DEF CalmInv, StoreTrue, Answered, Quiet, Free
<1>5. \A d \in Calls : CallTrue(d)'
  BY <1>1, <1>2 DEF CallTrue, Answered, Free
<1> QED
  BY <1>3, <1>4, <1>5 DEF CalmInv

LEMMA CalmTabStep ==
  ASSUME SessionInv, world = "calm", NEW t \in Tabs, UserStep(t) \/ PageStep(t)
  PROVE  CalmInv' /\ StoreIsOneSession'
<1> SessionTypeOK /\ CalmInv /\ StoreIsOneSession
  BY DEF SessionInv
<1> DEFINE n == Len(logins)
<1>1. n \in Nat /\ CallsTyped
  BY DEF SessionTypeOK, CallsTyped
<1>2. calls' = Left(t) /\ UNCHANGED <<logins, live, names, store>> => CalmInv'
  <2>1. Left(t) \in [Calls -> CallRecords(n)] /\ \A c \in Calls : Same(Left(t)[c], calls[c])
    BY <1>1, LeftTyped
  <2> QED
    BY <2>1, CalmKept
<1>3. UNCHANGED <<logins, live, names, store, calls>> => CalmInv'
  BY <1>1, CalmKept DEF CallsTyped, Same
<1>4. Waits => Quiet
  BY DEF Waits
<1>5. UNCHANGED store => StoreIsOneSession'
  BY DEF StoreIsOneSession
<1>6. store' = Nobody => StoreIsOneSession' /\ store'.refresh = 0
  BY DEF StoreIsOneSession, Nobody, NoUser
<1>7. ASSUME Quiet, calls' = Left(t)  PROVE \A c \in Calls : Free(c)'
  BY <1>1, <1>7, LeftTyped DEF Quiet, Free, Same
<1>8. CASE \E place \in Public \cup Protected : Load(t, place)
  <2>1. \A c \in Calls : Free(c)'
    BY <1>1, <1>4, <1>8 DEF Load, Unloaded, Quiet, Free, Idle, CallsTyped, CallRecords
  <2>2. store.refresh # 0 => store.refresh \in live /\ Strip(store.user.name) = names[logins[store.refresh]]
    BY <1>4, <1>8 DEF Load, CalmInv, StoreTrue, Answered, Quiet, Free
  <2> QED
    BY <1>5, <1>8, <2>1, <2>2, CalmRest DEF Load
<1>9. CASE \E place \in Public \cup Protected : Go(t, place)
  BY <1>2, <1>5, <1>9 DEF Go
<1>10. CASE SidebarLogout(t)
  BY <1>4, <1>6, <1>7, <1>10, CalmRest DEF SidebarLogout, SidebarCleared
<1>11. ASSUME NEW c \in Calls, Logout(t, c)  PROVE CalmInv' /\ StoreIsOneSession'
  <2>1. CASE store.refresh # 0
    <3>1. store.refresh \in 0 .. n
      BY DEF SessionTypeOK, Stores
    <3> DEFINE r == Request(t, "logout", store.refresh)
    <3>2. r \in CallRecords(n) /\ IsSent(r, t, "logout", store.refresh)
      BY <1>1, <3>1, RequestTyped
    <3>3. Quiet /\ calls' = [calls EXCEPT ![c] = r] /\ UNCHANGED <<logins, live, names, store>>
      BY <1>4, <1>11, <2>1 DEF Logout
    <3> HIDE DEF r
    <3> QED
      BY <1>5, <3>2, <3>3, CalmSent DEF IsSent
  <2>2. CASE store.refresh = 0
    BY <1>4, <1>6, <1>7, <1>11, <2>2, CalmRest DEF Logout, SignedOut, ClearAuth
  <2> QED
    BY <2>1, <2>2
<1>12. ASSUME NEW form, NEW c \in Calls, Submit(t, form, c)  PROVE CalmInv' /\ StoreIsOneSession'
  <2> DEFINE r == Request(t, form, 0)
  <2>1. form \in Public \cup {"logout", "save", "password"} /\ form # "save" /\ 0 \in 0 .. n
    BY <1>1, <1>12 DEF Submit, Public
  <2>2. r \in CallRecords(n) /\ IsSent(r, t, form, 0)
    BY <1>1, <2>1, RequestTyped
  <2>3. Quiet /\ calls' = [calls EXCEPT ![c] = r] /\ UNCHANGED <<logins, live, names, store>>
    BY <1>4, <1>12 DEF Submit
  <2> HIDE DEF r
  <2> QED
    BY <1>5, <2>1, <2>2, <2>3, CalmSent DEF IsSent
<1>13. ASSUME NEW name \in Names, NEW c \in Calls, SaveProfile(t, name, c)
       PROVE  CalmInv' /\ StoreIsOneSession'
  <2>1. store.access \in 0 .. n
    BY DEF SessionTypeOK, Stores
  <2> DEFINE q == Request(t, "save", store.access)
             r == [q EXCEPT !.name = name]
  <2>2. q \in CallRecords(n) /\ IsSent(q, t, "save", store.access)
    BY <1>1, <2>1, RequestTyped
  <2> HIDE DEF q
  <2>3. r \in CallRecords(n) /\ r.login = store.access /\ r.tab = t /\ r.at = "sent" /\ r.ok = TRUE
    BY <2>2 DEF CallRecords, IsSent
  <2>4. Quiet /\ calls' = [calls EXCEPT ![c] = r] /\ UNCHANGED <<logins, live, names, store>>
    BY <1>4, <1>13 DEF SaveProfile, q
  <2> HIDE DEF r
  <2> QED
    BY <1>5, <2>3, <2>4, CalmSent
<1>14. CASE Mount(t)
  BY <1>3, <1>5, <1>14 DEF Mount
<1>15. CASE Guard(t)
  BY <1>2, <1>5, <1>15 DEF Guard
<1> QED
  BY <1>8, <1>9, <1>10, <1>11, <1>12, <1>13, <1>14, <1>15 DEF UserStep, PageStep

\* The request under way is the only one: the others do not disturb.
LEMMA CalmRequestStep ==
  ASSUME SessionInv, world = "calm", NEW c \in Calls, Serve(c) \/ Arrive(c) \/ Lose(c)
  PROVE  CalmInv'
<1> SessionTypeOK /\ CalmInv /\ StoreIsOneSession
  BY DEF SessionInv
<1> DEFINE n == Len(logins)
<1>1. n \in Nat /\ CallsTyped /\ calls[c] \in CallRecords(n)
  BY DEF SessionTypeOK, CallsTyped
<1>2. ~Free(c) /\ calls[c].tab \in Tabs /\ calls[c].tab # "none"
  <2>1. ~Free(c)
    BY DEF Serve, Arrive, Lose, ServeLogin, ServeLogout, ServeSave, ServePublic, Refuse, Unserved,
           LoginAnswered, OtherAnswered, RefusalAnswered, LogoutAnswered, SaveAnswered, Answered,
           Free, Public
  <2> QED
    BY <2>1, SessionAssumption DEF CalmInv, CalmCalls
<1>3. \A d \in Calls : d # c => Free(d)
  BY <1>2 DEF CalmInv, CalmCalls
<1>4. \A call : Answer(c, call) /\ call.tab = calls[c].tab =>
           calls' = [calls EXCEPT ![c] = [call EXCEPT !.at = "answered"]]
  BY <1>2 DEF Answer
<1>5. ASSUME NEW r \in CallRecords(n + 1), calls' = [calls EXCEPT ![c] = r], ~(r.op = "none"),
             r.tab = calls[c].tab, CallTrue(c)', StoreTrue'
      PROVE  CalmInv'
  <2>1. calls'[c] = r /\ \A d \in Calls : d # c => calls'[d] = calls[d]
    BY <1>1, <1>5 DEF CallsTyped
  <2>2. CalmCalls'
    BY <1>2, <1>3, <1>5, <2>1 DEF CalmCalls, Free
  <2>3. \A d \in Calls : CallTrue(d)'
    BY <1>3, <1>5, <2>1 DEF CallTrue, Answered, Free
  <2> QED
    BY <1>5, <2>2, <2>3 DEF CalmInv
<1>6. calls' = [calls EXCEPT ![c] = Idle] => \A d \in Calls : Free(d)'
  BY <1>1, <1>3 DEF CallsTyped, Free, Idle
<1>7. calls' = Done(c) => \A d \in Calls : Free(d)'
  <2>1. \A d \in Calls : Same(Left(calls[c].tab)[d], calls[d])
    BY <1>1, LeftTyped
  <2>2. Left(calls[c].tab) \in [Calls -> CallRecords(n)]
    BY <1>1, LeftTyped
  <2> QED
    BY <1>3, <2>1, <2>2 DEF Done, Free, Idle, Same
<1>8. StoreTrue /\ CallTrue(c)
  BY DEF CalmInv
<1>9. LogoutEnds(c) => CalmInv'
  BY <1>7, CalmRest DEF LogoutEnds, SignedOut, ClearAuth, Nobody
<1>10. ASSUME NEW a \in Accounts, ServeLogin(c, a)  PROVE CalmInv'
  <2> DEFINE r == [calls[c] EXCEPT !.login = n + 1, !.name = names[a], !.at = "answered"]
  <2>1. calls' = [calls EXCEPT ![c] = r]
    <3> DEFINE call == [calls[c] EXCEPT !.login = n + 1, !.name = names[a]]
    <3>1. Answer(c, call) /\ call.tab = calls[c].tab /\ [call EXCEPT !.at = "answered"] = r
      BY <1>1, <1>10 DEF ServeLogin, CallRecords
    <3> HIDE DEF call, r
    <3> QED
      BY <1>4, <3>1
  <2>2. calls[c].op = "login" /\ logins' = Append(logins, a) /\ live' = live \cup {n + 1}
        /\ UNCHANGED <<names, store>>
    BY <1>10 DEF ServeLogin, Unserved
  <2>3. logins'[n + 1] = a /\ \A m \in 1 .. n : logins'[m] = logins[m]
    BY <2>2 DEF SessionTypeOK
  <2>4. r \in CallRecords(n + 1) /\ r.op = "login" /\ r.at = "answered" /\ r.login = n + 1
        /\ r.name = names[a] /\ r.tab = calls[c].tab
    <3>1. names[a] \in Names /\ n + 1 \in 0 .. (n + 1)
      BY <1>1, Stripped DEF SessionTypeOK
    <3> QED
      BY <1>1, <2>2, <3>1 DEF CallRecords
  <2>5. calls'[c] = r
    BY <1>1, <2>1 DEF CallsTyped
  <2> HIDE DEF r
  <2>6. CallTrue(c)'
    <3>1. Strip(names[a]) = names[a]
      BY Stripped DEF SessionTypeOK
    <3> QED
      BY <2>2, <2>3, <2>4, <2>5, <3>1 DEF CallTrue, Answered
  <2>7. StoreTrue'
    <3>1. store.refresh \in 0 .. n
      BY DEF SessionTypeOK, Stores
    <3>2. \A d \in Calls : calls'[d].op = calls[d].op
                          /\ (Answered(d, {"save"})' <=> Answered(d, {"save"}))
      BY <1>1, <2>1, <2>2, <2>4 DEF CallsTyped, Answered
    <3>3. \A d \in Calls : ~Answered(d, {"save"}) /\ calls[d].op # "logout"
      BY <1>3, <2>2 DEF Answered, Free
    <3> QED
      BY <1>1, <1>8, <2>2, <2>3, <3>1, <3>2, <3>3 DEF StoreTrue
  <2> QED
    BY <1>5, <2>1, <2>4, <2>6, <2>7
<1>11. ASSUME NEW r \in CallRecords(n), calls' = [calls EXCEPT ![c] = r], r.tab = calls[c].tab,
              r.op = calls[c].op, CallTrue(c)', StoreTrue'
       PROVE  CalmInv'
  <2>1. CallRecords(n) \subseteq CallRecords(n + 1)
    BY <1>1 DEF CallRecords
  <2> QED
    BY <1>2, <1>5, <1>11, <2>1 DEF Free
<1>12. CASE ServeLogout(c) \/ ServePublic(c)
  <2> DEFINE r == [calls[c] EXCEPT !.at = "answered"]
  <2>1. calls' = [calls EXCEPT ![c] = r] /\ r \in CallRecords(n) /\ r.tab = calls[c].tab
        /\ r.op = calls[c].op /\ r.login = calls[c].login /\ calls'[c] = r
        /\ UNCHANGED <<logins, names, store>>
    BY <1>1, <1>4, <1>12 DEF ServeLogout, ServePublic, CallRecords, CallsTyped
  <2>2. calls[c].op \in {"logout", "other"} /\ (calls[c].op = "other" => UNCHANGED live)
    BY <1>12 DEF ServeLogout, ServePublic, Unserved
  <2> HIDE DEF r
  <2>3. CallTrue(c)'
    <3>1. calls[c].op = "logout" => live' = live \ {calls[c].login}
      BY <1>12 DEF ServeLogout, ServePublic, Unserved
    <3> QED
      BY <2>1, <2>2, <3>1 DEF CallTrue, Answered
  <2>4. \A d \in Calls : calls'[d].op = calls[d].op
                        /\ ~Answered(d, {"save"})' /\ ~Answered(d, {"save"})
    BY <1>1, <1>3, <2>1, <2>2 DEF Answered, Free, CallsTyped
  <2>5. StoreTrue'
    BY <1>8, <2>1, <2>2, <2>4 DEF StoreTrue
  <2> QED
    BY <1>11, <2>1, <2>3, <2>5
<1>13. CASE ServeSave(c)
  <2> DEFINE r == [calls[c] EXCEPT !.at = "answered"]
  <2>1. calls' = [calls EXCEPT ![c] = r] /\ r \in CallRecords(n) /\ r.tab = calls[c].tab
        /\ r.op = calls[c].op /\ r.login = calls[c].login /\ r.name = calls[c].name
        /\ r.ok = calls[c].ok /\ r.at = "answered" /\ calls'[c] = r
    BY <1>1, <1>4, <1>13 DEF ServeSave, CallRecords, CallsTyped
  <2>2. calls[c].op = "save" /\ calls[c].at = "sent" /\ calls[c].login # 0
        /\ UNCHANGED <<logins, live, store>>
        /\ names' = [names EXCEPT ![logins[calls[c].login]] = Strip(calls[c].name)]
    BY <1>13 DEF ServeSave, Unserved
  <2>3. logins[calls[c].login] \in Accounts
    <3>1. calls[c].login \in 1 .. n
      BY <1>1, <2>2 DEF CallRecords
    <3> QED
      BY <3>1 DEF SessionTypeOK
  <2>4. names'[logins[calls[c].login]] = Strip(calls[c].name)
    BY <2>2, <2>3 DEF SessionTypeOK
  <2> HIDE DEF r
  <2>5. CallTrue(c)'
    BY <1>8, <2>1, <2>2, <2>4 DEF CallTrue, Answered
  <2>6. Answered(c, {"save"})' /\ calls'[c].ok
    BY <1>8, <2>1, <2>2 DEF CallTrue, Answered
  <2>7. \A d \in Calls : calls'[d].op = calls[d].op
    BY <1>1, <2>1 DEF CallsTyped
  <2>8. StoreTrue'
    BY <1>8, <2>2, <2>6, <2>7 DEF StoreTrue
  <2> QED
    BY <1>11, <2>1, <2>5, <2>8
<1>14. CASE Refuse(c)
  <2> DEFINE r == [calls[c] EXCEPT !.ok = FALSE, !.at = "answered"]
  <2>1. calls' = [calls EXCEPT ![c] = r] /\ r \in CallRecords(n) /\ r.tab = calls[c].tab
        /\ r.op = calls[c].op /\ r.login = calls[c].login /\ r.ok = FALSE /\ r.at = "answered"
        /\ calls'[c] = r
    <3> DEFINE call == [calls[c] EXCEPT !.ok = FALSE]
    <3>1. Answer(c, call) /\ call.tab = calls[c].tab /\ [call EXCEPT !.at = "answered"] = r
      BY <1>1, <1>14 DEF Refuse, CallRecords
    <3> HIDE DEF call
    <3>2. calls' = [calls EXCEPT ![c] = r]
      BY <1>4, <3>1
    <3> QED
      BY <1>1, <3>2 DEF CallRecords, CallsTyped
  <2>2. calls[c].at = "sent" /\ calls[c].op # "logout" /\ UNCHANGED <<logins, live, names, store>>
    BY <1>14 DEF Refuse, Unserved
  <2> HIDE DEF r
  <2>3. CallTrue(c)'
    BY <1>8, <2>1, <2>2 DEF CallTrue, Answered
  <2>4. \A d \in Calls : calls'[d].op = calls[d].op /\ ~(Answered(d, {"save"}) /\ calls[d].ok)
    BY <1>1, <1>3, <2>1, <2>2 DEF CallsTyped, Answered, Free
  <2>5. StoreTrue'
    BY <1>8, <2>2, <2>4 DEF StoreTrue
  <2> QED
    BY <1>11, <2>1, <2>3, <2>5
<1>15. CASE LoginAnswered(c)
  <2>1. store' = Stored(calls[c].login, calls[c].name) /\ UNCHANGED <<logins, live, names>>
    BY <1>15 DEF LoginAnswered
  <2>2. calls[c].login \in live /\ Strip(calls[c].name) = names[logins[calls[c].login]]
    BY <1>8, <1>15 DEF LoginAnswered, CallTrue
  <2> QED
    BY <1>7, <1>15, <2>1, <2>2, CalmRest DEF LoginAnswered, Stored
<1>16. CASE OtherAnswered(c) \/ RefusalAnswered(c)
  <2>1. UNCHANGED <<logins, live, names, store>> /\ \A d \in Calls : Free(d)'
    BY <1>6, <1>7, <1>16 DEF OtherAnswered, RefusalAnswered
  <2>2. calls[c].op \in {"login", "other", "password"}
    BY <1>16 DEF OtherAnswered, RefusalAnswered, Answered
  <2>3. \A d \in Calls : calls[d].op # "logout" /\ ~Answered(d, {"save"})
    BY <1>3, <2>2 DEF Answered, Free
  <2> QED
    BY <1>8, <2>1, <2>3, CalmRest DEF StoreTrue
<1>17. CASE LogoutAnswered(c)
  BY <1>9, <1>17 DEF LogoutAnswered
<1>18. CASE SaveAnswered(c)
  <2>1. UNCHANGED <<logins, live, names>> /\ (\A d \in Calls : Free(d)') /\ store' = SavedUser(c)
        /\ calls[c].op = "save" /\ Answered(c, {"save"})
    BY <1>6, <1>18 DEF SaveAnswered, Answered
  <2>2. \A d \in Calls : calls[d].op # "logout"
    BY <1>3, <2>1 DEF Free
  <2>3. CASE calls[c].ok /\ store.user # NoUser
    <3>1. store' = [store EXCEPT !.user.name = calls[c].name]
      BY <2>1, <2>3 DEF SavedUser
    <3>2. store'.refresh = store.refresh /\ store'.user.name = calls[c].name
      BY <3>1 DEF SessionTypeOK, Stores, Users
    <3>3. calls[c].login = store.refresh /\ Strip(calls[c].name) = names[logins[calls[c].login]]
      BY <1>8, <2>1, <2>3 DEF CallTrue, StoreIsOneSession
    <3> QED
      BY <1>8, <2>1, <2>2, <3>2, <3>3, CalmRest DEF StoreTrue
  <2>4. CASE calls[c].ok /\ store.user = NoUser
    <3>1. store' = store /\ store.refresh = 0
      BY <2>1, <2>4 DEF SavedUser, StoreIsOneSession, NoUser
    <3> QED
      BY <2>1, <3>1, CalmRest
  <2>5. CASE ~calls[c].ok
    <3>1. \A d \in Calls : ~(Answered(d, {"save"}) /\ calls[d].ok)
      BY <1>3, <2>5 DEF Answered, Free
    <3> QED
      BY <1>8, <2>1, <2>2, <2>5, <3>1, CalmRest DEF StoreTrue, SavedUser
  <2> QED
    BY <2>3, <2>4, <2>5
<1>19. CASE Lose(c)
  BY <1>2, <1>9, <1>19 DEF Lose, LogoutFails
<1> QED
  BY <1>10, <1>12, <1>13, <1>14, <1>15, <1>16, <1>17, <1>18, <1>19 DEF Serve, Arrive

-----------------------------------------------------------------------------
(* Both worlds                                                             *)

\* Everything that writes localStorage writes all of it, or the name only.
LEMMA StoreStaysOne ==
  ASSUME SessionTypeOK, StoreIsOneSession, SessionNext
  PROVE  StoreIsOneSession'
<1>1. UNCHANGED store => StoreIsOneSession'
  BY DEF StoreIsOneSession
<1>2. \A m, name : store' = Stored(m, name) => StoreIsOneSession'
  BY DEF StoreIsOneSession, Stored
<1>3. store' = Nobody => StoreIsOneSession'
  BY DEF StoreIsOneSession, Nobody, NoUser
<1>4. \A name : store' = [store EXCEPT !.user.name = name] => StoreIsOneSession'
  BY DEF StoreIsOneSession, SessionTypeOK, Stores, Users
<1>5. ASSUME NEW t \in Tabs, UserStep(t) \/ PageStep(t)  PROVE StoreIsOneSession'
  BY <1>1, <1>3, <1>5 DEF UserStep, PageStep, Load, Go, SidebarLogout, SidebarCleared, Logout,
     SignedOut, ClearAuth, Submit, SaveProfile, Mount, Guard
<1>6. ASSUME NEW c \in Calls, Serve(c)  PROVE StoreIsOneSession'
  BY <1>1, <1>6 DEF Serve, ServeLogin, ServeLogout, ServeSave, ServePublic, Refuse
<1>7. ASSUME NEW c \in Calls, Arrive(c) \/ Lose(c)  PROVE StoreIsOneSession'
  BY <1>1, <1>2, <1>3, <1>4, <1>7 DEF Arrive, LoginAnswered, OtherAnswered, RefusalAnswered,
     LogoutAnswered, SaveAnswered, SavedUser, Lose, LogoutFails, LogoutEnds, SignedOut, ClearAuth
<1> QED
  BY <1>5, <1>6, <1>7 DEF SessionNext

LEMMA SessionInvInit == SessionInit => SessionInv
<1> SUFFICES ASSUME SessionInit  PROVE SessionInv
  OBVIOUS
<1>0. Plain \in StrippedNames
  BY SessionAssumption DEF StrippedNames, Names, Plain
<1>1. logins = <<>> /\ Len(logins) = 0 /\ logins \in Seq(Accounts) /\ 0 <= MaxLogins
  BY SessionAssumption DEF SessionInit
<1>2. Plain \in Names /\ \A t \in Tabs : tabs[t].busy = {}
  BY SessionAssumption DEF SessionInit, Names, Plain, Loaded
<1>3. SessionTypeOK
  BY <1>0, <1>1, <1>2, Values DEF SessionInit, SessionTypeOK, Public
<1>4. StoreIsOneSession /\ store.refresh = 0 /\ \A c \in Calls : Free(c)
  BY DEF SessionInit, StoreIsOneSession, Nobody, NoUser, Free, Idle
<1>5. CalmInv
  BY <1>4 DEF CalmInv, CalmCalls, CallTrue, StoreTrue, Answered, Free
<1> QED
  BY <1>3, <1>4, <1>5 DEF SessionInv

LEMMA SessionInvStep == SessionInv /\ [SessionNext]_vars => SessionInv'
<1> SUFFICES ASSUME SessionInv, [SessionNext]_vars  PROVE SessionInv'
  OBVIOUS
<1>1. SessionTypeOK /\ StoreIsOneSession
  BY DEF SessionInv
<1>2. CASE UNCHANGED vars
  BY <1>2 DEF vars, SessionInv, SessionTypeOK, StoreIsOneSession, CalmInv, CalmCalls, CallTrue,
     StoreTrue, Answered, Free
<1>3. ASSUME SessionNext  PROVE world' = world
  BY <1>3 DEF SessionNext, UserStep, PageStep, Load, Go, SidebarLogout, Logout, Submit, SaveProfile,
     Mount, Guard, Serve, ServeLogin, ServeLogout, ServeSave, ServePublic, Refuse, Arrive,
     LoginAnswered, OtherAnswered, RefusalAnswered, LogoutAnswered, SaveAnswered, LogoutEnds, Lose,
     LogoutFails
<1>4. CASE SessionNext
  <2>1. SessionTypeOK'
    BY <1>1, <1>4, TabStepTyped, RequestStepTyped DEF SessionNext
  <2>2. StoreIsOneSession'
    BY <1>1, <1>4, StoreStaysOne
  <2>3. world = "calm" => CalmInv'
    BY <1>4, CalmTabStep, CalmRequestStep DEF SessionNext
  <2> QED
    BY <1>3, <1>4, <2>1, <2>2, <2>3 DEF SessionInv
<1> QED
  BY <1>2, <1>4

\* A calm step that ends a request for a sign-out is the end of that sign-out.
LEMMA SignOutStep ==
  ASSUME SessionInv, [SessionNext]_vars, world = "calm", NEW c \in Calls, NEW t \in Tabs,
         NEW n \in 1 .. Len(logins), SigningOut(c, t, n), ~SigningOut(c, t, n)'
  PROVE  SignedOutFor(c, t, n)
<1>1. CalmInv /\ CallsTyped /\ n # 0 /\ ~Free(c) /\ ~Quiet
  BY DEF SessionInv, SessionTypeOK, CallsTyped, SigningOut, Free, Quiet
<1>2. \A u \in Tabs : calls' # Left(u) /\ calls' # calls
  BY <1>1, LeftTyped DEF SigningOut, Same
<1>3. ASSUME NEW u \in Tabs, UserStep(u) \/ PageStep(u)  PROVE FALSE
  BY <1>1, <1>2, <1>3 DEF UserStep, PageStep, Load, Go, SidebarLogout, Logout, Submit, SaveProfile,
     Mount, Guard, Waits
<1>4. PICK d \in Calls : Serve(d) \/ Arrive(d) \/ Lose(d)
  BY <1>2, <1>3 DEF SessionNext, vars
<1>5. d = c
  <2>1. ~Free(d)
    BY <1>4 DEF Serve, Arrive, Lose, ServeLogin, ServeLogout, ServeSave, ServePublic, Refuse,
       Unserved, LoginAnswered, OtherAnswered, RefusalAnswered, LogoutAnswered, SaveAnswered,
       Answered, Free, Public
  <2> QED
    BY <1>1, <2>1 DEF CalmInv, CalmCalls
<1>6. ~ServeLogout(c)
  <2> SUFFICES ASSUME ServeLogout(c)  PROVE FALSE
    OBVIOUS
  <2>1. calls' = [calls EXCEPT ![c] = [calls[c] EXCEPT !.at = "answered"]]
    BY SessionAssumption DEF ServeLogout, Answer, SigningOut
  <2> QED
    BY <1>1, <2>1 DEF CallsTyped, CallRecords, SigningOut
<1>7. LogoutEnds(c)
  BY <1>4, <1>5, <1>6, SessionAssumption DEF Serve, Arrive, Lose, ServeLogin, ServeSave, ServePublic,
     Refuse, Unserved, LoginAnswered, OtherAnswered, RefusalAnswered, LogoutAnswered, SaveAnswered,
     Answered, LogoutFails, SigningOut
<1>8. calls[c].at = "answered" => n \notin live'
  BY <1>1, <1>7 DEF CalmInv, CallTrue, Answered, SigningOut, LogoutEnds
<1>9. store'.refresh # n /\ tabs'[t].user = NoUser
  BY <1>1, <1>7 DEF LogoutEnds, SignedOut, ClearAuth, Nobody, SigningOut, SessionInv, SessionTypeOK
<1> QED
  BY <1>8, <1>9 DEF SignedOutFor

-----------------------------------------------------------------------------
(* Theorems                                                                *)

LEMMA SessionInvariant == SessionSpec => []SessionInv
  BY SessionInvInit, SessionInvStep, PTL DEF SessionSpec

\* The state of browser and API keeps its types, and a form is busy only on the
\* page that has it, through navigation, reloads and late answers.
THEOREM SessionTyped == SessionSpec => []SessionTypeOK
<1>1. SessionInv => SessionTypeOK
  BY DEF SessionInv
<1> QED
  BY <1>1, SessionInvariant, PTL

\* localStorage is the tokens and the user entry of one login, however many tabs log
\* in, sign out and save at once and whatever is lost.
THEOREM SessionIsOne == SessionSpec => []StoreIsOneSession
<1>1. SessionInv => StoreIsOneSession
  BY DEF SessionInv
<1> QED
  BY <1>1, SessionInvariant, PTL

\* For users who wait for answers, any tab reads a session that the API knows and
\* the name that it has, but for blanks around it, between any saves, logins and
\* sign-outs.
THEOREM CalmStoreTrue == SessionSpec => []CalmStoreIsTrue
<1>1. SessionInv => CalmStoreIsTrue
  BY DEF SessionInv, CalmInv, StoreTrue, CalmStoreIsTrue, Quiet, Free, Answered
<1> QED
  BY <1>1, SessionInvariant, PTL

\* A sign-out that is under way ends with the tab and localStorage cleared,
\* answered or not, and if it was answered with the session revoked in the API.
THEOREM SigningOutEnds == SessionSpec => SignOutEnds
<1>1. SessionInv /\ [SessionNext]_vars =>
        [world = "calm" =>
           \A c \in Calls, t \in Tabs, n \in 1 .. Len(logins) :
             SigningOut(c, t, n) /\ ~SigningOut(c, t, n)' =>
               SignedOutFor(c, t, n)]_vars
  BY SignOutStep
<1> QED
  BY <1>1, SessionInvariant, PTL DEF SessionSpec, SignOutEnds

=============================================================================
