------------------------------ MODULE WebSession ------------------------------
(***************************************************************************)
(* Who is signed in, in a browser with several tabs.                       *)
(*                                                                         *)
(* Three copies of that answer drift apart: the entries access_token,      *)
(* refresh_token and user of localStorage, which all tabs share and which  *)
(* every request reads; the user in the state of a tab's AuthProvider,     *)
(* which the guards and headers read and which is filled from localStorage *)
(* only when the tab is loaded; and the tokens and names the API knows.    *)
(*                                                                         *)
(* The login page writes localStorage and never the provider, and the      *)
(* sidebar's Log out the same: after either the tab goes on with the user  *)
(* it was loaded with.  provider.login, register and refreshAccessToken    *)
(* are called by no page and are left out, like the mock login of builds   *)
(* with NEXT_PUBLIC_USE_MOCK_API.                                          *)
(***************************************************************************)
EXTENDS Naturals, Sequences

CONSTANTS
  Tabs, Accounts,
  Admins,     \* accounts with role ADMIN or SUPER_ADMIN
  Calls,      \* bound: requests under way at one time, one per tab
  MaxLogins,  \* bound: logins the API accepts
  LastName    \* bound: display names are 1 .. LastName, each with or without blanks around it

ASSUME SessionAssumption ==
  /\ "none" \notin Tabs
  /\ Admins \subseteq Accounts /\ MaxLogins \in Nat /\ LastName \in Nat \ {0}

VARIABLES
  world,   \* calm: one request at a time, answered but for logout; rough: any time,
           \* with reloads and lost answers
  logins,  \* account of each login the API accepted
  live,    \* logins whose refresh token is not revoked
  names,   \* display name of each account in the API
  store,   \* localStorage
  tabs,    \* place, AuthProvider and forms of each tab
  calls    \* requests and where they are

vars == <<world, logins, live, names, store, tabs, calls>>

\* A name as it is typed, and as the API stores it.
Names == [word : 1 .. LastName, blanks : BOOLEAN]
Strip(name) == [name EXCEPT !.blanks = FALSE]
Plain == [word |-> 1, blanks |-> FALSE]
StrippedNames == {name \in Names : ~name.blanks}

NoUser == [login |-> 0, name |-> Plain]
Nobody == [access |-> 0, refresh |-> 0, user |-> NoUser]
Stored(n, name) == [access |-> n, refresh |-> n, user |-> [login |-> n, name |-> name]]

\* "other": the pages register and forgot-password, which know nothing of sessions.
Public == {"login", "other"}
Protected == {"app", "settings", "admin"}
Forms == [place \in Public \cup Protected |->
            CASE place \in Public      -> {place}
              [] place = "settings"    -> {"save", "password"}
              [] OTHER                 -> {}]

\* here: the page that sent the request is still mounted.
Idle == [op |-> "none", tab |-> "none", here |-> FALSE, at |-> "sent", ok |-> TRUE,
         login |-> 0, name |-> Plain]
Request(t, op, n) == [Idle EXCEPT !.op = op, !.tab = t, !.here = op # "logout", !.login = n]

Loaded(place) == [place |-> place, user |-> NoUser, loading |-> TRUE, busy |-> {}]

SessionInit ==
  /\ world \in {"calm", "rough"}
  /\ logins = <<>> /\ live = {}
  /\ names = [a \in Accounts |-> Plain]
  /\ store = Nobody
  /\ tabs = [t \in Tabs |-> Loaded("login")]
  /\ calls = [c \in Calls |-> Idle]

Free(c) == calls[c].op = "none"
Alone(t) == \A c \in Calls : calls[c].tab # t
Quiet == \A c \in Calls : Free(c)
Waits == world = "calm" => Quiet

SignedIn(t) == ~tabs[t].loading /\ tabs[t].user # NoUser
IsAdmin(t) == SignedIn(t) /\ logins[tabs[t].user.login] \in Admins

-----------------------------------------------------------------------------
(* Pages                                                                   *)

\* The router shows another page: its forms are new, the provider stays.
Shown(t, place) == [tabs[t] EXCEPT !.place = place, !.busy = {}]

\* The handlers of a page that was left run on, without a form to update.
Left(t) == [c \in Calls |-> IF calls[c].tab = t THEN [calls[c] EXCEPT !.here = FALSE]
                                                ELSE calls[c]]

\* The handlers of a document that was unloaded do not.
Unloaded(t) ==
  [c \in Calls |-> CASE calls[c].tab # t        -> calls[c]
                     [] calls[c].at = "sent"    -> [calls[c] EXCEPT !.tab = "none"]
                     [] OTHER                   -> Idle]

\* A reload, or the address of the app.
Load(t, place) ==
  /\ Waits /\ place \in {tabs[t].place, "app"}
  /\ tabs' = [tabs EXCEPT ![t] = Loaded(place)]
  /\ calls' = Unloaded(t)
  /\ UNCHANGED <<world, logins, live, names, store>>

\* The effect of AuthProvider.
Mount(t) ==
  /\ tabs[t].loading
  /\ tabs' = [tabs EXCEPT ![t].loading = FALSE,
                ![t].user = IF store.user # NoUser /\ store.access # 0 THEN store.user ELSE @]
  /\ UNCHANGED <<world, logins, live, names, store, calls>>

\* The effects of AuthGuard and AdminGuard.
Guard(t) ==
  /\ ~tabs[t].loading /\ tabs[t].place \in Protected
  /\ \/ /\ ~SignedIn(t)
        /\ tabs' = [tabs EXCEPT ![t] = Shown(t, "login")]
     \/ /\ SignedIn(t) /\ tabs[t].place = "admin" /\ ~IsAdmin(t)
        /\ tabs' = [tabs EXCEPT ![t] = Shown(t, "app")]
  /\ calls' = Left(t)
  /\ UNCHANGED <<world, logins, live, names, store>>

\* Links of the public pages, of AppHeader and of RoleSwitcher.  The page under a
\* guard is rendered for its user only.
Links(t) ==
  CASE tabs[t].place = "login"                     -> {"other"}
    [] tabs[t].place = "other"                     -> {"login"}
    [] tabs[t].place = "admin" /\ IsAdmin(t)       -> {"app"}
    [] tabs[t].place \in {"app", "settings"} /\ SignedIn(t) ->
         ({"app", "settings"} \ {tabs[t].place}) \cup (IF IsAdmin(t) THEN {"admin"} ELSE {})
    [] OTHER                                       -> {}

Go(t, place) ==
  /\ Waits /\ place \in Links(t)
  /\ tabs' = [tabs EXCEPT ![t] = Shown(t, place)]
  /\ calls' = Left(t)
  /\ UNCHANGED <<world, logins, live, names, store>>

-----------------------------------------------------------------------------
(* Forms and buttons                                                       *)

FormShown(t, form) ==
  /\ form \in Forms[tabs[t].place] \ tabs[t].busy
  /\ tabs[t].place \in Protected => SignedIn(t)

SubmitUnshown(t, form, c) ==  \* mutant
  /\ form \in {"login", "other", "password"}
  /\ form \notin tabs[t].busy /\ Alone(t) /\ Waits /\ Free(c)
  /\ tabs' = [tabs EXCEPT ![t].busy = @ \cup {form}]
  /\ calls' = [calls EXCEPT ![c] = Request(t, form, 0)]
  /\ UNCHANGED <<world, logins, live, names, store>>

Submit(t, form, c) ==
  /\ form \in {"login", "other", "password"}
  /\ FormShown(t, form) /\ Alone(t) /\ Waits /\ Free(c)
  /\ tabs' = [tabs EXCEPT ![t].busy = @ \cup {form}]
  /\ calls' = [calls EXCEPT ![c] = Request(t, form, 0)]
  /\ UNCHANGED <<world, logins, live, names, store>>

\* handleSave of ProfileSection, disabled while the name is the provider's: whoever that
\* is, the request goes with the token of localStorage.
SaveProfile(t, name, c) ==
  /\ FormShown(t, "save") /\ Alone(t) /\ Waits /\ Free(c) /\ name # tabs[t].user.name
  /\ tabs' = [tabs EXCEPT ![t].busy = @ \cup {"save"}]
  /\ calls' = [calls EXCEPT ![c] = [Request(t, "save", store.access) EXCEPT !.name = name]]
  /\ UNCHANGED <<world, logins, live, names, store>>

ClearAuth == Nobody

\* The end of provider.logout.
SignedOut(t) ==
  /\ store' = ClearAuth
  /\ tabs' = [tabs EXCEPT ![t] = [Shown(t, "login") EXCEPT !.user = NoUser]]

\* Sign out of AppHeader: it reads the refresh token, and awaits the API if there is one.
Logout(t, c) ==
  /\ tabs[t].place \in {"app", "settings"} /\ SignedIn(t) /\ Alone(t) /\ Waits /\ Free(c)
  /\ IF store.refresh # 0
     THEN /\ calls' = [calls EXCEPT ![c] = Request(t, "logout", store.refresh)]
          /\ UNCHANGED <<store, tabs>>
     ELSE SignedOut(t) /\ calls' = Left(t)
  /\ UNCHANGED <<world, logins, live, names>>

\* Log out of the admin sidebar: no API, and the provider keeps its user.
SidebarClearedTokens == [Nobody EXCEPT !.user = store.user]  \* mutant
SidebarCleared == Nobody
SidebarLogout(t) ==
  /\ tabs[t].place = "admin" /\ IsAdmin(t) /\ Waits
  /\ store' = SidebarCleared
  /\ tabs' = [tabs EXCEPT ![t] = Shown(t, "login")]
  /\ calls' = Left(t)
  /\ UNCHANGED <<world, logins, live, names>>

-----------------------------------------------------------------------------
(* The API                                                                 *)

Unserved(c, ops) == calls[c].op \in ops /\ calls[c].at = "sent"

\* Nothing waits for the answer when the document was unloaded.
Answer(c, call) ==
  calls' = [calls EXCEPT ![c] = IF call.tab = "none" THEN Idle ELSE [call EXCEPT !.at = "answered"]]

ServeLogin(c, a) ==
  /\ Unserved(c, {"login"}) /\ Len(logins) < MaxLogins
  /\ logins' = Append(logins, a)
  /\ live' = live \cup {Len(logins) + 1}
  /\ Answer(c, [calls[c] EXCEPT !.login = Len(logins) + 1, !.name = names[a]])
  /\ UNCHANGED <<world, names, store, tabs>>

ServeLogout(c) ==
  /\ Unserved(c, {"logout"})
  /\ live' = live \ {calls[c].login}
  /\ Answer(c, calls[c])
  /\ UNCHANGED <<world, logins, names, store, tabs>>

\* update_profile stores data.name.strip(); the page does not look at what it answers.
ServeSave(c) ==
  /\ Unserved(c, {"save"}) /\ calls[c].login # 0
  /\ names' = [names EXCEPT ![logins[calls[c].login]] = Strip(calls[c].name)]
  /\ Answer(c, calls[c])
  /\ UNCHANGED <<world, logins, live, store, tabs>>

\* Registration and the reset mail leave nothing that this module looks at.
ServePublic(c) ==
  /\ Unserved(c, {"other"})
  /\ Answer(c, calls[c])
  /\ UNCHANGED <<world, logins, live, names, store, tabs>>

\* For the password form the only answer: the API has no such route.
Refuse(c) ==
  /\ Unserved(c, {"login", "other", "save", "password"})
  /\ Answer(c, [calls[c] EXCEPT !.ok = FALSE])
  /\ UNCHANGED <<world, logins, live, names, store, tabs>>

-----------------------------------------------------------------------------
(* Answers                                                                 *)

Answered(c, ops) == calls[c].op \in ops /\ calls[c].at = "answered"
Done(c) == [Left(calls[c].tab) EXCEPT ![c] = Idle]

\* The form is usable again, if it is still there.
FormDone(c) ==
  tabs' = [tabs EXCEPT ![calls[c].tab].busy = IF calls[c].here THEN @ \ {calls[c].op} ELSE @]

\* router.push goes on even when the login page was left.
LoginAnswered(c) ==
  /\ Answered(c, {"login"}) /\ calls[c].ok
  /\ LET n == calls[c].login
         home == IF logins[n] \in Admins THEN "admin" ELSE "app"
     IN  /\ store' = Stored(n, calls[c].name)
         /\ tabs' = [tabs EXCEPT ![calls[c].tab] = Shown(calls[c].tab, home)]
  /\ calls' = Done(c)
  /\ UNCHANGED <<world, logins, live, names>>

\* Register goes to the login page; forgot-password shows a note in place of its form.
OtherAnswered(c) ==
  /\ Answered(c, {"other"}) /\ calls[c].ok
  /\ \/ /\ tabs' = [tabs EXCEPT ![calls[c].tab] = Shown(calls[c].tab, "login")]
        /\ calls' = Done(c)
     \/ UNCHANGED tabs /\ calls' = [calls EXCEPT ![c] = Idle]
  /\ UNCHANGED <<world, logins, live, names, store>>

\* The rest of provider.logout runs whatever fetch does.
LogoutEnds(c) ==
  /\ SignedOut(calls[c].tab)
  /\ calls' = Done(c)
  /\ UNCHANGED <<world, logins, live, names>>

LogoutAnswered(c) == Answered(c, {"logout"}) /\ LogoutEnds(c)

\* if (res.ok) the stored user, whoever that is by now, gets the name as it was typed.
SavedUserAlways(c) ==  \* mutant
  IF store.user # NoUser THEN [store EXCEPT !.user.name = calls[c].name] ELSE store
SavedUser(c) ==
  IF calls[c].ok /\ store.user # NoUser THEN [store EXCEPT !.user.name = calls[c].name] ELSE store

SaveAnswered(c) ==
  /\ Answered(c, {"save"})
  /\ store' = SavedUser(c)
  /\ FormDone(c)
  /\ calls' = [calls EXCEPT ![c] = Idle]
  /\ UNCHANGED <<world, logins, live, names>>

RefusalAnswered(c) ==
  /\ Answered(c, {"login", "other", "password"}) /\ ~calls[c].ok
  /\ FormDone(c)
  /\ calls' = [calls EXCEPT ![c] = Idle]
  /\ UNCHANGED <<world, logins, live, names, store>>

\* fetch throws: caught by the public forms and by logout, before or after the API
\* served it; not by the forms of the settings page, which stay busy.
LogoutFailsUncaught(c) ==  \* mutant
  /\ calls' = [calls EXCEPT ![c] = Idle]
  /\ UNCHANGED <<world, logins, live, names, store, tabs>>
LogoutFails(c) == LogoutEnds(c)

Lose(c) ==
  /\ ~Free(c) /\ (world = "rough" \/ calls[c].op = "logout")
  /\ IF calls[c].op = "logout" /\ calls[c].tab # "none"
     THEN LogoutFails(c)
     ELSE /\ calls' = [calls EXCEPT ![c] = Idle]
          /\ IF calls[c].op \in Public /\ calls[c].tab # "none"
             THEN FormDone(c) ELSE UNCHANGED tabs
          /\ UNCHANGED <<world, logins, live, names, store>>

-----------------------------------------------------------------------------

UserStep(t) ==
  \/ \E place \in Public \cup Protected : Load(t, place) \/ Go(t, place)
  \/ SidebarLogout(t)
  \/ \E c \in Calls : \/ Logout(t, c)
                      \/ \E form \in Public \cup {"password"} : Submit(t, form, c)
                      \/ \E name \in Names : SaveProfile(t, name, c)

PageStep(t) == Mount(t) \/ Guard(t)

Serve(c) ==
  \/ \E a \in Accounts : ServeLogin(c, a)
  \/ ServeLogout(c) \/ ServeSave(c) \/ ServePublic(c) \/ Refuse(c)

Arrive(c) ==
  LoginAnswered(c) \/ OtherAnswered(c) \/ RefusalAnswered(c) \/ LogoutAnswered(c) \/ SaveAnswered(c)

SessionNext ==
  \/ \E t \in Tabs : UserStep(t) \/ PageStep(t)
  \/ \E c \in Calls : Serve(c) \/ Arrive(c) \/ Lose(c)

SessionSpec == SessionInit /\ [][SessionNext]_vars

-----------------------------------------------------------------------------
(* Properties                                                              *)

\* With n logins so far:
Users(n) == [login : 0 .. n, name : Names]
Stores(n) == [access : 0 .. n, refresh : 0 .. n, user : Users(n)]
TabRecords(n) == [place : Public \cup Protected, loading : BOOLEAN, user : Users(n),
                  busy : SUBSET (Public \cup {"save", "password"})]
CallRecords(n) == [op : Public \cup {"none", "logout", "save", "password"},
                   tab : Tabs \cup {"none"}, here : BOOLEAN, at : {"sent", "answered"},
                   ok : BOOLEAN, login : 0 .. n, name : Names]

\* Types; a tab is busy with forms of its page only, and the API's names have no blanks
\* around them.
SessionTypeOK ==
  /\ world \in {"calm", "rough"}
  /\ logins \in Seq(Accounts) /\ Len(logins) <= MaxLogins
  /\ live \subseteq 1 .. Len(logins)
  /\ names \in [Accounts -> StrippedNames]
  /\ store \in Stores(Len(logins))
  /\ tabs \in [Tabs -> TabRecords(Len(logins))]
  /\ calls \in [Calls -> CallRecords(Len(logins))]
  /\ \A t \in Tabs : tabs[t].busy \subseteq Forms[tabs[t].place]

\* Whatever the tabs do at one time, with logins, sign-outs and saved names that overlap,
\* localStorage holds the tokens and the user entry of one login, or nothing.  It says less
\* than one would like: the name in that entry may be one that a tab saved for another
\* account, and a tab loaded earlier goes on showing the account it was loaded with.
StoreIsOneSession == store.access = store.refresh /\ store.user.login = store.access

\* What all tabs read from localStorage is what the API knows: a session that no
\* sign-out has revoked, and the account's name, through saves and sign-outs of
\* other tabs.  The name is the API's but for the blanks around it, which the
\* settings page keeps and the API strips.
CalmStoreIsTrue ==
  world = "calm" /\ Quiet /\ store.refresh # 0 =>
    /\ store.refresh \in live
    /\ Strip(store.user.name) = names[logins[store.refresh]]

\* A sign-out that is under way ends in one way in the browser, whether or not the API
\* answers: the tab has no user and localStorage not the session that was to end.  When
\* the API did answer, it has revoked that session; a lost request may leave it live.
SigningOut(c, t, n) ==
  calls[c].op = "logout" /\ calls[c].tab = t /\ calls[c].login = n

SignedOutFor(c, t, n) ==
  /\ store'.refresh # n /\ tabs'[t].user = NoUser
  /\ calls[c].at = "answered" => n \notin live'

SignOutEnds ==
  [][world = "calm" =>
       \A c \in Calls, t \in Tabs, n \in 1 .. Len(logins) :
         SigningOut(c, t, n) /\ ~SigningOut(c, t, n)' => SignedOutFor(c, t, n)]_vars

=============================================================================
