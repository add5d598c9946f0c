---------------------------- MODULE ClientSession ----------------------------
(***************************************************************************)
(* The session of a browser. Its tabs share the record in localStorage and *)
(* never hear of each other: a tab copies the record into its React state  *)
(* when it is loaded, and every request carries the token that is stored   *)
(* when it is sent. Answers arrive in any order, some after the session    *)
(* they belong to is gone. The access token lives 15 minutes, and the      *)
(* client never exchanges the refresh token.                               *)
(***************************************************************************)
EXTENDS Integers, FiniteSets

CONSTANTS
  Tabs, Accounts,
  Sessions,   \* the access tokens that login and register issue
  OwnerOf,
  MaxCalls,   \* requests on their way at a time
  MaxLoads,   \* loads of a page by the user
  Nobody, NoToken

SessionAssumption ==
  /\ OwnerOf \in [Sessions -> Accounts] /\ Nobody \notin Accounts /\ NoToken \notin Sessions
  /\ MaxCalls \in Nat /\ MaxLoads \in Nat

VARIABLES
  issued, expired,  \* the tokens, for the services
  stored,           \* the record in localStorage
  held,             \* tab -> its React state; without one it shows a login page
  cache,            \* tab -> the account whose workspaces its query client holds
  calls,
  loads,
  \* history
  left,       \* sessions that were signed out of, or replaced
  strayed,    \* live sessions that an answer to another one's request removed
  overtaken,  \* accounts whose profile was being saved when a session was stored
  lived       \* tab -> accounts that were signed in since it was loaded

server  == <<issued, expired>>
history == <<left, strayed, overtaken, lived>>
vars    == <<server, stored, held, cache, calls, loads, history>>

NoSession == [user |-> Nobody, token |-> NoToken]
Session   == [user : Accounts, token : Sessions]
Call == [tab : Tabs, do : {"login", "read", "save", "logout"},
         user : Accounts \cup {Nobody}, token : Sessions \cup {NoToken}]

Live == issued \ expired
AccountsOf(record) == IF record = NoSession THEN {} ELSE {record.user, OwnerOf[record.token]}

Init ==
  /\ issued = {} /\ expired = {} /\ stored = NoSession
  /\ held = [t \in Tabs |-> NoSession] /\ cache = [t \in Tabs |-> Nobody]
  /\ calls = {} /\ loads = 0
  /\ left = {} /\ strayed = {} /\ overtaken = {} /\ lived = [t \in Tabs |-> {}]

-------------------------------------------------------------------------------
(* Plausible mistakes: not part of the system. *)

\* an error without a response ends the session as well
FailsLike401(k) ==
  /\ k \in calls /\ calls' = calls \ {k}
  /\ stored' = NoSession
  /\ UNCHANGED <<server, held, cache, loads, history>>

\* users may update any profile
MaySaveAny(k) == k.token \in Live

\* the session is kept in the React state alone
SignInUnstored(t, s) ==
  /\ held' = [held EXCEPT ![t] = [user |-> OwnerOf[s], token |-> s]]
  /\ UNCHANGED stored

\* a page that is loaded keeps what the old one had fetched
LoadedStale(t, record) ==
  /\ held' = [held EXCEPT ![t] = record]
  /\ calls' = {k \in calls : k.tab # t}
  /\ lived' = [lived EXCEPT ![t] = AccountsOf(record)]
  /\ UNCHANGED cache

-------------------------------------------------------------------------------
(* The record and its copies *)

\* what a load leaves of a tab: its requests and its query client are gone
Loaded(t, record) ==
  /\ held' = [held EXCEPT ![t] = record]
  /\ cache' = [cache EXCEPT ![t] = Nobody]
  /\ calls' = {k \in calls : k.tab # t}
  /\ lived' = [lived EXCEPT ![t] = AccountsOf(record)]

Load(t) ==
  /\ loads < MaxLoads /\ loads' = loads + 1
  /\ Loaded(t, stored)
  /\ UNCHANGED <<server, stored, left, strayed, overtaken>>

\* setSession
SignIn(t, s) ==
  /\ stored' = [user |-> OwnerOf[s], token |-> s]
  /\ held' = [held EXCEPT ![t] = stored']

\* updateUser; a user without tokens is nobody
Update(t, a) ==
  /\ held' = IF held[t] = NoSession THEN held ELSE [held EXCEPT ![t].user = a]
  /\ stored' = IF stored = NoSession THEN stored ELSE [stored EXCEPT !.user = a]

\* removeItem: the session is signed out of, or it is removed by a request
\* that carried another one
Removed(k) ==
  /\ stored' = NoSession
  /\ left' = IF k.do = "logout" /\ k.token = stored.token THEN left \cup {stored.token} ELSE left
  /\ strayed' = IF k.token # stored.token \/ k.do = "login"
                THEN strayed \cup ({stored.token} \cap Live) ELSE strayed

-------------------------------------------------------------------------------
(* Requests. A tab with a React state sends what the user asks for.        *)

Begin(t, do) ==
  /\ Cardinality(calls) < MaxCalls
  /\ (do = "login") <=> (held[t] = NoSession)
  /\ calls' = calls \cup {[tab |-> t, do |-> do, user |-> held[t].user,
                           token |-> IF do = "logout" THEN held[t].token ELSE stored.token]}
  /\ UNCHANGED <<server, stored, held, cache, loads, history>>

\* what the API gateway looks at; the routes of auth-service are public
Authorized(k) == k.do \in {"login", "logout"} \/ k.token \in Live

\* login and register
SignedIn(k, s) ==
  /\ k \in calls /\ k.do = "login" /\ calls' = calls \ {k}
  /\ s \notin issued /\ issued' = issued \cup {s}
  /\ SignIn(k.tab, s)
  /\ left' = left \cup ({stored.token} \cap Sessions)
  /\ overtaken' = overtaken \cup {c.user : c \in {d \in calls : d.do = "save"}}
  /\ lived' = [t \in Tabs |-> lived[t] \cup {OwnerOf[s]}]
  /\ UNCHANGED <<expired, cache, loads, strayed>>

Read(k) ==
  /\ k \in calls /\ k.do = "read" /\ Authorized(k) /\ calls' = calls \ {k}
  /\ cache' = [cache EXCEPT ![k.tab] = OwnerOf[k.token]]
  /\ UNCHANGED <<server, stored, held, loads, history>>

\* users.updateById refuses the profile of another account
MaySave(k) == k.token \in Live /\ OwnerOf[k.token] = k.user

Saved(k) ==
  /\ k \in calls /\ k.do = "save" /\ MaySave(k) /\ calls' = calls \ {k}
  /\ Update(k.tab, k.user)
  /\ UNCHANGED <<server, cache, loads, history>>

\* the interceptor of the answers; on the pages of login and register no
\* page is loaded
Unauthorized(k) ==
  /\ k \in calls /\ (k.do = "login" \/ ~Authorized(k))
  /\ Removed(k)
  /\ IF held[k.tab] = NoSession
     THEN calls' = calls \ {k} /\ UNCHANGED <<held, cache, lived>>
     ELSE Loaded(k.tab, NoSession)
  /\ UNCHANGED <<server, loads, overtaken>>

\* signOut: clearSession whatever the answer, and no page is loaded
SignedOut(k) ==
  /\ k \in calls /\ k.do = "logout" /\ calls' = calls \ {k}
  /\ Removed(k)
  /\ held' = [held EXCEPT ![k.tab] = NoSession]
  /\ UNCHANGED <<server, cache, loads, overtaken, lived>>

\* a timeout, a refusal other than 401
Fails(k) ==
  /\ k \in calls /\ k.do # "logout" /\ calls' = calls \ {k}
  /\ UNCHANGED <<server, stored, held, cache, loads, history>>

Expire(s) ==
  /\ s \in Live /\ expired' = expired \cup {s}
  /\ UNCHANGED <<issued, stored, held, cache, calls, loads, history>>

-------------------------------------------------------------------------------
Next ==
  \/ \E t \in Tabs : Load(t) \/ \E do \in {"login", "read", "save", "logout"} : Begin(t, do)
  \/ \E k \in calls : \/ \E s \in Sessions : SignedIn(k, s)
                      \/ Read(k) \/ Saved(k) \/ Unauthorized(k) \/ SignedOut(k) \/ Fails(k)
  \/ \E s \in Sessions : Expire(s)

Spec == Init /\ [][Next]_vars

-------------------------------------------------------------------------------
TypeOK ==
  /\ expired \subseteq issued /\ issued \subseteq Sessions
  /\ stored \in Session \cup {NoSession} /\ held \in [Tabs -> Session \cup {NoSession}]
  /\ cache \in [Tabs -> Accounts \cup {Nobody}] /\ calls \subseteq Call /\ loads \in 0..MaxLoads
  /\ left \subseteq issued /\ strayed \subseteq issued
  /\ lived \in [Tabs -> SUBSET Accounts]

\* A session that is still good is the stored one, unless the user signed out
\* of it or in again, or a late answer or a refused login of another tab took
\* it away (AC 29-46, AP 96-102)
LiveSessionIsStored ==
  \A s \in Live \ (left \cup strayed) : stored.token = s

\* The stored user and the stored token belong to one account, unless that
\* user's profile was being saved when the session was replaced (AP 68-94)
StoredIsWhole ==
  stored # NoSession /\ stored.user # OwnerOf[stored.token] => stored.user \in overtaken

\* A tab shows the workspaces of the account it names, if no second account
\* has signed in since it was loaded: a sign-out leaves the query client as it
\* is, and a request of one account carries the token of another (AC 8-27)
ShownIsOwn ==
  \A t \in Tabs : held[t] # NoSession /\ cache[t] \notin {Nobody, held[t].user}
    => Cardinality(lived[t]) > 1

SessionsAreTrue == LiveSessionIsStored /\ StoredIsWhole /\ ShownIsOwn
=============================================================================
