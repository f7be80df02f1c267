------------------------------ MODULE Sessions ------------------------------
(***************************************************************************)
(* The sign-in of one user: the refresh sessions the API stores and        *)
(* rotates, and the tabs of one browser that share the tokens.             *)
(*                                                                         *)
(* An access token is good until it expires, whatever becomes of the       *)
(* session; a refresh token is good once.  Both are issued together and    *)
(* bear one name here.  A request answered 401 makes its tab refresh the   *)
(* tokens, once for all its requests, and is then sent again.  A handler   *)
(* of the API is a step for each statement it waits for.                   *)
(***************************************************************************)
EXTENDS Integers, FiniteSets

CONSTANTS
    Tab,
    Call,           \* bound: the requests in flight, each <<its tab, a number>>
    Token,          \* names of tokens; used up and forgotten, one is reissued
    None,
    MaxCalls,       \* bound: the requests in flight at once
    MaxLogins,      \* bound: logins
    MaxExpiries,    \* bound: access tokens that expire
    MaxTroubles     \* bound: what may end a session from outside

ASSUME TabAssumption == IsFiniteSet(Tab)

ASSUME CallAssumption == Call \subseteq Tab \X Nat

ASSUME BoundsAssumption ==
    MaxCalls \in Nat /\ MaxLogins \in Nat /\ MaxExpiries \in Nat /\ MaxTroubles \in Nat

VARIABLES
    user,           \* the User row
    session,        \* the RefreshSession rows
    valid,          \* the access tokens that have not expired
    storage,        \* the browser's localStorage
    tab,            \* each tab's page and what its store says
    request,        \* the requests in flight
    refresh,        \* the refreshes in flight
    logins, expiries, troubles

vars == <<user, session, valid, storage, tab, request, refresh, logins, expiries, troubles>>

-----------------------------------------------------------------------------
(* Rows and records *)

TabOf(q) == q[1]

User == [active : BOOLEAN, requirePasswordChange : BOOLEAN]

SessionRow == [login : 1 .. MaxLogins, revoked : BOOLEAN, expired : BOOLEAN]

ASSUME NoneAssumption == None \notin SessionRow \cup Token

Storage == [access : Token \cup {None}, refresh : Token \cup {None},
            isAuthenticated : BOOLEAN]

Cleared == [access |-> None, refresh |-> None, isAuthenticated |-> FALSE]

TabState == [page : {"closed", "app", "login"}, isAuthenticated : BOOLEAN,
             loggingIn : 0 .. MaxLogins]

\* A request waits for the refresh that the request `awaits` began.
Request == [step : {"none", "sent", "waiting"}, access : Token \cup {None},
            retried : BOOLEAN, awaits : Call \cup {None}]

NoRequest == [step |-> "none", access |-> None, retried |-> FALSE, awaits |-> None]

\* heard: the page that sent it is still there.
Refresh == [step : {"none", "sent", "read", "rotating", "done", "failed"},
            token : Token \cup {None}, next : Token \cup {None}, heard : BOOLEAN]

NoRefresh == [step |-> "none", token |-> None, next |-> None, heard |-> FALSE]

TypeOK ==
    /\ user \in User
    /\ session \in [Token -> SessionRow \cup {None}]
    /\ valid \subseteq Token
    /\ storage \in Storage
    /\ tab \in [Tab -> TabState]
    /\ request \in [Call -> Request]
    /\ refresh \in [Call -> Refresh]
    /\ logins \in 0 .. MaxLogins /\ expiries \in 0 .. MaxExpiries
    /\ troubles \in 0 .. MaxTroubles
    /\ \A q \in Call : request[q].awaits # None => refresh[request[q].awaits].heard

Usable(s) == session[s] # None /\ ~session[s].revoked /\ ~session[s].expired

\* A token nobody holds any more, and whose session can never be used.
Fresh ==
    {n \in Token :
        /\ ~Usable(n) /\ n \notin {storage.access, storage.refresh}
        /\ \A q \in Call : n \notin {request[q].access, refresh[q].token, refresh[q].next}}

\* Which one is issued makes no difference.
Issued == CHOOSE n \in Fresh : TRUE

server == <<user, session, valid, logins, expiries, troubles>>

-----------------------------------------------------------------------------
(* The browser *)

Send(q) ==
    /\ tab[TabOf(q)].page = "app" /\ tab[TabOf(q)].isAuthenticated
    /\ request[q].step = "none" /\ refresh[q].step = "none"
    /\ Cardinality({p \in Call : request[p].step # "none"}) < MaxCalls
    /\ request' = [request EXCEPT ![q] = [NoRequest EXCEPT !.step = "sent", !.access = storage.access]]
    /\ UNCHANGED <<server, storage, tab, refresh>>

\* The access token is still good when the request reaches the API.
Answer(q) ==
    /\ request[q].step = "sent" /\ request[q].access \in valid
    /\ request' = [request EXCEPT ![q] = NoRequest]
    /\ UNCHANGED <<server, storage, tab, refresh>>

\* The page no longer listens to a refresh; the API may be at it all the same.
Dropped(f) ==
    IF f.step \in {"none", "done", "failed"} THEN NoRefresh ELSE [f EXCEPT !.heard = FALSE]

\* The page is loaded anew: what it was doing is gone, and its store is read
\* back from the storage, corrected by whether there is a token.
Loaded(t, page, stored) ==
    LET signedIn == stored.isAuthenticated /\ stored.access # None
    IN /\ tab' = [tab EXCEPT ![t] = [page |-> page, isAuthenticated |-> signedIn,
                                     loggingIn |-> 0]]
       /\ storage' = [stored EXCEPT !.isAuthenticated = signedIn]
       /\ request' = [q \in Call |-> IF TabOf(q) = t THEN NoRequest ELSE request[q]]
       /\ refresh' = [q \in Call |->
                         IF TabOf(q) = t THEN Dropped(refresh[q]) ELSE refresh[q]]

\* Mutant of SignOut: on the login page who else waited is left waiting.
SignOutAlone(q) ==
    IF tab[TabOf(q)].page = "login"
    THEN /\ storage' = Cleared
         /\ request' = [request EXCEPT ![q] = NoRequest]
         /\ refresh' = [refresh EXCEPT ![q] = Dropped(@)]
         /\ UNCHANGED tab
    ELSE Loaded(TabOf(q), "login", Cleared)

\* clearSessionAndRedirectToLogin.  On the login page nothing is loaded anew.
SignOut(q) ==
    IF tab[TabOf(q)].page = "login"
    THEN /\ storage' = Cleared
         /\ request' = [p \in Call |->
                           IF TabOf(p) = TabOf(q) /\ (p = q \/ request[p].awaits = q)
                           THEN NoRequest ELSE request[p]]
         /\ refresh' = [refresh EXCEPT ![q] = Dropped(@)]
         /\ UNCHANGED tab
    ELSE Loaded(TabOf(q), "login", Cleared)

\* Mutant of InFlight: every request refreshes for itself.
InFlightNever(t) == {}

\* The refresh the tab is waiting for, if any: refreshPromise.
InFlight(t) == {p \in Call : TabOf(p) = t /\ refresh[p].step # "none" /\ refresh[p].heard}

\* A 401: wait for the refresh in flight, or begin one; a request that has
\* been refused before, or a tab with no refresh token, signs out.
Refused(q) ==
    LET t == TabOf(q)
        Wait(p) == request' = [request EXCEPT ![q] =
                       [@ EXCEPT !.step = "waiting", !.retried = TRUE, !.awaits = p]]
    IN /\ request[q].step = "sent" /\ request[q].access \notin valid
       /\ \/ /\ ~request[q].retried
             /\ \E p \in InFlight(t) : Wait(p)
             /\ UNCHANGED <<storage, tab, refresh>>
          \/ /\ ~request[q].retried
             /\ InFlight(t) = {} /\ refresh[q].step = "none" /\ storage.refresh # None
             /\ Wait(q)
             /\ refresh' = [refresh EXCEPT ![q] =
                   [step |-> "sent", token |-> storage.refresh, next |-> None, heard |-> TRUE]]
             /\ UNCHANGED <<storage, tab>>
          \/ /\ request[q].retried \/ (InFlight(t) = {} /\ storage.refresh = None)
             /\ SignOut(q)
    /\ UNCHANGED server

\* Mutant of Refreshed: only the request that asked is sent again.
RefreshedAlone(q) ==
    /\ refresh[q].step = "done" /\ refresh[q].heard
    /\ storage' = [storage EXCEPT !.access = refresh[q].next, !.refresh = refresh[q].next]
    /\ request' = [request EXCEPT ![q] =
                      [@ EXCEPT !.step = "sent", !.access = refresh[q].next, !.awaits = None]]
    /\ refresh' = [refresh EXCEPT ![q] = NoRefresh]
    /\ UNCHANGED <<server, tab>>

\* The new tokens are stored, and all who waited for them are sent again.
Refreshed(q) ==
    /\ refresh[q].step = "done" /\ refresh[q].heard
    /\ storage' = [storage EXCEPT !.access = refresh[q].next, !.refresh = refresh[q].next]
    /\ request' = [p \in Call |->
                      IF TabOf(p) = TabOf(q) /\ request[p].awaits = q
                      THEN [request[p] EXCEPT !.step = "sent", !.access = refresh[q].next,
                                              !.awaits = None]
                      ELSE request[p]]
    /\ refresh' = [refresh EXCEPT ![q] = NoRefresh]
    /\ UNCHANGED <<server, tab>>

RefreshFailed(q) ==
    /\ refresh[q].step = "failed" /\ refresh[q].heard
    /\ SignOut(q)
    /\ UNCHANGED server

\* The answer comes to a page that is no longer there.
Unheard(q) ==
    /\ refresh[q].step \in {"done", "failed"} /\ ~refresh[q].heard
    /\ refresh' = [refresh EXCEPT ![q] = NoRefresh]
    /\ UNCHANGED <<server, storage, tab, request>>

LogOut(t) ==
    /\ tab[t].page = "app" /\ tab[t].isAuthenticated
    /\ storage' = Cleared
    /\ tab' = [tab EXCEPT ![t].isAuthenticated = FALSE]
    /\ UNCHANGED <<server, request, refresh>>

Trouble == troubles < MaxTroubles /\ troubles' = troubles + 1

\* A page loaded anew never hears the answer to its refresh.
Reload(t) ==
    /\ tab[t].page # "closed"
    /\ IF \E q \in Call : TabOf(q) = t /\ refresh[q].heard THEN Trouble ELSE UNCHANGED troubles
    /\ Loaded(t, tab[t].page, storage)
    /\ UNCHANGED <<user, session, valid, logins, expiries>>

\* The dashboard sends who is not signed in to the login page, and the login
\* page sends who is to the dashboard, or corrects a store without a token.
Redirect(t) ==
    \/ /\ tab[t].page = "app" /\ ~tab[t].isAuthenticated
       /\ tab' = [tab EXCEPT ![t].page = "login"]
       /\ UNCHANGED <<server, storage, request, refresh>>
    \/ /\ tab[t].page = "login" /\ tab[t].isAuthenticated
       /\ \/ /\ storage.access # None
             /\ tab' = [tab EXCEPT ![t].page = "app"]
             /\ UNCHANGED storage
          \/ /\ storage.access = None
             /\ tab' = [tab EXCEPT ![t].isAuthenticated = FALSE]
             /\ storage' = [storage EXCEPT !.isAuthenticated = FALSE]
       /\ UNCHANGED <<server, request, refresh>>

-----------------------------------------------------------------------------
(* The API *)

MayEnter == user.active /\ ~user.requirePasswordChange

\* login: the credentials are checked; the session is created after that.
LogIn(t) ==
    /\ tab[t].page = "login" /\ ~tab[t].isAuthenticated /\ tab[t].loggingIn = 0
    /\ logins < MaxLogins /\ MayEnter
    /\ logins' = logins + 1
    /\ tab' = [tab EXCEPT ![t].loggingIn = logins']
    /\ UNCHANGED <<user, session, valid, expiries, troubles, storage, request, refresh>>

CreateRefreshSession(n, login) ==
    [session EXCEPT ![n] = [login |-> login, revoked |-> FALSE, expired |-> FALSE]]

LoggedIn(t) ==
    /\ tab[t].loggingIn # 0 /\ Fresh # {}
    /\ session' = CreateRefreshSession(Issued, tab[t].loggingIn)
    /\ valid' = valid \cup {Issued}
    /\ storage' = [access |-> Issued, refresh |-> Issued, isAuthenticated |-> TRUE]
    /\ tab' = [tab EXCEPT ![t].loggingIn = 0, ![t].isAuthenticated = TRUE]
    /\ UNCHANGED <<user, logins, expiries, troubles, request, refresh>>

At(q, step) == refresh[q].step = step
To(q, step) == refresh' = [refresh EXCEPT ![q].step = step]

\* refresh: the session is read, before the transaction that rotates it.
ReadSession(q) ==
    /\ At(q, "sent")
    /\ \/ Usable(refresh[q].token) /\ MayEnter /\ To(q, "read")
       \/ ~(Usable(refresh[q].token) /\ MayEnter) /\ To(q, "failed")
    /\ UNCHANGED <<server, storage, tab, request>>

\* Mutant of RevokeOld: how many rows the update met is not asked.
RevokeOldAnyway(q) ==
    /\ At(q, "read")
    /\ \A p \in Call \ {q} : At(p, "rotating") => refresh[p].token # refresh[q].token
    /\ To(q, "rotating")
    /\ UNCHANGED <<server, storage, tab, request>>

\* The conditional update.  It waits while another transaction holds the row,
\* and meets no row when that one has revoked it.
RevokeOld(q) ==
    /\ At(q, "read")
    /\ \A p \in Call \ {q} : At(p, "rotating") => refresh[p].token # refresh[q].token
    /\ \/ Usable(refresh[q].token) /\ To(q, "rotating")
       \/ ~Usable(refresh[q].token) /\ To(q, "failed")
    /\ UNCHANGED <<server, storage, tab, request>>

\* The new session is inserted and the transaction commits.
Rotate(q) ==
    LET old == refresh[q].token
    IN /\ At(q, "rotating") /\ Fresh # {}
       /\ session' = [CreateRefreshSession(Issued, session[old].login) EXCEPT ![old].revoked = TRUE]
       /\ valid' = valid \cup {Issued}
       /\ refresh' = [refresh EXCEPT ![q].step = "done", ![q].next = Issued]
    /\ UNCHANGED <<user, logins, expiries, troubles, storage, tab, request>>

-----------------------------------------------------------------------------
(* What ends a session from outside *)

\* A refresh, or its answer, is lost: before its commit nothing is kept, or
\* the page gives up on a refresh that the API goes on with, unheard.
Lose(q) ==
    /\ Trouble
    /\ \/ /\ refresh[q].step \in {"sent", "read", "rotating", "done"}
          /\ To(q, "failed")
          /\ UNCHANGED <<storage, tab, request>>
       \/ /\ refresh[q].step \in {"sent", "read", "rotating"} /\ refresh[q].heard
          /\ SignOut(q)
    /\ UNCHANGED <<user, session, valid, logins, expiries>>

\* resetPassword.  A session that is being inserted is not yet seen.
ResetPassword ==
    /\ Trouble
    /\ user.active
    /\ user' \in {[user EXCEPT !.requirePasswordChange = b] : b \in BOOLEAN}
    /\ session' = [s \in Token |-> IF session[s] = None THEN None
                                   ELSE [session[s] EXCEPT !.revoked = TRUE]]
    /\ UNCHANGED <<valid, logins, expiries, storage, tab, request, refresh>>

\* update and softDelete of the user; the sessions stay.
SetActive ==
    /\ Trouble
    /\ user' = [user EXCEPT !.active = ~@]
    /\ UNCHANGED <<session, valid, logins, expiries, storage, tab, request, refresh>>

\* logout, which no page of this browser calls; or the session's time is up.
EndSession(s) ==
    /\ Trouble
    /\ Usable(s)
    /\ \A q \in Call : At(q, "rotating") => refresh[q].token # s
    /\ session' \in {[session EXCEPT ![s].revoked = TRUE], [session EXCEPT ![s].expired = TRUE]}
    /\ UNCHANGED <<user, valid, logins, expiries, storage, tab, request, refresh>>

\* Of a token somebody holds, else nobody sees it.  An access token outlives
\* the few seconds a request that was refused takes to be sent again.
ExpireAccess(n) ==
    /\ n \in valid \cap ({storage.access} \cup {request[q].access : q \in Call})
    /\ expiries < MaxExpiries
    /\ \A q \in Call : /\ request[q].retried => request[q].access # n
                       /\ refresh[q].next # n
    /\ valid' = valid \ {n}
    /\ expiries' = expiries + 1
    /\ UNCHANGED <<user, session, logins, troubles, storage, tab, request, refresh>>

-----------------------------------------------------------------------------
\* The tabs that are open are on the login page, and nobody has signed in.
Init ==
    /\ user = [active |-> TRUE, requirePasswordChange |-> FALSE]
    /\ session = [s \in Token |-> None]
    /\ valid = {}
    /\ storage = Cleared
    /\ \E open \in SUBSET Tab \ {{}} :
          tab = [t \in Tab |-> [page |-> IF t \in open THEN "login" ELSE "closed",
                                isAuthenticated |-> FALSE, loggingIn |-> 0]]
    /\ request = [q \in Call |-> NoRequest]
    /\ refresh = [q \in Call |-> NoRefresh]
    /\ logins = 0 /\ expiries = 0 /\ troubles = 0

Handled(q) ==
    \/ Answer(q) \/ Refused(q) \/ Refreshed(q) \/ RefreshFailed(q) \/ Unheard(q)
    \/ ReadSession(q) \/ RevokeOld(q) \/ Rotate(q)

Operator(t) ==
    \/ LogIn(t) \/ LoggedIn(t) \/ LogOut(t) \/ Reload(t) \/ Redirect(t)

Outside ==
    \/ ResetPassword \/ SetActive
    \/ \E q \in Call : Lose(q)
    \/ \E n \in Token : EndSession(n) \/ ExpireAccess(n)

Next ==
    \/ \E q \in Call : Send(q) \/ Handled(q)
    \/ \E t \in Tab : Operator(t)
    \/ Outside

Spec == Init /\ [][Next]_vars

\* The API answers what it is asked, and a page that is there hears it.
FairSpec == Spec /\ \A q \in Call : WF_vars(Handled(q))

-----------------------------------------------------------------------------
(* Properties *)

\* However many refreshes of one token race, one wins: a login never has two
\* sessions that can be used (auth.service.ts refresh).
OneSessionPerLogin ==
    \A s, n \in Token :
        Usable(s) /\ Usable(n) /\ session[s].login = session[n].login => s = n

Open == {t \in Tab : tab[t].page # "closed"}

\* An operator who works in one tab is not signed out by expired access
\* tokens, however many requests are refused at once or late: only by losing
\* an answer, by the session's end or by signing out (http-client.ts
\* refreshPromise).
StaysSignedIn ==
    [][/\ storage.refresh # None /\ storage'.refresh = None
       /\ Cardinality(Open) = 1 /\ troubles' = 0
       => \E t \in Open : LogOut(t)]_vars

\* Every request ends: it is answered, or its page is gone; no chain of
\* refusals and refreshes goes on for ever, and none waits for a refresh that
\* is over (http-client.ts, the response interceptor).
EveryRequestSettles ==
    \A q \in Call : request[q].step # "none" ~> request[q].step = "none"

=============================================================================
